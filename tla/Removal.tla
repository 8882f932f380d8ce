------------------------------- MODULE Removal -------------------------------
(***************************************************************************)
(* The commands that delete: remove-older-than, remove-all-but-n-full,     *)
(* remove-all-inc-of-but-n-full and cleanup (bin/duplicity: remove_old,    *)
(* remove_all_but_n_full, cleanup; collections.py: get_chains_older_than,  *)
(* get_extraneous, BackupChain.delete, BackupSet.delete,                   *)
(* SignatureChain.delete).  A command reads the collection once and then   *)
(* deletes file by file; it may die before any of them, and a deletion     *)
(* that fails is passed over.                                              *)
(*                                                                         *)
(* Abstractions.  Only names matter.  sync_archive runs first, so that the *)
(* archive directory has what the remote has, and the .part files: it is   *)
(* not a variable.  A backup is one step (BackupSession has its parts);    *)
(* one that dies leaves its first volume and .part files.  It may run      *)
(* beside a command that deletes, once that has let go of the lock.        *)
(***************************************************************************)
EXTENDS Naturals, Sequences, FiniteSets, SequencesExt, Chains

CONSTANTS
  MaxTime,      \* bound: backups
  NumVolumes,   \* volumes of a set
  MaxKept,      \* count of remove-all-but-n-full
  LateTimes,    \* may the time of remove-older-than be after the active chain?
  LaterWins,    \* does Python order an int above a BackupSet instance?
  Beside,       \* commands beside which a backup may run, once they are unlocked
  MaxCommands,  \* bound: commands that delete
  MaxMishaps    \* bound: processes that die and, counted twice, deletions that fail

ASSUME BoundsAssumption ==
  /\ MaxTime \in Nat /\ NumVolumes \in Nat \ {0} /\ MaxKept \in Nat
  /\ LateTimes \in BOOLEAN /\ LaterWins \in BOOLEAN
  /\ Beside \subseteq {"remove", "cleanup"}
  /\ MaxCommands \in Nat /\ MaxMishaps \in Nat

Times   == 1..MaxTime
Volumes == 1..NumVolumes
File    == [kind : {"man", "vol", "sig", "part", "lock"}, set : Times, num : 0..NumVolumes]

VARIABLES
  remMan, remVol, remSig,  \* the remote: manifests, volumes, signatures
  part,      \* the set with .part files, 0 if there is none
  base,      \* the set an incremental set starts from, 0 for a full one
  clock,     \* time of the last backup
  pc,        \* "idle", "partial", "delete"
  command,   \* [op, extra]
  todo,      \* files still to be deleted, in order, the lock file among them
  unlocked,  \* has the command released the lock?
  commands, deaths, failures,  \* bounds
  complete,  \* history: backups that were completed
  doomed,    \* history: sets the user asked to be removed
  gaveUp     \* history: a deletion failed

remote == <<remMan, remVol, remSig>>
bounds == <<commands, deaths, failures>>
vars   == <<remote, part, base, clock, pc, command, todo, unlocked, bounds,
            complete, doomed, gaveUp>>

-----------------------------------------------------------------------------
(* The collection as a command reads it. *)

PartSet == {part} \ {0}

\* A set with a manifest; a .part manifest counts as one.
HasManifest == remMan \cup PartSet

Chains == BackupChains(HasManifest, base, LaterWins)

Active == CHOOSE C \in OrNone(LatestEnd(Chains)) : TRUE

LocalSigChains  == SigChains(remSig \cup PartSet, base)
RemoteSigChains == SigChains(remSig, base)

EndsOf(chains) == {End(C) : C \in chains}

\* set_matched_chain_pair: the signatures of the last set are missing, those
\* of the set before it are there.
Drops ==
  LET ends == EndsOf(LocalSigChains)  last == End(Active) IN
    /\ last # 0 /\ last \notin ends
    /\ base[last] \in ends /\ base[base[last]] # 0

Matched ==
  Active # {} /\ (Drops \/ End(Active) \in EndsOf(LocalSigChains))

\* The incremental sets that join no chain when their turn comes; one that is
\* replaced later is not among them.
Orphaned ==
  {t \in HasManifest :
     /\ base[t] # 0
     /\ \A C \in BackupChains(HasManifest \cap 1..(t - 1), base, LaterWins) :
          WithInc(C, t, base, LaterWins) = C}

Incomplete == {t \in Times : remVol[t] # {} /\ t \notin HasManifest}
              \cup (IF Drops THEN {End(Active)} ELSE {})

\* The last set of the chain with the newest full set.
LastSet ==
  LET newest == CHOOSE C \in OrNone(NewestFull(Chains, base)) : TRUE
  IN  IF Drops /\ newest = Active THEN base[End(newest)] ELSE End(newest)

-----------------------------------------------------------------------------
(* What is deleted, in which order *)

Man(t)    == [kind |-> "man", set |-> t, num |-> 0]
Vol(t, k) == [kind |-> "vol", set |-> t, num |-> k]
Sig(t)    == [kind |-> "sig", set |-> t, num |-> 0]
PartOf(t) == [kind |-> "part", set |-> t, num |-> 0]
Lock(t)   == [kind |-> "lock", set |-> t, num |-> 0]

Ascending(S)  == SelectSeq([i \in 1..End(S) |-> i], LAMBDA i : i \in S)
Descending(S) == Reverse(Ascending(S))

\* For each x of s in turn, the files op(x).
Each(s, op(_)) == FlattenSeq([i \in DOMAIN s |-> op(s[i])])

\* BackupSet.get_filenames: the volumes, then the manifest if it is remote.
FilesOf(t) ==
  [i \in 1..Cardinality(remVol[t]) |-> Vol(t, Ascending(remVol[t])[i])]
  \o (IF t \in remMan THEN <<Man(t)>> ELSE <<>>)

\* Mutant of DeleteSet: in the order of the list.
DeleteSetForward(t) ==
  FilesOf(t) \o (IF t = part THEN <<PartOf(t)>> ELSE <<>>) \o <<Lock(t)>>

\* BackupSet.delete: the manifest, the volumes, then what is local; and with every
\* set the lock is released.
DeleteSet(t) ==
  Reverse(FilesOf(t)) \o (IF t = part THEN <<PartOf(t)>> ELSE <<>>) \o <<Lock(t)>>

Kept(C, keepFull) == IF keepFull THEN {t \in C : base[t] # 0} ELSE C

\* Mutant of DeleteChain: from the full set on.
DeleteChainForward(C, keepFull) == Each(Ascending(Kept(C, keepFull)), DeleteSet)

\* BackupChain.delete: the last set first.
DeleteChain(C, keepFull) == Each(Descending(Kept(C, keepFull)), DeleteSet)

DeleteSigChain(C, keepFull) ==
  Each(Descending(Kept(C, keepFull)), LAMBDA t : <<Sig(t)>>)

\* Mutant of OldChains: the end of the chain is not what counts.
OldChainsByStart(t) ==
  {C \in Chains : (\E s \in C : base[s] = 0 /\ s < t) /\ ~(Matched /\ C = Active)}

\* get_chains_older_than: not the matched chain.
OldChains(t) == {C \in Chains : End(C) < t /\ ~(Matched /\ C = Active)}

\* Mutant of OldSigChains: a chain that ends at the time is old.
OldSigChainsAtTime(t) == {C \in RemoteSigChains : End(C) <= t}

\* get_signature_chains_older_than: not the matched one, which is local, since
\* of two that match the local one is taken.
OldSigChains(t) == {C \in RemoteSigChains : End(C) < t}

ByEnd(chains) == SetToSortSeq(chains, LAMBDA C, D : End(C) > End(D))

\* remove_old.  The signatures go first; the oldest chain goes last.
RemoveOldFiles(t, keepFull) ==
  LET old == {C \in OldChains(t) : keepFull => \E s \in C : base[s] # 0}
  IN  IF old = {} THEN <<>>
      ELSE Each(ByEnd(OldSigChains(t)), LAMBDA C : DeleteSigChain(C, keepFull))
           \o Each(ByEnd(old), LAMBDA C : DeleteChain(C, keepFull))

\* With --extra-clean: signature chains other than those with the times of the
\* matched one.
OldSignatures ==
  {C \in RemoteSigChains :
     ~(Matched /\ End(C) = IF Drops THEN base[End(Active)] ELSE End(Active))}

\* Mutant of OrphanedSigs: they are left.
OrphanedSigsNone == {}

OrphanedSigs == remSig \ UNION RemoteSigChains

\* get_extraneous.
ExtraneousFiles(extra) ==
  Each(Ascending(Orphaned), FilesOf) \o Each(Ascending(Incomplete), FilesOf)
  \o (IF extra THEN Each(ByEnd(OldSignatures), LAMBDA C : Each(Ascending(C), LAMBDA t : <<Sig(t)>>))
      ELSE <<>>)
  \o Each(Ascending(OrphanedSigs), LAMBDA t : <<Sig(t)>>)

-----------------------------------------------------------------------------
Mishaps == deaths + 2 * failures

NoCommand == [op |-> "none", extra |-> FALSE]

Init ==
  /\ remMan = {} /\ remVol = [t \in Times |-> {}] /\ remSig = {}
  /\ part = 0 /\ base = [t \in Times |-> 0] /\ clock = 0
  /\ pc = "idle" /\ command = NoCommand /\ todo = <<>> /\ unlocked = FALSE
  /\ commands = 0 /\ deaths = 0 /\ failures = 0
  /\ complete = {} /\ doomed = {} /\ gaveUp = FALSE

-----------------------------------------------------------------------------
(* Backups *)

\* A new set: incremental if there are signatures for the last chain.
NextBase(full) ==
  IF full \/ ~Matched THEN 0
  ELSE IF Drops THEN base[End(Active)] ELSE End(Active)

Completed(t) ==
  /\ remVol' = [remVol EXCEPT ![t] = Volumes]
  /\ remMan' = remMan \cup {t} /\ remSig' = remSig \cup {t}
  /\ complete' = complete \cup {t}

\* main: the lock can be had.
Free == pc = "idle" \/ (unlocked /\ command.op \in Beside)

Backup(full) ==
  /\ Free /\ (part = 0 \/ LastSet # part) /\ clock < MaxTime
  /\ clock' = clock + 1
  /\ base' = [base EXCEPT ![clock + 1] = NextBase(full)]
  /\ Completed(clock + 1)
  /\ UNCHANGED <<part, pc, command, todo, unlocked, bounds, doomed, gaveUp>>

\* One that dies.
BackupDies(full) ==
  /\ Free /\ part = 0 /\ clock < MaxTime /\ Mishaps < MaxMishaps
  /\ clock' = clock + 1 /\ deaths' = deaths + 1
  /\ base' = [base EXCEPT ![clock + 1] = NextBase(full)]
  /\ remVol' = [remVol EXCEPT ![clock + 1] = {1}]
  /\ part' = clock + 1
  /\ UNCHANGED <<remMan, remSig, pc, command, todo, unlocked, commands, failures,
                 complete, doomed, gaveUp>>

\* The next backup restarts it.
BackupRestarts ==
  /\ Free /\ part # 0 /\ LastSet = part
  /\ remVol[part] # {}
  /\ Completed(part)
  /\ part' = 0
  /\ UNCHANGED <<base, clock, pc, command, todo, unlocked, bounds, doomed, gaveUp>>

-----------------------------------------------------------------------------
(* Commands *)

Begin(op, extra) ==
  /\ pc = "idle" /\ commands < MaxCommands
  /\ commands' = commands + 1
  /\ command' = [op |-> op, extra |-> extra]
  /\ UNCHANGED <<remote, part, base, clock, unlocked, deaths, failures, complete, gaveUp>>

\* t, and the sets on the remote that depend on it, all they need being there.
Dependents(t) ==
  LET upTo[u \in {0} \cup Times] ==
        IF u = 0 THEN {}
        ELSE IF u = t \/ (u \in remMan /\ base[u] \in upTo[u - 1]) THEN upTo[u - 1] \cup {u}
        ELSE upTo[u - 1]
  IN  upTo[MaxTime]

\* Of two complete sets made from one set, the one that joins no chain.  There
\* are two when the first had lost its signature and was made again.
SetAside ==
  {t \in complete : base[t] # 0 /\ \E u \in complete :
     base[u] = base[t] /\ IF LaterWins THEN t < u ELSE u < t}

\* What a removal is for: sets older than the time, on which no newer set
\* depends but one set aside, and which are not in the active chain.
AskedFor(time, keepFull) ==
  {t \in complete : /\ t \notin Active
                    /\ \A u \in Dependents(t) \ SetAside : u < time
                    /\ keepFull => base[t] # 0}

RemoveOld(time, keepFull) ==
  /\ Begin("remove", FALSE)
  /\ pc' = "delete"
  /\ todo' = RemoveOldFiles(time, keepFull)
  /\ doomed' = doomed \cup AskedFor(time, keepFull)

RemoveOlderThan(time) ==
  /\ pc = "idle" /\ commands < MaxCommands
  /\ LateTimes \/ time <= End(IF Active \subseteq PartSet THEN Active ELSE Active \ PartSet)
  /\ RemoveOld(time, FALSE)

\* get_nth_last_full_backup_time, 0 if there are fewer.
NthLastFull(n) ==
  LET fulls == {t \in UNION Chains : base[t] = 0}
  IN  IF Cardinality(fulls) < n THEN 0 ELSE Descending(fulls)[n]

RemoveAllButNFull(n, keepFull) == RemoveOld(NthLastFull(n), keepFull)

\* The last set is deleted as long as it is partial, and the collection read again.
Collected(extra) ==
  IF part # 0 /\ LastSet = part
    THEN pc' = "partial" /\ todo' = DeleteSet(part)
    ELSE pc' = "delete" /\ todo' = ExtraneousFiles(extra)

Cleanup(extra) ==
  /\ Begin("cleanup", extra)
  /\ UNCHANGED doomed
  /\ Collected(extra)

CleanupGoesOn ==
  /\ pc = "partial" /\ todo = <<>>
  /\ Collected(command.extra)
  /\ UNCHANGED <<remote, part, base, clock, command, unlocked, bounds, complete, doomed, gaveUp>>

Delete ==
  /\ todo # <<>>
  /\ LET f == Head(todo)
     IN  /\ remMan' = IF f.kind = "man" THEN remMan \ {f.set} ELSE remMan
         /\ remVol' = IF f.kind = "vol" THEN [remVol EXCEPT ![f.set] = @ \ {f.num}] ELSE remVol
         /\ remSig' = IF f.kind = "sig" THEN remSig \ {f.set} ELSE remSig
         /\ part' = IF f.kind = "part" /\ part = f.set THEN 0 ELSE part
         /\ unlocked' = (unlocked \/ f.kind = "lock")
  /\ todo' = Tail(todo)
  /\ UNCHANGED <<base, clock, pc, command, bounds, complete, doomed, gaveUp>>

\* All attempts failed; the deletion of files is not fatal.
DeleteFails ==
  /\ todo # <<>> /\ Head(todo).kind \notin {"part", "lock"}
  /\ Mishaps + 1 < MaxMishaps
  /\ failures' = failures + 1
  /\ todo' = Tail(todo)
  /\ gaveUp' = TRUE
  /\ UNCHANGED <<remote, part, base, clock, pc, command, unlocked, commands, deaths, complete, doomed>>

Ends ==
  /\ pc = "delete" /\ todo = <<>>
  /\ pc' = "idle" /\ command' = NoCommand /\ unlocked' = FALSE
  /\ UNCHANGED <<remote, part, base, clock, todo, bounds, complete, doomed, gaveUp>>

Dies ==
  /\ pc # "idle" /\ Mishaps < MaxMishaps
  /\ pc' = "idle" /\ command' = NoCommand /\ todo' = <<>> /\ unlocked' = FALSE
  /\ deaths' = deaths + 1
  /\ UNCHANGED <<remote, part, base, clock, commands, failures, complete, doomed, gaveUp>>

Step == CleanupGoesOn \/ Delete \/ Ends

Next ==
  \/ \E full \in BOOLEAN : Backup(full) \/ BackupDies(full)
  \/ BackupRestarts
  \/ \E time \in 1..MaxTime + 1 : RemoveOlderThan(time)
  \/ \E n \in 1..MaxKept, keepFull \in BOOLEAN : RemoveAllButNFull(n, keepFull)
  \/ \E extra \in BOOLEAN : Cleanup(extra)
  \/ Step
  \/ DeleteFails
  \/ Dies

Spec == Init /\ [][Next]_vars
FairSpec == Spec /\ WF_vars(Step)

-----------------------------------------------------------------------------
\* The files are those of sets that were begun, and the list is a list of files.
TypeOK ==
  /\ remMan \subseteq 1..clock /\ remSig \subseteq 1..clock
  /\ remVol \in [Times -> SUBSET Volumes]
  /\ part \in 0..clock /\ clock \in 0..MaxTime
  /\ base \in [Times -> 0..MaxTime]
  /\ pc \in {"idle", "partial", "delete"} /\ todo \in Seq(File) /\ unlocked \in BOOLEAN
  /\ complete \subseteq Times /\ doomed \subseteq complete /\ gaveUp \in BOOLEAN

\* A set that was completed, that nobody asked to remove, and that was not set
\* aside, has its manifest and all its volumes, whatever commands ran, failed
\* or died.
KeptSetsWhole ==
  \A t \in complete \ doomed :
    (t \in remMan /\ remVol[t] = Volumes) \/ t \in SetAside

\* A removal takes no volume of a set while its manifest is there, so that one
\* that dies leaves no set that looks complete and is not.  (cleanup deletes the
\* volumes of an extraneous set first.)
NoHalfSets ==
  [][command.op = "remove" /\ ~gaveUp =>
       \A t \in remMan \cap remMan' : remVol'[t] = remVol[t]]_vars

\* No set with a manifest has lost the set it starts from, but one set aside.
ChainsUnbroken ==
  ~gaveUp => \A t \in remMan : base[t] \in {0} \cup remMan \/ t \in SetAside

\* The signatures of the active chain, on which the next incremental backup
\* rests, are kept, unless sets of it, or sets that were made from it, were asked
\* to be removed while another chain was active: "don't delete the active
\* (matched) chain" (get_signature_chains_older_than).
ActiveSignaturesKept ==
  ~gaveUp =>
    LET C == Active IN
      (\A t \in doomed : t \notin C /\ base[t] \notin C) => C \cap remMan \subseteq remSig

\* A cleanup that ends leaves neither volumes without a manifest nor signatures
\* outside a chain, whatever died before.
CleanupLeavesNothing ==
  [][pc = "delete" /\ pc' = "idle" /\ command.op = "cleanup" /\ deaths' = deaths /\ ~gaveUp
       => /\ \A t \in Times : remVol'[t] # {} => t \in remMan' \cup {part'}
          /\ \A t \in remSig' : base[t] # 0 => base[t] \in remSig']_vars
=============================================================================
