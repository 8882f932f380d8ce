---------------------------- MODULE BackupSession ----------------------------
(***************************************************************************)
(* A sequence of backup runs against one archive directory and one remote, *)
(* any of which may die between two steps (bin/duplicity: do_backup,       *)
(* sync_archive, Restart, write_multivol, full_backup, incremental_backup; *)
(* duplicity/dup_temp.py: FileobjHooked).                                  *)
(*                                                                         *)
(* A run synchronises the archive directory with the remote, reads the     *)
(* collection status off the two file listings, then either starts a new   *)
(* set or restarts the one an earlier run left partial.  A set is written  *)
(* volume by volume; each volume is recorded in the local partial manifest *)
(* before it is uploaded.  Last, the signature and then the manifest are   *)
(* sent to the remote and renamed to their final local names.              *)
(*                                                                         *)
(* A file that is being written is listed and cut off until it is whole,   *)
(* on the remote and in the archive directory alike: volumes have a flag,  *)
(* signatures and manifests that are cut off are in cutRem and cutLoc, and *)
(* those that are whole in the stores.  A put that fails for good ends the *)
(* run, which leaves what a death in it leaves (Crash).                    *)
(*                                                                         *)
(* Abstractions.  A source path is a number, in selection order, and is    *)
(* one block of the delta; its content is a version, 0 when it does not    *)
(* exist.  A volume holds VolSize blocks.  A volume's hash is its content. *)
(* The source does not change while a run reads it.  Uploads are           *)
(* synchronous (globals.async_concurrency = 0).                            *)
(***************************************************************************)
EXTENDS Naturals, FiniteSets, Stores, Chains

CONSTANTS
  NumPaths,     \* paths of the source tree
  MaxVersion,   \* versions a path may have
  VolSize,      \* blocks per volume (--volsize)
  MaxTime,      \* bound: backup sets ever begun
  MaxVol,       \* bound: volumes per set
  MaxCrashes,   \* bound: runs that die
  MaxEdits,     \* bound: changes to the source
  Commands,     \* actions the user asks for: "full", "inc" (the default),
                \* "incremental" (asked for by name)
  CrashAt,      \* the steps before which a run may die
  EditPartial,  \* may the source change while a set is left partial?
  LaterWins     \* does Python order an int above a BackupSet instance?

ASSUME SizesAssumption ==
  /\ NumPaths \in Nat /\ MaxVersion \in Nat
  /\ VolSize \in Nat \ {0}
  /\ MaxTime \in Nat /\ MaxVol \in Nat
  /\ MaxCrashes \in Nat /\ MaxEdits \in Nat
  /\ Commands \subseteq {"full", "inc", "incremental"}
  /\ EditPartial \in BOOLEAN /\ LaterWins \in BOOLEAN

Paths    == 1..NumPaths
Versions == 0..MaxVersion
Times    == 1..MaxTime
Volumes  == 1..MaxVol

Data       == Store(Paths, Versions)            \* blocks, by path
VolumeInfo == [last : 0..NumPaths, data : Data] \* end_index and hash
VolumeFile == [torn : BOOLEAN, data : Data]
Kinds      == {"sig", "man"}                    \* signatures and manifests
IsManifest(m) == IsStore(m, Volumes, VolumeInfo) \* volume_info_dict

Steps == {"sync", "fetchsig", "fetchman", "collect", "check", "delete",
          "volume", "sigpart", "manpart", "flush", "upload", "uploading",
          "sigcopy", "sigcopying", "sigmove", "sigmoving", "sigdelete",
          "sigfinal", "sigwriting", "sigunlink",
          "mancopy", "mancopying", "manmove", "manmoving", "mandelete",
          "manfinal"}

VARIABLES
  source,      \* the tree that is backed up
  remVol,      \* remote volumes, by set and number
  remSig,      \* remote signature files, by set
  remMan,      \* remote manifests, by set
  cutRem,      \* sets whose remote file is cut off, by kind
  locSig,      \* final signature files in the archive directory
  locMan,      \* final manifests in the archive directory
  cutLoc,      \* sets whose final local file is cut off, by kind
  sigPart,     \* sets with a .part signature in the archive directory
  manPart,     \* .part manifests in the archive directory
  strayFull,   \* set whose time also has an empty full .part pair, or 0
  base,        \* start time in the set's file names, 0 for a full set
  clock,       \* the time of the last set begun
  pc,          \* the next step of the run, "idle" between runs
  command,     \* the action given on the command line
  cur,         \* the set the run writes (dup_time.curtime), or fetches
  kind,        \* backup_type of the files the run opens
  restarted,   \* globals.restart is set
  vol,         \* vol_num
  mf,          \* the manifest object's volume_info_dict
  todo,        \* paths whose blocks are still to be written
  prev,        \* tarblock_iter.previous_index
  newSig,      \* entries of the signature file being written
  atEnd,       \* tarblock_iter is exhausted
  frayed,      \* a signature the delta is computed from is cut off
  asserted,    \* a run ended in set_manifest's assertion
  refused,     \* a run ended in the encryption settings error
  unreadable,  \* a run could not read a file of the remote
  crashes, edits,   \* bounds
  wanted       \* history: what the set must restore, by set and path

remote  == <<remVol, remSig, remMan, cutRem>>
local   == <<locSig, locMan, cutLoc, sigPart, manPart, strayFull>>
writer  == <<cur, kind, restarted, vol, mf, todo, prev, newSig,
             atEnd, frayed>>
verdict == <<asserted, refused, unreadable>>
bounds  == <<crashes, edits>>
vars    == <<source, remote, local, base, clock, pc, command, writer,
             verdict, bounds, wanted>>

-----------------------------------------------------------------------------
(* The names of the files, of one kind and place each: a file that is cut off
   is listed like a whole one. *)

RemoteNames(k) == cutRem[k] \cup DOMAIN (IF k = "sig" THEN remSig ELSE remMan)
FinalNames(k)  == cutLoc[k] \cup DOMAIN (IF k = "sig" THEN locSig ELSE locMan)
Partials(k)    == IF k = "sig" THEN sigPart ELSE DOMAIN manPart

\* A file of kind k and set t is cut off, or no longer is.
CutOff(cut, k, t) == [cut EXCEPT ![k] = @ \cup {t}]
Mended(cut, k, t) == [cut EXCEPT ![k] = @ \ {t}]

-----------------------------------------------------------------------------
(* Collection status, read from the names of the files. *)

\* BackupSet.is_complete: a set with a manifest, where a local .part manifest
\* counts as the set's remote manifest.
HasManifest == RemoteNames("man") \cup DOMAIN manPart
BackupSets  == BackupChains(HasManifest, base, LaterWins)

\* Mutant of Conflicts: a second manifest is taken without an assertion.
ConflictsUnseen == {}

\* The sets whose second manifest trips the assertion of set_manifest.
Conflicts == RemoteNames("man") \cap DOMAIN manPart

LocalSigs  == FinalNames("sig") \cup sigPart
RemoteSigs == RemoteNames("sig")

\* CollectionsStatus.set_values: the backup chain with the latest end, the
\* one with the newest full set, and the signature chains of the former in
\* the archive directory and on the remote.
Readings ==
  LET chains == BackupSets
  IN  UNION {UNION {
        {[latest |-> A, newest |-> D, local |-> L, remote |-> R] :
           L \in SigChainsOf(A, LocalSigs, base),
           R \in SigChainsOf(A, RemoteSigs, base)} :
        D \in OrNone(NewestFull(chains, base))} : A \in OrNone(LatestEnd(chains))}

\* set_matched_chain_pair: no signature chain ends with the latest backup
\* chain, but one ends with the set before the last, which is incremental
\* (a full set has no end_time): the last set is dropped from its chain.
Drops(rd) ==
  LET before == base[End(rd.latest)]
  IN  /\ rd.latest # {} /\ before # 0
      /\ End(rd.latest) \notin {End(rd.local), End(rd.remote)}
      /\ base[before] # 0
      /\ before \in {End(rd.local), End(rd.remote)}

\* Mutant of MatchedEnd: any local signature chain will do.
MatchedEndAny(rd) ==
  IF rd.local # {} THEN End(rd.local)
  ELSE IF Drops(rd) THEN base[End(rd.latest)] ELSE End(rd.latest)

MatchedEnd(rd) == IF Drops(rd) THEN base[End(rd.latest)] ELSE End(rd.latest)

HasSigs(rd) ==
  rd.latest # {} /\ MatchedEnd(rd) \in {End(rd.local), End(rd.remote)}

\* get_last_backup_chain().get_last(), 0 if there is none.
LastSet(rd) ==
  IF Drops(rd) /\ rd.newest = rd.latest THEN MatchedEnd(rd) ELSE End(rd.newest)

\* combine_path_iters: of the entries for a path, the one of the last file.
Combined(C, sigs) ==
  [p \in Paths |->
     LET S == {t \in C \cap DOMAIN sigs : p \in DOMAIN sigs[t]}
     IN  IF S = {} THEN 0 ELSE sigs[End(S)][p]]

\* The tree the matched signatures describe.  The local chain goes before the
\* remote one; a .part signature has just been truncated by get_sig_fileobj.
\* A signature that is cut off has no entries: the run goes on from it only when
\* nothing of it is there (SignatureEnds).
Signed(rd) ==
  IF MatchedEnd(rd) = End(rd.local)
    THEN Combined(rd.local, Keep(locSig, DOMAIN locSig \ sigPart))
    ELSE Combined(rd.remote, remSig)

\* The signature files among them that are cut off.
TornSigs(rd) ==
  IF MatchedEnd(rd) = End(rd.local)
    THEN (rd.local \ sigPart) \cap cutLoc["sig"]
    ELSE rd.remote \cap cutRem["sig"]

NoTree == [p \in Paths |-> 0]

\* Mutant of Delta: a path that is gone is not recorded as deleted.
DeltaNoDeletions(old) == {p \in Paths : source[p] # old[p] /\ source[p] # 0}

\* get_delta_iter: the paths that are new, changed or deleted.
Delta(old) == {p \in Paths : source[p] # old[p]}

-----------------------------------------------------------------------------
Init ==
  /\ source = [p \in Paths |-> IF MaxVersion = 0 THEN 0 ELSE 1]
  /\ remVol = [t \in Times |-> EmptyStore]
  /\ remSig = EmptyStore /\ remMan = EmptyStore
  /\ locSig = EmptyStore /\ locMan = EmptyStore
  /\ cutRem = [k \in Kinds |-> {}] /\ cutLoc = [k \in Kinds |-> {}]
  /\ sigPart = {} /\ manPart = EmptyStore /\ strayFull = 0
  /\ base = [t \in Times |-> 0]
  /\ clock = 0
  /\ pc = "idle" /\ command = "inc"
  /\ cur = 0 /\ kind = "full" /\ restarted = FALSE /\ vol = 0 /\ mf = EmptyStore
  /\ todo = {} /\ prev = 0 /\ newSig = EmptyStore /\ atEnd = FALSE /\ frayed = FALSE
  /\ asserted = FALSE /\ refused = FALSE /\ unreadable = FALSE
  /\ crashes = 0 /\ edits = 0
  /\ wanted = EmptyStore

\* What a dying process forgets: everything but the files.
Forget ==
  /\ cur' = 0 /\ kind' = "full" /\ restarted' = FALSE /\ vol' = 0 /\ mf' = EmptyStore
  /\ todo' = {} /\ prev' = 0 /\ newSig' = EmptyStore /\ atEnd' = FALSE
  /\ frayed' = FALSE

\* A path is created, changed or removed between two runs.
Edit(p, v) ==
  /\ pc = "idle" /\ edits < MaxEdits
  /\ manPart = EmptyStore \/ EditPartial
  /\ v # source[p]
  /\ source' = [source EXCEPT ![p] = v]
  /\ wanted' = [t \in DOMAIN wanted |->
                  IF t \in DOMAIN remMan THEN wanted[t] ELSE Remove(wanted[t], p)]
  /\ edits' = edits + 1
  /\ UNCHANGED <<remote, local, base, clock, pc, command, writer, verdict, crashes>>

\* The process dies; .part and final files stay as they are.
Crash ==
  /\ pc \in CrashAt /\ pc # "idle" /\ crashes < MaxCrashes
  /\ pc' = "idle"
  /\ Forget
  /\ crashes' = crashes + 1
  /\ UNCHANGED <<source, remote, local, base, clock, command, verdict, edits, wanted>>

-----------------------------------------------------------------------------
(* do_backup up to the choice between a restart and a new set. *)

Begin(c) ==
  /\ pc = "idle"
  /\ pc' = "sync" /\ command' = c
  /\ UNCHANGED <<source, remote, local, base, clock, writer, verdict, bounds, wanted>>

\* Mutant of Spurious: a final file next to a .part file is not deleted.
SpuriousNoPartials(k) == FinalNames(k) \ RemoteNames(k)

\* sync_archive, by names only: the remote is authoritative, except that a
\* final file is deleted, and not fetched again, while a .part of the same
\* name exists ("the write of the final version got interrupted").
Spurious(k) == FinalNames(k) \ (RemoteNames(k) \ Partials(k))
Missing(k)  == RemoteNames(k) \ (FinalNames(k) \cup Partials(k))

\* remove_local
RemoveLocal(k, t) ==
  /\ pc = "sync"
  /\ t \in Spurious(k)
  /\ locSig' = IF k = "sig" THEN Remove(locSig, t) ELSE locSig
  /\ locMan' = IF k = "man" THEN Remove(locMan, t) ELSE locMan
  /\ cutLoc' = Mended(cutLoc, k, t)
  /\ UNCHANGED <<source, remote, sigPart, manPart, strayFull, base, clock, pc,
                 command, writer, verdict, bounds, wanted>>

\* copy_to_local: the file has been read into a temporary one, which
\* Path.move copies block by block to the final name.
FetchStarts(k, t) ==
  /\ pc = "sync" /\ \A j \in Kinds : Spurious(j) = {}
  /\ t \in Missing(k)
  /\ cutLoc' = CutOff(cutLoc, k, t)
  /\ pc' = IF k = "sig" THEN "fetchsig" ELSE "fetchman"
  /\ cur' = t
  /\ UNCHANGED <<source, remote, locSig, locMan, sigPart, manPart, strayFull,
                 base, clock, command, kind, restarted, vol, mf, todo, prev,
                 newSig, atEnd, frayed, verdict, bounds, wanted>>

\* What was cut off on the remote stays so.
FetchEnds(k) ==
  /\ pc = IF k = "sig" THEN "fetchsig" ELSE "fetchman"
  /\ IF cur \in cutRem[k]
       THEN UNCHANGED <<locSig, locMan, cutLoc>>
       ELSE /\ locSig' = IF k = "sig" THEN Write(locSig, cur, remSig[cur]) ELSE locSig
            /\ locMan' = IF k = "man" THEN Write(locMan, cur, remMan[cur]) ELSE locMan
            /\ cutLoc' = Mended(cutLoc, k, cur)
  /\ pc' = "sync"
  /\ cur' = 0
  /\ UNCHANGED <<source, remote, sigPart, manPart, strayFull, base, clock,
                 command, kind, restarted, vol, mf, todo, prev, newSig, atEnd,
                 frayed, verdict, bounds, wanted>>

\* A file that is cut off cannot be decompressed or decrypted, unless nothing
\* of it is there or it is plain text: FatalError in SrcIter.next, or GPGError.
FetchFails(k, t) ==
  /\ pc = "sync" /\ \A j \in Kinds : Spurious(j) = {}
  /\ t \in Missing(k) \cap cutRem[k]
  /\ unreadable' = TRUE
  /\ pc' = "idle"
  /\ Forget
  /\ UNCHANGED <<source, remote, local, base, clock, command, asserted, refused,
                 bounds, wanted>>

Synchronised ==
  /\ pc = "sync" /\ \A k \in Kinds : Spurious(k) = {} /\ Missing(k) = {}
  /\ pc' = "collect"
  /\ UNCHANGED <<source, remote, local, base, clock, command, writer, verdict,
                 bounds, wanted>>

Sync ==
  \/ \E k \in Kinds, t \in Times :
       RemoveLocal(k, t) \/ FetchStarts(k, t) \/ FetchFails(k, t)
  \/ \E k \in Kinds : FetchEnds(k)
  \/ Synchronised

\* BackupSet.set_manifest asserts that the set has no manifest yet; a .part
\* manifest has been added before the files of the remote are.
CollectAsserts ==
  /\ pc = "collect" /\ Conflicts # {}
  /\ asserted' = TRUE
  /\ pc' = "idle"
  /\ Forget
  /\ UNCHANGED <<source, remote, local, base, clock, command, refused, unreadable,
                 bounds, wanted>>

\* The empty full set an earlier run left (see RestartUnsigned) is the newest
\* partial set.  It has no volumes: Restart.checkManifest deletes it and runs
\* the command again.
RestartStray ==
  /\ pc = "collect" /\ Conflicts = {} /\ strayFull # 0
  /\ strayFull' = 0
  /\ pc' = "sync"
  /\ UNCHANGED <<source, remote, locSig, locMan, cutLoc, sigPart, manPart, base,
                 clock, command, writer, verdict, bounds, wanted>>

\* Restart(last_backup): the run goes on with the partial set t and opens its
\* .part files again, the signature emptied, the manifest for appending.
Reopen(t) ==
  /\ pc' = "check"
  /\ cur' = t /\ restarted' = TRUE
  /\ UNCHANGED <<source, remote, locSig, locMan, cutLoc, manPart, base, clock,
                 command, vol, prev, atEnd, verdict, bounds, wanted>>

RestartFull(rd) ==
  LET t == LastSet(rd)
  IN  /\ pc = "collect" /\ Conflicts = {} /\ strayFull = 0
      /\ t \in DOMAIN manPart /\ base[t] = 0
      /\ Reopen(t)
      /\ kind' = "full"
      /\ sigPart' = sigPart \cup {t}
      /\ todo' = Delta(NoTree)
      /\ newSig' = [p \in todo' |-> source[p]]
      /\ UNCHANGED <<strayFull, mf, frayed>>

RestartInc(rd) ==
  LET t == LastSet(rd)
  IN  /\ pc = "collect" /\ Conflicts = {} /\ strayFull = 0
      /\ t \in DOMAIN manPart /\ base[t] # 0
      /\ HasSigs(rd)
      /\ Reopen(t)
      /\ kind' = "inc"
      /\ sigPart' = sigPart \cup {t}
      /\ todo' = Delta(Signed(rd))
      /\ frayed' = (TornSigs(rd) # {})
      /\ newSig' = [p \in todo' |-> source[p]]
      /\ UNCHANGED <<strayFull, mf>>

\* check_sig_chain finds no signatures for the incremental set that is to be
\* restarted: full_backup goes on instead, and opens .part files of a full
\* set with the time of the incremental one.
RestartUnsigned(rd) ==
  LET t == LastSet(rd)
  IN  /\ pc = "collect" /\ Conflicts = {} /\ strayFull = 0
      /\ t \in DOMAIN manPart /\ base[t] # 0
      /\ ~HasSigs(rd) /\ command # "incremental"
      /\ Reopen(t)
      /\ kind' = "full"
      /\ strayFull' = t
      /\ todo' = Delta(NoTree)
      /\ newSig' = [p \in todo' |-> source[p]]
      /\ UNCHANGED <<sigPart, mf, frayed>>

\* A new set at a new time.  Its signature and manifest are temporary files
\* until its first volume has been written.
NewSet(t, b, tree, torn) ==
  /\ t <= MaxTime
  /\ clock' = t
  /\ base' = [base EXCEPT ![t] = b]
  /\ wanted' = Write(wanted, t, source)
  /\ pc' = "volume"
  /\ cur' = t /\ kind' = IF b = 0 THEN "full" ELSE "inc"
  /\ todo' = Delta(tree)
  /\ frayed' = (torn # {})
  /\ newSig' = [p \in todo' |-> source[p]]
  /\ UNCHANGED <<source, remote, local, command, restarted, vol, mf, prev,
                 atEnd, verdict, bounds>>

NewFull(rd) ==
  /\ pc = "collect" /\ Conflicts = {} /\ strayFull = 0
  /\ LastSet(rd) \notin DOMAIN manPart
  /\ command = "full" \/ (command = "inc" /\ ~HasSigs(rd))
  /\ NewSet(clock + 1, 0, NoTree, {})

\* check_last_manifest, check_manifests: the manifests of the latest chain's
\* last set are there and, where both are, the same.
CheckManifests(t) ==
  /\ t \in DOMAIN remMan
  /\ t \in DOMAIN locMan => DOMAIN locMan[t] = DOMAIN remMan[t]

NewInc(rd) ==
  LET last == MatchedEnd(rd)
  IN  /\ pc = "collect" /\ Conflicts = {} /\ strayFull = 0
      /\ LastSet(rd) \notin DOMAIN manPart
      /\ command # "full" /\ HasSigs(rd)
      /\ CheckManifests(last)
      /\ NewSet(clock + 1, last, Signed(rd), TornSigs(rd))

\* check_sig_chain: "Unable to start incremental backup".
NoOldSignatures(rd) ==
  /\ pc = "collect" /\ Conflicts = {} /\ strayFull = 0
  /\ LastSet(rd) \in DOMAIN manPart => base[LastSet(rd)] # 0
  /\ command = "incremental" /\ ~HasSigs(rd)
  /\ pc' = "idle"
  /\ Forget
  /\ UNCHANGED <<source, remote, local, base, clock, command, verdict, bounds, wanted>>

\* The bound on the number of sets is reached.
OutOfTimes(rd) ==
  /\ pc = "collect" /\ Conflicts = {} /\ strayFull = 0
  /\ LastSet(rd) \notin DOMAIN manPart /\ clock = MaxTime
  /\ pc' = "idle"
  /\ Forget
  /\ UNCHANGED <<source, remote, local, base, clock, command, verdict, bounds, wanted>>

-----------------------------------------------------------------------------
(* Restart.checkManifest and what follows it in write_multivol. *)

\* Mutant of StartVol: the last volume is trusted.
StartVolLast(t) == Cardinality(DOMAIN remVol[t])

\* Restart.setParms: one volume back, the last one may be unfinished.
StartVol(t) == LET n == Cardinality(DOMAIN remVol[t])
               IN  IF n = 0 THEN 0 ELSE n - 1

Listed(t) == Cardinality(DOMAIN manPart[t])

\* Nothing to go on from, or a manifest with fewer volumes than the remote.
Hopeless(t) == StartVol(t) = 0 \/ Listed(t) < StartVol(t)

\* Mutant of PathsAfter: one path too many is passed over.
PathsWellAfter(last) == {p \in todo : p > last + 1}

\* restart_position_iterator passes over the paths up to the last one that
\* start_vol holds.
PathsAfter(last) == {p \in todo : p > last}

\* The manifest loses the volumes after start_vol.
Resume ==
  /\ pc = "check" /\ ~Hopeless(cur)
  /\ kind = "full" <=> base[cur] = 0
  /\ LET kept == Keep(manPart[cur], 1..StartVol(cur))
         last == kept[StartVol(cur)].last
         rest == PathsAfter(last)
     IN  /\ 1 \in DOMAIN remVol[cur]
         /\ remVol[cur][1] = [torn |-> FALSE, data |-> kept[1].data]
         /\ mf' = kept
         /\ todo' = rest
         /\ prev' \in IF last \in todo THEN {last}
                      ELSE IF rest # {} THEN {p \in rest : \A q \in rest : p <= q}
                      ELSE {End(todo)}
  /\ vol' = StartVol(cur)
  /\ pc' = "volume"
  /\ UNCHANGED <<source, remote, local, base, clock, command, cur, kind,
                 restarted, newSig, atEnd, frayed, verdict, bounds, wanted>>

\* validate_encryption_settings: the name of volume 1 in a full set is not the
\* name of volume 1 in the incremental set.
Refuse ==
  /\ pc = "check" /\ ~Hopeless(cur)
  /\ kind = "full" /\ base[cur] # 0
  /\ refused' = TRUE
  /\ pc' = "idle"
  /\ Forget
  /\ UNCHANGED <<source, remote, local, base, clock, command, asserted, unreadable,
                 bounds, wanted>>

\* Mutant of StartOver: the set is not deleted.
StartOverKeeping ==
  /\ pc = "check" /\ Hopeless(cur)
  /\ pc' = "sync"
  /\ Forget
  /\ UNCHANGED <<source, remote, local, base, clock, command, verdict, bounds, wanted>>

\* last_backup.delete(), then the command is executed again.
StartOver ==
  /\ pc = "check" /\ Hopeless(cur)
  /\ pc' = "delete"
  /\ UNCHANGED <<source, remote, local, base, clock, command, writer, verdict, bounds, wanted>>

\* BackupSet.delete: the remote files first, the last volume first.
DeleteVolume ==
  /\ pc = "delete"
  /\ \E k \in DOMAIN remVol[cur] :
       /\ \A j \in DOMAIN remVol[cur] : j <= k
       /\ remVol' = [remVol EXCEPT ![cur] = Remove(@, k)]
  /\ UNCHANGED <<source, remSig, remMan, cutRem, local, base, clock, pc, command,
                 writer, verdict, bounds, wanted>>

\* Then every local file with the times of the set, in the directory's order.
DeleteLocalSig ==
  /\ pc = "delete" /\ remVol[cur] = EmptyStore
  /\ cur \in LocalSigs
  /\ sigPart' = sigPart \ {cur}
  /\ locSig' = Remove(locSig, cur) /\ cutLoc' = Mended(cutLoc, "sig", cur)
  /\ UNCHANGED <<source, remote, locMan, manPart, strayFull, base, clock, pc,
                 command, writer, verdict, bounds, wanted>>

DeleteLocalMan ==
  /\ pc = "delete" /\ remVol[cur] = EmptyStore
  /\ cur \in DOMAIN manPart \cup FinalNames("man")
  /\ manPart' = Remove(manPart, cur)
  /\ locMan' = Remove(locMan, cur) /\ cutLoc' = Mended(cutLoc, "man", cur)
  /\ UNCHANGED <<source, remote, locSig, sigPart, strayFull, base, clock, pc,
                 command, writer, verdict, bounds, wanted>>

\* os.execve
RunAgain ==
  /\ pc = "delete" /\ remVol[cur] = EmptyStore
  /\ cur \notin LocalSigs \cup DOMAIN manPart \cup FinalNames("man")
  /\ pc' = "sync"
  /\ Forget
  /\ UNCHANGED <<source, remote, local, base, clock, command, verdict, bounds, wanted>>

-----------------------------------------------------------------------------
(* write_multivol: one turn of the loop per volume. *)

\* The next VolSize blocks, fewer only when there are no more.
NextBlocks == {p \in todo : Cardinality({q \in todo : q < p}) < VolSize}

\* Mutant of AddVolumeInfo: volumes are counted from 0.
AddVolumeInfoFromZero(m, k, vi) == Write(Keep(m, 1..k-1), k - 1, vi)

\* VolumeInfo k becomes the last of the manifest: the text is only ever
\* appended to, and from_string drops volumes above the last one it reads.
AddVolumeInfo(m, k, vi) == Write(Keep(m, 1..k-1), k, vi)

\* The volume is written to a temporary file and added to the manifest object.
\* The iterator ends in the volume for which there are not enough blocks.
MakeVolume ==
  /\ pc = "volume" /\ vol < MaxVol
  /\ prev' \in IF NextBlocks = {} THEN {prev} ELSE {End(NextBlocks)}
  /\ vol' = vol + 1
  /\ mf' = AddVolumeInfo(mf, vol', [last |-> prev',
                                    data |-> [p \in NextBlocks |-> source[p]]])
  /\ todo' = todo \ NextBlocks
  /\ atEnd' = (Cardinality(todo) < VolSize)
  /\ pc' = IF vol' = 1 THEN "sigpart" ELSE "flush"
  /\ UNCHANGED <<source, remote, local, base, clock, command, cur, kind,
                 restarted, newSig, frayed, verdict, bounds, wanted>>

\* A signature file that is cut off ends while it is read, at whichever volume
\* the iterator has come to: IOError or GPGError.
SignatureEnds ==
  /\ pc = "volume" /\ frayed
  /\ unreadable' = TRUE
  /\ pc' = "idle"
  /\ Forget
  /\ UNCHANGED <<source, remote, local, base, clock, command, asserted, refused,
                 bounds, wanted>>

\* sig_outfp.to_partial() and man_outfp.to_partial(): the files become visible,
\* what the manifest holds is written out afterwards.
SigToPartial ==
  /\ pc = "sigpart"
  /\ sigPart' = sigPart \cup {cur}
  /\ pc' = "manpart"
  /\ UNCHANGED <<source, remote, locSig, locMan, cutLoc, manPart, strayFull, base,
                 clock, command, writer, verdict, bounds, wanted>>

ManToPartial ==
  /\ pc = "manpart"
  /\ manPart' = Write(manPart, cur, EmptyStore)
  /\ pc' = "flush"
  /\ UNCHANGED <<source, remote, locSig, locMan, cutLoc, sigPart, strayFull, base,
                 clock, command, writer, verdict, bounds, wanted>>

FlushManifest ==
  /\ pc = "flush"
  /\ manPart' = [manPart EXCEPT ![cur] = AddVolumeInfo(@, vol, mf[vol])]
  /\ pc' = "upload"
  /\ UNCHANGED <<source, remote, locSig, locMan, cutLoc, sigPart, strayFull, base,
                 clock, command, writer, verdict, bounds, wanted>>

\* put(): a file that is being uploaded may already be listed.
UploadStarts ==
  /\ pc = "upload"
  /\ remVol' = [remVol EXCEPT
       ![cur] = Write(@, vol, [torn |-> TRUE, data |-> EmptyStore])]
  /\ pc' = "uploading"
  /\ UNCHANGED <<source, remSig, remMan, cutRem, local, base, clock, command,
                 writer, verdict, bounds, wanted>>

UploadEnds ==
  /\ pc = "uploading"
  /\ remVol' = [remVol EXCEPT
       ![cur] = Write(@, vol, [torn |-> FALSE, data |-> mf[vol].data])]
  /\ pc' = IF atEnd THEN "sigcopy" ELSE "volume"
  /\ UNCHANGED <<source, remSig, remMan, cutRem, local, base, clock, command,
                 writer, verdict, bounds, wanted>>

-----------------------------------------------------------------------------
(* full_backup and incremental_backup after write_multivol.  to_remote writes
   a copy with the remote name into the archive directory, where it counts as
   the final file, and moves it to the backend. *)

Goto(step) ==
  /\ pc' = step
  /\ UNCHANGED <<source, remVol, strayFull, base, clock, command, writer,
                 verdict, bounds, wanted>>

\* The copy is written under its final name.
SigCopyStarts ==
  /\ pc = "sigcopy"
  /\ locSig' = Remove(locSig, cur) /\ cutLoc' = CutOff(cutLoc, "sig", cur)
  /\ Goto("sigcopying")
  /\ UNCHANGED <<remSig, remMan, cutRem, locMan, sigPart, manPart>>

SigCopyEnds ==
  /\ pc = "sigcopying"
  /\ locSig' = Write(locSig, cur, newSig) /\ cutLoc' = Mended(cutLoc, "sig", cur)
  /\ Goto("sigmove")
  /\ UNCHANGED <<remSig, remMan, cutRem, locMan, sigPart, manPart>>

\* Mutant of SigPutStarts: the copy is unlinked and not sent.
SigPutSkipped ==
  /\ pc = "sigmove"
  /\ Goto("sigdelete")
  /\ UNCHANGED <<remSig, remMan, cutRem, locSig, locMan, cutLoc, sigPart, manPart>>

\* backend.move is a put, and then the copy is deleted; what was on the remote
\* under the name is gone when the put begins.
SigPutStarts ==
  /\ pc = "sigmove"
  /\ remSig' = Remove(remSig, cur) /\ cutRem' = CutOff(cutRem, "sig", cur)
  /\ Goto("sigmoving")
  /\ UNCHANGED <<remMan, locSig, locMan, cutLoc, sigPart, manPart>>

SigPutEnds ==
  /\ pc = "sigmoving"
  /\ remSig' = Write(remSig, cur, locSig[cur]) /\ cutRem' = Mended(cutRem, "sig", cur)
  /\ Goto("sigdelete")
  /\ UNCHANGED <<remMan, locSig, locMan, cutLoc, sigPart, manPart>>

SigDelete ==
  /\ pc = "sigdelete"
  /\ locSig' = Remove(locSig, cur)
  /\ Goto("sigfinal")
  /\ UNCHANGED <<remSig, remMan, cutRem, locMan, cutLoc, sigPart, manPart>>

\* to_final of a file that is compressed: written anew, then the .part unlinked.
SigFinalStarts ==
  /\ pc = "sigfinal"
  /\ locSig' = Remove(locSig, cur) /\ cutLoc' = CutOff(cutLoc, "sig", cur)
  /\ Goto("sigwriting")
  /\ UNCHANGED <<remSig, remMan, cutRem, locMan, sigPart, manPart>>

SigFinalEnds ==
  /\ pc = "sigwriting"
  /\ locSig' = Write(locSig, cur, newSig) /\ cutLoc' = Mended(cutLoc, "sig", cur)
  /\ Goto("sigunlink")
  /\ UNCHANGED <<remSig, remMan, cutRem, locMan, sigPart, manPart>>

SigUnlink ==
  /\ pc = "sigunlink"
  /\ sigPart' = sigPart \ {cur}
  /\ Goto("mancopy")
  /\ UNCHANGED <<remSig, remMan, cutRem, locSig, locMan, cutLoc, manPart>>

ManCopyStarts ==
  /\ pc = "mancopy"
  /\ locMan' = Remove(locMan, cur) /\ cutLoc' = CutOff(cutLoc, "man", cur)
  /\ Goto("mancopying")
  /\ UNCHANGED <<remSig, remMan, cutRem, locSig, sigPart, manPart>>

ManCopyEnds ==
  /\ pc = "mancopying"
  /\ locMan' = Write(locMan, cur, manPart[cur]) /\ cutLoc' = Mended(cutLoc, "man", cur)
  /\ Goto("manmove")
  /\ UNCHANGED <<remSig, remMan, cutRem, locSig, sigPart, manPart>>

ManPutStarts ==
  /\ pc = "manmove"
  /\ remMan' = Remove(remMan, cur) /\ cutRem' = CutOff(cutRem, "man", cur)
  /\ Goto("manmoving")
  /\ UNCHANGED <<remSig, locSig, locMan, cutLoc, sigPart, manPart>>

\* The set is complete from here on.
ManPutEnds ==
  /\ pc = "manmoving"
  /\ remMan' = Write(remMan, cur, locMan[cur]) /\ cutRem' = Mended(cutRem, "man", cur)
  /\ Goto("mandelete")
  /\ UNCHANGED <<remSig, locSig, locMan, cutLoc, sigPart, manPart>>

ManDelete ==
  /\ pc = "mandelete"
  /\ locMan' = Remove(locMan, cur)
  /\ Goto("manfinal")
  /\ UNCHANGED <<remSig, remMan, cutRem, locSig, cutLoc, sigPart, manPart>>

\* Mutant of ManToFinal: the .part file is copied, not renamed.
ManCopiedToFinal ==
  /\ pc = "manfinal"
  /\ locMan' = Write(locMan, cur, manPart[cur])
  /\ pc' = "idle"
  /\ Forget
  /\ UNCHANGED <<source, remote, locSig, cutLoc, sigPart, manPart, strayFull, base,
                 clock, command, verdict, bounds, wanted>>

\* to_final of the manifest is a rename; the run is over.
ManToFinal ==
  /\ pc = "manfinal"
  /\ locMan' = Write(locMan, cur, manPart[cur])
  /\ manPart' = Remove(manPart, cur)
  /\ pc' = "idle"
  /\ Forget
  /\ UNCHANGED <<source, remote, locSig, cutLoc, sigPart, strayFull, base, clock,
                 command, verdict, bounds, wanted>>

-----------------------------------------------------------------------------
Choose ==
  \/ CollectAsserts
  \/ RestartStray
  \/ \E rd \in Readings :
       \/ RestartFull(rd) \/ RestartInc(rd) \/ RestartUnsigned(rd)
       \/ NewFull(rd) \/ NewInc(rd)
       \/ NoOldSignatures(rd) \/ OutOfTimes(rd)

Check  == Resume \/ Refuse \/ StartOver
Delete == DeleteVolume \/ DeleteLocalSig \/ DeleteLocalMan \/ RunAgain

WriteVolumes ==
  \/ MakeVolume \/ SignatureEnds \/ SigToPartial \/ ManToPartial \/ FlushManifest
  \/ UploadStarts \/ UploadEnds

SendSig ==
  \/ SigCopyStarts \/ SigCopyEnds \/ SigPutStarts \/ SigPutEnds \/ SigDelete
  \/ SigFinalStarts \/ SigFinalEnds \/ SigUnlink

SendMan ==
  \/ ManCopyStarts \/ ManCopyEnds \/ ManPutStarts \/ ManPutEnds \/ ManDelete
  \/ ManToFinal

\* The steps of a run that has begun.
Run == Sync \/ Choose \/ Check \/ Delete \/ WriteVolumes \/ SendSig \/ SendMan

Next ==
  \/ \E p \in Paths, v \in Versions : Edit(p, v)
  \/ \E c \in Commands : Begin(c)
  \/ Run
  \/ Crash

Spec == Init /\ [][Next]_vars

\* A process that lives takes its next step; the user starts another run.
FairSpec == Spec /\ WF_vars(Run) /\ WF_vars(\E c \in Commands : Begin(c))

-----------------------------------------------------------------------------
IsManifests(f) ==
  /\ DOMAIN f \subseteq Times /\ f = [t \in DOMAIN f |-> f[t]]
  /\ \A t \in DOMAIN f : IsManifest(f[t])

\* The types of the variables (the files, then the state of the run).
FilesOK ==
  /\ source \in [Paths -> Versions]
  /\ remVol = [t \in Times |-> remVol[t]]
  /\ \A t \in Times : IsStore(remVol[t], Volumes, VolumeFile)
  /\ IsStore(remSig, Times, Data) /\ IsStore(locSig, Times, Data)
  /\ IsManifests(remMan) /\ IsManifests(locMan) /\ IsManifests(manPart)
  /\ cutRem \in [Kinds -> SUBSET Times] /\ cutLoc \in [Kinds -> SUBSET Times]
  /\ sigPart \subseteq Times
  /\ strayFull \in 0..MaxTime

RunOK ==
  /\ pc \in Steps \cup {"idle"}
  /\ command \in {"full", "inc", "incremental"}
  /\ cur \in 0..MaxTime /\ kind \in {"full", "inc"} /\ restarted \in BOOLEAN
  /\ vol \in 0..MaxVol /\ IsManifest(mf)
  /\ todo \subseteq Paths /\ prev \in 0..NumPaths
  /\ newSig \in Data /\ atEnd \in BOOLEAN /\ frayed \in BOOLEAN

HistoryOK ==
  /\ base \in [Times -> 0..MaxTime] /\ clock \in 0..MaxTime
  /\ asserted \in BOOLEAN /\ refused \in BOOLEAN /\ unreadable \in BOOLEAN
  /\ crashes \in 0..MaxCrashes /\ edits \in 0..MaxEdits
  /\ IsStore(wanted, Times, Data)

TypeOK == FilesOK /\ RunOK /\ HistoryOK

\* Every volume a remote manifest lists is on the remote, whole, with the
\* content whose hash the manifest holds, and the numbers leave no gap: what
\* is_complete and restore_check_hash rely on, after any number of runs that
\* died in the middle of a volume and were restarted.  A manifest that is cut
\* off counts for is_complete too, but has its .part file beside it: every later
\* backup stops in set_manifest's assertion, and none builds on the set.
ManifestSound ==
  /\ \A t \in DOMAIN remMan :
       /\ DOMAIN remMan[t] = DOMAIN remVol[t]
       /\ \A k \in DOMAIN remMan[t] :
            /\ 1..k \subseteq DOMAIN remMan[t]
            /\ remVol[t][k] = [torn |-> FALSE, data |-> remMan[t][k].data]
  /\ cutRem["man"] \subseteq DOMAIN manPart

\* What a restore at time t puts together (restore_get_patched_rop_iter): for
\* each path, its block in the last set of t's chain that has one.
Blocks(t) ==
  UNION {{<<p, remVol[t][k].data[p]>> : p \in DOMAIN remVol[t][k].data} :
          k \in DOMAIN remVol[t]}

Restored(C, t) ==
  [p \in Paths |->
     LET S == {u \in C : u <= t /\ \E v \in Versions : <<p, v>> \in Blocks(u)}
     IN  IF S = {} THEN 0
         ELSE CHOOSE v \in Versions : <<p, v>> \in Blocks(End(S))]

\* A set with a remote manifest is part of a chain, and restoring it yields,
\* for every path that did not change while the set was partial, the content
\* the path had: crashes and restarts neither lose nor repeat nor mix blocks.
RestoresSource ==
  \A t \in DOMAIN remMan \cap DOMAIN wanted :
    \E C \in BackupSets :
      /\ t \in C
      /\ \A p \in DOMAIN wanted[t] : Restored(C, t)[p] = wanted[t][p]

\* The tree a restore of the complete set t puts together.
RestoredTree(t) ==
  LET own == {C \in BackupSets : t \in C}
  IN  IF own = {} THEN NoTree ELSE Restored(CHOOSE C \in own : TRUE, t)

\* What the whole machinery is for (module Archive): from outside, each run
\* takes one snapshot of the tree or does nothing, at the instant the remote
\* manifest appears, and every snapshot taken can be restored for ever, though
\* later runs die, restart, delete and write sets of the same chain.
Snapshots ==
  INSTANCE Archive WITH tree <- source,
                        saved <- [t \in DOMAIN remMan |-> RestoredTree(t)],
                        Names <- Times, Trees <- [Paths -> Versions]
ImplementsArchive == Snapshots!Spec

\* The same of full sets only.
FullRestoresSource ==
  \A t \in DOMAIN remMan : base[t] = 0 =>
      \A p \in DOMAIN wanted[t] : Restored({t}, t)[p] = wanted[t][p]

\* Once a run has synchronised, the archive directory and the remote have the
\* same names, and every final file of the archive directory is the one of the
\* remote, with the same content, but for signatures that are cut off: those a
\* run that died left when it copied them into the cache are never fetched
\* again, as sync_archive compares names only.  No manifest is cut off.
CacheAgrees ==
  pc = "collect" =>
    /\ \A t \in DOMAIN locMan : t \in DOMAIN remMan /\ locMan[t] = remMan[t]
    /\ \A t \in DOMAIN locSig : t \in DOMAIN remSig /\ locSig[t] = remSig[t]
    /\ cutLoc["man"] = {}
    /\ \A k \in Kinds : /\ FinalNames(k) \subseteq RemoteNames(k)
                        /\ RemoteNames(k) \subseteq FinalNames(k) \cup Partials(k)

\* A signature file that a dead run left cut off, in the cache or on the remote,
\* is in no chain a new set is made from; only a set that is restarted may read
\* one, its own.  (The archive directory is never lost as a whole: one that is
\* fetched anew can be cut off in any set, see README.)
SignaturesWhole ==
  pc = "collect" /\ Conflicts = {} =>
    \A rd \in Readings : HasSigs(rd) => TornSigs(rd) \subseteq DOMAIN manPart

\* What has been committed stays: no step of any later run, restart or deletion
\* changes a complete set or what it restores.
CompleteStays ==
  [][\A t \in DOMAIN remMan :
       /\ t \in DOMAIN remMan' /\ remMan'[t] = remMan[t]
       /\ remVol'[t] = remVol[t]]_vars

\* What died runs left stops no later one: neither in the assertion of
\* BackupSet.set_manifest (sync_archive expects a local .part next to a remote file
\* of the same name), nor in the encryption settings error, as the settings never
\* change, nor at a file of the remote that is cut off.
LaterRunsGoOn == ~asserted /\ ~refused /\ ~unreadable

\* A new set is full only when it is asked for or there is no complete chain.
OldSignaturesUsed ==
  [][clock' # clock /\ base'[clock'] = 0
       => command = "full" \/ DOMAIN remMan = {}]_vars

\* An interrupted set is completed or deleted.
PartialResolved ==
  \A t \in Times : t \in DOMAIN manPart ~> t \notin DOMAIN manPart

-----------------------------------------------------------------------------
(* The inductive invariant behind ManifestSound, CompleteStays and CacheAgrees
   (theorems in BackupSessionProofs). *)

Whole(vi) == [torn |-> FALSE, data |-> vi.data]

\* Volume k of set t is on the remote, and is the one manifest m lists.
Matches(m, t, k) ==
  k \in DOMAIN m /\ k \in DOMAIN remVol[t] /\ remVol[t][k] = Whole(m[k])

Sound(m, t) ==
  /\ DOMAIN m = DOMAIN remVol[t]
  /\ \A k \in DOMAIN m : 1..k \subseteq DOMAIN m /\ Matches(m, t, k)

\* The volumes of a set are numbered from 1 without a gap, and every one but
\* the last is the one the partial manifest lists.
VolumesInv ==
  /\ \A t \in Times : \E n \in 0..MaxVol : DOMAIN remVol[t] = 1..n
  /\ \A t \in DOMAIN manPart : \A k \in Volumes :
       k + 1 \in DOMAIN remVol[t] => Matches(manPart[t], t, k)
  /\ \A t \in DOMAIN remMan : Sound(remMan[t], t)
  /\ cutRem["man"] \subseteq DOMAIN manPart
  /\ \A t \in DOMAIN remMan \cup DOMAIN manPart : t <= clock
  /\ \A t \in Times : clock < t => DOMAIN remVol[t] = {}

NoSet == {"idle", "sync", "fetchsig", "fetchman", "collect"}
BeforeWriting == NoSet \cup {"check", "delete"}
SigInPlace == {"sigdelete", "sigfinal", "sigwriting", "sigunlink"}
SendingSig == {"sigcopy", "sigcopying", "sigmove", "sigmoving"} \cup SigInPlace
AfterSigpart == {"manpart", "flush", "upload", "uploading"} \cup SendingSig
SendingMan == {"mancopy", "mancopying", "manmove", "manmoving"}
Sending == SendingSig \cup SendingMan
ManInPlace == {"mandelete", "manfinal"}

\* What the run knows about the set it writes.
WriterInv ==
  /\ pc \in BeforeWriting => vol = 0 /\ mf = EmptyStore
  /\ pc \notin {"idle", "sync", "collect"} => cur \in Times
  /\ pc \notin NoSet \cup ManInPlace => cur \notin DOMAIN remMan /\ cur <= clock
  /\ pc \notin NoSet \cup {"manmoving"} => cur \notin cutRem["man"]
  /\ pc = "check" =>
       /\ cur \in DOMAIN manPart
       /\ cur \in sigPart \/ (kind = "full" /\ base[cur] # 0)
  /\ pc \in AfterSigpart \/ (pc = "volume" /\ vol > 0) => cur \in sigPart
  /\ pc \notin BeforeWriting =>
       /\ DOMAIN mf = 1..vol
       /\ pc \in {"volume", "sigpart", "manpart"} \/ cur \in DOMAIN manPart
  /\ pc = "volume" =>
       /\ DOMAIN remVol[cur] \subseteq 1..(vol + 1)
       /\ \A k \in 1..vol : Matches(mf, cur, k)
       /\ vol > 0 => /\ cur \in DOMAIN manPart
                     /\ \A k \in 1..vol :
                          k \in DOMAIN manPart[cur] /\ manPart[cur][k] = mf[k]
  /\ pc \in {"sigpart", "manpart"} => vol = 1
  /\ pc \in {"sigpart", "manpart", "flush", "upload", "uploading"} =>
       /\ vol > 0
       /\ DOMAIN remVol[cur] \subseteq 1..vol
       /\ \A k \in 1..(vol - 1) : Matches(mf, cur, k)
  /\ pc = "flush" => \A k \in 1..(vol - 1) :
       k \in DOMAIN manPart[cur] /\ manPart[cur][k] = mf[k]
  /\ pc \in {"upload", "uploading"} => manPart[cur] = mf
  /\ pc \in Sending => Sound(manPart[cur], cur)
  /\ pc \in {"manmove", "manmoving"} =>
       cur \in DOMAIN locMan /\ locMan[cur] = manPart[cur]

\* A final file of the archive directory differs from the one of the remote
\* only while there is a .part file too, and no manifest is ever fetched.
CacheInv ==
  /\ \A t \in (DOMAIN locSig \cap DOMAIN remSig) \ sigPart : locSig[t] = remSig[t]
  /\ \A t \in (DOMAIN locMan \cap DOMAIN remMan) \ DOMAIN manPart :
       locMan[t] = remMan[t]
  /\ DOMAIN locSig \cap cutRem["sig"] \subseteq sigPart
  /\ cutLoc["man"] \subseteq DOMAIN manPart
  /\ DOMAIN remMan \subseteq DOMAIN locMan \cup DOMAIN manPart
  /\ pc # "fetchman"
  /\ pc = "fetchsig" => cur \in RemoteSigs
  /\ pc \in {"sigmove", "sigmoving"} => cur \in DOMAIN locSig /\ locSig[cur] = newSig
  /\ pc \in SigInPlace =>
       cur \in DOMAIN remSig /\ remSig[cur] = newSig /\ cur \notin cutRem["sig"]
  /\ pc = "sigunlink" => cur \in DOMAIN locSig /\ locSig[cur] = newSig
  /\ pc \in {"manmove", "manmoving"} \cup ManInPlace => cur \notin cutLoc["man"]
  /\ pc \in ManInPlace => cur \in DOMAIN remMan /\ remMan[cur] = manPart[cur]

IInv == TypeOK /\ VolumesInv /\ WriterInv /\ CacheInv
=============================================================================
