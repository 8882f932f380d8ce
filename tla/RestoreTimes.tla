----------------------------- MODULE RestoreTimes -----------------------------
(***************************************************************************)
(* Which sets are restored, and which signatures are listed, for a time:   *)
(* collections.py, for --restore-time.  A chain is the set of the times of *)
(* its backup sets, as in Chains; a signature chain is such a set with the *)
(* place it is kept in.                                                    *)
(***************************************************************************)
EXTENDS Chains, FiniteSets

Start(C) == CHOOSE t \in C : \A u \in C : t <= u

\* A mutation of Covers: a chain does not cover its last set's time.
CoversOpen(C, time) == Start(C) <= time /\ time < End(C)

Covers(C, time) == Start(C) <= time /\ time <= End(C)

(***************************************************************************)
(* BackupChain.get_sets_at_time: the full set is taken whatever its time.  *)
(***************************************************************************)
GetSetsAtTime(C, time) == {Start(C)} \cup {t \in C : t <= time}

(***************************************************************************)
(* CollectionsStatus.get_backup_chain_at_time: the chain that covers the   *)
(* time; else the last of those that end before it; else the first.        *)
(* {} is the error that two chains cover it.                               *)
(***************************************************************************)
GetBackupChainAtTime(chains, time) ==
  LET covering == {C \in chains : Covers(C, time)}
      old      == {C \in chains : End(C) < time}
  IN  CASE Cardinality(covering) > 1 -> {}
        [] Cardinality(covering) = 1 -> CHOOSE C \in covering : TRUE
        [] covering = {} /\ old # {} -> CHOOSE C \in LatestEnd(old) : TRUE
        [] covering = {} /\ old = {} ->
             CHOOSE C \in chains : \A D \in chains : End(C) <= End(D)

\* get_sorted_chains: by the end, the local one last of two that end alike.
Before(a, b) ==
  \/ End(a.times) < End(b.times)
  \/ End(a.times) = End(b.times) /\ b.local

(***************************************************************************)
(* get_signature_chain_at_time: the last in that order that covers the     *)
(* time; else the last that ends before it; else the first of all.         *)
(***************************************************************************)
GetSignatureChainAtTime(sigs, time) ==
  LET covering == {s \in sigs : Covers(s.times, time)}
      old      == {s \in sigs : End(s.times) < time}
      Last(S)  == CHOOSE s \in S : \A x \in S \ {s} : Before(x, s)
  IN  CASE covering # {} -> Last(covering)
        [] covering = {} /\ old # {} -> Last(old)
        [] covering = {} /\ old = {} -> CHOOSE s \in sigs : \A x \in sigs \ {s} : Before(s, x)

\* SignatureChain.get_filenames, of the signatures up to a time
GetFilenames(s, time) == {Start(s.times)} \cup {t \in s.times : t <= time}

\* What restore reads, and what list-current-files lists.
Restored(chains, time) == GetSetsAtTime(GetBackupChainAtTime(chains, time), time)
Listed(sigs, time) == GetFilenames(GetSignatureChainAtTime(sigs, time), time)
=============================================================================
