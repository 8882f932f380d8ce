------------------------------- MODULE Chains -------------------------------
(***************************************************************************)
(* How a collection of backup sets, or of signature files, is read as      *)
(* chains (duplicity/collections.py).  A set is named by its time; base[t] *)
(* is the time of the set an incremental set starts from, 0 for a full     *)
(* set.  The operators say WHICH chains come out of the loops there.       *)
(***************************************************************************)
EXTENDS Naturals

OrNone(S) == IF S = {} THEN {{}} ELSE S

\* The end time of a chain, 0 when there is no chain.
End(C) == IF C = {} THEN 0 ELSE CHOOSE e \in C : \A t \in C : t <= e

\* C is a full set of S followed by incremental sets of S, each starting
\* where the one before it ends, and it cannot be extended within S.
IsChain(C, S, base) ==
  /\ \E r \in C : base[r] = 0 /\ \A t \in C \ {r} : base[t] \in C
  /\ \A t, u \in C : base[t] = base[u] => t = u
  /\ \A u \in S \ C : base[u] \in C => \E t \in C : base[t] = base[u]

\* Signature files are sorted by start time only: of two that start at the
\* same time, the one the directory lists first joins the chain.  Every
\* maximal chain is a possible outcome.
SigChains(S, base) == {C \in SUBSET S : IsChain(C, S, base)}

\* Backup sets are taken in the order of their end times (get_sorted_sets).
\* A full set starts a chain.  An incremental set joins the chain that ends
\* where it starts; else it takes the place of the last set of a chain that
\* starts where it does, if laterWins (BackupChain.add_inc); else it is
\* orphaned.
Extends(C, t, base) == base[t] = End(C)

Replaces(C, t, base, laterWins) ==
  laterWins /\ base[End(C)] # 0 /\ base[End(C)] = base[t]

WithInc(C, t, base, laterWins) ==
  IF Extends(C, t, base) THEN C \cup {t}
  ELSE IF Replaces(C, t, base, laterWins) THEN (C \ {End(C)}) \cup {t}
  ELSE C

BackupChains(S, base, laterWins) ==
  LET upTo[t \in {0} \cup DOMAIN base] ==
        IF t = 0 THEN {}
        ELSE IF t \notin S THEN upTo[t - 1]
        ELSE IF base[t] = 0 THEN upTo[t - 1] \cup {{t}}
        ELSE {WithInc(C, t, base, laterWins) : C \in upTo[t - 1]}
  IN  upTo[End(DOMAIN base)]

\* The chain whose end is the latest, and the chain whose full set is.
LatestEnd(chains) ==
  {C \in chains : \A D \in chains : End(D) <= End(C)}

NewestFull(chains, base) ==
  {C \in chains : \A D \in chains : \A t \in C, u \in D :
     (base[t] = 0 /\ base[u] = 0) => u <= t}

\* The signature chain one location may show for the full set of chain A.
SigChainsOf(A, S, base) ==
  OrNone({C \in SigChains(S, base) : \E r \in A \cap C : base[r] = 0})
=============================================================================
