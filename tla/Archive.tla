------------------------------ MODULE Archive ------------------------------
(***************************************************************************)
(* What duplicity promises its user: a backup run either leaves nothing or *)
(* adds one snapshot of the tree, under a new name later than all others,  *)
(* and a snapshot that has been taken is never changed.                    *)
(***************************************************************************)
EXTENDS Naturals, Stores

CONSTANTS
  Names,   \* the names of snapshots, which are times
  Trees    \* the states the tree can be in

VARIABLES
  tree,    \* the tree that is backed up
  saved    \* what restoring a snapshot yields, by name

Init == tree \in Trees /\ saved = EmptyStore

Change == tree' \in Trees /\ UNCHANGED saved

Take(t) ==
  /\ \A u \in DOMAIN saved : u < t
  /\ saved' = Write(saved, t, tree)
  /\ UNCHANGED tree

Next == Change \/ \E t \in Names : Take(t)

Spec == Init /\ [][Next]_<<tree, saved>>
=============================================================================
