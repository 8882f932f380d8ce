------------------------------- MODULE Stores -------------------------------
(***************************************************************************)
(* A directory of files of one kind, seen as a partial function: its       *)
(* domain is the set of names present and f[k] the content of file k.      *)
(* The archive directory, the remote backend and the dictionary of volume  *)
(* infos in a manifest are all stores of this kind.                        *)
(***************************************************************************)

Store(K, V) == UNION {[D -> V] : D \in SUBSET K}

\* Membership in Store(K, V), without building the set.
IsStore(f, K, V) == DOMAIN f \subseteq K /\ f \in [DOMAIN f -> V]

EmptyStore == [k \in {} |-> k]

\* Create file k, or replace its content.
Write(f, k, x) == [i \in DOMAIN f \cup {k} |-> IF i = k THEN x ELSE f[i]]

\* Keep only the files whose names are in D.
Keep(f, D) == [i \in DOMAIN f \cap D |-> f[i]]

\* Unlink file k; nothing happens when it does not exist.
Remove(f, k) == [i \in DOMAIN f \ {k} |-> f[i]]
=============================================================================
