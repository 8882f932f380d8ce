----------------------------- MODULE MCDeltaTrees ----------------------------
(***************************************************************************)
(* A path that may be a directory with one or two levels in it, and one    *)
(* more path behind it.                                                    *)
(***************************************************************************)
EXTENDS DeltaTrees

MCIndices == {<<>>, <<1>>, <<1, 1>>, <<2>>}

Tree(a, b, c) == <<>> :> "dir" @@ <<1>> :> a @@ <<1, 1>> :> b @@ <<2>> :> c

MCTrees == {Tree("dir", "reg", "none"), Tree("reg", "none", "sym")}
=============================================================================
