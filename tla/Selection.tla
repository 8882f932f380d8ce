------------------------------ MODULE Selection -------------------------------
(***************************************************************************)
(* Which paths of the source a run takes (selection.py, globmatch.py): the *)
(* options become selection functions, each says of a path that it is      *)
(* included, excluded, to be scanned, or nothing; Select puts the answers  *)
(* together, and Iterate walks the tree with a stack of directories, in    *)
(* order, holding back the directories that are only scanned until         *)
(* something in them is included.  What is selected goes to DeltaTrees.    *)
(*                                                                         *)
(* Abstractions.  A name is a number, in the order names sort; a path is   *)
(* the sequence of names below the root, whose own name every pattern      *)
(* starts with.  A part of a pattern is the set of names it matches.  The  *)
(* walk is lazy: while its consumer reads a file the tree may change.      *)
(***************************************************************************)
EXTENDS Naturals, FiniteSets, SequencesExt

CONSTANTS
  Names,       \* names of files, numbers in sort order
  Trees,       \* sources: sets of nodes
  Options,     \* options of the command line
  MaxOptions,  \* bound: options given
  Fickle,      \* paths that another program may remove during the walk
  MaxVanish    \* bound: removals

\* Path.type ("dev": "chr" or "blk"), None of what does not exist.
NodeTypes == {"reg", "dir", "sym", "fifo", "dev"}

\* A source: each path has one node, and is in a directory.
IsTree(t) ==
  /\ IsFiniteSet(t)
  /\ \A m, n \in t : m.path = n.path => m = n
  /\ \A n \in t : /\ n.path \in Seq(Names) /\ n.type \in NodeTypes
                  /\ n.path # <<>> => \E d \in t : d.path = Front(n.path) /\ d.type = "dir"

\* A pattern: its parts up to "**"; how many names "**" and what follows it stand
\* for at least (0: there is no "**", 1: part/**, part/**end, 2: part/**/end); the
\* names the last of them may be; whether it ends in a slash.
Globs == [parts : Seq(SUBSET Names), gap : 0..2, ends : SUBSET Names, slash : BOOLEAN]
Lines == [mark : {"none", "plus", "minus", "comment"}, glob : Globs]

\* An option that selects: a list of patterns, a pattern, or another condition.
IsOption(o) ==
  /\ o.include \in BOOLEAN
  /\ \/ o.by = "list" /\ o.lines \in Seq(Lines)
     \/ o.by = "glob" /\ o.glob \in Globs
     \/ o.by \in {"regexp", "present", "device", "older", "far"}

ASSUME SelectionAssumption ==
  /\ Names \subseteq Nat
  /\ \A t \in Trees : IsTree(t)
  /\ \A o \in Options : IsOption(o)
  /\ Fickle \subseteq Seq(Names) \ {<<>>}
  /\ MaxOptions \in Nat /\ MaxVanish \in Nat

VARIABLES
  tree,       \* the source: a set of nodes
  functions,  \* selection_functions
  stack,      \* diryield_stack: directories, and the names not yet looked at
  delayed,    \* delayed_path_stack
  yielded,    \* what the iterator has given
  phase,      \* "options", "walk", "done", "refused"
  vanished    \* paths removed since the walk began

vars == <<tree, functions, stack, delayed, yielded, phase, vanished>>

-----------------------------------------------------------------------------
(* Nodes, and patterns. *)

\* A path as lstat sees it.
Node(p, type, readable, old, far) ==
  [path |-> p, type |-> type, readable |-> readable, old |-> old, far |-> far]

\* Path.append: what is gone has no type, and is a path nevertheless.
Find(t, p) ==
  IF \E n \in t : n.path = p THEN CHOOSE n \in t : n.path = p
                             ELSE Node(p, "none", FALSE, FALSE, FALSE)

Under(p, q) == IsPrefix(p, q)
Above(p)    == {SubSeq(p, 1, k) : k \in 1..Len(p) - 1}   \* the root excepted

Glob(parts, gap, ends, slash) ==
  [parts |-> parts, gap |-> gap, ends |-> ends, slash |-> slash]

\* A set of numbers, sorted.
Ascending(S) ==
  CHOOSE s \in [1..Cardinality(S) -> S] : \A i, j \in DOMAIN s : i < j => s[i] < s[j]

PartsMatch(g, p) == \A i \in DOMAIN p \cap DOMAIN g.parts : p[i] \in g.parts[i]

\* The whole of a path is matched.
Exactly(g, p) ==
  /\ PartsMatch(g, p)
  /\ IF g.gap = 0 THEN Len(p) = Len(g.parts)
                  ELSE Len(p) >= Len(g.parts) + g.gap /\ Last(p) \in g.ends

\* glob_comp_re: the path or a directory it is in is matched.
Matches(g, p) == \E q \in Above(p) \cup {p} : Exactly(g, q)

\* scan_comp_re: below the path there may be one that matches.
Scans(g, p) == PartsMatch(g, p) /\ (g.gap > 0 \/ Len(p) <= Len(g.parts))

-----------------------------------------------------------------------------
(* Selection functions. *)

Verdict(include) == IF include THEN "include" ELSE "exclude"

GlobResult(g, include, n) ==
  IF Matches(g, n.path)
    THEN IF g.slash /\ Exactly(g, n.path) /\ n.type # "dir" THEN "nothing"
                                                            ELSE Verdict(include)
    ELSE IF include /\ Scans(g, n.path) THEN "scan" ELSE "nothing"

\* test_fn and the sel_funcs of the other options.
Result(sf, n, t) ==
  LET When(b) == IF b THEN Verdict(sf.include) ELSE "nothing"
  IN  CASE sf.by = "glob"    -> GlobResult(sf.glob, sf.include, n)
        [] sf.by = "regexp"  -> When(ToSet(n.path) \cap sf.names # {})
        [] sf.by = "present" -> When(/\ n.type = "dir" /\ n.readable
                                     /\ Find(t, Append(n.path, sf.name)).type # "none")
        [] sf.by = "device"  -> When(n.type = "dev")
        [] sf.by = "older"   -> When(n.type = "reg" /\ n.old)
        [] sf.by = "far"     -> When(n.type # "none" /\ n.far)

ByGlob(g, include) == [by |-> "glob", glob |-> g, include |-> include]

\* A line of a file list: "+ " and "- " overrule the option, comments are skipped.
Line(mark, g) == [mark |-> mark, glob |-> g]

FilelistSfs(lines, include) ==
  LET Sf(l) == ByGlob(l.glob, IF l.mark = "none" THEN include ELSE l.mark = "plus")
      real  == Ascending({i \in DOMAIN lines : lines[i].mark # "comment"})
  IN  [i \in DOMAIN real |-> Sf(lines[real[i]])]

\* ParseArgs: the functions an option stands for.
OptionSfs(o) == IF o.by = "list" THEN FilelistSfs(o.lines, o.include) ELSE <<o>>

\* Would-be Select: the last decision wins.
SelectLast(sfs, n, t) ==
  LET results == [i \in DOMAIN sfs |-> Result(sfs[i], n, t)]
      real    == {i \in DOMAIN sfs : results[i] \in {"include", "exclude"}}
  IN  IF real = {} THEN "include" ELSE results[CHOOSE i \in real : \A j \in real : j <= i]

\* Select: the first decision ends the search; what some function before it wants
\* scanned is scanned unless it is included.
Select(sfs, n, t) ==
  LET results == [i \in DOMAIN sfs |-> Result(sfs[i], n, t)]
      real    == {i \in DOMAIN sfs : results[i] \in {"include", "exclude"}}
      first   == IF real = {} THEN Len(sfs) + 1
                              ELSE CHOOSE i \in real : \A j \in real : i <= j
      result  == IF real = {} THEN "nothing" ELSE results[first]
  IN  IF result # "include" /\ \E i \in 1..first - 1 : results[i] = "scan" THEN "scan"
      ELSE IF result = "nothing" THEN "include" ELSE result

-----------------------------------------------------------------------------
(* The walk. *)

Frame(p) == [dir |-> p, listed |-> FALSE, names |-> <<>>]

\* listpath: sorted; a directory that cannot be listed is empty.
Listing(t, p) ==
  LET children == {n.path : n \in {m \in t : m.path # <<>> /\ Front(m.path) = p}}
  IN  IF Find(t, p).type = "dir" /\ Find(t, p).readable
        THEN Ascending({Last(c) : c \in children})
        ELSE <<>>

Entry(n) == [path |-> n.path, type |-> n.type]

Init ==
  /\ tree \in Trees
  /\ functions = <<>> /\ stack = <<>> /\ delayed = <<>> /\ yielded = <<>>
  /\ phase = "options"
  /\ vanished = {}

Walking == phase = "walk" /\ stack # <<>>
Top     == Last(stack)

\* ParseArgs, one option.
ParseOption ==
  /\ phase = "options"
  /\ Len(functions) < MaxOptions
  /\ \E o \in Options : functions' = functions \o OptionSfs(o)
  /\ UNCHANGED <<tree, stack, delayed, yielded, phase, vanished>>

\* parse_last_excludes, and set_iter: the root is always given.
Begin ==
  /\ phase = "options"
  /\ IF functions # <<>> /\ Last(functions).include
       THEN phase' = "refused" /\ UNCHANGED <<stack, yielded>>
       ELSE /\ phase' = "walk"
            /\ yielded' = <<Entry(Find(tree, <<>>))>>
            /\ stack' = IF Find(tree, <<>>).type = "dir" THEN <<Frame(<<>>)>> ELSE <<>>
  /\ UNCHANGED <<tree, functions, delayed, vanished>>

\* diryield begins: only now is the directory listed.
List ==
  /\ Walking /\ ~Top.listed
  /\ stack' = Append(Front(stack),
                     [Top EXCEPT !.listed = TRUE, !.names = Listing(tree, Top.dir)])
  /\ UNCHANGED <<tree, functions, delayed, yielded, phase, vanished>>

\* The next name of the directory on the top of the stack.
Candidate == Find(tree, Append(Top.dir, Head(Top.names)))

\* The functions let it pass, and it can be read if need be.
Taken(n, s) == s # "exclude" /\ (n.type \in {"reg", "dir"} => n.readable)

\* Would-be Examine: what was held back stays on the stack when it is given.
ExamineKeepsDelayed ==
  /\ Walking /\ Top.listed /\ Top.names # <<>>
  /\ LET n    == Candidate
         s    == Select(functions, n, tree)
         rest == Append(Front(stack), [Top EXCEPT !.names = Tail(@)])
     IN  \/ /\ Taken(n, s) /\ s = "include"
            /\ yielded' = yielded \o delayed \o <<Entry(n)>>
            /\ stack' = IF n.type = "dir" THEN Append(rest, Frame(n.path)) ELSE rest
            /\ UNCHANGED delayed
         \/ /\ Taken(n, s) /\ s = "scan" /\ n.type = "dir"
            /\ delayed' = Append(delayed, Entry(n))
            /\ stack' = Append(rest, Frame(n.path))
            /\ UNCHANGED yielded
         \/ /\ ~(Taken(n, s) /\ (s = "include" \/ n.type = "dir"))
            /\ stack' = rest
            /\ UNCHANGED <<delayed, yielded>>
  /\ UNCHANGED <<tree, functions, phase, vanished>>

\* One turn of Iterate's loop, and of diryield's as far as it skips.
Examine ==
  /\ Walking /\ Top.listed /\ Top.names # <<>>
  /\ LET n    == Candidate
         s    == Select(functions, n, tree)
         rest == Append(Front(stack), [Top EXCEPT !.names = Tail(@)])
     IN  \/ /\ Taken(n, s) /\ s = "include"
            /\ yielded' = yielded \o delayed \o <<Entry(n)>>
            /\ delayed' = <<>>
            /\ stack' = IF n.type = "dir" THEN Append(rest, Frame(n.path)) ELSE rest
         \/ /\ Taken(n, s) /\ s = "scan" /\ n.type = "dir"
            /\ delayed' = Append(delayed, Entry(n))
            /\ stack' = Append(rest, Frame(n.path))
            /\ UNCHANGED yielded
         \/ /\ ~(Taken(n, s) /\ (s = "include" \/ n.type = "dir"))
            /\ stack' = rest
            /\ UNCHANGED <<delayed, yielded>>
  /\ UNCHANGED <<tree, functions, phase, vanished>>

\* Would-be Leave: what was held back is not dropped.
LeaveKeepsDelayed ==
  /\ Walking /\ Top.listed /\ Top.names = <<>>
  /\ stack' = Front(stack)
  /\ UNCHANGED <<tree, functions, delayed, yielded, phase, vanished>>

\* A directory is done: StopIteration.
Leave ==
  /\ Walking /\ Top.listed /\ Top.names = <<>>
  /\ stack' = Front(stack)
  /\ delayed' = IF delayed = <<>> THEN <<>> ELSE Front(delayed)
  /\ UNCHANGED <<tree, functions, yielded, phase, vanished>>

End ==
  /\ phase = "walk" /\ stack = <<>>
  /\ phase' = "done"
  /\ UNCHANGED <<tree, functions, stack, delayed, yielded, vanished>>

\* Another program removes a path, and what is under it.
Vanish ==
  /\ phase = "walk" /\ stack # <<>>
  /\ Cardinality(vanished) < MaxVanish
  /\ \E p \in Fickle :
       /\ Find(tree, p).type # "none"
       /\ tree' = {n \in tree : ~Under(p, n.path)}
       /\ vanished' = vanished \cup {p}
  /\ UNCHANGED <<functions, stack, delayed, yielded, phase>>

Next ==
  \/ ParseOption \/ Begin
  \/ List \/ Examine \/ Leave \/ End
  \/ Vanish

Spec == Init /\ [][Next]_vars

-----------------------------------------------------------------------------
(* What the walk must give. *)

\* Paths in order, a directory before what is in it.
Before(p, q) ==
  \/ p # q /\ IsPrefix(p, q)
  \/ \E i \in DOMAIN p \cap DOMAIN q :
       p[i] < q[i] /\ \A j \in 1..i - 1 : p[j] = q[j]

\* The signatures of the chain are collated with this iterator, and sets are restored
\* directory by directory: every path is given once, in order, and after the directory
\* it is in, whatever is removed meanwhile.
InOrder ==
  /\ \A i \in 1..Len(yielded) - 1 : Before(yielded[i].path, yielded[i + 1].path)
  /\ \A i \in 2..Len(yielded) :
       \E j \in 1..i - 1 : /\ yielded[j].path = Front(yielded[i].path)
                           /\ yielded[j].type = "dir"

Finished == phase = "done" /\ vanished = {}

Answer(p)  == Select(functions, Find(tree, p), tree)
Readable(n) == n.type \in {"reg", "dir"} => n.readable

\* Every directory on the way to the path is entered; the root needs no answer.
Reached(p) ==
  \A a \in Above(p) \cup {<<>>} :
    /\ Find(tree, a).type = "dir" /\ Find(tree, a).readable
    /\ a # <<>> => Answer(a) \in {"include", "scan"}

Below == {n \in tree : n.path # <<>>}

Included(n) == Reached(n.path) /\ Readable(n) /\ Answer(n.path) = "include"

\* Only scanned, but something in it is included.
Scanned(n) ==
  /\ Reached(n.path) /\ n.type = "dir" /\ n.readable /\ Answer(n.path) = "scan"
  /\ \E m \in Below : Included(m) /\ Under(n.path, m.path)

\* "Is a directory that should be scanned": what Iterate gives of a source nobody
\* changes are the included paths it can reach, and the directories with one in them
\* that are only scanned, no other.
SelectedExactly ==
  Finished => {e.path : e \in ToSet(yielded)}
                = {<<>>} \cup {n.path : n \in {m \in Below : Included(m) \/ Scanned(m)}}

Opinions(n) == {i \in DOMAIN functions :
                  Result(functions[i], n, tree) \in {"include", "exclude"}}
Deciding(n) == CHOOSE i \in Opinions(n) : \A j \in Opinions(n) : i <= j

\* A pattern includes the path first, and no condition before it excludes a
\* directory above; each of them and the root can be read.
IncludedFirst(n) ==
  /\ functions[Deciding(n)].by = "glob" /\ functions[Deciding(n)].include
  /\ \A a \in Above(n.path) \cup {<<>>} : Readable(Find(tree, a))
  /\ \A a \in Above(n.path), i \in 1..Deciding(n) - 1 :
       Result(functions[i], Find(tree, a), tree) # "exclude"

\* The manual's rule, both ways: "A given file is excluded by the file selection system
\* exactly when the first matching file selection condition specifies that the file be
\* excluded".  A file that is given was not excluded first, though the directory above
\* be included or only scanned; and what a pattern includes first is given, though
\* every directory above be excluded later or held back.
FirstMatchDecides ==
  Finished => \A n \in {m \in Below : Opinions(m) # {}} :
    LET given == {e \in ToSet(yielded) : e.path = n.path}
    IN  /\ \A e \in given : e.type \notin {"dir", "none"} => functions[Deciding(n)].include
        /\ Readable(n) /\ IncludedFirst(n) => given # {}
=============================================================================
