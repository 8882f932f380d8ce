----------------------------- MODULE DeltaTrees ------------------------------
(***************************************************************************)
(* What is in the sets of a chain, and what restoring it gives: how a tree *)
(* is compared with the signatures of the chain (diffdir.py), how deltas   *)
(* are put together again (patchdir.py: integrate_patch_iters) and written *)
(* as a tree (Write_ROPaths, over lazy.py: IterTreeReducer), how the same  *)
(* deltas patch a tree in place (Patch), and verify (bin/duplicity).  The  *)
(* volumes and the remote are TarVolumes and BackupSession.                *)
(*                                                                         *)
(* Abstractions.  An index is a tuple of numbers.  The permissions, owner  *)
(* and modification time of a path are one stamp.  Data is a number; it is *)
(* the target of a symbolic link, too.  A signature is the data it was     *)
(* computed from, which need not be what is stored: a file is read on when *)
(* it is closed.  A delta patches only the data it was computed against    *)
(* (librsync is external).  All iterators are in the order of      *)
(* their indices and so are sets here.  Devices and fifos are left out,    *)
(* and so are errors while a tree is restored.                             *)
(***************************************************************************)
EXTENDS Naturals, FiniteSets, SequencesExt

CONSTANTS
  Indices,    \* the indices a path may have, closed under prefixes
  FirstTrees, \* the types of the paths of the first source: [Indices -> types]
  NumData,    \* contents
  MaxSets,    \* bound: backup sets
  MaxEdits,   \* bound: changes to the source
  MaxFaults   \* bound: errors met by the runs

ASSUME IndicesAssumption ==
  /\ Indices \subseteq Seq(Nat) /\ IsFiniteSet(Indices)
  /\ <<>> \in Indices /\ \A i \in Indices \ {<<>>} : Front(i) \in Indices
  /\ FirstTrees \subseteq [Indices -> {"none", "reg", "dir", "sym"}]
  /\ NumData \in Nat \ {0}
  /\ MaxSets \in Nat /\ MaxEdits \in Nat /\ MaxFaults \in Nat

Cut     == 0             \* what a file gives whose read stops at once
Garbage == NumData + 1   \* what a delta makes of other data, if librsync takes it at all
Touched == MaxEdits + 2  \* stamp of a path that is written now

VARIABLES
  source,  \* the tree that is backed up
  sets,    \* the backup sets: [full, diff, sig], two tar files
  taken,   \* history: the source and the fault of the last run
  late,    \* history: the files whose last signature is of other data than is stored
  astray,  \* history: the files whose data is patched with a diff to such a signature
  edits, faults  \* bounds

vars == <<source, sets, taken, late, astray, edits, faults>>

-----------------------------------------------------------------------------
(* Paths (path.py).  A tree is the set of its paths. *)

Path(i, type, stamp, d) == [index |-> i, type |-> type, stamp |-> stamp, data |-> d]

Reg(i, stamp, d) == Path(i, "reg", stamp, d)
Sym(i, d)        == Path(i, "sym", 0, d)
Dir(i, stamp)    == Path(i, "dir", stamp, 0)
Absent(i)        == Path(i, "none", 0, 0)

\* The path with an index, in a tree.
At(tree, i) ==
  IF \E p \in tree : p.index = i THEN CHOOSE p \in tree : p.index = i ELSE Absent(i)

\* __eq__: sizes and data are not looked at.
Looks(a, b) ==
  /\ a.type = b.type
  /\ a.type \in {"reg", "dir"} => a.stamp = b.stamp
  /\ a.type = "sym" => a.data = b.data

\* Indices are compared as tuples.
Earlier(i, j) ==
  \/ IsStrictPrefix(i, j)
  \/ \E k \in DOMAIN i \cap DOMAIN j : i[k] < j[k] /\ \A m \in 1..k-1 : i[m] = j[m]

\* An element of a difference or signature tar: a path, its difftype and, for a
\* "diff", what it was computed against.
Entry(difftype, path, base) == [difftype |-> difftype, path |-> path, base |-> base]

HasEntry(iter, i) == \E e \in iter : e.path.index = i

EntryAt(iter, i) == CHOOSE e \in iter : e.path.index = i

-----------------------------------------------------------------------------
(* A backup: diffdir.py *)

\* An error at an index, with the data that is read until the file seems to end,
\* and all that is read until it is closed.
Fault(kind, i, read, signed) == [kind |-> kind, index |-> i, data |-> read, sig |-> signed]

NoFault == Fault("none", <<>>, 0, 0)

\* Select.Iterate passes over what cannot be read, and what is below it.
SelectIter(fault) ==
  {p \in source : fault.kind = "locked" => ~ IsPrefix(fault.index, p.index)}

\* Mutant of CombinePathIters: the oldest signature counts.
CombinePathItersOldest(sigs) ==
  UNION {{e \in sigs[k] : \A j \in 1..k-1 : ~ HasEntry(sigs[j], e.path.index)} :
           k \in DOMAIN sigs}

\* combine_path_iters: for each index the element of the last iterator.
CombinePathIters(sigs) ==
  UNION {{e \in sigs[k] : \A j \in k+1..Len(sigs) : ~ HasEntry(sigs[j], e.path.index)} :
           k \in DOMAIN sigs}

\* A file whose reads give something else than it has: a read error is taken for
\* its end, and it may have changed since it was looked at.
Misread(p, fault) ==
  p.type = "reg" /\ p.index = fault.index /\ fault.kind \in {"cut", "edited"}

\* The data that is stored.
DataRead(new, fault) == IF Misread(new, fault) THEN fault.data ELSE new.data

\* Mutant of IsDiff: against whatever had the name.
IsDiffOfAny(new, sig) == new.type = "reg" /\ sig.difftype # "none"

IsDiff(new, sig) ==
  new.type = "reg" /\ sig.path.type = "reg" /\ sig.difftype = "signature"

\* get_delta_path
GetDeltaPath(new, sig, fault) ==
  LET read == [new EXCEPT !.data = DataRead(new, fault)]
  IN  IF IsDiff(new, sig) THEN Entry("diff", read, sig.path.data)
      ELSE Entry("snapshot", read, 0)

NoEntry(i) == Entry("none", Absent(i), 0)

\* get_delta_iter, for one index.  A file that cannot be opened has no delta.
Delta(new, sig, fault) ==
  IF new.type = "none"
    THEN IF sig.path.type # "none" /\ new.index # <<>>
           THEN {Entry("deleted", new, 0)} ELSE {}
  ELSE IF Looks(new, sig.path) THEN {}
  ELSE IF new.type = "reg" /\ fault.kind = "fails" /\ fault.index = new.index THEN {}
  ELSE {GetDeltaPath(new, sig, fault)}

GetDeltaIter(new, sig, fault) ==
  UNION {Delta(At(new, i), IF HasEntry(sig, i) THEN EntryAt(sig, i) ELSE NoEntry(i), fault) :
           i \in Indices}

\* FileWithSignature.close reads on, after a read that seemed the last one: what
\* an error has held back, or what the file has grown by, is signed, too.
DataSigned(p, fault) == IF Misread(p, fault) THEN fault.sig ELSE p.data

\* What goes to the signature tar with a delta.
SigEntry(e, fault) ==
  Entry(IF e.path.type = "reg" THEN "signature" ELSE e.difftype,
        [e.path EXCEPT !.data = DataSigned(e.path, fault)], 0)

\* DirFull_WriteSig and DirDelta_WriteSig
Backup(full, sigs, fault) ==
  LET diff == GetDeltaIter(SelectIter(fault), CombinePathIters(sigs), fault)
  IN  [full |-> full, diff |-> diff, sig |-> {SigEntry(e, fault) : e \in diff}]

-----------------------------------------------------------------------------
(* Trees that are written: lazy.py, patchdir.py *)

IsParent(i, j) == j # <<>> /\ i = Front(j)

\* A directory entry that is made or removed touches the directory.
Touch(tree, i) ==
  {IF IsParent(p.index, i) THEN [p EXCEPT !.stamp = Touched] ELSE p : p \in tree}

DelTree(tree, i) == Touch({p \in tree : ~ IsPrefix(i, p.index)}, i)

Put(tree, p) == Touch({q \in tree : q.index # p.index}, p.index) \cup {p}

\* end_process of the directories that are left: the attributes are copied.
FinishBranches(st, leaving) ==
  [tree |-> {IF \E d \in leaving : d.index = p.index
               THEN [p EXCEPT !.stamp = At(leaving, p.index).stamp] ELSE p : p \in st.tree},
   open |-> st.open \ leaving]

OpenDir(st, tree, p) ==
  [tree |-> Put(tree, Dir(p.index, Touched)), open |-> st.open \cup {p}]

\* ROPath_IterWriter
WriteROPath(st, e) ==
  IF e.path.type = "dir" THEN OpenDir(st, st.tree, e.path)
  ELSE [st EXCEPT !.tree = Put(@, e.path)]

Patched(data, e) == IF e.base = data THEN e.path.data ELSE Garbage

\* PathPatcher.  The directories are listed as they are reached, so that basis
\* is what is there by then.
PatchPath(st, e) ==
  LET basis == At(st.tree, e.path.index)
      clear == DelTree(st.tree, e.path.index)
  IN  CASE e.path.type = "dir" ->
             IF basis.type = "dir" THEN [st EXCEPT !.open = @ \cup {e.path}]
             ELSE OpenDir(st, clear, e.path)
        [] e.difftype = "deleted" ->
             [st EXCEPT !.tree = IF basis.type = "none" THEN @ ELSE clear]
        [] e.path.type # "dir" /\ e.difftype = "snapshot" ->
             [st EXCEPT !.tree = Put(clear, e.path)]
        [] e.difftype = "diff" /\ basis.type # "reg" ->
             [st EXCEPT !.tree = Put(clear, [e.path EXCEPT !.data = Garbage])]
        [] OTHER ->
             [st EXCEPT !.tree = Put(@, [e.path EXCEPT !.data = Patched(basis.data, e)])]

\* The element that an iterator gives first, as a set.
First(iter) == {e \in iter : \A d \in iter : d = e \/ Earlier(e.path.index, d.path.index)}

\* What an element does, after the branches of the directories it is not in are
\* finished.
Process(branch, st, e) ==
  LET left == FinishBranches(st, {d \in st.open : ~ IsPrefix(d.index, e.path.index)})
  IN  IF branch = "PathPatcher" THEN PatchPath(left, e) ELSE WriteROPath(left, e)

\* IterTreeReducer: a branch for each directory that is open.  (There is one
\* pair of a state and what is left to read at a time: it is the member of a
\* set, which TLC evaluates once.)
Reduce(branch, tree, iter) ==
  LET read[n \in 0..Cardinality(iter)] ==
        IF n = 0 THEN {<<[tree |-> tree, open |-> {}], iter>>}
        ELSE UNION {{<<Process(branch, p[1], e), p[2] \ {e}>> : e \in First(p[2])} :
                      p \in read[n-1]}
  IN  UNION {FinishBranches(p[1], p[1].open).tree : p \in read[Cardinality(iter)]}

\* patch_diff_tarfile
Patch(tree, diff) == Reduce("PathPatcher", tree, diff)

-----------------------------------------------------------------------------
(* A restore: patchdir.py *)

\* normalize_ps: from the last element on that is not a diff, without blanks.
NormalizePs(ps) ==
  LET upto[k \in 0..Len(ps)] ==
        IF k = 0 THEN <<>>
        ELSE IF ps[k].difftype = "none" THEN upto[k-1]
        ELSE IF ps[k].difftype = "diff" THEN Append(upto[k-1], ps[k])
        ELSE <<ps[k]>>
  IN  upto[Len(ps)]

\* patch_seq2ropath.  Its assertions are caught by integrate_patch_iters, which
\* then leaves the path out.
PatchSeq2ROPath(ps) ==
  LET data[k \in DOMAIN ps] ==
        IF k = 1 THEN ps[1].path.data ELSE Patched(data[k-1], ps[k])
  IN  IF \/ ps = <<>> \/ Last(ps).path.type = "none"
         \/ ps[1].difftype = "diff"
         \/ ps[1].path.type # "reg" /\ Len(ps) > 1 THEN {}
      ELSE {[Last(ps) EXCEPT !.path.data = data[Len(ps)]]}

\* collate_iters: for each index the elements of all iterators, or blanks.
CollateIters(iters) ==
  LET elements(i) ==
        [k \in DOMAIN iters |-> IF HasEntry(iters[k], i) THEN EntryAt(iters[k], i) ELSE NoEntry(i)]
  IN  {elements(e.path.index) : e \in UNION {iters[k] : k \in DOMAIN iters}}

IntegratePatchIters(iters) ==
  UNION {PatchSeq2ROPath(ps) : ps \in {NormalizePs(s) : s \in CollateIters(iters)}}

\* Mutant of FilterPathIter: the prefix is not taken away.
FilterPathIterKeeps(iter, r) == {e \in iter : IsPrefix(r, e.path.index)}

FilterPathIter(iter, r) ==
  {[e EXCEPT !.path.index = SubSeq(@, Len(r) + 1, Len(@))] :
     e \in {f \in iter : IsPrefix(r, f.path.index)}}

\* The sets from the full one on which set k depends.
ChainOf(k) ==
  LET full == {f \in 1..k : sets[f].full}
  IN  SubSeq(sets, CHOOSE f \in full : \A g \in full : g <= f, k)

\* tarfiles2rop_iter: what is restored of r from set k.  (Here, too, TLC
\* evaluates the member of a set once.)
RopIter(k, r) ==
  LET chain == ChainOf(k)
  IN  UNION {IntegratePatchIters(iters) :
               iters \in {[n \in DOMAIN chain |-> FilterPathIter(chain[n].diff, r)]}}

Restored(k, r) == UNION {Reduce("ROPath_IterWriter", {}, iter) : iter \in {RopIter(k, r)}}

-----------------------------------------------------------------------------
(* Verify *)

\* compare_verbose, with include_data
CompareVerbose(a, b) == Looks(a, b) /\ (a.type = "reg" => a.data = b.data)

\* verify: the indices at which the source differs from set k.
Differences(k) ==
  LET backup == {e.path : e \in RopIter(k, <<>>)}
  IN  {i \in Indices : ~ CompareVerbose(At(backup, i), At(source, i))}

-----------------------------------------------------------------------------
IsTree(tree) ==
  /\ At(tree, <<>>).type = "dir"
  /\ \A p \in tree : p.index # <<>> => At(tree, Front(p.index)).type = "dir"

Init ==
  /\ \E type \in FirstTrees :
       source = {Path(i, type[i], 0, IF type[i] = "dir" THEN 0 ELSE 1) :
                   i \in {j \in Indices : type[j] # "none"}}
  /\ IsTree(source)
  /\ sets = <<>> /\ taken = [source |-> {}, fault |-> NoFault]
  /\ late = {} /\ astray = {}
  /\ edits = 0 /\ faults = 0

\* One path is made, removed or changed, at a time of its own; or a file is
\* changed within the second of its modification time.
Edit ==
  /\ edits < MaxEdits /\ edits' = edits + 1
  /\ \E i \in Indices \ {<<>>} :
       LET now == edits + 1
           old == At(source, i)
           new == {Absent(i), Dir(i, now)} \cup {Reg(i, now, d) : d \in 1..NumData}
                    \cup {Sym(i, d) : d \in 1..NumData}
                    \cup (IF old.type = "reg" THEN {Reg(i, old.stamp, d) : d \in 1..NumData} ELSE {})
       IN  /\ At(source, Front(i)).type = "dir"
           /\ \E n \in new \ {old} :
                LET kept == {p \in source \ {old} : n.type # "dir" => ~ IsPrefix(i, p.index)}
                    moved == n.type # old.type \/ n.type = "sym"
                IN  source' = {IF moved /\ IsParent(p.index, i) THEN Dir(p.index, now) ELSE p :
                                 p \in kept}
                              \cup ({n} \ {Absent(i)})
  /\ UNCHANGED <<sets, taken, late, astray, faults>>

\* The files that a set has with the signature of other data.
SignedLate(diff, fault) ==
  {e.path.index : e \in {d \in diff : DataSigned(d.path, fault) # d.path.data}}

\* Any element that is not a diff brings a file back in line.
Follow(full, diff, fault) ==
  LET old     == IF full THEN {} ELSE late
      off     == IF full THEN {} ELSE astray
      diffs   == {e.path.index : e \in {d \in diff : d.difftype = "diff"}}
      kept(S) == {i \in S : ~ HasEntry(diff, i)}
  IN  /\ late'   = SignedLate(diff, fault) \cup kept(old)
      /\ astray' = ((old \cup off) \cap diffs) \cup kept(off)

\* A run.  At most one path gives an error that it goes on after: it cannot be
\* read, not be opened, ends too soon, or is edited after it was looked at.
TakeBackup(full, fault) ==
  /\ Len(sets) < MaxSets
  /\ full \/ sets # <<>>
  /\ LET chain == IF full THEN <<>> ELSE ChainOf(Len(sets))
         set   == Backup(full, [k \in DOMAIN chain |-> chain[k].sig], fault)
     IN  /\ sets' = Append(sets, set)
         /\ Follow(full, set.diff, fault)
  /\ taken' = [source |-> source, fault |-> fault]

QuietRun ==
  /\ \E full \in BOOLEAN : TakeBackup(full, NoFault)
  /\ UNCHANGED <<source, edits, faults>>

FaultyRun ==
  /\ faults < MaxFaults /\ faults' = faults + 1
  /\ \E full \in BOOLEAN, p \in source :
       /\ p.index # <<>>
       /\ \/ /\ p.type \in {"reg", "dir"}
             /\ TakeBackup(full, Fault("locked", p.index, 0, 0))
          \/ /\ p.type = "reg"
             /\ TakeBackup(full, Fault("fails", p.index, 0, 0))
          \/ /\ p.type = "reg"
             /\ \E signed \in {Cut, p.data} : TakeBackup(full, Fault("cut", p.index, Cut, signed))
  /\ UNCHANGED <<source, edits>>

\* The file is edited before it is read, or grows after its end was seen.
EditedRun ==
  /\ faults < MaxFaults /\ faults' = faults + 1
  /\ edits < MaxEdits /\ edits' = edits + 1
  /\ \E full \in BOOLEAN, d \in 1..NumData, p \in {q \in source : q.type = "reg"} :
       /\ \E read \in {d, p.data} : TakeBackup(full, Fault("edited", p.index, read, d))
       /\ source' = (source \ {p}) \cup {Reg(p.index, edits + 1, d)}

Next == Edit \/ QuietRun \/ FaultyRun \/ EditedRun

Spec == Init /\ [][Next]_vars

-----------------------------------------------------------------------------
(* Sets do not change, so that each is looked at when it is the last one.  *)

Newest == Len(sets)
Whole  == Restored(Newest, <<>>)

Met(fault, i) == fault # NoFault /\ IsPrefix(fault.index, i)

\* What a restore gives is the source at the time of the backup, though paths
\* change their type, go and come back, cannot be read for a while, or change
\* while they are read: all but the path at which this run met an error, files
\* that looked, by their modification time, as in the set before, and those with a
\* diff to the signature of other data than was stored, until they have another
\* element than a diff.
RestoresSource ==
  Newest > 0 =>
    LET whole  == Whole
        before == IF sets[Newest].full THEN {} ELSE Restored(Newest - 1, <<>>)
    IN  \A i \in Indices :
          \/ At(whole, i) = At(taken.source, i)
          \/ At(whole, i) = At(before, i) /\ Looks(At(taken.source, i), At(before, i))
          \/ Met(taken.fault, i)
          \/ i \in astray

Below(tree, r) ==
  {[p EXCEPT !.index = SubSeq(@, Len(r) + 1, Len(@))] :
     p \in {q \in tree : IsPrefix(r, q.index)}}

\* Restoring one path gives the part of the tree below it: deltas are filtered
\* before they are put together, and the path becomes the root of a tree.
SubtreeRestored ==
  Newest > 0 =>
    LET whole == Whole
    IN  \A r \in Indices : Restored(Newest, r) = Below(whole, r)

NoStamp(tree) == {IF p.type = "dir" THEN Dir(p.index, 0) ELSE p : p \in tree}

\* Patching a tree with the deltas of a chain, one set after the other, as
\* rdiffdir does, gives what restoring the chain at once gives.  The attributes
\* of directories differ: those of an unchanged one in which a file was written
\* are not set again.
PatchAgrees ==
  Newest > 0 =>
    LET chain == ChainOf(Newest)
        patched[n \in 0..Len(chain)] == IF n = 0 THEN {} ELSE Patch(patched[n-1], chain[n].diff)
    IN  NoStamp(patched[Len(chain)]) = NoStamp(Whole)

\* verify --compare-data finds the paths whose restored copy is not what is in
\* the source, and no other.
VerifyExact ==
  Newest > 0 =>
    LET whole == Whole
    IN  Differences(Newest) = {i \in Indices : At(source, i) # At(whole, i)}
=============================================================================
