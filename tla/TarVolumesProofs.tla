-------------------------- MODULE TarVolumesProofs --------------------------
(***************************************************************************)
(* Proofs about TarVolumes, for every value of its constants: the types of *)
(* the iterator, the volumes and the manifest, that the text appended by   *)
(* several runs means the manifest of the last one, and that a restore     *)
(* yields what was backed up.                                              *)
(*                                                                         *)
(* The first invariant says where the manifest object, the text and the remote   *)
(* stand to each other.  A run knows the volumes before the one it writes: *)
(* they are on the remote, and the text means them.  The text may also     *)
(* list volumes above, which an earlier run left and the next line drops;  *)
(* the remote may hold the one volume that run was about to replace.       *)
(***************************************************************************)
EXTENDS TarVolumes, FiniteSetTheorems, SequenceTheorems, TLAPS

Line == [num : Volumes, info : VolumeInfo]

\* The number on the last line.
Top(lines) == IF lines = <<>> THEN 0 ELSE lines[Len(lines)].num

\* Line i is the last one with number k.
Latest(lines, k, i) ==
  /\ i \in DOMAIN lines /\ lines[i].num = k
  /\ \A j \in DOMAIN lines : lines[j].num = k => j <= i

\* The numbers up to the last one are all there.
Numbered(lines) == \A k \in 1..Top(lines) : \E i \in DOMAIN lines : Latest(lines, k, i)

\* The iterator: a file is in progress only when there is a previous index.
IterOK(it) ==
  /\ it \in [todo : SUBSET Paths, waiting : 0..MaxBlocks, queued : Block \cup {NoBlock},
             index : Indices, block : 0..MaxBlocks, remember : BOOLEAN,
             memIndex : Indices, memBlock : 0..MaxBlocks]
  /\ it.waiting # 0 => it.index # 0

FilesOK ==
  /\ source \in [Paths -> File]
  /\ IsStore(remote, Volumes, Seq(Block))
  /\ text \in Seq(Line)
  /\ wanted \subseteq Paths /\ crashes \in 0..MaxCrashes /\ edits \in 0..MaxEdits

RunOK ==
  /\ IterOK(iter) /\ IsStore(mf, Volumes, VolumeInfo)
  /\ pc \in {"idle", "skip", "open", "write", "put", "done"}
  /\ vol \in 0..MaxVol /\ data \in Seq(Block) /\ atEnd \in BOOLEAN
  /\ last \in Indices \X (0..MaxBlocks)

\* Of the files: what the text means, and that it has all volumes but the last.
TextInv ==
  /\ Numbered(text)
  /\ \E r \in 0..MaxVol : DOMAIN remote = 1..r
  /\ \A k \in Volumes : k + 1 \in DOMAIN remote =>
       k \in 1..Top(text) /\ FromString(text)[k].data = remote[k]

\* The volumes the run has put, or trusts.
Sent == IF pc \in {"write", "put"} THEN vol - 1 ELSE vol

\* Of the run: its manifest object agrees with the text and with the remote.
ManifestInv ==
  /\ pc = "idle" => vol = 0 /\ mf = EmptyStore
  /\ pc # "idle" =>
       /\ pc \in {"write", "put"} => vol # 0
       /\ DOMAIN mf = 1..(IF pc = "write" THEN vol - 1 ELSE vol)
       /\ DOMAIN remote \subseteq 1..(IF pc \in {"skip", "open"} THEN vol + 1 ELSE vol)
       /\ \A k \in 1..Sent :
            /\ k \in DOMAIN remote /\ mf[k].data = remote[k]
            /\ k <= Top(text) /\ mf[k] = FromString(text)[k]
       /\ pc \in {"put", "done"} => FromString(text) = mf /\ Top(text) = vol
       /\ pc = "put" => mf[vol].data = data

IInv == FilesOK /\ RunOK /\ TextInv /\ ManifestInv

-----------------------------------------------------------------------------
(* The manifest text. *)

\* What the text means, in terms of its latest lines.
LEMMA FromStringIs ==
  ASSUME NEW lines \in Seq(Line), Numbered(lines)
  PROVE  /\ Top(lines) \in 0..MaxVol
         /\ DOMAIN FromString(lines) = 1..Top(lines)
         /\ \A k \in 1..Top(lines), i \in DOMAIN lines :
              Latest(lines, k, i) => FromString(lines)[k] = lines[i].info
         /\ FromString(lines) \in [1..Top(lines) -> VolumeInfo]
<1> DEFINE n == Top(lines)
           nums == {lines[i].num : i \in DOMAIN lines} \cap 1..n
           latest(k) == CHOOSE i \in DOMAIN lines :
                          /\ lines[i].num = k
                          /\ \A j \in DOMAIN lines : lines[j].num = k => j <= i
<1>1. \A i \in DOMAIN lines : lines[i] \in Line /\ i \in Nat
  OBVIOUS
<1>2. n \in 0..MaxVol
  <2>1. CASE lines = <<>>
    BY <2>1, BoundsAssumption DEF Top
  <2>2. CASE lines # <<>>
    <3>1. Len(lines) \in DOMAIN lines
      BY <2>2
    <3>2. lines[Len(lines)].num \in Volumes
      BY <1>1, <3>1 DEF Line
    <3> QED BY <2>2, <3>2, BoundsAssumption DEF Top, Volumes
  <2> QED BY <2>1, <2>2
<1>3. FromString(lines) = [k \in nums |-> lines[latest(k)].info]
  BY DEF FromString, Top
<1>4. nums = 1..n
  <2>1. \A k \in 1..n : \E i \in DOMAIN lines : lines[i].num = k
    BY DEF Numbered, Latest
  <2> QED BY <2>1
<1>5. \A k \in 1..n : Latest(lines, k, latest(k))
  BY DEF Numbered, Latest
<1>6. \A k \in 1..n, i \in DOMAIN lines : Latest(lines, k, i) => i = latest(k)
  <2> SUFFICES ASSUME NEW k \in 1..n, NEW i \in DOMAIN lines, Latest(lines, k, i)
               PROVE  i = latest(k)
    OBVIOUS
  <2>1. i <= latest(k) /\ latest(k) <= i /\ latest(k) \in DOMAIN lines
    BY <1>5 DEF Latest
  <2> HIDE DEF latest
  <2> QED BY <1>1, <2>1
<1> HIDE DEF nums
<1>7. \A k \in 1..n : FromString(lines)[k] = lines[latest(k)].info
  BY <1>3, <1>4
<1>8. \A k \in 1..n : lines[latest(k)].info \in VolumeInfo
  BY <1>1, <1>5 DEF Latest, Line
<1> HIDE DEF latest
<1> QED BY <1>2, <1>3, <1>4, <1>6, <1>7, <1>8

\* A line with a number that is at most one above the last: the volumes above it go,
\* those below stay.
LEMMA AppendLine ==
  ASSUME NEW lines \in Seq(Line), Numbered(lines),
         NEW line \in Line, line.num <= Top(lines) + 1
  PROVE  /\ Append(lines, line) \in Seq(Line) /\ Numbered(Append(lines, line))
         /\ Top(Append(lines, line)) = line.num
         /\ FromString(Append(lines, line))[line.num] = line.info
         /\ \A j \in 1..(line.num - 1) :
              j <= Top(lines) /\ FromString(Append(lines, line))[j] = FromString(lines)[j]
<1> DEFINE n == Len(lines)
           k == line.num
           x == line.info
           new == Append(lines, line)
<1>1. Top(lines) \in Nat /\ k \in Nat \ {0} /\ k <= Top(lines) + 1
  <2>1. Top(lines) \in 0..MaxVol
    BY FromStringIs
  <2>2. k \in 1..MaxVol
    BY DEF Line, Volumes
  <2> QED BY <2>1, <2>2, BoundsAssumption
<1>3. /\ new \in Seq(Line) /\ Len(new) = n + 1 /\ new[n + 1] = line
      /\ \A i \in DOMAIN lines : i \in DOMAIN new /\ new[i] = lines[i] /\ i <= n
      /\ n + 1 \in DOMAIN new /\ n \in Nat /\ n + 1 \notin DOMAIN lines
      /\ \A i \in DOMAIN new : i \in DOMAIN lines \/ i = n + 1
  OBVIOUS
<1> HIDE DEF new, k, x
<1>4. Top(new) = k
  BY <1>3 DEF Top, k
<1>5. Latest(new, k, n + 1)
  BY <1>3 DEF Latest, k
<1>6. ASSUME NEW j \in 1..(k - 1), NEW i \in DOMAIN lines, Latest(lines, j, i)
      PROVE  Latest(new, j, i)
  <2>1. j # k
    BY <1>1
  <2>2. new[n + 1].num = k
    BY <1>3 DEF k
  <2> QED BY <1>3, <1>6, <2>1, <2>2 DEF Latest
<1>7. \A j \in 1..(k - 1) : j \in 1..Top(lines)
  BY <1>1
<1>8. Numbered(new)
  <2>1. ASSUME NEW j \in 1..k PROVE \E i \in DOMAIN new : Latest(new, j, i)
    <3>1. CASE j = k
      BY <1>3, <1>5, <3>1
    <3>2. CASE j # k
      <4>1. j \in 1..(k - 1)
        BY <1>1, <3>2
      <4>2. PICK i \in DOMAIN lines : Latest(lines, j, i)
        BY <1>7, <4>1 DEF Numbered
      <4> QED BY <1>3, <1>6, <4>1, <4>2
    <3> QED BY <3>1, <3>2
  <2> QED BY <1>4, <2>1 DEF Numbered
<1>9. FromString(new)[k] = x
  <2>1. k \in 1..Top(new)
    BY <1>1, <1>4
  <2>2. FromString(new)[k] = new[n + 1].info
    BY <1>3, <1>5, <1>8, <2>1, FromStringIs
  <2> QED BY <1>3, <2>2 DEF x
<1>10. ASSUME NEW j \in 1..(k - 1)
       PROVE  j <= Top(lines) /\ FromString(new)[j] = FromString(lines)[j]
  <2>1. j \in 1..Top(lines) /\ j \in 1..Top(new)
    BY <1>1, <1>4, <1>7
  <2>2. PICK i \in DOMAIN lines : Latest(lines, j, i)
    BY <2>1 DEF Numbered
  <2>3. FromString(lines)[j] = lines[i].info
    BY <2>1, <2>2, FromStringIs
  <2>4. FromString(new)[j] = new[i].info
    BY <1>3, <1>6, <1>8, <2>1, <2>2, FromStringIs
  <2> QED BY <1>1, <1>3, <2>1, <2>2, <2>3, <2>4
<1> QED BY <1>3, <1>4, <1>8, <1>9, <1>10 DEF new, k, x

-----------------------------------------------------------------------------
(* The iterator. *)

\* A set of numbers up to n has a least element, unless it is empty.
LEMMA HasLeast ==
  ASSUME NEW n \in Nat, NEW S \in SUBSET (1..n), S # {}
  PROVE  \E e \in S : \A q \in S : e <= q
<1> DEFINE From(e) == {q \in S : q < e}
           All == {From(e) : e \in S}
<1>1. IsFiniteSet(S)
  <2>1. IsFiniteSet(1..n)
    BY FS_Interval
  <2> QED BY <2>1, FS_Subset
<1>2. All \subseteq SUBSET S /\ All # {}
  OBVIOUS
<1>3. PICK U \in All : \A X \in All : ~ (<<X, U>> \in StrictSubsetOrdering(S))
  <2>1. IsWellFoundedOn(StrictSubsetOrdering(S), SUBSET S)
    BY <1>1, FS_StrictSubsetOrderingWellFounded, FS_FiniteSubsetsOfFinite
  <2> HIDE DEF All
  <2> QED BY <2>1, <1>2, WFMin
<1>4. PICK e \in S : U = From(e)
  BY <1>3
<1>5. ASSUME NEW q \in S, ~ (e <= q) PROVE FALSE
  <2>1. S \subseteq Nat /\ q < e
    BY <1>5
  <2>2. q \in U /\ q \notin From(q)
    BY <1>4, <2>1
  <2>3. From(q) \subseteq U
    <3>1. \A u \in S : u < q => u < e
      BY <2>1
    <3> QED BY <1>4, <3>1
  <2>4. <<From(q), U>> \in StrictSubsetOrdering(S)
    BY <2>2, <2>3, <1>4 DEF StrictSubsetOrdering
  <2> QED BY <1>3, <2>4
<1> QED BY <1>5

LEMMA FreshOK ==
  /\ IterOK(ClosedIter)
  /\ IterOK(FreshIter)
<1>1. /\ 0 \in 0..MaxBlocks /\ 0 \in Indices /\ NoBlock \in Block \cup {NoBlock}
      /\ {p \in Paths : source[p].blocks # 0} \in SUBSET Paths
  BY BoundsAssumption DEF Indices
<1> QED BY <1>1 DEF IterOK, ClosedIter, FreshIter

\* Unless it is exhausted, the iterator yields a block and is in order afterwards.
LEMMA AdvancedOK ==
  ASSUME source \in [Paths -> File], NEW it, IterOK(it), ~Exhausted(it)
  PROVE  NextBlock(it) \in Block /\ IterOK(Advanced(it))
<1> DEFINE b == NextBlock(it)
           n == NextNumber(b.path, b.num)
<1>1. \A p \in Paths : source[p].blocks \in 0..MaxBlocks /\ source[p].version \in 0..MaxEdits
  BY DEF File
<1>2. \A p \in Paths, k \in 1..MaxBlocks : BlockOf(p, k) \in Block
  BY <1>1 DEF BlockOf, Block
<1>3. CASE it.queued # NoBlock
  BY <1>3 DEF IterOK, NextBlock, Advanced
<1>4. CASE it.queued = NoBlock
  <2>1. b \in Block
    <3>1. CASE it.waiting # 0
      <4>1. it.index \in Paths /\ it.waiting \in 1..MaxBlocks
        BY <3>1, BoundsAssumption DEF IterOK, Indices, Paths
      <4> QED BY <1>2, <1>4, <3>1, <4>1 DEF NextBlock
    <3>2. CASE it.waiting = 0
      <4>1. it.todo # {} /\ it.todo \in SUBSET (1..NumPaths)
        BY <1>4, <3>2 DEF Exhausted, IterOK, Paths
      <4>2. \E e \in it.todo : \A q \in it.todo : e <= q
        BY <4>1, HasLeast, BoundsAssumption
      <4>3. FirstOf(it.todo) \in Paths
        BY <4>1, <4>2 DEF FirstOf, Paths
      <4>4. 1 \in 1..MaxBlocks
        BY BoundsAssumption
      <4> QED BY <1>2, <1>4, <3>2, <4>3, <4>4 DEF NextBlock
    <3> QED BY <3>1, <3>2
  <2>2. b.path \in Paths /\ b.num \in 1..MaxBlocks
    BY <2>1 DEF Block
  <2>3. n \in 0..MaxBlocks
    BY <1>1, <2>2, BoundsAssumption DEF NextNumber
  <2>4. b.path \in Indices /\ b.path # 0
    BY <2>2, BoundsAssumption DEF Paths, Indices
  <2>5. Advanced(it) = [it EXCEPT !.todo = @ \ {b.path}, !.waiting = n,
                          !.index = b.path, !.block = n, !.remember = FALSE,
                          !.memIndex = IF it.remember THEN b.path ELSE @,
                          !.memBlock = IF it.remember THEN n ELSE @]
    BY <1>4 DEF Advanced
  <2> HIDE DEF b, n
  <2>6. IterOK(Advanced(it))
    <3> DEFINE mi == IF it.remember THEN b.path ELSE it.memIndex
               mb == IF it.remember THEN n ELSE it.memBlock
    <3>1. mi \in Indices /\ mb \in 0..MaxBlocks /\ it.todo \ {b.path} \in SUBSET Paths
      BY <2>3, <2>4 DEF IterOK
    <3>2. Advanced(it) = [todo |-> it.todo \ {b.path}, waiting |-> n, queued |-> it.queued,
                          index |-> b.path, block |-> n, remember |-> FALSE,
                          memIndex |-> mi, memBlock |-> mb]
      BY <2>5 DEF IterOK
    <3> HIDE DEF mi, mb
    <3>3. it.queued \in Block \cup {NoBlock}
      BY DEF IterOK
    <3> QED BY <2>3, <2>4, <3>1, <3>2, <3>3 DEF IterOK
  <2> QED BY <2>1, <2>6 DEF b
<1> QED BY <1>3, <1>4

\* The index ranges of a volume info.
LEMMA InfoOK ==
  ASSUME NEW it, IterOK(it), NEW blocks \in Seq(Block)
  PROVE  Info(it, blocks) \in VolumeInfo /\ Info(it, blocks).data = blocks
<1>1. \A n \in 0..MaxBlocks : OneBack(n) \in 0..MaxBlocks
  BY BoundsAssumption DEF OneBack
<1>2. it.memIndex \in Indices /\ it.index \in Indices /\ it.memBlock \in 0..MaxBlocks
      /\ it.block \in 0..MaxBlocks
  BY DEF IterOK
<1> QED BY <1>1, <1>2 DEF Info, VolumeInfo

-----------------------------------------------------------------------------
(* Steps that leave a part of the state alone. *)

LEMMA TextFrame ==
  ASSUME TextInv, UNCHANGED <<text, remote>>
  PROVE  TextInv'
BY DEF TextInv

\* A run that is over knows nothing.
LEMMA IdleOK ==
  ASSUME Idle
  PROVE  RunOK' /\ ManifestInv'
<1>1. IterOK(iter')
  BY FreshOK DEF Idle
<1>2. IsStore(mf', Volumes, VolumeInfo)
  BY DEF Idle, IsStore, EmptyStore
<1>3. vol' \in 0..MaxVol /\ last' \in Indices \X (0..MaxBlocks) /\ data' \in Seq(Block)
  BY BoundsAssumption DEF Idle, Indices
<1>4. pc' = "idle" /\ atEnd' = FALSE /\ vol' = 0 /\ mf' = EmptyStore
  BY DEF Idle
<1> QED BY <1>1, <1>2, <1>3, <1>4 DEF RunOK, ManifestInv

\* The run moves in the source and does not touch the volumes.
LEMMA ManifestFrame ==
  ASSUME ManifestInv, UNCHANGED <<text, remote, mf, vol>>,
         pc \in {"skip", "open"}, pc' \in {"skip", "open"}
  PROVE  ManifestInv'
BY DEF ManifestInv, Sent

\* The number of a volume.
LEMMA Counted ==
  ASSUME RunOK
  PROVE  vol \in Nat /\ MaxVol \in Nat /\ (vol # 0 => vol \in Volumes)
BY BoundsAssumption DEF RunOK, Volumes

-----------------------------------------------------------------------------
(* Between runs. *)

LEMMA InitInv == Init => IInv
<1> SUFFICES ASSUME Init PROVE IInv
  OBVIOUS
<1>1. FilesOK
  <2>1. source \in [Paths -> File]
    <3>1. 0 \in 0..MaxEdits
      BY BoundsAssumption
    <3> QED BY <3>1 DEF Init, File
  <2>2. IsStore(remote, Volumes, Seq(Block))
    BY DEF Init, IsStore, EmptyStore
  <2> QED BY <2>1, <2>2, BoundsAssumption DEF Init, FilesOK
<1>2. RunOK
  <2>1. IterOK(iter)
    BY FreshOK DEF Init
  <2>2. IsStore(mf, Volumes, VolumeInfo)
    BY DEF Init, IsStore, EmptyStore
  <2>3. vol \in 0..MaxVol /\ last \in Indices \X (0..MaxBlocks) /\ data \in Seq(Block)
    BY BoundsAssumption DEF Init, Indices
  <2> QED BY <2>1, <2>2, <2>3 DEF Init, RunOK
<1>3. TextInv
  <2>1. Top(text) = 0 /\ DOMAIN remote = {} /\ 1..0 = {} /\ 0 \in 0..MaxVol
    BY BoundsAssumption DEF Init, Top, EmptyStore
  <2> QED BY <2>1 DEF TextInv, Numbered
<1>4. ManifestInv
  BY DEF Init, ManifestInv
<1> QED BY <1>1, <1>2, <1>3, <1>4 DEF IInv

LEMMA CrashInv == IInv /\ Crash => IInv'
<1> SUFFICES ASSUME IInv, Crash PROVE IInv'
  OBVIOUS
<1>1. FilesOK'
  BY BoundsAssumption DEF IInv, FilesOK, Crash
<1> QED BY <1>1, IdleOK, TextFrame DEF IInv, Crash

LEMMA EditInv ==
  ASSUME IInv, NEW p \in Paths, NEW n \in 0..MaxBlocks, Edit(p, n)
  PROVE  IInv'
<1>1. FilesOK'
  <2>1. edits' \in 0..MaxEdits
    BY BoundsAssumption DEF IInv, FilesOK, Edit
  <2>2. [blocks |-> n, version |-> edits'] \in File
    BY <2>1 DEF File
  <2>3. source' \in [Paths -> File]
    BY <2>2 DEF IInv, FilesOK, Edit
  <2> QED BY <2>1, <2>3 DEF IInv, FilesOK, Edit
<1>2. RunOK'
  BY DEF IInv, RunOK, Edit
<1>3. ManifestInv'
  BY DEF IInv, ManifestInv, Edit
<1> QED BY <1>1, <1>2, <1>3, TextFrame DEF IInv, Edit

LEMMA BeginSetInv == IInv /\ BeginSet => IInv'
<1> SUFFICES ASSUME IInv, BeginSet PROVE IInv'
  OBVIOUS
<1>1. FilesOK'
  BY DEF IInv, FilesOK, BeginSet
<1>2. RunOK'
  BY FreshOK DEF IInv, RunOK, BeginSet
<1>3. ManifestInv'
  <2>1. vol' = 0 /\ mf' = EmptyStore /\ pc' = "open" /\ DOMAIN remote' = {}
    BY DEF IInv, ManifestInv, BeginSet, EmptyStore
  <2>2. DOMAIN EmptyStore = 1..0 /\ 1..0 = {}
    BY DEF EmptyStore
  <2> QED BY <2>1, <2>2 DEF ManifestInv, Sent
<1> QED BY <1>1, <1>2, <1>3, TextFrame DEF IInv, BeginSet

\* A partial set that cannot be gone on with is deleted.
LEMMA StartOverInv == IInv /\ StartOver => IInv'
<1> SUFFICES ASSUME IInv, StartOver PROVE IInv'
  OBVIOUS
<1>1. FilesOK'
  BY DEF IInv, FilesOK, StartOver, IsStore, EmptyStore
<1>2. RunOK'
  BY DEF IInv, RunOK, StartOver
<1>3. TextInv'
  <2>1. Top(text)' = 0 /\ DOMAIN remote' = {} /\ 1..0 = {} /\ 0 \in 0..MaxVol
    BY BoundsAssumption DEF StartOver, Top, EmptyStore
  <2> QED BY <2>1 DEF TextInv, Numbered
<1>4. ManifestInv'
  BY DEF IInv, ManifestInv, StartOver
<1> QED BY <1>1, <1>2, <1>3, <1>4 DEF IInv

\* A restart trusts all volumes on the remote but the last.
LEMMA RestartInv == IInv /\ Restart => IInv'
<1> SUFFICES ASSUME IInv, Restart PROVE IInv'
  OBVIOUS
<1> DEFINE n == StartVol
           man == FromString(text)
<1>1. /\ pc = "idle" /\ pc' = "skip" /\ vol' = n /\ mf' = Keep(man, 1..n)
      /\ n # 0 /\ Cardinality(DOMAIN man) >= n
      /\ last' = <<mf'[n].end, mf'[n].endBlock>> /\ iter' = FreshIter
      /\ UNCHANGED <<source, remote, text, data, atEnd, crashes, edits, wanted>>
  BY DEF Restart
<1>2. PICK r \in 0..MaxVol : DOMAIN remote = 1..r
  BY DEF IInv, TextInv
<1>3. n = r - 1 /\ n \in Nat \ {0} /\ r \in Nat /\ n \in Volumes
  <2>1. Cardinality(1..r) = r
    BY FS_Interval
  <2> QED BY <1>1, <1>2, <2>1, BoundsAssumption DEF StartVol, OneBack, Volumes
<1>4. Top(text) \in Nat /\ DOMAIN man = 1..Top(text) /\ man \in [1..Top(text) -> VolumeInfo]
  BY FromStringIs, BoundsAssumption DEF IInv, FilesOK, TextInv
<1>5. n <= Top(text)
  <2>1. Cardinality(1..Top(text)) = Top(text)
    BY <1>4, FS_Interval
  <2> QED BY <1>1, <1>3, <1>4, <2>1
<1> HIDE DEF n, man
<1>6. DOMAIN mf' = 1..n /\ \A k \in 1..n : k \in 1..Top(text) /\ mf'[k] = man[k]
  BY <1>1, <1>3, <1>4, <1>5 DEF Keep
<1>7. \A k \in 1..n : mf'[k] \in VolumeInfo
  BY <1>4, <1>6
<1>8. FilesOK'
  BY <1>1 DEF IInv, FilesOK
<1>9. RunOK'
  <2>1. IterOK(iter')
    <3>1. iter' = FreshIter
      BY <1>1
    <3> QED BY <3>1, FreshOK
  <2>2. IsStore(mf', Volumes, VolumeInfo)
    <3>1. 1..n \subseteq Volumes
      BY <1>3, BoundsAssumption DEF Volumes
    <3>2. mf' = [k \in 1..n |-> mf'[k]]
      BY <1>1, <1>6 DEF Keep
    <3> QED BY <1>6, <1>7, <3>1, <3>2 DEF IsStore
  <2>3. mf'[n] \in VolumeInfo
    BY <1>3, <1>7
  <2>4. last' \in Indices \X (0..MaxBlocks)
    BY <1>1, <2>3 DEF VolumeInfo
  <2>5. vol' \in 0..MaxVol
    BY <1>1, <1>3, BoundsAssumption DEF Volumes
  <2> QED BY <1>1, <2>1, <2>2, <2>4, <2>5 DEF IInv, RunOK
<1>10. ManifestInv'
  <2>1. DOMAIN remote' = 1..(n + 1)
    BY <1>1, <1>2, <1>3
  <2>2. \A k \in 1..n : k \in DOMAIN remote /\ man[k].data = remote[k]
    <3>1. \A k \in 1..n : k \in Volumes /\ k \in 1..r /\ k + 1 \in 1..r
      BY <1>2, <1>3, BoundsAssumption DEF Volumes
    <3> QED BY <1>2, <3>1 DEF IInv, TextInv, man
  <2>3. Sent' = n /\ man = FromString(text')
    BY <1>1 DEF Sent, man
  <2>4. \A k \in 1..n : k <= Top(text)
    BY <1>6
  <2> QED BY <1>1, <1>6, <2>1, <2>2, <2>3, <2>4 DEF ManifestInv
<1> QED BY <1>1, <1>8, <1>9, <1>10, TextFrame DEF IInv

-----------------------------------------------------------------------------
(* Finding the place. *)

LEMMA SkipInv == IInv /\ (SkipBlock \/ SkipEnds) => IInv'
<1> SUFFICES ASSUME IInv, SkipBlock \/ SkipEnds PROVE IInv'
  OBVIOUS
<1>1. /\ pc = "skip" /\ pc' \in {"skip", "open"}
      /\ UNCHANGED <<source, remote, text, mf, vol, data, atEnd, last, crashes, edits, wanted>>
  BY DEF SkipBlock, SkipEnds
<1>2. IterOK(iter')
  <2>1. CASE SkipBlock
    <3>1. NextBlock(iter) \in Block /\ IterOK(Advanced(iter))
      BY <2>1, AdvancedOK DEF SkipBlock, IInv, FilesOK, RunOK
    <3>2. iter' = Advanced(iter) \/ iter' = Requeue(Advanced(iter), NextBlock(iter))
      BY <2>1 DEF SkipBlock
    <3>3. ASSUME NEW it, IterOK(it), NEW b \in Block PROVE IterOK(Requeue(it, b))
      BY <3>3 DEF Requeue, IterOK
    <3> QED BY <3>1, <3>2, <3>3
  <2>2. CASE SkipEnds
    BY <2>2 DEF SkipEnds, IInv, RunOK
  <2> QED BY <2>1, <2>2
<1>3. FilesOK'
  BY <1>1 DEF IInv, FilesOK
<1>4. RunOK'
  BY <1>1, <1>2 DEF IInv, RunOK
<1> QED BY <1>1, <1>3, <1>4, TextFrame, ManifestFrame DEF IInv

-----------------------------------------------------------------------------
(* Writing a volume. *)

LEMMA OpenVolumeInv == IInv /\ OpenVolume => IInv'
<1> SUFFICES ASSUME IInv, OpenVolume PROVE IInv'
  OBVIOUS
<1>1. /\ pc = "open" /\ vol < MaxVol /\ vol' = vol + 1 /\ data' = <<>> /\ pc' = "write"
      /\ iter' = [iter EXCEPT !.remember = TRUE, !.memIndex = 0, !.memBlock = 0]
      /\ UNCHANGED <<source, remote, text, mf, atEnd, last, crashes, edits, wanted>>
  BY DEF OpenVolume
<1>2. vol \in Nat /\ MaxVol \in Nat
  BY Counted DEF IInv
<1>3. vol' \in 0..MaxVol /\ vol' # 0 /\ vol' - 1 = vol
  BY <1>1, <1>2
<1>4. FilesOK'
  BY <1>1 DEF IInv, FilesOK
<1>5. RunOK'
  <2>1. 0 \in Indices /\ 0 \in 0..MaxBlocks
    BY BoundsAssumption DEF Indices
  <2>2. IterOK(iter')
    BY <1>1, <2>1 DEF IInv, RunOK, IterOK
  <2>3. data' \in Seq(Block)
    BY <1>1
  <2> QED BY <1>1, <1>3, <2>2, <2>3 DEF IInv, RunOK
<1>6. ManifestInv'
  <2>1. Sent' = Sent /\ Sent = vol
    BY <1>1, <1>3 DEF Sent
  <2> QED BY <1>1, <1>3, <2>1 DEF IInv, ManifestInv
<1> QED BY <1>1, <1>4, <1>5, <1>6, TextFrame DEF IInv

LEMMA WriteBlockInv == IInv /\ WriteBlock => IInv'
<1> SUFFICES ASSUME IInv, WriteBlock PROVE IInv'
  OBVIOUS
<1>1. /\ pc = "write" /\ data' = Append(data, NextBlock(iter)) /\ iter' = Advanced(iter)
      /\ UNCHANGED <<source, remote, text, mf, pc, vol, atEnd, last, crashes, edits, wanted>>
  BY DEF WriteBlock
<1>2. NextBlock(iter) \in Block /\ IterOK(iter')
  BY <1>1, AdvancedOK DEF WriteBlock, IInv, FilesOK, RunOK
<1>3. FilesOK'
  BY <1>1 DEF IInv, FilesOK
<1>4. RunOK'
  BY <1>1, <1>2 DEF IInv, RunOK
<1>5. ManifestInv'
  BY <1>1 DEF IInv, ManifestInv, Sent
<1> QED BY <1>1, <1>3, <1>4, <1>5, TextFrame DEF IInv

\* The text and the manifest object get the same volume info.
LEMMA CloseVolumeInv == IInv /\ CloseVolume => IInv'
<1> SUFFICES ASSUME IInv, CloseVolume PROVE IInv'
  OBVIOUS
<1> DEFINE x == Info(iter, data)
           k == vol
<1>1. /\ pc = "write" /\ pc' = "put" /\ atEnd' \in BOOLEAN
      /\ mf' = Write(mf, k, x) /\ text' = Append(text, [num |-> k, info |-> x])
      /\ UNCHANGED <<source, remote, iter, vol, data, last, crashes, edits, wanted>>
  BY DEF CloseVolume
<1>2. k \in Volumes /\ k \in Nat \ {0}
  BY <1>1, Counted DEF IInv, ManifestInv, Volumes
<1>3. x \in VolumeInfo /\ x.data = data
  BY InfoOK DEF IInv, RunOK
<1> HIDE DEF x
<1>4. Top(text) \in Nat
  BY FromStringIs, BoundsAssumption DEF IInv, FilesOK, TextInv
<1>5. /\ DOMAIN mf = 1..(k - 1) /\ DOMAIN remote \subseteq 1..k
      /\ \A j \in 1..(k - 1) :
           /\ j \in DOMAIN remote /\ mf[j].data = remote[j]
           /\ j <= Top(text) /\ mf[j] = FromString(text)[j]
  BY <1>1 DEF IInv, ManifestInv, Sent
<1>6. k <= Top(text) + 1
  <2>1. CASE k = 1
    BY <1>4, <2>1
  <2>2. CASE k # 1
    <3>1. k - 1 \in 1..(k - 1)
      BY <1>2, <2>2
    <3> QED BY <1>2, <1>4, <1>5, <3>1
  <2> QED BY <2>1, <2>2
<1>7. /\ text' \in Seq(Line) /\ Numbered(text') /\ Top(text') = k
      /\ FromString(text')[k] = x
      /\ \A j \in 1..(k - 1) : FromString(text')[j] = FromString(text)[j]
  <2>1. text \in Seq(Line) /\ Numbered(text)
    BY DEF IInv, FilesOK, TextInv
  <2>2. text' = Append(text, [num |-> k, info |-> x])
    BY <1>1
  <2> DEFINE line == [num |-> k, info |-> x]
  <2>3. line \in Line /\ line.num = k /\ line.info = x
    BY <1>2, <1>3 DEF Line
  <2> HIDE DEF line
  <2>4. text' = Append(text, line)
    BY <2>2 DEF line
  <2> HIDE DEF k
  <2> QED BY <1>6, <2>1, <2>3, <2>4, AppendLine
<1>8. DOMAIN FromString(text') = 1..k
  BY <1>7, FromStringIs
<1>9. DOMAIN mf' = 1..k /\ mf'[k] = x /\ \A j \in 1..(k - 1) : mf'[j] = mf[j]
  <2>1. (1..(k - 1)) \cup {k} = 1..k /\ k \notin 1..(k - 1)
    BY <1>2
  <2> QED BY <1>1, <1>5, <2>1 DEF Write
<1>10. FromString(text') = mf'
  <2>1. \A j \in 1..k : j = k \/ j \in 1..(k - 1)
    BY <1>2
  <2>2. \A j \in 1..k : FromString(text')[j] = mf'[j]
    BY <1>5, <1>7, <1>9, <2>1
  <2>3. mf' = [j \in DOMAIN mf' |-> mf'[j]]
    BY <1>1 DEF Write
  <2>4. FromString(text') = [j \in DOMAIN FromString(text') |-> FromString(text')[j]]
    BY DEF FromString
  <2> QED BY <1>8, <1>9, <2>2, <2>3, <2>4
<1>11. FilesOK'
  BY <1>1, <1>7 DEF IInv, FilesOK
<1>12. RunOK'
  <2>1. IsStore(mf', Volumes, VolumeInfo)
    BY <1>1, <1>2, <1>3 DEF IInv, RunOK, IsStore, Write
  <2> QED BY <1>1, <2>1 DEF IInv, RunOK
<1>13. TextInv'
  <2>1. \A j \in Volumes : j + 1 \in DOMAIN remote => j \in 1..(k - 1) /\ j \in 1..k
    BY <1>2, <1>5 DEF Volumes
  <2>2. \A j \in 1..(k - 1) : FromString(text')[j].data = remote[j]
    BY <1>5, <1>7
  <2> QED BY <1>1, <1>7, <2>1, <2>2 DEF IInv, TextInv
<1>14. ManifestInv'
  <2>1. Sent' = k - 1 /\ vol' = k /\ k # 0
    BY <1>1, <1>2 DEF Sent
  <2>2. \A j \in 1..(k - 1) : j <= k /\ mf'[j].data = remote[j] /\ mf'[j] = FromString(text')[j]
    BY <1>2, <1>5, <1>7, <1>9
  <2>3. mf'[k].data = data'
    BY <1>1, <1>3, <1>9
  <2> QED BY <1>1, <1>5, <1>7, <1>9, <1>10, <2>1, <2>2, <2>3 DEF ManifestInv
<1> QED BY <1>11, <1>12, <1>13, <1>14 DEF IInv

\* The volume on the remote has the blocks the manifest lists.
LEMMA PutVolumeInv == IInv /\ PutVolume => IInv'
<1> SUFFICES ASSUME IInv, PutVolume PROVE IInv'
  OBVIOUS
<1> DEFINE k == vol
<1>1. /\ pc = "put" /\ pc' \in {"open", "done"} /\ remote' = Write(remote, k, data)
      /\ data' = <<>>
      /\ UNCHANGED <<source, text, mf, iter, vol, atEnd, last, crashes, edits, wanted>>
  BY DEF PutVolume
<1>2. k \in Volumes /\ k \in Nat \ {0} /\ k \in 0..MaxVol
  BY <1>1, Counted DEF IInv, ManifestInv, Volumes, RunOK
<1>3. /\ DOMAIN mf = 1..k /\ DOMAIN remote \subseteq 1..k
      /\ \A j \in 1..(k - 1) : j \in DOMAIN remote /\ mf[j].data = remote[j]
      /\ FromString(text) = mf /\ Top(text) = k /\ mf[k].data = data
  BY <1>1 DEF IInv, ManifestInv, Sent
<1>4. /\ DOMAIN remote' = DOMAIN remote \cup {k} /\ remote'[k] = data
      /\ \A j \in DOMAIN remote \ {k} : remote'[j] = remote[j]
  BY <1>1 DEF Write
<1>5. DOMAIN remote' = 1..k
  <2>1. (1..(k - 1)) \cup {k} = 1..k
    BY <1>2
  <2> QED BY <1>2, <1>3, <1>4, <2>1
<1>6. \A j \in 1..k : mf[j].data = remote'[j]
  <2>1. \A j \in 1..k : j = k \/ (j # k /\ j \in 1..(k - 1))
    BY <1>2
  <2> QED BY <1>3, <1>4, <2>1
<1>7. FilesOK'
  <2>1. IsStore(remote', Volumes, Seq(Block))
    BY <1>1, <1>2 DEF IInv, FilesOK, RunOK, IsStore, Write
  <2> QED BY <1>1, <2>1 DEF IInv, FilesOK
<1>8. RunOK'
  BY <1>1 DEF IInv, RunOK
<1>9. TextInv'
  <2>1. \A j \in Volumes : j + 1 \in 1..k => j \in 1..k
    BY <1>2 DEF Volumes
  <2> QED BY <1>1, <1>2, <1>3, <1>5, <1>6, <2>1 DEF IInv, TextInv
<1>10. ManifestInv'
  <2>1. Sent' = k /\ vol' = k /\ k # 0
    BY <1>1, <1>2 DEF Sent
  <2>2. 1..k \subseteq 1..(k + 1) /\ \A j \in 1..k : j <= k
    BY <1>2
  <2> QED BY <1>1, <1>3, <1>5, <1>6, <2>1, <2>2 DEF ManifestInv
<1> QED BY <1>7, <1>8, <1>9, <1>10 DEF IInv

-----------------------------------------------------------------------------
(* The theorems. *)

LEMMA NextInv == IInv /\ [Next]_vars => IInv'
<1> SUFFICES ASSUME IInv, [Next]_vars PROVE IInv'
  OBVIOUS
<1>1. CASE Run
  BY <1>1, BeginSetInv, StartOverInv, RestartInv, SkipInv, OpenVolumeInv, WriteBlockInv,
     CloseVolumeInv, PutVolumeInv DEF Run
<1>2. ASSUME NEW p \in Paths, NEW n \in 0..MaxBlocks, Edit(p, n) PROVE IInv'
  BY <1>2, EditInv
<1>3. CASE UNCHANGED vars
  BY <1>3, TextFrame DEF vars, IInv, FilesOK, RunOK, ManifestInv, Sent
<1> QED BY <1>1, <1>2, <1>3, CrashInv DEF Next

\* The inductive invariant holds in every state: what runs append, send and lose when they
\* die keeps the manifest object, the text and the remote in step.
THEOREM Invariance == Spec => []IInv
<1> QED BY InitInv, NextInv, PTL DEF Spec

\* The iterator, its place in the source, the volumes and the infos in the manifest
\* keep their types, wherever runs die and however the source changes between them.
THEOREM TypesKept == Spec => []TypeOK
<1>1. IInv => TypeOK
  <2> SUFFICES ASSUME IInv PROVE TypeOK
    OBVIOUS
  <2>1. \A k \in DOMAIN remote : remote[k] \in Seq(Block)
    BY DEF IInv, FilesOK, IsStore
  <2>2. \A i \in DOMAIN text : text[i].num \in Volumes /\ text[i].info \in VolumeInfo
    <3>1. \A i \in DOMAIN text : text[i] \in Line
      BY DEF IInv, FilesOK
    <3> QED BY <3>1 DEF Line
  <2>3. /\ iter.todo \subseteq Paths /\ iter.waiting \in 0..MaxBlocks
        /\ iter.queued \in Block \cup {NoBlock}
        /\ {iter.index, iter.memIndex} \subseteq Indices
        /\ {iter.block, iter.memBlock} \subseteq 0..MaxBlocks
    BY DEF IInv, RunOK, IterOK
  <2> QED BY <2>1, <2>2, <2>3 DEF IInv, FilesOK, RunOK, IsStore, TypeOK
<1> QED BY <1>1, Invariance, PTL

\* The lines that all runs together appended to the .part manifest mean what the last
\* run's manifest object holds, and that is what the remote has: after any number of
\* runs that died in any volume (Manifest.from_string, Restart, write_multivol).
THEOREM TextIsTheManifest == Spec => []TextMeansManifest
<1>1. IInv => TextMeansManifest
  <2> SUFFICES ASSUME IInv PROVE TextMeansManifest
    OBVIOUS
  <2>1. pc \in {"put", "done"} => FromString(text) = mf
    BY DEF IInv, ManifestInv
  <2>2. ASSUME pc = "done"
        PROVE  DOMAIN mf = DOMAIN remote /\ \A k \in DOMAIN mf : mf[k].data = remote[k]
    BY <2>2 DEF IInv, ManifestInv, Sent
  <2> QED BY <2>1, <2>2 DEF TextMeansManifest
<1> QED BY <1>1, Invariance, PTL
-----------------------------------------------------------------------------
(***************************************************************************)
(* What the volumes hold.  Each of them continues its paths where the one  *)
(* before ended, by the end that the manifest lists for it; the iterator   *)
(* stands where the last volume ended, or, while the place is looked for,  *)
(* has not passed it.  This is said of the paths that are wanted: of one   *)
(* that was edited, old and new blocks may meet in any way.                *)
(***************************************************************************)

\* How many blocks path p has, and how many of them the iterator has passed: a block
\* that is queued is still to come.
SizeOf(p) == source[p].blocks

Past(it, p) ==
  IF p < it.index \/ (p = it.index /\ it.queued = NoBlock /\ it.waiting = 0) THEN SizeOf(p)
  ELSE IF p = it.index /\ it.queued = NoBlock THEN it.waiting - 1
  ELSE 0

\* How many of them are in the volumes up to k, by the end that m has for volume k.
UpTo(m, k, p) ==
  IF k = 0 \/ m[k].end < p THEN 0
  ELSE IF p < m[k].end \/ m[k].endBlock = 0 THEN SizeOf(p)
  ELSE m[k].endBlock

\* Of p, the blocks s holds are those after the first a, up to the one numbered b.
Adds(s, p, a, b) ==
  /\ a + Len(EntriesOf(s, p)) = b
  /\ \A i \in 1..Len(EntriesOf(s, p)) : EntriesOf(s, p)[i] = BlockOf(p, a + i)

\* The end of a volume is a block of its path with more to come, or the path's end.
Ends(x) ==
  /\ x.end = 0 => \A p \in wanted : SizeOf(p) = 0
  /\ x.end \in wanted => x.endBlock < SizeOf(x.end)

\* If nothing was edited, the blocks are between the start and the end.
Spans(x) ==
  wanted = Paths =>
    \A i \in 1..Len(x.data) : x.start <= x.data[i].path /\ x.data[i].path <= x.end

Holds(m, k) ==
  /\ Ends(m[k]) /\ Spans(m[k])
  /\ \A p \in wanted : Adds(m[k].data, p, UpTo(m, k - 1, p), UpTo(m, k, p))

\* What the iterator still has to give is what comes after its index.
IterPlace(it) ==
  /\ it.todo = {p \in Paths : it.index < p /\ SizeOf(p) # 0}
  /\ it.block = it.waiting /\ it.memIndex <= it.index
  /\ it.index # 0 => SizeOf(it.index) # 0
  /\ it.waiting # 0 => 1 < it.waiting /\ it.waiting <= SizeOf(it.index)
  /\ it.queued # NoBlock =>
       /\ it.index # 0 /\ it.queued = BlockOf(it.index, 1)
       /\ it.waiting = NextNumber(it.index, 1) /\ wanted # Paths

TextHolds ==
  \A k \in Volumes : k + 1 \in DOMAIN remote => Holds(FromString(text), k)

RunHolds ==
  pc # "idle" =>
    /\ \A k \in 1..(IF pc = "write" THEN vol - 1 ELSE vol) : Holds(mf, k)
    /\ IterPlace(iter)

\* The position that is looked for has not been passed.
SkipPlace ==
  pc = "skip" =>
    /\ vol # 0 /\ last = <<mf[vol].end, mf[vol].endBlock>>
    /\ iter.queued = NoBlock /\ iter.index <= last[1]
    /\ iter.index = last[1] /\ last[1] \in wanted =>
         iter.waiting # 0 /\ (last[2] # 0 => iter.waiting <= last[2])

\* The volumes and the iterator are at one place.
PlaceInv ==
  /\ pc \in {"open", "put", "done"} => \A p \in wanted : Past(iter, p) = UpTo(mf, vol, p)
  /\ pc = "write" =>
       /\ \A p \in wanted : Adds(data, p, UpTo(mf, vol - 1, p), Past(iter, p))
       /\ data # <<>> => iter.queued = NoBlock /\ iter.index # 0
       /\ wanted = Paths =>
            IF iter.remember THEN data = <<>>
            ELSE \A i \in 1..Len(data) :
                   iter.memIndex <= data[i].path /\ data[i].path <= iter.index
  /\ pc = "done" \/ (pc = "put" /\ atEnd) => Exhausted(iter)

HoldInv == TextHolds /\ RunHolds /\ SkipPlace /\ PlaceInv

-----------------------------------------------------------------------------
(* The entries of a path in a sequence of blocks. *)

\* A set that has 0 and, with a number, the next one, has all numbers up to n.
LEMMA CountUp ==
  ASSUME NEW n \in Nat, NEW S, 0 \in S, \A i \in 0..(n - 1) : i \in S => i + 1 \in S
  PROVE  \A i \in 0..n : i \in S
<1> SUFFICES ASSUME \E i \in 0..n : i \notin S PROVE FALSE
  OBVIOUS
<1> DEFINE T == {i \in 1..n : i \notin S}
<1>1. T # {} /\ T \in SUBSET (1..n)
  OBVIOUS
<1>2. PICK e \in T : \A q \in T : e <= q
  BY <1>1, HasLeast
<1>3. e - 1 \in 0..(n - 1) /\ (e - 1) + 1 = e /\ e \in 1..n
  BY <1>2
<1>4. e - 1 \in S
  <2>1. CASE e = 1
    BY <2>1
  <2>2. CASE e # 1
    <3>1. e - 1 \in 1..n /\ ~ (e <= e - 1)
      BY <1>3, <2>2
    <3> QED BY <1>2, <3>1
  <2> QED BY <2>1, <2>2
<1> QED BY <1>2, <1>3, <1>4

\* One step of EntriesOf.
Taken(f, s, p, i) == IF s[i].path = p THEN Append(f, s[i]) ELSE f

\* f has the entries of all initial parts of s.
EntriesUpTo(f, s, p, n) ==
  f = [i \in 0..n |-> IF i = 0 THEN <<>> ELSE Taken(f[i - 1], s, p, i)]

LEMMA EntriesExist ==
  ASSUME NEW s, NEW p, NEW n \in Nat
  PROVE  \E f : EntriesUpTo(f, s, p, n)
<1> DEFINE S == {m \in Nat : \E f : EntriesUpTo(f, s, p, m)}
<1>1. 0 \in S
  <2> DEFINE f == [i \in 0..0 |-> <<>>]
  <2>1. EntriesUpTo(f, s, p, 0)
    <3>1. \A i \in 0..0 : i = 0
      OBVIOUS
    <3> QED BY <3>1 DEF EntriesUpTo
  <2> QED BY <2>1
<1>2. ASSUME NEW m \in 0..(n - 1), m \in S PROVE m + 1 \in S
  <2>1. PICK f : EntriesUpTo(f, s, p, m)
    BY <1>2
  <2> DEFINE g == [i \in 0..(m + 1) |-> IF i = m + 1 THEN Taken(f[m], s, p, i) ELSE f[i]]
  <2>2. \A i \in 0..(m + 1) : i # 0 => i - 1 \in 0..m /\ g[i - 1] = f[i - 1]
    OBVIOUS
  <2>3. \A i \in 0..(m + 1) : g[i] = IF i = 0 THEN <<>> ELSE Taken(g[i - 1], s, p, i)
    <3> SUFFICES ASSUME NEW i \in 0..(m + 1)
                 PROVE  g[i] = IF i = 0 THEN <<>> ELSE Taken(g[i - 1], s, p, i)
      OBVIOUS
    <3>1. CASE i = m + 1
      <4>1. i # 0 /\ i - 1 = m
        BY <3>1
      <4>2. g[i] = Taken(f[i - 1], s, p, i)
        BY <3>1, <4>1
      <4> HIDE DEF g
      <4> QED BY <2>2, <4>1, <4>2
    <3>2. CASE i # m + 1
      <4>1. i \in 0..m /\ g[i] = f[i]
        BY <3>2
      <4>2. f[i] = IF i = 0 THEN <<>> ELSE Taken(f[i - 1], s, p, i)
        BY <2>1, <4>1 DEF EntriesUpTo
      <4> HIDE DEF g
      <4> QED BY <2>2, <4>1, <4>2
    <3> QED BY <3>1, <3>2
  <2>4. EntriesUpTo(g, s, p, m + 1)
    <3>1. DOMAIN g = 0..(m + 1) /\ g = [i \in DOMAIN g |-> g[i]]
      OBVIOUS
    <3> HIDE DEF g
    <3> QED BY <2>3, <3>1 DEF EntriesUpTo
  <2> QED BY <2>4
<1> HIDE DEF S
<1>3. n \in S
  BY <1>1, <1>2, CountUp
<1> QED BY <1>3 DEF S

\* EntriesOf by such an f; any one will do.
LEMMA EntriesBy ==
  ASSUME NEW s, NEW p, Len(s) \in Nat
  PROVE  \E f : EntriesUpTo(f, s, p, Len(s)) /\ EntriesOf(s, p) = f[Len(s)]
<1> DEFINE f == CHOOSE g : EntriesUpTo(g, s, p, Len(s))
<1>1. EntriesUpTo(f, s, p, Len(s))
  BY EntriesExist
<1>2. f = CHOOSE g : g = [i \in 0..Len(s) |->
            IF i = 0 THEN <<>> ELSE IF s[i].path = p THEN Append(g[i - 1], s[i]) ELSE g[i - 1]]
  BY DEF EntriesUpTo, Taken
<1>3. EntriesOf(s, p) = f[Len(s)]
  BY <1>2 DEF EntriesOf
<1> QED BY <1>1, <1>3

LEMMA EntriesUnique ==
  ASSUME NEW s, NEW t, NEW p, NEW n \in Nat, NEW m \in Nat, n <= m,
         NEW f, EntriesUpTo(f, s, p, n), NEW g, EntriesUpTo(g, t, p, m),
         \A i \in 1..n : s[i] = t[i]
  PROVE  f[n] = g[n]
<1> DEFINE S == {i \in 0..n : f[i] = g[i]}
<1>1. 0 \in S
  BY DEF EntriesUpTo
<1>2. ASSUME NEW i \in 0..(n - 1), i \in S PROVE i + 1 \in S
  <2>1. i + 1 \in 0..n /\ i + 1 \in 1..n /\ i + 1 \in 0..m /\ i + 1 # 0 /\ (i + 1) - 1 = i
    OBVIOUS
  <2>2. f[i + 1] = Taken(f[i], s, p, i + 1)
    BY <2>1 DEF EntriesUpTo
  <2>3. g[i + 1] = Taken(g[i], t, p, i + 1)
    BY <2>1 DEF EntriesUpTo
  <2>4. Taken(f[i], s, p, i + 1) = Taken(g[i], t, p, i + 1)
    BY <1>2, <2>1 DEF Taken
  <2> QED BY <2>1, <2>2, <2>3, <2>4
<1>3. \A i \in 0..n : i \in S
  <2> HIDE DEF S
  <2> QED BY <1>1, <1>2, CountUp
<1> QED BY <1>3

LEMMA EntriesOfNone ==
  ASSUME NEW p
  PROVE  EntriesOf(<<>>, p) = <<>>
<1>1. PICK f : EntriesUpTo(f, <<>>, p, 0) /\ EntriesOf(<<>>, p) = f[0]
  BY EntriesBy
<1> QED BY <1>1 DEF EntriesUpTo

LEMMA EntriesOfAppend ==
  ASSUME NEW s \in Seq(Block), NEW b \in Block, NEW p
  PROVE  EntriesOf(Append(s, b), p)
           = IF b.path = p THEN Append(EntriesOf(s, p), b) ELSE EntriesOf(s, p)
<1> DEFINE t == Append(s, b)
           n == Len(s)
<1>1. n \in Nat /\ Len(t) = n + 1 /\ t[n + 1] = b /\ \A i \in 1..n : s[i] = t[i]
  OBVIOUS
<1> HIDE DEF t, n
<1>2. PICK f : EntriesUpTo(f, s, p, n) /\ EntriesOf(s, p) = f[n]
  BY <1>1, EntriesBy DEF n
<1>3. PICK g : EntriesUpTo(g, t, p, n + 1) /\ EntriesOf(t, p) = g[n + 1]
  BY <1>1, EntriesBy
<1>4. f[n] = g[n]
  BY <1>1, <1>2, <1>3, EntriesUnique
<1>5. g[n + 1] = Taken(g[n], t, p, n + 1)
  BY <1>1, <1>3 DEF EntriesUpTo
<1> QED BY <1>1, <1>2, <1>3, <1>4, <1>5 DEF Taken, t

\* Concatenation and Append, by names of their own: the steps below regroup sequences, and
\* need not know what they are.
Joined(s, t) == s \o t
Added(s, b)  == Append(s, b)

LEMMA JoinedIs ==
  ASSUME NEW s \in Seq(Block), NEW t \in Seq(Block)
  PROVE  /\ Joined(s, t) \in Seq(Block) /\ Len(Joined(s, t)) = Len(s) + Len(t)
         /\ Len(s) \in Nat /\ Len(t) \in Nat
         /\ \A i \in 1..Len(s) : Joined(s, t)[i] = s[i]
         /\ \A i \in 1..Len(t) : Joined(s, t)[Len(s) + i] = t[i]
         /\ \A i \in 1..Len(s) + Len(t) :
              Joined(s, t)[i] = IF i <= Len(s) THEN s[i] ELSE t[i - Len(s)]
<1> DEFINE u == s \o t
<1>1. Len(s) \in Nat /\ Len(t) \in Nat
  OBVIOUS
<1>2. /\ u \in Seq(Block) /\ Len(u) = Len(s) + Len(t)
      /\ \A i \in 1..Len(s) + Len(t) : u[i] = IF i <= Len(s) THEN s[i] ELSE t[i - Len(s)]
  BY ConcatProperties
<1> HIDE DEF u
<1>3. \A i \in 1..Len(s) : u[i] = s[i]
  BY <1>1, <1>2
<1>4. \A i \in 1..Len(t) : u[Len(s) + i] = t[i]
  <2>1. \A i \in 1..Len(t) : /\ Len(s) + i \in 1..Len(s) + Len(t)
                             /\ ~ (Len(s) + i <= Len(s)) /\ (Len(s) + i) - Len(s) = i
    BY <1>1
  <2> QED BY <1>2, <2>1
<1> QED BY <1>1, <1>2, <1>3, <1>4 DEF Joined, u

LEMMA AddedIs ==
  ASSUME NEW s \in Seq(Block), NEW b \in Block
  PROVE  /\ Added(s, b) \in Seq(Block) /\ Len(Added(s, b)) = Len(s) + 1
         /\ Added(s, b)[Len(s) + 1] = b
         /\ \A i \in 1..Len(s) : Added(s, b)[i] = s[i]
BY DEF Added

LEMMA EmptyIs ==
  /\ <<>> \in Seq(Block) /\ Len(<<>>) = 0
  /\ \A s \in Seq(Block) : Joined(s, <<>>) = s
BY ConcatEmptySeq DEF Joined

LEMMA JoinedAdded ==
  ASSUME NEW s \in Seq(Block), NEW t \in Seq(Block), NEW b \in Block
  PROVE  Joined(s, Added(t, b)) = Added(Joined(s, t), b)
<1> DEFINE x == Added(t, b)
           y == Joined(s, t)
           u == Joined(s, x)
           v == Added(y, b)
<1>1. /\ y \in Seq(Block) /\ Len(y) = Len(s) + Len(t) /\ Len(s) \in Nat /\ Len(t) \in Nat
      /\ \A i \in 1..Len(s) + Len(t) : y[i] = IF i <= Len(s) THEN s[i] ELSE t[i - Len(s)]
  BY JoinedIs
<1>2. /\ x \in Seq(Block) /\ Len(x) = Len(t) + 1 /\ x[Len(t) + 1] = b
      /\ \A i \in 1..Len(t) : x[i] = t[i]
  BY AddedIs
<1> HIDE DEF x, y
<1>3. /\ u \in Seq(Block) /\ Len(u) = Len(s) + Len(x)
      /\ \A i \in 1..Len(s) + Len(x) : u[i] = IF i <= Len(s) THEN s[i] ELSE x[i - Len(s)]
  BY <1>2, JoinedIs
<1>4. /\ v \in Seq(Block) /\ Len(v) = Len(y) + 1 /\ v[Len(y) + 1] = b
      /\ \A i \in 1..Len(y) : v[i] = y[i]
  BY <1>1, AddedIs
<1> HIDE DEF u, v
<1>5. Len(u) = Len(v)
  BY <1>1, <1>2, <1>3, <1>4
<1>6. ASSUME NEW i \in 1..Len(u) PROVE u[i] = v[i]
  <2>1. u[i] = IF i <= Len(s) THEN s[i] ELSE x[i - Len(s)]
    BY <1>3
  <2>2. CASE i = Len(y) + 1
    <3>1. ~ (i <= Len(s)) /\ i - Len(s) = Len(t) + 1
      BY <1>1, <2>2
    <3> QED BY <1>2, <1>4, <2>1, <2>2, <3>1
  <2>3. CASE i # Len(y) + 1
    <3>1. i \in 1..Len(y) /\ i \in 1..Len(s) + Len(t)
      BY <1>1, <1>2, <1>3, <2>3
    <3>2. v[i] = IF i <= Len(s) THEN s[i] ELSE t[i - Len(s)]
      BY <1>1, <1>4, <3>1
    <3>3. ~ (i <= Len(s)) => i - Len(s) \in 1..Len(t)
      BY <1>1, <3>1
    <3> QED BY <1>2, <2>1, <3>2, <3>3
  <2> QED BY <2>2, <2>3
<1>7. u = v
  BY <1>3, <1>4, <1>5, <1>6, SeqEqual
<1> QED BY <1>7 DEF u, v, x, y

LEMMA EntriesAreBlocks ==
  ASSUME NEW s \in Seq(Block), NEW p
  PROVE  EntriesOf(s, p) \in Seq(Block)
<1> DEFINE n == Len(s)
<1>1. n \in Nat /\ \A i \in 1..n : s[i] \in Block
  OBVIOUS
<1> HIDE DEF n
<1>2. PICK f : EntriesUpTo(f, s, p, n) /\ EntriesOf(s, p) = f[n]
  BY <1>1, EntriesBy DEF n
<1> DEFINE S == {i \in 0..n : f[i] \in Seq(Block)}
<1>3. 0 \in S
  <2>1. f[0] = <<>>
    BY <1>1, <1>2 DEF EntriesUpTo
  <2>2. 0 \in 0..n
    BY <1>1
  <2> QED BY <2>1, <2>2, EmptyIs
<1>4. ASSUME NEW i \in 0..(n - 1), i \in S PROVE i + 1 \in S
  <2>1. i + 1 \in 0..n /\ i + 1 \in 1..n /\ i + 1 # 0 /\ (i + 1) - 1 = i
    BY <1>1
  <2>2. f[i + 1] = Taken(f[i], s, p, i + 1)
    BY <1>2, <2>1 DEF EntriesUpTo
  <2>3. f[i] \in Seq(Block) /\ s[i + 1] \in Block
    BY <1>1, <1>4, <2>1
  <2>4. Added(f[i], s[i + 1]) \in Seq(Block)
    BY <2>3, AddedIs
  <2> QED BY <2>1, <2>2, <2>3, <2>4 DEF Taken, Added
<1>5. \A i \in 0..n : i \in S
  <2> HIDE DEF S
  <2> QED BY <1>1, <1>3, <1>4, CountUp
<1> QED BY <1>1, <1>2, <1>5

\* Without a block of p, no entries.
LEMMA NoEntries ==
  ASSUME NEW s \in Seq(Block), NEW p, \A i \in 1..Len(s) : s[i].path # p
  PROVE  EntriesOf(s, p) = <<>>
<1> DEFINE n == Len(s)
<1>1. n \in Nat
  OBVIOUS
<1>2. PICK f : EntriesUpTo(f, s, p, n) /\ EntriesOf(s, p) = f[n]
  BY <1>1, EntriesBy
<1> DEFINE S == {i \in 0..n : f[i] = <<>>}
<1>3. 0 \in S
  BY <1>1, <1>2 DEF EntriesUpTo
<1>4. ASSUME NEW i \in 0..(n - 1), i \in S PROVE i + 1 \in S
  <2>1. i + 1 \in 0..n /\ i + 1 \in 1..n /\ i + 1 # 0 /\ (i + 1) - 1 = i
    BY <1>1
  <2>2. f[i + 1] = Taken(f[i], s, p, i + 1)
    BY <1>2, <2>1 DEF EntriesUpTo
  <2> QED BY <1>4, <2>1, <2>2 DEF Taken
<1>5. \A i \in 0..n : i \in S
  <2> HIDE DEF S, n
  <2> QED BY <1>1, <1>3, <1>4, CountUp
<1> QED BY <1>1, <1>2, <1>5

\* The entries of two sequences in a row.
LEMMA EntriesOfBoth ==
  ASSUME NEW s \in Seq(Block), NEW t \in Seq(Block), NEW p
  PROVE  EntriesOf(Joined(s, t), p) = Joined(EntriesOf(s, p), EntriesOf(t, p))
<1> DEFINE n == Len(s)
           m == Len(t)
           u == Joined(s, t)
           e == EntriesOf(s, p)
<1>1. /\ n \in Nat /\ m \in Nat /\ n + m \in Nat /\ Len(u) = n + m /\ u \in Seq(Block)
      /\ \A i \in 1..n : s[i] = u[i]
      /\ \A i \in 1..m : u[n + i] = t[i] /\ t[i] \in Block
  <2>1. \A i \in 1..m : t[i] \in Block
    OBVIOUS
  <2> QED BY <2>1, JoinedIs
<1>2. e \in Seq(Block)
  BY EntriesAreBlocks
<1>3. PICK f : EntriesUpTo(f, s, p, n) /\ e = f[n]
  BY <1>1, EntriesBy
<1>4. PICK g : EntriesUpTo(g, t, p, m) /\ EntriesOf(t, p) = g[m]
  BY <1>1, EntriesBy
<1>5. PICK h : EntriesUpTo(h, u, p, Len(u)) /\ EntriesOf(u, p) = h[Len(u)]
  <2>1. Len(u) \in Nat
    BY <1>1
  <2> HIDE DEF u
  <2> QED BY <2>1, EntriesBy
<1> HIDE DEF n, m, u, e
<1> DEFINE S == {i \in 0..m : g[i] \in Seq(Block) /\ h[n + i] = Joined(e, g[i])}
<1>6. 0 \in S
  <2>1. h[n] = e
    <3>1. EntriesUpTo(h, u, p, n + m) /\ n <= n + m
      BY <1>1, <1>5
    <3> QED BY <1>1, <1>3, <3>1, EntriesUnique
  <2>2. g[0] = <<>>
    BY <1>1, <1>4 DEF EntriesUpTo
  <2>3. n + 0 = n /\ 0 \in 0..m
    BY <1>1
  <2> QED BY <1>2, <2>1, <2>2, <2>3, EmptyIs
<1>7. ASSUME NEW i \in 0..(m - 1), i \in S PROVE i + 1 \in S
  <2>1. /\ i + 1 \in 0..m /\ i + 1 \in 1..m /\ i + 1 # 0 /\ (i + 1) - 1 = i
        /\ n + (i + 1) \in 0..(n + m) /\ n + (i + 1) # 0 /\ (n + (i + 1)) - 1 = n + i
    BY <1>1
  <2>2. g[i + 1] = Taken(g[i], t, p, i + 1)
    BY <1>4, <2>1 DEF EntriesUpTo
  <2>3. h[n + (i + 1)] = Taken(h[n + i], u, p, n + (i + 1))
    BY <1>1, <1>5, <2>1 DEF EntriesUpTo
  <2>4. u[n + (i + 1)] = t[i + 1] /\ t[i + 1] \in Block
    BY <1>1, <2>1
  <2>5. g[i] \in Seq(Block) /\ h[n + i] = Joined(e, g[i])
    BY <1>7
  <2>6. Added(g[i], t[i + 1]) \in Seq(Block)
    BY <2>4, <2>5, AddedIs
  <2>7. Added(Joined(e, g[i]), t[i + 1]) = Joined(e, Added(g[i], t[i + 1]))
    BY <1>2, <2>4, <2>5, JoinedAdded
  <2>8. g[i + 1] = IF t[i + 1].path = p THEN Added(g[i], t[i + 1]) ELSE g[i]
    BY <2>2 DEF Taken, Added
  <2>9. h[n + (i + 1)] = IF t[i + 1].path = p THEN Added(h[n + i], t[i + 1]) ELSE h[n + i]
    BY <2>3, <2>4 DEF Taken, Added
  <2> QED BY <2>1, <2>5, <2>6, <2>7, <2>8, <2>9
<1>8. \A i \in 0..m : i \in S
  <2> HIDE DEF S
  <2> QED BY <1>1, <1>6, <1>7, CountUp
<1>9. m \in S
  <2> HIDE DEF S
  <2> QED BY <1>1, <1>8
<1> QED BY <1>1, <1>4, <1>5, <1>9 DEF u, e

-----------------------------------------------------------------------------
(* The stream of tar entries that a restore reads. *)

\* f has the streams of the volumes of S up to each number.
StreamUpTo(f, S, n) ==
  f = [k \in 0..n |-> IF k = 0 THEN <<>>
                      ELSE IF k \in S THEN Joined(f[k - 1], remote[k]) ELSE f[k - 1]]

LEMMA StreamsExist ==
  ASSUME NEW S, NEW n \in Nat
  PROVE  \E f : StreamUpTo(f, S, n)
<1> DEFINE Next1(x, k) == IF k \in S THEN Joined(x, remote[k]) ELSE x
           T == {m \in Nat : \E f : StreamUpTo(f, S, m)}
<1>1. 0 \in T
  <2> DEFINE f == [i \in 0..0 |-> <<>>]
  <2>1. StreamUpTo(f, S, 0)
    <3>1. \A i \in 0..0 : i = 0
      OBVIOUS
    <3> QED BY <3>1 DEF StreamUpTo
  <2> QED BY <2>1
<1>2. ASSUME NEW m \in 0..(n - 1), m \in T PROVE m + 1 \in T
  <2>1. PICK f : StreamUpTo(f, S, m)
    BY <1>2
  <2> DEFINE g == [i \in 0..(m + 1) |-> IF i = m + 1 THEN Next1(f[m], i) ELSE f[i]]
  <2>2. \A i \in 0..(m + 1) : i # 0 => i - 1 \in 0..m /\ g[i - 1] = f[i - 1]
    OBVIOUS
  <2>3. \A i \in 0..(m + 1) : g[i] = IF i = 0 THEN <<>> ELSE Next1(g[i - 1], i)
    <3> SUFFICES ASSUME NEW i \in 0..(m + 1)
                 PROVE  g[i] = IF i = 0 THEN <<>> ELSE Next1(g[i - 1], i)
      OBVIOUS
    <3>1. CASE i = m + 1
      <4>1. i # 0 /\ i - 1 = m
        BY <3>1
      <4>2. g[i] = Next1(f[i - 1], i)
        BY <3>1, <4>1
      <4> HIDE DEF g
      <4> QED BY <2>2, <4>1, <4>2
    <3>2. CASE i # m + 1
      <4>1. i \in 0..m /\ g[i] = f[i]
        BY <3>2
      <4>2. f[i] = IF i = 0 THEN <<>> ELSE Next1(f[i - 1], i)
        BY <2>1, <4>1 DEF StreamUpTo
      <4> HIDE DEF g
      <4> QED BY <2>2, <4>1, <4>2
    <3> QED BY <3>1, <3>2
  <2>4. StreamUpTo(g, S, m + 1)
    <3>1. DOMAIN g = 0..(m + 1) /\ g = [i \in DOMAIN g |-> g[i]]
      OBVIOUS
    <3> HIDE DEF g
    <3> QED BY <2>3, <3>1 DEF StreamUpTo
  <2> QED BY <2>4
<1> HIDE DEF T
<1>3. n \in T
  BY <1>1, <1>2, CountUp
<1> QED BY <1>3 DEF T

LEMMA StreamBy ==
  ASSUME NEW S
  PROVE  \E f : StreamUpTo(f, S, MaxVol) /\ Stream(S) = f[MaxVol]
<1> DEFINE f == CHOOSE g : StreamUpTo(g, S, MaxVol)
<1>1. StreamUpTo(f, S, MaxVol)
  BY StreamsExist, BoundsAssumption
<1>2. f = CHOOSE g : g = [k \in 0..MaxVol |-> IF k = 0 THEN <<>>
                            ELSE IF k \in S THEN g[k - 1] \o remote[k] ELSE g[k - 1]]
  BY DEF StreamUpTo, Joined
<1>3. Stream(S) = f[MaxVol]
  BY <1>2 DEF Stream
<1> QED BY <1>1, <1>3

\* A step of it.
LEMMA StreamStep ==
  ASSUME NEW S, NEW f, StreamUpTo(f, S, MaxVol), NEW k \in Volumes
  PROVE  f[k] = IF k \in S THEN Joined(f[k - 1], remote[k]) ELSE f[k - 1]
<1>1. k \in 0..MaxVol /\ k # 0
  BY BoundsAssumption DEF Volumes
<1> QED BY <1>1 DEF StreamUpTo

\* What restoring p from all the volumes yields: blocks up to the end of the last one.
LEMMA StreamHolds ==
  ASSUME FilesOK, RunOK, NEW p \in wanted, DOMAIN remote = 1..vol,
         \A k \in 1..vol : UpTo(mf, k, p) \in Nat /\
           Adds(remote[k], p, UpTo(mf, k - 1, p), UpTo(mf, k, p))
  PROVE  /\ Stream(DOMAIN remote) \in Seq(Block)
         /\ Adds(Stream(DOMAIN remote), p, 0, UpTo(mf, vol, p))
<1> DEFINE D == DOMAIN remote
           a(k) == UpTo(mf, k, p)
           n == MaxVol
<1>1. PICK f : StreamUpTo(f, D, n) /\ Stream(D) = f[n]
  BY StreamBy
<1>2. vol \in Nat /\ vol <= n /\ n \in Nat
  BY BoundsAssumption DEF RunOK
<1>3. a(0) = 0 /\ \A k \in 1..vol : a(k) \in Nat
  BY DEF UpTo
<1>4. \A k \in D : remote[k] \in Seq(Block)
  BY DEF FilesOK, IsStore
<1>5. \A k \in 1..vol : Adds(remote[k], p, a(k - 1), a(k))
  OBVIOUS
<1> HIDE DEF a, D, n
<1> DEFINE S == {k \in 0..vol : f[k] \in Seq(Block) /\ Adds(f[k], p, 0, a(k))}
<1>6. 0 \in S
  <2>1. f[0] = <<>>
    BY <1>1, <1>2 DEF StreamUpTo
  <2>2. EntriesOf(<<>>, p) = <<>> /\ <<>> \in Seq(Block) /\ Len(<<>>) = 0
    BY EntriesOfNone, EmptyIs
  <2>3. Adds(<<>>, p, 0, 0)
    <3> DEFINE e == EntriesOf(<<>>, p)
    <3>1. Len(e) = 0
      BY <2>2
    <3> HIDE DEF e
    <3>2. 0 + Len(e) = 0 /\ \A i \in 1..Len(e) : e[i] = BlockOf(p, 0 + i)
      BY <3>1
    <3> QED BY <3>2 DEF Adds, e
  <2>4. 0 \in 0..vol
    BY <1>2
  <2> QED BY <1>3, <2>1, <2>2, <2>3, <2>4
<1>7. ASSUME NEW k \in 0..(vol - 1), k \in S PROVE k + 1 \in S
  <2>1. k + 1 \in 1..vol /\ k + 1 \in D /\ k + 1 \in Volumes /\ (k + 1) - 1 = k /\ k \in 0..vol
        /\ a(k) \in Nat
    BY <1>2, <1>3 DEF D, n, Volumes
  <2>2. f[k + 1] = Joined(f[k], remote[k + 1])
    <3>1. StreamUpTo(f, D, MaxVol)
      BY <1>1 DEF n
    <3>2. f[k + 1] = IF k + 1 \in D THEN Joined(f[(k + 1) - 1], remote[k + 1]) ELSE f[(k + 1) - 1]
      BY <2>1, <3>1, StreamStep
    <3> QED BY <2>1, <3>2
  <2> DEFINE s == EntriesOf(f[k], p)
             t == EntriesOf(remote[k + 1], p)
  <2>3. f[k] \in Seq(Block) /\ remote[k + 1] \in Seq(Block)
    BY <1>4, <1>7, <2>1
  <2>4. s \in Seq(Block) /\ t \in Seq(Block)
    BY <2>3, EntriesAreBlocks
  <2>5. f[k + 1] \in Seq(Block) /\ EntriesOf(f[k + 1], p) = Joined(s, t)
    <3>1. EntriesOf(Joined(f[k], remote[k + 1]), p) = Joined(s, t)
      BY <2>3, EntriesOfBoth
    <3>2. Joined(f[k], remote[k + 1]) \in Seq(Block)
      BY <2>3, JoinedIs
    <3> QED BY <2>2, <3>1, <3>2
  <2>6. 0 + Len(s) = a(k) /\ \A i \in 1..Len(s) : s[i] = BlockOf(p, 0 + i)
    BY <1>7 DEF Adds
  <2>7. a(k) + Len(t) = a(k + 1) /\ \A i \in 1..Len(t) : t[i] = BlockOf(p, a(k) + i)
    BY <1>5, <2>1 DEF Adds
  <2> HIDE DEF s, t
  <2> DEFINE u == Joined(s, t)
  <2>8. /\ Len(u) = Len(s) + Len(t) /\ Len(s) \in Nat /\ Len(t) \in Nat
        /\ \A i \in 1..Len(s) + Len(t) : u[i] = IF i <= Len(s) THEN s[i] ELSE t[i - Len(s)]
    BY <2>4, JoinedIs
  <2> HIDE DEF u
  <2>9. ASSUME NEW i \in 1..Len(u) PROVE u[i] = BlockOf(p, 0 + i)
    <3>1. CASE i <= Len(s)
      BY <2>6, <2>8, <3>1
    <3>2. CASE ~ (i <= Len(s))
      <4>1. i - Len(s) \in 1..Len(t) /\ u[i] = t[i - Len(s)]
        BY <2>8, <3>2
      <4>2. a(k) + (i - Len(s)) = 0 + i
        BY <2>6, <2>8
      <4>3. t[i - Len(s)] = BlockOf(p, a(k) + (i - Len(s)))
        BY <2>7, <4>1
      <4> QED BY <4>1, <4>2, <4>3
    <3> QED BY <3>1, <3>2
  <2>10. 0 + Len(u) = a(k + 1)
    <3>1. Len(s) = a(k)
      BY <2>6, <2>8
    <3> QED BY <2>7, <2>8, <3>1
  <2>11. Adds(f[k + 1], p, 0, a(k + 1))
    BY <2>5, <2>9, <2>10 DEF Adds, u
  <2>12. k + 1 \in 0..vol
    BY <2>1
  <2> QED BY <2>5, <2>11, <2>12
<1>8. vol \in S
  <2>1. vol \in 0..vol
    BY <1>2
  <2> HIDE DEF S
  <2>2. \A k \in 0..vol : k \in S
    BY <1>2, <1>6, <1>7, CountUp
  <2> QED BY <2>1, <2>2
<1> DEFINE T == {k \in 0..(n - vol) : f[vol + k] = f[vol]}
<1>9. 0 \in T
  BY <1>2
<1>10. ASSUME NEW k \in 0..((n - vol) - 1), k \in T PROVE k + 1 \in T
  <2>1. vol + (k + 1) \in Volumes /\ vol + (k + 1) \notin D /\ (vol + (k + 1)) - 1 = vol + k
        /\ k + 1 \in 0..(n - vol)
    BY <1>2 DEF D, n, Volumes
  <2>2. f[vol + (k + 1)] = f[vol + k]
    BY <1>1, <2>1, StreamStep DEF n
  <2> QED BY <1>10, <2>1, <2>2
<1>11. n - vol \in T
  <2>1. n - vol \in Nat /\ n - vol \in 0..(n - vol)
    BY <1>2
  <2> HIDE DEF T
  <2>2. \A k \in 0..(n - vol) : k \in T
    BY <1>9, <1>10, <2>1, CountUp
  <2> QED BY <2>1, <2>2
<1>12. f[n] = f[vol]
  BY <1>2, <1>11
<1> QED BY <1>1, <1>8, <1>12 DEF a, D

\* Volumes that have nothing of p may be left out.
LEMMA StreamOfFewer ==
  ASSUME FilesOK, NEW p \in Paths, NEW S, S \subseteq DOMAIN remote,
         \A k \in DOMAIN remote \ S : EntriesOf(remote[k], p) = <<>>
  PROVE  EntriesOf(Stream(S), p) = EntriesOf(Stream(DOMAIN remote), p)
<1> DEFINE D == DOMAIN remote
           n == MaxVol
<1>1. PICK f : StreamUpTo(f, D, n) /\ Stream(D) = f[n]
  BY StreamBy
<1>2. PICK g : StreamUpTo(g, S, n) /\ Stream(S) = g[n]
  BY StreamBy
<1>3. \A k \in D : remote[k] \in Seq(Block)
  BY DEF FilesOK, IsStore
<1>4. n \in Nat
  BY BoundsAssumption
<1>5. S \subseteq D /\ \A k \in D \ S : EntriesOf(remote[k], p) = <<>>
  OBVIOUS
<1> HIDE DEF n, D
<1> DEFINE T == {k \in 0..n : /\ f[k] \in Seq(Block) /\ g[k] \in Seq(Block)
                              /\ EntriesOf(f[k], p) = EntriesOf(g[k], p)}
<1>6. 0 \in T
  <2>1. f[0] = <<>> /\ g[0] = <<>>
    BY <1>1, <1>2, <1>4 DEF StreamUpTo
  <2>2. 0 \in 0..n
    BY <1>4
  <2> QED BY <2>1, <2>2, EmptyIs
<1>7. ASSUME NEW k \in 0..(n - 1), k \in T PROVE k + 1 \in T
  <2>1. k + 1 \in Volumes /\ (k + 1) - 1 = k /\ k + 1 \in 0..n
    BY <1>4 DEF n, Volumes
  <2>2. /\ f[k + 1] = IF k + 1 \in D THEN Joined(f[k], remote[k + 1]) ELSE f[k]
        /\ g[k + 1] = IF k + 1 \in S THEN Joined(g[k], remote[k + 1]) ELSE g[k]
    BY <1>1, <1>2, <2>1, StreamStep DEF n
  <2>3. f[k] \in Seq(Block) /\ g[k] \in Seq(Block) /\ EntriesOf(f[k], p) = EntriesOf(g[k], p)
    BY <1>7
  <2>4. CASE k + 1 \in S
    <3>1. k + 1 \in D /\ remote[k + 1] \in Seq(Block)
      BY <1>3, <1>5, <2>4
    <3>2. /\ EntriesOf(f[k + 1], p) = Joined(EntriesOf(f[k], p), EntriesOf(remote[k + 1], p))
          /\ EntriesOf(g[k + 1], p) = Joined(EntriesOf(g[k], p), EntriesOf(remote[k + 1], p))
      BY <2>2, <2>3, <2>4, <3>1, EntriesOfBoth
    <3>3. f[k + 1] \in Seq(Block) /\ g[k + 1] \in Seq(Block)
      <4>1. Joined(f[k], remote[k + 1]) \in Seq(Block) /\ Joined(g[k], remote[k + 1]) \in Seq(Block)
        BY <2>3, <3>1, JoinedIs
      <4> QED BY <2>2, <2>4, <3>1, <4>1
    <3> QED BY <2>1, <2>3, <3>2, <3>3
  <2>5. CASE k + 1 \in D \ S
    <3>1. remote[k + 1] \in Seq(Block) /\ EntriesOf(remote[k + 1], p) = <<>>
      BY <1>3, <1>5, <2>5
    <3>2. /\ EntriesOf(f[k + 1], p) = Joined(EntriesOf(f[k], p), <<>>)
          /\ EntriesOf(g[k + 1], p) = EntriesOf(g[k], p)
      BY <2>2, <2>3, <2>5, <3>1, EntriesOfBoth
    <3>3. Joined(EntriesOf(f[k], p), <<>>) = EntriesOf(f[k], p)
      BY <2>3, EntriesAreBlocks, EmptyIs
    <3>4. f[k + 1] \in Seq(Block) /\ g[k + 1] \in Seq(Block)
      <4>1. Joined(f[k], remote[k + 1]) \in Seq(Block)
        BY <2>3, <3>1, JoinedIs
      <4> QED BY <2>2, <2>3, <2>5, <4>1
    <3> QED BY <2>1, <2>3, <3>2, <3>3, <3>4
  <2>6. CASE k + 1 \notin D
    BY <1>5, <2>1, <2>2, <2>3, <2>6
  <2> QED BY <2>4, <2>5, <2>6
<1>8. n \in T
  <2>1. n \in 0..n
    BY <1>4
  <2> HIDE DEF T
  <2>2. \A k \in 0..n : k \in T
    BY <1>4, <1>6, <1>7, CountUp
  <2> QED BY <2>1, <2>2
<1> QED BY <1>1, <1>2, <1>8 DEF D

-----------------------------------------------------------------------------
(* How far the iterator is. *)

\* Facts about the blocks of a path that the steps below use unexpanded.
LEMMA BlockIs ==
  ASSUME FilesOK
  PROVE  /\ NumPaths \in Nat /\ MaxBlocks \in Nat
         /\ \A p \in Paths : SizeOf(p) \in Nat /\ SizeOf(p) <= MaxBlocks
                             /\ p \in Nat /\ p # 0 /\ p <= NumPaths
         /\ \A p, k : BlockOf(p, k).path = p /\ BlockOf(p, k).num = k
         /\ \A p \in Paths : \A k \in 1..SizeOf(p) : BlockOf(p, k) \in Block
         /\ \A p \in Paths : \A k : BlockOf(p, k) # NoBlock
         /\ \A p, k : NextNumber(p, k) = IF k < SizeOf(p) THEN k + 1 ELSE 0
<1>1. \A p \in Paths : p \in Nat /\ p # 0 /\ p <= NumPaths
  BY BoundsAssumption DEF Paths
<1>2. \A p \in Paths : /\ SizeOf(p) \in Nat /\ SizeOf(p) <= MaxBlocks
                       /\ source[p].version \in 0..MaxEdits
  BY BoundsAssumption DEF FilesOK, File, SizeOf
<1>3. \A p, k : BlockOf(p, k).path = p /\ BlockOf(p, k).num = k
  BY DEF BlockOf
<1>4. \A p \in Paths : \A k \in 1..SizeOf(p) : BlockOf(p, k) \in Block
  <2>1. \A p \in Paths : \A k \in 1..SizeOf(p) : k \in 1..MaxBlocks
    BY <1>2, BoundsAssumption
  <2> QED BY <1>2, <2>1 DEF BlockOf, Block
<1>5. \A p \in Paths : \A k : BlockOf(p, k) # NoBlock
  <2>1. NoBlock.path = 0
    BY DEF NoBlock
  <2> QED BY <1>1, <1>3, <2>1
<1>6. \A p, k : NextNumber(p, k) = IF k < SizeOf(p) THEN k + 1 ELSE 0
  BY DEF NextNumber, SizeOf
<1> QED BY <1>1, <1>2, <1>3, <1>4, <1>5, <1>6, BoundsAssumption

LEMMA FirstIs ==
  ASSUME NEW S \in SUBSET Paths, S # {}
  PROVE  FirstOf(S) \in S /\ \A q \in S : FirstOf(S) <= q
<1>1. \E e \in S : \A q \in S : e <= q
  BY HasLeast, BoundsAssumption DEF Paths
<1> QED BY <1>1 DEF FirstOf

\* The iterator's position is a number of blocks of each path.
LEMMA PastIs ==
  ASSUME FilesOK, NEW it, IterOK(it), IterPlace(it), NEW p \in Paths
  PROVE  Past(it, p) \in Nat /\ Past(it, p) <= SizeOf(p)
<1>1. /\ it.index \in Nat /\ it.waiting \in Nat
      /\ it.waiting # 0 => 1 < it.waiting /\ it.waiting <= SizeOf(it.index)
  BY BlockIs DEF IterOK, IterPlace, Indices
<1>2. p \in Nat /\ SizeOf(p) \in Nat
  BY BlockIs
<1>3. CASE p = it.index /\ it.queued = NoBlock /\ it.waiting # 0
  <2>1. Past(it, p) = it.waiting - 1
    BY <1>1, <1>2, <1>3 DEF Past
  <2>2. 1 < it.waiting /\ it.waiting <= SizeOf(p) /\ it.waiting \in Nat
    BY <1>1, <1>3
  <2> QED BY <1>2, <2>1, <2>2
<1>4. CASE ~ (p = it.index /\ it.queued = NoBlock /\ it.waiting # 0)
  BY <1>2, <1>4 DEF Past
<1> QED BY <1>3, <1>4

\* What a call of next() yields is the block after those it has passed, and of no other
\* path the number changes.
AdvancesOne(it) ==
  /\ IterPlace(Advanced(it)) /\ Advanced(it).queued = NoBlock
  /\ NextBlock(it).path \in Paths
  /\ Advanced(it).index = NextBlock(it).path /\ it.index <= NextBlock(it).path
  /\ NextBlock(it) = BlockOf(NextBlock(it).path, Past(it, NextBlock(it).path) + 1)
  /\ Past(Advanced(it), NextBlock(it).path) = Past(it, NextBlock(it).path) + 1
  /\ \A p \in Paths : p # NextBlock(it).path => Past(Advanced(it), p) = Past(it, p)

\* A block that was put back.
LEMMA AdvanceQueued ==
  ASSUME FilesOK, NEW it, IterOK(it), IterPlace(it), it.queued # NoBlock
  PROVE  AdvancesOne(it)
<1> DEFINE e == it.index
           new == Advanced(it)
<1>1. /\ e \in Paths /\ it.queued = BlockOf(e, 1) /\ wanted # Paths
      /\ it.waiting = (IF 1 < SizeOf(e) THEN 2 ELSE 0)
      /\ SizeOf(e) # 0 /\ SizeOf(e) \in Nat /\ e \in Nat
      /\ NextBlock(it) = BlockOf(e, 1) /\ NextBlock(it).path = e
  <2>1. e \in Indices /\ e # 0
    BY DEF IterOK, IterPlace
  <2>2. e \in Paths
    BY <2>1, BoundsAssumption DEF Indices, Paths
  <2> QED BY <2>2, BlockIs DEF IterPlace, NextBlock
<1>2. /\ new.index = e /\ new.queued = NoBlock /\ new.todo = it.todo
      /\ new.waiting = it.waiting /\ new.block = it.block /\ new.memIndex = it.memIndex
  BY DEF Advanced, IterOK
<1> HIDE DEF new, e
<1>3. IterPlace(new)
  BY <1>2 DEF IterPlace, e
<1>4. Past(it, e) = 0 /\ Past(new, e) = 1
  BY <1>1, <1>2 DEF Past, e
<1>5. \A p \in Paths : p # e => Past(new, p) = Past(it, p)
  BY <1>2 DEF Past, e
<1> QED BY <1>1, <1>2, <1>3, <1>4, <1>5 DEF AdvancesOne, new, e

\* The next block of the path in progress, or the first one of the next path.
LEMMA AdvanceFresh ==
  ASSUME FilesOK, NEW it, IterOK(it), IterPlace(it), it.queued = NoBlock, ~Exhausted(it)
  PROVE  AdvancesOne(it)
<1> DEFINE e == it.index
           new == Advanced(it)
           b == NextBlock(it)
           f == b.path
           n == NextNumber(f, b.num)
<1>1. /\ e \in Nat /\ it.waiting \in Nat /\ it.memIndex \in Nat
      /\ it.todo = {p \in Paths : e < p /\ SizeOf(p) # 0}
      /\ e # 0 => e \in Paths /\ SizeOf(e) # 0
      /\ it.waiting # 0 => e # 0 /\ 1 < it.waiting /\ it.waiting <= SizeOf(e)
      /\ it.memIndex <= e
  BY BoundsAssumption DEF IterOK, IterPlace, Indices, Paths
<1>2. /\ new.index = f /\ new.queued = NoBlock /\ new.todo = it.todo \ {f}
      /\ new.waiting = n /\ new.block = n
      /\ new.memIndex = f \/ new.memIndex = it.memIndex
  BY DEF Advanced, IterOK
<1> HIDE DEF new, e
<1>3. /\ f \in Paths /\ SizeOf(f) # 0 /\ e <= f
      /\ b = BlockOf(f, Past(it, f) + 1)
      /\ Past(it, f) \in Nat /\ Past(it, f) < SizeOf(f)
      /\ \A p \in Paths : p < f /\ e < p => SizeOf(p) = 0
      /\ e < f => it.waiting = 0
  <2>1. CASE it.waiting # 0
    <3>1. b = BlockOf(e, it.waiting) /\ f = e
      BY <2>1, BlockIs DEF NextBlock, e
    <3>2. Past(it, e) = it.waiting - 1
      BY <1>1, <2>1 DEF Past, e
    <3>3. SizeOf(e) \in Nat
      BY <1>1, <2>1, BlockIs
    <3> HIDE DEF b
    <3>4. \A p \in Paths : ~ (p < e /\ e < p)
      BY <1>1, BlockIs
    <3> QED BY <1>1, <2>1, <3>1, <3>2, <3>3, <3>4
  <2>2. CASE it.waiting = 0
    <3>1. it.todo # {} /\ it.todo \in SUBSET Paths
      BY <1>1, <2>2 DEF Exhausted
    <3>2. b = BlockOf(FirstOf(it.todo), 1) /\ f = FirstOf(it.todo)
      BY <2>2, BlockIs DEF NextBlock
    <3> HIDE DEF b
    <3>3. f \in it.todo /\ \A q \in it.todo : f <= q
      BY <3>1, <3>2, FirstIs
    <3>4. f \in Paths /\ e < f /\ SizeOf(f) # 0 /\ f \in Nat /\ SizeOf(f) \in Nat
      BY <1>1, <3>3, BlockIs
    <3>5. \A p \in Paths : p < f /\ e < p => SizeOf(p) = 0
      <4>1. \A p \in Paths : p < f => p \notin it.todo
        BY <3>3, <3>4, BlockIs
      <4> QED BY <1>1, <4>1
    <3>6. Past(it, f) = 0
      BY <1>1, <3>4 DEF Past, e
    <3> QED BY <1>1, <2>2, <3>2, <3>4, <3>5, <3>6
  <2> QED BY <2>1, <2>2
<1>4. n = (IF Past(it, f) + 1 < SizeOf(f) THEN Past(it, f) + 2 ELSE 0)
  BY <1>3, BlockIs
<1>5. f \in Nat /\ SizeOf(f) \in Nat
  BY <1>3, BlockIs
<1> HIDE DEF b, n
<1>6. IterPlace(new)
  <2>1. new.todo = {p \in Paths : f < p /\ SizeOf(p) # 0}
    <3>1. \A p \in Paths : (e < p /\ SizeOf(p) # 0 /\ p # f) <=> (f < p /\ SizeOf(p) # 0)
      BY <1>1, <1>3, <1>5, BlockIs
    <3> QED BY <1>1, <1>2, <3>1
  <2>2. new.memIndex <= f
    BY <1>1, <1>2, <1>3, <1>5
  <2>3. new.waiting # 0 => 1 < new.waiting /\ new.waiting <= SizeOf(f)
    BY <1>2, <1>3, <1>4, <1>5
  <2> QED BY <1>2, <1>3, <2>1, <2>2, <2>3 DEF IterPlace
<1>7. Past(new, f) = Past(it, f) + 1
  BY <1>2, <1>3, <1>4, <1>5 DEF Past
<1>8. ASSUME NEW p \in Paths, p # f PROVE Past(new, p) = Past(it, p)
  <2>1. p \in Nat /\ SizeOf(p) \in Nat
    BY BlockIs
  <2>2. CASE p < f
    <3>1. Past(new, p) = SizeOf(p)
      BY <1>2, <2>2 DEF Past
    <3>2. CASE e < p
      <4>1. Past(it, p) = 0
        BY <1>1, <2>1, <3>2 DEF Past, e
      <4> QED BY <1>3, <2>2, <3>1, <3>2, <4>1
    <3>3. CASE p = e
      <4>1. it.waiting = 0
        BY <1>3, <2>2, <3>3
      <4> QED BY <3>1, <3>3, <4>1 DEF Past, e
    <3>4. CASE p < e
      BY <3>1, <3>4 DEF Past, e
    <3> QED BY <1>1, <2>1, <3>2, <3>3, <3>4
  <2>3. CASE f < p
    <3>1. Past(new, p) = 0
      BY <1>2, <1>5, <2>1, <2>3 DEF Past
    <3>2. ~ (p < e) /\ p # e
      BY <1>1, <1>3, <1>5, <2>1, <2>3
    <3> QED BY <3>1, <3>2 DEF Past, e
  <2> QED BY <1>5, <1>8, <2>1, <2>2, <2>3
<1>9. b = BlockOf(b.path, Past(it, b.path) + 1)
  BY <1>3
<1> QED BY <1>2, <1>3, <1>6, <1>7, <1>8, <1>9 DEF AdvancesOne, new, e, b

LEMMA AdvanceOne ==
  ASSUME FilesOK, NEW it, IterOK(it), IterPlace(it), ~Exhausted(it)
  PROVE  AdvancesOne(it)
BY AdvanceQueued, AdvanceFresh

\* Nothing is left to come.
LEMMA PastAll ==
  ASSUME FilesOK, NEW it, IterOK(it), IterPlace(it), Exhausted(it), NEW p \in Paths
  PROVE  Past(it, p) = SizeOf(p)
<1>1. it.index \in Nat /\ p \in Nat /\ (it.index < p => SizeOf(p) = 0)
  BY BlockIs DEF IterOK, IterPlace, Indices, Exhausted
<1> QED BY <1>1 DEF Past, Exhausted

-----------------------------------------------------------------------------
(* Steps that leave the source alone. *)

\* What the text has stays so.
LEMMA TextHoldsFrame ==
  ASSUME TextHolds, UNCHANGED <<source, wanted, text, remote>>
  PROVE  TextHolds'
BY DEF TextHolds, Holds, Ends, Spans, Adds, UpTo, SizeOf, BlockOf

\* What the manifest object has stays so.
LEMMA HoldsFrame ==
  ASSUME UNCHANGED <<source, wanted, mf>>, NEW k, Holds(mf, k)
  PROVE  Holds(mf, k)'
BY DEF Holds, Ends, Spans, Adds, UpTo, SizeOf, BlockOf

LEMMA IterFrame ==
  ASSUME UNCHANGED <<source, wanted>>, NEW it, iter' = it, IterPlace(it)
  PROVE  IterPlace(iter)'
BY DEF IterPlace, SizeOf, BlockOf, NextNumber

LEMMA PastFrame ==
  ASSUME UNCHANGED source, NEW it, iter' = it, NEW p
  PROVE  Past(iter, p)' = Past(it, p)
BY DEF Past, SizeOf

LEMMA UpToFrame ==
  ASSUME UNCHANGED <<source, mf>>, NEW p
  PROVE  UpTo(mf, vol, p)' = UpTo(mf, vol', p)
BY DEF UpTo, SizeOf

\* The number of blocks up to the end of a volume.
LEMMA UpToIs ==
  ASSUME FilesOK, RunOK, NEW k, k = 0 \/ k \in DOMAIN mf, NEW p \in Paths
  PROVE  UpTo(mf, k, p) \in Nat
<1>1. ASSUME k # 0 PROVE mf[k] \in VolumeInfo
  BY <1>1 DEF RunOK, IsStore
<1>2. k # 0 => mf[k].endBlock \in Nat
  BY <1>1, BoundsAssumption DEF VolumeInfo
<1>3. SizeOf(p) \in Nat
  BY BlockIs
<1> QED BY <1>2, <1>3 DEF UpTo

\* One block more, of p or of another path.
LEMMA AddsOne ==
  ASSUME NEW s \in Seq(Block), NEW b \in Block, NEW p, NEW a \in Nat, NEW c \in Nat,
         Adds(s, p, a, c), b.path = p => b = BlockOf(p, c + 1)
  PROVE  Adds(Append(s, b), p, a, IF b.path = p THEN c + 1 ELSE c)
<1> DEFINE e == EntriesOf(s, p)
           x == EntriesOf(Append(s, b), p)
           n == Len(e)
<1>1. x = IF b.path = p THEN Added(e, b) ELSE e
  BY EntriesOfAppend DEF Added
<1>2. e \in Seq(Block) /\ n \in Nat
  <2>1. e \in Seq(Block)
    BY EntriesAreBlocks
  <2> HIDE DEF e
  <2> QED BY <2>1
<1>3. a + n = c /\ \A i \in 1..n : e[i] = BlockOf(p, a + i)
  BY DEF Adds
<1>4. CASE b.path = p
  <2>1. /\ Len(Added(e, b)) = n + 1 /\ Added(e, b)[n + 1] = b
        /\ \A i \in 1..n : Added(e, b)[i] = e[i]
    BY <1>2, AddedIs
  <2>2. x = Added(e, b) /\ b = BlockOf(p, c + 1)
    BY <1>1, <1>4
  <2> HIDE DEF e, x, n
  <2>3. a + Len(x) = c + 1
    BY <1>2, <1>3, <2>1, <2>2
  <2>4. ASSUME NEW i \in 1..Len(x) PROVE x[i] = BlockOf(p, a + i)
    <3>1. CASE i = n + 1
      <4>1. a + i = c + 1
        BY <1>2, <1>3, <3>1
      <4> QED BY <2>1, <2>2, <3>1, <4>1
    <3>2. CASE i # n + 1
      <4>1. i \in 1..n
        BY <1>2, <2>1, <2>2, <3>2
      <4> QED BY <1>3, <2>1, <2>2, <4>1
    <3> QED BY <3>1, <3>2
  <2> QED BY <1>4, <2>3, <2>4 DEF Adds, x
<1>5. CASE b.path # p
  <2>1. x = e
    BY <1>1, <1>5
  <2> QED BY <1>5, <2>1 DEF Adds
<1> QED BY <1>4, <1>5

-----------------------------------------------------------------------------
(* Between runs. *)

LEMMA InitHolds == Init => HoldInv
BY DEF Init, HoldInv, TextHolds, RunHolds, SkipPlace, PlaceInv, EmptyStore

LEMMA CrashHolds == HoldInv /\ Crash => HoldInv'
<1> SUFFICES ASSUME HoldInv, Crash PROVE HoldInv'
  OBVIOUS
<1>1. pc' = "idle" /\ UNCHANGED <<source, wanted, text, remote>>
  BY DEF Crash, Idle
<1>2. TextHolds'
  BY <1>1, TextHoldsFrame DEF HoldInv
<1> QED BY <1>1, <1>2 DEF HoldInv, RunHolds, SkipPlace, PlaceInv

\* A path that is edited is not wanted any more, and the others are as they were.
LEMMA EditHolds ==
  ASSUME IInv, HoldInv, NEW p \in Paths, NEW n \in 0..MaxBlocks, Edit(p, n)
  PROVE  HoldInv'
<1>1. pc = "idle" /\ pc' = "idle" /\ wanted' = wanted \ {p} /\ wanted \subseteq Paths
      /\ UNCHANGED <<text, remote>>
      /\ source' = [source EXCEPT ![p] = [blocks |-> n, version |-> edits']]
      /\ source \in [Paths -> File]
  BY DEF Edit, IInv, FilesOK
<1>2. \A q \in wanted' : q \in wanted /\ source'[q] = source[q]
  BY <1>1
<1>3. wanted' # Paths
  BY <1>1
<1>4. TextHolds'
  <2> SUFFICES ASSUME NEW k \in Volumes, k + 1 \in DOMAIN remote
               PROVE  Holds(FromString(text), k)'
    BY <1>1 DEF TextHolds
  <2>1. Holds(FromString(text), k)
    BY DEF HoldInv, TextHolds
  <2> DEFINE m == FromString(text)
  <2>2. m' = m
    BY <1>1
  <2> HIDE DEF m
  <2>3. Holds(m, k)
    BY <2>1 DEF m
  <2>4. Ends(m[k])'
    BY <1>2, <2>2, <2>3 DEF Holds, Ends, SizeOf
  <2>5. Spans(m[k])'
    BY <1>3 DEF Spans
  <2>6. ASSUME NEW q \in wanted' PROVE Adds(m[k].data, q, UpTo(m, k - 1, q), UpTo(m, k, q))'
    <3>1. Adds(m[k].data, q, UpTo(m, k - 1, q), UpTo(m, k, q))
      BY <1>2, <2>3, <2>6 DEF Holds
    <3>2. SizeOf(q)' = SizeOf(q) /\ \A j : BlockOf(q, j)' = BlockOf(q, j)
      BY <1>2, <2>6 DEF SizeOf, BlockOf
    <3>3. UpTo(m, k - 1, q)' = UpTo(m, k - 1, q) /\ UpTo(m, k, q)' = UpTo(m, k, q)
      BY <2>2, <3>2 DEF UpTo
    <3> QED BY <2>2, <3>1, <3>2, <3>3 DEF Adds
  <2>7. Holds(m, k)'
    BY <2>4, <2>5, <2>6 DEF Holds
  <2> QED BY <2>7 DEF m
<1> QED BY <1>1, <1>4 DEF HoldInv, RunHolds, SkipPlace, PlaceInv

LEMMA FreshPlace ==
  ASSUME FilesOK
  PROVE  /\ IterPlace(FreshIter) /\ FreshIter.queued = NoBlock /\ FreshIter.index = 0
         /\ \A p \in Paths : Past(FreshIter, p) = 0
<1>1. \A p \in Paths : 0 < p
  BY BlockIs
<1>2. /\ FreshIter.todo = {p \in Paths : SizeOf(p) # 0} /\ FreshIter.waiting = 0
      /\ FreshIter.queued = NoBlock /\ FreshIter.index = 0 /\ FreshIter.block = 0
      /\ FreshIter.memIndex = 0
  BY DEF FreshIter, ClosedIter, SizeOf
<1>3. IterPlace(FreshIter)
  BY <1>1, <1>2 DEF IterPlace
<1>4. \A p \in Paths : Past(FreshIter, p) = 0
  <2>1. \A p \in Paths : ~ (p < 0) /\ p # 0
    BY BlockIs
  <2> QED BY <1>2, <2>1 DEF Past
<1> QED BY <1>2, <1>3, <1>4

LEMMA BeginSetHolds == IInv /\ HoldInv /\ BeginSet => HoldInv'
<1> SUFFICES ASSUME IInv, HoldInv, BeginSet PROVE HoldInv'
  OBVIOUS
<1>1. /\ pc' = "open" /\ iter' = FreshIter /\ remote' = EmptyStore /\ vol' = 0
      /\ wanted' = Paths /\ UNCHANGED <<source, mf>> /\ FilesOK
  BY DEF BeginSet, IInv, ManifestInv
<1>2. TextHolds'
  BY <1>1 DEF TextHolds, EmptyStore
<1>3. IterPlace(iter)'
  <2>1. IterPlace(FreshIter) /\ FreshIter.queued = NoBlock
    BY <1>1, FreshPlace
  <2> HIDE DEF FreshIter
  <2> QED BY <1>1, <2>1 DEF IterPlace, SizeOf
<1>4. RunHolds'
  <2>1. 1..0 = {}
    OBVIOUS
  <2> QED BY <1>1, <1>3, <2>1 DEF RunHolds
<1>5. PlaceInv'
  <2>1. \A p \in Paths : Past(iter, p)' = 0
    BY <1>1, FreshPlace, PastFrame
  <2>2. \A p \in Paths : UpTo(mf, vol, p)' = 0
    BY <1>1 DEF UpTo
  <2> QED BY <1>1, <2>1, <2>2 DEF PlaceInv
<1> QED BY <1>1, <1>2, <1>4, <1>5 DEF HoldInv, SkipPlace

LEMMA StartOverHolds == HoldInv /\ StartOver => HoldInv'
BY DEF StartOver, HoldInv, TextHolds, RunHolds, SkipPlace, PlaceInv, EmptyStore

\* The volumes that are trusted are those that the text holds.
LEMMA RestartHolds == IInv /\ HoldInv /\ Restart => HoldInv'
<1> SUFFICES ASSUME IInv, HoldInv, Restart PROVE HoldInv'
  OBVIOUS
<1> DEFINE n == StartVol
           man == FromString(text)
<1>1. /\ pc' = "skip" /\ vol' = n /\ mf' = Keep(man, 1..n) /\ n # 0
      /\ last' = <<mf'[n].end, mf'[n].endBlock>> /\ iter' = FreshIter
      /\ UNCHANGED <<source, remote, text, wanted>> /\ FilesOK
  BY DEF Restart, IInv
<1>2. PICK r \in 0..MaxVol : DOMAIN remote = 1..r
  BY DEF IInv, TextInv
<1>3. r \in Nat /\ n = r - 1 /\ n \in Nat /\ MaxVol \in Nat /\ r <= MaxVol
  <2>1. Cardinality(1..r) = r
    BY FS_Interval
  <2> QED BY <1>1, <1>2, <2>1, BoundsAssumption DEF StartVol, OneBack
<1>4. DOMAIN mf' = 1..n
  <2>1. RunOK' /\ ManifestInv'
    BY RestartInv DEF IInv
  <2> QED BY <1>1, <2>1 DEF ManifestInv
<1> HIDE DEF n
<1>5. \A k \in 1..n : mf'[k] = man[k]
  <2>1. \A k \in DOMAIN mf' : mf'[k] = man[k]
    <3> HIDE DEF man
    <3> QED BY <1>1 DEF Keep
  <2> QED BY <1>4, <2>1
<1>6. ASSUME NEW k \in 1..n PROVE Holds(mf, k)'
  <2>1. k \in Volumes /\ k + 1 \in DOMAIN remote
    BY <1>2, <1>3 DEF Volumes
  <2>2. Holds(man, k)
    BY <2>1 DEF HoldInv, TextHolds
  <2>3. mf'[k] = man[k] /\ (k - 1 # 0 => mf'[k - 1] = man[k - 1])
    BY <1>3, <1>5
  <2> HIDE DEF man
  <2>4. \A p : UpTo(mf', k, p) = UpTo(man, k, p) /\ UpTo(mf', k - 1, p) = UpTo(man, k - 1, p)
    BY <2>3 DEF UpTo
  <2>5. Holds(mf', k)
    BY <2>2, <2>3, <2>4 DEF Holds
  <2> QED BY <1>1, <2>5 DEF Holds, Ends, Spans, Adds, UpTo, SizeOf, BlockOf
<1>7. TextHolds'
  BY <1>1, TextHoldsFrame DEF HoldInv
<1>8. IterPlace(iter)'
  BY <1>1, FreshPlace, IterFrame
<1>9. RunHolds'
  BY <1>1, <1>6, <1>8 DEF RunHolds
<1>10. SkipPlace'
  <2>1. n \in 1..n
    BY <1>1, <1>3
  <2>2. mf'[n] \in VolumeInfo
    BY <1>1, <1>4, <2>1, RestartInv DEF IInv, RunOK, IsStore
  <2>3. last'[1] \in Nat /\ last'[1] = mf'[n].end
    BY <1>1, <2>2, BoundsAssumption DEF VolumeInfo, Indices
  <2>4. iter'.queued = NoBlock /\ iter'.index = 0 /\ 0 \notin wanted'
    <3>1. 0 \notin wanted
      BY <1>1, BlockIs DEF FilesOK
    <3> QED BY <1>1, <3>1, FreshPlace
  <2> QED BY <1>1, <2>3, <2>4 DEF SkipPlace
<1> QED BY <1>1, <1>7, <1>9, <1>10 DEF HoldInv, PlaceInv

-----------------------------------------------------------------------------
(* Finding the place. *)

\* The last volume the run trusts, by its end e and end block o.
Reached(e, o) ==
  /\ vol # 0 /\ e \in Nat /\ o \in Nat /\ e = mf[vol].end /\ o = mf[vol].endBlock
  /\ e = 0 => \A p \in wanted : SizeOf(p) = 0
  /\ e \in wanted => o < SizeOf(e)
  /\ \A p : UpTo(mf, vol, p) = IF e < p THEN 0 ELSE IF p < e \/ o = 0 THEN SizeOf(p) ELSE o

LEMMA SkipReached ==
  ASSUME IInv, HoldInv, pc = "skip"
  PROVE  Reached(last[1], last[2])
<1>1. last \in Indices \X (0..MaxBlocks) /\ vol # 0 /\ vol \in 1..vol
      /\ last[1] = mf[vol].end /\ last[2] = mf[vol].endBlock
  BY Counted DEF IInv, RunOK, HoldInv, SkipPlace
<1>2. last[1] \in Nat /\ last[2] \in Nat
  BY <1>1, BoundsAssumption DEF Indices
<1>3. Ends(mf[vol])
  BY <1>1 DEF HoldInv, RunHolds, Holds
<1>4. \A p : UpTo(mf, vol, p) = IF last[1] < p THEN 0
                                ELSE IF p < last[1] \/ last[2] = 0 THEN SizeOf(p) ELSE last[2]
  BY <1>1 DEF UpTo
<1> QED BY <1>1, <1>2, <1>3, <1>4 DEF Reached, Ends

\* Until it is found, nothing of the end's path has been passed that is not in the
\* volumes, unless the path was edited.
LEMMA NotPassed ==
  ASSUME IInv, HoldInv, pc = "skip", ~Exhausted(iter), last[1] \in wanted
  PROVE  /\ NextBlock(iter).path <= last[1]
         /\ NextBlock(iter).path = last[1] /\ last[2] # 0 => Past(iter, last[1]) < last[2]
<1> DEFINE e == last[1]
           o == last[2]
           f == NextBlock(iter).path
<1>1. FilesOK /\ IterOK(iter) /\ IterPlace(iter) /\ Reached(e, o) /\ e \in wanted /\ e \in Paths
  BY SkipReached DEF IInv, FilesOK, RunOK, HoldInv, RunHolds
<1>2. /\ iter.queued = NoBlock /\ iter.index <= e /\ iter.index \in Nat /\ iter.waiting \in Nat
      /\ iter.index = e => iter.waiting # 0 /\ (o # 0 => iter.waiting <= o)
  BY <1>1, BoundsAssumption DEF HoldInv, SkipPlace, IterOK, Indices
<1>3. /\ e \in Nat /\ o \in Nat /\ SizeOf(e) \in Nat /\ o < SizeOf(e)
  BY <1>1, BlockIs DEF Reached
<1>4. iter.waiting # 0 => f = iter.index
  BY <1>1, <1>2, BlockIs DEF NextBlock
<1> HIDE DEF e, o, f
<1>5. CASE iter.index = e
  <2>1. Past(iter, e) = iter.waiting - 1
    BY <1>2, <1>3, <1>5 DEF Past
  <2> QED BY <1>2, <1>3, <1>4, <1>5, <2>1 DEF e, o, f
<1>6. CASE iter.index # e
  <2>1. iter.index < e /\ SizeOf(e) # 0
    BY <1>2, <1>3, <1>6
  <2>2. e \in iter.todo /\ iter.todo \in SUBSET Paths
    BY <1>1, <2>1 DEF IterPlace
  <2>3. Past(iter, e) = 0
    BY <1>2, <1>3, <2>1 DEF Past
  <2>4. iter.waiting = 0 => f = FirstOf(iter.todo)
    BY <1>1, <1>2, BlockIs DEF NextBlock, f
  <2>5. FirstOf(iter.todo) <= e
    BY <2>2, FirstIs
  <2>6. f <= e
    BY <1>2, <1>4, <2>1, <2>4, <2>5
  <2>7. o # 0 => Past(iter, e) < o
    BY <1>3, <2>3
  <2> QED BY <2>6, <2>7 DEF e, o, f
<1> QED BY <1>5, <1>6

LEMMA SkipEndsHolds == IInv /\ HoldInv /\ SkipEnds => HoldInv'
<1> SUFFICES ASSUME IInv, HoldInv, SkipEnds PROVE HoldInv'
  OBVIOUS
<1> DEFINE e == last[1]
           o == last[2]
<1>1. /\ pc = "skip" /\ pc' = "open" /\ Exhausted(iter) /\ iter' = iter /\ vol' = vol
      /\ UNCHANGED <<source, remote, text, mf, wanted>>
  BY DEF SkipEnds
<1>2. FilesOK /\ IterOK(iter) /\ IterPlace(iter) /\ Reached(e, o) /\ wanted \subseteq Paths
  BY <1>1, SkipReached DEF IInv, FilesOK, RunOK, HoldInv, RunHolds
<1>3. ASSUME NEW p \in wanted PROVE Past(iter, p) = UpTo(mf, vol, p)
  <2>1. p \in Paths /\ p \in Nat /\ e \in Nat /\ SizeOf(p) \in Nat /\ iter.index \in Nat
    BY <1>2, BlockIs DEF Reached, IterOK, Indices
  <2>2. Past(iter, p) = SizeOf(p)
    BY <1>1, <1>2, <2>1, PastAll
  <2>3. iter.index < p => SizeOf(p) = 0
    BY <1>1, <1>2, <2>1 DEF IterPlace, Exhausted
  <2>4. iter.index <= e /\ (iter.index = e => e \notin wanted)
    BY <1>1 DEF HoldInv, SkipPlace, Exhausted
  <2>5. UpTo(mf, vol, p) = IF e < p THEN 0 ELSE IF p < e \/ o = 0 THEN SizeOf(p) ELSE o
    BY <1>2 DEF Reached
  <2>6. p # e
    <3> SUFFICES ASSUME p = e PROVE FALSE
      OBVIOUS
    <3>1. o < SizeOf(p) /\ o \in Nat
      BY <1>2 DEF Reached
    <3>2. iter.index < p
      BY <2>1, <2>4
    <3> QED BY <2>1, <2>3, <3>1, <3>2
  <2> HIDE DEF e, o
  <2>7. CASE e < p
    <3>1. iter.index < p
      BY <2>1, <2>4, <2>7
    <3> QED BY <2>2, <2>3, <2>5, <2>7, <3>1
  <2>8. CASE p < e
    <3>1. ~ (e < p)
      BY <2>1, <2>8
    <3> QED BY <2>2, <2>5, <2>8, <3>1
  <2> QED BY <2>1, <2>6, <2>7, <2>8
<1>4. TextHolds'
  BY <1>1, TextHoldsFrame DEF HoldInv
<1>5. RunHolds'
  <2>1. IterPlace(iter)'
    BY <1>1, <1>2, IterFrame
  <2> QED BY <1>1, <2>1, HoldsFrame DEF HoldInv, RunHolds
<1>6. PlaceInv'
  <2>1. \A p \in wanted : Past(iter, p)' = UpTo(mf, vol, p)'
    BY <1>1, <1>3, PastFrame, UpToFrame
  <2> QED BY <1>1, <2>1 DEF PlaceInv
<1> QED BY <1>1, <1>4, <1>5, <1>6 DEF HoldInv, SkipPlace

\* One turn of the loop: the place is found, it was passed, or the search goes on.
LEMMA SkipBlockHolds == IInv /\ HoldInv /\ SkipBlock => HoldInv'
<1> SUFFICES ASSUME IInv, HoldInv, SkipBlock PROVE HoldInv'
  OBVIOUS
<1> DEFINE e == last[1]
           o == last[2]
           new == Advanced(iter)
           b == NextBlock(iter)
           f == b.path
<1>1. /\ pc = "skip" /\ ~Exhausted(iter) /\ vol' = vol
      /\ iter' = (IF ~Found(new) /\ new.index > e THEN Requeue(new, b) ELSE new)
      /\ pc' = (IF Found(new) \/ new.index > e THEN "open" ELSE "skip")
      /\ UNCHANGED <<source, remote, text, mf, last, wanted>>
  BY DEF SkipBlock
<1>2. /\ FilesOK /\ IterOK(iter) /\ IterPlace(iter) /\ Reached(e, o)
      /\ wanted \subseteq Paths
  BY <1>1, SkipReached DEF IInv, FilesOK, RunOK, HoldInv, RunHolds
<1>3. AdvancesOne(iter) /\ IterOK(new)
  BY <1>1, <1>2, AdvanceOne, AdvancedOK DEF FilesOK
<1>4. /\ IterPlace(new) /\ new.queued = NoBlock /\ new.index = f /\ f \in Paths
      /\ iter.index <= f /\ b = BlockOf(f, Past(iter, f) + 1)
      /\ Past(new, f) = Past(iter, f) + 1
      /\ \A p \in Paths : p # f => Past(new, p) = Past(iter, p)
      /\ new.block = new.waiting /\ new.waiting \in Nat
  BY <1>3, BoundsAssumption DEF AdvancesOne, IterPlace, IterOK
<1>5. /\ f \in Nat /\ e \in Nat /\ o \in Nat /\ iter.index \in Nat
      /\ SizeOf(f) \in Nat /\ SizeOf(f) # 0
      /\ \A p \in wanted : p \in Paths /\ p \in Nat /\ SizeOf(p) \in Nat
      /\ Past(iter, f) \in Nat
  BY <1>2, <1>4, BlockIs, PastIs DEF Reached, IterOK, Indices, IterPlace
<1>6. iter.index <= e
  BY <1>1 DEF HoldInv, SkipPlace
<1>7. e \in wanted => f <= e /\ (f = e /\ o # 0 => Past(iter, e) < o)
  BY <1>1, NotPassed
<1>8. \A p : UpTo(mf, vol, p) = IF e < p THEN 0 ELSE IF p < e \/ o = 0 THEN SizeOf(p) ELSE o
  BY <1>2 DEF Reached
<1>9. Found(new) <=> f = e /\ (IF o = 0 THEN new.waiting = 0 ELSE new.waiting > o)
  BY <1>4 DEF Found
<1> HIDE DEF e, o, new, b, f
<1>10. \A p \in Paths : /\ p < f => Past(new, p) = SizeOf(p)
                        /\ f < p => Past(new, p) = 0
  BY <1>4, <1>5, BlockIs DEF Past
<1>11. Past(new, f) = IF new.waiting = 0 THEN SizeOf(f) ELSE new.waiting - 1
  BY <1>4, <1>5 DEF Past
<1>12. TextHolds'
  BY <1>1, TextHoldsFrame DEF HoldInv
<1>13. ASSUME IterPlace(iter') PROVE RunHolds'
  <2>1. IterPlace(iter)'
    BY <1>1, <1>13, IterFrame
  <2> QED BY <1>1, <2>1, HoldsFrame DEF HoldInv, RunHolds
<1>14. ASSUME \A p \in wanted : Past(iter', p) = UpTo(mf, vol, p), pc' = "open"
       PROVE  PlaceInv'
  <2>1. \A p \in wanted : Past(iter, p)' = UpTo(mf, vol, p)'
    BY <1>1, <1>14, PastFrame, UpToFrame
  <2> QED BY <1>1, <1>14, <2>1 DEF PlaceInv
<1>15. CASE Found(new)
  <2>1. iter' = new /\ pc' = "open" /\ f = e
    BY <1>1, <1>9, <1>15
  <2>2. ASSUME NEW p \in wanted PROVE Past(new, p) = UpTo(mf, vol, p)
    <3>1. p \in Paths /\ p \in Nat /\ SizeOf(p) \in Nat
      BY <1>5
    <3>2. CASE p = e
      <4>1. CASE o = 0
        BY <1>5, <1>8, <1>9, <1>11, <1>15, <2>1, <3>2, <4>1
      <4>2. CASE o # 0
        <5>1. new.waiting > o /\ new.waiting # 0 /\ Past(new, f) <= o
          BY <1>4, <1>5, <1>7, <1>9, <1>15, <2>1, <3>2, <4>2
        <5>2. Past(new, f) = o
          BY <1>4, <1>5, <1>11, <5>1
        <5> QED BY <1>5, <1>8, <2>1, <3>2, <4>2, <5>2
      <4> QED BY <4>1, <4>2
    <3>3. CASE p < e
      BY <1>5, <1>8, <1>10, <2>1, <3>1, <3>3
    <3>4. CASE e < p
      BY <1>5, <1>8, <1>10, <2>1, <3>1, <3>4
    <3> QED BY <1>5, <3>1, <3>2, <3>3, <3>4
  <2> QED BY <1>4, <1>12, <1>13, <1>14, <2>1, <2>2 DEF HoldInv, SkipPlace
<1>16. CASE ~Found(new) /\ f > e
  <2> DEFINE it == Requeue(new, b)
  <2>1. iter' = it /\ pc' = "open"
    BY <1>1, <1>4, <1>16
  <2>2. /\ it.queued = b /\ it.index = f /\ it.todo = new.todo /\ it.waiting = new.waiting
        /\ it.block = new.block /\ it.memIndex = new.memIndex
    BY <1>3, <1>4 DEF Requeue, IterOK
  <2> HIDE DEF it
  <2>3. e \notin wanted /\ Past(iter, f) = 0
    <3>1. ~ (f <= e) /\ ~ (f < iter.index) /\ f # iter.index
      BY <1>5, <1>6, <1>16
    <3> QED BY <1>7, <3>1 DEF Past
  <2>4. wanted # Paths
    <3>1. CASE e = 0
      <4>1. f \notin wanted
        BY <1>2, <1>5, <3>1 DEF Reached
      <4> QED BY <1>4, <4>1
    <3>2. CASE e # 0
      <4>1. e \in Paths
        BY <1>2, <1>4, <1>5, <1>16, <3>2, BlockIs DEF Paths
      <4> QED BY <2>3, <4>1
    <3> QED BY <3>1, <3>2
  <2>5. b = BlockOf(f, 1) /\ b # NoBlock
    BY <1>2, <1>4, <2>3, BlockIs
  <2>6. new.waiting = NextNumber(f, 1)
    <3>1. 1 = IF new.waiting = 0 THEN SizeOf(f) ELSE new.waiting - 1
      BY <1>4, <1>11, <2>3
    <3>2. new.waiting # 0 => new.waiting <= SizeOf(f)
      BY <1>4 DEF IterPlace
    <3>3. NextNumber(f, 1) = IF 1 < SizeOf(f) THEN 1 + 1 ELSE 0
      BY <1>2, BlockIs
    <3> QED BY <1>4, <1>5, <3>1, <3>2, <3>3
  <2>7. IterPlace(it)
    <3>1. f # 0
      BY <1>2, <1>4, BlockIs
    <3> QED BY <1>4, <2>2, <2>4, <2>5, <2>6, <3>1 DEF IterPlace
  <2>8. ASSUME NEW p \in wanted PROVE Past(it, p) = UpTo(mf, vol, p)
    <3>1. p \in Paths /\ p \in Nat /\ SizeOf(p) \in Nat /\ p # e
      BY <1>5, <2>3
    <3>2. Past(it, p) = IF p < f THEN SizeOf(p) ELSE 0
      BY <2>2, <2>5 DEF Past
    <3>3. CASE p < e
      BY <1>5, <1>8, <1>16, <3>1, <3>2, <3>3
    <3>4. CASE e < p /\ p < f
      <4>1. Past(new, p) = SizeOf(p) /\ p # f
        BY <1>5, <1>10, <3>1, <3>4
      <4>2. Past(iter, p) = 0
        <5>1. ~ (p < iter.index) /\ p # iter.index
          BY <1>5, <1>6, <3>1, <3>4
        <5> QED BY <5>1 DEF Past
      <4>3. SizeOf(p) = 0
        BY <1>4, <3>1, <4>1, <4>2
      <4> QED BY <1>8, <3>2, <3>4, <4>3
    <3>5. CASE ~ (p < f)
      <4>1. e < p
        BY <1>5, <1>16, <3>1, <3>5
      <4> QED BY <1>8, <3>2, <3>5, <4>1
    <3> QED BY <1>5, <3>1, <3>3, <3>4, <3>5
  <2> QED BY <1>12, <1>13, <1>14, <2>1, <2>7, <2>8 DEF HoldInv, SkipPlace
<1>17. CASE ~Found(new) /\ ~ (f > e)
  <2>1. iter' = new /\ pc' = "skip" /\ f <= e
    BY <1>1, <1>4, <1>5, <1>17
  <2>2. SkipPlace'
    <3>1. ASSUME f = e, e \in wanted
          PROVE  new.waiting # 0 /\ (o # 0 => new.waiting <= o)
      <4>1. CASE o = 0
        BY <1>9, <1>17, <3>1, <4>1
      <4>2. CASE o # 0
        <5>1. Past(new, f) <= o /\ o < SizeOf(f)
          BY <1>2, <1>4, <1>5, <1>7, <3>1, <4>2 DEF Reached
        <5>2. new.waiting # 0
          BY <1>5, <1>11, <5>1
        <5>3. new.waiting <= o
          BY <1>4, <1>5, <1>9, <1>17, <3>1, <4>2
        <5> QED BY <5>2, <5>3
      <4> QED BY <4>1, <4>2
    <3>2. vol # 0 /\ last = <<mf[vol].end, mf[vol].endBlock>> /\ e = last[1] /\ o = last[2]
      BY <1>1 DEF HoldInv, SkipPlace, e, o
    <3> QED BY <1>1, <1>4, <2>1, <3>1, <3>2 DEF SkipPlace
  <2> QED BY <1>4, <1>12, <1>13, <2>1, <2>2 DEF HoldInv, PlaceInv
<1> QED BY <1>15, <1>16, <1>17

-----------------------------------------------------------------------------
(* Writing a volume. *)

LEMMA OpenVolumeHolds == IInv /\ HoldInv /\ OpenVolume => HoldInv'
<1> SUFFICES ASSUME IInv, HoldInv, OpenVolume PROVE HoldInv'
  OBVIOUS
<1> DEFINE new == [iter EXCEPT !.remember = TRUE, !.memIndex = 0, !.memBlock = 0]
<1>1. /\ pc = "open" /\ pc' = "write" /\ vol' = vol + 1 /\ data' = <<>> /\ iter' = new
      /\ UNCHANGED <<source, remote, text, mf, wanted>>
  BY DEF OpenVolume
<1>2. FilesOK /\ RunOK /\ IterPlace(iter) /\ wanted \subseteq Paths /\ vol \in Nat /\ vol' - 1 = vol
  BY <1>1, Counted DEF IInv, FilesOK, HoldInv, RunHolds
<1>3. /\ new.todo = iter.todo /\ new.waiting = iter.waiting /\ new.queued = iter.queued
      /\ new.index = iter.index /\ new.block = iter.block /\ new.memIndex = 0
      /\ new.remember = TRUE /\ iter.index \in Nat
  BY <1>2, BoundsAssumption DEF RunOK, IterOK, Indices
<1> HIDE DEF new
<1>4. TextHolds'
  BY <1>1, TextHoldsFrame DEF HoldInv
<1>5. RunHolds'
  <2>1. IterPlace(new)
    BY <1>2, <1>3 DEF IterPlace
  <2>2. IterPlace(iter)'
    BY <1>1, <2>1, IterFrame
  <2> QED BY <1>1, <1>2, <2>2, HoldsFrame DEF HoldInv, RunHolds
<1>6. PlaceInv'
  <2>1. ASSUME NEW p \in wanted
        PROVE  Adds(data, p, UpTo(mf, vol - 1, p), Past(iter, p))'
    <3>1. UpTo(mf, vol, p) \in Nat
      <4>1. vol = 0 \/ vol \in DOMAIN mf
        BY <1>1, <1>2 DEF IInv, ManifestInv
      <4> QED BY <1>2, <4>1, UpToIs
    <3>2. Past(iter, p)' = UpTo(mf, vol, p)
      <4>1. Past(new, p) = Past(iter, p)
        BY <1>3 DEF Past
      <4>2. Past(iter, p) = UpTo(mf, vol, p)
        BY <1>1 DEF HoldInv, PlaceInv
      <4> QED BY <1>1, <4>1, <4>2, PastFrame
    <3>3. UpTo(mf, vol - 1, p)' = UpTo(mf, vol, p)
      BY <1>1, <1>2 DEF UpTo, SizeOf
    <3>4. Len(EntriesOf(data', p)) = 0
      BY <1>1, EntriesOfNone
    <3> QED BY <3>1, <3>2, <3>3, <3>4 DEF Adds
  <2> QED BY <1>1, <1>3, <2>1 DEF PlaceInv
<1> QED BY <1>1, <1>4, <1>5, <1>6 DEF HoldInv, SkipPlace

LEMMA WriteBlockHolds == IInv /\ HoldInv /\ WriteBlock => HoldInv'
<1> SUFFICES ASSUME IInv, HoldInv, WriteBlock PROVE HoldInv'
  OBVIOUS
<1> DEFINE new == Advanced(iter)
           b == NextBlock(iter)
           f == b.path
<1>1. /\ pc = "write" /\ pc' = "write" /\ vol' = vol /\ data' = Append(data, b) /\ iter' = new
      /\ ~Exhausted(iter) /\ UNCHANGED <<source, remote, text, mf, wanted>>
  BY DEF WriteBlock
<1>2. /\ FilesOK /\ RunOK /\ IterOK(iter) /\ IterPlace(iter) /\ wanted \subseteq Paths
      /\ data \in Seq(Block)
  BY <1>1 DEF IInv, FilesOK, RunOK, HoldInv, RunHolds
<1>3. AdvancesOne(iter) /\ b \in Block
  BY <1>1, <1>2, AdvanceOne, AdvancedOK DEF FilesOK
<1>4. /\ IterPlace(new) /\ new.queued = NoBlock /\ new.index = f /\ f \in Paths
      /\ iter.index <= f /\ b = BlockOf(f, Past(iter, f) + 1)
      /\ Past(new, f) = Past(iter, f) + 1
      /\ \A p \in Paths : p # f => Past(new, p) = Past(iter, p)
  BY <1>3 DEF AdvancesOne
<1>5. wanted = Paths => /\ iter.queued = NoBlock /\ new.remember = FALSE
                        /\ new.memIndex = IF iter.remember THEN f ELSE iter.memIndex
  BY <1>2 DEF IterPlace, Advanced, IterOK
<1>6. /\ f \in Nat /\ f # 0 /\ iter.index \in Nat /\ iter.memIndex \in Nat
      /\ iter.memIndex <= iter.index
  BY <1>2, <1>4, BlockIs DEF IterOK, IterPlace, Indices
<1> HIDE DEF new, b, f
<1>7. TextHolds'
  BY <1>1, TextHoldsFrame DEF HoldInv
<1>8. RunHolds'
  <2>1. IterPlace(iter)'
    BY <1>1, <1>4, IterFrame
  <2> QED BY <1>1, <2>1, HoldsFrame DEF HoldInv, RunHolds
<1>9. ASSUME NEW p \in wanted
      PROVE  Adds(data, p, UpTo(mf, vol - 1, p), Past(iter, p))'
  <2> DEFINE a == UpTo(mf, vol - 1, p)
             c == Past(iter, p)
  <2>1. a \in Nat
    <3>1. vol - 1 = 0 \/ vol - 1 \in DOMAIN mf
      BY <1>1, <1>2, Counted DEF IInv, ManifestInv
    <3> QED BY <1>2, <3>1, UpToIs
  <2>2. c \in Nat
    BY <1>2, PastIs
  <2>3. Adds(data, p, a, c)
    BY <1>1 DEF HoldInv, PlaceInv
  <2>4. f = p => b = BlockOf(p, c + 1)
    BY <1>4
  <2>5. Past(iter, p)' = IF f = p THEN c + 1 ELSE c
    <3>1. Past(new, p) = IF f = p THEN c + 1 ELSE c
      BY <1>2, <1>4
    <3> QED BY <1>1, <3>1, PastFrame
  <2>6. a' = a
    BY <1>1 DEF UpTo, SizeOf
  <2> HIDE DEF a, c
  <2>7. Adds(Append(data, b), p, a, IF f = p THEN c + 1 ELSE c)
    BY <1>2, <1>3, <2>1, <2>2, <2>3, <2>4, AddsOne DEF f
  <2>8. Adds(data', p, a, Past(iter, p)')
    BY <1>1, <2>5, <2>7
  <2>9. Adds(data, p, a, Past(iter, p))'
    BY <1>1, <2>6, <2>8 DEF Adds, BlockOf
  <2> QED BY <2>9 DEF a
<1>10. ASSUME wanted = Paths, NEW i \in 1..Len(data')
       PROVE  new.memIndex <= data'[i].path /\ data'[i].path <= new.index
  <2>1. /\ Len(data') = Len(data) + 1 /\ data'[Len(data) + 1] = b /\ Len(data) \in Nat
        /\ \A j \in 1..Len(data) : data'[j] = data[j]
    BY <1>1, <1>2, <1>3
  <2>2. CASE i = Len(data) + 1
    <3>1. data'[i].path = f
      BY <2>1, <2>2 DEF f
    <3> QED BY <1>4, <1>5, <1>6, <1>10, <3>1
  <2>3. CASE i # Len(data) + 1
    <3>1. i \in 1..Len(data) /\ data # <<>> /\ data'[i] = data[i]
      BY <2>1, <2>3
    <3>2. ~ iter.remember /\ iter.memIndex <= data[i].path /\ data[i].path <= iter.index
      BY <1>1, <1>10, <3>1 DEF HoldInv, PlaceInv
    <3>3. data[i].path \in Nat
      <4>1. data[i] \in Block
        BY <1>2, <3>1
      <4> QED BY <1>2, <4>1, BlockIs DEF Block
    <3> QED BY <1>4, <1>5, <1>6, <1>10, <3>1, <3>2, <3>3
  <2> QED BY <2>2, <2>3
<1>11. PlaceInv'
  BY <1>1, <1>4, <1>5, <1>6, <1>9, <1>10 DEF PlaceInv
<1> QED BY <1>1, <1>7, <1>8, <1>11 DEF HoldInv, SkipPlace

\* The end that the manifest lists is where the iterator is.
LEMMA CloseVolumeHolds == IInv /\ HoldInv /\ CloseVolume => HoldInv'
<1> SUFFICES ASSUME IInv, HoldInv, CloseVolume PROVE HoldInv'
  OBVIOUS
<1> DEFINE x == Info(iter, data)
           k == vol
<1>1. /\ pc = "write" /\ pc' = "put" /\ mf' = Write(mf, k, x) /\ vol' = k
      /\ data # <<>> \/ Exhausted(iter)
      /\ atEnd' \in (IF Exhausted(iter) THEN BOOLEAN ELSE {FALSE})
      /\ UNCHANGED <<source, remote, iter, data, wanted>>
  BY DEF CloseVolume
<1>2. /\ FilesOK /\ RunOK /\ IterOK(iter) /\ IterPlace(iter) /\ wanted \subseteq Paths
      /\ data \in Seq(Block) /\ k \in Nat /\ k # 0 /\ DOMAIN mf = 1..(k - 1)
      /\ DOMAIN remote \subseteq 1..k
  BY <1>1, Counted DEF IInv, FilesOK, RunOK, HoldInv, RunHolds, ManifestInv
<1>3. /\ iter.queued = NoBlock /\ iter.index \in Nat /\ iter.waiting \in Nat
      /\ iter.index = 0 => Exhausted(iter) /\ data = <<>>
      /\ iter.index # 0 => iter.index \in Paths
  <2>1. iter.queued = NoBlock /\ (iter.index = 0 => data = <<>>)
    BY <1>1 DEF HoldInv, PlaceInv, Exhausted
  <2>2. iter.index \in Indices /\ iter.waiting \in Nat
    BY <1>2, BoundsAssumption DEF IterOK
  <2> QED BY <1>1, <2>1, <2>2, BoundsAssumption DEF Indices, Paths
<1>4. /\ x.end = iter.index /\ x.data = data /\ x.start = iter.memIndex
      /\ iter.index # 0 => x.endBlock = IF iter.waiting = 0 THEN 0 ELSE iter.waiting - 1
  <2>1. iter.memIndex \in Nat /\ iter.memIndex <= iter.index /\ iter.block = iter.waiting
    BY <1>2, BoundsAssumption DEF IterOK, IterPlace, Indices
  <2> QED BY <1>3, <2>1 DEF Info, OneBack
<1> HIDE DEF x
<1>5. mf'[k] = x /\ \A j \in 1..(k - 1) : mf'[j] = mf[j]
  <2>1. k \notin 1..(k - 1)
    BY <1>2
  <2> QED BY <1>1, <1>2, <2>1 DEF Write
<1>6. \A j \in 1..(k - 1) : Holds(mf, j)'
  <2> SUFFICES ASSUME NEW j \in 1..(k - 1) PROVE Holds(mf, j)'
    OBVIOUS
  <2>1. Holds(mf, j)
    BY <1>1 DEF HoldInv, RunHolds
  <2>2. mf'[j] = mf[j] /\ (j - 1 # 0 => mf'[j - 1] = mf[j - 1])
    BY <1>2, <1>5
  <2> QED BY <1>1, <2>1, <2>2 DEF Holds, Ends, Spans, Adds, UpTo, SizeOf, BlockOf
<1>7. ASSUME NEW p \in wanted PROVE UpTo(mf', k, p) = Past(iter, p)
  <2>1. p \in Paths /\ p \in Nat /\ p # 0
    BY <1>2, BlockIs
  <2>2. UpTo(mf', k, p) = IF iter.index < p THEN 0
                          ELSE IF p < iter.index \/ x.endBlock = 0 THEN SizeOf(p) ELSE x.endBlock
    BY <1>2, <1>4, <1>5 DEF UpTo
  <2>3. CASE p = iter.index
    <3>1. x.endBlock = IF iter.waiting = 0 THEN 0 ELSE iter.waiting - 1
      BY <1>4, <2>1, <2>3
    <3>2. iter.waiting # 0 => iter.waiting - 1 # 0
      BY <1>2, <1>3 DEF IterPlace
    <3>3. ~ (iter.index < p) /\ ~ (p < iter.index)
      BY <2>1, <2>3
    <3> QED BY <1>3, <2>2, <2>3, <3>1, <3>2, <3>3 DEF Past
  <2>4. CASE p # iter.index
    BY <1>3, <2>1, <2>2, <2>4 DEF Past
  <2> QED BY <2>3, <2>4
<1>8. ASSUME NEW j, j = k PROVE Holds(mf, j)'
  <2>1. Ends(x)
    <3>1. ASSUME x.end = 0, NEW p \in wanted PROVE SizeOf(p) = 0
      <4>1. iter.todo = {} /\ iter.index = 0 /\ p \in Paths /\ 0 < p
        BY <1>2, <1>3, <1>4, <3>1, BlockIs DEF Exhausted
      <4> QED BY <1>2, <4>1 DEF IterPlace
    <3>2. ASSUME x.end \in wanted PROVE x.endBlock < SizeOf(x.end)
      <4>1. iter.index \in Paths /\ iter.index # 0 /\ SizeOf(iter.index) \in Nat
        BY <1>2, <1>4, <3>2, BlockIs
      <4>2. /\ SizeOf(iter.index) # 0
            /\ iter.waiting # 0 => 1 < iter.waiting /\ iter.waiting <= SizeOf(iter.index)
        BY <1>2, <4>1 DEF IterPlace
      <4> QED BY <1>3, <1>4, <4>1, <4>2
    <3> QED BY <3>1, <3>2 DEF Ends
  <2>2. Spans(x)
    <3>1. ASSUME wanted = Paths, NEW i \in 1..Len(data)
          PROVE  iter.memIndex <= data[i].path /\ data[i].path <= iter.index
      <4>1. data # <<>>
        BY <1>2, <3>1
      <4> QED BY <1>1, <3>1, <4>1 DEF HoldInv, PlaceInv
    <3> QED BY <1>4, <3>1 DEF Spans
  <2>3. ASSUME NEW p \in wanted PROVE Adds(x.data, p, UpTo(mf', k - 1, p), UpTo(mf', k, p))
    <3>1. UpTo(mf', k - 1, p) = UpTo(mf, k - 1, p)
      BY <1>2, <1>5 DEF UpTo
    <3>2. Adds(data, p, UpTo(mf, k - 1, p), Past(iter, p))
      BY <1>1 DEF HoldInv, PlaceInv
    <3> QED BY <1>4, <1>7, <3>1, <3>2
  <2>4. Holds(mf', k)
    BY <1>5, <2>1, <2>2, <2>3 DEF Holds
  <2> QED BY <1>1, <1>8, <2>4 DEF Holds, Ends, Spans, Adds, UpTo, SizeOf, BlockOf
<1>9. \A j \in 1..k : Holds(mf, j)'
  <2>1. \A j \in 1..k : j = k \/ j \in 1..(k - 1)
    BY <1>2
  <2> QED BY <1>6, <1>8, <2>1
<1>10. TextHolds'
  <2>1. ManifestInv'
    BY CloseVolumeInv DEF IInv
  <2>2. FromString(text)' = mf'
    BY <1>1, <2>1 DEF ManifestInv
  <2>3. \A j \in Volumes : j + 1 \in DOMAIN remote => j \in 1..k
    BY <1>2 DEF Volumes
  <2>4. \A j \in 1..k : Holds(FromString(text), j)'
    BY <1>9, <2>2 DEF Holds, Ends, Spans, Adds, UpTo
  <2> QED BY <1>1, <2>3, <2>4 DEF TextHolds
<1>11. RunHolds'
  <2>1. IterPlace(iter)'
    BY <1>1, <1>2, IterFrame
  <2> QED BY <1>1, <1>9, <2>1 DEF RunHolds
<1>12. PlaceInv'
  <2>1. \A p \in wanted : Past(iter, p)' = UpTo(mf, vol, p)'
    <3>1. \A p \in wanted : UpTo(mf, vol, p)' = UpTo(mf', k, p)
      BY <1>1 DEF UpTo, SizeOf
    <3> QED BY <1>1, <1>7, <3>1, PastFrame
  <2>2. atEnd' => Exhausted(iter')
    BY <1>1
  <2> QED BY <1>1, <2>1, <2>2 DEF PlaceInv
<1> QED BY <1>1, <1>10, <1>11, <1>12 DEF HoldInv, SkipPlace

LEMMA PutVolumeHolds == IInv /\ HoldInv /\ PutVolume => HoldInv'
<1> SUFFICES ASSUME IInv, HoldInv, PutVolume PROVE HoldInv'
  OBVIOUS
<1>1. /\ pc = "put" /\ pc' = (IF atEnd THEN "done" ELSE "open") /\ vol' = vol
      /\ UNCHANGED <<source, text, mf, iter, atEnd, wanted>>
  BY DEF PutVolume
<1>2. vol \in Nat /\ IterPlace(iter) /\ FromString(text) = mf
  BY <1>1, Counted DEF IInv, ManifestInv, HoldInv, RunHolds
<1>3. \A j \in 1..vol : Holds(mf, j)'
  BY <1>1, HoldsFrame DEF HoldInv, RunHolds
<1>4. TextHolds'
  <2>1. DOMAIN remote' \subseteq 1..vol
    <3>1. ManifestInv' /\ TextInv'
      BY PutVolumeInv DEF IInv
    <3>2. DOMAIN remote \subseteq 1..vol /\ vol \in 1..vol
      BY <1>1, <1>2 DEF IInv, ManifestInv
    <3>3. remote' = Write(remote, vol, data)
      BY DEF PutVolume
    <3> QED BY <3>2, <3>3 DEF Write
  <2>2. \A j \in Volumes : j + 1 \in DOMAIN remote' => j \in 1..vol
    BY <1>2, <2>1 DEF Volumes
  <2>3. FromString(text)' = mf'
    BY <1>1, <1>2
  <2>4. \A j \in 1..vol : Holds(FromString(text), j)'
    BY <1>3, <2>3 DEF Holds, Ends, Spans, Adds, UpTo
  <2> QED BY <2>2, <2>4 DEF TextHolds
<1>5. RunHolds'
  <2>1. IterPlace(iter)'
    BY <1>1, <1>2, IterFrame
  <2> QED BY <1>1, <1>3, <2>1 DEF RunHolds
<1>6. PlaceInv'
  <2>1. \A p \in wanted : Past(iter, p)' = UpTo(mf, vol, p)'
    BY <1>1, PastFrame, UpToFrame DEF HoldInv, PlaceInv
  <2>2. pc' = "done" => Exhausted(iter')
    BY <1>1 DEF HoldInv, PlaceInv
  <2> QED BY <1>1, <2>1, <2>2 DEF PlaceInv
<1> QED BY <1>1, <1>4, <1>5, <1>6 DEF HoldInv, SkipPlace

-----------------------------------------------------------------------------
(* What a restore yields. *)

LEMMA NextHolds == IInv /\ HoldInv /\ [Next]_vars => HoldInv'
<1> SUFFICES ASSUME IInv, HoldInv, [Next]_vars PROVE HoldInv'
  OBVIOUS
<1>1. CASE Run
  BY <1>1, BeginSetHolds, StartOverHolds, RestartHolds, SkipBlockHolds, SkipEndsHolds,
     OpenVolumeHolds, WriteBlockHolds, CloseVolumeHolds, PutVolumeHolds DEF Run
<1>2. ASSUME NEW p \in Paths, NEW n \in 0..MaxBlocks, Edit(p, n) PROVE HoldInv'
  BY <1>2, EditHolds
<1>3. CASE UNCHANGED vars
  <2>1. UNCHANGED <<source, remote, text, mf, iter, pc, vol, data, atEnd, last, wanted>>
    BY <1>3 DEF vars
  <2>2. TextHolds'
    BY <2>1, TextHoldsFrame DEF HoldInv
  <2>3. RunHolds'
    BY <2>1, HoldsFrame, IterFrame DEF HoldInv, RunHolds
  <2>4. PlaceInv'
    BY <2>1 DEF HoldInv, PlaceInv, Past, UpTo, Adds, BlockOf, SizeOf
  <2> QED BY <2>1, <2>2, <2>3, <2>4 DEF HoldInv, SkipPlace
<1> QED BY <1>1, <1>2, <1>3, CrashHolds DEF Next

\* Blocks up to the path's size, in order.
LEMMA AllIntact ==
  ASSUME FilesOK, NEW s \in Seq(Block), NEW p \in Paths, Adds(s, p, 0, SizeOf(p))
  PROVE  Intact(EntriesOf(s, p), p)
<1> DEFINE e == EntriesOf(s, p)
<1>1. e \in Seq(Block)
  BY EntriesAreBlocks
<1>2. 0 + Len(e) = SizeOf(p) /\ \A i \in 1..Len(e) : e[i] = BlockOf(p, 0 + i)
  BY DEF Adds
<1> HIDE DEF e
<1>3. Len(e) \in Nat /\ DOMAIN e = 1..Len(e)
  BY <1>1
<1>4. \A i \in 1..Len(e) : 0 + i = i
  OBVIOUS
<1>5. Len(e) = SizeOf(p) /\ \A i \in DOMAIN e : e[i] = BlockOf(p, i)
  BY <1>2, <1>3, <1>4
<1> QED BY <1>5 DEF Intact, e, SizeOf

LEMMA HoldsRestores == IInv /\ HoldInv => RestoresUnchanged
<1> SUFFICES ASSUME IInv, HoldInv, pc = "done"
             PROVE  /\ \A p \in wanted : Intact(EntriesOf(Stream(DOMAIN remote), p), p)
                    /\ wanted = Paths =>
                         \A p \in Paths : Intact(EntriesOf(Stream(ContainingVolumes(mf, p)), p), p)
  BY DEF RestoresUnchanged
<1> DEFINE D == DOMAIN remote
<1>1. FilesOK /\ RunOK /\ IterOK(iter) /\ IterPlace(iter) /\ Exhausted(iter) /\ wanted \subseteq Paths
  BY DEF IInv, FilesOK, RunOK, HoldInv, RunHolds, PlaceInv
<1>2. /\ D = 1..vol /\ DOMAIN mf = D /\ vol \in Nat
      /\ \A k \in D : mf[k].data = remote[k]
  BY Counted DEF IInv, ManifestInv, Sent
<1>3. \A k \in D : Holds(mf, k)
  BY <1>2 DEF HoldInv, RunHolds
<1>4. ASSUME NEW p \in wanted
      PROVE  Stream(D) \in Seq(Block) /\ Adds(Stream(D), p, 0, SizeOf(p))
  <2>1. \A k \in 1..vol : /\ UpTo(mf, k, p) \in Nat
                          /\ Adds(remote[k], p, UpTo(mf, k - 1, p), UpTo(mf, k, p))
    <3>1. \A k \in 1..vol : UpTo(mf, k, p) \in Nat
      BY <1>1, <1>2, UpToIs
    <3>2. \A k \in 1..vol : Adds(mf[k].data, p, UpTo(mf, k - 1, p), UpTo(mf, k, p))
      BY <1>2, <1>3 DEF Holds
    <3> QED BY <1>2, <3>1, <3>2
  <2>2. Stream(D) \in Seq(Block) /\ Adds(Stream(D), p, 0, UpTo(mf, vol, p))
    BY <1>1, <1>2, <2>1, StreamHolds
  <2>3. UpTo(mf, vol, p) = SizeOf(p)
    <3>1. Past(iter, p) = SizeOf(p)
      BY <1>1, PastAll
    <3>2. Past(iter, p) = UpTo(mf, vol, p)
      BY DEF HoldInv, PlaceInv
    <3> QED BY <3>1, <3>2
  <2> QED BY <2>2, <2>3
<1>5. \A p \in wanted : Intact(EntriesOf(Stream(D), p), p)
  BY <1>1, <1>4, AllIntact
<1>6. ASSUME wanted = Paths, NEW p \in Paths
      PROVE  Intact(EntriesOf(Stream(ContainingVolumes(mf, p)), p), p)
  <2> DEFINE S == ContainingVolumes(mf, p)
  <2>1. S \subseteq D
    BY <1>2 DEF ContainingVolumes
  <2>2. ASSUME NEW k \in D \ S PROVE EntriesOf(remote[k], p) = <<>>
    <3>1. ~ (mf[k].start <= p /\ p <= mf[k].end)
      BY <1>2, <2>2 DEF ContainingVolumes, Contains
    <3>2. \A i \in 1..Len(remote[k]) :
            mf[k].start <= remote[k][i].path /\ remote[k][i].path <= mf[k].end
      BY <1>2, <1>3, <1>6 DEF Holds, Spans
    <3>3. \A i \in 1..Len(remote[k]) : remote[k][i].path # p
      BY <3>1, <3>2
    <3>4. remote[k] \in Seq(Block)
      BY <1>1 DEF FilesOK, IsStore
    <3> QED BY <3>3, <3>4, NoEntries
  <2>3. EntriesOf(Stream(S), p) = EntriesOf(Stream(D), p)
    BY <1>1, <2>1, <2>2, StreamOfFewer
  <2> QED BY <1>5, <1>6, <2>3
<1> QED BY <1>5, <1>6

LEMMA InvAndHolds == Spec => [](IInv /\ HoldInv)
<1>1. Init => IInv /\ HoldInv
  BY InitInv, InitHolds
<1>2. (IInv /\ HoldInv) /\ [Next]_vars => (IInv /\ HoldInv)'
  BY NextInv, NextHolds
<1> QED BY <1>1, <1>2, PTL DEF Spec

\* Restoring a path that did not change yields the blocks it had, all of them, once and
\* in order, whatever volumes they are spread over and wherever the runs that wrote them
\* died (restart_position_iterator, get_indicies, difftar2path_iter); and the volumes
\* that the manifest's index ranges lead to have them all (get_containing_volumes).
THEOREM WhatWasBackedUpIsRestored == Spec => []RestoresUnchanged
<1> QED BY InvAndHolds, HoldsRestores, PTL
=============================================================================
