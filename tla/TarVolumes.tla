----------------------------- MODULE TarVolumes -----------------------------
(***************************************************************************)
(* How the paths of a source tree become blocks, blocks become volumes,    *)
(* volumes become lines of a manifest, and how a restarted run finds its   *)
(* place again (diffdir.py: TarBlockIter, DeltaTarBlockIter; gpg.py;       *)
(* manifest.py; bin/duplicity: write_multivol, restart_position_iterator,  *)
(* Restart; patchdir.py: difftar2path_iter).  One level below              *)
(* BackupSession, where a path is one block and volumes are counted.       *)
(*                                                                         *)
(* Abstractions.  A path is a number, in the order of the source iterator; *)
(* index () and None are 0, and so is block None.  The content of a block  *)
(* is its path, its number and the version of the path.  A volume may be   *)
(* full after any block: how many fit depends on compression.  The source  *)
(* does not change while a run reads it.                                   *)
(***************************************************************************)
EXTENDS Naturals, Sequences, FiniteSets, Stores

CONSTANTS
  NumPaths,     \* paths of the source tree
  MaxBlocks,    \* blocks of a path
  MaxVol,       \* bound: volumes of the set
  MaxCrashes,   \* bound: runs that die
  MaxEdits      \* bound: changes to the source between runs

ASSUME BoundsAssumption ==
  /\ NumPaths \in Nat /\ MaxBlocks \in Nat \ {0}
  /\ MaxVol \in Nat /\ MaxCrashes \in Nat /\ MaxEdits \in Nat

Paths   == 1..NumPaths
Indices == 0..NumPaths
Volumes == 1..MaxVol
File    == [blocks : 0..MaxBlocks, version : 0..MaxEdits]  \* 0: no such path

\* multi: the entry is named multivol_.../<num>.
Block == [path : Paths, num : 1..MaxBlocks, version : 0..MaxEdits, multi : BOOLEAN]
VolumeInfo == [start : Indices, startBlock : 0..MaxBlocks,
               end : Indices, endBlock : 0..MaxBlocks, data : Seq(Block)]

VARIABLES
  source,    \* the tree that is backed up
  remote,    \* volumes on the remote, by number
  text,      \* the .part manifest: the volume infos appended to it
  mf,        \* the manifest object's volume_info_dict
  iter,      \* the TarBlockIter
  pc,        \* "idle", "skip", "open", "write", "put", "done"
  vol,       \* vol_num
  data,      \* blocks of the volume that is written
  atEnd,     \* at_end
  last,      \* Restart.last_index and last_block
  crashes, edits,  \* bounds
  wanted     \* history: paths unchanged since the set was begun

vars == <<source, remote, text, mf, iter, pc, vol, data, atEnd, last,
          crashes, edits, wanted>>

-----------------------------------------------------------------------------
(* TarBlockIter *)

NoBlock == [path |-> 0, num |-> 0, version |-> 0, multi |-> FALSE]

\* todo: the paths of input_iter; waiting: process_next_vol_number, 0 unless
\* process_waiting; queued: queued_data; index, block: previous_index and
\* previous_block; memIndex, memBlock: remember_value and remember_block.
ClosedIter == [todo |-> {}, waiting |-> 0, queued |-> NoBlock, index |-> 0, block |-> 0,
               remember |-> FALSE, memIndex |-> 0, memBlock |-> 0]

FreshIter ==
  [ClosedIter EXCEPT !.todo = {p \in Paths : source[p].blocks # 0}]

Exhausted(it) == it.queued = NoBlock /\ it.waiting = 0 /\ it.todo = {}

FirstOf(S) == CHOOSE p \in S : \A q \in S : p <= q

BlockOf(p, k) == [path |-> p, num |-> k, version |-> source[p].version,
                  multi |-> source[p].blocks > 1]

\* The block the next call of next() returns.
NextBlock(it) ==
  IF it.queued # NoBlock THEN it.queued
  ELSE IF it.waiting # 0 THEN BlockOf(it.index, it.waiting)
  ELSE BlockOf(FirstOf(it.todo), 1)

\* process_next_vol_number after block k of p: None after the last one.
NextNumber(p, k) == IF k < source[p].blocks THEN k + 1 ELSE 0

\* The iterator after that call.  A queued block leaves all else as it is.
Advanced(it) ==
  IF it.queued # NoBlock THEN [it EXCEPT !.queued = NoBlock]
  ELSE LET b == NextBlock(it)
           n == NextNumber(b.path, b.num)
       IN  [it EXCEPT !.todo = @ \ {b.path}, !.waiting = n,
                      !.index = b.path, !.block = n,
                      !.remember = FALSE,
                      !.memIndex = IF it.remember THEN b.path ELSE @,
                      !.memBlock = IF it.remember THEN n ELSE @]

-----------------------------------------------------------------------------
(* Manifest *)

\* Mutant of FromString: infos above the last one read are kept.
FromStringKeepsAll(lines) ==
  LET nums == {lines[i].num : i \in DOMAIN lines}
      latest(k) == CHOOSE i \in DOMAIN lines :
                     /\ lines[i].num = k
                     /\ \A j \in DOMAIN lines : lines[j].num = k => j <= i
  IN  [k \in nums |-> lines[latest(k)].info]

\* Manifest.from_string: of the infos with one number the last counts, and
\* numbers above the one on the last line are dropped.
FromString(lines) ==
  LET top  == IF lines = <<>> THEN 0 ELSE lines[Len(lines)].num
      nums == {lines[i].num : i \in DOMAIN lines} \cap 1..top
      latest(k) == CHOOSE i \in DOMAIN lines :
                     /\ lines[i].num = k
                     /\ \A j \in DOMAIN lines : lines[j].num = k => j <= i
  IN  [k \in nums |-> lines[latest(k)].info]

\* get_indicies: block numbers in a manifest are those of the last block in the
\* volume, those of the iterator are one ahead.
OneBack(n) == IF n = 0 THEN 0 ELSE n - 1

Info(it, blocks) ==
  LET start      == it.memIndex
      startBlock == OneBack(it.memBlock)
  IN  [start |-> start, startBlock |-> startBlock,
       end |-> IF it.index = 0 THEN start ELSE it.index,
       endBlock |-> IF it.index = 0 THEN OneBack(startBlock) ELSE OneBack(it.block),
       data |-> blocks]

-----------------------------------------------------------------------------
Init ==
  /\ source \in [Paths -> {[blocks |-> n, version |-> 0] : n \in 0..MaxBlocks}]
  /\ remote = EmptyStore /\ text = <<>> /\ mf = EmptyStore
  /\ pc = "idle" /\ vol = 0 /\ data = <<>> /\ atEnd = FALSE
  /\ iter = ClosedIter /\ last = <<0, 0>>
  /\ crashes = 0 /\ edits = 0 /\ wanted = {}

Idle ==
  /\ pc' = "idle" /\ vol' = 0 /\ data' = <<>> /\ atEnd' = FALSE
  /\ mf' = EmptyStore /\ last' = <<0, 0>>
  /\ iter' = ClosedIter

Crash ==
  /\ pc \notin {"idle", "done"} /\ crashes < MaxCrashes
  /\ Idle
  /\ crashes' = crashes + 1
  /\ UNCHANGED <<source, remote, text, edits, wanted>>

\* Between two runs a path appears, changes its size or content, or goes.
Edit(p, n) ==
  /\ pc = "idle" /\ edits < MaxEdits
  /\ n # 0 \/ source[p].blocks # 0
  /\ edits' = edits + 1
  /\ source' = [source EXCEPT ![p] = [blocks |-> n, version |-> edits']]
  /\ wanted' = wanted \ {p}
  /\ UNCHANGED <<remote, text, mf, iter, pc, vol, data, atEnd, last, crashes>>

\* A run with no partial set to go on with.
BeginSet ==
  /\ pc = "idle" /\ text = <<>> /\ remote = EmptyStore
  /\ pc' = "open" /\ iter' = FreshIter
  /\ wanted' = Paths
  /\ UNCHANGED <<source, remote, text, mf, vol, data, atEnd, last, crashes, edits>>

\* Restart.setParms: max(len(last_backup) - 1, 0).
StartVol == OneBack(Cardinality(DOMAIN remote))

\* Mutant of StartOver: the partial set is not deleted.
StartOverKeeping ==
  /\ pc = "idle" /\ text # <<>>
  /\ StartVol = 0 \/ Cardinality(DOMAIN FromString(text)) < StartVol
  /\ wanted' = {}
  /\ UNCHANGED <<source, remote, text, mf, iter, pc, vol, data, atEnd, last, crashes, edits>>

\* Restart.checkManifest: the first volume failed, or the manifest has fewer
\* volumes than the remote; the partial set is deleted.
StartOver ==
  /\ pc = "idle" /\ text # <<>>
  /\ StartVol = 0 \/ Cardinality(DOMAIN FromString(text)) < StartVol
  /\ remote' = EmptyStore /\ text' = <<>> /\ wanted' = {}
  /\ UNCHANGED <<source, mf, iter, pc, vol, data, atEnd, last, crashes, edits>>

\* The manifest object loses the volumes above start_vol, the text keeps them.
Restart ==
  /\ pc = "idle" /\ text # <<>>
  /\ StartVol # 0 /\ Cardinality(DOMAIN FromString(text)) >= StartVol
  /\ mf' = Keep(FromString(text), 1..StartVol)
  /\ last' = <<mf'[StartVol].end, mf'[StartVol].endBlock>>
  /\ vol' = StartVol
  /\ pc' = "skip" /\ iter' = FreshIter
  /\ UNCHANGED <<source, remote, text, data, atEnd, crashes, edits, wanted>>

\* The position of the last volume's end: the file is complete in both, or the
\* iterator has passed the last block (None > int is False).
Found(it) ==
  /\ it.index = last[1]
  /\ IF last[2] = 0 THEN it.block = 0 ELSE it.block > last[2]

\* Mutant of Requeue: the block that was read too far is not put back.
RequeueNot(it, b) == it

Requeue(it, b) == [it EXCEPT !.queued = b]

\* restart_position_iterator: one turn of the loop.
SkipBlock ==
  /\ pc = "skip" /\ ~Exhausted(iter)
  /\ LET it == Advanced(iter)
     IN  /\ iter' = IF ~Found(it) /\ it.index > last[1]
                      THEN Requeue(it, NextBlock(iter)) ELSE it
         /\ pc' = IF Found(it) \/ it.index > last[1] THEN "open" ELSE "skip"
  /\ UNCHANGED <<source, remote, text, mf, vol, data, atEnd, last, crashes, edits, wanted>>

SkipEnds ==
  /\ pc = "skip" /\ Exhausted(iter)
  /\ pc' = "open"
  /\ UNCHANGED <<source, remote, text, mf, iter, vol, data, atEnd, last, crashes,
                 edits, wanted>>

-----------------------------------------------------------------------------
(* write_multivol *)

\* remember_next_index() and a new temporary file.
OpenVolume ==
  /\ pc = "open" /\ vol < MaxVol
  /\ vol' = vol + 1 /\ data' = <<>>
  /\ iter' = [iter EXCEPT !.remember = TRUE, !.memIndex = 0, !.memBlock = 0]
  /\ pc' = "write"
  /\ UNCHANGED <<source, remote, text, mf, atEnd, last, crashes, edits, wanted>>

\* GPGWriteFile, GzipWriteFile: a block fits in a volume that is not full.
WriteBlock ==
  /\ pc = "write" /\ ~Exhausted(iter)
  /\ data' = Append(data, NextBlock(iter))
  /\ iter' = Advanced(iter)
  /\ UNCHANGED <<source, remote, text, mf, pc, vol, atEnd, last, crashes, edits, wanted>>

\* The volume is full, or next() raises StopIteration; the volume's info is
\* added to the manifest object and its text.
CloseVolume ==
  /\ pc = "write"
  /\ data # <<>> \/ Exhausted(iter)
  /\ atEnd' \in IF Exhausted(iter) THEN BOOLEAN ELSE {FALSE}
  /\ data = <<>> => atEnd'
  /\ ~atEnd' => vol < MaxVol
  /\ mf' = Write(mf, vol, Info(iter, data))
  /\ text' = Append(text, [num |-> vol, info |-> Info(iter, data)])
  /\ pc' = "put"
  /\ UNCHANGED <<source, remote, iter, vol, data, last, crashes, edits, wanted>>

PutVolume ==
  /\ pc = "put"
  /\ remote' = Write(remote, vol, data)
  /\ data' = <<>>
  /\ pc' = IF atEnd THEN "done" ELSE "open"
  /\ UNCHANGED <<source, text, mf, iter, vol, atEnd, last, crashes, edits, wanted>>

Run == BeginSet \/ StartOver \/ Restart \/ SkipBlock \/ SkipEnds
       \/ OpenVolume \/ WriteBlock \/ CloseVolume \/ PutVolume

Next == Run \/ Crash \/ \E p \in Paths, n \in 0..MaxBlocks : Edit(p, n)

Spec == Init /\ [][Next]_vars
FairSpec == Spec /\ WF_vars(Run)

-----------------------------------------------------------------------------
(* Restore (restore_get_patched_rop_iter, difftar2path_iter). *)

\* VolumeInfo.contains for index p, () being 0.
Contains(info, p) == p = 0 \/ (info.start <= p /\ p <= info.end)

ContainingVolumes(m, p) == {k \in DOMAIN m : Contains(m[k], p)}

\* The tar entries of the volumes in S, in order.
Stream(S) ==
  LET upTo[k \in 0..MaxVol] ==
        IF k = 0 THEN <<>>
        ELSE IF k \in S THEN upTo[k - 1] \o remote[k] ELSE upTo[k - 1]
  IN  upTo[MaxVol]

EntriesOf(s, p) ==
  LET upTo[i \in 0..Len(s)] ==
        IF i = 0 THEN <<>>
        ELSE IF s[i].path = p THEN Append(upTo[i - 1], s[i]) ELSE upTo[i - 1]
  IN  upTo[Len(s)]

\* Restoring p yields the content it had: one entry, or the parts of a
\* multivol entry in order (Multivol_Filelike joins what follows on).
Intact(entries, p) ==
  /\ Len(entries) = source[p].blocks
  /\ \A k \in DOMAIN entries : entries[k] = BlockOf(p, k)

-----------------------------------------------------------------------------
\* The iterator, the volumes, the manifest text and the position keep their types.
TypeOK ==
  /\ source \in [Paths -> File]
  /\ DOMAIN remote \subseteq Volumes /\ \A k \in DOMAIN remote : remote[k] \in Seq(Block)
  /\ \A i \in DOMAIN text : text[i].num \in Volumes /\ text[i].info \in VolumeInfo
  /\ IsStore(mf, Volumes, VolumeInfo)
  /\ iter.todo \subseteq Paths /\ iter.waiting \in 0..MaxBlocks
  /\ iter.queued \in Block \cup {NoBlock}
  /\ {iter.index, iter.memIndex} \subseteq Indices
  /\ {iter.block, iter.memBlock} \subseteq 0..MaxBlocks
  /\ pc \in {"idle", "skip", "open", "write", "put", "done"}
  /\ vol \in 0..MaxVol /\ data \in Seq(Block) /\ atEnd \in BOOLEAN
  /\ last \in Indices \X (0..MaxBlocks)
  /\ wanted \subseteq Paths

\* Every path that did not change while the set was partial is restored as it
\* was, whatever volumes its blocks are spread over and wherever runs died.  If
\* nothing changed, the volumes that its index range leads to are enough.
RestoresUnchanged ==
  pc = "done" =>
    /\ \A p \in wanted : Intact(EntriesOf(Stream(DOMAIN remote), p), p)
    /\ wanted = Paths =>
         \A p \in Paths : Intact(EntriesOf(Stream(ContainingVolumes(mf, p)), p), p)

\* Parsing the text appended by several runs gives the manifest object of the
\* last one, and its hashes are those of the volumes on the remote.
TextMeansManifest ==
  /\ pc \in {"put", "done"} => FromString(text) = mf
  /\ pc = "done" => /\ DOMAIN mf = DOMAIN remote
                    /\ \A k \in DOMAIN mf : mf[k].data = remote[k]

\* The set is completed, however often a run died and started over.
Completed == <>(pc = "done")
=============================================================================
