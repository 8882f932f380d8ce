--------------------------- MODULE LibrsyncStreams ----------------------------
(***************************************************************************)
(* How the data of one file flows into the blocks of a tar: the reader     *)
(* (diffdir.py: DeltaTarBlockIter) asks a snapshot or a librsync.DeltaFile *)
(* for blocks, which asks a FileWithSignature, which asks the file and     *)
(* feeds what it reads to a SigGenerator; and how a restore reads a        *)
(* librsync.PatchedFile (librsync.py: LikeFile, _librsyncmodule.c).        *)
(*                                                                         *)
(* librsync is external: a job may keep data back, hands on what it has    *)
(* taken, in order, and ends after it has been told of the end of its      *)
(* input.  A delta stands for the data it describes and a final command; a *)
(* signature is the data it was computed from.                             *)
(***************************************************************************)
EXTENDS Naturals, SequencesExt

CONSTANTS
  MaxLength,  \* of a file
  BlockSize,  \* RS_JOB_BLOCKSIZE and get_read_size: 64K both
  SigRead,    \* FileWithSignature.blocksize: 32K
  MaxGrowth,  \* bound: units another program adds to the file
  MaxErrors   \* bound: reads of the file that fail

ASSUME StreamsAssumption ==
  /\ MaxLength \in Nat /\ MaxGrowth \in Nat /\ MaxErrors \in Nat
  /\ BlockSize \in Nat \ {0} /\ SigRead \in Nat \ {0}

VARIABLES
  mode,     \* "snapshot", "diff", "patch"
  file, pos,  \* the file and how far it has been read
  pc,       \* "ask", "fill", "inbuf", "cycle", "direct", "finish", "done"
  after,    \* where FileWithSignature.close returns to
  inbuf, outbuf, eof, infileEof,  \* LikeFile
  kept,     \* what the librsync job has taken and not handed on
  sigbuf, taken,  \* SigGenerator: buffer, and what its job has taken
  sig,      \* the signature that went to the callback
  given, sizes,  \* what the reader got, block after block, and the blocks' lengths
  length,   \* history: of the file at the beginning
  late,     \* history: was the file disturbed after its end was seen?
  growth, errors  \* bounds

like   == <<inbuf, outbuf, eof, infileEof, kept>>
signer == <<sigbuf, taken, sig>>
blocks == <<given, sizes>>
bounds == <<growth, errors>>
vars   == <<mode, file, pos, pc, after, like, signer, blocks, length, late, bounds>>

Final == 0   \* the last command of a delta
None  == <<Final>>  \* no signature yet

Trailer == IF mode = "diff" THEN <<Final>> ELSE <<>>

First(s, n) == SubSeq(s, 1, n)
Rest(s, n)  == SubSeq(s, n + 1, Len(s))
Least(a, b) == IF a < b THEN a ELSE b

Init ==
  /\ mode \in {"snapshot", "diff", "patch"}
  /\ length \in 0..MaxLength
  /\ file = [i \in 1..length |-> i] /\ pos = 0
  /\ pc = "ask" /\ after = "done"
  /\ inbuf = <<>> /\ outbuf = <<>> /\ eof = FALSE /\ infileEof = FALSE /\ kept = <<>>
  /\ sigbuf = <<>> /\ taken = <<>> /\ sig = None
  /\ given = <<>> /\ sizes = <<>> /\ late = FALSE
  /\ growth = 0 /\ errors = 0

-----------------------------------------------------------------------------
(* The file, and its signature. *)

\* SigGenerator.update: the job is run while the buffer holds a block.
Updated(buf) ==
  LET all == sigbuf \o buf
  IN  IF Len(all) < BlockSize THEN {[taken |-> taken, buffer |-> all]}
      ELSE {[taken |-> taken \o First(all, n), buffer |-> Rest(all, n)] :
              n \in Len(all) - BlockSize + 1 .. Len(all)}

\* FileWithReadCounter.read: an error reads like the end of the file.
InfileRead(n, buf) ==
  \/ /\ buf = SubSeq(file, pos + 1, Least(pos + n, Len(file)))
     /\ UNCHANGED <<errors, late>>
  \/ /\ mode # "patch" /\ errors < MaxErrors
     /\ buf = <<>>
     /\ errors' = errors + 1 /\ late' = TRUE

\* FileWithSignature.read; what a patch reads is not signed.
Read(n, buf) ==
  /\ InfileRead(n, buf)
  /\ pos' = pos + Len(buf)
  /\ IF mode = "patch" THEN UNCHANGED signer
     ELSE /\ \E u \in Updated(buf) : taken' = u.taken /\ sigbuf' = u.buffer
          /\ UNCHANGED sig

Buffers == {<<>>} \cup {SubSeq(file, pos + 1, pos + n) : n \in 1..Len(file) - pos}

\* Would-be GetSig: the rest of the buffer is left out.
GetSigOnce == taken

\* SigGenerator.getsig runs the job until it says it is done.
GetSig == taken \o sigbuf

\* FileWithSignature.close: "Make sure all of infile read", then the callback.
Finish ==
  /\ pc = "finish"
  /\ IF sig # None \/ mode = "patch"
       THEN pc' = after /\ UNCHANGED <<pos, signer, errors, late>>
       ELSE \E buf \in Buffers :
              \/ /\ Read(SigRead, buf) /\ buf # <<>> /\ UNCHANGED pc
              \/ /\ InfileRead(SigRead, buf) /\ buf = <<>>
                 /\ sig' = GetSig /\ pc' = after
                 /\ UNCHANGED <<pos, taken, sigbuf>>
  /\ UNCHANGED <<mode, file, after, like, blocks, length, growth>>

-----------------------------------------------------------------------------
(* LikeFile. *)

\* read(length): one turn of its loop.
Fill ==
  /\ pc = "fill" /\ ~eof /\ Len(outbuf) < BlockSize
  /\ pc' = IF infileEof THEN "cycle" ELSE "inbuf"
  /\ UNCHANGED <<mode, file, pos, after, like, signer, blocks, length, late, bounds>>

\* _add_to_inbuf: at the end of the file it is closed at once.
AddToInbuf ==
  /\ pc = "inbuf"
  /\ \/ /\ Len(inbuf) >= BlockSize /\ pc' = "cycle"
        /\ UNCHANGED <<pos, after, inbuf, infileEof, signer, errors, late>>
     \/ /\ Len(inbuf) < BlockSize
        /\ \E buf \in Buffers :
             /\ Read(BlockSize, buf)
             /\ inbuf' = inbuf \o buf
             /\ infileEof' = (buf = <<>>)
             /\ IF buf = <<>> THEN pc' = "finish" /\ after' = "cycle"
                              ELSE UNCHANGED <<pc, after>>
  /\ UNCHANGED <<mode, file, outbuf, eof, kept, blocks, length, growth>>

\* A job stops taking input only when its output is full.
Jobs ==
  {j \in [used : 0..Len(inbuf), out : 0..BlockSize] :
     /\ j.out <= Len(kept) + j.used
     /\ j.used + j.out > 0
     /\ j.used < Len(inbuf) => j.out = BlockSize}

\* Would-be Cycle: the input that was not taken is thrown away.
CycleDropsRest ==
  /\ pc = "cycle" /\ pc' = "fill"
  /\ IF inbuf # <<>>
       THEN \E j \in Jobs :
              LET all == kept \o First(inbuf, j.used)
              IN  /\ outbuf' = outbuf \o First(all, j.out)
                  /\ kept' = Rest(all, j.out)
                  /\ inbuf' = <<>>
                  /\ UNCHANGED eof
       ELSE LET all == kept \o Trailer
                n   == Least(Len(all), BlockSize)
            IN  /\ outbuf' = outbuf \o First(all, n)
                /\ kept' = Rest(kept, Least(n, Len(kept)))
                /\ eof' = (Len(all) = n)
                /\ UNCHANGED inbuf
  /\ UNCHANGED <<mode, file, pos, after, infileEof, signer, blocks, length, late, bounds>>

\* maker.cycle, one block of output at most; eof_in is an empty buffer.
Cycle ==
  /\ pc = "cycle" /\ pc' = "fill"
  /\ IF inbuf # <<>>
       THEN \E j \in Jobs :
              LET all == kept \o First(inbuf, j.used)
              IN  /\ outbuf' = outbuf \o First(all, j.out)
                  /\ kept' = Rest(all, j.out)
                  /\ inbuf' = Rest(inbuf, j.used)
                  /\ UNCHANGED eof
       ELSE LET all == kept \o Trailer
                n   == Least(Len(all), BlockSize)
            IN  /\ outbuf' = outbuf \o First(all, n)
                /\ kept' = Rest(kept, Least(n, Len(kept)))
                /\ eof' = (Len(all) = n)
                /\ UNCHANGED inbuf
  /\ UNCHANGED <<mode, file, pos, after, infileEof, signer, blocks, length, late, bounds>>

-----------------------------------------------------------------------------
(* The reader. *)

\* get_data_block asks for a block, and so does copyfileobj.
Ask ==
  /\ pc = "ask"
  /\ pc' = IF mode = "snapshot" THEN "direct" ELSE "fill"
  /\ UNCHANGED <<mode, file, pos, after, like, signer, blocks, length, late, bounds>>

\* A short block is the last of a file in a tar, an empty one of a copy.
LastBlock(buf) == IF mode = "patch" THEN buf = <<>> ELSE Len(buf) < BlockSize

\* close follows the last block; LikeFile has closed its input already.
Deliver(buf) ==
  /\ given' = given \o buf /\ sizes' = Append(sizes, Len(buf))
  /\ IF LastBlock(buf) THEN pc' = "finish" /\ after' = "done"
                       ELSE pc' = "ask" /\ UNCHANGED after

\* Would-be FillDone: read goes on to a whole block at the end too.
FillDoneFull ==
  /\ pc = "fill" /\ Len(outbuf) >= BlockSize
  /\ LET n == Least(BlockSize, Len(outbuf))
     IN  Deliver(First(outbuf, n)) /\ outbuf' = Rest(outbuf, n)
  /\ UNCHANGED <<mode, file, pos, inbuf, eof, infileEof, kept, signer, length, late, bounds>>

\* LikeFile.read returns.
FillDone ==
  /\ pc = "fill" /\ (eof \/ Len(outbuf) >= BlockSize)
  /\ LET n == Least(BlockSize, Len(outbuf))
     IN  Deliver(First(outbuf, n)) /\ outbuf' = Rest(outbuf, n)
  /\ UNCHANGED <<mode, file, pos, inbuf, eof, infileEof, kept, signer, length, late, bounds>>

\* A snapshot is read as it is.
Direct ==
  /\ pc = "direct"
  /\ \E buf \in Buffers : Read(BlockSize, buf) /\ Deliver(buf)
  /\ UNCHANGED <<mode, file, like, length, growth>>

\* Another program adds to the file.
Grow ==
  /\ mode # "patch" /\ pc # "done" /\ growth < MaxGrowth
  /\ growth' = growth + 1
  /\ file' = Append(file, Len(file) + 1)
  /\ late' = (late \/ infileEof \/ pc = "finish")
  /\ UNCHANGED <<mode, pos, pc, after, like, signer, blocks, length, errors>>

Step == Ask \/ Direct \/ Fill \/ FillDone \/ AddToInbuf \/ Cycle \/ Finish
Next == Step \/ Grow

Spec     == Init /\ [][Next]_vars
FairSpec == Spec /\ WF_vars(Step)

-----------------------------------------------------------------------------
Data == First(given, Len(given) - Len(Trailer))

\* The blocks of a file are its data, or the whole of its delta, however librsync cuts
\* its input and output: nothing is lost or doubled at a block's edge, a file that grows
\* has at least what it had, and in a tar all blocks but the last are full, which is how
\* the reader knows a file's last block.
BlocksWhole ==
  pc = "done" =>
    /\ IsPrefix(Data, file)
    /\ errors = 0 => Len(Data) >= length
    /\ given = Data \o Trailer
    /\ mode # "patch" => \A i \in 1..Len(sizes) - 1 : sizes[i] = BlockSize

\* The next delta of the file is computed against the signature, and is applied to the
\* data: the two agree, whatever the file did before its end was seen.  What is added
\* later, and what comes after a read that failed, is in the signature and not in the
\* data: close reads on.
SignatureMatches ==
  pc = "done" /\ mode # "patch" =>
    /\ IsPrefix(Data, sig)
    /\ ~late => sig = Data

\* The stream ends, though a job keeps data back and ends only when told to.
StreamEnds == <>(pc = "done")
=============================================================================
