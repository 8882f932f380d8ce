------------------------ MODULE LibrsyncStreamsProofs ------------------------
(***************************************************************************)
(* Proofs about LibrsyncStreams, for every value of its constants: files   *)
(* of any length, blocks of any size, and any way a job may keep data back *)
(* and cut its output.                                                     *)
(*                                                                         *)
(* The invariant follows a file's units through the buffers: what the      *)
(* reader got, what waits for it, what the job keeps and what it has still *)
(* to take are, one after the other, what was read of the file (FlowInv),  *)
(* and the signature's buffers hold all of that and nothing else (SigInv). *)
(* ControlInv says which buffers are empty where.                          *)
(***************************************************************************)
EXTENDS LibrsyncStreams, SequenceTheorems, TLAPS

Upto(n) == [i \in 1..n |-> i]

\* Concatenation, by a name of its own: most steps regroup sequences, and need not know
\* what they are.
Joined(s, t) == s \o t

\* The end of the file was seen, if only by an error.
Ended == infileEof \/ (mode = "snapshot" /\ pc \in {"finish", "done"})

\* The last block was given.
Over == pc = "done" \/ (pc = "finish" /\ after = "done")

\* Between the reader and the file, and how much of it is the file's.
Flow == Joined(Joined(Joined(given, outbuf), kept), inbuf)
Told == IF eof THEN Trailer ELSE <<>>
Seen == Len(Flow) - Len(Told)

Types ==
  /\ mode \in {"snapshot", "diff", "patch"}
  /\ pc \in {"ask", "fill", "inbuf", "cycle", "direct", "finish", "done"}
  /\ after \in {"cycle", "done"}
  /\ file \in Seq(Nat) /\ file = Upto(Len(file)) /\ length \in 0..Len(file)
  /\ pos \in 0..Len(file)
  /\ given \in Seq(Nat) /\ outbuf \in Seq(Nat) /\ kept \in Seq(Nat) /\ inbuf \in Seq(Nat)
  /\ taken \in Seq(Nat) /\ sigbuf \in Seq(Nat) /\ sig \in Seq(Nat)
  /\ sizes \in Seq(Nat)
  /\ eof \in BOOLEAN /\ infileEof \in BOOLEAN /\ late \in BOOLEAN /\ errors \in Nat

ControlInv ==
  /\ mode = "snapshot" =>
       /\ pc \in {"ask", "direct", "finish", "done"} /\ after = "done"
       /\ outbuf = <<>> /\ kept = <<>> /\ inbuf = <<>> /\ ~eof /\ ~infileEof
  /\ mode # "snapshot" => pc # "direct"
  /\ pc = "inbuf" => ~infileEof
  /\ pc \in {"inbuf", "cycle"} \/ (pc = "finish" /\ after = "cycle") => ~eof
  /\ pc = "finish" /\ after = "cycle" => infileEof
  /\ pc = "cycle" /\ inbuf = <<>> => infileEof
  /\ eof => infileEof /\ kept = <<>> /\ inbuf = <<>>
  /\ Over /\ mode # "snapshot" => eof /\ outbuf = <<>>
  /\ pc = "done" /\ mode # "patch" => sig # None

FlowInv ==
  /\ Seen \in 0..pos /\ Flow = Joined(Upto(Seen), Told)
  /\ ~Ended => Seen = pos
  /\ Ended /\ errors = 0 => Seen >= length
  /\ Ended /\ ~late => Seen = Len(file)

SigInv ==
  mode # "patch" => IF sig = None THEN Joined(taken, sigbuf) = Upto(pos)
                                  ELSE sig = Upto(pos) /\ Ended

SizesInv ==
  mode # "patch" =>
    /\ \A i \in 1..Len(sizes) - 1 : sizes[i] = BlockSize
    /\ ~Over => \A i \in 1..Len(sizes) : sizes[i] = BlockSize

IInv == Types /\ ControlInv /\ FlowInv /\ SigInv /\ SizesInv

-----------------------------------------------------------------------------
(* Sequences. *)

LEMMA Cat ==
  ASSUME NEW s \in Seq(Nat), NEW t \in Seq(Nat)
  PROVE  /\ s \o t \in Seq(Nat) /\ Len(s \o t) = Len(s) + Len(t)
         /\ \A i \in 1..Len(s) + Len(t) : (s \o t)[i] = IF i <= Len(s) THEN s[i] ELSE t[i - Len(s)]
BY ConcatProperties

LEMMA CatAgain ==
  ASSUME NEW s \in Seq(Nat), NEW t \in Seq(Nat), NEW u \in Seq(Nat)
  PROVE  (s \o t) \o u = s \o (t \o u)
BY ConcatAssociative, SMTT(30)

LEMMA UptoIs ==
  ASSUME NEW n \in Nat
  PROVE  Upto(n) \in Seq(Nat) /\ Len(Upto(n)) = n /\ \A i \in 1..n : Upto(n)[i] = i
<1>1. Upto(n) \in [1..n -> Nat]
  BY DEF Upto
<1> QED BY <1>1, IsASeq DEF Upto

\* The units of a file after the first n.
LEMMA UptoMore ==
  ASSUME NEW m \in Nat, NEW k \in 0..m, NEW n \in 0..k
  PROVE  /\ SubSeq(Upto(m), n + 1, k) \in Seq(Nat) /\ Len(SubSeq(Upto(m), n + 1, k)) = k - n
         /\ Upto(n) \o SubSeq(Upto(m), n + 1, k) = Upto(k)
<1> DEFINE s == SubSeq(Upto(m), n + 1, k)
<1>1. /\ Upto(m) \in Seq(Nat) /\ Len(Upto(m)) = m /\ \A i \in 1..m : Upto(m)[i] = i
      /\ Upto(n) \in Seq(Nat) /\ Len(Upto(n)) = n /\ \A i \in 1..n : Upto(n)[i] = i
      /\ Upto(k) \in Seq(Nat) /\ Len(Upto(k)) = k /\ \A i \in 1..k : Upto(k)[i] = i
  BY UptoIs
<1>2. s \in Seq(Nat) /\ Len(s) = k - n /\ \A i \in 1..(k - n) : s[i] = n + i
  <2>1. n + 1 \in 1..(m + 1) /\ k \in n..m
    OBVIOUS
  <2>2. s \in Seq(Nat) /\ Len(s) = k - n
    BY <1>1, <2>1, SubSeqProperties
  <2>3. \A i \in 1..(k - n) : s[i] = Upto(m)[n + i]
    BY <1>1, <2>1, SubSeqProperties
  <2> QED BY <1>1, <2>2, <2>3
<1> HIDE DEF s
<1>3. Upto(n) \o s \in Seq(Nat) /\ Len(Upto(n) \o s) = k
  BY <1>1, <1>2, ConcatProperties
<1>4. \A i \in 1..k : (Upto(n) \o s)[i] = i
  <2> SUFFICES ASSUME NEW i \in 1..k PROVE (Upto(n) \o s)[i] = i
    OBVIOUS
  <2>1. (Upto(n) \o s)[i] = IF i <= n THEN Upto(n)[i] ELSE s[i - n]
    <3>1. i \in 1..Len(Upto(n)) + Len(s)
      BY <1>1, <1>2
    <3>2. (Upto(n) \o s)[i] = IF i <= Len(Upto(n)) THEN Upto(n)[i] ELSE s[i - Len(Upto(n))]
      BY <1>1, <1>2, <3>1, Cat
    <3> QED BY <1>1, <3>2
  <2> QED BY <1>1, <1>2, <2>1
<1>5. Upto(n) \o s = Upto(k)
  BY <1>1, <1>3, <1>4, SeqEqual
<1> QED BY <1>2, <1>5 DEF s

\* A sequence that is cut in two.
LEMMA CutInTwo ==
  ASSUME NEW s \in Seq(Nat), NEW n \in 0..Len(s)
  PROVE  /\ First(s, n) \in Seq(Nat) /\ Len(First(s, n)) = n
         /\ Rest(s, n) \in Seq(Nat) /\ Len(Rest(s, n)) = Len(s) - n
         /\ First(s, n) \o Rest(s, n) = s
<1>1. First(s, n) \in Seq(Nat) /\ Len(First(s, n)) = n /\ \A i \in 1..n : First(s, n)[i] = s[i]
  BY DEF First
<1>2. /\ Rest(s, n) \in Seq(Nat) /\ Len(Rest(s, n)) = Len(s) - n
      /\ \A i \in 1..(Len(s) - n) : Rest(s, n)[i] = s[n + i]
  <2>1. Rest(s, n) \in Seq(Nat)
    BY DEF Rest
  <2>2. Len(Rest(s, n)) = Len(s) - n
    BY DEF Rest
  <2>3. ASSUME NEW i \in 1..(Len(s) - n) PROVE Rest(s, n)[i] = s[n + i]
    BY DEF Rest
  <2> QED BY <2>1, <2>2, <2>3
<1>3. First(s, n) \o Rest(s, n) \in Seq(Nat) /\ Len(First(s, n) \o Rest(s, n)) = Len(s)
  <2>1. n + (Len(s) - n) = Len(s)
    OBVIOUS
  <2> QED BY <1>1, <1>2, <2>1, Cat
<1>4. \A i \in 1..Len(s) : (First(s, n) \o Rest(s, n))[i] = s[i]
  <2> SUFFICES ASSUME NEW i \in 1..Len(s) PROVE (First(s, n) \o Rest(s, n))[i] = s[i]
    OBVIOUS
  <2>1. (First(s, n) \o Rest(s, n))[i] = IF i <= n THEN First(s, n)[i] ELSE Rest(s, n)[i - n]
    <3>1. i \in 1..Len(First(s, n)) + Len(Rest(s, n))
      BY <1>1, <1>2
    <3> QED BY <1>1, <1>2, <3>1, Cat, SMTT(30)
  <2>2. CASE i <= n
    <3>1. i \in 1..n
      BY <2>2
    <3> QED BY <1>1, <2>1, <2>2, <3>1
  <2>3. CASE ~ (i <= n)
    <3>1. i - n \in 1..(Len(s) - n) /\ n + (i - n) = i
      BY <2>3
    <3> QED BY <1>2, <2>1, <2>3, <3>1
  <2> QED BY <2>2, <2>3
<1> QED BY <1>1, <1>2, <1>3, <1>4, SeqEqual

LEMMA EmptyIs ==
  ASSUME NEW s \in Seq(Nat)
  PROVE  /\ (Len(s) = 0) <=> (s = <<>>)
         /\ s \o <<>> = s /\ <<>> \o s = s /\ <<>> \in Seq(Nat)
BY EmptySeq, ConcatEmptySeq

LEMMA JoinedIs ==
  ASSUME NEW s \in Seq(Nat), NEW t \in Seq(Nat)
  PROVE  Joined(s, t) \in Seq(Nat) /\ Len(Joined(s, t)) = Len(s) + Len(t)
BY Cat DEF Joined

LEMMA JoinedAgain ==
  ASSUME NEW s \in Seq(Nat), NEW t \in Seq(Nat), NEW u \in Seq(Nat)
  PROVE  Joined(Joined(s, t), u) = Joined(s, Joined(t, u))
BY CatAgain DEF Joined

\* A job takes u units of its input b and hands on w of what it has, a.
LEMMA JobMoves ==
  ASSUME NEW g \in Seq(Nat), NEW o \in Seq(Nat), NEW k \in Seq(Nat), NEW b \in Seq(Nat),
         NEW u \in 0..Len(b), NEW w \in 0..(Len(k) + u), NEW a, a = Joined(k, First(b, u))
  PROVE  /\ Joined(o, First(a, w)) \in Seq(Nat) /\ Rest(a, w) \in Seq(Nat)
         /\ Rest(b, u) \in Seq(Nat)
         /\ Joined(Joined(Joined(g, Joined(o, First(a, w))), Rest(a, w)), Rest(b, u))
               = Joined(Joined(Joined(g, o), k), b)
<1>1. /\ First(b, u) \in Seq(Nat) /\ Rest(b, u) \in Seq(Nat)
      /\ Joined(First(b, u), Rest(b, u)) = b /\ Len(First(b, u)) = u
  BY CutInTwo DEF Joined
<1>2. a \in Seq(Nat) /\ Joined(g, o) \in Seq(Nat) /\ w \in 0..Len(a)
  <2>1. a \in Seq(Nat) /\ Len(a) = Len(k) + u
    BY <1>1, JoinedIs
  <2> QED BY <2>1, JoinedIs
<1>3. /\ First(a, w) \in Seq(Nat) /\ Rest(a, w) \in Seq(Nat)
      /\ Joined(First(a, w), Rest(a, w)) = a
  BY <1>2, CutInTwo DEF Joined
<1>4. Joined(o, First(a, w)) \in Seq(Nat) /\ Joined(Joined(g, o), k) \in Seq(Nat)
  BY <1>2, <1>3, JoinedIs
<1>5. Joined(Joined(g, Joined(o, First(a, w))), Rest(a, w)) = Joined(Joined(g, o), a)
  <2>1. Joined(g, Joined(o, First(a, w))) = Joined(Joined(g, o), First(a, w))
    BY <1>3, JoinedAgain
  <2> QED BY <1>2, <1>3, <2>1, JoinedAgain
<1>6. Joined(Joined(Joined(g, o), a), Rest(b, u)) = Joined(Joined(Joined(g, o), k), b)
  <2>1. Joined(Joined(g, o), a) = Joined(Joined(Joined(g, o), k), First(b, u))
    BY <1>1, <1>2, JoinedAgain
  <2> QED BY <1>1, <1>4, <2>1, JoinedAgain
<1> QED BY <1>1, <1>3, <1>4, <1>5, <1>6

\* How much of a flow is the file's.
LEMMA SeenIs ==
  ASSUME NEW n \in Nat, NEW t \in Seq(Nat)
  PROVE  Len(Joined(Upto(n), t)) - Len(t) = n
<1>1. Len(Joined(Upto(n), t)) = n + Len(t)
  <2>1. Upto(n) \in Seq(Nat) /\ Len(Upto(n)) = n
    BY UptoIs
  <2> QED BY <2>1, JoinedIs
<1>2. Len(t) \in Nat
  OBVIOUS
<1> QED BY <1>1, <1>2

LEMMA ToldIs == Trailer \in Seq(Nat) /\ Len(Trailer) \in {0, 1} /\ Told \in Seq(Nat)
                /\ (mode # "diff" => Trailer = <<>>)
<1>1. <<Final>> \in Seq(Nat) /\ Len(<<Final>>) = 1 /\ <<>> \in Seq(Nat) /\ Len(<<>>) = 0
  BY DEF Final
<1> QED BY <1>1 DEF Trailer, Told

-----------------------------------------------------------------------------
(* Reading the file. *)

\* What may be read next are units of the file.
LEMMA BufferIs ==
  ASSUME Types, NEW buf \in Buffers
  PROVE  /\ buf \in Seq(Nat) /\ Len(buf) \in 0..(Len(file) - pos)
         /\ Joined(Upto(pos), buf) = Upto(pos + Len(buf))
<1> DEFINE m == Len(file)
<1>1. file = Upto(m) /\ m \in Nat /\ pos \in 0..m
  BY DEF Types
<1>2. CASE buf = <<>>
  <2>1. Len(buf) = 0 /\ buf \in Seq(Nat)
    BY <1>2
  <2>2. Joined(Upto(pos), buf) = Upto(pos)
    BY <1>1, <1>2, UptoIs, EmptyIs DEF Joined
  <2> QED BY <1>1, <2>1, <2>2
<1>3. CASE buf # <<>>
  <2>1. PICK n \in 1..(m - pos) : buf = SubSeq(file, pos + 1, pos + n)
    BY <1>3 DEF Buffers
  <2> HIDE DEF m
  <2>2. pos + n \in 0..m /\ pos \in 0..(pos + n) /\ n \in Nat /\ pos \in Nat
    BY <1>1, <2>1
  <2>3. buf = SubSeq(Upto(m), pos + 1, pos + n)
    BY <1>1, <2>1
  <2>4. /\ buf \in Seq(Nat) /\ Len(buf) = (pos + n) - pos
        /\ Joined(Upto(pos), buf) = Upto(pos + n)
    BY <1>1, <2>2, <2>3, UptoMore DEF Joined
  <2>5. Len(buf) = n
    BY <2>2, <2>4
  <2> QED BY <2>1, <2>4, <2>5 DEF m
<1> QED BY <1>2, <1>3

\* Fewer units than were asked for: the end of the file, or an error.
LEMMA InfileReadOK ==
  ASSUME Types, NEW n \in Nat \ {0}, NEW buf \in Buffers, InfileRead(n, buf)
  PROVE  /\ errors' \in Nat /\ late' \in BOOLEAN /\ Len(buf) <= n
         /\ errors' = 0 => errors = 0
         /\ late => late'
         /\ Len(buf) < n /\ errors' = 0 => pos + Len(buf) = Len(file)
         /\ Len(buf) < n /\ ~late' => pos + Len(buf) = Len(file)
<1> DEFINE m == Len(file)
<1>1. /\ file \in Seq(Nat) /\ m \in Nat /\ pos \in 0..m
      /\ errors \in Nat /\ late \in BOOLEAN /\ file = Upto(m)
  BY DEF Types
<1>2. CASE /\ buf = SubSeq(file, pos + 1, Least(pos + n, Len(file)))
           /\ UNCHANGED <<errors, late>>
  <2> DEFINE k == Least(pos + n, m)
  <2>1. k \in 0..m /\ pos \in 0..k /\ k - pos <= n /\ (k - pos < n => k = m)
    BY <1>1 DEF Least
  <2> HIDE DEF k, m
  <2>2. Len(buf) = k - pos
    <3>1. buf = SubSeq(Upto(m), pos + 1, k)
      BY <1>1, <1>2 DEF k, m
    <3> QED BY <1>1, <2>1, <3>1, UptoMore
  <2>3. errors' = errors /\ late' = late
    BY <1>2
  <2>4. Len(buf) <= n /\ (Len(buf) < n => pos + Len(buf) = m)
    BY <1>1, <2>1, <2>2
  <2> QED BY <1>1, <2>3, <2>4 DEF m
<1>3. CASE mode # "patch" /\ buf = <<>> /\ errors' = errors + 1 /\ late' = TRUE
  <2>1. Len(buf) = 0
    BY <1>3
  <2> QED BY <1>1, <1>3, <2>1
<1> QED BY <1>2, <1>3 DEF InfileRead

\* The buffers of the SigGenerator hold all that was read.
LEMMA UpdatedOK ==
  ASSUME Types, NEW buf \in Seq(Nat), NEW u \in Updated(buf)
  PROVE  /\ u.taken \in Seq(Nat) /\ u.buffer \in Seq(Nat)
         /\ Joined(u.taken, u.buffer) = Joined(Joined(taken, sigbuf), buf)
<1> DEFINE all == Joined(sigbuf, buf)
<1>1. taken \in Seq(Nat) /\ sigbuf \in Seq(Nat) /\ all \in Seq(Nat)
  BY JoinedIs DEF Types
<1>2. Joined(taken, all) = Joined(Joined(taken, sigbuf), buf)
  BY <1>1, JoinedAgain DEF Types
<1>3. CASE u = [taken |-> taken, buffer |-> all]
  BY <1>1, <1>2, <1>3
<1>4. ASSUME NEW n \in 0..Len(all), u = [taken |-> Joined(taken, First(all, n)), buffer |-> Rest(all, n)]
      PROVE  /\ u.taken \in Seq(Nat) /\ u.buffer \in Seq(Nat)
             /\ Joined(u.taken, u.buffer) = Joined(taken, all)
  <2> HIDE DEF all
  <2>1. First(all, n) \in Seq(Nat) /\ Rest(all, n) \in Seq(Nat)
    BY <1>1, CutInTwo
  <2>2. Joined(First(all, n), Rest(all, n)) = all
    BY <1>1, CutInTwo DEF Joined
  <2>3. Joined(taken, First(all, n)) \in Seq(Nat)
    BY <1>1, <2>1, JoinedIs
  <2>4. Joined(Joined(taken, First(all, n)), Rest(all, n))
          = Joined(taken, Joined(First(all, n), Rest(all, n)))
    BY <1>1, <2>1, JoinedAgain
  <2> QED BY <1>4, <2>1, <2>2, <2>3, <2>4
<1>5. u = [taken |-> taken, buffer |-> all]
      \/ \E n \in 0..Len(all) : u = [taken |-> Joined(taken, First(all, n)), buffer |-> Rest(all, n)]
  <2>1. CASE Len(all) < BlockSize
    BY <2>1 DEF Updated, Joined
  <2>2. CASE ~(Len(all) < BlockSize)
    <3>1. PICK n \in Len(all) - BlockSize + 1 .. Len(all) :
            u = [taken |-> Joined(taken, First(all, n)), buffer |-> Rest(all, n)]
      BY <2>2 DEF Updated, Joined
    <3>2. Len(all) \in Nat /\ BlockSize \in Nat
      BY <1>1, StreamsAssumption
    <3> HIDE DEF all
    <3>3. n \in 0..Len(all)
      BY <2>2, <3>1, <3>2
    <3> QED BY <3>1, <3>3
  <2> QED BY <2>1, <2>2
<1> QED BY <1>2, <1>3, <1>4, <1>5

\* A read, while there is no signature yet.
LEMMA ReadOK ==
  ASSUME Types, SigInv, sig = None \/ mode = "patch", NEW n \in Nat \ {0}, NEW buf \in Buffers,
         Read(n, buf)
  PROVE  /\ pos' = pos + Len(buf) /\ pos' \in 0..Len(file) /\ pos' >= pos /\ Len(buf) <= n
         /\ buf \in Seq(Nat) /\ Joined(Upto(pos), buf) = Upto(pos')
         /\ taken' \in Seq(Nat) /\ sigbuf' \in Seq(Nat) /\ sig' = sig
         /\ mode # "patch" => Joined(taken', sigbuf') = Upto(pos')
         /\ errors' \in Nat /\ late' \in BOOLEAN
         /\ errors' = 0 => errors = 0
         /\ late => late'
         /\ Len(buf) < n /\ errors' = 0 => pos' = Len(file)
         /\ Len(buf) < n /\ ~late' => pos' = Len(file)
<1>1. /\ buf \in Seq(Nat) /\ Len(buf) \in 0..(Len(file) - pos)
      /\ Joined(Upto(pos), buf) = Upto(pos + Len(buf))
  BY BufferIs
<1>2. pos \in 0..Len(file) /\ Len(file) \in Nat
  BY DEF Types
<1>3. pos' = pos + Len(buf) /\ pos' \in 0..Len(file) /\ pos' >= pos
  BY <1>1, <1>2 DEF Read
<1>4. /\ errors' \in Nat /\ late' \in BOOLEAN /\ Len(buf) <= n
      /\ errors' = 0 => errors = 0
      /\ late => late'
      /\ Len(buf) < n /\ errors' = 0 => pos + Len(buf) = Len(file)
      /\ Len(buf) < n /\ ~late' => pos + Len(buf) = Len(file)
  BY InfileReadOK DEF Read
<1>5. /\ taken' \in Seq(Nat) /\ sigbuf' \in Seq(Nat) /\ sig' = sig
      /\ mode # "patch" => Joined(taken', sigbuf') = Upto(pos')
  <2>1. CASE mode = "patch"
    BY <2>1 DEF Read, signer, Types
  <2>2. CASE mode # "patch"
    <3>1. PICK u \in Updated(buf) : taken' = u.taken /\ sigbuf' = u.buffer
      BY <2>2 DEF Read
    <3>2. sig' = sig
      BY <2>2 DEF Read
    <3>3. /\ u.taken \in Seq(Nat) /\ u.buffer \in Seq(Nat)
          /\ Joined(u.taken, u.buffer) = Joined(Joined(taken, sigbuf), buf)
      BY <1>1, UpdatedOK
    <3>4. Joined(taken, sigbuf) = Upto(pos)
      BY <2>2 DEF SigInv
    <3> QED BY <1>1, <1>3, <3>1, <3>2, <3>3, <3>4
  <2> QED BY <2>1, <2>2
<1> QED BY <1>1, <1>3, <1>4, <1>5

-----------------------------------------------------------------------------
(* Steps that move nothing. *)

LEMMA FlowStays ==
  ASSUME FlowInv, Flow' = Flow, Told' = Told, UNCHANGED <<pos, file, length, errors, late>>,
         Ended' = Ended
  PROVE  FlowInv'
<1>1. Seen' = Seen
  BY DEF Seen
<1> QED BY <1>1 DEF FlowInv

\* The flow is what was read, and what was told at the end.
LEMMA FlowTo ==
  ASSUME NEW n \in Nat, Flow' = Joined(Upto(n), Told'), Told' \in Seq(Nat)
  PROVE  Seen' = n
BY SeenIs DEF Seen

LEMMA InitInv == Init => IInv
<1> SUFFICES ASSUME Init PROVE IInv
  OBVIOUS
<1>1. length \in Nat /\ file = Upto(length)
  BY StreamsAssumption DEF Init, Upto
<1>2. file \in Seq(Nat) /\ Len(file) = length
  BY <1>1, UptoIs
<1>3. <<>> \in Seq(Nat) /\ None \in Seq(Nat)
  BY DEF None, Final
<1>4. Types
  <2>1. /\ file \in Seq(Nat) /\ file = Upto(Len(file)) /\ length \in 0..Len(file)
        /\ pos \in 0..Len(file)
    BY <1>1, <1>2 DEF Init
  <2>2. /\ mode \in {"snapshot", "diff", "patch"} /\ pc = "ask" /\ after = "done"
        /\ given = <<>> /\ outbuf = <<>> /\ kept = <<>> /\ inbuf = <<>> /\ taken = <<>>
        /\ sigbuf = <<>> /\ sig = None /\ sizes = <<>>
        /\ eof = FALSE /\ infileEof = FALSE /\ late = FALSE /\ errors = 0
    BY DEF Init
  <2> QED BY <1>3, <2>1, <2>2 DEF Types
<1>5. ControlInv
  BY DEF Init, ControlInv, Over
<1>6. Upto(0) = <<>> /\ Joined(<<>>, <<>>) = <<>>
  BY UptoIs, EmptyIs DEF Joined
<1>7. FlowInv
  <2>1. Flow = <<>> /\ Told = <<>>
    BY <1>6 DEF Init, Flow, Told
  <2>2. Seen = 0
    BY <2>1 DEF Seen
  <2>3. ~Ended
    BY DEF Init, Ended
  <2> QED BY <1>6, <2>1, <2>2, <2>3 DEF Init, FlowInv
<1>8. SigInv /\ SizesInv
  <2>1. SigInv
    BY <1>6 DEF Init, SigInv
  <2>2. SizesInv
    BY DEF Init, SizesInv
  <2> QED BY <2>1, <2>2
<1> QED BY <1>4, <1>5, <1>7, <1>8 DEF IInv

LEMMA AskInv == IInv /\ Ask => IInv'
<1> SUFFICES ASSUME IInv, Ask PROVE IInv'
  OBVIOUS
<1>1. /\ pc = "ask" /\ pc' = IF mode = "snapshot" THEN "direct" ELSE "fill"
      /\ UNCHANGED <<mode, file, pos, after, inbuf, outbuf, eof, infileEof, kept, sigbuf,
                     taken, sig, given, sizes, length, late, errors>>
  BY DEF Ask, like, signer, blocks, bounds
<1>2. Types'
  BY <1>1 DEF IInv, Types
<1>3. ControlInv'
  BY <1>1 DEF IInv, Types, ControlInv, Over
<1>4. Flow' = Flow /\ Told' = Told /\ Ended' = Ended /\ Over' = Over
  BY <1>1 DEF Flow, Told, Trailer, Ended, Over
<1>5. FlowInv' /\ SigInv' /\ SizesInv'
  BY <1>1, <1>4, FlowStays DEF IInv, SigInv, SizesInv
<1> QED BY <1>2, <1>3, <1>5 DEF IInv

LEMMA FillInv == IInv /\ Fill => IInv'
<1> SUFFICES ASSUME IInv, Fill PROVE IInv'
  OBVIOUS
<1>1. /\ pc = "fill" /\ ~eof /\ pc' = IF infileEof THEN "cycle" ELSE "inbuf"
      /\ UNCHANGED <<mode, file, pos, after, inbuf, outbuf, eof, infileEof, kept, sigbuf,
                     taken, sig, given, sizes, length, late, errors>>
  BY DEF Fill, like, signer, blocks, bounds
<1>2. Types'
  BY <1>1 DEF IInv, Types
<1>3. ControlInv'
  BY <1>1 DEF IInv, Types, ControlInv, Over
<1>4. Flow' = Flow /\ Told' = Told /\ Ended' = Ended /\ Over' = Over
  BY <1>1 DEF Flow, Told, Trailer, Ended, Over
<1>5. FlowInv' /\ SigInv' /\ SizesInv'
  BY <1>1, <1>4, FlowStays DEF IInv, SigInv, SizesInv
<1> QED BY <1>2, <1>3, <1>5 DEF IInv

-----------------------------------------------------------------------------
(* LikeFile: what is read goes to the input buffer, through the job, to the reader. *)

LEMMA AddToInbufInv == IInv /\ AddToInbuf => IInv'
<1> SUFFICES ASSUME IInv, AddToInbuf PROVE IInv'
  OBVIOUS
<1>1. /\ pc = "inbuf"
      /\ UNCHANGED <<mode, file, outbuf, eof, kept, given, sizes, length>>
  BY DEF AddToInbuf, blocks
<1>2. mode # "snapshot" /\ ~infileEof /\ ~eof /\ ~Ended /\ ~Over
  BY <1>1 DEF IInv, ControlInv, Ended, Over
<1>3. CASE /\ Len(inbuf) >= BlockSize /\ pc' = "cycle"
           /\ UNCHANGED <<pos, after, inbuf, infileEof, signer, errors, late>>
  <2>1. UNCHANGED <<sigbuf, taken, sig>> /\ pc' = "cycle"
        /\ UNCHANGED <<pos, after, inbuf, infileEof, errors, late>>
    BY <1>3 DEF signer
  <2>2. inbuf # <<>>
    BY <1>3, StreamsAssumption
  <2>3. Types'
    BY <1>1, <2>1 DEF IInv, Types
  <2>4. ControlInv'
    BY <1>1, <1>2, <2>1, <2>2 DEF IInv, ControlInv, Over
  <2>5. Flow' = Flow /\ Told' = Told /\ Ended' = Ended /\ ~Over'
    BY <1>1, <1>2, <2>1 DEF Flow, Told, Trailer, Ended, Over
  <2>6. FlowInv' /\ SigInv' /\ SizesInv'
    BY <1>1, <1>2, <2>1, <2>5, FlowStays DEF IInv, SigInv, SizesInv
  <2> QED BY <2>3, <2>4, <2>6 DEF IInv
<1>4. ASSUME NEW buf \in Buffers, Read(BlockSize, buf), inbuf' = Joined(inbuf, buf),
             infileEof' = (buf = <<>>),
             IF buf = <<>> THEN pc' = "finish" /\ after' = "cycle" ELSE UNCHANGED <<pc, after>>
      PROVE  IInv'
  <2>1. sig = None \/ mode = "patch"
    BY <1>2 DEF IInv, SigInv
  <2>2. /\ pos' = pos + Len(buf) /\ pos' \in 0..Len(file) /\ pos' >= pos
        /\ buf \in Seq(Nat) /\ Joined(Upto(pos), buf) = Upto(pos')
        /\ taken' \in Seq(Nat) /\ sigbuf' \in Seq(Nat) /\ sig' = sig
        /\ mode # "patch" => Joined(taken', sigbuf') = Upto(pos')
        /\ errors' \in Nat /\ late' \in BOOLEAN
        /\ Len(buf) < BlockSize /\ errors' = 0 => pos' = Len(file)
        /\ Len(buf) < BlockSize /\ ~late' => pos' = Len(file)
    BY <1>4, <2>1, ReadOK, StreamsAssumption DEF IInv
  <2>3. inbuf' \in Seq(Nat)
    BY <1>4, <2>2, JoinedIs DEF IInv, Types
  <2>4. Types'
    BY <1>1, <1>4, <2>2, <2>3 DEF IInv, Types
  <2>5. ControlInv'
    BY <1>1, <1>2, <1>4, <2>2 DEF IInv, ControlInv, Over
  <2>6. Told = <<>> /\ Told' = <<>>
    BY <1>1, <1>2 DEF Told
  <2>7. Flow' = Joined(Upto(pos'), Told')
    <3>1. Flow = Joined(Upto(pos), <<>>)
      BY <1>2, <2>6 DEF IInv, FlowInv
    <3>2. Joined(Upto(pos), <<>>) = Upto(pos) /\ Joined(Upto(pos'), <<>>) = Upto(pos')
      BY <2>2, UptoIs, EmptyIs DEF Joined, IInv, Types
    <3>3. Joined(Joined(given, outbuf), kept) \in Seq(Nat)
      BY JoinedIs DEF IInv, Types
    <3>4. Flow' = Joined(Joined(Joined(given, outbuf), kept), Joined(inbuf, buf))
      BY <1>1, <1>4 DEF Flow
    <3>5. Flow' = Joined(Flow, buf)
      <4>1. inbuf \in Seq(Nat)
        BY DEF IInv, Types
      <4> QED BY <2>2, <3>3, <3>4, <4>1, JoinedAgain DEF Flow
    <3> QED BY <2>2, <2>6, <3>1, <3>2, <3>5
  <2>8. Seen' = pos'
    BY <2>2, <2>6, <2>7, FlowTo, EmptyIs
  <2>9. Ended' <=> buf = <<>>
    BY <1>1, <1>2, <1>4 DEF Ended
  <2>10. buf = <<>> => Len(buf) < BlockSize
    BY StreamsAssumption
  <2>11. FlowInv'
    <3>1. length \in 0..Len(file)
      BY DEF IInv, Types
    <3> QED BY <1>1, <2>2, <2>7, <2>8, <2>9, <2>10, <3>1 DEF FlowInv
  <2>12. SigInv'
    BY <1>1, <2>1, <2>2 DEF SigInv
  <2>13. SizesInv'
    <3>1. ~Over'
      BY <1>1, <1>4 DEF Over
    <3> QED BY <1>1, <1>2, <3>1 DEF IInv, SizesInv
  <2> QED BY <2>4, <2>5, <2>11, <2>12, <2>13 DEF IInv
<1> QED BY <1>3, <1>4 DEF AddToInbuf, Joined

\* The job takes input; of what it has, it hands on the first units.
LEMMA CycleInv == IInv /\ Cycle => IInv'
<1> SUFFICES ASSUME IInv, Cycle PROVE IInv'
  OBVIOUS
<1>1. /\ pc = "cycle" /\ pc' = "fill"
      /\ UNCHANGED <<mode, file, pos, after, infileEof, sigbuf, taken, sig, given, sizes,
                     length, late, errors>>
  BY DEF Cycle, signer, blocks, bounds
<1>2. mode # "snapshot" /\ ~eof /\ ~Over /\ ~Over'
  BY <1>1 DEF IInv, ControlInv, Over
<1>3. Ended' = Ended
  BY <1>1 DEF Ended
<1>4. /\ given \in Seq(Nat) /\ outbuf \in Seq(Nat) /\ kept \in Seq(Nat) /\ inbuf \in Seq(Nat)
      /\ Len(kept) \in Nat /\ Len(inbuf) \in Nat /\ BlockSize \in Nat \ {0}
  BY StreamsAssumption DEF IInv, Types
<1>5. SigInv' /\ SizesInv'
  BY <1>1, <1>2, <1>3 DEF IInv, SigInv, SizesInv
<1>6. CASE inbuf # <<>>
  <2>1. PICK j \in Jobs :
          /\ outbuf' = Joined(outbuf, First(Joined(kept, First(inbuf, j.used)), j.out))
          /\ kept' = Rest(Joined(kept, First(inbuf, j.used)), j.out)
          /\ inbuf' = Rest(inbuf, j.used)
          /\ eof' = eof
    BY <1>6 DEF Cycle, Joined
  <2>2. /\ j.used \in 0..Len(inbuf) /\ j.out \in 0..BlockSize
        /\ j.out <= Len(kept) + j.used
    BY DEF Jobs
  <2>3. j.out \in 0..(Len(kept) + j.used)
    BY <1>4, <2>2
  <2>4. /\ outbuf' \in Seq(Nat) /\ kept' \in Seq(Nat) /\ inbuf' \in Seq(Nat)
        /\ Flow' = Flow
    <3> DEFINE a == Joined(kept, First(inbuf, j.used))
               w == j.out
               u == j.used
    <3>1. u \in 0..Len(inbuf) /\ w \in 0..(Len(kept) + u)
      BY <2>2, <2>3
    <3>2. /\ outbuf' = Joined(outbuf, First(a, w)) /\ kept' = Rest(a, w)
          /\ inbuf' = Rest(inbuf, u) /\ a = Joined(kept, First(inbuf, u))
      BY <2>1
    <3> HIDE DEF a, w, u
    <3>3. /\ Joined(outbuf, First(a, w)) \in Seq(Nat) /\ Rest(a, w) \in Seq(Nat)
          /\ Rest(inbuf, u) \in Seq(Nat)
          /\ Joined(Joined(Joined(given, Joined(outbuf, First(a, w))), Rest(a, w)), Rest(inbuf, u))
                = Joined(Joined(Joined(given, outbuf), kept), inbuf)
      BY <1>4, <3>1, <3>2, JobMoves
    <3>4. Flow' = Joined(Joined(Joined(given, outbuf'), kept'), inbuf')
      BY <1>1 DEF Flow
    <3> QED BY <3>2, <3>3, <3>4 DEF Flow
  <2>5. Types'
    BY <1>1, <2>1, <2>4 DEF IInv, Types
  <2>6. ControlInv'
    BY <1>1, <1>2, <2>1 DEF IInv, ControlInv
  <2>7. Told' = Told
    BY <1>1, <2>1 DEF Told, Trailer
  <2>8. FlowInv'
    BY <1>1, <1>3, <2>4, <2>7, FlowStays DEF IInv
  <2> QED BY <1>5, <2>5, <2>6, <2>8 DEF IInv
<1>7. CASE inbuf = <<>>
  <2> DEFINE all == Joined(kept, Trailer)
             n   == Least(Len(all), BlockSize)
  <2>1. /\ outbuf' = Joined(outbuf, First(all, n)) /\ kept' = Rest(kept, Least(n, Len(kept)))
        /\ eof' = (Len(all) = n) /\ inbuf' = <<>>
    BY <1>7 DEF Cycle, Joined
  <2>2. infileEof
    BY <1>1, <1>7 DEF IInv, ControlInv
  <2>3. /\ Trailer \in Seq(Nat) /\ Len(Trailer) \in {0, 1} /\ all \in Seq(Nat)
        /\ Len(all) = Len(kept) + Len(Trailer)
    BY <1>4, ToldIs, JoinedIs
  <2> HIDE DEF all
  <2>4. n \in 0..Len(all) /\ (n # Len(all) => n \in 0..Len(kept))
        /\ (n = Len(all) => Least(n, Len(kept)) = Len(kept))
        /\ (n \in 0..Len(kept) => Least(n, Len(kept)) = n)
    <3>2. Len(all) \in {Len(kept), Len(kept) + 1}
      <4>1. CASE Len(Trailer) = 0
        BY <1>4, <2>3, <4>1
      <4>2. CASE Len(Trailer) = 1
        BY <1>4, <2>3, <4>2
      <4> QED BY <2>3, <4>1, <4>2
    <3> HIDE DEF n
    <3>3. n = Least(Len(all), BlockSize)
      BY DEF n
    <3> DEFINE a == Len(all)
               k == Len(kept)
    <3>4. a \in {k, k + 1} /\ k \in Nat /\ n = Least(a, BlockSize) /\ BlockSize \in Nat \ {0}
      BY <1>4, <3>2, <3>3
    <3> HIDE DEF a, k
    <3>5. /\ n \in 0..a /\ (n # a => n \in 0..k)
          /\ (n = a => Least(n, k) = k) /\ (n \in 0..k => Least(n, k) = n)
      BY <3>4 DEF Least
    <3> QED BY <3>5 DEF a, k
  <2> HIDE DEF n
  <2>5. First(all, n) \in Seq(Nat) /\ Joined(First(all, n), Rest(all, n)) = all
        /\ Rest(all, n) \in Seq(Nat)
    BY <2>3, <2>4, CutInTwo DEF Joined
  <2>6. outbuf' \in Seq(Nat) /\ <<>> \in Seq(Nat) /\ \A s \in Seq(Nat) : Joined(s, <<>>) = s
    BY <1>4, <2>1, <2>5, JoinedIs, EmptyIs DEF Joined
  <2>7. Joined(given, outbuf) \in Seq(Nat) /\ Joined(Joined(given, outbuf), kept) \in Seq(Nat)
    BY <1>4, JoinedIs
  <2>8. Told = <<>> /\ Flow = Joined(Joined(given, outbuf), kept) /\ Flow = Upto(Seen)
        /\ Seen \in Nat
    <3>1. Told = <<>>
      BY <1>2 DEF Told
    <3>2. Flow = Joined(Joined(given, outbuf), kept)
      BY <1>7, <2>6, <2>7 DEF Flow
    <3>3. Seen \in Nat
      BY DEF IInv, FlowInv, Types
    <3>4. Flow = Joined(Upto(Seen), <<>>)
      BY <3>1 DEF IInv, FlowInv
    <3> QED BY <2>6, <3>1, <3>2, <3>3, <3>4, UptoIs
  <2>9. ASSUME kept' \in Seq(Nat), Told' \in Seq(Nat), eof' => kept' = <<>>,
               Flow' = Joined(Upto(Seen), Told')
        PROVE  IInv'
    <3>1. Types'
      BY <1>1, <2>1, <2>6, <2>9 DEF IInv, Types
    <3>2. ControlInv'
      BY <1>1, <1>2, <2>1, <2>2, <2>9 DEF IInv, ControlInv
    <3>3. Seen' = Seen
      BY <2>8, <2>9, FlowTo
    <3>4. FlowInv'
      BY <1>1, <1>3, <2>9, <3>3 DEF IInv, FlowInv
    <3> QED BY <1>5, <3>1, <3>2, <3>4 DEF IInv
  <2>10. CASE Len(all) = n
    <3>1. eof' /\ Told' = Trailer
      BY <1>1, <2>1, <2>10 DEF Told, Trailer
    <3>2. Rest(all, n) = <<>> /\ Rest(kept, Len(kept)) = <<>>
      <4>1. Len(Rest(all, n)) = 0
        BY <2>3, <2>4, <2>10, CutInTwo
      <4>2. Rest(kept, Len(kept)) \in Seq(Nat) /\ Len(Rest(kept, Len(kept))) = 0
        BY <1>4, CutInTwo, SMTT(30)
      <4> QED BY <2>5, <4>1, <4>2, EmptyIs
    <3>3. kept' = <<>> /\ First(all, n) = all
      BY <2>1, <2>4, <2>5, <2>6, <2>10, <3>2
    <3>4. Flow' = Joined(given, Joined(outbuf, all))
      <4>1. Flow' = Joined(Joined(Joined(given, Joined(outbuf, all)), <<>>), <<>>)
        BY <1>1, <2>1, <3>3 DEF Flow
      <4>2. Joined(given, Joined(outbuf, all)) \in Seq(Nat)
        BY <1>4, <2>3, JoinedIs
      <4> QED BY <2>6, <4>1, <4>2
    <3>5. Joined(given, Joined(outbuf, all)) = Joined(Joined(given, outbuf), all)
      BY <1>4, <2>3, JoinedAgain
    <3>6. Joined(Joined(given, outbuf), all) = Joined(Joined(Joined(given, outbuf), kept), Trailer)
      BY <1>4, <2>3, <2>7, JoinedAgain DEF all
    <3> QED BY <2>3, <2>6, <2>8, <2>9, <3>1, <3>3, <3>4, <3>5, <3>6
  <2>11. CASE Len(all) # n
    <3>1. ~eof' /\ Told' = <<>>
      BY <1>1, <2>1, <2>11 DEF Told
    <3>2. n \in 0..Len(kept) /\ kept' = Rest(kept, n)
      BY <2>1, <2>4, <2>11
    <3>3. First(all, n) = First(kept, n)
      <4>1. First(all, n) \in Seq(Nat) /\ Len(First(all, n)) = n
            /\ First(kept, n) \in Seq(Nat) /\ Len(First(kept, n)) = n
        BY <1>4, <2>3, <2>4, <3>2, CutInTwo
      <4>2. ASSUME NEW i \in 1..n PROVE First(all, n)[i] = First(kept, n)[i]
        <5>1. First(kept, n)[i] = kept[i] /\ First(all, n)[i] = all[i]
          <6>1. \A s \in Seq(Nat) : n \in 0..Len(s) => First(s, n)[i] = s[i]
            BY DEF First
          <6> QED BY <1>4, <2>3, <2>4, <3>2, <6>1
        <5>2. i \in 1..Len(kept) + Len(Trailer) /\ i <= Len(kept)
          <6>1. \A a, b \in Nat : n \in 0..a => i \in 1..a + b /\ i <= a
            BY <3>2
          <6>2. Len(Trailer) \in Nat
            BY <2>3
          <6> QED BY <1>4, <3>2, <6>1, <6>2
        <5>3. all[i] = kept[i]
          BY <1>4, <2>3, <5>2, Cat DEF all, Joined
        <5> QED BY <5>1, <5>3
      <4> QED BY <4>1, <4>2, SeqEqual
    <3>4. /\ First(kept, n) \in Seq(Nat) /\ Rest(kept, n) \in Seq(Nat)
          /\ Joined(First(kept, n), Rest(kept, n)) = kept
      BY <1>4, <3>2, CutInTwo DEF Joined
    <3>5. Flow' = Joined(Joined(given, Joined(outbuf, First(kept, n))), Rest(kept, n))
      <4>1. Flow' = Joined(Joined(Joined(given, Joined(outbuf, First(kept, n))), Rest(kept, n)), <<>>)
        BY <1>1, <2>1, <3>2, <3>3 DEF Flow
      <4>2. Joined(Joined(given, Joined(outbuf, First(kept, n))), Rest(kept, n)) \in Seq(Nat)
        BY <1>4, <3>4, JoinedIs
      <4> QED BY <2>6, <4>1, <4>2
    <3>6. Joined(given, Joined(outbuf, First(kept, n)))
            = Joined(Joined(given, outbuf), First(kept, n))
      BY <1>4, <3>4, JoinedAgain
    <3>7. Joined(Joined(Joined(given, outbuf), First(kept, n)), Rest(kept, n))
            = Joined(Joined(given, outbuf), kept)
      BY <2>7, <3>4, JoinedAgain
    <3>8. Flow' = Joined(Upto(Seen), <<>>)
      BY <2>6, <2>8, <3>5, <3>6, <3>7, UptoIs
    <3> QED BY <2>6, <2>9, <3>1, <3>2, <3>4, <3>8
  <2> QED BY <2>10, <2>11
<1> QED BY <1>6, <1>7

-----------------------------------------------------------------------------
(* The reader. *)

\* One more block: it is full, or it is the last.
LEMMA SizesOK ==
  ASSUME SizesInv, Types, mode' = mode, ~Over, NEW n \in 0..BlockSize,
         sizes' = Append(sizes, n),
         mode # "patch" /\ ~Over' => n = BlockSize
  PROVE  sizes' \in Seq(Nat) /\ SizesInv'
<1>1. sizes \in Seq(Nat) /\ n \in Nat /\ Len(sizes) \in Nat
  BY StreamsAssumption DEF Types
<1>2. /\ sizes' \in Seq(Nat) /\ Len(sizes') = Len(sizes) + 1
      /\ \A i \in 1..Len(sizes) : sizes'[i] = sizes[i]
      /\ sizes'[Len(sizes) + 1] = n
  BY <1>1, AppendProperties
<1>3. ASSUME mode # "patch" PROVE \A i \in 1..Len(sizes') - 1 : sizes'[i] = BlockSize
  BY <1>1, <1>2, <1>3 DEF SizesInv
<1>4. ASSUME mode # "patch", ~Over' PROVE \A i \in 1..Len(sizes') : sizes'[i] = BlockSize
  <2> SUFFICES ASSUME NEW i \in 1..Len(sizes') PROVE sizes'[i] = BlockSize
    OBVIOUS
  <2>1. i \in 1..Len(sizes) \/ i = Len(sizes) + 1
    BY <1>1, <1>2
  <2> QED BY <1>2, <1>4, <2>1 DEF SizesInv
<1> QED BY <1>2, <1>3, <1>4 DEF SizesInv

LEMMA FillDoneInv == IInv /\ FillDone => IInv'
<1> SUFFICES ASSUME IInv, FillDone PROVE IInv'
  OBVIOUS
<1> DEFINE n   == Least(BlockSize, Len(outbuf))
           buf == First(outbuf, n)
<1>1. /\ pc = "fill" /\ (eof \/ Len(outbuf) >= BlockSize)
      /\ given' = Joined(given, buf) /\ sizes' = Append(sizes, Len(buf))
      /\ IF LastBlock(buf) THEN pc' = "finish" /\ after' = "done"
                           ELSE pc' = "ask" /\ UNCHANGED after
      /\ outbuf' = Rest(outbuf, n)
      /\ UNCHANGED <<mode, file, pos, inbuf, eof, infileEof, kept, sigbuf, taken, sig, length,
                     late, errors>>
  BY DEF FillDone, Deliver, signer, bounds, Joined
<1>2. /\ given \in Seq(Nat) /\ outbuf \in Seq(Nat) /\ kept \in Seq(Nat) /\ inbuf \in Seq(Nat)
      /\ Len(outbuf) \in Nat /\ BlockSize \in Nat \ {0}
  BY StreamsAssumption DEF IInv, Types
<1>3. mode # "snapshot" /\ ~Over
  BY <1>1 DEF IInv, ControlInv, Over
<1>4. /\ n \in 0..Len(outbuf) /\ n \in 0..BlockSize
      /\ n # BlockSize => n = Len(outbuf) /\ ~(Len(outbuf) >= BlockSize)
  BY <1>2 DEF Least
<1>5. /\ buf \in Seq(Nat) /\ Len(buf) = n
      /\ outbuf' \in Seq(Nat) /\ Len(outbuf') = Len(outbuf) - n
      /\ Joined(buf, outbuf') = outbuf
  BY <1>1, <1>2, <1>4, CutInTwo DEF Joined
<1> HIDE DEF n, buf
<1>6. LastBlock(buf) => n # BlockSize
  BY <1>2, <1>5 DEF LastBlock
<1>7. LastBlock(buf) => eof /\ outbuf' = <<>>
  <2>1. n = Len(outbuf) => Len(outbuf') = 0
    BY <1>2, <1>5
  <2> QED BY <1>1, <1>4, <1>5, <1>6, <2>1, EmptyIs
<1>8. given' \in Seq(Nat)
  BY <1>1, <1>2, <1>5, JoinedIs
<1>9. mode # "patch" /\ ~Over' => n = BlockSize
  BY <1>1, <1>2, <1>4, <1>5 DEF LastBlock, Over
<1>10. sizes' \in Seq(Nat) /\ SizesInv'
  BY <1>1, <1>3, <1>4, <1>5, <1>9, SizesOK DEF IInv
<1>11. Types'
  BY <1>1, <1>5, <1>8, <1>10 DEF IInv, Types
<1>12. ControlInv'
  BY <1>1, <1>3, <1>7 DEF IInv, ControlInv, Over
<1>13. Flow' = Flow
  <2>1. Joined(Joined(given, buf), outbuf') = Joined(given, Joined(buf, outbuf'))
    BY <1>2, <1>5, JoinedAgain
  <2>2. Joined(given', outbuf') = Joined(given, outbuf)
    BY <1>1, <1>5, <2>1
  <2> QED BY <1>1, <2>2 DEF Flow
<1>14. Told' = Told /\ Ended' = Ended
  BY <1>1, <1>3 DEF Told, Trailer, Ended
<1>15. FlowInv' /\ SigInv'
  BY <1>1, <1>13, <1>14, FlowStays DEF IInv, SigInv
<1> QED BY <1>10, <1>11, <1>12, <1>15 DEF IInv

LEMMA DirectInv == IInv /\ Direct => IInv'
<1> SUFFICES ASSUME IInv, Direct PROVE IInv'
  OBVIOUS
<1>1. PICK buf \in Buffers :
        /\ pc = "direct" /\ Read(BlockSize, buf)
        /\ given' = Joined(given, buf) /\ sizes' = Append(sizes, Len(buf))
        /\ IF LastBlock(buf) THEN pc' = "finish" /\ after' = "done"
                             ELSE pc' = "ask" /\ UNCHANGED after
        /\ UNCHANGED <<mode, file, inbuf, outbuf, eof, infileEof, kept, length>>
  BY DEF Direct, Deliver, like, Joined
<1>2. /\ mode = "snapshot" /\ ~infileEof /\ ~eof /\ after = "done"
      /\ outbuf = <<>> /\ kept = <<>> /\ inbuf = <<>>
      /\ ~Ended /\ ~Over
  BY <1>1 DEF IInv, ControlInv, Ended, Over, Types
<1>3. sig = None
  BY <1>2 DEF IInv, SigInv
<1>4. /\ pos' = pos + Len(buf) /\ pos' \in 0..Len(file) /\ pos' >= pos /\ Len(buf) <= BlockSize
      /\ buf \in Seq(Nat) /\ Joined(Upto(pos), buf) = Upto(pos')
      /\ taken' \in Seq(Nat) /\ sigbuf' \in Seq(Nat) /\ sig' = sig
      /\ mode # "patch" => Joined(taken', sigbuf') = Upto(pos')
      /\ errors' \in Nat /\ late' \in BOOLEAN
      /\ Len(buf) < BlockSize /\ errors' = 0 => pos' = Len(file)
      /\ Len(buf) < BlockSize /\ ~late' => pos' = Len(file)
  BY <1>1, <1>3, ReadOK, StreamsAssumption DEF IInv
<1>5. given \in Seq(Nat) /\ given' \in Seq(Nat)
  BY <1>1, <1>4, JoinedIs DEF IInv, Types
<1>6. LastBlock(buf) <=> Len(buf) < BlockSize
  BY <1>2 DEF LastBlock
<1>7. Len(buf) \in 0..BlockSize /\ (~Over' => Len(buf) = BlockSize)
  <2>1. Len(buf) \in Nat /\ BlockSize \in Nat
    BY <1>4, StreamsAssumption
  <2>2. ~Over' => ~(Len(buf) < BlockSize)
    BY <1>1, <1>6 DEF Over
  <2> QED BY <1>4, <2>1, <2>2
<1>8. sizes' \in Seq(Nat) /\ SizesInv'
  BY <1>1, <1>2, <1>7, SizesOK DEF IInv
<1>9. Types'
  BY <1>1, <1>4, <1>5, <1>8 DEF IInv, Types
<1>10. ControlInv'
  BY <1>1, <1>2, <1>3, <1>4 DEF ControlInv, Over
<1>11. Told = <<>> /\ Told' = <<>>
  BY <1>1, <1>2 DEF Told
<1>12. \A s \in Seq(Nat) : Joined(s, <<>>) = s
  BY EmptyIs DEF Joined
<1>13. Flow' = Joined(Upto(pos'), Told')
  <2>1. Flow = Joined(Joined(Joined(given, <<>>), <<>>), <<>>)
        /\ Flow' = Joined(Joined(Joined(given', <<>>), <<>>), <<>>)
    BY <1>1, <1>2 DEF Flow
  <2>2. Flow = given /\ Flow' = given'
    BY <1>5, <1>12, <2>1
  <2>3. Flow = Joined(Upto(pos), <<>>)
    BY <1>2, <1>11 DEF IInv, FlowInv
  <2>4. Upto(pos) \in Seq(Nat) /\ Upto(pos') \in Seq(Nat)
    BY <1>4, UptoIs DEF IInv, Types
  <2> QED BY <1>1, <1>4, <1>11, <1>12, <2>2, <2>3, <2>4
<1>14. Seen' = pos'
  BY <1>4, <1>11, <1>13, FlowTo, EmptyIs
<1>15. Ended' <=> Len(buf) < BlockSize
  BY <1>1, <1>2, <1>6 DEF Ended
<1>16. FlowInv'
  <2>1. length \in 0..Len(file)
    BY DEF IInv, Types
  <2> QED BY <1>1, <1>4, <1>13, <1>14, <1>15, <2>1 DEF FlowInv
<1>17. SigInv'
  BY <1>1, <1>3, <1>4 DEF SigInv
<1> QED BY <1>8, <1>9, <1>10, <1>16, <1>17 DEF IInv

LEMMA NotNone == \A n \in Nat : Upto(n) # None
<1> SUFFICES ASSUME NEW n \in Nat, Upto(n) = None PROVE FALSE
  OBVIOUS
<1>1. Len(None) = 1 /\ None[1] = 0
  BY DEF None, Final
<1>2. Len(Upto(n)) = n /\ \A i \in 1..n : Upto(n)[i] = i
  BY UptoIs
<1>3. n = 1
  BY <1>1, <1>2
<1>4. Upto(n)[1] = 1
  BY <1>2, <1>3
<1> QED BY <1>1, <1>4

\* The rest of the file is read, for the signature alone.
LEMMA FinishInv == IInv /\ Finish => IInv'
<1> SUFFICES ASSUME IInv, Finish PROVE IInv'
  OBVIOUS
<1>1. /\ pc = "finish"
      /\ UNCHANGED <<mode, file, after, inbuf, outbuf, eof, infileEof, kept, given, sizes, length>>
  BY DEF Finish, like, blocks
<1>2. Ended
  BY <1>1 DEF IInv, Types, ControlInv, Ended, Over
<1>3. Flow' = Flow /\ Told' = Told /\ Seen' = Seen
  <2>1. Flow' = Flow /\ Told' = Told
    BY <1>1 DEF Flow, Told, Trailer
  <2> QED BY <2>1 DEF Seen
<1>4. CASE /\ sig # None \/ mode = "patch"
           /\ pc' = after /\ UNCHANGED <<pos, signer, errors, late>>
  <2>1. pc' = after /\ UNCHANGED <<pos, sigbuf, taken, sig, errors, late>>
    BY <1>4 DEF signer
  <2>2. Types'
    BY <1>1, <2>1 DEF IInv, Types
  <2>3. ControlInv'
    BY <1>1, <1>4, <2>1 DEF IInv, ControlInv, Types, Over
  <2>4. Ended' /\ (Over' <=> Over)
    BY <1>1, <1>2, <2>1 DEF IInv, Types, ControlInv, Ended, Over
  <2>5. FlowInv'
    BY <1>1, <1>2, <1>3, <2>1, <2>4 DEF IInv, FlowInv
  <2>6. SigInv' /\ SizesInv'
    BY <1>1, <2>1, <2>4 DEF IInv, SigInv, SizesInv
  <2> QED BY <2>2, <2>3, <2>5, <2>6 DEF IInv
<1>5. ASSUME sig = None, mode # "patch", NEW buf \in Buffers, Read(SigRead, buf), pc' = pc
      PROVE  IInv'
  <2>1. /\ pos' \in 0..Len(file) /\ pos' >= pos
        /\ taken' \in Seq(Nat) /\ sigbuf' \in Seq(Nat) /\ sig' = sig
        /\ Joined(taken', sigbuf') = Upto(pos')
        /\ errors' \in Nat /\ late' \in BOOLEAN
        /\ errors' = 0 => errors = 0
        /\ late => late'
    BY <1>5, ReadOK, StreamsAssumption DEF IInv
  <2>2. Types'
    BY <1>1, <1>5, <2>1 DEF IInv, Types
  <2>3. ControlInv' /\ SizesInv'
    BY <1>1, <1>5, <2>1 DEF IInv, ControlInv, SizesInv, Over
  <2>4. Ended'
    BY <1>1, <1>2, <1>5 DEF Ended
  <2>5. FlowInv'
    <3>1. Seen \in 0..pos' 
      BY <2>1 DEF IInv, FlowInv, Types
    <3> QED BY <1>1, <1>2, <1>3, <2>1, <2>4, <3>1 DEF IInv, FlowInv
  <2>6. SigInv'
    BY <1>1, <1>5, <2>1 DEF SigInv
  <2> QED BY <2>2, <2>3, <2>5, <2>6 DEF IInv
<1>6. ASSUME sig = None, mode # "patch", NEW buf \in Buffers, InfileRead(SigRead, buf),
             sig' = Joined(taken, sigbuf), pc' = after, UNCHANGED <<pos, taken, sigbuf>>
      PROVE  IInv'
  <2>1. /\ errors' \in Nat /\ late' \in BOOLEAN
        /\ errors' = 0 => errors = 0
        /\ late => late'
    BY <1>6, InfileReadOK, StreamsAssumption DEF IInv
  <2>2. sig' = Upto(pos) /\ sig' \in Seq(Nat) /\ sig' # None
    BY <1>6, UptoIs, NotNone DEF IInv, SigInv, Types
  <2>3. Types'
    BY <1>1, <1>6, <2>1, <2>2 DEF IInv, Types
  <2>4. Ended' /\ (Over' <=> Over)
    BY <1>1, <1>2, <1>6 DEF IInv, Types, ControlInv, Ended, Over
  <2>5. ControlInv'
    BY <1>1, <1>6, <2>2, <2>4 DEF IInv, ControlInv, Types, Over
  <2>6. FlowInv'
    BY <1>1, <1>2, <1>3, <1>6, <2>1, <2>4 DEF IInv, FlowInv
  <2>7. SigInv' /\ SizesInv'
    BY <1>1, <1>6, <2>2, <2>4 DEF IInv, SigInv, SizesInv
  <2> QED BY <2>3, <2>5, <2>6, <2>7 DEF IInv
<1> QED BY <1>4, <1>5, <1>6 DEF Finish, GetSig, Joined

\* What is added to the file is after all that was read.
LEMMA GrowInv == IInv /\ Grow => IInv'
<1> SUFFICES ASSUME IInv, Grow PROVE IInv'
  OBVIOUS
<1>1. /\ mode # "patch" /\ pc # "done" /\ file' = Append(file, Len(file) + 1)
      /\ late' = (late \/ infileEof \/ pc = "finish")
      /\ UNCHANGED <<mode, pos, pc, after, inbuf, outbuf, eof, infileEof, kept, sigbuf, taken,
                     sig, given, sizes, length, errors>>
  BY DEF Grow, like, signer, blocks
<1>2. /\ file \in Seq(Nat) /\ file = Upto(Len(file)) /\ Len(file) \in Nat
      /\ length \in 0..Len(file) /\ pos \in 0..Len(file)
  BY DEF IInv, Types
<1> DEFINE m == Len(file)
<1>3. /\ file' \in Seq(Nat) /\ Len(file') = m + 1
      /\ \A i \in 1..m : file'[i] = file[i]
      /\ file'[m + 1] = m + 1
  BY <1>1, <1>2, AppendProperties
<1>4. file' = Upto(m + 1)
  <2>1. /\ Upto(m) \in Seq(Nat) /\ \A i \in 1..m : Upto(m)[i] = i
        /\ Upto(m + 1) \in Seq(Nat) /\ Len(Upto(m + 1)) = m + 1
        /\ \A i \in 1..(m + 1) : Upto(m + 1)[i] = i
    <3>1. m \in Nat /\ m + 1 \in Nat
      BY <1>2
    <3> HIDE DEF m
    <3> QED BY <3>1, UptoIs
  <2>2. \A i \in 1..(m + 1) : file'[i] = i
    <3> SUFFICES ASSUME NEW i \in 1..(m + 1) PROVE file'[i] = i
      OBVIOUS
    <3>1. i \in 1..m \/ i = m + 1
      BY <1>2
    <3> QED BY <1>2, <1>3, <2>1, <3>1
  <2> QED BY <1>3, <2>1, <2>2, SeqEqual
<1>5. Types'
  <2>1. late' \in BOOLEAN /\ length' \in 0..Len(file') /\ pos' \in 0..Len(file')
    BY <1>1, <1>2, <1>3 DEF IInv, Types
  <2> QED BY <1>1, <1>3, <1>4, <2>1 DEF IInv, Types
<1>6. Ended' = Ended /\ Over' = Over /\ (Ended => late')
  BY <1>1 DEF Ended, Over
<1>7. ControlInv' /\ SigInv' /\ SizesInv'
  BY <1>1, <1>6 DEF IInv, ControlInv, SigInv, SizesInv
<1>8. FlowInv'
  <2>1. Flow' = Flow /\ Told' = Told
    BY <1>1 DEF Flow, Told, Trailer
  <2>2. Seen' = Seen
    BY <2>1 DEF Seen
  <2> QED BY <1>1, <1>6, <2>1, <2>2 DEF IInv, FlowInv
<1> QED BY <1>5, <1>7, <1>8 DEF IInv

-----------------------------------------------------------------------------
(* The theorems. *)

LEMMA NextInv == IInv /\ [Next]_vars => IInv'
<1> SUFFICES ASSUME IInv, [Next]_vars PROVE IInv'
  OBVIOUS
<1>1. CASE UNCHANGED vars
  <2>1. UNCHANGED <<mode, file, pos, pc, after, inbuf, outbuf, eof, infileEof, kept, sigbuf,
                    taken, sig, given, sizes, length, late, errors>>
    BY <1>1 DEF vars, like, signer, blocks, bounds
  <2>2. Flow' = Flow /\ Told' = Told /\ Ended' = Ended /\ Over' = Over
    BY <2>1 DEF Flow, Told, Trailer, Ended, Over
  <2>3. Types' /\ ControlInv' /\ SigInv' /\ SizesInv'
    BY <2>1, <2>2 DEF IInv, Types, ControlInv, SigInv, SizesInv
  <2>4. FlowInv'
    BY <2>1, <2>2, FlowStays DEF IInv
  <2> QED BY <2>3, <2>4 DEF IInv
<1> QED BY <1>1, AskInv, DirectInv, FillInv, FillDoneInv, AddToInbufInv, CycleInv, FinishInv,
        GrowInv DEF Next, Step

\* The inductive invariant holds in every state: the units of the file go through all
\* buffers in order, however librsync and the reader cut them.
THEOREM Invariance == Spec => []IInv
BY InitInv, NextInv, PTL DEF Spec

LEMMA PrefixIs ==
  ASSUME NEW m \in Nat, NEW n \in 0..m
  PROVE  IsPrefix(Upto(n), Upto(m))
<1>1. /\ Upto(m) \in Seq(Nat) /\ Len(Upto(m)) = m /\ \A i \in 1..m : Upto(m)[i] = i
      /\ Upto(n) \in Seq(Nat) /\ Len(Upto(n)) = n /\ \A i \in 1..n : Upto(n)[i] = i
  BY UptoIs
<1>2. First(Upto(n), n) = First(Upto(m), n)
  <2>1. /\ First(Upto(n), n) \in Seq(Nat) /\ Len(First(Upto(n), n)) = n
        /\ First(Upto(m), n) \in Seq(Nat) /\ Len(First(Upto(m), n)) = n
    BY <1>1, CutInTwo
  <2>2. \A s \in Seq(Nat), i \in 1..n : n \in 0..Len(s) => First(s, n)[i] = s[i]
    BY SMTT(30) DEF First
  <2> QED BY <1>1, <2>1, <2>2, SeqEqual, SMTT(30)
<1> QED BY <1>1, <1>2 DEF IsPrefix, First

\* What the reader got, in the end.
LEMMA GivenIs ==
  ASSUME IInv, pc = "done"
  PROVE  given = Joined(Upto(Seen), Trailer) /\ Data = Upto(Seen) /\ Ended /\ Seen \in 0..pos
<1>1. outbuf = <<>> /\ kept = <<>> /\ inbuf = <<>> /\ Told = Trailer /\ Ended
  BY DEF IInv, ControlInv, Types, Over, Told, Trailer, Ended
<1>2. given \in Seq(Nat) /\ \A s \in Seq(Nat) : Joined(s, <<>>) = s
  BY EmptyIs DEF IInv, Types, Joined
<1>3. Flow = Joined(Joined(Joined(given, <<>>), <<>>), <<>>)
  BY <1>1 DEF Flow
<1>4. given = Joined(Upto(Seen), Trailer) /\ Seen \in 0..pos /\ Seen \in Nat
  BY <1>1, <1>2, <1>3 DEF IInv, FlowInv, Types
<1>5. Data = Upto(Seen)
  <2> DEFINE u == Upto(Seen)
             t == Trailer
  <2>1. u \in Seq(Nat) /\ t \in Seq(Nat)
    BY <1>4, UptoIs, ToldIs
  <2>2. Data = First(Joined(u, t), Len(Joined(u, t)) - Len(t))
    BY <1>4 DEF Data
  <2> HIDE DEF u, t
  <2>3. Joined(u, t) \in Seq(Nat) /\ Len(Joined(u, t)) = Len(u) + Len(t)
        /\ \A i \in 1..Len(u) + Len(t) : Joined(u, t)[i] = IF i <= Len(u) THEN u[i] ELSE t[i - Len(u)]
    BY <2>1, Cat DEF Joined
  <2>4. Len(u) \in Nat /\ Len(t) \in Nat
    BY <2>1
  <2>5. Len(Joined(u, t)) - Len(t) = Len(u) /\ Len(u) \in 0..Len(Joined(u, t))
    BY <2>3, <2>4
  <2>6. /\ First(Joined(u, t), Len(u)) \in Seq(Nat)
        /\ Len(First(Joined(u, t), Len(u))) = Len(u)
    BY <2>3, <2>5, CutInTwo
  <2>7. \A s \in Seq(Nat), n \in Nat, i \in Nat :
          n \in 0..Len(s) /\ i \in 1..n => First(s, n)[i] = s[i]
    BY DEF First
  <2>8. \A i \in 1..Len(u) : First(Joined(u, t), Len(u))[i] = u[i]
    <3> SUFFICES ASSUME NEW i \in 1..Len(u) PROVE First(Joined(u, t), Len(u))[i] = u[i]
      OBVIOUS
    <3>1. i \in Nat /\ i \in 1..Len(u) + Len(t) /\ i <= Len(u)
      BY <2>4
    <3>2. Joined(u, t)[i] = u[i]
      BY <2>3, <3>1
    <3>3. First(Joined(u, t), Len(u))[i] = Joined(u, t)[i]
      BY <2>3, <2>4, <2>5, <2>7, <3>1
    <3> QED BY <3>2, <3>3
  <2>9. First(Joined(u, t), Len(u)) = u
    BY <2>1, <2>6, <2>8, SeqEqual
  <2> QED BY <2>2, <2>5, <2>9 DEF u
<1> QED BY <1>1, <1>4, <1>5

\* The blocks of a file are its data, or the whole of its delta, however librsync cuts
\* its input and output (librsync.py: LikeFile, diffdir.py: DeltaTarBlockIter).
THEOREM BlocksAreWhole == Spec => []BlocksWhole
<1>1. IInv => BlocksWhole
  <2> SUFFICES ASSUME IInv, pc = "done"
               PROVE  /\ IsPrefix(Data, file)
                      /\ errors = 0 => Len(Data) >= length
                      /\ given = Data \o Trailer
                      /\ mode # "patch" => \A i \in 1..Len(sizes) - 1 : sizes[i] = BlockSize
    BY DEF BlocksWhole
  <2>1. given = Joined(Upto(Seen), Trailer) /\ Data = Upto(Seen) /\ Ended /\ Seen \in 0..pos
    BY GivenIs
  <2>2. file = Upto(Len(file)) /\ Len(file) \in Nat /\ Seen \in 0..Len(file)
    BY <2>1 DEF IInv, Types
  <2>3. IsPrefix(Data, file)
    <3> DEFINE m == Len(file)
    <3>1. IsPrefix(Upto(Seen), Upto(m))
      BY <2>2, PrefixIs
    <3> QED BY <2>1, <2>2, <3>1
  <2>4. Len(Data) = Seen
    BY <2>1, <2>2, UptoIs
  <2>5. errors = 0 => Seen >= length
    BY <2>1 DEF IInv, FlowInv
  <2> QED BY <2>1, <2>3, <2>4, <2>5 DEF IInv, SizesInv, Joined
<1> QED BY <1>1, Invariance, PTL

\* The signature that the next delta is computed against is the signature of the data
\* that was given (diffdir.py: FileWithSignature.close, librsync.py: SigGenerator).
THEOREM SignaturesMatch == Spec => []SignatureMatches
<1>1. IInv => SignatureMatches
  <2> SUFFICES ASSUME IInv, pc = "done", mode # "patch"
               PROVE  IsPrefix(Data, sig) /\ (~late => sig = Data)
    BY DEF SignatureMatches
  <2>1. Data = Upto(Seen) /\ Ended /\ Seen \in 0..pos
    BY GivenIs
  <2>2. sig = Upto(pos) /\ pos \in 0..Len(file) /\ Len(file) \in Nat
    BY DEF IInv, ControlInv, SigInv, Types
  <2>3. ~late => Seen = pos
    BY <2>1, <2>2 DEF IInv, FlowInv
  <2> QED BY <2>1, <2>2, <2>3, PrefixIs
<1> QED BY <1>1, Invariance, PTL
=============================================================================
