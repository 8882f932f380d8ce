------------------------- MODULE MultiBackendProofs -------------------------
(***************************************************************************)
(* Proofs about MultiBackend, for every value of its constants: any number *)
(* of stores, files, retries, errors and processes, any prefixes, and any  *)
(* order of the stores that match one.                                     *)
(*                                                                         *)
(* The invariant says what stands between the stores in the middle of a    *)
(* call: which of them a put has written (MirrorInv), which may hold       *)
(* something of a file that had no stale copy (CopiesInv), and which a     *)
(* deletion is done with (DeleteInv).  A call is repeated by two wrappers, *)
(* so all of it must survive starting over at any store.                   *)
(***************************************************************************)
EXTENDS MultiBackend, FiniteSetTheorems, TLAPS

\* The stores of the call, in the order it tries them.
E == Eligible(call.file)

Mirroring == config.mode = "mirror" /\ config.onfail = "abort"

\* Of the call: where it is in the list; what is put or deleted has no known content.
CallInv ==
  /\ pc \in {"idle", "dead"} => call.op = "none"
  /\ pc \in {"put", "get", "delete"} => call.op = pc
  /\ pc = "find" => call.op \in {"get", "delete"}
  /\ call.op \in {"put", "delete"} => acked[call.file] = 0
  /\ pc = "put" => cursor \in DOMAIN E /\ call.version # 0
  /\ pc \in {"find", "get", "delete"} => at \in DOMAIN E
  /\ pc = "get" => store[E[at]][call.file] # Absent
  /\ got # <<>> => pc \in {"idle", "dead"}

\* Of mirror mode with abort: the stores before the cursor have what is put.
MirrorInv ==
  Mirroring =>
    /\ \A f \in Files : acked[f] # 0 => \A s \in Range(Eligible(f)) : store[s][f] = acked[f]
    /\ pc = "put" => \A i \in 1..(cursor - 1) : store[E[i]][call.file] = call.version

\* Of the files without a stale copy: what stores may have of them, and how many may.
CopiesInv ==
  \A f \in Files \ doubled :
    /\ acked[f] # 0 => \A s \in Stores : store[s][f] \in {Absent, acked[f]}
    /\ pc = "put" /\ call.file = f =>
         \A s \in Stores \ {E[cursor]} :
           \/ store[s][f] = Absent
           \/ config.mode = "mirror" /\ store[s][f] = call.version
    /\ config.mode = "stripe" =>
         \A s, t \in Stores : store[s][f] # Absent /\ store[t][f] # Absent => s = t

\* Of a deletion: the stores that it is done with do not have the file; in stripe mode
\* the one that it deletes from had the only copy.
DeleteInv ==
  /\ call.op = "delete" /\ call.file \notin leftover =>
       \A i \in 1..(at - 1) : store[E[i]][call.file] = Absent
  /\ pc = "delete" /\ config.mode = "stripe" /\ call.file \notin doubled =>
       \A s \in Stores \ {E[at]} : store[s][call.file] = Absent

Types == TypeOK /\ version \in 0..MaxVersion

IInv == Types /\ CallInv /\ MirrorInv /\ CopiesInv /\ DeleteInv /\ ReadsLastWritten

-----------------------------------------------------------------------------
(* The list of eligible stores. *)

\* It has every store at most once, and at least one; in stripe mode it has them all.
LEMMA EligibleIs ==
  ASSUME config \in Configs, NEW f
  PROVE  /\ Eligible(f) \in Seq(Stores)
         /\ DOMAIN Eligible(f) = 1..Len(Eligible(f)) /\ Len(Eligible(f)) \in Stores
         /\ \A i, j \in DOMAIN Eligible(f) : Eligible(f)[i] = Eligible(f)[j] => i = j
         /\ config.mode = "stripe" => Len(Eligible(f)) = NumStores
<1> DEFINE S == {s \in Stores : PrefixOf[f] \in Affinities[s]}
           e == Eligible(f)
<1>1. \E n \in Nat : /\ e \in [1..n -> Stores] /\ n \in Stores
                     /\ \A i, j \in 1..n : e[i] = e[j] => i = j
                     /\ S = {} => n = NumStores
  <2>1. CASE S = {}
    <3>1. e = [s \in Stores |-> s]
      BY <2>1 DEF Eligible
    <3>2. e \in [1..NumStores -> Stores] /\ \A i, j \in 1..NumStores : e[i] = e[j] => i = j
      BY <3>1 DEF Stores
    <3>3. NumStores \in Nat /\ NumStores \in Stores
      BY SizesAssumption DEF Stores
    <3> QED BY <3>2, <3>3
  <2>2. CASE S # {}
    <3> DEFINE n == Cardinality(S)
    <3>1. e = SetToSeq(S)
      BY <2>2 DEF Eligible
    <3>2. /\ IsFiniteSet(Stores) /\ Cardinality(Stores) = NumStores
          /\ NumStores \in Nat
      BY FS_Interval, SizesAssumption DEF Stores
    <3>3. S \subseteq Stores
      OBVIOUS
    <3> HIDE DEF S
    <3>4. IsFiniteSet(S) /\ n \in Nat /\ n <= NumStores /\ ExistsBijection(1..n, S)
      BY <3>2, <3>3, FS_Subset, FS_CardinalityType
    <3>5. n # 0
      BY <2>2, <3>4, FS_EmptySet
    <3>6. \E g \in [1..n -> S] : IsInjective(g)
      BY <3>4 DEF ExistsBijection, Bijection, Injection
    <3>7. SetToSeq(S) \in [1..n -> S] /\ IsInjective(SetToSeq(S))
      BY <3>6 DEF SetToSeq
    <3>8. n \in Stores
      BY <3>2, <3>4, <3>5 DEF Stores
    <3> HIDE DEF n
    <3>9. e \in [1..n -> Stores] /\ \A i, j \in 1..n : e[i] = e[j] => i = j
      BY <3>1, <3>3, <3>7 DEF IsInjective
    <3> QED BY <2>2, <3>4, <3>8, <3>9
  <2> QED BY <2>1, <2>2
<1>2. config.mode = "stripe" => S = {}
  <2>1. config.mode = "stripe" => \A s \in Stores : Affinities[s] = {}
    BY ConfigsAssumption DEF Affinities
  <2> QED BY <2>1
<1>3. PICK n \in Nat : /\ e \in [1..n -> Stores] /\ n \in Stores
                       /\ \A i, j \in 1..n : e[i] = e[j] => i = j
                       /\ S = {} => n = NumStores
  BY <1>1
<1> HIDE DEF e, S
<1>4. e \in Seq(Stores) /\ Len(e) = n /\ DOMAIN e = 1..n
  BY <1>3
<1> QED BY <1>2, <1>3, <1>4 DEF e

LEMMA EligibleStays ==
  ASSUME config' = config, NEW f
  PROVE  Eligible(f)' = Eligible(f)
BY DEF Eligible, Affinities

\* The store at hand, and its place in the list.
LEMMA HereIs ==
  ASSUME Types, CallInv, pc \in {"put", "find", "get", "delete"}
  PROVE  /\ Here = E[IF pc = "put" THEN cursor ELSE at] /\ Here \in Stores
         /\ call.file \in Files
         /\ DOMAIN E = 1..Len(E) /\ Len(E) \in Stores
         /\ \A i \in DOMAIN E : E[i] \in Stores
         /\ \A i, j \in DOMAIN E : E[i] = E[j] => i = j
<1>1. config \in Configs /\ call.file \in Files
  BY DEF Types, TypeOK
<1>2. /\ E \in Seq(Stores) /\ DOMAIN E = 1..Len(E) /\ Len(E) \in Stores
      /\ \A i, j \in DOMAIN E : E[i] = E[j] => i = j
  BY <1>1, EligibleIs DEF E
<1>3. \A i \in DOMAIN E : E[i] \in Stores
  BY <1>2
<1>4. Here = E[IF pc = "put" THEN cursor ELSE at]
  BY DEF Here, E
<1>5. (IF pc = "put" THEN cursor ELSE at) \in DOMAIN E
  BY DEF CallInv
<1> QED BY <1>1, <1>2, <1>3, <1>4, <1>5

\* A store that gets, or loses, the file of the call.
LEMMA StoreChanges ==
  ASSUME store \in [Stores -> [Files -> Content]], NEW h \in Stores, NEW f \in Files,
         NEW c \in Content, store' = [store EXCEPT ![h][f] = c]
  PROVE  /\ store' \in [Stores -> [Files -> Content]]
         /\ \A s \in Stores, g \in Files :
              store'[s][g] = IF s = h /\ g = f THEN c ELSE store[s][g]
<1>1. [store[h] EXCEPT ![f] = c] \in [Files -> Content]
  OBVIOUS
<1>2. store' = [store EXCEPT ![h] = [store[h] EXCEPT ![f] = c]]
  OBVIOUS
<1> QED BY <1>1, <1>2

-----------------------------------------------------------------------------
(* Calls that begin, begin again, and end. *)

\* A call that has returned, or whose process is dead, is forgotten.
LEMMA CallOver ==
  ASSUME pc' \in {"idle", "dead"}, call' = NoCall
  PROVE  CallInv' /\ DeleteInv'
<1>1. call'.op = "none"
  BY DEF NoCall
<1> QED BY <1>1 DEF CallInv, DeleteInv

LEMMA NoCallOK == NoCall \in [op : {"none", "put", "get", "delete"}, file : Files,
                              version : 0..MaxVersion]
<1>1. (CHOOSE f \in Files : TRUE) \in Files
  BY SizesAssumption
<1>2. 0 \in 0..MaxVersion
  BY SizesAssumption
<1> QED BY <1>1, <1>2 DEF NoCall

\* The types, when Return or Die ends a call.
LEMMA OverTypes ==
  ASSUME Types, pc' \in {"idle", "dead"}, call' = NoCall,
         attempt' = 1, tryNo' = 1, at' = 1, first' = 1, passed' = FALSE,
         cursor' \in Stores, UNCHANGED <<config, version>>,
         store' \in [Stores -> [Files -> Content]],
         acked' \in [Files -> 0..MaxVersion], doubled' \subseteq Files, leftover' \subseteq Files
  PROVE  Types'
<1>1. 1 \in 1..NumRetries /\ 1 \in Stores
  BY SizesAssumption DEF Stores
<1>2. call' \in [op : {"none", "put", "get", "delete"}, file : Files, version : 0..MaxVersion]
  BY NoCallOK
<1> QED BY <1>1, <1>2 DEF Types, TypeOK

\* Nothing is put, and no file changes.
LEMMA FilesFrame ==
  ASSUME MirrorInv, CopiesInv, UNCHANGED <<config, store, acked, doubled>>, pc' # "put"
  PROVE  MirrorInv' /\ CopiesInv'
<1>1. \A f : Eligible(f)' = Eligible(f)
  BY EligibleStays
<1>2. MirrorInv'
  BY <1>1 DEF MirrorInv, Mirroring
<1>3. CopiesInv'
  BY DEF CopiesInv
<1> QED BY <1>2, <1>3

\* The first store of the list, or the one at the cursor, which all lists have.
LEMMA EnterOK ==
  ASSUME Types, config' = config, NEW op \in {"put", "get", "delete"}, NEW c \in Stores,
         NEW n \in 1..NumRetries, Enter(op, c, n),
         call' \in [op : {"none", "put", "get", "delete"}, file : Files, version : 0..MaxVersion],
         call'.op = op
  PROVE  /\ pc' = IF op = "put" THEN "put" ELSE "find"
         /\ attempt' \in 1..NumRetries /\ tryNo' \in 1..NumRetries
         /\ at' \in Stores /\ cursor' \in Stores /\ first' \in Stores /\ passed' \in BOOLEAN
         /\ op = "put" => cursor' \in DOMAIN E'
         /\ at' \in DOMAIN E' /\ at' = 1
         /\ op = "put" /\ config.mode = "mirror" => cursor' = 1
<1>1. E' = Eligible(call'.file)
  BY EligibleStays DEF E
<1>2. /\ DOMAIN E' = 1..Len(E') /\ Len(E') \in Stores
      /\ config.mode = "stripe" => Len(E') = NumStores
  BY <1>1, EligibleIs DEF Types, TypeOK
<1>3. 1 \in DOMAIN E' /\ 1 \in Stores /\ 1 \in 1..NumRetries
  <2>1. \A n_ \in Stores : 1 \in 1..n_
    BY DEF Stores
  <2>2. 1 \in Stores /\ 1 \in 1..NumRetries
    BY SizesAssumption DEF Stores
  <2> QED BY <1>2, <2>1, <2>2
<1>4. config.mode \in {"stripe", "mirror"}
  BY ConfigsAssumption DEF Types, TypeOK
<1>5. /\ attempt' = n /\ tryNo' = 1 /\ passed' = FALSE /\ at' = 1
      /\ cursor' = IF op = "put" /\ config.mode = "mirror" THEN 1 ELSE c
      /\ first' = IF op = "put" THEN cursor' ELSE 1
      /\ pc' = IF op = "put" THEN "put" ELSE "find"
  BY DEF Enter
<1>6. config.mode = "stripe" => c \in DOMAIN E'
  BY <1>2 DEF Stores
<1>7. op = "put" => cursor' \in DOMAIN E'
  BY <1>3, <1>4, <1>5, <1>6
<1> QED BY <1>3, <1>5, <1>7

-----------------------------------------------------------------------------
(* Beginnings. *)

LEMMA InitInv == Init => IInv
<1> SUFFICES ASSUME Init PROVE IInv
  OBVIOUS
<1>1. Types
  <2>1. 1 \in Stores /\ 1 \in 1..NumRetries /\ 0 \in 0..MaxVersion /\ Absent \in Content
    BY SizesAssumption DEF Stores, Absent, Content
  <2> QED BY <2>1, NoCallOK DEF Init, Types, TypeOK
<1>2. CallInv /\ DeleteInv
  <2>1. call.op = "none"
    BY DEF Init, NoCall
  <2> QED BY <2>1 DEF Init, CallInv, DeleteInv
<1>3. MirrorInv /\ CopiesInv
  BY DEF Init, MirrorInv, CopiesInv
<1> QED BY <1>1, <1>2, <1>3 DEF Init, IInv, ReadsLastWritten

\* What a call begins with.
LEMMA BeginOK ==
  ASSUME Types, NEW op \in {"put", "get", "delete"}, NEW f \in Files, NEW v \in 0..MaxVersion,
         Begin(op, f, v), version' \in 0..MaxVersion,
         acked' \in [Files -> 0..MaxVersion], doubled' \subseteq Files, leftover' \subseteq Files
  PROVE  /\ Types'
         /\ pc = "idle" /\ pc' = IF op = "put" THEN "put" ELSE "find"
         /\ call'.op = op /\ call'.file = f /\ call'.version = v
         /\ at' = 1 /\ at' \in DOMAIN E' /\ (op = "put" => cursor' \in DOMAIN E')
         /\ op = "put" /\ config.mode = "mirror" => cursor' = 1
         /\ got' = <<>> /\ ReadsLastWritten'
         /\ UNCHANGED <<config, store>>
<1>1. /\ call' = [op |-> op, file |-> f, version |-> v] /\ Enter(op, cursor, 1)
      /\ pc = "idle" /\ got' = <<>> /\ UNCHANGED <<config, store>>
  BY DEF Begin
<1>2. call' \in [op : {"none", "put", "get", "delete"}, file : Files, version : 0..MaxVersion]
  BY <1>1
<1>3. cursor \in Stores /\ 1 \in 1..NumRetries
  BY SizesAssumption DEF Types, TypeOK
<1>4. call'.op = op /\ call'.file = f /\ call'.version = v
  BY <1>1
<1>5. /\ pc' = IF op = "put" THEN "put" ELSE "find"
      /\ attempt' \in 1..NumRetries /\ tryNo' \in 1..NumRetries
      /\ at' \in Stores /\ cursor' \in Stores /\ first' \in Stores /\ passed' \in BOOLEAN
      /\ op = "put" => cursor' \in DOMAIN E'
      /\ at' \in DOMAIN E' /\ at' = 1
      /\ op = "put" /\ config.mode = "mirror" => cursor' = 1
  BY <1>1, <1>2, <1>3, <1>4, EnterOK
<1>6. Types'
  BY <1>1, <1>2, <1>5 DEF Types, TypeOK
<1>7. ReadsLastWritten'
  BY <1>1 DEF ReadsLastWritten
<1> QED BY <1>1, <1>4, <1>5, <1>6, <1>7

LEMMA BeginPutInv ==
  ASSUME IInv, NEW f \in Files, BeginPut(f)
  PROVE  IInv'
<1>1. /\ version < MaxVersion /\ version' = version + 1 /\ Begin("put", f, version + 1)
      /\ acked' = [acked EXCEPT ![f] = 0] /\ leftover' = leftover \ {f}
      /\ doubled' = IF \E s \in Stores : store[s][f] # Absent
                      THEN doubled \cup {f} ELSE doubled
  BY DEF BeginPut
<1>2. version' \in 0..MaxVersion /\ version + 1 \in 0..MaxVersion /\ version + 1 # 0
  BY <1>1, SizesAssumption DEF IInv, Types
<1>3. acked \in [Files -> 0..MaxVersion] /\ doubled \subseteq Files /\ leftover \subseteq Files
  BY DEF IInv, Types, TypeOK
<1>4. acked' \in [Files -> 0..MaxVersion] /\ doubled' \subseteq Files /\ leftover' \subseteq Files
  BY <1>1, <1>2, <1>3, SizesAssumption
<1>5. acked'[f] = 0 /\ \A g \in Files \ {f} : acked'[g] = acked[g]
  BY <1>1, <1>3
<1>6. /\ Types' /\ pc = "idle" /\ pc' = "put"
      /\ call'.op = "put" /\ call'.file = f /\ call'.version = version + 1
      /\ cursor' \in DOMAIN E' /\ (config.mode = "mirror" => cursor' = 1)
      /\ got' = <<>> /\ ReadsLastWritten' /\ UNCHANGED <<config, store>>
  BY <1>1, <1>2, <1>4, BeginOK DEF IInv
<1>7. CallInv'
  BY <1>2, <1>5, <1>6 DEF CallInv
<1>8. MirrorInv'
  <2>1. \A g : Eligible(g)' = Eligible(g)
    BY <1>6, EligibleStays
  <2>2. Mirroring => MirrorInv
    BY DEF IInv
  <2>3. Mirroring' => Mirroring /\ config.mode = "mirror"
    BY <1>6 DEF Mirroring
  <2>4. 1..(1 - 1) = {}
    OBVIOUS
  <2>5. Mirroring' => \A g \in Files : acked'[g] # 0 =>
                        \A s \in Range(Eligible(g)) : store[s][g] = acked'[g]
    BY <1>5, <2>2, <2>3 DEF MirrorInv
  <2> QED BY <1>6, <2>1, <2>3, <2>4, <2>5 DEF MirrorInv
<1>9. CopiesInv'
  <2> SUFFICES ASSUME NEW g \in Files \ doubled'
               PROVE  /\ acked'[g] # 0 => \A s \in Stores : store[s][g] \in {Absent, acked'[g]}
                      /\ g = f => \A s \in Stores : store[s][g] = Absent
                      /\ config.mode = "stripe" => \A s, t \in Stores :
                           store[s][g] # Absent /\ store[t][g] # Absent => s = t
    BY <1>6 DEF CopiesInv
  <2>1. g \notin doubled /\ (g = f => \A s \in Stores : store[s][f] = Absent)
    BY <1>1
  <2>2. CASE g = f
    BY <1>5, <2>1, <2>2
  <2>3. CASE g # f
    BY <1>5, <2>1, <2>3 DEF IInv, CopiesInv
  <2> QED BY <2>2, <2>3
<1>10. DeleteInv'
  BY <1>6 DEF DeleteInv
<1> QED BY <1>6, <1>7, <1>8, <1>9, <1>10 DEF IInv

LEMMA BeginReadInv ==
  ASSUME IInv, NEW f \in Files, BeginGet(f) \/ BeginDelete(f)
  PROVE  IInv'
<1>1. PICK o \in {"get", "delete"} :
        /\ Begin(o, f, 0) /\ UNCHANGED <<version, doubled>> /\ leftover' \subseteq leftover
        /\ acked' = IF o = "get" THEN acked ELSE [acked EXCEPT ![f] = 0]
  BY DEF BeginGet, BeginDelete
<1>2. /\ acked \in [Files -> 0..MaxVersion] /\ doubled \subseteq Files /\ leftover \subseteq Files
      /\ version \in 0..MaxVersion /\ 0 \in 0..MaxVersion
  BY SizesAssumption DEF IInv, Types, TypeOK
<1>3. /\ acked' \in [Files -> 0..MaxVersion] /\ (o = "delete" => acked'[f] = 0)
      /\ \A g \in Files : acked'[g] \in {0, acked[g]}
  BY <1>1, <1>2
<1>4. /\ Types' /\ pc = "idle" /\ pc' = "find"
      /\ call'.op = o /\ call'.file = f /\ at' = 1 /\ at' \in DOMAIN E'
      /\ got' = <<>> /\ ReadsLastWritten' /\ UNCHANGED <<config, store>>
  BY <1>1, <1>2, <1>3, BeginOK DEF IInv
<1>5. CallInv'
  BY <1>3, <1>4 DEF CallInv
<1>6. MirrorInv'
  <2>1. \A g : Eligible(g)' = Eligible(g)
    BY <1>4, EligibleStays
  <2> QED BY <1>3, <1>4, <2>1 DEF IInv, MirrorInv, Mirroring
<1>7. CopiesInv'
  BY <1>1, <1>3, <1>4 DEF IInv, CopiesInv
<1>8. DeleteInv'
  <2>1. 1..(1 - 1) = {}
    OBVIOUS
  <2> QED BY <1>4, <2>1 DEF DeleteInv
<1> QED BY <1>4, <1>5, <1>6, <1>7, <1>8 DEF IInv

-----------------------------------------------------------------------------
(* Answers to a put. *)

\* The process dies at it: of a file that is put, or deleted, no content is known.
LEMMA DieOK ==
  ASSUME IInv, Die, NEW h \in Stores, NEW c \in Content,
         pc \in {"put", "find", "get", "delete"}, h = Here,
         store' = store \/ (call.op = "put" /\ store' = [store EXCEPT ![h][call.file] = c]),
         c \in {store[h][call.file], Torn, call.version},
         UNCHANGED <<config, version, acked, leftover, got>>,
         doubled' = doubled \/ (doubled' = doubled \cup {call.file} /\ call.op = "put")
  PROVE  IInv'
<1>1. /\ pc' = "dead" /\ call' = NoCall /\ attempt' = 1 /\ tryNo' = 1 /\ at' = 1
      /\ first' = 1 /\ passed' = FALSE /\ cursor' = cursor
  BY DEF Die
<1>2. /\ store \in [Stores -> [Files -> Content]] /\ call.file \in Files
      /\ acked \in [Files -> 0..MaxVersion] /\ doubled \subseteq Files /\ leftover \subseteq Files
      /\ cursor \in Stores
  BY DEF IInv, Types, TypeOK
<1>3. /\ store' \in [Stores -> [Files -> Content]]
      /\ \A s \in Stores, g \in Files :
           store'[s][g] # store[s][g] => s = h /\ g = call.file /\ call.op = "put"
  BY <1>2, StoreChanges
<1>4. Types'
  BY <1>1, <1>2, <1>3, OverTypes DEF IInv
<1>5. CallInv' /\ DeleteInv'
  BY <1>1, CallOver
<1>6. call.op = "put" => pc = "put" /\ acked[call.file] = 0
  BY DEF IInv, CallInv
<1>7. MirrorInv'
  <2>1. \A f : Eligible(f)' = Eligible(f)
    BY EligibleStays
  <2>2. \A f \in Files : Range(Eligible(f)) \subseteq Stores
    BY EligibleIs DEF IInv, Types, TypeOK, Range
  <2> QED BY <1>1, <1>3, <1>6, <2>1, <2>2 DEF IInv, MirrorInv, Mirroring
<1>8. CopiesInv'
  <2> SUFFICES ASSUME NEW f \in Files \ doubled'
               PROVE  /\ acked[f] # 0 => \A s \in Stores : store'[s][f] \in {Absent, acked[f]}
                      /\ config.mode = "stripe" => \A s, t \in Stores :
                           store'[s][f] # Absent /\ store'[t][f] # Absent => s = t
    BY <1>1 DEF CopiesInv
  <2>1. f \in Files \ doubled
    OBVIOUS
  <2>2. CASE f # call.file \/ call.op # "put"
    BY <1>3, <2>1, <2>2 DEF IInv, CopiesInv
  <2>3. CASE f = call.file /\ call.op = "put"
    <3>1. pc = "put" /\ acked[f] = 0
      BY <1>6, <2>3
    <3>2. h = E[cursor]
      BY <3>1, HereIs DEF IInv
    <3>3. \A s \in Stores \ {h} : store'[s][f] = store[s][f]
      BY <1>3, <2>1
    <3>4. config.mode = "stripe" => \A s \in Stores \ {h} : store[s][f] = Absent
      BY <2>1, <2>3, <3>1, <3>2 DEF IInv, CopiesInv
    <3> QED BY <3>1, <3>3, <3>4
  <2> QED BY <2>2, <2>3
<1>9. ReadsLastWritten'
  BY DEF IInv, ReadsLastWritten, CallInv
<1> QED BY <1>4, <1>5, <1>7, <1>8, <1>9 DEF IInv

\* Another store gets the file; after the last one all have it.
LEMMA PutDoneInv == IInv /\ PutDone => IInv'
<1> SUFFICES ASSUME IInv, PutDone PROVE IInv'
  OBVIOUS
<1> DEFINE f == call.file
           v == call.version
           n == Len(E)
           h == Here
<1>1. /\ pc = "put" /\ store' = [store EXCEPT ![h][f] = v] /\ cursor' = NextCursor(n)
      /\ UNCHANGED <<config, version, runs, doubled, errors, leftover, got>>
      /\ IF Written(cursor')
           THEN Return /\ acked' = [acked EXCEPT ![f] = v]
           ELSE /\ passed' = TRUE /\ tryNo' = 1
                /\ UNCHANGED <<pc, call, attempt, at, first, acked>>
  BY DEF PutDone, bounds, E
<1>2. /\ store \in [Stores -> [Files -> Content]] /\ f \in Files /\ v \in 0..MaxVersion
      /\ v \in Content /\ v # 0 /\ acked \in [Files -> 0..MaxVersion] /\ acked[f] = 0
      /\ doubled \subseteq Files /\ leftover \subseteq Files /\ config \in Configs
      /\ got = <<>> /\ call.op = "put"
  BY <1>1, SizesAssumption DEF IInv, Types, TypeOK, CallInv, Content
<1>3. /\ h = E[cursor] /\ h \in Stores /\ cursor \in 1..n /\ n \in Stores
      /\ \A i \in 1..n : E[i] \in Stores
      /\ \A i, j \in 1..n : E[i] = E[j] => i = j
  BY <1>1, HereIs DEF IInv, CallInv
<1> HIDE DEF h, n
<1>4. /\ store' \in [Stores -> [Files -> Content]]
      /\ \A s \in Stores, g \in Files :
           store'[s][g] = IF s = h /\ g = f THEN v ELSE store[s][g]
  BY <1>1, <1>2, <1>3, StoreChanges
<1>5. cursor' \in Stores /\ cursor' \in 1..n
      /\ (cursor' = 1 => cursor = n) /\ (cursor' # 1 => cursor' = cursor + 1)
  <2>1. cursor' = IF cursor + 1 > n THEN 1 ELSE cursor + 1
    BY <1>1 DEF NextCursor
  <2> QED BY <1>3, <2>1, SizesAssumption DEF Stores
<1>6. \A g : Eligible(g)' = Eligible(g) /\ Range(Eligible(g)) \subseteq Stores
  BY <1>1, <1>2, EligibleStays, EligibleIs DEF Range
<1>7. \A i \in 1..(cursor - 1) : Mirroring => store[E[i]][f] = v
  BY <1>1 DEF IInv, MirrorInv
<1>8. \A i \in 1..cursor : Mirroring => store'[E[i]][f] = v
  <2> SUFFICES ASSUME NEW i \in 1..cursor, Mirroring PROVE store'[E[i]][f] = v
    OBVIOUS
  <2>1. i \in 1..n /\ (i = cursor \/ i \in 1..(cursor - 1)) /\ E[i] \in Stores
    BY <1>3, SizesAssumption DEF Stores
  <2>2. CASE i = cursor
    BY <1>2, <1>3, <1>4, <2>2
  <2>3. CASE i \in 1..(cursor - 1)
    BY <1>2, <1>4, <1>7, <2>1, <2>3
  <2> QED BY <2>1, <2>2, <2>3
<1>9. CASE Written(cursor')
  <2>1. /\ pc' = "idle" /\ call' = NoCall /\ attempt' = 1 /\ tryNo' = 1 /\ at' = 1
        /\ first' = 1 /\ passed' = FALSE /\ acked' = [acked EXCEPT ![f] = v]
    BY <1>1, <1>9 DEF Return
  <2>2. /\ acked' \in [Files -> 0..MaxVersion] /\ acked'[f] = v
        /\ \A g \in Files \ {f} : acked'[g] = acked[g]
    BY <1>2, <2>1
  <2>3. Types'
    BY <1>1, <1>2, <1>4, <1>5, <2>1, <2>2, OverTypes DEF IInv
  <2>4. CallInv' /\ DeleteInv'
    BY <2>1, CallOver
  <2>5. MirrorInv'
    <3> SUFFICES ASSUME Mirroring, NEW g \in Files, acked'[g] # 0,
                        NEW s \in Range(Eligible(g))
                 PROVE  store'[s][g] = acked'[g]
      BY <1>1, <1>6, <2>1 DEF MirrorInv, Mirroring
    <3>1. CASE g = f
      <4>1. cursor = n
        BY <1>5, <1>9 DEF Written, Mirroring
      <4>2. PICK i \in 1..n : s = E[i]
        BY <3>1, HereIs, <1>1 DEF Range, E, IInv, n
      <4> QED BY <1>8, <2>2, <3>1, <4>1, <4>2
    <3>2. CASE g # f
      BY <1>4, <1>6, <2>2, <3>2 DEF IInv, MirrorInv
    <3> QED BY <3>1, <3>2
  <2>6. CopiesInv'
    <3> SUFFICES ASSUME NEW g \in Files \ doubled
                 PROVE  /\ acked'[g] # 0 =>
                             \A s \in Stores : store'[s][g] \in {Absent, acked'[g]}
                        /\ config.mode = "stripe" => \A s, t \in Stores :
                             store'[s][g] # Absent /\ store'[t][g] # Absent => s = t
      BY <1>1, <2>1 DEF CopiesInv
    <3>1. CASE g = f
      <4>1. \A s \in Stores \ {h} : store'[s][f] = store[s][f]
        BY <1>2, <1>4
      <4>2. \A s \in Stores \ {h} : store[s][f] = Absent
                                    \/ (config.mode = "mirror" /\ store[s][f] = v)
        BY <1>1, <1>3, <3>1 DEF IInv, CopiesInv
      <4>3. store'[h][f] = v
        BY <1>2, <1>3, <1>4
      <4> QED BY <2>2, <3>1, <4>1, <4>2, <4>3
    <3>2. CASE g # f
      BY <1>4, <2>2, <3>2 DEF IInv, CopiesInv
    <3> QED BY <3>1, <3>2
  <2>7. ReadsLastWritten'
    BY <1>1, <1>2 DEF ReadsLastWritten
  <2> QED BY <2>3, <2>4, <2>5, <2>6, <2>7 DEF IInv
<1>10. CASE ~Written(cursor')
  <2>1. /\ passed' = TRUE /\ tryNo' = 1 /\ UNCHANGED <<pc, call, attempt, at, first, acked>>
        /\ config.mode # "stripe" /\ cursor' = cursor + 1
    BY <1>1, <1>5, <1>10 DEF Written
  <2>2. config.mode = "mirror"
    BY <1>2, <2>1, ConfigsAssumption
  <2>3. E' = E
    BY <1>6, <2>1 DEF E
  <2>4. Types'
    BY <1>1, <1>4, <1>5, <2>1, SizesAssumption DEF IInv, Types, TypeOK
  <2>5. CallInv'
    <3>1. cursor' \in DOMAIN E
      BY <1>1, <1>5, HereIs DEF IInv, n
    <3> QED BY <1>1, <1>2, <2>1, <2>3, <3>1 DEF IInv, CallInv
  <2>6. MirrorInv'
    <3>1. cursor' - 1 = cursor
      BY <1>3, <2>1
    <3>2. \A g \in Files \ {f}, s \in Stores : store'[s][g] = store[s][g]
      BY <1>4
    <3>3. \A g \in Files : acked[g] # 0 => g # f
      BY <1>2
    <3> QED BY <1>1, <1>6, <1>8, <2>1, <2>3, <3>1, <3>2, <3>3 DEF IInv, MirrorInv, Mirroring
  <2>7. CopiesInv'
    <3> SUFFICES ASSUME NEW g \in Files \ doubled
                 PROVE  /\ acked[g] # 0 => \A s \in Stores : store'[s][g] \in {Absent, acked[g]}
                        /\ g = f => \A s \in Stores : store'[s][g] \in {Absent, v}
      BY <1>1, <2>1, <2>2, <2>3 DEF CopiesInv
    <3>1. CASE g = f
      <4>1. \A s \in Stores \ {h} : store[s][f] \in {Absent, v}
        BY <1>1, <1>3, <3>1 DEF IInv, CopiesInv
      <4> QED BY <1>2, <1>4, <3>1, <4>1
    <3>2. CASE g # f
      BY <1>4, <3>2 DEF IInv, CopiesInv
    <3> QED BY <3>1, <3>2
  <2>8. DeleteInv'
    BY <1>1, <1>2, <2>1 DEF DeleteInv
  <2>9. ReadsLastWritten'
    BY <1>1, <1>2 DEF ReadsLastWritten
  <2> QED BY <2>4, <2>5, <2>6, <2>7, <2>8, <2>9 DEF IInv
<1> QED BY <1>9, <1>10

\* The wrapper of the store repeats the call.  The store keeps something of it or not.
LEMMA PutFailsInv == IInv /\ PutFails => IInv'
<1> SUFFICES ASSUME IInv, PutFails PROVE IInv'
  OBVIOUS
<1> DEFINE f == call.file
           h == Here
<1>1. PICK c \in {store[h][f], Torn, call.version} :
        /\ pc = "put" /\ store' = [store EXCEPT ![h][f] = c] /\ Again
        /\ UNCHANGED <<config, version, doubled, acked, leftover, got>>
  BY DEF PutFails, bounds
<1>2. /\ store \in [Stores -> [Files -> Content]] /\ f \in Files
      /\ h \in Stores /\ h = E[cursor] /\ cursor \in DOMAIN E
      /\ \A i \in DOMAIN E : E[i] \in Stores
      /\ \A i, j \in DOMAIN E : E[i] = E[j] => i = j
      /\ DOMAIN E = 1..Len(E) /\ Len(E) \in Stores
      /\ call.op = "put" /\ acked[f] = 0 /\ got = <<>>
  BY <1>1, HereIs DEF IInv, Types, TypeOK, CallInv
<1>3. c \in Content
  <2>1. Torn \in Content /\ call.version \in Content
    BY SizesAssumption DEF IInv, Types, TypeOK, Torn, Content
  <2>2. store[h][f] \in Content
    BY <1>2
  <2> QED BY <2>1, <2>2
<1> HIDE DEF h
<1>4. CASE Die
  <2>1. h = Here
    BY DEF h
  <2> QED BY <1>1, <1>2, <1>3, <1>4, <2>1, DieOK
<1>5. CASE /\ tryNo < NumRetries /\ tryNo' = tryNo + 1
           /\ UNCHANGED <<pc, call, attempt, at, cursor, first, passed>>
  <2>1. /\ store' \in [Stores -> [Files -> Content]]
        /\ \A s \in Stores, g \in Files : s # h \/ g # f => store'[s][g] = store[s][g]
    BY <1>1, <1>2, <1>3, StoreChanges
  <2>2. tryNo' \in 1..NumRetries
    BY <1>5, SizesAssumption DEF IInv, Types, TypeOK
  <2>3. Types'
    BY <1>1, <1>5, <2>1, <2>2 DEF IInv, Types, TypeOK
  <2>4. \A g : Eligible(g)' = Eligible(g) /\ Range(Eligible(g)) \subseteq Stores
    BY <1>1, EligibleStays, EligibleIs DEF IInv, Types, TypeOK, Range
  <2>5. E' = E
    BY <1>5, <2>4 DEF E
  <2>6. CallInv'
    BY <1>1, <1>2, <1>5, <2>5 DEF IInv, CallInv
  <2>7. MirrorInv'
    <3>1. \A i \in 1..(cursor - 1) : i \in DOMAIN E /\ E[i] # h
      BY <1>2 DEF Stores
    <3>2. \A i \in 1..(cursor - 1) : store'[E[i]][f] = store[E[i]][f]
      BY <1>2, <2>1, <3>1
    <3>3. \A g \in Files : acked[g] # 0 => g # f
      BY <1>2
    <3>4. Mirroring => \A g \in Files : acked[g] # 0 =>
                         \A s \in Range(Eligible(g)) : store'[s][g] = acked[g]
      BY <2>1, <2>4, <3>3 DEF IInv, MirrorInv
    <3> QED BY <1>1, <1>5, <2>4, <2>5, <3>2, <3>4 DEF IInv, MirrorInv, Mirroring
  <2>8. CopiesInv'
    <3> SUFFICES ASSUME NEW g \in Files \ doubled
                 PROVE  /\ acked[g] # 0 => \A s \in Stores : store'[s][g] \in {Absent, acked[g]}
                        /\ g = f => \A s \in Stores \ {h} :
                             \/ store'[s][g] = Absent
                             \/ config.mode = "mirror" /\ store'[s][g] = call.version
                        /\ config.mode = "stripe" => \A s, t \in Stores :
                             store'[s][g] # Absent /\ store'[t][g] # Absent => s = t
      BY <1>1, <1>2, <1>5, <2>5 DEF CopiesInv
    <3>1. CASE g = f
      <4>1. \A s \in Stores \ {h} : \/ store[s][f] = Absent
                                    \/ config.mode = "mirror" /\ store[s][f] = call.version
        BY <1>1, <1>2, <3>1 DEF IInv, CopiesInv
      <4>2. \A s \in Stores \ {h} : store'[s][f] = store[s][f]
        BY <1>2, <2>1
      <4> QED BY <1>2, <3>1, <4>1, <4>2
    <3>2. CASE g # f
      BY <2>1, <3>2 DEF IInv, CopiesInv
    <3> QED BY <3>1, <3>2
  <2>9. DeleteInv' /\ ReadsLastWritten'
    BY <1>1, <1>2, <1>5 DEF DeleteInv, ReadsLastWritten
  <2> QED BY <2>3, <2>6, <2>7, <2>8, <2>9 DEF IInv
<1> QED BY <1>1, <1>4, <1>5 DEF Again

\* The put goes on with the next store, or starts over, or its process dies; the store
\* it leaves has nothing of the file, or the file counts as doubled.
LEMMA PutFatalInv == IInv /\ PutFatal => IInv'
<1> SUFFICES ASSUME IInv, PutFatal PROVE IInv'
  OBVIOUS
<1> DEFINE f == call.file
           h == Here
           next == NextCursor(Len(E))
<1>1. /\ pc = "put"
      /\ IF GivesUp(next) THEN Raise(next)
         ELSE cursor' = next /\ tryNo' = 1 /\ UNCHANGED <<pc, call, attempt, at, first, passed>>
      /\ doubled' = IF store[h][f] # Absent THEN doubled \cup {f} ELSE doubled
      /\ UNCHANGED <<config, version, store, acked, leftover, got>>
  BY DEF PutFatal, bounds, E
<1>2. /\ store \in [Stores -> [Files -> Content]] /\ f \in Files /\ h \in Stores
      /\ h = E[cursor] /\ cursor \in DOMAIN E
      /\ DOMAIN E = 1..Len(E) /\ Len(E) \in Stores
      /\ call.op = "put" /\ acked[f] = 0 /\ got = <<>> /\ call.version # 0
      /\ call \in [op : {"none", "put", "get", "delete"}, file : Files, version : 0..MaxVersion]
      /\ attempt \in 1..NumRetries /\ config \in Configs
      /\ doubled \subseteq Files
  BY <1>1, HereIs DEF IInv, Types, TypeOK, CallInv
<1>3. next \in 1..Len(E) /\ next \in Stores
  <2>1. next = IF cursor + 1 > Len(E) THEN 1 ELSE cursor + 1
    BY DEF NextCursor
  <2>2. cursor \in Nat /\ Len(E) \in Nat /\ 1 <= Len(E) /\ Len(E) <= NumStores
        /\ NumStores \in Nat /\ 1 <= cursor
    BY <1>2, SizesAssumption DEF Stores
  <2> HIDE DEF next
  <2> QED BY <2>1, <2>2 DEF Stores
<1> HIDE DEF h, next
<1>4. CASE Die
  <2>1. h = Here /\ h \in Stores /\ store[h][f] \in Content
    BY <1>2 DEF h
  <2> QED BY <1>1, <1>2, <1>4, <2>1, DieOK
<1>5. ASSUME ~Die
      PROVE  /\ Types' /\ UNCHANGED <<pc, call>> /\ cursor' \in DOMAIN E'
             /\ Mirroring => cursor' = 1
  <2>1. doubled' \subseteq Files
    BY <1>1, <1>2
  <2>2. E' = Eligible(call'.file) /\ E = Eligible(call.file)
    BY <1>1, EligibleStays DEF E
  <2>3. CASE ~GivesUp(next)
    <3>1. cursor' = next /\ tryNo' = 1 /\ UNCHANGED <<pc, call, attempt, at, first, passed>>
      BY <1>1, <2>3
    <3>2. ~Mirroring
      BY <2>3 DEF GivesUp, Mirroring
    <3>3. Types'
      BY <1>1, <1>3, <2>1, <3>1, SizesAssumption DEF IInv, Types, TypeOK
    <3> QED BY <1>2, <1>3, <2>2, <3>1, <3>2, <3>3
  <2>4. CASE GivesUp(next)
    <3>1. Enter("put", next, attempt + 1) /\ call' = call /\ attempt < NumRetries
      BY <1>1, <1>2, <1>5, <2>4 DEF Raise
    <3>2. attempt + 1 \in 1..NumRetries
      BY <1>2, <3>1, SizesAssumption
    <3>3. /\ pc' = "put"
          /\ attempt' \in 1..NumRetries /\ tryNo' \in 1..NumRetries
          /\ at' \in Stores /\ cursor' \in Stores /\ first' \in Stores /\ passed' \in BOOLEAN
          /\ cursor' \in DOMAIN E' /\ (config.mode = "mirror" => cursor' = 1)
      BY <1>1, <1>2, <1>3, <3>1, <3>2, EnterOK DEF IInv
    <3>4. Types'
      BY <1>1, <1>2, <2>1, <3>1, <3>3 DEF IInv, Types, TypeOK
    <3> QED BY <1>1, <3>1, <3>3, <3>4 DEF Mirroring
  <2> QED BY <2>3, <2>4
<1>6. CASE ~Die
  <2>1. /\ Types' /\ UNCHANGED <<pc, call>> /\ cursor' \in DOMAIN E'
        /\ Mirroring => cursor' = 1
    BY <1>5, <1>6
  <2>2. \A g : Eligible(g)' = Eligible(g)
    BY <1>1, EligibleStays
  <2>3. CallInv'
    BY <1>1, <1>2, <2>1 DEF IInv, CallInv
  <2>4. MirrorInv'
    <3>1. 1..(1 - 1) = {}
      OBVIOUS
    <3> QED BY <1>1, <2>1, <2>2, <3>1 DEF IInv, MirrorInv, Mirroring
  <2>5. CopiesInv'
    <3>1. E' = E
      BY <2>1, <2>2 DEF E
    <3> SUFFICES ASSUME NEW g \in Files \ doubled'
                 PROVE  /\ acked[g] # 0 => \A s \in Stores : store[s][g] \in {Absent, acked[g]}
                        /\ g = f => \A s \in Stores :
                             \/ store[s][g] = Absent
                             \/ config.mode = "mirror" /\ store[s][g] = call.version
                        /\ config.mode = "stripe" => \A s, t \in Stores :
                             store[s][g] # Absent /\ store[t][g] # Absent => s = t
      BY <1>1, <2>1, <3>1 DEF CopiesInv
    <3>2. g \in Files \ doubled /\ (g = f => store[h][f] = Absent)
      BY <1>1
    <3>3. g = f => \A s \in Stores \ {h} :
                     \/ store[s][g] = Absent
                     \/ config.mode = "mirror" /\ store[s][g] = call.version
      BY <1>1, <1>2, <3>2 DEF IInv, CopiesInv
    <3>4. /\ acked[g] # 0 => \A s \in Stores : store[s][g] \in {Absent, acked[g]}
          /\ config.mode = "stripe" => \A s, t \in Stores :
               store[s][g] # Absent /\ store[t][g] # Absent => s = t
      BY <3>2 DEF IInv, CopiesInv
    <3> QED BY <3>2, <3>3, <3>4
  <2>6. DeleteInv' /\ ReadsLastWritten'
    BY <1>1, <1>2, <2>1 DEF DeleteInv, ReadsLastWritten
  <2> QED BY <2>1, <2>3, <2>4, <2>5, <2>6 DEF IInv
<1> QED BY <1>4, <1>6

-----------------------------------------------------------------------------
(* Answers to a list, a get and a delete. *)

\* The process dies at one of them.
LEMMA ReadDies ==
  ASSUME IInv, Die, pc \in {"find", "get", "delete"},
         UNCHANGED <<config, version, store, acked, doubled, leftover, got>>
  PROVE  IInv'
<1>1. Here \in Stores /\ call.file \in Files
  BY HereIs DEF IInv
<1>2. store[Here][call.file] \in Content
  BY <1>1 DEF IInv, Types, TypeOK
<1> QED BY <1>1, <1>2, DieOK

LEMMA FindHasInv == IInv /\ FindHas => IInv'
<1> SUFFICES ASSUME IInv, FindHas PROVE IInv'
  OBVIOUS
<1>1. /\ pc = "find" /\ store[Here][call.file] # Absent /\ pc' = call.op /\ tryNo' = 1
      /\ UNCHANGED <<config, version, doubled, store, call, attempt, at, cursor, first,
                     passed, acked, leftover, got>>
  BY DEF FindHas, bounds
<1>2. Here = E[at] /\ E[at] \in Stores /\ call.op \in {"get", "delete"} /\ call.file \in Files
  BY <1>1, HereIs DEF IInv, CallInv
<1>3. E' = E
  BY <1>1, EligibleStays DEF E
<1>4. Types'
  BY <1>1, <1>2, SizesAssumption DEF IInv, Types, TypeOK
<1>5. CallInv'
  BY <1>1, <1>2, <1>3 DEF IInv, CallInv
<1>6. MirrorInv' /\ CopiesInv'
  BY <1>1, <1>2, FilesFrame DEF IInv
<1>7. DeleteInv'
  <2>1. config.mode = "stripe" /\ call.file \notin doubled =>
          \A s \in Stores \ {E[at]} : store[s][call.file] = Absent
    BY <1>1, <1>2 DEF IInv, CopiesInv
  <2> QED BY <1>1, <1>3, <2>1 DEF IInv, DeleteInv
<1> QED BY <1>1, <1>4, <1>5, <1>6, <1>7 DEF IInv, ReadsLastWritten

\* A call that returns, having changed no file.
LEMMA ReturnOK ==
  ASSUME IInv, Return, pc # "put", UNCHANGED <<config, version, store, acked, doubled, leftover>>,
         cursor' = cursor
  PROVE  Types' /\ CallInv' /\ MirrorInv' /\ CopiesInv' /\ DeleteInv'
<1>1. /\ pc' = "idle" /\ call' = NoCall /\ attempt' = 1 /\ tryNo' = 1 /\ at' = 1
      /\ first' = 1 /\ passed' = FALSE
  BY DEF Return
<1>2. Types'
  <2>1. /\ cursor' \in Stores /\ store' \in [Stores -> [Files -> Content]]
        /\ acked' \in [Files -> 0..MaxVersion] /\ doubled' \subseteq Files
        /\ leftover' \subseteq Files
    BY DEF IInv, Types, TypeOK
  <2> QED BY <1>1, <2>1, OverTypes DEF IInv
<1>3. CallInv' /\ DeleteInv'
  BY <1>1, CallOver
<1>4. MirrorInv' /\ CopiesInv'
  BY <1>1, FilesFrame DEF IInv
<1> QED BY <1>2, <1>3, <1>4

LEMMA FindHasNotInv == IInv /\ FindHasNot => IInv'
<1> SUFFICES ASSUME IInv, FindHasNot PROVE IInv'
  OBVIOUS
<1>1. /\ pc = "find" /\ store[Here][call.file] = Absent
      /\ CASE at < Len(E) -> /\ at' = at + 1 /\ tryNo' = 1
                             /\ UNCHANGED <<pc, call, attempt, cursor, first, passed>>
           [] at = Len(E) /\ call.op = "get" -> Raise(cursor)
           [] OTHER -> Return /\ UNCHANGED cursor
      /\ UNCHANGED <<config, version, doubled, store, acked, leftover, got>>
  BY DEF FindHasNot, bounds, E
<1>2. /\ Here = E[at] /\ at \in DOMAIN E /\ DOMAIN E = 1..Len(E) /\ Len(E) \in Stores
      /\ call.op \in {"get", "delete"} /\ got = <<>>
  BY <1>1, HereIs DEF IInv, CallInv
<1>3. at \in Nat /\ Len(E) \in Nat /\ at <= Len(E) /\ Len(E) <= NumStores /\ at >= 1
  BY <1>2, SizesAssumption DEF Stores
<1>4. ReadsLastWritten'
  BY <1>1, <1>2 DEF ReadsLastWritten
<1>5. CASE at < Len(E)
  <2>1. /\ at' = at + 1 /\ tryNo' = 1
        /\ UNCHANGED <<pc, call, attempt, cursor, first, passed>>
    BY <1>1, <1>5
  <2>2. E' = E
    BY <1>1, <2>1, EligibleStays DEF E
  <2>3. at' \in Stores /\ at' \in DOMAIN E
    BY <1>2, <1>3, <1>5, <2>1, SizesAssumption DEF Stores
  <2>4. Types'
    BY <1>1, <2>1, <2>3, SizesAssumption DEF IInv, Types, TypeOK
  <2>5. CallInv'
    BY <1>1, <2>1, <2>2, <2>3 DEF IInv, CallInv
  <2>6. MirrorInv' /\ CopiesInv'
    BY <1>1, <2>1, FilesFrame DEF IInv
  <2>7. DeleteInv'
    <3>1. \A i \in 1..(at' - 1) : i = at \/ i \in 1..(at - 1)
      BY <1>3, <2>1
    <3> QED BY <1>1, <1>2, <2>1, <2>2, <3>1 DEF IInv, DeleteInv
  <2> QED BY <1>4, <2>4, <2>5, <2>6, <2>7 DEF IInv
<1>6. CASE at = Len(E) /\ call.op = "get"
  <2>1. Raise(cursor)
    BY <1>1, <1>6
  <2>2. CASE Die
    BY <1>1, <2>2, ReadDies
  <2>3. CASE attempt < NumRetries
    <3>1. Enter("get", cursor, attempt + 1) /\ call' = call
      BY <1>6, <2>1, <2>3 DEF Raise
    <3>2. attempt + 1 \in 1..NumRetries /\ cursor \in Stores
          /\ call \in [op : {"none", "put", "get", "delete"}, file : Files,
                       version : 0..MaxVersion]
      BY <2>3, SizesAssumption DEF IInv, Types, TypeOK
    <3>3. /\ pc' = "find" /\ attempt' \in 1..NumRetries /\ tryNo' \in 1..NumRetries
          /\ at' \in Stores /\ cursor' \in Stores /\ first' \in Stores /\ passed' \in BOOLEAN
          /\ at' \in DOMAIN E'
      BY <1>1, <1>6, <3>1, <3>2, EnterOK DEF IInv
    <3>4. Types'
      BY <1>1, <3>1, <3>3 DEF IInv, Types, TypeOK
    <3>5. CallInv'
      BY <1>1, <1>2, <1>6, <3>1, <3>3 DEF CallInv
    <3>6. MirrorInv' /\ CopiesInv'
      BY <1>1, <3>3, FilesFrame DEF IInv
    <3>7. DeleteInv'
      BY <1>6, <3>1, <3>3 DEF DeleteInv
    <3> QED BY <1>4, <3>4, <3>5, <3>6, <3>7 DEF IInv
  <2> QED BY <2>1, <2>2, <2>3 DEF Raise
<1>7. CASE at = Len(E) /\ call.op # "get"
  <2>1. Return /\ cursor' = cursor
    BY <1>1, <1>7
  <2> QED BY <1>1, <1>4, <2>1, ReturnOK DEF IInv
<1> QED BY <1>3, <1>5, <1>6, <1>7

\* What a store has of the file is what was put last: the store is eligible, and it has
\* something of the file.
LEMMA GetDoneInv == IInv /\ GetDone => IInv'
<1> SUFFICES ASSUME IInv, GetDone PROVE IInv'
  OBVIOUS
<1> DEFINE f == call.file
<1>1. /\ pc = "get" /\ got' = <<f, store[Here][f]>> /\ Return
      /\ UNCHANGED <<config, version, doubled, store, cursor, acked, leftover>>
  BY DEF GetDone, bounds
<1>2. /\ Here = E[at] /\ Here \in Stores /\ f \in Files /\ at \in DOMAIN E
      /\ store[E[at]][f] # Absent
  BY <1>1, HereIs DEF IInv, CallInv
<1>3. Types' /\ CallInv' /\ MirrorInv' /\ CopiesInv' /\ DeleteInv'
  BY <1>1, ReturnOK
<1>4. f \notin doubled /\ acked[f] # 0 => store[E[at]][f] = acked[f]
  BY <1>2 DEF IInv, CopiesInv
<1>5. Mirroring /\ acked[f] # 0 => store[E[at]][f] = acked[f]
  <2>1. E[at] \in Range(Eligible(f))
    BY <1>2 DEF Range, E
  <2> QED BY <1>2, <2>1 DEF IInv, MirrorInv
<1>6. ReadsLastWritten'
  BY <1>1, <1>2, <1>4, <1>5 DEF ReadsLastWritten, Mirroring
<1> QED BY <1>3, <1>6 DEF IInv

LEMMA ReadFailsInv == IInv /\ ReadFails => IInv'
<1> SUFFICES ASSUME IInv, ReadFails PROVE IInv'
  OBVIOUS
<1>1. /\ pc \in {"find", "get"} /\ Again
      /\ UNCHANGED <<config, version, doubled, store, acked, leftover, got>>
  BY DEF ReadFails, bounds
<1>2. CASE Die
  BY <1>1, <1>2, ReadDies
<1>3. CASE /\ tryNo < NumRetries /\ tryNo' = tryNo + 1
           /\ UNCHANGED <<pc, call, attempt, at, cursor, first, passed>>
  <2>1. E' = E
    BY <1>1, <1>3, EligibleStays DEF E
  <2>2. Types'
    BY <1>1, <1>3, SizesAssumption DEF IInv, Types, TypeOK
  <2>3. CallInv' /\ DeleteInv' /\ ReadsLastWritten'
    BY <1>1, <1>3, <2>1 DEF IInv, CallInv, DeleteInv, ReadsLastWritten
  <2>4. MirrorInv' /\ CopiesInv'
    BY <1>1, <1>3, FilesFrame DEF IInv
  <2> QED BY <2>2, <2>3, <2>4 DEF IInv
<1> QED BY <1>1, <1>2, <1>3 DEF Again

LEMMA ReadFatalInv == IInv /\ ReadFatal => IInv'
BY ReadDies DEF ReadFatal, bounds

\* The store at hand may lose the file that is deleted; then the call goes on as it was,
\* or with the next store, or it returns.
LEMMA DeleteOK ==
  ASSUME IInv, pc = "delete", NEW h \in Stores, h = Here,
         NEW c \in {store[h][call.file], Absent}, store' = [store EXCEPT ![h][call.file] = c],
         UNCHANGED <<config, version, doubled, cursor, acked, got>>,
         \/ /\ tryNo < NumRetries /\ tryNo' = tryNo + 1
            /\ UNCHANGED <<pc, call, attempt, at, first, passed, leftover>>
         \/ AfterDelete /\ leftover' = leftover /\ c = Absent
         \/ AfterDelete /\ leftover' = leftover \cup {call.file}
  PROVE  IInv'
<1> DEFINE f == call.file
<1>1. /\ h = E[at] /\ h \in Stores /\ f \in Files /\ at \in DOMAIN E
      /\ DOMAIN E = 1..Len(E) /\ Len(E) \in Stores
      /\ \A i \in DOMAIN E : E[i] \in Stores
      /\ \A i, j \in DOMAIN E : E[i] = E[j] => i = j
      /\ store \in [Stores -> [Files -> Content]]
      /\ call.op = "delete" /\ acked[f] = 0 /\ got = <<>>
  BY HereIs DEF IInv, CallInv, Types, TypeOK
<1>2. c \in Content
  <2>1. Absent \in Content
    BY SizesAssumption DEF Absent, Content
  <2> QED BY <1>1, <2>1
<1>3. /\ store' \in [Stores -> [Files -> Content]]
      /\ \A s \in Stores, g \in Files :
           store'[s][g] = IF s = h /\ g = f THEN c ELSE store[s][g]
  BY <1>1, <1>2, StoreChanges
<1>4. \A s \in Stores, g \in Files :
        /\ store'[s][g] \in {store[s][g], Absent}
        /\ g # f => store'[s][g] = store[s][g]
  BY <1>3
<1>5. pc' # "put" /\ leftover' \subseteq Files /\ leftover \subseteq leftover'
  BY <1>1 DEF AfterDelete, Return, IInv, Types, TypeOK
<1>6. \A g : Eligible(g)' = Eligible(g) /\ Range(Eligible(g)) \subseteq Stores
  BY EligibleStays, EligibleIs DEF IInv, Types, TypeOK, Range
<1>7. MirrorInv'
  <2>1. \A g \in Files : acked[g] # 0 => g # f
    BY <1>1
  <2> QED BY <1>4, <1>5, <1>6, <2>1 DEF IInv, MirrorInv, Mirroring
<1>8. CopiesInv'
  BY <1>4, <1>5 DEF IInv, CopiesInv
<1>9. ReadsLastWritten'
  BY <1>1 DEF ReadsLastWritten
<1>10. CASE /\ tryNo < NumRetries /\ tryNo' = tryNo + 1
            /\ UNCHANGED <<pc, call, attempt, at, first, passed, leftover>>
  <2>1. Types'
    BY <1>3, <1>10, SizesAssumption DEF IInv, Types, TypeOK
  <2>2. E' = E
    BY <1>6, <1>10 DEF E
  <2>3. CallInv'
    BY <1>1, <1>10, <2>2 DEF IInv, CallInv
  <2>4. DeleteInv'
    <3>1. \A i \in 1..(at - 1) : i \in DOMAIN E /\ E[i] \in Stores
      BY <1>1 DEF Stores
    <3>2. f \notin leftover => \A i \in 1..(at - 1) : store'[E[i]][f] = Absent
      BY <1>1, <1>4, <3>1 DEF IInv, DeleteInv
    <3>3. config.mode = "stripe" /\ f \notin doubled =>
            \A s \in Stores \ {E[at]} : store'[s][f] = Absent
      BY <1>1, <1>4 DEF IInv, DeleteInv
    <3> QED BY <1>10, <2>2, <3>2, <3>3 DEF DeleteInv
  <2> QED BY <1>7, <1>8, <1>9, <2>1, <2>3, <2>4 DEF IInv
<1>11. ASSUME AfterDelete, Return PROVE IInv'
  <2>1. /\ pc' = "idle" /\ call' = NoCall /\ attempt' = 1 /\ tryNo' = 1 /\ at' = 1
        /\ first' = 1 /\ passed' = FALSE
    BY <1>11 DEF Return
  <2>2. /\ cursor' \in Stores /\ acked' \in [Files -> 0..MaxVersion] /\ doubled' \subseteq Files
    BY DEF IInv, Types, TypeOK
  <2>3. Types'
    BY <1>3, <1>5, <2>1, <2>2, OverTypes DEF IInv
  <2>4. CallInv' /\ DeleteInv'
    BY <2>1, CallOver
  <2> QED BY <1>7, <1>8, <1>9, <2>3, <2>4 DEF IInv
<1>12. ASSUME AfterDelete, ~Return,
              (leftover' = leftover /\ c = Absent) \/ leftover' = leftover \cup {f}
       PROVE  IInv'
  <2>1. /\ at # Len(E) /\ pc' = "find" /\ at' = at + 1 /\ tryNo' = 1 /\ passed' = TRUE
        /\ UNCHANGED <<call, attempt, first>>
    BY <1>12 DEF AfterDelete, E
  <2>2. at \in Nat /\ Len(E) \in Nat /\ at <= Len(E) /\ Len(E) <= NumStores /\ at >= 1
    BY <1>1, SizesAssumption DEF Stores
  <2>3. at' \in Stores /\ at' \in 1..Len(E)
    BY <2>1, <2>2, SizesAssumption DEF Stores
  <2>4. E' = E
    BY <1>6, <2>1 DEF E
  <2>5. Types'
    BY <1>3, <1>5, <2>1, <2>3, SizesAssumption DEF IInv, Types, TypeOK
  <2>6. CallInv'
    BY <1>1, <2>1, <2>3, <2>4 DEF CallInv
  <2>7. DeleteInv'
    <3> SUFFICES ASSUME f \notin leftover', NEW i \in 1..(at' - 1)
                 PROVE  store'[E[i]][f] = Absent
      BY <2>1, <2>4 DEF DeleteInv
    <3>1. f \notin leftover /\ c = Absent
      BY <1>12
    <3>2. i \in DOMAIN E /\ (i = at \/ i \in 1..(at - 1))
      BY <1>1, <2>1, <2>2
    <3>3. CASE i = at
      BY <1>1, <1>3, <3>1, <3>3
    <3>4. CASE i \in 1..(at - 1)
      BY <1>1, <1>4, <3>1, <3>2, <3>4 DEF IInv, DeleteInv
    <3> QED BY <3>2, <3>3, <3>4
  <2> QED BY <1>7, <1>8, <1>9, <2>5, <2>6, <2>7 DEF IInv
<1> QED BY <1>10, <1>11, <1>12

LEMMA DeleteDoneInv == IInv /\ DeleteDone => IInv'
<1> SUFFICES ASSUME IInv, DeleteDone PROVE IInv'
  OBVIOUS
<1>1. /\ pc = "delete" /\ store' = [store EXCEPT ![Here][call.file] = Absent] /\ AfterDelete
      /\ UNCHANGED <<config, version, doubled, cursor, acked, leftover, got>>
  BY DEF DeleteDone, bounds
<1>2. Here \in Stores /\ Absent \in {store[Here][call.file], Absent}
  BY <1>1, HereIs DEF IInv
<1> QED BY <1>1, <1>2, DeleteOK

LEMMA DeleteFailsInv == IInv /\ DeleteFails => IInv'
<1> SUFFICES ASSUME IInv, DeleteFails PROVE IInv'
  OBVIOUS
<1>1. PICK c \in {store[Here][call.file], Absent} :
        /\ pc = "delete" /\ store' = [store EXCEPT ![Here][call.file] = c]
        /\ UNCHANGED <<config, version, doubled, cursor, acked, got>>
        /\ \/ /\ tryNo < NumRetries /\ tryNo' = tryNo + 1
              /\ UNCHANGED <<pc, call, attempt, at, first, passed, leftover>>
           \/ AfterDelete /\ leftover' = leftover \cup {call.file}
  BY DEF DeleteFails, bounds
<1>2. Here \in Stores
  BY <1>1, HereIs DEF IInv
<1> QED BY <1>1, <1>2, DeleteOK

-----------------------------------------------------------------------------
(* The theorems. *)

\* What was being put when a process is killed has no known content.
LEMMA NewRunInv == IInv /\ NewRun => IInv'
<1> SUFFICES ASSUME IInv, NewRun PROVE IInv'
  OBVIOUS
<1>1. /\ pc' = "idle" /\ call' = NoCall /\ attempt' = 1 /\ tryNo' = 1 /\ at' = 1
      /\ first' = 1 /\ passed' = FALSE /\ cursor' = 1 /\ got' = <<>>
      /\ UNCHANGED <<config, store, version, acked, doubled, leftover>>
  BY DEF NewRun
<1>2. Types'
  <2>1. /\ cursor' \in Stores /\ store' \in [Stores -> [Files -> Content]]
        /\ acked' \in [Files -> 0..MaxVersion] /\ doubled' \subseteq Files
        /\ leftover' \subseteq Files
    BY <1>1, SizesAssumption DEF IInv, Types, TypeOK, Stores
  <2> QED BY <1>1, <2>1, OverTypes DEF IInv
<1>3. CallInv' /\ DeleteInv'
  BY <1>1, CallOver
<1>4. MirrorInv' /\ CopiesInv'
  BY <1>1, FilesFrame DEF IInv
<1>5. ReadsLastWritten'
  BY <1>1 DEF ReadsLastWritten
<1> QED BY <1>2, <1>3, <1>4, <1>5 DEF IInv

LEMMA NextInv == IInv /\ [Next]_vars => IInv'
<1> SUFFICES ASSUME IInv, [Next]_vars PROVE IInv'
  OBVIOUS
<1>1. CASE \E f \in Files : BeginPut(f) \/ BeginGet(f) \/ BeginDelete(f)
  BY <1>1, BeginPutInv, BeginReadInv
<1>2. CASE Answer
  BY <1>2, PutDoneInv, PutFailsInv, PutFatalInv, FindHasInv, FindHasNotInv, GetDoneInv,
     ReadFailsInv, ReadFatalInv, DeleteDoneInv, DeleteFailsInv DEF Answer
<1>3. CASE NewRun
  BY <1>3, NewRunInv
<1>4. CASE UNCHANGED vars
  <2>1. UNCHANGED <<config, store, pc, call, attempt, tryNo, at, cursor, first, passed,
                    version, acked, doubled, leftover, got>>
    BY <1>4 DEF vars
  <2>2. \A g : Eligible(g)' = Eligible(g)
    BY <2>1, EligibleStays
  <2>3. E' = E
    BY <2>1, <2>2 DEF E
  <2>4. Types' /\ CallInv' /\ DeleteInv' /\ ReadsLastWritten'
    BY <2>1, <2>3 DEF IInv, Types, TypeOK, CallInv, DeleteInv, ReadsLastWritten
  <2>5. MirrorInv' /\ CopiesInv'
    BY <2>1, <2>2, <2>3 DEF IInv, MirrorInv, CopiesInv, Mirroring
  <2> QED BY <2>4, <2>5 DEF IInv
<1> QED BY <1>1, <1>2, <1>3, <1>4 DEF Next

\* The inductive invariant holds in every state: it survives every answer of every store,
\* both wrappers, and processes that die.
THEOREM Invariance == Spec => []IInv
BY InitInv, NextInv, PTL DEF Spec

\* Positions and cursors stay in the list whose store they name, however the loops of
\* _put, _get and _delete go around (multibackend.py).
THEOREM TypesKept == Spec => []TypeOK
<1>1. IInv => TypeOK
  BY DEF IInv, Types
<1> QED BY <1>1, Invariance, PTL

\* With mirror and abort, a put that returned left the file whole on every store that is
\* eligible for it, whatever was put, deleted and repeated since (multibackend.py:_put).
THEOREM MirrorsStayAlike == Spec => []MirrorsAgree
<1>1. IInv => MirrorsAgree
  BY DEF IInv, MirrorInv, MirrorsAgree, Mirroring
<1> QED BY <1>1, Invariance, PTL

\* A get returns what the last put of the file wrote (multibackend.py:_get).
THEOREM GetsReadLast == Spec => []ReadsLastWritten
<1>1. IInv => ReadsLastWritten
  BY DEF IInv
<1> QED BY <1>1, Invariance, PTL

LEMMA RunsCounted == Spec => [](runs \in Nat)
<1>1. Init => runs \in Nat
  BY DEF Init
<1>2. runs \in Nat /\ [Next]_vars => (runs \in Nat)'
  <2> SUFFICES ASSUME runs \in Nat, [Next]_vars PROVE runs' \in Nat
    OBVIOUS
  <2>1. runs' = runs \/ runs' = runs + 1
    BY DEF Next, Answer, BeginPut, BeginGet, BeginDelete, Begin, PutDone, PutFails,
       PutFatal, FindHas, FindHasNot, GetDone, ReadFails, ReadFatal, DeleteDone, DeleteFails,
       NewRun, bounds, vars
  <2> QED BY <2>1
<1> QED BY <1>1, <1>2, PTL DEF Spec

\* The steps at which a deletion returns.
LEMMA DeletionEnds ==
  ASSUME IInv, runs \in Nat, [Next]_vars, call.op = "delete", pc' = "idle", runs' = runs
  PROVE  FindHasNot \/ DeleteDone \/ DeleteFails
<1>1. pc \notin {"idle", "dead", "put", "get"}
  BY DEF IInv, CallInv
<1>2. ~UNCHANGED vars /\ ~NewRun /\ ~FindHas
  <2>1. ~NewRun
    BY DEF NewRun
  <2> QED BY <1>1, <2>1 DEF vars, FindHas
<1>3. ~ReadFails /\ ~ReadFatal
  BY <1>1 DEF ReadFails, ReadFatal, Again, Die
<1> QED BY <1>1, <1>2, <1>3 DEF Next, Answer, BeginPut, BeginGet, BeginDelete, Begin,
        PutDone, PutFails, PutFatal, GetDone

\* Once a deletion has returned, and did not give up on a store, no eligible store has the
\* file: neither a copy of another store nor a torn one (multibackend.py:_delete).
THEOREM DeletionsLeaveNothing == Spec => DeletedEverywhere
<1> DEFINE Gone == \A s \in Range(E) : store'[s][call.file] = Absent
           Kept == config.mode = "stripe" /\ call.file \in doubled
<1>1. ASSUME IInv, runs \in Nat, [Next]_vars, call.op = "delete", pc' = "idle", runs' = runs
      PROVE  call.file \in leftover' \/ Kept \/ Gone
  <2>1. pc \in {"find", "delete"}
    BY <1>1, DeletionEnds DEF FindHasNot, DeleteDone, DeleteFails
  <2>2. /\ Here = E[at] /\ Here \in Stores /\ call.file \in Files /\ at \in DOMAIN E
        /\ DOMAIN E = 1..Len(E) /\ Len(E) \in Stores
        /\ \A i \in DOMAIN E : E[i] \in Stores
        /\ store \in [Stores -> [Files -> Content]]
    BY <1>1, <2>1, HereIs DEF IInv, CallInv, Types, TypeOK
  <2>3. at \in Nat /\ Len(E) \in Nat /\ at <= Len(E) /\ at >= 1
    BY <2>2, SizesAssumption DEF Stores
  <2>4. ASSUME at = Len(E), call.file \notin leftover, store'[E[at]][call.file] = Absent,
               \A i \in 1..(at - 1) :
                 store'[E[i]][call.file] \in {store[E[i]][call.file], Absent}
        PROVE  Gone
    <3>1. \A i \in DOMAIN E : i = at \/ i \in 1..(at - 1)
      BY <2>2, <2>3, <2>4
    <3>2. \A i \in 1..(at - 1) : store[E[i]][call.file] = Absent
      BY <1>1, <2>4 DEF IInv, DeleteInv
    <3>3. \A i \in DOMAIN E : store'[E[i]][call.file] = Absent
      BY <2>4, <3>1, <3>2
    <3> QED BY <3>3 DEF Range
  <2>5. CASE FindHasNot
    <3>1. pc = "find" /\ store[E[at]][call.file] = Absent /\ store' = store
          /\ leftover' = leftover
      BY <2>2, <2>5 DEF FindHasNot
    <3>2. at = Len(E)
      BY <1>1, <2>3, <2>5, <3>1 DEF FindHasNot, E
    <3> QED BY <2>4, <3>1, <3>2
  <2>6. CASE DeleteDone
    <3>1. /\ pc = "delete" /\ store' = [store EXCEPT ![E[at]][call.file] = Absent]
          /\ leftover' = leftover
      BY <2>2, <2>6 DEF DeleteDone
    <3>2. config.mode = "stripe" \/ at = Len(E)
      BY <1>1, <2>6, <3>1 DEF DeleteDone, AfterDelete, E
    <3>3. Absent \in Content
      BY SizesAssumption DEF Absent, Content
    <3>4. \A s \in Stores, g \in Files :
            store'[s][g] = IF s = E[at] /\ g = call.file THEN Absent ELSE store[s][g]
      BY <2>2, <3>1, <3>3, StoreChanges
    <3>5. CASE config.mode = "stripe" /\ call.file \notin doubled
      <4>1. \A s \in Stores \ {E[at]} : store[s][call.file] = Absent
        BY <1>1, <3>1, <3>5 DEF IInv, DeleteInv
      <4>2. \A s \in Stores : store'[s][call.file] = Absent
        BY <2>2, <3>4, <4>1
      <4> QED BY <2>2, <4>2 DEF Range
    <3>6. CASE at = Len(E)
      <4>1. store'[E[at]][call.file] = Absent
        BY <2>2, <3>4
      <4>2. \A i \in 1..(at - 1) : E[i] \in Stores
        BY <2>2, <2>3
      <4>3. \A i \in 1..(at - 1) :
              store'[E[i]][call.file] \in {store[E[i]][call.file], Absent}
        BY <2>2, <3>4, <4>2
      <4> QED BY <2>4, <3>1, <3>6, <4>1, <4>3
    <3> QED BY <3>2, <3>5, <3>6
  <2>7. CASE DeleteFails
    BY <1>1, <2>7 DEF DeleteFails
  <2> QED BY <1>1, <2>5, <2>6, <2>7, DeletionEnds
<1>2. IInv /\ runs \in Nat /\ [Next]_vars =>
        [call.op = "delete" /\ pc' = "idle" /\ runs' = runs =>
           \/ call.file \in leftover' \/ (config.mode = "stripe" /\ call.file \in doubled)
           \/ \A s \in Range(Eligible(call.file)) : store'[s][call.file] = Absent]_vars
  BY <1>1 DEF E
<1> QED BY <1>2, Invariance, RunsCounted, PTL DEF Spec, DeletedEverywhere
=============================================================================
