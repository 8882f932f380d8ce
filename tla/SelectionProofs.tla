--------------------------- MODULE SelectionProofs ----------------------------
(***************************************************************************)
(* Proofs about Selection, for every tree, every list of options and any   *)
(* paths removed during the walk: what the iterator gives is in order, and *)
(* every path comes after its directory.  For a source nobody changes: it  *)
(* gives exactly what the options ask for, and of the conditions that      *)
(* match a path the first decides.                                         *)
(*                                                                         *)
(* The invariant relates the two stacks to what was given.  The frames are *)
(* nested, each in the directory of the one below it and before the names  *)
(* left there; all that can still be given is after the last path given;   *)
(* the directories held back are those of the upper frames, and those of   *)
(* the lower ones were given (Good).  What was given should be, and what   *)
(* should be was given unless the names left in a frame still lead to it   *)
(* (Exact).                                                                *)
(***************************************************************************)
EXTENDS Selection, FiniteSetTheorems, SequenceTheorems, TLAPS

Paths    == Seq(Nat)
FrameSet == [dir : Paths, listed : BOOLEAN, names : Paths]
EntrySet == [path : Paths, type : NodeTypes \cup {"none"}]

\* Numbers in ascending order.
Ascends(s) == \A i, j \in 1..Len(s) : i < j => s[i] < s[j]

\* IsPrefix, place by place.
StartsWith(q, p) == Len(p) <= Len(q) /\ \A i \in 1..Len(p) : p[i] = q[i]

-----------------------------------------------------------------------------
(* Sequences. *)

\* All but the last member.
LEMMA FrontOf ==
  ASSUME NEW S, NEW s \in Seq(S), s # <<>>
  PROVE  /\ Front(s) \in Seq(S) /\ Len(Front(s)) = Len(s) - 1
         /\ \A i \in 1..Len(s) - 1 : Front(s)[i] = s[i]
         /\ Last(s) = s[Len(s)] /\ Last(s) \in S
         /\ Len(s) \in Nat /\ Len(s) >= 1
<1>1. Len(s) \in Nat /\ Len(s) >= 1
  BY EmptySeq
<1>2. \A i \in 1..Len(s) - 1 : s[i] \in S
  BY <1>1, ElementOfSeq
<1>3. /\ SubSeq(s, 1, Len(s) - 1) \in Seq(S)
      /\ Len(SubSeq(s, 1, Len(s) - 1)) = Len(s) - 1
      /\ \A i \in 1..Len(s) - 1 : SubSeq(s, 1, Len(s) - 1)[i] = s[i]
  <2>1. /\ SubSeq(s, 1, Len(s) - 1) \in Seq(S)
        /\ Len(SubSeq(s, 1, Len(s) - 1))
             = IF 1 <= Len(s) - 1 THEN Len(s) - 1 - 1 + 1 ELSE 0
        /\ \A i \in 1..Len(s) - 1 - 1 + 1 : SubSeq(s, 1, Len(s) - 1)[i] = s[1 + i - 1]
    BY <1>1, <1>2, SubSeqProperties
  <2>2. Len(s) - 1 - 1 + 1 = Len(s) - 1 /\ \A i \in Nat : 1 + i - 1 = i
    BY <1>1
  <2>3. (IF 1 <= Len(s) - 1 THEN Len(s) - 1 - 1 + 1 ELSE 0) = Len(s) - 1
    <3>1. CASE 1 <= Len(s) - 1
      BY <1>1, <2>2, <3>1
    <3>2. CASE Len(s) = 1
      <4>1. ~ (1 <= Len(s) - 1) /\ Len(s) - 1 = 0
        BY <3>2
      <4> QED BY <4>1
    <3>3. 1 <= Len(s) - 1 \/ Len(s) = 1
      <4>1. \A n \in Nat : n >= 1 => 1 <= n - 1 \/ n = 1
        OBVIOUS
      <4> QED BY <1>1, <4>1
    <3> QED BY <3>1, <3>2, <3>3
  <2>4. \A i \in 1..Len(s) - 1 : i \in Nat
    BY <1>1
  <2> QED BY <2>1, <2>2, <2>3, <2>4
<1>4. s[Len(s)] \in S
  BY <1>1, ElementOfSeq
<1> QED BY <1>1, <1>3, <1>4 DEF Front, Last

\* A path with one more name: its directory is the path.
LEMMA InDirectory ==
  ASSUME NEW p \in Paths, NEW x \in Nat
  PROVE  /\ Append(p, x) \in Paths /\ Front(Append(p, x)) = p
         /\ Len(Append(p, x)) = Len(p) + 1 /\ Append(p, x)[Len(p) + 1] = x
         /\ \A i \in 1..Len(p) : Append(p, x)[i] = p[i]
         /\ Len(p) \in Nat
<1>1. /\ Append(p, x) \in Paths /\ Append(p, x) # <<>>
      /\ Len(Append(p, x)) = Len(p) + 1 /\ Append(p, x)[Len(p) + 1] = x
      /\ \A i \in 1..Len(p) : Append(p, x)[i] = p[i]
  BY AppendProperties DEF Paths
<1>2. Len(p) \in Nat
  BY LenProperties DEF Paths
<1>3. /\ Front(Append(p, x)) \in Paths /\ Len(Front(Append(p, x))) = Len(Append(p, x)) - 1
      /\ \A i \in 1..Len(Append(p, x)) - 1 : Front(Append(p, x))[i] = Append(p, x)[i]
  BY <1>1, FrontOf DEF Paths
<1>4. Len(Append(p, x)) - 1 = Len(p)
  BY <1>1, <1>2
<1>5. Front(Append(p, x)) = p
  <2>1. \A i \in 1..Len(p) : Front(Append(p, x))[i] = p[i]
    BY <1>1, <1>3, <1>4
  <2> QED BY <1>3, <1>4, <2>1, SeqEqual DEF Paths
<1> QED BY <1>1, <1>2, <1>5

LEMMA PrefixByPlace ==
  ASSUME NEW p \in Paths, NEW q \in Paths
  PROVE  IsPrefix(p, q) <=> StartsWith(q, p)
<1>1. Len(p) \in Nat /\ Len(q) \in Nat
  BY LenProperties DEF Paths
<1>2. SubSeq(p, 1, Len(p)) = p
  BY SubSeqFull DEF Paths
<1>3. ASSUME Len(p) <= Len(q)
      PROVE  /\ SubSeq(q, 1, Len(p)) \in Paths /\ Len(SubSeq(q, 1, Len(p))) = Len(p)
             /\ \A i \in 1..Len(p) : SubSeq(q, 1, Len(p))[i] = q[i]
  <2>1. \A i \in 1..Len(p) : q[i] \in Nat
    BY <1>1, <1>3, ElementOfSeq DEF Paths
  <2>2. /\ SubSeq(q, 1, Len(p)) \in Seq(Nat)
        /\ Len(SubSeq(q, 1, Len(p))) = IF 1 <= Len(p) THEN Len(p) - 1 + 1 ELSE 0
        /\ \A i \in 1..Len(p) - 1 + 1 : SubSeq(q, 1, Len(p))[i] = q[1 + i - 1]
    BY <1>1, <2>1, SubSeqProperties
  <2>3. Len(p) - 1 + 1 = Len(p) /\ \A i \in 1..Len(p) : 1 + i - 1 = i
    BY <1>1
  <2>4. (IF 1 <= Len(p) THEN Len(p) - 1 + 1 ELSE 0) = Len(p)
    BY <1>1
  <2> QED BY <2>2, <2>3, <2>4 DEF Paths
<1>4. ASSUME Len(p) <= Len(q)
      PROVE  p = SubSeq(q, 1, Len(p)) <=> \A i \in 1..Len(p) : p[i] = q[i]
  <2>1. (\A i \in 1..Len(p) : p[i] = q[i]) => p = SubSeq(q, 1, Len(p))
    BY <1>3, <1>4, SeqEqual DEF Paths
  <2> QED BY <1>3, <1>4, <2>1
<1> QED BY <1>2, <1>4 DEF IsPrefix, StartsWith

-----------------------------------------------------------------------------
(* The order of paths. *)

\* A path in a directory comes after all that is before the directory.
LEMMA BeforeInside ==
  ASSUME NEW p \in Paths, NEW q \in Paths, NEW x \in Nat, Before(p, q)
  PROVE  Before(p, Append(q, x))
<1> DEFINE r == Append(q, x)
<1>1. /\ r \in Paths /\ Len(r) = Len(q) + 1 /\ \A i \in 1..Len(q) : r[i] = q[i]
      /\ Len(q) \in Nat
  BY InDirectory
<1>2. Len(p) \in Nat /\ DOMAIN p = 1..Len(p) /\ DOMAIN q = 1..Len(q) /\ DOMAIN r = 1..Len(r)
  BY <1>1, LenProperties DEF Paths
<1> HIDE DEF r
<1>3. CASE p # q /\ IsPrefix(p, q)
  <2>1. StartsWith(q, p)
    BY <1>3, PrefixByPlace
  <2>2. StartsWith(r, p) /\ Len(p) < Len(r)
    BY <1>1, <1>2, <2>1 DEF StartsWith
  <2>3. IsPrefix(p, r) /\ p # r
    BY <1>1, <1>2, <2>2, PrefixByPlace
  <2> QED BY <2>3 DEF Before, r
<1>4. CASE \E i \in DOMAIN p \cap DOMAIN q :
             p[i] < q[i] /\ \A j \in 1..i - 1 : p[j] = q[j]
  <2>1. PICK i \in DOMAIN p \cap DOMAIN q :
               p[i] < q[i] /\ \A j \in 1..i - 1 : p[j] = q[j]
    BY <1>4
  <2>2. i \in DOMAIN p \cap DOMAIN r /\ p[i] < r[i]
    BY <1>1, <1>2, <2>1
  <2>3. \A j \in 1..i - 1 : p[j] = r[j]
    <3>1. \A j \in 1..i - 1 : j \in 1..Len(q)
      BY <1>1, <1>2
    <3> QED BY <1>1, <2>1, <3>1
  <2> QED BY <2>2, <2>3 DEF Before, r
<1> QED BY <1>3, <1>4 DEF Before

\* A directory comes before what is in it.
LEMMA BeforeContents ==
  ASSUME NEW p \in Paths, NEW x \in Nat
  PROVE  Before(p, Append(p, x))
<1> DEFINE r == Append(p, x)
<1>1. r \in Paths /\ Len(r) = Len(p) + 1 /\ (\A i \in 1..Len(p) : r[i] = p[i]) /\ Len(p) \in Nat
  BY InDirectory
<1> HIDE DEF r
<1>2. StartsWith(r, p) /\ p # r
  BY <1>1 DEF StartsWith
<1>3. IsPrefix(p, r)
  BY <1>1, <1>2, PrefixByPlace
<1> QED BY <1>2, <1>3 DEF Before, r

\* All that is in a directory comes before the names after it.
LEMMA BeforeNeighbour ==
  ASSUME NEW p \in Paths, NEW q \in Paths, NEW x \in Nat, NEW y \in Nat,
         StartsWith(p, Append(q, x)), x < y
  PROVE  Before(p, Append(q, y))
<1> DEFINE a == Append(q, x)
           b == Append(q, y)
<1>1. /\ Len(a) = Len(q) + 1 /\ a[Len(q) + 1] = x /\ \A i \in 1..Len(q) : a[i] = q[i]
      /\ b \in Paths /\ Len(b) = Len(q) + 1 /\ b[Len(q) + 1] = y
      /\ \A i \in 1..Len(q) : b[i] = q[i]
      /\ Len(q) \in Nat
  BY InDirectory
<1>2. StartsWith(p, a)
  OBVIOUS
<1> HIDE DEF a, b
<1>3. Len(p) \in Nat /\ DOMAIN p = 1..Len(p) /\ DOMAIN b = 1..Len(b)
  BY <1>1, LenProperties DEF Paths
<1>4. Len(q) + 1 <= Len(p) /\ (\A i \in 1..Len(q) + 1 : a[i] = p[i])
  BY <1>1, <1>2 DEF StartsWith
<1>5. Len(q) + 1 \in DOMAIN p \cap DOMAIN b /\ p[Len(q) + 1] < b[Len(q) + 1]
  BY <1>1, <1>3, <1>4
<1>6. \A j \in 1..Len(q) + 1 - 1 : p[j] = b[j]
  BY <1>1, <1>4
<1> QED BY <1>5, <1>6 DEF Before, b

-----------------------------------------------------------------------------
(* What listing a directory gives. *)

\* A finite set of numbers has a greatest member, unless it is empty.
LEMMA HasGreatestName ==
  ASSUME NEW S \in SUBSET Nat, IsFiniteSet(S), S # {}
  PROVE  \E e \in S : \A t \in S : t <= e
<1> DEFINE Beyond(e) == {t \in S : e < t}
           All == {Beyond(e) : e \in S}
<1>1. All \subseteq SUBSET S /\ All # {}
  OBVIOUS
<1>2. PICK U \in All : \A X \in All : ~ (<<X, U>> \in StrictSubsetOrdering(S))
  <2>1. IsWellFoundedOn(StrictSubsetOrdering(S), SUBSET S)
    BY FS_StrictSubsetOrderingWellFounded, FS_FiniteSubsetsOfFinite
  <2> HIDE DEF All
  <2> QED BY <2>1, <1>1, WFMin
<1>3. PICK e \in S : U = Beyond(e)
  BY <1>2
<1>4. ASSUME NEW t \in S, ~ (t <= e)  PROVE FALSE
  <2>1. e < t /\ t \in Nat /\ e \in Nat
    BY <1>4
  <2>2. t \in U /\ t \notin Beyond(t)
    BY <1>3, <2>1
  <2>3. ASSUME NEW u \in Beyond(t)  PROVE u \in U
    BY <1>3, <2>1, <2>3
  <2>4. <<Beyond(t), U>> \in StrictSubsetOrdering(S)
    BY <1>3, <2>2, <2>3 DEF StrictSubsetOrdering
  <2> QED BY <1>2, <2>4
<1> QED BY <1>4

Sorts(s, T) ==
  /\ s \in [1..Cardinality(T) -> T]
  /\ \A i, j \in 1..Cardinality(T) : i < j => s[i] < s[j]

\* The greatest member goes last.
LEMMA SortsOneMore ==
  ASSUME NEW U \in SUBSET Nat, IsFiniteSet(U), NEW e \in U, \A t \in U : t <= e,
         NEW s, Sorts(s, U \ {e})
  PROVE  \E r : Sorts(r, U)
<1> DEFINE n == Cardinality(U)
           r == [i \in 1..n |-> IF i = n THEN e ELSE s[i]]
<1>1. Cardinality(U \ {e}) = n - 1 /\ n \in Nat
  BY FS_RemoveElement, FS_CardinalityType
<1> HIDE DEF n
<1>2. \A i \in 1..n : i # n => i \in 1..n - 1
  BY <1>1
<1>3. \A i \in 1..n - 1 : s[i] \in U \ {e}
  BY <1>1 DEF Sorts
<1>4. r \in [1..n -> U]
  BY <1>2, <1>3
<1>5. ASSUME NEW i \in 1..n, NEW j \in 1..n, i < j  PROVE r[i] < r[j]
  <2>1. i \in 1..n - 1 /\ i # n
    BY <1>1, <1>5
  <2>2. r[i] = s[i] /\ s[i] \in U /\ s[i] # e /\ s[i] \in Nat /\ e \in Nat
    BY <1>3, <2>1
  <2>3. CASE j = n
    BY <2>2, <2>3
  <2>4. CASE j # n
    <3>1. r[j] = s[j] /\ j \in 1..n - 1
      BY <1>2, <2>4
    <3> QED BY <1>1, <1>5, <2>1, <2>2, <3>1 DEF Sorts
  <2> QED BY <2>3, <2>4
<1> QED BY <1>4, <1>5 DEF Sorts, n

LEMMA CanBeSorted ==
  ASSUME NEW S \in SUBSET Nat, IsFiniteSet(S)
  PROVE  \E s : Sorts(s, S)
<1> DEFINE Bad == {T \in SUBSET S : ~ \E s : Sorts(s, T)}
<1>1. SUFFICES Bad = {}
  OBVIOUS
<1>2. SUFFICES ASSUME Bad # {} PROVE FALSE
  OBVIOUS
<1>3. PICK U \in Bad : \A T \in Bad : ~ (<<T, U>> \in StrictSubsetOrdering(S))
  <2>1. IsWellFoundedOn(StrictSubsetOrdering(S), SUBSET S)
    BY FS_StrictSubsetOrderingWellFounded, FS_FiniteSubsetsOfFinite
  <2>2. Bad \subseteq SUBSET S
    OBVIOUS
  <2> HIDE DEF Bad
  <2> QED BY <1>2, <2>1, <2>2, WFMin
<1>4. U \in SUBSET Nat /\ U \subseteq S /\ IsFiniteSet(U) /\ ~ \E s : Sorts(s, U)
  BY <1>3, FS_Subset
<1>5. CASE U = {}
  <2>1. Cardinality(U) = 0
    BY <1>5, FS_EmptySet
  <2>2. Sorts([i \in 1..0 |-> i], U)
    BY <1>5, <2>1 DEF Sorts
  <2> QED BY <1>4, <2>2
<1>6. CASE U # {}
  <2>1. PICK e \in U : \A t \in U : t <= e
    BY <1>4, <1>6, HasGreatestName
  <2>2. U \ {e} \notin Bad
    <3>1. <<U \ {e}, U>> \in StrictSubsetOrdering(S)
      BY <1>4 DEF StrictSubsetOrdering
    <3> QED BY <1>3, <3>1
  <2>3. PICK s : Sorts(s, U \ {e})
    BY <1>4, <2>2
  <2>4. \E r : Sorts(r, U)
    BY <1>4, <2>1, <2>3, SortsOneMore
  <2> QED BY <1>4, <2>4
<1> QED BY <1>5, <1>6

LEMMA AscendingSorts ==
  ASSUME NEW S \in SUBSET Nat, IsFiniteSet(S)
  PROVE  /\ Ascending(S) \in Paths /\ Ascends(Ascending(S))
         /\ \A i \in 1..Len(Ascending(S)) : Ascending(S)[i] \in S
         /\ \A x \in S : \E i \in 1..Len(Ascending(S)) : Ascending(S)[i] = x
<1> DEFINE n == Cardinality(S)
           t == Ascending(S)
<1>1. n \in Nat
  BY FS_CardinalityType
<1>2. PICK s : Sorts(s, S)
  BY CanBeSorted
<1>3. s \in [1..n -> S] /\ \A i, j \in DOMAIN s : i < j => s[i] < s[j]
  BY <1>2 DEF Sorts
<1>4. t \in [1..n -> S] /\ \A i, j \in DOMAIN t : i < j => t[i] < t[j]
  BY <1>3 DEF Ascending
<1> HIDE DEF t
<1>5. t \in [1..n -> Nat] /\ DOMAIN t = 1..n
  BY <1>4
<1>6. t \in Seq(Nat) /\ Len(t) = n
  <2> HIDE DEF n
  <2> QED BY <1>1, <1>5
<1>7. Ascends(t)
  BY <1>4, <1>5, <1>6 DEF Ascends
<1>8. t \in Surjection(1..n, S)
  <2>1. \A i, j \in 1..n : i # j => t[i] # t[j]
    <3> SUFFICES ASSUME NEW i \in 1..n, NEW j \in 1..n, i < j PROVE t[i] # t[j]
      BY <1>1
    <3>1. t[i] < t[j] /\ t[i] \in Nat /\ t[j] \in Nat
      BY <1>4, <1>5
    <3> QED BY <3>1
  <2>2. t \in Injection(1..n, S)
    BY <1>4, <2>1 DEF Injection, IsInjective
  <2>3. IsFiniteSet(1..n) /\ Cardinality(1..n) = Cardinality(S)
    BY <1>1, FS_Interval
  <2> QED BY <2>2, <2>3, FS_Injection
<1>9. (\A i \in 1..n : t[i] \in S) /\ \A x \in S : \E i \in 1..n : t[i] = x
  BY <1>4, <1>8 DEF Surjection
<1> QED BY <1>6, <1>7, <1>9 DEF Paths, t

-----------------------------------------------------------------------------
(* The invariant. *)

Typed(stk, del, yld) ==
  stk \in Seq(FrameSet) /\ del \in Seq(EntrySet) /\ yld \in Seq(EntrySet)

\* Each directory is in the one below it, before the names left there.
Nested(stk) ==
  \A k \in 1..Len(stk) - 1 :
    /\ stk[k].listed
    /\ \E x \in Nat : /\ stk[k + 1].dir = Append(stk[k].dir, x)
                      /\ \A i \in 1..Len(stk[k].names) : x < stk[k].names[i]

\* So each is in all below it.
Stacked(stk) ==
  \A j, k \in 1..Len(stk) : j <= k => StartsWith(stk[k].dir, stk[j].dir)

Sorted(stk) == \A k \in 1..Len(stk) : Ascends(stk[k].names)

\* The names a frame may still have.
Left(f) == {x \in Nat : f.listed => \E i \in 1..Len(f.names) : f.names[i] = x}

\* All that is left is after the last path given.
Ahead(stk, yld) ==
  \A k \in 1..Len(stk) : \A x \in Left(stk[k]) :
    Before(Last(yld).path, Append(stk[k].dir, x))

\* The directories held back are the upper ones of the stack.
HeldBack(stk, del, yld) ==
  /\ del = <<>> \/ Len(del) < Len(stk)
  /\ \A i \in 1..Len(del) : /\ del[i].type = "dir"
                            /\ del[i].path = stk[Len(stk) - Len(del) + i].dir
  /\ del # <<>> => Before(Last(yld).path, del[1].path)

\* The lower ones were given.
Given(stk, del, yld) ==
  \A k \in 1..Len(stk) - Len(del) :
    \E j \in 1..Len(yld) : yld[j].path = stk[k].dir /\ yld[j].type = "dir"

Consecutive(yld) == \A i \in 1..Len(yld) - 1 : Before(yld[i].path, yld[i + 1].path)

AfterParent(yld, i) ==
  \E j \in 1..i - 1 : yld[j].path = Front(yld[i].path) /\ yld[j].type = "dir"

Good(stk, del, yld) ==
  /\ Typed(stk, del, yld) /\ (stk # <<>> => yld # <<>>)
  /\ Nested(stk) /\ Stacked(stk) /\ Sorted(stk)
  /\ Ahead(stk, yld) /\ HeldBack(stk, del, yld) /\ Given(stk, del, yld)
  /\ Consecutive(yld) /\ \A i \in 2..Len(yld) : AfterParent(yld, i)

TreeOK ==
  IsFiniteSet(tree) /\ \A n \in tree : n.path \in Seq(Names) /\ n.type \in NodeTypes

WalkInv ==
  /\ TreeOK
  /\ Good(stack, delayed, yielded)
  /\ phase = "options" => stack = <<>>

-----------------------------------------------------------------------------
(* What each operation does to the stacks. *)

LEMMA ReplaceTop ==
  ASSUME NEW stk \in Seq(FrameSet), stk # <<>>, NEW f \in FrameSet
  PROVE  LET r == Append(Front(stk), f)
         IN  /\ r \in Seq(FrameSet) /\ r # <<>> /\ Len(r) = Len(stk)
             /\ \A i \in 1..Len(stk) - 1 : r[i] = stk[i]
             /\ r[Len(stk)] = f
             /\ Last(stk) = stk[Len(stk)] /\ Len(stk) \in Nat /\ Len(stk) >= 1
<1>1. /\ Front(stk) \in Seq(FrameSet) /\ Len(Front(stk)) = Len(stk) - 1
      /\ \A i \in 1..Len(stk) - 1 : Front(stk)[i] = stk[i]
      /\ Last(stk) = stk[Len(stk)] /\ Len(stk) \in Nat /\ Len(stk) >= 1
  BY FrontOf
<1> DEFINE q == Front(stk)
           r == Append(q, f)
<1>2. q \in Seq(FrameSet)
  BY <1>1
<1> HIDE DEF q
<1>3. /\ r \in Seq(FrameSet) /\ r # <<>> /\ Len(r) = Len(q) + 1
      /\ \A i \in 1..Len(q) : r[i] = q[i]
      /\ r[Len(q) + 1] = f
  BY <1>2, AppendProperties
<1>4. Len(q) = Len(stk) - 1 /\ \A i \in 1..Len(stk) - 1 : q[i] = stk[i]
  BY <1>1 DEF q
<1>5. Len(q) + 1 = Len(stk)
  BY <1>1, <1>4
<1> HIDE DEF r
<1>6. /\ r \in Seq(FrameSet) /\ r # <<>> /\ Len(r) = Len(stk)
      /\ \A i \in 1..Len(stk) - 1 : r[i] = stk[i]
      /\ r[Len(stk)] = f
  BY <1>3, <1>4, <1>5
<1> QED BY <1>1, <1>6 DEF r, q

\* The frame on the top loses names, or has them listed.
LEMMA ReplaceKeeps ==
  ASSUME NEW stk, NEW del, NEW yld, Good(stk, del, yld), stk # <<>>,
         NEW f \in FrameSet, f.dir = Last(stk).dir, Ascends(f.names),
         Left(f) \subseteq Left(Last(stk))
  PROVE  Good(Append(Front(stk), f), del, yld)
<1> DEFINE r == Append(Front(stk), f)
<1>1. stk \in Seq(FrameSet) /\ del \in Seq(EntrySet)
  BY DEF Good, Typed
<1>2. /\ r \in Seq(FrameSet) /\ r # <<>> /\ Len(r) = Len(stk)
      /\ \A i \in 1..Len(stk) - 1 : r[i] = stk[i]
      /\ r[Len(stk)] = f
      /\ Last(stk) = stk[Len(stk)] /\ Len(stk) \in Nat /\ Len(stk) >= 1
  BY <1>1, ReplaceTop
<1> HIDE DEF r
<1>3. \A k \in 1..Len(stk) : /\ r[k].dir = stk[k].dir
                             /\ k # Len(stk) => r[k] = stk[k]
                             /\ k = Len(stk) => r[k] = f
  BY <1>2
<1>4. Nested(r)
  <2> SUFFICES ASSUME NEW k \in 1..Len(r) - 1
               PROVE  /\ r[k].listed
                      /\ \E x \in Nat : /\ r[k + 1].dir = Append(r[k].dir, x)
                                        /\ \A i \in 1..Len(r[k].names) : x < r[k].names[i]
    BY DEF Nested
  <2>1. k \in 1..Len(stk) /\ k + 1 \in 1..Len(stk) /\ k # Len(stk) /\ k \in 1..Len(stk) - 1
    BY <1>2
  <2>2. r[k] = stk[k] /\ r[k + 1].dir = stk[k + 1].dir
    BY <1>3, <2>1
  <2> QED BY <2>1, <2>2 DEF Good, Nested
<1>5. Stacked(r)
  <2> SUFFICES ASSUME NEW j \in 1..Len(stk), NEW k \in 1..Len(stk), j <= k
               PROVE  StartsWith(r[k].dir, r[j].dir)
    BY <1>2 DEF Stacked
  <2>1. StartsWith(stk[k].dir, stk[j].dir)
    BY DEF Good, Stacked
  <2> QED BY <1>3, <2>1
<1>6. Sorted(r)
  BY <1>2, <1>3 DEF Good, Sorted
<1>7. Ahead(r, yld)
  <2> SUFFICES ASSUME NEW k \in 1..Len(stk), NEW x \in Left(r[k])
               PROVE  Before(Last(yld).path, Append(r[k].dir, x))
    BY <1>2 DEF Ahead
  <2>1. x \in Left(stk[k])
    BY <1>2, <1>3
  <2>2. Before(Last(yld).path, Append(stk[k].dir, x))
    BY <2>1 DEF Good, Ahead
  <2> QED BY <1>3, <2>2
<1>8. HeldBack(r, del, yld)
  <2>1. del = <<>> \/ Len(del) < Len(r)
    BY <1>2 DEF Good, HeldBack
  <2>2. ASSUME NEW i \in 1..Len(del)
        PROVE  del[i].type = "dir" /\ del[i].path = r[Len(r) - Len(del) + i].dir
    <3>1. del[i].type = "dir" /\ del[i].path = stk[Len(stk) - Len(del) + i].dir
      BY DEF Good, HeldBack
    <3>2. Len(del) \in Nat /\ Len(del) < Len(stk)
      BY <1>1, <1>2, <2>1, EmptySeq, LenProperties
    <3>3. Len(stk) - Len(del) + i \in 1..Len(stk)
      BY <1>2, <3>2
    <3> QED BY <1>2, <1>3, <3>1, <3>3
  <2>3. del # <<>> => Before(Last(yld).path, del[1].path)
    BY DEF Good, HeldBack
  <2> QED BY <2>1, <2>2, <2>3 DEF HeldBack
<1>9. Given(r, del, yld)
  <2> SUFFICES ASSUME NEW k \in 1..Len(stk) - Len(del)
               PROVE  \E j \in 1..Len(yld) : yld[j].path = r[k].dir /\ yld[j].type = "dir"
    BY <1>2 DEF Given
  <2>1. Len(del) \in Nat
    BY <1>1, LenProperties
  <2>2. k \in 1..Len(stk)
    BY <1>2, <2>1
  <2> QED BY <1>3, <2>2 DEF Good, Given
<1>10. Typed(r, del, yld)
  BY <1>2 DEF Good, Typed
<1>11. yld # <<>>
  BY DEF Good
<1> QED BY <1>4, <1>5, <1>6, <1>7, <1>8, <1>9, <1>10, <1>11 DEF Good, r

\* The directory on the top is done.
LEMMA PopKeeps ==
  ASSUME NEW stk, NEW del, NEW yld, Good(stk, del, yld), stk # <<>>
  PROVE  Good(Front(stk), IF del = <<>> THEN <<>> ELSE Front(del), yld)
<1> DEFINE r == Front(stk)
           d == IF del = <<>> THEN <<>> ELSE Front(del)
<1>1. stk \in Seq(FrameSet) /\ del \in Seq(EntrySet)
  BY DEF Good, Typed
<1>2. /\ r \in Seq(FrameSet) /\ Len(r) = Len(stk) - 1
      /\ \A i \in 1..Len(stk) - 1 : r[i] = stk[i]
      /\ Len(stk) \in Nat /\ Len(stk) >= 1
  BY <1>1, FrontOf
<1>3. /\ d \in Seq(EntrySet) /\ (d # <<>> => del # <<>>)
      /\ \A i \in 1..Len(d) : i \in 1..Len(del) /\ d[i] = del[i]
      /\ Len(d) \in Nat /\ Len(del) \in Nat
      /\ del = <<>> => Len(d) = 0 /\ d = <<>>
      /\ del # <<>> => Len(d) = Len(del) - 1
  <2>1. CASE del = <<>>
    BY <2>1, EmptySeq
  <2>2. CASE del # <<>>
    <3>1. /\ Front(del) \in Seq(EntrySet) /\ Len(Front(del)) = Len(del) - 1
          /\ \A i \in 1..Len(del) - 1 : Front(del)[i] = del[i]
          /\ Len(del) \in Nat /\ Len(del) >= 1
      BY <1>1, <2>2, FrontOf
    <3>2. \A i \in 1..Len(del) - 1 : i \in 1..Len(del)
      BY <3>1
    <3>3. d = Front(del)
      BY <2>2
    <3> QED BY <2>2, <3>1, <3>2, <3>3
  <2> QED BY <2>1, <2>2
<1> HIDE DEF r, d
<1>4. \A k \in 1..Len(r) : k \in 1..Len(stk) /\ r[k] = stk[k]
  BY <1>2
<1>5. Nested(r)
  <2> SUFFICES ASSUME NEW k \in 1..Len(r) - 1
               PROVE  /\ r[k].listed
                      /\ \E x \in Nat : /\ r[k + 1].dir = Append(r[k].dir, x)
                                        /\ \A i \in 1..Len(r[k].names) : x < r[k].names[i]
    BY DEF Nested
  <2>1. k \in 1..Len(r) /\ k + 1 \in 1..Len(r) /\ k \in 1..Len(stk) - 1
    BY <1>2
  <2>2. r[k] = stk[k] /\ r[k + 1] = stk[k + 1]
    BY <1>4, <2>1
  <2> QED BY <2>1, <2>2 DEF Good, Nested
<1>6. Stacked(r) /\ Sorted(r) /\ Ahead(r, yld)
  BY <1>4 DEF Good, Stacked, Sorted, Ahead
<1>7. HeldBack(r, d, yld)
  <2>1. d = <<>> \/ Len(d) < Len(r)
    BY <1>2, <1>3 DEF Good, HeldBack
  <2>2. ASSUME NEW i \in 1..Len(d)
        PROVE  d[i].type = "dir" /\ d[i].path = r[Len(r) - Len(d) + i].dir
    <3>1. i \in 1..Len(del) /\ d[i] = del[i] /\ del # <<>>
      BY <1>3
    <3>2. del[i].type = "dir" /\ del[i].path = stk[Len(stk) - Len(del) + i].dir
      BY <3>1 DEF Good, HeldBack
    <3>3. Len(stk) - Len(del) + i = Len(r) - Len(d) + i
      <4>1. Len(r) = Len(stk) - 1 /\ Len(d) = Len(del) - 1
        BY <1>2, <1>3, <3>1
      <4>2. Len(stk) \in Int /\ Len(del) \in Int /\ i \in Int
        BY <1>2, <1>3
      <4>3. \A a, b, c \in Int : a - b + c = a - 1 - (b - 1) + c
        OBVIOUS
      <4> QED BY <4>1, <4>2, <4>3
    <3>4. Len(d) < Len(r)
      BY <2>1, <1>3, EmptySeq
    <3>5. Len(r) - Len(d) + i \in 1..Len(r)
      BY <1>2, <1>3, <3>4
    <3> QED BY <1>4, <3>1, <3>2, <3>3, <3>5
  <2>3. d # <<>> => Before(Last(yld).path, d[1].path)
    <3>1. ASSUME d # <<>> PROVE 1 \in 1..Len(d)
      BY <1>3, <3>1, EmptySeq
    <3> QED BY <1>3, <3>1 DEF Good, HeldBack
  <2> QED BY <2>1, <2>2, <2>3 DEF HeldBack
<1>8. Given(r, d, yld)
  <2> SUFFICES ASSUME NEW k \in 1..Len(r) - Len(d)
               PROVE  \E j \in 1..Len(yld) : yld[j].path = r[k].dir /\ yld[j].type = "dir"
    BY DEF Given
  <2>1. k \in 1..Len(r) /\ k \in 1..Len(stk) - Len(del)
    <3>1. del = <<>> => Len(del) = 0
      BY EmptySeq
    <3> QED BY <1>2, <1>3, <3>1
  <2> QED BY <1>4, <2>1 DEF Good, Given
<1>9. Typed(r, d, yld) /\ yld # <<>>
  BY <1>2, <1>3 DEF Good, Typed
<1> QED BY <1>5, <1>6, <1>7, <1>8, <1>9 DEF Good, r, d

\* The name x is the next of the directory on the top.
Fits(stk, yld, x) ==
  /\ stk # <<>> /\ Last(stk).listed /\ x \in Nat
  /\ \A i \in 1..Len(Last(stk).names) : x < Last(stk).names[i]
  /\ Before(Last(yld).path, Append(Last(stk).dir, x))

LEMMA StartsInside ==
  ASSUME NEW p \in Paths, NEW q \in Paths, NEW x \in Nat, StartsWith(q, p)
  PROVE  StartsWith(Append(q, x), p)
<1> DEFINE r == Append(q, x)
<1>1. Len(r) = Len(q) + 1 /\ (\A i \in 1..Len(q) : r[i] = q[i]) /\ Len(q) \in Nat
  BY InDirectory
<1>2. Len(p) \in Nat
  BY LenProperties DEF Paths
<1> HIDE DEF r
<1>3. StartsWith(r, p)
  BY <1>1, <1>2 DEF StartsWith
<1> QED BY <1>3 DEF r

\* What is given at once.
LEMMA GivenAtOnce ==
  ASSUME NEW yld \in Seq(EntrySet), NEW del \in Seq(EntrySet), NEW e \in EntrySet
  PROVE  LET z == yld \o del \o <<e>>
         IN  /\ z \in Seq(EntrySet) /\ z # <<>> /\ Len(z) = Len(yld) + Len(del) + 1
             /\ \A i \in 1..Len(yld) : z[i] = yld[i]
             /\ \A i \in 1..Len(del) : z[Len(yld) + i] = del[i]
             /\ z[Len(yld) + Len(del) + 1] = e /\ Last(z) = e
             /\ Len(yld) \in Nat /\ Len(del) \in Nat
<1> DEFINE w == yld \o del
           z == Append(w, e)
<1>1. Len(yld) \in Nat /\ Len(del) \in Nat
  BY LenProperties
<1>2. /\ w \in Seq(EntrySet) /\ Len(w) = Len(yld) + Len(del)
      /\ \A i \in 1..Len(yld) + Len(del) :
           w[i] = IF i <= Len(yld) THEN yld[i] ELSE del[i - Len(yld)]
  BY ConcatProperties
<1>3. yld \o del \o <<e>> = z
  BY <1>2, AppendIsConcat
<1> HIDE DEF w
<1>4. /\ z \in Seq(EntrySet) /\ z # <<>> /\ Len(z) = Len(w) + 1
      /\ \A i \in 1..Len(w) : z[i] = w[i]
      /\ z[Len(w) + 1] = e
  BY <1>2, AppendProperties
<1> HIDE DEF z
<1>5. \A i \in 1..Len(yld) : z[i] = yld[i]
  <2>1. \A i \in 1..Len(yld) : i \in 1..Len(w) /\ i <= Len(yld) /\ i \in 1..Len(yld) + Len(del)
    BY <1>1, <1>2
  <2> QED BY <1>2, <1>4, <2>1
<1>6. ASSUME NEW i \in 1..Len(del)  PROVE z[Len(yld) + i] = del[i]
  <2>1. /\ Len(yld) + i \in 1..Len(w) /\ ~ (Len(yld) + i <= Len(yld))
        /\ Len(yld) + i \in 1..Len(yld) + Len(del) /\ Len(yld) + i - Len(yld) = i
    BY <1>1, <1>2
  <2>2. z[Len(yld) + i] = w[Len(yld) + i]
    BY <1>4, <2>1
  <2>3. w[Len(yld) + i] = del[Len(yld) + i - Len(yld)]
    BY <1>2, <2>1
  <2> QED BY <2>1, <2>2, <2>3
<1>7. Last(z) = e
  BY <1>4 DEF Last
<1> QED BY <1>1, <1>2, <1>3, <1>4, <1>5, <1>6, <1>7

\* A path is given, and before it what was held back.
LEMMA YieldKeeps ==
  ASSUME NEW stk, NEW del, NEW yld, Good(stk, del, yld),
         NEW x, Fits(stk, yld, x),
         NEW e \in EntrySet, e.path = Append(Last(stk).dir, x)
  PROVE  Good(stk, <<>>, yld \o del \o <<e>>)
<1> DEFINE z == yld \o del \o <<e>>
           n == Len(stk)
           a == Len(yld)
           b == Len(del)
<1>1. stk \in Seq(FrameSet) /\ del \in Seq(EntrySet) /\ yld \in Seq(EntrySet) /\ yld # <<>>
  BY DEF Good, Typed, Fits
<1>2. /\ z \in Seq(EntrySet) /\ z # <<>> /\ Len(z) = a + b + 1
      /\ \A i \in 1..a : z[i] = yld[i]
      /\ \A i \in 1..b : z[a + i] = del[i]
      /\ z[a + b + 1] = e /\ Last(z) = e
      /\ a \in Nat /\ b \in Nat
  BY <1>1, GivenAtOnce
<1>3. n \in Nat /\ n >= 1 /\ Last(stk) = stk[n] /\ a >= 1 /\ Last(yld) = yld[a]
  BY <1>1, FrontOf DEF Fits
<1>4. /\ b < n
      /\ \A i \in 1..b : del[i].type = "dir" /\ del[i].path = stk[n - b + i].dir
      /\ b # 0 => Before(yld[a].path, del[1].path)
  <2>1. del = <<>> <=> b = 0
    BY <1>1, EmptySeq
  <2> QED BY <1>3, <2>1 DEF Good, HeldBack
<1>5. /\ \A k \in 1..n : stk[k] \in FrameSet /\ stk[k].dir \in Paths
      /\ e.path = Append(stk[n].dir, x) /\ x \in Nat
  <2>1. \A k \in 1..n : stk[k] \in FrameSet
    BY <1>1, ElementOfSeq
  <2>2. \A f \in FrameSet : f.dir \in Paths
    BY DEF FrameSet
  <2>3. e.path = Append(stk[n].dir, x) /\ x \in Nat
    BY <1>3 DEF Fits
  <2> QED BY <2>1, <2>2, <2>3
<1> HIDE DEF z, n, a, b
<1>6. Ahead(stk, z)
  <2> SUFFICES ASSUME NEW k \in 1..n, NEW y \in Left(stk[k])
               PROVE  Before(e.path, Append(stk[k].dir, y))
    BY <1>2 DEF Ahead, n
  <2>1. y \in Nat /\ e.path \in Paths
    BY <1>3, <1>5, InDirectory DEF Left
  <2>2. CASE k = n
    <3>1. x < y
      BY <1>3, <2>2 DEF Fits, Left
    <3>2. StartsWith(e.path, e.path)
      BY <2>1, LenProperties DEF StartsWith, Paths
    <3> QED BY <1>5, <2>1, <2>2, <3>1, <3>2, BeforeNeighbour
  <2>3. CASE k # n
    <3>1. k \in 1..n - 1 /\ k + 1 \in 1..n /\ k + 1 <= n /\ n \in 1..n
      BY <1>3, <2>3
    <3>2. PICK c \in Nat : /\ stk[k + 1].dir = Append(stk[k].dir, c)
                           /\ \A i \in 1..Len(stk[k].names) : c < stk[k].names[i]
      BY <3>1 DEF Good, Nested, n
    <3>3. stk[k].listed
      BY <3>1 DEF Good, Nested, n
    <3>4. c < y
      BY <3>2, <3>3 DEF Left
    <3>5. StartsWith(stk[n].dir, stk[k + 1].dir)
      BY <3>1 DEF Good, Stacked, n
    <3>6. StartsWith(e.path, Append(stk[k].dir, c))
      BY <1>5, <3>1, <3>2, <3>5, StartsInside
    <3> QED BY <1>5, <2>1, <3>2, <3>4, <3>6, BeforeNeighbour
  <2> QED BY <2>2, <2>3
\* Each of the paths given now is in the directory of a frame.
<1>7. ASSUME NEW m \in 1..b + 1
      PROVE  \E c \in Nat : z[a + m].path = Append(stk[n - b + m - 1].dir, c)
  <2>1. CASE m = b + 1
    <3>1. a + m = a + b + 1 /\ n - b + m - 1 = n
      BY <1>2, <1>3, <2>1
    <3> QED BY <1>2, <1>5, <3>1
  <2>2. CASE m # b + 1
    <3>1. m \in 1..b /\ n - b + m - 1 \in 1..n - 1 /\ n - b + m = n - b + m - 1 + 1
      BY <1>2, <1>3, <1>4, <2>2
    <3>2. z[a + m].path = stk[n - b + m].dir
      BY <1>2, <1>4, <3>1
    <3>3. \E c \in Nat : stk[n - b + m - 1 + 1].dir = Append(stk[n - b + m - 1].dir, c)
      BY <3>1 DEF Good, Nested, n
    <3> QED BY <3>1, <3>2, <3>3
  <2> QED BY <2>1, <2>2
<1>8. ASSUME NEW m \in 2..b + 1
      PROVE  z[a + m - 1].path = stk[n - b + m - 1].dir /\ z[a + m - 1].type = "dir"
  <2>1. m - 1 \in 1..b /\ a + m - 1 = a + (m - 1) /\ n - b + m - 1 = n - b + (m - 1)
    BY <1>2, <1>3
  <2>2. z[a + (m - 1)] = del[m - 1]
    BY <1>2, <2>1
  <2>3. del[m - 1].type = "dir" /\ del[m - 1].path = stk[n - b + (m - 1)].dir
    BY <1>4, <2>1
  <2> QED BY <2>1, <2>2, <2>3
<1>9. \A m \in 1..b + 1 : n - b + m - 1 \in 1..n
  BY <1>2, <1>3, <1>4
<1>10. Consecutive(z)
  <2> SUFFICES ASSUME NEW i \in 1..a + b PROVE Before(z[i].path, z[i + 1].path)
    BY <1>2 DEF Consecutive
  <2>1. CASE i < a
    <3>1. i \in 1..a - 1 /\ i \in 1..a /\ i + 1 \in 1..a
      BY <1>2, <2>1
    <3>2. Before(yld[i].path, yld[i + 1].path)
      BY <3>1 DEF Good, Consecutive, a
    <3> QED BY <1>2, <3>1, <3>2
  <2>2. CASE i = a
    <3>1. z[i] = yld[a]
      BY <1>2, <1>3, <2>2
    <3>2. CASE b = 0
      <4>1. z[i + 1] = e
        <5>1. i + 1 = a + b + 1
          BY <1>2, <2>2, <3>2
        <5> QED BY <1>2, <5>1
      <4> QED BY <1>3, <1>5, <3>1, <4>1 DEF Fits
    <3>3. CASE b # 0
      <4>1. 1 \in 1..b
        BY <1>2, <3>3
      <4>2. z[i + 1] = del[1]
        BY <1>2, <2>2, <4>1
      <4> QED BY <1>4, <3>1, <3>3, <4>2
    <3> QED BY <3>2, <3>3
  <2>3. CASE i > a
    <3>1. PICK m \in 2..b + 1 : i = a + m - 1
      <4>1. i - a + 1 \in 2..b + 1 /\ i = a + (i - a + 1) - 1
        BY <1>2, <2>3
      <4> QED BY <4>1
    <3>2. m \in 1..b + 1 /\ i + 1 = a + m
      BY <1>2, <3>1
    <3>3. z[i].path = stk[n - b + m - 1].dir
      BY <1>8, <3>1
    <3>4. PICK c \in Nat : z[i + 1].path = Append(stk[n - b + m - 1].dir, c)
      BY <1>7, <3>2
    <3>5. stk[n - b + m - 1].dir \in Paths
      BY <1>5, <1>9, <3>2
    <3> QED BY <3>3, <3>4, <3>5, BeforeContents
  <2> QED BY <1>2, <2>1, <2>2, <2>3
<1>11. ASSUME NEW i \in 2..a + b + 1  PROVE AfterParent(z, i)
  <2>1. CASE i <= a
    <3>1. i \in 2..a /\ i \in 1..a /\ \A j \in 1..i - 1 : j \in 1..a
      BY <1>2, <2>1
    <3>2. AfterParent(yld, i)
      BY <3>1 DEF Good, a
    <3> QED BY <1>2, <3>1, <3>2 DEF AfterParent
  <2>2. CASE i > a
    <3>1. PICK m \in 1..b + 1 : i = a + m
      <4>1. i - a \in 1..b + 1 /\ i = a + (i - a)
        BY <1>2, <2>2
      <4> QED BY <4>1
    <3>2. PICK c \in Nat : z[i].path = Append(stk[n - b + m - 1].dir, c)
      BY <1>7, <3>1
    <3>3. Front(z[i].path) = stk[n - b + m - 1].dir
      <4>1. stk[n - b + m - 1].dir \in Paths
        BY <1>5, <1>9
      <4> QED BY <3>2, <4>1, InDirectory
    <3>4. CASE m = 1
      <4>1. n - b + m - 1 = n - b /\ n - b \in 1..n - b
        BY <1>2, <1>3, <1>4, <3>4
      <4>2. PICK j \in 1..a : yld[j].path = stk[n - b].dir /\ yld[j].type = "dir"
        BY <4>1 DEF Good, Given, n, a, b
      <4>3. j \in 1..i - 1 /\ z[j] = yld[j]
        BY <1>2, <3>1, <3>4
      <4> QED BY <3>3, <4>1, <4>2, <4>3 DEF AfterParent
    <3>5. CASE m # 1
      <4>1. m \in 2..b + 1 /\ a + m - 1 \in 1..i - 1
        BY <1>2, <1>3, <3>1, <3>5
      <4> QED BY <1>8, <3>3, <4>1 DEF AfterParent
    <3> QED BY <3>4, <3>5
  <2> QED BY <1>2, <2>1, <2>2
<1>12. Given(stk, <<>>, z)
  <2>1. Len(<<>>) = 0
    BY EmptySeq
  <2> SUFFICES ASSUME NEW k \in 1..n
               PROVE  \E j \in 1..Len(z) : z[j].path = stk[k].dir /\ z[j].type = "dir"
    BY <1>3, <2>1 DEF Given, n
  <2>2. CASE k <= n - b
    <3>1. PICK j \in 1..a : yld[j].path = stk[k].dir /\ yld[j].type = "dir"
      <4>1. k \in 1..n - b
        BY <1>2, <1>3, <2>2
      <4> QED BY <4>1 DEF Good, Given, n, a, b
    <3>2. j \in 1..Len(z) /\ z[j] = yld[j]
      BY <1>2
    <3> QED BY <3>1, <3>2
  <2>3. CASE k > n - b
    <3>1. PICK m \in 2..b + 1 : k = n - b + m - 1
      <4>1. k - n + b + 1 \in 2..b + 1 /\ k = n - b + (k - n + b + 1) - 1
        BY <1>2, <1>3, <2>3
      <4> QED BY <4>1
    <3>2. a + m - 1 \in 1..Len(z)
      BY <1>2, <1>3
    <3> QED BY <1>8, <3>1, <3>2
  <2> QED BY <1>2, <1>3, <2>2, <2>3
<1>13. HeldBack(stk, <<>>, z)
  BY EmptySeq DEF HeldBack
<1>14. Typed(stk, <<>>, z) /\ Nested(stk) /\ Stacked(stk) /\ Sorted(stk)
  BY <1>1, <1>2, EmptySeq DEF Good, Typed
<1>15. \A i \in 2..Len(z) : AfterParent(z, i)
  BY <1>2, <1>11
<1>16. Good(stk, <<>>, z)
  BY <1>2, <1>6, <1>10, <1>12, <1>13, <1>14, <1>15 DEF Good
<1> QED BY <1>16 DEF z

\* A directory goes onto the stack.
LEMMA EnterStack ==
  ASSUME NEW stk, NEW yld, stk \in Seq(FrameSet), stk # <<>>,
         Nested(stk), Stacked(stk), Sorted(stk), Ahead(stk, yld),
         Last(stk).listed, NEW x \in Nat,
         \A i \in 1..Len(Last(stk).names) : x < Last(stk).names[i],
         NEW p \in Paths, p = Append(Last(stk).dir, x),
         \A y \in Nat : Before(Last(yld).path, Append(p, y))
  PROVE  LET r == Append(stk, Frame(p))
         IN  /\ r \in Seq(FrameSet) /\ Len(r) = Len(stk) + 1 /\ Len(stk) \in Nat
             /\ \A i \in 1..Len(stk) : r[i] = stk[i]
             /\ r[Len(stk) + 1].dir = p
             /\ Nested(r) /\ Stacked(r) /\ Sorted(r) /\ Ahead(r, yld)
<1> DEFINE f == Frame(p)
           n == Len(stk)
           r == Append(stk, f)
<1>1. f \in FrameSet /\ f.dir = p /\ f.names = <<>> /\ ~ f.listed
  BY EmptySeq DEF Frame, FrameSet, Paths
<1>2. n \in Nat /\ n >= 1 /\ Last(stk) = stk[n]
  BY FrontOf
<1>3. \A k \in 1..n : stk[k] \in FrameSet /\ stk[k].dir \in Paths
  <2>1. \A k \in 1..n : stk[k] \in FrameSet
    BY ElementOfSeq
  <2>2. \A g \in FrameSet : g.dir \in Paths
    BY DEF FrameSet
  <2> QED BY <2>1, <2>2
<1> HIDE DEF f
<1>4. /\ r \in Seq(FrameSet) /\ Len(r) = n + 1
      /\ \A i \in 1..n : r[i] = stk[i]
      /\ r[n + 1] = f
  BY <1>1, AppendProperties
<1> HIDE DEF r, n
<1>5. n \in 1..n /\ \A k \in 1..n + 1 : k = n + 1 \/ k \in 1..n
  BY <1>2
<1>6. Nested(r)
  <2> Len(r) - 1 = n
    BY <1>2, <1>4
  <2> SUFFICES ASSUME NEW k \in 1..n
               PROVE  /\ r[k].listed
                      /\ \E y \in Nat : /\ r[k + 1].dir = Append(r[k].dir, y)
                                        /\ \A i \in 1..Len(r[k].names) : y < r[k].names[i]
    BY <1>2, <1>4 DEF Nested
  <2>1. CASE k = n
    BY <1>1, <1>2, <1>4, <1>5, <2>1
  <2>2. CASE k # n
    <3>1. k \in 1..n - 1 /\ k + 1 \in 1..n
      BY <1>2, <2>2
    <3>2. r[k] = stk[k] /\ r[k + 1] = stk[k + 1]
      BY <1>4, <3>1
    <3> QED BY <3>1, <3>2 DEF Nested, n
  <2> QED BY <2>1, <2>2
<1>7. Stacked(r)
  <2> SUFFICES ASSUME NEW j \in 1..n + 1, NEW k \in 1..n + 1, j <= k
               PROVE  StartsWith(r[k].dir, r[j].dir)
    BY <1>4 DEF Stacked
  <2>1. CASE k \in 1..n
    <3>1. j \in 1..n
      BY <1>2, <2>1
    <3> QED BY <1>4, <2>1, <3>1 DEF Stacked, n
  <2>2. CASE k = n + 1 /\ j = n + 1
    BY <1>1, <1>4, <2>2, LenProperties DEF StartsWith, Paths
  <2>3. CASE k = n + 1 /\ j \in 1..n
    <3>1. StartsWith(stk[n].dir, stk[j].dir)
      <4>1. j <= n
        BY <1>2, <2>3
      <4> QED BY <1>5, <2>3, <4>1 DEF Stacked, n
    <3>2. StartsWith(p, stk[j].dir)
      BY <1>2, <1>3, <1>5, <2>3, <3>1, StartsInside
    <3> QED BY <1>1, <1>4, <2>3, <3>2
  <2> QED BY <1>5, <2>1, <2>2, <2>3
<1>8. Sorted(r)
  <2> SUFFICES ASSUME NEW k \in 1..n + 1 PROVE Ascends(r[k].names)
    BY <1>4 DEF Sorted
  <2>1. CASE k \in 1..n
    BY <1>4, <2>1 DEF Sorted, n
  <2>2. CASE k = n + 1
    <3>1. Len(f.names) = 0
      BY <1>1, EmptySeq
    <3> QED BY <1>4, <2>2, <3>1 DEF Ascends
  <2> QED BY <1>5, <2>1, <2>2
<1>9. Ahead(r, yld)
  <2> SUFFICES ASSUME NEW k \in 1..n + 1, NEW y \in Left(r[k])
               PROVE  Before(Last(yld).path, Append(r[k].dir, y))
    BY <1>4 DEF Ahead
  <2>1. CASE k \in 1..n
    BY <1>4, <2>1 DEF Ahead, n
  <2>2. CASE k = n + 1
    <3>1. y \in Nat
      BY DEF Left
    <3> QED BY <1>1, <1>4, <2>2, <3>1
  <2> QED BY <1>5, <2>1, <2>2
<1> QED BY <1>1, <1>2, <1>4, <1>6, <1>7, <1>8, <1>9 DEF f, r, n

\* A directory that was just given is entered.
LEMMA EnterGiven ==
  ASSUME NEW stk, NEW yld, Good(stk, <<>>, yld), stk # <<>>, Last(stk).listed,
         NEW x \in Nat, \A i \in 1..Len(Last(stk).names) : x < Last(stk).names[i],
         NEW p, p = Append(Last(stk).dir, x),
         Last(yld).path = p, Last(yld).type = "dir"
  PROVE  Good(Append(stk, Frame(p)), <<>>, yld)
<1> DEFINE r == Append(stk, Frame(p))
           n == Len(stk)
<1>1. stk \in Seq(FrameSet) /\ yld \in Seq(EntrySet) /\ yld # <<>>
  BY DEF Good, Typed
<1>2. p \in Paths
  <2>1. Last(stk) \in FrameSet
    BY <1>1, FrontOf
  <2>2. Last(stk).dir \in Paths
    BY <2>1 DEF FrameSet
  <2> QED BY <2>2, InDirectory
<1>3. \A y \in Nat : Before(Last(yld).path, Append(p, y))
  BY <1>2, BeforeContents
<1>4. /\ r \in Seq(FrameSet) /\ Len(r) = n + 1 /\ n \in Nat
      /\ \A i \in 1..n : r[i] = stk[i]
      /\ r[n + 1].dir = p
      /\ Nested(r) /\ Stacked(r) /\ Sorted(r) /\ Ahead(r, yld)
  <2>1. Nested(stk) /\ Stacked(stk) /\ Sorted(stk) /\ Ahead(stk, yld)
    BY DEF Good
  <2> HIDE DEF r, n
  <2> QED BY <1>1, <1>2, <1>3, <2>1, EnterStack DEF r, n
<1>5. Len(yld) \in Nat /\ Len(yld) >= 1 /\ Last(yld) = yld[Len(yld)]
  BY <1>1, FrontOf
<1> HIDE DEF r, n
<1>6. Given(r, <<>>, yld)
  <2>1. Len(<<>>) = 0
    BY EmptySeq
  <2>4. Len(r) - Len(<<>>) = n + 1
    BY <1>4, <2>1
  <2> SUFFICES ASSUME NEW k \in 1..n + 1
               PROVE  \E j \in 1..Len(yld) : yld[j].path = r[k].dir /\ yld[j].type = "dir"
    BY <2>4 DEF Given
  <2>2. CASE k \in 1..n
    <3>1. k \in 1..Len(stk) - Len(<<>>)
      BY <1>4, <2>1, <2>2 DEF n
    <3> QED BY <1>4, <2>2, <3>1 DEF Good, Given
  <2>3. CASE k = n + 1
    <3>1. Len(yld) \in 1..Len(yld)
      BY <1>5
    <3> QED BY <1>4, <1>5, <2>3, <3>1
  <2> QED BY <1>4, <2>2, <2>3
<1>7. HeldBack(r, <<>>, yld)
  BY EmptySeq DEF HeldBack
<1>8. Typed(r, <<>>, yld)
  BY <1>1, <1>4, EmptySeq DEF Typed
<1>9. Good(r, <<>>, yld)
  BY <1>1, <1>4, <1>6, <1>7, <1>8 DEF Good
<1> QED BY <1>9 DEF r

\* A directory that is only scanned is entered and held back.
LEMMA EnterHeld ==
  ASSUME NEW stk, NEW del, NEW yld, Good(stk, del, yld), NEW x, Fits(stk, yld, x),
         NEW e \in EntrySet, e.path = Append(Last(stk).dir, x), e.type = "dir"
  PROVE  Good(Append(stk, Frame(e.path)), Append(del, e), yld)
<1> DEFINE r == Append(stk, Frame(e.path))
           d == Append(del, e)
           n == Len(stk)
           b == Len(del)
<1>1. stk \in Seq(FrameSet) /\ del \in Seq(EntrySet) /\ yld \in Seq(EntrySet) /\ yld # <<>>
  BY DEF Good, Typed, Fits
<1>2. e.path \in Paths
  BY DEF EntrySet
<1>3. Last(yld).path \in Paths /\ x \in Nat /\ Before(Last(yld).path, e.path)
  <2>1. Last(yld) \in EntrySet
    BY <1>1, FrontOf
  <2> QED BY <2>1 DEF EntrySet, Fits
<1>4. \A y \in Nat : Before(Last(yld).path, Append(e.path, y))
  BY <1>2, <1>3, BeforeInside
<1>5. /\ r \in Seq(FrameSet) /\ Len(r) = n + 1 /\ n \in Nat
      /\ \A i \in 1..n : r[i] = stk[i]
      /\ r[n + 1].dir = e.path
      /\ Nested(r) /\ Stacked(r) /\ Sorted(r) /\ Ahead(r, yld)
  <2>1. Nested(stk) /\ Stacked(stk) /\ Sorted(stk) /\ Ahead(stk, yld)
    BY DEF Good
  <2>2. /\ stk # <<>> /\ Last(stk).listed
        /\ \A i \in 1..Len(Last(stk).names) : x < Last(stk).names[i]
    BY DEF Fits
  <2> HIDE DEF r, n
  <2> QED BY <1>1, <1>2, <1>3, <1>4, <2>1, <2>2, EnterStack DEF r, n
<1>6. /\ d \in Seq(EntrySet) /\ d # <<>> /\ Len(d) = b + 1 /\ b \in Nat
      /\ \A i \in 1..b : d[i] = del[i]
      /\ d[b + 1] = e
  BY <1>1, AppendProperties, LenProperties
<1>7. b < n
  BY <1>1, <1>5, EmptySeq DEF Good, HeldBack, Fits
<1>8. del = <<>> <=> b = 0
  BY <1>1, EmptySeq
<1> HIDE DEF r, d, n, b
<1>9. HeldBack(r, d, yld)
  <2>1. ASSUME NEW i \in 1..b + 1
        PROVE  d[i].type = "dir" /\ d[i].path = r[n + 1 - (b + 1) + i].dir
    <3>1. n + 1 - (b + 1) + i = n - b + i
      BY <1>5, <1>6
    <3>2. CASE i \in 1..b
      <4>1. d[i] = del[i] /\ n - b + i \in 1..n
        BY <1>5, <1>6, <1>7, <3>2
      <4>2. del[i].type = "dir" /\ del[i].path = stk[n - b + i].dir
        BY <3>2 DEF Good, HeldBack, n, b
      <4> QED BY <1>5, <3>1, <4>1, <4>2
    <3>3. CASE i = b + 1
      <4>1. n - b + i = n + 1
        BY <1>5, <1>6, <3>3
      <4> QED BY <1>5, <1>6, <3>1, <3>3, <4>1
    <3> QED BY <1>6, <3>2, <3>3
  <2>2. Before(Last(yld).path, d[1].path)
    <3>1. CASE b = 0
      <4>1. b + 1 = 1
        BY <3>1
      <4>2. d[1] = e
        BY <1>6, <4>1
      <4> QED BY <1>3, <4>2
    <3>2. CASE b # 0
      <4>1. d[1] = del[1]
        BY <1>6, <3>2
      <4> QED BY <1>8, <3>2, <4>1 DEF Good, HeldBack
    <3> QED BY <3>1, <3>2
  <2>3. Len(d) < Len(r)
    BY <1>5, <1>6, <1>7
  <2> QED BY <1>5, <1>6, <2>1, <2>2, <2>3 DEF HeldBack
<1>10. Given(r, d, yld)
  <2> SUFFICES ASSUME NEW k \in 1..n + 1 - (b + 1)
               PROVE  \E j \in 1..Len(yld) : yld[j].path = r[k].dir /\ yld[j].type = "dir"
    BY <1>5, <1>6 DEF Given
  <2>1. k \in 1..n - b /\ k \in 1..n
    BY <1>5, <1>6
  <2> QED BY <1>5, <2>1 DEF Good, Given, n, b
<1>11. Typed(r, d, yld)
  BY <1>1, <1>5, <1>6 DEF Typed
<1>12. Good(r, d, yld)
  <2>1. Consecutive(yld) /\ \A i \in 2..Len(yld) : AfterParent(yld, i)
    BY DEF Good
  <2> QED BY <1>1, <1>5, <1>9, <1>10, <1>11, <2>1 DEF Good
<1> QED BY <1>12 DEF r, d

-----------------------------------------------------------------------------
(* The steps of the walk. *)

LEMMA TreeParts ==
  ASSUME NEW t, IsTree(t)
  PROVE  /\ IsFiniteSet(t)
         /\ \A n \in t : n.path \in Seq(Names) /\ n.type \in NodeTypes
         /\ \A n \in t : n.path # <<>> => \E d \in t : d.path = Front(n.path) /\ d.type = "dir"
         /\ \A n \in t : Find(t, n.path) = n
<1>1. /\ IsFiniteSet(t)
      /\ \A m, n \in t : m.path = n.path => m = n
      /\ \A n \in t : /\ n.path \in Seq(Names) /\ n.type \in NodeTypes
                      /\ n.path # <<>> => \E d \in t : d.path = Front(n.path) /\ d.type = "dir"
  BY DEF IsTree
<1>2. ASSUME NEW n \in t PROVE Find(t, n.path) = n
  <2>1. Find(t, n.path) \in t /\ Find(t, n.path).path = n.path
    BY DEF Find
  <2> QED BY <1>1, <2>1
<1>3. \A n \in t : n.path \in Seq(Names)
  BY <1>1
<1>4. \A n \in t : n.type \in NodeTypes
  BY <1>1
<1>5. \A n \in t : n.path # <<>> => \E d \in t : d.path = Front(n.path) /\ d.type = "dir"
  BY <1>1
<1> QED BY <1>1, <1>2, <1>3, <1>4, <1>5

\* A node found is one of the tree, or has no type.
LEMMA FindsNode ==
  ASSUME TreeOK, NEW p \in Paths
  PROVE  Find(tree, p).path = p /\ Entry(Find(tree, p)) \in EntrySet
<1>1. CASE \E n \in tree : n.path = p
  <2>1. Find(tree, p) \in tree /\ Find(tree, p).path = p
    BY <1>1 DEF Find
  <2> QED BY <2>1 DEF TreeOK, Entry, EntrySet
<1>2. CASE ~ \E n \in tree : n.path = p
  <2>1. Find(tree, p) = Node(p, "none", FALSE, FALSE, FALSE)
    BY <1>2 DEF Find
  <2>2. Find(tree, p).path = p /\ Find(tree, p).type = "none"
    BY <2>1 DEF Node
  <2> QED BY <2>2 DEF Entry, EntrySet
<1> QED BY <1>1, <1>2

\* A path is its directory with its name.
LEMMA DirectoryAndName ==
  ASSUME NEW c \in Paths, c # <<>>
  PROVE  Front(c) \in Paths /\ Last(c) \in Nat /\ c = Append(Front(c), Last(c))
<1>1. /\ Front(c) \in Paths /\ Len(Front(c)) = Len(c) - 1
      /\ \A i \in 1..Len(c) - 1 : Front(c)[i] = c[i]
      /\ Last(c) = c[Len(c)] /\ Last(c) \in Nat
      /\ Len(c) \in Nat /\ Len(c) >= 1
  BY FrontOf DEF Paths
<1> DEFINE f == Front(c)
           d == Append(f, Last(c))
<1>2. /\ d \in Paths /\ Len(d) = Len(f) + 1 /\ d[Len(f) + 1] = Last(c)
      /\ \A i \in 1..Len(f) : d[i] = f[i]
  BY <1>1, InDirectory
<1> HIDE DEF f, d
<1>3. Len(f) = Len(c) - 1 /\ \A i \in 1..Len(c) - 1 : f[i] = c[i]
  BY <1>1 DEF f
<1>4. Len(d) = Len(c)
  BY <1>1, <1>2, <1>3
<1>5. ASSUME NEW i \in 1..Len(c) PROVE d[i] = c[i]
  <2>1. CASE i = Len(c)
    <3>1. Len(f) + 1 = Len(c)
      BY <1>1, <1>3
    <3> QED BY <1>1, <1>2, <2>1, <3>1
  <2>2. CASE i # Len(c)
    <3>1. i \in 1..Len(c) - 1
      BY <1>1, <2>2
    <3> QED BY <1>2, <1>3, <3>1
  <2> QED BY <2>1, <2>2
<1>6. d = c
  BY <1>2, <1>4, <1>5, SeqEqual DEF Paths
<1> QED BY <1>1, <1>6 DEF d, f

\* A listing is in ascending order, and has the names of what is in the directory.
LEMMA ListingSorts ==
  ASSUME TreeOK, NEW p \in Paths
  PROVE  LET names == Listing(tree, p)
         IN  /\ names \in Paths /\ Ascends(names)
             /\ names # <<>> => Find(tree, p).type = "dir" /\ Find(tree, p).readable
             /\ \A i \in 1..Len(names) : \E n \in tree : n.path = Append(p, names[i])
             /\ Find(tree, p).type = "dir" /\ Find(tree, p).readable =>
                  \A n \in tree, x \in Nat : n.path = Append(p, x) =>
                    \E i \in 1..Len(names) : names[i] = x
<1> DEFINE inside == {m \in tree : m.path # <<>> /\ Front(m.path) = p}
           children == {n.path : n \in inside}
           names == {Last(c) : c \in children}
<1>1. IsFiniteSet(inside)
  BY FS_Subset DEF TreeOK
<1>2. \A c \in names : \E n \in inside : Last(n.path) = c
  OBVIOUS
<1>3. IsFiniteSet(names)
  <2> DEFINE f == [n \in inside |-> Last(n.path)]
  <2>1. \A n \in inside : Last(n.path) \in names
    OBVIOUS
  <2> HIDE DEF inside, names
  <2>2. f \in Surjection(inside, names)
    BY <1>2, <2>1 DEF Surjection
  <2> QED BY <1>1, <2>2, FS_Surjection
<1>4. \A n \in tree : n.path \in Paths
  <2> SUFFICES ASSUME NEW n \in tree PROVE n.path \in Paths
    OBVIOUS
  <2>1. n.path \in Seq(Names) /\ Names \subseteq Nat
    BY SelectionAssumption DEF TreeOK
  <2>2. /\ n.path \in [1..Len(n.path) -> Names] /\ Len(n.path) \in Nat
    BY <2>1, LenProperties
  <2>3. n.path \in [1..Len(n.path) -> Nat]
    BY <2>1, <2>2
  <2> QED BY <2>2, <2>3 DEF Paths
<1>5. names \in SUBSET Nat
  <2> SUFFICES ASSUME NEW c \in children PROVE Last(c) \in Nat
    OBVIOUS
  <2> QED BY <1>4, DirectoryAndName
<1>6. \A x \in names : \E n \in tree : n.path = Append(p, x)
  BY <1>2, <1>4, DirectoryAndName
<1>7. ASSUME NEW n \in tree, NEW x \in Nat, n.path = Append(p, x)
      PROVE  x \in names
  <2>1. Front(n.path) = p /\ Len(n.path) = Len(p) + 1 /\ n.path[Len(p) + 1] = x
    BY <1>7, InDirectory
  <2>2. n.path # <<>>
    BY <1>7, AppendProperties DEF Paths
  <2>3. n.path \in children
    BY <2>1, <2>2
  <2>4. Last(n.path) = x
    BY <2>1 DEF Last
  <2> QED BY <2>3, <2>4
<1>8. Listing(tree, p) = IF Find(tree, p).type = "dir" /\ Find(tree, p).readable
                           THEN Ascending(names) ELSE <<>>
  BY DEF Listing
<1>9. <<>> \in Paths /\ Ascends(<<>>) /\ Len(<<>>) = 0
  <2>1. Len(<<>>) = 0 /\ <<>> \in Seq(Nat)
    BY EmptySeq
  <2> QED BY <2>1 DEF Paths, Ascends
<1> HIDE DEF names
<1>10. CASE Find(tree, p).type = "dir" /\ Find(tree, p).readable
  <2>1. Listing(tree, p) = Ascending(names)
    BY <1>8, <1>10
  <2>2. /\ Ascending(names) \in Paths /\ Ascends(Ascending(names))
        /\ \A i \in 1..Len(Ascending(names)) : Ascending(names)[i] \in names
        /\ \A x \in names : \E i \in 1..Len(Ascending(names)) : Ascending(names)[i] = x
    BY <1>3, <1>5, AscendingSorts
  <2> QED BY <1>6, <1>7, <1>10, <2>1, <2>2
<1>11. CASE ~ (Find(tree, p).type = "dir" /\ Find(tree, p).readable)
  BY <1>8, <1>9, <1>11
<1> QED BY <1>10, <1>11

\* The frame on the top without its next name.
TopLess == [Top EXCEPT !.names = Tail(@)]
Rest    == Append(Front(stack), TopLess)

\* The next name fits once it has left the frame.
LEMMA NextFits ==
  ASSUME Good(stack, delayed, yielded), Walking, Top.listed, Top.names # <<>>
  PROVE  /\ Good(Rest, delayed, yielded) /\ Fits(Rest, yielded, Head(Top.names))
         /\ Last(Rest).dir = Top.dir /\ Top.dir \in Paths /\ Head(Top.names) \in Nat
<1> DEFINE n == Len(stack)
           t == Top
           f == TopLess
           x == Head(Top.names)
<1>1. stack \in Seq(FrameSet) /\ stack # <<>>
  BY DEF Good, Typed, Walking
<1>2. /\ Front(stack) \in Seq(FrameSet) /\ n \in Nat /\ n >= 1
      /\ t = stack[n] /\ t \in FrameSet
  BY <1>1, FrontOf DEF Top
<1>3. t.dir \in Paths /\ t.names \in Seq(Nat) /\ t.names # <<>> /\ t.listed
  BY <1>2 DEF FrameSet, Paths
<1>4. /\ x \in Nat /\ Tail(t.names) \in Seq(Nat) /\ Len(Tail(t.names)) = Len(t.names) - 1
      /\ \A i \in 1..Len(Tail(t.names)) : Tail(t.names)[i] = t.names[i + 1]
      /\ x = t.names[1]
      /\ Len(t.names) \in Nat /\ Len(t.names) >= 1
  BY <1>3, HeadTailProperties, EmptySeq
<1>5. f \in FrameSet /\ f.dir = t.dir /\ f.listed = t.listed /\ f.names = Tail(t.names)
  BY <1>2, <1>4 DEF FrameSet, Paths, TopLess
<1>6. n \in 1..n /\ Ascends(t.names)
  BY <1>2 DEF Good, Sorted
<1> HIDE DEF n, t, f, x
<1>7. \A i \in 1..Len(f.names) : /\ i + 1 \in 1..Len(t.names) /\ 1 \in 1..Len(t.names) /\ 1 < i + 1
                                 /\ f.names[i] = t.names[i + 1]
  <2> SUFFICES ASSUME NEW i \in 1..Len(Tail(t.names))
               PROVE  /\ i + 1 \in 1..Len(t.names) /\ 1 \in 1..Len(t.names) /\ 1 < i + 1
                      /\ Tail(t.names)[i] = t.names[i + 1]
    BY <1>5
  <2>1. i \in Nat /\ 1 <= i /\ i <= Len(t.names) - 1
    BY <1>4
  <2>2. i + 1 \in 1..Len(t.names) /\ 1 \in 1..Len(t.names) /\ 1 < i + 1
    BY <1>4, <2>1
  <2> QED BY <1>4, <2>2
<1>8. Ascends(f.names)
  <2> SUFFICES ASSUME NEW i \in 1..Len(f.names), NEW j \in 1..Len(f.names), i < j
               PROVE  f.names[i] < f.names[j]
    BY DEF Ascends
  <2>1. i + 1 < j + 1 /\ i + 1 \in 1..Len(t.names) /\ j + 1 \in 1..Len(t.names)
    BY <1>7
  <2> QED BY <1>6, <1>7, <2>1 DEF Ascends
<1>9. \A i \in 1..Len(f.names) : x < f.names[i]
  BY <1>4, <1>6, <1>7 DEF Ascends
<1>10. Left(f) \subseteq Left(t)
  <2> SUFFICES ASSUME NEW y \in Left(f) PROVE y \in Left(t)
    OBVIOUS
  <2>1. y \in Nat /\ \E i \in 1..Len(f.names) : f.names[i] = y
    BY <1>3, <1>5 DEF Left
  <2>2. \E i \in 1..Len(t.names) : t.names[i] = y
    BY <1>7, <2>1
  <2> QED BY <2>1, <2>2 DEF Left
<1>11. Good(Rest, delayed, yielded)
  BY <1>1, <1>5, <1>8, <1>10, ReplaceKeeps DEF Rest, t, f, Top
<1>12. Rest # <<>> /\ Last(Rest) = f
  <2>1. /\ Rest \in Seq(FrameSet) /\ Rest # <<>> /\ Len(Rest) = n
        /\ Rest[n] = f
    BY <1>1, <1>5, ReplaceTop DEF Rest, f, n
  <2> QED BY <2>1 DEF Last
<1>13. Before(Last(yielded).path, Append(t.dir, x))
  <2>1. 1 \in 1..Len(t.names)
    BY <1>4
  <2>2. x \in Left(stack[n])
    BY <1>2, <1>4, <2>1 DEF Left
  <2> QED BY <1>2, <1>6, <2>2 DEF Good, Ahead, n
<1>14. Fits(Rest, yielded, x)
  BY <1>3, <1>4, <1>5, <1>9, <1>12, <1>13 DEF Fits
<1> QED BY <1>3, <1>4, <1>5, <1>11, <1>12, <1>14 DEF t, x

LEMMA ExamineKeeps ==
  ASSUME WalkInv, Examine
  PROVE  Good(stack, delayed, yielded)'
<1> DEFINE n == Candidate
           x == Head(Top.names)
           e == Entry(n)
<1>1. /\ Good(Rest, delayed, yielded) /\ Fits(Rest, yielded, x)
      /\ Last(Rest).dir = Top.dir /\ Top.dir \in Paths /\ x \in Nat
  BY NextFits DEF WalkInv, Examine
<1>2. n.path = Append(Top.dir, x) /\ e \in EntrySet /\ e.path = n.path /\ e.type = n.type
  <2>1. Append(Top.dir, x) \in Paths
    BY <1>1, InDirectory
  <2>2. Find(tree, Append(Top.dir, x)).path = Append(Top.dir, x)
        /\ Entry(Find(tree, Append(Top.dir, x))) \in EntrySet
    BY <2>1, FindsNode DEF WalkInv
  <2> QED BY <2>2 DEF Candidate, Entry
<1>3. \/ /\ yielded' = yielded \o delayed \o <<e>>
         /\ delayed' = <<>>
         /\ stack' = IF n.type = "dir" THEN Append(Rest, Frame(n.path)) ELSE Rest
      \/ /\ n.type = "dir"
         /\ delayed' = Append(delayed, e)
         /\ stack' = Append(Rest, Frame(n.path))
         /\ yielded' = yielded
      \/ /\ stack' = Rest
         /\ delayed' = delayed /\ yielded' = yielded
  BY DEF Examine, Rest, TopLess
<1> DEFINE z == yielded \o delayed \o <<e>>
<1>4. Good(Rest, <<>>, z)
  BY <1>1, <1>2, YieldKeeps
<1>5. CASE yielded' = z /\ delayed' = <<>> /\ n.type # "dir" /\ stack' = Rest
  BY <1>4, <1>5
<1>6. CASE /\ yielded' = z /\ delayed' = <<>> /\ n.type = "dir"
           /\ stack' = Append(Rest, Frame(n.path))
  <2>1. Last(z) = e
    BY <1>1, <1>2, GivenAtOnce DEF Good, Typed
  <2>2. /\ Rest # <<>> /\ Last(Rest).listed
        /\ \A i \in 1..Len(Last(Rest).names) : x < Last(Rest).names[i]
    BY <1>1 DEF Fits
  <2> HIDE DEF n, e, x, z
  <2>3. Good(Append(Rest, Frame(n.path)), <<>>, z)
    BY <1>1, <1>2, <1>4, <1>6, <2>1, <2>2, EnterGiven
  <2> QED BY <1>6, <2>3
<1>7. CASE /\ n.type = "dir" /\ delayed' = Append(delayed, e)
           /\ stack' = Append(Rest, Frame(n.path)) /\ yielded' = yielded
  <2> HIDE DEF n, e, x
  <2>1. Good(Append(Rest, Frame(e.path)), Append(delayed, e), yielded)
    BY <1>1, <1>2, <1>7, EnterHeld
  <2> QED BY <1>2, <1>7, <2>1
<1>8. CASE stack' = Rest /\ delayed' = delayed /\ yielded' = yielded
  BY <1>1, <1>8
<1> QED BY <1>3, <1>5, <1>6, <1>7, <1>8

LEMMA ListKeeps ==
  ASSUME WalkInv, List
  PROVE  Good(stack, delayed, yielded)'
<1> DEFINE f == [Top EXCEPT !.listed = TRUE, !.names = Listing(tree, Top.dir)]
<1>1. stack \in Seq(FrameSet) /\ stack # <<>> /\ Top \in FrameSet /\ ~ Top.listed
  BY FrontOf DEF WalkInv, Good, Typed, List, Walking, Top
<1>2. Top.dir \in Paths
  BY <1>1 DEF FrameSet
<1>3. Listing(tree, Top.dir) \in Paths /\ Ascends(Listing(tree, Top.dir))
  BY <1>2, ListingSorts DEF WalkInv
<1>4. f \in FrameSet /\ f.dir = Top.dir /\ f.names = Listing(tree, Top.dir)
  BY <1>1, <1>3 DEF FrameSet
<1>5. Left(f) \subseteq Left(Top)
  BY <1>1 DEF Left
<1>6. stack' = Append(Front(stack), f) /\ delayed' = delayed /\ yielded' = yielded
  BY DEF List
<1> HIDE DEF f
<1>7. Good(Append(Front(stack), f), delayed, yielded)
  BY <1>1, <1>3, <1>4, <1>5, ReplaceKeeps DEF WalkInv, Top
<1> QED BY <1>6, <1>7

LEMMA BeginKeeps ==
  ASSUME WalkInv, Begin
  PROVE  Good(stack, delayed, yielded)'
<1> DEFINE e == Entry(Find(tree, <<>>))
           f == Frame(<<>>)
<1>1. stack = <<>> /\ delayed = <<>> /\ delayed' = <<>>
  <2>1. stack = <<>> /\ delayed \in Seq(EntrySet) /\ delayed' = delayed
    BY DEF WalkInv, Begin, Good, Typed
  <2> QED BY <2>1, EmptySeq, LenProperties DEF WalkInv, Good, HeldBack
<1>2. CASE stack' = stack /\ yielded' = yielded
  BY <1>1, <1>2 DEF WalkInv
<1>3. CASE yielded' = <<e>> /\ stack' = IF Find(tree, <<>>).type = "dir" THEN <<f>> ELSE <<>>
  <2>1. <<>> \in Paths /\ Len(<<>>) = 0 /\ <<>> \in Seq(FrameSet) /\ <<>> \in Seq(EntrySet)
    BY EmptySeq DEF Paths
  <2>2. e \in EntrySet /\ e.path = <<>> /\ e.type = Find(tree, <<>>).type
    BY <2>1, FindsNode DEF WalkInv, Entry
  <2>3. f \in FrameSet /\ f.dir = <<>> /\ f.names = <<>>
    BY <2>1 DEF Frame, FrameSet
  <2> HIDE DEF e, f
  <2>4. /\ <<e>> \in Seq(EntrySet) /\ Len(<<e>>) = 1 /\ <<e>>[1] = e /\ Last(<<e>>) = e
        /\ <<e>> # <<>>
    BY <2>2 DEF Last
  <2>5. Consecutive(<<e>>) /\ \A i \in 2..Len(<<e>>) : AfterParent(<<e>>, i)
    BY <2>4 DEF Consecutive
  <2>6. CASE stack' = <<>>
    <3>1. Good(<<>>, <<>>, <<e>>)
      BY <2>1, <2>4, <2>5
         DEF Good, Typed, Nested, Stacked, Sorted, Ahead, HeldBack, Given
    <3> QED BY <1>1, <1>3, <2>6, <3>1
  <2>7. CASE Find(tree, <<>>).type = "dir" /\ stack' = <<f>>
    <3>1. <<f>> \in Seq(FrameSet) /\ Len(<<f>>) = 1 /\ <<f>>[1] = f /\ <<f>> # <<>>
      BY <2>3
    <3>2. \A k \in 1..Len(<<f>>) : <<f>>[k] = f
      BY <3>1
    <3>3. Nested(<<f>>)
      BY <3>1 DEF Nested
    <3>4. Stacked(<<f>>)
      BY <2>1, <2>3, <3>2 DEF Stacked, StartsWith
    <3>5. Sorted(<<f>>)
      BY <2>1, <2>3, <3>2 DEF Sorted, Ascends
    <3>6. Ahead(<<f>>, <<e>>)
      <4>1. \A x \in Nat : Before(<<>>, Append(<<>>, x))
        BY <2>1, BeforeContents
      <4>2. \A x \in Left(f) : x \in Nat
        BY DEF Left
      <4> QED BY <2>2, <2>3, <2>4, <3>2, <4>1, <4>2 DEF Ahead
    <3>7. HeldBack(<<f>>, <<>>, <<e>>)
      BY <2>1 DEF HeldBack
    <3>8. Given(<<f>>, <<>>, <<e>>)
      <4>1. \A k \in 1..Len(<<f>>) - Len(<<>>) : k \in 1..Len(<<f>>)
        BY <2>1, <3>1
      <4>2. 1 \in 1..Len(<<e>>)
        BY <2>4
      <4> QED BY <2>2, <2>3, <2>4, <2>7, <3>2, <4>1, <4>2 DEF Given
    <3>9. Good(<<f>>, <<>>, <<e>>)
      BY <2>1, <2>4, <2>5, <3>1, <3>3, <3>4, <3>5, <3>6, <3>7, <3>8 DEF Good, Typed
    <3> QED BY <1>1, <1>3, <2>7, <3>9
  <2> QED BY <1>3, <2>6, <2>7 DEF f
<1> QED BY <1>2, <1>3 DEF Begin

LEMMA WalkInitial == Init => WalkInv
<1> SUFFICES ASSUME Init PROVE WalkInv
  OBVIOUS
<1>1. stack = <<>> /\ delayed = <<>> /\ yielded = <<>> /\ phase = "options"
  BY DEF Init
<1>2. Len(<<>>) = 0 /\ <<>> \in Seq(FrameSet) /\ <<>> \in Seq(EntrySet)
  BY EmptySeq
<1>3. Good(<<>>, <<>>, <<>>)
  BY <1>2
     DEF Good, Typed, Nested, Stacked, Sorted, Ahead, HeldBack, Given, Consecutive
<1>4. TreeOK
  <2>1. tree \in Trees
    BY DEF Init
  <2>2. IsTree(tree)
    BY <2>1, SelectionAssumption
  <2> QED BY <2>2, TreeParts DEF TreeOK
<1> QED BY <1>1, <1>3, <1>4 DEF WalkInv

LEMMA WalkStep == WalkInv /\ [Next]_vars => WalkInv'
<1> SUFFICES ASSUME WalkInv, [Next]_vars PROVE WalkInv'
  OBVIOUS
<1>1. TreeOK'
  <2>1. CASE UNCHANGED tree
    BY <2>1 DEF WalkInv, TreeOK
  <2>2. CASE Vanish
    <3>1. PICK p \in Fickle : tree' = {n \in tree : ~Under(p, n.path)}
      BY <2>2 DEF Vanish
    <3>2. tree' \in SUBSET tree
      BY <3>1
    <3>3. IsFiniteSet(tree')
      BY <3>2, FS_Subset DEF WalkInv, TreeOK
    <3> QED BY <3>2, <3>3 DEF WalkInv, TreeOK
  <2> QED BY <2>1, <2>2
     DEF Next, vars, ParseOption, Begin, List, Examine, Leave, End
<1>2. Good(stack, delayed, yielded)'
  <2>1. CASE UNCHANGED <<stack, delayed, yielded>>
    BY <2>1 DEF WalkInv
  <2>2. CASE Begin
    BY <2>2, BeginKeeps
  <2>3. CASE List
    BY <2>3, ListKeeps
  <2>4. CASE Examine
    BY <2>4, ExamineKeeps
  <2>5. CASE Leave
    <3>1. /\ stack # <<>> /\ stack' = Front(stack) /\ yielded' = yielded
          /\ delayed' = IF delayed = <<>> THEN <<>> ELSE Front(delayed)
      BY <2>5 DEF Leave, Walking
    <3>2. Good(Front(stack), IF delayed = <<>> THEN <<>> ELSE Front(delayed), yielded)
      BY <3>1, PopKeeps DEF WalkInv
    <3> QED BY <3>1, <3>2
  <2> QED BY <2>1, <2>2, <2>3, <2>4, <2>5 DEF Next, vars, ParseOption, End, Vanish
<1>3. (phase = "options" => stack = <<>>)'
  BY DEF WalkInv, Next, vars, ParseOption, Begin, List, Examine, Leave, End, Vanish, Walking
<1> QED BY <1>1, <1>2, <1>3 DEF WalkInv

\* Whatever the options, the tree and the paths that go meanwhile: Select.Iterate gives
\* every path once, in order, and after the directory it is in.
THEOREM PathsComeInOrder == Spec => []InOrder
<1>1. WalkInv => InOrder
  <2> SUFFICES ASSUME WalkInv PROVE InOrder
    OBVIOUS
  <2>1. Consecutive(yielded) /\ \A i \in 2..Len(yielded) : AfterParent(yielded, i)
    BY DEF WalkInv, Good
  <2> QED BY <2>1 DEF InOrder, Consecutive, AfterParent
<1> QED BY <1>1, WalkInitial, WalkStep, PTL DEF Spec

-----------------------------------------------------------------------------
(* What the walk is to give, of a source t with the functions fs. *)

Takes(t, fs, p) == Select(fs, Find(t, p), t)

Entered(t, fs, p) ==
  /\ Find(t, p).type = "dir" /\ Find(t, p).readable
  /\ p # <<>> => Takes(t, fs, p) \in {"include", "scan"}

Way(p) == Above(p) \cup {<<>>}

Reaches(t, fs, p) == \A a \in Way(p) : Entered(t, fs, a)

Includes(t, fs, n) ==
  Reaches(t, fs, n.path) /\ Readable(n) /\ Takes(t, fs, n.path) = "include"

ScansFor(t, fs, n) ==
  /\ Reaches(t, fs, n.path) /\ n.type = "dir" /\ n.readable /\ Takes(t, fs, n.path) = "scan"
  /\ \E m \in t : m.path # <<>> /\ Includes(t, fs, m) /\ Under(n.path, m.path)

\* The walk may still come to a path.
Pending(stk, p) ==
  \E k \in 1..Len(stk) : \E x \in Left(stk[k]) : StartsWith(p, Append(stk[k].dir, x))

PathsOf(yld) == {yld[i].path : i \in 1..Len(yld)}

\* The frames are those of the directories on the way, which the walk was to enter,
\* and what is left in them is in the source.
OnTheWay(t, fs, stk) ==
  \A k \in 1..Len(stk) :
    /\ Len(stk[k].dir) = k - 1 /\ Find(t, stk[k].dir).type = "dir"
    /\ k # 1 \/ Len(stk) > 1 \/ stk[k].names # <<>> => Entered(t, fs, stk[k].dir)
    /\ \A i \in 1..Len(stk[k].names) :
         \E n \in t : n.path = Append(stk[k].dir, stk[k].names[i])

\* What was given should be.
Sound(t, fs, yld) ==
  \A i \in 1..Len(yld) :
    \/ yld[i].path = <<>>
    \/ \E n \in t : /\ n.path # <<>> /\ yld[i] = Entry(n)
                    /\ Includes(t, fs, n) \/ ScansFor(t, fs, n)

\* What should be given was given, with all above it, if the walk has passed it.
Complete(t, fs, stk, yld) ==
  \A n \in t : n.path # <<>> /\ Includes(t, fs, n) /\ ~ Pending(stk, n.path) =>
    \A a \in Above(n.path) \cup {n.path} : a \in PathsOf(yld)

Exact(t, fs, stk, del, yld) ==
  /\ OnTheWay(t, fs, stk)
  /\ \A i \in 1..Len(del) : Takes(t, fs, del[i].path) = "scan"
  /\ Sound(t, fs, yld) /\ Complete(t, fs, stk, yld)
  /\ <<>> \in PathsOf(yld)

ExactInv ==
  /\ WalkInv
  /\ vanished = {} => tree \in Trees
  /\ vanished = {} /\ phase \in {"walk", "done"} =>
       Exact(tree, functions, stack, delayed, yielded)
  /\ phase = "done" => stack = <<>>

-----------------------------------------------------------------------------
(* Paths above a path. *)

LEMMA AboveIs ==
  ASSUME NEW p \in Paths, NEW a
  PROVE  a \in Above(p) <=> a \in Paths /\ 1 <= Len(a) /\ Len(a) < Len(p) /\ StartsWith(p, a)
<1>1. Len(p) \in Nat
  BY LenProperties DEF Paths
<1>2. ASSUME NEW k \in 1..Len(p) - 1
      PROVE  /\ SubSeq(p, 1, k) \in Paths /\ Len(SubSeq(p, 1, k)) = k
             /\ \A i \in 1..k : SubSeq(p, 1, k)[i] = p[i]
  <2>1. \A i \in 1..k : p[i] \in Nat
    <3>1. \A i \in 1..k : i \in 1..Len(p)
      BY <1>1
    <3> QED BY <3>1, ElementOfSeq DEF Paths
  <2>2. /\ SubSeq(p, 1, k) \in Seq(Nat)
        /\ Len(SubSeq(p, 1, k)) = IF 1 <= k THEN k - 1 + 1 ELSE 0
        /\ \A i \in 1..k - 1 + 1 : SubSeq(p, 1, k)[i] = p[1 + i - 1]
    BY <1>1, <2>1, SubSeqProperties
  <2>3. k - 1 + 1 = k /\ 1 <= k /\ \A i \in 1..k : 1 + i - 1 = i
    BY <1>1
  <2> QED BY <2>2, <2>3 DEF Paths
<1>3. ASSUME a \in Above(p)
      PROVE  a \in Paths /\ 1 <= Len(a) /\ Len(a) < Len(p) /\ StartsWith(p, a)
  <2>1. PICK k \in 1..Len(p) - 1 : a = SubSeq(p, 1, k)
    BY <1>3 DEF Above
  <2>2. a \in Paths /\ Len(a) = k /\ \A i \in 1..k : a[i] = p[i]
    BY <1>2, <2>1
  <2>3. 1 <= k /\ k < Len(p)
    BY <1>1
  <2> QED BY <2>2, <2>3 DEF StartsWith
<1>4. ASSUME a \in Paths, 1 <= Len(a), Len(a) < Len(p), StartsWith(p, a)
      PROVE  a \in Above(p)
  <2>1. Len(a) \in 1..Len(p) - 1
    BY <1>1, <1>4, LenProperties DEF Paths
  <2>2. /\ SubSeq(p, 1, Len(a)) \in Paths /\ Len(SubSeq(p, 1, Len(a))) = Len(a)
        /\ \A i \in 1..Len(a) : SubSeq(p, 1, Len(a))[i] = a[i]
    BY <1>2, <1>4, <2>1 DEF StartsWith
  <2>3. SubSeq(p, 1, Len(a)) = a
    BY <1>4, <2>2, SeqEqual DEF Paths
  <2> QED BY <2>1, <2>3 DEF Above
<1> QED BY <1>3, <1>4

LEMMA SamePrefix ==
  ASSUME NEW p, NEW a \in Paths, NEW d \in Paths,
         StartsWith(p, a), StartsWith(p, d), Len(a) = Len(d)
  PROVE  a = d
<1>1. \A i \in 1..Len(a) : a[i] = d[i]
  BY DEF StartsWith
<1> QED BY <1>1, SeqEqual DEF Paths

LEMMA StartsTransitive ==
  ASSUME NEW p \in Paths, NEW q \in Paths, NEW r \in Paths,
         StartsWith(q, p), StartsWith(r, q)
  PROVE  StartsWith(r, p)
<1>1. Len(p) \in Nat /\ Len(q) \in Nat /\ Len(r) \in Nat
  BY LenProperties DEF Paths
<1>2. Len(p) <= Len(q) /\ Len(q) <= Len(r)
  BY DEF StartsWith
<1>3. \A i \in 1..Len(p) : i \in 1..Len(q) /\ p[i] = q[i] /\ q[i] = r[i]
  BY <1>1, <1>2 DEF StartsWith
<1> QED BY <1>1, <1>2, <1>3 DEF StartsWith

LEMMA NoNames ==
  ASSUME NEW p \in Paths
  PROVE  (Len(p) = 0 <=> p = <<>>) /\ Len(p) \in Nat /\ StartsWith(p, <<>>) /\ <<>> \in Paths
<1>1. Len(<<>>) = 0 /\ <<>> \in Paths
  BY EmptySeq DEF Paths
<1> QED BY <1>1, EmptySeq, LenProperties DEF Paths, StartsWith

\* What is above a path is above all that is in it, and so is the path.
LEMMA WayInside ==
  ASSUME NEW p \in Paths, NEW q \in Paths, StartsWith(q, p)
  PROVE  /\ Above(p) \subseteq Above(q) /\ Way(p) \subseteq Way(q)
         /\ Len(p) < Len(q) => p \in Way(q) /\ (p # <<>> => p \in Above(q))
<1>1. Len(p) \in Nat /\ Len(q) \in Nat /\ Len(p) <= Len(q)
  BY LenProperties DEF Paths, StartsWith
<1>2. Above(p) \subseteq Above(q)
  <2> SUFFICES ASSUME NEW a \in Above(p) PROVE a \in Above(q)
    OBVIOUS
  <2>1. a \in Paths /\ 1 <= Len(a) /\ Len(a) < Len(p) /\ StartsWith(p, a)
    BY AboveIs
  <2>2. StartsWith(q, a) /\ Len(a) \in Nat
    BY <2>1, StartsTransitive, NoNames
  <2> QED BY <1>1, <2>1, <2>2, AboveIs
<1>3. Len(p) < Len(q) /\ p # <<>> => p \in Above(q)
  BY <1>1, NoNames, AboveIs
<1> QED BY <1>2, <1>3 DEF Way

\* Each frame is one level below the one before it.
Levels(stk) == \A k \in 1..Len(stk) : Len(stk[k].dir) = k - 1

\* The frames of the stack are those above the next path.
LEMMA FramesAbove ==
  ASSUME NEW stk \in Seq(FrameSet), stk # <<>>, Stacked(stk), Levels(stk),
         NEW c \in Paths, Len(c) = Len(stk), StartsWith(c, Last(stk).dir)
  PROVE  /\ \A k \in 1..Len(stk) : stk[k].dir \in Paths /\ StartsWith(c, stk[k].dir)
         /\ \A k \in 2..Len(stk) : stk[k].dir \in Above(c)
         /\ \A a \in Way(c) : \E k \in 1..Len(stk) : a = stk[k].dir /\ k = Len(a) + 1
<1> DEFINE n == Len(stk)
<1>1. n \in Nat /\ n >= 1 /\ Last(stk) = stk[n]
  BY FrontOf
<1>2. \A k \in 1..n : stk[k].dir \in Paths
  <2>1. \A k \in 1..n : stk[k] \in FrameSet
    BY ElementOfSeq
  <2>2. \A f \in FrameSet : f.dir \in Paths
    BY DEF FrameSet
  <2> QED BY <2>1, <2>2
<1> HIDE DEF n
<1>3. n \in 1..n /\ Len(stk[n].dir) = n - 1
  BY <1>1 DEF n, Levels
<1>4. Len(c) = n
  BY DEF n
<1>6. ASSUME NEW k \in 1..n PROVE StartsWith(c, stk[k].dir)
  <2>1. StartsWith(stk[n].dir, stk[k].dir)
    <3>1. k <= n
      BY <1>1
    <3> QED BY <1>3, <3>1 DEF Stacked, n
  <2> QED BY <1>1, <1>2, <1>3, <2>1, StartsTransitive
<1>7. ASSUME NEW k \in 2..n PROVE stk[k].dir \in Above(c)
  <2>1. k \in 1..n /\ Len(stk[k].dir) = k - 1 /\ 1 <= k - 1 /\ k - 1 < n
    BY <1>1 DEF n, Levels
  <2> QED BY <1>2, <1>4, <1>6, <2>1, AboveIs
<1>8. ASSUME NEW a \in Way(c)
      PROVE  \E k \in 1..n : a = stk[k].dir /\ k = Len(a) + 1
  <2>1. a \in Paths /\ Len(a) < n /\ StartsWith(c, a) /\ Len(a) \in Nat
    <3>1. CASE a \in Above(c)
      BY <1>4, <3>1, AboveIs, NoNames
    <3>2. CASE a = <<>>
      BY <1>1, <1>4, <3>2, NoNames
    <3> QED BY <3>1, <3>2 DEF Way
  <2>2. Len(a) + 1 \in 1..n /\ Len(stk[Len(a) + 1].dir) = Len(a)
    <3>1. Len(a) + 1 \in 1..n
      BY <1>1, <2>1
    <3>2. Len(stk[Len(a) + 1].dir) = Len(a) + 1 - 1
      BY <3>1 DEF n, Levels
    <3> QED BY <2>1, <3>1, <3>2
  <2>3. a = stk[Len(a) + 1].dir
    BY <1>2, <1>6, <2>1, <2>2, SamePrefix
  <2> QED BY <2>2, <2>3
<1> QED BY <1>2, <1>6, <1>7, <1>8 DEF n

-----------------------------------------------------------------------------
(* What the walk may still come to. *)

LEMMA PushPending ==
  ASSUME NEW stk \in Seq(FrameSet), NEW c \in Paths, NEW p \in Paths
  PROVE  /\ Pending(stk, p) => Pending(Append(stk, Frame(c)), p)
         /\ StartsWith(p, c) /\ Len(c) < Len(p) => Pending(Append(stk, Frame(c)), p)
<1> DEFINE f == Frame(c)
           r == Append(stk, f)
           n == Len(stk)
<1>1. f \in FrameSet /\ f.dir = c /\ ~ f.listed
  BY EmptySeq DEF Frame, FrameSet, Paths
<1> HIDE DEF f
<1>2. /\ Len(r) = n + 1 /\ n \in Nat
      /\ \A i \in 1..n : r[i] = stk[i]
      /\ r[n + 1] = f
  BY <1>1, AppendProperties, LenProperties
<1> HIDE DEF r, n
<1>3. Pending(stk, p) => Pending(r, p)
  <2> SUFFICES ASSUME Pending(stk, p) PROVE Pending(r, p)
    OBVIOUS
  <2>1. PICK k \in 1..n : \E x \in Left(stk[k]) : StartsWith(p, Append(stk[k].dir, x))
    BY DEF Pending, n
  <2>2. k \in 1..Len(r) /\ r[k] = stk[k]
    BY <1>2
  <2> QED BY <2>1, <2>2 DEF Pending
<1>4. ASSUME StartsWith(p, c), Len(c) < Len(p)  PROVE Pending(r, p)
  <2> DEFINE x == p[Len(c) + 1]
  <2>1. Len(c) \in Nat /\ Len(p) \in Nat /\ Len(c) + 1 \in 1..Len(p)
    BY <1>4, NoNames
  <2>2. x \in Nat
    BY <2>1, ElementOfSeq DEF Paths
  <2>3. /\ Len(Append(c, x)) = Len(c) + 1 /\ Append(c, x)[Len(c) + 1] = x
        /\ \A i \in 1..Len(c) : Append(c, x)[i] = c[i]
    BY <2>2, InDirectory
  <2>4. StartsWith(p, Append(c, x))
    <3> SUFFICES ASSUME NEW i \in 1..Len(c) + 1 PROVE Append(c, x)[i] = p[i]
      BY <2>1, <2>3 DEF StartsWith
    <3>1. CASE i = Len(c) + 1
      BY <2>3, <3>1
    <3>2. CASE i \in 1..Len(c)
      BY <1>4, <2>3, <3>2 DEF StartsWith
    <3> QED BY <2>1, <3>1, <3>2
  <2>5. x \in Left(f)
    BY <1>1, <2>2 DEF Left
  <2>6. n + 1 \in 1..Len(r)
    BY <1>2
  <2> QED BY <1>1, <1>2, <2>4, <2>5, <2>6 DEF Pending
<1> QED BY <1>3, <1>4 DEF r, f

\* A frame on the top that changes.
LEMMA ReplacePending ==
  ASSUME NEW stk \in Seq(FrameSet), stk # <<>>, NEW f \in FrameSet, f.dir = Last(stk).dir,
         NEW p, Pending(stk, p)
  PROVE  \/ Pending(Append(Front(stk), f), p)
         \/ \E x \in Left(Last(stk)) \ Left(f) : StartsWith(p, Append(f.dir, x))
<1> DEFINE r == Append(Front(stk), f)
           n == Len(stk)
<1>1. /\ Len(r) = n /\ n \in Nat /\ n >= 1 /\ Last(stk) = stk[n]
      /\ \A i \in 1..n - 1 : r[i] = stk[i]
      /\ r[n] = f
  BY ReplaceTop
<1> HIDE DEF r, n
<1>6. PICK k \in 1..n : \E x \in Left(stk[k]) : StartsWith(p, Append(stk[k].dir, x))
  BY DEF Pending, n
<1>2. PICK x \in Left(stk[k]) : StartsWith(p, Append(stk[k].dir, x))
  BY <1>6
<1>3. CASE k = n
  <2>1. CASE x \in Left(f)
    <3>1. Pending(r, p)
      BY <1>1, <1>2, <1>3, <2>1 DEF Pending
    <3> QED BY <3>1 DEF r
  <2> QED BY <1>1, <1>2, <1>3, <2>1
<1>4. CASE k # n
  <2>1. k \in 1..n - 1 /\ k \in 1..Len(r)
    BY <1>1, <1>4
  <2>2. Pending(r, p)
    BY <1>1, <1>2, <2>1 DEF Pending
  <2> QED BY <2>2 DEF r
<1> QED BY <1>3, <1>4

\* A frame that is done.
LEMMA PopPending ==
  ASSUME NEW stk \in Seq(FrameSet), stk # <<>>, Left(Last(stk)) = {}, NEW p, Pending(stk, p)
  PROVE  Pending(Front(stk), p)
<1> DEFINE r == Front(stk)
           n == Len(stk)
<1>1. /\ Len(r) = n - 1 /\ n \in Nat /\ n >= 1 /\ Last(stk) = stk[n]
      /\ \A i \in 1..n - 1 : r[i] = stk[i]
  BY FrontOf
<1> HIDE DEF r, n
<1>6. PICK k \in 1..n : \E x \in Left(stk[k]) : StartsWith(p, Append(stk[k].dir, x))
  BY DEF Pending, n
<1>2. PICK x \in Left(stk[k]) : StartsWith(p, Append(stk[k].dir, x))
  BY <1>6
<1>3. k # n
  BY <1>1, <1>2
<1>4. k \in 1..Len(r) /\ r[k] = stk[k]
  BY <1>1, <1>3
<1>5. Pending(r, p)
  BY <1>2, <1>4 DEF Pending
<1> QED BY <1>5 DEF r

LEMMA CompleteKeeps ==
  ASSUME NEW t, NEW fs, NEW stk, NEW yld, NEW stk2, NEW yld2,
         Complete(t, fs, stk, yld), PathsOf(yld) \subseteq PathsOf(yld2),
         \A n \in t : /\ n.path # <<>> /\ Includes(t, fs, n)
                      /\ Pending(stk, n.path) /\ ~ Pending(stk2, n.path)
                     => \A a \in Above(n.path) \cup {n.path} : a \in PathsOf(yld2)
  PROVE  Complete(t, fs, stk2, yld2)
BY DEF Complete

-----------------------------------------------------------------------------
(* The walk comes to a name. *)

LEMMA NamesAreNumbers ==
  ASSUME NEW p \in Seq(Names)  PROVE p \in Paths
<1>1. p \in [1..Len(p) -> Names] /\ Len(p) \in Nat /\ Names \subseteq Nat
  BY LenProperties, SelectionAssumption
<1>2. p \in [1..Len(p) -> Nat]
  BY <1>1
<1> QED BY <1>1, <1>2 DEF Paths

\* A directory found is in the source.
LEMMA FindsDirectory ==
  ASSUME NEW t, NEW p, Find(t, p).type = "dir"
  PROVE  Find(t, p) \in t /\ Find(t, p).path = p
<1>1. CASE \E n \in t : n.path = p
  BY <1>1 DEF Find
<1>2. CASE ~ \E n \in t : n.path = p
  <2>1. Find(t, p) = Node(p, "none", FALSE, FALSE, FALSE)
    BY <1>2 DEF Find
  <2>2. Find(t, p).type = "none"
    BY <2>1 DEF Node
  <2> QED BY <2>2
<1> QED BY <1>1, <1>2

\* The directories above the next name were entered, and it is in the source.
LEMMA NextReached ==
  ASSUME NEW t, NEW fs, NEW stk \in Seq(FrameSet), stk # <<>>, Stacked(stk),
         OnTheWay(t, fs, stk), Last(stk).names # <<>>
  PROVE  LET c == Append(Last(stk).dir, Head(Last(stk).names))
         IN  /\ \A k \in 1..Len(stk) : Entered(t, fs, stk[k].dir)
             /\ Reaches(t, fs, c) /\ \E n \in t : n.path = c
<1> DEFINE n == Len(stk)
           l == Last(stk)
           x == Head(l.names)
           c == Append(l.dir, x)
<1>1. n \in Nat /\ n >= 1 /\ l = stk[n] /\ l \in FrameSet
  BY FrontOf
<1>2. l.names \in Seq(Nat)
  BY <1>1 DEF FrameSet, Paths
<1> HIDE DEF n, l
<1>3. x \in Nat /\ x = l.names[1] /\ 1 \in 1..Len(l.names)
  <2>1. x \in Nat /\ x = l.names[1] /\ Len(l.names) \in Nat /\ Len(l.names) # 0
    BY <1>2, HeadTailProperties, EmptySeq DEF l
  <2> QED BY <2>1
<1>4. ASSUME NEW k \in 1..n PROVE Entered(t, fs, stk[k].dir)
  <2>1. k # 1 \/ n > 1 \/ stk[k].names # <<>>
    <3>1. CASE k = n
      BY <1>1, <3>1 DEF l
    <3>2. CASE k # n
      BY <1>1, <3>2
    <3> QED BY <3>1, <3>2
  <2> QED BY <2>1 DEF OnTheWay, n
<1>5. \E m \in t : m.path = c
  <2>1. n \in 1..n
    BY <1>1
  <2>2. \A i \in 1..Len(l.names) : \E m \in t : m.path = Append(l.dir, l.names[i])
    BY <1>1, <2>1 DEF OnTheWay, n
  <2> QED BY <1>3, <2>2
<1>6. Reaches(t, fs, c)
  <2>1. Levels(stk)
    BY DEF OnTheWay, Levels
  <2>2. c \in Paths /\ Len(c) = n /\ StartsWith(c, l.dir)
    <3>1. l.dir \in Paths /\ Len(l.dir) = n - 1
      <4>1. n \in 1..n
        BY <1>1
      <4> QED BY <1>1, <2>1, <4>1 DEF Levels, FrameSet, n
    <3> HIDE DEF x
    <3>2. /\ c \in Paths /\ Len(c) = Len(l.dir) + 1 /\ Len(l.dir) \in Nat
          /\ \A i \in 1..Len(l.dir) : c[i] = l.dir[i]
      BY <1>3, <3>1, InDirectory
    <3> HIDE DEF c
    <3>3. StartsWith(c, l.dir)
      BY <3>2 DEF StartsWith
    <3> QED BY <1>1, <3>1, <3>2, <3>3
  <2> HIDE DEF c
  <2>3. \A a \in Way(c) : \E k \in 1..Len(stk) : a = stk[k].dir /\ k = Len(a) + 1
    BY <2>1, <2>2, FramesAbove DEF n, l
  <2> QED BY <1>4, <2>3 DEF Reaches, n
<1> QED BY <1>4, <1>5, <1>6 DEF n, l

\* A frame that has fewer names is still on the way.
LEMMA ReplaceOnTheWay ==
  ASSUME NEW t, NEW fs, NEW stk \in Seq(FrameSet), stk # <<>>, OnTheWay(t, fs, stk),
         NEW f \in FrameSet, f.dir = Last(stk).dir,
         f.names # <<>> => Entered(t, fs, f.dir),
         \A i \in 1..Len(f.names) : \E n \in t : n.path = Append(f.dir, f.names[i])
  PROVE  OnTheWay(t, fs, Append(Front(stk), f))
<1> DEFINE r == Append(Front(stk), f)
           n == Len(stk)
<1>1. /\ Len(r) = n /\ n \in Nat /\ n >= 1 /\ Last(stk) = stk[n]
      /\ \A i \in 1..n - 1 : r[i] = stk[i]
      /\ r[n] = f
  BY ReplaceTop
<1> HIDE DEF r, n
<1> SUFFICES ASSUME NEW k \in 1..n
             PROVE  /\ Len(r[k].dir) = k - 1 /\ Find(t, r[k].dir).type = "dir"
                    /\ k # 1 \/ n > 1 \/ r[k].names # <<>> => Entered(t, fs, r[k].dir)
                    /\ \A i \in 1..Len(r[k].names) :
                         \E m \in t : m.path = Append(r[k].dir, r[k].names[i])
  BY <1>1 DEF OnTheWay, r
<1>2. /\ Len(stk[k].dir) = k - 1 /\ Find(t, stk[k].dir).type = "dir"
      /\ k # 1 \/ n > 1 \/ stk[k].names # <<>> => Entered(t, fs, stk[k].dir)
      /\ \A i \in 1..Len(stk[k].names) :
           \E m \in t : m.path = Append(stk[k].dir, stk[k].names[i])
  BY DEF OnTheWay, n
<1>3. CASE k = n
  BY <1>1, <1>2, <1>3
<1>4. CASE k # n
  <2>1. r[k] = stk[k]
    BY <1>1, <1>4
  <2> QED BY <1>2, <2>1
<1> QED BY <1>3, <1>4

\* A directory that is entered is on the way.
LEMMA PushOnTheWay ==
  ASSUME NEW t, NEW fs, NEW stk \in Seq(FrameSet), OnTheWay(t, fs, stk),
         \A k \in 1..Len(stk) : Entered(t, fs, stk[k].dir),
         NEW c \in Paths, Len(c) = Len(stk), Entered(t, fs, c)
  PROVE  OnTheWay(t, fs, Append(stk, Frame(c)))
<1> DEFINE f == Frame(c)
           r == Append(stk, f)
           n == Len(stk)
<1>1. f \in FrameSet /\ f.dir = c /\ f.names = <<>> /\ Len(f.names) = 0
  BY EmptySeq DEF Frame, FrameSet, Paths
<1> HIDE DEF f
<1>2. /\ Len(r) = n + 1 /\ n \in Nat
      /\ \A i \in 1..n : r[i] = stk[i]
      /\ r[n + 1] = f
  BY <1>1, AppendProperties, LenProperties
<1> HIDE DEF r, n
<1> SUFFICES ASSUME NEW k \in 1..n + 1
             PROVE  /\ Len(r[k].dir) = k - 1 /\ Find(t, r[k].dir).type = "dir"
                    /\ Entered(t, fs, r[k].dir)
                    /\ \A i \in 1..Len(r[k].names) :
                         \E m \in t : m.path = Append(r[k].dir, r[k].names[i])
  BY <1>2 DEF OnTheWay, r, f
<1>3. CASE k = n + 1
  <2>1. Find(t, c).type = "dir"
    BY DEF Entered
  <2>2. Len(c) = k - 1
    BY <1>2, <1>3 DEF n
  <2> QED BY <1>1, <1>2, <1>3, <2>1, <2>2
<1>4. CASE k # n + 1
  <2>1. k \in 1..n /\ r[k] = stk[k]
    BY <1>2, <1>4
  <2> QED BY <2>1 DEF OnTheWay, n
<1> QED BY <1>3, <1>4

\* The frame on the top loses its first name, and nothing but what has that name.
LEMMA LosesOneName ==
  ASSUME NEW stk \in Seq(FrameSet), stk # <<>>, Last(stk).listed, Last(stk).names # <<>>,
         NEW f \in FrameSet, f.dir = Last(stk).dir, f.names = Tail(Last(stk).names),
         NEW c, c = Append(Last(stk).dir, Head(Last(stk).names)),
         NEW p, Pending(stk, p), ~ Pending(Append(Front(stk), f), p)
  PROVE  StartsWith(p, c)
<1> DEFINE l == Last(stk)
<1>1. l \in FrameSet /\ l.names \in Seq(Nat) /\ l.names # <<>>
  <2>1. l \in FrameSet
    BY FrontOf
  <2> QED BY <2>1 DEF FrameSet, Paths
<1>2. /\ Len(Tail(l.names)) = Len(l.names) - 1
      /\ \A i \in 1..Len(Tail(l.names)) : Tail(l.names)[i] = l.names[i + 1]
      /\ Head(l.names) = l.names[1]
      /\ Len(l.names) \in Nat
  BY <1>1, HeadTailProperties, LenProperties
<1>3. PICK x \in Left(l) \ Left(f) : StartsWith(p, Append(f.dir, x))
  BY ReplacePending
<1>4. x \in Nat /\ \E i \in 1..Len(l.names) : l.names[i] = x
  BY <1>3 DEF Left
<1>5. PICK i \in 1..Len(l.names) : l.names[i] = x
  BY <1>4
<1>6. i = 1
  <2> SUFFICES ASSUME i # 1 PROVE FALSE
    OBVIOUS
  <2>1. i - 1 \in 1..Len(Tail(l.names)) /\ i - 1 + 1 = i
    BY <1>2
  <2>2. f.names[i - 1] = x /\ i - 1 \in 1..Len(f.names)
    BY <1>2, <1>5, <2>1
  <2>3. x \in Left(f)
    BY <1>4, <2>2 DEF Left
  <2> QED BY <1>3, <2>3
<1>7. x = Head(l.names)
  BY <1>2, <1>5, <1>6
<1> QED BY <1>3, <1>7

\* The walk passes the path c, and enters it or not.
LEMMA PassesName ==
  ASSUME NEW t, IsTree(t), NEW fs, NEW stk, NEW r \in Seq(FrameSet), NEW c \in Paths,
         NEW s, NEW yld, NEW z,
         Complete(t, fs, stk, yld), PathsOf(yld) \subseteq PathsOf(z),
         \A p \in Paths : Pending(stk, p) /\ ~ Pending(r, p) => StartsWith(p, c),
         s = r \/ s = Append(r, Frame(c)),
         Entered(t, fs, c) => s = Append(r, Frame(c)),
         \A n \in t : n.path = c /\ Includes(t, fs, n) =>
                        \A a \in Above(c) \cup {c} : a \in PathsOf(z)
  PROVE  Complete(t, fs, s, z)
<1> SUFFICES ASSUME NEW n \in t, n.path # <<>>, Includes(t, fs, n),
                    Pending(stk, n.path), ~ Pending(s, n.path)
             PROVE  \A a \in Above(n.path) \cup {n.path} : a \in PathsOf(z)
  BY CompleteKeeps
<1>1. n.path \in Paths
  BY TreeParts, NamesAreNumbers
<1>2. ~ Pending(r, n.path)
  BY <1>1, PushPending
<1>3. StartsWith(n.path, c)
  BY <1>1, <1>2
<1>4. ~ (Len(c) < Len(n.path))
  <2> SUFFICES ASSUME Len(c) < Len(n.path) PROVE FALSE
    OBVIOUS
  <2>1. c \in Way(n.path)
    BY <1>1, <1>3, WayInside
  <2>2. Entered(t, fs, c)
    BY <2>1 DEF Includes, Reaches
  <2> QED BY <1>1, <1>3, <2>2, PushPending
<1>5. n.path = c
  <2>1. Len(c) = Len(n.path)
    BY <1>1, <1>3, <1>4, NoNames DEF StartsWith
  <2>2. StartsWith(n.path, n.path)
    BY <1>1, NoNames DEF StartsWith
  <2> QED BY <1>1, <1>3, <2>1, <2>2, SamePrefix
<1> QED BY <1>5

\* A directory held back is scanned for what is included below it.
LEMMA HeldBackIsScanned ==
  ASSUME NEW t, IsTree(t), NEW fs, NEW d \in EntrySet, d.type = "dir", d.path # <<>>,
         Entered(t, fs, d.path), Takes(t, fs, d.path) = "scan",
         NEW n \in t, n.path # <<>>, Includes(t, fs, n), d.path \in Above(n.path)
  PROVE  \E m \in t : m.path # <<>> /\ d = Entry(m) /\ ScansFor(t, fs, m)
<1> DEFINE m == Find(t, d.path)
<1>1. m \in t /\ m.path = d.path /\ m.type = "dir" /\ m.readable
  BY FindsDirectory DEF Entered
<1>2. n.path \in Paths /\ d.path \in Paths
  BY TreeParts, NamesAreNumbers DEF EntrySet
<1>3. StartsWith(n.path, d.path)
  BY <1>2, AboveIs
<1>4. Under(d.path, n.path)
  BY <1>2, <1>3, PrefixByPlace DEF Under
<1>5. Reaches(t, fs, d.path)
  <2>1. Way(d.path) \subseteq Way(n.path)
    BY <1>2, <1>3, WayInside
  <2> QED BY <2>1 DEF Includes, Reaches
<1> HIDE DEF m
<1>6. ScansFor(t, fs, m)
  BY <1>1, <1>4, <1>5 DEF ScansFor
<1>7. d = Entry(m)
  BY <1>1 DEF Entry, EntrySet
<1> QED BY <1>1, <1>6, <1>7

\* What is given at once should be.
LEMMA SoundGives ==
  ASSUME NEW t, IsTree(t), NEW fs, NEW stk \in Seq(FrameSet), stk # <<>>,
         NEW del \in Seq(EntrySet), NEW yld \in Seq(EntrySet),
         HeldBack(stk, del, yld), Sound(t, fs, yld),
         \A i \in 1..Len(del) : Takes(t, fs, del[i].path) = "scan",
         NEW n \in t, n.path # <<>>, Includes(t, fs, n), Entry(n) \in EntrySet,
         \A k \in 2..Len(stk) : stk[k].dir \in Above(n.path) /\ Entered(t, fs, stk[k].dir)
  PROVE  Sound(t, fs, yld \o del \o <<Entry(n)>>)
<1> DEFINE e == Entry(n)
           z == yld \o del \o <<e>>
<1> HIDE DEF e
<1>1. /\ Len(z) = Len(yld) + Len(del) + 1
      /\ \A i \in 1..Len(yld) : z[i] = yld[i]
      /\ \A i \in 1..Len(del) : z[Len(yld) + i] = del[i]
      /\ z[Len(yld) + Len(del) + 1] = e
      /\ Len(yld) \in Nat /\ Len(del) \in Nat
  BY GivenAtOnce DEF e
<1> HIDE DEF z
<1>2. Len(stk) \in Nat /\ Len(del) < Len(stk)
  BY FrontOf, EmptySeq DEF HeldBack
<1>3. ASSUME NEW i \in 1..Len(del)
      PROVE  \E m \in t : m.path # <<>> /\ del[i] = Entry(m) /\ ScansFor(t, fs, m)
  <2> DEFINE k == Len(stk) - Len(del) + i
  <2>1. k \in 2..Len(stk)
    BY <1>1, <1>2
  <2>2. del[i].type = "dir" /\ del[i].path = stk[k].dir /\ del[i] \in EntrySet
    BY <1>1, ElementOfSeq DEF HeldBack
  <2> HIDE DEF k
  <2>3. del[i].path \in Above(n.path) /\ Entered(t, fs, del[i].path)
    BY <2>1, <2>2
  <2>4. del[i].path # <<>>
    <3>1. n.path \in Paths
      BY TreeParts, NamesAreNumbers
    <3> QED BY <2>3, <3>1, AboveIs, NoNames
  <2> QED BY <2>2, <2>3, <2>4, HeldBackIsScanned
<1>4. ASSUME NEW i \in 1..Len(z)
      PROVE  \/ z[i].path = <<>>
             \/ \E m \in t : /\ m.path # <<>> /\ z[i] = Entry(m)
                             /\ Includes(t, fs, m) \/ ScansFor(t, fs, m)
  <2>1. CASE i \in 1..Len(yld)
    BY <1>1, <2>1 DEF Sound
  <2>2. CASE i - Len(yld) \in 1..Len(del)
    <3>1. z[Len(yld) + (i - Len(yld))] = del[i - Len(yld)]
      BY <1>1, <2>2
    <3>2. Len(yld) + (i - Len(yld)) = i
      BY <1>1
    <3> QED BY <1>3, <2>2, <3>1, <3>2
  <2>3. CASE i = Len(yld) + Len(del) + 1
    BY <1>1, <2>3 DEF e
  <2>4. i \in 1..Len(yld) \/ i - Len(yld) \in 1..Len(del) \/ i = Len(yld) + Len(del) + 1
    <3>1. \A a, b \in Nat : \A j \in 1..a + b + 1 :
            j \in 1..a \/ j - a \in 1..b \/ j = a + b + 1
      OBVIOUS
    <3>2. i \in 1..Len(yld) + Len(del) + 1
      BY <1>1
    <3> QED BY <1>1, <3>1, <3>2
  <2> QED BY <2>1, <2>2, <2>3, <2>4
<1>5. Sound(t, fs, z)
  BY <1>4 DEF Sound
<1> QED BY <1>5 DEF z, e

-----------------------------------------------------------------------------
(* The steps of the walk give what they should. *)

\* The next name, once it has left its frame.
LEMMA NextExact ==
  ASSUME WalkInv, IsTree(tree), OnTheWay(tree, functions, stack),
         Walking, Top.listed, Top.names # <<>>
  PROVE  /\ Rest \in Seq(FrameSet) /\ Rest # <<>> /\ OnTheWay(tree, functions, Rest)
         /\ \A k \in 1..Len(Rest) : Entered(tree, functions, Rest[k].dir)
         /\ Candidate \in tree /\ Candidate.path \in Paths /\ Candidate.path # <<>>
         /\ Len(Candidate.path) = Len(Rest) /\ Reaches(tree, functions, Candidate.path)
         /\ \A k \in 2..Len(Rest) : Rest[k].dir \in Above(Candidate.path)
         /\ \A a \in Above(Candidate.path) : \E k \in 1..Len(Rest) : a = Rest[k].dir
         /\ \A p \in Paths : Pending(stack, p) /\ ~ Pending(Rest, p) =>
                               StartsWith(p, Candidate.path)
<1> DEFINE n == Len(stack)
           x == Head(Top.names)
           c == Append(Top.dir, x)
<1>1. stack \in Seq(FrameSet) /\ stack # <<>> /\ Stacked(stack)
  BY DEF WalkInv, Good, Typed, Walking
<1>2. Good(Rest, delayed, yielded) /\ Top.dir \in Paths /\ x \in Nat
  BY NextFits DEF WalkInv
<1>3. /\ \A k \in 1..n : Entered(tree, functions, stack[k].dir)
      /\ Reaches(tree, functions, c) /\ \E m \in tree : m.path = c
  BY <1>1, NextReached DEF Top
<1>4. Candidate \in tree /\ Candidate.path = c
  <2>1. PICK m \in tree : m.path = c
    BY <1>3
  <2>2. Find(tree, c) = m
    BY <2>1, TreeParts
  <2> QED BY <2>1, <2>2 DEF Candidate
<1>5. Top \in FrameSet /\ Top.names \in Seq(Nat) /\ Top = stack[n] /\ n \in Nat /\ n >= 1
  <2>1. Top \in FrameSet /\ Top = stack[n] /\ n \in Nat /\ n >= 1
    BY <1>1, FrontOf DEF Top
  <2> QED BY <2>1 DEF FrameSet, Paths
<1>6. /\ Tail(Top.names) \in Seq(Nat)
      /\ \A i \in 1..Len(Tail(Top.names)) : /\ Tail(Top.names)[i] = Top.names[i + 1]
                                            /\ i + 1 \in 1..Len(Top.names)
  <2>1. /\ Tail(Top.names) \in Seq(Nat) /\ Len(Tail(Top.names)) = Len(Top.names) - 1
        /\ \A i \in 1..Len(Tail(Top.names)) : Tail(Top.names)[i] = Top.names[i + 1]
        /\ Len(Top.names) \in Nat
    BY <1>5, HeadTailProperties, LenProperties
  <2> QED BY <2>1
<1>7. TopLess \in FrameSet /\ TopLess.dir = Top.dir /\ TopLess.names = Tail(Top.names)
  BY <1>5, <1>6 DEF FrameSet, Paths, TopLess
<1>8. /\ Rest \in Seq(FrameSet) /\ Rest # <<>> /\ Len(Rest) = n
      /\ \A i \in 1..n - 1 : Rest[i] = stack[i]
      /\ Rest[n] = TopLess
  BY <1>1, <1>7, ReplaceTop DEF Rest
<1>9. OnTheWay(tree, functions, Rest)
  <2>1. n \in 1..n
    BY <1>5
  <2>2. Entered(tree, functions, TopLess.dir)
    BY <1>3, <1>5, <1>7, <2>1
  <2>3. \A i \in 1..Len(Top.names) : \E m \in tree : m.path = Append(Top.dir, Top.names[i])
    BY <1>5, <2>1 DEF OnTheWay
  <2>4. \A i \in 1..Len(TopLess.names) :
          \E m \in tree : m.path = Append(TopLess.dir, TopLess.names[i])
    <3> SUFFICES ASSUME NEW i \in 1..Len(Tail(Top.names))
                 PROVE  \E m \in tree : m.path = Append(Top.dir, Tail(Top.names)[i])
      BY <1>7
    <3>1. PICK m \in tree : m.path = Append(Top.dir, Top.names[i + 1])
      BY <1>6, <2>3
    <3> QED BY <1>6, <3>1
  <2> QED BY <1>1, <1>7, <2>2, <2>4, ReplaceOnTheWay DEF Rest, Top
<1> HIDE DEF c, x
<1>10. \A k \in 1..n : Entered(tree, functions, Rest[k].dir) /\ Rest[k].dir = stack[k].dir
  <2> SUFFICES ASSUME NEW k \in 1..n PROVE Rest[k].dir = stack[k].dir
    BY <1>3
  <2>1. CASE k = n
    BY <1>5, <1>7, <1>8, <2>1
  <2>2. CASE k # n
    <3>1. k \in 1..n - 1
      BY <1>5, <2>2
    <3> QED BY <1>8, <3>1
  <2> QED BY <2>1, <2>2
<1>11. c \in Paths /\ Len(c) = n /\ StartsWith(c, Last(Rest).dir)
  <2>1. /\ c \in Paths /\ Len(c) = Len(Top.dir) + 1 /\ Len(Top.dir) \in Nat
        /\ \A i \in 1..Len(Top.dir) : c[i] = Top.dir[i]
    BY <1>2, InDirectory DEF c
  <2>2. StartsWith(c, Top.dir)
    BY <2>1 DEF StartsWith
  <2>3. Last(Rest).dir = Top.dir
    BY <1>7, <1>8 DEF Last
  <2>4. Len(Top.dir) = n - 1
    <3>1. n \in 1..n
      BY <1>5
    <3> QED BY <1>5, <3>1 DEF OnTheWay
  <2> QED BY <1>5, <2>1, <2>2, <2>3, <2>4
<1>12. c # <<>>
  BY <1>5, <1>11, NoNames
<1>13. /\ \A k \in 2..Len(Rest) : Rest[k].dir \in Above(c)
       /\ \A a \in Way(c) : \E k \in 1..Len(Rest) : a = Rest[k].dir /\ k = Len(a) + 1
  <2>1. Stacked(Rest)
    BY <1>2 DEF Good
  <2>2. Levels(Rest)
    BY <1>9 DEF OnTheWay, Levels
  <2> QED BY <1>8, <1>11, <2>1, <2>2, FramesAbove
<1>14. ASSUME NEW p \in Paths, Pending(stack, p), ~ Pending(Rest, p)  PROVE StartsWith(p, c)
  <2>1. c = Append(Last(stack).dir, Head(Last(stack).names))
    BY DEF c, x, Top
  <2>2. /\ TopLess \in FrameSet /\ TopLess.dir = Last(stack).dir
        /\ TopLess.names = Tail(Last(stack).names)
    BY <1>7 DEF Top
  <2>3. /\ Last(stack).listed /\ Last(stack).names # <<>>
        /\ ~ Pending(Append(Front(stack), TopLess), p)
    BY <1>14 DEF Top, Rest
  <2> QED BY <1>1, <1>14, <2>1, <2>2, <2>3, LosesOneName
<1>15. Above(c) \subseteq Way(c)
  BY DEF Way
<1> QED BY <1>3, <1>4, <1>8, <1>9, <1>10, <1>11, <1>12, <1>13, <1>14, <1>15

LEMMA ExamineExact ==
  ASSUME WalkInv, IsTree(tree), Exact(tree, functions, stack, delayed, yielded), Examine
  PROVE  Exact(tree, functions, stack', delayed', yielded')
<1> DEFINE n == Candidate
           c == n.path
           e == Entry(n)
           z == yielded \o delayed \o <<e>>
           s == Select(functions, n, tree)
           in == Append(Rest, Frame(c))
<1>1. /\ Rest \in Seq(FrameSet) /\ Rest # <<>> /\ OnTheWay(tree, functions, Rest)
      /\ \A k \in 1..Len(Rest) : Entered(tree, functions, Rest[k].dir)
      /\ n \in tree /\ c \in Paths /\ c # <<>>
      /\ Len(c) = Len(Rest) /\ Reaches(tree, functions, c)
      /\ \A k \in 2..Len(Rest) : Rest[k].dir \in Above(c)
      /\ \A a \in Above(c) : \E k \in 1..Len(Rest) : a = Rest[k].dir
      /\ \A p \in Paths : Pending(stack, p) /\ ~ Pending(Rest, p) => StartsWith(p, c)
  BY NextExact DEF Exact, Examine
<1>2. /\ Good(Rest, delayed, yielded) /\ Fits(Rest, yielded, Head(Top.names))
      /\ Last(Rest).dir = Top.dir /\ Top.dir \in Paths /\ Head(Top.names) \in Nat
  BY NextFits DEF WalkInv, Examine
<1>3. n = Find(tree, c) /\ e \in EntrySet /\ e.path = c /\ c = Append(Top.dir, Head(Top.names))
  <2>1. n = Find(tree, c)
    BY <1>1, TreeParts
  <2>2. Append(Top.dir, Head(Top.names)) \in Paths
    BY <1>2, InDirectory
  <2>3. c = Append(Top.dir, Head(Top.names))
    BY <2>2, FindsNode DEF WalkInv, Candidate
  <2>4. e \in EntrySet
    BY <1>1, <2>1, FindsNode DEF WalkInv
  <2> QED BY <2>1, <2>3, <2>4 DEF Entry
<1>4. s = Takes(tree, functions, c)
  BY <1>3 DEF Takes
<1>5. \/ /\ Taken(n, s) /\ s = "include"
         /\ yielded' = z /\ delayed' = <<>>
         /\ stack' = IF n.type = "dir" THEN in ELSE Rest
      \/ /\ Taken(n, s) /\ s = "scan" /\ n.type = "dir"
         /\ delayed' = Append(delayed, e)
         /\ stack' = in /\ yielded' = yielded
      \/ /\ ~(Taken(n, s) /\ (s = "include" \/ n.type = "dir"))
         /\ stack' = Rest
         /\ delayed' = delayed /\ yielded' = yielded
  BY DEF Examine, Rest, TopLess
<1>6. /\ delayed \in Seq(EntrySet) /\ yielded \in Seq(EntrySet)
      /\ \A i \in 1..Len(delayed) : Takes(tree, functions, delayed[i].path) = "scan"
      /\ Sound(tree, functions, yielded) /\ Complete(tree, functions, stack, yielded)
      /\ <<>> \in PathsOf(yielded)
  BY DEF WalkInv, Good, Typed, Exact
<1>7. ASSUME n.type = "dir", n.readable, s \in {"include", "scan"}
      PROVE  OnTheWay(tree, functions, in)
  <2>1. Entered(tree, functions, c)
    BY <1>3, <1>4, <1>7 DEF Entered
  <2> QED BY <1>1, <2>1, PushOnTheWay
<1>8. ASSUME Entered(tree, functions, c)
      PROVE  /\ n.type = "dir" /\ n.readable /\ s \in {"include", "scan"}
             /\ Taken(n, s)
  BY <1>1, <1>3, <1>4, <1>8 DEF Entered, Taken
<1>9. ASSUME NEW m \in tree, m.path = c, Includes(tree, functions, m)
      PROVE  s = "include" /\ Taken(n, s)
  <2>1. m = n
    BY <1>3, <1>9, TreeParts
  <2> QED BY <1>4, <1>9, <2>1 DEF Includes, Readable, Taken
<1> HIDE DEF n, c, e, z, s, in
<1>10. CASE /\ Taken(n, s) /\ s = "include"
            /\ yielded' = z /\ delayed' = <<>>
            /\ stack' = IF n.type = "dir" THEN in ELSE Rest
  <2>1. Includes(tree, functions, n)
    BY <1>1, <1>3, <1>4, <1>10 DEF Includes, Readable, Taken, c
  <2>2. Sound(tree, functions, z)
    <3>1. HeldBack(Rest, delayed, yielded)
      BY <1>2 DEF Good
    <3>2. n.path # <<>> /\ Entry(n) \in EntrySet /\ Len(Rest) \in Nat
      BY <1>1, <1>3, LenProperties DEF c, e
    <3>3. \A k \in 2..Len(Rest) : /\ Rest[k].dir \in Above(n.path)
                                  /\ Entered(tree, functions, Rest[k].dir)
      <4>1. \A k \in 2..Len(Rest) : k \in 1..Len(Rest)
        BY <3>2
      <4> QED BY <1>1, <4>1 DEF c
    <3>4. Sound(tree, functions, yielded \o delayed \o <<Entry(n)>>)
      BY <1>1, <1>6, <2>1, <3>1, <3>2, <3>3, SoundGives
    <3> QED BY <3>4 DEF z, e
  <2>3. OnTheWay(tree, functions, stack')
    BY <1>1, <1>7, <1>10 DEF Taken
  <2>4. /\ z \in Seq(EntrySet) /\ Len(z) \in Nat
        /\ PathsOf(yielded) \subseteq PathsOf(z) /\ c \in PathsOf(z)
    <3>1. /\ z \in Seq(EntrySet) /\ Len(z) = Len(yielded) + Len(delayed) + 1
          /\ \A i \in 1..Len(yielded) : z[i] = yielded[i]
          /\ z[Len(yielded) + Len(delayed) + 1] = e
          /\ Len(yielded) \in Nat /\ Len(delayed) \in Nat
      BY <1>3, <1>6, GivenAtOnce DEF z
    <3>2. \A i \in 1..Len(yielded) : i \in 1..Len(z)
      BY <3>1
    <3>3. Len(yielded) + Len(delayed) + 1 \in 1..Len(z)
      BY <3>1
    <3>4. PathsOf(yielded) \subseteq PathsOf(z)
      BY <3>1, <3>2 DEF PathsOf
    <3>5. c \in PathsOf(z)
      BY <1>3, <3>1, <3>3 DEF PathsOf
    <3> QED BY <3>1, <3>4, <3>5
  <2>5. \A a \in Above(c) \cup {c} : a \in PathsOf(z)
    <3>1. Good(Rest, <<>>, z)
      BY <1>2, <1>3, YieldKeeps DEF z
    <3>2. ASSUME NEW k \in 1..Len(Rest) PROVE Rest[k].dir \in PathsOf(z)
      <4>1. Len(<<>>) = 0 /\ Len(Rest) \in Nat
        BY <1>1, EmptySeq, LenProperties
      <4>2. k \in 1..Len(Rest) - Len(<<>>)
        BY <4>1
      <4>3. \E j \in 1..Len(z) : z[j].path = Rest[k].dir
        BY <3>1, <4>2 DEF Good, Given
      <4> QED BY <4>3 DEF PathsOf
    <3> QED BY <1>1, <2>4, <3>2
  <2>6. Complete(tree, functions, stack', z)
    <3>1. stack' = Rest \/ stack' = Append(Rest, Frame(c))
      BY <1>10 DEF in
    <3>2. Entered(tree, functions, c) => stack' = Append(Rest, Frame(c))
      BY <1>8, <1>10 DEF in
    <3> QED BY <1>1, <1>6, <2>4, <2>5, <3>1, <3>2, PassesName
  <2>7. \A i \in 1..Len(<<>>) : Takes(tree, functions, <<>>[i].path) = "scan"
    <3>1. Len(<<>>) = 0
      BY EmptySeq
    <3> QED BY <3>1
  <2> QED BY <1>6, <1>10, <2>2, <2>3, <2>4, <2>6, <2>7 DEF Exact
<1>11. CASE /\ Taken(n, s) /\ s = "scan" /\ n.type = "dir"
            /\ delayed' = Append(delayed, e)
            /\ stack' = in /\ yielded' = yielded
  <2>1. OnTheWay(tree, functions, stack')
    BY <1>7, <1>11 DEF Taken
  <2>2. \A i \in 1..Len(delayed') : Takes(tree, functions, delayed'[i].path) = "scan"
    <3>1. /\ Len(Append(delayed, e)) = Len(delayed) + 1 /\ Len(delayed) \in Nat
          /\ \A i \in 1..Len(delayed) : Append(delayed, e)[i] = delayed[i]
          /\ Append(delayed, e)[Len(delayed) + 1] = e
      BY <1>3, <1>6, AppendProperties, LenProperties
    <3> SUFFICES ASSUME NEW i \in 1..Len(delayed) + 1
                 PROVE  Takes(tree, functions, Append(delayed, e)[i].path) = "scan"
      BY <1>11, <3>1
    <3>2. CASE i = Len(delayed) + 1
      BY <1>3, <1>4, <1>11, <3>1, <3>2
    <3>3. CASE i # Len(delayed) + 1
      <4>1. i \in 1..Len(delayed)
        BY <3>1, <3>3
      <4> QED BY <1>6, <3>1, <4>1
    <3> QED BY <3>2, <3>3
  <2>3. Complete(tree, functions, stack', yielded)
    <3>1. stack' = Append(Rest, Frame(c))
      BY <1>11 DEF in
    <3>2. \A m \in tree : ~ (m.path = c /\ Includes(tree, functions, m))
      BY <1>9, <1>11
    <3> QED BY <1>1, <1>6, <3>1, <3>2, PassesName
  <2> QED BY <1>6, <1>11, <2>1, <2>2, <2>3 DEF Exact
<1>12. CASE /\ ~(Taken(n, s) /\ (s = "include" \/ n.type = "dir"))
            /\ stack' = Rest
            /\ delayed' = delayed /\ yielded' = yielded
  <2>1. Complete(tree, functions, stack', yielded)
    <3>1. \A m \in tree : ~ (m.path = c /\ Includes(tree, functions, m))
      BY <1>9, <1>12
    <3>2. ~ Entered(tree, functions, c)
      BY <1>8, <1>12
    <3>3. Complete(tree, functions, Rest, yielded)
      <4>1. \A m \in tree : m.path = c /\ Includes(tree, functions, m) =>
              \A a \in Above(c) \cup {c} : a \in PathsOf(yielded)
        BY <3>1
      <4>2. Complete(tree, functions, stack, yielded) /\ PathsOf(yielded) \subseteq PathsOf(yielded)
        BY <1>6
      <4>3. Rest = Rest \/ Rest = Append(Rest, Frame(c))
        OBVIOUS
      <4>4. /\ \A p \in Paths : Pending(stack, p) /\ ~ Pending(Rest, p) => StartsWith(p, c)
            /\ Rest \in Seq(FrameSet) /\ c \in Paths
        BY <1>1
      <4> QED BY <3>2, <4>1, <4>2, <4>3, <4>4, PassesName
    <3> QED BY <1>12, <3>3
  <2> QED BY <1>1, <1>6, <1>12, <2>1 DEF Exact
<1> QED BY <1>5, <1>10, <1>11, <1>12

LEMMA ListExact ==
  ASSUME WalkInv, IsTree(tree), Exact(tree, functions, stack, delayed, yielded), List
  PROVE  Exact(tree, functions, stack', delayed', yielded')
<1> DEFINE f == [Top EXCEPT !.listed = TRUE, !.names = Listing(tree, Top.dir)]
           n == Len(stack)
<1>1. /\ stack \in Seq(FrameSet) /\ stack # <<>> /\ Top \in FrameSet /\ ~ Top.listed
      /\ n \in Nat /\ n >= 1 /\ Top = stack[n]
  BY FrontOf DEF WalkInv, Good, Typed, List, Walking, Top
<1>2. Top.dir \in Paths /\ Len(Top.dir) = n - 1
  <2>1. n \in 1..n
    BY <1>1
  <2> QED BY <1>1, <2>1 DEF FrameSet, Exact, OnTheWay
<1>3. LET names == Listing(tree, Top.dir)
      IN  /\ names \in Paths /\ Ascends(names)
          /\ names # <<>> => Find(tree, Top.dir).type = "dir" /\ Find(tree, Top.dir).readable
          /\ \A i \in 1..Len(names) : \E m \in tree : m.path = Append(Top.dir, names[i])
          /\ Find(tree, Top.dir).type = "dir" /\ Find(tree, Top.dir).readable =>
               \A m \in tree, x \in Nat : m.path = Append(Top.dir, x) =>
                 \E i \in 1..Len(names) : names[i] = x
  BY <1>2, ListingSorts DEF WalkInv
<1>4. f \in FrameSet /\ f.dir = Top.dir /\ f.names = Listing(tree, Top.dir) /\ f.listed
  BY <1>1, <1>3 DEF FrameSet
<1>5. stack' = Append(Front(stack), f) /\ delayed' = delayed /\ yielded' = yielded
  BY DEF List
<1> HIDE DEF f
<1>6. OnTheWay(tree, functions, stack')
  <2>1. f.names # <<>> => Entered(tree, functions, f.dir)
    <3> SUFFICES ASSUME f.names # <<>> PROVE Entered(tree, functions, Top.dir)
      BY <1>4
    <3>1. Find(tree, Top.dir).type = "dir" /\ Find(tree, Top.dir).readable
      BY <1>3, <1>4
    <3>2. CASE n = 1
      <4>1. Top.dir = <<>>
        BY <1>2, <3>2, NoNames
      <4> QED BY <3>1, <4>1 DEF Entered
    <3>3. CASE n > 1
      <4>1. n \in 1..n
        BY <1>1
      <4> QED BY <1>1, <3>3, <4>1 DEF Exact, OnTheWay
    <3>4. \A i \in Nat : i >= 1 => i = 1 \/ i > 1
      OBVIOUS
    <3> QED BY <1>1, <3>2, <3>3, <3>4
  <2>2. \A i \in 1..Len(f.names) : \E m \in tree : m.path = Append(f.dir, f.names[i])
    BY <1>3, <1>4
  <2>3. OnTheWay(tree, functions, stack) /\ f.dir = Last(stack).dir
    BY <1>4 DEF Exact, Top
  <2> QED BY <1>1, <1>4, <1>5, <2>1, <2>2, <2>3, ReplaceOnTheWay
<1>7. Complete(tree, functions, stack', yielded)
  <2> SUFFICES ASSUME NEW m \in tree, m.path # <<>>, Includes(tree, functions, m),
                      Pending(stack, m.path), ~ Pending(stack', m.path)
               PROVE  FALSE
    <3>1. Complete(tree, functions, stack, yielded)
      BY DEF Exact
    <3> QED BY <3>1, CompleteKeeps
  <2> DEFINE p == m.path
  <2>1. p \in Paths
    BY TreeParts, NamesAreNumbers
  <2> HIDE DEF p
  <2>2. \E x \in Left(Top) \ Left(f) : StartsWith(p, Append(Top.dir, x))
    <3>1. f.dir = Last(stack).dir
      BY <1>4 DEF Top
    <3>2. Pending(stack, p) /\ ~ Pending(Append(Front(stack), f), p)
      BY <1>5 DEF p
    <3> QED BY <1>1, <1>4, <3>1, <3>2, ReplacePending DEF Top
  <2>3. PICK x \in Left(Top) \ Left(f) : StartsWith(p, Append(Top.dir, x))
    BY <2>2
  <2> DEFINE c == Append(Top.dir, x)
  <2>4. x \in Nat
    BY DEF Left
  <2>5. /\ c \in Paths /\ Len(c) = Len(Top.dir) + 1 /\ Len(Top.dir) \in Nat
        /\ StartsWith(c, Top.dir)
    <3>1. /\ c \in Paths /\ Len(c) = Len(Top.dir) + 1 /\ Len(Top.dir) \in Nat
          /\ \A i \in 1..Len(Top.dir) : c[i] = Top.dir[i]
      BY <1>2, <2>4, InDirectory
    <3> QED BY <3>1 DEF StartsWith
  <2>6. StartsWith(p, c)
    BY <2>3
  <2>7. c = Append(Top.dir, x)
    OBVIOUS
  <2> HIDE DEF c
  <2>8. Len(Top.dir) < Len(p) /\ StartsWith(p, Top.dir)
    <3>1. Len(c) <= Len(p) /\ Len(p) \in Nat
      BY <2>1, <2>6, NoNames DEF StartsWith
    <3> QED BY <1>2, <2>1, <2>5, <2>6, <3>1, StartsTransitive
  <2>9. Entered(tree, functions, Top.dir)
    <3>1. Top.dir \in Way(p)
      BY <1>2, <2>1, <2>8, WayInside
    <3> QED BY <3>1 DEF Includes, Reaches, p
  <2>10. \E q \in tree : q.path = c
    <3>1. CASE Len(c) < Len(p)
      <4>1. c \in Way(p)
        BY <2>1, <2>5, <2>6, <3>1, WayInside
      <4>2. Find(tree, c).type = "dir"
        BY <4>1 DEF Includes, Reaches, Entered, p
      <4> QED BY <4>2, FindsDirectory
    <3>2. CASE ~ (Len(c) < Len(p))
      <4>1. Len(c) = Len(p) /\ StartsWith(p, p)
        BY <2>1, <2>5, <2>6, <3>2, NoNames DEF StartsWith
      <4>2. c = p
        BY <2>1, <2>5, <2>6, <4>1, SamePrefix
      <4> QED BY <4>2 DEF p
    <3> QED BY <3>1, <3>2
  <2>11. \E i \in 1..Len(f.names) : f.names[i] = x
    BY <1>3, <1>4, <2>4, <2>7, <2>9, <2>10 DEF Entered
  <2>12. x \in Left(f)
    BY <2>4, <2>11 DEF Left
  <2> QED BY <2>3, <2>12
<1> QED BY <1>5, <1>6, <1>7 DEF Exact

LEMMA LeaveExact ==
  ASSUME WalkInv, Exact(tree, functions, stack, delayed, yielded), Leave
  PROVE  Exact(tree, functions, stack', delayed', yielded')
<1> DEFINE n == Len(stack)
<1>1. /\ stack \in Seq(FrameSet) /\ stack # <<>> /\ Top \in FrameSet
      /\ Top.listed /\ Top.names = <<>>
      /\ n \in Nat /\ n >= 1 /\ Top = Last(stack)
      /\ Len(Front(stack)) = n - 1 /\ \A k \in 1..n - 1 : Front(stack)[k] = stack[k]
  BY FrontOf DEF WalkInv, Good, Typed, Leave, Walking, Top
<1>2. /\ stack' = Front(stack) /\ yielded' = yielded
      /\ delayed' = IF delayed = <<>> THEN <<>> ELSE Front(delayed)
  BY DEF Leave
<1>3. OnTheWay(tree, functions, Front(stack))
  <2> DEFINE r == Front(stack)
  <2>1. Len(r) = n - 1 /\ \A k \in 1..n - 1 : r[k] = stack[k]
    BY <1>1
  <2> HIDE DEF r, n
  <2> SUFFICES ASSUME NEW k \in 1..n - 1
               PROVE  /\ Len(stack[k].dir) = k - 1 /\ Find(tree, stack[k].dir).type = "dir"
                      /\ Entered(tree, functions, stack[k].dir)
                      /\ \A i \in 1..Len(stack[k].names) :
                           \E m \in tree : m.path = Append(stack[k].dir, stack[k].names[i])
    BY <2>1 DEF OnTheWay, r
  <2>2. k \in 1..n /\ n > 1
    BY <1>1 DEF n
  <2> QED BY <2>2 DEF Exact, OnTheWay, n
<1>4. Complete(tree, functions, Front(stack), yielded)
  <2>1. Left(Last(stack)) = {}
    <3>1. Len(<<>>) = 0
      BY EmptySeq
    <3> QED BY <1>1, <3>1 DEF Left
  <2>2. \A m \in tree : Pending(stack, m.path) => Pending(Front(stack), m.path)
    BY <1>1, <2>1, PopPending
  <2> QED BY <2>2, CompleteKeeps DEF Exact
<1>5. \A i \in 1..Len(delayed') : Takes(tree, functions, delayed'[i].path) = "scan"
  <2>1. delayed \in Seq(EntrySet)
    BY DEF WalkInv, Good, Typed
  <2>2. CASE delayed = <<>>
    <3>1. delayed' = delayed
      BY <1>2, <2>2
    <3> QED BY <3>1 DEF Exact
  <2>3. CASE delayed # <<>>
    <3>1. /\ Len(Front(delayed)) = Len(delayed) - 1 /\ Len(delayed) \in Nat
          /\ \A i \in 1..Len(delayed) - 1 : Front(delayed)[i] = delayed[i]
      BY <2>1, <2>3, FrontOf
    <3>2. \A i \in 1..Len(delayed) - 1 : i \in 1..Len(delayed)
      BY <3>1
    <3> QED BY <1>2, <2>3, <3>1, <3>2 DEF Exact
  <2> QED BY <2>2, <2>3
<1> QED BY <1>2, <1>3, <1>4, <1>5 DEF Exact

LEMMA BeginExact ==
  ASSUME WalkInv, IsTree(tree), Begin, phase' = "walk"
  PROVE  Exact(tree, functions, stack', delayed', yielded')
<1> DEFINE e == Entry(Find(tree, <<>>))
           f == Frame(<<>>)
<1>1. delayed' = <<>> /\ Len(<<>>) = 0 /\ <<>> \in Paths /\ <<>> \in Seq(FrameSet)
  <2>1. stack = <<>> /\ delayed \in Seq(EntrySet) /\ delayed' = delayed
    BY DEF WalkInv, Begin, Good, Typed
  <2> QED BY <2>1, EmptySeq, LenProperties DEF WalkInv, Good, HeldBack, Paths
<1>2. yielded' = <<e>> /\ stack' = IF Find(tree, <<>>).type = "dir" THEN <<f>> ELSE <<>>
  BY DEF Begin
<1>3. e.path = <<>>
  BY <1>1, FindsNode DEF WalkInv, Entry
<1>4. f.dir = <<>> /\ f.names = <<>>
  BY DEF Frame
<1> HIDE DEF e, f
<1>5. Len(<<e>>) = 1 /\ <<e>>[1] = e /\ Len(<<f>>) = 1 /\ <<f>>[1] = f
  OBVIOUS
<1>6. Sound(tree, functions, <<e>>) /\ <<>> \in PathsOf(<<e>>)
  <2>1. 1 \in 1..Len(<<e>>) /\ \A i \in 1..Len(<<e>>) : <<e>>[i] = e
    BY <1>5
  <2> QED BY <1>3, <2>1 DEF Sound, PathsOf
<1>7. OnTheWay(tree, functions, stack')
  <2>1. CASE stack' = <<>>
    BY <1>1, <2>1 DEF OnTheWay
  <2>2. CASE stack' = <<f>> /\ Find(tree, <<>>).type = "dir"
    <3>1. \A k \in 1..Len(<<f>>) : k = 1 /\ <<f>>[k] = f /\ Len(f.dir) = k - 1
      BY <1>1, <1>4, <1>5
    <3>2. OnTheWay(tree, functions, <<f>>)
      BY <1>1, <1>4, <1>5, <2>2, <3>1 DEF OnTheWay
    <3> QED BY <2>2, <3>2
  <2> QED BY <1>2, <2>1, <2>2
<1>8. Complete(tree, functions, stack', <<e>>)
  <2> SUFFICES ASSUME NEW n \in tree, n.path # <<>>, Includes(tree, functions, n)
               PROVE  Pending(stack', n.path)
    BY DEF Complete
  <2>1. n.path \in Paths
    BY TreeParts, NamesAreNumbers
  <2>2. Find(tree, <<>>).type = "dir"
    BY DEF Includes, Reaches, Way, Entered
  <2>3. stack' = Append(<<>>, Frame(<<>>))
    BY <1>2, <2>2 DEF f
  <2>4. StartsWith(n.path, <<>>) /\ Len(<<>>) < Len(n.path)
    BY <1>1, <2>1, NoNames
  <2> QED BY <1>1, <2>1, <2>3, <2>4, PushPending
<1>9. \A i \in 1..Len(delayed') : Takes(tree, functions, delayed'[i].path) = "scan"
  BY <1>1
<1> QED BY <1>2, <1>6, <1>7, <1>8, <1>9 DEF Exact

LEMMA ExactInitial == Init => ExactInv
BY WalkInitial DEF Init, ExactInv

LEMMA ExactStep == ExactInv /\ [Next]_vars => ExactInv'
<1> SUFFICES ASSUME ExactInv, [Next]_vars PROVE ExactInv'
  OBVIOUS
<1>1. WalkInv /\ WalkInv'
  BY WalkStep DEF ExactInv
<1>2. (phase = "done" => stack = <<>>)'
  BY DEF ExactInv, Next, vars, ParseOption, Begin, List, Examine, Leave, End, Vanish, Walking
<1>3. Vanish => vanished' # {}
  BY DEF Vanish
<1>4. Vanish \/ (vanished' = vanished /\ tree' = tree)
  BY DEF Next, vars, ParseOption, Begin, List, Examine, Leave, End
<1>5. (vanished = {} => tree \in Trees)'
  BY <1>3, <1>4 DEF ExactInv
<1>6. ASSUME vanished' = {}, phase' \in {"walk", "done"}
      PROVE  Exact(tree', functions', stack', delayed', yielded')
  <2>1. vanished = {} /\ ~ Vanish /\ tree' = tree /\ IsTree(tree)
    BY <1>3, <1>4, <1>6, SelectionAssumption DEF ExactInv
  <2>2. CASE UNCHANGED vars
    BY <1>6, <2>1, <2>2 DEF ExactInv, vars
  <2>3. CASE ParseOption
    BY <1>6, <2>3 DEF ParseOption
  <2>4. CASE Begin
    <3>1. phase' = "walk" /\ functions' = functions
      BY <1>6, <2>4 DEF Begin
    <3> QED BY <1>1, <2>1, <2>4, <3>1, BeginExact
  <2>5. CASE List \/ Examine \/ Leave \/ End
    <3>1. phase = "walk" /\ functions' = functions
      BY <2>5 DEF List, Examine, Leave, End, Walking
    <3>2. Exact(tree, functions, stack, delayed, yielded)
      BY <2>1, <3>1 DEF ExactInv
    <3>3. CASE End
      BY <2>1, <3>1, <3>2, <3>3 DEF End
    <3> QED BY <1>1, <2>1, <2>5, <3>1, <3>2, <3>3, ListExact, ExamineExact, LeaveExact
  <2> QED BY <2>1, <2>2, <2>3, <2>4, <2>5 DEF Next
<1>7. (vanished = {} /\ phase \in {"walk", "done"} =>
         Exact(tree, functions, stack, delayed, yielded))'
  BY <1>6
<1> QED BY <1>1, <1>2, <1>5, <1>7 DEF ExactInv

LEMMA IncludedIs ==
  \A n : /\ Included(n) <=> Includes(tree, functions, n)
         /\ n \in Below => (Scanned(n) <=> ScansFor(tree, functions, n))
<1>1. \A n : Included(n) <=> Includes(tree, functions, n)
  BY DEF Included, Includes, Reached, Reaches, Way, Entered, Answer, Takes
<1>2. \A n : Scanned(n) <=> ScansFor(tree, functions, n)
  BY <1>1 DEF Scanned, ScansFor, Below, Reached, Reaches, Way, Entered, Answer, Takes
<1> QED BY <1>1, <1>2

\* At the end nothing is pending.
LEMMA EndsExactly == ExactInv => SelectedExactly
<1> SUFFICES ASSUME ExactInv, Finished
             PROVE  {e.path : e \in ToSet(yielded)}
                      = {<<>>} \cup {n.path : n \in {m \in Below : Included(m) \/ Scanned(m)}}
  BY DEF SelectedExactly
<1> DEFINE wanted == {m \in Below : Included(m) \/ Scanned(m)}
<1>1. /\ Exact(tree, functions, stack, delayed, yielded) /\ stack = <<>>
      /\ IsTree(tree) /\ yielded \in Seq(EntrySet)
  BY SelectionAssumption DEF ExactInv, Finished, WalkInv, Good, Typed
<1>2. {e.path : e \in ToSet(yielded)} = PathsOf(yielded)
  BY <1>1 DEF ToSet, PathsOf
<1>3. \A p : ~ Pending(stack, p)
  <2>1. Len(<<>>) = 0
    BY EmptySeq
  <2> QED BY <1>1, <2>1 DEF Pending
<1>4. ASSUME NEW m \in tree, m.path # <<>>, Included(m)
      PROVE  \A a \in Above(m.path) \cup {m.path} : a \in PathsOf(yielded)
  <2>1. Complete(tree, functions, stack, yielded) /\ Includes(tree, functions, m)
    BY <1>1, <1>4, IncludedIs DEF Exact
  <2> QED BY <1>3, <1>4, <2>1 DEF Complete
<1>5. ASSUME NEW n \in wanted PROVE n.path \in PathsOf(yielded)
  <2>1. n \in tree /\ n.path # <<>>
    BY DEF Below
  <2>2. CASE Included(n)
    BY <1>4, <2>1, <2>2
  <2>3. CASE Scanned(n)
    <3>1. PICK m \in Below : Included(m) /\ Under(n.path, m.path)
      BY <2>3 DEF Scanned
    <3>2. m \in tree /\ m.path # <<>> /\ m.path \in Paths /\ n.path \in Paths
      BY <1>1, <2>1, <3>1, TreeParts, NamesAreNumbers DEF Below
    <3>3. StartsWith(m.path, n.path)
      BY <3>1, <3>2, PrefixByPlace DEF Under
    <3>4. n.path # m.path
      BY <2>3, <3>1 DEF Scanned, Included
    <3>5. Len(n.path) < Len(m.path)
      <4>1. ~ (Len(n.path) = Len(m.path))
        <5>1. StartsWith(m.path, m.path)
          BY <3>2, NoNames DEF StartsWith
        <5> QED BY <3>2, <3>3, <3>4, <5>1, SamePrefix
      <4> QED BY <3>2, <3>3, <4>1, NoNames DEF StartsWith
    <3>6. n.path \in Above(m.path)
      BY <2>1, <3>2, <3>3, <3>5, WayInside
    <3> QED BY <1>4, <3>1, <3>2, <3>6
  <2> QED BY <2>2, <2>3
<1>6. ASSUME NEW p \in PathsOf(yielded), p # <<>>
      PROVE  \E n \in wanted : p = n.path
  <2>1. PICK i \in 1..Len(yielded) : p = yielded[i].path
    BY DEF PathsOf
  <2>2. PICK n \in tree : /\ n.path # <<>> /\ yielded[i] = Entry(n)
                          /\ \/ Includes(tree, functions, n)
                             \/ ScansFor(tree, functions, n)
    BY <1>1, <1>6, <2>1 DEF Exact, Sound
  <2>3. n \in Below /\ p = n.path
    BY <2>1, <2>2 DEF Below, Entry
  <2>4. Included(n) \/ Scanned(n)
    BY <2>2, <2>3, IncludedIs
  <2> QED BY <2>3, <2>4
<1>7. <<>> \in PathsOf(yielded)
  BY <1>1 DEF Exact
<1> HIDE DEF wanted
<1>8. PathsOf(yielded) = {<<>>} \cup {n.path : n \in wanted}
  BY <1>5, <1>6, <1>7
<1> QED BY <1>2, <1>8 DEF wanted

\* Of a source nobody changes, whatever its tree and the options: Select.Iterate gives
\* exactly the included paths it can reach, and the directories with one of them below
\* that are only scanned.
THEOREM SelectsExactly == Spec => []SelectedExactly
BY ExactInitial, ExactStep, EndsExactly, PTL DEF Spec

-----------------------------------------------------------------------------
(* What the functions say. *)

\* All functions that options stand for.
Functions == UNION {{OptionSfs(o)[i] : i \in 1..Len(OptionSfs(o))} : o \in Options}

IsFunction(sf) ==
  /\ sf.include \in BOOLEAN
  /\ \/ sf.by = "glob" /\ sf.glob \in Globs
     \/ sf.by \in {"regexp", "present", "device", "older", "far"}

LEMMA FilelistFunctions ==
  ASSUME NEW lines \in Seq(Lines), NEW include \in BOOLEAN
  PROVE  LET fs == FilelistSfs(lines, include)
         IN  /\ fs \in Seq({fs[i] : i \in 1..Len(fs)})
             /\ \A i \in 1..Len(fs) : IsFunction(fs[i])
<1> DEFINE S == {i \in DOMAIN lines : lines[i].mark # "comment"}
           real == Ascending(S)
           Sf(l) == ByGlob(l.glob, IF l.mark = "none" THEN include ELSE l.mark = "plus")
           fs == [i \in 1..Len(real) |-> Sf(lines[real[i]])]
<1>1. Len(lines) \in Nat /\ DOMAIN lines = 1..Len(lines)
  BY LenProperties
<1>2. S \in SUBSET Nat /\ IsFiniteSet(S) /\ S \subseteq 1..Len(lines)
  <2>1. IsFiniteSet(1..Len(lines))
    BY <1>1, FS_Interval
  <2> QED BY <1>1, <2>1, FS_Subset
<1>3. /\ real \in Seq(Nat) /\ DOMAIN real = 1..Len(real) /\ Len(real) \in Nat
      /\ \A i \in 1..Len(real) : real[i] \in 1..Len(lines)
  <2>1. real \in Seq(Nat) /\ \A i \in 1..Len(real) : real[i] \in S
    BY <1>2, AscendingSorts DEF Paths
  <2> QED BY <1>2, <2>1, LenProperties
<1>4. FilelistSfs(lines, include) = fs
  BY <1>3 DEF FilelistSfs
<1>5. ASSUME NEW i \in 1..Len(real) PROVE IsFunction(Sf(lines[real[i]]))
  <2>1. lines[real[i]] \in Lines
    BY <1>1, <1>3, ElementOfSeq
  <2>2. /\ Sf(lines[real[i]]).by = "glob" /\ Sf(lines[real[i]]).glob \in Globs
        /\ Sf(lines[real[i]]).include \in BOOLEAN
    BY <2>1 DEF Lines, ByGlob
  <2> QED BY <2>2 DEF IsFunction
<1> HIDE DEF Sf, real, S
<1>6. Len(fs) = Len(real) /\ \A i \in 1..Len(real) : fs[i] = Sf(lines[real[i]])
  BY <1>3
<1>7. fs \in [1..Len(real) -> {fs[i] : i \in 1..Len(real)}]
  OBVIOUS
<1> HIDE DEF fs
<1>8. fs \in Seq({fs[i] : i \in 1..Len(fs)})
  <2> DEFINE T == {fs[i] : i \in 1..Len(fs)}
  <2>1. fs \in [1..Len(fs) -> T] /\ Len(fs) \in Nat
    BY <1>3, <1>6, <1>7
  <2> HIDE DEF T
  <2>2. fs \in Seq(T)
    BY <2>1
  <2> QED BY <2>2 DEF T
<1>9. \A i \in 1..Len(fs) : IsFunction(fs[i])
  BY <1>5, <1>6
<1> QED BY <1>4, <1>8, <1>9

LEMMA OptionFunctions ==
  ASSUME NEW o \in Options
  PROVE  OptionSfs(o) \in Seq(Functions) /\ \A i \in 1..Len(OptionSfs(o)) : IsFunction(OptionSfs(o)[i])
<1>1. IsOption(o)
  BY SelectionAssumption
<1> DEFINE fs == OptionSfs(o)
<1>2. /\ fs \in Seq({fs[i] : i \in 1..Len(fs)})
      /\ \A i \in 1..Len(fs) : IsFunction(fs[i])
  <2>1. CASE o.by = "list"
    <3>1. o.lines \in Seq(Lines) /\ o.include \in BOOLEAN
      BY <1>1, <2>1 DEF IsOption
    <3>2. fs = FilelistSfs(o.lines, o.include)
      BY <2>1 DEF OptionSfs
    <3> HIDE DEF fs
    <3> QED BY <3>1, <3>2, FilelistFunctions
  <2>2. CASE o.by # "list"
    <3>1. fs = <<o>> /\ Len(<<o>>) = 1 /\ <<o>>[1] = o
      BY <2>2 DEF OptionSfs
    <3>2. IsFunction(o)
      BY <1>1, <2>2 DEF IsOption, IsFunction
    <3> HIDE DEF fs
    <3> QED BY <3>1, <3>2
  <2> QED BY <2>1, <2>2
<1>3. {fs[i] : i \in 1..Len(fs)} \subseteq Functions
  BY DEF Functions
<1>4. fs \in [1..Len(fs) -> {fs[i] : i \in 1..Len(fs)}] /\ Len(fs) \in Nat
  BY <1>2, LenProperties
<1> HIDE DEF fs
<1>5. fs \in [1..Len(fs) -> Functions]
  BY <1>3, <1>4
<1>6. fs \in Seq(Functions)
  BY <1>4, <1>5
<1> QED BY <1>2, <1>6 DEF fs

LEMMA AllFunctions == \A sf \in Functions : IsFunction(sf)
BY OptionFunctions DEF Functions

\* A function includes, or excludes, not both; only one that includes wants to scan.
LEMMA ResultIs ==
  ASSUME NEW sf, IsFunction(sf), NEW n, NEW t
  PROVE  /\ Result(sf, n, t) \in {"include", "exclude", "scan", "nothing"}
         /\ Result(sf, n, t) = "include" => sf.include
         /\ Result(sf, n, t) = "exclude" => ~ sf.include
<1>1. sf.include \in BOOLEAN
  BY DEF IsFunction
<1>2. Verdict(sf.include) = IF sf.include THEN "include" ELSE "exclude"
  BY DEF Verdict
<1>3. CASE sf.by = "glob"
  <2>1. Result(sf, n, t) = GlobResult(sf.glob, sf.include, n)
    BY <1>3 DEF Result
  <2>2. GlobResult(sf.glob, sf.include, n) \in {Verdict(sf.include), "scan", "nothing"}
    BY DEF GlobResult
  <2> QED BY <1>1, <1>2, <2>1, <2>2
<1>4. CASE sf.by # "glob"
  <2>1. Result(sf, n, t) \in {Verdict(sf.include), "nothing"}
    BY <1>4 DEF Result, IsFunction
  <2> QED BY <1>1, <1>2, <2>1
<1> QED BY <1>3, <1>4

-----------------------------------------------------------------------------
(* The first function that decides. *)

\* A nonempty set of places has a first one.
LEMMA HasFirst ==
  ASSUME NEW m \in Nat, NEW S \in SUBSET (1..m), S # {}
  PROVE  /\ (CHOOSE i \in S : \A j \in S : i <= j) \in S
         /\ \A j \in S : (CHOOSE i \in S : \A k \in S : i <= k) <= j
<1> DEFINE R == {k \in 0..m : m - k \in S}
<1>1. IsFiniteSet(R) /\ R \in SUBSET Nat
  <2>1. IsFiniteSet(0..m)
    BY FS_Interval
  <2> QED BY <2>1, FS_Subset
<1>2. R # {}
  <2>1. PICK i \in S : TRUE
    OBVIOUS
  <2>2. m - i \in 0..m /\ m - (m - i) = i
    BY <2>1
  <2> QED BY <2>1, <2>2
<1>3. PICK k \in R : \A j \in R : j <= k
  BY <1>1, <1>2, HasGreatestName
<1>4. \A j \in S : m - k <= j
  <2> SUFFICES ASSUME NEW j \in S PROVE m - k <= j
    OBVIOUS
  <2>1. m - j \in 0..m /\ m - (m - j) = j /\ j \in Nat /\ j <= m
    OBVIOUS
  <2>2. m - j <= k
    BY <1>3, <2>1
  <2>3. k \in Nat
    BY <1>3
  <2> QED BY <2>1, <2>2, <2>3
<1>5. m - k \in S
  BY <1>3
<1> QED BY <1>4, <1>5

\* The functions that decide on a node, of the source t.
Decide(fs, n, t) == {i \in DOMAIN fs : Result(fs[i], n, t) \in {"include", "exclude"}}
First(fs, n, t)  == CHOOSE i \in Decide(fs, n, t) : \A j \in Decide(fs, n, t) : i <= j

LEMMA SelectIs ==
  ASSUME NEW fs \in Seq(Functions), NEW n, NEW t
  PROVE  /\ Decide(fs, n, t) \subseteq 1..Len(fs) /\ DOMAIN fs = 1..Len(fs)
         /\ Decide(fs, n, t) # {} =>
              LET f == First(fs, n, t)
              IN  /\ f \in Decide(fs, n, t) /\ \A j \in Decide(fs, n, t) : f <= j
                  /\ Result(fs[f], n, t) = "include" => Select(fs, n, t) = "include"
                  /\ Result(fs[f], n, t) = "exclude" => Select(fs, n, t) # "include"
                  /\ \A i \in 1..f - 1 : Result(fs[i], n, t) = "scan" =>
                                           Select(fs, n, t) \in {"include", "scan"}
         /\ Decide(fs, n, t) = {} => Select(fs, n, t) \in {"include", "scan"}
<1> DEFINE results == [i \in DOMAIN fs |-> Result(fs[i], n, t)]
           real == {i \in DOMAIN fs : results[i] \in {"include", "exclude"}}
           first == IF real = {} THEN Len(fs) + 1
                                 ELSE CHOOSE i \in real : \A j \in real : i <= j
           result == IF real = {} THEN "nothing" ELSE results[first]
           D == Decide(fs, n, t)
           f == First(fs, n, t)
<1>1. DOMAIN fs = 1..Len(fs) /\ Len(fs) \in Nat
  BY LenProperties
<1>2. real = D /\ D \subseteq 1..Len(fs)
  BY <1>1 DEF Decide
<1>3. Select(fs, n, t) =
        IF result # "include" /\ \E i \in 1..first - 1 : results[i] = "scan" THEN "scan"
        ELSE IF result = "nothing" THEN "include" ELSE result
  BY DEF Select
<1> HIDE DEF real, D
<1>4. CASE D = {}
  <2>1. result = "nothing"
    BY <1>2, <1>4
  <2>2. Select(fs, n, t) \in {"include", "scan"}
    BY <1>3, <2>1
  <2> QED BY <1>1, <1>2, <1>4, <2>2 DEF D
<1>5. CASE D # {}
  <2>1. f \in D /\ \A j \in D : f <= j
    BY <1>1, <1>2, <1>5, HasFirst DEF First, D
  <2>2. first = f
    BY <1>2, <1>5 DEF First, D
  <2>3. f \in 1..Len(fs) /\ result = Result(fs[f], n, t)
    BY <1>1, <1>2, <1>5, <2>1, <2>2
  <2>4. \A i \in 1..f - 1 : results[i] = Result(fs[i], n, t)
    BY <1>1, <2>3
  <2> HIDE DEF result, first, results, f
  <2>5. result = "include" => Select(fs, n, t) = "include"
    BY <1>3
  <2>6. result = "exclude" => Select(fs, n, t) # "include"
    BY <1>3
  <2>7. \A i \in 1..f - 1 : Result(fs[i], n, t) = "scan" =>
                              Select(fs, n, t) \in {"include", "scan"}
    BY <1>3, <2>2, <2>4
  <2> QED BY <1>1, <1>2, <1>5, <2>1, <2>3, <2>5, <2>6, <2>7 DEF D, f
<1> QED BY <1>4, <1>5

-----------------------------------------------------------------------------
(* Patterns. *)

\* Above what a pattern matches it matches, or the directory is to be scanned.
LEMMA ScansAbove ==
  ASSUME NEW g \in Globs, NEW p \in Paths, Matches(g, p), NEW a \in Above(p)
  PROVE  Matches(g, a) \/ Scans(g, a)
<1>1. PICK q \in Above(p) \cup {p} : Exactly(g, q)
  BY DEF Matches
<1>2. a \in Paths /\ StartsWith(p, a) /\ Len(a) \in Nat /\ Len(p) \in Nat /\ 1 <= Len(a)
  BY AboveIs, NoNames
<1>3. q \in Paths /\ StartsWith(p, q) /\ Len(q) \in Nat /\ 1 <= Len(q)
  <2>1. CASE q \in Above(p)
    BY <2>1, AboveIs, NoNames
  <2>2. CASE q = p
    <3>1. Len(a) < Len(p)
      BY AboveIs
    <3> QED BY <1>2, <2>2, <3>1 DEF StartsWith
  <2> QED BY <1>1, <2>1, <2>2
<1>4. CASE Len(q) < Len(a)
  <2>1. StartsWith(a, q)
    <3>1. \A i \in 1..Len(q) : i \in 1..Len(a)
      BY <1>2, <1>3, <1>4
    <3> QED BY <1>2, <1>3, <1>4, <3>1 DEF StartsWith
  <2>2. q \in Above(a)
    BY <1>2, <1>3, <1>4, <2>1, AboveIs
  <2> QED BY <1>1, <2>2 DEF Matches
<1>5. CASE Len(q) = Len(a)
  <2>1. q = a
    BY <1>2, <1>3, <1>5, SamePrefix
  <2> QED BY <1>1, <2>1 DEF Matches
<1>6. CASE Len(q) > Len(a)
  <2>1. DOMAIN a = 1..Len(a) /\ DOMAIN q = 1..Len(q)
    BY <1>2, <1>3, LenProperties DEF Paths
  <2>2. \A i \in 1..Len(a) : i \in 1..Len(q) /\ a[i] = q[i]
    <3>1. \A i \in 1..Len(a) : i \in 1..Len(q)
      BY <1>2, <1>3, <1>6
    <3> QED BY <1>2, <1>3, <3>1 DEF StartsWith
  <2>3. PartsMatch(g, q)
    BY <1>1 DEF Exactly
  <2>4. PartsMatch(g, a)
    BY <2>1, <2>2, <2>3 DEF PartsMatch
  <2>5. g.gap \in 0..2 /\ Len(g.parts) \in Nat
    BY LenProperties DEF Globs
  <2>6. g.gap = 0 => Len(q) = Len(g.parts)
    BY <1>1 DEF Exactly
  <2>7. g.gap > 0 \/ Len(a) <= Len(g.parts)
    BY <1>2, <1>3, <1>6, <2>5, <2>6
  <2> QED BY <2>4, <2>7 DEF Scans
<1> QED BY <1>2, <1>3, <1>4, <1>5, <1>6

-----------------------------------------------------------------------------
(* The first matching condition decides. *)

\* A path is in directories, up to the root.
LEMMA InDirectories ==
  ASSUME NEW t, IsTree(t), NEW n \in t, n.path # <<>>
  PROVE  \A a \in Way(n.path) : Find(t, a).type = "dir"
<1> DEFINE p == n.path
           Lens == {k \in 0..Len(p) : \E a \in Way(p) : Len(a) = k /\ Find(t, a).type # "dir"}
<1>1. p \in Paths /\ Len(p) \in Nat /\ Len(p) >= 1
  BY TreeParts, NamesAreNumbers, NoNames
<1>2. \A a \in Way(p) : a \in Paths /\ StartsWith(p, a) /\ Len(a) \in Nat /\ Len(a) < Len(p)
  <2> SUFFICES ASSUME NEW a \in Way(p)
               PROVE  a \in Paths /\ StartsWith(p, a) /\ Len(a) \in Nat /\ Len(a) < Len(p)
    OBVIOUS
  <2>1. CASE a \in Above(p)
    BY <1>1, <2>1, AboveIs, NoNames
  <2>2. CASE a = <<>>
    BY <1>1, <2>2, NoNames
  <2> QED BY <2>1, <2>2 DEF Way
<1> HIDE DEF p
<1>3. SUFFICES ASSUME NEW a0 \in Way(p), Find(t, a0).type # "dir"  PROVE FALSE
  BY DEF p
<1>4. Lens # {} /\ Lens \in SUBSET Nat /\ IsFiniteSet(Lens)
  <2>1. Len(a0) \in Lens
    BY <1>1, <1>2, <1>3
  <2>2. IsFiniteSet(0..Len(p))
    BY <1>1, FS_Interval
  <2> QED BY <2>1, <2>2, FS_Subset
<1>5. PICK k \in Lens : \A j \in Lens : j <= k
  BY <1>4, HasGreatestName
<1>6. PICK a \in Way(p) : Len(a) = k /\ Find(t, a).type # "dir"
  BY <1>5
<1>7. a \in Paths /\ StartsWith(p, a) /\ k \in Nat /\ k + 1 \in 1..Len(p)
  BY <1>1, <1>2, <1>6
<1> DEFINE x == p[k + 1]
           b == Append(a, x)
<1>8. x \in Nat
  BY <1>1, <1>7, ElementOfSeq DEF Paths
<1>9. /\ b \in Paths /\ Front(b) = a /\ Len(b) = k + 1 /\ b[k + 1] = x
      /\ \A i \in 1..k : b[i] = a[i]
  BY <1>6, <1>7, <1>8, InDirectory
<1>10. x = p[k + 1]
  OBVIOUS
<1> HIDE DEF Lens, x, b
<1>11. StartsWith(p, b)
  <2> SUFFICES ASSUME NEW i \in 1..k + 1 PROVE b[i] = p[i]
    BY <1>1, <1>7, <1>9 DEF StartsWith
  <2>1. CASE i = k + 1
    BY <1>9, <1>10, <2>1
  <2>2. CASE i # k + 1
    <3>1. i \in 1..k
      BY <1>7, <2>2
    <3> QED BY <1>6, <1>7, <1>9, <3>1 DEF StartsWith
  <2> QED BY <2>1, <2>2
<1>12. \E m \in t : m.path = b
  <2>1. CASE k + 1 = Len(p)
    <3>1. StartsWith(p, p)
      BY <1>1, NoNames DEF StartsWith
    <3>2. b = p
      BY <1>1, <1>9, <1>11, <2>1, <3>1, SamePrefix
    <3> QED BY <3>2 DEF p
  <2>2. CASE k + 1 # Len(p)
    <3>1. Len(b) < Len(p) /\ Len(b) \in 0..Len(p)
      BY <1>1, <1>7, <1>9, <2>2
    <3>2. b \in Way(p)
      BY <1>1, <1>9, <1>11, <3>1, WayInside
    <3>3. Find(t, b).type = "dir"
      <4> SUFFICES ASSUME Find(t, b).type # "dir" PROVE FALSE
        OBVIOUS
      <4>1. Len(b) \in Lens
        BY <3>1, <3>2 DEF Lens
      <4>2. Len(b) <= k
        BY <1>5, <4>1
      <4> QED BY <1>7, <1>9, <4>2
    <3> QED BY <3>3, FindsDirectory
  <2> QED BY <2>1, <2>2
<1>13. PICK m \in t : m.path = b
  BY <1>12
<1>14. m.path # <<>>
  <2>1. Len(b) # 0
    BY <1>7, <1>9
  <2> QED BY <1>9, <1>13, <2>1, NoNames
<1>15. PICK d \in t : d.path = a /\ d.type = "dir"
  BY <1>9, <1>13, <1>14, TreeParts
<1>16. Find(t, a) = d
  BY <1>15, TreeParts
<1> QED BY <1>6, <1>15, <1>16

\* Where a pattern includes a path, it includes or wants to scan every directory above.
LEMMA PatternLeadsTo ==
  ASSUME NEW sf, sf.by = "glob", sf.glob \in Globs, sf.include = TRUE, NEW t,
         NEW n, n.path \in Paths, Result(sf, n, t) = "include",
         NEW d, d.type = "dir", d.path \in Above(n.path)
  PROVE  Result(sf, d, t) \in {"include", "scan"}
<1>1. /\ Result(sf, n, t) = GlobResult(sf.glob, sf.include, n)
      /\ Result(sf, d, t) = GlobResult(sf.glob, sf.include, d)
  BY DEF Result
<1>2. Matches(sf.glob, n.path)
  BY <1>1 DEF GlobResult
<1>3. Matches(sf.glob, d.path) \/ Scans(sf.glob, d.path)
  BY <1>2, ScansAbove
<1> QED BY <1>1, <1>3 DEF GlobResult, Verdict

\* What a pattern includes first, with nothing excluded above it, is included.
LEMMA IncludedFirstIsIncluded ==
  ASSUME IsTree(tree), functions \in Seq(Functions),
         NEW n \in Below, Opinions(n) # {}, Readable(n), IncludedFirst(n)
  PROVE  Included(n)
<1> DEFINE d == Deciding(n)
           sf == functions[d]
<1>1. /\ n \in tree /\ n.path # <<>> /\ n.path \in Paths /\ Find(tree, n.path) = n
  BY TreeParts, NamesAreNumbers DEF Below
<1>2. /\ Opinions(n) = Decide(functions, n, tree) /\ d = First(functions, n, tree)
      /\ DOMAIN functions = 1..Len(functions)
  BY LenProperties DEF Opinions, Decide, Deciding, First
<1>3. /\ d \in Opinions(n) /\ d \in 1..Len(functions)
      /\ Result(sf, n, tree) = "include" => Select(functions, n, tree) = "include"
  BY <1>2, SelectIs
<1> HIDE DEF d
<1>4. sf.by = "glob" /\ sf.glob \in Globs /\ sf.include = TRUE /\ IsFunction(sf)
  <2>1. sf \in Functions
    BY <1>3, ElementOfSeq
  <2>2. sf.by = "glob" /\ sf.include
    BY DEF IncludedFirst, d
  <2> QED BY <2>1, <2>2, AllFunctions DEF IsFunction
<1>5. Result(sf, n, tree) = "include"
  <2>1. Result(sf, n, tree) \in {"include", "exclude"}
    BY <1>3 DEF Opinions
  <2> QED BY <1>4, <2>1, ResultIs
<1>6. Answer(n.path) = "include"
  BY <1>1, <1>3, <1>5 DEF Answer
<1>7. ASSUME NEW a \in Above(n.path) PROVE Answer(a) \in {"include", "scan"}
  <2> DEFINE m == Find(tree, a)
             f == First(functions, m, tree)
             D == Decide(functions, m, tree)
  <2>1. m.type = "dir" /\ m.path = a
    <3>1. a \in Way(n.path)
      BY DEF Way
    <3>2. Find(tree, a).type = "dir"
      BY <1>1, <3>1, InDirectories
    <3> QED BY <3>2, FindsDirectory
  <2>2. Result(sf, m, tree) \in {"include", "scan"}
    BY <1>1, <1>4, <1>5, <2>1, PatternLeadsTo
  <2>3. \A i \in 1..d - 1 : Result(functions[i], m, tree) # "exclude"
    BY DEF IncludedFirst, d
  <2>4. /\ D \subseteq 1..Len(functions)
        /\ D # {} =>
             /\ f \in D /\ \A j \in D : f <= j
             /\ Result(functions[f], m, tree) = "include" => Select(functions, m, tree) = "include"
             /\ \A i \in 1..f - 1 : Result(functions[i], m, tree) = "scan" =>
                                      Select(functions, m, tree) \in {"include", "scan"}
        /\ D = {} => Select(functions, m, tree) \in {"include", "scan"}
    BY SelectIs
  <2>5. \A i \in D : Result(functions[i], m, tree) \in {"include", "exclude"}
    BY DEF Decide
  <2>6. Result(sf, m, tree) = "include" => d \in D
    BY <1>2, <1>3 DEF Decide
  <2> HIDE DEF m, f, D
  <2>7. d \in Nat /\ d >= 1 /\ (D # {} => f \in Nat /\ f >= 1)
    <3>1. Len(functions) \in Nat
      BY LenProperties
    <3>2. D # {} => f \in 1..Len(functions)
      BY <2>4
    <3> QED BY <1>3, <3>1, <3>2
  <2>8. CASE D = {}
    BY <2>4, <2>8 DEF Answer, m
  <2>9. CASE D # {} /\ f < d
    <3>1. f \in 1..d - 1
      BY <2>7, <2>9
    <3>2. Result(functions[f], m, tree) = "include"
      BY <2>3, <2>4, <2>5, <2>9, <3>1
    <3> QED BY <2>4, <2>9, <3>2 DEF Answer, m
  <2>10. CASE D # {} /\ f = d
    <3>1. Result(functions[f], m, tree) = "include"
      BY <2>2, <2>4, <2>5, <2>10
    <3> QED BY <2>4, <2>10, <3>1 DEF Answer, m
  <2>11. CASE D # {} /\ d < f
    <3>1. d \notin D
      BY <2>4, <2>7, <2>11
    <3>2. Result(sf, m, tree) = "scan" /\ d \in 1..f - 1
      BY <2>2, <2>6, <2>7, <2>11, <3>1
    <3> QED BY <2>4, <2>11, <3>2 DEF Answer, m
  <2>12. D # {} => f < d \/ f = d \/ d < f
    BY <2>7
  <2> QED BY <2>8, <2>9, <2>10, <2>11, <2>12
<1>8. Reached(n.path)
  <2> SUFFICES ASSUME NEW a \in Above(n.path) \cup {<<>>}
               PROVE  /\ Find(tree, a).type = "dir" /\ Find(tree, a).readable
                      /\ a # <<>> => Answer(a) \in {"include", "scan"}
    BY DEF Reached
  <2>1. Find(tree, a).type = "dir"
    BY <1>1, InDirectories DEF Way
  <2>2. Readable(Find(tree, a))
    BY DEF IncludedFirst
  <2> QED BY <1>7, <2>1, <2>2 DEF Readable
<1> QED BY <1>6, <1>8 DEF Included

\* The options parsed so far stand for functions; the rest is ExactInv.
FirstInv == ExactInv /\ functions \in Seq(Functions)

LEMMA FirstInitial == Init => FirstInv
<1>1. <<>> \in Seq(Functions)
  BY EmptySeq
<1> QED BY <1>1, ExactInitial DEF Init, FirstInv

LEMMA FirstStep == FirstInv /\ [Next]_vars => FirstInv'
<1> SUFFICES ASSUME FirstInv, [Next]_vars PROVE FirstInv'
  OBVIOUS
<1>1. CASE ParseOption
  <2>1. PICK o \in Options : functions' = functions \o OptionSfs(o)
    BY <1>1 DEF ParseOption
  <2>2. OptionSfs(o) \in Seq(Functions) /\ functions \in Seq(Functions)
    BY OptionFunctions DEF FirstInv
  <2>3. functions' \in Seq(Functions)
    BY <2>1, <2>2, ConcatProperties
  <2> QED BY <2>3, ExactStep DEF FirstInv
<1>2. CASE UNCHANGED functions
  BY <1>2, ExactStep DEF FirstInv
<1> QED BY <1>1, <1>2 DEF Next, vars, Begin, List, Examine, Leave, End, Vanish

LEMMA FirstDecides == FirstInv => FirstMatchDecides
<1> SUFFICES ASSUME FirstInv, Finished, NEW n \in Below, Opinions(n) # {}
             PROVE  LET given == {e \in ToSet(yielded) : e.path = n.path}
                    IN  /\ \A e \in given : e.type \notin {"dir", "none"} =>
                                              functions[Deciding(n)].include
                        /\ Readable(n) /\ IncludedFirst(n) => given # {}
  BY DEF FirstMatchDecides
<1>1. /\ Exact(tree, functions, stack, delayed, yielded) /\ stack = <<>>
      /\ IsTree(tree) /\ yielded \in Seq(EntrySet) /\ functions \in Seq(Functions)
  BY SelectionAssumption DEF FirstInv, ExactInv, Finished, WalkInv, Good, Typed
<1>2. n \in tree /\ n.path # <<>> /\ Find(tree, n.path) = n
  BY <1>1, TreeParts DEF Below
<1>3. \A p : p \in PathsOf(yielded) <=> \E e \in ToSet(yielded) : e.path = p
  BY <1>1 DEF ToSet, PathsOf
<1>4. ASSUME NEW e \in ToSet(yielded), e.path = n.path, e.type # "dir"
      PROVE  functions[Deciding(n)].include
  <2>1. PICK i \in 1..Len(yielded) : e = yielded[i]
    BY <1>1 DEF ToSet
  <2>2. PICK m \in tree : /\ e = Entry(m)
                          /\ Includes(tree, functions, m) \/ ScansFor(tree, functions, m)
    BY <1>1, <1>2, <1>4, <2>1 DEF Exact, Sound
  <2>3. m = n
    <3>1. m.path = n.path
      BY <1>4, <2>2 DEF Entry
    <3> QED BY <1>1, <1>2, <3>1, TreeParts
  <2>4. Takes(tree, functions, n.path) = "include"
    <3>1. e.type = m.type
      BY <2>2 DEF Entry
    <3> QED BY <1>4, <2>2, <2>3, <3>1 DEF Includes, ScansFor
  <2>5. Select(functions, n, tree) = "include"
    BY <1>2, <2>4 DEF Takes
  <2>6. /\ Opinions(n) = Decide(functions, n, tree)
        /\ Deciding(n) = First(functions, n, tree)
    BY DEF Opinions, Decide, Deciding, First
  <2>7. /\ Deciding(n) \in Opinions(n) /\ Deciding(n) \in 1..Len(functions)
        /\ Result(functions[Deciding(n)], n, tree) # "exclude"
    BY <1>1, <2>5, <2>6, SelectIs
  <2>8. Result(functions[Deciding(n)], n, tree) = "include"
    BY <2>7 DEF Opinions
  <2>9. IsFunction(functions[Deciding(n)])
    BY <1>1, <2>7, ElementOfSeq, AllFunctions
  <2> QED BY <2>8, <2>9, ResultIs
<1>5. ASSUME Readable(n), IncludedFirst(n)
      PROVE  \E e \in ToSet(yielded) : e.path = n.path
  <2>1. Includes(tree, functions, n)
    BY <1>1, <1>5, IncludedFirstIsIncluded, IncludedIs
  <2>2. ~ Pending(stack, n.path)
    <3>1. Len(<<>>) = 0
      BY EmptySeq
    <3> QED BY <1>1, <3>1 DEF Pending
  <2>3. n.path \in PathsOf(yielded)
    BY <1>1, <1>2, <2>1, <2>2 DEF Exact, Complete
  <2> QED BY <1>3, <2>3
<1> QED BY <1>4, <1>5

\* The rule of the manual, for every source and every list of options: of a path that some
\* function decides about, the first to do so decides. A file that is given was not
\* excluded first, and what a pattern includes first is given, unless the walk could not
\* read the way to it or another function had excluded a directory above before.
THEOREM FirstMatchRules == Spec => []FirstMatchDecides
BY FirstInitial, FirstStep, FirstDecides, PTL DEF Spec
=============================================================================
