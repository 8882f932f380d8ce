-------------------------- MODULE DeltaTreesProofs ---------------------------
(***************************************************************************)
(* Proofs about DeltaTrees, for every finite set of indices of any depth.  *)
(* The order of indices comes first, and that a finite set of elements can *)
(* be read in it; then what the reducer of lazy.py makes of the elements   *)
(* (WritesTree, PatchesTree), what the differences of a chain come to      *)
(* (MergesChain), and that taking a part of a tree commutes with both.  A  *)
(* delta is against what is signed, and that is what the chain before it   *)
(* comes to, but for the data of the files that are late or astray         *)
(* (NextTree); that makes BackupInv inductive, and the properties of the   *)
(* run follow from it.                                                     *)
(***************************************************************************)
EXTENDS DeltaTrees, FiniteSetTheorems, SequenceTheorems, TLAPS

Indexes == Seq(Nat)

\* IsPrefix, place by place.
Begins(p, q) == Len(p) <= Len(q) /\ \A m \in 1..Len(p) : p[m] = q[m]

\* Earlier, by the number of places in which two indices agree.
EarlierBy(n, p, q) ==
  /\ n \in Nat /\ n <= Len(p) /\ n < Len(q)
  /\ \A m \in 1..n : p[m] = q[m]
  /\ n = Len(p) \/ p[n + 1] < q[n + 1]

-----------------------------------------------------------------------------
(* Indices and their order. *)

LEMMA Places ==
  ASSUME NEW p \in Indexes
  PROVE  /\ Len(p) \in Nat /\ DOMAIN p = 1..Len(p)
         /\ \A m \in 1..Len(p) : p[m] \in Nat
<1>1. Len(p) \in Nat /\ DOMAIN p = 1..Len(p)
  BY LenProperties DEF Indexes
<1>2. \A m \in 1..Len(p) : p[m] \in Nat
  BY <1>1, ElementOfSeq DEF Indexes
<1> QED BY <1>1, <1>2

LEMMA SamePlaces ==
  ASSUME NEW p \in Indexes, NEW q \in Indexes, Len(p) = Len(q),
         \A m \in 1..Len(p) : p[m] = q[m]
  PROVE  p = q
BY SeqEqual DEF Indexes

\* The first n places of an index.
LEMMA FirstPlaces ==
  ASSUME NEW q \in Indexes, NEW n \in 0..Len(q)
  PROVE  /\ SubSeq(q, 1, n) \in Indexes /\ Len(SubSeq(q, 1, n)) = n
         /\ \A m \in 1..n : SubSeq(q, 1, n)[m] = q[m]
<1>1. Len(q) \in Nat /\ n \in Nat /\ n <= Len(q)
  BY Places
<1>2. \A m \in 1..n : q[m] \in Nat
  BY <1>1, Places
<1>3. /\ SubSeq(q, 1, n) \in Seq(Nat)
      /\ Len(SubSeq(q, 1, n)) = IF 1 <= n THEN n - 1 + 1 ELSE 0
      /\ \A m \in 1..n - 1 + 1 : SubSeq(q, 1, n)[m] = q[1 + m - 1]
  BY <1>1, <1>2, SubSeqProperties
<1>4. n - 1 + 1 = n /\ \A m \in 1..n : 1 + m - 1 = m
  BY <1>1
<1>5. (IF 1 <= n THEN n - 1 + 1 ELSE 0) = n
  BY <1>1
<1> QED BY <1>3, <1>4, <1>5 DEF Indexes

LEMMA PrefixByPlace ==
  ASSUME NEW p \in Indexes, NEW q \in Indexes
  PROVE  IsPrefix(p, q) <=> Begins(p, q)
<1>1. Len(p) \in Nat /\ Len(q) \in Nat
  BY Places
<1>2. SubSeq(p, 1, Len(p)) = p
  BY SubSeqFull DEF Indexes
<1>3. ASSUME Len(p) <= Len(q)
      PROVE  p = SubSeq(q, 1, Len(p)) <=> \A m \in 1..Len(p) : p[m] = q[m]
  <2>1. Len(p) \in 0..Len(q)
    BY <1>1, <1>3
  <2>2. /\ SubSeq(q, 1, Len(p)) \in Indexes /\ Len(SubSeq(q, 1, Len(p))) = Len(p)
        /\ \A m \in 1..Len(p) : SubSeq(q, 1, Len(p))[m] = q[m]
    BY <2>1, FirstPlaces
  <2>3. (\A m \in 1..Len(p) : p[m] = q[m]) => p = SubSeq(q, 1, Len(p))
    BY <2>2, SamePlaces
  <2> QED BY <2>2, <2>3
<1> QED BY <1>2, <1>3 DEF IsPrefix, Begins

\* The index of the directory that a path is in.
LEMMA FrontOf ==
  ASSUME NEW p \in Indexes, p # <<>>
  PROVE  /\ Front(p) \in Indexes /\ Len(Front(p)) = Len(p) - 1 /\ Len(p) >= 1
         /\ \A m \in 1..Len(p) - 1 : Front(p)[m] = p[m]
<1>1. Len(p) \in Nat /\ Len(p) >= 1
  BY EmptySeq, Places DEF Indexes
<1>2. Len(p) - 1 \in 0..Len(p)
  BY <1>1
<1> QED BY <1>1, <1>2, FirstPlaces DEF Front

LEMMA EarlierByPlaces ==
  ASSUME NEW p \in Indexes, NEW q \in Indexes
  PROVE  Earlier(p, q) <=> \E n : EarlierBy(n, p, q)
<1>1. /\ Len(p) \in Nat /\ Len(q) \in Nat
      /\ DOMAIN p = 1..Len(p) /\ DOMAIN q = 1..Len(q)
  BY Places
<1>2. ASSUME IsStrictPrefix(p, q)  PROVE \E n : EarlierBy(n, p, q)
  <2>1. Begins(p, q) /\ p # q
    BY <1>2, PrefixByPlace DEF IsStrictPrefix
  <2>2. Len(p) <= Len(q) /\ \A m \in 1..Len(p) : p[m] = q[m]
    BY <2>1 DEF Begins
  <2>3. Len(p) # Len(q)
    BY <2>1, <2>2, SamePlaces
  <2>4. Len(p) < Len(q) /\ Len(p) <= Len(p)
    <3>1. \A x, y \in Nat : x <= y /\ x # y => x < y /\ x <= x
      OBVIOUS
    <3> QED BY <1>1, <2>2, <2>3, <3>1
  <2>5. EarlierBy(Len(p), p, q)
    BY <1>1, <2>2, <2>4 DEF EarlierBy
  <2> QED BY <2>5
<1>3. ASSUME NEW k \in DOMAIN p \cap DOMAIN q, p[k] < q[k], \A m \in 1..k - 1 : p[m] = q[m]
      PROVE  \E n : EarlierBy(n, p, q)
  <2>1. k - 1 \in Nat /\ k - 1 <= Len(p) /\ k - 1 < Len(q) /\ k - 1 + 1 = k
    BY <1>1
  <2>2. EarlierBy(k - 1, p, q)
    BY <1>3, <2>1 DEF EarlierBy
  <2> QED BY <2>2
<1>4. ASSUME NEW n, EarlierBy(n, p, q)  PROVE Earlier(p, q)
  <2>1. /\ n \in Nat /\ n <= Len(p) /\ n < Len(q) /\ (\A m \in 1..n : p[m] = q[m])
        /\ n = Len(p) \/ p[n + 1] < q[n + 1]
    BY <1>4 DEF EarlierBy
  <2>2. CASE n = Len(p)
    <3>1. Len(p) <= Len(q) /\ p # q
      BY <1>1, <2>1, <2>2
    <3>2. Begins(p, q)
      BY <2>1, <2>2, <3>1 DEF Begins
    <3> QED BY <3>1, <3>2, PrefixByPlace DEF IsStrictPrefix, Earlier
  <2>3. CASE n # Len(p)
    <3>1. n + 1 \in 1..Len(p) /\ n + 1 \in 1..Len(q) /\ n + 1 - 1 = n
      <4>1. \A x, y, z \in Nat : x <= y /\ x # y /\ x < z =>
                                x + 1 \in 1..y /\ x + 1 \in 1..z /\ x + 1 - 1 = x
        OBVIOUS
      <4> QED BY <1>1, <2>1, <2>3, <4>1
    <3> DEFINE k == n + 1
    <3>2. k \in DOMAIN p \cap DOMAIN q /\ p[k] < q[k]
      BY <1>1, <2>1, <2>3, <3>1
    <3>3. \A m \in 1..k - 1 : p[m] = q[m]
      BY <2>1, <3>1
    <3> HIDE DEF k
    <3> QED BY <3>2, <3>3 DEF Earlier
  <2> QED BY <2>2, <2>3
<1> QED BY <1>2, <1>3, <1>4 DEF Earlier

LEMMA EarlierTransitive ==
  ASSUME NEW p \in Indexes, NEW q \in Indexes, NEW r \in Indexes, Earlier(p, q), Earlier(q, r)
  PROVE  Earlier(p, r)
<1>1. /\ Len(p) \in Nat /\ Len(q) \in Nat /\ Len(r) \in Nat
      /\ (\A m \in 1..Len(p) : p[m] \in Nat) /\ (\A m \in 1..Len(q) : q[m] \in Nat)
      /\ \A m \in 1..Len(r) : r[m] \in Nat
  BY Places
<1>2. PICK n : EarlierBy(n, p, q)
  BY EarlierByPlaces
<1>3. PICK l : EarlierBy(l, q, r)
  BY EarlierByPlaces
<1>4. /\ n \in Nat /\ n <= Len(p) /\ n < Len(q) /\ (\A m \in 1..n : p[m] = q[m])
      /\ n = Len(p) \/ p[n + 1] < q[n + 1]
  BY <1>2 DEF EarlierBy
<1>5. /\ l \in Nat /\ l <= Len(q) /\ l < Len(r) /\ (\A m \in 1..l : q[m] = r[m])
      /\ l = Len(q) \/ q[l + 1] < r[l + 1]
  BY <1>3 DEF EarlierBy
<1>6. CASE n < l
  <2>1. n < Len(r) /\ n + 1 \in 1..l /\ \A m \in 1..n : m \in 1..l
    BY <1>1, <1>4, <1>5, <1>6
  <2>2. EarlierBy(n, p, r)
    BY <1>4, <1>5, <2>1 DEF EarlierBy
  <2> QED BY <2>2, EarlierByPlaces
<1>7. CASE n = l
  <2>1. l # Len(q) /\ l + 1 \in 1..Len(q) /\ l + 1 \in 1..Len(r)
    BY <1>1, <1>4, <1>5, <1>7
  <2>2. n # Len(p) => n + 1 \in 1..Len(p)
    BY <1>1, <1>4
  <2>3. n # Len(p) => p[n + 1] < r[n + 1]
    BY <1>1, <1>4, <1>5, <1>7, <2>1, <2>2
  <2>4. EarlierBy(n, p, r)
    BY <1>4, <1>5, <1>7, <2>3 DEF EarlierBy
  <2> QED BY <2>4, EarlierByPlaces
<1>8. CASE l < n
  <2>1. l # Len(q) /\ l <= Len(p) /\ l + 1 \in 1..n /\ \A m \in 1..l : m \in 1..n
    BY <1>1, <1>4, <1>5, <1>8
  <2>2. EarlierBy(l, p, r)
    BY <1>4, <1>5, <2>1 DEF EarlierBy
  <2> QED BY <2>2, EarlierByPlaces
<1> QED BY <1>4, <1>5, <1>6, <1>7, <1>8

LEMMA EarlierIrreflexive ==
  ASSUME NEW p \in Indexes
  PROVE  ~ Earlier(p, p)
<1>1. Len(p) \in Nat /\ \A m \in 1..Len(p) : p[m] \in Nat
  BY Places
<1>2. ASSUME NEW n, EarlierBy(n, p, p)  PROVE FALSE
  <2>1. n \in Nat /\ n < Len(p) /\ p[n + 1] < p[n + 1]
    BY <1>1, <1>2 DEF EarlierBy
  <2>2. n + 1 \in 1..Len(p)
    BY <1>1, <2>1
  <2> QED BY <1>1, <2>1, <2>2
<1> QED BY <1>2, EarlierByPlaces

LEMMA EarlierAsymmetric ==
  ASSUME NEW p \in Indexes, NEW q \in Indexes, Earlier(p, q)
  PROVE  ~ Earlier(q, p) /\ p # q
BY EarlierTransitive, EarlierIrreflexive

\* What is between a directory and a path in it is in the directory.
LEMMA Between ==
  ASSUME NEW a \in Indexes, NEW x \in Indexes, NEW e \in Indexes,
         Earlier(a, x), Earlier(x, e), IsPrefix(a, e)
  PROVE  IsPrefix(a, x)
<1>1. /\ Len(a) \in Nat /\ Len(x) \in Nat /\ Len(e) \in Nat
      /\ (\A m \in 1..Len(a) : a[m] \in Nat) /\ (\A m \in 1..Len(x) : x[m] \in Nat)
      /\ \A m \in 1..Len(e) : e[m] \in Nat
  BY Places
<1>2. PICK n : EarlierBy(n, a, x)
  BY EarlierByPlaces
<1>3. PICK l : EarlierBy(l, x, e)
  BY EarlierByPlaces
<1>4. /\ n \in Nat /\ n <= Len(a) /\ n < Len(x) /\ (\A m \in 1..n : a[m] = x[m])
      /\ n = Len(a) \/ a[n + 1] < x[n + 1]
  BY <1>2 DEF EarlierBy
<1>5. /\ l \in Nat /\ l <= Len(x) /\ l < Len(e) /\ (\A m \in 1..l : x[m] = e[m])
      /\ l = Len(x) \/ x[l + 1] < e[l + 1]
  BY <1>3 DEF EarlierBy
<1>6. Len(a) <= Len(e) /\ \A m \in 1..Len(a) : a[m] = e[m]
  BY PrefixByPlace DEF Begins
<1>7. CASE n = Len(a)
  <2>1. Begins(a, x)
    BY <1>1, <1>4, <1>7 DEF Begins
  <2> QED BY <2>1, PrefixByPlace
<1>8. CASE n # Len(a)
  <2>1. a[n + 1] < x[n + 1] /\ n + 1 \in 1..Len(a) /\ n + 1 \in 1..Len(x)
    BY <1>1, <1>4, <1>8
  <2>2. a[n + 1] = e[n + 1] /\ a[n + 1] \in Nat /\ x[n + 1] \in Nat
    BY <1>1, <1>6, <2>1
  <2>3. CASE l <= n
    <3>1. l # Len(x) /\ l + 1 \in 1..Len(a) /\ l + 1 \in 1..Len(x)
      BY <1>1, <1>4, <1>5, <2>1, <2>3
    <3>2. x[l + 1] < e[l + 1] /\ e[l + 1] = a[l + 1] /\ x[l + 1] \in Nat /\ a[l + 1] \in Nat
      BY <1>1, <1>5, <1>6, <3>1
    <3>3. CASE l = n
      BY <2>1, <3>2, <3>3
    <3>4. CASE l # n
      <4>1. l + 1 \in 1..n
        BY <1>4, <1>5, <2>3, <3>4
      <4> QED BY <1>4, <3>2, <4>1
    <3> QED BY <3>3, <3>4
  <2>4. CASE ~ (l <= n)
    <3>1. n + 1 \in 1..l
      BY <1>4, <1>5, <2>4
    <3> QED BY <1>5, <2>1, <2>2, <3>1
  <2> QED BY <2>3, <2>4
<1> QED BY <1>7, <1>8

\* A set of numbers has a least one, unless it is empty.
LEMMA HasLeast ==
  ASSUME NEW S \in SUBSET Nat, S # {}
  PROVE  \E n \in S : \A m \in S : n <= m
<1>1. IsWellFoundedOn(OpToRel(<, Nat), Nat)
  BY NatLessThanWellFounded
<1>2. PICK n \in S : \A m \in S : ~ (<<m, n>> \in OpToRel(<, Nat))
  BY <1>1, WFMin
<1>3. \A m \in S : ~ (m < n)
  BY <1>2 DEF OpToRel
<1> QED BY <1>3

LEMMA EarlierTotal ==
  ASSUME NEW p \in Indexes, NEW q \in Indexes, p # q
  PROVE  Earlier(p, q) \/ Earlier(q, p)
<1>1. /\ Len(p) \in Nat /\ Len(q) \in Nat
      /\ (\A m \in 1..Len(p) : p[m] \in Nat) /\ \A m \in 1..Len(q) : q[m] \in Nat
  BY Places
<1> DEFINE Parts(n) == n = Len(p) \/ n = Len(q) \/ p[n + 1] # q[n + 1]
<1>2. Parts(Len(p))
  OBVIOUS
<1> HIDE DEF Parts
<1>3. PICK n \in {m \in Nat : Parts(m)} : \A m \in {l \in Nat : Parts(l)} : n <= m
  BY <1>1, <1>2, HasLeast
<1>4. ASSUME NEW m \in 0..n - 1
      PROVE  m # Len(p) /\ m # Len(q) /\ p[m + 1] = q[m + 1]
  <2>1. m \in Nat /\ ~ (n <= m)
    BY <1>3
  <2> QED BY <1>3, <2>1 DEF Parts
<1>5. n <= Len(p) /\ n <= Len(q)
  BY <1>1, <1>3, <1>4
<1>6. \A m \in 1..n : p[m] = q[m]
  <2> TAKE m \in 1..n
  <2>1. m - 1 \in 0..n - 1 /\ m - 1 + 1 = m
    BY <1>3
  <2> QED BY <1>4, <2>1
<1>7. CASE n = Len(p)
  <2>1. n # Len(q)
    BY <1>6, <1>7, SamePlaces
  <2>2. EarlierBy(n, p, q)
    BY <1>1, <1>3, <1>5, <1>6, <1>7, <2>1 DEF EarlierBy
  <2> QED BY <2>2, EarlierByPlaces
<1>8. CASE n = Len(q)
  <2>1. n # Len(p)
    BY <1>6, <1>8, SamePlaces
  <2>2. EarlierBy(n, q, p)
    BY <1>1, <1>3, <1>5, <1>6, <1>8, <2>1 DEF EarlierBy
  <2> QED BY <2>2, EarlierByPlaces
<1>9. CASE n # Len(p) /\ n # Len(q)
  <2>1. n < Len(p) /\ n < Len(q) /\ n + 1 \in 1..Len(p) /\ n + 1 \in 1..Len(q)
    BY <1>1, <1>3, <1>5, <1>9
  <2>2. p[n + 1] # q[n + 1] /\ p[n + 1] \in Nat /\ q[n + 1] \in Nat
    BY <1>1, <1>3, <1>9, <2>1 DEF Parts
  <2>3. p[n + 1] < q[n + 1] \/ q[n + 1] < p[n + 1]
    BY <2>2
  <2>4. EarlierBy(n, p, q) \/ EarlierBy(n, q, p)
    BY <1>1, <1>3, <1>5, <1>6, <2>1, <2>3 DEF EarlierBy
  <2> QED BY <2>4, EarlierByPlaces
<1> QED BY <1>7, <1>8, <1>9

\* A strict prefix is earlier.
LEMMA PrefixIsEarlier ==
  ASSUME NEW p \in Indexes, NEW q \in Indexes, IsPrefix(p, q), p # q
  PROVE  Earlier(p, q)
BY DEF Earlier, IsStrictPrefix

LEMMA FrontIsPrefix ==
  ASSUME NEW p \in Indexes, p # <<>>
  PROVE  /\ Front(p) \in Indexes /\ IsPrefix(Front(p), p) /\ Front(p) # p
         /\ Earlier(Front(p), p)
<1>1. /\ Front(p) \in Indexes /\ Len(Front(p)) = Len(p) - 1 /\ Len(p) >= 1
      /\ \A m \in 1..Len(p) - 1 : Front(p)[m] = p[m]
  BY FrontOf
<1>2. Len(p) \in Nat
  BY Places
<1>3. Len(Front(p)) <= Len(p) /\ Len(Front(p)) # Len(p)
  BY <1>1, <1>2
<1>4. Begins(Front(p), p)
  BY <1>1, <1>3 DEF Begins
<1> QED BY <1>1, <1>3, <1>4, PrefixByPlace, PrefixIsEarlier

-----------------------------------------------------------------------------
(* Recursive functions of numbers. *)

LEMMA CountUp ==
  ASSUME NEW n \in Nat, NEW S, 0 \in S, \A i \in 0..(n - 1) : i \in S => i + 1 \in S
  PROVE  \A i \in 0..n : i \in S
<1> SUFFICES ASSUME \E i \in 0..n : i \notin S PROVE FALSE
  OBVIOUS
<1> DEFINE T == {i \in Nat : i \in 1..n /\ i \notin S}
<1>1. T # {} /\ T \in SUBSET Nat
  OBVIOUS
<1>2. PICK e \in T : \A q \in T : e <= q
  BY <1>1, HasLeast
<1>3. e - 1 \in 0..(n - 1) /\ (e - 1) + 1 = e /\ e \in 1..n
  BY <1>2
<1>4. e - 1 \in S
  <2>1. CASE e = 1
    BY <2>1
  <2>2. CASE e # 1
    <3>1. e - 1 \in 1..n /\ e - 1 \in Nat /\ ~ (e <= e - 1)
      BY <1>3, <2>2
    <3> QED BY <1>2, <3>1
  <2> QED BY <2>1, <2>2
<1> QED BY <1>2, <1>3, <1>4

-----------------------------------------------------------------------------
(* The elements of an iterator. *)

\* An iterator has one element for an index.
Distinct(iter) == \A d, e \in iter : d.path.index = e.path.index => d = e

Indexed(iter) == IsFiniteSet(iter) /\ (\A e \in iter : e.path.index \in Indexes) /\ Distinct(iter)

FirstIs(iter, e) ==
  /\ e \in iter /\ First(iter) = {e}
  /\ \A d \in iter \ {e} : Earlier(e.path.index, d.path.index)

LEMMA HasFirst ==
  ASSUME NEW iter, Indexed(iter), iter # {}
  PROVE  \E e \in iter : FirstIs(iter, e)
<1> DEFINE Behind(e) == {d \in iter : Earlier(d.path.index, e.path.index)}
           All == {Behind(e) : e \in iter}
<1>1. /\ IsFiniteSet(iter) /\ (\A e \in iter : e.path.index \in Indexes)
      /\ \A d, e \in iter : d.path.index = e.path.index => d = e
  BY DEF Indexed, Distinct
<1>2. All \subseteq SUBSET iter /\ All # {}
  OBVIOUS
<1>3. PICK U \in All : \A X \in All : ~ (<<X, U>> \in StrictSubsetOrdering(iter))
  <2>1. IsWellFoundedOn(StrictSubsetOrdering(iter), SUBSET iter)
    BY <1>1, FS_StrictSubsetOrderingWellFounded, FS_FiniteSubsetsOfFinite
  <2> HIDE DEF All
  <2> QED BY <2>1, <1>2, WFMin
<1>4. PICK e \in iter : U = Behind(e)
  BY <1>3
<1>5. ASSUME NEW d \in iter \ {e}  PROVE Earlier(e.path.index, d.path.index)
  <2>1. SUFFICES ASSUME ~ Earlier(e.path.index, d.path.index) PROVE FALSE
    OBVIOUS
  <2>2. Earlier(d.path.index, e.path.index)
    BY <1>1, <2>1, EarlierTotal
  <2>3. ASSUME NEW c \in Behind(d)  PROVE c \in Behind(e)
    BY <1>1, <2>2, <2>3, EarlierTransitive
  <2>4. d \in Behind(e) /\ d \notin Behind(d)
    BY <1>1, <2>2, EarlierIrreflexive
  <2>5. <<Behind(d), U>> \in StrictSubsetOrdering(iter)
    BY <1>4, <2>3, <2>4 DEF StrictSubsetOrdering
  <2> QED BY <1>3, <2>5
<1>6. First(iter) = {e}
  <2>1. e \in First(iter)
    BY <1>5 DEF First
  <2>2. ASSUME NEW d \in First(iter), d # e  PROVE FALSE
    <3>1. d \in iter /\ Earlier(d.path.index, e.path.index)
      BY <2>2 DEF First
    <3> QED BY <1>1, <1>5, <2>2, <3>1, EarlierAsymmetric
  <2> QED BY <2>1, <2>2
<1> QED BY <1>5, <1>6 DEF FirstIs

\* The pairs that Reduce goes through.
Read1(branch, P) ==
  UNION {{<<Process(branch, p[1], e), p[2] \ {e}>> : e \in First(p[2])} : p \in P}

Begin(tree, iter) == <<[tree |-> tree, open |-> {}], iter>>

ReadUpTo(g, branch, tree, iter, n) ==
  g = [k \in 0..n |-> IF k = 0 THEN {Begin(tree, iter)} ELSE Read1(branch, g[k-1])]

LEMMA ReadExists ==
  ASSUME NEW branch, NEW tree, NEW iter, NEW n \in Nat
  PROVE  \E g : ReadUpTo(g, branch, tree, iter, n)
<1> DEFINE S == {m \in 0..n : \E g : ReadUpTo(g, branch, tree, iter, m)}
<1>1. 0 \in S
  <2> DEFINE g == [k \in 0..0 |-> {Begin(tree, iter)}]
  <2>1. ReadUpTo(g, branch, tree, iter, 0)
    <3>1. \A k \in 0..0 : k = 0
      OBVIOUS
    <3> QED BY <3>1 DEF ReadUpTo
  <2> QED BY <2>1
<1>2. ASSUME NEW m \in 0..(n - 1), m \in S PROVE m + 1 \in S
  <2>1. PICK f : ReadUpTo(f, branch, tree, iter, m)
    BY <1>2
  <2> DEFINE g == [k \in 0..(m + 1) |-> IF k = m + 1 THEN Read1(branch, f[m]) ELSE f[k]]
  <2>2. \A k \in 0..m : k \in 0..(m + 1) /\ k # m + 1 /\ g[k] = f[k]
    OBVIOUS
  <2>3. ASSUME NEW k \in 0..(m + 1)
        PROVE  g[k] = IF k = 0 THEN {Begin(tree, iter)} ELSE Read1(branch, g[k-1])
    <3>1. CASE k = m + 1
      <4>1. k # 0 /\ k - 1 = m /\ m \in 0..m
        BY <3>1
      <4>2. g[k] = Read1(branch, f[m])
        BY <3>1
      <4> HIDE DEF g
      <4> QED BY <2>2, <4>1, <4>2
    <3>2. CASE k # m + 1
      <4>1. k \in 0..m /\ g[k] = f[k]
        BY <3>2
      <4>2. f[k] = IF k = 0 THEN {Begin(tree, iter)} ELSE Read1(branch, f[k-1])
        BY <2>1, <4>1 DEF ReadUpTo
      <4>3. k # 0 => k - 1 \in 0..m
        BY <4>1
      <4> HIDE DEF g
      <4> QED BY <2>2, <4>1, <4>2, <4>3
    <3> QED BY <3>1, <3>2
  <2>4. ReadUpTo(g, branch, tree, iter, m + 1)
    <3>1. DOMAIN g = 0..(m + 1) /\ g = [k \in DOMAIN g |-> g[k]]
      OBVIOUS
    <3> HIDE DEF g
    <3> QED BY <2>3, <3>1 DEF ReadUpTo
  <2>5. m + 1 \in 0..n
    OBVIOUS
  <2> HIDE DEF g
  <2> QED BY <2>4, <2>5
<1> HIDE DEF S
<1>3. n \in S
  BY <1>1, <1>2, CountUp
<1> QED BY <1>3 DEF S

LEMMA OnePair ==
  ASSUME NEW a, NEW b, NEW c, NEW d, {<<a, b>>} = {<<c, d>>}
  PROVE  a = c /\ b = d
<1>1. <<a, b>> \in {<<c, d>>}
  OBVIOUS
<1>2. <<a, b>> = <<c, d>>
  BY <1>1
<1> QED BY <1>2

\* Reading, as a sequence of states: each element is processed in its turn.
Reads(st, left, branch, tree, iter) ==
  LET N == Cardinality(iter)
  IN  /\ st[0] = [tree |-> tree, open |-> {}] /\ left[0] = iter /\ left[N] = {}
      /\ \A n \in 1..N : \E e : /\ FirstIs(left[n - 1], e)
                               /\ left[n] = left[n - 1] \ {e}
                               /\ st[n] = Process(branch, st[n - 1], e)

LEMMA ReduceReads ==
  ASSUME NEW branch, NEW tree, NEW iter, Indexed(iter)
  PROVE  \E st, left :
           /\ Reads(st, left, branch, tree, iter)
           /\ Reduce(branch, tree, iter)
                = FinishBranches(st[Cardinality(iter)], st[Cardinality(iter)].open).tree
<1> DEFINE N == Cardinality(iter)
           f == CHOOSE g : ReadUpTo(g, branch, tree, iter, N)
<1>1. N \in Nat
  BY FS_CardinalityType DEF Indexed
<1> HIDE DEF N
<1>2. ReadUpTo(f, branch, tree, iter, N)
  BY <1>1, ReadExists
<1>3. Reduce(branch, tree, iter) = UNION {FinishBranches(p[1], p[1].open).tree : p \in f[N]}
  <2>1. f = CHOOSE g : g = [n \in 0..N |->
               IF n = 0 THEN {<<[tree |-> tree, open |-> {}], iter>>}
               ELSE UNION {{<<Process(branch, p[1], e), p[2] \ {e}>> : e \in First(p[2])} :
                             p \in g[n-1]}]
    BY DEF ReadUpTo, Read1, Begin
  <2> QED BY <2>1 DEF Reduce, N
<1> HIDE DEF f
<1>4. f[0] = {Begin(tree, iter)} /\ \A n \in 1..N : f[n] = Read1(branch, f[n - 1])
  <2>1. 0 \in 0..N /\ \A n \in 1..N : n \in 0..N /\ n # 0
    BY <1>1
  <2> QED BY <1>2, <2>1 DEF ReadUpTo
<1> DEFINE One(n) == \E p, L : /\ f[n] = {<<p, L>>} /\ L \subseteq iter
                              /\ Cardinality(L) = N - n
           S == {n \in 0..N : One(n)}
<1>5. 0 \in S
  <2>1. f[0] = {<<[tree |-> tree, open |-> {}], iter>>} /\ Cardinality(iter) = N - 0
    BY <1>1, <1>4 DEF Begin, N
  <2>2. One(0)
    BY <2>1
  <2> HIDE DEF One
  <2> QED BY <1>1, <2>2
<1> DEFINE Goes(p, L, n) ==
             \E e : /\ FirstIs(L, e) /\ f[n + 1] = {<<Process(branch, p, e), L \ {e}>>}
                   /\ Cardinality(L \ {e}) = N - (n + 1)
<1>6. ASSUME NEW p, NEW L, NEW n \in 0..(N - 1), f[n] = {<<p, L>>}, L \subseteq iter,
             Cardinality(L) = N - n
      PROVE  Goes(p, L, n)
  <2>1. IsFiniteSet(L) /\ Indexed(L)
    BY <1>6, FS_Subset DEF Indexed, Distinct
  <2>2. L # {}
    BY <1>1, <1>6, FS_EmptySet
  <2>3. PICK e \in L : FirstIs(L, e)
    BY <2>1, <2>2, HasFirst
  <2>4. First(L) = {e}
    BY <2>3 DEF FirstIs
  <2>5. f[n + 1] = Read1(branch, {<<p, L>>})
    <3>1. n + 1 \in 1..N /\ n + 1 - 1 = n
      BY <1>1
    <3> QED BY <1>4, <1>6, <3>1
  <2>6. Read1(branch, {<<p, L>>}) = {<<Process(branch, p, e), L \ {e}>>}
    BY <2>4 DEF Read1
  <2>7. Cardinality(L \ {e}) = N - (n + 1)
    <3>1. Cardinality(L \ {e}) = Cardinality(L) - 1
      BY <2>1, <2>3, FS_RemoveElement
    <3> QED BY <1>1, <1>6, <3>1
  <2> QED BY <2>3, <2>5, <2>6, <2>7
<1>7. \A n \in 0..(N - 1) : n \in S => n + 1 \in S
  <2>1. ASSUME NEW n \in 0..(N - 1), One(n) PROVE One(n + 1)
    <3>1. PICK p, L : f[n] = {<<p, L>>} /\ L \subseteq iter /\ Cardinality(L) = N - n
      BY <2>1
    <3>2. Goes(p, L, n)
      <4> HIDE DEF Goes
      <4> QED BY <1>6, <2>1, <3>1
    <3>3. PICK e : /\ f[n + 1] = {<<Process(branch, p, e), L \ {e}>>}
                   /\ Cardinality(L \ {e}) = N - (n + 1)
      BY <3>2
    <3>4. L \ {e} \subseteq iter
      BY <3>1
    <3> QED BY <3>3, <3>4
  <2>2. \A n \in 0..(N - 1) : n + 1 \in 0..N
    BY <1>1
  <2> HIDE DEF One
  <2> QED BY <2>1, <2>2
<1>8. \A n \in 0..N : One(n)
  <2>1. \A n \in 0..N : n \in S
    <3> HIDE DEF S
    <3> QED BY <1>1, <1>5, <1>7, CountUp
  <2> QED BY <2>1
<1> DEFINE st   == [n \in 0..N |-> (CHOOSE p : \E L : f[n] = {<<p, L>>})]
           left == [n \in 0..N |-> (CHOOSE L : \E p : f[n] = {<<p, L>>})]
<1>9. \A n \in 0..N : /\ f[n] = {<<st[n], left[n]>>} /\ left[n] \subseteq iter
                      /\ Cardinality(left[n]) = N - n
  <2> TAKE n \in 0..N
  <2>1. PICK p, L : f[n] = {<<p, L>>} /\ L \subseteq iter /\ Cardinality(L) = N - n
    BY <1>8
  <2>2. st[n] = p /\ left[n] = L
    <3>1. \A p2, L2 : {<<p, L>>} = {<<p2, L2>>} => p = p2 /\ L = L2
      BY OnePair
    <3>2. st[n] = CHOOSE x : \E y : f[n] = {<<x, y>>}
      OBVIOUS
    <3>3. left[n] = CHOOSE y : \E x : f[n] = {<<x, y>>}
      OBVIOUS
    <3> HIDE DEF st, left
    <3>4. \E y : f[n] = {<<st[n], y>>}
      BY <2>1, <3>2
    <3>5. \E x : f[n] = {<<x, left[n]>>}
      BY <2>1, <3>3
    <3> QED BY <2>1, <3>1, <3>4, <3>5
  <2> HIDE DEF st, left
  <2> QED BY <2>1, <2>2
<1> HIDE DEF st, left
<1>10. st[0] = [tree |-> tree, open |-> {}] /\ left[0] = iter
  <2> DEFINE b == [tree |-> tree, open |-> {}]
  <2>1. {<<st[0], left[0]>>} = {<<b, iter>>}
    BY <1>1, <1>4, <1>9 DEF Begin
  <2> HIDE DEF b
  <2>2. st[0] = b /\ left[0] = iter
    <3>1. <<st[0], left[0]>> \in {<<b, iter>>}
      BY <2>1
    <3>2. <<st[0], left[0]>> = <<b, iter>>
      BY <3>1
    <3> QED BY <3>2
  <2> QED BY <2>2 DEF b
<1>11. left[N] = {}
  <2>1. Cardinality(left[N]) = 0 /\ left[N] \subseteq iter
    BY <1>1, <1>9
  <2>2. IsFiniteSet(left[N])
    BY <2>1, FS_Subset DEF Indexed
  <2> QED BY <2>1, <2>2, FS_EmptySet
<1>12. ASSUME NEW n \in 1..N
       PROVE  \E e : /\ FirstIs(left[n - 1], e) /\ left[n] = left[n - 1] \ {e}
                    /\ st[n] = Process(branch, st[n - 1], e)
  <2>1. n - 1 \in 0..(N - 1) /\ n - 1 \in 0..N /\ n \in 0..N /\ n - 1 + 1 = n
    BY <1>1
  <2>2. /\ f[n - 1] = {<<st[n - 1], left[n - 1]>>} /\ left[n - 1] \subseteq iter
        /\ Cardinality(left[n - 1]) = N - (n - 1)
    BY <1>9, <2>1
  <2>3. Goes(st[n - 1], left[n - 1], n - 1)
    <3> HIDE DEF Goes
    <3> QED BY <1>6, <2>1, <2>2
  <2>4. PICK e : /\ FirstIs(left[n - 1], e)
                 /\ f[n - 1 + 1] = {<<Process(branch, st[n - 1], e), left[n - 1] \ {e}>>}
    BY <2>3
  <2>5. {<<st[n], left[n]>>} = {<<Process(branch, st[n - 1], e), left[n - 1] \ {e}>>}
    BY <1>9, <2>1, <2>4
  <2>6. st[n] = Process(branch, st[n - 1], e) /\ left[n] = left[n - 1] \ {e}
    <3>1. <<st[n], left[n]>> \in {<<Process(branch, st[n - 1], e), left[n - 1] \ {e}>>}
      BY <2>5
    <3>2. <<st[n], left[n]>> = <<Process(branch, st[n - 1], e), left[n - 1] \ {e}>>
      BY <3>1
    <3> QED BY <3>2
  <2> QED BY <2>4, <2>6
<1>13. Reads(st, left, branch, tree, iter)
  BY <1>10, <1>11, <1>12 DEF Reads, N
<1>14. Reduce(branch, tree, iter) = FinishBranches(st[N], st[N].open).tree
  <2>1. f[N] = {<<st[N], left[N]>>}
    BY <1>1, <1>9
  <2> QED BY <1>3, <2>1
<1> QED BY <1>13, <1>14 DEF N

-----------------------------------------------------------------------------
(* Writing a tree. *)

\* Paths as they are read from the file system.
PathSet ==
  {p \in [index : Indexes, type : {"reg", "dir", "sym"}, stamp : Nat, data : Nat] :
     (p.type = "dir" => p.data = 0) /\ (p.type = "sym" => p.stamp = 0)}

\* Directories come with what is in them.
Rooted(iter) ==
  /\ Indexed(iter) /\ \A e \in iter : e.path \in PathSet
  /\ \A e \in iter : e.path.index # <<>> =>
       \E d \in iter : d.path.index = Front(e.path.index) /\ d.path.type = "dir"

LEMMA PathIs ==
  ASSUME NEW p \in PathSet
  PROVE  /\ p.index \in Indexes /\ p.stamp \in Nat /\ p.data \in Nat
         /\ p.type \in {"reg", "dir", "sym"}
         /\ p = Path(p.index, p.type, p.stamp, p.data)
         /\ p.type = "dir" => p = Dir(p.index, p.stamp)
         /\ p.type = "sym" => p = Sym(p.index, p.data)
BY DEF PathSet, Path, Dir, Sym

\* The directories that are open have the time at which they were written to.
Shown(p, open) == IF p \in open THEN Dir(p.index, Touched) ELSE p

ShownAll(done, open) == {Shown(d.path, open) : d \in done}

Written(st, done) ==
  /\ \A p \in st.open : \E d \in done : p = d.path /\ d.path.type = "dir"
  /\ st.tree = ShownAll(done, st.open)

\* A directory is open while something in it is left to read.
InOrder(done, left) ==
  \A d \in done, r \in left : Earlier(d.path.index, r.path.index)

StillOpen(st, done, left) ==
  \A d \in done, r \in left :
    d.path.type = "dir" /\ IsPrefix(d.path.index, r.path.index) => d.path \in st.open

LEMMA FinishWritten ==
  ASSUME NEW done, Distinct(done), \A d \in done : d.path \in PathSet,
         NEW st, Written(st, done), NEW L \in SUBSET st.open
  PROVE  FinishBranches(st, L) = [tree |-> ShownAll(done, st.open \ L),
                                  open |-> st.open \ L]
<1> DEFINE F(p) == IF \E d \in L : d.index = p.index
                     THEN [p EXCEPT !.stamp = At(L, p.index).stamp] ELSE p
<1>1. ASSUME NEW d \in done  PROVE F(Shown(d.path, st.open)) = Shown(d.path, st.open \ L)
  <2> DEFINE q == Shown(d.path, st.open)
  <2>1. q.index = d.path.index
    BY DEF Shown, Dir, Path
  <2>2. ASSUME NEW l \in L, l.index = d.path.index  PROVE l = d.path /\ l.type = "dir"
    <3>1. PICK c \in done : l = c.path /\ c.path.type = "dir"
      BY DEF Written
    <3> QED BY <2>2, <3>1 DEF Distinct
  <2>3. CASE \E l \in L : l.index = d.path.index
    <3>1. d.path \in L /\ d.path.type = "dir"
      BY <2>2, <2>3
    <3>2. q = Dir(d.path.index, Touched)
      BY <3>1 DEF Shown
    <3>3. At(L, d.path.index) = d.path
      BY <2>2, <3>1 DEF At
    <3>4. F(q) = [q EXCEPT !.stamp = d.path.stamp]
      BY <2>1, <2>3, <3>3
    <3>5. F(q) = Dir(d.path.index, d.path.stamp)
      BY <3>2, <3>4 DEF Dir, Path
    <3>6. d.path = Dir(d.path.index, d.path.stamp)
      BY <3>1, PathIs
    <3>7. Shown(d.path, st.open \ L) = d.path
      BY <3>1 DEF Shown
    <3> QED BY <3>5, <3>6, <3>7
  <2>4. CASE ~ \E l \in L : l.index = d.path.index
    <3>1. d.path \notin L
      BY <2>4
    <3>2. F(q) = q
      BY <2>1, <2>4
    <3> QED BY <3>1, <3>2 DEF Shown
  <2> QED BY <2>3, <2>4
<1>2. {F(p) : p \in st.tree} = ShownAll(done, st.open \ L)
  <2>1. st.tree = ShownAll(done, st.open)
    BY DEF Written
  <2> HIDE DEF F
  <2> QED BY <1>1, <2>1 DEF ShownAll
<1> QED BY <1>2 DEF FinishBranches

LEMMA PutInOpen ==
  ASSUME NEW done, NEW open, NEW q, \A d \in done : d.path.index # q.index,
         \A d \in done : IsParent(d.path.index, q.index) => d.path \in open
  PROVE  Put(ShownAll(done, open), q) = ShownAll(done, open) \cup {q}
<1> DEFINE T == ShownAll(done, open)
<1>1. \A d \in done : Shown(d.path, open).index = d.path.index
  BY DEF Shown, Dir, Path
<1>2. {x \in T : x.index # q.index} = T
  BY <1>1 DEF ShownAll
<1>3. ASSUME NEW x \in T
      PROVE  (IF IsParent(x.index, q.index) THEN [x EXCEPT !.stamp = Touched] ELSE x) = x
  <2>1. PICK d \in done : x = Shown(d.path, open)
    BY DEF ShownAll
  <2>2. CASE IsParent(x.index, q.index)
    <3>1. x = Dir(d.path.index, Touched)
      BY <1>1, <2>1, <2>2 DEF Shown
    <3> QED BY <2>2, <3>1 DEF Dir, Path
  <2> QED BY <2>2
<1>4. Touch(T, q.index) = T
  <2> HIDE DEF T
  <2> QED BY <1>3 DEF Touch
<1> QED BY <1>2, <1>4 DEF Put

LEMMA WriteStep ==
  ASSUME NEW iter, Rooted(iter), NEW left \in SUBSET iter, NEW e, FirstIs(left, e),
         NEW st, Written(st, iter \ left), InOrder(iter \ left, left),
         StillOpen(st, iter \ left, left),
         NEW st2, st2 = Process("ROPath_IterWriter", st, e)
  PROVE  /\ Written(st2, iter \ (left \ {e}))
         /\ InOrder(iter \ (left \ {e}), left \ {e})
         /\ StillOpen(st2, iter \ (left \ {e}), left \ {e})
<1> DEFINE done == iter \ left
           done2 == iter \ (left \ {e})
           L == {d \in st.open : ~ IsPrefix(d.index, e.path.index)}
           open2 == st.open \ L
           T == ShownAll(done, open2)
<1>1. /\ e \in left /\ e \in iter /\ done2 = done \cup {e} /\ done \subseteq iter /\ e \notin done
      /\ \A d \in left \ {e} : Earlier(e.path.index, d.path.index)
  BY DEF FirstIs
<1>2. /\ Distinct(iter) /\ \A d \in iter : d.path \in PathSet /\ d.path.index \in Indexes
      /\ \A d, c \in iter : d.path.index = c.path.index => d = c
  BY DEF Rooted, Indexed, Distinct
<1>3. FinishBranches(st, L) = [tree |-> T, open |-> open2]
  <2>1. Distinct(done) /\ \A d \in done : d.path \in PathSet
    BY <1>2 DEF Distinct
  <2>2. Written(st, done) /\ L \in SUBSET st.open
    OBVIOUS
  <2> HIDE DEF done, L
  <2> QED BY <2>1, <2>2, FinishWritten
<1>4. InOrder(done2, left \ {e})
  BY <1>1 DEF InOrder
<1>5. ASSUME NEW d \in done, d.path.type = "dir", NEW r \in left, IsPrefix(d.path.index, r.path.index)
      PROVE  d.path \in open2
  <2>1. d.path \in st.open
    BY <1>5 DEF StillOpen
  <2>2. IsPrefix(d.path.index, e.path.index)
    <3>1. CASE r = e
      BY <1>5, <3>1
    <3>2. CASE r # e
      <4>1. Earlier(d.path.index, e.path.index) /\ Earlier(e.path.index, r.path.index)
        BY <1>1, <3>2 DEF InOrder
      <4>2. d.path.index \in Indexes /\ e.path.index \in Indexes /\ r.path.index \in Indexes
        BY <1>1, <1>2
      <4> QED BY <1>5, <4>1, <4>2, Between
    <3> QED BY <3>1, <3>2
  <2> QED BY <2>1, <2>2
<1>6. ASSUME NEW d \in done, IsParent(d.path.index, e.path.index)  PROVE d.path \in open2
  <2>1. e.path.index # <<>> /\ d.path.index = Front(e.path.index)
    BY <1>6 DEF IsParent
  <2>2. PICK c \in iter : c.path.index = Front(e.path.index) /\ c.path.type = "dir"
    BY <1>1, <2>1 DEF Rooted
  <2>3. c = d
    BY <1>1, <1>2, <2>1, <2>2
  <2>4. IsPrefix(d.path.index, e.path.index)
    BY <1>1, <1>2, <2>1, FrontIsPrefix
  <2> QED BY <1>1, <1>5, <2>2, <2>3, <2>4
<1>7. \A d \in done : d.path.index # e.path.index
  BY <1>1, <1>2
<1>8. ASSUME NEW q, q.index = e.path.index  PROVE Put(T, q) = T \cup {q}
  <2>1. /\ \A d \in done : d.path.index # q.index
        /\ \A d \in done : IsParent(d.path.index, q.index) => d.path \in open2
    BY <1>6, <1>7, <1>8
  <2> HIDE DEF done, open2
  <2> QED BY <2>1, PutInOpen
<1>9. \A p \in open2 : \E d \in done : p = d.path /\ d.path.type = "dir"
  BY DEF Written
<1>10. e.path \notin open2
  BY <1>7, <1>9
<1>11. CASE e.path.type = "dir"
  <2> DEFINE open3 == open2 \cup {e.path}
             q == Dir(e.path.index, Touched)
  <2>1. st2 = [tree |-> T \cup {q}, open |-> open3]
    <3>1. st2 = WriteROPath([tree |-> T, open |-> open2], e)
      BY <1>3 DEF Process
    <3>2. q.index = e.path.index
      BY DEF Dir, Path
    <3>3. Put(T, q) = T \cup {q}
      BY <1>8, <3>2
    <3> HIDE DEF T, open2, open3, q
    <3> QED BY <1>11, <3>1, <3>3 DEF WriteROPath, OpenDir, q, open3
  <2>2. T \cup {q} = ShownAll(done2, open3)
    <3>1. Shown(e.path, open3) = q
      BY DEF Shown
    <3>2. \A d \in done : Shown(d.path, open3) = Shown(d.path, open2)
      BY <1>7 DEF Shown
    <3> HIDE DEF open2, open3, q, done, done2
    <3> QED BY <1>1, <3>1, <3>2 DEF ShownAll
  <2>3. Written(st2, done2)
    <3>1. \A p \in open3 : \E d \in done2 : p = d.path /\ d.path.type = "dir"
      BY <1>1, <1>9, <1>11
    <3> HIDE DEF done2, open3, T, q
    <3>2. st2.open = open3 /\ st2.tree = ShownAll(done2, open3)
      BY <2>1, <2>2
    <3> QED BY <3>1, <3>2 DEF Written
  <2>4. StillOpen(st2, done2, left \ {e})
    BY <1>1, <1>5, <2>1 DEF StillOpen
  <2> QED BY <1>4, <2>3, <2>4
<1>12. CASE e.path.type # "dir"
  <2>1. st2 = [tree |-> T \cup {e.path}, open |-> open2]
    <3>1. st2 = WriteROPath([tree |-> T, open |-> open2], e)
      BY <1>3 DEF Process
    <3>2. Put(T, e.path) = T \cup {e.path}
      BY <1>8
    <3> HIDE DEF T, open2
    <3> QED BY <1>12, <3>1, <3>2 DEF WriteROPath
  <2>2. T \cup {e.path} = ShownAll(done2, open2)
    <3>1. Shown(e.path, open2) = e.path
      BY <1>10 DEF Shown
    <3> HIDE DEF open2, done, done2
    <3> QED BY <1>1, <3>1 DEF ShownAll
  <2>3. Written(st2, done2)
    <3>1. \A p \in open2 : \E d \in done2 : p = d.path /\ d.path.type = "dir"
      BY <1>1, <1>9
    <3> HIDE DEF done2, open2, T
    <3>2. st2.open = open2 /\ st2.tree = ShownAll(done2, open2)
      BY <2>1, <2>2
    <3> QED BY <3>1, <3>2 DEF Written
  <2>4. StillOpen(st2, done2, left \ {e})
    BY <1>1, <1>5, <1>12, <2>1 DEF StillOpen
  <2> QED BY <1>4, <2>3, <2>4
<1> QED BY <1>11, <1>12

\* A tree whose paths are given in order is written as it is: every attribute of
\* a directory that writing in it changed is set when it is left.
LEMMA WritesTree ==
  ASSUME NEW iter, Rooted(iter)
  PROVE  Reduce("ROPath_IterWriter", {}, iter) = {e.path : e \in iter}
<1> DEFINE N == Cardinality(iter)
<1>1. Indexed(iter) /\ N \in Nat
  BY FS_CardinalityType DEF Rooted, Indexed
<1> HIDE DEF N
<1>2. PICK st, left :
         /\ Reads(st, left, "ROPath_IterWriter", {}, iter)
         /\ Reduce("ROPath_IterWriter", {}, iter) = FinishBranches(st[N], st[N].open).tree
  BY <1>1, ReduceReads DEF N
<1> DEFINE Inv(n) == /\ left[n] \subseteq iter /\ Written(st[n], iter \ left[n])
                     /\ InOrder(iter \ left[n], left[n])
                     /\ StillOpen(st[n], iter \ left[n], left[n])
           S == {n \in 0..N : Inv(n)}
<1>3. Inv(0)
  <2>1. st[0] = [tree |-> {}, open |-> {}] /\ left[0] = iter /\ iter \ left[0] = {}
    BY <1>2 DEF Reads
  <2> QED BY <2>1 DEF Written, InOrder, StillOpen, ShownAll
<1>4. ASSUME NEW n \in 0..(N - 1), Inv(n)  PROVE Inv(n + 1)
  <2>1. n + 1 \in 1..N /\ n + 1 - 1 = n
    BY <1>1
  <2>2. PICK e : /\ FirstIs(left[n], e) /\ left[n + 1] = left[n] \ {e}
                 /\ st[n + 1] = Process("ROPath_IterWriter", st[n], e)
    BY <1>2, <2>1 DEF Reads, N
  <2>3. /\ Written(st[n + 1], iter \ (left[n] \ {e}))
        /\ InOrder(iter \ (left[n] \ {e}), left[n] \ {e})
        /\ StillOpen(st[n + 1], iter \ (left[n] \ {e}), left[n] \ {e})
    BY <1>4, <2>2, WriteStep
  <2> QED BY <1>4, <2>2, <2>3
<1>5. Inv(N)
  <2> HIDE DEF Inv
  <2>1. 0 \in S /\ \A n \in 0..(N - 1) : n \in S => n + 1 \in S
    <3>1. 0 \in 0..N /\ \A n \in 0..(N - 1) : n + 1 \in 0..N
      BY <1>1
    <3> QED BY <1>3, <1>4, <3>1
  <2>2. \A n \in 0..N : n \in S
    <3> HIDE DEF S
    <3> QED BY <1>1, <2>1, CountUp
  <2> QED BY <1>1, <2>2
<1>6. left[N] = {} /\ iter \ left[N] = iter
  BY <1>2 DEF Reads, N
<1>7. FinishBranches(st[N], st[N].open).tree = ShownAll(iter, st[N].open \ st[N].open)
  <2>1. Distinct(iter) /\ \A d \in iter : d.path \in PathSet
    BY DEF Rooted, Indexed
  <2>2. Written(st[N], iter)
    BY <1>5, <1>6
  <2>3. FinishBranches(st[N], st[N].open)
          = [tree |-> ShownAll(iter, st[N].open \ st[N].open),
             open |-> st[N].open \ st[N].open]
    <3> DEFINE L == st[N].open
    <3>1. L \in SUBSET st[N].open
      OBVIOUS
    <3>2. FinishBranches(st[N], L)
            = [tree |-> ShownAll(iter, st[N].open \ L), open |-> st[N].open \ L]
      <4> HIDE DEF L
      <4> QED BY <2>1, <2>2, <3>1, FinishWritten
    <3> QED BY <3>2
  <2> QED BY <2>3
<1>8. \A d \in iter : Shown(d.path, st[N].open \ st[N].open) = d.path
  BY DEF Shown
<1> QED BY <1>2, <1>7, <1>8 DEF ShownAll

-----------------------------------------------------------------------------
(* Putting the deltas of a chain together. *)

EntrySet ==
  {e \in [difftype : {"diff", "snapshot", "deleted"},
          path : PathSet \cup {Absent(i) : i \in Indexes}, base : Nat] :
     /\ e.difftype = "deleted" <=> e.path.type = "none"
     /\ e.difftype = "diff" => e.path.type = "reg"}

Deltas(iters) ==
  /\ iters \in Seq(SUBSET EntrySet)
  /\ \A k \in 1..Len(iters) : Distinct(iters[k])

\* c is the element e of set k with the data that merging gives it: a diff is
\* applied to what the element before it has been merged to.
Merged(R, k, e, c) ==
  IF e.difftype # "diff" THEN c = e
  ELSE \E j \in 1..k - 1 : \E d \in R[j] :
         /\ d.path.index = e.path.index /\ d.path.type = "reg"
         /\ c = [e EXCEPT !.path.data = Patched(d.path.data, e)]
         /\ \A l \in j + 1..k - 1 : ~ HasEntry(R[l], e.path.index)

\* R is a chain with the data that merging it gives.
Merges(R, iters) ==
  /\ Deltas(iters) /\ Deltas(R) /\ Len(R) = Len(iters)
  /\ \A k \in 1..Len(iters) :
       /\ \A e \in iters[k] : \E c \in R[k] : Merged(R, k, e, c)
       /\ \A c \in R[k] : \E e \in iters[k] : Merged(R, k, e, c)

LEMMA EntryIs ==
  ASSUME NEW e \in EntrySet
  PROVE  /\ e.path.index \in Indexes /\ e.base \in Nat /\ e.path.data \in Nat
         /\ e.difftype \in {"diff", "snapshot", "deleted"}
         /\ e.difftype = "deleted" <=> e.path.type = "none"
         /\ e.difftype = "diff" => e.path.type = "reg"
         /\ e.path.type # "none" => e.path \in PathSet
         /\ e.path.type = "none" => e.path = Absent(e.path.index)
         /\ e = [e EXCEPT !.path.data = e.path.data]
<1>1. /\ e \in [difftype : {"diff", "snapshot", "deleted"},
                path : PathSet \cup {Absent(i) : i \in Indexes}, base : Nat]
      /\ e.difftype = "deleted" <=> e.path.type = "none"
      /\ e.difftype = "diff" => e.path.type = "reg"
  BY DEF EntrySet
<1>2. CASE e.path \in PathSet
  <2>1. /\ e.path.index \in Indexes /\ e.path.data \in Nat /\ e.path.type # "none"
        /\ e.path \in [index : Indexes, type : {"reg", "dir", "sym"}, stamp : Nat, data : Nat]
    BY <1>2 DEF PathSet
  <2>2. e.path = [e.path EXCEPT !.data = e.path.data]
    BY <2>1
  <2> QED BY <1>1, <1>2, <2>1, <2>2
<1>3. CASE e.path \in {Absent(i) : i \in Indexes}
  <2>1. PICK i \in Indexes : e.path = Absent(i)
    BY <1>3
  <2>2. e.path.index = i /\ e.path.data = 0 /\ e.path.type = "none"
    BY <2>1 DEF Absent, Path
  <2>3. e.path = [e.path EXCEPT !.data = e.path.data]
    BY <2>1 DEF Absent, Path
  <2> QED BY <1>1, <2>1, <2>2, <2>3
<1> QED BY <1>1, <1>2, <1>3

LEMMA WithData ==
  ASSUME NEW e \in EntrySet, NEW d
  PROVE  LET c == [e EXCEPT !.path.data = d]
         IN  /\ c.path = [e.path EXCEPT !.data = d]
             /\ c.path.index = e.path.index /\ c.path.type = e.path.type /\ c.path.data = d
             /\ c.difftype = e.difftype /\ c.base = e.base
             /\ c = [e EXCEPT !.path.data = c.path.data]
             /\ d \in Nat /\ e.path.type = "reg" => c \in EntrySet
<1> DEFINE c == [e EXCEPT !.path.data = d]
           q == [e.path EXCEPT !.data = d]
<1>1. /\ e \in [difftype : {"diff", "snapshot", "deleted"},
                path : PathSet \cup {Absent(i) : i \in Indexes}, base : Nat]
      /\ e.difftype = "deleted" <=> e.path.type = "none"
      /\ e.difftype = "diff" => e.path.type = "reg"
  BY DEF EntrySet
<1>2. q.index = e.path.index /\ q.type = e.path.type /\ q.data = d
  <2>1. CASE e.path \in PathSet
    BY <2>1 DEF PathSet
  <2>2. CASE e.path \in {Absent(i) : i \in Indexes}
    BY <2>2 DEF Absent, Path
  <2> QED BY <1>1, <2>1, <2>2
<1>3. c = [difftype |-> e.difftype, path |-> q, base |-> e.base]
  BY <1>1
<1>4. ASSUME d \in Nat, e.path.type = "reg" PROVE c \in EntrySet
  <2>1. e.path \in PathSet
    BY <1>4, EntryIs
  <2>2. q \in PathSet
    BY <1>4, <2>1 DEF PathSet
  <2> HIDE DEF q, c
  <2> QED BY <1>1, <1>2, <1>3, <1>4, <2>2 DEF EntrySet
<1>5. c.path = q /\ c.difftype = e.difftype /\ c.base = e.base
  BY <1>3
<1>6. c.path.data = d
  BY <1>2, <1>5
<1>7. c = [e EXCEPT !.path.data = c.path.data]
  BY <1>6
<1> HIDE DEF c
<1>8. c.path.index = e.path.index /\ c.path.type = e.path.type
  BY <1>2, <1>5
<1> QED BY <1>4, <1>5, <1>6, <1>7, <1>8 DEF c

LEMMA SameButData ==
  ASSUME NEW e \in EntrySet, NEW c, c = [e EXCEPT !.path.data = c.path.data]
  PROVE  /\ c.path = [e.path EXCEPT !.data = c.path.data]
         /\ c.path.index = e.path.index /\ c.path.type = e.path.type
         /\ c.difftype = e.difftype /\ c.base = e.base
<1> DEFINE d == c.path.data
<1>1. c = [e EXCEPT !.path.data = d]
  OBVIOUS
<1> HIDE DEF d
<1>2. /\ c.path = [e.path EXCEPT !.data = d]
      /\ c.path.index = e.path.index /\ c.path.type = e.path.type
      /\ c.difftype = e.difftype /\ c.base = e.base
  BY <1>1, WithData
<1> QED BY <1>2 DEF d

LEMMA PatchedNat ==
  ASSUME NEW e \in EntrySet, NEW d
  PROVE  Patched(d, e) \in Nat
BY EntryIs, IndicesAssumption DEF Patched, Garbage

\* Merging changes the data only.
LEMMA MergedIs ==
  ASSUME NEW R, NEW k, NEW e \in EntrySet, NEW c, Merged(R, k, e, c)
  PROVE  /\ c = [e EXCEPT !.path.data = c.path.data]
         /\ c.path = [e.path EXCEPT !.data = c.path.data]
         /\ c.path.index = e.path.index /\ c.path.type = e.path.type
         /\ c.difftype = e.difftype /\ c.base = e.base
<1>1. CASE e.difftype # "diff"
  <2>1. c = e
    BY <1>1 DEF Merged
  <2>2. e = [e EXCEPT !.path.data = e.path.data]
    BY EntryIs
  <2> QED BY <2>1, <2>2, SameButData
<1>2. CASE e.difftype = "diff"
  <2>1. PICK d : c = [e EXCEPT !.path.data = Patched(d, e)]
    BY <1>2 DEF Merged
  <2>2. c = [e EXCEPT !.path.data = c.path.data]
    BY <2>1, WithData
  <2> QED BY <2>2, SameButData
<1> QED BY <1>1, <1>2

LEMMA MergedIndex ==
  ASSUME NEW R, NEW k, NEW e \in EntrySet, NEW c, Merged(R, k, e, c)
  PROVE  c.path.index = e.path.index
<1>1. CASE e.difftype # "diff"
  BY <1>1 DEF Merged
<1>2. CASE e.difftype = "diff"
  <2>1. PICK d : c = [e EXCEPT !.path.data = Patched(d, e)]
    BY <1>2 DEF Merged
  <2> QED BY <2>1, WithData
<1> QED BY <1>1, <1>2

LEMMA DeltasAre ==
  ASSUME NEW iters, Deltas(iters)
  PROVE  /\ Len(iters) \in Nat /\ DOMAIN iters = 1..Len(iters)
         /\ \A k \in 1..Len(iters) : iters[k] \in SUBSET EntrySet /\ Distinct(iters[k])
BY LenProperties, ElementOfSeq DEF Deltas

LEMMA MergesHas ==
  ASSUME NEW R, NEW iters, Merges(R, iters), NEW k \in 1..Len(iters), NEW i
  PROVE  HasEntry(R[k], i) <=> HasEntry(iters[k], i)
<1>1. /\ iters[k] \in SUBSET EntrySet
      /\ \A e \in iters[k] : \E c \in R[k] : Merged(R, k, e, c)
      /\ \A c \in R[k] : \E e \in iters[k] : Merged(R, k, e, c)
  BY DeltasAre DEF Merges
<1>2. ASSUME NEW e \in iters[k], NEW c \in R[k], Merged(R, k, e, c)
      PROVE  c.path.index = e.path.index
  <2>1. e \in EntrySet
    BY <1>1
  <2> QED BY <1>2, <2>1, MergedIndex
<1> QED BY <1>1, <1>2 DEF HasEntry

\* One step of NormalizePs.
Normal1(s, e) ==
  IF e.difftype = "none" THEN s
  ELSE IF e.difftype = "diff" THEN Append(s, e)
  ELSE <<e>>

NormalUpTo(g, ps, n) ==
  g = [k \in 0..n |-> IF k = 0 THEN <<>> ELSE Normal1(g[k-1], ps[k])]

LEMMA NormalExists ==
  ASSUME NEW ps, NEW n \in Nat
  PROVE  \E g : NormalUpTo(g, ps, n)
<1> DEFINE S == {m \in 0..n : \E g : NormalUpTo(g, ps, m)}
<1>1. 0 \in S
  <2> DEFINE g == [k \in 0..0 |-> <<>>]
  <2>1. NormalUpTo(g, ps, 0)
    <3>1. \A k \in 0..0 : k = 0
      OBVIOUS
    <3> QED BY <3>1 DEF NormalUpTo
  <2> QED BY <2>1
<1>2. ASSUME NEW m \in 0..(n - 1), m \in S PROVE m + 1 \in S
  <2>1. PICK f : NormalUpTo(f, ps, m)
    BY <1>2
  <2> DEFINE g == [k \in 0..(m + 1) |-> IF k = m + 1 THEN Normal1(f[m], ps[m + 1]) ELSE f[k]]
  <2>2. \A k \in 0..m : k \in 0..(m + 1) /\ k # m + 1 /\ g[k] = f[k]
    OBVIOUS
  <2>3. ASSUME NEW k \in 0..(m + 1)
        PROVE  g[k] = IF k = 0 THEN <<>> ELSE Normal1(g[k-1], ps[k])
    <3>1. CASE k = m + 1
      <4>1. k # 0 /\ k - 1 = m /\ m \in 0..m
        BY <3>1
      <4>2. g[k] = Normal1(f[m], ps[k])
        BY <3>1
      <4> HIDE DEF g
      <4> QED BY <2>2, <4>1, <4>2
    <3>2. CASE k # m + 1
      <4>1. k \in 0..m /\ g[k] = f[k]
        BY <3>2
      <4>2. f[k] = IF k = 0 THEN <<>> ELSE Normal1(f[k-1], ps[k])
        BY <2>1, <4>1 DEF NormalUpTo
      <4>3. k # 0 => k - 1 \in 0..m
        BY <4>1
      <4> HIDE DEF g
      <4> QED BY <2>2, <4>1, <4>2, <4>3
    <3> QED BY <3>1, <3>2
  <2>4. NormalUpTo(g, ps, m + 1)
    <3>1. DOMAIN g = 0..(m + 1) /\ g = [k \in DOMAIN g |-> g[k]]
      OBVIOUS
    <3> HIDE DEF g
    <3> QED BY <2>3, <3>1 DEF NormalUpTo
  <2>5. m + 1 \in 0..n
    OBVIOUS
  <2> HIDE DEF g
  <2> QED BY <2>4, <2>5
<1> HIDE DEF S
<1>3. n \in S
  BY <1>1, <1>2, CountUp
<1> QED BY <1>3 DEF S

LEMMA NormalBy ==
  ASSUME NEW ps, Len(ps) \in Nat
  PROVE  \E g : /\ NormalizePs(ps) = g[Len(ps)] /\ g[0] = <<>>
                /\ \A k \in 1..Len(ps) : g[k] = Normal1(g[k-1], ps[k])
<1> DEFINE f == CHOOSE g : NormalUpTo(g, ps, Len(ps))
<1>1. NormalUpTo(f, ps, Len(ps))
  BY NormalExists
<1>2. f = CHOOSE g : g = [k \in 0..Len(ps) |->
        IF k = 0 THEN <<>>
        ELSE IF ps[k].difftype = "none" THEN g[k-1]
        ELSE IF ps[k].difftype = "diff" THEN Append(g[k-1], ps[k])
        ELSE <<ps[k]>>]
  BY DEF NormalUpTo, Normal1
<1>3. NormalizePs(ps) = f[Len(ps)]
  BY <1>2 DEF NormalizePs
<1> HIDE DEF f
<1>4. f[0] = <<>> /\ \A k \in 1..Len(ps) : f[k] = Normal1(f[k-1], ps[k])
  <2>1. 0 \in 0..Len(ps) /\ \A k \in 1..Len(ps) : k \in 0..Len(ps) /\ k # 0
    OBVIOUS
  <2> QED BY <1>1, <2>1 DEF NormalUpTo
<1> QED BY <1>3, <1>4

\* What NormalizePs gives: a snapshot and the diffs that follow it, of which
\* patching makes the element c.
Fits(s, c) ==
  /\ s \in Seq(EntrySet) /\ s # <<>> /\ s[1].difftype # "diff"
  /\ \A j \in 2..Len(s) : s[j-1].path.type = "reg"
  /\ c = [Last(s) EXCEPT !.path.data = c.path.data]
  /\ \E f : /\ f[1] = s[1].path.data /\ f[Len(s)] = c.path.data
            /\ \A j \in 2..Len(s) : f[j] = Patched(f[j-1], s[j])

LEMMA FitsOne ==
  ASSUME NEW e \in EntrySet, e.difftype # "diff"
  PROVE  Fits(<<e>>, e)
<1>1. <<e>> \in Seq(EntrySet) /\ Len(<<e>>) = 1 /\ <<e>>[1] = e /\ <<e>> # <<>>
  OBVIOUS
<1>2. \A j \in 2..1 : FALSE
  OBVIOUS
<1>3. Last(<<e>>) = e /\ e = [e EXCEPT !.path.data = e.path.data]
  BY <1>1, EntryIs DEF Last
<1>4. [j \in {1} |-> e.path.data][1] = e.path.data
  OBVIOUS
<1> QED BY <1>1, <1>2, <1>3, <1>4 DEF Fits

LEMMA FitsMore ==
  ASSUME NEW s, NEW d, Fits(s, d), d.path.type = "reg", NEW e \in EntrySet
  PROVE  Fits(Append(s, e), [e EXCEPT !.path.data = Patched(d.path.data, e)])
<1> DEFINE t == Append(s, e)
           n == Len(s)
           c == [e EXCEPT !.path.data = Patched(d.path.data, e)]
<1>1. s \in Seq(EntrySet) /\ s # <<>> /\ Last(s) = s[n] /\ n \in Nat /\ n >= 1
  BY EmptySeq, LenProperties DEF Fits, Last
<1>2. /\ t \in Seq(EntrySet) /\ t # <<>> /\ Len(t) = n + 1 /\ t[n + 1] = e
      /\ \A j \in 1..n : t[j] = s[j]
  BY <1>1, AppendProperties
<1>3. Last(t) = e
  BY <1>2 DEF Last
<1>4. c = [e EXCEPT !.path.data = c.path.data] /\ c.path.data = Patched(d.path.data, e)
  BY WithData
<1>5. s[n].path.type = "reg"
  <2>1. s[n] \in EntrySet
    BY <1>1, ElementOfSeq
  <2>2. d = [s[n] EXCEPT !.path.data = d.path.data]
    BY <1>1 DEF Fits
  <2> QED BY <2>1, <2>2, SameButData
<1>6. PICK f : /\ f[1] = s[1].path.data /\ f[n] = d.path.data
               /\ \A j \in 2..n : f[j] = Patched(f[j-1], s[j])
  BY DEF Fits
<1> HIDE DEF t, n, c
<1>7. t[1].difftype # "diff" /\ t[1] = s[1]
  BY <1>1, <1>2 DEF Fits
<1>8. ASSUME NEW j \in 2..Len(t)  PROVE t[j-1].path.type = "reg"
  <2>1. CASE j = n + 1
    <3>1. j - 1 = n /\ t[n] = s[n]
      BY <1>1, <1>2, <2>1
    <3> QED BY <1>5, <3>1
  <2>2. CASE j # n + 1
    <3>1. j \in 2..n /\ j - 1 \in 1..n
      BY <1>1, <1>2, <2>2
    <3> QED BY <1>2, <3>1 DEF Fits, n
  <2> QED BY <2>1, <2>2
<1> DEFINE g == [j \in 1..n + 1 |-> IF j = n + 1 THEN Patched(d.path.data, e) ELSE f[j]]
<1>9. /\ g[n + 1] = Patched(d.path.data, e)
      /\ \A j \in 1..n : g[j] = f[j]
  BY <1>1
<1> HIDE DEF g
<1>10. g[1] = t[1].path.data /\ g[Len(t)] = c.path.data
  BY <1>1, <1>2, <1>4, <1>6, <1>7, <1>9
<1>11. ASSUME NEW j \in 2..Len(t) PROVE g[j] = Patched(g[j-1], t[j])
  <2>1. CASE j = n + 1
    <3>1. j - 1 = n /\ n \in 1..n
      BY <1>1, <2>1
    <3> QED BY <1>2, <1>6, <1>9, <2>1, <3>1
  <2>2. CASE j # n + 1
    <3>1. j \in 2..n /\ j - 1 \in 1..n /\ j \in 1..n
      BY <1>1, <1>2, <2>2
    <3> QED BY <1>2, <1>6, <1>9, <3>1
  <2> QED BY <2>1, <2>2
<1>12. Fits(t, c)
  BY <1>2, <1>3, <1>4, <1>7, <1>8, <1>10, <1>11 DEF Fits
<1> QED BY <1>12 DEF t, c

LEMMA PatchFits ==
  ASSUME NEW s, NEW c, Fits(s, c)
  PROVE  PatchSeq2ROPath(s) = IF c.path.type = "none" THEN {} ELSE {c}
<1> DEFINE n == Len(s)
           f == CHOOSE g : g = [k \in DOMAIN s |->
                  IF k = 1 THEN s[1].path.data ELSE Patched(g[k-1], s[k])]
<1>1. /\ s \in Seq(EntrySet) /\ s # <<>> /\ n \in Nat /\ n >= 1 /\ DOMAIN s = 1..n
      /\ s[1].difftype # "diff" /\ Last(s) = s[n] /\ Last(s) \in EntrySet
  BY EmptySeq, LenProperties, ElementOfSeq DEF Fits, Last
<1>2. \A j \in 2..n : s[j-1].path.type = "reg"
  BY DEF Fits
<1>3. PICK h : /\ h[1] = s[1].path.data /\ h[n] = c.path.data
               /\ \A j \in 2..n : h[j] = Patched(h[j-1], s[j])
  BY DEF Fits
<1> HIDE DEF n
<1>4. f = [k \in 1..n |-> IF k = 1 THEN s[1].path.data ELSE Patched(f[k-1], s[k])]
  <2> DEFINE g == [k \in 1..n |-> h[k]]
  <2>1. ASSUME NEW k \in 1..n
        PROVE  g[k] = IF k = 1 THEN s[1].path.data ELSE Patched(g[k-1], s[k])
    <3>1. CASE k = 1
      BY <1>3, <3>1
    <3>2. CASE k # 1
      <4>1. k \in 2..n /\ k - 1 \in 1..n
        BY <1>1, <3>2
      <4>2. g[k] = h[k] /\ g[k-1] = h[k-1]
        BY <4>1
      <4> HIDE DEF g
      <4> QED BY <1>3, <3>2, <4>1, <4>2
    <3> QED BY <3>1, <3>2
  <2>2. g = [k \in 1..n |-> IF k = 1 THEN s[1].path.data ELSE Patched(g[k-1], s[k])]
    <3>1. DOMAIN g = 1..n /\ g = [k \in DOMAIN g |-> g[k]]
      OBVIOUS
    <3> HIDE DEF g
    <3> QED BY <2>1, <3>1
  <2> HIDE DEF g
  <2> QED BY <1>1, <2>2
<1>5. PatchSeq2ROPath(s) =
        IF s = <<>> \/ Last(s).path.type = "none" \/ s[1].difftype = "diff"
             \/ (s[1].path.type # "reg" /\ n > 1) THEN {}
        ELSE {[Last(s) EXCEPT !.path.data = f[n]]}
  BY DEF PatchSeq2ROPath, n
<1> HIDE DEF f
<1>6. f[1] = s[1].path.data /\ \A k \in 2..n : f[k] = Patched(f[k-1], s[k])
  <2>1. 1 \in 1..n /\ \A k \in 2..n : k \in 1..n /\ k # 1
    BY <1>1
  <2> QED BY <1>4, <2>1
<1>7. f[n] = c.path.data
  <2> DEFINE S == {k \in 0..n - 1 : f[k + 1] = h[k + 1]}
  <2>1. 0 \in S
    BY <1>1, <1>3, <1>6
  <2>2. ASSUME NEW k \in 0..((n - 1) - 1), k \in S  PROVE k + 1 \in S
    <3>1. k + 1 + 1 \in 2..n /\ k + 1 \in 0..n - 1 /\ k + 1 + 1 - 1 = k + 1
      BY <1>1
    <3>2. f[k + 1] = h[k + 1]
      BY <2>2
    <3>3. f[k + 1 + 1] = h[k + 1 + 1]
      BY <1>3, <1>6, <3>1, <3>2
    <3> QED BY <3>1, <3>3
  <2>3. \A k \in 0..n - 1 : k \in S
    <3> DEFINE m == n - 1
    <3>1. m \in Nat /\ \A k \in 0..(m - 1) : k \in S => k + 1 \in S
      BY <1>1, <2>2
    <3> HIDE DEF S, m
    <3>2. \A k \in 0..m : k \in S
      BY <2>1, <3>1, CountUp
    <3> QED BY <3>2 DEF m
  <2>4. n - 1 \in 0..n - 1 /\ n - 1 + 1 = n
    BY <1>1
  <2> QED BY <1>3, <2>3, <2>4
<1>8. c = [Last(s) EXCEPT !.path.data = c.path.data]
  BY DEF Fits
<1>9. c.path.type = Last(s).path.type
  BY <1>1, <1>8, SameButData
<1>10. n > 1 => s[1].path.type = "reg"
  <2>1. n > 1 => 2 \in 2..n
    BY <1>1
  <2> QED BY <1>2, <2>1
<1> QED BY <1>1, <1>5, <1>7, <1>8, <1>9, <1>10

\* The elements that the iterators have for an index.
Elements(iters, i) ==
  [k \in DOMAIN iters |-> IF HasEntry(iters[k], i) THEN EntryAt(iters[k], i) ELSE NoEntry(i)]

LatestIs(iters, i, e) ==
  \E k \in 1..Len(iters) :
    /\ e \in iters[k] /\ e.path.index = i
    /\ \A j \in k + 1..Len(iters) : ~ HasEntry(iters[j], i)

LEMMA ElementsAre ==
  ASSUME NEW iters, Deltas(iters), NEW i
  PROVE  LET ps == Elements(iters, i)
         IN  /\ Len(ps) = Len(iters) /\ Len(iters) \in Nat
             /\ \A k \in 1..Len(iters) :
                  /\ ps[k].difftype = "none" <=> ~ HasEntry(iters[k], i)
                  /\ HasEntry(iters[k], i) => ps[k] \in EntrySet /\ ps[k] \in iters[k]
                  /\ \A e \in iters[k] : e.path.index = i => ps[k] = e
<1> DEFINE ps == Elements(iters, i)
<1>1. /\ iters \in Seq(SUBSET EntrySet) /\ Len(iters) \in Nat /\ DOMAIN iters = 1..Len(iters)
      /\ \A k \in 1..Len(iters) : iters[k] \subseteq EntrySet /\ Distinct(iters[k])
  <2>1. iters \in Seq(SUBSET EntrySet) /\ \A k \in 1..Len(iters) : Distinct(iters[k])
    BY DEF Deltas
  <2>2. Len(iters) \in Nat /\ DOMAIN iters = 1..Len(iters)
    BY <2>1, LenProperties
  <2>3. \A k \in 1..Len(iters) : iters[k] \in SUBSET EntrySet
    BY <2>1, ElementOfSeq
  <2> QED BY <2>1, <2>2, <2>3
<1>2. Len(ps) = Len(iters)
  BY <1>1 DEF Elements
<1>3. ASSUME NEW k \in 1..Len(iters)
      PROVE  /\ ps[k].difftype = "none" <=> ~ HasEntry(iters[k], i)
             /\ HasEntry(iters[k], i) => ps[k] \in EntrySet /\ ps[k] \in iters[k]
             /\ \A e \in iters[k] : e.path.index = i => ps[k] = e
  <2>1. ps[k] = IF HasEntry(iters[k], i) THEN EntryAt(iters[k], i) ELSE NoEntry(i)
    BY <1>1 DEF Elements
  <2> HIDE DEF ps
  <2>2. CASE HasEntry(iters[k], i)
    <3>1. PICK e \in iters[k] : e.path.index = i
      BY <2>2 DEF HasEntry
    <3>2. ps[k] \in iters[k] /\ ps[k].path.index = i
      BY <2>1, <2>2, <3>1 DEF EntryAt
    <3>3. \A d \in iters[k] : d.path.index = i => ps[k] = d
      BY <1>1, <3>2 DEF Distinct
    <3>4. ps[k] \in EntrySet /\ ps[k].difftype # "none"
      BY <1>1, <3>2, EntryIs
    <3> QED BY <2>2, <3>2, <3>3, <3>4
  <2>3. CASE ~ HasEntry(iters[k], i)
    <3>1. ps[k].difftype = "none"
      BY <2>1, <2>3 DEF NoEntry, Entry
    <3>2. \A e \in iters[k] : e.path.index # i
      BY <2>3 DEF HasEntry
    <3> QED BY <2>3, <3>1, <3>2
  <2> QED BY <2>2, <2>3
<1> QED BY <1>1, <1>2, <1>3

\* From any chain, what is taken for an index comes to the last element.
LEMMA NormalFits ==
  ASSUME NEW R, NEW iters, Merges(R, iters), NEW i, NEW c, LatestIs(R, i, c)
  PROVE  Fits(NormalizePs(Elements(iters, i)), c)
<1> DEFINE ps == Elements(iters, i)
           qs == Elements(R, i)
           N == Len(iters)
<1>0. /\ Deltas(iters) /\ Deltas(R) /\ Len(R) = N
      /\ \A k \in 1..N : /\ \A e \in iters[k] : \E d \in R[k] : Merged(R, k, e, d)
                         /\ \A d \in R[k] : \E e \in iters[k] : Merged(R, k, e, d)
  BY DEF Merges
<1>1. Len(ps) = N /\ N \in Nat
  BY <1>0, ElementsAre
<1>2. \A k \in 1..N : /\ ps[k].difftype = "none" <=> ~ HasEntry(iters[k], i)
                      /\ HasEntry(iters[k], i) => ps[k] \in EntrySet /\ ps[k] \in iters[k]
                      /\ \A d \in iters[k] : d.path.index = i => ps[k] = d
  BY <1>0, ElementsAre
<1>3. \A k \in 1..N : \A d \in R[k] : d.path.index = i => qs[k] = d
  BY <1>0, ElementsAre
<1> HIDE DEF ps, qs
<1>4. ASSUME NEW k \in 1..N, ps[k].difftype # "none"
      PROVE  /\ ps[k] \in EntrySet /\ ps[k].path.index = i
             /\ qs[k] \in R[k] /\ Merged(R, k, ps[k], qs[k])
  <2>1. HasEntry(iters[k], i) /\ ps[k] \in EntrySet /\ ps[k] \in iters[k]
    BY <1>2, <1>4
  <2>2. ps[k].path.index = i
    BY <1>2, <2>1 DEF HasEntry
  <2>3. PICK d \in R[k] : Merged(R, k, ps[k], d)
    BY <1>0, <2>1
  <2>4. d.path.index = ps[k].path.index
    BY <2>1, <2>3, MergedIndex
  <2> QED BY <1>3, <2>1, <2>2, <2>3, <2>4
<1>5. PICK g : /\ NormalizePs(ps) = g[N] /\ g[0] = <<>>
               /\ \A k \in 1..N : g[k] = Normal1(g[k-1], ps[k])
  BY <1>1, NormalBy
<1> DEFINE Is(k, m) == /\ m \in 1..k /\ ps[m].difftype # "none"
                       /\ \A l \in m + 1..k : ps[l].difftype = "none"
           Inv(k) == \A m \in 1..k : Is(k, m) => Fits(g[k], qs[m])
           S == {k \in 0..N : Inv(k)}
<1>6. ASSUME NEW k \in 0..(N - 1), Inv(k)  PROVE Inv(k + 1)
  <2>1. /\ k + 1 \in 1..N /\ k + 1 - 1 = k /\ k \in Nat
        /\ \A m \in 1..k + 1 : m = k + 1 \/ m \in 1..k
    BY <1>1
  <2>2. g[k + 1] = Normal1(g[k], ps[k + 1])
    BY <1>5, <2>1
  <2> SUFFICES ASSUME NEW m \in 1..k + 1, Is(k + 1, m)
               PROVE  Fits(g[k + 1], qs[m])
    OBVIOUS
  <2>3. CASE m # k + 1
    <3>1. m \in 1..k /\ \A l \in m + 1..k : l \in m + 1..k + 1
      BY <2>1, <2>3
    <3>2. k + 1 \in m + 1..k + 1
      BY <2>1, <3>1
    <3>3. ps[k + 1].difftype = "none" /\ Is(k, m)
      BY <3>1, <3>2
    <3>4. g[k + 1] = g[k]
      BY <2>2, <3>3 DEF Normal1
    <3> QED BY <1>6, <3>1, <3>3, <3>4
  <2>4. CASE m = k + 1
    <3> DEFINE p == ps[k + 1]
    <3>1. p.difftype # "none"
      BY <2>4
    <3>2. /\ p \in EntrySet /\ p.path.index = i /\ Merged(R, k + 1, p, qs[k + 1])
      BY <1>4, <2>1, <3>1
    <3> HIDE DEF p
    <3>4. CASE p.difftype = "diff"
      <4> DEFINE q == qs[k + 1]
      <4>0. Merged(R, k + 1, p, q)
        BY <3>2
      <4> HIDE DEF q
      <4>1. PICK j \in 1..k + 1 - 1 : \E d \in R[j] :
               /\ d.path.index = p.path.index /\ d.path.type = "reg"
               /\ q = [p EXCEPT !.path.data = Patched(d.path.data, p)]
               /\ \A l \in j + 1..k + 1 - 1 : ~ HasEntry(R[l], p.path.index)
        BY <3>4, <4>0 DEF Merged
      <4>2. PICK d \in R[j] :
               /\ d.path.index = i /\ d.path.type = "reg"
               /\ q = [p EXCEPT !.path.data = Patched(d.path.data, p)]
               /\ \A l \in j + 1..k : ~ HasEntry(R[l], i)
        BY <2>1, <3>2, <4>1
      <4>3. j \in 1..k /\ j \in 1..N /\ \A l \in j + 1..k : l \in 1..N
        BY <1>1, <2>1
      <4>4. qs[j] = d /\ HasEntry(R[j], i)
        BY <1>3, <4>2, <4>3 DEF HasEntry
      <4>5. ps[j].difftype # "none"
        BY <1>2, <4>3, <4>4, MergesHas
      <4>6. ASSUME NEW l \in j + 1..k PROVE ps[l].difftype = "none"
        <5>1. l \in 1..N /\ ~ HasEntry(R[l], i)
          BY <4>2, <4>3
        <5> QED BY <1>2, <5>1, MergesHas
      <4>7. Fits(g[k], d)
        BY <1>6, <4>3, <4>4, <4>5, <4>6
      <4>8. Fits(Append(g[k], p), q)
        BY <3>2, <4>2, <4>7, FitsMore
      <4>9. g[k + 1] = Append(g[k], p)
        BY <2>2, <3>1, <3>4 DEF Normal1, p
      <4> QED BY <2>4, <4>8, <4>9 DEF q
    <3>5. CASE p.difftype # "diff"
      <4>1. g[k + 1] = <<p>>
        BY <2>2, <3>1, <3>5 DEF Normal1, p
      <4>2. qs[k + 1] = p
        BY <3>2, <3>5 DEF Merged
      <4>3. Fits(<<p>>, qs[k + 1])
        BY <3>2, <3>5, <4>2, FitsOne
      <4> QED BY <2>4, <4>1, <4>3
    <3> QED BY <3>4, <3>5
  <2> QED BY <2>3, <2>4
<1>7. Inv(N)
  <2>1. Inv(0)
    <3>1. \A m \in 1..0 : FALSE
      OBVIOUS
    <3> QED BY <3>1
  <2> HIDE DEF Inv
  <2>2. 0 \in S /\ \A k \in 0..(N - 1) : k \in S => k + 1 \in S
    <3>1. 0 \in 0..N /\ \A k \in 0..(N - 1) : k + 1 \in 0..N
      BY <1>1
    <3> QED BY <1>6, <2>1, <3>1
  <2>3. \A k \in 0..N : k \in S
    <3> HIDE DEF S
    <3> QED BY <1>1, <2>2, CountUp
  <2> QED BY <1>1, <2>3
<1>8. PICK k \in 1..N : /\ c \in R[k] /\ c.path.index = i
                        /\ \A j \in k + 1..N : ~ HasEntry(R[j], i)
  BY <1>0 DEF LatestIs
<1>9. qs[k] = c /\ ps[k].difftype # "none"
  BY <1>2, <1>3, <1>8, MergesHas DEF HasEntry
<1>10. Is(N, k)
  <2>1. \A j \in k + 1..N : j \in 1..N
    BY <1>1
  <2>2. \A j \in k + 1..N : ps[j].difftype = "none"
    BY <1>2, <1>8, <2>1, MergesHas
  <2>3. k \in 1..N
    BY <1>1
  <2> QED BY <1>9, <2>2, <2>3
<1>11. Fits(g[N], c)
  BY <1>7, <1>9, <1>10
<1> QED BY <1>5, <1>11 DEF ps

\* Every index in a chain has a last element.
LEMMA HasLatest ==
  ASSUME NEW iters, Deltas(iters), NEW n \in 1..Len(iters), NEW d \in iters[n]
  PROVE  \E e : LatestIs(iters, d.path.index, e)
<1> DEFINE N == Len(iters)
           i == d.path.index
           T == {N - k : k \in {l \in 1..N : HasEntry(iters[l], i)}}
<1>1. N \in Nat
  BY ElementsAre
<1>2. T \in SUBSET Nat
  BY <1>1
<1>3. N - n \in T
  BY DEF HasEntry
<1>4. PICK m \in T : \A l \in T : m <= l
  <2> HIDE DEF T
  <2> QED BY <1>2, <1>3, HasLeast
<1>5. PICK k \in 1..N : HasEntry(iters[k], i) /\ m = N - k
  OBVIOUS
<1>6. \A j \in k + 1..N : ~ HasEntry(iters[j], i)
  <2> SUFFICES ASSUME NEW j \in k + 1..N, HasEntry(iters[j], i) PROVE FALSE
    OBVIOUS
  <2>1. j \in 1..N /\ N - j \in T /\ ~ (m <= N - j)
    BY <1>1, <1>5
  <2> QED BY <1>4, <2>1
<1>7. PICK e \in iters[k] : e.path.index = i
  BY <1>5 DEF HasEntry
<1> QED BY <1>6, <1>7 DEF LatestIs

\* The last element of each index, unless it says that the path is gone.
Existing(iter) == {e \in iter : e.path.type # "none"}

LEMMA CombineLatest ==
  ASSUME NEW iters, DOMAIN iters = 1..Len(iters), NEW e
  PROVE  e \in CombinePathIters(iters) <=> LatestIs(iters, e.path.index, e)
BY DEF CombinePathIters, LatestIs

LEMMA CombineByLatest ==
  ASSUME NEW iters, Deltas(iters), NEW e
  PROVE  e \in CombinePathIters(iters) <=> LatestIs(iters, e.path.index, e)
BY DeltasAre, CombineLatest

\* A restore of a chain takes for each path what the last set says of it, with the
\* data that its diffs come to.
LEMMA MergesChain ==
  ASSUME NEW R, NEW iters, Merges(R, iters)
  PROVE  IntegratePatchIters(iters) = Existing(CombinePathIters(R))
<1>0. Deltas(iters) /\ Deltas(R) /\ Len(R) = Len(iters)
  BY DEF Merges
<1>1. DOMAIN iters = 1..Len(iters)
  BY <1>0, DeltasAre
<1>2. CollateIters(iters)
        = {Elements(iters, d.path.index) : d \in UNION {iters[k] : k \in DOMAIN iters}}
  BY DEF CollateIters, Elements
<1>3. ASSUME NEW i, NEW e, LatestIs(R, i, e)
      PROVE  PatchSeq2ROPath(NormalizePs(Elements(iters, i)))
               = IF e.path.type = "none" THEN {} ELSE {e}
  <2>1. Fits(NormalizePs(Elements(iters, i)), e)
    BY <1>3, NormalFits
  <2> QED BY <2>1, PatchFits
<1>4. ASSUME NEW e \in IntegratePatchIters(iters)
      PROVE  e \in Existing(CombinePathIters(R))
  <2>1. PICK d \in UNION {iters[k] : k \in DOMAIN iters} :
               e \in PatchSeq2ROPath(NormalizePs(Elements(iters, d.path.index)))
    BY <1>2 DEF IntegratePatchIters
  <2>2. PICK k \in 1..Len(iters) : d \in iters[k]
    BY <1>1
  <2>3. PICK b \in R[k] : b.path.index = d.path.index
    BY <2>2, MergesHas DEF HasEntry
  <2>4. PICK c : LatestIs(R, d.path.index, c)
    BY <1>0, <2>3, HasLatest
  <2>5. e = c /\ e.path.type # "none"
    BY <1>3, <2>1, <2>4
  <2>6. e.path.index = d.path.index
    BY <2>4, <2>5 DEF LatestIs
  <2> QED BY <1>0, <2>4, <2>5, <2>6, CombineByLatest DEF Existing
<1>5. ASSUME NEW e \in Existing(CombinePathIters(R))
      PROVE  e \in IntegratePatchIters(iters)
  <2>1. LatestIs(R, e.path.index, e) /\ e.path.type # "none"
    BY <1>0, <1>5, CombineByLatest DEF Existing
  <2>2. e \in PatchSeq2ROPath(NormalizePs(Elements(iters, e.path.index)))
    BY <1>3, <2>1
  <2>3. PICK k \in 1..Len(iters) : e \in R[k]
    BY <1>0, <2>1 DEF LatestIs
  <2>4. PICK d \in iters[k] : d.path.index = e.path.index
    BY <2>3, MergesHas DEF HasEntry
  <2>5. d \in UNION {iters[n] : n \in DOMAIN iters}
    BY <1>1, <2>4
  <2>6. Elements(iters, e.path.index) \in CollateIters(iters)
    BY <1>2, <2>4, <2>5
  <2> QED BY <2>2, <2>6 DEF IntegratePatchIters
<1> QED BY <1>4, <1>5

-----------------------------------------------------------------------------
(* A part of a tree. *)

\* What comes after a prefix.
Rest(i, r) == SubSeq(i, Len(r) + 1, Len(i))

LEMMA RestIs ==
  ASSUME NEW i \in Indexes, NEW r \in Indexes, IsPrefix(r, i)
  PROVE  /\ Rest(i, r) \in Indexes /\ Len(Rest(i, r)) = Len(i) - Len(r)
         /\ \A m \in 1..Len(i) - Len(r) : Rest(i, r)[m] = i[Len(r) + m]
         /\ Len(r) <= Len(i) /\ \A m \in 1..Len(r) : r[m] = i[m]
<1>1. /\ Len(i) \in Nat /\ Len(r) \in Nat /\ \A m \in 1..Len(i) : i[m] \in Nat
  BY Places
<1>2. Len(r) <= Len(i) /\ \A m \in 1..Len(r) : r[m] = i[m]
  BY PrefixByPlace DEF Begins
<1> DEFINE a == Len(r) + 1
           b == Len(i)
<1>3. a \in Int /\ b \in Int /\ \A m \in a..b : i[m] \in Nat
  BY <1>1
<1>4. /\ SubSeq(i, a, b) \in Seq(Nat)
      /\ Len(SubSeq(i, a, b)) = IF a <= b THEN b - a + 1 ELSE 0
      /\ \A m \in 1..b - a + 1 : SubSeq(i, a, b)[m] = i[a + m - 1]
  <2> HIDE DEF a, b
  <2> QED BY <1>3, SubSeqProperties
<1>5. b - a + 1 = Len(i) - Len(r) /\ \A m \in Nat : a + m - 1 = Len(r) + m
  BY <1>1
<1>6. (IF a <= b THEN b - a + 1 ELSE 0) = Len(i) - Len(r)
  BY <1>1, <1>2
<1>7. \A m \in 1..Len(i) - Len(r) : m \in Nat
  BY <1>1, <1>2
<1> QED BY <1>2, <1>4, <1>5, <1>6, <1>7 DEF Rest, Indexes

LEMMA RestInjective ==
  ASSUME NEW i \in Indexes, NEW j \in Indexes, NEW r \in Indexes, IsPrefix(r, i), IsPrefix(r, j),
         Rest(i, r) = Rest(j, r)
  PROVE  i = j
<1>1. /\ Len(i) \in Nat /\ Len(r) \in Nat /\ Len(j) \in Nat
  BY Places
<1>2. /\ Len(Rest(i, r)) = Len(i) - Len(r) /\ Len(r) <= Len(i)
      /\ (\A m \in 1..Len(i) - Len(r) : Rest(i, r)[m] = i[Len(r) + m])
      /\ \A m \in 1..Len(r) : r[m] = i[m]
  BY RestIs
<1>3. /\ Len(Rest(j, r)) = Len(j) - Len(r) /\ Len(r) <= Len(j)
      /\ (\A m \in 1..Len(j) - Len(r) : Rest(j, r)[m] = j[Len(r) + m])
      /\ \A m \in 1..Len(r) : r[m] = j[m]
  BY RestIs
<1>4. Len(i) = Len(j)
  BY <1>1, <1>2, <1>3
<1>5. ASSUME NEW m \in 1..Len(i)  PROVE i[m] = j[m]
  <2>1. CASE m <= Len(r)
    BY <1>1, <1>2, <1>3, <2>1
  <2>2. CASE ~ (m <= Len(r))
    <3>1. m - Len(r) \in 1..Len(i) - Len(r) /\ Len(r) + (m - Len(r)) = m
      BY <1>1, <1>2, <2>2
    <3> QED BY <1>2, <1>3, <1>4, <3>1
  <2> QED BY <2>1, <2>2
<1> QED BY <1>4, <1>5, SamePlaces

LEMMA PrefixTransitive ==
  ASSUME NEW p \in Indexes, NEW q \in Indexes, NEW r \in Indexes, IsPrefix(p, q), IsPrefix(q, r)
  PROVE  IsPrefix(p, r)
<1>1. Len(p) \in Nat /\ Len(q) \in Nat /\ Len(r) \in Nat
  BY Places
<1>2. Begins(p, q) /\ Begins(q, r)
  BY PrefixByPlace
<1>3. Begins(p, r)
  BY <1>1, <1>2 DEF Begins
<1> QED BY <1>3, PrefixByPlace

\* A prefix of an index is the index or a prefix of its directory's.
LEMMA PrefixOfFront ==
  ASSUME NEW r \in Indexes, NEW i \in Indexes, IsPrefix(r, i), r # i
  PROVE  i # <<>> /\ IsPrefix(r, Front(i))
<1>1. Len(r) \in Nat /\ Len(i) \in Nat
  BY Places
<1>2. Len(r) <= Len(i) /\ \A m \in 1..Len(r) : r[m] = i[m]
  BY PrefixByPlace DEF Begins
<1>3. Len(r) # Len(i)
  BY <1>2, SamePlaces
<1>4. i # <<>>
  <2>1. Len(i) # 0
    BY <1>1, <1>2, <1>3
  <2> QED BY <2>1, EmptySeq
<1>5. /\ Front(i) \in Indexes /\ Len(Front(i)) = Len(i) - 1
      /\ \A m \in 1..Len(i) - 1 : Front(i)[m] = i[m]
  BY <1>4, FrontOf
<1>6. Begins(r, Front(i))
  BY <1>1, <1>2, <1>3, <1>5 DEF Begins
<1> QED BY <1>4, <1>5, <1>6, PrefixByPlace

LEMMA FrontOfRest ==
  ASSUME NEW r \in Indexes, NEW i \in Indexes, IsPrefix(r, i), Rest(i, r) # <<>>
  PROVE  /\ i # <<>> /\ IsPrefix(r, Front(i)) /\ Front(i) \in Indexes
         /\ Front(Rest(i, r)) = Rest(Front(i), r)
<1>1. Len(r) \in Nat /\ Len(i) \in Nat
  BY Places
<1>2. /\ Rest(i, r) \in Indexes /\ Len(Rest(i, r)) = Len(i) - Len(r)
      /\ \A m \in 1..Len(i) - Len(r) : Rest(i, r)[m] = i[Len(r) + m]
      /\ Len(r) <= Len(i)
  BY RestIs
<1>3. r # i
  <2>1. Len(Rest(i, r)) >= 1
    BY <1>2, FrontOf
  <2> QED BY <1>1, <1>2, <2>1
<1>4. i # <<>> /\ IsPrefix(r, Front(i))
  BY <1>3, PrefixOfFront
<1>5. /\ Front(i) \in Indexes /\ Len(Front(i)) = Len(i) - 1
      /\ \A m \in 1..Len(i) - 1 : Front(i)[m] = i[m]
  BY <1>4, FrontOf
<1>6. /\ Rest(Front(i), r) \in Indexes /\ Len(Rest(Front(i), r)) = Len(i) - 1 - Len(r)
      /\ \A m \in 1..Len(i) - 1 - Len(r) : Rest(Front(i), r)[m] = Front(i)[Len(r) + m]
      /\ Len(r) <= Len(i) - 1
  BY <1>4, <1>5, RestIs
<1>7. /\ Front(Rest(i, r)) \in Indexes /\ Len(Front(Rest(i, r))) = Len(i) - Len(r) - 1
      /\ \A m \in 1..Len(i) - Len(r) - 1 : Front(Rest(i, r))[m] = Rest(i, r)[m]
  BY <1>2, FrontOf
<1>8. Len(i) - Len(r) - 1 = Len(i) - 1 - Len(r)
  BY <1>1
<1>9. \A m \in 1..Len(i) - Len(r) - 1 : Front(Rest(i, r))[m] = Rest(Front(i), r)[m]
  <2> TAKE m \in 1..Len(i) - Len(r) - 1
  <2>1. /\ m \in 1..Len(i) - Len(r) /\ m \in 1..Len(i) - 1 - Len(r)
        /\ Len(r) + m \in 1..Len(i) - 1
    BY <1>1, <1>6
  <2> QED BY <1>2, <1>5, <1>6, <1>7, <2>1
<1>10. Front(Rest(i, r)) = Rest(Front(i), r)
  BY <1>6, <1>7, <1>8, <1>9, SamePlaces
<1> QED BY <1>4, <1>5, <1>10

LEMMA RestOfRoot ==
  ASSUME NEW i \in Indexes
  PROVE  /\ <<>> \in Indexes /\ IsPrefix(<<>>, i) /\ Rest(i, <<>>) = i
<1>1. <<>> \in Indexes /\ Len(<<>>) = 0 /\ Len(i) \in Nat
  BY EmptySeq, Places DEF Indexes
<1>2. Begins(<<>>, i)
  BY <1>1 DEF Begins
<1>3. IsPrefix(<<>>, i)
  BY <1>1, <1>2, PrefixByPlace
<1>4. /\ Rest(i, <<>>) \in Indexes /\ Len(Rest(i, <<>>)) = Len(i) - Len(<<>>)
      /\ \A m \in 1..Len(i) - Len(<<>>) : Rest(i, <<>>)[m] = i[Len(<<>>) + m]
  BY <1>1, <1>3, RestIs
<1>5. Len(Rest(i, <<>>)) = Len(i) /\ \A m \in 1..Len(i) : Rest(i, <<>>)[m] = i[m]
  BY <1>1, <1>4
<1> QED BY <1>1, <1>3, <1>4, <1>5, SamePlaces

\* The directory of a path is not below it.
LEMMA FrontNotBelow ==
  ASSUME NEW i \in Indexes, i # <<>>
  PROVE  Front(i) \in Indexes /\ ~ IsPrefix(i, Front(i)) /\ Front(i) # i /\ ~ IsPrefix(i, <<>>)
<1>1. /\ Front(i) \in Indexes /\ Len(Front(i)) = Len(i) - 1 /\ Len(i) \in Nat /\ Len(i) >= 1
  BY FrontOf, Places
<1>2. <<>> \in Indexes /\ Len(<<>>) = 0
  BY EmptySeq DEF Indexes
<1>3. ~ Begins(i, Front(i)) /\ ~ Begins(i, <<>>)
  BY <1>1, <1>2 DEF Begins
<1>4. Front(i) # i
  BY <1>1
<1> QED BY <1>1, <1>2, <1>3, <1>4, PrefixByPlace

\* An element of a filtered delta.
Shift(e, r) == [e EXCEPT !.path.index = Rest(e.path.index, r)]

LEMMA ShiftIs ==
  ASSUME NEW e \in EntrySet, NEW r \in Indexes, IsPrefix(r, e.path.index)
  PROVE  /\ Shift(e, r) \in EntrySet
         /\ Shift(e, r).path.index = Rest(e.path.index, r) /\ Shift(e, r).difftype = e.difftype
         /\ Shift(e, r).path.type = e.path.type /\ Shift(e, r).path.data = e.path.data
         /\ Shift(e, r).base = e.base
         /\ Shift(e, r).path = [e.path EXCEPT !.index = Rest(e.path.index, r)]
<1>1. /\ e \in [difftype : {"diff", "snapshot", "deleted"},
                path : PathSet \cup {Absent(i) : i \in Indexes}, base : Nat]
      /\ e.difftype = "deleted" <=> e.path.type = "none"
      /\ e.difftype = "diff" => e.path.type = "reg"
  BY DEF EntrySet
<1> DEFINE j == Rest(e.path.index, r)
           q == [e.path EXCEPT !.index = j]
<1>2. e.path.index \in Indexes
  BY EntryIs
<1>3. j \in Indexes
  BY <1>2, RestIs
<1> HIDE DEF j
<1>4. /\ q \in PathSet \cup {Absent(i) : i \in Indexes} /\ q.index = j
      /\ q.type = e.path.type /\ q.data = e.path.data
  <2>1. CASE e.path \in PathSet
    BY <1>3, <2>1 DEF PathSet
  <2>2. CASE e.path \in {Absent(i) : i \in Indexes}
    <3>1. PICK i \in Indexes : e.path = Absent(i)
      BY <2>2
    <3>2. q = Absent(j) /\ q.type = "none" /\ q.data = 0 /\ q.index = j
      BY <3>1 DEF Absent, Path
    <3>3. e.path.type = "none" /\ e.path.data = 0
      BY <3>1 DEF Absent, Path
    <3> QED BY <1>3, <3>2, <3>3
  <2> QED BY <1>1, <2>1, <2>2
<1>5. Shift(e, r) = [difftype |-> e.difftype, path |-> q, base |-> e.base]
  BY <1>1 DEF Shift, j
<1> HIDE DEF q
<1>6. Shift(e, r) \in EntrySet
  BY <1>1, <1>4, <1>5 DEF EntrySet
<1>7. /\ Shift(e, r).difftype = e.difftype /\ Shift(e, r).path = q /\ Shift(e, r).base = e.base
  BY <1>5
<1>8. Shift(e, r).path.index = j /\ Shift(e, r).path.type = e.path.type /\ Shift(e, r).path.data = e.path.data
  BY <1>4, <1>7
<1>9. q = [e.path EXCEPT !.index = j]
  BY DEF q
<1> HIDE DEF q
<1> QED BY <1>6, <1>7, <1>8, <1>9 DEF j

LEMMA Filtered ==
  ASSUME NEW iter, NEW r
  PROVE  FilterPathIter(iter, r) = {Shift(f, r) : f \in {g \in iter : IsPrefix(r, g.path.index)}}
BY DEF FilterPathIter, Shift, Rest

\* What is asked of a filtered iterator is asked of the iterator.
LEMMA FilteredHas ==
  ASSUME NEW iter \in SUBSET EntrySet, NEW r \in Indexes,
         NEW i \in Indexes, IsPrefix(r, i)
  PROVE  HasEntry(FilterPathIter(iter, r), Rest(i, r)) <=> HasEntry(iter, i)
<1>1. ASSUME NEW f \in iter, f.path.index = i
      PROVE  HasEntry(FilterPathIter(iter, r), Rest(i, r))
  <2>1. Shift(f, r) \in FilterPathIter(iter, r) /\ Shift(f, r).path.index = Rest(i, r)
    BY <1>1, Filtered, ShiftIs
  <2> QED BY <2>1 DEF HasEntry
<1>2. ASSUME NEW e \in FilterPathIter(iter, r), e.path.index = Rest(i, r)
      PROVE  HasEntry(iter, i)
  <2>1. PICK f \in iter : IsPrefix(r, f.path.index) /\ e = Shift(f, r)
    BY Filtered
  <2>2. f \in EntrySet
    OBVIOUS
  <2>3. f.path.index \in Indexes /\ e.path.index = Rest(f.path.index, r)
    BY <2>1, <2>2, ShiftIs, EntryIs
  <2>4. f.path.index = i
    BY <1>2, <2>1, <2>3, RestInjective
  <2> QED BY <2>4 DEF HasEntry
<1> QED BY <1>1, <1>2 DEF HasEntry

FilteredAll(iters, r) == [n \in DOMAIN iters |-> FilterPathIter(iters[n], r)]

LEMMA FilteredAllAre ==
  ASSUME NEW iters, Deltas(iters), NEW r \in Indexes
  PROVE  /\ Len(iters) \in Nat /\ DOMAIN iters = 1..Len(iters)
         /\ Len(FilteredAll(iters, r)) = Len(iters)
         /\ FilteredAll(iters, r) \in Seq(SUBSET EntrySet)
         /\ \A k \in 1..Len(iters) : /\ FilteredAll(iters, r)[k] = FilterPathIter(iters[k], r)
                                     /\ iters[k] \in SUBSET EntrySet
<1>1. iters \in Seq(SUBSET EntrySet)
  BY DEF Deltas
<1>2. Len(iters) \in Nat /\ DOMAIN iters = 1..Len(iters)
  BY <1>1, LenProperties
<1>3. \A k \in 1..Len(iters) : iters[k] \in SUBSET EntrySet
  BY <1>1, ElementOfSeq
<1> DEFINE F == FilteredAll(iters, r)
<1>4. F = [n \in 1..Len(iters) |-> FilterPathIter(iters[n], r)]
  BY <1>2 DEF FilteredAll
<1>5. \A k \in 1..Len(iters) : FilterPathIter(iters[k], r) \in SUBSET EntrySet
  <2> SUFFICES ASSUME NEW k \in 1..Len(iters), NEW e \in FilterPathIter(iters[k], r)
               PROVE  e \in EntrySet
    OBVIOUS
  <2>1. PICK f \in iters[k] : IsPrefix(r, f.path.index) /\ e = Shift(f, r)
    BY Filtered
  <2> QED BY <1>3, <2>1, ShiftIs
<1>6. F \in Seq(SUBSET EntrySet) /\ Len(F) = Len(iters)
  <2>1. F \in [1..Len(iters) -> SUBSET EntrySet]
    BY <1>4, <1>5
  <2> QED BY <1>2, <2>1, SeqDef, LenProperties
<1> QED BY <1>2, <1>3, <1>4, <1>6

\* A chain of filtered deltas is a chain of deltas.
LEMMA FilteredDeltas ==
  ASSUME NEW iters, Deltas(iters), NEW r \in Indexes
  PROVE  Deltas(FilteredAll(iters, r))
<1> DEFINE F == FilteredAll(iters, r)
           N == Len(iters)
<1>1. /\ N \in Nat /\ Len(F) = N /\ F \in Seq(SUBSET EntrySet)
      /\ \A k \in 1..N : F[k] = FilterPathIter(iters[k], r) /\ iters[k] \in SUBSET EntrySet
  BY FilteredAllAre
<1> HIDE DEF F
<1>2. \A k \in 1..N : Distinct(iters[k])
  BY DEF Deltas
<1>3. ASSUME NEW k \in 1..N, NEW e \in F[k]
      PROVE  \E f \in iters[k] : /\ f \in EntrySet /\ f.path.index \in Indexes
                                 /\ IsPrefix(r, f.path.index) /\ e = Shift(f, r)
                                 /\ e.path.index = Rest(f.path.index, r)
  <2>1. PICK f \in iters[k] : IsPrefix(r, f.path.index) /\ e = Shift(f, r)
    BY <1>1, <1>3, Filtered
  <2>2. f \in EntrySet
    BY <1>1
  <2> QED BY <2>1, <2>2, ShiftIs, EntryIs
<1>4. ASSUME NEW k \in 1..N  PROVE Distinct(F[k])
  <2> SUFFICES ASSUME NEW d \in F[k], NEW e \in F[k], d.path.index = e.path.index PROVE d = e
    BY DEF Distinct
  <2>1. PICK f \in iters[k] : /\ f \in EntrySet /\ f.path.index \in Indexes
                              /\ IsPrefix(r, f.path.index) /\ d = Shift(f, r)
                              /\ d.path.index = Rest(f.path.index, r)
    BY <1>3
  <2>2. PICK g \in iters[k] : /\ g \in EntrySet /\ g.path.index \in Indexes
                              /\ IsPrefix(r, g.path.index) /\ e = Shift(g, r)
                              /\ e.path.index = Rest(g.path.index, r)
    BY <1>3
  <2>3. f.path.index = g.path.index
    BY <2>1, <2>2, RestInjective
  <2>4. f = g
    BY <1>2, <2>3 DEF Distinct
  <2> QED BY <2>1, <2>2, <2>4
<1>5. Deltas(F)
  BY <1>1, <1>4 DEF Deltas
<1> QED BY <1>5 DEF F

LEMMA TwoChanges ==
  ASSUME NEW p \in PathSet, NEW x, NEW d
  PROVE  [[p EXCEPT !.data = d] EXCEPT !.index = x] = [[p EXCEPT !.index = x] EXCEPT !.data = d]
<1>1. p \in [index : Indexes, type : {"reg", "dir", "sym"}, stamp : Nat, data : Nat]
  BY DEF PathSet
<1>2. p = [index |-> p.index, type |-> p.type, stamp |-> p.stamp, data |-> p.data]
  BY <1>1
<1>3. /\ [p EXCEPT !.data = d] = [index |-> p.index, type |-> p.type, stamp |-> p.stamp, data |-> d]
      /\ [p EXCEPT !.index = x] = [index |-> x, type |-> p.type, stamp |-> p.stamp, data |-> p.data]
  BY <1>2
<1> QED BY <1>3

LEMMA ChangesInPath ==
  ASSUME NEW e, NEW a, NEW b, NEW q, e = [difftype |-> a, path |-> q, base |-> b], NEW x
  PROVE  /\ [e EXCEPT !.path.index = x] = [difftype |-> a, path |-> [q EXCEPT !.index = x], base |-> b]
         /\ [e EXCEPT !.path.data = x] = [difftype |-> a, path |-> [q EXCEPT !.data = x], base |-> b]
OBVIOUS

LEMMA ShiftWithData ==
  ASSUME NEW e \in EntrySet, e.path.type = "reg", NEW d, NEW r
  PROVE  Shift([e EXCEPT !.path.data = d], r) = [Shift(e, r) EXCEPT !.path.data = d]
<1> DEFINE x == Rest(e.path.index, r)
           p == e.path
           c == [e EXCEPT !.path.data = d]
           s == Shift(e, r)
<1>1. p \in PathSet /\ e = [difftype |-> e.difftype, path |-> p, base |-> e.base]
  BY EntryIs DEF EntrySet
<1>2. c.path.index = e.path.index
  BY WithData
<1>3. Shift(c, r) = [c EXCEPT !.path.index = x]
  BY <1>2 DEF Shift
<1>4. s = [e EXCEPT !.path.index = x]
  BY DEF Shift
<1> HIDE DEF x, p
<1>5. /\ c = [difftype |-> e.difftype, path |-> [p EXCEPT !.data = d], base |-> e.base]
      /\ s = [difftype |-> e.difftype, path |-> [p EXCEPT !.index = x], base |-> e.base]
  BY <1>1, <1>4, ChangesInPath
<1> HIDE DEF c, s
<1>6. /\ [c EXCEPT !.path.index = x]
           = [difftype |-> e.difftype, path |-> [[p EXCEPT !.data = d] EXCEPT !.index = x], base |-> e.base]
      /\ [s EXCEPT !.path.data = d]
           = [difftype |-> e.difftype, path |-> [[p EXCEPT !.index = x] EXCEPT !.data = d], base |-> e.base]
  BY <1>5, ChangesInPath
<1>7. [c EXCEPT !.path.index = x] = [s EXCEPT !.path.data = d]
  BY <1>1, <1>6, TwoChanges
<1> QED BY <1>3, <1>7 DEF c, s

LEMMA ShiftMerged ==
  ASSUME NEW R, Deltas(R), NEW r \in Indexes, NEW k \in 1..Len(R), NEW e \in EntrySet,
         IsPrefix(r, e.path.index), NEW c, Merged(R, k, e, c)
  PROVE  Merged(FilteredAll(R, r), k, Shift(e, r), Shift(c, r))
<1> DEFINE F == FilteredAll(R, r)
           N == Len(R)
           s == Shift(e, r)
<1>1. /\ N \in Nat
      /\ \A n \in 1..N : F[n] = FilterPathIter(R[n], r) /\ R[n] \in SUBSET EntrySet
  BY FilteredAllAre
<1>2. /\ s \in EntrySet /\ s.path.index = Rest(e.path.index, r) /\ s.difftype = e.difftype
      /\ s.path.data = e.path.data /\ s.base = e.base
  BY ShiftIs
<1> HIDE DEF F, s
<1>3. CASE e.difftype # "diff"
  BY <1>2, <1>3 DEF Merged, s
<1>4. CASE e.difftype = "diff"
  <2>1. PICK j \in 1..k - 1 : \E d \in R[j] :
           /\ d.path.index = e.path.index /\ d.path.type = "reg"
           /\ c = [e EXCEPT !.path.data = Patched(d.path.data, e)]
           /\ \A l \in j + 1..k - 1 : ~ HasEntry(R[l], e.path.index)
    BY <1>4 DEF Merged
  <2>2. PICK d \in R[j] :
           /\ d.path.index = e.path.index /\ d.path.type = "reg"
           /\ c = [e EXCEPT !.path.data = Patched(d.path.data, e)]
           /\ \A l \in j + 1..k - 1 : ~ HasEntry(R[l], e.path.index)
    BY <2>1
  <2>3. j \in 1..N /\ \A l \in j + 1..k - 1 : l \in 1..N
    BY <1>1
  <2>4. d \in EntrySet
    BY <1>1, <2>3
  <2>5. /\ Shift(d, r).path.index = s.path.index /\ Shift(d, r).path.type = "reg"
        /\ Shift(d, r).path.data = d.path.data
    BY <1>2, <2>2, <2>4, ShiftIs
  <2>6. Shift(d, r) \in F[j]
    BY <1>1, <2>2, <2>3, Filtered
  <2>7. e.path.index \in Indexes /\ e.path.type = "reg"
    BY <1>4, EntryIs
  <2>8. \A l \in j + 1..k - 1 : ~ HasEntry(F[l], s.path.index)
    BY <1>1, <1>2, <2>2, <2>3, <2>7, FilteredHas
  <2>9. Patched(Shift(d, r).path.data, s) = Patched(d.path.data, e)
    BY <1>2, <2>5 DEF Patched
  <2>10. Shift(c, r) = [s EXCEPT !.path.data = Patched(d.path.data, e)]
    BY <2>2, <2>7, PatchedNat, ShiftWithData DEF s
  <2>11. Shift(c, r) = [s EXCEPT !.path.data = Patched(Shift(d, r).path.data, s)]
    BY <2>9, <2>10
  <2> DEFINE t == Shift(d, r)
             x == Shift(c, r)
  <2>12. t \in F[j] /\ t.path.index = s.path.index /\ t.path.type = "reg"
         /\ x = [s EXCEPT !.path.data = Patched(t.path.data, s)]
    BY <2>5, <2>6, <2>11
  <2> HIDE DEF t, x
  <2>13. Merged(F, k, s, x)
    BY <1>2, <1>4, <2>8, <2>12 DEF Merged
  <2> QED BY <2>13 DEF x, s, F
<1> QED BY <1>3, <1>4 DEF F, s

LEMMA FilteredMerges ==
  ASSUME NEW R, NEW iters, Merges(R, iters), NEW r \in Indexes
  PROVE  Merges(FilteredAll(R, r), FilteredAll(iters, r))
<1> DEFINE N == Len(iters)
           F == FilteredAll(R, r)
           G == FilteredAll(iters, r)
<1>1. /\ Deltas(iters) /\ Deltas(R) /\ Len(R) = N
      /\ \A k \in 1..N : /\ \A e \in iters[k] : \E c \in R[k] : Merged(R, k, e, c)
                         /\ \A c \in R[k] : \E e \in iters[k] : Merged(R, k, e, c)
  BY DEF Merges
<1>2. Deltas(F) /\ Deltas(G) /\ Len(F) = N /\ Len(G) = N
  BY <1>1, FilteredDeltas, FilteredAllAre
<1>3. \A k \in 1..N : /\ F[k] = FilterPathIter(R[k], r) /\ G[k] = FilterPathIter(iters[k], r)
                     /\ iters[k] \in SUBSET EntrySet
  BY <1>1, FilteredAllAre
<1>4. ASSUME NEW k \in 1..N, NEW e \in iters[k], NEW c, Merged(R, k, e, c)
      PROVE  /\ c.path.index = e.path.index
             /\ IsPrefix(r, e.path.index) => Merged(F, k, Shift(e, r), Shift(c, r))
  <2>1. e \in EntrySet
    BY <1>3
  <2>2. c.path.index = e.path.index
    BY <1>4, <2>1, MergedIndex
  <2> QED BY <1>1, <1>4, <2>1, <2>2, ShiftMerged
<1> HIDE DEF F, G
<1>5. ASSUME NEW k \in 1..N, NEW e \in G[k]
      PROVE  \E c \in F[k] : Merged(F, k, e, c)
  <2>1. PICK f \in iters[k] : IsPrefix(r, f.path.index) /\ e = Shift(f, r)
    BY <1>3, <1>5, Filtered
  <2>2. PICK c \in R[k] : Merged(R, k, f, c)
    BY <1>1
  <2>3. c.path.index = f.path.index /\ Merged(F, k, Shift(f, r), Shift(c, r))
    BY <1>4, <2>1, <2>2
  <2>4. Shift(c, r) \in F[k]
    BY <1>3, <2>1, <2>3, Filtered
  <2> QED BY <2>1, <2>3, <2>4
<1>6. ASSUME NEW k \in 1..N, NEW c \in F[k]
      PROVE  \E e \in G[k] : Merged(F, k, e, c)
  <2>1. PICK d \in R[k] : IsPrefix(r, d.path.index) /\ c = Shift(d, r)
    BY <1>3, <1>6, Filtered
  <2>2. PICK f \in iters[k] : Merged(R, k, f, d)
    BY <1>1
  <2>3. d.path.index = f.path.index
    BY <1>4, <2>2
  <2>4. Merged(F, k, Shift(f, r), Shift(d, r))
    BY <1>4, <2>1, <2>2, <2>3
  <2>5. Shift(f, r) \in G[k]
    BY <1>3, <2>1, <2>3, Filtered
  <2> QED BY <2>1, <2>4, <2>5
<1> QED BY <1>1, <1>2, <1>5, <1>6 DEF Merges, F, G

\* Filtering the deltas and taking the last element of each index is taking the
\* last elements and filtering them.
LEMMA FilterCombined ==
  ASSUME NEW iters, Deltas(iters), NEW r \in Indexes
  PROVE  Existing(CombinePathIters(FilteredAll(iters, r)))
           = FilterPathIter(Existing(CombinePathIters(iters)), r)
<1> DEFINE F == FilteredAll(iters, r)
           N == Len(iters)
<1>1. /\ N \in Nat /\ Len(F) = N
      /\ \A k \in 1..N : F[k] = FilterPathIter(iters[k], r) /\ iters[k] \in SUBSET EntrySet
  BY FilteredAllAre
<1>2. Deltas(F)
  BY FilteredDeltas
<1> HIDE DEF F
<1>3. ASSUME NEW e, LatestIs(F, e.path.index, e)
      PROVE  \E f : LatestIs(iters, f.path.index, f) /\ IsPrefix(r, f.path.index) /\ e = Shift(f, r)
  <2>1. PICK k \in 1..N : e \in F[k] /\ \A j \in k + 1..N : ~ HasEntry(F[j], e.path.index)
    BY <1>1, <1>3 DEF LatestIs
  <2>2. PICK f \in iters[k] : IsPrefix(r, f.path.index) /\ e = Shift(f, r)
    BY <1>1, <2>1, Filtered
  <2>3. f \in EntrySet
    BY <1>1
  <2>4. f.path.index \in Indexes /\ e.path.index = Rest(f.path.index, r)
    BY <2>2, <2>3, ShiftIs, EntryIs
  <2>5. \A j \in k + 1..N : j \in 1..N
    BY <1>1
  <2>6. \A j \in k + 1..N : ~ HasEntry(iters[j], f.path.index)
    BY <1>1, <2>1, <2>2, <2>4, <2>5, FilteredHas
  <2>7. LatestIs(iters, f.path.index, f)
    BY <2>6 DEF LatestIs
  <2> QED BY <2>2, <2>7
<1>4. ASSUME NEW f, LatestIs(iters, f.path.index, f), IsPrefix(r, f.path.index)
      PROVE  f \in EntrySet /\ LatestIs(F, Shift(f, r).path.index, Shift(f, r))
  <2>1. PICK k \in 1..N : f \in iters[k] /\ \A j \in k + 1..N : ~ HasEntry(iters[j], f.path.index)
    BY <1>4 DEF LatestIs
  <2>2. f \in EntrySet
    BY <1>1, <2>1
  <2>3. f.path.index \in Indexes /\ Shift(f, r).path.index = Rest(f.path.index, r)
    BY <1>4, <2>2, ShiftIs, EntryIs
  <2>4. Shift(f, r) \in F[k]
    BY <1>1, <1>4, <2>1, Filtered
  <2>5. \A j \in k + 1..N : j \in 1..N
    BY <1>1
  <2>6. \A j \in k + 1..N : ~ HasEntry(F[j], Rest(f.path.index, r))
    BY <1>1, <1>4, <2>1, <2>3, <2>5, FilteredHas
  <2> QED BY <1>1, <2>2, <2>3, <2>4, <2>6 DEF LatestIs
<1>5. ASSUME NEW e \in Existing(CombinePathIters(F))
      PROVE  e \in FilterPathIter(Existing(CombinePathIters(iters)), r)
  <2>1. LatestIs(F, e.path.index, e) /\ e.path.type # "none"
    BY <1>2, <1>5, CombineByLatest DEF Existing
  <2>2. PICK f : LatestIs(iters, f.path.index, f) /\ IsPrefix(r, f.path.index) /\ e = Shift(f, r)
    BY <1>3, <2>1
  <2>3. f \in EntrySet /\ f \in CombinePathIters(iters)
    BY <1>4, <2>2, CombineByLatest
  <2>4. f \in Existing(CombinePathIters(iters))
    BY <2>1, <2>2, <2>3, ShiftIs DEF Existing
  <2> QED BY <2>2, <2>4, Filtered
<1>6. ASSUME NEW e \in FilterPathIter(Existing(CombinePathIters(iters)), r)
      PROVE  e \in Existing(CombinePathIters(F))
  <2>1. PICK f \in Existing(CombinePathIters(iters)) : IsPrefix(r, f.path.index) /\ e = Shift(f, r)
    BY Filtered
  <2>2. LatestIs(iters, f.path.index, f) /\ f.path.type # "none"
    BY CombineByLatest DEF Existing
  <2>3. f \in EntrySet /\ LatestIs(F, e.path.index, e)
    BY <1>4, <2>1, <2>2
  <2>4. e.path.type # "none"
    BY <2>1, <2>2, <2>3, ShiftIs
  <2> QED BY <1>2, <2>3, <2>4, CombineByLatest DEF Existing
<1> QED BY <1>5, <1>6 DEF F

-----------------------------------------------------------------------------
(* Trees, and what a chain says the tree is. *)

\* One path for an index, and a directory for each path but the root.
WellFormed(T) ==
  /\ T \subseteq PathSet
  /\ \A p \in T : p.index \in Indices
  /\ \A p, q \in T : p.index = q.index => p = q
  /\ \A p \in T : p.index # <<>> => \E d \in T : d.index = Front(p.index) /\ d.type = "dir"

\* The tree that a chain comes to.
ChainTree(R) == {e.path : e \in Existing(CombinePathIters(R))}

\* Deltas that can be put together, and come to a tree.
WholeChain(R, iters) == Merges(R, iters) /\ WellFormed(ChainTree(R))

DiffsOf(chain) == [n \in DOMAIN chain |-> chain[n].diff]
SigsOf(chain)  == [n \in DOMAIN chain |-> chain[n].sig]

LEMMA IndicesAre == IsFiniteSet(Indices) /\ Indices \subseteq Indexes /\ <<>> \in Indices
BY IndicesAssumption DEF Indexes

LEMMA AtPath ==
  ASSUME NEW T, \A p, q \in T : p.index = q.index => p = q, NEW p \in T
  PROVE  At(T, p.index) = p
BY DEF At

LEMMA AtNone ==
  ASSUME NEW T, NEW i, \A p \in T : p.index # i
  PROVE  At(T, i) = Absent(i)
BY DEF At

LEMMA AtIs ==
  ASSUME NEW T, WellFormed(T), NEW i
  PROVE  /\ At(T, i).index = i
         /\ \/ At(T, i) \in T /\ At(T, i) \in PathSet /\ At(T, i).type # "none"
            \/ At(T, i) = Absent(i) /\ At(T, i).type = "none" /\ \A p \in T : p.index # i
<1>1. CASE \E p \in T : p.index = i
  <2>1. PICK p \in T : p.index = i
    BY <1>1
  <2>2. At(T, i) = p
    BY <2>1, AtPath DEF WellFormed
  <2>3. p \in PathSet
    BY DEF WellFormed
  <2> QED BY <2>1, <2>2, <2>3 DEF PathSet
<1>2. CASE ~ \E p \in T : p.index = i
  <2>1. At(T, i) = Absent(i)
    BY <1>2 DEF At
  <2> QED BY <1>2, <2>1 DEF Absent, Path
<1> QED BY <1>1, <1>2

\* Two trees are the same if they have the same path for each index.
LEMMA SameTree ==
  ASSUME NEW T, WellFormed(T), NEW U, WellFormed(U), \A i \in Indices : At(T, i) = At(U, i)
  PROVE  T = U
<1>1. ASSUME NEW p \in T PROVE p \in U
  <2>1. At(T, p.index) = p /\ p.index \in Indices /\ p.type # "none"
    BY AtPath DEF WellFormed, PathSet
  <2>2. At(U, p.index).type # "none"
    BY <2>1
  <2> QED BY <2>1, <2>2, AtIs
<1>2. ASSUME NEW p \in U PROVE p \in T
  <2>1. At(U, p.index) = p /\ p.index \in Indices /\ p.type # "none"
    BY AtPath DEF WellFormed, PathSet
  <2>2. At(T, p.index).type # "none"
    BY <2>1
  <2> QED BY <2>1, <2>2, AtIs
<1> QED BY <1>1, <1>2

LEMMA CombinedIs ==
  ASSUME NEW iters, Deltas(iters)
  PROVE  CombinePathIters(iters) \in SUBSET EntrySet /\ Distinct(CombinePathIters(iters))
<1> DEFINE N == Len(iters)
<1>1. iters \in Seq(SUBSET EntrySet) /\ \A k \in 1..N : Distinct(iters[k])
  BY DEF Deltas
<1>2. N \in Nat /\ \A k \in 1..N : iters[k] \in SUBSET EntrySet
  BY <1>1, LenProperties, ElementOfSeq
<1>3. ASSUME NEW e \in CombinePathIters(iters)
      PROVE  LatestIs(iters, e.path.index, e) /\ e \in EntrySet
  <2>1. LatestIs(iters, e.path.index, e)
    BY <1>3, CombineByLatest
  <2>2. PICK k \in 1..N : e \in iters[k]
    BY <2>1 DEF LatestIs
  <2> QED BY <1>2, <2>1, <2>2
<1>4. ASSUME NEW d \in CombinePathIters(iters), NEW e \in CombinePathIters(iters),
             d.path.index = e.path.index
      PROVE  d = e
  <2> DEFINE i == d.path.index
  <2>1. PICK k \in 1..N : d \in iters[k] /\ \A j \in k + 1..N : ~ HasEntry(iters[j], i)
    BY <1>3 DEF LatestIs
  <2>2. PICK l \in 1..N : e \in iters[l] /\ \A j \in l + 1..N : ~ HasEntry(iters[j], i)
    BY <1>3, <1>4 DEF LatestIs
  <2>3. HasEntry(iters[k], i) /\ HasEntry(iters[l], i)
    BY <1>4, <2>1, <2>2 DEF HasEntry
  <2>4. k \notin l + 1..N /\ l \notin k + 1..N
    BY <2>1, <2>2, <2>3
  <2>5. k = l
    BY <1>2, <2>4
  <2> QED BY <1>1, <1>4, <2>1, <2>2, <2>5 DEF Distinct
<1> QED BY <1>3, <1>4 DEF Distinct

LEMMA EntriesFinite ==
  ASSUME NEW iter, Distinct(iter), \A e \in iter : e.path.index \in Indices
  PROVE  IsFiniteSet(iter)
<1> DEFINE f == [e \in iter |-> e.path.index]
<1>1. f \in [iter -> Indices] /\ \A a, b \in iter : f[a] = f[b] => a = b
  BY DEF Distinct
<1>2. f \in Injection(iter, Indices)
  <2> HIDE DEF f
  <2> QED BY <1>1 DEF Injection, IsInjective
<1> HIDE DEF f
<1> QED BY <1>2, IndicesAre, FS_Injection

\* Restoring a part of a chain gives that part of the tree.
LEMMA RestoresBelow ==
  ASSUME NEW R, NEW iters, WholeChain(R, iters), NEW r \in Indexes
  PROVE  LET Y == IntegratePatchIters(FilteredAll(iters, r))
         IN  /\ {e.path : e \in Y} = Below(ChainTree(R), r)
             /\ Reduce("ROPath_IterWriter", {}, Y) = Below(ChainTree(R), r)
<1> DEFINE X == Existing(CombinePathIters(R))
           Y == FilterPathIter(X, r)
           G == {g \in X : IsPrefix(r, g.path.index)}
<1>1. Merges(R, iters) /\ Deltas(R) /\ WellFormed(ChainTree(R))
  BY DEF WholeChain, Merges
<1>2. IntegratePatchIters(FilteredAll(iters, r)) = Y
  <2>1. IntegratePatchIters(FilteredAll(iters, r))
          = Existing(CombinePathIters(FilteredAll(R, r)))
    BY <1>1, FilteredMerges, MergesChain
  <2> QED BY <1>1, <2>1, FilterCombined
<1>3. X \in SUBSET EntrySet /\ Distinct(X) /\ \A e \in X : e.path.type # "none"
  BY <1>1, CombinedIs DEF Existing, Distinct
<1>4. /\ ChainTree(R) = {e.path : e \in X}
      /\ \A e \in X : e.path \in PathSet /\ e.path.index \in Indices /\ e.path.index \in Indexes
  BY <1>1, IndicesAre DEF ChainTree, WellFormed
<1>5. Y = {Shift(f, r) : f \in G}
  BY Filtered
<1> HIDE DEF X
<1>6. ASSUME NEW f \in G
      PROVE  /\ f \in EntrySet /\ IsPrefix(r, f.path.index) /\ f.path.index \in Indexes
             /\ Shift(f, r) \in EntrySet /\ Shift(f, r).path \in PathSet
             /\ Shift(f, r).path.index = Rest(f.path.index, r)
             /\ Shift(f, r).path.index \in Indexes
             /\ Shift(f, r).path.type = f.path.type
             /\ Shift(f, r).path = [f.path EXCEPT !.index = Rest(f.path.index, r)]
  <2>1. f \in X /\ f \in EntrySet /\ IsPrefix(r, f.path.index) /\ f.path.type # "none"
    BY <1>3
  <2>2. /\ Shift(f, r) \in EntrySet /\ Shift(f, r).path.index = Rest(f.path.index, r)
        /\ Shift(f, r).path.type = f.path.type
        /\ Shift(f, r).path = [f.path EXCEPT !.index = Rest(f.path.index, r)]
    BY <2>1, ShiftIs
  <2> QED BY <1>4, <2>1, <2>2, EntryIs
<1>7. IsFiniteSet(Y)
  <2>1. IsFiniteSet(X)
    BY <1>3, <1>4, EntriesFinite
  <2>2. G \in SUBSET X
    OBVIOUS
  <2>3. IsFiniteSet(G)
    BY <2>1, <2>2, FS_Subset
  <2> DEFINE s == [f \in G |-> Shift(f, r)]
  <2>4. s \in Surjection(G, Y)
    BY <1>5 DEF Surjection
  <2> QED BY <2>3, <2>4, FS_Surjection
<1>8. Distinct(Y)
  <2> SUFFICES ASSUME NEW f \in G, NEW g \in G,
                      Shift(f, r).path.index = Shift(g, r).path.index
               PROVE  Shift(f, r) = Shift(g, r)
    BY <1>5 DEF Distinct
  <2>0. /\ f.path.index \in Indexes /\ g.path.index \in Indexes
        /\ IsPrefix(r, f.path.index) /\ IsPrefix(r, g.path.index)
        /\ Rest(f.path.index, r) = Rest(g.path.index, r)
    BY <1>6
  <2>1. f.path.index = g.path.index
    BY <2>0, RestInjective
  <2> QED BY <1>3, <2>1 DEF Distinct
<1>9. ASSUME NEW e \in Y, e.path.index # <<>>
      PROVE  \E d \in Y : d.path.index = Front(e.path.index) /\ d.path.type = "dir"
  <2>1. PICK f \in G : e = Shift(f, r)
    BY <1>5
  <2>2. /\ f.path.index # <<>> /\ IsPrefix(r, Front(f.path.index))
        /\ Front(Rest(f.path.index, r)) = Rest(Front(f.path.index), r)
    BY <1>6, <1>9, <2>1, FrontOfRest
  <2>3. \E q \in ChainTree(R) : q.index = Front(f.path.index) /\ q.type = "dir"
    BY <1>1, <1>4, <2>2 DEF WellFormed
  <2>4. PICK g \in X : g.path.index = Front(f.path.index) /\ g.path.type = "dir"
    BY <1>4, <2>3
  <2>5. g \in G /\ Shift(g, r) \in Y
    BY <1>5, <2>2, <2>4
  <2> QED BY <1>6, <2>1, <2>2, <2>4, <2>5
<1>10. Rooted(Y)
  <2>1. \A e \in Y : e.path \in PathSet /\ e.path.index \in Indexes
    BY <1>5, <1>6
  <2> QED BY <1>7, <1>8, <1>9, <2>1 DEF Rooted, Indexed
<1>11. {e.path : e \in Y} = Below(ChainTree(R), r)
  <2>1. Below(ChainTree(R), r)
          = {[p EXCEPT !.index = Rest(p.index, r)] :
               p \in {q \in ChainTree(R) : IsPrefix(r, q.index)}}
    BY DEF Below, Rest
  <2>2. {q \in ChainTree(R) : IsPrefix(r, q.index)} = {f.path : f \in G}
    BY <1>4
  <2>3. \A f \in G : Shift(f, r).path = [f.path EXCEPT !.index = Rest(f.path.index, r)]
    BY <1>6
  <2>4. Below(ChainTree(R), r) = {[f.path EXCEPT !.index = Rest(f.path.index, r)] : f \in G}
    <3> HIDE DEF G
    <3> QED BY <2>1, <2>2
  <2>5. {e.path : e \in Y} = {Shift(f, r).path : f \in G}
    <3> HIDE DEF G, Y
    <3> QED BY <1>5
  <2> HIDE DEF G, Y
  <2> QED BY <2>3, <2>4, <2>5
<1>12. Reduce("ROPath_IterWriter", {}, Y) = {e.path : e \in Y}
  <2> HIDE DEF Y
  <2> QED BY <1>10, WritesTree
<1> QED BY <1>2, <1>11, <1>12

LEMMA BelowRoot ==
  ASSUME NEW T, WellFormed(T)
  PROVE  Below(T, <<>>) = T
<1>1. ASSUME NEW p \in T
      PROVE  IsPrefix(<<>>, p.index) /\ [p EXCEPT !.index = Rest(p.index, <<>>)] = p
  <2>1. p \in PathSet /\ p.index \in Indexes
    BY DEF WellFormed, PathSet
  <2>2. IsPrefix(<<>>, p.index) /\ Rest(p.index, <<>>) = p.index
    BY <2>1, RestOfRoot
  <2>3. p = [p EXCEPT !.index = p.index]
    BY <2>1 DEF PathSet
  <2> QED BY <2>2, <2>3
<1>2. Below(T, <<>>) = {[p EXCEPT !.index = Rest(p.index, <<>>)] :
                          p \in {q \in T : IsPrefix(<<>>, q.index)}}
  BY DEF Below, Rest
<1> QED BY <1>1, <1>2

\* What is restored from a set whose chain is whole.
LEMMA RestoredIs ==
  ASSUME NEW k, NEW R, WholeChain(R, DiffsOf(ChainOf(k))), NEW r \in Indexes
  PROVE  /\ Restored(k, r) = Below(ChainTree(R), r)
         /\ {e.path : e \in RopIter(k, r)} = Below(ChainTree(R), r)
<1> DEFINE C == ChainOf(k)
           D == DiffsOf(C)
<1>1. [n \in DOMAIN C |-> FilterPathIter(C[n].diff, r)] = FilteredAll(D, r)
  <2> HIDE DEF C
  <2> QED BY DEF FilteredAll, DiffsOf
<1>2. RopIter(k, r) = IntegratePatchIters(FilteredAll(D, r))
  <2>1. RopIter(k, r) = UNION {IntegratePatchIters(iters) : iters \in {FilteredAll(D, r)}}
    BY <1>1 DEF RopIter
  <2> QED BY <2>1
<1>3. Restored(k, r) = Reduce("ROPath_IterWriter", {}, IntegratePatchIters(FilteredAll(D, r)))
  <2>1. Restored(k, r) = UNION {Reduce("ROPath_IterWriter", {}, iter) :
                                  iter \in {IntegratePatchIters(FilteredAll(D, r))}}
    BY <1>2 DEF Restored
  <2> QED BY <2>1
<1> HIDE DEF D
<1>4. WholeChain(R, D)
  BY DEF D
<1>5. /\ {e.path : e \in IntegratePatchIters(FilteredAll(D, r))} = Below(ChainTree(R), r)
      /\ Reduce("ROPath_IterWriter", {}, IntegratePatchIters(FilteredAll(D, r)))
           = Below(ChainTree(R), r)
  BY <1>4, RestoresBelow
<1> QED BY <1>2, <1>3, <1>5 DEF D

-----------------------------------------------------------------------------
(* The next set of a chain. *)

FaultSet ==
  [kind : {"none", "locked", "fails", "cut", "edited"}, index : Indices, data : Nat, sig : Nat]

\* What get_delta_iter finds in the signatures for an index.
SigAt(sig, i) == IF HasEntry(sig, i) THEN EntryAt(sig, i) ELSE NoEntry(i)

\* A signature of a path that is o in the backup: of its data, perhaps, too.
SigIs(s, o) ==
  /\ s.path.type = o.type /\ s.path.stamp = o.stamp /\ s.path.data \in Nat
  /\ o.type # "reg" => s.path = o
  /\ s.difftype = "signature" <=> o.type = "reg"

\* The signatures tell what is in a backup, up to the data of some files.
SigsTell(sig, P, X) ==
  /\ Distinct(sig)
  /\ \A i \in Indices : /\ SigIs(SigAt(sig, i), At(P, i))
                        /\ i \notin X => SigAt(sig, i).path = At(P, i)

\* What merging and patching make of an element, on top of a tree.
Computed(P, e) ==
  IF e.difftype = "diff" THEN [e EXCEPT !.path.data = Patched(At(P, e.path.index).data, e)]
  ELSE e

LEMMA ComputedIs ==
  ASSUME NEW e \in EntrySet, NEW P
  PROVE  /\ Computed(P, e) \in EntrySet /\ Computed(P, e).path.index = e.path.index
         /\ Computed(P, e).path.type = e.path.type /\ Computed(P, e).path.stamp = e.path.stamp
         /\ e.difftype # "diff" => Computed(P, e) = e
         /\ e.difftype = "diff" =>
              Computed(P, e).path = [e.path EXCEPT !.data = Patched(At(P, e.path.index).data, e)]
         /\ e.difftype = "diff" /\ At(P, e.path.index).data = e.base => Computed(P, e) = e
<1>1. CASE e.difftype # "diff"
  BY <1>1 DEF Computed
<1>2. CASE e.difftype = "diff"
  <2> DEFINE x == Patched(At(P, e.path.index).data, e)
             c == [e EXCEPT !.path.data = x]
  <2>1. x \in Nat /\ e.path.type = "reg" /\ e.path \in PathSet
    BY <1>2, PatchedNat, EntryIs
  <2>2. At(P, e.path.index).data = e.base => x = e.path.data
    BY DEF Patched
  <2> HIDE DEF x
  <2>3. /\ c.path = [e.path EXCEPT !.data = x] /\ c.path.index = e.path.index
        /\ c.path.type = e.path.type /\ c \in EntrySet
    BY <2>1, WithData
  <2>4. [e.path EXCEPT !.data = x].stamp = e.path.stamp
    BY <2>1 DEF PathSet
  <2>5. x = e.path.data => c = e
    BY EntryIs
  <2>6. Computed(P, e) = c
    BY <1>2 DEF Computed, x
  <2> HIDE DEF c
  <2> QED BY <1>2, <2>2, <2>3, <2>4, <2>5, <2>6 DEF x
<1> QED BY <1>1, <1>2

LEMMA SignedIs ==
  ASSUME NEW e \in EntrySet, NEW fault \in FaultSet
  PROVE  LET s == SigEntry(e, fault)
         IN  /\ s.path.index = e.path.index /\ s.path.type = e.path.type
             /\ s.path.stamp = e.path.stamp /\ s.path.data \in Nat
             /\ e.path.type # "reg" => s.path = e.path
             /\ DataSigned(e.path, fault) = e.path.data => s.path = e.path
             /\ s.difftype = "signature" <=> e.path.type = "reg"
<1> DEFINE p == e.path
           x == DataSigned(p, fault)
           s == SigEntry(e, fault)
<1>1. p \in PathSet \/ p = Absent(p.index)
  BY EntryIs
<1>2. p.data \in Nat /\ e.difftype # "signature"
  BY EntryIs
<1>3. x \in Nat /\ (p.type # "reg" => x = p.data)
  BY <1>2 DEF DataSigned, Misread, FaultSet
<1>4. s.path = [p EXCEPT !.data = x] /\ (s.difftype = "signature" <=> p.type = "reg")
  BY <1>2 DEF SigEntry, Entry
<1> HIDE DEF x, s, p
<1>5. p = [p EXCEPT !.data = p.data]
  <2>1. CASE p \in PathSet
    BY <2>1 DEF PathSet
  <2>2. CASE p = Absent(p.index)
    BY <2>2 DEF Absent, Path
  <2> QED BY <1>1, <2>1, <2>2
<1>6. LET n == [p EXCEPT !.data = x]
      IN  n.index = p.index /\ n.type = p.type /\ n.stamp = p.stamp /\ n.data = x
  <2>1. CASE p \in PathSet
    BY <2>1 DEF PathSet
  <2>2. CASE p = Absent(p.index)
    BY <2>2 DEF Absent, Path
  <2> QED BY <1>1, <2>1, <2>2
<1> QED BY <1>3, <1>4, <1>5, <1>6 DEF x, s, p

\* Another iterator on top of a chain.
LEMMA AppendCombines ==
  ASSUME NEW S, NEW iters \in Seq(S), NEW D \in S
  PROVE  \A e : e \in CombinePathIters(Append(iters, D)) <=>
                  e \in D \/ (e \in CombinePathIters(iters) /\ ~ HasEntry(D, e.path.index))
<1> DEFINE A == Append(iters, D)
           N == Len(iters)
<1>2. N \in Nat /\ DOMAIN iters = 1..N
  BY LenProperties
<1>3. /\ A \in Seq(S) /\ Len(A) = N + 1 /\ A[N + 1] = D
      /\ \A k \in 1..N : A[k] = iters[k]
  BY <1>2, AppendProperties
<1>4. /\ \A k \in 1..N + 1 : k = N + 1 \/ k \in 1..N
      /\ \A k \in 1..N : k \in 1..N + 1 /\ N + 1 \in k + 1..N + 1
      /\ N + 1 \in 1..N + 1 /\ N + 1 - 1 = N /\ \A k \in N + 1 + 1..N + 1 : FALSE
  BY <1>2
<1>5. DOMAIN A = 1..Len(A)
  BY <1>3, LenProperties
<1> HIDE DEF A, N
<1>8. ASSUME NEW e, LatestIs(A, e.path.index, e)
      PROVE  e \in D \/ (LatestIs(iters, e.path.index, e) /\ ~ HasEntry(D, e.path.index))
  <2>1. PICK k \in 1..N + 1 : e \in A[k] /\ \A j \in k + 1..N + 1 : ~ HasEntry(A[j], e.path.index)
    BY <1>3, <1>8 DEF LatestIs
  <2>2. CASE k = N + 1
    BY <1>3, <2>1, <2>2
  <2>3. CASE k \in 1..N
    <3>1. ~ HasEntry(D, e.path.index)
      BY <1>3, <1>4, <2>1, <2>3
    <3>2. \A j \in k + 1..N : j \in 1..N /\ j \in k + 1..N + 1
      BY <1>2
    <3>3. e \in iters[k] /\ \A j \in k + 1..N : ~ HasEntry(iters[j], e.path.index)
      BY <1>3, <2>1, <2>3, <3>2
    <3> QED BY <2>3, <3>1, <3>3 DEF LatestIs, N
  <2> QED BY <1>4, <2>2, <2>3
<1>9. ASSUME NEW e \in D  PROVE LatestIs(A, e.path.index, e)
  BY <1>3, <1>4 DEF LatestIs
<1>10. ASSUME NEW e, LatestIs(iters, e.path.index, e), ~ HasEntry(D, e.path.index)
       PROVE  LatestIs(A, e.path.index, e)
  <2>1. PICK k \in 1..N : e \in iters[k] /\ \A j \in k + 1..N : ~ HasEntry(iters[j], e.path.index)
    BY <1>10 DEF LatestIs, N
  <2>2. \A j \in k + 1..N + 1 : j = N + 1 \/ (j \in 1..N /\ j \in k + 1..N)
    BY <1>2
  <2>3. e \in A[k] /\ \A j \in k + 1..N + 1 : ~ HasEntry(A[j], e.path.index)
    BY <1>3, <1>10, <2>1, <2>2
  <2> QED BY <1>3, <1>4, <2>1, <2>3 DEF LatestIs
<1>11. \A e : e \in CombinePathIters(A) <=>
                e \in D \/ (e \in CombinePathIters(iters) /\ ~ HasEntry(D, e.path.index))
  <2>1. \A e : e \in CombinePathIters(A) <=> LatestIs(A, e.path.index, e)
    BY <1>5, CombineLatest
  <2>2. \A e : e \in CombinePathIters(iters) <=> LatestIs(iters, e.path.index, e)
    BY <1>2, CombineLatest DEF N
  <2> QED BY <1>8, <1>9, <1>10, <2>1, <2>2
<1> QED BY <1>11 DEF A

LEMMA AppendDeltas ==
  ASSUME NEW iters, Deltas(iters), NEW D \in SUBSET EntrySet, Distinct(D)
  PROVE  LET A == Append(iters, D)
             N == Len(iters)
         IN  /\ Deltas(A) /\ N \in Nat /\ Len(A) = N + 1 /\ A[N + 1] = D
             /\ \A k \in 1..N : A[k] = iters[k]
<1> DEFINE A == Append(iters, D)
           N == Len(iters)
<1>1. iters \in Seq(SUBSET EntrySet) /\ \A k \in 1..N : Distinct(iters[k])
  BY DEF Deltas
<1>2. N \in Nat
  BY <1>1, LenProperties
<1>3. /\ A \in Seq(SUBSET EntrySet) /\ Len(A) = N + 1 /\ A[N + 1] = D
      /\ \A k \in 1..N : A[k] = iters[k]
  BY <1>1, <1>2, AppendProperties
<1> HIDE DEF A, N
<1>4. \A k \in 1..N + 1 : k = N + 1 \/ k \in 1..N
  BY <1>2
<1>5. Deltas(A)
  BY <1>1, <1>3, <1>4 DEF Deltas
<1> QED BY <1>2, <1>3, <1>5 DEF A, N

\* A delta on top of a chain is put together with it.
LEMMA AppendMerges ==
  ASSUME NEW R, NEW iters, WholeChain(R, iters), NEW D \in SUBSET EntrySet, Distinct(D),
         \A e \in D : e.difftype = "diff" => At(ChainTree(R), e.path.index).type = "reg"
  PROVE  LET C == {Computed(ChainTree(R), e) : e \in D}
         IN  /\ Merges(Append(R, C), Append(iters, D))
             /\ C \in SUBSET EntrySet /\ Distinct(C)
<1> DEFINE P == ChainTree(R)
           C == {Computed(P, e) : e \in D}
           A == Append(iters, D)
           B == Append(R, C)
           N == Len(iters)
<1>1. /\ Deltas(iters) /\ Deltas(R) /\ Len(R) = N
      /\ \A k \in 1..N : /\ \A e \in iters[k] : \E c \in R[k] : Merged(R, k, e, c)
                         /\ \A c \in R[k] : \E e \in iters[k] : Merged(R, k, e, c)
  BY DEF WholeChain, Merges
<1>2. \A e \in D : Computed(P, e) \in EntrySet /\ Computed(P, e).path.index = e.path.index
  BY ComputedIs
<1>3. C \in SUBSET EntrySet /\ Distinct(C)
  <2> HIDE DEF P
  <2> QED BY <1>2 DEF Distinct
<1>4. WellFormed(P)
  BY DEF WholeChain
<1>5. /\ Deltas(A) /\ N \in Nat /\ Len(A) = N + 1 /\ A[N + 1] = D
      /\ \A k \in 1..N : A[k] = iters[k]
  BY <1>1, AppendDeltas
<1>6. /\ Deltas(B) /\ Len(B) = N + 1 /\ B[N + 1] = C
      /\ \A k \in 1..N : B[k] = R[k]
  <2> HIDE DEF C, N
  <2> QED BY <1>1, <1>3, AppendDeltas
<1> HIDE DEF A, B, N
<1>7. /\ \A k \in 1..N + 1 : k = N + 1 \/ k \in 1..N
      /\ \A k \in 1..N : \A j \in 1..k - 1 : j \in 1..N
      /\ \A k \in 1..N : \A j \in 1..k - 1 : \A l \in j + 1..k - 1 : l \in 1..N
  BY <1>5
<1>8. ASSUME NEW k \in 1..N, NEW e, NEW c, Merged(R, k, e, c)  PROVE Merged(B, k, e, c)
  <2>1. CASE e.difftype # "diff"
    BY <1>8, <2>1 DEF Merged
  <2>2. CASE e.difftype = "diff"
    <3>1. PICK j \in 1..k - 1 : \E d \in R[j] :
             /\ d.path.index = e.path.index /\ d.path.type = "reg"
             /\ c = [e EXCEPT !.path.data = Patched(d.path.data, e)]
             /\ \A l \in j + 1..k - 1 : ~ HasEntry(R[l], e.path.index)
      BY <1>8, <2>2 DEF Merged
    <3>2. B[j] = R[j] /\ \A l \in j + 1..k - 1 : B[l] = R[l]
      BY <1>6, <1>7
    <3> QED BY <2>2, <3>1, <3>2 DEF Merged
  <2> QED BY <2>1, <2>2
<1>9. ASSUME NEW e \in D  PROVE Merged(B, N + 1, e, Computed(P, e))
  <2>1. CASE e.difftype # "diff"
    BY <2>1 DEF Merged, Computed
  <2>2. CASE e.difftype = "diff"
    <3>1. At(P, e.path.index).type = "reg"
      BY <2>2
    <3>2. At(P, e.path.index) \in P /\ At(P, e.path.index).index = e.path.index
      BY <1>4, <3>1, AtIs
    <3>3. PICK d \in CombinePathIters(R) : d.path = At(P, e.path.index)
      BY <3>2 DEF P, ChainTree, Existing
    <3>4. LatestIs(R, e.path.index, d)
      BY <1>1, <3>2, <3>3, CombineByLatest
    <3>5. PICK j \in 1..N : d \in R[j] /\ \A l \in j + 1..N : ~ HasEntry(R[l], e.path.index)
      BY <1>1, <3>4 DEF LatestIs
    <3>6. N + 1 - 1 = N /\ \A l \in j + 1..N : l \in 1..N
      BY <1>5
    <3>7. d \in B[j] /\ \A l \in j + 1..N : ~ HasEntry(B[l], e.path.index)
      BY <1>6, <3>5, <3>6
    <3> DEFINE c == Computed(P, e)
               x == Patched(d.path.data, e)
    <3>8. c = [e EXCEPT !.path.data = x]
      BY <2>2, <3>3 DEF Computed
    <3>9. d.path.index = e.path.index /\ d.path.type = "reg"
      BY <3>1, <3>2, <3>3
    <3> HIDE DEF c, x
    <3>10. 1..(N + 1) - 1 = 1..N /\ j + 1..(N + 1) - 1 = j + 1..N
      BY <1>5
    <3>11. \A l \in j + 1..(N + 1) - 1 : ~ HasEntry(B[l], e.path.index)
      BY <3>7, <3>10
    <3>12. c = [e EXCEPT !.path.data = Patched(d.path.data, e)]
      BY <3>8 DEF x
    <3>13. \E m \in 1..(N + 1) - 1 : \E b \in B[m] :
              /\ b.path.index = e.path.index /\ b.path.type = "reg"
              /\ c = [e EXCEPT !.path.data = Patched(b.path.data, e)]
              /\ \A l \in m + 1..(N + 1) - 1 : ~ HasEntry(B[l], e.path.index)
      BY <3>7, <3>9, <3>10, <3>11, <3>12
    <3>14. Merged(B, N + 1, e, c)
      BY <2>2, <3>13 DEF Merged
    <3> QED BY <3>14 DEF c
  <2> QED BY <2>1, <2>2
<1>10. ASSUME NEW k \in 1..N + 1
       PROVE  /\ \A e \in A[k] : \E c \in B[k] : Merged(B, k, e, c)
              /\ \A c \in B[k] : \E e \in A[k] : Merged(B, k, e, c)
  <2>1. CASE k \in 1..N
    BY <1>1, <1>5, <1>6, <1>8, <2>1
  <2>2. CASE k = N + 1
    BY <1>5, <1>6, <1>9, <2>2
  <2> QED BY <1>7, <2>1, <2>2
<1>11. Merges(B, A)
  BY <1>5, <1>6, <1>10 DEF Merges
<1> QED BY <1>3, <1>11 DEF A, B, P

\* What a set says of a path that is n in the source and o in the backup.
NewAt(n, o, fault) ==
  IF n.type = "none" THEN n
  ELSE IF Looks(n, o) \/ (n.type = "reg" /\ fault.kind = "fails" /\ fault.index = n.index)
    THEN o
  ELSE [n EXCEPT !.data = DataRead(n, fault)]

LEMMA ReadIs ==
  ASSUME NEW n \in PathSet, NEW fault \in FaultSet
  PROVE  LET read == [n EXCEPT !.data = DataRead(n, fault)]
         IN  /\ read \in PathSet /\ read.index = n.index /\ read.type = n.type
             /\ ~ (fault.kind \in {"cut", "edited"} /\ fault.index = n.index) => read = n
<1>1. DataRead(n, fault) \in Nat
  BY DEF DataRead, FaultSet, PathSet
<1>2. n.type # "reg" => DataRead(n, fault) = n.data
  BY DEF DataRead, Misread
<1>3. ~ (fault.kind \in {"cut", "edited"} /\ fault.index = n.index) => DataRead(n, fault) = n.data
  BY DEF DataRead, Misread
<1>4. n = [n EXCEPT !.data = n.data]
  BY DEF PathSet
<1> HIDE DEF DataRead
<1> QED BY <1>1, <1>2, <1>3, <1>4 DEF PathSet

\* The delta of a path: none, or one that says what the path is now, against what
\* is signed.
LEMMA DeltaIs ==
  ASSUME NEW i \in Indexes, NEW fault \in FaultSet, NEW n, NEW o, NEW s,
         n \in PathSet \/ n = Absent(i), n.index = i, n.type = "none" => i # <<>>,
         o \in PathSet \/ o = Absent(i), SigIs(s, o)
  PROVE  \/ Delta(n, s, fault) = {} /\ NewAt(n, o, fault) = o
         \/ \E e : /\ Delta(n, s, fault) = {e} /\ e \in EntrySet
                   /\ e.path = NewAt(n, o, fault) /\ e.path.index = i
                   /\ e.difftype = "diff" => o.type = "reg" /\ e.base = s.path.data
<1>0. /\ Absent(i).type = "none" /\ Absent(i).index = i /\ Absent(i) \in {Absent(j) : j \in Indexes}
      /\ \A p \in PathSet : p.type # "none" /\ p.data \in Nat
  BY DEF Absent, Path, PathSet
<1>9. /\ s.path.type = o.type /\ s.path.data \in Nat /\ (s.difftype = "signature" <=> o.type = "reg")
      /\ Looks(n, s.path) <=> Looks(n, o)
  BY DEF SigIs, Looks
<1>1. CASE n.type = "none"
  <2>1. n = Absent(i) /\ i # <<>>
    BY <1>0, <1>1
  <2>2. Delta(n, s, fault) = IF o.type # "none" THEN {Entry("deleted", n, 0)} ELSE {}
    BY <1>0, <1>1, <1>9, <2>1 DEF Delta
  <2>3. NewAt(n, o, fault) = n
    BY <1>1 DEF NewAt
  <2>4. Entry("deleted", n, 0) \in EntrySet /\ Entry("deleted", n, 0).path = n
        /\ Entry("deleted", n, 0).difftype # "diff"
    BY <1>0, <2>1 DEF Entry, EntrySet
  <2>5. CASE o.type = "none"
    BY <1>0, <2>1, <2>2, <2>3, <2>5
  <2>6. CASE o.type # "none"
    BY <1>0, <2>1, <2>2, <2>3, <2>4, <2>6
  <2> QED BY <2>5, <2>6
<1>2. CASE n.type # "none" /\ (Looks(n, o)
             \/ (n.type = "reg" /\ fault.kind = "fails" /\ fault.index = n.index))
  <2>1. Delta(n, s, fault) = {}
    BY <1>2, <1>9 DEF Delta
  <2>2. NewAt(n, o, fault) = o
    BY <1>2 DEF NewAt
  <2> QED BY <2>1, <2>2
<1>3. CASE n.type # "none" /\ ~ (Looks(n, o)
             \/ (n.type = "reg" /\ fault.kind = "fails" /\ fault.index = n.index))
  <2> DEFINE read == [n EXCEPT !.data = DataRead(n, fault)]
             e == GetDeltaPath(n, s, fault)
  <2>1. n \in PathSet
    BY <1>0, <1>3
  <2>2. read \in PathSet /\ read.index = i /\ read.type = n.type
    BY <2>1, ReadIs
  <2>3. Delta(n, s, fault) = {e}
    BY <1>3, <1>9 DEF Delta
  <2>4. NewAt(n, o, fault) = read
    BY <1>3 DEF NewAt
  <2>5. e = IF n.type = "reg" /\ o.type = "reg" THEN Entry("diff", read, s.path.data)
            ELSE Entry("snapshot", read, 0)
    BY <1>9 DEF GetDeltaPath, IsDiff
  <2> HIDE DEF read, e
  <2>6. CASE n.type = "reg" /\ o.type = "reg"
    <3>1. e = [difftype |-> "diff", path |-> read, base |-> s.path.data]
      BY <2>5, <2>6 DEF Entry
    <3>2. s.path.data \in Nat
      BY <1>9
    <3>3. read.type = "reg"
      BY <2>2, <2>6
    <3>4. e \in EntrySet
      BY <2>2, <3>1, <3>2, <3>3 DEF EntrySet
    <3>5. e.path = read /\ e.path.index = i /\ e.base = s.path.data
      BY <2>2, <3>1
    <3> QED BY <2>3, <2>4, <2>6, <3>4, <3>5
  <2>7. CASE ~ (n.type = "reg" /\ o.type = "reg")
    <3>1. e = [difftype |-> "snapshot", path |-> read, base |-> 0]
      BY <2>5, <2>7 DEF Entry
    <3>2. read.type # "none"
      BY <1>0, <2>2
    <3>3. e \in EntrySet
      BY <2>2, <3>1, <3>2 DEF EntrySet
    <3>4. e.path = read /\ e.path.index = i /\ e.difftype # "diff"
      BY <2>2, <3>1
    <3> QED BY <2>3, <2>4, <3>3, <3>4
  <2> QED BY <2>6, <2>7
<1> QED BY <1>1, <1>2, <1>3

\* The tree that is put together from a chain with a new set on top, but for some
\* paths.
TreeWith(T, new, old, fault, S) ==
  /\ WellFormed(T)
  /\ \A i \in Indices : i \in S \/ At(T, i) = NewAt(At(new, i), At(old, i), fault)

\* A delta leads from one tree to another.
DeltaFits(D, P, Q) ==
  /\ D \in SUBSET EntrySet /\ Distinct(D)
  /\ \A e \in D : /\ e.path.index \in Indices
                  /\ At(Q, e.path.index) = Computed(P, e).path
                  /\ e.difftype = "diff" => At(P, e.path.index).type = "reg"
  /\ \A i \in Indices : ~ HasEntry(D, i) => At(Q, i) = At(P, i)

\* The paths of some that have a diff.
Strays(D, X) == {i \in X : \E e \in D : e.path.index = i /\ e.difftype = "diff"}

LEMMA NextTree ==
  ASSUME NEW R, NEW iters, WholeChain(R, iters), NEW sig, NEW X, SigsTell(sig, ChainTree(R), X),
         NEW new, WellFormed(new), At(new, <<>>).type = "dir", NEW fault \in FaultSet
  PROVE  LET D == GetDeltaIter(new, sig, fault)
             P == ChainTree(R)
         IN  /\ D \in SUBSET EntrySet
             /\ \E B : /\ WholeChain(B, Append(iters, D))
                       /\ TreeWith(ChainTree(B), new, P, fault, Strays(D, X))
                       /\ DeltaFits(D, P, ChainTree(B))
                       /\ \A e \in D : \/ e.path.index \in Strays(D, X)
                                       \/ At(ChainTree(B), e.path.index) = e.path
<1> DEFINE D == GetDeltaIter(new, sig, fault)
           P == ChainTree(R)
           C == {Computed(P, e) : e \in D}
           B == Append(R, C)
           Q == ChainTree(B)
           of(i) == Delta(At(new, i), SigAt(sig, i), fault)
           said(i) == NewAt(At(new, i), At(P, i), fault)
<1>1. Merges(R, iters) /\ Deltas(R) /\ WellFormed(P) /\ R \in Seq(SUBSET EntrySet)
  BY DEF WholeChain, Merges, Deltas
<1>2. D = UNION {of(i) : i \in Indices}
  BY DEF GetDeltaIter, SigAt
<1>3. ASSUME NEW i \in Indices
      PROVE  \/ of(i) = {} /\ said(i) = At(P, i)
             \/ \E e : /\ of(i) = {e} /\ e \in EntrySet
                       /\ e.path = said(i) /\ e.path.index = i
                       /\ e.difftype = "diff" =>
                            /\ At(P, i).type = "reg"
                            /\ i \in X \/ e.base = At(P, i).data
  <2> DEFINE n == At(new, i)
             s == SigAt(sig, i)
             o == At(P, i)
  <2>1. i \in Indexes
    BY IndicesAre
  <2>2. n \in PathSet \/ n = Absent(i)
    BY AtIs
  <2>3. n.index = i /\ (n.type = "none" => i # <<>>)
    BY AtIs
  <2>4. SigIs(s, o) /\ (i \in X \/ s.path = o)
    BY DEF SigsTell
  <2>5. o \in PathSet \/ o = Absent(i)
    BY <1>1, AtIs
  <2> HIDE DEF n, s, o
  <2>6. \/ Delta(n, s, fault) = {} /\ NewAt(n, o, fault) = o
        \/ \E e : /\ Delta(n, s, fault) = {e} /\ e \in EntrySet
                  /\ e.path = NewAt(n, o, fault) /\ e.path.index = i
                  /\ e.difftype = "diff" => o.type = "reg" /\ e.base = s.path.data
    BY <2>1, <2>2, <2>3, <2>4, <2>5, DeltaIs
  <2>7. \/ Delta(n, s, fault) = {} /\ NewAt(n, o, fault) = o
        \/ \E e : /\ Delta(n, s, fault) = {e} /\ e \in EntrySet
                  /\ e.path = NewAt(n, o, fault) /\ e.path.index = i
                  /\ e.difftype = "diff" => o.type = "reg" /\ (i \in X \/ e.base = o.data)
    BY <2>4, <2>6
  <2> QED BY <2>7 DEF n, s, o
<1> HIDE DEF of, said, D, P, C
<1>4. ASSUME NEW e \in D
      PROVE  \E i \in Indices :
               /\ of(i) = {e} /\ e \in EntrySet /\ e.path = said(i) /\ e.path.index = i
               /\ e.difftype = "diff" =>
                    /\ At(P, i).type = "reg"
                    /\ i \in X \/ e.base = At(P, i).data
  <2>1. PICK i \in Indices : e \in of(i)
    BY <1>2
  <2> QED BY <1>3, <2>1
<1>5. ASSUME NEW i \in Indices, ~ HasEntry(D, i)
      PROVE  said(i) = At(P, i)
  <2>1. SUFFICES ASSUME of(i) # {} PROVE FALSE
    BY <1>3
  <2>2. PICK e \in of(i) : e.path.index = i
    BY <1>3, <2>1
  <2> QED BY <1>2, <1>5, <2>2 DEF HasEntry
<1>6. D \in SUBSET EntrySet /\ Distinct(D)
  <2>1. ASSUME NEW d \in D, NEW e \in D, d.path.index = e.path.index PROVE d = e
    <3>1. PICK i \in Indices : of(i) = {d} /\ d.path.index = i
      BY <1>4
    <3>2. PICK j \in Indices : of(j) = {e} /\ e.path.index = j
      BY <1>4
    <3>3. of(i) = {e}
      BY <2>1, <3>1, <3>2
    <3> QED BY <3>1, <3>3
  <2> QED BY <1>4, <2>1 DEF Distinct
<1>7. \A e \in D : /\ e.path.index \in Indices
                   /\ e.difftype = "diff" => At(P, e.path.index).type = "reg"
  BY <1>4
<1>8. Merges(B, Append(iters, D)) /\ C \in SUBSET EntrySet /\ Distinct(C)
  BY <1>6, <1>7, AppendMerges DEF P, C
<1>9. \A c : c \in CombinePathIters(B) <=>
               c \in C \/ (c \in CombinePathIters(R) /\ ~ HasEntry(C, c.path.index))
  <2>1. C \in SUBSET EntrySet
    BY <1>8
  <2> HIDE DEF B
  <2> QED BY <1>1, <2>1, AppendCombines DEF B
\* An element of C and the one of D that it is computed from.
<1>10. ASSUME NEW e \in D
       PROVE  /\ e \in EntrySet /\ Computed(P, e) \in C
              /\ Computed(P, e).path.index = e.path.index
              /\ Computed(P, e).path.type = e.path.type
              /\ Computed(P, e) \in EntrySet
  BY <1>6, ComputedIs DEF C
<1>11. \A i : HasEntry(C, i) <=> HasEntry(D, i)
  <2>1. ASSUME NEW i, NEW e \in D, e.path.index = i PROVE HasEntry(C, i)
    BY <1>10, <2>1 DEF HasEntry
  <2>2. ASSUME NEW i, NEW c \in C, c.path.index = i PROVE HasEntry(D, i)
    <3>1. PICK e \in D : c = Computed(P, e)
      BY DEF C
    <3> QED BY <1>10, <2>2, <3>1 DEF HasEntry
  <2> QED BY <2>1, <2>2 DEF HasEntry
<1>12. /\ P = {e.path : e \in {d \in CombinePathIters(R) : d.path.type # "none"}}
       /\ Q = {e.path : e \in {d \in CombinePathIters(B) : d.path.type # "none"}}
  BY DEF ChainTree, Existing, P
<1> HIDE DEF Q, B
<1>13. ASSUME NEW q, q \in Q
       PROVE  /\ q.type # "none"
              /\ \/ \E e \in D : q = Computed(P, e).path
                 \/ q \in P /\ ~ HasEntry(D, q.index)
  <2>1. PICK c \in CombinePathIters(B) : q = c.path /\ q.type # "none"
    BY <1>12, <1>13
  <2>2. CASE c \in C
    BY <2>1, <2>2 DEF C
  <2>3. CASE c \in CombinePathIters(R) /\ ~ HasEntry(C, c.path.index)
    BY <1>11, <1>12, <2>1, <2>3
  <2> QED BY <1>9, <2>1, <2>2, <2>3
<1>14. ASSUME NEW e \in D, e.path.type # "none" PROVE Computed(P, e).path \in Q
  BY <1>9, <1>10, <1>12, <1>14
<1>15. ASSUME NEW p \in P, ~ HasEntry(D, p.index) PROVE p \in Q
  <2>1. PICK d \in CombinePathIters(R) : p = d.path /\ p.type # "none"
    BY <1>12
  <2> QED BY <1>9, <1>11, <1>12, <1>15, <2>1
<1>16. ASSUME NEW i \in Indices
       PROVE  /\ said(i).type # "none" => At(new, i).type # "none"
              /\ At(new, i).type = "dir" => said(i).type = "dir"
  <2> DEFINE n == At(new, i)
             o == At(P, i)
  <2>1. n.index = i /\ (n.type = "none" => n = Absent(i)) /\ (n.type # "none" => n \in PathSet)
    BY AtIs
  <2> HIDE DEF n, o
  <2>3. CASE n.type = "none"
    <3>1. NewAt(n, o, fault) = n
      BY <2>3 DEF NewAt
    <3> QED BY <2>1, <2>3, <3>1 DEF said, n, o
  <2>4. CASE n.type # "none" /\ (Looks(n, o)
               \/ (n.type = "reg" /\ fault.kind = "fails" /\ fault.index = n.index))
    <3>1. NewAt(n, o, fault) = o
      BY <2>4 DEF NewAt
    <3>2. n.type = "dir" => o.type = "dir"
      BY <2>4 DEF Looks
    <3> QED BY <2>4, <3>1, <3>2 DEF said, n, o
  <2>5. CASE n.type # "none" /\ ~ (Looks(n, o)
               \/ (n.type = "reg" /\ fault.kind = "fails" /\ fault.index = n.index))
    <3>1. NewAt(n, o, fault) = [n EXCEPT !.data = DataRead(n, fault)]
      BY <2>5 DEF NewAt
    <3>2. LET read == [n EXCEPT !.data = DataRead(n, fault)]
          IN  read \in PathSet /\ read.index = n.index /\ read.type = n.type
      BY <2>1, <2>5, ReadIs
    <3> QED BY <2>1, <2>5, <3>1, <3>2 DEF said, n, o
  <2> QED BY <2>3, <2>4, <2>5
\* The type of each path is as the run saw it.
<1>17. ASSUME NEW q \in Q
       PROVE  q \in PathSet /\ q.index \in Indices /\ q.type = said(q.index).type
  <2>1. CASE \E e \in D : q = Computed(P, e).path
    <3>1. PICK e \in D : q = Computed(P, e).path
      BY <2>1
    <3>2. q.index = e.path.index /\ q.type = e.path.type /\ Computed(P, e) \in EntrySet
      BY <1>10, <3>1
    <3>3. q.index \in Indices /\ e.path = said(q.index)
      BY <1>4, <3>2
    <3>4. q.type # "none"
      BY <1>13
    <3> QED BY <3>1, <3>2, <3>3, <3>4, EntryIs
  <2>2. CASE q \in P /\ ~ HasEntry(D, q.index)
    <3>1. q \in PathSet /\ q.index \in Indices /\ At(P, q.index) = q
      BY <1>1, <2>2, AtPath DEF WellFormed
    <3> QED BY <1>5, <2>2, <3>1
  <2> QED BY <1>13, <2>1, <2>2
<1>18. ASSUME NEW p \in Q, NEW q \in Q, p.index = q.index PROVE p = q
  <2>1. CASE HasEntry(D, p.index)
    <3>1. PICK d \in D, e \in D : p = Computed(P, d).path /\ q = Computed(P, e).path
      BY <1>13, <1>18, <2>1
    <3>2. d.path.index = e.path.index
      BY <1>10, <1>18, <3>1
    <3>3. d = e
      BY <1>6, <3>2 DEF Distinct
    <3> QED BY <3>1, <3>3
  <2>2. CASE ~ HasEntry(D, p.index)
    <3>1. ASSUME NEW r \in Q, r.index = p.index PROVE r \in P
      <4>1. ASSUME NEW e \in D, r = Computed(P, e).path PROVE FALSE
        BY <1>10, <2>2, <3>1, <4>1 DEF HasEntry
      <4> QED BY <1>13, <4>1
    <3>2. p \in P /\ q \in P
      BY <1>18, <3>1
    <3> QED BY <1>1, <1>18, <3>2 DEF WellFormed
  <2> QED BY <2>1, <2>2
<1>19. ASSUME NEW i \in Indices, said(i).type # "none"
       PROVE  \E q \in Q : q.index = i /\ q.type = said(i).type
  <2>1. CASE HasEntry(D, i)
    <3>1. PICK e \in D : e.path.index = i
      BY <2>1 DEF HasEntry
    <3>2. e.path = said(i)
      BY <1>4, <3>1
    <3> QED BY <1>10, <1>14, <1>19, <3>1, <3>2
  <2>2. CASE ~ HasEntry(D, i)
    <3>1. said(i) = At(P, i)
      BY <1>5, <2>2
    <3>2. At(P, i) \in P /\ At(P, i).index = i
      BY <1>1, <1>19, <3>1, AtIs
    <3> QED BY <1>15, <2>2, <3>1, <3>2
  <2> QED BY <2>1, <2>2
<1>20. WellFormed(Q)
  <2>1. ASSUME NEW p \in Q, p.index # <<>>
        PROVE  \E d \in Q : d.index = Front(p.index) /\ d.type = "dir"
    <3>1. p.index \in Indices /\ said(p.index).type # "none"
      BY <1>13, <1>17
    <3>2. At(new, p.index).type # "none"
      BY <1>16, <3>1
    <3>3. At(new, p.index) \in new /\ At(new, p.index).index = p.index
      BY <3>2, AtIs
    <3>4. PICK q \in new : q.index = Front(p.index) /\ q.type = "dir"
      BY <2>1, <3>3 DEF WellFormed
    <3>5. q.index \in Indices /\ At(new, q.index) = q
      BY AtPath DEF WellFormed
    <3>6. said(q.index).type = "dir"
      BY <1>16, <3>4, <3>5
    <3>7. said(q.index).type # "none"
      BY <3>6
    <3>8. \E d \in Q : d.index = q.index /\ d.type = "dir"
      BY <1>19, <3>5, <3>6, <3>7
    <3> QED BY <3>4, <3>8
  <2> QED BY <1>17, <1>18, <2>1 DEF WellFormed
<1>21. ASSUME NEW e \in D PROVE At(Q, e.path.index) = Computed(P, e).path
  <2>1. CASE e.path.type # "none"
    <3>1. Computed(P, e).path \in Q
      BY <1>14, <2>1
    <3>2. At(Q, Computed(P, e).path.index) = Computed(P, e).path
      BY <1>18, <3>1, AtPath
    <3> QED BY <1>10, <3>2
  <2>2. CASE e.path.type = "none"
    <3>1. ASSUME NEW q \in Q, q.index = e.path.index PROVE FALSE
      <4>1. HasEntry(D, q.index)
        BY <3>1 DEF HasEntry
      <4>2. PICK d \in D : q = Computed(P, d).path
        BY <1>13, <4>1
      <4>3. d.path.index = e.path.index
        BY <1>10, <3>1, <4>2
      <4>4. d = e
        BY <1>6, <4>3 DEF Distinct
      <4> QED BY <1>10, <1>13, <2>2, <4>2, <4>4
    <3>2. At(Q, e.path.index) = Absent(e.path.index)
      BY <3>1, AtNone
    <3>3. e \in EntrySet
      BY <1>10
    <3>4. e.path = Absent(e.path.index) /\ e.difftype # "diff"
      BY <2>2, <3>3, EntryIs
    <3>5. Computed(P, e) = e
      BY <3>4 DEF Computed
    <3> QED BY <3>2, <3>4, <3>5
  <2> QED BY <2>1, <2>2
<1>22. ASSUME NEW i \in Indices, ~ HasEntry(D, i) PROVE At(Q, i) = At(P, i)
  <2>1. CASE At(P, i) \in P /\ At(P, i).index = i
    <3>1. At(P, i) \in Q
      BY <1>15, <1>22, <2>1
    <3>2. At(Q, At(P, i).index) = At(P, i)
      BY <1>18, <3>1, AtPath
    <3> QED BY <2>1, <3>2
  <2>2. CASE At(P, i) = Absent(i) /\ \A p \in P : p.index # i
    <3>1. ASSUME NEW q \in Q, q.index = i PROVE FALSE
      <4>1. ASSUME NEW e \in D, q = Computed(P, e).path PROVE FALSE
        BY <1>10, <1>22, <3>1, <4>1 DEF HasEntry
      <4> QED BY <1>13, <2>2, <3>1, <4>1
    <3> QED BY <2>2, <3>1, AtNone
  <2> QED BY <1>1, <2>1, <2>2, AtIs
<1>23. ASSUME NEW e \in D, e.path.index \notin Strays(D, X)
       PROVE  At(Q, e.path.index) = e.path
  <2>1. CASE e.difftype = "diff"
    <3>1. e.path.index \notin X
      BY <1>23, <2>1 DEF Strays
    <3>2. e.base = At(P, e.path.index).data /\ e \in EntrySet
      BY <1>4, <2>1, <3>1
    <3>3. Computed(P, e) = e
      BY <2>1, <3>2, ComputedIs
    <3> QED BY <1>21, <3>3
  <2>2. CASE e.difftype # "diff"
    BY <1>21, <2>2 DEF Computed
  <2> QED BY <2>1, <2>2
<1>24. ASSUME NEW i \in Indices, i \notin Strays(D, X) PROVE At(Q, i) = said(i)
  <2>1. CASE HasEntry(D, i)
    <3>1. PICK e \in D : e.path.index = i
      BY <2>1 DEF HasEntry
    <3> QED BY <1>4, <1>23, <1>24, <3>1
  <2>2. CASE ~ HasEntry(D, i)
    BY <1>5, <1>22, <2>2
  <2> QED BY <2>1, <2>2
<1>25. TreeWith(Q, new, P, fault, Strays(D, X))
  BY <1>20, <1>24 DEF TreeWith, said
<1>26. DeltaFits(D, P, Q)
  BY <1>6, <1>7, <1>21, <1>22 DEF DeltaFits
<1>27. WholeChain(B, Append(iters, D))
  BY <1>8, <1>20 DEF WholeChain, Q
<1>28. /\ D \in SUBSET EntrySet /\ WholeChain(B, Append(iters, D))
       /\ TreeWith(ChainTree(B), new, P, fault, Strays(D, X))
       /\ DeltaFits(D, P, ChainTree(B))
       /\ \A e \in D : \/ e.path.index \in Strays(D, X)
                       \/ At(ChainTree(B), e.path.index) = e.path
  BY <1>6, <1>23, <1>25, <1>26, <1>27 DEF Q
<1> HIDE DEF B
<1> QED BY <1>28 DEF D, P

\* The signatures of the new set tell what is in the backup then.
LEMMA NextSigs ==
  ASSUME NEW sig, NEW P, NEW X, SigsTell(sig, P, X), NEW D, NEW Q, DeltaFits(D, P, Q),
         NEW fault \in FaultSet, NEW sig2,
         \A s : s \in sig2 <=>
                  \/ s \in {SigEntry(e, fault) : e \in D}
                  \/ s \in sig /\ ~ HasEntry({SigEntry(e, fault) : e \in D}, s.path.index),
         NEW Y, \A e \in D : e.path.index \in Y \/ At(Q, e.path.index) = e.path,
         NEW Z, SignedLate(D, fault) \subseteq Z, Y \subseteq Z,
         \A i \in X : HasEntry(D, i) \/ i \in Z
  PROVE  SigsTell(sig2, Q, Z)
<1> DEFINE N == {SigEntry(e, fault) : e \in D}
<1>1. D \in SUBSET EntrySet /\ Distinct(D) /\ Distinct(sig)
  BY DEF DeltaFits, SigsTell
<1>2. ASSUME NEW e \in D
      PROVE  LET s == SigEntry(e, fault)
             IN  /\ s \in N /\ s.path.index = e.path.index /\ s.path.type = e.path.type
                 /\ s.path.stamp = e.path.stamp /\ s.path.data \in Nat
                 /\ e.path.type # "reg" => s.path = e.path
                 /\ DataSigned(e.path, fault) = e.path.data => s.path = e.path
                 /\ s.difftype = "signature" <=> e.path.type = "reg"
  BY <1>1, SignedIs
<1>3. \A i : HasEntry(N, i) <=> HasEntry(D, i)
  <2>1. ASSUME NEW i, NEW e \in D, e.path.index = i PROVE HasEntry(N, i)
    BY <1>2, <2>1 DEF HasEntry
  <2>2. ASSUME NEW i, NEW s \in N, s.path.index = i PROVE HasEntry(D, i)
    <3>1. PICK e \in D : s = SigEntry(e, fault)
      OBVIOUS
    <3> QED BY <1>2, <2>2, <3>1 DEF HasEntry
  <2> QED BY <2>1, <2>2 DEF HasEntry
<1>4. ASSUME NEW r \in N, NEW s \in N, r.path.index = s.path.index PROVE r = s
  <2>1. PICK d \in D, e \in D : r = SigEntry(d, fault) /\ s = SigEntry(e, fault)
    OBVIOUS
  <2>2. d.path.index = e.path.index
    BY <1>2, <1>4, <2>1
  <2> QED BY <1>1, <2>1, <2>2 DEF Distinct
<1>5. \A s : s \in sig2 <=> s \in N \/ (s \in sig /\ ~ HasEntry(N, s.path.index))
  OBVIOUS
<1> HIDE DEF N
<1>6. Distinct(sig2)
  <2> SUFFICES ASSUME NEW r \in sig2, NEW s \in sig2, r.path.index = s.path.index PROVE r = s
    BY DEF Distinct
  <2>1. r \in N => HasEntry(N, s.path.index)
    BY DEF HasEntry
  <2>2. s \in N => HasEntry(N, r.path.index)
    BY DEF HasEntry
  <2> QED BY <1>1, <1>4, <1>5, <2>1, <2>2 DEF Distinct
<1>7. ASSUME NEW s \in sig2 PROVE SigAt(sig2, s.path.index) = s
  <2>1. \A r \in sig2 : r.path.index = s.path.index => r = s
    BY <1>6 DEF Distinct
  <2> QED BY <2>1 DEF SigAt, HasEntry, EntryAt
<1>8. ASSUME NEW e \in D
      PROVE  LET i == e.path.index
             IN  /\ SigIs(SigAt(sig2, i), At(Q, i))
                 /\ i \notin Z => SigAt(sig2, i).path = At(Q, i)
  <2> DEFINE i == e.path.index
             s == SigEntry(e, fault)
             o == At(Q, i)
  <2>1. /\ s \in sig2 /\ s.path.index = i /\ s.path.type = e.path.type
        /\ s.path.stamp = e.path.stamp /\ s.path.data \in Nat
        /\ e.path.type # "reg" => s.path = e.path
        /\ DataSigned(e.path, fault) = e.path.data => s.path = e.path
        /\ s.difftype = "signature" <=> e.path.type = "reg"
    BY <1>2, <1>5
  <2>2. SigAt(sig2, i) = s
    BY <1>7, <2>1
  <2>3. o = Computed(P, e).path /\ e \in EntrySet
    BY <1>1 DEF DeltaFits
  <2>4. /\ o.type = e.path.type /\ o.stamp = e.path.stamp
        /\ e.path.type # "reg" => o = e.path
    <3>1. e.difftype = "diff" => e.path.type = "reg"
      BY <2>3, EntryIs
    <3>2. /\ Computed(P, e).path.type = e.path.type /\ Computed(P, e).path.stamp = e.path.stamp
          /\ e.difftype # "diff" => Computed(P, e) = e
      BY <2>3, ComputedIs
    <3> HIDE DEF o
    <3> QED BY <2>3, <3>1, <3>2
  <2>5. i \notin Z => o = e.path /\ DataSigned(e.path, fault) = e.path.data
    BY DEF SignedLate
  <2> HIDE DEF i, s, o
  <2>6. SigIs(s, o)
    BY <2>1, <2>4 DEF SigIs
  <2>7. i \notin Z => s.path = o
    BY <2>1, <2>5
  <2>8. SigIs(SigAt(sig2, i), o) /\ (i \notin Z => SigAt(sig2, i).path = o)
    BY <2>2, <2>6, <2>7
  <2> QED BY <2>8 DEF i, o
<1>9. ASSUME NEW i \in Indices, ~ HasEntry(D, i)
      PROVE  /\ SigIs(SigAt(sig2, i), At(Q, i))
             /\ i \notin Z => SigAt(sig2, i).path = At(Q, i)
  <2>1. SigIs(SigAt(sig, i), At(P, i)) /\ (i \notin X => SigAt(sig, i).path = At(P, i))
    BY DEF SigsTell
  <2>2. At(Q, i) = At(P, i) /\ (i \notin Z => i \notin X)
    BY <1>9 DEF DeltaFits
  <2>3. SigAt(sig2, i) = SigAt(sig, i)
    <3>1. CASE HasEntry(sig, i)
      <4>1. PICK s \in sig : s.path.index = i
        BY <3>1 DEF HasEntry
      <4>2. SigAt(sig, i) = s
        <5>1. \A r \in sig : r.path.index = i => r = s
          BY <1>1, <4>1 DEF Distinct
        <5> QED BY <4>1, <5>1 DEF SigAt, HasEntry, EntryAt
      <4>3. s \in sig2
        BY <1>3, <1>5, <1>9, <4>1
      <4> QED BY <1>7, <4>1, <4>2, <4>3
    <3>2. CASE ~ HasEntry(sig, i)
      <4>1. ~ HasEntry(sig2, i)
        <5> SUFFICES ASSUME NEW s \in sig2, s.path.index = i PROVE FALSE
          BY DEF HasEntry
        <5>1. s \in N => HasEntry(N, i)
          BY DEF HasEntry
        <5> QED BY <1>3, <1>5, <1>9, <3>2, <5>1 DEF HasEntry
      <4> QED BY <3>2, <4>1 DEF SigAt
    <3> QED BY <3>1, <3>2
  <2> QED BY <2>1, <2>2, <2>3
<1>10. ASSUME NEW i \in Indices
       PROVE  /\ SigIs(SigAt(sig2, i), At(Q, i))
              /\ i \notin Z => SigAt(sig2, i).path = At(Q, i)
  <2>1. CASE HasEntry(D, i)
    <3>1. PICK e \in D : e.path.index = i
      BY <2>1 DEF HasEntry
    <3> QED BY <1>8, <3>1
  <2>2. CASE ~ HasEntry(D, i)
    BY <1>9, <2>2
  <2> QED BY <2>1, <2>2
<1> QED BY <1>6, <1>10 DEF SigsTell

-----------------------------------------------------------------------------
(* Patching a tree in place. *)

\* A path, without the stamp of a directory.
Bare(p) == IF p.type = "dir" THEN Dir(p.index, 0) ELSE p

Alike(p, q) == Bare(p) = Bare(q)

\* Trees that differ at most in the stamps of their directories.
AlikeTrees(T, U) == \A i \in Indices : Alike(At(T, i), At(U, i))

LEMMA AlikeIs ==
  ASSUME NEW p, NEW q, Alike(p, q)
  PROVE  /\ p.index = q.index /\ (p.type = "dir" <=> q.type = "dir")
         /\ p.type # "dir" => p = q
<1>1. \A i : Dir(i, 0).index = i /\ Dir(i, 0).type = "dir"
  BY DEF Dir, Path
<1>2. CASE p.type = "dir" /\ q.type = "dir"
  BY <1>1, <1>2 DEF Alike, Bare
<1>3. CASE p.type = "dir" /\ q.type # "dir"
  BY <1>1, <1>3 DEF Alike, Bare
<1>4. CASE p.type # "dir"
  <2>1. Bare(p) = p
    BY <1>4 DEF Bare
  <2>2. q.type # "dir"
    BY <1>1, <1>4, <2>1 DEF Alike, Bare
  <2> QED BY <1>4, <2>1, <2>2 DEF Alike, Bare
<1> QED BY <1>2, <1>3, <1>4

LEMMA AlikeDirs ==
  ASSUME NEW p, NEW q, p.type = "dir", q.type = "dir", p.index = q.index
  PROVE  Alike(p, q)
BY DEF Alike, Bare

LEMMA AlikeNoStamp ==
  ASSUME NEW T, NEW U, WellFormed(T), WellFormed(U), AlikeTrees(T, U)
  PROVE  NoStamp(T) = NoStamp(U)
<1>1. NoStamp(T) = {Bare(p) : p \in T} /\ NoStamp(U) = {Bare(p) : p \in U}
  BY DEF NoStamp, Bare
<1>2. ASSUME NEW V, NEW W, WellFormed(V), WellFormed(W), AlikeTrees(V, W), NEW p \in V
      PROVE  Bare(p) \in {Bare(q) : q \in W}
  <2>1. p.index \in Indices /\ At(V, p.index) = p /\ p.type # "none"
    BY <1>2, AtPath DEF WellFormed, PathSet
  <2>2. Alike(p, At(W, p.index))
    BY <1>2, <2>1 DEF AlikeTrees
  <2>3. At(W, p.index) \in W
    <3>1. At(W, p.index).type # "none"
      BY <2>1, <2>2, AlikeIs
    <3> QED BY <1>2, <3>1, AtIs
  <2> QED BY <2>2, <2>3 DEF Alike
<1>3. AlikeTrees(U, T)
  BY DEF AlikeTrees, Alike
<1>4. \A p \in T : Bare(p) \in {Bare(q) : q \in U}
  BY <1>2
<1>5. \A p \in U : Bare(p) \in {Bare(q) : q \in T}
  BY <1>2, <1>3
<1> QED BY <1>1, <1>4, <1>5

\* Nothing is below what is not a directory.
LEMMA NoneBelow ==
  ASSUME NEW T, WellFormed(T), NEW i \in Indices, At(T, i).type # "dir",
         NEW p \in T, IsPrefix(i, p.index)
  PROVE  p.index = i
<1> SUFFICES ASSUME p.index # i PROVE FALSE
  OBVIOUS
<1> DEFINE B == {q \in T : IsPrefix(i, q.index) /\ q.index # i}
           L == {Len(q.index) : q \in B}
<1>1. i \in Indexes /\ \A q \in T : q.index \in Indexes
  BY IndicesAre DEF WellFormed
<1>2. L \in SUBSET Nat /\ Len(p.index) \in L
  BY <1>1, Places
<1>3. PICK m \in L : \A l \in L : m <= l
  <2> HIDE DEF L
  <2> QED BY <1>2, HasLeast
<1>4. PICK q \in B : m = Len(q.index)
  OBVIOUS
<1>5. q.index # <<>> /\ IsPrefix(i, Front(q.index))
  BY <1>1, PrefixOfFront
<1>6. PICK d \in T : d.index = Front(q.index) /\ d.type = "dir"
  BY <1>5 DEF WellFormed
<1>7. d.index # i
  BY <1>6, AtPath DEF WellFormed
<1>8. d \in B
  BY <1>5, <1>6, <1>7
<1>9. Len(d.index) = Len(q.index) - 1 /\ Len(q.index) \in Nat
  BY <1>1, <1>5, <1>6, FrontOf, Places
<1>10. ~ (Len(q.index) <= Len(d.index)) /\ Len(d.index) \in L
  BY <1>8, <1>9
<1> HIDE DEF L, B
<1> QED BY <1>3, <1>4, <1>10

\* Writing the attributes of directories changes nothing else.
LEMMA Restamped ==
  ASSUME NEW T, WellFormed(T), NEW g,
         \A p \in T : g[p] \in PathSet /\ Alike(g[p], p)
  PROVE  /\ WellFormed({g[p] : p \in T})
         /\ \A i : Alike(At({g[p] : p \in T}, i), At(T, i))
<1> DEFINE U == {g[p] : p \in T}
<1>1. \A p \in T : g[p] \in PathSet /\ g[p].index = p.index /\ (p.type = "dir" <=> g[p].type = "dir")
  BY AlikeIs
<1>2. WellFormed(U)
  <2>1. \A q \in U : q \in PathSet /\ q.index \in Indices
    BY <1>1 DEF WellFormed
  <2>2. \A a, b \in U : a.index = b.index => a = b
    BY <1>1 DEF WellFormed
  <2>3. ASSUME NEW q \in U, q.index # <<>>
        PROVE  \E d \in U : d.index = Front(q.index) /\ d.type = "dir"
    <3>1. PICK p \in T : q = g[p]
      OBVIOUS
    <3>2. PICK d \in T : d.index = Front(p.index) /\ d.type = "dir"
      BY <1>1, <2>3, <3>1 DEF WellFormed
    <3> QED BY <1>1, <3>1, <3>2
  <2> HIDE DEF U
  <2> QED BY <2>1, <2>2, <2>3 DEF WellFormed
<1>3. ASSUME NEW i PROVE Alike(At(U, i), At(T, i))
  <2>1. CASE At(T, i) \in T /\ At(T, i).index = i
    <3>1. g[At(T, i)] \in U /\ g[At(T, i)].index = i
      BY <1>1, <2>1
    <3>2. At(U, i) = g[At(T, i)]
      <4> HIDE DEF U
      <4> QED BY <1>2, <3>1, AtPath DEF WellFormed
    <3> QED BY <2>1, <3>2
  <2>2. CASE At(T, i) = Absent(i) /\ \A p \in T : p.index # i
    <3>1. \A q \in U : q.index # i
      BY <1>1, <2>2
    <3>2. At(U, i) = Absent(i)
      <4> HIDE DEF U
      <4> QED BY <3>1, AtNone
    <3> QED BY <2>2, <3>2 DEF Alike
  <2> QED BY <2>1, <2>2, AtIs
<1> QED BY <1>2, <1>3

LEMMA Touches ==
  ASSUME NEW T, WellFormed(T), NEW i,
         \A p \in T : IsParent(p.index, i) => p.type = "dir"
  PROVE  WellFormed(Touch(T, i)) /\ \A j : Alike(At(Touch(T, i), j), At(T, j))
<1> DEFINE g == [p \in T |-> IF IsParent(p.index, i) THEN [p EXCEPT !.stamp = Touched] ELSE p]
<1>1. Touch(T, i) = {g[p] : p \in T}
  BY DEF Touch
<1>2. ASSUME NEW p \in T PROVE g[p] \in PathSet /\ Alike(g[p], p)
  <2>1. p \in PathSet
    BY DEF WellFormed
  <2>2. CASE IsParent(p.index, i)
    <3>1. p = Dir(p.index, p.stamp) /\ p.index \in Indexes
      BY <2>1, <2>2, PathIs
    <3>2. g[p] = Dir(p.index, Touched)
      BY <2>2, <3>1 DEF Dir, Path
    <3>3. Touched \in Nat
      BY IndicesAssumption DEF Touched
    <3>4. Dir(p.index, Touched) \in PathSet
      BY <3>1, <3>3 DEF Dir, Path, PathSet
    <3>5. Alike(Dir(p.index, Touched), p)
      BY <2>2 DEF Alike, Bare, Dir, Path
    <3> QED BY <3>2, <3>4, <3>5
  <2>3. CASE ~ IsParent(p.index, i)
    <3>1. g[p] = p
      BY <2>3
    <3> HIDE DEF g
    <3> QED BY <2>1, <3>1 DEF Alike
  <2> QED BY <2>2, <2>3
<1> HIDE DEF g
<1>3. /\ WellFormed({g[p] : p \in T})
      /\ \A j : Alike(At({g[p] : p \in T}, j), At(T, j))
  BY <1>2, Restamped
<1> QED BY <1>1, <1>3

\* The tree without what is at an index and below it.
LEMMA Pruned ==
  ASSUME NEW T, WellFormed(T), NEW i \in Indexes
  PROVE  LET U == {p \in T : ~ IsPrefix(i, p.index)}
         IN  /\ WellFormed(U)
             /\ \A j : At(U, j) = IF IsPrefix(i, j) THEN Absent(j) ELSE At(T, j)
<1> DEFINE U == {p \in T : ~ IsPrefix(i, p.index)}
<1>1. WellFormed(U)
  <2>1. ASSUME NEW p \in U, p.index # <<>>
        PROVE  \E d \in U : d.index = Front(p.index) /\ d.type = "dir"
    <3>1. PICK d \in T : d.index = Front(p.index) /\ d.type = "dir"
      BY <2>1 DEF WellFormed
    <3>2. p.index \in Indexes /\ Front(p.index) \in Indexes /\ IsPrefix(Front(p.index), p.index)
      <4>1. p.index \in Indexes
        BY IndicesAre DEF WellFormed
      <4> QED BY <2>1, <4>1, FrontOf, FrontIsPrefix
    <3>3. ~ IsPrefix(i, Front(p.index))
      BY <3>2, PrefixTransitive
    <3> QED BY <3>1, <3>3
  <2> QED BY <2>1 DEF WellFormed
<1>2. ASSUME NEW j PROVE At(U, j) = IF IsPrefix(i, j) THEN Absent(j) ELSE At(T, j)
  <2>1. CASE IsPrefix(i, j)
    <3>1. \A p \in U : p.index # j
      BY <2>1
    <3> HIDE DEF U
    <3> QED BY <2>1, <3>1, AtNone
  <2>2. CASE ~ IsPrefix(i, j) /\ At(T, j) \in T /\ At(T, j).index = j
    <3>1. At(T, j) \in U
      BY <2>2
    <3> HIDE DEF U
    <3>2. At(U, At(T, j).index) = At(T, j)
      BY <1>1, <3>1, AtPath DEF WellFormed
    <3> QED BY <2>2, <3>2
  <2>3. CASE ~ IsPrefix(i, j) /\ At(T, j) = Absent(j) /\ \A p \in T : p.index # j
    <3>1. \A p \in U : p.index # j
      BY <2>3
    <3> HIDE DEF U
    <3> QED BY <2>3, <3>1, AtNone
  <2> QED BY <2>1, <2>2, <2>3, AtIs
<1> QED BY <1>1, <1>2

\* Removing what is at an index.
LEMMA Deletes ==
  ASSUME NEW T, WellFormed(T), NEW i \in Indexes,
         \A p \in T : IsParent(p.index, i) => p.type = "dir"
  PROVE  /\ WellFormed(DelTree(T, i))
         /\ \A j : IF IsPrefix(i, j) THEN At(DelTree(T, i), j) = Absent(j)
                   ELSE Alike(At(DelTree(T, i), j), At(T, j))
<1> DEFINE U == {p \in T : ~ IsPrefix(i, p.index)}
<1>1. WellFormed(U) /\ \A j : At(U, j) = IF IsPrefix(i, j) THEN Absent(j) ELSE At(T, j)
  BY Pruned
<1>2. \A p \in U : IsParent(p.index, i) => p.type = "dir"
  OBVIOUS
<1>3. DelTree(T, i) = Touch(U, i)
  BY DEF DelTree
<1> HIDE DEF U
<1>4. WellFormed(Touch(U, i)) /\ \A j : Alike(At(Touch(U, i), j), At(U, j))
  BY <1>1, <1>2, Touches
<1>5. \A j : Absent(j).type # "dir"
  BY DEF Absent, Path
<1>6. ASSUME NEW j, IsPrefix(i, j) PROVE At(Touch(U, i), j) = Absent(j)
  <2>1. Alike(At(Touch(U, i), j), Absent(j))
    BY <1>1, <1>4, <1>6
  <2> QED BY <1>5, <2>1, AlikeIs
<1>7. ASSUME NEW j, ~ IsPrefix(i, j) PROVE Alike(At(Touch(U, i), j), At(T, j))
  BY <1>1, <1>4, <1>7
<1> QED BY <1>3, <1>4, <1>6, <1>7

\* Writing a path where nothing is below it.
LEMMA Puts ==
  ASSUME NEW T, WellFormed(T), NEW p \in PathSet, p.index \in Indices,
         \A q \in T : IsPrefix(p.index, q.index) => q.index = p.index,
         p.index # <<>> => \E d \in T : d.index = Front(p.index) /\ d.type = "dir"
  PROVE  /\ WellFormed(Put(T, p)) /\ At(Put(T, p), p.index) = p
         /\ \A j : j # p.index => Alike(At(Put(T, p), j), At(T, j))
<1> DEFINE i == p.index
           U == {q \in T : ~ IsPrefix(i, q.index)}
           V == Touch(U, i)
<1>1. i \in Indexes /\ IsPrefix(i, i)
  BY IndicesAre, PrefixByPlace, Places DEF Begins
<1>2. Put(T, p) = V \cup {p}
  <2>1. {q \in T : q.index # i} = U
    BY <1>1
  <2> QED BY <2>1 DEF Put
<1>3. WellFormed(U) /\ \A j : At(U, j) = IF IsPrefix(i, j) THEN Absent(j) ELSE At(T, j)
  BY <1>1, Pruned
<1>4. \A q \in U : IsParent(q.index, i) => q.type = "dir"
  BY DEF WellFormed, IsParent
<1>5. i # <<>> => \E d \in U : d.index = Front(i) /\ d.type = "dir"
  BY <1>1, FrontNotBelow
<1> HIDE DEF U
<1>6. WellFormed(V) /\ \A j : Alike(At(V, j), At(U, j))
  BY <1>3, <1>4, Touches
<1>7. ASSUME NEW j, IsPrefix(i, j) PROVE \A q \in V : q.index # j
  <2>1. At(U, j) = Absent(j) /\ Absent(j).type = "none"
    BY <1>3, <1>7 DEF Absent, Path
  <2>2. At(V, j).type = "none"
    BY <1>6, <2>1, AlikeIs
  <2> QED BY <1>6, <2>2, AtIs
<1>8. i # <<>> => \E d \in V : d.index = Front(i) /\ d.type = "dir"
  <2> SUFFICES ASSUME i # <<>> PROVE \E d \in V : d.index = Front(i) /\ d.type = "dir"
    OBVIOUS
  <2>1. PICK d \in U : d.index = Front(i) /\ d.type = "dir"
    BY <1>5
  <2>2. At(U, Front(i)) = d
    BY <1>3, <2>1, AtPath DEF WellFormed
  <2>3. At(V, Front(i)).type = "dir"
    BY <1>6, <2>1, <2>2, AlikeIs
  <2> QED BY <1>6, <2>3, AtIs
<1> HIDE DEF V
<1> DEFINE W == V \cup {p}
<1>9. \A a, b \in W : a.index = b.index => a = b
  BY <1>1, <1>6, <1>7 DEF WellFormed
<1>10. WellFormed(W)
  <2>1. \A a \in W : a \in PathSet /\ a.index \in Indices
    BY <1>6 DEF WellFormed
  <2>2. \A a \in W : a.index # <<>> => \E d \in W : d.index = Front(a.index) /\ d.type = "dir"
    BY <1>6, <1>8 DEF WellFormed
  <2> HIDE DEF W
  <2> QED BY <1>9, <2>1, <2>2 DEF WellFormed
<1>11. At(W, i) = p
  BY <1>9, AtPath
<1>12. ASSUME NEW j, j # i PROVE Alike(At(W, j), At(T, j))
  <2>1. At(W, j) = At(V, j)
    <3>1. CASE At(V, j) \in V /\ At(V, j).index = j
      <4>1. At(V, j) \in W
        BY <3>1
      <4> HIDE DEF W
      <4>2. At(W, At(V, j).index) = At(V, j)
        BY <1>9, <4>1, AtPath
      <4> QED BY <3>1, <4>2
    <3>2. CASE At(V, j) = Absent(j) /\ \A a \in V : a.index # j
      <4>1. \A a \in W : a.index # j
        BY <1>12, <3>2
      <4> HIDE DEF W
      <4> QED BY <3>2, <4>1, AtNone
    <3> QED BY <1>6, <3>1, <3>2, AtIs
  <2>2. At(U, j) = At(T, j)
    <3>1. CASE ~ IsPrefix(i, j)
      BY <1>3, <3>1
    <3>2. CASE IsPrefix(i, j)
      <4>1. \A q \in T : q.index # j
        BY <1>12, <3>2
      <4> QED BY <1>3, <3>2, <4>1, AtNone
    <3> QED BY <3>1, <3>2
  <2> QED BY <1>6, <2>1, <2>2
<1> HIDE DEF W
<1> QED BY <1>2, <1>10, <1>11, <1>12 DEF W

\* What a tree that is being patched has at an index: what is left to read is as
\* it was, or already gone if it will be deleted; the rest is as it shall be.
GoodAt(T, i, left, P, Q) ==
  IF HasEntry(left, i)
    THEN Alike(At(T, i), At(P, i)) \/ (At(Q, i).type = "none" /\ At(T, i).type = "none")
    ELSE Alike(At(T, i), At(Q, i))

PatchedSoFar(T, left, P, Q) == WellFormed(T) /\ \A i \in Indices : GoodAt(T, i, left, P, Q)

OpenDirs(open, done) == \A d \in open : \E e \in done : d = e.path /\ d.type = "dir"

LEMMA GoodAlike ==
  ASSUME NEW T, NEW U, NEW i, NEW left, NEW P, NEW Q,
         GoodAt(T, i, left, P, Q), Alike(At(U, i), At(T, i))
  PROVE  GoodAt(U, i, left, P, Q)
<1>1. At(T, i).type = "none" => At(U, i).type = "none"
  BY AlikeIs
<1>2. \A p : Alike(At(T, i), p) => Alike(At(U, i), p)
  BY DEF Alike
<1> QED BY <1>1, <1>2 DEF GoodAt

\* Leaving directories only writes their attributes.
LEMMA FinishPatched ==
  ASSUME NEW D, NEW P, NEW Q, DeltaFits(D, P, Q), WellFormed(Q), NEW left \in SUBSET D,
         NEW st, PatchedSoFar(st.tree, left, P, Q), OpenDirs(st.open, D \ left),
         NEW L \in SUBSET st.open
  PROVE  PatchedSoFar(FinishBranches(st, L).tree, left, P, Q)
<1> DEFINE T == st.tree
           g == [p \in T |-> IF \E d \in L : d.index = p.index
                              THEN [p EXCEPT !.stamp = At(L, p.index).stamp] ELSE p]
<1>1. FinishBranches(st, L).tree = {g[p] : p \in T}
  <2> DEFINE F(p) == IF \E d \in L : d.index = p.index
                       THEN [p EXCEPT !.stamp = At(L, p.index).stamp] ELSE p
  <2>1. FinishBranches(st, L).tree = {F(p) : p \in T}
    BY DEF FinishBranches
  <2>2. \A p \in T : g[p] = F(p)
    OBVIOUS
  <2> HIDE DEF g, F
  <2> QED BY <2>1, <2>2
<1>2. WellFormed(T) /\ \A i \in Indices : GoodAt(T, i, left, P, Q)
  BY DEF PatchedSoFar
<1>3. ASSUME NEW d \in L
      PROVE  /\ d.index \in Indices /\ d.stamp \in Nat
             /\ \A p \in T : p.index = d.index => p.type = "dir"
  <2>1. PICK e \in D \ left : d = e.path /\ d.type = "dir"
    BY DEF OpenDirs
  <2>2. d.index \in Indices /\ d = At(Q, d.index)
    <3>1. e \in EntrySet /\ At(Q, d.index) = Computed(P, e).path /\ d.index \in Indices
      BY <2>1 DEF DeltaFits
    <3>2. e.difftype # "diff"
      BY <2>1, <3>1, EntryIs
    <3> QED BY <2>1, <3>1, <3>2 DEF Computed
  <2>3. d \in PathSet
    BY <2>1, <2>2, AtIs DEF Absent, Path
  <2>4. ~ HasEntry(left, d.index)
    BY <2>1 DEF HasEntry, DeltaFits, Distinct
  <2>5. Alike(At(T, d.index), d)
    BY <1>2, <2>2, <2>4 DEF GoodAt
  <2>6. At(T, d.index).type = "dir"
    BY <2>1, <2>5, AlikeIs
  <2>7. \A p \in T : p.index = d.index => p = At(T, d.index)
    BY <1>2, AtPath DEF WellFormed
  <2> QED BY <2>2, <2>3, <2>6, <2>7, PathIs
<1>4. ASSUME NEW p \in T PROVE g[p] \in PathSet /\ Alike(g[p], p)
  <2>1. p \in PathSet
    BY <1>2 DEF WellFormed
  <2>2. CASE \E d \in L : d.index = p.index
    <3>1. p.type = "dir" /\ p = Dir(p.index, p.stamp) /\ p.index \in Indexes
      BY <1>3, <2>1, <2>2, PathIs
    <3> DEFINE s == At(L, p.index).stamp
    <3>2. s \in Nat
      <4>1. At(L, p.index) \in L
        BY <2>2 DEF At
      <4> QED BY <1>3, <4>1
    <3>3. g[p] = [p EXCEPT !.stamp = s]
      BY <2>2
    <3> HIDE DEF s, g
    <3>4. g[p] = Dir(p.index, s)
      BY <3>1, <3>3 DEF Dir, Path
    <3>5. Dir(p.index, s) \in PathSet /\ Alike(Dir(p.index, s), p)
      BY <3>1, <3>2 DEF Dir, Path, PathSet, Alike, Bare
    <3> QED BY <3>4, <3>5
  <2>3. CASE ~ \E d \in L : d.index = p.index
    <3>1. g[p] = p
      BY <2>3
    <3> HIDE DEF g
    <3> QED BY <2>1, <3>1 DEF Alike
  <2> QED BY <2>2, <2>3
<1> HIDE DEF g
<1> DEFINE U == {g[p] : p \in T}
<1>5. WellFormed(U) /\ \A i : Alike(At(U, i), At(T, i))
  BY <1>2, <1>4, Restamped
<1> HIDE DEF U
<1>6. PatchedSoFar(U, left, P, Q)
  BY <1>2, <1>5, GoodAlike DEF PatchedSoFar
<1> QED BY <1>1, <1>6 DEF U

LEMMA PatchStep ==
  ASSUME NEW D, NEW P, NEW Q, DeltaFits(D, P, Q), WellFormed(P), WellFormed(Q),
         NEW left \in SUBSET D, NEW e, FirstIs(left, e),
         NEW st, PatchedSoFar(st.tree, left, P, Q), OpenDirs(st.open, D \ left)
  PROVE  /\ PatchedSoFar(PatchPath(st, e).tree, left \ {e}, P, Q)
         /\ OpenDirs(PatchPath(st, e).open, D \ (left \ {e}))
<1> DEFINE T == st.tree
           i == e.path.index
           left2 == left \ {e}
           basis == At(T, i)
           clear == DelTree(T, i)
           st2 == PatchPath(st, e)
<1>1. /\ e \in left /\ e \in D /\ e \in EntrySet /\ i \in Indices /\ i \in Indexes
      /\ \A d \in left2 : Earlier(i, d.path.index) /\ d.path.index # i /\ d.path.index \in Indexes
  <2>1. e \in left /\ e \in D /\ e \in EntrySet /\ i \in Indices
    BY DEF FirstIs, DeltaFits
  <2>2. \A d \in left2 : Earlier(i, d.path.index)
    BY DEF FirstIs
  <2>3. \A d \in left2 : d.path.index # i /\ d.path.index \in Indices
    BY <2>1 DEF DeltaFits, Distinct
  <2> QED BY <2>1, <2>2, <2>3, IndicesAre
<1>2. WellFormed(T) /\ \A j \in Indices : GoodAt(T, j, left, P, Q)
  BY DEF PatchedSoFar
<1>3. /\ e.difftype \in {"diff", "snapshot", "deleted"}
      /\ e.difftype = "deleted" <=> e.path.type = "none"
      /\ e.difftype = "diff" => e.path.type = "reg"
      /\ e.path.type # "none" => e.path \in PathSet
      /\ e.path.type = "none" => e.path = Absent(i)
  BY <1>1, EntryIs
\* What the path shall be.
<1>19. /\ At(Q, i).type = e.path.type /\ At(Q, i).index = i
       /\ e.difftype # "diff" => At(Q, i) = e.path
       /\ e.difftype = "diff" => /\ At(Q, i) = [e.path EXCEPT !.data = Patched(At(P, i).data, e)]
                                /\ At(P, i).type = "reg"
  <2>1. /\ At(Q, i) = Computed(P, e).path
        /\ e.difftype = "diff" => At(P, i).type = "reg"
    BY <1>1 DEF DeltaFits
  <2>2. /\ Computed(P, e).path.type = e.path.type
        /\ e.difftype # "diff" => Computed(P, e) = e
        /\ e.difftype = "diff" => Computed(P, e).path = [e.path EXCEPT !.data = Patched(At(P, i).data, e)]
    BY <1>1, ComputedIs
  <2>3. At(Q, i).index = i
    BY AtIs
  <2> QED BY <2>1, <2>2, <2>3
<1>4. HasEntry(left, i) /\ ~ HasEntry(left2, i)
      /\ \A j : j # i => (HasEntry(left2, j) <=> HasEntry(left, j))
  BY <1>1 DEF HasEntry
<1>5. Alike(basis, At(P, i)) \/ (e.path.type = "none" /\ basis.type = "none")
  BY <1>1, <1>2, <1>4, <1>19 DEF GoodAt
<1>6. \A j \in Indices : j # i => GoodAt(T, j, left2, P, Q)
  BY <1>2, <1>4 DEF GoodAt
<1>7. e.path.type # "none" /\ i # <<>> => \E d \in T : d.index = Front(i) /\ d.type = "dir"
  <2> SUFFICES ASSUME e.path.type # "none", i # <<>>
               PROVE  \E d \in T : d.index = Front(i) /\ d.type = "dir"
    OBVIOUS
  <2>1. At(Q, i) \in Q /\ At(Q, i).index = i
    BY <1>19, AtIs
  <2>2. PICK q \in Q : q.index = Front(i) /\ q.type = "dir"
    BY <2>1 DEF WellFormed
  <2>3. Front(i) \in Indices /\ At(Q, Front(i)) = q /\ Front(i) \in Indexes
    BY <2>2, AtPath, IndicesAre DEF WellFormed
  <2>4. Earlier(Front(i), i) /\ Front(i) # i
    BY <1>1, <2>3, FrontIsPrefix, FrontNotBelow, PrefixIsEarlier
  <2>5. ~ HasEntry(left, Front(i))
    <3>1. ASSUME NEW d \in left2, d.path.index = Front(i) PROVE FALSE
      BY <1>1, <2>3, <2>4, <3>1, EarlierAsymmetric
    <3>2. ~ HasEntry(left2, Front(i))
      BY <3>1 DEF HasEntry
    <3> QED BY <1>4, <2>4, <3>2
  <2>6. Alike(At(T, Front(i)), q)
    BY <1>2, <2>3, <2>5 DEF GoodAt
  <2>7. At(T, Front(i)).type = "dir"
    BY <2>2, <2>6, AlikeIs
  <2> QED BY <1>2, <2>7, AtIs
<1>8. IsPrefix(i, i)
  BY <1>1, PrefixByPlace, Places DEF Begins
\* Nothing shall be below a path that is not a directory.
<1>9. ASSUME e.path.type # "dir", NEW j \in Indices, IsPrefix(i, j), j # i
      PROVE  At(Q, j) = Absent(j) /\ At(Q, j).type = "none"
  <2>1. ASSUME NEW q \in Q, q.index = j PROVE FALSE
    BY <1>1, <1>9, <1>19, <2>1, NoneBelow
  <2> QED BY <2>1, AtNone DEF Absent, Path
\* The tree without what is at the index and below it.
<1>10. ASSUME e.path.type # "dir" \/ basis.type # "dir",
              (\E d \in T : d.index = Front(i) /\ d.type = "dir") \/ i = <<>>
       PROVE  /\ WellFormed(clear) /\ At(clear, i) = Absent(i)
              /\ \A q \in clear : ~ IsPrefix(i, q.index)
              /\ i # <<>> => \E d \in clear : d.index = Front(i) /\ d.type = "dir"
              /\ \A j \in Indices : j # i => GoodAt(clear, j, left2, P, Q)
  <2>1. \A p \in T : IsParent(p.index, i) => p.type = "dir"
    BY <1>2, <1>10 DEF WellFormed, IsParent
  <2>2. /\ WellFormed(clear)
        /\ \A j : IF IsPrefix(i, j) THEN At(clear, j) = Absent(j) ELSE Alike(At(clear, j), At(T, j))
    BY <1>1, <1>2, <2>1, Deletes
  <2>3. \A q \in clear : ~ IsPrefix(i, q.index)
    <3> SUFFICES ASSUME NEW q \in clear, IsPrefix(i, q.index) PROVE FALSE
      OBVIOUS
    <3> HIDE DEF clear
    <3>1. At(clear, q.index) = q /\ q \in PathSet
      BY <2>2, AtPath DEF WellFormed
    <3> QED BY <2>2, <3>1 DEF PathSet, Absent, Path
  <2>4. i # <<>> => \E d \in clear : d.index = Front(i) /\ d.type = "dir"
    <3> SUFFICES ASSUME i # <<>> PROVE \E d \in clear : d.index = Front(i) /\ d.type = "dir"
      OBVIOUS
    <3> HIDE DEF clear
    <3>1. PICK d \in T : d.index = Front(i) /\ d.type = "dir"
      BY <1>10
    <3>2. At(T, Front(i)) = d
      BY <1>2, <3>1, AtPath DEF WellFormed
    <3>3. ~ IsPrefix(i, Front(i))
      BY <1>1, FrontNotBelow
    <3>4. At(clear, Front(i)).type = "dir"
      BY <2>2, <3>1, <3>2, <3>3, AlikeIs
    <3> QED BY <2>2, <3>4, AtIs
  <2>5. ASSUME NEW j \in Indices, j # i PROVE GoodAt(clear, j, left2, P, Q)
    <3> HIDE DEF clear, left2
    <3>1. CASE ~ IsPrefix(i, j)
      BY <1>6, <2>2, <2>5, <3>1, GoodAlike
    <3>2. CASE IsPrefix(i, j) /\ e.path.type # "dir"
      <4>1. At(clear, j) = Absent(j) /\ At(Q, j) = Absent(j) /\ At(Q, j).type = "none"
        BY <1>9, <2>2, <2>5, <3>2
      <4> QED BY <4>1 DEF GoodAt, Alike
    <3>3. CASE IsPrefix(i, j) /\ basis.type # "dir"
      <4>1. ASSUME NEW q \in T, q.index = j PROVE FALSE
        BY <1>1, <1>2, <2>5, <3>3, <4>1, NoneBelow
      <4>2. At(T, j) = Absent(j) /\ At(clear, j) = Absent(j)
        BY <2>2, <3>3, <4>1, AtNone
      <4>3. Alike(At(clear, j), At(T, j))
        BY <4>2 DEF Alike
      <4> QED BY <1>6, <2>5, <4>3, GoodAlike
    <3> QED BY <1>10, <3>1, <3>2, <3>3
  <2> QED BY <1>8, <2>2, <2>3, <2>4, <2>5
\* A path is written.
<1>11. ASSUME NEW C, WellFormed(C), NEW q \in PathSet, q.index = i, Alike(q, At(Q, i)),
              \A c \in C : IsPrefix(i, c.index) => c.index = i,
              i # <<>> => \E d \in C : d.index = Front(i) /\ d.type = "dir",
              \A j \in Indices : j # i => GoodAt(C, j, left2, P, Q)
       PROVE  PatchedSoFar(Put(C, q), left2, P, Q)
  <2>1. /\ WellFormed(Put(C, q)) /\ At(Put(C, q), i) = q
        /\ \A j : j # i => Alike(At(Put(C, q), j), At(C, j))
    BY <1>1, <1>11, Puts
  <2>2. GoodAt(Put(C, q), i, left2, P, Q)
    BY <1>4, <1>11, <2>1 DEF GoodAt
  <2>3. \A j \in Indices : j # i => GoodAt(Put(C, q), j, left2, P, Q)
    BY <1>11, <2>1, GoodAlike
  <2> QED BY <2>1, <2>2, <2>3 DEF PatchedSoFar
<1>12. OpenDirs(st.open, D \ left2) /\ (e.path.type = "dir" => OpenDirs(st.open \cup {e.path}, D \ left2))
  BY <1>1 DEF OpenDirs
<1> HIDE DEF basis, clear, left2
<1>13. CASE e.path.type = "dir" /\ basis.type = "dir"
  <2>1. st2 = [st EXCEPT !.open = @ \cup {e.path}]
    BY <1>3, <1>13 DEF PatchPath, basis
  <2>2. Alike(basis, At(Q, i))
    <3>1. basis.index = i /\ e.path.index = i
      BY <1>2, AtIs DEF basis
    <3>2. e.difftype # "diff"
      BY <1>3, <1>13
    <3> QED BY <1>13, <1>19, <3>1, <3>2, AlikeDirs
  <2>3. GoodAt(T, i, left2, P, Q)
    BY <1>4, <2>2 DEF GoodAt, basis
  <2>4. PatchedSoFar(T, left2, P, Q)
    BY <1>2, <1>6, <2>3 DEF PatchedSoFar
  <2> QED BY <1>12, <1>13, <2>1, <2>4 DEF left2
<1>14. CASE e.path.type = "dir" /\ basis.type # "dir"
  <2> DEFINE q == Dir(i, Touched)
  <2>1. st2 = [tree |-> Put(clear, q), open |-> st.open \cup {e.path}]
    BY <1>3, <1>14 DEF PatchPath, OpenDir, basis, clear
  <2>2. q \in PathSet /\ q.index = i /\ Alike(q, At(Q, i))
    <3>1. Touched \in Nat
      BY IndicesAssumption DEF Touched
    <3>2. Dir(i, Touched).type = "dir" /\ Dir(i, Touched).index = i
      BY DEF Dir, Path
    <3>3. q \in PathSet
      BY <1>1, <3>1 DEF Dir, Path, PathSet
    <3>4. Alike(q, e.path)
      BY <1>14, <3>2, AlikeDirs
    <3>5. e.path = At(Q, i)
      BY <1>3, <1>14, <1>19
    <3> QED BY <3>2, <3>3, <3>4, <3>5
  <2> HIDE DEF q
  <2>3. PatchedSoFar(Put(clear, q), left2, P, Q)
    BY <1>7, <1>10, <1>11, <1>14, <2>2
  <2> QED BY <1>12, <1>14, <2>1, <2>3 DEF left2
<1>15. CASE e.difftype = "deleted" /\ basis.type = "none"
  <2>1. st2 = [st EXCEPT !.tree = @]
    BY <1>3, <1>15 DEF PatchPath, basis
  <2>2. basis = Absent(i) /\ At(Q, i) = Absent(i)
    BY <1>2, <1>3, <1>15, <1>19, AtIs DEF basis, PathSet
  <2>3. GoodAt(T, i, left2, P, Q)
    BY <1>4, <2>2 DEF GoodAt, Alike, basis
  <2>4. PatchedSoFar(T, left2, P, Q)
    BY <1>2, <1>6, <2>3 DEF PatchedSoFar
  <2>5. st2.tree = T /\ st2.open = st.open
    BY <2>1
  <2> QED BY <1>12, <2>4, <2>5 DEF left2
<1>16. CASE e.difftype = "deleted" /\ basis.type # "none"
  <2>1. st2 = [st EXCEPT !.tree = clear]
    BY <1>3, <1>16 DEF PatchPath, basis, clear
  <2>2. (\E d \in T : d.index = Front(i) /\ d.type = "dir") \/ i = <<>>
    <3>1. basis \in T /\ basis.index = i
      BY <1>2, <1>16, AtIs DEF basis
    <3> QED BY <1>2, <3>1 DEF WellFormed
  <2>3. /\ WellFormed(clear) /\ At(clear, i) = Absent(i)
        /\ \A j \in Indices : j # i => GoodAt(clear, j, left2, P, Q)
    BY <1>3, <1>10, <1>16, <2>2
  <2>4. At(Q, i) = Absent(i)
    BY <1>3, <1>16, <1>19
  <2>5. GoodAt(clear, i, left2, P, Q)
    BY <1>4, <2>3, <2>4 DEF GoodAt, Alike
  <2>6. PatchedSoFar(clear, left2, P, Q)
    BY <2>3, <2>5 DEF PatchedSoFar
  <2>7. OpenDirs(st2.open, D \ left2) /\ PatchedSoFar(st2.tree, left2, P, Q)
    <3>1. st2.open = st.open
      BY <2>1
    <3>2. PatchedSoFar(st2.tree, left2, P, Q)
      BY <2>1, <2>6
    <3> QED BY <1>12, <3>1, <3>2
  <2> QED BY <2>7 DEF left2
<1>17. CASE e.path.type # "dir" /\ e.difftype = "snapshot"
  <2>1. st2 = [st EXCEPT !.tree = Put(clear, e.path)]
    BY <1>17 DEF PatchPath, clear
  <2>2. e.path \in PathSet /\ e.path.type # "none" /\ Alike(e.path, At(Q, i))
    BY <1>3, <1>17, <1>19 DEF Alike
  <2>3. PatchedSoFar(Put(clear, e.path), left2, P, Q)
    BY <1>7, <1>10, <1>11, <1>17, <2>2
  <2>4. OpenDirs(st2.open, D \ left2) /\ PatchedSoFar(st2.tree, left2, P, Q)
    BY <1>12, <2>1, <2>3
  <2> QED BY <2>4 DEF left2
<1>18. CASE e.difftype = "diff"
  <2> DEFINE q == [e.path EXCEPT !.data = Patched(At(P, i).data, e)]
  <2>1. e.path.type = "reg" /\ At(P, i).type = "reg" /\ At(Q, i) = q
    BY <1>3, <1>18, <1>19
  <2>2. basis = At(P, i)
    <3>1. Alike(basis, At(P, i))
      BY <1>5, <2>1
    <3> QED BY <2>1, <3>1, AlikeIs
  <2>3. At(Q, i) \in PathSet /\ At(Q, i).index = i /\ Alike(At(Q, i), At(Q, i))
    BY <1>19, <2>1, AtIs DEF Alike, Absent, Path
  <2>5. st2 = [st EXCEPT !.tree = Put(T, q)]
    BY <1>18, <2>1, <2>2 DEF PatchPath, basis
  <2>6. \A c \in T : IsPrefix(i, c.index) => c.index = i
    BY <1>1, <1>2, <2>1, <2>2, NoneBelow DEF basis
  <2> HIDE DEF q
  <2>7. PatchedSoFar(Put(T, q), left2, P, Q)
    BY <1>2, <1>6, <1>7, <1>11, <2>1, <2>3, <2>6
  <2>8. OpenDirs(st2.open, D \ left2) /\ PatchedSoFar(st2.tree, left2, P, Q)
    BY <1>12, <2>1, <2>5, <2>7
  <2> QED BY <2>8 DEF left2
<1> QED BY <1>3, <1>13, <1>14, <1>15, <1>16, <1>17, <1>18

\* Patching a tree with a delta that fits it.
LEMMA PatchesTree ==
  ASSUME NEW D, NEW P, NEW Q, DeltaFits(D, P, Q), WellFormed(P), WellFormed(Q),
         NEW U, WellFormed(U), AlikeTrees(U, P)
  PROVE  WellFormed(Patch(U, D)) /\ AlikeTrees(Patch(U, D), Q)
<1> DEFINE N == Cardinality(D)
<1>1. Indexed(D)
  <2>1. Distinct(D) /\ \A e \in D : e.path.index \in Indices
    BY DEF DeltaFits
  <2> QED BY <2>1, EntriesFinite, IndicesAre DEF Indexed
<1>2. N \in Nat
  BY <1>1, FS_CardinalityType DEF Indexed
<1> HIDE DEF N
<1>3. PICK st, left :
         /\ Reads(st, left, "PathPatcher", U, D)
         /\ Reduce("PathPatcher", U, D) = FinishBranches(st[N], st[N].open).tree
  BY <1>1, ReduceReads DEF N
<1> DEFINE Inv(n) == /\ left[n] \subseteq D /\ PatchedSoFar(st[n].tree, left[n], P, Q)
                     /\ OpenDirs(st[n].open, D \ left[n])
           S == {n \in 0..N : Inv(n)}
<1>4. Inv(0)
  <2>1. st[0] = [tree |-> U, open |-> {}] /\ left[0] = D
    BY <1>3 DEF Reads
  <2>2. \A i \in Indices : GoodAt(U, i, D, P, Q)
    BY DEF AlikeTrees, GoodAt, DeltaFits
  <2>3. st[0].tree = U /\ st[0].open = {}
    BY <2>1
  <2> QED BY <2>1, <2>2, <2>3 DEF PatchedSoFar, OpenDirs
<1>5. ASSUME NEW n \in 0..(N - 1), Inv(n)  PROVE Inv(n + 1)
  <2>1. n + 1 \in 1..N /\ n + 1 - 1 = n
    BY <1>2
  <2>2. PICK e : /\ FirstIs(left[n], e) /\ left[n + 1] = left[n] \ {e}
                 /\ st[n + 1] = Process("PathPatcher", st[n], e)
    BY <1>3, <2>1 DEF Reads, N
  <2> DEFINE L == {d \in st[n].open : ~ IsPrefix(d.index, e.path.index)}
             fin == FinishBranches(st[n], L)
  <2>3. st[n + 1] = PatchPath(fin, e)
    BY <2>2 DEF Process
  <2>4. L \in SUBSET st[n].open
    OBVIOUS
  <2>5. fin.open = st[n].open \ L
    BY DEF FinishBranches
  <2> HIDE DEF L
  <2>6. PatchedSoFar(fin.tree, left[n], P, Q)
    BY <1>5, <2>4, FinishPatched
  <2>7. OpenDirs(fin.open, D \ left[n])
    BY <1>5, <2>5 DEF OpenDirs
  <2> HIDE DEF fin
  <2>8. /\ PatchedSoFar(PatchPath(fin, e).tree, left[n] \ {e}, P, Q)
        /\ OpenDirs(PatchPath(fin, e).open, D \ (left[n] \ {e}))
    BY <1>5, <2>2, <2>6, <2>7, PatchStep
  <2> QED BY <1>5, <2>2, <2>3, <2>8
<1>6. Inv(N)
  <2> HIDE DEF Inv
  <2>1. 0 \in S /\ \A n \in 0..(N - 1) : n \in S => n + 1 \in S
    <3>1. 0 \in 0..N /\ \A n \in 0..(N - 1) : n + 1 \in 0..N
      BY <1>2
    <3> QED BY <1>4, <1>5, <3>1
  <2>2. \A n \in 0..N : n \in S
    <3> HIDE DEF S
    <3> QED BY <1>2, <2>1, CountUp
  <2> QED BY <1>2, <2>2
<1>7. left[N] = {}
  BY <1>3 DEF Reads, N
<1>8. PatchedSoFar(FinishBranches(st[N], st[N].open).tree, left[N], P, Q)
  <2> DEFINE L == st[N].open
  <2>1. L \in SUBSET st[N].open
    OBVIOUS
  <2>2. PatchedSoFar(FinishBranches(st[N], L).tree, left[N], P, Q)
    <3> HIDE DEF L
    <3> QED BY <1>6, <2>1, FinishPatched
  <2> QED BY <2>2
<1>9. PatchedSoFar(Patch(U, D), {}, P, Q)
  BY <1>3, <1>7, <1>8 DEF Patch
<1> QED BY <1>9 DEF PatchedSoFar, GoodAt, HasEntry, AlikeTrees

\* The trees that patching with one set after the other gives.
PatchUpTo(g, c, n) ==
  g = [k \in 0..n |-> IF k = 0 THEN {} ELSE Patch(g[k-1], c[k].diff)]

LEMMA PatchExists ==
  ASSUME NEW c, NEW n \in Nat
  PROVE  \E g : PatchUpTo(g, c, n)
<1> DEFINE S == {m \in 0..n : \E g : PatchUpTo(g, c, m)}
<1>1. 0 \in S
  <2> DEFINE g == [k \in 0..0 |-> {}]
  <2>1. PatchUpTo(g, c, 0)
    <3>1. \A k \in 0..0 : k = 0
      OBVIOUS
    <3> QED BY <3>1 DEF PatchUpTo
  <2> QED BY <2>1
<1>2. ASSUME NEW m \in 0..(n - 1), m \in S PROVE m + 1 \in S
  <2>1. PICK f : PatchUpTo(f, c, m)
    BY <1>2
  <2> DEFINE g == [k \in 0..(m + 1) |-> IF k = m + 1 THEN Patch(f[m], c[k].diff) ELSE f[k]]
  <2>2. \A k \in 0..m : k \in 0..(m + 1) /\ k # m + 1 /\ g[k] = f[k]
    OBVIOUS
  <2>3. ASSUME NEW k \in 0..(m + 1)
        PROVE  g[k] = IF k = 0 THEN {} ELSE Patch(g[k-1], c[k].diff)
    <3>1. CASE k = m + 1
      <4>1. k # 0 /\ k - 1 = m /\ m \in 0..m
        BY <3>1
      <4>2. g[k] = Patch(f[m], c[k].diff)
        BY <3>1
      <4> HIDE DEF g
      <4> QED BY <2>2, <4>1, <4>2
    <3>2. CASE k # m + 1
      <4>1. k \in 0..m /\ g[k] = f[k]
        BY <3>2
      <4>2. f[k] = IF k = 0 THEN {} ELSE Patch(f[k-1], c[k].diff)
        BY <2>1, <4>1 DEF PatchUpTo
      <4>3. k # 0 => k - 1 \in 0..m
        BY <4>1
      <4> HIDE DEF g
      <4> QED BY <2>2, <4>1, <4>2, <4>3
    <3> QED BY <3>1, <3>2
  <2>4. PatchUpTo(g, c, m + 1)
    <3>1. DOMAIN g = 0..(m + 1) /\ g = [k \in DOMAIN g |-> g[k]]
      OBVIOUS
    <3> HIDE DEF g
    <3> QED BY <2>3, <3>1 DEF PatchUpTo
  <2>5. m + 1 \in 0..n
    OBVIOUS
  <2> HIDE DEF g
  <2> QED BY <2>4, <2>5
<1> HIDE DEF S
<1>3. n \in S
  BY <1>1, <1>2, CountUp
<1> QED BY <1>3 DEF S

-----------------------------------------------------------------------------
(* The sets, and the chain of each. *)

\* ChainOf, for any sequence of sets.
ChainIn(ss, k) ==
  LET full == {f \in 1..k : ss[f].full}
  IN  SubSeq(ss, CHOOSE f \in full : \A g \in full : g <= f, k)

SigSet == {SigEntry(e, f) : e \in EntrySet, f \in FaultSet}

SetRec == [full : BOOLEAN, diff : SUBSET EntrySet, sig : SUBSET SigSet]

\* The first set is a full one.
SetsOk(ss) == ss \in Seq(SetRec) /\ (ss # <<>> => ss[1].full)

\* The chain of set k begins with set f.
ChainFrom(ss, k, f) ==
  /\ ss[f].full /\ \A g \in f + 1..k : ~ ss[g].full
  /\ ChainIn(ss, k) \in Seq(SetRec) /\ Len(ChainIn(ss, k)) = k - f + 1
  /\ \A m \in 1..k - f + 1 : ChainIn(ss, k)[m] = ss[f + m - 1]

LEMMA ChainIs ==
  ASSUME NEW ss, SetsOk(ss), NEW k \in 1..Len(ss)
  PROVE  \E f \in 1..k : ChainFrom(ss, k, f)
<1> DEFINE full == {f \in 1..k : ss[f].full}
           T == {k - f : f \in full}
           last == CHOOSE f \in full : \A g \in full : g <= f
<1>1. ss \in Seq(SetRec) /\ Len(ss) \in Nat /\ k \in Nat /\ k >= 1 /\ k <= Len(ss)
  BY LenProperties DEF SetsOk
<1>2. 1 \in full
  <2>1. ss # <<>>
    <3>1. ss = <<>> => Len(ss) = 0
      BY EmptySeq
    <3> QED BY <1>1, <3>1
  <2> QED BY <1>1, <2>1 DEF SetsOk
<1>3. PICK m \in T : \A l \in T : m <= l
  <2>1. T \in SUBSET Nat /\ k - 1 \in T
    BY <1>1, <1>2
  <2> HIDE DEF T
  <2> QED BY <2>1, HasLeast
<1>4. PICK f \in full : m = k - f
  OBVIOUS
<1>5. \A g \in full : g <= f
  <2> SUFFICES ASSUME NEW g \in full PROVE g <= f
    OBVIOUS
  <2>1. k - f <= k - g
    BY <1>3, <1>4
  <2> QED BY <1>1, <2>1
<1>6. last \in full /\ \A g \in full : g <= last
  BY <1>5
<1>7. ChainIn(ss, k) = SubSeq(ss, last, k)
  BY DEF ChainIn
<1> HIDE DEF last
<1>8. last \in 1..k /\ ss[last].full /\ \A g \in last + 1..k : ~ ss[g].full
  <2>1. last \in 1..k /\ ss[last].full
    BY <1>6
  <2>2. ASSUME NEW g \in last + 1..k, ss[g].full PROVE FALSE
    <3>1. g \in full /\ ~ (g <= last)
      BY <1>1, <2>1, <2>2
    <3> QED BY <1>6, <3>1
  <2> QED BY <2>1, <2>2
<1>9. \A g \in last..k : ss[g] \in SetRec
  <2>1. \A g \in last..k : g \in 1..Len(ss)
    BY <1>1, <1>8
  <2> QED BY <1>1, <2>1, ElementOfSeq
<1>10. /\ SubSeq(ss, last, k) \in Seq(SetRec)
       /\ Len(SubSeq(ss, last, k)) = IF last <= k THEN k - last + 1 ELSE 0
       /\ \A g \in 1..k - last + 1 : SubSeq(ss, last, k)[g] = ss[last + g - 1]
  <2>1. last \in Int /\ k \in Int
    BY <1>1, <1>8
  <2> QED BY <1>9, <2>1, SubSeqProperties
<1>11. (IF last <= k THEN k - last + 1 ELSE 0) = k - last + 1
  BY <1>1, <1>8
<1> QED BY <1>7, <1>8, <1>10, <1>11 DEF ChainFrom

\* A new set is the end of its chain, and leaves the others as they are.
LEMMA ChainAppend ==
  ASSUME NEW ss, SetsOk(ss), NEW x \in SetRec, ss = <<>> => x.full
  PROVE  LET A == Append(ss, x)
         IN  /\ SetsOk(A) /\ Len(ss) \in Nat /\ Len(A) = Len(ss) + 1 /\ A[Len(ss) + 1] = x
             /\ \A k \in 1..Len(ss) : ChainIn(A, k) = ChainIn(ss, k)
             /\ x.full => ChainIn(A, Len(ss) + 1) = <<x>>
             /\ ~ x.full => ChainIn(A, Len(ss) + 1) = Append(ChainIn(ss, Len(ss)), x)
<1> DEFINE A == Append(ss, x)
           N == Len(ss)
<1>1. ss \in Seq(SetRec) /\ N \in Nat
  BY LenProperties DEF SetsOk
<1>2. /\ A \in Seq(SetRec) /\ Len(A) = N + 1 /\ A[N + 1] = x
      /\ \A k \in 1..N : A[k] = ss[k]
  BY <1>1, AppendProperties
<1> HIDE DEF A
<1>3. SetsOk(A)
  <2>1. CASE ss = <<>>
    <3>1. N = 0
      BY <2>1, EmptySeq
    <3> QED BY <1>2, <2>1, <3>1 DEF SetsOk
  <2>2. CASE ss # <<>>
    <3>1. N \in Nat \ {0}
      BY <1>1, <2>2, EmptySeq
    <3>2. 1 \in 1..N
      BY <3>1
    <3> QED BY <1>2, <2>2, <3>2 DEF SetsOk
  <2> QED BY <2>1, <2>2
<1> HIDE DEF N
<1>4. \A k \in 1..N : k \in 1..N + 1 /\ N + 1 \in 1..N + 1
  BY <1>1
<1>5. ASSUME NEW k \in 1..N PROVE ChainIn(A, k) = ChainIn(ss, k)
  <2>1. /\ \E f \in 1..k : ChainFrom(ss, k, f)
        /\ \E h \in 1..k : ChainFrom(A, k, h)
    <3>1. k \in 1..Len(A)
      BY <1>2, <1>4
    <3> QED BY <1>3, <3>1, ChainIs DEF N
  <2>7. PICK f \in 1..k : ChainFrom(ss, k, f)
    BY <2>1
  <2>8. PICK h \in 1..k : ChainFrom(A, k, h)
    BY <2>1
  <2>3. \A g \in 1..k : g \in 1..N /\ A[g] = ss[g]
    <3>1. \A g \in 1..k : g \in 1..N
      BY <1>1
    <3> QED BY <1>2, <3>1
  <2>4. f \notin h + 1..k /\ h \notin f + 1..k
    BY <2>7, <2>8, <2>3 DEF ChainFrom
  <2>5. f = h
    BY <1>1, <2>4
  <2>6. ASSUME NEW m \in 1..k - f + 1 PROVE ChainIn(A, k)[m] = ChainIn(ss, k)[m]
    <3>1. f + m - 1 \in 1..k
      BY <1>1
    <3> QED BY <2>7, <2>8, <2>3, <2>5, <3>1 DEF ChainFrom
  <2> QED BY <2>7, <2>8, <2>5, <2>6, SeqEqual DEF ChainFrom
<1>6. PICK f \in 1..N + 1 : ChainFrom(A, N + 1, f)
  <2>1. N + 1 \in 1..Len(A)
    BY <1>1, <1>2
  <2> QED BY <1>3, <2>1, ChainIs
<1>9. /\ A[f].full /\ \A g \in f + 1..N + 1 : ~ A[g].full
      /\ ChainIn(A, N + 1) \in Seq(SetRec) /\ Len(ChainIn(A, N + 1)) = N + 1 - f + 1
      /\ \A m \in 1..N + 1 - f + 1 : ChainIn(A, N + 1)[m] = A[f + m - 1]
  BY <1>1, <1>6 DEF ChainFrom
<1>7. ASSUME x.full PROVE ChainIn(A, N + 1) = <<x>>
  <2>1. N + 1 \notin f + 1..N + 1
    BY <1>2, <1>9, <1>7
  <2>2. f = N + 1
    BY <1>1, <2>1
  <2>0. N + 1 - f + 1 = 1 /\ f + 1 - 1 = N + 1 /\ 1 \in 1..1
    BY <1>1, <2>2
  <2>3. /\ Len(ChainIn(A, N + 1)) = 1 /\ 1 \in 1..N + 1 - f + 1 /\ f + 1 - 1 = N + 1
    BY <1>9, <2>0
  <2>4. ChainIn(A, N + 1)[1] = x
    BY <1>2, <1>9, <2>3
  <2>5. <<x>> \in Seq(SetRec) /\ Len(<<x>>) = 1 /\ <<x>>[1] = x
    OBVIOUS
  <2>6. \A m \in 1..1 : m = 1
    OBVIOUS
  <2>7. \A m \in 1..1 : ChainIn(A, N + 1)[m] = <<x>>[m]
    BY <2>4, <2>5, <2>6
  <2> HIDE DEF A
  <2> QED BY <1>9, <2>3, <2>5, <2>7, SeqEqual
<1>8. ASSUME ~ x.full PROVE ChainIn(A, N + 1) = Append(ChainIn(ss, N), x)
  <2>1. f # N + 1
    BY <1>2, <1>9, <1>8
  <2>2. f \in 1..N /\ N \in 1..N
    BY <1>1, <2>1
  <2>0. PICK h \in 1..N : ChainFrom(ss, N, h)
    BY <2>2, ChainIs DEF N
  <2>3. /\ ss[h].full /\ \A g \in h + 1..N : ~ ss[g].full
        /\ ChainIn(ss, N) \in Seq(SetRec) /\ Len(ChainIn(ss, N)) = N - h + 1
        /\ \A m \in 1..N - h + 1 : ChainIn(ss, N)[m] = ss[h + m - 1]
    BY <2>0 DEF ChainFrom
  <2>4. f \notin h + 1..N /\ h \notin f + 1..N + 1
    BY <1>2, <1>9, <2>2, <2>3
  <2>5. f = h
    BY <1>1, <2>2, <2>4
  <2> DEFINE c == ChainIn(ss, N)
             b == Append(c, x)
  <2>6. /\ b \in Seq(SetRec) /\ Len(b) = Len(c) + 1 /\ b[Len(c) + 1] = x
        /\ \A m \in 1..Len(c) : b[m] = c[m]
    BY <2>3, AppendProperties
  <2>7. Len(c) = N - f + 1 /\ \A m \in 1..Len(c) : c[m] = ss[f + m - 1]
    BY <2>3, <2>5
  <2> HIDE DEF b, c
  <2>8. Len(ChainIn(A, N + 1)) = Len(b) /\ Len(b) = N - f + 2
    BY <1>1, <1>9, <2>6, <2>7
  <2>9. ASSUME NEW m \in 1..N - f + 2 PROVE ChainIn(A, N + 1)[m] = b[m]
    <3>1. m \in 1..N + 1 - f + 1
      BY <1>1
    <3>2. ChainIn(A, N + 1)[m] = A[f + m - 1]
      BY <1>9, <3>1
    <3>3. CASE m = N - f + 2
      <4>1. f + m - 1 = N + 1 /\ m = Len(c) + 1
        BY <1>1, <2>7, <3>3
      <4> QED BY <1>2, <2>6, <3>2, <4>1
    <3>4. CASE m # N - f + 2
      <4>1. m \in 1..Len(c) /\ f + m - 1 \in 1..N
        BY <1>1, <2>7, <3>4
      <4> QED BY <1>2, <2>6, <2>7, <3>2, <4>1
    <3> QED BY <3>3, <3>4
  <2>10. ChainIn(A, N + 1) = b
    BY <1>9, <2>6, <2>8, <2>9, SeqEqual
  <2> QED BY <2>10 DEF b, c
<1> QED BY <1>1, <1>2, <1>3, <1>5, <1>7, <1>8 DEF A, N

LEMMA DiffsAre ==
  ASSUME NEW c \in Seq(SetRec)
  PROVE  /\ DiffsOf(c) \in Seq(SUBSET EntrySet)
         /\ \A x \in SetRec : DiffsOf(Append(c, x)) = Append(DiffsOf(c), x.diff)
<1>1. Len(c) \in Nat /\ DOMAIN c = 1..Len(c) /\ \A k \in 1..Len(c) : c[k] \in SetRec
  BY LenProperties, ElementOfSeq
<1> DEFINE D == DiffsOf(c)
<1>2. D = [k \in 1..Len(c) |-> c[k].diff]
  BY <1>1 DEF DiffsOf
<1>3. D \in Seq(SUBSET EntrySet) /\ Len(D) = Len(c) /\ DOMAIN D = 1..Len(c)
  <2>1. \A k \in 1..Len(c) : c[k].diff \in SUBSET EntrySet
    BY <1>1 DEF SetRec
  <2>2. D \in [1..Len(c) -> SUBSET EntrySet]
    BY <1>2, <2>1
  <2> QED BY <1>1, <2>2, SeqDef, LenProperties
<1>4. \A k \in 1..Len(c) : D[k] = c[k].diff
  BY <1>2
<1> HIDE DEF D
<1>5. ASSUME NEW x \in SetRec PROVE DiffsOf(Append(c, x)) = Append(D, x.diff)
  <2> DEFINE a == Append(c, x)
             b == Append(D, x.diff)
             E == DiffsOf(a)
  <2>1. /\ a \in Seq(SetRec) /\ Len(a) = Len(c) + 1 /\ a[Len(c) + 1] = x
        /\ \A k \in 1..Len(c) : a[k] = c[k]
    BY AppendProperties
  <2>2. x.diff \in SUBSET EntrySet
    BY DEF SetRec
  <2>3. /\ b \in Seq(SUBSET EntrySet) /\ Len(b) = Len(c) + 1 /\ b[Len(c) + 1] = x.diff
        /\ \A k \in 1..Len(c) : b[k] = D[k]
    BY <1>3, <2>2, AppendProperties
  <2>4. DOMAIN a = 1..Len(c) + 1 /\ DOMAIN b = 1..Len(c) + 1
    BY <2>1, <2>3, LenProperties
  <2>5. \A k \in 1..Len(c) + 1 : k = Len(c) + 1 \/ k \in 1..Len(c)
    BY <1>1
  <2> HIDE DEF a, b
  <2>6. E = [k \in 1..Len(c) + 1 |-> a[k].diff]
    BY <2>4 DEF DiffsOf
  <2>7. \A k \in 1..Len(c) + 1 : a[k].diff = b[k]
    BY <1>4, <2>1, <2>3, <2>5
  <2>8. b = [k \in 1..Len(c) + 1 |-> b[k]]
    <3>1. b \in [1..Len(b) -> SUBSET EntrySet]
      BY <2>3, LenProperties
    <3> QED BY <2>3, <3>1
  <2>9. E = b
    BY <2>6, <2>7, <2>8
  <2> QED BY <2>9 DEF a, b
<1> QED BY <1>3, <1>5 DEF D

LEMMA SigsAre ==
  ASSUME NEW c \in Seq(SetRec)
  PROVE  /\ SigsOf(c) \in Seq(SUBSET SigSet)
         /\ \A x \in SetRec : SigsOf(Append(c, x)) = Append(SigsOf(c), x.sig)
<1>1. Len(c) \in Nat /\ DOMAIN c = 1..Len(c) /\ \A k \in 1..Len(c) : c[k] \in SetRec
  BY LenProperties, ElementOfSeq
<1> DEFINE D == SigsOf(c)
<1>2. D = [k \in 1..Len(c) |-> c[k].sig]
  BY <1>1 DEF SigsOf
<1>3. D \in Seq(SUBSET SigSet) /\ Len(D) = Len(c) /\ DOMAIN D = 1..Len(c)
  <2>1. \A k \in 1..Len(c) : c[k].sig \in SUBSET SigSet
    BY <1>1 DEF SetRec
  <2>2. D \in [1..Len(c) -> SUBSET SigSet]
    BY <1>2, <2>1
  <2> QED BY <1>1, <2>2, SeqDef, LenProperties
<1>4. \A k \in 1..Len(c) : D[k] = c[k].sig
  BY <1>2
<1> HIDE DEF D
<1>5. ASSUME NEW x \in SetRec PROVE SigsOf(Append(c, x)) = Append(D, x.sig)
  <2> DEFINE a == Append(c, x)
             b == Append(D, x.sig)
             E == SigsOf(a)
  <2>1. /\ a \in Seq(SetRec) /\ Len(a) = Len(c) + 1 /\ a[Len(c) + 1] = x
        /\ \A k \in 1..Len(c) : a[k] = c[k]
    BY AppendProperties
  <2>2. x.sig \in SUBSET SigSet
    BY DEF SetRec
  <2>3. /\ b \in Seq(SUBSET SigSet) /\ Len(b) = Len(c) + 1 /\ b[Len(c) + 1] = x.sig
        /\ \A k \in 1..Len(c) : b[k] = D[k]
    BY <1>3, <2>2, AppendProperties
  <2>4. DOMAIN a = 1..Len(c) + 1 /\ DOMAIN b = 1..Len(c) + 1
    BY <2>1, <2>3, LenProperties
  <2>5. \A k \in 1..Len(c) + 1 : k = Len(c) + 1 \/ k \in 1..Len(c)
    BY <1>1
  <2> HIDE DEF a, b
  <2>6. E = [k \in 1..Len(c) + 1 |-> a[k].sig]
    BY <2>4 DEF SigsOf
  <2>7. \A k \in 1..Len(c) + 1 : a[k].sig = b[k]
    BY <1>4, <2>1, <2>3, <2>5
  <2>8. b = [k \in 1..Len(c) + 1 |-> b[k]]
    <3>1. b \in [1..Len(b) -> SUBSET SigSet]
      BY <2>3, LenProperties
    <3> QED BY <2>3, <3>1
  <2>9. E = b
    BY <2>6, <2>7, <2>8
  <2> QED BY <2>9 DEF a, b
<1> QED BY <1>3, <1>5 DEF D

LEMMA NoChain ==
  /\ <<>> \in Seq(SetRec) /\ DiffsOf(<<>>) = <<>>
  /\ WholeChain(<<>>, <<>>) /\ ChainTree(<<>>) = {}
  /\ SigsTell(CombinePathIters(SigsOf(<<>>)), {}, {})
<1>1. <<>> \in Seq(SetRec) /\ <<>> \in Seq(SUBSET EntrySet) /\ Len(<<>>) = 0
  BY EmptySeq
<1>2. DOMAIN <<>> = 1..0 /\ \A k \in 1..0 : FALSE
  BY <1>1, LenProperties
<1>3. DiffsOf(<<>>) = <<>>
  <2>1. DOMAIN <<>> = {}
    BY <1>2
  <2> QED BY <2>1 DEF DiffsOf
<1>4. Deltas(<<>>)
  BY <1>1, <1>2 DEF Deltas
<1>5. ChainTree(<<>>) = {}
  BY <1>2 DEF ChainTree, Existing, CombinePathIters
<1>6. Merges(<<>>, <<>>)
  BY <1>1, <1>2, <1>4 DEF Merges
<1>7. CombinePathIters(SigsOf(<<>>)) = {}
  BY <1>2 DEF SigsOf, CombinePathIters
<1>8. ASSUME NEW i PROVE SigIs(SigAt({}, i), At({}, i)) /\ SigAt({}, i).path = At({}, i)
  <2>1. SigAt({}, i) = NoEntry(i) /\ At({}, i) = Absent(i)
    BY DEF SigAt, HasEntry, At
  <2>2. /\ NoEntry(i).path = Absent(i) /\ NoEntry(i).difftype # "signature"
        /\ Absent(i).type = "none" /\ Absent(i).data = 0
    BY DEF NoEntry, Entry, Absent, Path
  <2> QED BY <2>1, <2>2 DEF SigIs
<1>9. WellFormed({})
  BY DEF WellFormed
<1>10. Distinct({})
  BY DEF Distinct
<1> QED BY <1>1, <1>3, <1>5, <1>6, <1>7, <1>8, <1>9, <1>10 DEF WholeChain, SigsTell

\* Patching with the sets of a chain gives a tree.
PatchesWell(c, T) ==
  \A g : PatchUpTo(g, c, Len(c)) => WellFormed(g[Len(c)]) /\ AlikeTrees(g[Len(c)], T)

LEMMA PatchesNone == PatchesWell(<<>>, {})
<1> SUFFICES ASSUME NEW g, PatchUpTo(g, <<>>, Len(<<>>))
             PROVE  WellFormed(g[Len(<<>>)]) /\ AlikeTrees(g[Len(<<>>)], {})
  BY DEF PatchesWell
<1>1. Len(<<>>) = 0 /\ 0 \in 0..0
  BY EmptySeq
<1>2. g[Len(<<>>)] = {}
  BY <1>1 DEF PatchUpTo
<1>3. WellFormed({})
  BY DEF WellFormed
<1> QED BY <1>2, <1>3 DEF AlikeTrees, Alike

LEMMA PatchesNext ==
  ASSUME NEW c \in Seq(SetRec), NEW x \in SetRec, NEW P, NEW Q, PatchesWell(c, P),
         WellFormed(P), WellFormed(Q), DeltaFits(x.diff, P, Q)
  PROVE  PatchesWell(Append(c, x), Q)
<1> DEFINE A == Append(c, x)
           n == Len(c)
<1>1. n \in Nat /\ Len(A) = n + 1 /\ A[n + 1] = x /\ \A k \in 1..n : A[k] = c[k]
  BY LenProperties, AppendProperties
<1> HIDE DEF A
<1> SUFFICES ASSUME NEW g, PatchUpTo(g, A, Len(A))
             PROVE  WellFormed(g[Len(A)]) /\ AlikeTrees(g[Len(A)], Q)
  BY DEF PatchesWell, A
<1> HIDE DEF n
<1>3. \A k \in 0..n + 1 : g[k] = IF k = 0 THEN {} ELSE Patch(g[k-1], A[k].diff)
  BY <1>1 DEF PatchUpTo
<1> DEFINE h == [k \in 0..n |-> g[k]]
<1>4. PatchUpTo(h, c, n)
  <2>1. ASSUME NEW k \in 0..n PROVE h[k] = IF k = 0 THEN {} ELSE Patch(h[k-1], c[k].diff)
    <3>1. h[k] = g[k] /\ k \in 0..n + 1
      BY <1>1
    <3>2. CASE k = 0
      <4> HIDE DEF h
      <4> QED BY <1>3, <3>1, <3>2
    <3>3. CASE k # 0
      <4>1. k - 1 \in 0..n /\ k \in 1..n
        BY <1>1, <3>3
      <4>2. h[k-1] = g[k-1]
        BY <4>1
      <4> HIDE DEF h
      <4> QED BY <1>1, <1>3, <3>1, <3>3, <4>1, <4>2
    <3> QED BY <3>2, <3>3
  <2>2. DOMAIN h = 0..n /\ h = [k \in DOMAIN h |-> h[k]]
    OBVIOUS
  <2> HIDE DEF h
  <2> QED BY <2>1, <2>2 DEF PatchUpTo
<1>5. h[n] = g[n]
  BY <1>1
<1> HIDE DEF h
<1>6. WellFormed(g[n]) /\ AlikeTrees(g[n], P)
  BY <1>4, <1>5 DEF PatchesWell, n
<1>7. g[n + 1] = Patch(g[n], x.diff)
  <2>1. n + 1 \in 0..n + 1 /\ n + 1 # 0 /\ n + 1 - 1 = n
    BY <1>1
  <2> QED BY <1>1, <1>3, <2>1
<1>8. WellFormed(Patch(g[n], x.diff)) /\ AlikeTrees(Patch(g[n], x.diff), Q)
  BY <1>6, PatchesTree
<1> QED BY <1>1, <1>7, <1>8

-----------------------------------------------------------------------------
(* The invariant. *)

\* SelectIter, for any tree.
Selected(tree, fault) ==
  {p \in tree : fault.kind = "locked" => ~ IsPrefix(fault.index, p.index)}

SourceOk(T) == WellFormed(T) /\ At(T, <<>>).type = "dir"

FaultOk(fault) == fault \in FaultSet /\ (fault.kind = "locked" => fault.index # <<>>)

\* The deltas of the newest set and of the sets it depends on, and those of the
\* set before it in the same chain.
LastChain(ss) == DiffsOf(ChainIn(ss, Len(ss)))

ChainBefore(ss) == IF ss[Len(ss)].full THEN <<>> ELSE DiffsOf(ChainIn(ss, Len(ss) - 1))

\* The sets of a chain come to R: the signatures tell of it, but for the data of the
\* files in X, and patching gives it, too.
ChainFits(ss, R, X) ==
  /\ WholeChain(R, LastChain(ss))
  /\ SigsTell(CombinePathIters(SigsOf(ChainIn(ss, Len(ss)))), ChainTree(R), X)
  /\ PatchesWell(ChainIn(ss, Len(ss)), ChainTree(R))

\* The newest set says of each path what the run saw of it, but for the astray.
SaysSeen(ss, R, t, S) ==
  /\ SourceOk(t.source) /\ FaultOk(t.fault)
  /\ \E B : /\ WholeChain(B, ChainBefore(ss))
            /\ TreeWith(ChainTree(R), Selected(t.source, t.fault), ChainTree(B), t.fault, S)

\* l and a are the files that are late and astray.
SetsFit(ss, t, l, a) == \E R : ChainFits(ss, R, l \cup a) /\ SaysSeen(ss, R, t, a)

\* The inductive invariant of the specification.
BackupInv ==
  /\ SourceOk(source) /\ edits \in Nat
  /\ SetsOk(sets) /\ (sets # <<>> => SetsFit(sets, taken, late, astray))

\* What can be read is a tree, too.
LEMMA SelectedOk ==
  ASSUME NEW T, SourceOk(T), NEW fault, FaultOk(fault)
  PROVE  /\ SourceOk(Selected(T, fault))
         /\ \A i \in Indices : \/ At(Selected(T, fault), i) = At(T, i)
                               \/ fault.kind = "locked" /\ IsPrefix(fault.index, i)
<1> DEFINE S == Selected(T, fault)
           locked(i) == fault.kind = "locked" /\ IsPrefix(fault.index, i)
<1>1. /\ T \subseteq PathSet /\ \A p \in T : p.index \in Indices
      /\ \A p, q \in T : p.index = q.index => p = q
      /\ \A p \in T : p.index # <<>> => \E d \in T : d.index = Front(p.index) /\ d.type = "dir"
  BY DEF SourceOk, WellFormed
<1>2. \A p : p \in S <=> p \in T /\ ~ locked(p.index)
  BY DEF Selected
<1>3. fault.index \in Indexes /\ <<>> \in Indexes
  BY IndicesAre DEF FaultOk, FaultSet
<1>4. ~ locked(<<>>)
  BY <1>3, FrontNotBelow DEF FaultOk
<1>5. ASSUME NEW i \in Indexes, i # <<>>, locked(Front(i)) PROVE locked(i)
  <2>1. Front(i) \in Indexes /\ IsPrefix(Front(i), i)
    BY <1>5, FrontIsPrefix, FrontOf
  <2> QED BY <1>3, <1>5, <2>1, PrefixTransitive
<1> HIDE DEF S, locked
<1>6. ASSUME NEW p \in S, p.index # <<>>
      PROVE  \E d \in S : d.index = Front(p.index) /\ d.type = "dir"
  <2>1. p \in T /\ ~ locked(p.index) /\ p.index \in Indexes
    BY <1>1, <1>2, IndicesAre
  <2>2. PICK d \in T : d.index = Front(p.index) /\ d.type = "dir"
    BY <1>1, <1>6, <2>1
  <2> QED BY <1>2, <1>5, <1>6, <2>1, <2>2
<1>7. WellFormed(S)
  BY <1>1, <1>2, <1>6 DEF WellFormed
<1>8. ASSUME NEW i \in Indices, ~ locked(i) PROVE At(S, i) = At(T, i)
  <2>1. WellFormed(T)
    BY DEF SourceOk
  <2>2. CASE At(T, i) \in T /\ At(T, i).index = i
    <3>1. At(T, i) \in S
      BY <1>2, <1>8, <2>2
    <3>2. At(S, At(T, i).index) = At(T, i)
      BY <1>7, <3>1, AtPath DEF WellFormed
    <3> QED BY <2>2, <3>2
  <2>3. CASE At(T, i) = Absent(i) /\ \A p \in T : p.index # i
    <3>1. \A p \in S : p.index # i
      BY <1>2, <2>3
    <3> QED BY <2>3, <3>1, AtNone
  <2> QED BY <2>1, <2>2, <2>3, AtIs
<1>9. At(S, <<>>).type = "dir"
  BY <1>4, <1>8, IndicesAre DEF SourceOk
<1> QED BY <1>7, <1>8, <1>9 DEF SourceOk, S, locked

\* A run puts a fitting set on top.
LEMMA RunFits ==
  ASSUME SourceOk(source), SetsOk(sets),
         sets # <<>> => SetsFit(sets, taken, late, astray),
         NEW fault, FaultOk(fault), NEW full \in BOOLEAN, TakeBackup(full, fault)
  PROVE  SetsOk(sets') /\ sets' # <<>> /\ SetsFit(sets', taken', late', astray')
<1> DEFINE N == Len(sets)
           chain == IF full THEN <<>> ELSE ChainIn(sets, N)
           old == DiffsOf(chain)
           sig == CombinePathIters(SigsOf(chain))
           X == IF full THEN {} ELSE late \cup astray
           new == Selected(source, fault)
           D == GetDeltaIter(new, sig, fault)
           x == [full |-> full, diff |-> D, sig |-> {SigEntry(e, fault) : e \in D}]
           A == Append(sets, x)
<1>1. sets \in Seq(SetRec) /\ N \in Nat /\ (full \/ sets # <<>>)
  BY LenProperties DEF SetsOk, TakeBackup
<1>2. /\ chain \in Seq(SetRec) /\ (~ full => N \in 1..N)
      /\ \E R : /\ WholeChain(R, old) /\ SigsTell(sig, ChainTree(R), X)
               /\ PatchesWell(chain, ChainTree(R))
  <2>1. CASE full
    <3>1. chain = <<>> /\ old = <<>> /\ X = {}
      BY <2>1, NoChain
    <3>2. ChainTree(<<>>) = {} /\ WholeChain(<<>>, <<>>) /\ PatchesWell(<<>>, {})
          /\ SigsTell(CombinePathIters(SigsOf(<<>>)), {}, {}) /\ <<>> \in Seq(SetRec)
      BY NoChain, PatchesNone
    <3> HIDE DEF chain, X
    <3> QED BY <2>1, <3>1, <3>2
  <2>2. CASE ~ full
    <3>1. N \in 1..N
      <4>1. N \in Nat \ {0}
        BY <1>1, <2>2, EmptySeq
      <4> QED BY <4>1
    <3>2. \E f \in 1..N : ChainFrom(sets, N, f)
      BY <3>1, ChainIs
    <3>3. chain \in Seq(SetRec) /\ chain = ChainIn(sets, Len(sets)) /\ X = late \cup astray
      BY <2>2, <3>2 DEF ChainFrom
    <3>4. PICK R : ChainFits(sets, R, late \cup astray)
      BY <1>1, <2>2 DEF SetsFit
    <3> HIDE DEF chain, X
    <3> QED BY <3>1, <3>3, <3>4 DEF ChainFits, LastChain
  <2> QED BY <2>1, <2>2
<1>3. PICK R : /\ WholeChain(R, old) /\ SigsTell(sig, ChainTree(R), X)
               /\ PatchesWell(chain, ChainTree(R))
  BY <1>2
<1>4. sets' = A /\ taken' = [source |-> source, fault |-> fault] /\ Follow(full, D, fault)
  <2>1. ChainOf(Len(sets)) = ChainIn(sets, N)
    BY DEF ChainOf, ChainIn
  <2>2. SelectIter(fault) = new
    BY DEF SelectIter, Selected
  <2>3. [k \in DOMAIN chain |-> chain[k].sig] = SigsOf(chain)
    BY DEF SigsOf
  <2> DEFINE set == Backup(full, [k \in DOMAIN chain |-> chain[k].sig], fault)
  <2>4. /\ sets' = Append(sets, set) /\ Follow(full, set.diff, fault)
        /\ taken' = [source |-> source, fault |-> fault]
    BY <2>1 DEF TakeBackup
  <2>5. set = x
    <3> HIDE DEF chain, new
    <3> QED BY <2>2, <2>3 DEF Backup
  <2>6. x.diff = D
    OBVIOUS
  <2> HIDE DEF set, x, D
  <2> QED BY <2>4, <2>5, <2>6
<1> HIDE DEF chain, X, sig, old
<1>5. SourceOk(new)
  BY SelectedOk
<1>6. /\ D \in SUBSET EntrySet
      /\ \E B : /\ WholeChain(B, Append(old, D))
                /\ TreeWith(ChainTree(B), new, ChainTree(R), fault, Strays(D, X))
                /\ DeltaFits(D, ChainTree(R), ChainTree(B))
                /\ \A e \in D : \/ e.path.index \in Strays(D, X)
                                \/ At(ChainTree(B), e.path.index) = e.path
  <2>1. WellFormed(new) /\ At(new, <<>>).type = "dir" /\ fault \in FaultSet
    BY <1>5 DEF SourceOk, FaultOk
  <2> HIDE DEF new
  <2> QED BY <1>3, <2>1, NextTree
<1> HIDE DEF D, new
<1>7. PICK B : /\ WholeChain(B, Append(old, D))
               /\ TreeWith(ChainTree(B), new, ChainTree(R), fault, Strays(D, X))
               /\ DeltaFits(D, ChainTree(R), ChainTree(B))
               /\ \A e \in D : \/ e.path.index \in Strays(D, X)
                               \/ At(ChainTree(B), e.path.index) = e.path
  BY <1>6
<1>8. x \in SetRec /\ x.full = full /\ x.diff = D /\ x.sig = {SigEntry(e, fault) : e \in D}
  <2>1. {SigEntry(e, fault) : e \in D} \subseteq SigSet
    BY <1>6 DEF SigSet, FaultOk
  <2> QED BY <1>6, <2>1 DEF SetRec
<1> HIDE DEF x
<1>9. /\ SetsOk(A) /\ Len(A) = N + 1 /\ A[N + 1] = x
      /\ \A k \in 1..N : ChainIn(A, k) = ChainIn(sets, k)
      /\ x.full => ChainIn(A, N + 1) = <<x>>
      /\ ~ x.full => ChainIn(A, N + 1) = Append(ChainIn(sets, N), x)
  BY <1>1, <1>8, ChainAppend
<1> HIDE DEF A
<1>10. A # <<>> /\ N + 1 - 1 = N
  <2>1. A = <<>> => Len(A) = 0
    BY EmptySeq
  <2>2. N + 1 # 0 /\ N + 1 - 1 = N
    BY <1>1
  <2> QED BY <1>9, <2>1, <2>2
<1>11. ChainIn(A, Len(A)) = Append(chain, x)
  <2>1. CASE full
    <3>1. chain = <<>> /\ ChainIn(A, N + 1) = <<x>>
      BY <1>8, <1>9, <2>1 DEF chain
    <3>2. Append(<<>>, x) = <<x>>
      OBVIOUS
    <3> QED BY <1>9, <3>1, <3>2
  <2>2. CASE ~ full
    BY <1>8, <1>9, <2>2 DEF chain
  <2> QED BY <2>1, <2>2
<1>12. LastChain(A) = Append(old, D)
  <2>1. DiffsOf(Append(chain, x)) = Append(DiffsOf(chain), x.diff)
    BY <1>2, <1>8, DiffsAre
  <2> QED BY <1>8, <1>11, <2>1 DEF LastChain, old
<1>13. ChainBefore(A) = old
  <2>1. CASE full
    BY <1>8, <1>9, <2>1, NoChain DEF ChainBefore, chain, old
  <2>2. CASE ~ full
    <3>1. ChainIn(A, N) = ChainIn(sets, N)
      BY <1>2, <1>9, <2>2
    <3> QED BY <1>8, <1>9, <1>10, <2>2, <3>1 DEF ChainBefore, chain, old
  <2> QED BY <2>1, <2>2
<1>14. PatchesWell(ChainIn(A, Len(A)), ChainTree(B))
  <2>1. WellFormed(ChainTree(R)) /\ WellFormed(ChainTree(B))
    BY <1>3, <1>7 DEF WholeChain
  <2>2. DeltaFits(x.diff, ChainTree(R), ChainTree(B))
    BY <1>7, <1>8
  <2>3. PatchesWell(Append(chain, x), ChainTree(B))
    BY <1>2, <1>3, <1>8, <2>1, <2>2, PatchesNext
  <2> QED BY <1>11, <2>3
\* The histories: what has a diff to a late signature is astray, and what is late
\* or astray stays so without an element.
<1>15. /\ SignedLate(D, fault) \subseteq late'
       /\ Strays(D, X) \subseteq astray'
       /\ \A i \in X : HasEntry(D, i) \/ i \in late' \cup astray'
  <2>1. CASE full
    <3>1. X = {}
      BY <2>1 DEF X
    <3> QED BY <1>4, <2>1, <3>1 DEF Follow, Strays
  <2>2. CASE ~ full
    <3>1. X = late \cup astray
      BY <2>2 DEF X
    <3>2. /\ late' = SignedLate(D, fault) \cup {i \in late : ~ HasEntry(D, i)}
          /\ astray' = ((late \cup astray)
                           \cap {e.path.index : e \in {d \in D : d.difftype = "diff"}})
                        \cup {i \in astray : ~ HasEntry(D, i)}
      BY <1>4, <2>2 DEF Follow
    <3>3. ASSUME NEW i \in Strays(D, X) PROVE i \in astray'
      <4>1. PICK e \in D : i \in X /\ e.path.index = i /\ e.difftype = "diff"
        BY <3>3 DEF Strays
      <4> QED BY <3>1, <3>2, <4>1
    <3> QED BY <3>1, <3>2, <3>3
  <2> QED BY <2>1, <2>2
<1>16. SigsTell(CombinePathIters(SigsOf(ChainIn(A, Len(A)))), ChainTree(B), late' \cup astray')
  <2> DEFINE new2 == {SigEntry(e, fault) : e \in D}
             sig2 == CombinePathIters(SigsOf(Append(chain, x)))
             Y == Strays(D, X)
             Z == late' \cup astray'
  <2>1. SigsOf(Append(chain, x)) = Append(SigsOf(chain), new2) /\ SigsOf(chain) \in Seq(SUBSET SigSet)
    BY <1>2, <1>8, SigsAre
  <2>2. new2 \in SUBSET SigSet
    BY <1>8 DEF SetRec
  <2>3. \A s : s \in sig2 <=> s \in new2 \/ (s \in sig /\ ~ HasEntry(new2, s.path.index))
    <3> HIDE DEF new2
    <3> QED BY <2>1, <2>2, AppendCombines DEF sig
  <2>4. fault \in FaultSet
    BY DEF FaultOk
  <2>5. SignedLate(D, fault) \subseteq Z /\ Y \subseteq Z /\ \A i \in X : HasEntry(D, i) \/ i \in Z
    BY <1>15
  <2>6. \A e \in D : e.path.index \in Y \/ At(ChainTree(B), e.path.index) = e.path
    BY <1>7
  <2> HIDE DEF sig2, Y, Z
  <2>7. SigsTell(sig2, ChainTree(B), Z)
    BY <1>3, <1>7, <2>3, <2>4, <2>5, <2>6, NextSigs
  <2> QED BY <1>11, <2>7 DEF sig2, Z
<1>17. ChainFits(A, B, late' \cup astray')
  BY <1>7, <1>12, <1>14, <1>16 DEF ChainFits
<1>18. TreeWith(ChainTree(B), new, ChainTree(R), fault, astray')
  BY <1>7, <1>15 DEF TreeWith
<1>19. SaysSeen(A, B, [source |-> source, fault |-> fault], astray')
  BY <1>3, <1>13, <1>18 DEF SaysSeen, new
<1>20. SetsFit(A, [source |-> source, fault |-> fault], late', astray')
  BY <1>17, <1>19 DEF SetsFit
<1> QED BY <1>4, <1>9, <1>10, <1>20

\* The paths that a program may put into the source are paths.
LEMMA PathsMade ==
  ASSUME NEW i \in Indexes, NEW stamp \in Nat, NEW d \in Nat
  PROVE  /\ Dir(i, stamp) \in PathSet /\ Reg(i, stamp, d) \in PathSet /\ Sym(i, d) \in PathSet
         /\ Dir(i, stamp).index = i /\ Reg(i, stamp, d).index = i /\ Sym(i, d).index = i
         /\ Dir(i, stamp).type = "dir" /\ Reg(i, stamp, d).type = "reg" /\ Sym(i, d).type = "sym"
         /\ Absent(i).index = i /\ Absent(i).type = "none"
BY DEF PathSet, Dir, Reg, Sym, Path, Absent

LEMMA FirstSource ==
  ASSUME Init
  PROVE  SourceOk(source)
<1>1. PICK type \in FirstTrees :
        source = {Path(i, type[i], 0, IF type[i] = "dir" THEN 0 ELSE 1) :
                    i \in {j \in Indices : type[j] # "none"}}
  BY DEF Init
<1>2. type \in [Indices -> {"none", "reg", "dir", "sym"}]
  BY IndicesAssumption
<1>3. ASSUME NEW p \in source
      PROVE  /\ p \in PathSet /\ p.index \in Indices
             /\ p = Path(p.index, type[p.index], 0, IF type[p.index] = "dir" THEN 0 ELSE 1)
  <2>1. PICK i \in Indices : /\ p = Path(i, type[i], 0, IF type[i] = "dir" THEN 0 ELSE 1)
                             /\ type[i] # "none"
    BY <1>1
  <2>2. i \in Indexes /\ type[i] \in {"reg", "dir", "sym"}
    BY <1>2, <2>1, IndicesAre
  <2> QED BY <2>1, <2>2 DEF Path, PathSet
<1>4. \A p, q \in source : p.index = q.index => p = q
  BY <1>3
<1>5. IsTree(source)
  BY DEF Init
<1>6. ASSUME NEW p \in source, p.index # <<>>
      PROVE  \E d \in source : d.index = Front(p.index) /\ d.type = "dir"
  <2>1. At(source, Front(p.index)).type = "dir"
    BY <1>5, <1>6 DEF IsTree
  <2>2. \E d \in source : d.index = Front(p.index)
    <3>1. SUFFICES ASSUME ~ \E d \in source : d.index = Front(p.index) PROVE FALSE
      OBVIOUS
    <3>2. At(source, Front(p.index)) = Absent(Front(p.index))
      BY <3>1, AtNone
    <3> QED BY <2>1, <3>2 DEF Absent, Path
  <2>3. PICK d \in source : d.index = Front(p.index)
    BY <2>2
  <2>4. At(source, d.index) = d
    BY <1>4, AtPath
  <2> QED BY <2>1, <2>3, <2>4
<1>7. WellFormed(source)
  BY <1>3, <1>4, <1>6 DEF WellFormed
<1> QED BY <1>5, <1>7 DEF SourceOk, IsTree

LEMMA EditKeeps ==
  ASSUME SourceOk(source), edits \in Nat, Edit
  PROVE  SourceOk(source')
<1> DEFINE now == edits + 1
           old(i) == At(source, i)
           new(i) == {Absent(i), Dir(i, now)} \cup {Reg(i, now, d) : d \in 1..NumData}
                    \cup {Sym(i, d) : d \in 1..NumData}
                    \cup (IF old(i).type = "reg" THEN {Reg(i, old(i).stamp, d) : d \in 1..NumData}
                          ELSE {})
           kept(i, n) == {p \in source \ {old(i)} : n.type # "dir" => ~ IsPrefix(i, p.index)}
           moved(i, n) == n.type # old(i).type \/ n.type = "sym"
           touched(i, n, p) == IF moved(i, n) /\ IsParent(p.index, i) THEN Dir(p.index, now) ELSE p
<1>1. PICK i \in Indices \ {<<>>} :
        /\ At(source, Front(i)).type = "dir"
        /\ \E n \in new(i) \ {old(i)} :
             source' = {touched(i, n, p) : p \in kept(i, n)} \cup ({n} \ {Absent(i)})
  BY DEF Edit
<1>2. PICK n \in new(i) \ {old(i)} :
             source' = {touched(i, n, p) : p \in kept(i, n)} \cup ({n} \ {Absent(i)})
  BY <1>1
<1>3. /\ source \subseteq PathSet /\ \A p \in source : p.index \in Indices
      /\ \A p, q \in source : p.index = q.index => p = q
      /\ \A p \in source : p.index # <<>> => \E d \in source : d.index = Front(p.index) /\ d.type = "dir"
  BY DEF SourceOk, WellFormed
<1>4. now \in Nat /\ i \in Indexes /\ i # <<>>
  BY IndicesAre
<1> DEFINE K == kept(i, n)
           t(p) == touched(i, n, p)
<1>5. n.index = i /\ (n = Absent(i) \/ n \in PathSet) /\ (n.type = "dir" => n # Absent(i))
  <2>1. \A d \in 1..NumData : d \in Nat
    BY IndicesAssumption
  <2>2. old(i).type = "reg" => old(i).stamp \in Nat
    <3>1. WellFormed(source)
      BY DEF SourceOk
    <3>2. old(i).type = "reg" => old(i) \in PathSet
      BY <3>1, AtIs
    <3> QED BY <3>2 DEF PathSet
  <2>3. \/ n = Absent(i) \/ n = Dir(i, now)
        \/ \E d \in 1..NumData : n = Reg(i, now, d) \/ n = Sym(i, d)
        \/ old(i).type = "reg" /\ \E d \in 1..NumData : n = Reg(i, old(i).stamp, d)
    BY <1>2
  <2> HIDE DEF old, now, new, kept, touched, moved
  <2>4. CASE n = Absent(i)
    BY <2>4 DEF Absent, Path
  <2>5. CASE n = Dir(i, now)
    BY <1>4, <2>5, PathsMade DEF Absent, Path
  <2>6. CASE \E d \in 1..NumData : n = Reg(i, now, d) \/ n = Sym(i, d)
    BY <1>4, <2>1, <2>6, PathsMade
  <2>7. CASE old(i).type = "reg" /\ \E d \in 1..NumData : n = Reg(i, old(i).stamp, d)
    BY <1>4, <2>1, <2>2, <2>7, PathsMade
  <2> QED BY <2>3, <2>4, <2>5, <2>6, <2>7
<1>6. \A p : p \in K <=> p \in source /\ p.index # i /\ (n.type # "dir" => ~ IsPrefix(i, p.index))
  <2>1. WellFormed(source)
    BY DEF SourceOk
  <2>2. At(source, i).index = i
    BY <2>1, AtIs
  <2>3. \A p \in source : p.index = i => At(source, i) = p
    BY <1>3, AtPath
  <2> HIDE DEF new, touched, moved
  <2> QED BY <2>2, <2>3
<1>7. ASSUME NEW p \in source
      PROVE  t(p) \in PathSet /\ t(p).index = p.index /\ t(p).type = p.type
  <2>1. p \in PathSet /\ p.index \in Indexes
    BY <1>3, IndicesAre
  <2>2. CASE moved(i, n) /\ IsParent(p.index, i)
    <3>1. p.index = Front(i)
      BY <2>2 DEF IsParent
    <3>2. At(source, Front(i)) = p
      BY <1>3, <3>1, AtPath
    <3>3. t(p) = Dir(p.index, now) /\ p.type = "dir"
      BY <1>1, <2>2, <3>2
    <3> HIDE DEF now, t
    <3> QED BY <1>4, <2>1, <3>3, PathsMade
  <2>3. CASE ~ (moved(i, n) /\ IsParent(p.index, i))
    <3>1. t(p) = p
      BY <2>3
    <3> HIDE DEF t
    <3> QED BY <2>1, <3>1
  <2> QED BY <2>2, <2>3
<1>8. source' = {t(p) : p \in K} \cup ({n} \ {Absent(i)})
  BY <1>2
<1> HIDE DEF now, old, new, kept, moved, touched, K, t
<1>9. ASSUME NEW q \in source'
      PROVE  \/ \E p \in K : q = t(p) /\ p \in source
             \/ q = n /\ n # Absent(i)
  BY <1>6, <1>8
<1>10. \A q \in source' : q \in PathSet /\ q.index \in Indices
  BY <1>1, <1>3, <1>5, <1>7, <1>9
<1>11. ASSUME NEW p \in source', NEW q \in source', p.index = q.index PROVE p = q
  <2>1. CASE p = n
    BY <1>5, <1>6, <1>7, <1>9, <1>11, <2>1
  <2>2. CASE q = n
    BY <1>5, <1>6, <1>7, <1>9, <1>11, <2>2
  <2>3. CASE p # n /\ q # n
    <3>1. PICK a \in K : p = t(a) /\ a \in source
      BY <1>9, <2>3
    <3>2. PICK b \in K : q = t(b) /\ b \in source
      BY <1>9, <2>3
    <3>3. a.index = b.index
      BY <1>7, <1>11, <3>1, <3>2
    <3> QED BY <1>3, <3>1, <3>2, <3>3
  <2> QED BY <2>1, <2>2, <2>3
<1>12. ASSUME NEW q \in source', q.index # <<>>
       PROVE  \E d \in source' : d.index = Front(q.index) /\ d.type = "dir"
  <2>1. CASE q = n /\ n # Absent(i)
    <3>1. PICK f \in source : f.index = Front(i) /\ f.type = "dir"
      <4>1. WellFormed(source)
        BY DEF SourceOk
      <4>2. At(source, Front(i)) \in source /\ At(source, Front(i)).index = Front(i)
        BY <1>1, <4>1, AtIs
      <4> QED BY <1>1, <4>2
    <3>2. f \in K
      BY <1>4, <1>6, <3>1, FrontNotBelow
    <3>3. t(f) \in source' /\ t(f).index = Front(i) /\ t(f).type = "dir"
      BY <1>7, <1>8, <3>1, <3>2
    <3> QED BY <1>5, <2>1, <3>3
  <2>2. CASE \E p \in K : q = t(p) /\ p \in source
    <3>1. PICK p \in K : q = t(p) /\ p \in source
      BY <2>2
    <3>2. q.index = p.index /\ p.index \in Indexes
      BY <1>3, <1>7, <3>1, IndicesAre
    <3>3. PICK d \in source : d.index = Front(p.index) /\ d.type = "dir"
      BY <1>3, <1>12, <3>1, <3>2
    <3>4. d.index \in Indexes /\ IsPrefix(d.index, p.index)
      BY <1>12, <3>2, <3>3, FrontIsPrefix, FrontOf
    <3>5. CASE d \in K
      <4>1. t(d) \in source' /\ t(d).index = d.index /\ t(d).type = "dir"
        BY <1>7, <1>8, <3>3, <3>5
      <4> QED BY <3>2, <3>3, <4>1
    <3>6. CASE d \notin K /\ n.type # "dir"
      <4>1. IsPrefix(i, d.index)
        <5>1. IsPrefix(i, i)
          BY <1>4, PrefixByPlace, Places DEF Begins
        <5> QED BY <1>6, <3>3, <3>6, <5>1
      <4>2. IsPrefix(i, p.index)
        BY <1>4, <3>2, <3>4, <4>1, PrefixTransitive
      <4> QED BY <1>6, <3>1, <3>6, <4>2
    <3>7. CASE d \notin K /\ n.type = "dir"
      <4>1. d.index = i
        BY <1>6, <3>3, <3>7
      <4>2. n \in source'
        BY <1>5, <1>8, <3>7
      <4> QED BY <1>5, <3>2, <3>3, <3>7, <4>1, <4>2
    <3> QED BY <3>5, <3>6, <3>7
  <2> QED BY <1>9, <2>1, <2>2
<1>13. WellFormed(source')
  BY <1>10, <1>11, <1>12 DEF WellFormed
<1>14. At(source', <<>>).type = "dir"
  <2>1. WellFormed(source) /\ At(source, <<>>).type = "dir"
    BY DEF SourceOk
  <2>2. PICK f \in source : f.index = <<>> /\ f.type = "dir"
    BY <2>1, AtIs
  <2>3. f \in K
    BY <1>4, <1>6, <2>2, FrontNotBelow
  <2>4. t(f) \in source' /\ t(f).index = <<>> /\ t(f).type = "dir"
    BY <1>7, <1>8, <2>2, <2>3
  <2>5. At(source', t(f).index) = t(f)
    BY <1>11, <2>4, AtPath
  <2> QED BY <2>4, <2>5
<1> QED BY <1>13, <1>14 DEF SourceOk

LEMMA EditedKeeps ==
  ASSUME SourceOk(source), edits \in Nat, NEW d \in 1..NumData,
         NEW p \in source, p.type = "reg",
         source' = (source \ {p}) \cup {Reg(p.index, edits + 1, d)}
  PROVE  SourceOk(source')
<1> DEFINE now == edits + 1
           n == Reg(p.index, now, d)
<1>1. /\ source \subseteq PathSet /\ \A q \in source : q.index \in Indices
      /\ \A a, b \in source : a.index = b.index => a = b
      /\ \A a \in source : a.index # <<>> => \E q \in source : q.index = Front(a.index) /\ q.type = "dir"
  BY DEF SourceOk, WellFormed
<1>2. n \in PathSet /\ n.index = p.index /\ n.type = "reg"
  <2>0. NumData \in Nat
    BY IndicesAssumption
  <2>1. now \in Nat /\ d \in Nat /\ p.index \in Indexes
    <3>1. p.index \in Indexes
      BY <1>1, IndicesAre
    <3>2. now \in Nat /\ d \in Nat
      BY <2>0
    <3> QED BY <3>1, <3>2
  <2> HIDE DEF now
  <2> QED BY <2>1, PathsMade
<1> HIDE DEF n
<1>3. source' = (source \ {p}) \cup {n}
  BY DEF n
<1>4. \A q \in source' : q \in PathSet /\ q.index \in Indices
  BY <1>1, <1>2, <1>3
<1>5. \A a, b \in source' : a.index = b.index => a = b
  BY <1>1, <1>2, <1>3
<1>6. ASSUME NEW a \in source', a.index # <<>>
      PROVE  \E q \in source' : q.index = Front(a.index) /\ q.type = "dir"
  <2>1. PICK b \in source : b.index = a.index
    BY <1>2, <1>3
  <2>2. PICK q \in source : q.index = Front(b.index) /\ q.type = "dir"
    BY <1>1, <1>6, <2>1
  <2>3. q # p
    BY <2>2
  <2> QED BY <1>3, <2>1, <2>2, <2>3
<1>7. WellFormed(source')
  BY <1>4, <1>5, <1>6 DEF WellFormed
<1>8. At(source', <<>>).type = "dir"
  <2>1. WellFormed(source) /\ At(source, <<>>).type = "dir"
    BY DEF SourceOk
  <2>2. PICK f \in source : f.index = <<>> /\ f.type = "dir"
    BY <2>1, AtIs
  <2>3. f \in source'
    BY <1>3, <2>2
  <2>4. At(source', f.index) = f
    BY <1>5, <2>3, AtPath
  <2> QED BY <2>2, <2>4
<1> QED BY <1>7, <1>8 DEF SourceOk

LEMMA InvInit == Init => BackupInv
<1> SUFFICES ASSUME Init PROVE BackupInv
  OBVIOUS
<1>1. SourceOk(source)
  BY FirstSource
<1>2. edits \in Nat /\ sets = <<>>
  BY DEF Init
<1>3. SetsOk(sets)
  BY <1>2, NoChain DEF SetsOk
<1> QED BY <1>1, <1>2, <1>3 DEF BackupInv

LEMMA InvNext == BackupInv /\ [Next]_vars => BackupInv'
<1> SUFFICES ASSUME BackupInv, [Next]_vars PROVE BackupInv'
  OBVIOUS
<1>1. /\ SourceOk(source) /\ edits \in Nat
      /\ SetsOk(sets) /\ (sets # <<>> => SetsFit(sets, taken, late, astray))
  BY DEF BackupInv
<1>2. FaultOk(NoFault)
  BY IndicesAre DEF NoFault, Fault, FaultSet, FaultOk
<1>3. ASSUME NEW p \in source
      PROVE  p.index \in Indices /\ p.data \in Nat
  BY <1>1 DEF SourceOk, WellFormed, PathSet
<1>4. CASE Edit
  <2>1. SourceOk(source')
    BY <1>1, <1>4, EditKeeps
  <2>2. /\ edits' \in Nat /\ sets' = sets
        /\ taken' = taken /\ late' = late /\ astray' = astray
    BY <1>1, <1>4 DEF Edit
  <2> QED BY <1>1, <2>1, <2>2 DEF BackupInv
<1>5. CASE QuietRun
  <2>1. PICK full \in BOOLEAN : TakeBackup(full, NoFault)
    BY <1>5 DEF QuietRun
  <2>2. SetsOk(sets') /\ SetsFit(sets', taken', late', astray')
    BY <1>1, <1>2, <2>1, RunFits
  <2>3. source' = source /\ edits' = edits
    BY <1>5 DEF QuietRun
  <2> QED BY <1>1, <2>2, <2>3 DEF BackupInv
<1>6. CASE FaultyRun
  <2>1. \E full \in BOOLEAN : \E fault : FaultOk(fault) /\ TakeBackup(full, fault)
    <3>1. PICK full \in BOOLEAN, p \in source :
            /\ p.index # <<>>
            /\ \/ TakeBackup(full, Fault("locked", p.index, 0, 0))
               \/ TakeBackup(full, Fault("fails", p.index, 0, 0))
               \/ \E signed \in {Cut, p.data} : TakeBackup(full, Fault("cut", p.index, Cut, signed))
      BY <1>6 DEF FaultyRun
    <3>2. PICK kind \in {"locked", "fails", "cut"}, signed \in {0, p.data} :
            TakeBackup(full, Fault(kind, p.index, 0, signed))
      BY <3>1 DEF Cut
    <3>3. FaultOk(Fault(kind, p.index, 0, signed))
      BY <1>3, <3>1 DEF FaultOk, FaultSet, Fault
    <3> QED BY <3>2, <3>3
  <2>2. SetsOk(sets') /\ SetsFit(sets', taken', late', astray')
    BY <1>1, <2>1, RunFits
  <2>3. source' = source /\ edits' = edits
    BY <1>6 DEF FaultyRun
  <2> QED BY <1>1, <2>2, <2>3 DEF BackupInv
<1>7. CASE EditedRun
  <2>1. PICK full \in BOOLEAN, d \in 1..NumData, p \in {q \in source : q.type = "reg"} :
           /\ \E read \in {d, p.data} : TakeBackup(full, Fault("edited", p.index, read, d))
           /\ source' = (source \ {p}) \cup {Reg(p.index, edits + 1, d)}
    BY <1>7 DEF EditedRun
  <2>2. PICK read \in {d, p.data} : TakeBackup(full, Fault("edited", p.index, read, d))
    BY <2>1
  <2>3. d \in Nat
    BY IndicesAssumption
  <2>4. FaultOk(Fault("edited", p.index, read, d))
    BY <1>3, <2>3 DEF FaultOk, FaultSet, Fault
  <2>5. SetsOk(sets') /\ SetsFit(sets', taken', late', astray')
    BY <1>1, <2>2, <2>4, RunFits
  <2>6. SourceOk(source')
    BY <1>1, <2>1, EditedKeeps
  <2>7. edits' \in Nat
    BY <1>1, <1>7 DEF EditedRun
  <2> QED BY <2>5, <2>6, <2>7 DEF BackupInv
<1>8. CASE UNCHANGED vars
  <2>1. /\ source' = source /\ edits' = edits /\ sets' = sets
        /\ taken' = taken /\ late' = late /\ astray' = astray
    BY <1>8 DEF vars
  <2> QED BY <1>1, <2>1 DEF BackupInv
<1> QED BY <1>4, <1>5, <1>6, <1>7, <1>8 DEF Next

-----------------------------------------------------------------------------
(* What follows from the invariant. *)

\* The chain of a set, and what is restored from it.
LEMMA RestoredFrom ==
  ASSUME NEW k, NEW R, WholeChain(R, DiffsOf(ChainIn(sets, k)))
  PROVE  LET P == ChainTree(R)
         IN  /\ WellFormed(P) /\ Restored(k, <<>>) = P
             /\ {e.path : e \in RopIter(k, <<>>)} = P
             /\ \A r \in Indices : Restored(k, r) = Below(P, r)
<1>1. ChainOf(k) = ChainIn(sets, k)
  BY DEF ChainOf, ChainIn
<1> DEFINE P == ChainTree(R)
<1>2. WholeChain(R, DiffsOf(ChainOf(k)))
  BY <1>1
<1>3. \A r \in Indexes : Restored(k, r) = Below(P, r) /\ {e.path : e \in RopIter(k, r)} = Below(P, r)
  BY <1>2, RestoredIs
<1>4. WellFormed(P)
  BY <1>2 DEF WholeChain
<1> HIDE DEF P
<1>5. Below(P, <<>>) = P
  BY <1>4, BelowRoot
<1>6. \A r \in Indices : Restored(k, r) = Below(P, r)
  BY <1>3, IndicesAre
<1>7. Restored(k, <<>>) = P /\ {e.path : e \in RopIter(k, <<>>)} = P
  BY <1>3, <1>5, IndicesAre
<1> QED BY <1>4, <1>6, <1>7 DEF P

LEMMA NewestFits ==
  ASSUME BackupInv, Newest > 0
  PROVE  /\ SourceOk(source) /\ SetsOk(sets)
         /\ \E R : /\ ChainFits(sets, R, late \cup astray) /\ SaysSeen(sets, R, taken, astray)
                  /\ WellFormed(ChainTree(R)) /\ Whole = ChainTree(R)
                  /\ {e.path : e \in RopIter(Newest, <<>>)} = ChainTree(R)
                  /\ \A r \in Indices : Restored(Newest, r) = Below(ChainTree(R), r)
<1>1. sets # <<>>
  <2>1. sets = <<>> => Len(sets) = 0
    BY EmptySeq
  <2>2. ~ (0 > 0)
    OBVIOUS
  <2> QED BY <2>1, <2>2 DEF Newest
<1>2. SetsFit(sets, taken, late, astray) /\ SourceOk(source) /\ SetsOk(sets)
  BY <1>1 DEF BackupInv
<1>3. PICK R : ChainFits(sets, R, late \cup astray) /\ SaysSeen(sets, R, taken, astray)
  BY <1>2 DEF SetsFit
<1>4. WholeChain(R, DiffsOf(ChainIn(sets, Newest)))
  BY <1>3 DEF ChainFits, LastChain, Newest
<1> QED BY <1>2, <1>3, <1>4, RestoredFrom DEF Whole

\* What the newest set says of a path.
LEMMA FitSays ==
  ASSUME NEW T, SourceOk(T), NEW fault, FaultOk(fault), NEW P, NEW Q, WellFormed(Q), NEW S,
         TreeWith(P, Selected(T, fault), Q, fault, S), NEW i \in Indices
  PROVE  \/ At(P, i) = At(T, i)
         \/ At(P, i) = At(Q, i) /\ Looks(At(T, i), At(Q, i))
         \/ Met(fault, i)
         \/ i \in S
<1> DEFINE n == At(Selected(T, fault), i)
           o == At(Q, i)
<1> SUFFICES ASSUME ~ Met(fault, i), i \notin S
             PROVE  At(P, i) = At(T, i) \/ (At(P, i) = o /\ Looks(At(T, i), o))
  OBVIOUS
<1>1. IsPrefix(i, i)
  BY IndicesAre, PrefixByPlace, Places DEF Begins
<1>2. fault.kind \in {"locked", "fails", "cut", "edited"} => ~ IsPrefix(fault.index, i)
  BY DEF Met, NoFault, Fault
<1>3. n = At(T, i)
  BY <1>2, SelectedOk
<1>4. At(P, i) = NewAt(n, o, fault)
  BY DEF TreeWith
<1>5. WellFormed(T)
  BY DEF SourceOk
<1>6. n.index = i /\ (n.type = "none" \/ n \in PathSet)
  BY <1>3, <1>5, AtIs
<1> HIDE DEF n, o
<1>7. CASE n.type = "none"
  BY <1>3, <1>4, <1>7 DEF NewAt
<1>8. CASE n.type # "none" /\ Looks(n, o)
  BY <1>3, <1>4, <1>8 DEF NewAt
<1>9. CASE n.type # "none" /\ ~ Looks(n, o)
  <2>1. ~ (fault.kind \in {"fails", "cut", "edited"} /\ fault.index = n.index)
    BY <1>1, <1>2, <1>6
  <2>2. NewAt(n, o, fault) = [n EXCEPT !.data = DataRead(n, fault)]
    BY <1>9, <2>1 DEF NewAt
  <2>3. n \in PathSet /\ fault \in FaultSet
    BY <1>6, <1>9 DEF FaultOk
  <2>4. [n EXCEPT !.data = DataRead(n, fault)] = n
    BY <2>1, <2>3, ReadIs
  <2> QED BY <1>3, <1>4, <2>2, <2>4
<1> QED BY <1>7, <1>8, <1>9

\* verify compares all that a path has.
LEMMA ComparesAll ==
  ASSUME NEW i, NEW a, NEW b, a \in PathSet \/ a = Absent(i), b \in PathSet \/ b = Absent(i),
         a.index = i, b.index = i
  PROVE  CompareVerbose(a, b) <=> a = b
<1>1. Absent(i).type = "none" /\ \A p \in PathSet : p.type # "none"
  BY DEF Absent, Path, PathSet
<1>2. CASE a = Absent(i) \/ b = Absent(i)
  BY <1>1, <1>2 DEF CompareVerbose, Looks
<1>3. CASE a \in PathSet /\ b \in PathSet
  <2>1. CompareVerbose(a, b) => a.type = b.type /\ a.stamp = b.stamp /\ a.data = b.data
    BY <1>3 DEF CompareVerbose, Looks, PathSet
  <2>2. a = Path(a.index, a.type, a.stamp, a.data) /\ b = Path(b.index, b.type, b.stamp, b.data)
    BY <1>3, PathIs
  <2>3. CompareVerbose(a, b) => a = b
    BY <2>1, <2>2
  <2>4. a = b => CompareVerbose(a, b)
    BY DEF CompareVerbose, Looks
  <2> QED BY <2>3, <2>4
<1> QED BY <1>2, <1>3

LEMMA InvRestores == BackupInv => RestoresSource
<1> SUFFICES ASSUME BackupInv, Newest > 0
             PROVE  LET whole  == Whole
                        before == IF sets[Newest].full THEN {} ELSE Restored(Newest - 1, <<>>)
                    IN  \A i \in Indices :
                          \/ At(whole, i) = At(taken.source, i)
                          \/ At(whole, i) = At(before, i) /\ Looks(At(taken.source, i), At(before, i))
                          \/ Met(taken.fault, i)
                          \/ i \in astray
  BY DEF RestoresSource
<1> DEFINE before == IF sets[Newest].full THEN {} ELSE Restored(Newest - 1, <<>>)
<1>1. PICK R : SaysSeen(sets, R, taken, astray) /\ Whole = ChainTree(R)
  BY NewestFits
<1>2. PICK B : /\ WholeChain(B, ChainBefore(sets))
               /\ TreeWith(ChainTree(R), Selected(taken.source, taken.fault), ChainTree(B),
                           taken.fault, astray)
  BY <1>1 DEF SaysSeen
<1>3. before = ChainTree(B)
  <2>1. CASE sets[Newest].full
    <3>1. ChainBefore(sets) = <<>>
      BY <2>1 DEF ChainBefore, Newest
    <3>2. B \in Seq(SUBSET EntrySet) /\ Len(B) = Len(<<>>)
      BY <1>2, <3>1 DEF WholeChain, Merges, Deltas
    <3>3. B = <<>>
      BY <3>2, EmptySeq
    <3> QED BY <2>1, <3>3, NoChain
  <2>2. CASE ~ sets[Newest].full
    <3>1. ChainBefore(sets) = DiffsOf(ChainIn(sets, Newest - 1))
      BY <2>2 DEF ChainBefore, Newest
    <3>2. Restored(Newest - 1, <<>>) = ChainTree(B)
      BY <1>2, <3>1, RestoredFrom
    <3> QED BY <2>2, <3>2
  <2> QED BY <2>1, <2>2
<1> HIDE DEF before
<1>4. SourceOk(taken.source) /\ FaultOk(taken.fault) /\ WellFormed(ChainTree(B))
  BY <1>1, <1>2 DEF SaysSeen, WholeChain
<1>5. \A i \in Indices :
        \/ At(Whole, i) = At(taken.source, i)
        \/ At(Whole, i) = At(before, i) /\ Looks(At(taken.source, i), At(before, i))
        \/ Met(taken.fault, i)
        \/ i \in astray
  BY <1>1, <1>2, <1>3, <1>4, FitSays
<1> QED BY <1>5 DEF before

LEMMA InvSubtree == BackupInv => SubtreeRestored
<1> SUFFICES ASSUME BackupInv, Newest > 0, NEW r \in Indices
             PROVE  Restored(Newest, r) = Below(Whole, r)
  BY DEF SubtreeRestored
<1> QED BY NewestFits

LEMMA InvVerify == BackupInv => VerifyExact
<1> SUFFICES ASSUME BackupInv, Newest > 0
             PROVE  Differences(Newest) = {i \in Indices : At(source, i) # At(Whole, i)}
  BY DEF VerifyExact
<1> DEFINE P == Whole
<1>1. WellFormed(P) /\ {e.path : e \in RopIter(Newest, <<>>)} = P /\ WellFormed(source)
  BY NewestFits DEF SourceOk
<1> HIDE DEF P
<1>2. Differences(Newest) = {i \in Indices : ~ CompareVerbose(At(P, i), At(source, i))}
  BY <1>1 DEF Differences
<1>3. ASSUME NEW i \in Indices
      PROVE  CompareVerbose(At(P, i), At(source, i)) <=> At(P, i) = At(source, i)
  <2>1. /\ At(P, i).index = i /\ (At(P, i) \in PathSet \/ At(P, i) = Absent(i))
        /\ At(source, i).index = i /\ (At(source, i) \in PathSet \/ At(source, i) = Absent(i))
    BY <1>1, AtIs
  <2> QED BY <2>1, ComparesAll
<1> QED BY <1>1, <1>2, <1>3 DEF P

LEMMA InvPatches == BackupInv => PatchAgrees
<1> DEFINE c == ChainOf(Newest)
           f == CHOOSE g : g = [n \in 0..Len(c) |->
                              IF n = 0 THEN {} ELSE Patch(g[n-1], c[n].diff)]
<1> SUFFICES ASSUME BackupInv, Newest > 0
             PROVE  NoStamp(f[Len(c)]) = NoStamp(Whole)
  BY DEF PatchAgrees
<1>1. c = ChainIn(sets, Newest)
  BY DEF ChainOf, ChainIn
<1>2. WellFormed(Whole)
  BY NewestFits
<1>3. PatchesWell(c, Whole)
  BY <1>1, NewestFits DEF ChainFits, Newest
<1>4. Len(c) \in Nat
  <2>1. SetsOk(sets) /\ Len(sets) \in Nat
    BY LenProperties DEF BackupInv, SetsOk
  <2>2. Newest \in 1..Len(sets)
    BY <2>1 DEF Newest
  <2>3. \E h \in 1..Newest : ChainFrom(sets, Newest, h)
    BY <2>1, <2>2, ChainIs
  <2> QED BY <1>1, <2>3, LenProperties DEF ChainFrom
<1> HIDE DEF c
<1>5. PatchUpTo(f, c, Len(c))
  <2>1. f = CHOOSE g : PatchUpTo(g, c, Len(c))
    BY DEF PatchUpTo
  <2> HIDE DEF f
  <2> QED BY <1>4, <2>1, PatchExists
<1> HIDE DEF f
<1>6. WellFormed(f[Len(c)]) /\ AlikeTrees(f[Len(c)], Whole)
  BY <1>2, <1>3, <1>5 DEF PatchesWell
<1> QED BY <1>2, <1>6, AlikeNoStamp

\* In every state the source is a tree; the sets of the newest chain come to a
\* tree, which restoring and patching give; the signatures tell all of it, but for
\* the data of the files whose signature is, or once was, of more than is stored
\* (FileWithSignature.close, diffdir.py); and it is what the last run saw of the
\* source, but for the files that such a signature has led astray.
THEOREM BackupInvHolds == Spec => []BackupInv
<1> QED BY InvInit, InvNext, PTL DEF Spec

\* What a restore gives is what the last run (diffdir.get_delta_iter) saw, for
\* all trees and any history of changes, sets and errors, but for the files that
\* are patched with a difference to a signature of other data.
THEOREM RestoresSourceHolds == Spec => []RestoresSource
<1> QED BY BackupInvHolds, InvRestores, PTL

\* A restore of one path (patchdir.tarfiles2rop_iter with a restore index) gives
\* what the restore of the whole backup has below that path.
THEOREM SubtreeRestoredHolds == Spec => []SubtreeRestored
<1> QED BY BackupInvHolds, InvSubtree, PTL

\* verify with --compare-data names the paths that differ, and no others.
THEOREM VerifyExactHolds == Spec => []VerifyExact
<1> QED BY BackupInvHolds, InvVerify, PTL

\* Patching a tree with the deltas of a chain, one set after the other
\* (patchdir.Patch), gives the paths that restoring the chain at once gives.
THEOREM PatchAgreesHolds == Spec => []PatchAgrees
<1> QED BY BackupInvHolds, InvPatches, PTL
=============================================================================
