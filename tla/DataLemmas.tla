----------------------------- MODULE DataLemmas -----------------------------
(***************************************************************************)
(* Facts about numbers, finite sets and sequences that several proofs use. *)
(***************************************************************************)
EXTENDS Integers, Sequences, FiniteSets, SequencesExt, FiniteSetTheorems,
        SequenceTheorems, WellFoundedInduction, TLAPS

\* A set of small numbers has a least one.
LEMMA LeastOf ==
    ASSUME NEW S, S # {}, S \subseteq Nat
    PROVE  Min(S) \in S /\ \A n \in S : Min(S) <= n
<1> DEFINE T == {1 .. n : n \in S}
<1>1. T \subseteq FiniteSubsetsOf(Nat)
  BY FS_Interval DEF FiniteSubsetsOf
<1>2. IsWellFoundedOn(StrictSubsetOrdering(Nat), FiniteSubsetsOf(Nat))
  BY FS_StrictSubsetOrderingWellFounded
<1>3. PICK x \in T : \A y \in T : ~(<<y, x>> \in StrictSubsetOrdering(Nat))
  <2>1. T # {}
    OBVIOUS
  <2> HIDE DEF T
  <2> QED
    BY <1>1, <1>2, <2>1, WFMin
<1>4. PICK m \in S : x = 1 .. m
  OBVIOUS
<1>5. ASSUME NEW n \in S PROVE m <= n
  <2>1. 1 .. n \in T
    OBVIOUS
  <2>2. ASSUME n < m PROVE FALSE
    <3>1. 1 .. n \subseteq 1 .. m /\ m \in 1 .. m /\ m \notin 1 .. n
      BY <2>2
    <3>2. <<1 .. n, 1 .. m>> \in StrictSubsetOrdering(Nat)
      BY <3>1 DEF StrictSubsetOrdering
    <3> QED
      BY <1>3, <1>4, <2>1, <3>2
  <2> QED
    BY <2>2
<1> QED
  BY <1>5 DEF Min

\* An element more at the end.
LEMMA Longer ==
    ASSUME NEW S, NEW q \in Seq(S), NEW e \in S
    PROVE  /\ Append(q, e) \in Seq(S) /\ Len(Append(q, e)) = Len(q) + 1
           /\ \A j \in 1 .. Len(q) : Append(q, e)[j] = q[j]
           /\ Append(q, e)[Len(q) + 1] = e
OBVIOUS

\* A sequence behind another.
LEMMA Joined ==
    ASSUME NEW S, NEW a \in Seq(S), NEW b \in Seq(S)
    PROVE  /\ a \o b \in Seq(S) /\ Len(a \o b) = Len(a) + Len(b)
           /\ \A j \in 1 .. Len(a) : (a \o b)[j] = a[j]
           /\ \A j \in 1 .. Len(b) : (a \o b)[Len(a) + j] = b[j]
OBVIOUS

\* A sequence cut in two.
LEMMA Cut ==
    ASSUME NEW S, NEW q \in Seq(S), NEW n \in Nat, n <= Len(q)
    PROVE  /\ SubSeq(q, 1, n) \in Seq(S) /\ Len(SubSeq(q, 1, n)) = n
           /\ \A j \in 1 .. n : SubSeq(q, 1, n)[j] = q[j]
           /\ SubSeq(q, n + 1, Len(q)) \in Seq(S)
           /\ Len(SubSeq(q, n + 1, Len(q))) = Len(q) - n
           /\ \A j \in 1 .. Len(q) - n : SubSeq(q, n + 1, Len(q))[j] = q[n + j]
<1>1. \A j \in 1 .. Len(q) : q[j] \in S
  OBVIOUS
<1>2. /\ SubSeq(q, 1, n) \in Seq(S)
      /\ Len(SubSeq(q, 1, n)) = IF 1 <= n THEN n - 1 + 1 ELSE 0
      /\ \A j \in 1 .. n - 1 + 1 : SubSeq(q, 1, n)[j] = q[1 + j - 1]
  BY <1>1, SubSeqProperties
<1>3. PICK m \in Int, l \in Int : m = n + 1 /\ l = Len(q)
  OBVIOUS
<1>4. \A j \in m .. l : q[j] \in S
  BY <1>1, <1>3
<1>5. /\ SubSeq(q, m, l) \in Seq(S)
      /\ Len(SubSeq(q, m, l)) = IF m <= l THEN l - m + 1 ELSE 0
      /\ \A j \in 1 .. l - m + 1 : SubSeq(q, m, l)[j] = q[m + j - 1]
  BY <1>4, SubSeqProperties
<1> QED
  BY <1>2, <1>3, <1>5

\* An element less: those behind it move up.
LEMMA MovedUp ==
    ASSUME NEW S, NEW q \in Seq(S), NEW i \in 1 .. Len(q)
    PROVE  /\ RemoveAt(q, i) \in Seq(S) /\ Len(RemoveAt(q, i)) = Len(q) - 1
           /\ \A j \in 1 .. Len(RemoveAt(q, i)) :
                \E k \in 1 .. Len(q) : RemoveAt(q, i)[j] = q[k]
           /\ \A j \in 1 .. Len(q) - 1 :
                RemoveAt(q, i)[j] = q[IF j < i THEN j ELSE j + 1]
<1>1. PICK n \in Nat : n = i - 1 /\ n + 1 = i /\ n < Len(q)
  OBVIOUS
<1>2. i \in Nat /\ i <= Len(q) /\ Len(q) \in Nat
  OBVIOUS
<1>3. PICK a \in Seq(S) : /\ a = SubSeq(q, 1, n) /\ Len(a) = n
                          /\ \A j \in 1 .. n : a[j] = q[j]
  <2>1. /\ SubSeq(q, 1, n) \in Seq(S) /\ Len(SubSeq(q, 1, n)) = n
        /\ \A j \in 1 .. n : SubSeq(q, 1, n)[j] = q[j]
    BY <1>1, Cut
  <2> DEFINE c == SubSeq(q, 1, n)
  <2>2. c = SubSeq(q, 1, n) /\ c \in Seq(S) /\ Len(c) = n /\ \A j \in 1 .. n : c[j] = q[j]
    BY <2>1
  <2> HIDE DEF c
  <2> QED
    BY <2>2
<1>4. PICK b \in Seq(S) : /\ b = SubSeq(q, i + 1, Len(q)) /\ Len(b) = Len(q) - i
                          /\ \A j \in 1 .. Len(q) - i : b[j] = q[i + j]
  <2> DEFINE c == SubSeq(q, i + 1, Len(q))
  <2>1. /\ c \in Seq(S) /\ Len(c) = Len(q) - i
        /\ \A j \in 1 .. Len(q) - i : c[j] = q[i + j]
    BY <1>2, Cut
  <2>2. c = SubSeq(q, i + 1, Len(q))
    OBVIOUS
  <2> HIDE DEF c
  <2> QED
    BY <2>1, <2>2
<1>5. RemoveAt(q, i) = a \o b
  BY <1>1, <1>3, <1>4 DEF RemoveAt
<1>6. /\ a \o b \in Seq(S) /\ Len(a \o b) = Len(a) + Len(b)
      /\ \A j \in 1 .. Len(a) : (a \o b)[j] = a[j]
      /\ \A j \in 1 .. Len(b) : (a \o b)[Len(a) + j] = b[j]
  BY Joined
<1>7. Len(a \o b) = Len(q) - 1
  <2>1. Len(a \o b) = n + (Len(q) - i)
    BY <1>3, <1>4, <1>6
  <2> QED
    BY <1>1, <1>2, <2>1
<1>8. ASSUME NEW j \in 1 .. Len(q) - 1
      PROVE  /\ (a \o b)[j] = q[IF j < i THEN j ELSE j + 1]
             /\ \E k \in 1 .. Len(q) : (a \o b)[j] = q[k]
  <2>1. CASE j <= n
    <3>1. (a \o b)[j] = q[j]
      BY <1>1, <1>3, <1>6, <2>1
    <3>2. j < i /\ j \in 1 .. Len(q)
      BY <1>1, <2>1
    <3> QED
      BY <3>1, <3>2
  <2>2. CASE j > n
    <3>1. PICK l \in 1 .. Len(q) - i : n + l = j /\ i + l = j + 1
      <4>1. j - n \in 1 .. Len(q) - i /\ n + (j - n) = j /\ i + (j - n) = j + 1
        BY <1>1, <1>2, <2>2
      <4> QED
        BY <4>1
    <3>2. (a \o b)[n + l] = b[l] /\ b[l] = q[i + l]
      BY <1>3, <1>4, <1>6
    <3>3. (a \o b)[j] = q[i + l]
      BY <3>1, <3>2
    <3>4. i + l \in 1 .. Len(q) /\ i + l = j + 1 /\ ~(j < i)
      BY <1>1, <1>2, <2>2, <3>1
    <3> QED
      BY <3>3, <3>4
  <2>3. j <= n \/ j > n
    BY <1>1, <1>2
  <2> QED
    BY <2>1, <2>2, <2>3
<1> QED
  BY <1>5, <1>6, <1>7, <1>8

\* An element less: the others are as they were.
LEMMA Shorter ==
    ASSUME NEW S, NEW q \in Seq(S), NEW i \in 1 .. Len(q)
    PROVE  /\ RemoveAt(q, i) \in Seq(S) /\ Len(RemoveAt(q, i)) = Len(q) - 1
           /\ \A j \in 1 .. Len(RemoveAt(q, i)) :
                \E k \in 1 .. Len(q) : RemoveAt(q, i)[j] = q[k]
BY MovedUp
=============================================================================
