---------------------------- MODULE IndexLemmas ----------------------------
(* What the other proofs need of sets of indices and of sequences.         *)
EXTENDS Integers, SequencesExt, SequenceTheorems, FiniteSetTheorems,
        WellFoundedInduction, TLAPS

(* A nonempty set of indices has a largest one.                            *)
LEMMA MaxOfIndices ==
  ASSUME NEW lo \in Int, NEW hi \in Int, NEW S \in SUBSET (lo .. hi), S # {}
  PROVE  Max(S) \in S /\ \A y \in S : Max(S) >= y
<1> DEFINE From(x) == {y \in S : y >= x}
           Tails   == {From(x) : x \in S}
<1>1. IsWellFoundedOn(StrictSubsetOrdering(lo .. hi), SUBSET (lo .. hi))
  <2>1. IsFiniteSet(lo .. hi)
    BY FS_Interval
  <2> QED BY <2>1, FS_FiniteSubsetsOfFinite, FS_StrictSubsetOrderingWellFounded
<1>2. Tails \subseteq SUBSET (lo .. hi) /\ Tails # {}
  OBVIOUS
<1>3. PICK T \in Tails :
        \A U \in Tails : ~(<<U, T>> \in StrictSubsetOrdering(lo .. hi))
  <2> HIDE DEF Tails
  <2> QED BY <1>1, <1>2, WFMin
<1>4. PICK x \in S : T = From(x)
  BY <1>3
<1>5. \A y \in S : x >= y
  <2> SUFFICES ASSUME NEW y \in S, ~(x >= y) PROVE FALSE
    OBVIOUS
  <2>0. S \subseteq Int /\ x \in Int /\ y \in Int /\ x < y
    OBVIOUS
  <2>1. From(y) \subseteq From(x) /\ x \in From(x) /\ x \notin From(y)
    <3>1. x \in From(x)
      BY <2>0
    <3>2. x \notin From(y)
      BY <2>0
    <3>3. ASSUME NEW z \in S, z >= y PROVE z >= x
      BY <3>3, <2>0
    <3> QED BY <3>1, <3>2, <3>3 DEF From
  <2>2. <<From(y), From(x)>> \in StrictSubsetOrdering(lo .. hi)
    BY <2>1 DEF StrictSubsetOrdering
  <2> QED BY <2>2, <1>3, <1>4
<1> QED BY <1>5 DEF Max

(* A nonempty set of indices has a smallest one.                           *)
LEMMA MinOfIndices ==
  ASSUME NEW lo \in Int, NEW hi \in Int, NEW S \in SUBSET (lo .. hi), S # {}
  PROVE  Min(S) \in S /\ \A y \in S : y >= Min(S)
<1> DEFINE UpTo(x) == {y \in S : x >= y}
           Heads   == {UpTo(x) : x \in S}
<1>1. IsWellFoundedOn(StrictSubsetOrdering(lo .. hi), SUBSET (lo .. hi))
  <2>1. IsFiniteSet(lo .. hi)
    BY FS_Interval
  <2> QED BY <2>1, FS_FiniteSubsetsOfFinite, FS_StrictSubsetOrderingWellFounded
<1>2. Heads \subseteq SUBSET (lo .. hi) /\ Heads # {}
  OBVIOUS
<1>3. PICK T \in Heads :
        \A U \in Heads : ~(<<U, T>> \in StrictSubsetOrdering(lo .. hi))
  <2> HIDE DEF Heads
  <2> QED BY <1>1, <1>2, WFMin
<1>4. PICK x \in S : T = UpTo(x)
  BY <1>3
<1>5. \A y \in S : y >= x
  <2> SUFFICES ASSUME NEW y \in S, ~(y >= x) PROVE FALSE
    OBVIOUS
  <2>0. S \subseteq Int /\ x \in Int /\ y \in Int /\ y < x
    OBVIOUS
  <2>1. UpTo(y) \subseteq UpTo(x) /\ x \in UpTo(x) /\ x \notin UpTo(y)
    <3>1. x \in UpTo(x)
      BY <2>0
    <3>2. x \notin UpTo(y)
      BY <2>0
    <3>3. ASSUME NEW z \in S, y >= z PROVE x >= z
      BY <3>3, <2>0
    <3> QED BY <3>1, <3>2, <3>3 DEF UpTo
  <2>2. <<UpTo(y), UpTo(x)>> \in StrictSubsetOrdering(lo .. hi)
    BY <2>1 DEF StrictSubsetOrdering
  <2> QED BY <2>2, <1>3, <1>4
<1> QED BY <1>5 DEF Min

(* RemoveAt closes the gap.                                                *)
LEMMA RemoveAtProperties ==
  ASSUME NEW T, NEW s \in Seq(T), NEW k \in 1 .. Len(s)
  PROVE  /\ RemoveAt(s, k) \in Seq(T)
         /\ Len(RemoveAt(s, k)) = Len(s) - 1
         /\ \A i \in 1 .. Len(s) - 1 :
              RemoveAt(s, k)[i] = IF i < k THEN s[i] ELSE s[i + 1]
<1> DEFINE l == SubSeq(s, 1, k - 1)
           r == SubSeq(s, k + 1, Len(s))
<1>0. Len(s) \in Nat /\ \A i \in 1 .. Len(s) : s[i] \in T
  BY LenProperties
<1>1. /\ l \in Seq(T) /\ Len(l) = k - 1
      /\ \A i \in 1 .. k - 1 : l[i] = s[i]
  <2>1. \A i \in 1 .. k - 1 : s[i] \in T
    BY <1>0
  <2>2. /\ l \in Seq(T)
        /\ Len(l) = IF 1 <= k - 1 THEN (k - 1) - 1 + 1 ELSE 0
        /\ \A i \in 1 .. (k - 1) - 1 + 1 : l[i] = s[1 + i - 1]
    BY <1>0, <2>1, SubSeqProperties
  <2> QED BY <2>2, <1>0
<1>2. /\ r \in Seq(T) /\ Len(r) = Len(s) - k
      /\ \A i \in 1 .. Len(s) - k : r[i] = s[k + i]
  <2>1. \A i \in k + 1 .. Len(s) : s[i] \in T
    BY <1>0
  <2>2. /\ r \in Seq(T)
        /\ Len(r) = IF k + 1 <= Len(s) THEN Len(s) - (k + 1) + 1 ELSE 0
        /\ \A i \in 1 .. Len(s) - (k + 1) + 1 : r[i] = s[k + 1 + i - 1]
    BY <1>0, <2>1, SubSeqProperties
  <2> QED BY <2>2, <1>0
<1>3. /\ RemoveAt(s, k) = l \o r
      /\ l \o r \in Seq(T)
      /\ Len(l \o r) = Len(l) + Len(r)
      /\ \A i \in 1 .. Len(l) + Len(r) :
           (l \o r)[i] = IF i <= Len(l) THEN l[i] ELSE r[i - Len(l)]
  <2>1. RemoveAt(s, k) = l \o r
    BY DEF RemoveAt
  <2> HIDE DEF l, r
  <2> QED BY <2>1, <1>1, <1>2, ConcatProperties
<1> HIDE DEF l, r
<1>4. ASSUME NEW i \in 1 .. Len(s) - 1
      PROVE  (l \o r)[i] = IF i < k THEN s[i] ELSE s[i + 1]
  <2>1. (l \o r)[i] = IF i <= k - 1 THEN l[i] ELSE r[i - (k - 1)]
    BY <1>0, <1>1, <1>2, <1>3
  <2>2. CASE i < k
    BY <2>1, <2>2, <1>0, <1>1
  <2>3. CASE i >= k
    <3>1. i - (k - 1) \in 1 .. Len(s) - k /\ k + (i - (k - 1)) = i + 1
      BY <2>3, <1>0
    <3> QED BY <2>1, <2>3, <3>1, <1>0, <1>2
  <2>4. i < k \/ i >= k
    BY <1>0
  <2> QED BY <2>2, <2>3, <2>4
<1> QED BY <1>0, <1>1, <1>2, <1>3, <1>4

(* Front drops the last element.                                           *)
LEMMA FrontShape ==
  ASSUME NEW T, NEW s \in Seq(T), s # <<>>
  PROVE  /\ Len(s) \in Nat \ {0}
         /\ Front(s) \in Seq(T) /\ Len(Front(s)) = Len(s) - 1
         /\ \A i \in 1 .. Len(s) - 1 : Front(s)[i] = s[i]
<1>0. Len(s) \in Nat \ {0} /\ \A i \in 1 .. Len(s) : s[i] \in T
  BY LenProperties
<1>1. \A i \in 1 .. Len(s) - 1 : s[i] \in T
  BY <1>0
<1>2. /\ SubSeq(s, 1, Len(s) - 1) \in Seq(T)
      /\ Len(SubSeq(s, 1, Len(s) - 1)) =
           IF 1 <= Len(s) - 1 THEN (Len(s) - 1) - 1 + 1 ELSE 0
      /\ \A i \in 1 .. (Len(s) - 1) - 1 + 1 :
           SubSeq(s, 1, Len(s) - 1)[i] = s[1 + i - 1]
  BY <1>0, <1>1, SubSeqProperties
<1>3. Front(s) = SubSeq(s, 1, Len(s) - 1)
  BY DEF Front
<1> DEFINE f == Front(s)
<1>4. /\ f \in Seq(T)
      /\ Len(f) = IF 1 <= Len(s) - 1 THEN (Len(s) - 1) - 1 + 1 ELSE 0
      /\ \A i \in 1 .. (Len(s) - 1) - 1 + 1 : f[i] = s[1 + i - 1]
  BY <1>2, <1>3
<1> HIDE DEF f
<1>5. Len(f) = Len(s) - 1
  <2> DEFINE n == Len(s)
  <2>1. n \in Nat /\ n >= 1 /\ Len(f) = IF 1 <= n - 1 THEN (n - 1) - 1 + 1 ELSE 0
    BY <1>0, <1>4
  <2> SUFFICES Len(f) = n - 1
    OBVIOUS
  <2> HIDE DEF n
  <2> QED BY <2>1
<1>6. ASSUME NEW i \in 1 .. Len(s) - 1 PROVE f[i] = s[i]
  <2>1. i \in 1 .. (Len(s) - 1) - 1 + 1 /\ 1 + i - 1 = i
    BY <1>0
  <2> QED BY <1>4, <2>1
<1> QED BY <1>0, <1>4, <1>5, <1>6 DEF f

(* An element put in front moves the others up by one.                     *)
LEMMA PushFront ==
  ASSUME NEW T, NEW s \in Seq(T), NEW x \in T
  PROVE  /\ <<x>> \o s \in Seq(T) /\ Len(<<x>> \o s) = Len(s) + 1
         /\ (<<x>> \o s)[1] = x
         /\ \A i \in 1 .. Len(s) : (<<x>> \o s)[i + 1] = s[i]
<1> DEFINE h == <<x>>
<1>0. Len(s) \in Nat /\ h \in Seq(T) /\ Len(h) = 1 /\ h[1] = x
  BY LenProperties
<1> HIDE DEF h
<1>1. /\ h \o s \in Seq(T) /\ Len(h \o s) = Len(h) + Len(s)
      /\ \A i \in 1 .. Len(h) + Len(s) :
           (h \o s)[i] = IF i <= Len(h) THEN h[i] ELSE s[i - Len(h)]
  BY <1>0, ConcatProperties
<1>2. ASSUME NEW i \in 1 .. Len(s) PROVE (h \o s)[i + 1] = s[i]
  <2>1. i + 1 \in 1 .. 1 + Len(s) /\ ~(i + 1 <= 1) /\ i + 1 - 1 = i
    BY <1>0
  <2> QED BY <1>0, <1>1, <2>1
<1>3. (h \o s)[1] = x /\ Len(h \o s) = Len(s) + 1
  BY <1>0, <1>1
<1> QED BY <1>1, <1>2, <1>3 DEF h

\* Counting up modulo n starts again at 0.
LEMMA NextIndex ==
  ASSUME NEW n \in Nat \ {0}, NEW x \in 0 .. n - 1
  PROVE  (x + 1) % n = IF x + 1 = n THEN 0 ELSE x + 1
<1>1. CASE x + 1 = n
  BY <1>1
<1>2. CASE x + 1 < n
  BY <1>2
<1> QED BY <1>1, <1>2

\* n numbers in a row take every value modulo n.
LEMMA AllIndices ==
  ASSUME NEW n \in Nat \ {0}, NEW c \in Nat, NEW j \in 0 .. n - 1
  PROVE  \E i \in 0 .. n - 1 : (c + i) % n = j
<1> DEFINE r == c % n
           q == c \div n
<1>1. /\ r \in 0 .. n - 1 /\ q \in Int /\ c = n * q + r
  OBVIOUS
<1> HIDE DEF r, q
<1>2. CASE j >= r
  <2>1. j - r \in 0 .. n - 1 /\ c + (j - r) = n * q + j
    BY <1>1, <1>2
  <2>2. (n * q + j) % n = j
    BY <1>1
  <2> QED BY <2>1, <2>2
<1>3. CASE j < r
  <2>1. j - r + n \in 0 .. n - 1 /\ c + (j - r + n) = n * (q + 1) + j
    BY <1>1, <1>3
  <2>2. (n * (q + 1) + j) % n = j
    BY <1>1
  <2> QED BY <2>1, <2>2
<1> QED BY <1>1, <1>2, <1>3
=============================================================================
