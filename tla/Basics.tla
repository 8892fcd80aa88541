------------------------------- MODULE Basics -------------------------------
(***************************************************************************)
(* Facts about numbers and sequences that the proofs about every component *)
(* need: the greatest and the least of a set, induction up to a bound,     *)
(* and the parts of a sequence.                                            *)
(***************************************************************************)
EXTENDS Integers, Sequences, FiniteSetsExt, SequenceTheorems, FiniteSetTheorems,
        WellFoundedInduction, TLAPS

(* Extrema *)

\* A non-empty set of naturals has a least element, and Min is it.  The merge
\* of on_append_entries starts at Min of the missing entries.
LEMMA MinProperties ==
    ASSUME NEW S \in SUBSET Nat, S # {}
    PROVE  Min(S) \in S /\ \A y \in S : Min(S) <= y
<1> DEFINE Less == OpToRel(<, Nat)
<1>1. PICK x \in S : \A y \in S : ~ (<<y, x>> \in Less)
  <2>1. IsWellFoundedOn(Less, Nat)
    BY NatLessThanWellFounded
  <2> HIDE DEF Less
  <2> QED
    BY <2>1, WFMin
<1>2. \A y \in Nat : <<y, x>> \in Less <=> y < x
  BY DEF OpToRel
<1> HIDE DEF Less
<1>3. \A y \in S : x <= y
  <2> SUFFICES ASSUME NEW y \in S PROVE x <= y
    OBVIOUS
  <2>1. ~ (y < x)
    BY <1>1, <1>2
  <2> QED
    BY <2>1
<1> QED
  BY <1>3 DEF Min

\* A non-empty set of naturals with an upper bound has a greatest element, and
\* Max is it.  advance_commit_index takes Max of the indices a quorum holds.
LEMMA MaxProperties ==
    ASSUME NEW S \in SUBSET Nat, S # {}, NEW b \in Nat, \A y \in S : y <= b
    PROVE  Max(S) \in S /\ \A y \in S : y <= Max(S)
<1> DEFINE T == {b - x : x \in S}
<1>1. T \in SUBSET Nat /\ T # {}
  <2>1. \A x \in S : b - x \in Nat
    OBVIOUS
  <2>2. PICK x \in S : TRUE
    OBVIOUS
  <2>3. b - x \in T
    OBVIOUS
  <2> QED
    BY <2>1, <2>3
<1>2. Min(T) \in T /\ \A y \in T : Min(T) <= y
  BY <1>1, MinProperties
<1>3. \E x \in S : \A y \in S : x >= y
  <2>1. PICK x \in S : Min(T) = b - x
    BY <1>2
  <2>2. \A y \in S : b - y \in T
    OBVIOUS
  <2>3. \A y \in S : b - x <= b - y
    BY <2>1, <2>2, <1>2
  <2> QED
    BY <2>3
<1> QED
  BY <1>3 DEF Max

\* Max and Min of two numbers, as u64::max and u64::min compute them.
LEMMA PairExtrema ==
    ASSUME NEW a \in Int, NEW b \in Int
    PROVE  /\ Max({a, b}) \in {a, b} /\ Max({a, b}) >= a /\ Max({a, b}) >= b
           /\ Min({a, b}) \in {a, b} /\ Min({a, b}) <= a /\ Min({a, b}) <= b
<1>1. \E x \in {a, b} : \A y \in {a, b} : x >= y
  OBVIOUS
<1>2. \E x \in {a, b} : \A y \in {a, b} : x <= y
  OBVIOUS
<1>3. Max({a, b}) \in {a, b} /\ \A y \in {a, b} : Max({a, b}) >= y
  BY <1>1 DEF Max
<1>4. Min({a, b}) \in {a, b} /\ \A y \in {a, b} : Min({a, b}) <= y
  BY <1>2 DEF Min
<1> QED
  BY <1>3, <1>4

-----------------------------------------------------------------------------
(* Induction *)

\* A set that has 0 and, with every number below N, the next one, has all of
\* 0 .. N: what a loop does is shown for every number of its rounds.
LEMMA Induction ==
    ASSUME NEW S, NEW N \in Nat, 0 \in S, \A n \in 0 .. (N - 1) : n \in S => n + 1 \in S
    PROVE  \A n \in 0 .. N : n \in S
<1> SUFFICES ASSUME NEW n \in 0 .. N, n \notin S PROVE FALSE
  OBVIOUS
<1> DEFINE Bad == {k \in 0 .. N : k \notin S}
<1>1. Bad \in SUBSET Nat /\ Bad # {} /\ \A k \in Bad : k \in 0 .. N /\ k \notin S
  OBVIOUS
<1>2. \A k \in 0 .. N : k \notin S => k \in Bad
  OBVIOUS
<1> HIDE DEF Bad
<1>3. Min(Bad) \in Bad /\ \A y \in Bad : Min(Bad) <= y
  BY <1>1, MinProperties
<1> DEFINE b == Min(Bad)
<1>4. b \in 0 .. N /\ b \notin S /\ b # 0
  BY <1>1, <1>3
<1> HIDE DEF b
<1>5. b - 1 \in 0 .. (N - 1) /\ b - 1 \in 0 .. N /\ b - 1 + 1 = b
  BY <1>4
<1>6. b - 1 \in Bad
  BY <1>2, <1>4, <1>5
<1>7. b <= b - 1
  BY <1>3, <1>6 DEF b
<1> QED
  BY <1>4, <1>7

\* The number that a loop counts down to: the same, from N to 0.
LEMMA DownInduction ==
    ASSUME NEW S, NEW N \in Nat, N \in S, \A n \in 1 .. N : n \in S => n - 1 \in S
    PROVE  \A n \in 0 .. N : n \in S
<1> DEFINE T == {k \in 0 .. N : N - k \in S}
<1>1. 0 \in T
  OBVIOUS
<1>2. \A n \in 0 .. (N - 1) : n \in T => n + 1 \in T
  <2> SUFFICES ASSUME NEW n \in 0 .. (N - 1), N - n \in S PROVE n + 1 \in T
    OBVIOUS
  <2>1. N - n \in 1 .. N /\ N - n - 1 = N - (n + 1) /\ n + 1 \in 0 .. N
    OBVIOUS
  <2> QED
    BY <2>1
<1>3. \A k \in T : N - k \in S
  OBVIOUS
<1> HIDE DEF T
<1>4. \A n \in 0 .. N : n \in T
  BY <1>1, <1>2, Induction
<1> SUFFICES ASSUME NEW n \in 0 .. N PROVE n \in S
  OBVIOUS
<1>5. N - n \in 0 .. N /\ N - (N - n) = n
  OBVIOUS
<1> QED
  BY <1>3, <1>4, <1>5

-----------------------------------------------------------------------------
(* Sequences *)

\* The tail of a sequence from any positive position on, empty when the
\* position is past the end.
LEMMA SuffixType ==
    ASSUME NEW S, NEW s \in Seq(S), NEW m \in Int, m >= 1
    PROVE  /\ SubSeq(s, m, Len(s)) \in Seq(S)
           /\ Len(SubSeq(s, m, Len(s))) = IF m <= Len(s) THEN Len(s) - m + 1 ELSE 0
<1>1. \A i \in m .. Len(s) : s[i] \in S
  OBVIOUS
<1> QED
  BY <1>1, SubSeqProperties

\* A prefix of a sequence, empty for a length below zero.
LEMMA PrefixType ==
    ASSUME NEW S, NEW s \in Seq(S), NEW k \in Int, k <= Len(s)
    PROVE  /\ SubSeq(s, 1, k) \in Seq(S)
           /\ Len(SubSeq(s, 1, k)) = IF 1 <= k THEN k ELSE 0
<1>1. \A i \in 1 .. k : s[i] \in S
  OBVIOUS
<1> QED
  BY <1>1, SubSeqProperties

\* What follows a cut of a sequence, position by position.
LEMMA RestOf ==
    ASSUME NEW S, NEW s \in Seq(S), NEW cut \in Nat, cut <= Len(s)
    PROVE  LET b == SubSeq(s, cut + 1, Len(s))
           IN  /\ b \in Seq(S) /\ Len(b) = Len(s) - cut
               /\ \A i \in 1 .. Len(s) - cut : b[i] = s[cut + i]
<1> DEFINE b == SubSeq(s, cut + 1, Len(s))
<1>1. \A i \in cut + 1 .. Len(s) : s[i] \in S
  OBVIOUS
<1>2. cut + 1 \in Int /\ Len(s) \in Int
  OBVIOUS
<1>3. /\ b \in Seq(S) /\ Len(b) = IF cut + 1 <= Len(s) THEN Len(s) - (cut + 1) + 1 ELSE 0
      /\ \A i \in 1 .. Len(s) - (cut + 1) + 1 : b[i] = s[cut + 1 + i - 1]
  BY <1>1, <1>2, SubSeqProperties
<1> HIDE DEF b
<1>4. \A i \in 1 .. Len(s) - cut : cut + 1 + i - 1 = cut + i /\ i \in 1 .. Len(s) - (cut + 1) + 1
  OBVIOUS
<1>5. Len(b) = Len(s) - cut
  BY <1>3
<1>6. \A i \in 1 .. Len(s) - cut : b[i] = s[cut + i]
  BY <1>3, <1>4
<1> QED
  BY <1>3, <1>5, <1>6 DEF b

\* A sequence that is cut and goes on with another one is the same up to the cut.
LEMMA CutThen ==
    ASSUME NEW S, NEW s \in Seq(S), NEW t \in Seq(S), NEW cut \in Nat, cut <= Len(s)
    PROVE  LET b == SubSeq(s, 1, cut) \o t
           IN  b \in Seq(S) /\ Len(b) = cut + Len(t) /\ \A i \in 1 .. cut : b[i] = s[i]
<1> DEFINE a == SubSeq(s, 1, cut)
           b == a \o t
<1>1. \A i \in 1 .. cut : s[i] \in S
  OBVIOUS
<1>2. /\ a \in Seq(S) /\ Len(a) = IF 1 <= cut THEN cut - 1 + 1 ELSE 0
      /\ \A i \in 1 .. cut - 1 + 1 : a[i] = s[1 + i - 1]
  BY <1>1, SubSeqProperties
<1> HIDE DEF a
<1>3. \A i \in 1 .. cut : 1 + i - 1 = i /\ i \in 1 .. cut - 1 + 1
  OBVIOUS
<1>4. Len(a) = cut /\ \A i \in 1 .. cut : a[i] = s[i]
  BY <1>2, <1>3
<1>5. /\ b \in Seq(S) /\ Len(b) = Len(a) + Len(t)
      /\ \A i \in 1 .. Len(a) + Len(t) : b[i] = IF i <= Len(a) THEN a[i] ELSE t[i - Len(a)]
  BY <1>2, ConcatProperties
<1>6. Len(t) \in Nat
  OBVIOUS
<1> HIDE DEF b
<1>7. \A i \in 1 .. cut : b[i] = a[i]
  BY <1>4, <1>5, <1>6
<1>8. b \in Seq(S) /\ Len(b) = cut + Len(t) /\ \A i \in 1 .. cut : b[i] = s[i]
  BY <1>4, <1>5, <1>7
<1> QED
  BY <1>8 DEF a, b

=============================================================================
