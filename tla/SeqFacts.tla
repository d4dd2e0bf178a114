------------------------------ MODULE SeqFacts ------------------------------
(* What the sequence operators of the models do to elements and order. *)
EXTENDS Sift, SequencesExt, SequenceTheorems, FiniteSetTheorems, WellFoundedInduction, TLAPS

(* RemoveAt closes the gap: the elements behind the removed one move up. *)
LEMMA RemoveAtShifts ==
    ASSUME NEW S, NEW s \in Seq(S), NEW i \in 1 .. Len(s)
    PROVE  /\ RemoveAt(s, i) \in Seq(S)
           /\ Len(RemoveAt(s, i)) = Len(s) - 1
           /\ \A k \in 1 .. Len(s) - 1 : RemoveAt(s, i)[k] = IF k < i THEN s[k] ELSE s[k + 1]
<1> DEFINE front == SubSeq(s, 1, i - 1)
           back  == SubSeq(s, i + 1, Len(s))
<1>1. front \in Seq(S) /\ Len(front) = i - 1 /\ \A k \in 1 .. i - 1 : front[k] = s[k]
  BY SubSeqProperties
<1>2. back \in Seq(S) /\ Len(back) = Len(s) - i /\ \A k \in 1 .. Len(s) - i : back[k] = s[i + k]
  <2>1. CASE i = Len(s)
    BY <2>1
  <2>2. CASE i < Len(s)
    BY <2>2, SubSeqProperties
  <2>. QED  BY <2>1, <2>2
<1>3. RemoveAt(s, i) = front \o back
  BY DEF RemoveAt
<1>. HIDE DEF front, back
<1>4. /\ front \o back \in Seq(S)
      /\ Len(front \o back) = Len(s) - 1
      /\ \A k \in 1 .. Len(s) - 1 :
            (front \o back)[k] = IF k <= i - 1 THEN front[k] ELSE back[k - (i - 1)]
  BY <1>1, <1>2, ConcatProperties
<1>5. ASSUME NEW k \in 1 .. Len(s) - 1
      PROVE  (front \o back)[k] = IF k < i THEN s[k] ELSE s[k + 1]
  <2>1. CASE k < i
    BY <2>1, <1>1, <1>4
  <2>2. CASE k >= i
    <3>1. k - (i - 1) \in 1 .. Len(s) - i /\ i + (k - (i - 1)) = k + 1
      BY <2>2
    <3>. QED  BY <2>2, <3>1, <1>2, <1>4
  <2>3. k < i \/ k >= i
    OBVIOUS
  <2>. QED  BY <2>1, <2>2, <2>3
<1>. QED  BY <1>3, <1>4, <1>5

LEMMA AppendElements ==
    ASSUME NEW S, NEW s \in Seq(S), NEW e \in S
    PROVE  /\ Append(s, e) \in Seq(S)
           /\ ToSet(Append(s, e)) = ToSet(s) \cup {e}
<1>1. /\ Append(s, e) \in Seq(S) /\ Len(s) \in Nat /\ DOMAIN s = 1 .. Len(s)
      /\ DOMAIN Append(s, e) = 1 .. Len(s) + 1
      /\ Append(s, e)[Len(s) + 1] = e
      /\ \A k \in 1 .. Len(s) : Append(s, e)[k] = s[k]
  BY AppendProperties
<1>2. ASSUME NEW x \in ToSet(Append(s, e))
      PROVE  x \in ToSet(s) \cup {e}
  <2>1. PICK k \in 1 .. Len(s) + 1 : x = Append(s, e)[k]
    BY <1>1, <1>2 DEF ToSet
  <2>. QED  BY <2>1, <1>1 DEF ToSet
<1>3. ASSUME NEW x \in ToSet(s) \cup {e}
      PROVE  x \in ToSet(Append(s, e))
  <2>1. \E k \in 1 .. Len(s) + 1 : x = Append(s, e)[k]
    BY <1>1, <1>3 DEF ToSet
  <2>. QED  BY <2>1, <1>1 DEF ToSet
<1>. QED  BY <1>1, <1>2, <1>3

LEMMA TailElements ==
    ASSUME NEW S, NEW s \in Seq(S), s # <<>>
    PROVE  /\ Tail(s) \in Seq(S)
           /\ ToSet(Tail(s)) \subseteq ToSet(s)
           /\ Head(s) \in ToSet(s)
BY DEF ToSet

\* Elements that stand in growing order, so that none stands twice.
Increasing(s) == \A i, k \in DOMAIN s : i < k => s[i] < s[k]

(* Taking one element out of an increasing sequence removes it for good. *)
LEMMA RemoveAtElements ==
    ASSUME NEW s \in Seq(Nat), Increasing(s), NEW i \in 1 .. Len(s)
    PROVE  /\ ToSet(RemoveAt(s, i)) = ToSet(s) \ {s[i]}
           /\ Increasing(RemoveAt(s, i))
<1>1. /\ RemoveAt(s, i) \in Seq(Nat)
      /\ Len(RemoveAt(s, i)) = Len(s) - 1
      /\ \A k \in 1 .. Len(s) - 1 : RemoveAt(s, i)[k] = IF k < i THEN s[k] ELSE s[k + 1]
  BY RemoveAtShifts
<1>2. DOMAIN RemoveAt(s, i) = 1 .. Len(s) - 1 /\ DOMAIN s = 1 .. Len(s) /\ Len(s) \in Nat
  BY <1>1
<1>3. ASSUME NEW e \in ToSet(s) \ {s[i]}
      PROVE  e \in ToSet(RemoveAt(s, i))
  <2>1. PICK k \in 1 .. Len(s) : s[k] = e /\ k # i
    BY <1>3, <1>2 DEF ToSet
  <2>2. CASE k < i
    <3>1. k \in 1 .. Len(s) - 1 /\ RemoveAt(s, i)[k] = e
      BY SMTT(30), <2>1, <2>2, <1>1, <1>2
    <3>. QED  BY <3>1, <1>2 DEF ToSet
  <2>3. CASE k > i
    <3>1. k - 1 \in 1 .. Len(s) - 1 /\ ~(k - 1 < i) /\ k - 1 + 1 = k
      BY <2>3, <1>2
    <3>. QED  BY <2>1, <3>1, <1>1, <1>2 DEF ToSet
  <2>. QED  BY <2>1, <2>2, <2>3, <1>2
<1>4. ASSUME NEW e \in ToSet(RemoveAt(s, i))
      PROVE  e \in ToSet(s) \ {s[i]}
  <2>1. PICK k \in 1 .. Len(s) - 1 : RemoveAt(s, i)[k] = e
    BY <1>4, <1>2 DEF ToSet
  <2>2. PICK m \in 1 .. Len(s) : m # i /\ s[m] = e
    <3>1. CASE k < i
      BY <2>1, <3>1, <1>1, <1>2
    <3>2. CASE k >= i
      <4>1. k + 1 \in 1 .. Len(s) /\ k + 1 # i /\ s[k + 1] = e
        BY <2>1, <3>2, <1>1, <1>2
      <4>. QED  BY <4>1
    <3>. QED  BY <3>1, <3>2, <1>2
  <2>3. s[m] \in Nat /\ s[i] \in Nat /\ (m < i \/ i < m)
    BY <2>2, <1>2
  <2>4. s[m] # s[i]
    BY <2>2, <2>3, <1>2 DEF Increasing
  <2>. QED  BY <2>2, <2>4, <1>2 DEF ToSet
<1>5. Increasing(RemoveAt(s, i))
  <2> DEFINE from(k) == IF k < i THEN k ELSE k + 1
  <2>1. SUFFICES ASSUME NEW j \in 1 .. Len(s) - 1, NEW k \in 1 .. Len(s) - 1, j < k
                 PROVE  RemoveAt(s, i)[j] < RemoveAt(s, i)[k]
    BY <1>2 DEF Increasing
  <2>2. from(j) \in 1 .. Len(s) /\ from(k) \in 1 .. Len(s) /\ from(j) < from(k)
    BY <2>1, <1>2
  <2>3. RemoveAt(s, i)[j] = s[from(j)] /\ RemoveAt(s, i)[k] = s[from(k)]
    BY <2>1, <1>1
  <2>. HIDE DEF from
  <2>. QED  BY <2>2, <2>3, <1>2 DEF Increasing
<1>. QED  BY <1>3, <1>4, <1>5

(* A new greatest element may be appended. *)
LEMMA AppendIncreasing ==
    ASSUME NEW s \in Seq(Nat), Increasing(s), NEW e \in Nat, \A x \in ToSet(s) : x < e
    PROVE  Increasing(Append(s, e))
BY DEF Increasing, ToSet

-----------------------------------------------------------------------------
(* Taking elements out of a sequence *)

(* A nonempty set of numbers has a least element. *)
LEMMA LeastNumber ==
    ASSUME NEW T, T \subseteq Nat, T # {}
    PROVE  \E i \in T : \A k \in T : i <= k
<1> DEFINE less == OpToRel(<, Nat)
<1>1. \A x, y \in Nat : <<x, y>> \in less <=> x < y
  BY DEF OpToRel
<1>2. IsWellFoundedOn(less, Nat)
  BY NatLessThanWellFounded
<1>. HIDE DEF less
<1>3. PICK i \in T : \A k \in T : ~ (<<k, i>> \in less)
  BY <1>2, WFMin
<1>4. ASSUME NEW k \in T
      PROVE  i <= k
  <2>1. ~ (k < i) /\ k \in Nat /\ i \in Nat
    BY <1>1, <1>3
  <2>. QED  BY <2>1
<1>. QED  BY <1>4

\* What is kept of the first n elements of s, for each n up to k: the function in Without.
IsKept(f, s, gone, k) ==
    f = [i \in 0 .. k |-> IF i = 0 THEN <<>>
                          ELSE IF s[i] \in gone THEN f[i - 1] ELSE Append(f[i - 1], s[i])]

(* There is such a function: otherwise there is a least k for which there is none, and the
   function for k - 1 is continued. *)
LEMMA KeptExists ==
    ASSUME NEW s, NEW gone, NEW n \in Nat
    PROVE  \E f : IsKept(f, s, gone, n)
<1> DEFINE T == {k \in Nat : ~ \E f : IsKept(f, s, gone, k)}
<1>1. SUFFICES ASSUME T # {} PROVE FALSE
  OBVIOUS
<1>2. PICK k \in T : \A m \in T : k <= m
  BY <1>1, LeastNumber
<1>3. CASE k = 0
  <2> DEFINE f == [i \in 0 .. 0 |-> <<>>]
  <2>1. IsKept(f, s, gone, 0)
    BY DEF IsKept
  <2>. QED  BY <1>2, <1>3, <2>1
<1>4. CASE k # 0
  <2>1. k \in Nat \ {0} /\ k - 1 \in Nat /\ k - 1 \notin T
    BY <1>2, <1>4
  <2>2. PICK g : IsKept(g, s, gone, k - 1)
    BY <2>1
  <2> DEFINE next == IF s[k] \in gone THEN g[k - 1] ELSE Append(g[k - 1], s[k])
             f == [i \in 0 .. k |-> IF i = k THEN next ELSE g[i]]
  <2>3. ASSUME NEW i \in 0 .. k
        PROVE  f[i] = IF i = 0 THEN <<>>
                      ELSE IF s[i] \in gone THEN f[i - 1] ELSE Append(f[i - 1], s[i])
    <3>1. CASE i = k
      <4>1. f[i] = next /\ f[i - 1] = g[k - 1] /\ i # 0
        BY <2>1, <3>1
      <4>. QED  BY <3>1, <4>1
    <3>2. CASE i # k
      <4>1. i \in 0 .. k - 1 /\ f[i] = g[i] /\ (i # 0 => f[i - 1] = g[i - 1])
        BY <2>1, <2>3, <3>2
      <4>2. g[i] = IF i = 0 THEN <<>>
                   ELSE IF s[i] \in gone THEN g[i - 1] ELSE Append(g[i - 1], s[i])
        BY <2>2, <4>1 DEF IsKept
      <4>. QED  BY <4>1, <4>2
    <3>. QED  BY <3>1, <3>2
  <2>4. f = [i \in 0 .. k |-> f[i]]
    OBVIOUS
  <2>. HIDE DEF f
  <2>5. IsKept(f, s, gone, k)
    BY <2>3, <2>4 DEF IsKept
  <2>. QED  BY <1>2, <2>5
<1>. QED  BY <1>3, <1>4

(* Without takes out what is in gone, and nothing else; no element comes to stand twice. *)
LEMMA WithoutElements ==
    ASSUME NEW S, NEW s \in Seq(S), NEW gone
    PROVE  /\ Without(s, gone) \in Seq(S)
           /\ ToSet(Without(s, gone)) = ToSet(s) \ gone
           /\ IsInjective(s) => IsInjective(Without(s, gone))
<1> DEFINE n == Len(s)
           kept == CHOOSE f : IsKept(f, s, gone, n)
           upto(k) == {s[i] : i \in 1 .. k} \ gone
           Good(k) == /\ kept[k] \in Seq(S) /\ ToSet(kept[k]) = upto(k)
                      /\ IsInjective(s) => IsInjective(kept[k])
           T == {k \in 0 .. n : ~ Good(k)}
<1>1. n \in Nat /\ DOMAIN s = 1 .. n /\ \A i \in 1 .. n : s[i] \in S
  OBVIOUS
<1>2. Without(s, gone) = kept[n]
  BY DEF Without, IsKept
<1>3. IsKept(kept, s, gone, n)
  BY <1>1, KeptExists
<1>. HIDE DEF kept
<1>4. ASSUME NEW i \in 0 .. n
      PROVE  kept[i] = IF i = 0 THEN <<>>
                       ELSE IF s[i] \in gone THEN kept[i - 1] ELSE Append(kept[i - 1], s[i])
  BY <1>3 DEF IsKept
<1>. HIDE DEF Good
<1>5. T = {}
  <2>1. SUFFICES ASSUME T # {} PROVE FALSE
    OBVIOUS
  <2>2. T \subseteq Nat
    BY <1>1
  <2>3. PICK k \in T : \A m \in T : k <= m
    BY <2>1, <2>2, LeastNumber
  <2>4. CASE k = 0
    <3>1. kept[0] = <<>> /\ upto(0) = {}
      BY <1>1, <1>4
    <3>2. <<>> \in Seq(S) /\ ToSet(<<>>) = {} /\ IsInjective(<<>>)
      BY DEF ToSet, IsInjective
    <3>3. kept[k] \in Seq(S) /\ ToSet(kept[k]) = upto(k) /\ IsInjective(kept[k])
      BY <2>4, <3>1, <3>2
    <3>. QED  BY <2>3, <3>3 DEF Good
  <2>5. CASE k # 0
    <3>1. k \in 1 .. n /\ k - 1 \in 0 .. n /\ k - 1 \notin T
      BY <1>1, <2>3, <2>5
    <3>2. Good(k - 1)
      BY <3>1
    <3>3. upto(k) = upto(k - 1) \cup ({s[k]} \ gone)
      <4>1. 1 .. k = (1 .. k - 1) \cup {k}
        BY <1>1, <3>1
      <4>. QED  BY <4>1
    <3>4. CASE s[k] \in gone
      <4>1. kept[k] = kept[k - 1] /\ upto(k) = upto(k - 1)
        BY <1>1, <1>4, <3>1, <3>3, <3>4
      <4>. QED  BY <2>3, <3>2, <4>1 DEF Good
    <3>5. CASE s[k] \notin gone
      <4>1. kept[k] = Append(kept[k - 1], s[k]) /\ s[k] \in S
        <5>1. k \in 0 .. n /\ k # 0 /\ s[k] \in S
          BY <1>1, <3>1
        <5>. QED  BY <1>4, <3>5, <5>1
      <4>2. kept[k] \in Seq(S) /\ ToSet(kept[k]) = ToSet(kept[k - 1]) \cup {s[k]}
        BY <3>2, <4>1, AppendElements DEF Good
      <4>3. ASSUME IsInjective(s)
            PROVE  IsInjective(kept[k])
        <5>1. s[k] \notin ToSet(kept[k - 1])
          BY <1>1, <3>1, <3>2, <4>3 DEF IsInjective, Good
        <5>. QED  BY <3>2, <4>1, <4>3, <5>1 DEF IsInjective, ToSet, Good
      <4>. QED  BY <2>3, <3>3, <3>2, <3>5, <4>2, <4>3 DEF Good
    <3>. QED  BY <3>4, <3>5
  <2>. QED  BY <2>4, <2>5
<1>6. Good(n)
  <2>1. n \in 0 .. n /\ n \notin T
    BY <1>1, <1>5
  <2>. QED  BY <2>1
<1>7. upto(n) = ToSet(s) \ gone
  BY <1>1 DEF ToSet
<1>. QED  BY <1>2, <1>6, <1>7 DEF Good

(* A sequence in which no element stands twice is as long as it has elements. *)
LEMMA InjectiveLength ==
    ASSUME NEW S, NEW s \in Seq(S), IsInjective(s)
    PROVE  IsFiniteSet(ToSet(s)) /\ Cardinality(ToSet(s)) = Len(s)
<1>1. DOMAIN s = 1 .. Len(s) /\ Len(s) \in Nat /\ s \in [1 .. Len(s) -> ToSet(s)]
  BY DEF ToSet
<1>2. s \in Bijection(1 .. Len(s), ToSet(s))
  BY <1>1 DEF Bijection, Injection, Surjection, IsInjective, ToSet
<1>3. ExistsBijection(1 .. Len(s), ToSet(s))
  BY <1>2 DEF ExistsBijection
<1>. QED  BY <1>1, <1>3, FS_CountingElements, FS_NatBijection

(* An enumeration of a finite set has its elements, all of them, each once. *)
LEMMA Enumerates ==
    ASSUME NEW S, IsFiniteSet(S), NEW s \in SetToSeqs(S)
    PROVE  s \in Seq(S) /\ ToSet(s) = S /\ IsInjective(s)
<1> DEFINE n == Cardinality(S)
<1>1. n \in Nat /\ IsFiniteSet(1 .. n) /\ Cardinality(1 .. n) = n
  BY FS_CardinalityType, FS_Interval
<1>2. s \in [1 .. n -> S] /\ \A i, k \in 1 .. n : i # k => s[i] # s[k]
  BY DEF SetToSeqs
<1>3. s \in Injection(1 .. n, S)
  BY <1>2 DEF Injection, IsInjective
<1>. HIDE DEF n
<1>4. s \in Surjection(1 .. n, S)
  BY <1>1, <1>3, FS_Injection DEF n
<1>5. DOMAIN s = 1 .. n /\ s \in Seq(S) /\ Len(s) = n
  BY <1>1, <1>2
<1>. QED  BY <1>2, <1>4, <1>5 DEF Surjection, ToSet, IsInjective

LEMMA ConcatElements ==
    ASSUME NEW S, NEW s \in Seq(S), NEW t \in Seq(S)
    PROVE  s \o t \in Seq(S) /\ ToSet(s \o t) = ToSet(s) \cup ToSet(t)
<1> DEFINE c == s \o t
<1>1. /\ c \in Seq(S) /\ Len(c) = Len(s) + Len(t) /\ Len(s) \in Nat /\ Len(t) \in Nat
      /\ \A i \in 1 .. Len(s) + Len(t) : c[i] = IF i <= Len(s) THEN s[i] ELSE t[i - Len(s)]
      /\ DOMAIN s = 1 .. Len(s) /\ DOMAIN t = 1 .. Len(t) /\ DOMAIN c = 1 .. Len(s) + Len(t)
  BY ConcatProperties
<1>. HIDE DEF c
<1>2. ASSUME NEW i \in 1 .. Len(s) + Len(t)
      PROVE  c[i] \in ToSet(s) \cup ToSet(t)
  <2>1. CASE i <= Len(s)
    BY SMTT(30), <1>1, <2>1 DEF ToSet
  <2>2. CASE i > Len(s)
    <3>1. i - Len(s) \in 1 .. Len(t) /\ c[i] = t[i - Len(s)]
      BY <1>1, <2>2
    <3>. QED  BY <1>1, <3>1 DEF ToSet
  <2>. QED  BY <1>1, <2>1, <2>2
<1>3. ASSUME NEW i \in 1 .. Len(s)
      PROVE  s[i] \in ToSet(c)
  <2>1. i \in 1 .. Len(s) + Len(t) /\ c[i] = s[i]
    BY <1>1
  <2>. QED  BY <1>1, <2>1 DEF ToSet
<1>4. ASSUME NEW i \in 1 .. Len(t)
      PROVE  t[i] \in ToSet(c)
  <2>1. i + Len(s) \in 1 .. Len(s) + Len(t) /\ c[i + Len(s)] = t[i]
    BY <1>1
  <2>. QED  BY <1>1, <2>1 DEF ToSet
<1>5. ToSet(c) \subseteq ToSet(s) \cup ToSet(t)
  BY <1>1, <1>2 DEF ToSet
<1>6. ToSet(s) \cup ToSet(t) \subseteq ToSet(c)
  BY <1>1, <1>3, <1>4 DEF ToSet
<1>7. ToSet(c) = ToSet(s) \cup ToSet(t)
  BY <1>5, <1>6
<1>. QED  BY <1>1, <1>7 DEF c

(* The first element and the rest. *)
LEMMA HeadAndRest ==
    ASSUME NEW S, NEW s \in Seq(S), s # <<>>
    PROVE  /\ Tail(s) \in Seq(S) /\ Head(s) \in S
           /\ ToSet(s) = {Head(s)} \cup ToSet(Tail(s))
<1>1. /\ Tail(s) \in Seq(S) /\ Len(s) \in Nat \ {0} /\ Len(Tail(s)) = Len(s) - 1
      /\ \A k \in 1 .. Len(s) - 1 : Tail(s)[k] = s[k + 1]
      /\ DOMAIN s = 1 .. Len(s) /\ DOMAIN Tail(s) = 1 .. Len(s) - 1 /\ Head(s) = s[1]
      /\ Head(s) \in S
  OBVIOUS
<1>2. ASSUME NEW k \in 1 .. Len(s)
      PROVE  s[k] \in {Head(s)} \cup ToSet(Tail(s))
  <2>1. CASE k = 1
    BY <2>1, <1>1
  <2>2. CASE k # 1
    <3>1. k - 1 \in 1 .. Len(s) - 1 /\ Tail(s)[k - 1] = s[k]
      BY <2>2, <1>1
    <3>. QED  BY <3>1, <1>1 DEF ToSet
  <2>. QED  BY <2>1, <2>2
<1>3. ASSUME NEW k \in 1 .. Len(s) - 1
      PROVE  Tail(s)[k] \in ToSet(s)
  BY <1>1, <1>3 DEF ToSet
<1>4. ToSet(s) \subseteq {Head(s)} \cup ToSet(Tail(s))
  BY <1>1, <1>2 DEF ToSet
<1>5. {Head(s)} \cup ToSet(Tail(s)) \subseteq ToSet(s)
  BY <1>1, <1>3 DEF ToSet
<1>. QED  BY <1>1, <1>4, <1>5

LEMMA ElementsFinite ==
    ASSUME NEW S, NEW s \in Seq(S)
    PROVE  IsFiniteSet(ToSet(s))
<1>1. DOMAIN s = 1 .. Len(s) /\ Len(s) \in Nat /\ s \in [1 .. Len(s) -> ToSet(s)]
  BY DEF ToSet
<1>2. \A t \in ToSet(s) : \E i \in 1 .. Len(s) : s[i] = t
  BY <1>1 DEF ToSet
<1>3. s \in Surjection(1 .. Len(s), ToSet(s))
  BY <1>1, <1>2 DEF Surjection
<1>4. IsFiniteSet(1 .. Len(s))
  BY <1>1, FS_Interval
<1>. QED  BY <1>3, <1>4, FS_Surjection

=============================================================================
