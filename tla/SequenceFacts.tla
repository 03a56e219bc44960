---------------------------- MODULE SequenceFacts ---------------------------
(***************************************************************************)
(* Sequences without repetition: what the lists of blocks and rings of the *)
(* models are, and what taking from them and adding to them does.          *)
(***************************************************************************)
EXTENDS Integers, Sequences, FiniteSets, SequencesExt, TLAPS, FiniteSetTheorems, SequenceTheorems,
        WellFoundedInduction, NaturalsInduction

Distinct(s) == \A i, j \in DOMAIN s : s[i] = s[j] => i = j

\* The empty sequence.
LEMMA EmptyIs == Distinct(<<>>) /\ ToSet(<<>>) = {}
  BY DEF Distinct, ToSet

\* The values of a sequence are values of its set.
LEMMA ToSetType ==
  ASSUME NEW B, NEW s \in Seq(B)
  PROVE  ToSet(s) \subseteq B
  BY DEF ToSet

\* A value appended to a sequence that does not hold it.
LEMMA AppendIs ==
  ASSUME NEW B, NEW s \in Seq(B), NEW b \in B
  PROVE  /\ Append(s, b) \in Seq(B) /\ Len(Append(s, b)) = Len(s) + 1
         /\ ToSet(Append(s, b)) = ToSet(s) \cup {b}
         /\ Distinct(s) /\ b \notin ToSet(s) => Distinct(Append(s, b))
<1> DEFINE t == Append(s, b)
           l == Len(s)
<1>1. /\ l \in Nat /\ t \in Seq(B) /\ Len(t) = l + 1 /\ DOMAIN t = 1 .. l + 1 /\ DOMAIN s = 1 .. l
      /\ \A i \in 1 .. l : t[i] = s[i]
      /\ t[l + 1] = b
  OBVIOUS
<1> HIDE DEF t, l
<1>2. \A i \in 1 .. l + 1 : i \in 1 .. l \/ i = l + 1
  BY <1>1
<1>3. l + 1 \in 1 .. l + 1 /\ l + 1 \notin 1 .. l /\ 1 .. l \subseteq 1 .. l + 1
  BY <1>1
<1>4. ToSet(t) = ToSet(s) \cup {b}
  BY <1>1, <1>2, <1>3, Zenon DEF ToSet
<1>5. Distinct(s) /\ b \notin ToSet(s) => Distinct(t)
  BY <1>1, <1>2, <1>3, Zenon DEF ToSet, Distinct
<1> QED
  BY <1>1, <1>4, <1>5 DEF t, l

\* The first value taken off a sequence without repetition.
LEMMA TailIs ==
  ASSUME NEW B, NEW s \in Seq(B), s # <<>>
  PROVE  /\ Tail(s) \in Seq(B) /\ Len(Tail(s)) = Len(s) - 1 /\ Head(s) \in B /\ Head(s) \in ToSet(s)
         /\ Distinct(s) => Distinct(Tail(s)) /\ ToSet(Tail(s)) = ToSet(s) \ {Head(s)}
<1> DEFINE t == Tail(s)
           l == Len(s)
           h == Head(s)
<1>1. /\ l \in Nat \ {0} /\ t \in Seq(B) /\ Len(t) = l - 1 /\ DOMAIN t = 1 .. l - 1 /\ DOMAIN s = 1 .. l
      /\ \A i \in 1 .. l - 1 : t[i] = s[i + 1]
      /\ h = s[1] /\ h \in B
  OBVIOUS
<1> HIDE DEF t, l, h
<1>2. 1 \in 1 .. l /\ \A i \in 1 .. l - 1 : i + 1 \in 1 .. l /\ i + 1 # 1
  BY <1>1
<1>3. \A i \in 1 .. l : i = 1 \/ (i - 1 \in 1 .. l - 1 /\ (i - 1) + 1 = i)
  BY <1>1
<1>4. \A i, j \in 1 .. l - 1 : i + 1 = j + 1 => i = j
  BY <1>1
<1>5. h \in ToSet(s)
  BY <1>1, <1>2 DEF ToSet
<1>6. ASSUME Distinct(s) PROVE Distinct(t)
  <2> SUFFICES ASSUME NEW i \in 1 .. l - 1, NEW j \in 1 .. l - 1, t[i] = t[j] PROVE i = j
    BY <1>1 DEF Distinct
  <2>1. s[i + 1] = s[j + 1] /\ i + 1 \in 1 .. l /\ j + 1 \in 1 .. l
    BY <1>1, <1>2
  <2>2. i + 1 = j + 1
    BY <1>1, <1>6, <2>1, Zenon DEF Distinct
  <2> QED
    BY <1>4, <2>2
<1>7. ASSUME Distinct(s) PROVE ToSet(t) = ToSet(s) \ {h}
  <2>1. ASSUME NEW x \in ToSet(t) PROVE x \in ToSet(s) /\ x # h
    <3>1. PICK i \in 1 .. l - 1 : x = t[i]
      BY <1>1, <2>1 DEF ToSet
    <3>2. x = s[i + 1] /\ i + 1 \in 1 .. l /\ i + 1 # 1
      BY <1>1, <1>2, <3>1
    <3> QED
      BY <1>1, <1>2, <1>7, <3>2 DEF ToSet, Distinct
  <2>2. ASSUME NEW x \in ToSet(s), x # h PROVE x \in ToSet(t)
    <3>1. PICK i \in 1 .. l : x = s[i]
      BY <1>1, <2>2 DEF ToSet
    <3>2. i - 1 \in 1 .. l - 1 /\ (i - 1) + 1 = i
      BY <1>1, <1>3, <2>2, <3>1
    <3>3. x = t[i - 1]
      BY <1>1, <3>1, <3>2
    <3> QED
      BY <1>1, <3>2, <3>3 DEF ToSet
  <2> QED
    BY <2>1, <2>2
<1> QED
  BY <1>1, <1>5, <1>6, <1>7 DEF t, l, h

\* The last value taken off a sequence without repetition.
LEMMA FrontIs ==
  ASSUME NEW B, NEW s \in Seq(B), s # <<>>
  PROVE  /\ Front(s) \in Seq(B) /\ Len(Front(s)) = Len(s) - 1 /\ Last(s) \in B /\ Last(s) \in ToSet(s)
         /\ Distinct(s) => Distinct(Front(s)) /\ ToSet(Front(s)) = ToSet(s) \ {Last(s)}
<1> DEFINE t == Front(s)
           l == Len(s)
           h == Last(s)
<1>1. l \in Nat \ {0} /\ DOMAIN s = 1 .. l /\ h = s[l] /\ h \in B
  BY DEF Last
<1>2. /\ t \in Seq(B) /\ Len(t) = l - 1 /\ DOMAIN t = 1 .. l - 1
      /\ \A i \in 1 .. l - 1 : t[i] = s[i]
  <2>1. \A i \in 1 .. l - 1 : s[i] \in B
    BY <1>1
  <2>2. /\ SubSeq(s, 1, l - 1) \in Seq(B)
        /\ Len(SubSeq(s, 1, l - 1)) = IF 1 <= l - 1 THEN l - 1 - 1 + 1 ELSE 0
        /\ \A i \in 1 .. l - 1 - 1 + 1 : SubSeq(s, 1, l - 1)[i] = s[1 + i - 1]
    BY <1>1, <2>1, SubSeqProperties
  <2>3. t \in Seq(B) /\ Len(t) = l - 1 /\ \A i \in 1 .. l - 1 : t[i] = s[i]
    BY <1>1, <2>2 DEF Front
  <2> QED
    BY <2>3
<1> HIDE DEF t, l, h
<1>3. l \in 1 .. l /\ \A i \in 1 .. l : i # l <=> i \in 1 .. l - 1
  BY <1>1
<1>4. 1 .. l - 1 \subseteq 1 .. l
  BY <1>1
<1>5. h \in ToSet(s)
  BY <1>1, <1>3 DEF ToSet
<1>6. Distinct(s) => Distinct(t)
  BY <1>1, <1>2, <1>4, Zenon DEF Distinct
<1>7. ASSUME Distinct(s) PROVE ToSet(t) = ToSet(s) \ {h}
  <2>1. ASSUME NEW x \in ToSet(t) PROVE x \in ToSet(s) /\ x # h
    <3>1. PICK i \in 1 .. l - 1 : x = t[i]
      BY <1>2, <2>1 DEF ToSet
    <3>2. x = s[i] /\ i \in 1 .. l /\ i # l
      BY <1>2, <1>3, <1>4, <3>1
    <3> QED
      BY <1>1, <1>3, <1>7, <3>2 DEF ToSet, Distinct
  <2>2. ASSUME NEW x \in ToSet(s), x # h PROVE x \in ToSet(t)
    <3>1. PICK i \in 1 .. l : x = s[i]
      BY <1>1, <2>2 DEF ToSet
    <3>2. i \in 1 .. l - 1
      BY <1>1, <1>3, <2>2, <3>1
    <3> QED
      BY <1>2, <3>1, <3>2 DEF ToSet
  <2> QED
    BY <2>1, <2>2
<1> QED
  BY <1>1, <1>2, <1>5, <1>6, <1>7 DEF t, l, h

\* A sequence without repetition is no longer than the set it draws from, and
\* as long only when it holds all of it.
LEMMA DistinctCount ==
  ASSUME NEW B, IsFiniteSet(B), NEW s \in Seq(B), Distinct(s)
  PROVE  /\ Len(s) <= Cardinality(B)
         /\ Len(s) = Cardinality(B) => ToSet(s) = B
<1> DEFINE l == Len(s)
           D == 1 .. l
<1>1. l \in Nat /\ DOMAIN s = D /\ s \in [D -> B]
  BY LenProperties
<1>2. s \in Injection(D, B)
  BY <1>1 DEF Injection, IsInjective, Distinct
<1>3. Cardinality(D) = l
  BY <1>1, FS_Interval
<1> HIDE DEF D
<1>4. Cardinality(D) <= Cardinality(B) /\ (Cardinality(D) = Cardinality(B) => s \in Surjection(D, B))
  BY <1>2, FS_Injection
<1>5. s \in Surjection(D, B) => ToSet(s) = B
  BY <1>1, Zenon DEF Surjection, ToSet
<1> QED
  BY <1>3, <1>4, <1>5

\* Index x is one of the k behind index i, around n places.
Passed(x, i, k, n) == (x <= i /\ i < x + k) \/ (x > i /\ i + n < x + k)

\* What has been passed: nothing at first, one place more with every visit,
\* and in the end all of them.
LEMMA PassedIs ==
  ASSUME NEW n \in Nat \ {0}, NEW i \in 0 .. n - 1, NEW x \in 1 .. n
  PROVE  /\ ~Passed(x, i, 0, n) /\ Passed(x, i, n, n)
         /\ \A k \in 0 .. n - 1 :
              Passed(x, IF i + 1 = n THEN 0 ELSE i + 1, k + 1, n) => x = i + 1 \/ Passed(x, i, k, n)
  BY DEF Passed

\* Min of a set of naturals is its least member.
LEMMA LeastBelow ==
  ASSUME NEW S, S \subseteq Nat, S # {}, NEW m, m = Min(S)
  PROVE  m \in S /\ \A y \in S : m <= y
<1> DEFINE R == OpToRel(<, Nat)
<1>1. IsWellFoundedOn(R, Nat)
  BY NatLessThanWellFounded
<1>2. PICK x \in S : \A y \in S : ~(<<y, x>> \in R)
  BY <1>1, WFMin, Zenon
<1>3. \A y \in S : ~(y < x)
  BY <1>2 DEF OpToRel
<1>4. \E y \in S : \A z \in S : y <= z
  BY <1>3
<1> QED
  BY <1>4 DEF Min

LEMMA LeastNatural ==
  ASSUME NEW S, S \subseteq Nat, S # {}
  PROVE  Min(S) \in S
  BY LeastBelow

\* One sequence after another.
LEMMA ConcatIs ==
  ASSUME NEW B, NEW s \in Seq(B), NEW t \in Seq(B)
  PROVE  /\ s \o t \in Seq(B) /\ Len(s \o t) = Len(s) + Len(t) /\ ToSet(s \o t) = ToSet(s) \cup ToSet(t)
         /\ Distinct(s \o t) <=> Distinct(s) /\ Distinct(t) /\ ToSet(s) \cap ToSet(t) = {}
<1> DEFINE u == s \o t
           l == Len(s)
           m == Len(t)
<1>1. /\ l \in Nat /\ m \in Nat /\ u \in Seq(B) /\ Len(u) = l + m
      /\ DOMAIN s = 1 .. l /\ DOMAIN t = 1 .. m /\ DOMAIN u = 1 .. l + m
      /\ \A i \in 1 .. l + m : u[i] = IF i <= l THEN s[i] ELSE t[i - l]
  BY ConcatProperties
<1> HIDE DEF u, l, m
<1>2. \A i \in 1 .. l + m : (i \in 1 .. l /\ u[i] = s[i]) \/ (i - l \in 1 .. m /\ i = (i - l) + l /\ u[i] = t[i - l])
  BY <1>1
<1>3. \A i \in 1 .. l : i \in 1 .. l + m /\ u[i] = s[i]
  BY <1>1
<1>4. \A i \in 1 .. m : i + l \in 1 .. l + m /\ i + l \notin 1 .. l /\ u[i + l] = t[i]
  <2> TAKE i \in 1 .. m
  <2>1. i + l \in 1 .. l + m /\ ~(i + l <= l) /\ (i + l) - l = i
    BY <1>1
  <2> QED
    BY <1>1, <2>1
<1>5. \A i, j \in 1 .. m : i + l = j + l => i = j
  BY <1>1
<1>6. ToSet(u) = ToSet(s) \cup ToSet(t)
  <2>1. \A x \in ToSet(u) : x \in ToSet(s) \/ x \in ToSet(t)
    <3> TAKE x \in ToSet(u)
    <3>1. PICK i \in 1 .. l + m : x = u[i]
      BY <1>1 DEF ToSet
    <3>2. (i \in 1 .. l /\ x = s[i]) \/ (i - l \in 1 .. m /\ x = t[i - l])
      BY <1>2, <3>1
    <3> QED
      BY <1>1, <3>2 DEF ToSet
  <2>2. \A x : x \in ToSet(s) \/ x \in ToSet(t) => x \in ToSet(u)
    BY <1>1, <1>3, <1>4, Zenon DEF ToSet
  <2> QED
    BY <2>1, <2>2
<1>7. ASSUME Distinct(u) PROVE Distinct(s) /\ Distinct(t) /\ ToSet(s) \cap ToSet(t) = {}
  <2>1. Distinct(s)
    BY <1>1, <1>3, <1>7, Zenon DEF Distinct
  <2>2. Distinct(t)
    <3> SUFFICES ASSUME NEW i \in 1 .. m, NEW j \in 1 .. m, t[i] = t[j] PROVE i = j
      BY <1>1 DEF Distinct
    <3>1. u[i + l] = u[j + l] /\ i + l \in 1 .. l + m /\ j + l \in 1 .. l + m
      BY <1>4
    <3>2. i + l = j + l
      BY <1>1, <1>7, <3>1, Zenon DEF Distinct
    <3> QED
      BY <1>5, <3>2
  <2>3. ASSUME NEW i \in 1 .. l, NEW j \in 1 .. m PROVE s[i] # t[j]
    <3>1. i \in 1 .. l + m /\ j + l \in 1 .. l + m /\ i # j + l
      BY <1>3, <1>4
    <3> QED
      BY <1>1, <1>3, <1>4, <1>7, <3>1, Zenon DEF Distinct
  <2> QED
    BY <1>1, <2>1, <2>2, <2>3, Zenon DEF ToSet
<1>8. ASSUME Distinct(s), Distinct(t), ToSet(s) \cap ToSet(t) = {} PROVE Distinct(u)
  <2>1. \A i \in 1 .. l, j \in 1 .. m : s[i] # t[j]
    BY <1>1, <1>8, Zenon DEF ToSet
  <2> SUFFICES ASSUME NEW i \in 1 .. l + m, NEW j \in 1 .. l + m, u[i] = u[j] PROVE i = j
    BY <1>1 DEF Distinct
  <2>2. CASE i \in 1 .. l /\ j \in 1 .. l
    BY <1>1, <1>3, <1>8, <2>2, Zenon DEF Distinct
  <2>3. CASE i \in 1 .. l /\ j \notin 1 .. l
    BY <1>2, <1>3, <2>1, <2>3
  <2>4. CASE i \notin 1 .. l /\ j \in 1 .. l
    BY <1>2, <1>3, <2>1, <2>4
  <2>5. CASE i \notin 1 .. l /\ j \notin 1 .. l
    <3>1. t[i - l] = t[j - l] /\ i - l \in 1 .. m /\ j - l \in 1 .. m /\ i = (i - l) + l /\ j = (j - l) + l
      BY <1>2, <2>5
    <3>2. i - l = j - l
      BY <1>1, <1>8, <3>1, Zenon DEF Distinct
    <3> QED
      BY <3>1, <3>2
  <2> QED
    BY <2>2, <2>3, <2>4, <2>5
<1> QED
  BY <1>1, <1>6, <1>7, <1>8 DEF u, l, m

\* The first k values of a sequence and the rest of it.
LEMMA SplitIs ==
  ASSUME NEW B, NEW s \in Seq(B), NEW k \in 0 .. Len(s)
  PROVE  /\ SubSeq(s, 1, k) \in Seq(B) /\ Len(SubSeq(s, 1, k)) = k
         /\ \A i \in 1 .. k : SubSeq(s, 1, k)[i] = s[i]
         /\ SubSeq(s, k + 1, Len(s)) \in Seq(B) /\ Len(SubSeq(s, k + 1, Len(s))) = Len(s) - k
         /\ \A i \in 1 .. Len(s) - k : SubSeq(s, k + 1, Len(s))[i] = s[k + i]
         /\ SubSeq(s, 1, k) \o SubSeq(s, k + 1, Len(s)) = s
<1> DEFINE l == Len(s)
           a == SubSeq(s, 1, k)
           b == SubSeq(s, k + 1, l)
<1>1. l \in Nat /\ k \in Nat /\ k <= l /\ \A i \in 1 .. l : s[i] \in B
  OBVIOUS
<1>2. a \in Seq(B) /\ Len(a) = (IF 1 <= k THEN k - 1 + 1 ELSE 0) /\ \A i \in 1 .. k - 1 + 1 : a[i] = s[1 + i - 1]
  <2>1. \A i \in 1 .. k : s[i] \in B
    BY <1>1
  <2> QED
    BY <1>1, <2>1, SubSeqProperties
<1>3. /\ b \in Seq(B) /\ Len(b) = (IF k + 1 <= l THEN l - (k + 1) + 1 ELSE 0)
      /\ \A i \in 1 .. l - (k + 1) + 1 : b[i] = s[(k + 1) + i - 1]
  <2>1. \A i \in k + 1 .. l : s[i] \in B
    BY <1>1
  <2> QED
    BY <1>1, <2>1, SubSeqProperties
<1>4. a \o b = s
  <2>1. 1 \in 1 .. l + 1 /\ k \in 1 - 1 .. l /\ l \in k .. l
    BY <1>1
  <2>2. a \o b = SubSeq(s, 1, l)
    BY <2>1, ConcatAdjacentSubSeq
  <2> QED
    BY <2>2, SubSeqFull
<1> HIDE DEF l, a, b
<1>5. Len(a) = k /\ \A i \in 1 .. k : a[i] = s[i]
  <2>1. Len(a) = k
    BY <1>1, <1>2
  <2>2. \A i \in 1 .. k : i \in 1 .. k - 1 + 1 /\ 1 + i - 1 = i
    BY <1>1
  <2> QED
    BY <1>2, <2>1, <2>2
<1>6. Len(b) = l - k /\ \A i \in 1 .. l - k : b[i] = s[k + i]
  <2>1. Len(b) = l - k
    BY <1>1, <1>3
  <2>2. \A i \in 1 .. l - k : i \in 1 .. l - (k + 1) + 1 /\ (k + 1) + i - 1 = k + i
    BY <1>1
  <2> QED
    BY <1>3, <2>1, <2>2
<1> QED
  BY <1>2, <1>3, <1>4, <1>5, <1>6 DEF l, a, b
=============================================================================
