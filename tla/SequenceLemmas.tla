---------------------------- MODULE SequenceLemmas ----------------------------
(***************************************************************************)
(* Facts that the proofs of this project share: least elements and         *)
(* induction on numbers, what erasing an element of a vector, popping its  *)
(* back and taking its front leave, and the order SetToSeq() picks.        *)
(***************************************************************************)
EXTENDS Integers, SequencesExt, SequenceTheorems, FiniteSetTheorems, FunctionTheorems,
        WellFoundedInduction, TLAPS

\* A set of numbers has a least element.
LEMMA LeastElement ==
  ASSUME NEW T, T \subseteq Nat, T # {}
  PROVE  \E n \in T : \A m \in T : n <= m
<1> DEFINE R == {ss \in Nat \X Nat : ss[1] < ss[2]}
<1>1. IsWellFoundedOn(R, Nat)
  BY NatLessThanWellFounded DEF OpToRel
<1>2. PICK n \in T : \A m \in T : ~ (<<m, n>> \in R)
  <2> HIDE DEF R
  <2>1. QED
    BY <1>1, WFMin, Zenon
<1>3. \A m \in T : ~(m < n)
  BY <1>2
<1>4. QED
  BY <1>3

\* Induction, on the set of the numbers that have a property.
LEMMA SetInduction ==
  ASSUME NEW T, T \subseteq Nat, 0 \in T, \A n \in T : n + 1 \in T
  PROVE  T = Nat
<1> SUFFICES ASSUME Nat \ T # {}
             PROVE  FALSE
  OBVIOUS
<1>1. PICK n \in Nat \ T : \A m \in Nat \ T : n <= m
  BY LeastElement
<1>2. n - 1 \in Nat /\ n - 1 \in T
  BY <1>1
<1>3. n \in T
  BY <1>1, <1>2
<1>4. QED
  BY <1>1, <1>3

\* A function from the first numbers is a sequence.
LEMMA FunctionIsSeq ==
  ASSUME NEW S, NEW n \in Nat, NEW f \in [1 .. n -> S]
  PROVE  f \in Seq(S) /\ Len(f) = n
<1>1. f \in Seq(S)
  BY SeqDef
<1>2. Len(f) \in Nat /\ DOMAIN f = 1 .. Len(f)
  BY <1>1, LenProperties
<1>3. 1 .. n = 1 .. Len(f)
  BY <1>2
<1>4. QED
  BY <1>1, <1>2, <1>3

\* SetToSeq() lists the elements of a finite set, each once.
LEMMA SetToSeqProperties ==
  ASSUME NEW S, IsFiniteSet(S)
  PROVE  /\ SetToSeq(S) \in Seq(S)
         /\ DOMAIN SetToSeq(S) = 1 .. Len(SetToSeq(S))
         /\ \A j, k \in DOMAIN SetToSeq(S) : SetToSeq(S)[j] = SetToSeq(S)[k] => j = k
         /\ \A x \in S : \E k \in DOMAIN SetToSeq(S) : SetToSeq(S)[k] = x
<1> DEFINE n == Cardinality(S)
           s == SetToSeq(S)
<1>1. n \in Nat /\ ExistsBijection(1 .. n, S)
  BY FS_CardinalityType
<1>2. PICK g : g \in Bijection(1 .. n, S)
  BY <1>1 DEF ExistsBijection
<1>3. g \in [1 .. n -> S] /\ IsInjective(g)
  BY <1>2 DEF Bijection, Injection
<1>4. s \in [1 .. n -> S] /\ IsInjective(s)
  BY <1>3 DEF SetToSeq
<1> HIDE DEF s
<1>5. s \in Seq(S) /\ Len(s) = n
  BY <1>1, <1>4, FunctionIsSeq
<1>6. s \in Surjection(1 .. n, S)
  <2>1. s \in Injection(1 .. n, S)
    BY <1>4 DEF Injection
  <2>2. Cardinality(1 .. n) = n
    BY <1>1, FS_Interval
  <2>3. QED
    BY <2>1, <2>2, FS_Injection
<1>7. \A x \in S : \E k \in 1 .. n : s[k] = x
  BY <1>6 DEF Surjection
<1>8. QED
  BY <1>4, <1>5, <1>7 DEF s, IsInjective

\* What erasing the k-th element of a vector leaves.
LEMMA RemoveAtProperties ==
  ASSUME NEW S, NEW s \in Seq(S), NEW k \in 1 .. Len(s)
  PROVE  /\ RemoveAt(s, k) \in Seq(S)
         /\ Len(RemoveAt(s, k)) = Len(s) - 1
         /\ \A j \in 1 .. Len(s) - 1 :
              RemoveAt(s, k)[j] = IF j < k THEN s[j] ELSE s[j + 1]
<1> DEFINE a == SubSeq(s, 1, k - 1)
           b == SubSeq(s, k + 1, Len(s))
<1>1. /\ a \in Seq(S)
      /\ Len(a) = k - 1
      /\ \A i \in 1 .. k - 1 : a[i] = s[i]
  <2>1. \A i \in 1 .. k - 1 : s[i] \in S
    BY ElementOfSeq
  <2>2. QED
    BY <2>1, SubSeqProperties
<1>2. /\ b \in Seq(S)
      /\ Len(b) = Len(s) - k
      /\ \A i \in 1 .. Len(s) - k : b[i] = s[k + i]
  <2>1. \A i \in k + 1 .. Len(s) : s[i] \in S
    BY ElementOfSeq
  <2>2. /\ b \in Seq(S)
        /\ Len(b) = IF k + 1 <= Len(s) THEN Len(s) - (k + 1) + 1 ELSE 0
        /\ \A i \in 1 .. Len(s) - (k + 1) + 1 : b[i] = s[k + 1 + i - 1]
    BY <2>1, SubSeqProperties
  <2>3. QED
    BY <2>2
<1>3. RemoveAt(s, k) = a \o b
  BY DEF RemoveAt
<1> HIDE DEF a, b
<1>4. /\ a \o b \in Seq(S)
      /\ Len(a \o b) = Len(a) + Len(b)
      /\ \A i \in 1 .. Len(a) + Len(b) :
           (a \o b)[i] = IF i <= Len(a) THEN a[i] ELSE b[i - Len(a)]
  BY <1>1, <1>2, ConcatProperties
<1>5. Len(a) + Len(b) = Len(s) - 1 /\ Len(a) = k - 1 /\ Len(s) \in Nat /\ k \in Nat
  BY <1>1, <1>2, LenProperties
<1>6. ASSUME NEW j \in 1 .. Len(s) - 1
      PROVE  (a \o b)[j] = IF j < k THEN s[j] ELSE s[j + 1]
  <2>1. j \in 1 .. Len(a) + Len(b)
    BY <1>5
  <2>2. CASE j < k
    <3>1. j \in 1 .. k - 1 /\ j <= Len(a)
      BY <1>5, <2>2
    <3>2. QED
      BY <1>1, <1>4, <2>1, <2>2, <3>1
  <2>3. CASE ~(j < k)
    <3>1. /\ j - Len(a) \in 1 .. Len(s) - k /\ ~(j <= Len(a))
          /\ k + (j - Len(a)) = j + 1
      BY <1>5, <2>3
    <3>2. QED
      BY <1>2, <1>4, <2>1, <2>3, <3>1
  <2>4. QED
    BY <2>2, <2>3
<1>7. QED
  BY <1>3, <1>4, <1>5, <1>6

\* What pop_back() leaves.
LEMMA FrontProperties ==
  ASSUME NEW S, NEW s \in Seq(S), s # <<>>
  PROVE  /\ Front(s) \in Seq(S)
         /\ Len(Front(s)) = Len(s) - 1
         /\ \A j \in 1 .. Len(s) - 1 : Front(s)[j] = s[j]
         /\ Last(s) = s[Len(s)]
         /\ Len(s) \in 1 .. Len(s)
<1> DEFINE n == Len(s)
           f == SubSeq(s, 1, n - 1)
<1>1. n \in Nat \ {0}
  BY EmptySeq
<1>2. \A i \in 1 .. n - 1 : s[i] \in S
  BY <1>1, ElementOfSeq
<1>3. /\ f \in Seq(S)
      /\ Len(f) = IF 1 <= n - 1 THEN n - 1 - 1 + 1 ELSE 0
      /\ \A i \in 1 .. n - 1 - 1 + 1 : f[i] = s[1 + i - 1]
  BY <1>1, <1>2, SubSeqProperties
<1>4. Front(s) = f /\ Last(s) = s[n]
  BY DEF Front, Last
<1> HIDE DEF f, n
<1>5. Len(f) = n - 1 /\ n - 1 - 1 + 1 = n - 1 /\ n \in 1 .. n
  BY <1>1, <1>3
<1>6. \A i \in 1 .. n - 1 : f[i] = s[i]
  <2> SUFFICES ASSUME NEW i \in 1 .. n - 1
               PROVE  f[i] = s[i]
    OBVIOUS
  <2>1. 1 + i - 1 = i
    BY <1>1
  <2>2. QED
    BY <1>3, <1>5, <2>1
<1>7. QED
  BY <1>3, <1>4, <1>5, <1>6 DEF n

\* Induction on sequences, on the set of those that have a property.
LEMMA SeqInduction ==
  ASSUME NEW S, NEW T, T \subseteq Seq(S), <<>> \in T,
         \A s \in T, x \in S : Append(s, x) \in T
  PROVE  T = Seq(S)
<1> DEFINE N == {n \in Nat : \A s \in Seq(S) : Len(s) = n => s \in T}
<1>1. 0 \in N
  BY EmptySeq
<1>2. ASSUME NEW n \in N
      PROVE  n + 1 \in N
  <2> SUFFICES ASSUME NEW s \in Seq(S), Len(s) = n + 1
               PROVE  s \in T
    OBVIOUS
  <2>1. s # <<>>
    BY EmptySeq
  <2>2. PICK t \in Seq(S), x \in S : s = Append(t, x)
    BY <2>1, SequenceEmptyOrAppend
  <2>3. Len(s) = Len(t) + 1 /\ Len(t) \in Nat
    BY <2>2, AppendProperties, LenProperties
  <2>4. Len(t) = n
    BY <2>3
  <2>5. QED
    BY <2>2, <2>4
<1>3. N = Nat
  <2>1. N \subseteq Nat
    OBVIOUS
  <2> HIDE DEF N
  <2>2. QED
    BY <1>1, <1>2, <2>1, SetInduction
<1>4. QED
  BY <1>3, LenProperties

-----------------------------------------------------------------------------
(* FlattenSeq(): the concatenation of the sequences of a sequence.         *)

\* f[i] concatenates the first i of m sequences.
IsFlattening(f, ss, m) ==
  f = [i \in 1 .. m |-> IF i = 1 THEN ss[i] ELSE f[i - 1] \o ss[i]]

LEMMA FlatteningExists ==
  ASSUME NEW ss
  PROVE  \A m \in Nat : \E f : IsFlattening(f, ss, m)
<1> DEFINE T == {m \in Nat : \E f : IsFlattening(f, ss, m)}
<1>1. 0 \in T
  <2> DEFINE f == [i \in 1 .. 0 |-> <<>>]
  <2>1. f = [i \in 1 .. 0 |-> IF i = 1 THEN ss[i] ELSE f[i - 1] \o ss[i]]
    OBVIOUS
  <2>2. IsFlattening(f, ss, 0)
    BY <2>1 DEF IsFlattening
  <2>3. QED
    BY <2>2
<1>2. ASSUME NEW m \in T
      PROVE  m + 1 \in T
  <2>1. PICK f : IsFlattening(f, ss, m)
    OBVIOUS
  <2>2. f = [i \in 1 .. m |-> IF i = 1 THEN ss[i] ELSE f[i - 1] \o ss[i]]
    BY <2>1 DEF IsFlattening
  <2> DEFINE g == [i \in 1 .. m + 1 |->
                     IF i <= m THEN f[i] ELSE IF i = 1 THEN ss[i] ELSE f[m] \o ss[i]]
             h == [i \in 1 .. m + 1 |-> IF i = 1 THEN ss[i] ELSE g[i - 1] \o ss[i]]
  <2>3. ASSUME NEW i \in 1 .. m + 1
        PROVE  g[i] = h[i]
    <3>1. CASE i = 1
      BY <2>2, <3>1
    <3>2. CASE i # 1 /\ i <= m
      <4>1. i - 1 \in 1 .. m /\ i - 1 \in 1 .. m + 1 /\ i \in 1 .. m /\ i - 1 <= m
        BY <3>2
      <4>2. g[i] = f[i] /\ f[i] = f[i - 1] \o ss[i] /\ g[i - 1] = f[i - 1]
        BY <2>2, <3>2, <4>1
      <4>3. h[i] = g[i - 1] \o ss[i]
        BY <3>2
      <4>4. QED
        BY <4>2, <4>3
    <3>3. CASE i # 1 /\ ~(i <= m)
      <4>1. i - 1 = m /\ m \in 1 .. m + 1 /\ m <= m
        BY <3>3
      <4>2. g[i] = f[m] \o ss[i] /\ g[m] = f[m]
        BY <3>3, <4>1
      <4>3. h[i] = g[m] \o ss[i]
        BY <3>3, <4>1
      <4>4. QED
        BY <4>2, <4>3
    <3>4. QED
      BY <3>1, <3>2, <3>3
  <2>4. g = h
    BY <2>3
  <2>5. IsFlattening(g, ss, m + 1)
    <3> HIDE DEF g
    <3>1. QED
      BY <2>4 DEF IsFlattening
  <2>6. QED
    BY <2>5
<1>3. T = Nat
  <2>1. T \subseteq Nat
    OBVIOUS
  <2> HIDE DEF T
  <2>2. QED
    BY <1>1, <1>2, <2>1, SetInduction
<1>4. QED
  BY <1>3

\* What the recursion of FlattenSeq() gives.
LEMMA FlattenUnfold ==
  ASSUME NEW S, NEW ss \in Seq(S), ss # <<>>
  PROVE  \E f : IsFlattening(f, ss, Len(ss)) /\ FlattenSeq(ss) = f[Len(ss)]
<1> DEFINE n == Len(ss)
           f == CHOOSE g : g = [i \in 1 .. n |-> IF i = 1 THEN ss[i] ELSE g[i - 1] \o ss[i]]
<1>1. n \in Nat \ {0}
  BY EmptySeq
<1>2. \E g : g = [i \in 1 .. n |-> IF i = 1 THEN ss[i] ELSE g[i - 1] \o ss[i]]
  BY <1>1, FlatteningExists DEF IsFlattening
<1>3. f = [i \in 1 .. n |-> IF i = 1 THEN ss[i] ELSE f[i - 1] \o ss[i]]
  BY <1>2, Zenon
<1>4. FlattenSeq(ss) = f[n]
  BY <1>1 DEF FlattenSeq
<1> HIDE DEF f
<1>5. QED
  BY <1>3, <1>4 DEF IsFlattening

\* Appending one more sequence to those that are concatenated.
LEMMA FlattenAppend ==
  ASSUME NEW S, NEW ss \in Seq(Seq(S)), NEW s \in Seq(S), FlattenSeq(ss) \in Seq(S)
  PROVE  FlattenSeq(Append(ss, s)) = FlattenSeq(ss) \o s
<1> DEFINE n == Len(ss)
           tt == Append(ss, s)
<1>1. /\ n \in Nat /\ tt \in Seq(Seq(S)) /\ tt # <<>> /\ Len(tt) = n + 1
      /\ \A i \in 1 .. n : tt[i] = ss[i]
      /\ tt[n + 1] = s
  BY AppendProperties, LenProperties
<1> HIDE DEF tt
<1>2. PICK g : IsFlattening(g, tt, n + 1) /\ FlattenSeq(tt) = g[n + 1]
  BY <1>1, FlattenUnfold
<1>3. \A i \in 1 .. n + 1 : g[i] = IF i = 1 THEN tt[i] ELSE g[i - 1] \o tt[i]
  <2>1. g = [i \in 1 .. n + 1 |-> IF i = 1 THEN tt[i] ELSE g[i - 1] \o tt[i]]
    BY <1>2 DEF IsFlattening
  <2>2. QED
    BY <2>1
<1>4. CASE ss = <<>>
  <2>1. n = 0 /\ FlattenSeq(ss) = <<>>
    BY <1>4, EmptySeq DEF FlattenSeq
  <2>2. g[1] = s
    BY <1>1, <1>3, <2>1
  <2>3. QED
    BY <1>2, <2>1, <2>2, ConcatEmptySeq DEF tt
<1>5. CASE ss # <<>>
  <2>1. n # 0
    BY <1>5, EmptySeq
  <2>2. PICK f : IsFlattening(f, ss, n) /\ FlattenSeq(ss) = f[n]
    BY <1>5, FlattenUnfold
  <2>3. \A i \in 1 .. n : f[i] = IF i = 1 THEN ss[i] ELSE f[i - 1] \o ss[i]
    <3>1. f = [i \in 1 .. n |-> IF i = 1 THEN ss[i] ELSE f[i - 1] \o ss[i]]
      BY <2>2 DEF IsFlattening
    <3>2. QED
      BY <3>1
  <2> DEFINE T == {k \in Nat : k + 1 \in 1 .. n => g[k + 1] = f[k + 1]}
  <2>4. 0 \in T
    BY <1>1, <1>3, <2>1, <2>3
  <2>5. ASSUME NEW k \in T
        PROVE  k + 1 \in T
    <3> SUFFICES ASSUME k + 1 + 1 \in 1 .. n
                 PROVE  g[k + 1 + 1] = f[k + 1 + 1]
      OBVIOUS
    <3>1. /\ k \in Nat /\ k + 1 \in 1 .. n /\ k + 1 + 1 \in 1 .. n + 1
          /\ k + 1 + 1 # 1 /\ k + 1 + 1 - 1 = k + 1
      BY <1>1
    <3>2. g[k + 1] = f[k + 1]
      BY <3>1
    <3> DEFINE j == k + 1 + 1
    <3>3. j \in 1 .. n /\ j \in 1 .. n + 1 /\ j # 1 /\ j - 1 = k + 1
      BY <3>1
    <3> HIDE DEF j
    <3>4. g[j] = g[j - 1] \o tt[j] /\ f[j] = f[j - 1] \o ss[j] /\ tt[j] = ss[j]
      BY <1>1, <1>3, <2>3, <3>3
    <3>5. g[j] = f[j]
      BY <3>2, <3>3, <3>4
    <3>6. QED
      BY <3>5 DEF j
  <2>6. T = Nat
    <3>1. T \subseteq Nat
      OBVIOUS
    <3> HIDE DEF T
    <3>2. QED
      BY <2>4, <2>5, <3>1, SetInduction
  <2>7. g[n] = f[n]
    <3>1. n - 1 \in Nat /\ n - 1 + 1 = n /\ n \in 1 .. n
      BY <1>1, <2>1
    <3>2. n - 1 \in T
      BY <2>6, <3>1
    <3>3. QED
      BY <3>1, <3>2
  <2>8. g[n + 1] = g[n] \o s
    <3>1. n + 1 \in 1 .. n + 1 /\ n + 1 # 1 /\ n + 1 - 1 = n
      BY <1>1, <2>1
    <3> DEFINE j == n + 1
    <3>2. j \in 1 .. n + 1 /\ j # 1 /\ j - 1 = n /\ tt[j] = s
      BY <1>1, <3>1
    <3> HIDE DEF j
    <3>3. g[j] = g[j - 1] \o tt[j]
      BY <1>3, <3>2
    <3>4. QED
      BY <3>2, <3>3 DEF j
  <2>9. QED
    BY <1>2, <2>2, <2>7, <2>8 DEF tt
<1>6. QED
  BY <1>4, <1>5

\* The concatenation of sequences over S is one.
LEMMA FlattenType ==
  ASSUME NEW S, NEW ss \in Seq(Seq(S))
  PROVE  FlattenSeq(ss) \in Seq(S)
<1> DEFINE T == {tt \in Seq(Seq(S)) : FlattenSeq(tt) \in Seq(S)}
<1>1. <<>> \in T
  <2>1. FlattenSeq(<<>>) = <<>>
    BY EmptySeq DEF FlattenSeq
  <2>2. QED
    BY <2>1, EmptySeq
<1>2. ASSUME NEW tt \in T, NEW s \in Seq(S)
      PROVE  Append(tt, s) \in T
  <2>1. FlattenSeq(Append(tt, s)) = FlattenSeq(tt) \o s
    BY FlattenAppend
  <2>2. FlattenSeq(tt) \o s \in Seq(S)
    BY ConcatProperties
  <2>3. Append(tt, s) \in Seq(Seq(S))
    BY AppendProperties
  <2>4. QED
    BY <2>1, <2>2, <2>3
<1>3. T = Seq(Seq(S))
  <2>1. T \subseteq Seq(Seq(S))
    OBVIOUS
  <2> HIDE DEF T
  <2>2. QED
    BY <1>1, <1>2, <2>1, SeqInduction
<1>4. QED
  BY <1>3

\* Concatenating what f makes of the elements of a sequence.
FlatMap(f, s) == FlattenSeq([i \in DOMAIN s |-> f[s[i]]])

LEMMA FlatMapType ==
  ASSUME NEW S, NEW R, NEW f \in [S -> Seq(R)], NEW s \in Seq(S)
  PROVE  FlatMap(f, s) \in Seq(R) /\ FlatMap(f, <<>>) = <<>>
<1> DEFINE n == Len(s)
           ss == [i \in DOMAIN s |-> f[s[i]]]
<1>1. n \in Nat /\ DOMAIN s = 1 .. n /\ \A i \in 1 .. n : s[i] \in S
  BY LenProperties, ElementOfSeq
<1>2. ss \in [1 .. n -> Seq(R)]
  BY <1>1
<1>3. FlatMap(f, s) = FlattenSeq(ss)
  BY DEF FlatMap
<1>4. FlatMap(f, <<>>) = <<>>
  <2>1. [i \in DOMAIN <<>> |-> f[<<>>[i]]] = <<>>
    OBVIOUS
  <2>2. QED
    BY <2>1, EmptySeq DEF FlatMap, FlattenSeq
<1> HIDE DEF ss
<1>5. ss \in Seq(Seq(R))
  BY <1>1, <1>2, FunctionIsSeq
<1>6. QED
  BY <1>3, <1>4, <1>5, FlattenType

LEMMA FlatMapAppend ==
  ASSUME NEW S, NEW R, NEW f \in [S -> Seq(R)], NEW s \in Seq(S), NEW x \in S
  PROVE  FlatMap(f, Append(s, x)) = FlatMap(f, s) \o f[x]
<1> DEFINE n == Len(s)
           ss == [i \in DOMAIN s |-> f[s[i]]]
           t == Append(s, x)
           tt == [i \in DOMAIN t |-> f[t[i]]]
<1>1. n \in Nat /\ DOMAIN s = 1 .. n /\ \A i \in 1 .. n : s[i] \in S
  BY LenProperties, ElementOfSeq
<1>2. ss \in Seq(Seq(R)) /\ Len(ss) = n
  <2>1. ss \in [1 .. n -> Seq(R)]
    BY <1>1
  <2> HIDE DEF ss
  <2>2. QED
    BY <1>1, <2>1, FunctionIsSeq
<1>3. /\ t \in Seq(S) /\ Len(t) = n + 1 /\ DOMAIN t = 1 .. n + 1
      /\ \A i \in 1 .. n : t[i] = s[i]
      /\ t[n + 1] = x
  BY <1>1, AppendProperties, LenProperties
<1> HIDE DEF t
<1>4. tt = Append(ss, f[x])
  <2>1. tt \in [1 .. n + 1 -> Seq(R)]
    <3>1. \A i \in 1 .. n + 1 : t[i] \in S
      BY <1>3, ElementOfSeq
    <3>2. QED
      BY <1>3, <3>1
  <2>2. \A i \in 1 .. n : tt[i] = ss[i]
    BY <1>1, <1>3
  <2>3. tt[n + 1] = f[x]
    BY <1>1, <1>3
  <2> HIDE DEF tt, ss
  <2>4. tt \in Seq(Seq(R)) /\ Len(tt) = n + 1
    <3>1. n + 1 \in Nat
      BY <1>1
    <3>2. QED
      BY <2>1, <3>1, FunctionIsSeq
  <2>5. f[x] \in Seq(R)
    OBVIOUS
  <2> DEFINE u == Append(ss, f[x])
  <2>6. /\ u \in Seq(Seq(R)) /\ Len(u) = n + 1
        /\ \A i \in 1 .. n : u[i] = ss[i]
        /\ u[n + 1] = f[x]
    BY <1>2, <2>5, AppendProperties
  <2> HIDE DEF u
  <2>7. \A i \in 1 .. n + 1 : tt[i] = u[i]
    <3> SUFFICES ASSUME NEW i \in 1 .. n + 1
                 PROVE  tt[i] = u[i]
      OBVIOUS
    <3>1. i \in 1 .. n \/ i = n + 1
      BY <1>1
    <3>2. QED
      BY <2>2, <2>3, <2>6, <3>1
  <2>8. tt = u
    BY <2>4, <2>6, <2>7, SeqEqual
  <2>9. QED
    BY <2>8 DEF u
<1>5. FlatMap(f, s) = FlattenSeq(ss) /\ FlatMap(f, t) = FlattenSeq(tt)
  BY DEF FlatMap
<1> HIDE DEF ss, tt
<1>7. FlattenSeq(ss) \in Seq(R)
  BY <1>2, FlattenType
<1>8. FlattenSeq(Append(ss, f[x])) = FlattenSeq(ss) \o f[x]
  BY <1>2, <1>7, FlattenAppend
<1>9. QED
  BY <1>4, <1>5, <1>8 DEF t

\* Concatenation is associative: what a step needs of it, for the sequences over S.
Regroups(S) ==
  \A s \in Seq(S), t \in Seq(S), u \in Seq(S) : (s \o t) \o u = s \o (t \o u)

LEMMA ConcatRegroups ==
  ASSUME NEW S
  PROVE  Regroups(S)
BY ConcatAssociative DEF Regroups

\* FlatMap() maps concatenations to concatenations.
LEMMA FlatMapConcat ==
  ASSUME NEW S, NEW R, NEW f \in [S -> Seq(R)], NEW s \in Seq(S), NEW t \in Seq(S)
  PROVE  FlatMap(f, s \o t) = FlatMap(f, s) \o FlatMap(f, t)
<1> DEFINE T == {u \in Seq(S) : FlatMap(f, s \o u) = FlatMap(f, s) \o FlatMap(f, u)}
<1>1. <<>> \in T
  <2>1. FlatMap(f, <<>>) = <<>> /\ s \o <<>> = s /\ <<>> \in Seq(S)
    BY FlatMapType, ConcatEmptySeq, EmptySeq
  <2>2. FlatMap(f, s) \in Seq(R)
    BY FlatMapType
  <2>3. FlatMap(f, s) \o <<>> = FlatMap(f, s)
    BY <2>2, ConcatEmptySeq
  <2>4. QED
    BY <2>1, <2>3
<1>2. ASSUME NEW u, u \in T, NEW x \in S
      PROVE  Append(u, x) \in T
  <2>1. /\ u \in Seq(S) /\ Append(u, x) \in Seq(S) /\ s \o u \in Seq(S)
        /\ f[x] \in Seq(R) /\ FlatMap(f, s) \in Seq(R) /\ FlatMap(f, u) \in Seq(R)
        /\ FlatMap(f, s \o u) = FlatMap(f, s) \o FlatMap(f, u)
    BY <1>2, AppendProperties, ConcatProperties, FlatMapType
  <2>2. s \o Append(u, x) = Append(s \o u, x)
    <3>1. Append(u, x) = u \o <<x>> /\ Append(s \o u, x) = (s \o u) \o <<x>>
      BY <2>1, AppendIsConcat
    <3>2. (s \o u) \o <<x>> = s \o (u \o <<x>>)
      <4>1. <<x>> \in Seq(S) /\ u \in Seq(S)
        BY <2>1
      <4>2. Regroups(S)
        BY ConcatRegroups
      <4>3. QED
        BY <4>1, <4>2 DEF Regroups
    <3>3. QED
      BY <3>1, <3>2
  <2>3. FlatMap(f, Append(s \o u, x)) = FlatMap(f, s \o u) \o f[x]
    BY <2>1, FlatMapAppend
  <2>4. FlatMap(f, Append(u, x)) = FlatMap(f, u) \o f[x]
    BY <2>1, FlatMapAppend
  <2>5. (FlatMap(f, s) \o FlatMap(f, u)) \o f[x] = FlatMap(f, s) \o (FlatMap(f, u) \o f[x])
    <3>1. /\ FlatMap(f, s) \in Seq(R) /\ FlatMap(f, u) \in Seq(R)
          /\ f[x] \in Seq(R)
      BY <2>1
    <3>2. Regroups(R)
      BY ConcatRegroups
    <3>3. QED
      BY <3>1, <3>2 DEF Regroups
  <2>6. QED
    BY <2>1, <2>2, <2>3, <2>4, <2>5
<1>3. T = Seq(S)
  <2>1. T \subseteq Seq(S)
    OBVIOUS
  <2> HIDE DEF T
  <2>2. QED
    BY <1>1, <1>2, <2>1, SeqInduction
<1>4. QED
  BY <1>3

-----------------------------------------------------------------------------
(* Taking sequences apart.                                                 *)

\* The two parts of a concatenation.
LEMMA ConcatSplit ==
  ASSUME NEW S, NEW s \in Seq(S), NEW t \in Seq(S)
  PROVE  /\ SubSeq(s \o t, 1, Len(s)) = s
         /\ SubSeq(s \o t, Len(s) + 1, Len(s \o t)) = t
<1> DEFINE u == s \o t
           m == Len(s)
           n == Len(t)
<1>1. m \in Nat /\ n \in Nat
  BY LenProperties
<1>2. /\ u \in Seq(S) /\ Len(u) = m + n
      /\ \A i \in 1 .. m + n : u[i] = IF i <= m THEN s[i] ELSE t[i - m]
      /\ \A i \in 1 .. m + n : u[i] \in S
  BY ConcatProperties, ElementOfSeq
<1> HIDE DEF u
<1>3. SubSeq(u, 1, m) = s
  <2>1. \A i \in 1 .. m : u[i] \in S
    BY <1>1, <1>2
  <2> DEFINE v == SubSeq(u, 1, m)
  <2>2. /\ v \in Seq(S) /\ Len(v) = IF 1 <= m THEN m - 1 + 1 ELSE 0
        /\ \A i \in 1 .. m - 1 + 1 : v[i] = u[1 + i - 1]
    BY <1>1, <2>1, SubSeqProperties
  <2> HIDE DEF v
  <2>3. Len(v) = m
    BY <1>1, <2>2
  <2>4. \A i \in 1 .. m : v[i] = s[i]
    <3> SUFFICES ASSUME NEW i \in 1 .. m
                 PROVE  v[i] = s[i]
      OBVIOUS
    <3>1. i \in 1 .. m - 1 + 1 /\ 1 + i - 1 = i /\ i \in 1 .. m + n /\ i <= m
      BY <1>1
    <3>2. QED
      BY <1>2, <2>2, <3>1
  <2>5. v = s
    BY <2>2, <2>3, <2>4, SeqEqual
  <2>6. QED
    BY <2>5 DEF v
<1>4. SubSeq(u, m + 1, m + n) = t
  <2>1. \A i \in m + 1 .. m + n : u[i] \in S
    BY <1>1, <1>2
  <2> DEFINE v == SubSeq(u, m + 1, m + n)
  <2>2. /\ v \in Seq(S) /\ Len(v) = IF m + 1 <= m + n THEN m + n - (m + 1) + 1 ELSE 0
        /\ \A i \in 1 .. m + n - (m + 1) + 1 : v[i] = u[m + 1 + i - 1]
    BY <1>1, <2>1, SubSeqProperties
  <2> HIDE DEF v
  <2>3. Len(v) = n
    BY <1>1, <2>2
  <2>4. \A i \in 1 .. n : v[i] = t[i]
    <3> SUFFICES ASSUME NEW i \in 1 .. n
                 PROVE  v[i] = t[i]
      OBVIOUS
    <3>1. /\ i \in 1 .. m + n - (m + 1) + 1 /\ m + 1 + i - 1 = m + i
          /\ m + i \in 1 .. m + n /\ ~(m + i <= m) /\ m + i - m = i
      BY <1>1
    <3>2. v[i] = u[m + i]
      BY <2>2, <3>1
    <3>3. u[m + i] = t[i]
      BY <1>2, <3>1
    <3>4. QED
      BY <3>2, <3>3
  <2>5. v = t
    BY <2>2, <2>3, <2>4, SeqEqual
  <2>6. QED
    BY <2>5 DEF v
<1>5. QED
  BY <1>2, <1>3, <1>4 DEF u

\* A sequence is its first element and the rest, and its front and its last element.
LEMMA EndsOfSeq ==
  ASSUME NEW S, NEW s \in Seq(S), s # <<>>
  PROVE  /\ Head(s) \in S /\ Tail(s) \in Seq(S) /\ s = <<Head(s)>> \o Tail(s)
         /\ Last(s) \in S /\ Front(s) \in Seq(S) /\ s = Append(Front(s), Last(s))
<1> DEFINE n == Len(s)
<1>1. n \in Nat \ {0}
  BY EmptySeq
<1>2. Head(s) \in S /\ Tail(s) \in Seq(S) /\ s = <<Head(s)>> \o Tail(s)
  <2>1. SubSeq(s, 1, n) = <<s[1]>> \o SubSeq(s, 1 + 1, n)
    <3>1. 1 \in 1 .. n /\ n \in 1 .. n
      BY <1>1
    <3>2. QED
      BY <3>1, SubSeqRecursiveFirst
  <2>2. SubSeq(s, 1, n) = s
    BY SubSeqFull
  <2>3. Tail(s) = SubSeq(s, 2, n) /\ 1 + 1 = 2
    BY TailIsSubSeq
  <2>4. Head(s) = s[1]
    BY HeadTailProperties, <1>1
  <2>5. QED
    BY <2>1, <2>2, <2>3, <2>4, HeadTailProperties
<1>3. PICK t \in Seq(S), x \in S : s = Append(t, x)
  BY SequenceEmptyOrAppend
<1>4. Last(s) = x /\ Front(s) = t
  <2>1. n = Len(t) + 1 /\ Len(t) \in Nat /\ s[Len(t) + 1] = x
        /\ \A i \in 1 .. Len(t) : s[i] = t[i]
    BY <1>3, AppendProperties, LenProperties
  <2>2. Last(s) = s[n] /\ Front(s) \in Seq(S) /\ Len(Front(s)) = n - 1
        /\ \A i \in 1 .. n - 1 : Front(s)[i] = s[i]
    BY FrontProperties
  <2>3. n - 1 = Len(t)
    BY <2>1
  <2>4. Front(s) = t
    BY <2>1, <2>2, <2>3, SeqEqual
  <2>5. QED
    BY <2>1, <2>2, <2>4
<1>5. QED
  BY <1>2, <1>3, <1>4

=============================================================================
