-------------------------------- MODULE Induction --------------------------------
(***************************************************************************)
(* What the proofs need about numbers, by counting: the induction theorems *)
(* of the library speak of a predicate, these of a set.  At the end, what  *)
(* follows from it about a sequence of sequences.                          *)
(***************************************************************************)
EXTENDS Integers, Sequences, SequencesExt, SequenceTheorems, FiniteSets, FiniteSetTheorems, TLAPS

(* A set of numbers with 0 that has, with each number below n, the next    *)
(* one, has all of 0..n: without the number x it would map the numbers up  *)
(* to x that it lacks, one less each, to fewer numbers.                    *)
LEMMA SetInduction ==
    ASSUME NEW n \in Nat, NEW S, 0 \in S, \A k \in 0..(n - 1) : k \in S => k + 1 \in S
    PROVE  0..n \subseteq S
<1> SUFFICES ASSUME NEW x \in 0..n, x \notin S PROVE FALSE
  OBVIOUS
<1> DEFINE A == {k \in 0..x : k \notin S}
           B == A \ {x}
           f == [k \in A |-> k - 1]
<1>1. IsFiniteSet(A) /\ x \in A
  <2>1. IsFiniteSet(0..x)
    BY FS_Interval
  <2>2. A \in SUBSET (0..x) /\ x \in A
    OBVIOUS
  <2> HIDE DEF A
  <2> QED BY <2>1, <2>2, FS_Subset
<1>2. IsFiniteSet(B) /\ Cardinality(B) = Cardinality(A) - 1 /\ Cardinality(A) \in Nat
  <2> HIDE DEF A
  <2> QED BY <1>1, FS_RemoveElement, FS_CardinalityType
<1>3. \A k \in A : k - 1 \in B
  <2> SUFFICES ASSUME NEW k \in A PROVE k - 1 \in B
    OBVIOUS
  <2>1. k \in 0..x /\ k # 0 /\ k \notin S
    OBVIOUS
  <2>2. k - 1 \in 0..(n - 1) /\ (k - 1) + 1 = k
    BY <2>1
  <2>3. k - 1 \notin S
    BY <2>1, <2>2
  <2> QED BY <2>1, <2>3
<1>4. f \in [A -> B]
  BY <1>3
<1>5. Cardinality(B) < Cardinality(A)
  BY <1>2
<1> HIDE DEF f
<1>6. PICK k \in A, j \in A : k # j /\ f[k] = f[j]
  <2> HIDE DEF A, B
  <2> QED BY <1>1, <1>2, <1>4, <1>5, FS_PigeonHole
<1> QED BY <1>6 DEF f

(* A set of numbers that is not empty has a least one. *)
LEMMA LeastElement ==
    ASSUME NEW S, NEW n \in Nat, n \in S
    PROVE  \E k \in 0..n : k \in S /\ \A j \in 0..(k - 1) : j \notin S
<1> DEFINE None == {k \in 0..n : \A j \in 0..k : j \notin S}
<1>1. SUFFICES ASSUME \A k \in 0..n : ~(k \in S /\ \A j \in 0..(k - 1) : j \notin S)
               PROVE  FALSE
  OBVIOUS
<1>2. 0 \in None
  BY <1>1
<1>3. ASSUME NEW k \in 0..(n - 1), k \in None PROVE k + 1 \in None
  <2>1. \A j \in 0..((k + 1) - 1) : j \notin S
    BY <1>3
  <2>2. k + 1 \in 0..n /\ k + 1 \notin S
    BY <1>1, <2>1
  <2> QED BY <2>1, <2>2
<1> HIDE DEF None
<1>4. 0..n \subseteq None
  BY <1>2, <1>3, SetInduction
<1>5. n \in None
  BY <1>4
<1> QED BY <1>5 DEF None

(* A recursive definition over the numbers up to n: how it goes on from    *)
(* each of them, and what it defines.                                      *)
StepsIn(F, n, D) == F \in [1..n -> [D -> D]]

Follows(g, F, n, D, d) ==
    g \in [0..n -> D] /\ g[0] = d /\ \A k \in 1..n : g[k] = F[k][g[k - 1]]

(* It defines something: from a function that reaches k the one that       *)
(* reaches k + 1 is made.                                                  *)
LEMMA Recursion ==
    ASSUME NEW n \in Nat, NEW D, NEW d \in D, NEW F, StepsIn(F, n, D)
    PROVE  \E g : Follows(g, F, n, D, d)
<1>0. F \in [1..n -> [D -> D]]
  BY DEF StepsIn
<1> DEFINE Solves(g, m) == g[0] = d /\ \A k \in 1..m : g[k] = F[k][g[k - 1]]
           Solved == {m \in 0..n : \E g \in [0..m -> D] : Solves(g, m)}
<1>1. 0 \in Solved
  <2>1. [k \in 0..0 |-> d] \in [0..0 -> D] /\ Solves([k \in 0..0 |-> d], 0)
    OBVIOUS
  <2> HIDE DEF Solves
  <2> QED BY <2>1
<1>2. ASSUME NEW m \in 0..(n - 1), m \in Solved PROVE m + 1 \in Solved
  <2>1. PICK g \in [0..m -> D] : Solves(g, m)
    BY <1>2
  <2> DEFINE h == [k \in 0..(m + 1) |-> IF k = m + 1 THEN F[m + 1][g[m]] ELSE g[k]]
  <2>2. m \in 0..m /\ m + 1 \in 1..n /\ m + 1 \in 0..n /\ 0 \in 0..(m + 1) /\ 0 # m + 1
    OBVIOUS
  <2>3. g[m] \in D
    BY <2>2
  <2>4. F[m + 1][g[m]] \in D
    BY <1>0, <2>2, <2>3
  <2>5. ASSUME NEW k \in 0..(m + 1) PROVE h[k] \in D
    <3>1. CASE k = m + 1
      BY <2>4, <3>1
    <3>2. CASE k # m + 1
      <4>1. k \in 0..m
        BY <3>2
      <4> QED BY <3>2, <4>1
    <3> QED BY <3>1, <3>2
  <2>6. ASSUME NEW k \in 1..(m + 1) PROVE h[k] = F[k][h[k - 1]]
    <3>0. k \in 0..(m + 1) /\ k - 1 \in 0..(m + 1) /\ k - 1 # m + 1
      BY <2>2
    <3>1. h[k - 1] = g[k - 1]
      BY <3>0
    <3>2. CASE k = m + 1
      <4>1. k - 1 = m /\ h[k] = F[m + 1][g[m]]
        BY <3>0, <3>2
      <4> HIDE DEF h
      <4> QED BY <3>1, <3>2, <4>1
    <3>3. CASE k # m + 1
      <4>1. k \in 1..m /\ h[k] = g[k]
        BY <3>0, <3>3
      <4>2. g[k] = F[k][g[k - 1]]
        BY <2>1, <4>1
      <4> HIDE DEF h
      <4> QED BY <3>1, <4>1, <4>2
    <3> QED BY <3>2, <3>3
  <2>7. h[0] = d
    <3>1. h[0] = g[0]
      BY <2>2
    <3> QED BY <2>1, <3>1
  <2>8. h \in [0..(m + 1) -> D]
    BY <2>5
  <2> HIDE DEF h
  <2>9. Solves(h, m + 1)
    BY <2>6, <2>7
  <2> HIDE DEF Solves
  <2> QED BY <2>2, <2>8, <2>9
<1>3. n \in Solved
  <2> HIDE DEF Solved
  <2>1. 0..n \subseteq Solved
    BY <1>1, <1>2, SetInduction
  <2> QED BY <2>1
<1> QED BY <1>3 DEF Follows

-------------------------------------------------------------------------------
(* Sequences of sequences, flattened *)

(* The sequence of a recursive definition exists: place by place it is the *)
(* one before, followed by what stands at the place.                       *)
LEMMA FlattenIs ==
    ASSUME NEW M, NEW s \in Seq(Seq(M))
    PROVE  \E f : /\ f[0] = <<>> /\ FlattenSeq(s) = f[Len(s)]
                  /\ \A i \in 0..(Len(s) - 1) : f[i + 1] = f[i] \o s[i + 1]
<1> DEFINE At(g, i) == IF i = 1 THEN s[i] ELSE g[i - 1] \o s[i]
           Solves(g, n) == g = [i \in 1..n |-> At(g, i)]
           Solved == {n \in 0..Len(s) : \E g : Solves(g, n)}
<1>1. Len(s) \in Nat /\ \A i \in 1..Len(s) : s[i] \in Seq(M)
  BY LenProperties, ElementOfSeq
<1>2. 0 \in Solved
  <2>1. Solves(<<>>, 0) /\ 0 \in 0..Len(s)
    BY <1>1
  <2> HIDE DEF Solves
  <2> QED BY <2>1
<1>3. ASSUME NEW k \in 0..(Len(s) - 1), k \in Solved PROVE k + 1 \in Solved
  <2>1. PICK g : Solves(g, k)
    BY <1>3
  <2>2. k + 1 \in 0..Len(s) /\ k \in Nat
    BY <1>1
  <2> DEFINE h == [i \in 1..(k + 1) |-> IF i = k + 1 THEN At(g, i) ELSE g[i]]
  <2>3. ASSUME NEW i \in 1..(k + 1) PROVE h[i] = At(h, i)
    <3>1. \A l \in 1..k : l \in 1..(k + 1) /\ l # k + 1
      BY <2>2
    <3>2. h[i] = At(g, i)
      <4>1. CASE i = k + 1
        BY <4>1
      <4>2. CASE i # k + 1
        <5>1. i \in 1..k
          BY <2>2, <4>2
        <5>2. g[i] = At(g, i)
          <6>1. g = [l \in 1..k |-> At(g, l)]
            BY <2>1
          <6> HIDE DEF At, h
          <6> QED BY <5>1, <6>1
        <5> HIDE DEF At
        <5> QED BY <4>2, <5>2
      <4> QED BY <4>1, <4>2
    <3>3. i # 1 => h[i - 1] = g[i - 1]
      <4> SUFFICES ASSUME i # 1 PROVE h[i - 1] = g[i - 1]
        OBVIOUS
      <4>1. i - 1 \in 1..k
        BY <2>2
      <4> HIDE DEF At
      <4> QED BY <3>1, <4>1
    <3> HIDE DEF h
    <3> QED BY <3>2, <3>3
  <2>4. Solves(h, k + 1)
    <3>1. h = [i \in 1..(k + 1) |-> h[i]]
      OBVIOUS
    <3> HIDE DEF h
    <3> QED BY <2>3, <3>1
  <2> HIDE DEF Solves, h
  <2> QED BY <2>2, <2>4
<1>4. \E g : Solves(g, Len(s))
  <2> HIDE DEF Solved
  <2>1. 0..Len(s) \subseteq Solved
    BY <1>1, <1>2, <1>3, SetInduction
  <2>2. Len(s) \in Solved
    BY <1>1, <2>1
  <2> HIDE DEF Solves
  <2> QED BY <2>2 DEF Solved
<1> DEFINE g == CHOOSE h : Solves(h, Len(s))
<1>5. Solves(g, Len(s))
  <2> HIDE DEF Solves
  <2> QED BY <1>4
<1>6. Len(s) # 0 => FlattenSeq(s) = g[Len(s)]
  BY <1>1 DEF FlattenSeq
<1> HIDE DEF g
<1>7. \A i \in 1..Len(s) : g[i] = At(g, i)
  <2> TAKE i \in 1..Len(s)
  <2>1. g = [l \in 1..Len(s) |-> At(g, l)]
    BY <1>5
  <2> HIDE DEF At
  <2> QED BY <2>1
<1> DEFINE f == [i \in 0..Len(s) |-> IF i = 0 THEN <<>> ELSE g[i]]
<1>8. f[0] = <<>> /\ \A i \in 1..Len(s) : f[i] = g[i]
  BY <1>1
<1>9. FlattenSeq(s) = f[Len(s)]
  <2>1. CASE Len(s) = 0
    BY <1>8, <2>1, EmptySeq DEF FlattenSeq
  <2>2. CASE Len(s) # 0
    BY <1>1, <1>6, <1>8, <2>2
  <2> QED BY <2>1, <2>2
<1>10. ASSUME NEW i \in 0..(Len(s) - 1) PROVE f[i + 1] = f[i] \o s[i + 1]
  <2>1. i + 1 \in 1..Len(s) /\ (i + 1) - 1 = i /\ (i # 0 => i \in 1..Len(s)) /\ (i + 1 = 1 <=> i = 0)
    BY <1>1
  <2> HIDE DEF f
  <2>2. f[i + 1] = g[i + 1] /\ g[i + 1] = At(g, i + 1) /\ s[i + 1] \in Seq(M)
    <3> HIDE DEF At
    <3> QED BY <1>1, <1>7, <1>8, <2>1
  <2>3. CASE i = 0
    <3>1. f[i + 1] = s[i + 1] /\ f[i] = <<>>
      BY <1>8, <2>1, <2>2, <2>3
    <3> QED BY <2>2, <3>1, ConcatEmptySeq
  <2>4. CASE i # 0
    <3>1. f[i] = g[i] /\ f[i + 1] = g[(i + 1) - 1] \o s[i + 1]
      BY <1>8, <2>1, <2>2, <2>4
    <3> QED BY <2>1, <3>1
  <2> QED BY <2>3, <2>4
<1> HIDE DEF f
<1> QED BY <1>8, <1>9, <1>10

(* Where what is flattened stands: the entries of s[k] behind the first    *)
(* p[k - 1].                                                               *)
StandsAt(t, s, p) ==
    /\ p \in [0..Len(s) -> Nat] /\ p[0] = 0 /\ p[Len(s)] = Len(t)
    /\ \A k \in 1..Len(s) : p[k] = p[k - 1] + Len(s[k])
    /\ \A k \in 1..Len(s) : \A u \in 1..Len(s[k]) : t[p[k - 1] + u] = s[k][u]

LEMMA FlattenPlaces ==
    ASSUME NEW M, NEW s \in Seq(Seq(M))
    PROVE  FlattenSeq(s) \in Seq(M) /\ \E p : StandsAt(FlattenSeq(s), s, p)
<1>1. Len(s) \in Nat /\ \A i \in 1..Len(s) : s[i] \in Seq(M) /\ Len(s[i]) \in Nat
  BY LenProperties, ElementOfSeq
<1>2. PICK f : /\ f[0] = <<>> /\ FlattenSeq(s) = f[Len(s)]
               /\ \A i \in 0..(Len(s) - 1) : f[i + 1] = f[i] \o s[i + 1]
  BY FlattenIs
<1> DEFINE p == [k \in 0..Len(s) |-> Len(f[k])]
           Kept(k) == \A j \in 1..k : \A u \in 1..Len(s[j]) :
                         p[j - 1] + u \in 1..p[k] /\ f[k][p[j - 1] + u] = s[j][u]
           Good == {k \in 0..Len(s) : f[k] \in Seq(M) /\ Kept(k)}
<1>3. \A k \in 0..Len(s) : p[k] = Len(f[k])
  OBVIOUS
<1> HIDE DEF p
<1>4. 0 \in Good /\ p[0] = 0
  <2>1. <<>> \in Seq(M) /\ Len(<<>>) = 0 /\ 0 \in 0..Len(s)
    BY <1>1
  <2>2. Kept(0)
    OBVIOUS
  <2> HIDE DEF Kept
  <2> QED BY <1>2, <1>3, <2>1, <2>2
<1>5. ASSUME NEW k \in 0..(Len(s) - 1), k \in Good
      PROVE  k + 1 \in Good /\ p[k + 1] = p[k] + Len(s[k + 1])
  <2>1. k + 1 \in 1..Len(s) /\ k + 1 \in 0..Len(s) /\ k \in 0..Len(s)
    BY <1>1
  <2>2. /\ f[k + 1] = f[k] \o s[k + 1] /\ f[k] \in Seq(M) /\ s[k + 1] \in Seq(M)
        /\ Kept(k)
    BY <1>1, <1>2, <1>5, <2>1
  <2> DEFINE a == f[k]
             b == s[k + 1]
             c == f[k + 1]
  <2>3. /\ c \in Seq(M) /\ Len(c) = Len(a) + Len(b)
        /\ \A i \in 1..(Len(a) + Len(b)) : c[i] = IF i <= Len(a) THEN a[i] ELSE b[i - Len(a)]
    <3>1. a \in Seq(M) /\ b \in Seq(M) /\ c = a \o b
      BY <2>2
    <3> HIDE DEF a, b, c
    <3> QED BY <3>1, ConcatProperties
  <2>4. p[k] = Len(a) /\ p[k + 1] = Len(c) /\ Len(a) \in Nat /\ Len(b) \in Nat
    BY <1>3, <2>1, <2>2, LenProperties
  <2> HIDE DEF Kept
  <2>5. Kept(k + 1)
    <3>1. SUFFICES ASSUME NEW j \in 1..(k + 1), NEW u \in 1..Len(s[j])
                   PROVE  p[j - 1] + u \in 1..p[k + 1] /\ c[p[j - 1] + u] = s[j][u]
      BY DEF Kept
    <3>2. CASE j = k + 1
      <4>1. j - 1 = k /\ s[j] = b /\ u \in 1..Len(b)
        BY <3>1, <3>2, <2>1
      <4> HIDE DEF a, b, c
      <4>2. /\ p[j - 1] + u \in 1..(Len(a) + Len(b)) /\ ~(p[j - 1] + u <= Len(a))
            /\ (p[j - 1] + u) - Len(a) = u
        BY <2>4, <4>1, SMTT(30)
      <4> QED BY <2>3, <2>4, <4>1, <4>2
    <3>3. CASE j # k + 1
      <4>1. j \in 1..k
        BY <2>1, <3>1, <3>3
      <4>2. p[j - 1] + u \in 1..p[k] /\ a[p[j - 1] + u] = s[j][u]
        BY <2>2, <3>1, <4>1 DEF Kept
      <4> HIDE DEF a, b, c
      <4>3. /\ p[j - 1] + u \in 1..(Len(a) + Len(b)) /\ p[j - 1] + u <= Len(a)
            /\ p[j - 1] + u \in 1..p[k + 1]
        BY <2>3, <2>4, <4>2
      <4> QED BY <2>3, <4>2, <4>3
    <3> QED BY <3>2, <3>3
  <2>6. k + 1 \in Good
    BY <2>1, <2>3, <2>5
  <2> HIDE DEF a, b, c
  <2>7. p[k + 1] = p[k] + Len(b)
    BY <2>3, <2>4
  <2> QED BY <2>6, <2>7 DEF b
<1>6. 0..Len(s) \subseteq Good
  <2> HIDE DEF Good
  <2> QED BY <1>1, <1>4, <1>5, SetInduction
<1>7. ASSUME NEW k \in 1..Len(s)
      PROVE  /\ p[k] = p[k - 1] + Len(s[k])
             /\ \A u \in 1..Len(s[k]) : f[Len(s)][p[k - 1] + u] = s[k][u]
  <2>1. k - 1 \in 0..(Len(s) - 1) /\ (k - 1) + 1 = k /\ k - 1 \in Good
    <3>1. k - 1 \in 0..(Len(s) - 1) /\ (k - 1) + 1 = k /\ k - 1 \in 0..Len(s)
      BY <1>1
    <3> HIDE DEF Good
    <3> QED BY <1>6, <3>1
  <2>2. p[k] = p[k - 1] + Len(s[k])
    <3> HIDE DEF Good
    <3> QED BY <1>5, <2>1
  <2>3. Kept(Len(s))
    <3> HIDE DEF Kept
    <3> QED BY <1>1, <1>6
  <2> QED BY <2>2, <2>3
<1>8. p \in [0..Len(s) -> Nat] /\ f[Len(s)] \in Seq(M) /\ p[Len(s)] = Len(f[Len(s)])
  <2>1. \A k \in 0..Len(s) : f[k] \in Seq(M)
    BY <1>6
  <2>2. \A k \in 0..Len(s) : Len(f[k]) \in Nat
    BY <2>1, LenProperties
  <2>3. Len(s) \in 0..Len(s)
    BY <1>1
  <2> QED BY <2>1, <2>2, <2>3 DEF p
<1>9. StandsAt(f[Len(s)], s, p)
  BY <1>4, <1>7, <1>8 DEF StandsAt
<1> QED BY <1>2, <1>8, <1>9
===============================================================================
