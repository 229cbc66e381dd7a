---------------------------- MODULE SetInduction ----------------------------
(***************************************************************************)
(* Induction over the natural numbers and over finite sets, stated for a   *)
(* set of numbers or of sets instead of a predicate, so that the facts can *)
(* be cited like any other.                                                *)
(***************************************************************************)
EXTENDS Integers, FiniteSetsExt, SequencesExt, FiniteSetTheorems, WellFoundedInduction, TLAPS

(* Every non-empty set of natural numbers has a least element.             *)
LEMMA LeastNatural ==
  ASSUME NEW S \in SUBSET Nat, S # {}
  PROVE  \E m \in S : \A k \in S : m <= k
<1>. DEFINE R == OpToRel(<, Nat)
<1>1. IsWellFoundedOn(R, Nat)
  BY NatLessThanWellFounded
<1>2. \A x, y \in Nat : x < y => <<x, y>> \in R
  BY DEF OpToRel
<1>. HIDE DEF R
<1>3. PICK m \in S : \A k \in S : ~(<<k, m>> \in R)
  BY <1>1, WFMin
<1>4. ASSUME NEW k \in S  PROVE m <= k
  <2>1. k \in Nat /\ m \in Nat /\ ~(<<k, m>> \in R)
    BY <1>3
  <2>. QED  BY <2>1, <1>2
<1>. QED  BY <1>4

(* Induction: a set with 0 and the successor of each natural number in it  *)
(* has them all.                                                           *)
LEMMA NaturalInduction ==
  ASSUME NEW S, 0 \in S, \A n \in Nat : n \in S => n + 1 \in S
  PROVE  \A n \in Nat : n \in S
<1>. DEFINE T == Nat \ S
<1>. SUFFICES ASSUME T # {}  PROVE FALSE
  OBVIOUS
<1>1. PICK m \in T : \A k \in T : m <= k
  BY LeastNatural
<1>. QED  BY <1>1

(* Every non-empty finite set of natural numbers has a greatest element.   *)
LEMMA GreatestNatural ==
  ASSUME NEW S \in SUBSET Nat, IsFiniteSet(S), S # {}
  PROVE  \E m \in S : \A k \in S : k <= m
<1>. DEFINE Has(T) == \E m \in T : \A k \in T : k <= m
            N == {n \in Nat : \A T \in SUBSET Nat :
                    IsFiniteSet(T) /\ Cardinality(T) = n + 1 => Has(T)}
<1>1. 0 \in N
  <2>1. ASSUME NEW T \in SUBSET Nat, IsFiniteSet(T), Cardinality(T) = 1
        PROVE  Has(T)
    <3>1. PICK x : T = {x}
      BY <2>1, FS_Singleton
    <3>. QED  BY <3>1
  <2>. QED  BY <2>1
<1>2. ASSUME NEW n \in Nat, n \in N  PROVE n + 1 \in N
  <2>1. ASSUME NEW T \in SUBSET Nat, IsFiniteSet(T), Cardinality(T) = n + 2
        PROVE  Has(T)
    <3>1. T # {}
      BY <2>1, FS_EmptySet
    <3>2. PICK x \in T : TRUE
      BY <3>1
    <3>3. IsFiniteSet(T \ {x}) /\ Cardinality(T \ {x}) = n + 1
      BY <2>1, FS_RemoveElement
    <3>4. PICK m \in T \ {x} : \A k \in T \ {x} : k <= m
      BY <3>3, <1>2
    <3>5. x \in Nat /\ m \in Nat /\ (x <= m \/ m <= x)
      OBVIOUS
    <3>6. CASE x <= m
      BY <3>4, <3>6
    <3>7. CASE m <= x
      <4>1. ASSUME NEW k \in T  PROVE k <= x
        BY <3>4, <3>7, <3>5
      <4>. QED  BY <4>1
    <3>. QED  BY <3>5, <3>6, <3>7
  <2>. QED  BY <2>1
<1>. HIDE DEF N
<1>3. \A n \in Nat : n \in N
  BY <1>1, <1>2, NaturalInduction
<1>4. Cardinality(S) \in Nat /\ Cardinality(S) # 0
  BY FS_CardinalityType, FS_EmptySet
<1>5. Cardinality(S) - 1 \in N
  BY <1>3, <1>4
<1>. QED  BY <1>4, <1>5 DEF N

(* What Min and Max choose. *)
LEMMA MinIs ==
  ASSUME NEW S \in SUBSET Nat, S # {}
  PROVE  Min(S) \in S /\ \A k \in S : Min(S) <= k
BY LeastNatural DEF Min

LEMMA MaxIs ==
  ASSUME NEW S \in SUBSET Nat, IsFiniteSet(S), S # {}
  PROVE  Max(S) \in S /\ \A k \in S : k <= Max(S)
BY GreatestNatural DEF Max

(* Induction over sequences: a set with the empty one and whatever appends *)
(* an element to one of its own has them all.                              *)
LEMMA SequenceInduction ==
  ASSUME NEW S, NEW T, <<>> \in T, \A t \in T, u \in S : Append(t, u) \in T
  PROVE  Seq(S) \subseteq T
<1>. DEFINE N == {n \in Nat : \A t \in Seq(S) : Len(t) = n => t \in T}
<1>1. 0 \in N
  <2>1. \A t \in Seq(S) : Len(t) = 0 => t = <<>>
    OBVIOUS
  <2>. QED  BY <2>1
<1>2. ASSUME NEW n \in Nat, n \in N  PROVE n + 1 \in N
  <2>1. ASSUME NEW t \in Seq(S), Len(t) = n + 1  PROVE t \in T
    <3>. DEFINE f == SubSeq(t, 1, n)
                u == t[n+1]
    <3>1. f \in Seq(S) /\ Len(f) = n /\ u \in S
      BY <2>1
    <3>2. t = Append(f, u)
      BY <2>1
    <3>. HIDE DEF f, u
    <3>3. f \in T
      BY <3>1, <1>2
    <3>. QED  BY <3>1, <3>2, <3>3
  <2>. QED  BY <2>1
<1>. HIDE DEF N
<1>3. \A n \in Nat : n \in N
  BY <1>1, <1>2, NaturalInduction
<1>4. ASSUME NEW t \in Seq(S)  PROVE t \in T
  <2>1. Len(t) \in N
    BY <1>3
  <2>. QED  BY <2>1 DEF N
<1>. QED  BY <1>4

-----------------------------------------------------------------------------
(* What FlattenSeq joins. *)
Flattening(seqs) ==
  CHOOSE f : f = [i \in 1..Len(seqs) |-> IF i = 1 THEN seqs[i] ELSE f[i-1] \o seqs[i]]

(* FlattenSeq is the last of a chain of concatenations; the chain exists,  *)
(* so what CHOOSE picks obeys its equation.                                *)
LEMMA FlattenDef == ASSUME NEW s, Len(s) # 0 PROVE FlattenSeq(s) = Flattening(s)[Len(s)]
 BY DEF FlattenSeq, Flattening

LEMMA FlattenExists ==
  ASSUME NEW s, NEW n \in Nat
  PROVE  \E f : f = [i \in 1..n |-> IF i = 1 THEN s[i] ELSE f[i-1] \o s[i]]
<1>. DEFINE E(h, i) == IF i = 1 THEN s[i] ELSE h[i-1] \o s[i]
            N == {k \in Nat : \E f : f = [i \in 1..k |-> E(f, i)]}
<1>a. ASSUME NEW h1, NEW h2, NEW i \in Nat, i # 1 => h1[i-1] = h2[i-1]
      PROVE  E(h1, i) = E(h2, i)
  BY <1>a
<1>. HIDE DEF E
<1>1. 0 \in N
  <2>. DEFINE f == [i \in 1..0 |-> s[i]]
  <2>1. f = [i \in 1..0 |-> E(f, i)]
    OBVIOUS
  <2>. QED BY <2>1
<1>2. ASSUME NEW k \in Nat, k \in N PROVE k+1 \in N
  <2>1. PICK f : f = [i \in 1..k |-> E(f, i)]
    BY <1>2
  <2>2. ASSUME NEW i \in 1..k PROVE f[i] = E(f, i)
    BY <2>1
  <2>. DEFINE g == [i \in 1..(k+1) |-> E(f, i)]
  <2>3. \A i \in 1..k : g[i] = f[i]
    BY <2>2
  <2>4. \A i \in 1..(k+1) : E(f, i) = E(g, i)
    <3>1. TAKE i \in 1..(k+1)
    <3>2. i # 1 => i - 1 \in 1..k
       OBVIOUS
    <3>3. i # 1 => f[i-1] = g[i-1]
       BY <2>3, <3>2
    <3>. HIDE DEF g
    <3>. QED BY <3>3, <1>a
  <2>5. g = [i \in 1..(k+1) |-> E(g, i)]
    BY <2>4
  <2>. HIDE DEF g
  <2>6. \E h : h = [i \in 1..(k+1) |-> E(h, i)]
    BY <2>5
  <2>. QED BY <2>6
<1>. HIDE DEF N
<1>3. n \in N BY <1>1, <1>2, NaturalInduction
<1>. QED BY <1>3 DEF N, E

LEMMA FlattenSteps ==
  ASSUME NEW s, Len(s) \in Nat
  PROVE  /\ Len(s) >= 1 => Flattening(s)[1] = s[1]
         /\ \A i \in 2..Len(s) : Flattening(s)[i] = Flattening(s)[i-1] \o s[i]
<1>. DEFINE f == Flattening(s)
<1>1. \E g : g = [i \in 1..Len(s) |-> IF i = 1 THEN s[i] ELSE g[i-1] \o s[i]]
  BY FlattenExists
<1>2. f = [i \in 1..Len(s) |-> IF i = 1 THEN s[i] ELSE f[i-1] \o s[i]]
  BY <1>1 DEF Flattening
<1>. HIDE DEF f
<1>3. ASSUME NEW i \in 1..Len(s)
      PROVE  f[i] = IF i = 1 THEN s[i] ELSE f[i-1] \o s[i]
  BY <1>2
<1>4. Len(s) >= 1 => f[1] = s[1]
  BY <1>3
<1>5. ASSUME NEW i \in 2..Len(s)  PROVE f[i] = f[i-1] \o s[i]
  <2>1. i \in 1..Len(s) /\ i # 1
    OBVIOUS
  <2>2. f[i] = IF i = 1 THEN s[i] ELSE f[i-1] \o s[i]
    BY <2>1, <1>3
  <2>. QED  BY <2>1, <2>2, Zenon
<1>. QED BY <1>4, <1>5 DEF f

(* What is appended is joined last.                                        *)
LEMMA FlattenAppend ==
  ASSUME NEW S, NEW s \in Seq(Seq(S)), NEW p \in Seq(S)
  PROVE  FlattenSeq(Append(s, p)) = FlattenSeq(s) \o p
<1>. DEFINE n == Len(s)
            v == Append(s, p)
            f == Flattening(s)
            g == Flattening(v)
<1>1. /\ n \in Nat /\ Len(s) = n /\ Len(v) = n + 1 /\ v[n+1] = p
      /\ \A i \in 1..n : v[i] = s[i]
  OBVIOUS
<1>2. n = 0 => s = <<>>
  OBVIOUS
<1>. HIDE DEF n, v
<1>3. /\ n >= 1 => f[1] = s[1]
      /\ \A i \in 2..n : f[i] = f[i-1] \o s[i]
  BY <1>1, FlattenSteps
<1>4. g[1] = v[1] /\ \A i \in 2..(n+1) : g[i] = g[i-1] \o v[i]
  <2>1. Len(v) \in Nat /\ Len(v) >= 1
    BY <1>1
  <2>2. /\ Len(v) >= 1 => g[1] = v[1]
        /\ \A i \in 2..Len(v) : g[i] = g[i-1] \o v[i]
    BY <2>1, FlattenSteps
  <2>. QED  BY <1>1, <2>1, <2>2
<1>5. FlattenSeq(v) = g[n+1] /\ (n # 0 => FlattenSeq(s) = f[n])
  BY <1>1, FlattenDef
<1>. HIDE DEF f, g
<1>6. CASE n = 0
  <2>1. FlattenSeq(s) = <<>>
    BY <1>2, <1>6 DEF FlattenSeq
  <2>2. FlattenSeq(v) = p
    BY <1>1, <1>4, <1>5, <1>6
  <2>3. <<>> \o p = p
    OBVIOUS
  <2>. QED  BY <2>1, <2>2, <2>3 DEF v
<1>7. CASE n # 0
  <2>. DEFINE N == {k \in Nat : k + 1 <= n => f[k+1] = g[k+1]}
  <2>1. 0 \in N
    BY <1>1, <1>3, <1>4
  <2>2. ASSUME NEW k \in Nat, k \in N  PROVE k + 1 \in N
    <3>. SUFFICES ASSUME (k + 1) + 1 <= n  PROVE f[(k+1)+1] = g[(k+1)+1]
      OBVIOUS
    <3>. DEFINE i == (k + 1) + 1
    <3>1. /\ i \in 2..n /\ i \in 2..(n+1) /\ i \in 1..n /\ i - 1 = k + 1
          /\ k + 1 <= n
      BY <1>1
    <3>2. f[i-1] = g[i-1]
      BY <2>2, <3>1
    <3>. HIDE DEF i
    <3>3. f[i] = f[i-1] \o s[i] /\ g[i] = g[i-1] \o v[i] /\ v[i] = s[i]
      BY <1>1, <1>3, <1>4, <3>1
    <3>4. f[i] = g[i]
      BY <3>2, <3>3
    <3>. QED  BY <3>4 DEF i
  <2>. HIDE DEF N
  <2>3. n - 1 \in N
    <3>1. \A k \in Nat : k \in N
      BY <2>1, <2>2, NaturalInduction
    <3>. QED  BY <1>1, <1>7, <3>1
  <2>4. f[n] = g[n]
    <3>1. (n - 1) + 1 = n /\ n <= n
      BY <1>1
    <3>. QED  BY <2>3, <3>1 DEF N
  <2>5. n + 1 \in 2..(n+1) /\ (n + 1) - 1 = n
    BY <1>1, <1>7
  <2>6. g[n+1] = g[(n+1)-1] \o v[n+1]
    BY <1>4, <2>5
  <2>. QED  BY <1>1, <1>5, <1>7, <2>4, <2>5, <2>6 DEF v
<1>. QED  BY <1>6, <1>7
=============================================================================
