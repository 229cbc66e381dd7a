------------------------ MODULE DatabaseSetupProofs ------------------------
(***************************************************************************)
(* Proofs about DatabaseSetup and the connection strings it builds, for    *)
(* every set of clients, every request, text and name, and any number of   *)
(* calls.                                                                  *)
(*                                                                         *)
(* A text is read unit by unit: what is proved of one unit goes over to a  *)
(* text by SequenceInduction, as an invariant of the reader.  Most of what *)
(* follows says in which state the reader stands behind a part of a text   *)
(* that options.rs wrote, and that an edit finds what it looks for.        *)
(*                                                                         *)
(* A step of a call is a step of one client: SetupInv and AllTold look at  *)
(* each call by itself, and at what all of them share.                     *)
(***************************************************************************)
EXTENDS DatabaseSetup, SetInduction, SequenceTheorems, FiniteSetTheorems

(* The three foldings of ConnectionString: the reading of a connection     *)
(* string, the parameters of a URL, and the reading of a quoted name up to *)
(* a mark.                                                                 *)
Fold(how, r, u) ==
  IF how = "settings" THEN ReadUnit(r, u)
  ELSE IF how = "parameters" THEN Parameter(r, u)
  ELSE ReadQuotedUnit(r, u, how)

FoldStep(how, r, t, f, s) ==
  IF s = {} THEN r ELSE Fold(how, f[s \ {Max(s)}], t[Max(s)])

Folding(how, r, t, S) ==
  CHOOSE f : f = [s \in SUBSET S |-> FoldStep(how, r, t, f, s)]

(* The greatest of a set of places. *)
LEMMA MaxOfPlaces ==
  ASSUME NEW n \in Nat, NEW s \in SUBSET (1..n), s # {}
  PROVE  Max(s) \in s /\ \A k \in s : k <= Max(s)
<1>1. IsFiniteSet(1..n)
  BY FS_Interval
<1>2. IsFiniteSet(s)
  BY <1>1, FS_Subset
<1>3. s \in SUBSET Nat
  OBVIOUS
<1>. QED  BY <1>2, <1>3, MaxIs

LEMMA FoldingExists ==
  ASSUME NEW how, NEW r, NEW t, NEW n \in Nat
  PROVE  \E f : f = [s \in SUBSET (1..n) |-> FoldStep(how, r, t, f, s)]
<1>. DEFINE N == {k \in Nat :
                    \E f : f = [s \in SUBSET (1..k) |-> FoldStep(how, r, t, f, s)]}
<1>1. 0 \in N
  <2>. DEFINE f == [s \in SUBSET (1..0) |-> r]
  <2>1. \A s \in SUBSET (1..0) : s = {}
    OBVIOUS
  <2>2. f = [s \in SUBSET (1..0) |-> FoldStep(how, r, t, f, s)]
    BY <2>1 DEF FoldStep
  <2>. HIDE DEF f
  <2>. QED  BY <2>2
<1>2. ASSUME NEW k \in Nat, k \in N  PROVE k + 1 \in N
  <2>1. PICK f : f = [s \in SUBSET (1..k) |-> FoldStep(how, r, t, f, s)]
    BY <1>2
  <2>. DEFINE g == [s \in SUBSET (1..(k+1)) |->
                      IF k + 1 \in s THEN Fold(how, f[s \ {k+1}], t[k+1]) ELSE f[s]]
  <2>2. ASSUME NEW s \in SUBSET (1..(k+1))  PROVE g[s] = FoldStep(how, r, t, g, s)
    <3>1. CASE k + 1 \in s
      <4>1. s # {} /\ k + 1 \in Nat
        BY <3>1
      <4>2. Max(s) \in s /\ \A j \in s : j <= Max(s)
        <5>. DEFINE m == k + 1
        <5>1. m \in Nat /\ s \in SUBSET (1..m)
          OBVIOUS
        <5>. HIDE DEF m
        <5>. QED  BY <4>1, <5>1, MaxOfPlaces
      <4>3. Max(s) = k + 1
        <5>1. Max(s) \in 1..(k+1) /\ k + 1 <= Max(s)
          BY <4>2, <3>1
        <5>. QED  BY <5>1
      <4>4. s \ {k+1} \in SUBSET (1..(k+1)) /\ k + 1 \notin s \ {k+1}
        OBVIOUS
      <4>5. g[s \ {k+1}] = f[s \ {k+1}]
        BY <4>4
      <4>6. g[s] = Fold(how, f[s \ {k+1}], t[k+1])
        BY <3>1
      <4>. HIDE DEF g
      <4>. QED  BY <4>1, <4>3, <4>5, <4>6 DEF FoldStep
    <3>2. CASE k + 1 \notin s
      <4>1. s \in SUBSET (1..k)
        BY <3>2
      <4>2. g[s] = f[s]
        BY <3>2
      <4>3. f[s] = FoldStep(how, r, t, f, s)
        BY <2>1, <4>1
      <4>4. s # {} => g[s \ {Max(s)}] = f[s \ {Max(s)}]
        <5>1. s \ {Max(s)} \in SUBSET (1..(k+1)) /\ k + 1 \notin s \ {Max(s)}
          BY <3>2
        <5>. QED  BY <5>1
      <4>. HIDE DEF g
      <4>. QED  BY <4>2, <4>3, <4>4 DEF FoldStep
    <3>. QED  BY <3>1, <3>2
  <2>3. g = [s \in SUBSET (1..(k+1)) |-> FoldStep(how, r, t, g, s)]
    BY <2>2
  <2>. HIDE DEF g
  <2>. QED  BY <2>3
<1>. HIDE DEF N
<1>3. n \in N
  BY <1>1, <1>2, NaturalInduction
<1>. QED  BY <1>3 DEF N

LEMMA FoldingSteps ==
  ASSUME NEW how, NEW r, NEW t, NEW n \in Nat
  PROVE  /\ Folding(how, r, t, 1..n)[{}] = r
         /\ \A k \in 1..n : Folding(how, r, t, 1..n)[1..k] =
                              Fold(how, Folding(how, r, t, 1..n)[1..(k-1)], t[k])
<1>. DEFINE f == Folding(how, r, t, 1..n)
<1>1. f = [s \in SUBSET (1..n) |-> FoldStep(how, r, t, f, s)]
  BY FoldingExists DEF Folding
<1>. HIDE DEF f
<1>2. \A s \in SUBSET (1..n) : f[s] = FoldStep(how, r, t, f, s)
  BY <1>1
<1>3. f[{}] = r
  BY <1>2 DEF FoldStep
<1>4. ASSUME NEW k \in 1..n  PROVE f[1..k] = Fold(how, f[1..(k-1)], t[k])
  <2>1. 1..k \in SUBSET (1..n) /\ k \in 1..k /\ k \in Nat /\ 1..k # {}
    OBVIOUS
  <2>2. Max(1..k) \in 1..k /\ \A j \in 1..k : j <= Max(1..k)
    BY <2>1, MaxOfPlaces
  <2>3. Max(1..k) = k
    BY <2>1, <2>2
  <2>4. (1..k) \ {k} = 1..(k-1)
    OBVIOUS
  <2>. QED  BY <1>2, <2>1, <2>3, <2>4 DEF FoldStep
<1>. QED  BY <1>3, <1>4 DEF f

(* What is appended is folded last. *)
LEMMA FoldingAppend ==
  ASSUME NEW how, NEW r, NEW S, NEW t \in Seq(S), NEW u \in S
  PROVE  Folding(how, r, Append(t, u), 1..(Len(t) + 1))[1..(Len(t) + 1)] =
           Fold(how, Folding(how, r, t, 1..Len(t))[1..Len(t)], u)
<1>. DEFINE n == Len(t)
            v == Append(t, u)
            f == Folding(how, r, t, 1..n)
            g == Folding(how, r, v, 1..(n+1))
<1>1. n \in Nat /\ v[n+1] = u /\ \A i \in 1..n : v[i] = t[i]
  OBVIOUS
<1>. HIDE DEF n, v
<1>2. f[{}] = r /\ \A k \in 1..n : f[1..k] = Fold(how, f[1..(k-1)], t[k])
  BY <1>1, FoldingSteps
<1>3. g[{}] = r /\ \A k \in 1..(n+1) : g[1..k] = Fold(how, g[1..(k-1)], v[k])
  <2>1. n + 1 \in Nat
    BY <1>1
  <2>. QED  BY <2>1, FoldingSteps
<1>. HIDE DEF f, g
<1>. DEFINE N == {k \in Nat : k <= n => f[1..k] = g[1..k]}
<1>4. 0 \in N
  <2>1. 1..0 = {}
    OBVIOUS
  <2>. QED  BY <2>1, <1>2, <1>3
<1>5. ASSUME NEW k \in Nat, k \in N  PROVE k + 1 \in N
  <2>. SUFFICES ASSUME k + 1 <= n  PROVE f[1..(k+1)] = g[1..(k+1)]
    OBVIOUS
  <2>1. k + 1 \in 1..n /\ k + 1 \in 1..(n+1) /\ (k + 1) - 1 = k
    BY <1>1
  <2>2. f[1..k] = g[1..k]
    BY <1>5, <1>1
  <2>3. f[1..(k+1)] = Fold(how, f[1..((k+1)-1)], t[k+1])
    BY <2>1, <1>2
  <2>4. g[1..(k+1)] = Fold(how, g[1..((k+1)-1)], v[k+1])
    BY <2>1, <1>3
  <2>5. v[k+1] = t[k+1]
    BY <2>1, <1>1
  <2>. QED  BY <2>1, <2>2, <2>3, <2>4, <2>5
<1>. HIDE DEF N
<1>6. n \in N
  BY <1>1, <1>4, <1>5, NaturalInduction
<1>7. f[1..n] = g[1..n]
  BY <1>1, <1>6 DEF N
<1>8. n + 1 \in 1..(n+1) /\ (n + 1) - 1 = n
  BY <1>1
<1>9. g[1..(n+1)] = Fold(how, g[1..((n+1)-1)], v[n+1])
  BY <1>8, <1>3
<1>10. g[1..(n+1)] = Fold(how, f[1..n], u)
  BY <1>1, <1>7, <1>8, <1>9
<1>. QED  BY <1>10 DEF f, g, n, v

-----------------------------------------------------------------------------
(* The reading of a connection string, one unit at a time.                 *)
Scan(r, t) == FoldLeft(ReadUnit, r, t)

LEMMA ScanIsFolding ==
  ASSUME NEW r, NEW t
  PROVE  Scan(r, t) = Folding("settings", r, t, DOMAIN t)[DOMAIN t]
<1>1. \A x, u : Fold("settings", x, u) = ReadUnit(x, u)
  BY DEF Fold
<1>. QED  BY <1>1 DEF Scan, Folding, FoldStep, Fold, FoldLeft, MapThenFoldSet

LEMMA ScanEmpty ==
  ASSUME NEW r  PROVE Scan(r, <<>>) = r
<1>1. DOMAIN <<>> = 1..0 /\ 1..0 = {}
  OBVIOUS
<1>2. Folding("settings", r, <<>>, 1..0)[{}] = r
  BY FoldingSteps
<1>. QED  BY <1>1, <1>2, ScanIsFolding

LEMMA ScanAppend ==
  ASSUME NEW r, NEW t \in Texts, NEW u \in Units
  PROVE  Scan(r, Append(t, u)) = ReadUnit(Scan(r, t), u)
<1>. DEFINE v == Append(t, u)
<1>1. DOMAIN t = 1..Len(t) /\ DOMAIN v = 1..(Len(t) + 1)
  BY DEF Texts
<1>. HIDE DEF v
<1>2. /\ Scan(r, t) = Folding("settings", r, t, 1..Len(t))[1..Len(t)]
      /\ Scan(r, v) = Folding("settings", r, v, 1..(Len(t)+1))[1..(Len(t)+1)]
  BY <1>1, ScanIsFolding
<1>3. Scan(r, v) = Fold("settings", Scan(r, t), u)
  BY <1>2, FoldingAppend DEF v, Texts
<1>. QED  BY <1>3 DEF Fold, v

LEMMA ScanConcat ==
  ASSUME NEW r, NEW s \in Texts, NEW t \in Texts
  PROVE  Scan(r, s \o t) = Scan(Scan(r, s), t)
<1>. DEFINE T == {x \in Texts : Scan(r, s \o x) = Scan(Scan(r, s), x)}
<1>1. <<>> \in T
  <2>1. <<>> \in Texts /\ s \o <<>> = s
    BY DEF Texts
  <2>. QED  BY <2>1, ScanEmpty
<1>2. ASSUME NEW x \in T, NEW u \in Units  PROVE Append(x, u) \in T
  <2>1. /\ x \in Texts /\ s \o x \in Texts /\ Append(x, u) \in Texts
        /\ s \o Append(x, u) = Append(s \o x, u)
    BY DEF Texts
  <2>2. Scan(r, s \o x) = Scan(Scan(r, s), x)
    OBVIOUS
  <2>3. Scan(r, Append(s \o x, u)) = ReadUnit(Scan(r, s \o x), u)
    BY <2>1, ScanAppend
  <2>4. Scan(Scan(r, s), Append(x, u)) = ReadUnit(Scan(Scan(r, s), x), u)
    BY <2>1, ScanAppend
  <2>. QED  BY <2>1, <2>2, <2>3, <2>4
<1>. HIDE DEF T
<1>3. Texts \subseteq T
  BY <1>1, <1>2, SequenceInduction DEF Texts
<1>. QED  BY <1>3 DEF T

-----------------------------------------------------------------------------
(* The reading of a quoted name, one unit at a time.                       *)
ScanQuoted(r, t, mark) == FoldLeft(LAMBDA s, u : ReadQuotedUnit(s, u, mark), r, t)

LEMMA ScanQuotedIsFolding ==
  ASSUME NEW r, NEW t, NEW mark, mark \notin {"settings", "parameters"}
  PROVE  ScanQuoted(r, t, mark) = Folding(mark, r, t, DOMAIN t)[DOMAIN t]
<1>1. \A x, u : Fold(mark, x, u) = ReadQuotedUnit(x, u, mark)
  BY DEF Fold
<1>. QED  BY <1>1 DEF ScanQuoted, Folding, FoldStep, Fold, FoldLeft, MapThenFoldSet

LEMMA ScanQuotedEmpty ==
  ASSUME NEW r, NEW mark, mark \notin {"settings", "parameters"}
  PROVE  ScanQuoted(r, <<>>, mark) = r
<1>1. DOMAIN <<>> = 1..0 /\ 1..0 = {}
  OBVIOUS
<1>2. Folding(mark, r, <<>>, 1..0)[{}] = r
  BY FoldingSteps
<1>. QED  BY <1>1, <1>2, ScanQuotedIsFolding

LEMMA ScanQuotedAppend ==
  ASSUME NEW r, NEW t \in Texts, NEW u \in Units,
         NEW mark, mark \notin {"settings", "parameters"}
  PROVE  ScanQuoted(r, Append(t, u), mark) = ReadQuotedUnit(ScanQuoted(r, t, mark), u, mark)
<1>. DEFINE v == Append(t, u)
<1>1. DOMAIN t = 1..Len(t) /\ DOMAIN v = 1..(Len(t) + 1)
  BY DEF Texts
<1>. HIDE DEF v
<1>2. /\ ScanQuoted(r, t, mark) = Folding(mark, r, t, 1..Len(t))[1..Len(t)]
      /\ ScanQuoted(r, v, mark) = Folding(mark, r, v, 1..(Len(t)+1))[1..(Len(t)+1)]
  BY <1>1, ScanQuotedIsFolding
<1>3. ScanQuoted(r, v, mark) = Fold(mark, ScanQuoted(r, t, mark), u)
  BY <1>2, FoldingAppend DEF v, Texts
<1>. QED  BY <1>3 DEF Fold, v

(* A mark in a quoted name is doubled, and that is all.                    *)
LEMMA DoubledIs ==
  ASSUME NEW mark \in Units
  PROVE  /\ Doubled(<<>>, mark) = <<>>
         /\ \A t \in Texts : Doubled(t, mark) \in Texts
         /\ \A t \in Texts, u \in Units :
              Doubled(Append(t, u), mark) =
                IF u = mark THEN Append(Append(Doubled(t, mark), mark), mark)
                ELSE Append(Doubled(t, mark), u)
<1>. DEFINE P(u) == IF u = mark THEN <<mark, mark>> ELSE <<u>>
            ps(t) == [i \in 1..Len(t) |-> P(t[i])]
<1>1. \A u \in Units : P(u) \in Texts
  BY DEF Texts
<1>2. ASSUME NEW t \in Texts  PROVE Doubled(t, mark) = FlattenSeq(ps(t))
  BY DEF Doubled
<1>3. ASSUME NEW t \in Texts  PROVE ps(t) \in Seq(Texts)
  <2>1. \A i \in 1..Len(t) : t[i] \in Units
    BY DEF Texts
  <2>. HIDE DEF P
  <2>2. \A i \in 1..Len(t) : P(t[i]) \in Texts
    BY <1>1, <2>1
  <2>3. Len(t) \in Nat
    BY DEF Texts
  <2>. QED  BY <2>2, <2>3
<1>4. Doubled(<<>>, mark) = <<>>
  <2>1. <<>> \in Texts /\ ps(<<>>) = <<>>
    BY DEF Texts
  <2>. QED  BY <2>1, <1>2 DEF FlattenSeq
<1>5. ASSUME NEW t \in Texts, NEW u \in Units
      PROVE  Doubled(Append(t, u), mark) = Doubled(t, mark) \o P(u)
  <2>1. Append(t, u) \in Texts
    BY DEF Texts
  <2>2. ps(Append(t, u)) = Append(ps(t), P(u))
    <3>1. ps(t) \in Seq(Texts) /\ Len(ps(t)) = Len(t) /\ Len(t) \in Nat
      BY <1>3 DEF Texts
    <3>. HIDE DEF P
    <3>2. /\ Len(Append(t, u)) = Len(t) + 1 /\ Append(t, u)[Len(t) + 1] = u
          /\ \A i \in 1..Len(t) : Append(t, u)[i] = t[i]
      BY DEF Texts
    <3>3. \A i \in 1..(Len(t) + 1) : i \in 1..Len(t) \/ i = Len(t) + 1
      BY <3>1
    <3>. QED  BY <3>1, <3>2, <3>3
  <2>3. FlattenSeq(Append(ps(t), P(u))) = FlattenSeq(ps(t)) \o P(u)
    <3>. HIDE DEF ps, P
    <3>. QED  BY <1>1, <1>3, FlattenAppend DEF Texts
  <2>. QED  BY <1>2, <2>1, <2>2, <2>3
<1>. HIDE DEF P, ps
<1>. DEFINE T == {t \in Texts : Doubled(t, mark) \in Texts}
<1>6. <<>> \in T
  <2>1. <<>> \in Texts
    BY DEF Texts
  <2>. QED  BY <2>1, <1>4
<1>7. ASSUME NEW t \in T, NEW u \in Units  PROVE Append(t, u) \in T
  <2>1. Append(t, u) \in Texts /\ Doubled(t, mark) \o P(u) \in Texts
    BY <1>1 DEF Texts
  <2>. QED  BY <1>5, <2>1
<1>. HIDE DEF T
<1>8. \A t \in Texts : Doubled(t, mark) \in Texts
  <2>1. Texts \subseteq T
    BY <1>6, <1>7, SequenceInduction DEF Texts
  <2>. QED  BY <2>1 DEF T
<1>9. ASSUME NEW t \in Texts, NEW u \in Units
      PROVE  Doubled(Append(t, u), mark) =
               IF u = mark THEN Append(Append(Doubled(t, mark), mark), mark)
               ELSE Append(Doubled(t, mark), u)
  <2>1. \A d \in Texts : /\ d \o <<mark, mark>> = Append(Append(d, mark), mark)
                        /\ d \o <<u>> = Append(d, u)
    BY DEF Texts
  <2>. QED  BY <1>5, <1>8, <2>1 DEF P
<1>. QED  BY <1>4, <1>8, <1>9

LEMMA ReadUnmarkedIs ==
  ASSUME NEW read, NEW mark, NEW u, u # mark
  PROVE  ReadQuotedUnit([mode |-> "in", read |-> read], u, mark) =
           [mode |-> "in", read |-> Append(read, u)]
BY DEF ReadQuotedUnit

LEMMA ReadQuotedUnitIs ==
  ASSUME NEW read, NEW mark
  PROVE  /\ ReadQuotedUnit([mode |-> "in", read |-> read], mark, mark) =
              [mode |-> "out", read |-> read]
         /\ ReadQuotedUnit([mode |-> "out", read |-> read], mark, mark) =
              [mode |-> "in", read |-> Append(read, mark)]
BY DEF ReadQuotedUnit

LEMMA ReadQuotedIs ==
  ASSUME NEW text, NEW mark, NEW mode, NEW read,
         ScanQuoted([mode |-> "in", read |-> <<>>], Append(text, mark), mark) =
           [mode |-> mode, read |-> read]
  PROVE  ReadQuoted(text, mark) = IF mode = "out" THEN {read} ELSE {}
<1>. DEFINE r == ScanQuoted([mode |-> "in", read |-> <<>>], Append(text, mark), mark)
<1>1. ReadQuoted(text, mark) = IF r.mode = "out" THEN {r.read} ELSE {}
  BY DEF ReadQuoted, ScanQuoted
<1>2. r.mode = mode /\ r.read = read
  OBVIOUS
<1>. HIDE DEF r
<1>. QED  BY <1>1, <1>2

(* The server reads back the name that was quoted.                         *)
LEMMA QuotedReadsBack ==
  ASSUME NEW name \in Texts, NEW mark \in Units, mark \notin {"settings", "parameters"}
  PROVE  ReadQuoted(Doubled(name, mark), mark) = {name}
<1>. DEFINE r0 == [mode |-> "in", read |-> <<>>]
            T == {t \in Texts : ScanQuoted(r0, Doubled(t, mark), mark) =
                                 [mode |-> "in", read |-> t]}
<1>1. <<>> \in T
  BY ScanQuotedEmpty, DoubledIs DEF Texts
<1>2. ASSUME NEW t \in T, NEW u \in Units  PROVE Append(t, u) \in T
  <2>. DEFINE d == Doubled(t, mark)
  <2>1. /\ Append(t, u) \in Texts /\ d \in Texts /\ Append(d, mark) \in Texts
        /\ ScanQuoted(r0, d, mark) = [mode |-> "in", read |-> t]
    BY DoubledIs DEF Texts
  <2>2. Doubled(Append(t, u), mark) = IF u = mark THEN Append(Append(d, mark), mark)
                                      ELSE Append(d, u)
    BY DoubledIs
  <2>. HIDE DEF d, r0
  <2>3. CASE u = mark
    <3>1. ScanQuoted(r0, Append(d, mark), mark) = [mode |-> "out", read |-> t]
      <4>1. ScanQuoted(r0, Append(d, mark), mark) =
              ReadQuotedUnit(ScanQuoted(r0, d, mark), mark, mark)
        BY <2>1, ScanQuotedAppend
      <4>. QED  BY <4>1, <2>1, ReadQuotedUnitIs
    <3>2. ScanQuoted(r0, Append(Append(d, mark), mark), mark) =
            [mode |-> "in", read |-> Append(t, mark)]
      <4>1. ScanQuoted(r0, Append(Append(d, mark), mark), mark) =
              ReadQuotedUnit(ScanQuoted(r0, Append(d, mark), mark), mark, mark)
        BY <2>1, ScanQuotedAppend
      <4>. QED  BY <4>1, <3>1, ReadQuotedUnitIs
    <3>. QED  BY <2>1, <2>2, <2>3, <3>2
  <2>4. CASE u # mark
    <3>1. ScanQuoted(r0, Append(d, u), mark) = [mode |-> "in", read |-> Append(t, u)]
      <4>1. ScanQuoted(r0, Append(d, u), mark) =
              ReadQuotedUnit(ScanQuoted(r0, d, mark), u, mark)
        BY <2>1, ScanQuotedAppend
      <4>2. ReadQuotedUnit([mode |-> "in", read |-> t], u, mark) =
              [mode |-> "in", read |-> Append(t, u)]
        BY <2>4, ReadUnmarkedIs
      <4>. QED  BY <4>1, <4>2, <2>1
    <3>. QED  BY <2>1, <2>2, <2>4, <3>1
  <2>. QED  BY <2>3, <2>4
<1>3. Texts \subseteq T
  <2>. HIDE DEF T
  <2>. QED  BY <1>1, <1>2, SequenceInduction DEF Texts
<1>4. ScanQuoted(r0, Doubled(name, mark), mark) = [mode |-> "in", read |-> name]
  BY <1>3
<1>5. Doubled(name, mark) \in Texts
  BY DoubledIs
<1>. HIDE DEF T
<1>6. ScanQuoted(r0, Append(Doubled(name, mark), mark), mark) =
        [mode |-> "out", read |-> name]
  <2>1. ScanQuoted(r0, Append(Doubled(name, mark), mark), mark) =
          ReadQuotedUnit(ScanQuoted(r0, Doubled(name, mark), mark), mark, mark)
    BY <1>5, ScanQuotedAppend
  <2>. QED  BY <2>1, <1>4, ReadQuotedUnitIs
<1>. QED  BY <1>6, ReadQuotedIs

LEMMA NamesReadBack ==
  ASSUME NEW name \in Texts
  PROVE  Bracketed(name) = {name} /\ Literal(name) = {name}
<1>1. "]" \in Units /\ "'" \in Units
  BY UnitsAssumption
<1>2. ReadQuoted(Doubled(name, "]"), "]") = {name}
  BY <1>1, QuotedReadsBack
<1>3. ReadQuoted(Doubled(name, "'"), "'") = {name}
  BY <1>1, QuotedReadsBack
<1>. QED  BY <1>2, <1>3 DEF Bracketed, Literal

(* A call in its stages.                                                   *)
CallOK(c, call) ==
  /\ call = [pc |-> call.pc, op |-> call.op, q |-> call.q, text |-> call.text,
             asked |-> call.asked, on |-> call.on, result |-> call.result]
  /\ call.pc \in {"idle", "building", "direct", "master", "statement", "connected"}
  /\ call.result \in {"none", "ok", "err", "true", "false"}
  /\ call.pc = "idle" <=> call.op = "none"
  /\ call.pc \in {"building", "connected"} => call.op = "open"
  /\ call.pc = "direct" => call.op = "exists" /\ call.text = FromStr(call.q)
  /\ call.pc \in {"master", "statement"} => call.op \in {"exists", "create", "drop"}
  /\ call.pc # "idle" => call.q \in Requests[c]
  /\ call.pc \notin {"statement", "connected"} => call.on = <<>>
  /\ call.pc # "idle" => call.result = "none"

DatabaseOK(db) ==
  /\ db = [schemas |-> db.schemas, tables |-> db.tables]
  /\ \A x \in db.tables : x = <<x[1], x[2]>>

DatabasesOK ==
  /\ databases = [n \in DOMAIN databases |-> databases[n]]
  /\ Master \in DOMAIN databases
  /\ \A n \in DOMAIN databases : DatabaseOK(databases[n])

CallsOK ==
  /\ client = [c \in Clients |-> client[c]]
  /\ calls \in [Clients -> Nat]
  /\ \A c \in Clients : CallOK(c, client[c]) /\ calls[c] <= MaxCalls[c]

ConnectionsOK ==
  /\ \A x \in connections : x[1] \in Clients /\ x[2] \in DOMAIN databases
  /\ \A c \in Clients :
       client[c].on \notin {<<>>, Master} => <<c, client[c].on>> \in connections

SeenOK ==
  \A c \in Clients :
    /\ seen[c] \subseteq BOOLEAN
    /\ client[c].op = "exists" => There(client[c].q, databases) \in seen[c]

SetupInv == DatabasesOK /\ CallsOK /\ ConnectionsOK /\ SeenOK

LEMMA SetupTypes ==
  ASSUME SetupInv  PROVE SetupTypeOK
<1>1. ASSUME NEW c \in Clients  PROVE calls[c] \in 0..MaxCalls[c]
  <2>1. calls[c] \in Nat /\ calls[c] <= MaxCalls[c] /\ MaxCalls[c] \in Nat
    BY PreparedAssumption DEF SetupInv, CallsOK
  <2>. QED  BY <2>1
<1>. QED
  BY <1>1 DEF SetupInv, DatabasesOK, CallsOK, ConnectionsOK, SeenOK, SetupTypeOK, CallOK

LEMMA InitSetup ==
  ASSUME SetupInit  PROVE SetupInv
<1>. USE DEF SetupInit
<1>1. DatabasesOK
  <2>1. DatabaseOK(EmptyDatabase)
    BY DEF DatabaseOK, EmptyDatabase
  <2>. QED  BY <2>1 DEF DatabasesOK
<1>2. CallsOK
  <2>1. \A c \in Clients : CallOK(c, Idle("none"))
    BY DEF CallOK, Idle
  <2>2. \A c \in Clients : MaxCalls[c] \in Nat
    BY PreparedAssumption
  <2>. QED  BY <2>1, <2>2 DEF CallsOK
<1>3. ConnectionsOK
  BY DEF ConnectionsOK, Idle
<1>4. SeenOK
  BY DEF SeenOK, Idle
<1>. QED  BY <1>1, <1>2, <1>3, <1>4 DEF SetupInv

(* Whoever takes a step, what a call of database_exists might see is noted. *)
LEMMA ObserveKeeps ==
  ASSUME SeenOK, Observe  PROVE SeenOK'
<1>1. ASSUME NEW c \in Clients
      PROVE  /\ seen'[c] \subseteq BOOLEAN
             /\ client'[c].op = "exists" => There(client'[c].q, databases') \in seen'[c]
  <2>1. There(client'[c].q, databases') \in BOOLEAN
    BY DEF There
  <2>2. seen'[c] = IF client'[c].op # "exists" THEN {}
                   ELSE (IF client[c].op = "exists" THEN seen[c] ELSE {})
                          \cup {There(client'[c].q, databases')}
    BY DEF Observe
  <2>3. seen[c] \subseteq BOOLEAN
    BY DEF SeenOK
  <2>. QED  BY <2>1, <2>2, <2>3
<1>. QED  BY <1>1 DEF SeenOK

(* A step of one call leaves the others' alone.                            *)
LEMMA OneCall ==
  ASSUME CallsOK, NEW c \in Clients, NEW next, CallOK(c, next),
         client' = [client EXCEPT ![c] = next],
         calls' = calls \/ (calls' = [calls EXCEPT ![c] = @ + 1] /\ calls[c] < MaxCalls[c])
  PROVE  /\ CallsOK' /\ client'[c] = next
         /\ \A d \in Clients \ {c} : client'[d] = client[d]
<1>1. client' = [d \in Clients |-> client'[d]]
  BY DEF CallsOK
<1>2. client'[c] = next /\ \A d \in Clients \ {c} : client'[d] = client[d]
  BY DEF CallsOK
<1>3. calls' \in [Clients -> Nat] /\ \A d \in Clients : calls'[d] <= MaxCalls[d]
  <2>1. calls \in [Clients -> Nat] /\ \A d \in Clients : calls[d] <= MaxCalls[d]
    BY DEF CallsOK
  <2>2. \A d \in Clients : MaxCalls[d] \in Nat
    BY PreparedAssumption
  <2>. QED  BY <2>1, <2>2
<1>4. \A d \in Clients : CallOK(d, client'[d])
  <2>1. \A d \in Clients : CallOK(d, client[d])
    BY DEF CallsOK
  <2>. HIDE DEF CallOK
  <2>. QED  BY <1>2, <2>1
<1>. QED  BY <1>1, <1>2, <1>3, <1>4 DEF CallsOK

LEMMA IdleIs ==
  ASSUME NEW result
  PROVE  /\ Idle(result).pc = "idle" /\ Idle(result).op = "none"
         /\ Idle(result).on = <<>> /\ Idle(result).result = result
BY DEF Idle

LEMMA IdleOK ==
  ASSUME NEW c, NEW result \in {"none", "ok", "err", "true", "false"}
  PROVE  CallOK(c, Idle(result))
BY DEF CallOK, Idle

(* A call that turns to master keeps what it was asked.                    *)
LEMMA ToMasterOK ==
  ASSUME NEW c, NEW call, NEW next \in ToMaster(call),
         call = [pc |-> call.pc, op |-> call.op, q |-> call.q, text |-> call.text,
                 asked |-> call.asked, on |-> <<>>, result |-> "none"],
         call.op \in {"exists", "create", "drop"}, call.q \in Requests[c]
  PROVE  /\ CallOK(c, next) /\ next.on = <<>>
         /\ \/ next = Idle("err")
            \/ next.pc = "master" /\ next.op = call.op /\ next.q = call.q
<1>1. CASE next = Idle("err")
  BY <1>1, IdleOK, IdleIs
<1>2. CASE next # Idle("err")
  <2>1. PICK t : next = [call EXCEPT !.pc = "master", !.text = t,
                                     !.asked = With(@, "Database=", Master)]
    <3>. DEFINE moved == {[call EXCEPT !.pc = "master", !.text = t,
                                       !.asked = With(@, "Database=", Master)] :
                            t \in WithDatabase(call.text, Master)}
    <3>1. ToMaster(call) = IF ExtractDatabaseName(call.q) = {} \/ moved = {}
                           THEN {Idle("err")} ELSE moved
      BY DEF ToMaster
    <3>2. next \in moved
      <4>. HIDE DEF moved
      <4>. QED  BY <1>2, <3>1
    <3>. QED  BY <3>2
  <2>2. next = [pc |-> "master", op |-> call.op, q |-> call.q, text |-> t,
                asked |-> With(call.asked, "Database=", Master),
                on |-> <<>>, result |-> "none"]
    <3>1. PICK pc, op, q, text, asked :
            call = [pc |-> pc, op |-> op, q |-> q, text |-> text,
                    asked |-> asked, on |-> <<>>, result |-> "none"]
      OBVIOUS
    <3>2. call.op = op /\ call.q = q /\ call.asked = asked
      BY <3>1
    <3>3. next = [call EXCEPT !.pc = "master", !.text = t,
                              !.asked = With(asked, "Database=", Master)]
      BY <2>1, <3>2
    <3>4. next = [pc |-> "master", op |-> op, q |-> q, text |-> t,
                  asked |-> With(asked, "Database=", Master),
                  on |-> <<>>, result |-> "none"]
      BY ONLY <3>1, <3>3
    <3>. QED  BY <3>2, <3>4
  <2>3. CallOK(c, next)
    BY <2>2 DEF CallOK
  <2>. QED  BY <2>2, <2>3
<1>. QED  BY <1>1, <1>2

(* What a step does to the calls, the connections and the databases.       *)
LEMMA CallKeepsConnections ==
  ASSUME ConnectionsOK, NEW c \in Clients, connections' = connections,
         databases' = databases, client'[c].on = <<>>,
         \A d \in Clients \ {c} : client'[d] = client[d]
  PROVE  ConnectionsOK'
BY DEF ConnectionsOK

LEMMA BeginKeeps ==
  ASSUME SetupInv, NEW c \in Clients, Begin(c)
  PROVE  DatabasesOK' /\ CallsOK' /\ ConnectionsOK'
<1>1. PICK q \in Requests[c], op \in {"open", "exists", "create", "drop"} :
        \E a \in Asked(q) :
          LET call == [pc |-> "building", op |-> op, q |-> q, text |-> FromStr(q),
                       asked |-> a, on |-> <<>>, result |-> "none"]
          IN  \E next \in CASE op = "open" -> {call}
                            [] op = "exists" -> {[call EXCEPT !.pc = "direct"]}
                            [] OTHER -> ToMaster(call) :
                client' = [client EXCEPT ![c] = next]
  BY DEF Begin
<1>2. PICK a \in Asked(q) :
        LET call == [pc |-> "building", op |-> op, q |-> q, text |-> FromStr(q),
                     asked |-> a, on |-> <<>>, result |-> "none"]
        IN  \E next \in CASE op = "open" -> {call}
                          [] op = "exists" -> {[call EXCEPT !.pc = "direct"]}
                          [] OTHER -> ToMaster(call) :
              client' = [client EXCEPT ![c] = next]
  BY <1>1
<1>. DEFINE call == [pc |-> "building", op |-> op, q |-> q, text |-> FromStr(q),
                     asked |-> a, on |-> <<>>, result |-> "none"]
<1>3. PICK next : /\ client' = [client EXCEPT ![c] = next]
                  /\ next \in CASE op = "open" -> {call}
                               [] op = "exists" -> {[call EXCEPT !.pc = "direct"]}
                               [] OTHER -> ToMaster(call)
  BY <1>2
<1>4. CallOK(c, next) /\ next.on = <<>>
  <2>1. CASE op = "open"
    <3>1. next = call
      <4>. HIDE DEF call
      <4>. QED  BY <1>3, <2>1
    <3>. QED  BY <3>1, <2>1 DEF CallOK
  <2>2. CASE op = "exists"
    <3>1. next = [call EXCEPT !.pc = "direct"]
      <4>. HIDE DEF call
      <4>. QED  BY <1>3, <2>2
    <3>. QED  BY <3>1, <2>2 DEF CallOK
  <2>3. CASE op \in {"create", "drop"}
    <3>1. next \in ToMaster(call)
      <4>. HIDE DEF call
      <4>. QED  BY <1>3, <2>3
    <3>2. /\ call = [pc |-> call.pc, op |-> call.op, q |-> call.q, text |-> call.text,
                     asked |-> call.asked, on |-> <<>>, result |-> "none"]
          /\ call.op \in {"exists", "create", "drop"} /\ call.q \in Requests[c]
      BY <2>3
    <3>. HIDE DEF call
    <3>. QED  BY <3>1, <3>2, ToMasterOK
  <2>. QED  BY <2>1, <2>2, <2>3
<1>5. /\ calls' = [calls EXCEPT ![c] = @ + 1] /\ calls[c] < MaxCalls[c]
      /\ databases' = databases /\ connections' = connections
  BY DEF Begin
<1>. HIDE DEF call
<1>6. /\ CallsOK' /\ client'[c] = next
      /\ \A d \in Clients \ {c} : client'[d] = client[d]
  BY <1>3, <1>4, <1>5, OneCall DEF SetupInv
<1>7. ConnectionsOK'
  BY <1>4, <1>5, <1>6, CallKeepsConnections DEF SetupInv
<1>. QED  BY <1>5, <1>6, <1>7 DEF SetupInv, DatabasesOK

LEMMA MovedIs ==
  ASSUME NEW call, NEW pc, NEW n,
         call = [pc |-> call.pc, op |-> call.op, q |-> call.q, text |-> call.text,
                 asked |-> call.asked, on |-> call.on, result |-> call.result],
         NEW next, next = [call EXCEPT !.pc = pc, !.on = n]
  PROVE  next = [pc |-> pc, op |-> call.op, q |-> call.q, text |-> call.text,
                 asked |-> call.asked, on |-> n, result |-> call.result]
<1>1. PICK p, op, q, text, asked, on, result :
        call = [pc |-> p, op |-> op, q |-> q, text |-> text,
                asked |-> asked, on |-> on, result |-> result]
  OBVIOUS
<1>2. /\ call.op = op /\ call.q = q /\ call.text = text /\ call.asked = asked
      /\ call.result = result
  BY <1>1
<1>3. next = [pc |-> pc, op |-> op, q |-> q, text |-> text,
              asked |-> asked, on |-> n, result |-> result]
  BY <1>1
<1>. QED  BY <1>2, <1>3

LEMMA EditedIs ==
  ASSUME NEW call, NEW new, NEW edited,
         call = [pc |-> call.pc, op |-> call.op, q |-> call.q, text |-> call.text,
                 asked |-> call.asked, on |-> call.on, result |-> call.result],
         NEW next, next = [call EXCEPT !.text = new, !.asked = edited]
  PROVE  next = [pc |-> call.pc, op |-> call.op, q |-> call.q, text |-> new,
                 asked |-> edited, on |-> call.on, result |-> call.result]
<1>1. PICK p, op, q, text, asked, on, result :
        call = [pc |-> p, op |-> op, q |-> q, text |-> text,
                asked |-> asked, on |-> on, result |-> result]
  OBVIOUS
<1>2. /\ call.op = op /\ call.q = q /\ call.pc = p /\ call.on = on
      /\ call.result = result
  BY <1>1
<1>3. next = [pc |-> p, op |-> op, q |-> q, text |-> new,
              asked |-> edited, on |-> on, result |-> result]
  BY <1>1
<1>. QED  BY <1>2, <1>3

LEMMA BuildKeeps ==
  ASSUME SetupInv, NEW c \in Clients, Build(c)
  PROVE  DatabasesOK' /\ CallsOK' /\ ConnectionsOK'
<1>1. PICK text, asked :
        client' = [client EXCEPT ![c] = [@ EXCEPT !.text = text, !.asked = asked]]
  <2>1. PICK edit : client' = [client EXCEPT ![c].text = edit.text,
                        ![c].asked = IF edit.key \in DOMAIN @ THEN @
                                     ELSE With(@, edit.key, <<"yes">>)]
    BY DEF Build
  <2>2. client' = [client EXCEPT ![c] = [@ EXCEPT !.text = edit.text,
                        !.asked = IF edit.key \in DOMAIN client[c].asked THEN client[c].asked
                                  ELSE With(client[c].asked, edit.key, <<"yes">>)]]
    BY <2>1
  <2>. QED  BY <2>2
<1>2. PICK next : next = [client[c] EXCEPT !.text = text, !.asked = asked]
  OBVIOUS
<1>3. client' = [client EXCEPT ![c] = next]
  BY <1>2, <1>1
<1>4. client[c].pc = "building" /\ CallOK(c, client[c])
  BY DEF Build, SetupInv, CallsOK
<1>5. next = [pc |-> client[c].pc, op |-> client[c].op, q |-> client[c].q, text |-> text,
              asked |-> asked, on |-> client[c].on, result |-> client[c].result]
  <2>1. client[c] = [pc |-> client[c].pc, op |-> client[c].op, q |-> client[c].q,
                     text |-> client[c].text, asked |-> client[c].asked,
                     on |-> client[c].on, result |-> client[c].result]
    BY <1>4 DEF CallOK
  <2>. QED  BY <1>2, <2>1, EditedIs
<1>6. CallOK(c, next) /\ next.on = <<>>
  BY <1>4, <1>5 DEF CallOK
<1>7. calls' = calls /\ databases' = databases /\ connections' = connections
  BY DEF Build
<1>8. /\ CallsOK' /\ client'[c] = next
      /\ \A d \in Clients \ {c} : client'[d] = client[d]
  BY <1>3, <1>6, <1>7, OneCall DEF SetupInv
<1>9. ConnectionsOK'
  BY <1>6, <1>7, <1>8, CallKeepsConnections DEF SetupInv
<1>. QED  BY <1>7, <1>8, <1>9 DEF SetupInv, DatabasesOK

LEMMA ConnectFailedKeeps ==
  ASSUME SetupInv, NEW c \in Clients, ConnectFailed(c)
  PROVE  DatabasesOK' /\ CallsOK' /\ ConnectionsOK'
<1>. DEFINE call == client[c]
<1>1. PICK next : /\ client' = [client EXCEPT ![c] = next]
                  /\ next \in CASE call.pc = "direct" -> ToMaster(call)
                               [] call.pc = "master" /\ call.op = "exists" -> {Idle("false")}
                               [] OTHER -> {Idle("err")}
  BY DEF ConnectFailed
<1>2. CallOK(c, call)
  BY DEF SetupInv, CallsOK
<1>. HIDE DEF call
<1>3. CallOK(c, next) /\ next.on = <<>>
  <2>1. CASE call.pc = "direct"
    <3>1. next \in ToMaster(call)
      BY <1>1, <2>1
    <3>. QED  BY <3>1, <1>2, <2>1, ToMasterOK DEF CallOK
  <2>2. CASE call.pc # "direct"
    <3>1. next = Idle("false") \/ next = Idle("err")
      BY <1>1, <2>2
    <3>. QED  BY <3>1, IdleOK, IdleIs
  <2>. QED  BY <2>1, <2>2
<1>4. calls' = calls /\ databases' = databases /\ connections' = connections
  BY DEF ConnectFailed
<1>5. /\ CallsOK' /\ client'[c] = next
      /\ \A d \in Clients \ {c} : client'[d] = client[d]
  BY <1>1, <1>3, <1>4, OneCall DEF SetupInv
<1>6. ConnectionsOK'
  BY <1>3, <1>4, <1>5, CallKeepsConnections DEF SetupInv
<1>. QED  BY <1>4, <1>5, <1>6 DEF SetupInv, DatabasesOK

(* A connection that shows that the database is there is not its call's,   *)
(* one to master or of an opened handle is.                                *)
LEMMA ConnectKeeps ==
  ASSUME SetupInv, NEW c \in Clients, Connect(c)
  PROVE  DatabasesOK' /\ CallsOK' /\ ConnectionsOK'
<1>. DEFINE call == client[c]
<1>1. PICK s \in Reading(call.text) :
        /\ Opens(s)
        /\ connections' = connections \cup ({<<c, DatabaseIn(s)>>} \ Masters)
        /\ client' = [client EXCEPT ![c] =
             CASE call.pc = "building" -> [@ EXCEPT !.pc = "connected", !.on = DatabaseIn(s)]
               [] call.pc = "direct" -> Idle("true")
               [] call.pc = "master" -> [@ EXCEPT !.pc = "statement", !.on = DatabaseIn(s)]]
  BY DEF Connect
<1>2. call.pc \in {"building", "direct", "master"} /\ CallOK(c, call)
  BY DEF SetupInv, CallsOK, Connect
<1>3. PICK n : n = DatabaseIn(s)
  OBVIOUS
<1>4. n \in DOMAIN databases
  BY <1>1, <1>3 DEF Opens
<1>5. PICK next : next = CASE call.pc = "building" -> [call EXCEPT !.pc = "connected", !.on = n]
                           [] call.pc = "direct" -> Idle("true")
                           [] call.pc = "master" -> [call EXCEPT !.pc = "statement", !.on = n]
  OBVIOUS
<1>6. client' = [client EXCEPT ![c] = next]
  BY <1>1, <1>3, <1>5
<1>. HIDE DEF call
<1>7. CallOK(c, next) /\ next.on \in {<<>>, n}
  <2>1. CASE call.pc = "direct"
    <3>1. next = Idle("true")
      BY <1>5, <2>1
    <3>. QED  BY <3>1, IdleOK, IdleIs
  <2>2. CASE call.pc # "direct"
    <3>1. PICK pc : /\ next = [call EXCEPT !.pc = pc, !.on = n]
                    /\ pc = IF call.pc = "building" THEN "connected" ELSE "statement"
      BY <1>2, <1>5, <2>2
    <3>2. next = [pc |-> pc, op |-> call.op, q |-> call.q, text |-> call.text,
                  asked |-> call.asked, on |-> n, result |-> "none"]
      BY <1>2, <3>1, MovedIs, <2>2 DEF CallOK
    <3>3. CallOK(c, next)
      BY <1>2, <2>2, <3>1, <3>2 DEF CallOK
    <3>. QED  BY <3>2, <3>3
  <2>. QED  BY <2>1, <2>2
<1>8. calls' = calls /\ databases' = databases
  BY DEF Connect
<1>9. /\ CallsOK' /\ client'[c] = next
      /\ \A d \in Clients \ {c} : client'[d] = client[d]
  BY <1>6, <1>7, <1>8, OneCall DEF SetupInv
<1>10. ConnectionsOK'
  <2>1. connections' = connections \cup ({<<c, n>>} \ Masters)
    BY <1>1, <1>3
  <2>2. n # Master => <<c, n>> \in connections'
    BY <2>1 DEF Masters
  <2>3. \A x \in connections' : x[1] \in Clients /\ x[2] \in DOMAIN databases'
    BY <1>4, <1>8, <2>1 DEF SetupInv, ConnectionsOK
  <2>. QED  BY <1>7, <1>9, <2>1, <2>2, <2>3 DEF SetupInv, ConnectionsOK
<1>. QED  BY <1>8, <1>9, <1>10 DEF SetupInv, DatabasesOK

(* A statement that is over leaves an idle call.                           *)
LEMMA ExecuteKeeps ==
  ASSUME SetupInv, NEW c \in Clients, NEW op, NEW result \in {"none", "ok", "err", "true", "false"},
         Execute(c, op, result)
  PROVE  /\ CallsOK' /\ client'[c] = Idle(result) /\ client'[c].on = <<>>
         /\ connections' = connections
         /\ \A d \in Clients \ {c} : client'[d] = client[d]
<1>1. client' = [client EXCEPT ![c] = Idle(result)] /\ calls' = calls
  BY DEF Execute
<1>2. CallOK(c, Idle(result))
  BY IdleOK
<1>3. /\ CallsOK' /\ client'[c] = Idle(result)
      /\ \A d \in Clients \ {c} : client'[d] = client[d]
  BY <1>1, <1>2, OneCall DEF SetupInv
<1>. QED  BY <1>3, IdleIs DEF Execute

LEMMA CreateDatabaseKeeps ==
  ASSUME SetupInv, NEW c \in Clients, CreateDatabase(c)
  PROVE  DatabasesOK' /\ CallsOK' /\ ConnectionsOK'
<1>1. /\ CallsOK' /\ client'[c] = Idle("ok") /\ client'[c].on = <<>>
      /\ connections' = connections
      /\ \A d \in Clients \ {c} : client'[d] = client[d]
  BY ExecuteKeeps DEF CreateDatabase
<1>2. PICK n : n \notin DOMAIN databases /\ databases' = With(databases, n, EmptyDatabase)
  BY DEF CreateDatabase
<1>3. /\ DOMAIN databases' = (DOMAIN databases) \cup {n}
      /\ \A m \in DOMAIN databases' :
           databases'[m] = IF m = n THEN EmptyDatabase ELSE databases[m]
      /\ databases' = [m \in DOMAIN databases' |-> databases'[m]]
  BY <1>2 DEF With
<1>4. DatabasesOK'
  <2>1. DatabaseOK(EmptyDatabase)
    BY DEF DatabaseOK, EmptyDatabase
  <2>. QED  BY <1>3, <2>1 DEF SetupInv, DatabasesOK
<1>5. ConnectionsOK'
  BY <1>1, <1>3 DEF SetupInv, ConnectionsOK
<1>. QED  BY <1>1, <1>4, <1>5

(* Nobody is connected to a database that is dropped.                      *)
LEMMA DropDatabaseKeeps ==
  ASSUME SetupInv, NEW c \in Clients, DropDatabase(c)
  PROVE  DatabasesOK' /\ CallsOK' /\ ConnectionsOK'
<1>1. /\ CallsOK' /\ client'[c] = Idle("ok") /\ client'[c].on = <<>>
      /\ connections' = connections
      /\ \A d \in Clients \ {c} : client'[d] = client[d]
  BY ExecuteKeeps DEF DropDatabase
<1>2. PICK n : ~InUse(n) /\ databases' = [m \in (DOMAIN databases) \ {n} |-> databases[m]]
  BY DEF DropDatabase
<1>3. /\ DOMAIN databases' = (DOMAIN databases) \ {n}
      /\ \A m \in DOMAIN databases' : databases'[m] = databases[m]
      /\ databases' = [m \in DOMAIN databases' |-> databases'[m]]
  BY <1>2
<1>4. DatabasesOK'
  BY <1>2, <1>3 DEF SetupInv, DatabasesOK, InUse
<1>5. ConnectionsOK'
  <2>1. \A x \in connections : x[2] # n
    BY <1>2 DEF InUse
  <2>. QED  BY <1>1, <1>3, <2>1 DEF SetupInv, ConnectionsOK
<1>. QED  BY <1>1, <1>4, <1>5

LEMMA DatabaseExistsKeeps ==
  ASSUME SetupInv, NEW c \in Clients, DatabaseExists(c)
  PROVE  DatabasesOK' /\ CallsOK' /\ ConnectionsOK'
<1>1. PICK result \in {"true", "false"} : Execute(c, "exists", result)
  BY DEF DatabaseExists
<1>2. /\ CallsOK' /\ client'[c].on = <<>> /\ connections' = connections
      /\ \A d \in Clients \ {c} : client'[d] = client[d]
  BY <1>1, ExecuteKeeps
<1>3. databases' = databases
  BY DEF DatabaseExists
<1>4. ConnectionsOK'
  BY <1>2, <1>3, CallKeepsConnections DEF SetupInv
<1>. QED  BY <1>2, <1>3, <1>4 DEF SetupInv, DatabasesOK

LEMMA StatementFailedKeeps ==
  ASSUME SetupInv, NEW c \in Clients, StatementFailed(c)
  PROVE  DatabasesOK' /\ CallsOK' /\ ConnectionsOK'
<1>1. PICK op : Execute(c, op, "err")
  BY DEF StatementFailed
<1>2. /\ CallsOK' /\ client'[c].on = <<>> /\ connections' = connections
      /\ \A d \in Clients \ {c} : client'[d] = client[d]
  BY <1>1, ExecuteKeeps
<1>3. databases' = databases
  BY DEF StatementFailed
<1>4. ConnectionsOK'
  BY <1>2, <1>3, CallKeepsConnections DEF SetupInv
<1>. QED  BY <1>2, <1>3, <1>4 DEF SetupInv, DatabasesOK

LEMMA DisconnectKeeps ==
  ASSUME SetupInv, NEW c \in Clients, Disconnect(c)
  PROVE  DatabasesOK' /\ CallsOK' /\ ConnectionsOK'
<1>1. PICK x \in connections : /\ x[1] = c /\ x[2] # client[c].on
                               /\ connections' = connections \ {x}
  BY DEF Disconnect
<1>2. databases' = databases /\ client' = client /\ calls' = calls
  BY DEF Disconnect
<1>3. ConnectionsOK'
  <2>1. ASSUME NEW d \in Clients, client[d].on \notin {<<>>, Master}
        PROVE  <<d, client[d].on>> \in connections'
    <3>1. <<d, client[d].on>> \in connections
      BY <2>1 DEF SetupInv, ConnectionsOK
    <3>2. <<d, client[d].on>> # x
      BY <1>1
    <3>. QED  BY <1>1, <3>1, <3>2
  <2>. QED  BY <1>1, <1>2, <2>1 DEF SetupInv, ConnectionsOK
<1>. QED  BY <1>2, <1>3 DEF SetupInv, DatabasesOK, CallsOK

LEMMA CloseKeeps ==
  ASSUME SetupInv, NEW c \in Clients, Close(c)
  PROVE  DatabasesOK' /\ CallsOK' /\ ConnectionsOK'
<1>1. /\ client' = [client EXCEPT ![c] = Idle("ok")]
      /\ databases' = databases /\ connections' = connections /\ calls' = calls
  BY DEF Close
<1>2. CallOK(c, Idle("ok"))
  BY IdleOK
<1>3. /\ CallsOK' /\ client'[c] = Idle("ok")
      /\ \A d \in Clients \ {c} : client'[d] = client[d]
  BY <1>1, <1>2, OneCall DEF SetupInv
<1>4. client'[c].on = <<>>
  BY <1>3, IdleIs
<1>5. ConnectionsOK'
  BY <1>1, <1>3, <1>4, CallKeepsConnections DEF SetupInv
<1>. QED  BY <1>1, <1>3, <1>5 DEF SetupInv, DatabasesOK

(* What is prepared adds to a database of the same form.                   *)
LEMMA CreatedTableOK ==
  ASSUME NEW db, DatabaseOK(db), NEW own, NEW name, NEW d \in CreateTable(db, own, name)
  PROVE  /\ DatabaseOK(d) /\ d.schemas = db.schemas
         /\ \E x \in (IF SplitTableName(name).schema = <<>> THEN {own}
                       ELSE Bracketed(SplitTableName(name).schema))
                      \X Bracketed(SplitTableName(name).table) :
              d.tables = db.tables \cup {x}
<1>. DEFINE made == (IF SplitTableName(name).schema = <<>> THEN {own}
                     ELSE Bracketed(SplitTableName(name).schema))
                    \X Bracketed(SplitTableName(name).table)
<1>1. PICK x \in made : d = [db EXCEPT !.tables = @ \cup {x}]
  BY DEF CreateTable
<1>2. PICK schemas, tables : db = [schemas |-> schemas, tables |-> tables]
  BY DEF DatabaseOK
<1>3. d = [schemas |-> schemas, tables |-> tables \cup {x}]
  BY <1>1, <1>2
<1>4. d.schemas = db.schemas /\ d.tables = db.tables \cup {x}
  BY <1>2, <1>3
<1>5. x = <<x[1], x[2]>>
  BY <1>1
<1>6. DatabaseOK(d)
  BY <1>3, <1>4, <1>5 DEF DatabaseOK
<1>. QED  BY <1>1, <1>4, <1>6

LEMMA CreatedSchemaOK ==
  ASSUME NEW db, DatabaseOK(db), NEW schema, NEW d \in CreateSchemaIfNotExists(db, schema)
  PROVE  DatabaseOK(d)
<1>1. CASE d = db
  BY <1>1
<1>2. CASE d # db
  <2>1. PICK s : d = [db EXCEPT !.schemas = @ \cup {s}]
    BY <1>2 DEF CreateSchemaIfNotExists
  <2>2. PICK schemas, tables : db = [schemas |-> schemas, tables |-> tables]
    BY DEF DatabaseOK
  <2>3. d = [schemas |-> schemas \cup {s}, tables |-> tables]
    BY <2>1, <2>2
  <2>. QED  BY <2>2, <2>3 DEF DatabaseOK
<1>. QED  BY <1>1, <1>2

LEMMA PrepareKeeps ==
  ASSUME SetupInv, NEW c \in Clients, Prepare(c)
  PROVE  /\ DatabasesOK' /\ CallsOK' /\ ConnectionsOK'
         /\ DOMAIN databases' = DOMAIN databases
<1>. DEFINE n == client[c].on
            db == databases[n]
<1>1. PICK after \in UNION ({CreateSchemaIfNotExists(db, s) : s \in Schemas} \cup
                            {EnsureMigrationsTable(db, DefaultSchema[c], t) : t \in Tables}) :
        databases' = [databases EXCEPT ![n] = after]
  BY DEF Prepare
<1>2. connections' = connections /\ client' = client /\ calls' = calls
  BY DEF Prepare
<1>3. /\ DOMAIN databases' = DOMAIN databases
      /\ databases' = [m \in DOMAIN databases' |-> databases'[m]]
      /\ \A m \in DOMAIN databases' : databases'[m] = IF m = n THEN after ELSE databases[m]
  BY <1>1 DEF SetupInv, DatabasesOK
<1>4. n \in DOMAIN databases => DatabaseOK(after)
  <2>. SUFFICES ASSUME n \in DOMAIN databases  PROVE DatabaseOK(after)
    OBVIOUS
  <2>1. DatabaseOK(db)
    BY DEF SetupInv, DatabasesOK
  <2>. HIDE DEF db
  <2>2. \/ \E s : after \in CreateSchemaIfNotExists(db, s)
        \/ \E t : after = db \/ after \in CreateTable(db, DefaultSchema[c], t)
    BY <1>1 DEF EnsureMigrationsTable
  <2>. QED  BY <2>1, <2>2, CreatedSchemaOK, CreatedTableOK
<1>5. DatabasesOK'
  BY <1>3, <1>4 DEF SetupInv, DatabasesOK
<1>6. ConnectionsOK'
  BY <1>2, <1>3 DEF SetupInv, ConnectionsOK
<1>. QED  BY <1>2, <1>3, <1>5, <1>6 DEF SetupInv, CallsOK

LEMMA NextKeeps ==
  ASSUME SetupInv, SetupNext  PROVE SetupInv'
<1>1. Observe /\ DatabasesOK' /\ CallsOK' /\ ConnectionsOK'
  <2>1. PICK c \in Clients :
          /\ Observe
          /\ \/ Begin(c) \/ Build(c) \/ Connect(c) \/ ConnectFailed(c)
             \/ CreateDatabase(c) \/ DropDatabase(c) \/ DatabaseExists(c)
             \/ StatementFailed(c) \/ Disconnect(c) \/ Prepare(c) \/ Close(c)
    BY DEF SetupNext
  <2>. QED  BY <2>1, BeginKeeps, BuildKeeps, ConnectKeeps, ConnectFailedKeeps,
               CreateDatabaseKeeps, DropDatabaseKeeps, DatabaseExistsKeeps,
               StatementFailedKeeps, DisconnectKeeps, PrepareKeeps, CloseKeeps
<1>2. SeenOK'
  BY <1>1, ObserveKeeps DEF SetupInv
<1>. QED  BY <1>1, <1>2 DEF SetupInv

LEMMA StutterKeeps ==
  ASSUME SetupInv, UNCHANGED setupVars  PROVE SetupInv'
BY DEF SetupInv, DatabasesOK, DatabaseOK, CallsOK, CallOK, ConnectionsOK, SeenOK, There, setupVars

LEMMA AlwaysSetupInv ==
  SetupSpec => []SetupInv
<1>1. SetupInit => SetupInv
  BY InitSetup
<1>2. SetupInv /\ [SetupNext]_setupVars => SetupInv'
  BY NextKeeps, StutterKeeps
<1>. QED  BY <1>1, <1>2, PTL DEF SetupSpec

(* The databases, the calls, the connections and what was seen have their  *)
(* shapes, and a connection is to a database that is there, whatever the   *)
(* programs do (migrate.rs:85-143, connection.rs).                         *)
THEOREM SetupTyped == SetupSpec => []SetupTypeOK
<1>1. SetupInv => SetupTypeOK
  BY SetupTypes
<1>. QED  BY <1>1, AlwaysSetupInv, PTL

(* In a text no quote follows another.                                     *)
Apart(t) == \A i \in 1..(Len(t) - 1) : ~(t[i] = "'" /\ t[i+1] = "'")

LEMMA ReadMalformedIs ==
  ASSUME NEW mode, NEW read, NEW u, NEW mark,
         mode = "malformed" \/ (mode = "out" /\ u # mark)
  PROVE  ReadQuotedUnit([mode |-> mode, read |-> read], u, mark) =
           [mode |-> "malformed", read |-> read]
BY DEF ReadQuotedUnit

(* What EXEC('...') reads of a bracketed name, unit by unit: the same, up  *)
(* to the first quote; and after one nothing is a literal any more.        *)
QuoteScan(t, r) ==
  \E mode, read :
    /\ r = [mode |-> mode, read |-> read]
    /\ \/ mode = "in" /\ read = Doubled(t, "]") /\ (t # <<>> => t[Len(t)] # "'")
       \/ mode = "out" /\ t # <<>> /\ t[Len(t)] = "'"
       \/ mode = "malformed"

LEMMA QuoteScanSteps ==
  ASSUME NEW t \in Texts, NEW u \in Units, Apart(Append(t, u)),
         QuoteScan(t, ScanQuoted([mode |-> "in", read |-> <<>>], Doubled(t, "]"), "'"))
  PROVE  QuoteScan(Append(t, u),
                   ScanQuoted([mode |-> "in", read |-> <<>>], Doubled(Append(t, u), "]"), "'"))
<1>. DEFINE d == Doubled(t, "]")
            R(x) == ScanQuoted([mode |-> "in", read |-> <<>>], x, "'")
<1>1. /\ "]" \in Units /\ "'" \in Units
  BY UnitsAssumption
<1>2. /\ d \in Texts
      /\ Doubled(Append(t, u), "]") = IF u = "]" THEN Append(Append(d, "]"), "]")
                                      ELSE Append(d, u)
  BY <1>1, DoubledIs
<1>3. /\ Append(t, u) # <<>> /\ Append(t, u)[Len(Append(t, u))] = u
      /\ Append(d, "]") \in Texts
  <2>1. \A x \in Texts, v \in Units :
          /\ Append(x, v) # <<>> /\ Append(x, v)[Len(Append(x, v))] = v
          /\ Append(x, v) \in Texts
    BY DEF Texts
  <2>. HIDE DEF d
  <2>. QED  BY <1>1, <1>2, <2>1
<1>4. t # <<>> /\ t[Len(t)] = "'" => u # "'"
  <2>. SUFFICES ASSUME t # <<>>, t[Len(t)] = "'"  PROVE u # "'"
    OBVIOUS
  <2>1. /\ Len(t) \in 1..(Len(Append(t, u)) - 1)
        /\ Append(t, u)[Len(t)] = t[Len(t)] /\ Append(t, u)[Len(t) + 1] = u
    BY DEF Texts
  <2>. QED  BY <2>1 DEF Apart
<1>5. PICK mode, read :
        /\ R(d) = [mode |-> mode, read |-> read]
        /\ \/ mode = "in" /\ read = d /\ (t # <<>> => t[Len(t)] # "'")
           \/ mode = "out" /\ t # <<>> /\ t[Len(t)] = "'"
           \/ mode = "malformed"
  BY DEF QuoteScan
<1>6. \A x \in Texts, v \in Units : R(Append(x, v)) = ReadQuotedUnit(R(x), v, "'")
  BY ScanQuotedAppend
<1>. HIDE DEF d, R
<1>7. R(Append(d, u)) = ReadQuotedUnit([mode |-> mode, read |-> read], u, "'")
  BY <1>2, <1>5, <1>6
<1>8. u = "]" => R(Append(Append(d, "]"), "]")) = ReadQuotedUnit(R(Append(d, "]")), "]", "'")
  BY <1>1, <1>3, <1>6
<1>9. \E m, x : /\ R(Doubled(Append(t, u), "]")) = [mode |-> m, read |-> x]
                /\ \/ m = "in" /\ x = Doubled(Append(t, u), "]") /\ u # "'"
                   \/ m = "out" /\ u = "'"
                   \/ m = "malformed"
  <2>1. CASE mode = "in" /\ u = "'"
    <3>1. R(Append(d, u)) = [mode |-> "out", read |-> read]
      BY <1>7, <2>1, ReadQuotedUnitIs
    <3>. QED  BY <3>1, <2>1, <1>2
  <2>2. CASE mode = "in" /\ u \notin {"'", "]"}
    <3>1. R(Append(d, u)) = [mode |-> "in", read |-> Append(read, u)]
      BY <1>7, <2>2, ReadUnmarkedIs
    <3>. QED  BY <3>1, <2>2, <1>2, <1>5
  <2>3. CASE mode = "in" /\ u = "]"
    <3>1. R(Append(d, "]")) = [mode |-> "in", read |-> Append(read, "]")]
      BY <1>7, <2>3, ReadUnmarkedIs
    <3>2. R(Append(Append(d, "]"), "]")) =
            [mode |-> "in", read |-> Append(Append(read, "]"), "]")]
      <4>1. PICK x : x = Append(read, "]")
        OBVIOUS
      <4>2. ReadQuotedUnit([mode |-> "in", read |-> x], "]", "'") =
              [mode |-> "in", read |-> Append(x, "]")]
        BY ReadUnmarkedIs
      <4>3. R(Append(Append(d, "]"), "]")) = ReadQuotedUnit([mode |-> "in", read |-> x], "]", "'")
        BY <1>8, <2>3, <3>1, <4>1
      <4>. QED  BY <4>1, <4>2, <4>3
    <3>3. Doubled(Append(t, u), "]") = Append(Append(read, "]"), "]")
      BY <1>2, <1>5, <2>3
    <3>4. R(Doubled(Append(t, u), "]")) = [mode |-> "in", read |-> Doubled(Append(t, u), "]")]
      BY <1>2, <2>3, <3>2, <3>3
    <3>. WITNESS "in", Doubled(Append(t, u), "]")
    <3>. QED  BY <3>4, <2>3
  <2>4. CASE mode # "in"
    <3>1. R(Append(d, u)) = [mode |-> "malformed", read |-> read]
      BY <1>4, <1>5, <1>7, <2>4, ReadMalformedIs
    <3>2. u = "]" => R(Append(Append(d, "]"), "]")) = [mode |-> "malformed", read |-> read]
      BY <1>8, <3>1, ReadMalformedIs
    <3>. QED  BY <3>1, <3>2, <1>2
  <2>. QED  BY <2>1, <2>2, <2>3, <2>4
<1>. QED  BY <1>3, <1>9 DEF QuoteScan, R

(* EXEC('...') reads the bracketed name of a schema, if it reads anything. *)
LEMMA SchemaIsRead ==
  ASSUME NEW s \in Texts, Apart(s)
  PROVE  ReadQuoted(Doubled(s, "]"), "'") \subseteq {Doubled(s, "]")}
<1>. DEFINE R(x) == ScanQuoted([mode |-> "in", read |-> <<>>], x, "'")
            T == {t \in Texts : Apart(t) => QuoteScan(t, R(Doubled(t, "]")))}
<1>1. "]" \in Units /\ "'" \in Units
  BY UnitsAssumption
<1>2. <<>> \in T
  <2>1. <<>> \in Texts /\ Doubled(<<>>, "]") = <<>>
    BY <1>1, DoubledIs DEF Texts
  <2>2. R(<<>>) = [mode |-> "in", read |-> <<>>]
    BY ScanQuotedEmpty
  <2>. QED  BY <2>1, <2>2 DEF QuoteScan
<1>3. ASSUME NEW t \in T, NEW u \in Units  PROVE Append(t, u) \in T
  <2>1. Append(t, u) \in Texts
    BY DEF Texts
  <2>2. ASSUME Apart(Append(t, u))  PROVE Apart(t)
    <3>1. ASSUME NEW i \in 1..(Len(t) - 1)  PROVE ~(t[i] = "'" /\ t[i+1] = "'")
      <4>1. /\ i \in 1..(Len(Append(t, u)) - 1)
            /\ Append(t, u)[i] = t[i] /\ Append(t, u)[i+1] = t[i+1]
        BY DEF Texts
      <4>. QED  BY <2>2, <4>1 DEF Apart
    <3>. QED  BY <3>1 DEF Apart
  <2>. QED  BY <2>1, <2>2, QuoteScanSteps
<1>4. s \in T
  <2>. HIDE DEF T
  <2>1. Texts \subseteq T
    BY <1>2, <1>3, SequenceInduction DEF Texts
  <2>. QED  BY <2>1
<1>5. PICK mode, read :
        /\ R(Doubled(s, "]")) = [mode |-> mode, read |-> read]
        /\ \/ mode = "in" /\ read = Doubled(s, "]")
           \/ mode \in {"out", "malformed"}
  BY <1>4 DEF QuoteScan
<1>6. Doubled(s, "]") \in Texts
  BY <1>1, DoubledIs
<1>7. R(Append(Doubled(s, "]"), "'")) = ReadQuotedUnit([mode |-> mode, read |-> read], "'", "'")
  BY <1>1, <1>5, <1>6, ScanQuotedAppend
<1>. HIDE DEF T
<1>8. \E m, x : /\ R(Append(Doubled(s, "]"), "'")) = [mode |-> m, read |-> x]
                /\ m = "out" => x = Doubled(s, "]")
  <2>1. CASE mode = "in"
    <3>1. R(Append(Doubled(s, "]"), "'")) = [mode |-> "out", read |-> Doubled(s, "]")]
      BY <1>5, <1>7, <2>1, ReadQuotedUnitIs
    <3>. QED  BY <3>1
  <2>2. CASE mode = "out"
    <3>1. R(Append(Doubled(s, "]"), "'")) = [mode |-> "in", read |-> Append(read, "'")]
      BY <1>5, <1>7, <2>2, ReadQuotedUnitIs
    <3>. WITNESS "in", Append(read, "'")
    <3>. QED  BY <3>1
  <2>3. CASE mode = "malformed"
    <3>1. R(Append(Doubled(s, "]"), "'")) = [mode |-> "malformed", read |-> read]
      BY <1>5, <1>7, <2>3, ReadMalformedIs
    <3>. WITNESS "malformed", read
    <3>. QED  BY <3>1
  <2>. QED  BY <1>5, <2>1, <2>2, <2>3
<1>. QED  BY <1>8, ReadQuotedIs

(* A unit is found at its first place, or nowhere.                         *)
LEMMA FoundIs ==
  ASSUME NEW t \in Texts, NEW us
  PROVE  /\ Find(t, us) \in 0..Len(t)
         /\ Find(t, us) = 0 <=> ~Has(t, us)
         /\ Find(t, us) # 0 => t[Find(t, us)] \in us
         /\ \A i \in 1..(Find(t, us) - 1) : t[i] \notin us
<1>. DEFINE I == {i \in 1..Len(t) : t[i] \in us}
<1>1. DOMAIN t = 1..Len(t) /\ Len(t) \in Nat
  BY DEF Texts
<1>2. Find(t, us) = IF I = {} THEN 0 ELSE Min(I)
  BY <1>1 DEF Find, SelectInSeq
<1>3. I # {} => Min(I) \in I /\ \A i \in I : Min(I) <= i
  <2>1. I \in SUBSET Nat
    BY <1>1
  <2>. HIDE DEF I
  <2>. QED  BY <2>1, MinIs
<1>4. Has(t, us) <=> I # {}
  BY <1>1 DEF Has
<1>5. CASE I = {}
  BY <1>1, <1>2, <1>4, <1>5
<1>6. CASE I # {}
  <2>1. Find(t, us) = Min(I)
    <3>. HIDE DEF I
    <3>. QED  BY <1>2, <1>6
  <2>2. PICK m : m = Min(I)
    OBVIOUS
  <2>3. m \in I /\ \A i \in I : m <= i
    <3>. HIDE DEF I
    <3>. QED  BY <1>3, <1>6, <2>2
  <2>4. m \in 1..Len(t) /\ t[m] \in us /\ \A i \in 1..(m - 1) : t[i] \notin us
    BY <1>1, <2>3
  <2>. QED  BY <1>1, <1>4, <1>6, <2>1, <2>2, <2>4
<1>. QED  BY <1>5, <1>6

(* The parts of the name of a table.                                       *)
LEMMA SplitNames ==
  ASSUME NEW t \in Texts
  PROVE  SplitTableName(t).schema \in Texts /\ SplitTableName(t).table \in Texts
<1>. DEFINE dot == Find(t, {"."})
<1>1. dot \in 0..Len(t)
  BY FoundIs DEF Texts
<1>2. Len(t) \in Nat /\ \A m, n \in Int : m >= 1 /\ n <= Len(t) => SubSeq(t, m, n) \in Seq(Units)
  BY DEF Texts
<1>. HIDE DEF dot
<1>3. SubSeq(t, 1, dot - 1) \in Texts /\ SubSeq(t, dot + 1, Len(t)) \in Texts
  BY <1>1, <1>2 DEF Texts
<1>. QED  BY <1>3 DEF SplitTableName, dot

(* A schema that is there is left alone, and any other is made.            *)
LEMMA SchemaPrepared ==
  ASSUME NEW db, DatabaseOK(db), NEW s \in Schemas
  PROVE  /\ s \in db.schemas => CreateSchemaIfNotExists(db, s) = {db}
         /\ \A d \in CreateSchemaIfNotExists(db, s) : s \in d.schemas
<1>1. s \in Texts /\ Apart(s)
  BY PreparedAssumption DEF Apart
<1>2. Literal(s) = {s}
  BY <1>1, NamesReadBack
<1>3. ASSUME s \notin db.schemas, NEW d \in CreateSchemaIfNotExists(db, s)
      PROVE  s \in d.schemas
  <2>1. PICK n : /\ d = [db EXCEPT !.schemas = @ \cup {n}]
                 /\ \E t \in ReadQuoted(Doubled(s, "]"), "'") : n \in ReadQuoted(t, "]")
    BY <1>2, <1>3 DEF CreateSchemaIfNotExists
  <2>2. n \in Bracketed(s)
    BY <1>1, <2>1, SchemaIsRead DEF Bracketed
  <2>3. n = s
    BY <1>1, <2>2, NamesReadBack
  <2>4. PICK schemas, tables : db = [schemas |-> schemas, tables |-> tables]
    BY DEF DatabaseOK
  <2>. QED  BY <2>1, <2>3, <2>4
<1>. QED  BY <1>2, <1>3 DEF CreateSchemaIfNotExists

(* A table is found by the list after it was ensured, and then left alone. *)
LEMMA TablePrepared ==
  ASSUME NEW db, DatabaseOK(db), NEW t \in Tables, NEW own
  PROVE  /\ Listed(db, own, t) /\ (own = Dbo \/ SplitTableName(t).schema # <<>>)
              => EnsureMigrationsTable(db, own, t) = {db}
         /\ \A d \in EnsureMigrationsTable(db, own, t) : Listed(d, own, t)
<1>. DEFINE schema == SplitTableName(t).schema
            table  == SplitTableName(t).table
            looked == (IF schema = <<>> THEN {Dbo} ELSE Literal(schema)) \X Literal(table)
<1>1. /\ Bracketed(schema) = {schema} /\ Literal(schema) = {schema}
      /\ Bracketed(table) = {table} /\ Literal(table) = {table}
  BY SplitNames, NamesReadBack, PreparedAssumption
<1>2. EnsureMigrationsTable(db, own, t) =
        IF looked \subseteq db.tables THEN {db} ELSE CreateTable(db, own, t)
  BY DEF EnsureMigrationsTable
<1>3. looked = {<<IF schema = <<>> THEN Dbo ELSE schema, table>>}
  <2>. HIDE DEF schema, table
  <2>. QED  BY <1>1
<1>4. \A d : Listed(d, own, t) <=>
        \E x \in d.tables : /\ x[1] \in IF schema = <<>> THEN {own, Dbo} ELSE {schema}
                            /\ x[2] = table
  <2>1. \A d : Listed(d, own, t) <=>
          \E x \in d.tables : /\ x[1] \in IF schema = <<>> THEN {own, Dbo} ELSE Bracketed(schema)
                              /\ x[2] \in Bracketed(table)
    BY DEF Listed
  <2>. HIDE DEF schema, table
  <2>. QED  BY <1>1, <2>1
<1>5. \A d \in CreateTable(db, own, t) :
        d.tables = db.tables \cup {<<IF schema = <<>> THEN own ELSE schema, table>>}
  <2>1. ASSUME NEW d \in CreateTable(db, own, t)
        PROVE  \E x \in (IF schema = <<>> THEN {own} ELSE Bracketed(schema)) \X Bracketed(table) :
                 d.tables = db.tables \cup {x}
    BY CreatedTableOK
  <2>. HIDE DEF schema, table
  <2>. QED  BY <1>1, <2>1
<1>. HIDE DEF schema, table, looked
<1>6. ASSUME Listed(db, own, t), own = Dbo \/ schema # <<>>
      PROVE  EnsureMigrationsTable(db, own, t) = {db}
  <2>1. PICK x \in db.tables : /\ x[1] \in IF schema = <<>> THEN {own, Dbo} ELSE {schema}
                               /\ x[2] = table
    BY <1>4, <1>6
  <2>2. x = <<x[1], x[2]>>
    BY DEF DatabaseOK
  <2>3. x = <<IF schema = <<>> THEN Dbo ELSE schema, table>>
    BY <1>6, <2>1, <2>2
  <2>4. looked \subseteq db.tables
    BY <1>3, <2>3
  <2>. QED  BY <1>2, <2>4
<1>7. ASSUME NEW d \in EnsureMigrationsTable(db, own, t)
      PROVE  Listed(d, own, t)
  <2>1. CASE looked \subseteq db.tables
    <3>1. d = db /\ <<IF schema = <<>> THEN Dbo ELSE schema, table>> \in db.tables
      BY <1>2, <1>3, <1>7, <2>1
    <3>. QED  BY <3>1, <1>4
  <2>2. CASE ~(looked \subseteq db.tables)
    <3>1. d \in CreateTable(db, own, t)
      BY <1>2, <1>7, <2>2
    <3>2. <<IF schema = <<>> THEN own ELSE schema, table>> \in d.tables
      BY <1>5, <3>1
    <3>. QED  BY <3>2, <1>4
  <2>. QED  BY <2>1, <2>2
<1>. QED  BY <1>6, <1>7 DEF schema

(* Preparing a database is idempotent and enough: what                     *)
(* create_schema_if_not_exists and ensure_migrations_table make is found   *)
(* by the next one and by the list of what was applied, under any name     *)
(* (migrate.rs:53-78, 153-207).                                            *)
THEOREM PreparationsHold == SetupSpec => []PreparedOnce
<1>1. ASSUME SetupInv  PROVE PreparedOnce
  <2>1. ASSUME NEW db \in Range(databases)  PROVE DatabaseOK(db)
    BY <1>1 DEF SetupInv, DatabasesOK, Range
  <2>. QED  BY <2>1, SchemaPrepared, TablePrepared DEF PreparedOnce
<1>. QED  BY <1>1, AlwaysSetupInv, PTL

(* How the driver stands after some units, for each mode.                  *)
AtKey(k, v, s)     == [mode |-> "key", key |-> k, value |-> v, settings |-> s]
AtStart(k, v, s)   == [mode |-> "start", key |-> k, value |-> v, settings |-> s]
AtOpen(k, v, s)    == [mode |-> "open", key |-> k, value |-> v, settings |-> s]
AtBraced(k, v, s)  == [mode |-> "braced", key |-> k, value |-> v, settings |-> s]
AtClosed(k, v, s)  == [mode |-> "closed", key |-> k, value |-> v, settings |-> s]
Malformed(k, v, s) == [mode |-> "malformed", key |-> k, value |-> v, settings |-> s]

Ending  == {";"}
Opening == {"{"}
Closing == {"}"}

(* The settings with one more, unless its key is there.                    *)
Settled(s, k, v) == IF k \in DOMAIN s THEN s ELSE With(s, k, v)

LEMMA UnitsAre ==
  /\ Ending \cup Opening \cup Closing \cup Keys \subseteq Units /\ <<>> \in Texts
  /\ (Ending \cup Opening \cup Closing) \cap Keys = {}
  /\ Ending \cap Opening = {} /\ Ending \cap Closing = {} /\ Opening \cap Closing = {}
<1>1. Ending \cup Opening \cup Closing \cup Keys \subseteq Units /\ <<>> \in Texts
  <2>1. Special \subseteq Units
    BY UnitsAssumption
  <2>2. Ending \cup Opening \cup Closing \cup Keys \subseteq Special
    BY DEF Special, Ending, Opening, Closing
  <2>. QED  BY <2>1, <2>2 DEF Texts
<1>2. (Ending \cup Opening \cup Closing) \cap Keys = {}
  BY DEF Ending, Opening, Closing, Keys
<1>3. Ending \cap Opening = {} /\ Ending \cap Closing = {} /\ Opening \cap Closing = {}
  BY DEF Ending, Opening, Closing
<1>. QED  BY <1>1, <1>2, <1>3

LEMMA TextAppend ==
  ASSUME NEW t \in Texts, NEW u \in Units
  PROVE  Append(t, u) \in Texts
BY DEF Texts

LEMMA StatesAre ==
  ASSUME NEW k, NEW v, NEW s
  PROVE  /\ AtKey(k, v, s).mode = "key" /\ AtKey(k, v, s).settings = s
         /\ AtStart(k, v, s).mode = "start" /\ AtOpen(k, v, s).mode = "open"
         /\ AtBraced(k, v, s).mode = "braced" /\ AtClosed(k, v, s).mode = "closed"
         /\ Malformed(k, v, s).mode = "malformed"
BY DEF AtKey, AtStart, AtOpen, AtBraced, AtClosed, Malformed

(* What each unit does.                                                    *)
LEMMA StoredIs ==
  ASSUME NEW r, NEW k, NEW v, NEW s,
         r \in {AtStart(k, v, s), AtOpen(k, v, s), AtClosed(k, v, s)}
  PROVE  Stored(r) = AtKey(k, v, Settled(s, k, v))
<1>1. r.key = k /\ r.value = v /\ r.settings = s
  BY DEF AtStart, AtOpen, AtClosed
<1>2. PICK new : new = Settled(s, k, v)
  OBVIOUS
<1>3. Stored(r) = [r EXCEPT !.mode = "key", !.settings = new]
  <2>1. new = IF r.key \in DOMAIN r.settings THEN r.settings
              ELSE With(r.settings, r.key, r.value)
    BY <1>1, <1>2 DEF Settled
  <2>. QED  BY <2>1 DEF Stored
<1>4. PICK m : r = [mode |-> m, key |-> k, value |-> v, settings |-> s]
  BY DEF AtStart, AtOpen, AtClosed
<1>5. Stored(r) = AtKey(k, v, new)
  BY <1>3, <1>4 DEF AtKey
<1>. QED  BY <1>2, <1>5

LEMMA Ends ==
  ASSUME NEW u \in Ending, NEW r, NEW k, NEW v, NEW s,
         r \in {AtStart(k, v, s), AtOpen(k, v, s), AtClosed(k, v, s)}
  PROVE  ReadUnit(r, u) = AtKey(k, v, Settled(s, k, v))
<1>1. r.mode = "start" \/ r.mode = "open" \/ r.mode = "closed"
  BY DEF AtStart, AtOpen, AtClosed
<1>2. ReadUnit(r, u) = Stored(r)
  BY <1>1 DEF ReadUnit, Ending
<1>3. Stored(r) = AtKey(k, v, Settled(s, k, v))
  BY StoredIs
<1>. QED  BY <1>2, <1>3

LEMMA KeyEnds ==
  ASSUME NEW u \in Ending, NEW k, NEW v, NEW s
  PROVE  ReadUnit(AtKey(k, v, s), u) = AtKey(k, v, s)
BY DEF ReadUnit, AtKey, Ending, Keys

LEMMA KeyStarts ==
  ASSUME NEW u, u \in Keys, NEW k, NEW v, NEW s
  PROVE  ReadUnit(AtKey(k, v, s), u) = AtStart(Name(u), <<>>, s)
BY UnitsAre DEF ReadUnit, AtKey, AtStart, Ending

LEMMA KeyFails ==
  ASSUME NEW u, u \notin Keys \cup Ending, NEW k, NEW v, NEW s
  PROVE  ReadUnit(AtKey(k, v, s), u) = Malformed(k, v, s)
BY UnitsAre DEF ReadUnit, AtKey, Malformed, Ending

LEMMA StartOpens ==
  ASSUME NEW u, u \in Opening, NEW k, NEW v, NEW s
  PROVE  ReadUnit(AtStart(k, v, s), u) = AtBraced(k, v, s)
BY UnitsAre DEF ReadUnit, AtStart, AtBraced, Opening

LEMMA StartGoesOn ==
  ASSUME NEW u, u \notin Opening \cup Ending, NEW k, NEW v, NEW s
  PROVE  ReadUnit(AtStart(k, v, s), u) = AtOpen(k, Append(v, u), s)
BY UnitsAre DEF ReadUnit, AtStart, AtOpen, Opening, Ending

LEMMA OpenGoesOn ==
  ASSUME NEW u, u \notin Ending, NEW k, NEW v, NEW s
  PROVE  ReadUnit(AtOpen(k, v, s), u) = AtOpen(k, Append(v, u), s)
BY UnitsAre DEF ReadUnit, AtOpen, Ending

LEMMA BracedCloses ==
  ASSUME NEW u, u \in Closing, NEW k, NEW v, NEW s
  PROVE  ReadUnit(AtBraced(k, v, s), u) = AtClosed(k, v, s)
BY UnitsAre DEF ReadUnit, AtBraced, AtClosed, Closing

LEMMA BracedGoesOn ==
  ASSUME NEW u, u \notin Closing, NEW k, NEW v, NEW s
  PROVE  ReadUnit(AtBraced(k, v, s), u) = AtBraced(k, Append(v, u), s)
BY UnitsAre DEF ReadUnit, AtBraced, Closing

LEMMA ClosedDoubles ==
  ASSUME NEW u, u \in Closing, NEW k, NEW v, NEW s
  PROVE  ReadUnit(AtClosed(k, v, s), u) = AtBraced(k, Append(v, u), s)
BY UnitsAre DEF ReadUnit, AtClosed, AtBraced, Closing

LEMMA ClosedFails ==
  ASSUME NEW u, u \notin Closing \cup Ending, NEW k, NEW v, NEW s
  PROVE  ReadUnit(AtClosed(k, v, s), u) = Malformed(k, v, s)
BY UnitsAre DEF ReadUnit, AtClosed, Malformed, Closing, Ending

LEMMA MalformedStays ==
  ASSUME NEW u, NEW k, NEW v, NEW s
  PROVE  ReadUnit(Malformed(k, v, s), u) = Malformed(k, v, s)
BY UnitsAre DEF ReadUnit, Malformed

(* The driver is always in one of its states.                              *)
Stands(r) ==
  \E k, v, s : /\ v \in Texts /\ s = [n \in DOMAIN s |-> s[n]]
              /\ r \in {AtKey(k, v, s), AtStart(k, v, s), AtOpen(k, v, s),
                         AtBraced(k, v, s), AtClosed(k, v, s), Malformed(k, v, s)}

LEMMA ReadUnitStands ==
  ASSUME NEW r, Stands(r), NEW u \in Units
  PROVE  Stands(ReadUnit(r, u))
<1>1. PICK k, v, s : /\ v \in Texts /\ s = [n \in DOMAIN s |-> s[n]]
                     /\ r \in {AtKey(k, v, s), AtStart(k, v, s), AtOpen(k, v, s),
                                AtBraced(k, v, s), AtClosed(k, v, s), Malformed(k, v, s)}
  BY DEF Stands
<1>2. Append(v, u) \in Texts /\ <<>> \in Texts
  BY <1>1, TextAppend, UnitsAre
<1>3. Settled(s, k, v) = [n \in DOMAIN Settled(s, k, v) |-> Settled(s, k, v)[n]]
  BY <1>1 DEF Settled, With
<1>4. CASE r = AtKey(k, v, s)
  <2>1. CASE u \in Ending
    BY <1>1, <1>4, <2>1, KeyEnds DEF Stands
  <2>2. CASE u \in Keys
    BY <1>1, <1>2, <1>4, <2>2, KeyStarts DEF Stands
  <2>3. CASE u \notin Keys \cup Ending
    BY <1>1, <1>4, <2>3, KeyFails DEF Stands
  <2>. QED  BY <2>1, <2>2, <2>3
<1>5. CASE r = AtStart(k, v, s)
  <2>1. CASE u \in Ending
    BY <1>1, <1>3, <1>5, <2>1, Ends DEF Stands
  <2>2. CASE u \notin Ending
    BY <1>1, <1>2, <1>5, <2>2, StartOpens, StartGoesOn DEF Stands
  <2>. QED  BY <2>1, <2>2
<1>6. CASE r = AtOpen(k, v, s)
  <2>1. CASE u \in Ending
    BY <1>1, <1>3, <1>6, <2>1, Ends DEF Stands
  <2>2. CASE u \notin Ending
    BY <1>1, <1>2, <1>6, <2>2, OpenGoesOn DEF Stands
  <2>. QED  BY <2>1, <2>2
<1>7. CASE r = AtBraced(k, v, s)
  <2>1. CASE u \in Closing
    BY <1>1, <1>7, <2>1, BracedCloses DEF Stands
  <2>2. CASE u \notin Closing
    BY <1>1, <1>2, <1>7, <2>2, BracedGoesOn DEF Stands
  <2>. QED  BY <2>1, <2>2
<1>8. CASE r = AtClosed(k, v, s)
  <2>1. CASE u \in Ending
    BY <1>1, <1>3, <1>8, <2>1, Ends DEF Stands
  <2>2. CASE u \notin Ending
    BY <1>1, <1>2, <1>8, <2>2, ClosedDoubles, ClosedFails DEF Stands
  <2>. QED  BY <2>1, <2>2
<1>9. CASE r = Malformed(k, v, s)
  BY <1>1, <1>9, MalformedStays DEF Stands
<1>. QED  BY <1>1, <1>4, <1>5, <1>6, <1>7, <1>8, <1>9

Begun == AtKey("", <<>>, <<>>)

LEMMA ScanStands ==
  ASSUME NEW t \in Texts
  PROVE  Stands(Scan(Begun, t))
<1>. DEFINE T == {x \in Texts : Stands(Scan(Begun, x))}
<1>1. <<>> \in T
  <2>1. Scan(Begun, <<>>) = AtKey("", <<>>, <<>>)
    BY ScanEmpty DEF Begun
  <2>2. <<>> = [n \in DOMAIN <<>> |-> <<>>[n]]
    OBVIOUS
  <2>. QED  BY <2>1, <2>2, UnitsAre DEF Stands
<1>2. ASSUME NEW x \in T, NEW u \in Units  PROVE Append(x, u) \in T
  BY TextAppend, ScanAppend, ReadUnitStands
<1>3. Texts \subseteq T
  <2>. HIDE DEF T
  <2>. QED  BY <1>1, <1>2, SequenceInduction DEF Texts
<1>. QED  BY <1>3

(* A text reads as settings if an end brings the driver to a key.          *)
LEMMA ReadingEnds ==
  ASSUME NEW t \in Texts, NEW u \in Ending
  PROVE  /\ Stands(ReadUnit(Scan(Begun, t), u))
         /\ Reading(t) = IF ReadUnit(Scan(Begun, t), u).mode = "key"
                         THEN {ReadUnit(Scan(Begun, t), u).settings} ELSE {}
<1>1. Scan(Begun, Append(t, u)) = ReadUnit(Scan(Begun, t), u)
  BY UnitsAre, ScanAppend
<1>2. Stands(Scan(Begun, Append(t, u)))
  BY UnitsAre, TextAppend, ScanStands
<1>3. Reading(t) = IF Scan(Begun, Append(t, u)).mode = "key"
                   THEN {Scan(Begun, Append(t, u)).settings} ELSE {}
  BY DEF Reading, Scan, Begun, AtKey, Ending
<1>. QED  BY <1>1, <1>2, <1>3

LEMMA ReadingIs ==
  ASSUME NEW t \in Texts, NEW s, Reading(t) = {s}, NEW u \in Ending
  PROVE  /\ \E k, v : ReadUnit(Scan(Begun, t), u) = AtKey(k, v, s)
         /\ s = [n \in DOMAIN s |-> s[n]]
<1>. DEFINE r == ReadUnit(Scan(Begun, t), u)
<1>1. Stands(r) /\ Reading(t) = IF r.mode = "key" THEN {r.settings} ELSE {}
  BY ReadingEnds
<1>. HIDE DEF r
<1>2. PICK k, v, s2 : /\ v \in Texts /\ s2 = [n \in DOMAIN s2 |-> s2[n]]
                      /\ r \in {AtKey(k, v, s2), AtStart(k, v, s2), AtOpen(k, v, s2),
                                AtBraced(k, v, s2), AtClosed(k, v, s2), Malformed(k, v, s2)}
  BY <1>1 DEF Stands
<1>3. r.mode = "key" /\ r.settings = s
  BY <1>1
<1>4. r = AtKey(k, v, s2)
  BY <1>2, <1>3, StatesAre
<1>5. s = s2
  BY <1>3, <1>4, StatesAre
<1>. QED  BY <1>2, <1>4, <1>5 DEF r

LEMMA ReadsAs ==
  ASSUME NEW t \in Texts, NEW k, NEW v, NEW s, NEW u \in Ending,
         ReadUnit(Scan(Begun, t), u) = AtKey(k, v, s)
  PROVE  Reading(t) = {s}
<1>. DEFINE r == ReadUnit(Scan(Begun, t), u)
<1>1. Reading(t) = IF r.mode = "key" THEN {r.settings} ELSE {}
  BY ReadingEnds
<1>2. r.mode = "key" /\ r.settings = s
  BY StatesAre
<1>. QED  BY <1>1, <1>2

(* Nothing or one reading, and that is a function.                         *)
LEMMA OneReading ==
  ASSUME NEW t \in Texts, NEW s \in Reading(t)
  PROVE  Reading(t) = {s} /\ s = [n \in DOMAIN s |-> s[n]]
<1>1. PICK u : u \in Ending
  BY DEF Ending
<1>2. Reading(t) = {s}
  BY <1>1, ReadingEnds
<1>. QED  BY <1>1, <1>2, ReadingIs

(* A key is written behind the end of what is before it.                   *)
LEMMA TextsJoin ==
  ASSUME NEW t \in Texts, NEW w \in Texts
  PROVE  t \o w \in Texts
BY DEF Texts

LEMMA TextsAssociate ==
  ASSUME NEW t \in Texts, NEW w \in Texts, NEW x \in Texts
  PROVE  (t \o w) \o x = t \o (w \o x)
BY DEF Texts

LEMMA JoinTwo ==
  ASSUME NEW t \in Texts, NEW a \in Units, NEW b \in Units
  PROVE  t \o <<a, b>> = Append(Append(t, a), b) /\ <<a, b>> \in Texts
BY DEF Texts

LEMMA JoinOne ==
  ASSUME NEW t \in Texts, NEW a \in Units
  PROVE  /\ t \o <<a>> = Append(t, a) /\ <<a>> \in Texts /\ <<a>> = Append(<<>>, a)
         /\ <<>> \o t = t /\ t \o <<>> = t
BY DEF Texts

LEMMA ScanOne ==
  ASSUME NEW r, NEW a \in Units
  PROVE  Scan(r, <<a>>) = ReadUnit(r, a)
<1>1. Scan(r, Append(<<>>, a)) = ReadUnit(Scan(r, <<>>), a)
  BY UnitsAre, ScanAppend
<1>. QED  BY <1>1, ScanEmpty, JoinOne, UnitsAre

(* What is in a longer text.                                               *)
LEMMA HasAppend ==
  ASSUME NEW t \in Texts, NEW u \in Units, NEW us
  PROVE  Has(Append(t, u), us) <=> Has(t, us) \/ u \in us
<1>1. /\ DOMAIN Append(t, u) = 1..(Len(t) + 1) /\ DOMAIN t = 1..Len(t) /\ Len(t) \in Nat
      /\ \A i \in 1..Len(t) : Append(t, u)[i] = t[i]
      /\ Append(t, u)[Len(t) + 1] = u
  BY DEF Texts
<1>. QED  BY <1>1 DEF Has

LEMMA HasJoin ==
  ASSUME NEW t \in Texts, NEW w \in Texts, NEW us
  PROVE  Has(t \o w, us) <=> Has(t, us) \/ Has(w, us)
<1>1. /\ DOMAIN (t \o w) = 1..(Len(t) + Len(w)) /\ DOMAIN t = 1..Len(t)
      /\ DOMAIN w = 1..Len(w) /\ Len(t) \in Nat /\ Len(w) \in Nat
      /\ \A i \in 1..Len(t) : (t \o w)[i] = t[i]
      /\ \A i \in 1..Len(w) : (t \o w)[Len(t) + i] = w[i]
  BY DEF Texts
<1>2. \A i \in 1..(Len(t) + Len(w)) : i \in 1..Len(t) \/ \E j \in 1..Len(w) : i = Len(t) + j
  <2>1. \A i \in 1..(Len(t) + Len(w)) : i \notin 1..Len(t) =>
          i - Len(t) \in 1..Len(w) /\ i = Len(t) + (i - Len(t))
    BY <1>1
  <2>. QED  BY <2>1
<1>3. /\ \A i \in 1..Len(t) : i \in 1..(Len(t) + Len(w))
      /\ \A i \in 1..Len(w) : Len(t) + i \in 1..(Len(t) + Len(w))
  BY <1>1
<1>4. ASSUME Has(t \o w, us)  PROVE Has(t, us) \/ Has(w, us)
  <2>1. PICK i \in 1..(Len(t) + Len(w)) : (t \o w)[i] \in us
    BY <1>1, <1>4 DEF Has
  <2>2. CASE i \in 1..Len(t)
    BY <1>1, <2>1, <2>2 DEF Has
  <2>3. CASE i \notin 1..Len(t)
    <3>1. PICK j \in 1..Len(w) : i = Len(t) + j
      BY <1>2, <2>3
    <3>. QED  BY <1>1, <2>1, <3>1 DEF Has
  <2>. QED  BY <2>2, <2>3
<1>5. Has(t, us) => Has(t \o w, us)
  BY <1>1, <1>3 DEF Has
<1>6. Has(w, us) => Has(t \o w, us)
  BY <1>1, <1>3 DEF Has
<1>. QED  BY <1>4, <1>5, <1>6

LEMMA HasOne ==
  ASSUME NEW a, NEW us
  PROVE  Has(<<a>>, us) <=> a \in us
BY DEF Has

LEMMA HasNone ==
  ASSUME NEW us
  PROVE  ~Has(<<>>, us)
BY DEF Has

(* A value that needs no escaping is read as it is.                        *)
LEMMA RawIsRead ==
  ASSUME NEW v \in Texts, ~Has(v, Ending \cup Opening), NEW k, NEW s
  PROVE  Scan(AtStart(k, <<>>, s), v) \in {AtStart(k, v, s), AtOpen(k, v, s)}
<1>. DEFINE r == AtStart(k, <<>>, s)
            T == {w \in Texts : Has(w, Ending \cup Opening) \/
                                Scan(r, w) \in {AtStart(k, w, s), AtOpen(k, w, s)}}
<1>1. <<>> \in T
  BY UnitsAre, ScanEmpty
<1>2. ASSUME NEW w \in T, NEW u \in Units  PROVE Append(w, u) \in T
  <2>1. Append(w, u) \in Texts
    BY TextAppend
  <2>2. Scan(r, Append(w, u)) = ReadUnit(Scan(r, w), u)
    BY ScanAppend
  <2>3. CASE Has(w, Ending \cup Opening) \/ u \in Ending \cup Opening
    <3>1. Has(Append(w, u), Ending \cup Opening)
      BY <2>3, HasAppend
    <3>. QED  BY <2>1, <3>1
  <2>4. CASE ~Has(w, Ending \cup Opening) /\ u \notin Ending \cup Opening
    <3>. HIDE DEF r
    <3>1. Scan(r, w) \in {AtStart(k, w, s), AtOpen(k, w, s)}
      BY <2>4
    <3>2. ReadUnit(AtStart(k, w, s), u) = AtOpen(k, Append(w, u), s)
      BY <2>4, StartGoesOn
    <3>3. ReadUnit(AtOpen(k, w, s), u) = AtOpen(k, Append(w, u), s)
      BY <2>4, OpenGoesOn
    <3>. QED  BY <2>1, <2>2, <3>1, <3>2, <3>3
  <2>. QED  BY <2>3, <2>4
<1>3. Texts \subseteq T
  <2>. HIDE DEF T
  <2>. QED  BY <1>1, <1>2, SequenceInduction DEF Texts
<1>. QED  BY <1>3

(* In braces, every value is.                                              *)
LEMMA BracedIsRead ==
  ASSUME NEW v \in Texts, NEW k, NEW s
  PROVE  Scan(AtBraced(k, <<>>, s), Doubled(v, "}")) = AtBraced(k, v, s)
<1>1. PICK c \in Closing : c = "}"
  BY DEF Closing
<1>2. c \in Units /\ \A u : u \in Closing <=> u = c
  BY UnitsAre DEF Closing
<1>. DEFINE r == AtBraced(k, <<>>, s)
            T == {w \in Texts : Scan(r, Doubled(w, c)) = AtBraced(k, w, s)}
<1>3. <<>> \in T
  <2>1. Doubled(<<>>, c) = <<>>
    BY <1>2, DoubledIs
  <2>. QED  BY <2>1, UnitsAre, ScanEmpty
<1>4. ASSUME NEW w \in T, NEW u \in Units  PROVE Append(w, u) \in T
  <2>. DEFINE d == Doubled(w, c)
  <2>1. /\ d \in Texts /\ Append(w, u) \in Texts
        /\ Scan(r, d) = AtBraced(k, w, s)
    BY <1>2, DoubledIs, TextAppend
  <2>2. Doubled(Append(w, u), c) = IF u = c THEN Append(Append(d, c), c) ELSE Append(d, u)
    BY <1>2, DoubledIs
  <2>. HIDE DEF d, r
  <2>3. CASE u = c
    <3>1. Append(d, c) \in Texts
      BY <1>2, <2>1, TextAppend
    <3>2. Scan(r, Append(d, c)) = ReadUnit(AtBraced(k, w, s), c)
      BY <1>2, <2>1, ScanAppend
    <3>3. ReadUnit(AtBraced(k, w, s), c) = AtClosed(k, w, s)
      BY BracedCloses
    <3>4. Scan(r, Append(Append(d, c), c)) = ReadUnit(AtClosed(k, w, s), c)
      BY <1>2, <3>1, <3>2, <3>3, ScanAppend
    <3>5. ReadUnit(AtClosed(k, w, s), c) = AtBraced(k, Append(w, c), s)
      BY ClosedDoubles
    <3>. QED  BY <2>1, <2>2, <2>3, <3>4, <3>5
  <2>4. CASE u # c
    <3>1. u \notin Closing
      BY <1>2, <2>4
    <3>2. Scan(r, Append(d, u)) = ReadUnit(AtBraced(k, w, s), u)
      BY <2>1, ScanAppend
    <3>3. ReadUnit(AtBraced(k, w, s), u) = AtBraced(k, Append(w, u), s)
      BY <3>1, BracedGoesOn
    <3>. QED  BY <2>1, <2>2, <2>4, <3>2, <3>3
  <2>. QED  BY <2>3, <2>4
<1>5. Texts \subseteq T
  <2>. HIDE DEF T
  <2>. QED  BY <1>3, <1>4, SequenceInduction DEF Texts
<1>6. Scan(r, Doubled(v, c)) = AtBraced(k, v, s)
  BY <1>5
<1>. HIDE DEF T
<1>. QED  BY <1>1, <1>6

LEMMA EscapedIsRead ==
  ASSUME NEW v \in Texts, NEW k, NEW s
  PROVE  /\ EscapeOdbcValue(v) \in Texts
         /\ Scan(AtStart(k, <<>>, s), EscapeOdbcValue(v)) \in
              {AtStart(k, v, s), AtOpen(k, v, s), AtClosed(k, v, s)}
<1>1. CASE ~Has(v, Special)
  <2>1. EscapeOdbcValue(v) = v
    BY <1>1 DEF EscapeOdbcValue
  <2>2. ~Has(v, Ending \cup Opening)
    BY <1>1 DEF Has, Special, Ending, Opening
  <2>. QED  BY <2>1, <2>2, RawIsRead
<1>2. CASE Has(v, Special)
  <2>1. PICK o \in Opening, c \in Closing : o = "{" /\ c = "}"
    BY DEF Opening, Closing
  <2>2. o \in Units /\ c \in Units
    BY UnitsAre
  <2>. DEFINE d == Doubled(v, "}")
  <2>3. EscapeOdbcValue(v) = (<<o>> \o d) \o <<c>>
    BY <1>2, <2>1 DEF EscapeOdbcValue
  <2>4. d \in Texts
    <3>1. "}" \in Units
      BY <2>1, <2>2
    <3>. QED  BY <3>1, DoubledIs
  <2>5. Scan(AtBraced(k, <<>>, s), d) = AtBraced(k, v, s)
    BY BracedIsRead
  <2>. HIDE DEF d
  <2>6. <<o>> \in Texts /\ <<o>> \o d \in Texts /\ (<<o>> \o d) \o <<c>> = Append(<<o>> \o d, c)
    <3>1. <<o>> \in Texts
      BY <2>2, <2>4, JoinOne
    <3>2. <<o>> \o d \in Texts
      BY <2>4, <3>1, TextsJoin
    <3>. QED  BY <2>2, <3>1, <3>2, JoinOne
  <2>7. Scan(AtStart(k, <<>>, s), <<o>>) = AtBraced(k, <<>>, s)
    BY <2>2, ScanOne, StartOpens
  <2>8. Scan(AtStart(k, <<>>, s), <<o>> \o d) = AtBraced(k, v, s)
    BY <2>4, <2>5, <2>6, <2>7, ScanConcat
  <2>9. Scan(AtStart(k, <<>>, s), Append(<<o>> \o d, c)) = AtClosed(k, v, s)
    <3>1. Scan(AtStart(k, <<>>, s), Append(<<o>> \o d, c)) =
            ReadUnit(Scan(AtStart(k, <<>>, s), <<o>> \o d), c)
      BY <2>2, <2>6, ScanAppend
    <3>2. ReadUnit(AtBraced(k, v, s), c) = AtClosed(k, v, s)
      BY BracedCloses
    <3>. QED  BY <2>8, <3>1, <3>2
  <2>10. Append(<<o>> \o d, c) \in Texts
    BY <2>2, <2>6, TextAppend
  <2>. QED  BY <2>3, <2>6, <2>9, <2>10
<1>. QED  BY <1>1, <1>2

(* A setting behind a text that reads well is read, unless its key is      *)
(* there.                                                                  *)
LEMMA NextIsRead ==
  ASSUME NEW t \in Texts, NEW s, Reading(t) = {s}, NEW e \in Ending,
         NEW k \in Keys, NEW w \in Texts, NEW v,
         Scan(AtStart(Name(k), <<>>, s), w) \in
           {AtStart(Name(k), v, s), AtOpen(Name(k), v, s), AtClosed(Name(k), v, s)}
  PROVE  /\ t \o (<<e, k>> \o w) \in Texts
         /\ Reading(t \o (<<e, k>> \o w)) = {Settled(s, Name(k), v)}
<1>1. e \in Units /\ k \in Units
  BY UnitsAre
<1>2. /\ <<e, k>> \in Texts /\ Append(t, e) \in Texts /\ Append(Append(t, e), k) \in Texts
      /\ t \o <<e, k>> = Append(Append(t, e), k)
  BY <1>1, JoinTwo, TextAppend
<1>3. PICK k0, v0 : Scan(Begun, Append(t, e)) = AtKey(k0, v0, s)
  <2>1. PICK k0, v0 : ReadUnit(Scan(Begun, t), e) = AtKey(k0, v0, s)
    BY ReadingIs
  <2>2. Scan(Begun, Append(t, e)) = ReadUnit(Scan(Begun, t), e)
    BY <1>1, ScanAppend
  <2>. QED  BY <2>1, <2>2
<1>4. Scan(Begun, Append(Append(t, e), k)) = AtStart(Name(k), <<>>, s)
  <2>1. Scan(Begun, Append(Append(t, e), k)) = ReadUnit(AtKey(k0, v0, s), k)
    BY <1>1, <1>2, <1>3, ScanAppend
  <2>2. ReadUnit(AtKey(k0, v0, s), k) = AtStart(Name(k), <<>>, s)
    BY KeyStarts
  <2>. QED  BY <2>1, <2>2
<1>. DEFINE x == t \o <<e, k>>
<1>5. x \in Texts /\ Scan(Begun, x) = AtStart(Name(k), <<>>, s)
  BY <1>2, <1>4
<1>6. t \o (<<e, k>> \o w) = x \o w
  BY <1>2, TextsAssociate
<1>. HIDE DEF x
<1>7. x \o w \in Texts
  BY <1>5, TextsJoin
<1>8. Scan(Begun, x \o w) = Scan(AtStart(Name(k), <<>>, s), w)
  BY <1>5, ScanConcat
<1>9. ReadUnit(Scan(Begun, x \o w), e) = AtKey(Name(k), v, Settled(s, Name(k), v))
  BY <1>8, Ends
<1>10. Reading(x \o w) = {Settled(s, Name(k), v)}
  BY <1>7, <1>9, ReadsAs
<1>. QED  BY <1>6, <1>7, <1>10

LEMMA SettingIsRead ==
  ASSUME NEW t \in Texts, NEW s, Reading(t) = {s}, NEW e \in Ending,
         NEW k \in Keys, NEW v \in Texts
  PROVE  /\ t \o (<<e, k>> \o EscapeOdbcValue(v)) \in Texts
         /\ Reading(t \o (<<e, k>> \o EscapeOdbcValue(v))) = {Settled(s, Name(k), v)}
<1>1. EscapeOdbcValue(v) \in Texts
  BY EscapedIsRead
<1>2. Scan(AtStart(Name(k), <<>>, s), EscapeOdbcValue(v)) \in
        {AtStart(Name(k), v, s), AtOpen(Name(k), v, s), AtClosed(Name(k), v, s)}
  BY EscapedIsRead
<1>. QED  BY <1>1, <1>2, NextIsRead

(* Every key in a text is read as a key, and not in a value.               *)
ReadsKey(r) == \E k, v, s : r = AtKey(k, v, s)

KeysRead(t) ==
  \A i \in 1..Len(t) : t[i] \in Keys => ReadsKey(Scan(Begun, SubSeq(t, 1, i - 1)))

Names(t) == {Name(k) : k \in {x \in Keys : Has(t, {x})}}

LEMMA KeysReadAppend ==
  ASSUME NEW t \in Texts, NEW u \in Units
  PROVE  KeysRead(Append(t, u)) <=> KeysRead(t) /\ (u \in Keys => ReadsKey(Scan(Begun, t)))
<1>1. /\ Len(Append(t, u)) = Len(t) + 1 /\ Len(t) \in Nat /\ Append(t, u)[Len(t) + 1] = u
      /\ \A i \in 1..Len(t) : Append(t, u)[i] = t[i]
  BY DEF Texts
<1>2. \A i \in 1..(Len(t) + 1) : SubSeq(Append(t, u), 1, i - 1) = SubSeq(t, 1, i - 1)
  BY DEF Texts
<1>3. SubSeq(t, 1, (Len(t) + 1) - 1) = t
  BY DEF Texts
<1>4. \A i : i \in 1..(Len(t) + 1) <=> i \in 1..Len(t) \/ i = Len(t) + 1
  BY <1>1
<1>. QED  BY <1>1, <1>2, <1>3, <1>4 DEF KeysRead

LEMMA KeysReadEmpty == KeysRead(<<>>)
BY DEF KeysRead

LEMMA KeysReadJoin ==
  ASSUME NEW t \in Texts, NEW w \in Texts, KeysRead(t), ~Has(w, Keys)
  PROVE  KeysRead(t \o w)
<1>. DEFINE T == {x \in Texts : Has(x, Keys) \/ KeysRead(t \o x)}
<1>1. <<>> \in T
  BY UnitsAre, JoinOne
<1>2. ASSUME NEW x \in T, NEW u \in Units  PROVE Append(x, u) \in T
  <2>1. Append(x, u) \in Texts /\ t \o x \in Texts
    BY TextAppend, TextsJoin
  <2>2. t \o Append(x, u) = Append(t \o x, u)
    BY DEF Texts
  <2>3. Has(Append(x, u), Keys) \/ (~Has(x, Keys) /\ u \notin Keys)
    BY HasAppend
  <2>. QED  BY <2>1, <2>2, <2>3, KeysReadAppend
<1>3. Texts \subseteq T
  <2>. HIDE DEF T
  <2>. QED  BY <1>1, <1>2, SequenceInduction DEF Texts
<1>. QED  BY <1>3

LEMMA NextKeyRead ==
  ASSUME NEW t \in Texts, NEW s, Reading(t) = {s}, KeysRead(t), NEW e \in Ending,
         NEW k \in Keys, NEW w \in Texts, ~Has(w, Keys)
  PROVE  KeysRead(t \o (<<e, k>> \o w))
<1>1. e \in Units /\ k \in Units /\ e \notin Keys
  BY UnitsAre
<1>2. /\ <<e, k>> \in Texts /\ Append(t, e) \in Texts /\ Append(Append(t, e), k) \in Texts
      /\ t \o <<e, k>> = Append(Append(t, e), k)
  BY <1>1, JoinTwo, TextAppend
<1>3. ReadsKey(Scan(Begun, Append(t, e)))
  <2>1. PICK k0, v0 : ReadUnit(Scan(Begun, t), e) = AtKey(k0, v0, s)
    BY ReadingIs
  <2>2. Scan(Begun, Append(t, e)) = ReadUnit(Scan(Begun, t), e)
    BY <1>1, ScanAppend
  <2>. QED  BY <2>1, <2>2 DEF ReadsKey
<1>4. KeysRead(Append(t, e))
  BY <1>1, KeysReadAppend
<1>5. KeysRead(Append(Append(t, e), k))
  BY <1>1, <1>2, <1>3, <1>4, KeysReadAppend
<1>6. t \o (<<e, k>> \o w) = Append(Append(t, e), k) \o w
  <2>1. (t \o <<e, k>>) \o w = t \o (<<e, k>> \o w)
    BY <1>2, TextsAssociate
  <2>. QED  BY <1>2, <2>1
<1>. QED  BY <1>2, <1>5, <1>6, KeysReadJoin

(* Escaping adds no key.                                                   *)
LEMMA DoubledHas ==
  ASSUME NEW v \in Texts, NEW m \in Units, NEW us
  PROVE  Has(Doubled(v, m), us) => Has(v, us)
<1>. DEFINE T == {w \in Texts : Has(Doubled(w, m), us) => Has(w, us)}
<1>1. <<>> \in T
  BY UnitsAre, DoubledIs
<1>2. ASSUME NEW w \in T, NEW u \in Units  PROVE Append(w, u) \in T
  <2>1. Append(w, u) \in Texts /\ Doubled(w, m) \in Texts /\ Append(Doubled(w, m), m) \in Texts
    BY TextAppend, DoubledIs
  <2>2. Doubled(Append(w, u), m) = IF u = m THEN Append(Append(Doubled(w, m), m), m)
                                   ELSE Append(Doubled(w, m), u)
    BY DoubledIs
  <2>3. Has(Append(Append(Doubled(w, m), m), m), us) <=> Has(Doubled(w, m), us) \/ m \in us
    BY <2>1, HasAppend
  <2>4. Has(Append(Doubled(w, m), u), us) <=> Has(Doubled(w, m), us) \/ u \in us
    BY <2>1, HasAppend
  <2>5. Has(Append(w, u), us) <=> Has(w, us) \/ u \in us
    BY HasAppend
  <2>. QED  BY <2>1, <2>2, <2>3, <2>4, <2>5
<1>3. Texts \subseteq T
  <2>. HIDE DEF T
  <2>. QED  BY <1>1, <1>2, SequenceInduction DEF Texts
<1>. QED  BY <1>3

LEMMA EscapedHas ==
  ASSUME NEW v \in Texts, NEW k \in Keys, Has(EscapeOdbcValue(v), {k})
  PROVE  Has(v, {k})
<1>1. CASE ~Has(v, Special)
  BY <1>1 DEF EscapeOdbcValue
<1>2. CASE Has(v, Special)
  <2>1. PICK o \in Opening, c \in Closing : o = "{" /\ c = "}"
    BY DEF Opening, Closing
  <2>. DEFINE d == Doubled(v, "}")
  <2>2. EscapeOdbcValue(v) = (<<o>> \o d) \o <<c>>
    BY <1>2, <2>1 DEF EscapeOdbcValue
  <2>3. o \in Units /\ c \in Units /\ o \notin {k} /\ c \notin {k}
    BY UnitsAre
  <2>4. "}" \in Units
    BY <2>1, <2>3
  <2>5. d \in Texts /\ (Has(d, {k}) => Has(v, {k}))
    BY <2>4, DoubledIs, DoubledHas
  <2>. HIDE DEF d
  <2>6. <<o>> \in Texts /\ <<c>> \in Texts
    <3>1. \A a \in Units : <<a>> \in Texts
      BY DEF Texts
    <3>. QED  BY <3>1, <2>3
  <2>7. <<o>> \o d \in Texts
    BY <2>5, <2>6, TextsJoin
  <2>8. Has(EscapeOdbcValue(v), {k}) => Has(<<o>> \o d, {k}) \/ Has(<<c>>, {k})
    <3>1. Has((<<o>> \o d) \o <<c>>, {k}) <=> Has(<<o>> \o d, {k}) \/ Has(<<c>>, {k})
      BY <2>6, <2>7, HasJoin
    <3>. QED  BY <2>2, <3>1
  <2>9. Has(<<o>> \o d, {k}) => Has(<<o>>, {k}) \/ Has(d, {k})
    BY <2>5, <2>6, HasJoin
  <2>. QED  BY <2>3, <2>5, <2>8, <2>9, HasOne
<1>. QED  BY <1>1, <1>2

LEMMA HasKeys ==
  ASSUME NEW t, NEW us
  PROVE  Has(t, us) <=> \E k \in us : Has(t, {k})
BY DEF Has

LEMMA EscapedPlain ==
  ASSUME NEW v \in Texts, ~Has(v, Keys)
  PROVE  ~Has(EscapeOdbcValue(v), Keys)
BY EscapedHas, HasKeys

(* The keys of the settings that are read are those of the text.           *)
LEMMA NamesAppend ==
  ASSUME NEW t \in Texts, NEW u \in Units
  PROVE  Names(Append(t, u)) = Names(t) \cup {Name(k) : k \in Keys \cap {u}}
<1>1. \A x : Has(Append(t, u), {x}) <=> Has(t, {x}) \/ u = x
  BY HasAppend
<1>. QED  BY <1>1 DEF Names

LEMMA KeysOnceAppend ==
  ASSUME NEW t \in Texts, NEW u \in Units, KeysOnce(Append(t, u))
  PROVE  KeysOnce(t) /\ (u \in Keys => Name(u) \notin Names(t))
<1>1. /\ DOMAIN Append(t, u) = 1..(Len(t) + 1) /\ Len(t) \in Nat /\ DOMAIN t = 1..Len(t)
      /\ Append(t, u)[Len(t) + 1] = u
      /\ \A i \in 1..Len(t) : Append(t, u)[i] = t[i]
  BY DEF Texts
<1>2. \A i \in 1..Len(t) : i \in 1..(Len(t) + 1) /\ Len(t) + 1 \in 1..(Len(t) + 1) /\ i # Len(t) + 1
  BY <1>1
<1>3. KeysOnce(t)
  BY <1>1, <1>2 DEF KeysOnce
<1>4. ASSUME u \in Keys, Name(u) \in Names(t)  PROVE FALSE
  <2>1. PICK k \in Keys : Has(t, {k}) /\ Name(k) = Name(u)
    BY <1>4 DEF Names
  <2>2. PICK i \in 1..Len(t) : t[i] = k
    BY <1>1, <2>1 DEF Has
  <2>. QED  BY <1>1, <1>2, <1>4, <2>1, <2>2 DEF KeysOnce
<1>. QED  BY <1>3, <1>4

(* The settings so far, and the one that is being read.                    *)
Pending(r, k, v, s) ==
  r \in {AtStart(k, v, s), AtOpen(k, v, s), AtBraced(k, v, s), AtClosed(k, v, s)}

Named(t) ==
  LET r == Scan(Begun, t)
  IN  \E k, v, s :
        /\ v \in Texts
        /\ \/ r = AtKey(k, v, s) /\ DOMAIN s = Names(t)
           \/ /\ Pending(r, k, v, s) /\ DOMAIN s \cup {k} = Names(t)
              /\ KeysOnce(t) => k \notin DOMAIN s
           \/ r = Malformed(k, v, s)

LEMMA PendingGoesOn ==
  ASSUME NEW r, NEW k, NEW v, NEW s, Pending(r, k, v, s), NEW u
  PROVE  \/ u \notin Keys /\ ReadUnit(r, u) = AtKey(k, v, Settled(s, k, v))
         \/ u \notin Keys /\ Pending(ReadUnit(r, u), k, v, s)
         \/ Pending(ReadUnit(r, u), k, Append(v, u), s)
         \/ ReadUnit(r, u) = Malformed(k, v, s)
<1>1. CASE r = AtBraced(k, v, s)
  <2>1. CASE u \in Closing
    BY <1>1, <2>1, BracedCloses, UnitsAre DEF Pending
  <2>2. CASE u \notin Closing
    BY <1>1, <2>2, BracedGoesOn DEF Pending
  <2>. QED  BY <2>1, <2>2
<1>2. CASE r \in {AtStart(k, v, s), AtOpen(k, v, s), AtClosed(k, v, s)} /\ u \in Ending
  <2>1. ReadUnit(r, u) = AtKey(k, v, Settled(s, k, v))
    BY <1>2, Ends
  <2>. QED  BY <2>1, <1>2, UnitsAre
<1>3. CASE r = AtStart(k, v, s) /\ u \notin Ending
  <2>1. CASE u \in Opening
    BY <1>3, <2>1, StartOpens, UnitsAre DEF Pending
  <2>2. CASE u \notin Opening
    BY <1>3, <2>2, StartGoesOn DEF Pending
  <2>. QED  BY <2>1, <2>2
<1>4. CASE r = AtOpen(k, v, s) /\ u \notin Ending
  BY <1>4, OpenGoesOn DEF Pending
<1>5. CASE r = AtClosed(k, v, s) /\ u \notin Ending
  <2>1. CASE u \in Closing
    BY <1>5, <2>1, ClosedDoubles DEF Pending
  <2>2. CASE u \notin Closing
    BY <1>5, <2>2, ClosedFails
  <2>. QED  BY <2>1, <2>2
<1>. QED  BY <1>1, <1>2, <1>3, <1>4, <1>5 DEF Pending

LEMMA SettledNames ==
  ASSUME NEW s, NEW k, NEW v
  PROVE  DOMAIN Settled(s, k, v) = DOMAIN s \cup {k}
BY DEF Settled, With

LEMMA StatesDiffer ==
  ASSUME NEW r, NEW k, NEW v, NEW s, Pending(r, k, v, s) \/ r = Malformed(k, v, s)
  PROVE  ~ReadsKey(r)
<1>1. r.mode # "key"
  BY StatesAre DEF Pending
<1>. QED  BY <1>1, StatesAre DEF ReadsKey

LEMMA NamesAreRead ==
  ASSUME NEW t \in Texts, KeysRead(t)
  PROVE  Named(t)
<1>. DEFINE T == {x \in Texts : KeysRead(x) => Named(x)}
<1>1. <<>> \in T
  <2>1. PICK k : k = ""
    OBVIOUS
  <2>2. Scan(Begun, <<>>) = AtKey(k, <<>>, <<>>)
    BY <2>1, ScanEmpty DEF Begun
  <2>3. Names(<<>>) = {}
    BY HasNone DEF Names
  <2>4. DOMAIN <<>> = {}
    OBVIOUS
  <2>5. DOMAIN <<>> = Names(<<>>)
    BY <2>3, <2>4
  <2>6. Named(<<>>)
    BY <2>2, <2>5, UnitsAre DEF Named
  <2>. QED  BY <2>6, UnitsAre
<1>2. ASSUME NEW x \in T, NEW u \in Units  PROVE Append(x, u) \in T
  <2>. SUFFICES ASSUME KeysRead(Append(x, u))  PROVE Named(Append(x, u))
    BY TextAppend
  <2>. DEFINE r == Scan(Begun, x)
              y == Append(x, u)
  <2>1. KeysRead(x) /\ (u \in Keys => ReadsKey(r))
    BY KeysReadAppend
  <2>2. Scan(Begun, y) = ReadUnit(r, u)
    BY ScanAppend
  <2>3. PICK k, v, s :
          /\ v \in Texts
          /\ \/ r = AtKey(k, v, s) /\ DOMAIN s = Names(x)
             \/ /\ Pending(r, k, v, s) /\ DOMAIN s \cup {k} = Names(x)
                /\ KeysOnce(x) => k \notin DOMAIN s
             \/ r = Malformed(k, v, s)
    BY <2>1 DEF Named
  <2>4. Append(v, u) \in Texts /\ <<>> \in Texts
    BY <2>3, TextAppend, UnitsAre
  <2>5. /\ u \in Keys => Names(y) = Names(x) \cup {Name(u)}
        /\ u \notin Keys => Names(y) = Names(x)
    BY NamesAppend
  <2>6. KeysOnce(y) => KeysOnce(x) /\ (u \in Keys => Name(u) \notin Names(x))
    BY KeysOnceAppend
  <2>. HIDE DEF r, y
  <2>7. CASE r = AtKey(k, v, s) /\ DOMAIN s = Names(x)
    <3>1. CASE u \in Ending
      <4>1. ReadUnit(r, u) = AtKey(k, v, s) /\ u \notin Keys
        BY <2>7, <3>1, KeyEnds, UnitsAre
      <4>. QED  BY <4>1, <2>2, <2>3, <2>5, <2>7 DEF Named, y
    <3>2. CASE u \in Keys
      <4>1. ReadUnit(r, u) = AtStart(Name(u), <<>>, s)
        BY <2>7, <3>2, KeyStarts
      <4>2. Pending(Scan(Begun, y), Name(u), <<>>, s)
        BY <4>1, <2>2 DEF Pending
      <4>. QED  BY <4>2, <3>2, <2>4, <2>5, <2>6, <2>7 DEF Named, y
    <3>3. CASE u \notin Keys \cup Ending
      <4>1. ReadUnit(r, u) = Malformed(k, v, s)
        BY <2>7, <3>3, KeyFails
      <4>. QED  BY <4>1, <2>2, <2>3 DEF Named, y
    <3>. QED  BY <3>1, <3>2, <3>3
  <2>8. CASE /\ Pending(r, k, v, s) /\ DOMAIN s \cup {k} = Names(x)
             /\ KeysOnce(x) => k \notin DOMAIN s
    <3>1. u \notin Keys
      BY <2>1, <2>8, StatesDiffer
    <3>2. PICK w \in Texts : \/ ReadUnit(r, u) = AtKey(k, v, Settled(s, k, v))
                            \/ Pending(ReadUnit(r, u), k, w, s)
                            \/ ReadUnit(r, u) = Malformed(k, v, s)
      BY <2>3, <2>4, <2>8, PendingGoesOn
    <3>3. CASE ReadUnit(r, u) = AtKey(k, v, Settled(s, k, v))
      <4>1. PICK new : new = Settled(s, k, v)
        OBVIOUS
      <4>2. DOMAIN new = Names(y)
        BY <3>1, <4>1, <2>5, <2>8, SettledNames
      <4>3. Scan(Begun, y) = AtKey(k, v, new)
        BY <2>2, <3>3, <4>1
      <4>. QED  BY <4>2, <4>3, <2>3 DEF Named, y
    <3>4. CASE Pending(ReadUnit(r, u), k, w, s)
      BY <3>1, <3>4, <2>2, <2>5, <2>6, <2>8 DEF Named, y
    <3>5. CASE ReadUnit(r, u) = Malformed(k, v, s)
      BY <3>5, <2>2, <2>3 DEF Named, y
    <3>. QED  BY <3>2, <3>3, <3>4, <3>5
  <2>9. CASE r = Malformed(k, v, s)
    <3>1. ReadUnit(r, u) = Malformed(k, v, s)
      BY <2>9, MalformedStays
    <3>. QED  BY <3>1, <2>2, <2>3 DEF Named, y
  <2>. QED  BY <2>3, <2>7, <2>8, <2>9 DEF y
<1>3. Texts \subseteq T
  <2>. HIDE DEF T
  <2>. QED  BY <1>1, <1>2, SequenceInduction DEF Texts
<1>. QED  BY <1>3

LEMMA SettingsAtKey ==
  ASSUME NEW r, NEW k, NEW v, NEW s, r = AtKey(k, v, s)
  PROVE  r.settings = s
BY DEF AtKey

LEMMA KeysOfReading ==
  ASSUME NEW t \in Texts, KeysRead(t), NEW s, Reading(t) = {s}
  PROVE  DOMAIN s = Names(t)
<1>1. PICK e : e \in Ending
  BY DEF Ending
<1>2. PICK k1, v1 : ReadUnit(Scan(Begun, t), e) = AtKey(k1, v1, s)
  BY <1>1, ReadingIs
<1>. DEFINE r == Scan(Begun, t)
<1>3. PICK k, v, s2 :
        \/ r = AtKey(k, v, s2) /\ DOMAIN s2 = Names(t)
        \/ Pending(r, k, v, s2) /\ DOMAIN s2 \cup {k} = Names(t)
        \/ r = Malformed(k, v, s2)
  BY NamesAreRead DEF Named
<1>. HIDE DEF r
<1>4. ReadUnit(r, e) = AtKey(k1, v1, s) /\ e \notin Keys
  BY <1>1, <1>2, UnitsAre DEF r
<1>5. CASE r = AtKey(k, v, s2) /\ DOMAIN s2 = Names(t)
  <2>1. ReadUnit(r, e) = AtKey(k, v, s2)
    BY <1>1, <1>5, KeyEnds
  <2>2. ReadUnit(r, e).settings = s /\ ReadUnit(r, e).settings = s2
    BY <1>4, <2>1, SettingsAtKey
  <2>. QED  BY <2>2, <1>5
<1>6. CASE Pending(r, k, v, s2) /\ DOMAIN s2 \cup {k} = Names(t)
  <2>1. ReadsKey(ReadUnit(r, e))
    BY <1>4 DEF ReadsKey
  <2>2. ReadUnit(r, e) = AtKey(k, v, Settled(s2, k, v))
    BY <1>6, <2>1, PendingGoesOn, StatesDiffer
  <2>3. PICK new : new = Settled(s2, k, v)
    OBVIOUS
  <2>4. ReadUnit(r, e).settings = s /\ ReadUnit(r, e).settings = new
    BY <1>4, <2>2, <2>3, SettingsAtKey
  <2>5. DOMAIN new = DOMAIN s2 \cup {k}
    BY <2>3, SettledNames
  <2>. QED  BY <2>4, <2>5, <1>6
<1>7. CASE r = Malformed(k, v, s2)
  <2>1. ReadUnit(r, e) = Malformed(k, v, s2)
    BY <1>7, MalformedStays
  <2>2. ReadsKey(ReadUnit(r, e))
    BY <1>4 DEF ReadsKey
  <2>. QED  BY <2>1, <2>2, StatesDiffer
<1>. QED  BY <1>3, <1>5, <1>6, <1>7

(* A value that holds a key stays among the settings, once it is read.     *)
HoldsKey(s) == \E n \in DOMAIN s : Has(s[n], Keys)

WillHold(k, v, s) == HoldsKey(s) \/ (k \notin DOMAIN s /\ Has(v, Keys))

Tainted(r) ==
  \E k, v, s :
    /\ v \in Texts
    /\ \/ r = Malformed(k, v, s)
       \/ r = AtKey(k, v, s) /\ HoldsKey(s)
       \/ Pending(r, k, v, s) /\ WillHold(k, v, s)

LEMMA SettledHolds ==
  ASSUME NEW s, NEW k, NEW v, WillHold(k, v, s)
  PROVE  HoldsKey(Settled(s, k, v))
<1>1. CASE k \in DOMAIN s
  <2>1. Settled(s, k, v) = s
    BY <1>1 DEF Settled
  <2>. QED  BY <1>1, <2>1 DEF WillHold
<1>2. CASE k \notin DOMAIN s
  <2>1. PICK new : new = Settled(s, k, v)
    OBVIOUS
  <2>2. /\ DOMAIN new = DOMAIN s \cup {k} /\ new[k] = v
        /\ \A n \in DOMAIN s : new[n] = s[n]
    BY <1>2, <2>1 DEF Settled, With
  <2>3. HoldsKey(new)
    BY <1>2, <2>2 DEF WillHold, HoldsKey
  <2>. QED  BY <2>1, <2>3
<1>. QED  BY <1>1, <1>2

LEMMA TaintedStays ==
  ASSUME NEW r, Tainted(r), NEW u \in Units
  PROVE  Tainted(ReadUnit(r, u))
<1>1. PICK k, v, s :
        /\ v \in Texts
        /\ \/ r = Malformed(k, v, s)
           \/ r = AtKey(k, v, s) /\ HoldsKey(s)
           \/ Pending(r, k, v, s) /\ WillHold(k, v, s)
  BY DEF Tainted
<1>2. Append(v, u) \in Texts /\ <<>> \in Texts
  BY <1>1, TextAppend, UnitsAre
<1>3. CASE r = Malformed(k, v, s)
  <2>1. ReadUnit(r, u) = Malformed(k, v, s)
    BY <1>3, MalformedStays
  <2>. QED  BY <1>1, <2>1 DEF Tainted
<1>4. CASE r = AtKey(k, v, s) /\ HoldsKey(s)
  <2>1. CASE u \in Ending
    <3>1. ReadUnit(r, u) = AtKey(k, v, s)
      BY <1>4, <2>1, KeyEnds
    <3>. QED  BY <1>1, <1>4, <3>1 DEF Tainted
  <2>2. CASE u \in Keys
    <3>1. ReadUnit(r, u) = AtStart(Name(u), <<>>, s)
      BY <1>4, <2>2, KeyStarts
    <3>2. Pending(ReadUnit(r, u), Name(u), <<>>, s)
      BY <3>1 DEF Pending
    <3>. QED  BY <1>2, <1>4, <3>2 DEF Tainted, WillHold
  <2>3. CASE u \notin Keys \cup Ending
    <3>1. ReadUnit(r, u) = Malformed(k, v, s)
      BY <1>4, <2>3, KeyFails
    <3>. QED  BY <1>1, <3>1 DEF Tainted
  <2>. QED  BY <2>1, <2>2, <2>3
<1>5. CASE Pending(r, k, v, s) /\ WillHold(k, v, s)
  <2>1. PICK new : new = Settled(s, k, v)
    OBVIOUS
  <2>2. HoldsKey(new)
    BY <1>5, <2>1, SettledHolds
  <2>3. WillHold(k, Append(v, u), s)
    BY <1>1, <1>5, HasAppend DEF WillHold
  <2>4. \/ ReadUnit(r, u) = AtKey(k, v, Settled(s, k, v))
        \/ Pending(ReadUnit(r, u), k, v, s)
        \/ Pending(ReadUnit(r, u), k, Append(v, u), s)
        \/ ReadUnit(r, u) = Malformed(k, v, s)
    BY <1>5, PendingGoesOn
  <2>5. CASE ReadUnit(r, u) = AtKey(k, v, Settled(s, k, v))
    <3>1. ReadUnit(r, u) = AtKey(k, v, new)
      BY <2>1, <2>5
    <3>. QED  BY <1>1, <2>2, <3>1 DEF Tainted
  <2>6. CASE Pending(ReadUnit(r, u), k, v, s)
    BY <1>1, <1>5, <2>6 DEF Tainted
  <2>7. CASE Pending(ReadUnit(r, u), k, Append(v, u), s)
    BY <1>2, <1>5, <2>3, <2>7 DEF Tainted
  <2>8. CASE ReadUnit(r, u) = Malformed(k, v, s)
    BY <1>1, <2>8 DEF Tainted
  <2>. QED  BY <2>4, <2>5, <2>6, <2>7, <2>8
<1>. QED  BY <1>1, <1>3, <1>4, <1>5

(* So a text that holds no key twice, and that reads as values without     *)
(* keys, has all its keys read as keys.                                    *)
LEMMA PlainTextsKeys ==
  ASSUME NEW t \in Texts, KeysOnce(t), NEW s, Reading(t) = {s},
         \A n \in DOMAIN s : ~Has(s[n], Keys)
  PROVE  KeysRead(t)
<1>. DEFINE T == {x \in Texts : KeysOnce(x) => KeysRead(x) \/ Tainted(Scan(Begun, x))}
<1>1. <<>> \in T
  BY UnitsAre, KeysReadEmpty
<1>2. ASSUME NEW x \in T, NEW u \in Units  PROVE Append(x, u) \in T
  <2>. SUFFICES ASSUME KeysOnce(Append(x, u))
                PROVE  KeysRead(Append(x, u)) \/ Tainted(Scan(Begun, Append(x, u)))
    BY TextAppend
  <2>. DEFINE r == Scan(Begun, x)
  <2>1. KeysOnce(x)
    BY KeysOnceAppend
  <2>2. Scan(Begun, Append(x, u)) = ReadUnit(r, u)
    BY ScanAppend
  <2>3. CASE Tainted(r)
    BY <2>2, <2>3, TaintedStays
  <2>4. CASE KeysRead(x) /\ (u \in Keys => ReadsKey(r))
    BY <2>4, KeysReadAppend
  <2>5. CASE KeysRead(x) /\ u \in Keys /\ ~ReadsKey(r)
    <3>1. PICK k, v, s2 :
            /\ v \in Texts
            /\ \/ r = AtKey(k, v, s2)
               \/ Pending(r, k, v, s2) /\ k \notin DOMAIN s2
               \/ r = Malformed(k, v, s2)
      BY <2>1, <2>5, NamesAreRead DEF Named
    <3>. HIDE DEF r
    <3>2. CASE Pending(r, k, v, s2) /\ k \notin DOMAIN s2
      <4>1. Append(v, u) \in Texts /\ Has(Append(v, u), Keys)
        BY <3>1, <2>5, TextAppend, HasAppend
      <4>2. \/ Pending(ReadUnit(r, u), k, Append(v, u), s2)
            \/ ReadUnit(r, u) = Malformed(k, v, s2)
        BY <2>5, <3>2, PendingGoesOn
      <4>3. Tainted(ReadUnit(r, u))
        BY <3>1, <3>2, <4>1, <4>2 DEF Tainted, WillHold
      <4>. QED  BY <2>2, <4>3
    <3>3. CASE r = Malformed(k, v, s2)
      <4>1. Tainted(r)
        BY <3>1, <3>3 DEF Tainted
      <4>. QED  BY <2>2, <4>1, TaintedStays
    <3>4. r # AtKey(k, v, s2)
      BY <2>5 DEF ReadsKey
    <3>. QED  BY <3>1, <3>2, <3>3, <3>4
  <2>. HIDE DEF r
  <2>. QED  BY <2>1, <2>3, <2>4, <2>5 DEF r
<1>3. t \in T
  <2>1. Texts \subseteq T
    <3>. HIDE DEF T
    <3>. QED  BY <1>1, <1>2, SequenceInduction DEF Texts
  <2>. HIDE DEF T
  <2>. QED  BY <2>1
<1>4. ASSUME Tainted(Scan(Begun, t))  PROVE FALSE
  <2>1. PICK e : e \in Ending
    BY DEF Ending
  <2>2. PICK k1, v1 : ReadUnit(Scan(Begun, t), e) = AtKey(k1, v1, s)
    BY <2>1, ReadingIs
  <2>3. Tainted(AtKey(k1, v1, s))
    BY <1>4, <2>1, <2>2, TaintedStays, UnitsAre
  <2>. DEFINE r == AtKey(k1, v1, s)
  <2>4. ReadsKey(r)
    BY DEF ReadsKey
  <2>5. PICK k, v, s2 :
          \/ r = Malformed(k, v, s2) \/ Pending(r, k, v, s2)
          \/ r = AtKey(k, v, s2) /\ HoldsKey(s2)
    BY <2>3 DEF Tainted
  <2>6. r.settings = s
    BY SettingsAtKey
  <2>. HIDE DEF r
  <2>7. r = AtKey(k, v, s2) /\ HoldsKey(s2)
    BY <2>4, <2>5, StatesDiffer
  <2>8. r.settings = s2
    BY <2>7, SettingsAtKey
  <2>. QED  BY <2>6, <2>7, <2>8 DEF HoldsKey
<1>. QED  BY <1>3, <1>4

(* Settings that are given, one after the other.                           *)
LEMMA WithCommutes ==
  ASSUME NEW s, NEW k, NEW v, NEW n, NEW w, k # n
  PROVE  With(With(s, k, v), n, w) = With(With(s, n, w), k, v)
<1>1. DOMAIN With(s, k, v) = DOMAIN s \cup {k} /\ DOMAIN With(s, n, w) = DOMAIN s \cup {n}
  BY DEF With
<1>2. \A x \in DOMAIN s \cup {k, n} :
        (IF x = n THEN w ELSE With(s, k, v)[x]) = (IF x = k THEN v ELSE With(s, n, w)[x])
  BY DEF With
<1>3. (DOMAIN s \cup {k}) \cup {n} = DOMAIN s \cup {k, n}
      /\ (DOMAIN s \cup {n}) \cup {k} = DOMAIN s \cup {k, n}
  OBVIOUS
<1>4. With(With(s, k, v), n, w) =
        [x \in DOMAIN s \cup {k, n} |-> IF x = n THEN w ELSE With(s, k, v)[x]]
  BY <1>1, <1>3 DEF With
<1>5. With(With(s, n, w), k, v) =
        [x \in DOMAIN s \cup {k, n} |-> IF x = k THEN v ELSE With(s, n, w)[x]]
  BY <1>1, <1>3 DEF With
<1>. QED  BY <1>2, <1>4, <1>5

LEMMA GivenIs ==
  ASSUME NEW s, NEW k, NEW v
  PROVE  /\ DOMAIN s \subseteq DOMAIN Given(s, k, v)
         /\ DOMAIN Given(s, k, v) \subseteq DOMAIN s \cup {k}
         /\ \A n \in DOMAIN s : n # k => Given(s, k, v)[n] = s[n]
         /\ v # <<>> => k \in DOMAIN Given(s, k, v) /\ Given(s, k, v)[k] = v
         /\ v = <<>> => Given(s, k, v) = s
<1>1. CASE v = <<>>
  <2>1. Given(s, k, v) = s
    BY <1>1 DEF Given
  <2>. QED  BY <1>1, <2>1
<1>2. CASE v # <<>>
  <2>1. PICK new : new = With(s, k, v)
    OBVIOUS
  <2>2. Given(s, k, v) = new
    BY <1>2, <2>1 DEF Given
  <2>3. /\ DOMAIN new = DOMAIN s \cup {k} /\ new[k] = v
        /\ \A n \in DOMAIN s : n # k => new[n] = s[n]
    BY <2>1 DEF With
  <2>. QED  BY <1>2, <2>2, <2>3
<1>. QED  BY <1>1, <1>2

(* What a URL sets is read behind what is before it.                       *)
LEMMA GivenIsRead ==
  ASSUME NEW t \in Texts, NEW s, Reading(t) = {s}, NEW k \in Keys, Name(k) = k,
         k \notin DOMAIN s, NEW v \in Texts
  PROVE  /\ Setting(k, v) \in Texts /\ t \o Setting(k, v) \in Texts
         /\ Reading(t \o Setting(k, v)) = {Given(s, k, v)}
<1>1. CASE v = <<>>
  <2>1. Setting(k, v) = <<>> /\ Given(s, k, v) = s
    BY <1>1 DEF Setting, Given
  <2>2. t \o <<>> = t /\ <<>> \in Texts
    BY DEF Texts
  <2>. QED  BY <2>1, <2>2
<1>2. CASE v # <<>>
  <2>1. PICK e \in Ending : e = ";"
    BY DEF Ending
  <2>2. Setting(k, v) = <<e, k>> \o EscapeOdbcValue(v)
    BY <1>2, <2>1 DEF Setting
  <2>3. EscapeOdbcValue(v) \in Texts
    BY EscapedIsRead
  <2>4. <<e, k>> \in Texts
    BY UnitsAre, JoinTwo
  <2>5. <<e, k>> \o EscapeOdbcValue(v) \in Texts
    BY <2>3, <2>4, TextsJoin
  <2>6. /\ t \o (<<e, k>> \o EscapeOdbcValue(v)) \in Texts
        /\ Reading(t \o (<<e, k>> \o EscapeOdbcValue(v))) = {Settled(s, Name(k), v)}
    BY SettingIsRead
  <2>7. Settled(s, Name(k), v) = With(s, k, v)
    BY DEF Settled
  <2>8. Given(s, k, v) = With(s, k, v)
    BY <1>2 DEF Given
  <2>. QED  BY <2>2, <2>5, <2>6, <2>7, <2>8
<1>. QED  BY <1>1, <1>2

LEMMA SettingHas ==
  ASSUME NEW k \in Keys, NEW v \in Texts, NEW n \in Keys
  PROVE  /\ Setting(k, v) \in Texts
         /\ Has(Setting(k, v), {n}) => (v # <<>> /\ n = k) \/ Has(v, {n})
         /\ v # <<>> => Has(Setting(k, v), {k})
<1>1. CASE v = <<>>
  <2>1. Setting(k, v) = <<>> /\ ~Has(<<>>, {n})
    BY <1>1, HasNone DEF Setting
  <2>. QED  BY <1>1, <2>1, UnitsAre
<1>2. CASE v # <<>>
  <2>1. PICK e \in Ending : e = ";"
    BY DEF Ending
  <2>2. Setting(k, v) = <<e, k>> \o EscapeOdbcValue(v)
    BY <1>2, <2>1 DEF Setting
  <2>3. EscapeOdbcValue(v) \in Texts
    BY EscapedIsRead
  <2>4. <<e, k>> \in Texts /\ e # n
    BY UnitsAre, JoinTwo
  <2>5. <<e, k>> \o EscapeOdbcValue(v) \in Texts
    BY <2>3, <2>4, TextsJoin
  <2>6. \A x : Has(<<e, k>> \o EscapeOdbcValue(v), {x})
                 <=> Has(<<e, k>>, {x}) \/ Has(EscapeOdbcValue(v), {x})
    BY <2>3, <2>4, HasJoin
  <2>7. \A x : Has(<<e, k>>, {x}) <=> x = e \/ x = k
    BY DEF Has
  <2>8. Has(EscapeOdbcValue(v), {n}) => Has(v, {n})
    BY EscapedHas
  <2>. QED  BY <1>2, <2>2, <2>4, <2>5, <2>6, <2>7, <2>8
<1>. QED  BY <1>1, <1>2

LEMMA GivenKeysRead ==
  ASSUME NEW t \in Texts, NEW s, Reading(t) = {s}, KeysRead(t), NEW k \in Keys,
         NEW v \in Texts, ~Has(v, Keys)
  PROVE  KeysRead(t \o Setting(k, v))
<1>1. CASE v = <<>>
  <2>1. Setting(k, v) = <<>>
    BY <1>1 DEF Setting
  <2>2. t \o <<>> = t
    BY DEF Texts
  <2>. QED  BY <2>1, <2>2
<1>2. CASE v # <<>>
  <2>1. PICK e \in Ending : e = ";"
    BY DEF Ending
  <2>2. Setting(k, v) = <<e, k>> \o EscapeOdbcValue(v)
    BY <1>2, <2>1 DEF Setting
  <2>3. EscapeOdbcValue(v) \in Texts /\ ~Has(EscapeOdbcValue(v), Keys)
    BY EscapedIsRead, EscapedPlain
  <2>4. KeysRead(t \o (<<e, k>> \o EscapeOdbcValue(v)))
    BY <2>3, NextKeyRead
  <2>. QED  BY <2>2, <2>4
<1>. QED  BY <1>1, <1>2

(* A flag is such a setting, unless its key is in the text.                *)
Yes == <<"yes">>

LEMMA YesIs ==
  Yes \in Texts /\ Yes # <<>> /\ ~Has(Yes, Keys) /\ EscapeOdbcValue(Yes) = Yes
<1>1. "yes" \in Units
  BY UnitsAssumption
<1>2. "yes" \notin Special /\ "yes" \notin Keys
  BY DEF Special, Keys
<1>3. ~Has(Yes, Special) /\ ~Has(Yes, Keys)
  BY <1>2, HasOne DEF Yes
<1>4. EscapeOdbcValue(Yes) = Yes
  BY <1>3 DEF EscapeOdbcValue
<1>5. Yes \in Texts /\ Yes # <<>>
  BY <1>1 DEF Yes, Texts
<1>. QED  BY <1>3, <1>4, <1>5

LEMMA FlagIs ==
  ASSUME NEW t \in Texts, NEW enable
  PROVE  /\ Encrypt(t, enable) = IF enable /\ ~Has(t, {"Encrypt="})
                                 THEN t \o Setting("Encrypt=", Yes) ELSE t
         /\ TrustCertificate(t, enable) = IF enable /\ ~Has(t, {"TrustServerCertificate="})
                                 THEN t \o Setting("TrustServerCertificate=", Yes) ELSE t
<1>1. ASSUME NEW k \in Keys  PROVE Setting(k, Yes) = <<";", k, "yes">>
  <2>1. Setting(k, Yes) = <<";", k>> \o Yes
    BY YesIs DEF Setting
  <2>2. ";" \in Units /\ "yes" \in Units
    BY UnitsAre, UnitsAssumption DEF Ending
  <2>3. PICK e \in Units, y \in Units : e = ";" /\ y = "yes"
    BY <2>2
  <2>4. k \in Units
    BY UnitsAre
  <2>5. <<e, k>> \o <<y>> = <<e, k, y>>
    <3>1. <<e, k>> \o <<y>> = Append(<<e, k>>, y)
      BY <2>4, JoinTwo, JoinOne, UnitsAre
    <3>2. Append(<<e, k>>, y) = <<e, k, y>>
      <4>. DEFINE a == Append(<<e, k>>, y)
                  b == <<e, k, y>>
      <4>1. <<e, k>> \in Seq(Units) /\ Len(<<e, k>>) = 2 /\ <<e, k>>[1] = e /\ <<e, k>>[2] = k
        BY <2>4
      <4>2. a \in Seq(Units) /\ Len(a) = 3 /\ a[1] = e /\ a[2] = k /\ a[3] = y
        BY <4>1, AppendProperties
      <4>3. b \in Seq(Units) /\ Len(b) = 3 /\ b[1] = e /\ b[2] = k /\ b[3] = y
        BY <2>4
      <4>. HIDE DEF a, b
      <4>4. \A i \in 1..3 : i = 1 \/ i = 2 \/ i = 3
        OBVIOUS
      <4>5. \A i \in 1..Len(a) : a[i] = b[i]
        BY <4>2, <4>3, <4>4
      <4>6. a = b
        BY <4>2, <4>3, <4>5, SeqEqual
      <4>. QED  BY <4>6 DEF a, b
    <3>. QED  BY <3>1, <3>2
  <2>. QED  BY <2>1, <2>3, <2>5 DEF Yes
<1>2. "Encrypt=" \in Keys /\ "TrustServerCertificate=" \in Keys
  BY DEF Keys
<1>. QED  BY <1>1, <1>2 DEF Encrypt, TrustCertificate

(* The parameters of a URL, one after the other.                           *)
Parameters(t, p) == FoldLeft(Parameter, t, p)

LEMMA ParametersIsFolding ==
  ASSUME NEW t, NEW p
  PROVE  Parameters(t, p) = Folding("parameters", t, p, DOMAIN p)[DOMAIN p]
<1>1. \A x, u : Fold("parameters", x, u) = Parameter(x, u)
  BY DEF Fold
<1>. QED  BY <1>1 DEF Parameters, Folding, FoldStep, Fold, FoldLeft, MapThenFoldSet

LEMMA ParametersEmpty ==
  ASSUME NEW t  PROVE Parameters(t, <<>>) = t
<1>1. DOMAIN <<>> = 1..0 /\ 1..0 = {}
  OBVIOUS
<1>2. Folding("parameters", t, <<>>, 1..0)[{}] = t
  BY FoldingSteps
<1>. QED  BY <1>1, <1>2, ParametersIsFolding

LEMMA ParametersAppend ==
  ASSUME NEW t, NEW S, NEW p \in Seq(S), NEW x \in S
  PROVE  Parameters(t, Append(p, x)) = Parameter(Parameters(t, p), x)
<1>. DEFINE v == Append(p, x)
<1>1. DOMAIN p = 1..Len(p) /\ DOMAIN v = 1..(Len(p) + 1)
  OBVIOUS
<1>. HIDE DEF v
<1>2. /\ Parameters(t, p) = Folding("parameters", t, p, 1..Len(p))[1..Len(p)]
      /\ Parameters(t, v) = Folding("parameters", t, v, 1..(Len(p)+1))[1..(Len(p)+1)]
  BY <1>1, ParametersIsFolding
<1>3. Parameters(t, v) = Fold("parameters", Parameters(t, p), x)
  BY <1>2, FoldingAppend DEF v
<1>. QED  BY <1>3 DEF Fold, v

(* What each does.                                                         *)
True == <<"true">>

Encrypts(x) == x.key = "encrypt"
Trusts(x)   == x.key = "trust_certificate"
Drives(x)   == x.key = "driver"

LEMMA ParameterIs ==
  ASSUME NEW t, NEW x
  PROVE  /\ Encrypts(x) => Parameter(t, x) = Encrypt(t, x.value = True)
         /\ Trusts(x) => Parameter(t, x) = TrustCertificate(t, x.value = True)
         /\ Drives(x) => Parameter(t, x) = Driver(t, x.value)
         /\ ~Encrypts(x) /\ ~Trusts(x) /\ ~Drives(x) => Parameter(t, x) = t
<1>1. /\ Encrypts(x) => ~Trusts(x) /\ ~Drives(x)
      /\ Trusts(x) => ~Drives(x)
  BY DEF Encrypts, Trusts, Drives
<1>. QED  BY <1>1 DEF Parameter, Encrypts, Trusts, Drives, True

(* What is found behind a text that does not hold it.                      *)
LEMMA RestIs ==
  ASSUME NEW a \in Texts, NEW b \in Texts
  PROVE  SubSeq(a \o b, Len(a) + 1, Len(a \o b)) = b
<1>. DEFINE n == Len(a)
            m == Len(b)
            w == a \o b
            x == SubSeq(w, n + 1, Len(w))
<1>1. /\ n \in Nat /\ m \in Nat /\ w \in Seq(Units) /\ Len(w) = n + m /\ b \in Seq(Units)
      /\ \A i \in 1..m : w[n + i] = b[i]
  BY DEF Texts
<1>. HIDE DEF n, m, w
<1>2. /\ x \in Seq(Units) /\ Len(x) = m
      /\ \A i \in 1..m : x[i] = w[n + i]
  <2>1. \A i \in (n+1)..(n+m) : w[i] \in Units
    BY <1>1
  <2>2. (n + m) - (n + 1) + 1 = m
    BY <1>1
  <2>3. x = [i \in 1..m |-> w[n + i]]
    <3>1. \A i \in 1..m : (n + 1) + i - 1 = n + i
      BY <1>1
    <3>. QED  BY <1>1, <2>2, <3>1
  <2>4. \A i \in 1..m : n + i \in (n+1)..(n+m)
    BY <1>1
  <2>. QED  BY <1>1, <2>1, <2>3, <2>4
<1>. HIDE DEF x
<1>3. \A i \in 1..Len(x) : x[i] = b[i]
  BY <1>1, <1>2
<1>4. x = b
  BY <1>1, <1>2, <1>3, SeqEqual DEF m
<1>. QED  BY <1>4 DEF x, w, n

LEMMA FromIs ==
  ASSUME NEW a \in Texts, NEW b \in Texts, NEW us, ~Has(a, us), b # <<>>, b[1] \in us
  PROVE  From(a \o b, us) = b
<1>. DEFINE w == a \o b
            n == Len(a)
            i == Find(w, us)
<1>1. /\ n \in Nat /\ Len(b) \in Nat /\ 1 \in 1..Len(b) /\ Len(w) = n + Len(b)
      /\ w \in Texts /\ DOMAIN a = 1..n /\ DOMAIN w = 1..(n + Len(b))
      /\ w[n + 1] = b[1] /\ \A j \in 1..n : w[j] = a[j]
  BY DEF Texts
<1>. HIDE DEF n
<1>2. \A j \in 1..n : w[j] \notin us
  BY <1>1 DEF Has
<1>3. /\ i \in 0..Len(w) /\ (i = 0 <=> ~Has(w, us)) /\ (i # 0 => w[i] \in us)
      /\ \A j \in 1..(i - 1) : w[j] \notin us
  <2>. HIDE DEF w
  <2>. QED  BY <1>1, FoundIs
<1>4. n + 1 \in DOMAIN w /\ w[n + 1] \in us
  BY <1>1
<1>. HIDE DEF w, i
<1>5. i = n + 1
  <2>1. i # 0
    BY <1>3, <1>4 DEF Has
  <2>2. i \in 1..(n + Len(b)) /\ i \notin 1..n
    BY <1>1, <1>2, <1>3, <2>1
  <2>3. n + 1 \notin 1..(i - 1)
    BY <1>3, <1>4
  <2>. QED  BY <1>1, <2>2, <2>3
<1>6. From(w, us) = SubSeq(w, i, Len(w))
  BY <1>1, <1>5 DEF From, i
<1>. QED  BY <1>5, <1>6, RestIs DEF w, n

(* The driver's value is put in the place of the one that is there.        *)
LEMMA DriverIs ==
  ASSUME NEW d \in Texts, NEW v \in Texts, NEW b \in Texts,
         ~Has(d, Ending), b # <<>>, b[1] \in Ending
  PROVE  Driver((<<"Driver=">> \o d) \o b, v) = (<<"Driver=">> \o v) \o b
<1>1. PICK k \in Keys : k = "Driver="
  BY DEF Keys
<1>. DEFINE h == <<k>>
            w == (h \o d) \o b
<1>2. /\ k \in Units /\ k \notin Ending /\ h \in Texts /\ h \o d \in Texts /\ w \in Texts
      /\ h \o v \in Texts
  <2>1. k \in Units /\ k \notin Ending
    BY UnitsAre
  <2>2. h \in Texts
    BY <2>1 DEF Texts
  <2>. HIDE DEF h
  <2>. QED  BY <2>1, <2>2, TextsJoin
<1>3. Len(w) \in Nat /\ 1 \in 1..Len(w) /\ DOMAIN w = 1..Len(w) /\ w[1] = k
      /\ SubSeq(w, 1, Len(w)) = w /\ SubSeq(w, 1, 1) = h
  <2>1. w = h \o (d \o b) /\ d \o b \in Texts
    <3>. HIDE DEF h, w
    <3>1. h \in Texts /\ w = (h \o d) \o b
      BY <1>2 DEF w
    <3>2. (h \o d) \o b = h \o (d \o b)
      BY <3>1, TextsAssociate
    <3>3. d \o b \in Texts
      BY TextsJoin
    <3>. QED  BY <3>1, <3>2, <3>3
  <2>2. PICK y \in Texts : y = d \o b
    BY <2>1
  <2>3. w = h \o y /\ Len(y) \in Nat
    BY <2>1, <2>2 DEF Texts
  <2>4. Len(w) = 1 + Len(y) /\ w[1] = k
    BY <1>2, <2>2, <2>3 DEF Texts
  <2>5. SubSeq(w, 1, Len(w)) = w
    <3>. HIDE DEF w
    <3>. QED  BY <1>2 DEF Texts
  <2>6. SubSeq(w, 1, 1) = h
    <3>. HIDE DEF w
    <3>1. SubSeq(w, 1, 1) \in Seq(Units) /\ Len(SubSeq(w, 1, 1)) = 1 /\ SubSeq(w, 1, 1)[1] = k
      BY <1>2, <2>3, <2>4 DEF Texts
    <3>2. h \in Seq(Units) /\ Len(h) = 1 /\ h[1] = k
      BY <1>2 DEF Texts
    <3>3. \A i \in 1..1 : i = 1
      OBVIOUS
    <3>. QED  BY <3>1, <3>2, <3>3, SeqEqual
  <2>7. DOMAIN w = 1..Len(w)
    <3>. HIDE DEF w
    <3>. QED  BY <1>2 DEF Texts
  <2>. QED  BY <2>3, <2>4, <2>5, <2>6, <2>7
<1>4. Find(w, {k}) = 1
  <2>. HIDE DEF w
  <2>. DEFINE i == Find(w, {k})
  <2>1. /\ i \in 0..Len(w) /\ (i = 0 <=> ~Has(w, {k}))
        /\ \A j \in 1..(i - 1) : w[j] \notin {k}
    BY <1>2, FoundIs
  <2>2. Has(w, {k})
    BY <1>3 DEF Has
  <2>. HIDE DEF i
  <2>3. i \in Nat /\ i # 0 /\ 1 \notin 1..(i - 1)
    BY <1>3, <2>1, <2>2
  <2>4. i = 1
    BY <2>3
  <2>. QED  BY <2>4 DEF i
<1>5. From(w, Ending) = b
  <2>1. ~Has(h \o d, Ending)
    <3>1. ~Has(h, Ending)
      BY <1>2, HasOne
    <3>. HIDE DEF h
    <3>. QED  BY <1>2, <3>1, HasJoin
  <2>. HIDE DEF h
  <2>. QED  BY <1>2, <2>1, FromIs
<1>6. Driver(w, v) = (h \o v) \o b
  <2>. HIDE DEF w, h
  <2>1. Driver(w, v) = SubSeq(w, 1, 1) \o v \o From(SubSeq(w, 1, Len(w)), Ending)
    <3>1. Find(w, {"Driver="}) = 1 /\ From(SubSeq(w, 1, Len(w)), {";"}) =
                                       From(SubSeq(w, 1, Len(w)), Ending)
      BY <1>1, <1>4 DEF Ending
    <3>2. 1 # 0
      OBVIOUS
    <3>. QED  BY <3>1, <3>2, Zenon DEF Driver
  <2>. QED  BY <1>3, <1>5, <2>1
<1>. QED  BY <1>1, <1>6

(* The text of a URL: what follows the driver, before its parameters.      *)
HostPart(q) == <<";", "Server=">> \o q.host

Tail1(q) == HostPart(q) \o Setting("Database=", q.database)
Tail2(q) == Tail1(q) \o Setting("UID=", q.user)
Tail3(q) == Tail2(q) \o Setting("PWD=", q.password)

Login1(q, s) == Given(s, "Server=", q.host)
Login2(q, s) == Given(Login1(q, s), "Database=", q.database)
Login3(q, s) == Given(Login2(q, s), "UID=", q.user)
Login(q, s)  == Given(Login3(q, s), "PWD=", q.password)

UrlOK(q) ==
  /\ q.host \in Texts /\ q.database \in Texts /\ q.user \in Texts /\ q.password \in Texts
  /\ q.host # <<>> /\ ~Has(q.host, Ending \cup Opening)

PlainUrl(q) ==
  /\ ~Has(q.host, Keys) /\ ~Has(q.database, Keys)
  /\ ~Has(q.user, Keys) /\ ~Has(q.password, Keys)

UrlKeys == {"Driver=", "Server=", "Database=", "UID=", "PWD="}

LEMMA KeyNames ==
  /\ UrlKeys \cup {"Encrypt=", "TrustServerCertificate="} \subseteq Keys
  /\ Name("Driver=") = "Driver=" /\ Name("Server=") = "Server="
  /\ Name("Database=") = "Database=" /\ Name("UID=") = "UID=" /\ Name("PWD=") = "PWD="
  /\ Name("Encrypt=") = "Encrypt="
  /\ Name("TrustServerCertificate=") = "TrustServerCertificate="
  /\ "Encrypt=" \notin UrlKeys /\ "TrustServerCertificate=" \notin UrlKeys
BY DEF UrlKeys, Keys, Name

LEMMA HostPartIs ==
  ASSUME NEW q, UrlOK(q)
  PROVE  /\ HostPart(q) \in Texts /\ HostPart(q) # <<>> /\ HostPart(q)[1] \in Ending
         /\ \A n \in Keys : Has(HostPart(q), {n}) => n = "Server=" \/ Has(q.host, {n})
<1>1. PICK e \in Ending, k \in Keys : e = ";" /\ k = "Server="
  BY KeyNames DEF Ending, UrlKeys
<1>. DEFINE h == <<e, k>>
<1>2. e \in Units /\ k \in Units /\ e \notin Keys
  BY UnitsAre
<1>3. h \in Texts /\ Len(h) = 2 /\ h[1] = e /\ h # <<>>
  BY <1>2 DEF Texts
<1>4. \A n : Has(h, {n}) <=> n = e \/ n = k
  BY DEF Has
<1>5. HostPart(q) = h \o q.host
  BY <1>1 DEF HostPart
<1>. HIDE DEF h
<1>6. q.host \in Texts
  BY DEF UrlOK
<1>7. h \o q.host \in Texts
  BY <1>3, <1>6, TextsJoin
<1>8. Len(h \o q.host) >= 2 /\ (h \o q.host)[1] = e
  <2>1. PICK x \in Texts, y \in Texts : x = q.host /\ y = h
    BY <1>3, <1>6
  <2>2. Len(x) \in Nat /\ Len(y \o x) = Len(y) + Len(x) /\ (Len(y) = 2 => (y \o x)[1] = y[1])
    BY DEF Texts
  <2>3. Len(y) = 2 /\ y[1] = e
    BY <1>3, <2>1
  <2>4. Len(y \o x) >= 2 /\ (y \o x)[1] = e
    BY <2>2, <2>3
  <2>. QED  BY <2>1, <2>4
<1>9. HostPart(q) # <<>>
  BY <1>5, <1>7, <1>8 DEF Texts
<1>10. \A n : Has(h \o q.host, {n}) <=> Has(h, {n}) \/ Has(q.host, {n})
  BY <1>3, <1>6, HasJoin
<1>. QED  BY <1>1, <1>2, <1>4, <1>5, <1>7, <1>8, <1>9, <1>10

LEMMA HostIsRead ==
  ASSUME NEW q, UrlOK(q), NEW t \in Texts, NEW s, Reading(t) = {s}, "Server=" \notin DOMAIN s
  PROVE  /\ t \o HostPart(q) \in Texts
         /\ Reading(t \o HostPart(q)) = {Login1(q, s)}
         /\ PlainUrl(q) /\ KeysRead(t) => KeysRead(t \o HostPart(q))
<1>1. PICK e \in Ending, k \in Keys : e = ";" /\ k = "Server=" /\ Name(k) = k
  BY KeyNames DEF Ending, UrlKeys
<1>2. PICK h \in Texts : h = q.host
  BY DEF UrlOK
<1>3. h # <<>> /\ ~Has(h, Ending \cup Opening)
  BY <1>2 DEF UrlOK
<1>4. HostPart(q) = <<e, k>> \o h
  BY <1>1, <1>2 DEF HostPart
<1>5. Scan(AtStart(k, <<>>, s), h) \in {AtStart(k, h, s), AtOpen(k, h, s)}
  BY <1>3, RawIsRead
<1>6. /\ t \o (<<e, k>> \o h) \in Texts
      /\ Reading(t \o (<<e, k>> \o h)) = {Settled(s, Name(k), h)}
  <2>1. Scan(AtStart(Name(k), <<>>, s), h) \in
          {AtStart(Name(k), h, s), AtOpen(Name(k), h, s), AtClosed(Name(k), h, s)}
    BY <1>1, <1>5
  <2>. QED  BY <2>1, NextIsRead
<1>7. Settled(s, Name(k), h) = Login1(q, s)
  BY <1>1, <1>2, <1>3 DEF Settled, Login1, Given
<1>8. PlainUrl(q) /\ KeysRead(t) => KeysRead(t \o (<<e, k>> \o h))
  BY <1>2, NextKeyRead DEF PlainUrl
<1>. QED  BY <1>4, <1>6, <1>7, <1>8

LEMMA TailIs ==
  ASSUME NEW q, UrlOK(q)
  PROVE  /\ Tail1(q) \in Texts /\ Tail2(q) \in Texts /\ Tail3(q) \in Texts
         /\ Tail3(q) # <<>> /\ Tail3(q)[1] \in Ending
         /\ \A n \in Keys : Has(Tail3(q), {n}) => n \in UrlKeys \/ ~PlainUrl(q)
<1>. DEFINE s1 == Setting("Database=", q.database)
            s2 == Setting("UID=", q.user)
            s3 == Setting("PWD=", q.password)
<1>1. q.database \in Texts /\ q.user \in Texts /\ q.password \in Texts
  BY DEF UrlOK
<1>2. "Database=" \in Keys /\ "UID=" \in Keys /\ "PWD=" \in Keys
  BY KeyNames DEF UrlKeys
<1>3. s1 \in Texts /\ \A n \in Keys : Has(s1, {n}) => n = "Database=" \/ Has(q.database, {n})
  BY <1>1, <1>2, SettingHas
<1>4. s2 \in Texts /\ \A n \in Keys : Has(s2, {n}) => n = "UID=" \/ Has(q.user, {n})
  BY <1>1, <1>2, SettingHas
<1>5. s3 \in Texts /\ \A n \in Keys : Has(s3, {n}) => n = "PWD=" \/ Has(q.password, {n})
  BY <1>1, <1>2, SettingHas
<1>6. /\ HostPart(q) \in Texts /\ HostPart(q) # <<>> /\ HostPart(q)[1] \in Ending
      /\ \A n \in Keys : Has(HostPart(q), {n}) => n = "Server=" \/ Has(q.host, {n})
  BY HostPartIs
<1>7. Tail1(q) = HostPart(q) \o s1 /\ Tail2(q) = Tail1(q) \o s2 /\ Tail3(q) = Tail2(q) \o s3
  BY DEF Tail1, Tail2, Tail3
<1>. HIDE DEF s1, s2, s3
<1>8. Tail1(q) \in Texts /\ \A n : Has(Tail1(q), {n}) <=> Has(HostPart(q), {n}) \/ Has(s1, {n})
  BY <1>3, <1>6, <1>7, TextsJoin, HasJoin
<1>9. Tail2(q) \in Texts /\ \A n : Has(Tail2(q), {n}) <=> Has(Tail1(q), {n}) \/ Has(s2, {n})
  BY <1>4, <1>7, <1>8, TextsJoin, HasJoin
<1>10. Tail3(q) \in Texts /\ \A n : Has(Tail3(q), {n}) <=> Has(Tail2(q), {n}) \/ Has(s3, {n})
  BY <1>5, <1>7, <1>9, TextsJoin, HasJoin
<1>11. ASSUME NEW x \in Texts, NEW y \in Texts, x # <<>>
       PROVE  x \o y # <<>> /\ (x \o y)[1] = x[1]
  BY <1>11 DEF Texts
<1>12. Tail1(q) # <<>> /\ Tail1(q)[1] \in Ending
  BY <1>3, <1>6, <1>7, <1>11
<1>13. Tail2(q) # <<>> /\ Tail2(q)[1] \in Ending
  BY <1>4, <1>7, <1>8, <1>11, <1>12
<1>14. Tail3(q) # <<>> /\ Tail3(q)[1] \in Ending
  BY <1>5, <1>7, <1>9, <1>11, <1>13
<1>15. ASSUME NEW n \in Keys, Has(Tail3(q), {n})  PROVE n \in UrlKeys \/ ~PlainUrl(q)
  <2>1. \/ n = "Server=" \/ n = "Database=" \/ n = "UID=" \/ n = "PWD="
        \/ Has(q.host, {n}) \/ Has(q.database, {n}) \/ Has(q.user, {n}) \/ Has(q.password, {n})
    BY <1>3, <1>4, <1>5, <1>6, <1>8, <1>9, <1>10, <1>15
  <2>2. CASE n = "Server=" \/ n = "Database=" \/ n = "UID=" \/ n = "PWD="
    BY <2>2 DEF UrlKeys
  <2>3. CASE Has(q.host, {n}) \/ Has(q.database, {n}) \/ Has(q.user, {n}) \/ Has(q.password, {n})
    BY <2>3, HasKeys DEF PlainUrl
  <2>. QED  BY <2>1, <2>2, <2>3
<1>. QED  BY <1>8, <1>9, <1>10, <1>14, <1>15

LEMMA LoginIs ==
  ASSUME NEW q, NEW s, DOMAIN s = {"Driver="}
  PROVE  /\ "Server=" \notin DOMAIN s /\ "Database=" \notin DOMAIN Login1(q, s)
         /\ "UID=" \notin DOMAIN Login2(q, s) /\ "PWD=" \notin DOMAIN Login3(q, s)
         /\ DOMAIN Login(q, s) \subseteq UrlKeys
         /\ "Driver=" \in DOMAIN Login(q, s) /\ Login(q, s)["Driver="] = s["Driver="]
         /\ q.host # <<>> => "Server=" \in DOMAIN Login(q, s) /\ Login(q, s)["Server="] = q.host
         /\ q.database # <<>> => /\ "Database=" \in DOMAIN Login(q, s)
                                 /\ Login(q, s)["Database="] = q.database
         /\ q.user # <<>> => "UID=" \in DOMAIN Login(q, s) /\ Login(q, s)["UID="] = q.user
         /\ q.password # <<>> => "PWD=" \in DOMAIN Login(q, s) /\ Login(q, s)["PWD="] = q.password
<1>1. /\ DOMAIN s \subseteq DOMAIN Login1(q, s)
      /\ DOMAIN Login1(q, s) \subseteq DOMAIN s \cup {"Server="}
      /\ \A n \in DOMAIN s : n # "Server=" => Login1(q, s)[n] = s[n]
      /\ q.host # <<>> => "Server=" \in DOMAIN Login1(q, s) /\ Login1(q, s)["Server="] = q.host
  BY GivenIs DEF Login1
<1>2. /\ DOMAIN Login1(q, s) \subseteq DOMAIN Login2(q, s)
      /\ DOMAIN Login2(q, s) \subseteq DOMAIN Login1(q, s) \cup {"Database="}
      /\ \A n \in DOMAIN Login1(q, s) : n # "Database=" => Login2(q, s)[n] = Login1(q, s)[n]
      /\ q.database # <<>> => /\ "Database=" \in DOMAIN Login2(q, s)
                              /\ Login2(q, s)["Database="] = q.database
  BY GivenIs DEF Login2
<1>3. /\ DOMAIN Login2(q, s) \subseteq DOMAIN Login3(q, s)
      /\ DOMAIN Login3(q, s) \subseteq DOMAIN Login2(q, s) \cup {"UID="}
      /\ \A n \in DOMAIN Login2(q, s) : n # "UID=" => Login3(q, s)[n] = Login2(q, s)[n]
      /\ q.user # <<>> => "UID=" \in DOMAIN Login3(q, s) /\ Login3(q, s)["UID="] = q.user
  BY GivenIs DEF Login3
<1>4. /\ DOMAIN Login3(q, s) \subseteq DOMAIN Login(q, s)
      /\ DOMAIN Login(q, s) \subseteq DOMAIN Login3(q, s) \cup {"PWD="}
      /\ \A n \in DOMAIN Login3(q, s) : n # "PWD=" => Login(q, s)[n] = Login3(q, s)[n]
      /\ q.password # <<>> => "PWD=" \in DOMAIN Login(q, s) /\ Login(q, s)["PWD="] = q.password
  BY GivenIs DEF Login
<1>. HIDE DEF Login, Login1, Login2, Login3
<1>5. /\ DOMAIN Login1(q, s) \subseteq {"Driver=", "Server="}
      /\ DOMAIN Login2(q, s) \subseteq {"Driver=", "Server=", "Database="}
      /\ DOMAIN Login3(q, s) \subseteq {"Driver=", "Server=", "Database=", "UID="}
      /\ DOMAIN Login(q, s) \subseteq {"Driver=", "Server=", "Database=", "UID=", "PWD="}
  BY <1>1, <1>2, <1>3, <1>4
<1>6. /\ "Server=" \notin DOMAIN s /\ "Database=" \notin DOMAIN Login1(q, s)
      /\ "UID=" \notin DOMAIN Login2(q, s) /\ "PWD=" \notin DOMAIN Login3(q, s)
      /\ DOMAIN Login(q, s) \subseteq UrlKeys
  BY <1>5 DEF UrlKeys
<1>7. "Driver=" \in DOMAIN Login(q, s) /\ Login(q, s)["Driver="] = s["Driver="]
  <2>1. "Driver=" \in DOMAIN Login1(q, s) /\ Login1(q, s)["Driver="] = s["Driver="]
    BY <1>1
  <2>2. "Driver=" \in DOMAIN Login2(q, s) /\ Login2(q, s)["Driver="] = s["Driver="]
    BY <1>2, <2>1
  <2>3. "Driver=" \in DOMAIN Login3(q, s) /\ Login3(q, s)["Driver="] = s["Driver="]
    BY <1>3, <2>2
  <2>. QED  BY <1>4, <2>3
<1>8. q.host # <<>> => "Server=" \in DOMAIN Login(q, s) /\ Login(q, s)["Server="] = q.host
  <2>. SUFFICES ASSUME q.host # <<>>
                PROVE  "Server=" \in DOMAIN Login(q, s) /\ Login(q, s)["Server="] = q.host
    OBVIOUS
  <2>1. "Server=" \in DOMAIN Login2(q, s) /\ Login2(q, s)["Server="] = q.host
    BY <1>1, <1>2
  <2>2. "Server=" \in DOMAIN Login3(q, s) /\ Login3(q, s)["Server="] = q.host
    BY <1>3, <2>1
  <2>. QED  BY <1>4, <2>2
<1>9. q.database # <<>> => /\ "Database=" \in DOMAIN Login(q, s)
                           /\ Login(q, s)["Database="] = q.database
  <2>. SUFFICES ASSUME q.database # <<>>
                PROVE  "Database=" \in DOMAIN Login(q, s) /\ Login(q, s)["Database="] = q.database
    OBVIOUS
  <2>1. "Database=" \in DOMAIN Login3(q, s) /\ Login3(q, s)["Database="] = q.database
    BY <1>2, <1>3
  <2>. QED  BY <1>4, <2>1
<1>10. q.user # <<>> => "UID=" \in DOMAIN Login(q, s) /\ Login(q, s)["UID="] = q.user
  BY <1>3, <1>4
<1>. QED  BY <1>4, <1>6, <1>7, <1>8, <1>9, <1>10

LEMMA StepIsRead ==
  ASSUME NEW t \in Texts, NEW s, Reading(t) = {s}, NEW k \in Keys, Name(k) = k,
         k \notin DOMAIN s, NEW v \in Texts
  PROVE  /\ Setting(k, v) \in Texts /\ t \o Setting(k, v) \in Texts
         /\ Reading(t \o Setting(k, v)) = {Given(s, k, v)}
         /\ KeysRead(t) /\ ~Has(v, Keys) => KeysRead(t \o Setting(k, v))
<1>1. /\ Setting(k, v) \in Texts /\ t \o Setting(k, v) \in Texts
      /\ Reading(t \o Setting(k, v)) = {Given(s, k, v)}
  BY GivenIsRead
<1>2. KeysRead(t) /\ ~Has(v, Keys) => KeysRead(t \o Setting(k, v))
  BY GivenKeysRead
<1>. QED  BY <1>1, <1>2

LEMMA TailIsRead ==
  ASSUME NEW q, UrlOK(q), NEW t \in Texts, NEW s, Reading(t) = {s}, DOMAIN s = {"Driver="}
  PROVE  /\ t \o Tail3(q) \in Texts /\ Reading(t \o Tail3(q)) = {Login(q, s)}
         /\ PlainUrl(q) /\ KeysRead(t) => KeysRead(t \o Tail3(q))
<1>. DEFINE s1 == Setting("Database=", q.database)
            s2 == Setting("UID=", q.user)
            s3 == Setting("PWD=", q.password)
            x0 == t \o HostPart(q)
            x1 == x0 \o s1
            x2 == x1 \o s2
            x3 == x2 \o s3
<1>1. /\ q.database \in Texts /\ q.user \in Texts /\ q.password \in Texts
      /\ "Database=" \in Keys /\ "UID=" \in Keys /\ "PWD=" \in Keys
      /\ Name("Database=") = "Database=" /\ Name("UID=") = "UID=" /\ Name("PWD=") = "PWD="
  BY KeyNames DEF UrlOK, UrlKeys
<1>2. /\ "Server=" \notin DOMAIN s /\ "Database=" \notin DOMAIN Login1(q, s)
      /\ "UID=" \notin DOMAIN Login2(q, s) /\ "PWD=" \notin DOMAIN Login3(q, s)
  BY LoginIs
<1>3. /\ x0 \in Texts /\ Reading(x0) = {Login1(q, s)}
      /\ PlainUrl(q) /\ KeysRead(t) => KeysRead(x0)
  BY <1>2, HostIsRead
<1>. HIDE DEF x0
<1>4. /\ s1 \in Texts /\ x1 \in Texts /\ Reading(x1) = {Login2(q, s)}
      /\ PlainUrl(q) /\ KeysRead(t) => KeysRead(x1)
  <2>1. PICK b : b = Login1(q, s)
    OBVIOUS
  <2>2. PICK k \in Keys, v \in Texts : k = "Database=" /\ v = q.database
    BY <1>1
  <2>3. Reading(x0) = {b} /\ Name(k) = k /\ k \notin DOMAIN b /\ s1 = Setting(k, v)
        /\ Login2(q, s) = Given(b, k, v) /\ (PlainUrl(q) => ~Has(v, Keys))
    BY <1>1, <1>2, <1>3, <2>1, <2>2 DEF Login2, PlainUrl
  <2>4. /\ Setting(k, v) \in Texts /\ x0 \o Setting(k, v) \in Texts
        /\ Reading(x0 \o Setting(k, v)) = {Given(b, k, v)}
        /\ KeysRead(x0) /\ ~Has(v, Keys) => KeysRead(x0 \o Setting(k, v))
    BY <1>3, <2>3, StepIsRead
  <2>. QED  BY <1>3, <2>3, <2>4
<1>. HIDE DEF x1, s1
<1>5. /\ s2 \in Texts /\ x2 \in Texts /\ Reading(x2) = {Login3(q, s)}
      /\ PlainUrl(q) /\ KeysRead(t) => KeysRead(x2)
  <2>1. PICK b : b = Login2(q, s)
    OBVIOUS
  <2>2. PICK k \in Keys, v \in Texts : k = "UID=" /\ v = q.user
    BY <1>1
  <2>3. Reading(x1) = {b} /\ Name(k) = k /\ k \notin DOMAIN b /\ s2 = Setting(k, v)
        /\ Login3(q, s) = Given(b, k, v) /\ (PlainUrl(q) => ~Has(v, Keys))
    BY <1>1, <1>2, <1>4, <2>1, <2>2 DEF Login3, PlainUrl
  <2>4. /\ Setting(k, v) \in Texts /\ x1 \o Setting(k, v) \in Texts
        /\ Reading(x1 \o Setting(k, v)) = {Given(b, k, v)}
        /\ KeysRead(x1) /\ ~Has(v, Keys) => KeysRead(x1 \o Setting(k, v))
    BY <1>4, <2>3, StepIsRead
  <2>. QED  BY <1>4, <2>3, <2>4
<1>. HIDE DEF x2, s2
<1>6. /\ s3 \in Texts /\ x3 \in Texts /\ Reading(x3) = {Login(q, s)}
      /\ PlainUrl(q) /\ KeysRead(t) => KeysRead(x3)
  <2>1. PICK b : b = Login3(q, s)
    OBVIOUS
  <2>2. PICK k \in Keys, v \in Texts : k = "PWD=" /\ v = q.password
    BY <1>1
  <2>3. Reading(x2) = {b} /\ Name(k) = k /\ k \notin DOMAIN b /\ s3 = Setting(k, v)
        /\ Login(q, s) = Given(b, k, v) /\ (PlainUrl(q) => ~Has(v, Keys))
    BY <1>1, <1>2, <1>5, <2>1, <2>2 DEF Login, PlainUrl
  <2>4. /\ Setting(k, v) \in Texts /\ x2 \o Setting(k, v) \in Texts
        /\ Reading(x2 \o Setting(k, v)) = {Given(b, k, v)}
        /\ KeysRead(x2) /\ ~Has(v, Keys) => KeysRead(x2 \o Setting(k, v))
    BY <1>5, <2>3, StepIsRead
  <2>. QED  BY <1>5, <2>3, <2>4
<1>. HIDE DEF s3
<1>7. t \o Tail3(q) = x3
  <2>1. HostPart(q) \in Texts /\ Tail1(q) \in Texts /\ Tail2(q) \in Texts
    BY HostPartIs, TailIs
  <2>2. Tail1(q) = HostPart(q) \o s1 /\ Tail2(q) = Tail1(q) \o s2 /\ Tail3(q) = Tail2(q) \o s3
    BY DEF Tail1, Tail2, Tail3, s1, s2, s3
  <2>3. t \o Tail1(q) = x1
    <3>1. (t \o HostPart(q)) \o s1 = t \o (HostPart(q) \o s1)
      BY <1>4, <2>1, TextsAssociate
    <3>. QED  BY <2>2, <3>1 DEF x0, x1
  <2>4. t \o Tail2(q) = x2
    <3>1. (t \o Tail1(q)) \o s2 = t \o (Tail1(q) \o s2)
      BY <1>5, <2>1, TextsAssociate
    <3>. QED  BY <2>2, <2>3, <3>1 DEF x2
  <2>5. (t \o Tail2(q)) \o s3 = t \o (Tail2(q) \o s3)
    BY <1>6, <2>1, TextsAssociate
  <2>. QED  BY <2>2, <2>4, <2>5
<1>. QED  BY <1>6, <1>7

(* The two flags behind the login; the order they are set in makes no      *)
(* difference.                                                             *)
EncryptKey == "Encrypt="
TrustKey   == "TrustServerCertificate="

Flagged(l, f, g) == Given(Given(l, EncryptKey, f), TrustKey, g)

LEMMA FlagKeys ==
  /\ EncryptKey \in Keys /\ TrustKey \in Keys /\ EncryptKey # TrustKey
  /\ Name(EncryptKey) = EncryptKey /\ Name(TrustKey) = TrustKey
  /\ EncryptKey \notin UrlKeys /\ TrustKey \notin UrlKeys
<1>1. EncryptKey # TrustKey
  BY DEF EncryptKey, TrustKey
<1>. QED  BY <1>1, KeyNames DEF EncryptKey, TrustKey

LEMMA FlaggedIs ==
  ASSUME NEW l, DOMAIN l \subseteq UrlKeys, NEW f \in {<<>>, Yes}, NEW g \in {<<>>, Yes}
  PROVE  /\ EncryptKey \notin DOMAIN Flagged(l, <<>>, g)
         /\ TrustKey \notin DOMAIN Flagged(l, f, <<>>)
         /\ Given(Flagged(l, <<>>, g), EncryptKey, Yes) = Flagged(l, Yes, g)
         /\ Given(Flagged(l, f, <<>>), TrustKey, Yes) = Flagged(l, f, Yes)
         /\ Flagged(l, <<>>, <<>>) = l
         /\ \A n \in DOMAIN l : n \in DOMAIN Flagged(l, f, g) /\ Flagged(l, f, g)[n] = l[n]
<1>1. \A s, k : Given(s, k, <<>>) = s
  BY DEF Given
<1>2. EncryptKey \notin DOMAIN l /\ TrustKey \notin DOMAIN l
  BY FlagKeys
<1>3. EncryptKey \notin DOMAIN Flagged(l, <<>>, g)
  <2>1. Flagged(l, <<>>, g) = Given(l, TrustKey, g)
    BY <1>1 DEF Flagged
  <2>2. DOMAIN Given(l, TrustKey, g) \subseteq DOMAIN l \cup {TrustKey}
    BY GivenIs
  <2>. QED  BY <1>2, <2>1, <2>2, FlagKeys
<1>4. TrustKey \notin DOMAIN Flagged(l, f, <<>>)
  <2>1. Flagged(l, f, <<>>) = Given(l, EncryptKey, f)
    BY <1>1 DEF Flagged
  <2>2. DOMAIN Given(l, EncryptKey, f) \subseteq DOMAIN l \cup {EncryptKey}
    BY GivenIs
  <2>. QED  BY <1>2, <2>1, <2>2, FlagKeys
<1>5. Given(Flagged(l, <<>>, g), EncryptKey, Yes) = Flagged(l, Yes, g)
  <2>1. CASE g = <<>>
    BY <1>1, <2>1 DEF Flagged
  <2>2. CASE g = Yes
    <3>1. Given(Flagged(l, <<>>, g), EncryptKey, Yes) = With(With(l, TrustKey, Yes), EncryptKey, Yes)
      BY <1>1, <2>2, YesIs DEF Flagged, Given
    <3>2. Flagged(l, Yes, g) = With(With(l, EncryptKey, Yes), TrustKey, Yes)
      BY <2>2, YesIs DEF Flagged, Given
    <3>. QED  BY <3>1, <3>2, FlagKeys, WithCommutes
  <2>. QED  BY <2>1, <2>2
<1>6. Given(Flagged(l, f, <<>>), TrustKey, Yes) = Flagged(l, f, Yes)
  BY <1>1 DEF Flagged
<1>7. ASSUME NEW n \in DOMAIN l
      PROVE  n \in DOMAIN Flagged(l, f, g) /\ Flagged(l, f, g)[n] = l[n]
  <2>. DEFINE m == Given(l, EncryptKey, f)
  <2>1. n # EncryptKey /\ n # TrustKey
    BY <1>2
  <2>2. n \in DOMAIN m /\ m[n] = l[n]
    BY <2>1, GivenIs
  <2>. HIDE DEF m
  <2>3. n \in DOMAIN Given(m, TrustKey, g) /\ Given(m, TrustKey, g)[n] = m[n]
    BY <2>1, <2>2, GivenIs
  <2>. QED  BY <2>2, <2>3 DEF Flagged, m
<1>8. Flagged(l, <<>>, <<>>) = l
  BY <1>1 DEF Flagged
<1>. QED  BY <1>3, <1>4, <1>5, <1>6, <1>7, <1>8

(* A text that makes of a driver what the URL asks for.                    *)
Leads(b, q, f, g) ==
  \A t \in Texts : \A s :
    Reading(t) = {s} /\ DOMAIN s = {"Driver="} =>
      /\ t \o b \in Texts
      /\ Reading(t \o b) = {Flagged(Login(q, s), f, g)}
      /\ PlainUrl(q) /\ KeysRead(t) => KeysRead(t \o b)

Serves(b, q, f, g) ==
  /\ b \in Texts /\ b # <<>> /\ b[1] \in Ending
  /\ f \in {<<>>, Yes} /\ g \in {<<>>, Yes}
  /\ Leads(b, q, f, g)
  /\ f = Yes => Has(b, {EncryptKey})
  /\ g = Yes => Has(b, {TrustKey})
  /\ PlainUrl(q) => /\ Has(b, {EncryptKey}) => f = Yes
                    /\ Has(b, {TrustKey}) => g = Yes

LEMMA TailServes ==
  ASSUME NEW q, UrlOK(q)
  PROVE  Serves(Tail3(q), q, <<>>, <<>>)
<1>1. /\ Tail3(q) \in Texts /\ Tail3(q) # <<>> /\ Tail3(q)[1] \in Ending
      /\ \A n \in Keys : Has(Tail3(q), {n}) => n \in UrlKeys \/ ~PlainUrl(q)
  BY TailIs
<1>2. <<>> # Yes
  BY YesIs
<1>3. ASSUME NEW t \in Texts, NEW s, Reading(t) = {s}, DOMAIN s = {"Driver="}
      PROVE  /\ t \o Tail3(q) \in Texts
             /\ Reading(t \o Tail3(q)) = {Flagged(Login(q, s), <<>>, <<>>)}
             /\ PlainUrl(q) /\ KeysRead(t) => KeysRead(t \o Tail3(q))
  <2>1. DOMAIN Login(q, s) \subseteq UrlKeys
    BY <1>3, LoginIs
  <2>2. PICK l : l = Login(q, s)
    OBVIOUS
  <2>3. Flagged(l, <<>>, <<>>) = l
    BY <2>1, <2>2, FlaggedIs
  <2>4. /\ t \o Tail3(q) \in Texts /\ Reading(t \o Tail3(q)) = {Login(q, s)}
        /\ PlainUrl(q) /\ KeysRead(t) => KeysRead(t \o Tail3(q))
    BY <1>3, TailIsRead
  <2>. QED  BY <2>2, <2>3, <2>4
<1>4. Leads(Tail3(q), q, <<>>, <<>>)
  BY <1>3 DEF Leads
<1>. QED  BY <1>1, <1>2, <1>4, FlagKeys DEF Serves

LEMMA JoinBegins ==
  ASSUME NEW b \in Texts, b # <<>>, b[1] \in Ending, NEW w \in Texts
  PROVE  b \o w \in Texts /\ b \o w # <<>> /\ (b \o w)[1] \in Ending
<1>1. Len(b) \in Nat /\ Len(b) # 0 /\ Len(w) \in Nat /\ Len(b \o w) = Len(b) + Len(w)
      /\ \A i \in 1..Len(b) : (b \o w)[i] = b[i]
  BY DEF Texts
<1>2. 1 \in 1..Len(b) /\ Len(b \o w) # 0
  BY <1>1
<1>. QED  BY <1>1, <1>2, TextsJoin

(* Another setting.                                                        *)
LEMMA FlagLeads ==
  ASSUME NEW q, NEW b \in Texts, NEW f, NEW g, Leads(b, q, f, g),
         NEW k \in Keys, Name(k) = k, NEW f2, NEW g2,
         \A s : DOMAIN s = {"Driver="} =>
           /\ k \notin DOMAIN Flagged(Login(q, s), f, g)
           /\ Given(Flagged(Login(q, s), f, g), k, Yes) = Flagged(Login(q, s), f2, g2)
  PROVE  Leads(b \o Setting(k, Yes), q, f2, g2)
<1>. DEFINE w == Setting(k, Yes)
<1>1. w \in Texts
  BY YesIs, SettingHas
<1>2. ASSUME NEW t \in Texts, NEW s, Reading(t) = {s}, DOMAIN s = {"Driver="}
      PROVE  /\ t \o (b \o w) \in Texts
             /\ Reading(t \o (b \o w)) = {Flagged(Login(q, s), f2, g2)}
             /\ PlainUrl(q) /\ KeysRead(t) => KeysRead(t \o (b \o w))
  <2>1. PICK y : y = Flagged(Login(q, s), f, g)
    OBVIOUS
  <2>2. PICK x \in Texts : x = t \o b
    BY TextsJoin
  <2>3. Reading(x) = {y} /\ k \notin DOMAIN y /\ (PlainUrl(q) /\ KeysRead(t) => KeysRead(x))
    BY <1>2, <2>1, <2>2 DEF Leads
  <2>4. /\ x \o w \in Texts /\ Reading(x \o w) = {Given(y, k, Yes)}
        /\ KeysRead(x) /\ ~Has(Yes, Keys) => KeysRead(x \o w)
    BY <2>3, YesIs, StepIsRead
  <2>5. t \o (b \o w) = x \o w
    <3>. HIDE DEF w
    <3>. QED  BY <1>1, <2>1, <2>2, TextsAssociate
  <2>6. Given(y, k, Yes) = Flagged(Login(q, s), f2, g2)
    BY <1>2, <2>1, <2>2
  <2>. HIDE DEF w
  <2>. QED  BY <2>3, <2>4, <2>5, <2>6, YesIs
<1>. QED  BY <1>2 DEF Leads

LEMMA EncryptServes ==
  ASSUME NEW q, NEW b, NEW g, Serves(b, q, <<>>, g)
  PROVE  Serves(b \o Setting(EncryptKey, Yes), q, Yes, g)
<1>. DEFINE w == Setting(EncryptKey, Yes)
<1>1. b \in Texts /\ b # <<>> /\ b[1] \in Ending /\ g \in {<<>>, Yes}
  BY DEF Serves
<1>2. w \in Texts /\ Has(w, {EncryptKey}) /\ ~Has(w, {TrustKey})
  <2>1. ~Has(Yes, {TrustKey})
    BY YesIs, FlagKeys, HasKeys
  <2>. QED  BY <2>1, YesIs, FlagKeys, SettingHas
<1>3. ASSUME NEW s, DOMAIN s = {"Driver="}
      PROVE  /\ EncryptKey \notin DOMAIN Flagged(Login(q, s), <<>>, g)
             /\ Given(Flagged(Login(q, s), <<>>, g), EncryptKey, Yes)
                  = Flagged(Login(q, s), Yes, g)
  <2>1. PICK l : l = Login(q, s)
    OBVIOUS
  <2>2. DOMAIN l \subseteq UrlKeys
    BY <1>3, <2>1, LoginIs
  <2>3. EncryptKey \notin DOMAIN Flagged(l, <<>>, g)
        /\ Given(Flagged(l, <<>>, g), EncryptKey, Yes) = Flagged(l, Yes, g)
    BY <1>1, <2>2, FlaggedIs
  <2>. QED  BY <2>1, <2>3
<1>4. Leads(b \o w, q, Yes, g)
  <2>1. Leads(b, q, <<>>, g)
    BY DEF Serves
  <2>. QED  BY <1>1, <1>3, <2>1, FlagKeys, FlagLeads
<1>. HIDE DEF w
<1>5. \A k : Has(b \o w, {k}) <=> Has(b, {k}) \/ Has(w, {k})
  BY <1>1, <1>2, HasJoin
<1>6. b \o w \in Texts /\ b \o w # <<>> /\ (b \o w)[1] \in Ending
  BY <1>1, <1>2, JoinBegins
<1>7. Serves(b \o w, q, Yes, g)
  BY <1>1, <1>2, <1>4, <1>5, <1>6 DEF Serves
<1>. QED  BY <1>7 DEF w

LEMMA TrustServes ==
  ASSUME NEW q, NEW b, NEW f, Serves(b, q, f, <<>>)
  PROVE  Serves(b \o Setting(TrustKey, Yes), q, f, Yes)
<1>. DEFINE w == Setting(TrustKey, Yes)
<1>1. b \in Texts /\ b # <<>> /\ b[1] \in Ending /\ f \in {<<>>, Yes}
  BY DEF Serves
<1>2. w \in Texts /\ Has(w, {TrustKey}) /\ ~Has(w, {EncryptKey})
  <2>1. ~Has(Yes, {EncryptKey})
    BY YesIs, FlagKeys, HasKeys
  <2>. QED  BY <2>1, YesIs, FlagKeys, SettingHas
<1>3. ASSUME NEW s, DOMAIN s = {"Driver="}
      PROVE  /\ TrustKey \notin DOMAIN Flagged(Login(q, s), f, <<>>)
             /\ Given(Flagged(Login(q, s), f, <<>>), TrustKey, Yes)
                  = Flagged(Login(q, s), f, Yes)
  <2>1. PICK l : l = Login(q, s)
    OBVIOUS
  <2>2. DOMAIN l \subseteq UrlKeys
    BY <1>3, <2>1, LoginIs
  <2>3. TrustKey \notin DOMAIN Flagged(l, f, <<>>)
        /\ Given(Flagged(l, f, <<>>), TrustKey, Yes) = Flagged(l, f, Yes)
    BY <1>1, <2>2, FlaggedIs
  <2>. QED  BY <2>1, <2>3
<1>4. Leads(b \o w, q, f, Yes)
  <2>1. Leads(b, q, f, <<>>)
    BY DEF Serves
  <2>. QED  BY <1>1, <1>3, <2>1, FlagKeys, FlagLeads
<1>. HIDE DEF w
<1>5. \A k : Has(b \o w, {k}) <=> Has(b, {k}) \/ Has(w, {k})
  BY <1>1, <1>2, HasJoin
<1>6. b \o w \in Texts /\ b \o w # <<>> /\ (b \o w)[1] \in Ending
  BY <1>1, <1>2, JoinBegins
<1>7. Serves(b \o w, q, f, Yes)
  BY <1>1, <1>2, <1>4, <1>5, <1>6 DEF Serves
<1>. QED  BY <1>7 DEF w

(* The parameters of a URL.                                                *)
Params == [key : STRING, value : Texts]

Braces == <<"{">> \o DefaultDriver \o <<"}">>

OneDriver(p) ==
  \A i, j \in DOMAIN p : Drives(p[i]) /\ Drives(p[j]) => i = j

PlainDriver(p) ==
  \A i \in DOMAIN p : Drives(p[i]) => ~Has(p[i].value, Keys)

Chosen(p, d) ==
  \/ \E i \in DOMAIN p : Drives(p[i]) /\ d = p[i].value
  \/ (\A i \in DOMAIN p : ~Drives(p[i])) /\ d = Braces

(* Whether a parameter sets a flag.                                        *)
IsSet(p, x) == \E i \in DOMAIN p : p[i] = x

EncryptOn == [key |-> "encrypt", value |-> True]
TrustOn   == [key |-> "trust_certificate", value |-> True]

FlagIn(p, x) == IF IsSet(p, x) THEN Yes ELSE <<>>

LEMMA BracesAre ==
  /\ Braces \in Texts /\ ~Has(Braces, Ending) /\ ~Has(Braces, Keys)
  /\ \E o \in Opening, c \in Closing, m \in Units :
       Braces = (<<o>> \o <<m>>) \o <<c>> /\ DefaultDriver = <<m>> /\ m \notin Closing
  /\ DefaultDriver # <<>>
<1>1. PICK o \in Opening, c \in Closing : o = "{" /\ c = "}"
  BY DEF Opening, Closing
<1>2. PICK m \in Units : DefaultDriver = <<m>> /\ m \notin Keys \cup Ending \cup Closing
  <2>1. "ODBC Driver 18" \in Units
    BY UnitsAssumption
  <2>2. "ODBC Driver 18" \notin Keys \cup Ending \cup Closing
    BY DEF Keys, Ending, Closing
  <2>. QED  BY <2>1, <2>2 DEF DefaultDriver
<1>3. o \in Units /\ c \in Units /\ o \notin Keys \cup Ending /\ c \notin Keys \cup Ending
  BY UnitsAre
<1>4. Braces = (<<o>> \o <<m>>) \o <<c>>
  BY <1>1, <1>2 DEF Braces
<1>5. <<o>> \in Texts /\ <<m>> \in Texts /\ <<c>> \in Texts /\ <<o>> \o <<m>> \in Texts
  <2>1. \A a \in Units : <<a>> \in Texts
    BY DEF Texts
  <2>. QED  BY <1>2, <1>3, <2>1, TextsJoin
<1>6. \A us : Has((<<o>> \o <<m>>) \o <<c>>, us) <=> Has(<<o>> \o <<m>>, us) \/ Has(<<c>>, us)
  BY <1>5, HasJoin
<1>7. \A us : Has(<<o>> \o <<m>>, us) <=> Has(<<o>>, us) \/ Has(<<m>>, us)
  BY <1>5, HasJoin
<1>8. (<<o>> \o <<m>>) \o <<c>> \in Texts
  BY <1>5, TextsJoin
<1>9. ~Has(Braces, Ending) /\ ~Has(Braces, Keys)
  BY <1>2, <1>3, <1>4, <1>6, <1>7, HasOne
<1>10. DefaultDriver # <<>>
  BY <1>2
<1>. QED  BY <1>2, <1>4, <1>8, <1>9, <1>10

LEMMA AppendPlaces ==
  ASSUME NEW S, NEW p \in Seq(S), NEW x \in S
  PROVE  /\ DOMAIN Append(p, x) = DOMAIN p \cup {Len(p) + 1} /\ Len(p) + 1 \notin DOMAIN p
         /\ Append(p, x)[Len(p) + 1] = x
         /\ \A i \in DOMAIN p : Append(p, x)[i] = p[i]
<1>1. /\ DOMAIN p = 1..Len(p) /\ Len(p) \in Nat /\ DOMAIN Append(p, x) = 1..(Len(p) + 1)
      /\ Append(p, x)[Len(p) + 1] = x /\ \A i \in 1..Len(p) : Append(p, x)[i] = p[i]
  OBVIOUS
<1>2. 1..(Len(p) + 1) = 1..Len(p) \cup {Len(p) + 1} /\ Len(p) + 1 \notin 1..Len(p)
  BY <1>1
<1>. QED  BY <1>1, <1>2

LEMMA ParametersAre ==
  ASSUME NEW p \in Seq(Params), NEW x \in Params
  PROVE  /\ OneDriver(Append(p, x)) =>
              OneDriver(p) /\ (Drives(x) => \A i \in DOMAIN p : ~Drives(p[i]))
         /\ PlainDriver(Append(p, x)) <=> PlainDriver(p) /\ (Drives(x) => ~Has(x.value, Keys))
         /\ \A d : Chosen(p, d) /\ ~Drives(x) => Chosen(Append(p, x), d)
         /\ Drives(x) => Chosen(Append(p, x), x.value)
         /\ \A e : FlagIn(Append(p, x), e) = IF x = e THEN Yes ELSE FlagIn(p, e)
<1>. DEFINE v == Append(p, x)
            n == Len(p) + 1
<1>1. /\ DOMAIN v = DOMAIN p \cup {n} /\ n \notin DOMAIN p /\ v[n] = x
      /\ \A i \in DOMAIN p : v[i] = p[i]
  BY AppendPlaces
<1>. HIDE DEF v, n
<1>2. OneDriver(v) => OneDriver(p) /\ (Drives(x) => \A i \in DOMAIN p : ~Drives(p[i]))
  BY <1>1 DEF OneDriver
<1>3. PlainDriver(v) <=> PlainDriver(p) /\ (Drives(x) => ~Has(x.value, Keys))
  BY <1>1 DEF PlainDriver
<1>4. \A d : Chosen(p, d) /\ ~Drives(x) => Chosen(v, d)
  BY <1>1 DEF Chosen
<1>5. Drives(x) => Chosen(v, x.value)
  BY <1>1 DEF Chosen
<1>6. \A e : FlagIn(v, e) = IF x = e THEN Yes ELSE FlagIn(p, e)
  <2>1. \A e : IsSet(v, e) <=> IsSet(p, e) \/ x = e
    BY <1>1 DEF IsSet
  <2>. QED  BY <2>1 DEF FlagIn
<1>. QED  BY <1>2, <1>3, <1>4, <1>5, <1>6 DEF v

LEMMA SetsAre ==
  ASSUME NEW x \in Params
  PROVE  /\ x = EncryptOn <=> Encrypts(x) /\ x.value = True
         /\ x = TrustOn <=> Trusts(x) /\ x.value = True
         /\ ~(Encrypts(x) /\ Trusts(x)) /\ ~(Encrypts(x) /\ Drives(x))
         /\ ~(Trusts(x) /\ Drives(x))
BY DEF Params, EncryptOn, TrustOn, Encrypts, Trusts, Drives

(* What the text of a URL comes to.                                        *)
Start == <<"Driver=">>

ShapedBy(t, p, q, d, b, f, g) ==
  /\ Chosen(p, d) /\ Serves(b, q, f, g)
  /\ t = (Start \o d) \o b
  /\ PlainUrl(q) /\ PlainDriver(p) =>
       f = FlagIn(p, EncryptOn) /\ g = FlagIn(p, TrustOn)

Shaped(t, p, q) ==
  \E d \in Texts : \E b \in Texts : \E f, g : ShapedBy(t, p, q, d, b, f, g)

LEMMA IsShaped ==
  ASSUME NEW t, NEW p, NEW q, NEW d \in Texts, NEW b \in Texts, NEW f, NEW g,
         Chosen(p, d), Serves(b, q, f, g), t = (Start \o d) \o b,
         PlainUrl(q) /\ PlainDriver(p) =>
           f = FlagIn(p, EncryptOn) /\ g = FlagIn(p, TrustOn)
  PROVE  Shaped(t, p, q)
<1>1. ShapedBy(t, p, q, d, b, f, g)
  BY DEF ShapedBy
<1>. QED  BY <1>1 DEF Shaped

LEMMA StartIs ==
  /\ Start \in Texts /\ \A n \in Keys : Has(Start, {n}) <=> n = "Driver="
  /\ ~Has(Start, {EncryptKey}) /\ ~Has(Start, {TrustKey})
<1>1. PICK k \in Keys : k = "Driver="
  BY KeyNames DEF UrlKeys
<1>2. k \in Units /\ k # EncryptKey /\ k # TrustKey
  BY <1>1, UnitsAre DEF EncryptKey, TrustKey
<1>3. Start = <<k>>
  BY <1>1 DEF Start
<1>4. <<k>> \in Texts
  BY <1>2 DEF Texts
<1>5. \A n : Has(<<k>>, {n}) <=> n = k
  BY HasOne
<1>. QED  BY <1>1, <1>2, <1>3, <1>4, <1>5

LEMMA ShapedHas ==
  ASSUME NEW p, NEW d \in Texts, NEW b \in Texts, Chosen(p, d)
  PROVE  /\ (Start \o d) \o b \in Texts
         /\ \A n : Has((Start \o d) \o b, {n}) <=>
                     Has(Start, {n}) \/ Has(d, {n}) \/ Has(b, {n})
         /\ PlainDriver(p) => \A n \in Keys : ~Has(d, {n})
<1>1. Start \o d \in Texts /\ \A n : Has(Start \o d, {n}) <=> Has(Start, {n}) \/ Has(d, {n})
  BY StartIs, TextsJoin, HasJoin
<1>2. (Start \o d) \o b \in Texts
      /\ \A n : Has((Start \o d) \o b, {n}) <=> Has(Start \o d, {n}) \/ Has(b, {n})
  BY <1>1, TextsJoin, HasJoin
<1>3. PlainDriver(p) => ~Has(d, Keys)
  BY BracesAre DEF PlainDriver, Chosen
<1>4. ~Has(d, Keys) => \A n \in Keys : ~Has(d, {n})
  BY HasKeys
<1>. QED  BY <1>1, <1>2, <1>3, <1>4

LEMMA ShapedFirst ==
  ASSUME NEW q, UrlOK(q)
  PROVE  Shaped((Start \o Braces) \o Tail3(q), <<>>, q)
<1>1. Chosen(<<>>, Braces)
  BY DEF Chosen
<1>2. \A e : FlagIn(<<>>, e) = <<>>
  BY DEF FlagIn, IsSet
<1>3. Serves(Tail3(q), q, <<>>, <<>>) /\ Tail3(q) \in Texts
  BY TailServes, TailIs
<1>4. PICK b \in Texts : b = Tail3(q)
  BY <1>3
<1>5. PICK d \in Texts : d = Braces
  BY BracesAre
<1>6. Chosen(<<>>, d) /\ Serves(b, q, <<>>, <<>>) /\ FlagIn(<<>>, EncryptOn) = <<>>
      /\ FlagIn(<<>>, TrustOn) = <<>>
  BY <1>1, <1>2, <1>3, <1>4, <1>5
<1>7. Shaped((Start \o d) \o b, <<>>, q)
  BY <1>6, IsShaped
<1>. QED  BY <1>4, <1>5, <1>7

LEMMA ShapedNext ==
  ASSUME NEW q, NEW p \in Seq(Params), NEW x \in Params, NEW t, Shaped(t, p, q),
         OneDriver(Append(p, x))
  PROVE  Shaped(Parameter(t, x), Append(p, x), q)
<1>. DEFINE v == Append(p, x)
<1>1. PICK d \in Texts : \E b1 \in Texts : \E f1, g1 : ShapedBy(t, p, q, d, b1, f1, g1)
  BY DEF Shaped
<1>2. PICK b \in Texts : \E f1, g1 : ShapedBy(t, p, q, d, b, f1, g1)
  BY <1>1
<1>3. PICK f, g : ShapedBy(t, p, q, d, b, f, g)
  BY <1>2
<1>4. /\ Chosen(p, d) /\ Serves(b, q, f, g)
      /\ t = (Start \o d) \o b
      /\ PlainUrl(q) /\ PlainDriver(p) =>
           f = FlagIn(p, EncryptOn) /\ g = FlagIn(p, TrustOn)
  BY <1>3 DEF ShapedBy
<1>5. /\ OneDriver(p) /\ (Drives(x) => \A i \in DOMAIN p : ~Drives(p[i]))
      /\ PlainDriver(v) <=> PlainDriver(p) /\ (Drives(x) => ~Has(x.value, Keys))
      /\ Chosen(p, d) /\ ~Drives(x) => Chosen(v, d)
      /\ Drives(x) => Chosen(v, x.value)
      /\ FlagIn(v, EncryptOn) = IF x = EncryptOn THEN Yes ELSE FlagIn(p, EncryptOn)
      /\ FlagIn(v, TrustOn) = IF x = TrustOn THEN Yes ELSE FlagIn(p, TrustOn)
  BY ParametersAre
<1>. HIDE DEF v
<1>6. /\ t \in Texts
      /\ \A n : Has(t, {n}) <=> Has(Start, {n}) \/ Has(d, {n}) \/ Has(b, {n})
      /\ PlainDriver(p) => \A n \in Keys : ~Has(d, {n})
  BY <1>4, ShapedHas
<1>7. /\ b # <<>> /\ b[1] \in Ending /\ f \in {<<>>, Yes} /\ g \in {<<>>, Yes}
      /\ f = Yes => Has(b, {EncryptKey})
      /\ g = Yes => Has(b, {TrustKey})
      /\ PlainUrl(q) => /\ Has(b, {EncryptKey}) => f = Yes
                        /\ Has(b, {TrustKey}) => g = Yes
  BY <1>4 DEF Serves
<1>8. /\ x = EncryptOn <=> Encrypts(x) /\ x.value = True
      /\ x = TrustOn <=> Trusts(x) /\ x.value = True
      /\ ~(Encrypts(x) /\ Trusts(x)) /\ ~(Encrypts(x) /\ Drives(x))
      /\ ~(Trusts(x) /\ Drives(x))
  BY SetsAre
<1>9. ASSUME Parameter(t, x) = t, ~Drives(x),
             PlainUrl(q) /\ PlainDriver(p) /\ x = EncryptOn => f = Yes,
             PlainUrl(q) /\ PlainDriver(p) /\ x = TrustOn => g = Yes
      PROVE  Shaped(Parameter(t, x), v, q)
  <2>1. PlainUrl(q) /\ PlainDriver(v) => f = FlagIn(v, EncryptOn) /\ g = FlagIn(v, TrustOn)
    BY <1>4, <1>5, <1>9
  <2>2. Chosen(v, d)
    BY <1>4, <1>5, <1>9
  <2>3. Shaped(t, v, q)
    BY <1>4, <2>1, <2>2, IsShaped
  <2>. QED  BY <1>9, <2>3
<1>10. ASSUME Encrypts(x)  PROVE Shaped(Parameter(t, x), v, q)
  <2>1. Parameter(t, x) = IF x.value = True /\ ~Has(t, {EncryptKey})
                          THEN t \o Setting(EncryptKey, Yes) ELSE t
    <3>1. PICK on \in BOOLEAN : on = (x.value = True)
      OBVIOUS
    <3>2. Parameter(t, x) = Encrypt(t, on)
      BY <1>10, <3>1, ParameterIs
    <3>3. Encrypt(t, on) = IF on /\ ~Has(t, {EncryptKey}) THEN t \o Setting(EncryptKey, Yes) ELSE t
      BY <1>6, FlagIs DEF EncryptKey
    <3>. QED  BY <3>1, <3>2, <3>3
  <2>2. CASE x.value = True /\ ~Has(t, {EncryptKey})
    <3>. DEFINE w == Setting(EncryptKey, Yes)
    <3>1. f = <<>>
      BY <1>6, <1>7, <2>2
    <3>2. Serves(b \o w, q, Yes, g)
      BY <1>4, <3>1, EncryptServes
    <3>3. w \in Texts
      BY FlagKeys, YesIs, SettingHas
    <3>. HIDE DEF w
    <3>4. Parameter(t, x) = (Start \o d) \o (b \o w) /\ b \o w \in Texts
      <4>1. Start \o d \in Texts
        BY StartIs, TextsJoin
      <4>2. ((Start \o d) \o b) \o w = (Start \o d) \o (b \o w)
        BY <3>3, <4>1, TextsAssociate
      <4>3. Parameter(t, x) = t \o w
        BY <2>1, <2>2 DEF w
      <4>. QED  BY <1>4, <3>3, <4>2, <4>3, TextsJoin
    <3>5. PlainUrl(q) /\ PlainDriver(v) => Yes = FlagIn(v, EncryptOn) /\ g = FlagIn(v, TrustOn)
      BY <1>4, <1>5, <1>8, <1>10, <2>2
    <3>6. Chosen(v, d)
      BY <1>4, <1>5, <1>8, <1>10
    <3>7. PICK b2 \in Texts : b2 = b \o w
      BY <3>4
    <3>8. Shaped((Start \o d) \o b2, v, q)
      BY <3>2, <3>5, <3>6, <3>7, IsShaped
    <3>. QED  BY <3>4, <3>7, <3>8
  <2>3. CASE ~(x.value = True /\ ~Has(t, {EncryptKey}))
    <3>1. Parameter(t, x) = t
      BY <2>1, <2>3
    <3>2. PlainUrl(q) /\ PlainDriver(p) /\ x = EncryptOn => f = Yes
      BY <1>6, <1>7, <1>8, <2>3, StartIs, FlagKeys
    <3>3. x # TrustOn /\ ~Drives(x)
      BY <1>8, <1>10
    <3>. QED  BY <1>9, <3>1, <3>2, <3>3
  <2>. QED  BY <2>2, <2>3
<1>11. ASSUME Trusts(x)  PROVE Shaped(Parameter(t, x), v, q)
  <2>1. Parameter(t, x) = IF x.value = True /\ ~Has(t, {TrustKey})
                          THEN t \o Setting(TrustKey, Yes) ELSE t
    <3>1. PICK on \in BOOLEAN : on = (x.value = True)
      OBVIOUS
    <3>2. Parameter(t, x) = TrustCertificate(t, on)
      BY <1>11, <3>1, ParameterIs
    <3>3. TrustCertificate(t, on) = IF on /\ ~Has(t, {TrustKey}) THEN t \o Setting(TrustKey, Yes) ELSE t
      BY <1>6, FlagIs DEF TrustKey
    <3>. QED  BY <3>1, <3>2, <3>3
  <2>2. CASE x.value = True /\ ~Has(t, {TrustKey})
    <3>. DEFINE w == Setting(TrustKey, Yes)
    <3>1. g = <<>>
      BY <1>6, <1>7, <2>2
    <3>2. Serves(b \o w, q, f, Yes)
      BY <1>4, <3>1, TrustServes
    <3>3. w \in Texts
      BY FlagKeys, YesIs, SettingHas
    <3>. HIDE DEF w
    <3>4. Parameter(t, x) = (Start \o d) \o (b \o w) /\ b \o w \in Texts
      <4>1. Start \o d \in Texts
        BY StartIs, TextsJoin
      <4>2. ((Start \o d) \o b) \o w = (Start \o d) \o (b \o w)
        BY <3>3, <4>1, TextsAssociate
      <4>3. Parameter(t, x) = t \o w
        BY <2>1, <2>2 DEF w
      <4>. QED  BY <1>4, <3>3, <4>2, <4>3, TextsJoin
    <3>5. PlainUrl(q) /\ PlainDriver(v) => f = FlagIn(v, EncryptOn) /\ Yes = FlagIn(v, TrustOn)
      BY <1>4, <1>5, <1>8, <1>11, <2>2
    <3>6. Chosen(v, d)
      BY <1>4, <1>5, <1>8, <1>11
    <3>7. PICK b2 \in Texts : b2 = b \o w
      BY <3>4
    <3>8. Shaped((Start \o d) \o b2, v, q)
      BY <3>2, <3>5, <3>6, <3>7, IsShaped
    <3>. QED  BY <3>4, <3>7, <3>8
  <2>3. CASE ~(x.value = True /\ ~Has(t, {TrustKey}))
    <3>1. Parameter(t, x) = t
      BY <2>1, <2>3
    <3>2. PlainUrl(q) /\ PlainDriver(p) /\ x = TrustOn => g = Yes
      BY <1>6, <1>7, <1>8, <2>3, StartIs, FlagKeys
    <3>3. x # EncryptOn /\ ~Drives(x)
      BY <1>8, <1>11
    <3>. QED  BY <1>9, <3>1, <3>2, <3>3
  <2>. QED  BY <2>2, <2>3
<1>12. ASSUME Drives(x)  PROVE Shaped(Parameter(t, x), v, q)
  <2>1. d = Braces
    BY <1>4, <1>5, <1>12 DEF Chosen
  <2>2. PICK y \in Texts : y = x.value
    BY DEF Params
  <2>3. Parameter(t, x) = Driver((Start \o Braces) \o b, y)
    BY <1>4, <1>12, <2>1, <2>2, ParameterIs
  <2>4. Driver((Start \o Braces) \o b, y) = (Start \o y) \o b
    BY <1>7, BracesAre, DriverIs DEF Start
  <2>5. Chosen(v, y)
    BY <1>5, <1>12, <2>2
  <2>6. PlainUrl(q) /\ PlainDriver(v) => f = FlagIn(v, EncryptOn) /\ g = FlagIn(v, TrustOn)
    BY <1>4, <1>5, <1>8, <1>12
  <2>7. Shaped((Start \o y) \o b, v, q)
    BY <1>4, <2>5, <2>6, IsShaped
  <2>. QED  BY <2>3, <2>4, <2>7
<1>13. ASSUME ~Encrypts(x) /\ ~Trusts(x) /\ ~Drives(x)  PROVE Shaped(Parameter(t, x), v, q)
  <2>1. Parameter(t, x) = t
    BY <1>13, ParameterIs
  <2>2. x # EncryptOn /\ x # TrustOn
    BY <1>8, <1>13
  <2>. QED  BY <1>9, <1>13, <2>1, <2>2
<1>14. Shaped(Parameter(t, x), v, q)
  BY <1>10, <1>11, <1>12, <1>13
<1>. QED  BY <1>14 DEF v

LEMMA ParametersShaped ==
  ASSUME NEW q, UrlOK(q), NEW p \in Seq(Params), OneDriver(p)
  PROVE  Shaped(Parameters((Start \o Braces) \o Tail3(q), p), p, q)
<1>. DEFINE base == (Start \o Braces) \o Tail3(q)
            T == {x \in Seq(Params) : OneDriver(x) => Shaped(Parameters(base, x), x, q)}
<1>1. <<>> \in T
  BY ParametersEmpty, ShapedFirst
<1>. HIDE DEF base
<1>2. ASSUME NEW x \in T, NEW u \in Params  PROVE Append(x, u) \in T
  <2>. SUFFICES ASSUME OneDriver(Append(x, u))
                PROVE  Shaped(Parameters(base, Append(x, u)), Append(x, u), q)
    OBVIOUS
  <2>1. Shaped(Parameters(base, x), x, q)
    BY ParametersAre
  <2>2. Parameters(base, Append(x, u)) = Parameter(Parameters(base, x), u)
    BY ParametersAppend
  <2>. QED  BY <2>1, <2>2, ShapedNext
<1>3. Seq(Params) \subseteq T
  <2>. HIDE DEF T
  <2>. QED  BY <1>1, <1>2, SequenceInduction
<1>. QED  BY <1>3 DEF base

(* The text of a URL is what the parameters make of the driver that is set *)
(* first and of the rest.                                                  *)
LEMMA UrlText ==
  ASSUME NEW q, UrlOK(q), q.form = "url"
  PROVE  FromStr(q) = Parameters((Start \o Braces) \o Tail3(q), q.query)
<1>. DEFINE x == Start \o Braces
            h == <<";", "Server=">>
            s1 == Setting("Database=", q.database)
            s2 == Setting("UID=", q.user)
            s3 == Setting("PWD=", q.password)
<1>1. FromStr(q) = MssqlUrlToConnectionString(q)
  BY DEF FromStr
<1>2. MssqlUrlToConnectionString(q) =
        Parameters(((((x \o h) \o q.host) \o s1) \o s2) \o s3, q.query)
  BY DEF MssqlUrlToConnectionString, Parameters, Start, Braces
<1>3. x \in Texts /\ h \in Texts /\ s1 \in Texts /\ s2 \in Texts /\ s3 \in Texts
  <2>1. x \in Texts
    BY StartIs, BracesAre, TextsJoin
  <2>2. h \in Texts
    <3>1. PICK e \in Ending, k \in Keys : e = ";" /\ k = "Server="
      BY KeyNames DEF Ending, UrlKeys
    <3>2. <<e, k>> \in Texts
      BY UnitsAre, JoinTwo
    <3>. QED  BY <3>1, <3>2
  <2>3. \A k \in Keys, v \in Texts : Setting(k, v) \in Texts
    BY SettingHas
  <2>. QED  BY <2>1, <2>2, <2>3, KeyNames DEF UrlOK, UrlKeys
<1>4. q.host \in Texts
  BY DEF UrlOK
<1>5. HostPart(q) = h \o q.host
  BY DEF HostPart
<1>6. Tail1(q) = HostPart(q) \o s1 /\ Tail2(q) = Tail1(q) \o s2 /\ Tail3(q) = Tail2(q) \o s3
  BY DEF Tail1, Tail2, Tail3
<1>7. PICK x0 \in Texts, h0 \in Texts, v0 \in Texts, a0 \in Texts, b0 \in Texts, c0 \in Texts :
        x0 = x /\ h0 = h /\ v0 = q.host /\ a0 = s1 /\ b0 = s2 /\ c0 = s3
  BY <1>3, <1>4
<1>8. PICK y : y = h0 \o v0
  OBVIOUS
<1>9. (x0 \o h0) \o v0 = x0 \o y /\ y \in Texts
  <2>1. y \in Texts
    BY <1>8, TextsJoin
  <2>2. (x0 \o h0) \o v0 = x0 \o y
    BY <1>8, SMTT(30) DEF Texts
  <2>. QED  BY <2>1, <2>2
<1>10. PICK z : z = y \o a0
  OBVIOUS
<1>11. (x0 \o y) \o a0 = x0 \o z /\ z \in Texts
  <2>1. z \in Texts
    BY <1>9, <1>10, TextsJoin
  <2>2. (x0 \o y) \o a0 = x0 \o z
    BY <1>9, <1>10, SMTT(30) DEF Texts
  <2>. QED  BY <2>1, <2>2
<1>12. PICK w : w = z \o b0
  OBVIOUS
<1>13. (x0 \o z) \o b0 = x0 \o w /\ w \in Texts
  <2>1. w \in Texts
    BY <1>11, <1>12, TextsJoin
  <2>2. (x0 \o z) \o b0 = x0 \o w
    BY <1>11, <1>12, SMTT(30) DEF Texts
  <2>. QED  BY <2>1, <2>2
<1>14. PICK t : t = w \o c0
  OBVIOUS
<1>15. (x0 \o w) \o c0 = x0 \o t
  BY <1>13, <1>14, SMTT(30) DEF Texts
<1>16. ((((x0 \o h0) \o v0) \o a0) \o b0) \o c0 = x0 \o t
  BY <1>9, <1>11, <1>13, <1>15, Zenon
<1>17. Tail3(q) = t
  BY <1>5, <1>6, <1>7, <1>8, <1>10, <1>12, <1>14
<1>18. FromStr(q) = Parameters(x0 \o Tail3(q), q.query)
  BY <1>1, <1>2, <1>7, <1>16, <1>17
<1>. QED  BY <1>7, <1>18

(* How the driver is read: the one that is set first, and one that is      *)
(* given.                                                                  *)
DriverKey == "Driver="

LEMMA DriverKeyIs ==
  /\ DriverKey \in Keys /\ Name(DriverKey) = DriverKey /\ Start = <<DriverKey>>
  /\ DriverKey \in Units
<1>1. DriverKey \in Keys /\ Name(DriverKey) = DriverKey /\ Start = <<DriverKey>>
  BY KeyNames DEF DriverKey, UrlKeys, Start
<1>. QED  BY <1>1, UnitsAre

LEMMA StartIsRead ==
  Scan(Begun, Start) = AtStart(DriverKey, <<>>, <<>>) /\ KeysRead(Start)
<1>1. Scan(Begun, <<DriverKey>>) = ReadUnit(Begun, DriverKey)
  BY DriverKeyIs, ScanOne
<1>2. ReadUnit(Begun, DriverKey) = AtStart(Name(DriverKey), <<>>, <<>>)
  BY DriverKeyIs, KeyStarts DEF Begun
<1>3. KeysRead(Append(<<>>, DriverKey))
  <2>1. Scan(Begun, <<>>) = Begun
    BY ScanEmpty
  <2>2. ReadsKey(Begun)
    BY DEF ReadsKey, Begun
  <2>. QED  BY <2>1, <2>2, DriverKeyIs, UnitsAre, KeysReadEmpty, KeysReadAppend
<1>4. Append(<<>>, DriverKey) = Start
  BY DriverKeyIs, JoinOne, UnitsAre
<1>. QED  BY <1>1, <1>2, <1>3, <1>4, DriverKeyIs

LEMMA DefaultIsRead ==
  /\ Start \o Braces \in Texts /\ KeysRead(Start \o Braces)
  /\ Reading(Start \o Braces) = {With(<<>>, DriverKey, DefaultDriver)}
<1>1. Start \in Texts /\ Braces \in Texts /\ ~Has(Braces, Keys)
  BY StartIs, BracesAre
<1>2. Start \o Braces \in Texts /\ KeysRead(Start \o Braces)
  BY <1>1, StartIsRead, TextsJoin, KeysReadJoin
<1>3. PICK o \in Opening, c \in Closing, m \in Units :
        Braces = (<<o>> \o <<m>>) \o <<c>> /\ DefaultDriver = <<m>> /\ m \notin Closing
  BY BracesAre
<1>4. o \in Units /\ c \in Units
  BY UnitsAre
<1>5. \A a \in Units : <<a>> \in Texts
  BY DEF Texts
<1>6. <<o>> \in Texts /\ <<m>> \in Texts /\ <<c>> \in Texts /\ <<o>> \o <<m>> \in Texts
  BY <1>4, <1>5, TextsJoin
<1>. DEFINE r == AtStart(DriverKey, <<>>, <<>>)
<1>7. Scan(r, <<o>>) = AtBraced(DriverKey, <<>>, <<>>)
  BY <1>4, ScanOne, StartOpens
<1>8. Scan(AtBraced(DriverKey, <<>>, <<>>), <<m>>) = AtBraced(DriverKey, <<m>>, <<>>)
  <2>1. Append(<<>>, m) = <<m>>
    BY JoinOne, UnitsAre
  <2>2. Scan(AtBraced(DriverKey, <<>>, <<>>), <<m>>) = ReadUnit(AtBraced(DriverKey, <<>>, <<>>), m)
    BY ScanOne
  <2>3. ReadUnit(AtBraced(DriverKey, <<>>, <<>>), m) = AtBraced(DriverKey, Append(<<>>, m), <<>>)
    BY <1>3, BracedGoesOn
  <2>. QED  BY <2>1, <2>2, <2>3
<1>9. Scan(AtBraced(DriverKey, <<m>>, <<>>), <<c>>) = AtClosed(DriverKey, <<m>>, <<>>)
  BY <1>4, ScanOne, BracedCloses
<1>. HIDE DEF r
<1>10. Scan(r, <<o>> \o <<m>>) = AtBraced(DriverKey, <<m>>, <<>>)
  BY <1>6, <1>7, <1>8, ScanConcat
<1>11. Scan(r, (<<o>> \o <<m>>) \o <<c>>) = AtClosed(DriverKey, <<m>>, <<>>)
  BY <1>6, <1>9, <1>10, ScanConcat
<1>12. Scan(Begun, Start \o Braces) = AtClosed(DriverKey, <<m>>, <<>>)
  <2>1. Scan(Begun, Start \o Braces) = Scan(Scan(Begun, Start), Braces)
    BY <1>1, ScanConcat
  <2>2. Scan(Begun, Start) = r
    BY StartIsRead DEF r
  <2>. QED  BY <1>3, <1>11, <2>1, <2>2
<1>13. PICK e : e \in Ending
  BY DEF Ending
<1>14. ReadUnit(AtClosed(DriverKey, <<m>>, <<>>), e) =
         AtKey(DriverKey, <<m>>, Settled(<<>>, DriverKey, <<m>>))
  BY <1>13, Ends
<1>15. Reading(Start \o Braces) = {Settled(<<>>, DriverKey, <<m>>)}
  BY <1>2, <1>12, <1>13, <1>14, ReadsAs
<1>16. Settled(<<>>, DriverKey, <<m>>) = With(<<>>, DriverKey, <<m>>)
  BY DEF Settled
<1>. QED  BY <1>2, <1>3, <1>15, <1>16

(* A driver that is read as one value without keys holds none.             *)
LEMMA GivenDriverPlain ==
  ASSUME NEW d \in Texts, KeysOnce(Start \o d), KeysRead(Start \o d), NEW s,
         Reading(Start \o d) = {s}, DOMAIN s = {DriverKey}
  PROVE  ~Has(d, Keys)
<1>1. Start \o d \in Texts /\ DOMAIN s = Names(Start \o d)
  BY StartIs, TextsJoin, KeysOfReading
<1>2. ASSUME Has(d, Keys)  PROVE FALSE
  <2>1. PICK j \in DOMAIN d : d[j] \in Keys
    BY <1>2 DEF Has
  <2>2. /\ DOMAIN d = 1..Len(d) /\ Len(d) \in Nat /\ DOMAIN (Start \o d) = 1..(1 + Len(d))
        /\ (Start \o d)[1] = DriverKey /\ (Start \o d)[1 + j] = d[j]
    <3>1. PICK x \in Units : x = DriverKey
      BY DriverKeyIs
    <3>2. Start = <<x>> /\ Start \in Texts
      BY <3>1, DriverKeyIs, StartIs
    <3>3. /\ DOMAIN d = 1..Len(d) /\ Len(d) \in Nat
      BY DEF Texts
    <3>4. DOMAIN (<<x>> \o d) = 1..(1 + Len(d)) /\ (<<x>> \o d)[1] = x
          /\ (<<x>> \o d)[1 + j] = d[j]
      BY <2>1, <3>3 DEF Texts
    <3>. QED  BY <3>1, <3>2, <3>3, <3>4
  <2>3. 1 \in 1..(1 + Len(d)) /\ 1 + j \in 1..(1 + Len(d)) /\ 1 + j # 1
    BY <2>1, <2>2
  <2>4. Name(d[j]) = DriverKey
    <3>1. Has(Start \o d, {d[j]})
      BY <2>2, <2>3 DEF Has
    <3>2. Name(d[j]) \in Names(Start \o d)
      BY <2>1, <3>1 DEF Names
    <3>. QED  BY <1>1, <3>2
  <2>5. Name((Start \o d)[1]) = Name((Start \o d)[1 + j])
        /\ (Start \o d)[1] \in Keys /\ (Start \o d)[1 + j] \in Keys
    BY <2>1, <2>2, <2>4, DriverKeyIs
  <2>. QED  BY <2>2, <2>3, <2>5 DEF KeysOnce
<1>. QED  BY <1>2

(* The requests.                                                           *)
IsUrl(q) == q.form = "url"

LEMMA RequestsAre ==
  ASSUME NEW c \in Clients, NEW q \in Requests[c]
  PROVE  /\ q.text \in Texts /\ q.database \in Texts /\ q.odbc \in BOOLEAN
         /\ q.form = "url" \/ q.form = "text"
         /\ q.form = "text" => KeysOnce(q.text)
         /\ IsUrl(q) =>
              /\ UrlOK(q) /\ q.query \in Seq(Params) /\ OneDriver(q.query)
              /\ \A i \in DOMAIN q.query : Drives(q.query[i]) =>
                   /\ KeysOnce(Start \o q.query[i].value)
                   /\ Reading(Start \o q.query[i].value) # {}
                   /\ \A s \in Reading(Start \o q.query[i].value) :
                        DOMAIN s = {DriverKey} /\ s[DriverKey] # <<>>
<1>1. /\ q \in [form : {"url", "text"}, odbc : BOOLEAN, text : Texts, host : Texts,
                database : Texts, user : Texts, password : Texts,
                query : Seq([key : STRING, value : Texts])]
      /\ q.form = "text" => KeysOnce(q.text)
  BY RequestsAssumption
<1>2. IsUrl(q) => UrlOK(q)
  BY <1>1, RequestsAssumption DEF UrlOK, IsUrl, Ending, Opening, Has
<1>3. q.query \in Seq(Params)
  BY <1>1 DEF Params
<1>4. IsUrl(q) => OneDriver(q.query)
  BY RequestsAssumption DEF OneDriver, IsUrl, Drives
<1>5. ASSUME IsUrl(q), NEW i \in DOMAIN q.query, Drives(q.query[i])
      PROVE  /\ KeysOnce(Start \o q.query[i].value)
             /\ Reading(Start \o q.query[i].value) # {}
             /\ \A s \in Reading(Start \o q.query[i].value) :
                  DOMAIN s = {DriverKey} /\ s[DriverKey] # <<>>
  <2>1. PICK p : p = q.query[i]
    OBVIOUS
  <2>2. p \in Range(q.query) /\ p.key = "driver"
    BY <1>5, <2>1 DEF Range, Drives
  <2>3. LET text == <<"Driver=">> \o p.value
        IN  /\ KeysOnce(text) /\ Reading(text) # {}
            /\ \A s \in Reading(text) : DOMAIN s = {"Driver="} /\ s["Driver="] # <<>>
    BY <1>5, <2>2, RequestsAssumption DEF IsUrl
  <2>. QED  BY <2>1, <2>3 DEF Start, DriverKey
<1>. QED  BY <1>1, <1>2, <1>3, <1>4, <1>5

(* Its driver, as it is asked for and as it is read.                       *)
DriverReads(q, d, s) ==
  /\ Chosen(q.query, d)
  /\ Reading(Start \o d) = {s} /\ DOMAIN s = {DriverKey}
  /\ s = With(<<>>, DriverKey, s[DriverKey]) /\ s[DriverKey] # <<>>
  /\ DriverAsked(q) = {s[DriverKey]}
  /\ ~Has(s[DriverKey], Keys) => PlainDriver(q.query) /\ KeysRead(Start \o d)

LEMMA DriverIsRead ==
  ASSUME NEW c \in Clients, NEW q \in Requests[c], IsUrl(q),
         NEW d \in Texts, Chosen(q.query, d)
  PROVE  \E s : DriverReads(q, d, s)
<1>. DEFINE p == q.query
            given == {x \in Range(p) : x.key = "driver"}
<1>1. CASE (\A i \in DOMAIN p : ~Drives(p[i])) /\ d = Braces
  <2>1. PICK s : s = With(<<>>, DriverKey, DefaultDriver)
    OBVIOUS
  <2>2. DOMAIN s = {DriverKey} /\ s[DriverKey] = DefaultDriver /\ DefaultDriver # <<>>
    BY <2>1, BracesAre DEF With
  <2>3. Reading(Start \o d) = {s} /\ KeysRead(Start \o d)
    BY <1>1, <2>1, DefaultIsRead
  <2>4. PlainDriver(q.query)
    BY <1>1 DEF PlainDriver
  <2>5. DriverAsked(q) = {DefaultDriver}
    <3>1. given = {}
      BY <1>1 DEF Range, Drives
    <3>. QED  BY <3>1 DEF DriverAsked
  <2>6. DriverReads(q, d, s)
    BY <2>1, <2>2, <2>3, <2>4, <2>5 DEF DriverReads
  <2>. QED  BY <2>6
<1>2. ASSUME NEW i \in DOMAIN p, Drives(p[i]), d = p[i].value
      PROVE  \E s : DriverReads(q, d, s)
  <2>1. /\ KeysOnce(Start \o d) /\ Reading(Start \o d) # {} /\ OneDriver(p)
        /\ \A s \in Reading(Start \o d) : DOMAIN s = {DriverKey} /\ s[DriverKey] # <<>>
    BY <1>2, RequestsAre
  <2>2. PICK s \in Reading(Start \o d) : DOMAIN s = {DriverKey} /\ s[DriverKey] # <<>>
    BY <2>1
  <2>3. Start \o d \in Texts
    BY StartIs, TextsJoin
  <2>4. Reading(Start \o d) = {s} /\ s = [n \in DOMAIN s |-> s[n]]
    BY <2>2, <2>3, OneReading
  <2>5. s = With(<<>>, DriverKey, s[DriverKey])
    <3>1. With(<<>>, DriverKey, s[DriverKey]) = [n \in {DriverKey} |-> s[DriverKey]]
      BY DEF With
    <3>2. s = [n \in {DriverKey} |-> s[n]]
      BY <2>2, <2>4
    <3>3. [n \in {DriverKey} |-> s[n]] = [n \in {DriverKey} |-> s[DriverKey]]
      OBVIOUS
    <3>. QED  BY <3>1, <3>2, <3>3
  <2>6. DriverAsked(q) = {s[DriverKey]}
    <3>1. given = {p[i]}
      <4>1. \A x : x \in given <=> \E j \in DOMAIN p : x = p[j] /\ Drives(p[j])
        BY DEF Range, Drives
      <4>2. \A j \in DOMAIN p : Drives(p[j]) => j = i
        BY <1>2, <2>1 DEF OneDriver
      <4>. HIDE DEF given
      <4>. QED  BY <1>2, <4>1, <4>2
    <3>2. {Reading(<<"Driver=">> \o x.value) : x \in given} = {Reading(Start \o d)}
      BY <1>2, <3>1 DEF Start
    <3>3. UNION {Reading(<<"Driver=">> \o x.value) : x \in given} = {s}
      BY <2>4, <3>2
    <3>4. DriverAsked(q) = {r["Driver="] : r \in {s}}
      BY <3>1, <3>3 DEF DriverAsked
    <3>. QED  BY <3>4 DEF DriverKey
  <2>7. ASSUME ~Has(s[DriverKey], Keys)
        PROVE  PlainDriver(p) /\ KeysRead(Start \o d)
    <3>1. KeysRead(Start \o d)
      BY <2>1, <2>2, <2>3, <2>4, <2>7, PlainTextsKeys
    <3>2. ~Has(d, Keys)
      BY <2>1, <2>2, <2>4, <3>1, GivenDriverPlain
    <3>3. PlainDriver(p)
      BY <1>2, <2>1, <3>2 DEF PlainDriver, OneDriver
    <3>. QED  BY <3>1, <3>3
  <2>8. DriverReads(q, d, s)
    BY <2>2, <2>4, <2>5, <2>6, <2>7 DEF DriverReads
  <2>. QED  BY <2>8
<1>. QED  BY <1>1, <1>2 DEF Chosen

(* What a URL comes to, and what is asked for with it.                     *)
UrlReads(q, s, f, g) ==
  /\ FromStr(q) \in Texts /\ Reading(FromStr(q)) = {Flagged(Login(q, s), f, g)}
  /\ DOMAIN s = {DriverKey} /\ s = With(<<>>, DriverKey, s[DriverKey])
  /\ s[DriverKey] # <<>> /\ DriverAsked(q) = {s[DriverKey]}
  /\ f \in {<<>>, Yes} /\ g \in {<<>>, Yes}
  /\ PlainUrl(q) /\ ~Has(s[DriverKey], Keys) =>
       /\ KeysRead(FromStr(q))
       /\ f = FlagIn(q.query, EncryptOn) /\ g = FlagIn(q.query, TrustOn)

LEMMA UrlIsRead ==
  ASSUME NEW c \in Clients, NEW q \in Requests[c], IsUrl(q)
  PROVE  \E s, f, g : UrlReads(q, s, f, g)
<1>1. UrlOK(q) /\ q.query \in Seq(Params) /\ OneDriver(q.query) /\ q.form = "url"
  BY RequestsAre DEF IsUrl
<1>2. PICK t : t = FromStr(q)
  OBVIOUS
<1>3. Shaped(t, q.query, q)
  <2>1. t = Parameters((Start \o Braces) \o Tail3(q), q.query)
    BY <1>1, <1>2, UrlText
  <2>. QED  BY <1>1, <2>1, ParametersShaped
<1>4. PICK d \in Texts : \E b1 \in Texts : \E f1, g1 : ShapedBy(t, q.query, q, d, b1, f1, g1)
  BY <1>3 DEF Shaped
<1>5. PICK b \in Texts : \E f1, g1 : ShapedBy(t, q.query, q, d, b, f1, g1)
  BY <1>4
<1>6. PICK f, g : ShapedBy(t, q.query, q, d, b, f, g)
  BY <1>5
<1>7. /\ Chosen(q.query, d) /\ Serves(b, q, f, g) /\ t = (Start \o d) \o b
      /\ PlainUrl(q) /\ PlainDriver(q.query) =>
           f = FlagIn(q.query, EncryptOn) /\ g = FlagIn(q.query, TrustOn)
  BY <1>6 DEF ShapedBy
<1>8. PICK s : DriverReads(q, d, s)
  BY <1>7, DriverIsRead
<1>9. /\ Reading(Start \o d) = {s} /\ DOMAIN s = {DriverKey}
      /\ s = With(<<>>, DriverKey, s[DriverKey]) /\ s[DriverKey] # <<>>
      /\ DriverAsked(q) = {s[DriverKey]}
      /\ ~Has(s[DriverKey], Keys) => PlainDriver(q.query) /\ KeysRead(Start \o d)
  BY <1>8 DEF DriverReads
<1>10. Leads(b, q, f, g) /\ f \in {<<>>, Yes} /\ g \in {<<>>, Yes}
  BY <1>7 DEF Serves
<1>11. PICK x \in Texts : x = Start \o d
  BY StartIs, TextsJoin
<1>12. /\ x \o b \in Texts /\ Reading(x \o b) = {Flagged(Login(q, s), f, g)}
       /\ PlainUrl(q) /\ KeysRead(x) => KeysRead(x \o b)
  BY <1>9, <1>10, <1>11 DEF Leads, DriverKey
<1>13. FromStr(q) = x \o b
  BY <1>2, <1>7, <1>11
<1>14. PlainUrl(q) /\ ~Has(s[DriverKey], Keys) =>
         /\ KeysRead(FromStr(q))
         /\ f = FlagIn(q.query, EncryptOn) /\ g = FlagIn(q.query, TrustOn)
  BY <1>7, <1>9, <1>11, <1>12, <1>13
<1>15. UrlReads(q, s, f, g)
  BY <1>9, <1>10, <1>12, <1>13, <1>14 DEF UrlReads
<1>. QED  BY <1>15

LEMMA UrlAsks ==
  ASSUME NEW q, IsUrl(q), NEW s, NEW f, NEW g, UrlReads(q, s, f, g)
  PROVE  Asked(q) = {Flagged(Login(q, s), FlagIn(q.query, EncryptOn), FlagIn(q.query, TrustOn))}
<1>1. PICK d : d = s[DriverKey]
  OBVIOUS
<1>2. DriverAsked(q) = {d} /\ Given(<<>>, "Driver=", d) = s
  BY <1>1 DEF UrlReads, Given, DriverKey
<1>3. FlagAsked(q, "encrypt") = FlagIn(q.query, EncryptOn)
      /\ FlagAsked(q, "trust_certificate") = FlagIn(q.query, TrustOn)
  BY DEF FlagAsked, FlagIn, IsSet, EncryptOn, TrustOn, True, Yes, Range
<1>. DEFINE flagged(x) ==
       Given(Given(Given(Given(Given(Given(Given(<<>>, "Driver=", x), "Server=", q.host),
         "Database=", q.database), "UID=", q.user), "PWD=", q.password),
         "Encrypt=", FlagAsked(q, "encrypt")),
         "TrustServerCertificate=", FlagAsked(q, "trust_certificate"))
<1>4. Asked(q) = {flagged(x) : x \in DriverAsked(q)}
  BY DEF Asked, IsUrl
<1>5. Asked(q) = {flagged(d)}
  <2>. HIDE DEF flagged
  <2>. QED  BY <1>2, <1>4
<1>6. flagged(d) = Flagged(Login(q, s), FlagIn(q.query, EncryptOn), FlagIn(q.query, TrustOn))
  BY <1>2, <1>3 DEF Flagged, Login, Login1, Login2, Login3, EncryptKey, TrustKey
<1>. HIDE DEF flagged
<1>. QED  BY <1>5, <1>6

(* What a URL names is the database that its connection string opens.      *)
LEMMA TargetIs ==
  ASSUME NEW c \in Clients, NEW q \in Requests[c], ~q.odbc,
         NEW name \in ExtractDatabaseName(q)
  PROVE  name \in Texts /\ IsUrl(q) /\ name = q.database /\ Target(q) = {name}
<1>1. IsUrl(q) /\ name = q.database /\ name # <<>>
  <2>1. name = (IF q.form = "url" THEN q.database ELSE <<>>) /\ name # <<>>
    BY DEF ExtractDatabaseName
  <2>. QED  BY <2>1 DEF IsUrl
<1>2. name \in Texts
  BY <1>1, RequestsAre
<1>3. PICK s, f, g : UrlReads(q, s, f, g)
  BY <1>1, UrlIsRead
<1>4. /\ Reading(FromStr(q)) = {Flagged(Login(q, s), f, g)} /\ DOMAIN s = {"Driver="}
      /\ f \in {<<>>, Yes} /\ g \in {<<>>, Yes}
  BY <1>3 DEF UrlReads, DriverKey
<1>5. PICK l : l = Login(q, s)
  OBVIOUS
<1>6. DOMAIN l \subseteq UrlKeys /\ "Database=" \in DOMAIN l /\ l["Database="] = name
  BY <1>1, <1>4, <1>5, LoginIs
<1>7. \A n \in DOMAIN l : n \in DOMAIN Flagged(l, f, g) /\ Flagged(l, f, g)[n] = l[n]
  BY <1>4, <1>6, FlaggedIs
<1>8. DatabaseIn(Flagged(l, f, g)) = name
  BY <1>6, <1>7 DEF DatabaseIn
<1>9. q \in UNION {Requests[d] : d \in Clients}
  OBVIOUS
<1>10. Target(q) = {DatabaseIn(r) : r \in Reading(FromStr(q))}
  BY <1>9 DEF Target, Targets
<1>. QED  BY <1>1, <1>2, <1>4, <1>5, <1>8, <1>10

(* A client's step is a step of its own call.                              *)
LEMMA OthersStand ==
  ASSUME SetupInv, NEW c \in Clients, NEW d \in Clients, c # d,
         \/ Begin(c) \/ Build(c) \/ Connect(c) \/ ConnectFailed(c)
         \/ CreateDatabase(c) \/ DropDatabase(c) \/ DatabaseExists(c)
         \/ StatementFailed(c) \/ Disconnect(c) \/ Prepare(c) \/ Close(c)
  PROVE  client'[d] = client[d]
<1>1. \A next : client' = [client EXCEPT ![c] = next] => client'[d] = client[d]
  BY DEF SetupInv, CallsOK
<1>2. CASE Begin(c)
  <2>1. \E next : client' = [client EXCEPT ![c] = next]
    BY <1>2 DEF Begin
  <2>. QED  BY <1>1, <2>1
<1>3. CASE Build(c)
  <2>1. \E text, asked : client' = [client EXCEPT ![c].text = text, ![c].asked = asked]
    BY <1>3 DEF Build
  <2>2. \E next : client' = [client EXCEPT ![c] = next]
    BY <2>1
  <2>. QED  BY <1>1, <2>2
<1>4. CASE Connect(c)
  <2>1. \E next : client' = [client EXCEPT ![c] = next]
    BY <1>4 DEF Connect
  <2>. QED  BY <1>1, <2>1
<1>5. CASE ConnectFailed(c)
  <2>1. \E next : client' = [client EXCEPT ![c] = next]
    BY <1>5 DEF ConnectFailed
  <2>. QED  BY <1>1, <2>1
<1>6. CASE CreateDatabase(c) \/ DropDatabase(c) \/ DatabaseExists(c) \/ StatementFailed(c)
  <2>1. \E op, result : Execute(c, op, result)
    BY <1>6 DEF CreateDatabase, DropDatabase, DatabaseExists, StatementFailed
  <2>. QED  BY <1>1, <2>1 DEF Execute
<1>7. CASE Disconnect(c) \/ Prepare(c)
  BY <1>7 DEF Disconnect, Prepare
<1>8. CASE Close(c)
  BY <1>1, <1>8 DEF Close
<1>. QED  BY <1>2, <1>3, <1>4, <1>5, <1>6, <1>7, <1>8

(* How a call on a database comes to its end.                              *)
Refused(c) ==
  /\ client'[c] = Idle("err") \/ (client[c].pc = "master" /\ client[c].op = "exists"
                                    /\ client'[c] = Idle("false"))
  /\ databases' = databases

Opened(c) ==
  /\ client[c].pc = "direct" /\ client'[c] = Idle("true") /\ databases' = databases
  /\ \E s \in Reading(client[c].text) : Opens(s)

LEMMA ConnectEnds ==
  ASSUME SetupInv, NEW c \in Clients, Connect(c), client'[c].pc = "idle"
  PROVE  Opened(c)
<1>. DEFINE call == client[c]
<1>1. PICK s \in Reading(call.text) :
        /\ Opens(s)
        /\ client' = [client EXCEPT ![c] =
             CASE call.pc = "building" -> [@ EXCEPT !.pc = "connected", !.on = DatabaseIn(s)]
               [] call.pc = "direct" -> Idle("true")
               [] call.pc = "master" -> [@ EXCEPT !.pc = "statement", !.on = DatabaseIn(s)]]
  BY DEF Connect
<1>2. PICK n : n = DatabaseIn(s)
  OBVIOUS
<1>3. PICK next : next = CASE call.pc = "building" -> [call EXCEPT !.pc = "connected", !.on = n]
                           [] call.pc = "direct" -> Idle("true")
                           [] call.pc = "master" -> [call EXCEPT !.pc = "statement", !.on = n]
  OBVIOUS
<1>4. client' = [client EXCEPT ![c] = next]
  BY <1>1, <1>2, <1>3
<1>5. client'[c] = next
  BY <1>4 DEF SetupInv, CallsOK
<1>6. call.pc \in {"building", "direct", "master"} /\ CallOK(c, call) /\ databases' = databases
  BY DEF SetupInv, CallsOK, Connect
<1>. HIDE DEF call
<1>7. call.pc = "direct"
  <2>. SUFFICES ASSUME call.pc # "direct"  PROVE FALSE
    BY <1>6
  <2>1. PICK pc : /\ next = [call EXCEPT !.pc = pc, !.on = n]
                  /\ pc = IF call.pc = "building" THEN "connected" ELSE "statement"
    BY <1>3, <1>6
  <2>2. next = [pc |-> pc, op |-> call.op, q |-> call.q, text |-> call.text,
                asked |-> call.asked, on |-> n, result |-> call.result]
    BY <1>6, <2>1, MovedIs DEF CallOK
  <2>3. next.pc = pc
    BY <2>2
  <2>. QED  BY <1>5, <2>1, <2>3
<1>8. next = Idle("true")
  BY <1>3, <1>7
<1>. QED  BY <1>1, <1>5, <1>6, <1>7, <1>8 DEF Opened, call

LEMMA ConnectFailedEnds ==
  ASSUME SetupInv, NEW c \in Clients, ConnectFailed(c), client'[c].pc = "idle"
  PROVE  Refused(c)
<1>. DEFINE call == client[c]
<1>1. PICK next : /\ client' = [client EXCEPT ![c] = next]
                  /\ next \in CASE call.pc = "direct" -> ToMaster(call)
                               [] call.pc = "master" /\ call.op = "exists" -> {Idle("false")}
                               [] OTHER -> {Idle("err")}
  BY DEF ConnectFailed
<1>2. client'[c] = next /\ CallOK(c, call) /\ databases' = databases
  BY <1>1 DEF SetupInv, CallsOK, ConnectFailed
<1>. HIDE DEF call
<1>3. \/ next = Idle("err")
      \/ call.pc = "master" /\ call.op = "exists" /\ next = Idle("false")
  <2>1. CASE call.pc = "direct"
    <3>1. next \in ToMaster(call)
      BY <1>1, <2>1
    <3>2. /\ call = [pc |-> call.pc, op |-> call.op, q |-> call.q, text |-> call.text,
                     asked |-> call.asked, on |-> <<>>, result |-> "none"]
          /\ call.op \in {"exists", "create", "drop"} /\ call.q \in Requests[c]
      BY <1>2, <2>1 DEF CallOK
    <3>3. next = Idle("err") \/ next.pc = "master"
      BY <3>1, <3>2, ToMasterOK
    <3>. QED  BY <1>2, <3>3
  <2>2. CASE call.pc # "direct" /\ call.pc = "master" /\ call.op = "exists"
    BY <1>1, <2>2
  <2>3. CASE call.pc # "direct" /\ ~(call.pc = "master" /\ call.op = "exists")
    BY <1>1, <2>3
  <2>. QED  BY <2>1, <2>2, <2>3
<1>. QED  BY <1>2, <1>3 DEF Refused, call

LEMMA CallEnds ==
  ASSUME SetupInv, [SetupNext]_setupVars, NEW c \in Clients,
         client[c].op \in {"exists", "create", "drop"}, client'[c].pc = "idle"
  PROVE  \/ Refused(c) \/ Opened(c)
         \/ CreateDatabase(c) \/ DropDatabase(c) \/ DatabaseExists(c)
<1>1. CallOK(c, client[c]) /\ client[c].pc \notin {"idle", "building", "connected"}
  BY DEF SetupInv, CallsOK, CallOK
<1>2. client'[c] # client[c]
  BY <1>1
<1>3. SetupNext
  BY <1>2 DEF setupVars
<1>4. PICK d \in Clients :
        \/ Begin(d) \/ Build(d) \/ Connect(d) \/ ConnectFailed(d)
        \/ CreateDatabase(d) \/ DropDatabase(d) \/ DatabaseExists(d)
        \/ StatementFailed(d) \/ Disconnect(d) \/ Prepare(d) \/ Close(d)
  BY <1>3 DEF SetupNext
<1>5. d = c
  BY <1>2, <1>4, OthersStand
<1>6. ~Begin(c) /\ ~Build(c) /\ ~Prepare(c) /\ ~Close(c)
  BY <1>1 DEF Begin, Build, Prepare, Close
<1>7. ~Disconnect(c)
  BY <1>2 DEF Disconnect
<1>8. StatementFailed(c) => Refused(c)
  <2>. SUFFICES ASSUME StatementFailed(c)  PROVE Refused(c)
    OBVIOUS
  <2>1. PICK op : Execute(c, op, "err")
    BY DEF StatementFailed
  <2>2. client'[c] = Idle("err") /\ databases' = databases
    BY <2>1, ExecuteKeeps DEF StatementFailed
  <2>. QED  BY <2>2 DEF Refused
<1>. QED  BY <1>4, <1>5, <1>6, <1>7, <1>8, ConnectEnds, ConnectFailedEnds

-----------------------------------------------------------------------------
(* create_database and drop_database act on their target alone.            *)
Hits(c) ==
  LET op == client[c].op
      q  == client[c].q
      other(n) == n \in DOMAIN databases <=> n \in DOMAIN databases'
  IN  op \in {"create", "drop"} /\ client'[c].pc = "idle" /\ ~q.odbc =>
        /\ \A n \in ((DOMAIN databases) \cup (DOMAIN databases')) \ Target(q) : other(n)
        /\ client'[c].result = "ok" => (There(q, databases') <=> op = "create")

LEMMA StatementHits ==
  ASSUME SetupInv, NEW c \in Clients, ~client[c].q.odbc, NEW op, NEW result,
         Execute(c, op, result),
         NEW name \in ExtractDatabaseName(client[c].q)
  PROVE  /\ client[c].op = op /\ name \in Texts /\ Target(client[c].q) = {name}
         /\ Bracketed(name) = {name} /\ Literal(name) = {name}
         /\ client' = [client EXCEPT ![c] = Idle(result)] /\ client'[c] = Idle(result)
<1>1. CallOK(c, client[c]) /\ client[c].pc = "statement" /\ client[c].op = op
  BY DEF Execute, SetupInv, CallsOK
<1>2. PICK q \in Requests[c] : q = client[c].q
  BY <1>1 DEF CallOK
<1>3. name \in Texts /\ Target(q) = {name}
  BY <1>2, TargetIs
<1>4. Bracketed(name) = {name} /\ Literal(name) = {name}
  BY <1>3, NamesReadBack
<1>5. client' = [client EXCEPT ![c] = Idle(result)] /\ client'[c] = Idle(result)
  BY DEF Execute, SetupInv, CallsOK
<1>. QED  BY <1>1, <1>2, <1>3, <1>4, <1>5

LEMMA StepHits ==
  ASSUME SetupInv, [SetupNext]_setupVars, NEW c \in Clients
  PROVE  Hits(c)
<1>. DEFINE op == client[c].op
            q  == client[c].q
<1>. SUFFICES ASSUME op \in {"create", "drop"}, client'[c].pc = "idle", ~q.odbc
              PROVE  /\ \A n \in ((DOMAIN databases) \cup (DOMAIN databases')) \ Target(q) :
                          n \in DOMAIN databases <=> n \in DOMAIN databases'
                     /\ client'[c].result = "ok" => (There(q, databases') <=> op = "create")
  BY DEF Hits
<1>1. \/ Refused(c) \/ Opened(c)
      \/ CreateDatabase(c) \/ DropDatabase(c) \/ DatabaseExists(c)
  BY CallEnds
<1>2. CASE Refused(c)
  <2>1. client'[c].result \in {"err", "false"} /\ databases' = databases
    BY <1>2, IdleIs DEF Refused
  <2>. QED  BY <2>1
<1>3. ~Opened(c) /\ ~DatabaseExists(c)
  <2>1. client[c].pc # "direct"
    BY DEF SetupInv, CallsOK, CallOK
  <2>. QED  BY <2>1 DEF Opened, DatabaseExists, Execute
<1>4. CASE CreateDatabase(c)
  <2>1. PICK name \in ExtractDatabaseName(q) : \E n \in Bracketed(name) :
          n \notin DOMAIN databases /\ databases' = With(databases, n, EmptyDatabase)
    BY <1>4 DEF CreateDatabase
  <2>2. PICK n \in Bracketed(name) :
          n \notin DOMAIN databases /\ databases' = With(databases, n, EmptyDatabase)
    BY <2>1
  <2>3. op = "create" /\ Target(q) = {name} /\ Bracketed(name) = {name}
    BY <1>4, <2>2, StatementHits DEF CreateDatabase
  <2>4. n = name /\ DOMAIN databases' = DOMAIN databases \cup {n}
    BY <2>2, <2>3 DEF With
  <2>. QED  BY <2>3, <2>4 DEF There
<1>5. CASE DropDatabase(c)
  <2>1. PICK name \in ExtractDatabaseName(q) : \E n \in Bracketed(name) :
          databases' = [m \in (DOMAIN databases) \ {n} |-> databases[m]]
    BY <1>5 DEF DropDatabase
  <2>2. PICK n \in Bracketed(name) :
          databases' = [m \in (DOMAIN databases) \ {n} |-> databases[m]]
    BY <2>1
  <2>3. op = "drop" /\ Target(q) = {name} /\ Bracketed(name) = {name}
    BY <1>5, <2>2, StatementHits DEF DropDatabase
  <2>4. n = name /\ DOMAIN databases' = (DOMAIN databases) \ {n}
    BY <2>2, <2>3
  <2>. QED  BY <2>3, <2>4 DEF There
<1>. QED  BY <1>1, <1>2, <1>3, <1>4, <1>5

(* create_database and drop_database act on the database that a connection *)
(* with the same URL opens, and on no other (migrate.rs:85-98, 130-143).   *)
THEOREM StatementsHitTheirTarget == SetupSpec => SetupHitsItsTarget
<1>1. SetupInv /\ [SetupNext]_setupVars =>
        [\A c \in Clients :
           LET op == client[c].op
               q  == client[c].q
               other(n) == n \in DOMAIN databases <=> n \in DOMAIN databases'
           IN  op \in {"create", "drop"} /\ client'[c].pc = "idle" /\ ~q.odbc =>
                 /\ \A n \in ((DOMAIN databases) \cup (DOMAIN databases')) \ Target(q) : other(n)
                 /\ client'[c].result = "ok" => (There(q, databases') <=> op = "create")]_setupVars
  BY StepHits DEF Hits
<1>. QED  BY <1>1, AlwaysSetupInv, PTL DEF SetupSpec, SetupHitsItsTarget

(* What database_exists says was seen.                                     *)
LEMMA StepSaw ==
  ASSUME SetupInv, [SetupNext]_setupVars, NEW c \in Clients, client[c].op = "exists",
         client'[c].pc = "idle", ~client[c].q.odbc
  PROVE  /\ client'[c].result = "true" => TRUE \in seen[c]
         /\ client'[c].result = "false" => FALSE \in seen[c] \/ client[c].pc = "master"
<1>. DEFINE q == client[c].q
<1>1. /\ There(q, databases) \in seen[c] /\ There(q, databases) \in BOOLEAN
      /\ CallOK(c, client[c])
  BY DEF SetupInv, SeenOK, There, CallsOK
<1>2. \/ Refused(c) \/ Opened(c)
      \/ CreateDatabase(c) \/ DropDatabase(c) \/ DatabaseExists(c)
  BY CallEnds
<1>3. CASE Refused(c)
  <2>1. CASE client'[c] = Idle("err")
    <3>1. client'[c].result = "err"
      BY <2>1, IdleIs
    <3>. QED  BY <3>1
  <2>2. CASE client[c].pc = "master" /\ client'[c] = Idle("false")
    <3>1. client'[c].result = "false"
      BY <2>2, IdleIs
    <3>. QED  BY <2>2, <3>1
  <2>. QED  BY <1>3, <2>1, <2>2 DEF Refused
<1>4. CASE Opened(c)
  <2>1. client'[c].result = "true"
    BY <1>4, IdleIs DEF Opened
  <2>2. client[c].text = FromStr(q) /\ q \in Requests[c]
    BY <1>1, <1>4 DEF Opened, CallOK
  <2>3. PICK s \in Reading(FromStr(q)) : DatabaseIn(s) \in DOMAIN databases
    BY <1>4, <2>2 DEF Opened, Opens
  <2>4. DatabaseIn(s) \in Target(q)
    <3>1. q \in UNION {Requests[d] : d \in Clients}
      BY <2>2
    <3>. QED  BY <3>1 DEF Target, Targets
  <2>5. There(q, databases) = TRUE
    BY <1>1, <2>3, <2>4 DEF There
  <2>. QED  BY <1>1, <2>1, <2>5
<1>5. ~CreateDatabase(c) /\ ~DropDatabase(c)
  BY DEF CreateDatabase, DropDatabase, Execute
<1>6. CASE DatabaseExists(c)
  <2>1. PICK name \in ExtractDatabaseName(q) : \E n \in Literal(name) :
          Execute(c, "exists", IF n \in DOMAIN databases THEN "true" ELSE "false")
    BY <1>6 DEF DatabaseExists
  <2>2. PICK n \in Literal(name) :
          Execute(c, "exists", IF n \in DOMAIN databases THEN "true" ELSE "false")
    BY <2>1
  <2>3. PICK result : result = IF n \in DOMAIN databases THEN "true" ELSE "false"
    OBVIOUS
  <2>4. Execute(c, "exists", result)
    BY <2>2, <2>3
  <2>5. Target(q) = {name} /\ Literal(name) = {name} /\ client'[c] = Idle(result)
    BY <2>4, StatementHits
  <2>6. client'[c].result = result
    BY <2>5, IdleIs
  <2>7. There(q, databases) = (n \in DOMAIN databases)
    BY <2>2, <2>5 DEF There
  <2>. QED  BY <1>1, <2>3, <2>6, <2>7
<1>. QED  BY <1>2, <1>3, <1>4, <1>5, <1>6

(* What database_exists says was so at some time during the call           *)
(* (migrate.rs:100-128).                                                   *)
THEOREM ExistenceWasSeen == SetupSpec => ExistsWasSo
<1>1. SetupInv /\ [SetupNext]_setupVars =>
        [\A c \in Clients :
           client[c].op = "exists" /\ client'[c].pc = "idle" /\ ~client[c].q.odbc =>
             /\ client'[c].result = "true" => TRUE \in seen[c]
             /\ client'[c].result = "false" =>
                  FALSE \in seen[c] \/ client[c].pc = "master"]_setupVars
  BY StepSaw
<1>. QED  BY <1>1, AlwaysSetupInv, PTL DEF SetupSpec, ExistsWasSo

(* A connection string says what was asked for, if no value holds a key.   *)
PlainAsked(s) == \A k \in DOMAIN s : ~Has(s[k], Keys)

Faithful(t, s) == t \in Texts /\ (PlainAsked(s) => KeysRead(t) /\ Reading(t) = {s})

(* A text is taken as it is, or as the name of a data source.              *)
LEMMA TextIs ==
  ASSUME NEW c \in Clients, NEW q \in Requests[c], ~IsUrl(q)
  PROVE  FromStr(q) \in Texts /\ KeysOnce(FromStr(q)) /\ Asked(q) = Reading(FromStr(q))
<1>1. q.form = "text" /\ q.text \in Texts /\ KeysOnce(q.text) /\ q.form # "url"
  BY RequestsAre DEF IsUrl
<1>2. CASE Has(q.text, {"="} \cup Keys)
  <2>1. FromStr(q) = q.text
    BY <1>1, <1>2 DEF FromStr
  <2>. QED  BY <1>1, <2>1 DEF Asked
<1>3. CASE ~Has(q.text, {"="} \cup Keys)
  <2>1. FromStr(q) = <<"DSN=">> \o q.text
    BY <1>1, <1>3 DEF FromStr
  <2>2. PICK k \in Keys, t \in Texts : k = "DSN=" /\ t = q.text
    BY <1>1 DEF Keys
  <2>3. ~Has(t, Keys) /\ k \in Units
    BY <1>3, <2>2, UnitsAre DEF Has
  <2>4. FromStr(q) = <<k>> \o t
    BY <2>1, <2>2
  <2>5. <<k>> \o t \in Texts
    BY <2>3, JoinOne, TextsJoin
  <2>6. KeysOnce(<<k>> \o t)
    <3>1. \A i \in DOMAIN (<<k>> \o t) : (<<k>> \o t)[i] \in Keys => i = 1
      <4>1. DOMAIN (<<k>> \o t) = 1..(Len(t) + 1) /\ Len(t) \in Nat
        BY DEF Texts
      <4>2. \A i \in 2..(Len(t) + 1) : (<<k>> \o t)[i] = t[i - 1] /\ i - 1 \in DOMAIN t
        BY DEF Texts
      <4>3. ASSUME NEW i \in DOMAIN (<<k>> \o t), (<<k>> \o t)[i] \in Keys  PROVE i = 1
        <5>1. i \in 1..(Len(t) + 1) /\ (i = 1 \/ i \in 2..(Len(t) + 1))
          BY <4>1
        <5>. QED  BY <2>3, <4>2, <4>3, <5>1 DEF Has
      <4>. QED  BY <4>3
    <3>. QED  BY <3>1 DEF KeysOnce
  <2>7. Asked(q) = Reading(FromStr(q))
    BY <1>1 DEF Asked
  <2>. QED  BY <2>4, <2>5, <2>6, <2>7
<1>. QED  BY <1>2, <1>3

LEMMA UrlPlain ==
  ASSUME NEW c \in Clients, NEW q \in Requests[c], IsUrl(q), NEW s, DOMAIN s = {DriverKey},
         NEW f \in {<<>>, Yes}, NEW g \in {<<>>, Yes},
         PlainAsked(Flagged(Login(q, s), f, g))
  PROVE  PlainUrl(q) /\ ~Has(s[DriverKey], Keys)
<1>1. PICK l : l = Login(q, s)
  OBVIOUS
<1>2. DOMAIN s = {"Driver="}
  BY DEF DriverKey
<1>3. /\ DOMAIN l \subseteq UrlKeys
      /\ "Driver=" \in DOMAIN l /\ l["Driver="] = s["Driver="]
      /\ q.host # <<>> => "Server=" \in DOMAIN l /\ l["Server="] = q.host
      /\ q.database # <<>> => "Database=" \in DOMAIN l /\ l["Database="] = q.database
      /\ q.user # <<>> => "UID=" \in DOMAIN l /\ l["UID="] = q.user
      /\ q.password # <<>> => "PWD=" \in DOMAIN l /\ l["PWD="] = q.password
  BY <1>1, <1>2, LoginIs
<1>4. \A n \in DOMAIN l : n \in DOMAIN Flagged(l, f, g) /\ Flagged(l, f, g)[n] = l[n]
  BY <1>3, FlaggedIs
<1>5. \A n \in DOMAIN l : ~Has(l[n], Keys)
  BY <1>1, <1>4 DEF PlainAsked
<1>6. ~Has(<<>>, Keys)
  BY HasNone
<1>7. ~Has(q.host, Keys)
  BY <1>3, <1>5, <1>6
<1>8. ~Has(q.database, Keys)
  BY <1>3, <1>5, <1>6
<1>9. ~Has(q.user, Keys)
  BY <1>3, <1>5, <1>6
<1>10. ~Has(q.password, Keys)
  BY <1>3, <1>5, <1>6
<1>11. ~Has(s["Driver="], Keys)
  BY <1>3, <1>5
<1>. QED  BY <1>7, <1>8, <1>9, <1>10, <1>11 DEF PlainUrl, DriverKey

LEMMA FlagInIs ==
  ASSUME NEW p, NEW P
  PROVE  FlagIn(p, P) \in {<<>>, Yes}
BY DEF FlagIn

(* What is asked for with a request is what its string says, and names the *)
(* same database.                                                          *)
LEMMA AskedIsRead ==
  ASSUME NEW c \in Clients, NEW q \in Requests[c], NEW a \in Asked(q)
  PROVE  /\ Faithful(FromStr(q), a)
         /\ Target(q) = {DatabaseIn(a)}
<1>1. q \in UNION {Requests[d] : d \in Clients}
  OBVIOUS
<1>2. Target(q) = {DatabaseIn(r) : r \in Reading(FromStr(q))}
  BY <1>1 DEF Target, Targets
<1>3. CASE ~IsUrl(q)
  <2>1. FromStr(q) \in Texts /\ KeysOnce(FromStr(q)) /\ a \in Reading(FromStr(q))
    BY <1>3, TextIs
  <2>2. PICK t \in Texts : t = FromStr(q)
    BY <2>1
  <2>3. Reading(t) = {a}
    BY <2>1, <2>2, OneReading
  <2>4. PlainAsked(a) => KeysRead(t)
    BY <2>1, <2>2, <2>3, PlainTextsKeys DEF PlainAsked
  <2>. QED  BY <1>2, <2>2, <2>3, <2>4 DEF Faithful
<1>4. CASE IsUrl(q)
  <2>1. PICK s, f, g : UrlReads(q, s, f, g)
    BY <1>4, UrlIsRead
  <2>2. PICK f1, g1 : f1 = FlagIn(q.query, EncryptOn) /\ g1 = FlagIn(q.query, TrustOn)
    OBVIOUS
  <2>3. Asked(q) = {Flagged(Login(q, s), f1, g1)}
    BY <1>4, <2>1, <2>2, UrlAsks
  <2>4. /\ FromStr(q) \in Texts /\ Reading(FromStr(q)) = {Flagged(Login(q, s), f, g)}
        /\ DOMAIN s = {DriverKey} /\ f \in {<<>>, Yes} /\ g \in {<<>>, Yes}
        /\ PlainUrl(q) /\ ~Has(s[DriverKey], Keys) =>
             KeysRead(FromStr(q)) /\ f = f1 /\ g = g1
    BY <2>1, <2>2 DEF UrlReads
  <2>5. f1 \in {<<>>, Yes} /\ g1 \in {<<>>, Yes}
    BY <2>2, FlagInIs
  <2>6. a = Flagged(Login(q, s), f1, g1)
    BY <2>3
  <2>7. PlainAsked(a) => KeysRead(FromStr(q)) /\ Reading(FromStr(q)) = {a}
    <3>. SUFFICES ASSUME PlainAsked(a)
                  PROVE  KeysRead(FromStr(q)) /\ Reading(FromStr(q)) = {a}
      OBVIOUS
    <3>1. PlainUrl(q) /\ ~Has(s[DriverKey], Keys)
      BY <1>4, <2>4, <2>5, <2>6, UrlPlain
    <3>. QED  BY <2>4, <2>6, <3>1
  <2>8. DatabaseIn(Flagged(Login(q, s), f, g)) = DatabaseIn(Flagged(Login(q, s), f1, g1))
    <3>1. PICK l : l = Login(q, s)
      OBVIOUS
    <3>2. DOMAIN l \subseteq UrlKeys
      <4>1. DOMAIN s = {"Driver="}
        BY <2>4 DEF DriverKey
      <4>. QED  BY <3>1, <4>1, LoginIs
    <3>3. ASSUME NEW x \in {<<>>, Yes}, NEW y \in {<<>>, Yes}
          PROVE  DatabaseIn(Flagged(l, x, y)) = DatabaseIn(l)
      <4>1. \A n \in DOMAIN l : n \in DOMAIN Flagged(l, x, y) /\ Flagged(l, x, y)[n] = l[n]
        BY <3>2, FlaggedIs
      <4>2. DOMAIN Flagged(l, x, y) \subseteq DOMAIN l \cup {EncryptKey, TrustKey}
        <5>1. PICK m : m = Given(l, EncryptKey, x)
          OBVIOUS
        <5>2. DOMAIN m \subseteq DOMAIN l \cup {EncryptKey}
          BY <5>1, GivenIs
        <5>3. DOMAIN Given(m, TrustKey, y) \subseteq DOMAIN m \cup {TrustKey}
          BY GivenIs
        <5>. QED  BY <5>1, <5>2, <5>3 DEF Flagged
      <4>3. "Database=" # EncryptKey /\ "Database=" # TrustKey
        BY DEF EncryptKey, TrustKey
      <4>4. PICK m : m = Flagged(l, x, y)
        OBVIOUS
      <4>5. "Database=" \in DOMAIN m <=> "Database=" \in DOMAIN l
        BY <4>1, <4>2, <4>3, <4>4
      <4>6. DatabaseIn(m) = DatabaseIn(l)
        BY <4>1, <4>4, <4>5 DEF DatabaseIn
      <4>. QED  BY <4>4, <4>6
    <3>. QED  BY <2>4, <2>5, <3>1, <3>3
  <2>. QED  BY <1>2, <2>4, <2>6, <2>7, <2>8 DEF Faithful
<1>. QED  BY <1>3, <1>4

-----------------------------------------------------------------------------
(* A flag of the builder is set where it is not.                           *)
LEMMA NameRead ==
  ASSUME NEW t \in Texts, KeysRead(t), NEW s, Reading(t) = {s},
         NEW k \in Keys, Name(k) = k, Has(t, {k})
  PROVE  k \in DOMAIN s
<1>1. DOMAIN s = Names(t)
  BY KeysOfReading
<1>. QED  BY <1>1 DEF Names

LEMMA FlagSet ==
  ASSUME NEW t, NEW s, Faithful(t, s), NEW k \in Keys, Name(k) = k,
         NEW t2, t2 = (IF ~Has(t, {k}) THEN t \o Setting(k, Yes) ELSE t),
         NEW s2, s2 = (IF k \in DOMAIN s THEN s ELSE With(s, k, Yes))
  PROVE  Faithful(t2, s2)
<1>1. t \in Texts /\ Yes \in Texts /\ ~Has(Yes, Keys) /\ Yes # <<>>
  BY YesIs DEF Faithful
<1>2. t2 \in Texts
  BY <1>1, SettingHas, TextsJoin
<1>. SUFFICES ASSUME PlainAsked(s2)  PROVE KeysRead(t2) /\ Reading(t2) = {s2}
  BY <1>2 DEF Faithful
<1>3. PlainAsked(s)
  <2>1. \A n \in DOMAIN s : n \in DOMAIN s2 /\ s2[n] = s[n]
    <3>1. CASE k \in DOMAIN s
      BY <3>1
    <3>2. CASE k \notin DOMAIN s
      <4>1. s2 = [n \in DOMAIN s \cup {k} |-> IF n = k THEN Yes ELSE s[n]]
        BY <3>2 DEF With
      <4>. QED  BY <3>2, <4>1
    <3>. QED  BY <3>1, <3>2
  <2>. QED  BY <2>1 DEF PlainAsked
<1>4. KeysRead(t) /\ Reading(t) = {s}
  BY <1>3 DEF Faithful
<1>5. CASE Has(t, {k})
  <2>1. k \in DOMAIN s
    BY <1>1, <1>4, <1>5, NameRead
  <2>. QED  BY <1>4, <1>5, <2>1
<1>6. CASE ~Has(t, {k})
  <2>1. KeysRead(t \o Setting(k, Yes))
    BY <1>1, <1>4, GivenKeysRead
  <2>2. PICK e \in Ending : e = ";"
    BY DEF Ending
  <2>3. Reading(t \o (<<e, k>> \o EscapeOdbcValue(Yes))) = {Settled(s, Name(k), Yes)}
    BY <1>1, <1>4, SettingIsRead
  <2>4. Setting(k, Yes) = <<e, k>> \o EscapeOdbcValue(Yes)
    BY <1>1, <2>2 DEF Setting
  <2>5. Settled(s, Name(k), Yes) = s2
    BY DEF Settled
  <2>. QED  BY <1>6, <2>1, <2>3, <2>4, <2>5
<1>. QED  BY <1>5, <1>6

LEMMA BuilderSets ==
  ASSUME NEW t, NEW s, Faithful(t, s)
  PROVE  /\ Faithful(Encrypt(t, TRUE),
                     IF EncryptKey \in DOMAIN s THEN s ELSE With(s, EncryptKey, Yes))
         /\ Faithful(TrustCertificate(t, TRUE),
                     IF TrustKey \in DOMAIN s THEN s ELSE With(s, TrustKey, Yes))
<1>1. t \in Texts
  BY DEF Faithful
<1>2. /\ Encrypt(t, TRUE) = IF ~Has(t, {EncryptKey}) THEN t \o Setting(EncryptKey, Yes) ELSE t
      /\ TrustCertificate(t, TRUE) = IF ~Has(t, {TrustKey}) THEN t \o Setting(TrustKey, Yes) ELSE t
  BY <1>1, FlagIs DEF EncryptKey, TrustKey
<1>3. /\ EncryptKey \in Keys /\ TrustKey \in Keys
      /\ Name(EncryptKey) = EncryptKey /\ Name(TrustKey) = TrustKey
  BY FlagKeys
<1>4. PICK t1, s1 : /\ t1 = IF ~Has(t, {EncryptKey}) THEN t \o Setting(EncryptKey, Yes) ELSE t
                    /\ s1 = IF EncryptKey \in DOMAIN s THEN s ELSE With(s, EncryptKey, Yes)
  OBVIOUS
<1>5. Faithful(t1, s1)
  BY <1>3, <1>4, FlagSet
<1>6. PICK t2, s2 : /\ t2 = IF ~Has(t, {TrustKey}) THEN t \o Setting(TrustKey, Yes) ELSE t
                    /\ s2 = IF TrustKey \in DOMAIN s THEN s ELSE With(s, TrustKey, Yes)
  OBVIOUS
<1>7. Faithful(t2, s2)
  BY <1>3, <1>6, FlagSet
<1>. QED  BY <1>2, <1>4, <1>5, <1>6, <1>7

(* A text in three parts: what is before a place, what is there, and what  *)
(* is behind it.                                                           *)
Before(t, i) == SubSeq(t, 1, i - 1)
Behind(t, i) == SubSeq(t, i + 1, Len(t))

LEMMA JoinedAt ==
  ASSUME NEW a \in Texts, NEW b \in Texts
  PROVE  /\ a \o b \in Texts /\ Len(a \o b) = Len(a) + Len(b)
         /\ \A n \in 1..Len(a) : (a \o b)[n] = a[n]
         /\ \A n \in 1..Len(b) : (a \o b)[Len(a) + n] = b[n]
BY DEF Texts

LEMMA SplitAt ==
  ASSUME NEW t \in Texts, NEW i \in 1..Len(t)
  PROVE  /\ Before(t, i) \in Texts /\ Behind(t, i) \in Texts /\ t[i] \in Units
         /\ t = Append(Before(t, i), t[i]) \o Behind(t, i)
         /\ SubSeq(t, i, Len(t)) = <<t[i]>> \o Behind(t, i)
         /\ Len(Before(t, i)) = i - 1 /\ \A n \in 1..(i - 1) : Before(t, i)[n] = t[n]
<1>1. PICK x, y : /\ x = SubSeq(t, 1, i - 1) /\ y = SubSeq(t, i + 1, Len(t))
                  /\ x = Before(t, i) /\ y = Behind(t, i)
  BY DEF Before, Behind
<1>2. Len(t) \in Nat /\ i \in Nat
  BY DEF Texts
<1>3. x \in Texts /\ y \in Texts /\ t[i] \in Units
  BY <1>1, <1>2 DEF Texts
<1>4. Len(x) = i - 1 /\ \A n \in 1..(i - 1) : x[n] = t[n]
  BY <1>1, <1>2 DEF Texts
<1>5. Len(y) = Len(t) - i /\ \A n \in 1..(Len(t) - i) : y[n] = t[i + n]
  BY <1>1, <1>2 DEF Texts
<1>6. SubSeq(t, i, Len(t)) = <<t[i]>> \o y
  <2>. DEFINE a == SubSeq(t, i, Len(t))
              b == <<t[i]>> \o y
  <2>1. a \in Seq(Units) /\ Len(a) = Len(t) - i + 1 /\ \A n \in 1..(Len(t) - i + 1) : a[n] = t[i + n - 1]
    BY <1>1, <1>2 DEF Texts
  <2>2. b \in Seq(Units) /\ Len(b) = Len(y) + 1 /\ b[1] = t[i]
        /\ \A n \in 2..(Len(y) + 1) : b[n] = y[n - 1]
    BY <1>3 DEF Texts
  <2>3. \A n \in 1..Len(a) : a[n] = b[n]
    <3>1. ASSUME NEW n \in 2..(Len(y) + 1)  PROVE a[n] = b[n]
      <4>1. n - 1 \in 1..(Len(t) - i) /\ i + (n - 1) = i + n - 1 /\ n \in 1..(Len(t) - i + 1)
        BY <1>2, <1>5
      <4>. QED  BY <1>5, <2>1, <2>2, <4>1
    <3>2. a[1] = b[1]
      BY <1>2, <2>1, <2>2
    <3>. QED  BY <1>2, <1>5, <2>1, <3>1, <3>2
  <2>. HIDE DEF a, b
  <2>4. a = b
    BY <1>2, <1>5, <2>1, <2>2, <2>3, SeqEqual
  <2>. QED  BY <2>4 DEF a, b
<1>7. t = Append(x, t[i]) \o y
  <2>1. PICK z : z = Append(x, t[i])
    OBVIOUS
  <2>2. z \in Seq(Units) /\ Len(z) = i /\ z[i] = t[i] /\ \A n \in 1..(i - 1) : z[n] = t[n]
    BY <1>2, <1>3, <1>4, <2>1 DEF Texts
  <2>3. z \in Texts
    BY <2>2 DEF Texts
  <2>4. z \o y \in Texts /\ Len(z \o y) = Len(z) + Len(y)
    BY <1>3, <2>3, JoinedAt
  <2>5. \A n \in 1..Len(z) : (z \o y)[n] = z[n]
    BY <1>3, <2>3, JoinedAt
  <2>6. \A n \in 1..Len(y) : (z \o y)[Len(z) + n] = y[n]
    BY <1>3, <2>3, JoinedAt
  <2>7. ASSUME NEW n \in 1..Len(t)  PROVE t[n] = (z \o y)[n]
    <3>1. CASE n \in 1..(i - 1)
      <4>1. n \in 1..Len(z)
        BY <1>2, <2>2, <3>1
      <4>. QED  BY <2>2, <2>5, <3>1, <4>1
    <3>2. CASE n = i
      <4>1. i \in 1..Len(z)
        BY <1>2, <2>2
      <4>. QED  BY <2>2, <2>5, <3>2, <4>1
    <3>3. CASE n \notin 1..i
      <4>1. PICK m : m = n - i
        OBVIOUS
      <4>2. m \in 1..(Len(t) - i) /\ i + m = n
        BY <1>2, <3>3, <4>1
      <4>3. (z \o y)[i + m] = y[m] /\ y[m] = t[i + m]
        BY <1>5, <2>2, <2>6, <4>2
      <4>. QED  BY <4>2, <4>3
    <3>4. n \in 1..(i - 1) \/ n = i \/ n \notin 1..i
      BY <1>2
    <3>. QED  BY <3>1, <3>2, <3>3, <3>4
  <2>8. t \in Seq(Units) /\ Len(t) = Len(z \o y)
    <3>1. t \in Seq(Units)
      BY DEF Texts
    <3>2. Len(z \o y) = i + (Len(t) - i)
      BY <1>5, <2>2, <2>4
    <3>. QED  BY <1>2, <3>1, <3>2
  <2>9. PICK b : b = z \o y
    OBVIOUS
  <2>10. t = b
    BY <2>4, <2>7, <2>8, <2>9, SeqEqual DEF Texts
  <2>. QED  BY <2>1, <2>9, <2>10
<1>. QED  BY <1>1, <1>3, <1>4, <1>6, <1>7

LEMMA JoinAppend ==
  ASSUME NEW m \in Texts, NEW z \in Texts, NEW e \in Units
  PROVE  Append(m \o z, e) = m \o Append(z, e)
BY DEF Texts

LEMMA OneEnding ==
  ASSUME NEW a \in Ending, NEW b \in Ending  PROVE a = b
BY DEF Ending

(* What is up to the first end, and what From leaves behind it.            *)
LEMMA EndSplits ==
  ASSUME NEW y \in Texts, NEW d \in Units, d \notin Ending, NEW e \in Ending
  PROVE  \E v \in Texts, z \in Texts :
           /\ ~Has(v, Ending) /\ Append(y, e) = Append(v, e) \o z
           /\ From(<<d>> \o y, Ending) \in Texts
           /\ \A n \in Texts : Append(n \o From(<<d>> \o y, Ending), e) = Append(n, e) \o z
<1>. DEFINE w == <<d>> \o y
<1>1. w \in Texts /\ e \in Units /\ <<>> \in Texts
  BY JoinOne, TextsJoin, UnitsAre
<1>2. Len(w) = Len(y) + 1 /\ w[1] = d /\ (\A n \in 2..(Len(y) + 1) : w[n] = y[n - 1])
      /\ Len(y) \in Nat
  BY DEF Texts
<1>. HIDE DEF w
<1>3. PICK j : j = Find(w, Ending)
  OBVIOUS
<1>4. /\ j \in 0..Len(w) /\ (j = 0 <=> ~Has(w, Ending))
      /\ (j # 0 => w[j] \in Ending) /\ \A i \in 1..(j - 1) : w[i] \notin Ending
  BY <1>1, <1>3, FoundIs
<1>5. CASE j = 0
  <2>1. From(w, Ending) = <<>>
    BY <1>3, <1>5 DEF From
  <2>2. ~Has(y, Ending)
    <3>1. \A n \in DOMAIN y : n + 1 \in 2..(Len(y) + 1) /\ (n + 1) - 1 = n /\ n + 1 \in DOMAIN w
      <4>1. DOMAIN y = 1..Len(y) /\ DOMAIN w = 1..Len(w)
        BY <1>1 DEF Texts
      <4>. QED  BY <1>2, <4>1
    <3>2. \A n \in DOMAIN y : y[n] = w[n + 1]
      BY <1>2, <3>1
    <3>. QED  BY <1>4, <1>5, <3>1, <3>2 DEF Has
  <2>3. \A n \in Texts : n \o <<>> = n /\ Append(n, e) \o <<>> = Append(n, e)
    BY <1>1, JoinOne, TextAppend
  <2>4. /\ ~Has(y, Ending) /\ Append(y, e) = Append(y, e) \o <<>>
        /\ From(w, Ending) \in Texts
        /\ \A n \in Texts : Append(n \o From(w, Ending), e) = Append(n, e) \o <<>>
    BY <1>1, <2>1, <2>2, <2>3
  <2>. QED  BY <1>1, <2>4 DEF w
<1>6. CASE j # 0
  <2>1. w[j] = e /\ j # 1
    BY <1>2, <1>4, <1>6, OneEnding
  <2>2. PICK i : i = j - 1
    OBVIOUS
  <2>3. i \in 1..Len(y) /\ j = i + 1 /\ j \in 2..(Len(y) + 1)
    BY <1>2, <1>4, <1>6, <2>1, <2>2
  <2>4. y[i] = e
    BY <1>2, <2>1, <2>2, <2>3
  <2>5. PICK v : v = Before(y, i)
    OBVIOUS
  <2>6. PICK z : z = Behind(y, i)
    OBVIOUS
  <2>7. /\ v \in Texts /\ z \in Texts /\ y = Append(v, e) \o z
        /\ SubSeq(y, i, Len(y)) = <<e>> \o z
        /\ Len(v) = i - 1 /\ \A n \in 1..(i - 1) : v[n] = y[n]
    <3>1. /\ v \in Texts /\ z \in Texts /\ y[i] \in Units
          /\ y = Append(v, y[i]) \o z
          /\ SubSeq(y, i, Len(y)) = <<y[i]>> \o z
          /\ Len(v) = i - 1 /\ \A n \in 1..(i - 1) : v[n] = y[n]
      <4>1. PICK n \in 1..Len(y) : n = i
        BY <2>3
      <4>2. v = Before(y, n) /\ z = Behind(y, n)
        BY <2>5, <2>6, <4>1
      <4>3. /\ v \in Texts /\ z \in Texts /\ y[n] \in Units
            /\ y = Append(v, y[n]) \o z
            /\ SubSeq(y, n, Len(y)) = <<y[n]>> \o z
            /\ Len(v) = n - 1 /\ \A h \in 1..(n - 1) : v[h] = y[h]
        BY <4>2, SplitAt
      <4>. QED  BY <4>1, <4>3
    <3>. QED  BY <3>1, <2>4
  <2>8. ~Has(v, Ending)
    <3>1. DOMAIN v = 1..(i - 1)
      BY <2>7 DEF Texts
    <3>2. \A n \in 1..(i - 1) : n + 1 \in 1..(j - 1) /\ n + 1 \in 2..(Len(y) + 1) /\ (n + 1) - 1 = n
      BY <1>2, <2>3
    <3>3. \A n \in 1..(i - 1) : v[n] = w[n + 1]
      BY <1>2, <2>7, <3>2
    <3>. QED  BY <1>4, <3>1, <3>2, <3>3 DEF Has
  <2>9. From(w, Ending) = <<e>> \o z
    <3>1. From(w, Ending) = SubSeq(w, j, Len(w))
      BY <1>3, <1>6 DEF From
    <3>2. SubSeq(w, j, Len(w)) = SubSeq(y, i, Len(y))
      <4>. DEFINE a == SubSeq(w, j, Len(w))
                  b == SubSeq(y, i, Len(y))
      <4>1. a \in Seq(Units) /\ Len(a) = Len(w) - j + 1 /\ \A n \in 1..(Len(w) - j + 1) : a[n] = w[j + n - 1]
        BY <1>1, <1>2, <2>3 DEF Texts
      <4>2. b \in Seq(Units) /\ Len(b) = Len(y) - i + 1 /\ \A n \in 1..(Len(y) - i + 1) : b[n] = y[i + n - 1]
        BY <1>2, <2>3 DEF Texts
      <4>3. Len(w) - j + 1 = Len(y) - i + 1
        BY <1>2, <2>3
      <4>4. ASSUME NEW n \in 1..Len(a)  PROVE a[n] = b[n]
        <5>1. n \in 1..(Len(w) - j + 1) /\ n \in 1..(Len(y) - i + 1)
          BY <4>1, <4>3, <4>4
        <5>2. j + n - 1 \in 2..(Len(y) + 1) /\ (j + n - 1) - 1 = i + n - 1
          BY <1>2, <2>3, <5>1
        <5>. QED  BY <1>2, <4>1, <4>2, <5>1, <5>2
      <4>. HIDE DEF a, b
      <4>5. a = b
        BY <4>1, <4>2, <4>3, <4>4, SeqEqual
      <4>. QED  BY <4>5 DEF a, b
    <3>. QED  BY <2>7, <3>1, <3>2
  <2>10. <<e>> \in Texts /\ Append(z, e) \in Texts /\ <<e>> \o z \in Texts
    BY <1>1, <2>7, JoinOne, TextAppend, TextsJoin
  <2>11. ASSUME NEW n \in Texts
         PROVE  Append(n \o (<<e>> \o z), e) = Append(n, e) \o Append(z, e)
    <3>1. n \o (<<e>> \o z) = (n \o <<e>>) \o z
      BY <2>7, <2>10, TextsAssociate
    <3>2. n \o <<e>> = Append(n, e) /\ Append(n, e) \in Texts
      BY <1>1, JoinOne, TextAppend
    <3>3. PICK m \in Texts : m = Append(n, e)
      BY <3>2
    <3>4. Append(m \o z, e) = m \o Append(z, e)
      BY <1>1, <2>7, JoinAppend
    <3>. QED  BY <3>1, <3>2, <3>3, <3>4
  <2>12. Append(y, e) = Append(v, e) \o Append(z, e)
    <3>1. PICK m \in Texts : m = Append(v, e)
      BY <1>1, <2>7, TextAppend
    <3>2. Append(m \o z, e) = m \o Append(z, e)
      BY <1>1, <2>7, JoinAppend
    <3>. QED  BY <2>7, <3>1, <3>2
  <2>. QED  BY <2>7, <2>8, <2>9, <2>10, <2>11, <2>12 DEF w
<1>. QED  BY <1>5, <1>6

-----------------------------------------------------------------------------
(* What is pending stays so up to an end, and only an end brings a key.    *)
LEMMA PendingStays ==
  ASSUME NEW r, NEW k, NEW v, NEW s, Pending(r, k, v, s), NEW u, u \notin Ending
  PROVE  \/ Pending(ReadUnit(r, u), k, v, s)
         \/ Pending(ReadUnit(r, u), k, Append(v, u), s)
         \/ ReadUnit(r, u) = Malformed(k, v, s)
<1>1. CASE r = AtBraced(k, v, s)
  <2>1. CASE u \in Closing
    BY <1>1, <2>1, BracedCloses DEF Pending
  <2>2. CASE u \notin Closing
    BY <1>1, <2>2, BracedGoesOn DEF Pending
  <2>. QED  BY <2>1, <2>2
<1>2. CASE r = AtStart(k, v, s)
  <2>1. CASE u \in Opening
    BY <1>2, <2>1, StartOpens DEF Pending
  <2>2. CASE u \notin Opening
    BY <1>2, <2>2, StartGoesOn DEF Pending
  <2>. QED  BY <2>1, <2>2
<1>3. CASE r = AtOpen(k, v, s)
  BY <1>3, OpenGoesOn DEF Pending
<1>4. CASE r = AtClosed(k, v, s)
  <2>1. CASE u \in Closing
    BY <1>4, <2>1, ClosedDoubles DEF Pending
  <2>2. CASE u \notin Closing
    BY <1>4, <2>2, ClosedFails
  <2>. QED  BY <2>1, <2>2
<1>. QED  BY <1>1, <1>2, <1>3, <1>4 DEF Pending

LEMMA LastEnds ==
  ASSUME NEW x \in Texts, x # <<>>, ReadsKey(Scan(Begun, x))
  PROVE  x[Len(x)] \in Ending
<1>1. PICK y \in Texts, u \in Units : x = Append(y, u) /\ u = x[Len(x)]
  <2>1. Len(x) \in Nat /\ Len(x) # 0
    BY DEF Texts
  <2>2. Len(x) \in 1..Len(x)
    BY <2>1
  <2>3. PICK i \in 1..Len(x) : i = Len(x)
    BY <2>2
  <2>4. PICK y, w : y = Before(x, i) /\ w = Behind(x, i)
    OBVIOUS
  <2>5. y \in Texts /\ w \in Texts /\ x[i] \in Units /\ x = Append(y, x[i]) \o w
    BY <2>4, SplitAt
  <2>6. w = <<>>
    BY <2>1, <2>3, <2>4 DEF Texts, Behind
  <2>7. Append(y, x[i]) \o <<>> = Append(y, x[i])
    BY <2>5 DEF Texts
  <2>. QED  BY <2>3, <2>5, <2>6, <2>7
<1>. SUFFICES ASSUME u \notin Ending  PROVE FALSE
  BY <1>1
<1>. DEFINE r == Scan(Begun, y)
<1>2. ReadsKey(ReadUnit(r, u))
  BY <1>1, ScanAppend
<1>3. PICK k, v, s : r \in {AtKey(k, v, s), AtStart(k, v, s), AtOpen(k, v, s),
                            AtBraced(k, v, s), AtClosed(k, v, s), Malformed(k, v, s)}
  BY ScanStands DEF Stands
<1>. HIDE DEF r
<1>4. CASE r = AtKey(k, v, s)
  <2>1. CASE u \in Keys
    <3>1. Pending(ReadUnit(r, u), Name(u), <<>>, s)
      BY <1>4, <2>1, KeyStarts DEF Pending
    <3>. QED  BY <1>2, <3>1, StatesDiffer
  <2>2. CASE u \notin Keys
    <3>1. ReadUnit(r, u) = Malformed(k, v, s)
      BY <1>4, <2>2, KeyFails
    <3>. QED  BY <1>2, <3>1, StatesDiffer
  <2>. QED  BY <2>1, <2>2
<1>5. CASE Pending(r, k, v, s)
  BY <1>2, <1>5, PendingStays, StatesDiffer
<1>6. CASE r = Malformed(k, v, s)
  <2>1. ReadUnit(r, u) = Malformed(k, v, s)
    BY <1>6, MalformedStays
  <2>. QED  BY <1>2, <2>1, StatesDiffer
<1>. QED  BY <1>3, <1>4, <1>5, <1>6 DEF Pending

(* An end in braces stays in the value it is in.                           *)
Keeps(s, n) == n \in DOMAIN s /\ Has(s[n], Ending)

WillKeep(k, v, s, n) == Keeps(s, n) \/ (k = n /\ n \notin DOMAIN s /\ Has(v, Ending))

Held(r, n) ==
  \E k, v, s :
    /\ v \in Texts
    /\ \/ r = Malformed(k, v, s)
       \/ r = AtKey(k, v, s) /\ Keeps(s, n)
       \/ Pending(r, k, v, s) /\ WillKeep(k, v, s, n)

LEMMA SettledKeeps ==
  ASSUME NEW s, NEW k, NEW v, NEW n, WillKeep(k, v, s, n)
  PROVE  Keeps(Settled(s, k, v), n)
<1>1. CASE k \in DOMAIN s
  <2>1. Settled(s, k, v) = s
    BY <1>1 DEF Settled
  <2>. QED  BY <1>1, <2>1 DEF WillKeep
<1>2. CASE k \notin DOMAIN s
  <2>1. PICK new : new = Settled(s, k, v)
    OBVIOUS
  <2>2. /\ DOMAIN new = DOMAIN s \cup {k} /\ new[k] = v
        /\ \A m \in DOMAIN s : new[m] = s[m]
    BY <1>2, <2>1 DEF Settled, With
  <2>3. Keeps(new, n)
    BY <1>2, <2>2 DEF WillKeep, Keeps
  <2>. QED  BY <2>1, <2>3
<1>. QED  BY <1>1, <1>2

LEMMA HeldStays ==
  ASSUME NEW r, NEW n, Held(r, n), NEW u \in Units
  PROVE  Held(ReadUnit(r, u), n)
<1>1. PICK k, v, s :
        /\ v \in Texts
        /\ \/ r = Malformed(k, v, s)
           \/ r = AtKey(k, v, s) /\ Keeps(s, n)
           \/ Pending(r, k, v, s) /\ WillKeep(k, v, s, n)
  BY DEF Held
<1>2. Append(v, u) \in Texts /\ <<>> \in Texts
  BY <1>1, TextAppend, UnitsAre
<1>3. CASE r = Malformed(k, v, s)
  <2>1. ReadUnit(r, u) = Malformed(k, v, s)
    BY <1>3, MalformedStays
  <2>. QED  BY <1>1, <2>1 DEF Held
<1>4. CASE r = AtKey(k, v, s) /\ Keeps(s, n)
  <2>1. CASE u \in Ending
    <3>1. ReadUnit(r, u) = AtKey(k, v, s)
      BY <1>4, <2>1, KeyEnds
    <3>. QED  BY <1>1, <1>4, <3>1 DEF Held
  <2>2. CASE u \in Keys
    <3>1. ReadUnit(r, u) = AtStart(Name(u), <<>>, s)
      BY <1>4, <2>2, KeyStarts
    <3>2. Pending(ReadUnit(r, u), Name(u), <<>>, s)
      BY <3>1 DEF Pending
    <3>. QED  BY <1>2, <1>4, <3>2 DEF Held, WillKeep
  <2>3. CASE u \notin Keys \cup Ending
    <3>1. ReadUnit(r, u) = Malformed(k, v, s)
      BY <1>4, <2>3, KeyFails
    <3>. QED  BY <1>1, <3>1 DEF Held
  <2>. QED  BY <2>1, <2>2, <2>3
<1>5. CASE Pending(r, k, v, s) /\ WillKeep(k, v, s, n)
  <2>1. PICK new : new = Settled(s, k, v)
    OBVIOUS
  <2>2. Keeps(new, n)
    BY <1>5, <2>1, SettledKeeps
  <2>3. WillKeep(k, Append(v, u), s, n)
    BY <1>1, <1>5, HasAppend DEF WillKeep
  <2>4. \/ ReadUnit(r, u) = AtKey(k, v, Settled(s, k, v))
        \/ Pending(ReadUnit(r, u), k, v, s)
        \/ Pending(ReadUnit(r, u), k, Append(v, u), s)
        \/ ReadUnit(r, u) = Malformed(k, v, s)
    BY <1>5, PendingGoesOn
  <2>5. CASE ReadUnit(r, u) = AtKey(k, v, Settled(s, k, v))
    <3>1. ReadUnit(r, u) = AtKey(k, v, new)
      BY <2>1, <2>5
    <3>. QED  BY <1>1, <2>2, <3>1 DEF Held
  <2>6. CASE Pending(ReadUnit(r, u), k, v, s)
    BY <1>1, <1>5, <2>6 DEF Held
  <2>7. CASE Pending(ReadUnit(r, u), k, Append(v, u), s)
    BY <1>2, <1>5, <2>3, <2>7 DEF Held
  <2>8. CASE ReadUnit(r, u) = Malformed(k, v, s)
    BY <1>1, <2>8 DEF Held
  <2>. QED  BY <2>4, <2>5, <2>6, <2>7, <2>8
<1>. QED  BY <1>1, <1>3, <1>4, <1>5

LEMMA HeldThrough ==
  ASSUME NEW r, NEW n, Held(r, n), NEW z \in Texts
  PROVE  Held(Scan(r, z), n)
<1>. DEFINE T == {x \in Texts : Held(Scan(r, x), n)}
<1>1. <<>> \in T
  BY UnitsAre, ScanEmpty
<1>2. ASSUME NEW x \in T, NEW u \in Units  PROVE Append(x, u) \in T
  BY TextAppend, ScanAppend, HeldStays
<1>3. Texts \subseteq T
  <2>. HIDE DEF T
  <2>. QED  BY <1>1, <1>2, SequenceInduction DEF Texts
<1>. QED  BY <1>3

LEMMA HeldIsRead ==
  ASSUME NEW k, NEW v, NEW s, NEW n, Held(AtKey(k, v, s), n)
  PROVE  Keeps(s, n)
<1>. DEFINE r == AtKey(k, v, s)
<1>1. ReadsKey(r) /\ r.settings = s
  BY SettingsAtKey DEF ReadsKey
<1>2. PICK k2, v2, s2 :
        \/ r = Malformed(k2, v2, s2) \/ Pending(r, k2, v2, s2)
        \/ r = AtKey(k2, v2, s2) /\ Keeps(s2, n)
  BY DEF Held
<1>. HIDE DEF r
<1>3. r = AtKey(k2, v2, s2) /\ Keeps(s2, n)
  BY <1>1, <1>2, StatesDiffer
<1>. QED  BY <1>1, <1>3, SettingsAtKey

(* A value without an end is pending when it is read.                      *)
LEMMA ValuePends ==
  ASSUME NEW x \in Texts, ~Has(x, Ending), NEW k, NEW s
  PROVE  \E v \in Texts : \/ Pending(Scan(AtStart(k, <<>>, s), x), k, v, s)
                          \/ Scan(AtStart(k, <<>>, s), x) = Malformed(k, v, s)
<1>. DEFINE r == AtStart(k, <<>>, s)
            T == {w \in Texts : Has(w, Ending) \/
                    \E v \in Texts : Pending(Scan(r, w), k, v, s) \/ Scan(r, w) = Malformed(k, v, s)}
<1>1. <<>> \in T
  <2>1. Pending(Scan(r, <<>>), k, <<>>, s)
    BY ScanEmpty DEF Pending
  <2>. QED  BY <2>1, UnitsAre
<1>2. ASSUME NEW w \in T, NEW u \in Units  PROVE Append(w, u) \in T
  <2>1. Append(w, u) \in Texts /\ (Has(Append(w, u), Ending) <=> Has(w, Ending) \/ u \in Ending)
    BY TextAppend, HasAppend
  <2>2. Scan(r, Append(w, u)) = ReadUnit(Scan(r, w), u)
    BY ScanAppend
  <2>3. ASSUME ~Has(Append(w, u), Ending)
        PROVE  \E v \in Texts : \/ Pending(Scan(r, Append(w, u)), k, v, s)
                                \/ Scan(r, Append(w, u)) = Malformed(k, v, s)
    <3>1. PICK v \in Texts : Pending(Scan(r, w), k, v, s) \/ Scan(r, w) = Malformed(k, v, s)
      BY <2>1, <2>3
    <3>2. Append(v, u) \in Texts
      BY TextAppend
    <3>3. CASE Pending(Scan(r, w), k, v, s)
      BY <2>1, <2>2, <2>3, <3>2, <3>3, PendingStays
    <3>4. CASE Scan(r, w) = Malformed(k, v, s)
      BY <2>2, <3>4, MalformedStays
    <3>. QED  BY <3>1, <3>3, <3>4
  <2>. QED  BY <2>1, <2>3
<1>3. Texts \subseteq T
  <2>. HIDE DEF T
  <2>. QED  BY <1>1, <1>2, SequenceInduction DEF Texts
<1>. QED  BY <1>3

-----------------------------------------------------------------------------
(* Two readings that differ in the value of one setting that is there go   *)
(* on alike.                                                               *)
Twins(r, r2, n, m) ==
  \E k, v, s, k2, v2, s2 :
    /\ n \in DOMAIN s /\ s2 = With(s, n, m)
    /\ \/ r = AtKey(k, v, s) /\ r2 = AtKey(k2, v2, s2)
       \/ r = AtStart(k, v, s) /\ r2 = AtStart(k, v, s2)
       \/ r = AtOpen(k, v, s) /\ r2 = AtOpen(k, v, s2)
       \/ r = AtBraced(k, v, s) /\ r2 = AtBraced(k, v, s2)
       \/ r = AtClosed(k, v, s) /\ r2 = AtClosed(k, v, s2)
       \/ r = Malformed(k, v, s) /\ r2 = Malformed(k2, v2, s2)

LEMMA SettledTwins ==
  ASSUME NEW s, NEW n \in DOMAIN s, NEW m, NEW k, NEW v
  PROVE  n \in DOMAIN Settled(s, k, v)
         /\ Settled(With(s, n, m), k, v) = With(Settled(s, k, v), n, m)
<1>1. DOMAIN With(s, n, m) = DOMAIN s
  BY DEF With
<1>2. CASE k \in DOMAIN s
  BY <1>1, <1>2 DEF Settled
<1>3. CASE k \notin DOMAIN s
  <2>1. k # n
    BY <1>3
  <2>2. Settled(With(s, n, m), k, v) = With(With(s, n, m), k, v) /\ Settled(s, k, v) = With(s, k, v)
    BY <1>1, <1>3 DEF Settled
  <2>3. With(With(s, k, v), n, m) = With(With(s, n, m), k, v)
    BY <2>1, WithCommutes
  <2>4. n \in DOMAIN With(s, k, v)
    BY DEF With
  <2>. QED  BY <2>2, <2>3, <2>4
<1>. QED  BY <1>2, <1>3

LEMMA TwinsGoOn ==
  ASSUME NEW r, NEW r2, NEW n, NEW m, Twins(r, r2, n, m), NEW u \in Units
  PROVE  Twins(ReadUnit(r, u), ReadUnit(r2, u), n, m)
<1>1. PICK k, v, s, k2, v2, s2 :
        /\ n \in DOMAIN s /\ s2 = With(s, n, m)
        /\ \/ r = AtKey(k, v, s) /\ r2 = AtKey(k2, v2, s2)
           \/ r = AtStart(k, v, s) /\ r2 = AtStart(k, v, s2)
           \/ r = AtOpen(k, v, s) /\ r2 = AtOpen(k, v, s2)
           \/ r = AtBraced(k, v, s) /\ r2 = AtBraced(k, v, s2)
           \/ r = AtClosed(k, v, s) /\ r2 = AtClosed(k, v, s2)
           \/ r = Malformed(k, v, s) /\ r2 = Malformed(k2, v2, s2)
  BY DEF Twins
<1>2. n \in DOMAIN s /\ s2 = With(s, n, m)
  BY <1>1
<1>. DEFINE q  == ReadUnit(r, u)
            q2 == ReadUnit(r2, u)
<1>3. CASE r = AtKey(k, v, s) /\ r2 = AtKey(k2, v2, s2)
  <2>1. CASE u \in Ending
    <3>1. q = AtKey(k, v, s) /\ q2 = AtKey(k2, v2, s2)
      BY <1>3, <2>1, KeyEnds
    <3>. QED  BY <1>2, <3>1 DEF Twins
  <2>2. CASE u \in Keys
    <3>1. q = AtStart(Name(u), <<>>, s) /\ q2 = AtStart(Name(u), <<>>, s2)
      BY <1>3, <2>2, KeyStarts
    <3>. QED  BY <1>2, <3>1 DEF Twins
  <2>3. CASE u \notin Keys \cup Ending
    <3>1. q = Malformed(k, v, s) /\ q2 = Malformed(k2, v2, s2)
      BY <1>3, <2>3, KeyFails
    <3>. QED  BY <1>2, <3>1 DEF Twins
  <2>. QED  BY <2>1, <2>2, <2>3
<1>4. CASE /\ u \in Ending
           /\ \/ r = AtStart(k, v, s) /\ r2 = AtStart(k, v, s2)
              \/ r = AtOpen(k, v, s) /\ r2 = AtOpen(k, v, s2)
              \/ r = AtClosed(k, v, s) /\ r2 = AtClosed(k, v, s2)
  <2>1. q = AtKey(k, v, Settled(s, k, v)) /\ q2 = AtKey(k, v, Settled(s2, k, v))
    BY <1>4, Ends
  <2>2. PICK new, new2 : new = Settled(s, k, v) /\ new2 = Settled(s2, k, v)
    OBVIOUS
  <2>3. n \in DOMAIN new /\ new2 = With(new, n, m)
    BY <1>2, <2>2, SettledTwins
  <2>4. q = AtKey(k, v, new) /\ q2 = AtKey(k, v, new2)
    BY <2>1, <2>2
  <2>. QED  BY <2>3, <2>4 DEF Twins
<1>5. CASE u \notin Ending /\ r = AtStart(k, v, s) /\ r2 = AtStart(k, v, s2)
  <2>1. CASE u \in Opening
    <3>1. q = AtBraced(k, v, s) /\ q2 = AtBraced(k, v, s2)
      BY <1>5, <2>1, StartOpens
    <3>. QED  BY <1>2, <3>1 DEF Twins
  <2>2. CASE u \notin Opening
    <3>1. q = AtOpen(k, Append(v, u), s) /\ q2 = AtOpen(k, Append(v, u), s2)
      BY <1>5, <2>2, StartGoesOn
    <3>. QED  BY <1>2, <3>1 DEF Twins
  <2>. QED  BY <2>1, <2>2
<1>6. CASE u \notin Ending /\ r = AtOpen(k, v, s) /\ r2 = AtOpen(k, v, s2)
  <2>1. q = AtOpen(k, Append(v, u), s) /\ q2 = AtOpen(k, Append(v, u), s2)
    BY <1>6, OpenGoesOn
  <2>. QED  BY <1>2, <2>1 DEF Twins
<1>7. CASE r = AtBraced(k, v, s) /\ r2 = AtBraced(k, v, s2)
  <2>1. CASE u \in Closing
    <3>1. q = AtClosed(k, v, s) /\ q2 = AtClosed(k, v, s2)
      BY <1>7, <2>1, BracedCloses
    <3>. QED  BY <1>2, <3>1 DEF Twins
  <2>2. CASE u \notin Closing
    <3>1. q = AtBraced(k, Append(v, u), s) /\ q2 = AtBraced(k, Append(v, u), s2)
      BY <1>7, <2>2, BracedGoesOn
    <3>. QED  BY <1>2, <3>1 DEF Twins
  <2>. QED  BY <2>1, <2>2
<1>8. CASE u \notin Ending /\ r = AtClosed(k, v, s) /\ r2 = AtClosed(k, v, s2)
  <2>1. CASE u \in Closing
    <3>1. q = AtBraced(k, Append(v, u), s) /\ q2 = AtBraced(k, Append(v, u), s2)
      BY <1>8, <2>1, ClosedDoubles
    <3>. QED  BY <1>2, <3>1 DEF Twins
  <2>2. CASE u \notin Closing
    <3>1. q = Malformed(k, v, s) /\ q2 = Malformed(k, v, s2)
      BY <1>8, <2>2, ClosedFails
    <3>. QED  BY <1>2, <3>1 DEF Twins
  <2>. QED  BY <2>1, <2>2
<1>9. CASE r = Malformed(k, v, s) /\ r2 = Malformed(k2, v2, s2)
  <2>1. q = Malformed(k, v, s) /\ q2 = Malformed(k2, v2, s2)
    BY <1>9, MalformedStays
  <2>. QED  BY <1>2, <2>1 DEF Twins
<1>. QED  BY <1>1, <1>3, <1>4, <1>5, <1>6, <1>7, <1>8, <1>9

LEMMA TwinsThrough ==
  ASSUME NEW r, NEW r2, NEW n, NEW m, Twins(r, r2, n, m), NEW z \in Texts
  PROVE  Twins(Scan(r, z), Scan(r2, z), n, m)
<1>. DEFINE T == {x \in Texts : Twins(Scan(r, x), Scan(r2, x), n, m)}
<1>1. <<>> \in T
  BY UnitsAre, ScanEmpty
<1>2. ASSUME NEW x \in T, NEW u \in Units  PROVE Append(x, u) \in T
  <2>1. /\ Scan(r, Append(x, u)) = ReadUnit(Scan(r, x), u)
        /\ Scan(r2, Append(x, u)) = ReadUnit(Scan(r2, x), u)
    BY ScanAppend
  <2>2. Twins(ReadUnit(Scan(r, x), u), ReadUnit(Scan(r2, x), u), n, m)
    BY TwinsGoOn
  <2>. QED  BY <2>1, <2>2, TextAppend
<1>3. Texts \subseteq T
  <2>. HIDE DEF T
  <2>. QED  BY <1>1, <1>2, SequenceInduction DEF Texts
<1>. QED  BY <1>3

LEMMA TwinsAreRead ==
  ASSUME NEW r, NEW r2, NEW n, NEW m, Twins(r, r2, n, m),
         NEW k, NEW v, NEW s, r = AtKey(k, v, s)
  PROVE  \E k2, v2 : r2 = AtKey(k2, v2, With(s, n, m))
<1>1. PICK k1, v1, s1, k2, v2, s2 :
        /\ n \in DOMAIN s1 /\ s2 = With(s1, n, m)
        /\ \/ r = AtKey(k1, v1, s1) /\ r2 = AtKey(k2, v2, s2)
           \/ r = AtStart(k1, v1, s1) \/ r = AtOpen(k1, v1, s1) \/ r = AtBraced(k1, v1, s1)
           \/ r = AtClosed(k1, v1, s1) \/ r = Malformed(k1, v1, s1)
  BY DEF Twins
<1>2. r.mode = "key" /\ r.settings = s
  BY StatesAre
<1>3. r = AtKey(k1, v1, s1) /\ r2 = AtKey(k2, v2, s2)
  BY <1>1, <1>2, StatesAre
<1>4. s = s1
  BY <1>2, <1>3, StatesAre
<1>. QED  BY <1>1, <1>3, <1>4

(* Another database in place of the one that is named.                     *)
DatabaseKey  == "Database="
DatabaseKeys == {"Database=", "database="}

LEMMA DatabaseKeysAre ==
  /\ DatabaseKeys \subseteq Keys /\ DatabaseKey \in DatabaseKeys
  /\ DatabaseKeys \cap Ending = {}
  /\ \A k \in DatabaseKeys : Name(k) = DatabaseKey
  /\ \A k \in Keys : Name(k) = DatabaseKey => k \in DatabaseKeys
<1>1. DatabaseKeys \subseteq Keys /\ DatabaseKey \in DatabaseKeys
  BY DEF DatabaseKeys, DatabaseKey, Keys
<1>2. DatabaseKeys \cap Ending = {}
  BY DEF DatabaseKeys, Ending
<1>3. \A k \in DatabaseKeys : Name(k) = DatabaseKey
  <2>1. Name("database=") = "Database="
    BY DEF Name
  <2>. QED  BY <2>1, KeyNames DEF DatabaseKeys, DatabaseKey
<1>4. ASSUME NEW k \in Keys, Name(k) = DatabaseKey  PROVE k \in DatabaseKeys
  <2>1. k = "encrypt=" => Name(k) = "Encrypt="
    BY DEF Name
  <2>2. k # "database=" /\ k # "encrypt=" => Name(k) = k
    BY DEF Name
  <2>. QED  BY <1>4, <2>1, <2>2 DEF DatabaseKeys, DatabaseKey
<1>. QED  BY <1>1, <1>2, <1>3, <1>4

LEMMA PrefixKeys ==
  ASSUME NEW t \in Texts, KeysRead(t), NEW i \in 1..Len(t)
  PROVE  KeysRead(Before(t, i))
<1>1. PICK x : x = Before(t, i)
  OBVIOUS
<1>2. Len(x) = i - 1 /\ (\A n \in 1..(i - 1) : x[n] = t[n]) /\ Len(t) \in Nat /\ i \in Nat
  <2>1. Len(Before(t, i)) = i - 1 /\ \A n \in 1..(i - 1) : Before(t, i)[n] = t[n]
    BY SplitAt
  <2>2. Len(t) \in Nat
    BY DEF Texts
  <2>. QED  BY <1>1, <2>1, <2>2
<1>3. ASSUME NEW n \in 1..Len(x), x[n] \in Keys
      PROVE  ReadsKey(Scan(Begun, SubSeq(x, 1, n - 1)))
  <2>1. n \in 1..Len(t) /\ n \in 1..(i - 1) /\ t[n] \in Keys
    BY <1>2, <1>3
  <2>2. SubSeq(x, 1, n - 1) = SubSeq(t, 1, n - 1)
    <3>1. x = SubSeq(t, 1, i - 1)
      BY <1>1 DEF Before
    <3>. QED  BY <1>2, <2>1, <3>1 DEF Texts
  <2>. QED  BY <2>1, <2>2 DEF KeysRead
<1>. QED  BY <1>1, <1>3 DEF KeysRead

(* At the key, the settings so far name no database.                       *)
LEMMA KeyIsFirst ==
  ASSUME NEW t \in Texts, KeysRead(t), NEW i \in 1..Len(t), t[i] \in DatabaseKeys,
         ~Has(Before(t, i), DatabaseKeys)
  PROVE  \E k, v, s : Scan(Begun, Before(t, i)) = AtKey(k, v, s) /\ DatabaseKey \notin DOMAIN s
<1>1. PICK x \in Texts : x = Before(t, i)
  BY SplitAt
<1>2. KeysRead(x)
  BY <1>1, PrefixKeys
<1>3. ReadsKey(Scan(Begun, x))
  <2>1. t[i] \in Keys
    BY DatabaseKeysAre
  <2>. QED  BY <1>1, <2>1 DEF KeysRead, Before
<1>4. PICK k, v, s :
        \/ Scan(Begun, x) = AtKey(k, v, s) /\ DOMAIN s = Names(x)
        \/ Pending(Scan(Begun, x), k, v, s)
        \/ Scan(Begun, x) = Malformed(k, v, s)
  BY <1>2, NamesAreRead DEF Named
<1>5. Scan(Begun, x) = AtKey(k, v, s) /\ DOMAIN s = Names(x)
  BY <1>3, <1>4, StatesDiffer
<1>6. DatabaseKey \notin Names(x)
  <2>1. ASSUME NEW n \in Keys, Has(x, {n}), Name(n) = DatabaseKey  PROVE FALSE
    <3>1. n \in DatabaseKeys
      BY <2>1, DatabaseKeysAre
    <3>. QED  BY <1>1, <2>1, <3>1 DEF Has
  <2>. QED  BY <2>1 DEF Names
<1>. QED  BY <1>1, <1>5, <1>6

LEMMA KeyIsRead ==
  ASSUME NEW x \in Texts, NEW k, NEW v, NEW s, Scan(Begun, x) = AtKey(k, v, s),
         NEW d \in DatabaseKeys
  PROVE  /\ Append(x, d) \in Texts
         /\ Scan(Begun, Append(x, d)) = AtStart(DatabaseKey, <<>>, s)
<1>1. d \in Keys /\ d \in Units /\ Name(d) = DatabaseKey
  BY DatabaseKeysAre, UnitsAre
<1>2. Scan(Begun, Append(x, d)) = ReadUnit(AtKey(k, v, s), d)
  BY <1>1, ScanAppend
<1>3. ReadUnit(AtKey(k, v, s), d) = AtStart(Name(d), <<>>, s)
  BY <1>1, KeyStarts
<1>. QED  BY <1>1, <1>2, <1>3, TextAppend

LEMMA WithAgain ==
  ASSUME NEW s, NEW n, NEW v, NEW m
  PROVE  n \in DOMAIN With(s, n, v) /\ With(With(s, n, v), n, m) = With(s, n, m)
BY DEF With

(* After the value of the database, the reader is at a key.                *)
LEMMA OldIsRead ==
  ASSUME NEW x \in Texts, ~Has(x, Ending), NEW s, DatabaseKey \notin DOMAIN s,
         NEW e \in Ending, NEW z \in Texts, NEW k1, NEW v1, NEW s1,
         Scan(Scan(AtStart(DatabaseKey, <<>>, s), Append(x, e)), z) = AtKey(k1, v1, s1),
         DatabaseKey \in DOMAIN s1 => ~Has(s1[DatabaseKey], Ending)
  PROVE  \E w : Scan(AtStart(DatabaseKey, <<>>, s), Append(x, e)) =
                  AtKey(DatabaseKey, w, With(s, DatabaseKey, w))
<1>. DEFINE r == Scan(AtStart(DatabaseKey, <<>>, s), x)
            a == Scan(AtStart(DatabaseKey, <<>>, s), Append(x, e))
<1>1. e \in Units
  BY UnitsAre
<1>2. PICK w \in Texts : Pending(r, DatabaseKey, w, s) \/ r = Malformed(DatabaseKey, w, s)
  BY ValuePends
<1>3. a = ReadUnit(r, e)
  BY <1>1, ScanAppend
<1>4. ~Held(a, DatabaseKey)
  <2>. SUFFICES ASSUME Held(a, DatabaseKey)  PROVE FALSE
    OBVIOUS
  <2>. HIDE DEF a
  <2>1. Held(Scan(a, z), DatabaseKey)
    BY HeldThrough
  <2>2. Held(AtKey(k1, v1, s1), DatabaseKey)
    BY <2>1 DEF a
  <2>3. Keeps(s1, DatabaseKey)
    BY <2>2, HeldIsRead
  <2>. QED  BY <2>3 DEF Keeps
<1>. HIDE DEF r, a
<1>5. r # Malformed(DatabaseKey, w, s)
  <2>. SUFFICES ASSUME r = Malformed(DatabaseKey, w, s)  PROVE FALSE
    OBVIOUS
  <2>1. a = Malformed(DatabaseKey, w, s)
    BY <1>3, MalformedStays
  <2>. QED  BY <1>2, <1>4, <2>1 DEF Held
<1>6. r # AtBraced(DatabaseKey, w, s)
  <2>. SUFFICES ASSUME r = AtBraced(DatabaseKey, w, s)  PROVE FALSE
    OBVIOUS
  <2>1. e \notin Closing
    BY UnitsAre
  <2>2. a = AtBraced(DatabaseKey, Append(w, e), s)
    BY <1>3, <2>1, BracedGoesOn
  <2>3. Append(w, e) \in Texts /\ Has(Append(w, e), Ending)
    BY <1>1, <1>2, TextAppend, HasAppend
  <2>4. Pending(a, DatabaseKey, Append(w, e), s)
    BY <2>2 DEF Pending
  <2>5. WillKeep(DatabaseKey, Append(w, e), s, DatabaseKey)
    BY <2>3 DEF WillKeep
  <2>. QED  BY <1>4, <2>3, <2>4, <2>5 DEF Held
<1>7. r \in {AtStart(DatabaseKey, w, s), AtOpen(DatabaseKey, w, s), AtClosed(DatabaseKey, w, s)}
  BY <1>2, <1>5, <1>6 DEF Pending
<1>8. a = AtKey(DatabaseKey, w, Settled(s, DatabaseKey, w))
  BY <1>3, <1>7, Ends
<1>9. Settled(s, DatabaseKey, w) = With(s, DatabaseKey, w)
  BY DEF Settled
<1>. QED  BY <1>8, <1>9 DEF a

LEMMA Replaces ==
  ASSUME NEW t \in Texts, KeysRead(t), NEW s, Reading(t) = {s},
         DatabaseKey \in DOMAIN s => ~Has(s[DatabaseKey], Ending),
         NEW i \in 1..Len(t), t[i] \in DatabaseKeys, ~Has(Before(t, i), DatabaseKeys),
         NEW m \in Texts
  PROVE  Reading((Before(t, i) \o (<<DatabaseKey>> \o EscapeOdbcValue(m)))
                   \o From(SubSeq(t, i, Len(t)), Ending)) = {With(s, DatabaseKey, m)}
<1>1. PICK x \in Texts, y \in Texts : x = Before(t, i) /\ y = Behind(t, i)
  BY SplitAt
<1>2. PICK d \in Units : d = t[i]
  BY SplitAt
<1>3. /\ t = Append(x, d) \o y /\ SubSeq(t, i, Len(t)) = <<d>> \o y
      /\ d \in DatabaseKeys /\ d \notin Ending
  <2>1. /\ t = Append(Before(t, i), t[i]) \o Behind(t, i)
        /\ SubSeq(t, i, Len(t)) = <<t[i]>> \o Behind(t, i)
    BY SplitAt
  <2>2. d \in DatabaseKeys /\ d \notin Ending
    BY <1>2, DatabaseKeysAre
  <2>. QED  BY <1>1, <1>2, <2>1, <2>2
<1>4. PICK e \in Ending : e \in Units
  BY UnitsAre DEF Ending
<1>5. PICK v \in Texts, z \in Texts :
        /\ ~Has(v, Ending) /\ Append(y, e) = Append(v, e) \o z
        /\ From(<<d>> \o y, Ending) \in Texts
        /\ \A n \in Texts : Append(n \o From(<<d>> \o y, Ending), e) = Append(n, e) \o z
  BY <1>3, EndSplits
<1>6. PICK k0, v0, s0 : Scan(Begun, x) = AtKey(k0, v0, s0) /\ DatabaseKey \notin DOMAIN s0
  BY <1>1, KeyIsFirst
<1>7. Append(x, d) \in Texts /\ Scan(Begun, Append(x, d)) = AtStart(DatabaseKey, <<>>, s0)
  BY <1>3, <1>6, KeyIsRead
<1>8. PICK k1, v1 : ReadUnit(Scan(Begun, t), e) = AtKey(k1, v1, s)
  BY ReadingIs
<1>. DEFINE r == AtStart(DatabaseKey, <<>>, s0)
            a == Scan(r, Append(v, e))
<1>9. Scan(a, z) = AtKey(k1, v1, s)
  <2>1. Append(v, e) \in Texts /\ Append(y, e) \in Texts
    BY <1>4, TextAppend
  <2>2. PICK p \in Texts : p = Append(x, d)
    BY <1>7
  <2>3. Append(t, e) = p \o Append(y, e)
    BY <1>3, <1>4, <2>2, JoinAppend
  <2>4. Scan(Begun, Append(t, e)) = Scan(r, Append(y, e))
    BY <1>7, <2>1, <2>2, <2>3, ScanConcat
  <2>5. Scan(r, Append(y, e)) = Scan(Scan(r, Append(v, e)), z)
    BY <1>5, <2>1, ScanConcat
  <2>6. Scan(Begun, Append(t, e)) = ReadUnit(Scan(Begun, t), e)
    BY <1>4, ScanAppend
  <2>. QED  BY <1>8, <2>4, <2>5, <2>6
<1>10. PICK w : a = AtKey(DatabaseKey, w, With(s0, DatabaseKey, w))
  BY <1>5, <1>6, <1>9, OldIsRead
<1>11. EscapeOdbcValue(m) \in Texts
       /\ Scan(r, EscapeOdbcValue(m)) \in {AtStart(DatabaseKey, m, s0),
            AtOpen(DatabaseKey, m, s0), AtClosed(DatabaseKey, m, s0)}
  BY EscapedIsRead
<1>12. PICK p : p = x \o (<<DatabaseKey>> \o EscapeOdbcValue(m))
  OBVIOUS
<1>13. p \in Texts /\ Scan(Begun, p) = Scan(r, EscapeOdbcValue(m))
  <2>1. PICK k \in DatabaseKeys : k = DatabaseKey /\ k \in Units
    BY DatabaseKeysAre, UnitsAre
  <2>2. Append(x, k) \in Texts /\ Scan(Begun, Append(x, k)) = r
    BY <1>6, KeyIsRead
  <2>3. <<k>> \in Texts /\ x \o <<k>> = Append(x, k)
    BY <2>1, JoinOne
  <2>4. (x \o <<k>>) \o EscapeOdbcValue(m) = x \o (<<k>> \o EscapeOdbcValue(m))
    <3>1. PICK h \in Texts, l \in Texts : h = <<k>> /\ l = EscapeOdbcValue(m)
      BY <1>11, <2>3
    <3>2. (x \o h) \o l = x \o (h \o l)
      BY SMTT(30) DEF Texts
    <3>. QED  BY <3>1, <3>2
  <2>5. p = Append(x, k) \o EscapeOdbcValue(m)
    BY <1>12, <2>1, <2>3, <2>4
  <2>6. Append(x, k) \o EscapeOdbcValue(m) \in Texts
    BY <1>11, <2>2, TextsJoin
  <2>7. Scan(Begun, Append(x, k) \o EscapeOdbcValue(m)) = Scan(r, EscapeOdbcValue(m))
    BY <1>11, <2>2, ScanConcat
  <2>. QED  BY <2>5, <2>6, <2>7
<1>. DEFINE b == Scan(Begun, Append(p, e))
<1>14. b = AtKey(DatabaseKey, m, With(s0, DatabaseKey, m))
  <2>1. b = ReadUnit(Scan(Begun, p), e)
    BY <1>4, <1>13, ScanAppend
  <2>2. b = AtKey(DatabaseKey, m, Settled(s0, DatabaseKey, m))
    BY <1>11, <1>13, <2>1, Ends
  <2>. QED  BY <1>6, <2>2 DEF Settled
<1>15. Twins(a, b, DatabaseKey, m)
  <2>1. PICK s2, s3 : s2 = With(s0, DatabaseKey, w) /\ s3 = With(s0, DatabaseKey, m)
    OBVIOUS
  <2>2. DatabaseKey \in DOMAIN s2 /\ s3 = With(s2, DatabaseKey, m)
    BY <2>1, WithAgain
  <2>3. a = AtKey(DatabaseKey, w, s2) /\ b = AtKey(DatabaseKey, m, s3)
    BY <1>10, <1>14, <2>1
  <2>. HIDE DEF a, b
  <2>. QED  BY <2>2, <2>3 DEF Twins
<1>. HIDE DEF a, b
<1>16. PICK k2, v2 : Scan(b, z) = AtKey(k2, v2, With(s, DatabaseKey, m))
  <2>1. Twins(Scan(a, z), Scan(b, z), DatabaseKey, m)
    BY <1>15, TwinsThrough
  <2>. QED  BY <1>9, <2>1, TwinsAreRead
<1>17. PICK n \in Texts : n = p \o From(<<d>> \o y, Ending)
  BY <1>5, <1>13, TextsJoin
<1>18. Scan(Begun, Append(n, e)) = Scan(b, z)
  <2>1. Append(n, e) = Append(p, e) \o z
    BY <1>5, <1>13, <1>17
  <2>2. Append(p, e) \in Texts
    BY <1>4, <1>13, TextAppend
  <2>3. Scan(Begun, Append(p, e) \o z) = Scan(Scan(Begun, Append(p, e)), z)
    BY <2>2, ScanConcat
  <2>. QED  BY <2>1, <2>3 DEF b
<1>19. ReadUnit(Scan(Begun, n), e) = AtKey(k2, v2, With(s, DatabaseKey, m))
  BY <1>4, <1>16, <1>18, ScanAppend
<1>20. Reading(n) = {With(s, DatabaseKey, m)}
  BY <1>19, ReadsAs
<1>. QED  BY <1>1, <1>3, <1>12, <1>17, <1>20

(* Where with_database cuts: a character whose upper case is shorter, in   *)
(* front of the key, stays in front of the cut.                            *)
Short == {"i2"}

Shorts(t, i) == {n \in 1..(i - 1) : t[n] \in Short}

Cut(t) == Find(t, DatabaseKeys) - Cardinality(Shorts(t, Find(t, DatabaseKeys)))

SetBehind(t, m, x) ==
  \E e \in Ending : x = (t \o <<e>>) \o (<<DatabaseKey>> \o EscapeOdbcValue(m))

SetAt(t, m, j, x) ==
  x = (SubSeq(t, 1, j - 1) \o (<<DatabaseKey>> \o EscapeOdbcValue(m)))
        \o From(SubSeq(t, j, Len(t)), Ending)

LEMMA WithDatabaseIs ==
  ASSUME NEW t \in Texts, NEW m, NEW x \in WithDatabase(t, m)
  PROVE  \/ Cut(t) = 0 /\ SetBehind(t, m, x)
         \/ Cut(t) # 0 /\ t[Cut(t)] \notin Short /\ SetAt(t, m, Cut(t), x)
<1>1. PICK i, j : i = Find(t, DatabaseKeys) /\ j = i - Cardinality(Shorts(t, i)) /\ j = Cut(t)
  BY DEF Cut
<1>2. WithDatabase(t, m) =
        IF j = 0 THEN {t \o <<";">> \o (<<"Database=">> \o EscapeOdbcValue(m))}
        ELSE IF t[j] = "i2" THEN {}
        ELSE {SubSeq(t, 1, j - 1) \o (<<"Database=">> \o EscapeOdbcValue(m))
                \o From(SubSeq(t, j, Len(t)), {";"})}
  <2>1. i = Find(t, {"Database=", "database="})
    BY <1>1 DEF DatabaseKeys
  <2>2. j = i - Cardinality({n \in 1..(i - 1) : t[n] = "i2"})
    BY <1>1 DEF Shorts, Short
  <2>. QED  BY <2>1, <2>2 DEF WithDatabase
<1>. HIDE DEF WithDatabase
<1>3. CASE j = 0
  <2>1. x = t \o <<";">> \o (<<"Database=">> \o EscapeOdbcValue(m))
    BY <1>2, <1>3
  <2>. QED  BY <1>1, <1>3, <2>1 DEF Ending, DatabaseKey, SetBehind
<1>4. CASE j # 0
  <2>1. t[j] # "i2" /\ x = SubSeq(t, 1, j - 1) \o (<<"Database=">> \o EscapeOdbcValue(m))
                             \o From(SubSeq(t, j, Len(t)), {";"})
    BY <1>2, <1>4
  <2>. QED  BY <1>1, <1>4, <2>1 DEF Short, Ending, DatabaseKey, SetAt
<1>. QED  BY <1>3, <1>4

LEMMA ShortsStay ==
  ASSUME NEW t \in Texts, NEW i \in 1..Len(t), ReadsKey(Scan(Begun, Before(t, i))),
         Shorts(t, i) # {}, NEW j, j = i - Cardinality(Shorts(t, i))
  PROVE  j \in 2..i /\ \E n \in 1..(j - 1) : t[n] \in Short
<1>. DEFINE N == Shorts(t, i)
<1>1. Len(t) \in Nat /\ i \in Nat
  BY DEF Texts
<1>2. N \subseteq 1..(i - 1) /\ i - 1 >= 1
  BY <1>1 DEF Shorts
<1>3. t[i - 1] \in Ending
  <2>1. PICK x \in Texts : x = Before(t, i)
    BY SplitAt
  <2>2. Len(Before(t, i)) = i - 1 /\ \A n \in 1..(i - 1) : Before(t, i)[n] = t[n]
    BY SplitAt
  <2>3. Len(x) = i - 1 /\ x[i - 1] = t[i - 1]
    BY <1>1, <1>2, <2>1, <2>2
  <2>4. x # <<>>
    BY <1>2, <2>3
  <2>5. x[Len(x)] \in Ending
    BY <2>1, <2>4, LastEnds
  <2>. QED  BY <2>3, <2>5
<1>4. i - 1 \notin N
  <2>1. Short \cap Ending = {}
    BY DEF Short, Ending
  <2>. QED  BY <1>3, <2>1 DEF Shorts
<1>5. N \subseteq 1..(i - 2)
  <2>1. \A n \in 1..(i - 1) : n = i - 1 \/ n \in 1..(i - 2)
    BY <1>1
  <2>. QED  BY <1>2, <1>4, <2>1
<1>6. IsFiniteSet(1..(i - 2)) /\ Cardinality(1..(i - 2)) = IF 1 > i - 2 THEN 0 ELSE (i - 2) - 1 + 1
  <2>1. PICK a \in Int, b \in Int : a = 1 /\ b = i - 2
    BY <1>1
  <2>2. IsFiniteSet(a..b) /\ Cardinality(a..b) = IF a > b THEN 0 ELSE b - a + 1
    BY FS_Interval
  <2>. QED  BY <2>1, <2>2
<1>7. IsFiniteSet(N) /\ Cardinality(N) <= Cardinality(1..(i - 2))
  BY <1>5, <1>6, FS_Subset
<1>8. Cardinality(N) \in Nat /\ Cardinality(N) # 0
  BY <1>7, FS_CardinalityType, FS_EmptySet
<1>9. PICK k : k = Cardinality(N)
  OBVIOUS
<1>10. k \in Nat /\ k >= 1 /\ k <= i - 2 /\ j = i - k
  BY <1>1, <1>6, <1>7, <1>8, <1>9
<1>. HIDE DEF N
<1>11. j \in 2..i
  BY <1>1, <1>10
<1>12. \E n \in 1..(j - 1) : n \in N
  <2>. SUFFICES ASSUME \A n \in 1..(j - 1) : n \notin N  PROVE FALSE
    OBVIOUS
  <2>1. \A n \in 1..(i - 2) : n \in 1..(j - 1) \/ n \in j..(i - 2)
    BY <1>1, <1>11
  <2>2. N \subseteq j..(i - 2)
    BY <1>5, <2>1
  <2>3. PICK a \in Int, b \in Int : a = j /\ b = i - 2
    BY <1>1, <1>11
  <2>4. IsFiniteSet(a..b) /\ Cardinality(a..b) = IF a > b THEN 0 ELSE b - a + 1
    BY FS_Interval
  <2>5. Cardinality(N) <= Cardinality(a..b)
    BY <2>2, <2>3, <2>4, FS_Subset
  <2>. QED  BY <1>1, <1>9, <1>10, <2>3, <2>4, <2>5
<1>. QED  BY <1>11, <1>12 DEF N, Shorts

LEMMA FromText ==
  ASSUME NEW t \in Texts, NEW us
  PROVE  From(t, us) \in Texts
<1>1. Find(t, us) \in 0..Len(t) /\ Len(t) \in Nat /\ <<>> \in Texts
  BY FoundIs, UnitsAre DEF Texts
<1>2. PICK i : i = Find(t, us)
  OBVIOUS
<1>3. i # 0 => SubSeq(t, i, Len(t)) \in Texts
  BY <1>1, <1>2 DEF Texts
<1>. QED  BY <1>1, <1>2, <1>3 DEF From

LEMMA JoinFour ==
  ASSUME NEW t \in Texts, NEW e \in Units, NEW k \in Units, NEW v \in Texts
  PROVE  (t \o <<e>>) \o (<<k>> \o v) = t \o (<<e, k>> \o v)
<1>1. PICK a \in Texts, b \in Texts, w \in Texts : a = <<e>> /\ b = <<k>> /\ w = <<e, k>>
  BY JoinOne, JoinTwo
<1>2. PICK ta \in Texts : ta = t \o a
  BY TextsJoin
<1>3. ta = Append(t, e)
  BY <1>1, <1>2, JoinOne
<1>4. ta \o b = Append(ta, k)
  BY <1>1, JoinOne
<1>5. t \o w = Append(Append(t, e), k)
  BY <1>1, JoinTwo
<1>6. ta \o b = t \o w
  BY <1>3, <1>4, <1>5
<1>7. ta \o (b \o v) = (ta \o b) \o v
  BY TextsAssociate
<1>8. t \o (w \o v) = (t \o w) \o v
  <2>. HIDE <1>1
  <2>1. w \in Texts
    OBVIOUS
  <2>. QED  BY <2>1, SMTT(30) DEF Texts
<1>9. ta \o (b \o v) = t \o (w \o v)
  BY <1>6, <1>7, <1>8
<1>. QED  BY <1>1, <1>2, <1>9

(* So the string says what was asked for with another database, unless the *)
(* old one holds an end, or one of those characters is left.               *)
LEMMA MovesRead ==
  ASSUME NEW t \in Texts, KeysRead(t), NEW s, Reading(t) = {s},
         DatabaseKey \in DOMAIN s => ~Has(s[DatabaseKey], Ending),
         NEW m \in Texts, NEW x \in WithDatabase(t, m), ~Has(x, Short)
  PROVE  Reading(x) = {With(s, DatabaseKey, m)}
<1>1. PICK i : i = Find(t, DatabaseKeys)
  OBVIOUS
<1>2. PICK j : j = i - Cardinality(Shorts(t, i)) /\ j = Cut(t)
  BY <1>1 DEF Cut
<1>3. \/ j = 0 /\ SetBehind(t, m, x)
      \/ j # 0 /\ t[j] \notin Short /\ SetAt(t, m, j, x)
  BY <1>2, WithDatabaseIs
<1>4. /\ i \in 0..Len(t) /\ (i = 0 <=> ~Has(t, DatabaseKeys))
      /\ (i # 0 => t[i] \in DatabaseKeys) /\ (\A n \in 1..(i - 1) : t[n] \notin DatabaseKeys)
      /\ Len(t) \in Nat
  BY <1>1, FoundIs DEF Texts
<1>5. EscapeOdbcValue(m) \in Texts
  BY EscapedIsRead
<1>6. PICK k \in DatabaseKeys : k = DatabaseKey /\ k \in Units /\ k \in Keys /\ Name(k) = k
  BY DatabaseKeysAre, UnitsAre
<1>7. CASE i = 0
  <2>1. Shorts(t, i) = {}
    BY <1>7 DEF Shorts
  <2>2. j = 0
    BY <1>2, <1>7, <2>1, FS_EmptySet
  <2>3. PICK e \in Ending : x = (t \o <<e>>) \o (<<k>> \o EscapeOdbcValue(m))
    BY <1>3, <1>6, <2>2 DEF SetBehind
  <2>4. PICK v \in Texts : v = EscapeOdbcValue(m)
    BY <1>5
  <2>5. (t \o <<e>>) \o (<<k>> \o v) = t \o (<<e, k>> \o v)
    <3>1. e \in Units /\ k \in Units
      BY <1>6, UnitsAre
    <3>. QED  BY <3>1, JoinFour
  <2>6. Reading(t \o (<<e, k>> \o EscapeOdbcValue(m))) = {Settled(s, Name(k), m)}
    BY <1>6, SettingIsRead
  <2>7. k \notin DOMAIN s
    <3>1. DOMAIN s = Names(t)
      BY KeysOfReading
    <3>2. ASSUME NEW n \in Keys, Has(t, {n}), Name(n) = k  PROVE FALSE
      <4>1. n \in DatabaseKeys
        BY <1>6, <3>2, DatabaseKeysAre
      <4>. QED  BY <1>4, <1>7, <3>2, <4>1 DEF Has
    <3>. QED  BY <3>1, <3>2 DEF Names
  <2>8. Settled(s, Name(k), m) = With(s, k, m)
    BY <1>6, <2>7 DEF Settled
  <2>. QED  BY <1>6, <2>3, <2>4, <2>5, <2>6, <2>8
<1>8. CASE i # 0
  <2>1. PICK h \in 1..Len(t) : h = i
    BY <1>4, <1>8
  <2>2. t[h] \in DatabaseKeys /\ t[h] \in Keys
    BY <1>4, <1>8, <2>1, DatabaseKeysAre
  <2>3. ReadsKey(Scan(Begun, Before(t, h)))
    BY <2>2 DEF KeysRead, Before
  <2>4. ASSUME Shorts(t, h) # {}  PROVE FALSE
    <3>1. j = h - Cardinality(Shorts(t, h))
      BY <1>2, <2>1
    <3>2. j \in 2..h /\ \E n \in 1..(j - 1) : t[n] \in Short
      BY <2>3, <2>4, <3>1, ShortsStay
    <3>3. x = (SubSeq(t, 1, j - 1) \o (<<k>> \o EscapeOdbcValue(m)))
                \o From(SubSeq(t, j, Len(t)), Ending)
      <4>1. j # 0
        BY <3>2
      <4>. QED  BY <1>3, <1>6, <4>1 DEF SetAt
    <3>4. PICK p \in 1..Len(t) : p = j - 1
      <4>1. j - 1 \in 1..Len(t)
        BY <1>4, <2>1, <3>2
      <4>. QED  BY <4>1
    <3>5. PICK a \in Texts : a = SubSeq(t, 1, j - 1)
      <4>1. SubSeq(t, 1, p) \in Texts
        BY DEF Texts
      <4>. QED  BY <3>4, <4>1
    <3>6. PICK b \in Texts : b = From(SubSeq(t, j, Len(t)), Ending)
      <4>1. SubSeq(t, j, Len(t)) \in Texts
        BY <1>4, <2>1, <3>2 DEF Texts
      <4>. QED  BY <4>1, FromText
    <3>7. PICK w \in Texts : w = <<k>> \o EscapeOdbcValue(m)
      <4>1. <<k>> \in Texts
        BY <1>6, JoinOne
      <4>. QED  BY <1>5, <4>1, TextsJoin
    <3>8. Has(a, Short)
      <4>1. PICK n \in 1..(j - 1) : t[n] \in Short
        BY <3>2
      <4>2. n \in DOMAIN a /\ a[n] = t[n]
        BY <1>4, <2>1, <3>2, <3>5 DEF Texts
      <4>. QED  BY <4>1, <4>2 DEF Has
    <3>9. a \o w \in Texts /\ Has(a \o w, Short)
      BY <3>8, TextsJoin, HasJoin
    <3>10. Has((a \o w) \o b, Short)
      <4>1. PICK aw \in Texts : aw = a \o w
        BY <3>9
      <4>2. Has(aw \o b, Short) <=> Has(aw, Short) \/ Has(b, Short)
        BY HasJoin
      <4>. QED  BY <3>9, <4>1, <4>2
    <3>. QED  BY <3>3, <3>5, <3>6, <3>7, <3>10
  <2>5. j = h
    <3>1. Cardinality(Shorts(t, h)) = 0
      BY <2>4, FS_EmptySet
    <3>. QED  BY <1>2, <2>1, <3>1
  <2>6. x = (SubSeq(t, 1, h - 1) \o (<<DatabaseKey>> \o EscapeOdbcValue(m)))
              \o From(SubSeq(t, h, Len(t)), Ending)
    <3>1. h # 0
      OBVIOUS
    <3>. QED  BY <1>3, <2>5, <3>1 DEF SetAt
  <2>7. ~Has(Before(t, h), DatabaseKeys)
    <3>1. Before(t, h) \in Texts /\ Len(Before(t, h)) = h - 1
          /\ \A n \in 1..(h - 1) : Before(t, h)[n] = t[n]
      BY SplitAt
    <3>2. DOMAIN Before(t, h) = 1..(h - 1)
      BY <3>1 DEF Texts
    <3>. QED  BY <1>4, <2>1, <3>1, <3>2 DEF Has
  <2>8. Reading((Before(t, h) \o (<<DatabaseKey>> \o EscapeOdbcValue(m)))
                  \o From(SubSeq(t, h, Len(t)), Ending)) = {With(s, DatabaseKey, m)}
    BY <2>2, <2>7, Replaces
  <2>. QED  BY <2>6, <2>8 DEF Before
<1>. QED  BY <1>7, <1>8

(* What a call's string says: while it is built and while its connection   *)
(* is open, what was asked for; before it turns to master, what the        *)
(* request asks; and then what was asked for, if it could be replaced.     *)
Replaceable(q, text) ==
  (\A n \in Target(q) : ~Has(n, {";"} \cup Keys)) /\ ~Has(text, {"i2"})

Moved(q, text, asked) ==
  PlainAsked(asked) /\ Replaceable(q, text) => Reading(text) = {asked}

Told(call) ==
  /\ call.pc \in {"building", "connected"} => Faithful(call.text, call.asked)
  /\ call.pc = "direct" => call.asked \in Asked(call.q)
  /\ call.pc \in {"master", "statement"} => Moved(call.q, call.text, call.asked)

AllTold == \A c \in Clients : Told(client[c])

LEMMA MasterIs ==
  Master \in Texts
<1>1. "master" \in Units
  BY UnitsAssumption
<1>. QED  BY <1>1, JoinOne DEF Master, Texts

LEMMA PlainBefore ==
  ASSUME NEW a, NEW m, PlainAsked(With(a, DatabaseKey, m)),
         ~Has(DatabaseIn(a), Keys)
  PROVE  PlainAsked(a)
<1>1. ASSUME NEW n \in DOMAIN a  PROVE ~Has(a[n], Keys)
  <2>1. CASE n = DatabaseKey
    <3>1. DatabaseIn(a) = a[n]
      BY <2>1 DEF DatabaseIn, DatabaseKey
    <3>. QED  BY <3>1
  <2>2. CASE n # DatabaseKey
    <3>1. PICK w : w = With(a, DatabaseKey, m)
      OBVIOUS
    <3>2. n \in DOMAIN w /\ w[n] = a[n]
      BY <2>2, <3>1 DEF With
    <3>. QED  BY <3>1, <3>2 DEF PlainAsked
  <2>. QED  BY <2>1, <2>2
<1>. QED  BY <1>1 DEF PlainAsked

LEMMA MovedToMaster ==
  ASSUME NEW c \in Clients, NEW q \in Requests[c], NEW a \in Asked(q),
         NEW x \in WithDatabase(FromStr(q), Master)
  PROVE  Moved(q, x, With(a, DatabaseKey, Master))
<1>. SUFFICES ASSUME PlainAsked(With(a, DatabaseKey, Master)), Replaceable(q, x)
              PROVE  Reading(x) = {With(a, DatabaseKey, Master)}
  BY DEF Moved
<1>1. Faithful(FromStr(q), a) /\ Target(q) = {DatabaseIn(a)}
  BY AskedIsRead
<1>2. PICK t \in Texts : t = FromStr(q)
  BY <1>1 DEF Faithful
<1>3. PICK n : n = DatabaseIn(a)
  OBVIOUS
<1>4. ~Has(n, {";"} \cup Keys) /\ ~Has(x, Short)
  BY <1>1, <1>3 DEF Replaceable, Short
<1>5. ~Has(n, Keys) /\ ~Has(n, Ending)
  BY <1>4 DEF Has, Ending
<1>6. KeysRead(t) /\ Reading(t) = {a}
  <2>1. PlainAsked(a)
    BY <1>3, <1>5, PlainBefore
  <2>. QED  BY <1>1, <1>2, <2>1 DEF Faithful
<1>7. DatabaseKey \in DOMAIN a => ~Has(a[DatabaseKey], Ending)
  BY <1>3, <1>5 DEF DatabaseIn, DatabaseKey
<1>8. PICK m \in Texts : m = Master
  BY MasterIs
<1>9. x \in WithDatabase(t, m)
  BY <1>2, <1>8
<1>10. Reading(x) = {With(a, DatabaseKey, m)}
  <2>1. PICK s : s = a
    OBVIOUS
  <2>2. /\ KeysRead(t) /\ Reading(t) = {s} /\ (DatabaseKey \in DOMAIN s => ~Has(s[DatabaseKey], Ending))
        /\ x \in WithDatabase(t, m) /\ ~Has(x, Short)
    BY <1>4, <1>6, <1>7, <1>9, <2>1
  <2>3. Reading(x) = {With(s, DatabaseKey, m)}
    BY ONLY <2>2, t \in Texts, m \in Texts, MovesRead
  <2>. QED  BY <2>1, <2>3
<1>. QED  BY <1>8, <1>10

LEMMA IdleTold ==
  ASSUME NEW result  PROVE Told(Idle(result))
<1>1. Idle(result).pc = "idle"
  BY IdleIs
<1>. QED  BY <1>1 DEF Told

LEMMA ToMasterTold ==
  ASSUME NEW c \in Clients, NEW call, NEW next \in ToMaster(call),
         call = [pc |-> call.pc, op |-> call.op, q |-> call.q, text |-> call.text,
                 asked |-> call.asked, on |-> <<>>, result |-> "none"],
         call.q \in Requests[c], call.text = FromStr(call.q), call.asked \in Asked(call.q)
  PROVE  Told(next)
<1>1. CASE next = Idle("err")
  BY <1>1, IdleTold
<1>2. CASE next # Idle("err")
  <2>1. PICK t \in WithDatabase(call.text, Master) :
          next = [call EXCEPT !.pc = "master", !.text = t,
                              !.asked = With(@, "Database=", Master)]
    <3>. DEFINE moved == {[call EXCEPT !.pc = "master", !.text = t,
                                       !.asked = With(@, "Database=", Master)] :
                            t \in WithDatabase(call.text, Master)}
    <3>1. ToMaster(call) = IF ExtractDatabaseName(call.q) = {} \/ moved = {}
                           THEN {Idle("err")} ELSE moved
      BY DEF ToMaster
    <3>2. next \in moved
      <4>. HIDE DEF moved
      <4>. QED  BY <1>2, <3>1
    <3>. QED  BY <3>2
  <2>2. next.pc = "master" /\ next.q = call.q /\ next.text = t
        /\ next.asked = With(call.asked, DatabaseKey, Master)
    <3>1. PICK pc, op, q, text, asked :
            call = [pc |-> pc, op |-> op, q |-> q, text |-> text,
                    asked |-> asked, on |-> <<>>, result |-> "none"]
      OBVIOUS
    <3>2. call.op = op /\ call.q = q /\ call.asked = asked
      BY <3>1
    <3>3. next = [call EXCEPT !.pc = "master", !.text = t,
                              !.asked = With(asked, "Database=", Master)]
      BY <2>1, <3>2
    <3>4. next = [pc |-> "master", op |-> op, q |-> q, text |-> t,
                  asked |-> With(asked, "Database=", Master),
                  on |-> <<>>, result |-> "none"]
      BY ONLY <3>1, <3>3
    <3>. QED  BY <3>2, <3>4 DEF DatabaseKey
  <2>3. PICK q \in Requests[c] : q = call.q
    OBVIOUS
  <2>4. PICK a \in Asked(q) : a = call.asked
    BY <2>3
  <2>5. t \in WithDatabase(FromStr(q), Master)
    BY <2>3
  <2>6. Moved(q, t, With(a, DatabaseKey, Master))
    BY <2>5, MovedToMaster
  <2>7. Moved(next.q, next.text, next.asked)
    BY <2>2, <2>3, <2>4, <2>6
  <2>. QED  BY <2>2, <2>7 DEF Told
<1>. QED  BY <1>1, <1>2

-----------------------------------------------------------------------------
LEMMA BeginTold ==
  ASSUME SetupInv, NEW c \in Clients, Begin(c)
  PROVE  Told(client'[c])
<1>1. PICK q \in Requests[c], op \in {"open", "exists", "create", "drop"} :
        \E a \in Asked(q) :
          LET call == [pc |-> "building", op |-> op, q |-> q, text |-> FromStr(q),
                       asked |-> a, on |-> <<>>, result |-> "none"]
          IN  \E next \in CASE op = "open" -> {call}
                            [] op = "exists" -> {[call EXCEPT !.pc = "direct"]}
                            [] OTHER -> ToMaster(call) :
                client' = [client EXCEPT ![c] = next]
  BY DEF Begin
<1>2. PICK a \in Asked(q) :
        LET call == [pc |-> "building", op |-> op, q |-> q, text |-> FromStr(q),
                     asked |-> a, on |-> <<>>, result |-> "none"]
        IN  \E next \in CASE op = "open" -> {call}
                          [] op = "exists" -> {[call EXCEPT !.pc = "direct"]}
                          [] OTHER -> ToMaster(call) :
              client' = [client EXCEPT ![c] = next]
  BY <1>1
<1>. DEFINE call == [pc |-> "building", op |-> op, q |-> q, text |-> FromStr(q),
                     asked |-> a, on |-> <<>>, result |-> "none"]
<1>3. PICK next : /\ client' = [client EXCEPT ![c] = next]
                  /\ next \in CASE op = "open" -> {call}
                               [] op = "exists" -> {[call EXCEPT !.pc = "direct"]}
                               [] OTHER -> ToMaster(call)
  BY <1>2
<1>4. Told(next)
  <2>1. CASE op = "open"
    <3>1. next = call
      <4>. HIDE DEF call
      <4>. QED  BY <1>3, <2>1
    <3>2. next.pc = "building" /\ next.text = FromStr(q) /\ next.asked = a
      BY <3>1
    <3>3. Faithful(FromStr(q), a)
      BY AskedIsRead
    <3>4. Faithful(next.text, next.asked)
      BY <3>2, <3>3
    <3>. QED  BY <3>2, <3>4 DEF Told
  <2>2. CASE op = "exists"
    <3>1. next = [call EXCEPT !.pc = "direct"]
      <4>. HIDE DEF call
      <4>. QED  BY <1>3, <2>2
    <3>2. next.pc = "direct" /\ next.q = q /\ next.asked = a
      BY <3>1
    <3>3. next.asked \in Asked(next.q)
      BY <3>2
    <3>. QED  BY <3>2, <3>3 DEF Told
  <2>3. CASE op \in {"create", "drop"}
    <3>1. next \in ToMaster(call)
      <4>. HIDE DEF call
      <4>. QED  BY <1>3, <2>3
    <3>2. /\ call = [pc |-> call.pc, op |-> call.op, q |-> call.q, text |-> call.text,
                     asked |-> call.asked, on |-> <<>>, result |-> "none"]
          /\ call.q \in Requests[c] /\ call.text = FromStr(call.q)
          /\ call.asked \in Asked(call.q)
      OBVIOUS
    <3>. HIDE DEF call
    <3>. QED  BY <3>1, <3>2, ToMasterTold
  <2>. QED  BY <2>1, <2>2, <2>3
<1>5. client'[c] = next
  BY <1>3 DEF SetupInv, CallsOK
<1>. QED  BY <1>4, <1>5

LEMMA BuildTold ==
  ASSUME SetupInv, NEW c \in Clients, Told(client[c]), Build(c)
  PROVE  Told(client'[c])
<1>1. PICK edit \in {[key |-> "Encrypt=", text |-> Encrypt(client[c].text, TRUE)],
                     [key |-> "TrustServerCertificate=",
                      text |-> TrustCertificate(client[c].text, TRUE)]} :
        client' = [client EXCEPT ![c].text = edit.text,
                     ![c].asked = IF edit.key \in DOMAIN @ THEN @
                                  ELSE With(@, edit.key, <<"yes">>)]
  BY DEF Build
<1>2. edit \in {[key |-> EncryptKey, text |-> Encrypt(client[c].text, TRUE)],
                [key |-> TrustKey, text |-> TrustCertificate(client[c].text, TRUE)]}
  BY DEF EncryptKey, TrustKey
<1>3. PICK key : key = edit.key
  OBVIOUS
<1>4. PICK text : text = edit.text
  OBVIOUS
<1>5. /\ \/ key = EncryptKey /\ text = Encrypt(client[c].text, TRUE)
         \/ key = TrustKey /\ text = TrustCertificate(client[c].text, TRUE)
      /\ client' = [client EXCEPT ![c].text = text,
                      ![c].asked = IF key \in DOMAIN @ THEN @ ELSE With(@, key, Yes)]
  <2>1. \/ key = EncryptKey /\ text = Encrypt(client[c].text, TRUE)
        \/ key = TrustKey /\ text = TrustCertificate(client[c].text, TRUE)
    <3>1. \/ edit = [key |-> EncryptKey, text |-> Encrypt(client[c].text, TRUE)]
          \/ edit = [key |-> TrustKey, text |-> TrustCertificate(client[c].text, TRUE)]
      BY <1>2
    <3>2. CASE edit = [key |-> EncryptKey, text |-> Encrypt(client[c].text, TRUE)]
      <4>1. edit.key = EncryptKey
        BY ONLY <3>2
      <4>2. edit.text = Encrypt(client[c].text, TRUE)
        BY ONLY <3>2
      <4>. QED  BY <1>3, <1>4, <4>1, <4>2, Zenon
    <3>3. CASE edit = [key |-> TrustKey, text |-> TrustCertificate(client[c].text, TRUE)]
      <4>1. edit.key = TrustKey
        BY ONLY <3>3
      <4>2. edit.text = TrustCertificate(client[c].text, TRUE)
        BY ONLY <3>3
      <4>. QED  BY <1>3, <1>4, <4>1, <4>2, Zenon
    <3>. QED  BY <3>1, <3>2, <3>3, Zenon
  <2>2. client' = [client EXCEPT ![c].text = text,
                      ![c].asked = IF key \in DOMAIN @ THEN @ ELSE With(@, key, Yes)]
    BY <1>1, <1>3, <1>4 DEF Yes
  <2>. QED  BY <2>1, <2>2
<1>6. PICK asked : asked = IF key \in DOMAIN client[c].asked THEN client[c].asked
                           ELSE With(client[c].asked, key, Yes)
  OBVIOUS
<1>7. PICK next : next = [client[c] EXCEPT !.text = text, !.asked = asked]
  OBVIOUS
<1>8. client' = [client EXCEPT ![c] = next]
  BY <1>5, <1>6, <1>7
<1>9. client'[c] = next
  BY <1>8 DEF SetupInv, CallsOK
<1>10. client[c].pc = "building" /\ CallOK(c, client[c])
  BY DEF Build, SetupInv, CallsOK
<1>11. next.pc = "building" /\ next.text = text /\ next.asked = asked
  <2>1. client[c] = [pc |-> client[c].pc, op |-> client[c].op, q |-> client[c].q,
                     text |-> client[c].text, asked |-> client[c].asked,
                     on |-> client[c].on, result |-> client[c].result]
    BY <1>10 DEF CallOK
  <2>2. next = [pc |-> client[c].pc, op |-> client[c].op, q |-> client[c].q, text |-> text,
                asked |-> asked, on |-> client[c].on, result |-> client[c].result]
    BY <1>7, <2>1, EditedIs
  <2>. QED  BY <1>10, <2>2
<1>12. Faithful(text, asked)
  <2>1. PICK t, s : t = client[c].text /\ s = client[c].asked
    OBVIOUS
  <2>2. Faithful(t, s)
    BY <1>10, <2>1 DEF Told
  <2>3. /\ Faithful(Encrypt(t, TRUE),
                    IF EncryptKey \in DOMAIN s THEN s ELSE With(s, EncryptKey, Yes))
        /\ Faithful(TrustCertificate(t, TRUE),
                    IF TrustKey \in DOMAIN s THEN s ELSE With(s, TrustKey, Yes))
    BY <2>2, BuilderSets
  <2>. QED  BY <1>5, <1>6, <2>1, <2>3
<1>13. Faithful(next.text, next.asked)
  BY <1>11, <1>12
<1>. QED  BY <1>9, <1>11, <1>13 DEF Told

LEMMA ConnectTold ==
  ASSUME SetupInv, NEW c \in Clients, Told(client[c]), Connect(c)
  PROVE  Told(client'[c])
<1>. DEFINE call == client[c]
<1>1. PICK s \in Reading(call.text) :
        client' = [client EXCEPT ![c] =
             CASE call.pc = "building" -> [@ EXCEPT !.pc = "connected", !.on = DatabaseIn(s)]
               [] call.pc = "direct" -> Idle("true")
               [] call.pc = "master" -> [@ EXCEPT !.pc = "statement", !.on = DatabaseIn(s)]]
  BY DEF Connect
<1>2. PICK n : n = DatabaseIn(s)
  OBVIOUS
<1>3. PICK next : next = CASE call.pc = "building" -> [call EXCEPT !.pc = "connected", !.on = n]
                           [] call.pc = "direct" -> Idle("true")
                           [] call.pc = "master" -> [call EXCEPT !.pc = "statement", !.on = n]
  OBVIOUS
<1>4. client' = [client EXCEPT ![c] = next]
  BY <1>1, <1>2, <1>3
<1>5. client'[c] = next
  BY <1>4 DEF SetupInv, CallsOK
<1>6. call.pc \in {"building", "direct", "master"} /\ CallOK(c, call) /\ Told(call)
  BY DEF SetupInv, CallsOK, Connect
<1>. HIDE DEF call
<1>7. Told(next)
  <2>1. CASE call.pc = "direct"
    <3>1. next = Idle("true")
      BY <1>3, <2>1
    <3>. QED  BY <3>1, IdleTold
  <2>2. CASE call.pc # "direct"
    <3>1. PICK pc : /\ next = [call EXCEPT !.pc = pc, !.on = n]
                    /\ pc = IF call.pc = "building" THEN "connected" ELSE "statement"
      BY <1>3, <1>6, <2>2
    <3>2. next = [pc |-> pc, op |-> call.op, q |-> call.q, text |-> call.text,
                  asked |-> call.asked, on |-> n, result |-> call.result]
      BY <1>6, <3>1, MovedIs DEF CallOK
    <3>3. /\ next.pc = pc /\ next.text = call.text /\ next.asked = call.asked
          /\ next.q = call.q
      BY <3>2
    <3>4. CASE call.pc = "building"
      <4>1. Faithful(call.text, call.asked) /\ pc = "connected"
        BY <1>6, <3>1, <3>4 DEF Told
      <4>2. Faithful(next.text, next.asked) /\ next.pc = "connected"
        BY <3>3, <4>1
      <4>. QED  BY <4>2 DEF Told
    <3>5. CASE call.pc = "master"
      <4>1. Moved(call.q, call.text, call.asked) /\ pc = "statement"
        BY <1>6, <3>1, <3>5 DEF Told
      <4>2. Moved(next.q, next.text, next.asked) /\ next.pc = "statement"
        BY <3>3, <4>1
      <4>. QED  BY <4>2 DEF Told
    <3>. QED  BY <1>6, <2>2, <3>4, <3>5
  <2>. QED  BY <2>1, <2>2
<1>. QED  BY <1>5, <1>7

LEMMA ConnectFailedTold ==
  ASSUME SetupInv, NEW c \in Clients, Told(client[c]), ConnectFailed(c)
  PROVE  Told(client'[c])
<1>. DEFINE call == client[c]
<1>1. PICK next : /\ client' = [client EXCEPT ![c] = next]
                  /\ next \in CASE call.pc = "direct" -> ToMaster(call)
                               [] call.pc = "master" /\ call.op = "exists" -> {Idle("false")}
                               [] OTHER -> {Idle("err")}
  BY DEF ConnectFailed
<1>2. client'[c] = next /\ CallOK(c, call) /\ Told(call)
  BY <1>1 DEF SetupInv, CallsOK
<1>. HIDE DEF call
<1>3. Told(next)
  <2>1. CASE call.pc = "direct"
    <3>1. next \in ToMaster(call)
      BY <1>1, <2>1
    <3>2. /\ call = [pc |-> call.pc, op |-> call.op, q |-> call.q, text |-> call.text,
                     asked |-> call.asked, on |-> <<>>, result |-> "none"]
          /\ call.q \in Requests[c] /\ call.text = FromStr(call.q)
      BY <1>2, <2>1 DEF CallOK
    <3>3. call.asked \in Asked(call.q)
      BY <1>2, <2>1 DEF Told
    <3>. QED  BY <3>1, <3>2, <3>3, ToMasterTold
  <2>2. CASE call.pc # "direct"
    <3>1. next = Idle("false") \/ next = Idle("err")
      BY <1>1, <2>2
    <3>. QED  BY <3>1, IdleTold
  <2>. QED  BY <2>1, <2>2
<1>. QED  BY <1>2, <1>3

LEMMA NextTold ==
  ASSUME SetupInv, AllTold, [SetupNext]_setupVars
  PROVE  AllTold'
<1>1. ASSUME NEW d \in Clients  PROVE Told(client'[d])
  <2>1. Told(client[d])
    BY DEF AllTold
  <2>2. CASE UNCHANGED setupVars
    <3>1. client'[d] = client[d]
      BY <2>2 DEF setupVars
    <3>. QED  BY <2>1, <3>1
  <2>3. CASE SetupNext
    <3>1. PICK c \in Clients :
            \/ Begin(c) \/ Build(c) \/ Connect(c) \/ ConnectFailed(c)
            \/ CreateDatabase(c) \/ DropDatabase(c) \/ DatabaseExists(c)
            \/ StatementFailed(c) \/ Disconnect(c) \/ Prepare(c) \/ Close(c)
      BY <2>3 DEF SetupNext
    <3>2. CASE c # d
      <4>1. client'[d] = client[d]
        BY <3>1, <3>2, OthersStand
      <4>. QED  BY <2>1, <4>1
    <3>3. CASE c = d
      <4>1. ASSUME NEW result, client' = [client EXCEPT ![d] = Idle(result)]
            PROVE  Told(client'[d])
        <5>1. client'[d] = Idle(result)
          BY <4>1 DEF SetupInv, CallsOK
        <5>. QED  BY <5>1, IdleTold
      <4>2. CASE CreateDatabase(d) \/ DropDatabase(d) \/ DatabaseExists(d) \/ StatementFailed(d)
        <5>1. \E op, result : Execute(d, op, result)
          BY <4>2 DEF CreateDatabase, DropDatabase, DatabaseExists, StatementFailed
        <5>. QED  BY <4>1, <5>1 DEF Execute
      <4>3. CASE Close(d)
        BY <4>1, <4>3 DEF Close
      <4>4. CASE Disconnect(d) \/ Prepare(d)
        <5>1. client'[d] = client[d]
          BY <4>4 DEF Disconnect, Prepare
        <5>. QED  BY <2>1, <5>1
      <4>5. CASE Begin(d)
        BY <4>5, BeginTold
      <4>6. CASE Build(d)
        BY <2>1, <4>6, BuildTold
      <4>7. CASE Connect(d)
        BY <2>1, <4>7, ConnectTold
      <4>8. CASE ConnectFailed(d)
        BY <2>1, <4>8, ConnectFailedTold
      <4>. QED  BY <3>1, <3>3, <4>2, <4>3, <4>4, <4>5, <4>6, <4>7, <4>8
    <3>. QED  BY <3>2, <3>3
  <2>. QED  BY <2>2, <2>3
<1>. QED  BY <1>1 DEF AllTold

LEMMA ToldIsRead ==
  ASSUME SetupInv, AllTold  PROVE ReadsAsAsked
<1>1. ASSUME NEW c \in Clients, client[c].pc # "idle", PlainAsked(client[c].asked),
             client[c].pc \in {"master", "statement"}
               => Replaceable(client[c].q, client[c].text)
      PROVE  Reading(client[c].text) = {client[c].asked}
  <2>1. CallOK(c, client[c]) /\ Told(client[c])
    BY DEF SetupInv, CallsOK, AllTold
  <2>2. client[c].pc \in {"building", "connected", "direct", "master", "statement"}
    BY <1>1, <2>1 DEF CallOK
  <2>3. CASE client[c].pc \in {"building", "connected"}
    <3>1. Faithful(client[c].text, client[c].asked)
      BY <2>1, <2>3 DEF Told
    <3>. QED  BY <1>1, <3>1 DEF Faithful
  <2>4. CASE client[c].pc = "direct"
    <3>1. client[c].asked \in Asked(client[c].q) /\ client[c].text = FromStr(client[c].q)
          /\ client[c].q \in Requests[c]
      BY <2>1, <2>4 DEF Told, CallOK
    <3>2. PICK q \in Requests[c] : q = client[c].q
      BY <3>1
    <3>3. PICK a \in Asked(q) : a = client[c].asked
      BY <3>1, <3>2
    <3>4. Faithful(FromStr(q), a)
      BY AskedIsRead
    <3>5. Reading(FromStr(q)) = {a}
      BY <1>1, <3>3, <3>4 DEF Faithful
    <3>. QED  BY <3>1, <3>2, <3>5, <3>3
  <2>5. CASE client[c].pc \in {"master", "statement"}
    <3>1. Moved(client[c].q, client[c].text, client[c].asked)
      BY <2>1, <2>5 DEF Told
    <3>. QED  BY <1>1, <2>5, <3>1 DEF Moved
  <2>. QED  BY <2>2, <2>3, <2>4, <2>5
<1>. QED  BY <1>1 DEF ReadsAsAsked, PlainAsked, Replaceable

(* After any sequence of edits, a connection string is read as what was    *)
(* asked for, unless a value holds a key or, when the database was         *)
(* replaced, its name or the text holds what the edit stumbles over        *)
(* (options.rs:102-150, 173-244).                                          *)
THEOREM StringsReadAsAsked == SetupSpec => []ReadsAsAsked
<1>1. SetupInit => AllTold
  <2>. SUFFICES ASSUME SetupInit  PROVE AllTold
    OBVIOUS
  <2>1. \A c \in Clients : client[c] = Idle("none")
    BY DEF SetupInit
  <2>. QED  BY <2>1, IdleTold DEF AllTold
<1>2. SetupInv /\ AllTold /\ [SetupNext]_setupVars => AllTold'
  BY NextTold
<1>3. SetupInv /\ AllTold => ReadsAsAsked
  BY ToldIsRead
<1>. QED  BY <1>1, <1>2, <1>3, AlwaysSetupInv, PTL DEF SetupSpec
=============================================================================
