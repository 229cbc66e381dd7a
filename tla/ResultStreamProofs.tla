------------------------ MODULE ResultStreamProofs ------------------------
(***************************************************************************)
(* Proofs about ResultStream, for any number of queries, any batches, any  *)
(* capacity and rowset size and any set of faults: what is sent to a       *)
(* reader is the beginning of its batch's results, in order, with at most  *)
(* one error, at the end; and the streams implement ResultDelivery.        *)
(*                                                                         *)
(* The inductive invariant ties the place of the walk (result, fetched and *)
(* pending) to the number of events sent so far, which needs the place of  *)
(* every row and row count in Expected: the first part computes it from    *)
(* the definition of FlattenSeq, by induction over the results of a batch. *)
(*                                                                         *)
(* The last part is about StatementCache, for any cache capacity: the      *)
(* cache stays within it, and results stay pending only after a query on a *)
(* prepared statement was cut short.  The steps of the streams are those   *)
(* of ResultStream, so its invariant is at hand; what is added ties the    *)
(* statement of the command being served to the query and to the cache     *)
(* entry it came from.                                                     *)
(***************************************************************************)
EXTENDS StatementCache, SetInduction, SequenceTheorems

-----------------------------------------------------------------------------
(* Where the results of a batch lie in Expected. *)

(* The events of one result, of the first i results, and their number. *)
Part(b, i) == Append([j \in 1..b[i].rows |-> Row(i, j)], Done(i))
Parts(b) == [i \in 1..Len(b) |-> Part(b, i)]
Upto(b, i) == IF i = 0 THEN <<>> ELSE Flattening(Parts(b))[i]
Offset(b, i) == Len(Upto(b, i))

Result == [kind : {"row", "done"}, result : Nat, row : Nat]

LEMMA EventKinds ==
  /\ \A i, j \in Nat : Row(i, j) \in Result /\ Row(i, j).kind = "row"
  /\ \A i \in Nat : Done(i) \in Result /\ Done(i).kind = "done"
  /\ Error \in Event /\ Error \notin Result
  /\ Result \subseteq Event
BY DEF Row, Done, Error, Result, Event

LEMMA BatchType ==
  ASSUME NEW b \in Batches
  PROVE  /\ b \in Seq([columns : Nat, rows : Nat]) /\ b # <<>>
         /\ Len(b) \in Nat /\ Len(b) >= 1
         /\ \A i \in 1..Len(b) : b[i].rows \in Nat /\ b[i].columns \in Nat
         /\ \A i \in 1..Len(b) : b[i].columns = 0 => b[i].rows = 0
<1>1. b \in Seq([columns : Nat, rows : Nat]) /\ b # <<>>
  BY StreamAssumption
<1>. DEFINE R == [columns : Nat, rows : Nat]
<1>2. ASSUME NEW i \in 1..Len(b)  PROVE b[i].rows \in Nat /\ b[i].columns \in Nat
  <2>1. b \in Seq(R)
    BY <1>1
  <2>. HIDE DEF R
  <2>2. b[i] \in R
    BY <2>1
  <2>. QED  BY <2>2 DEF R
<1>3. \A i \in 1..Len(b) : b[i].columns = 0 => b[i].rows = 0
  BY StreamAssumption
<1>. QED  BY <1>1, <1>2, <1>3

(* The rows of a result come first, then its count. *)
LEMMA PartIs ==
  ASSUME NEW b \in Batches, NEW i \in 1..Len(b)
  PROVE  /\ Part(b, i) \in Seq(Result)
         /\ Len(Part(b, i)) = b[i].rows + 1
         /\ \A j \in 1..b[i].rows : Part(b, i)[j] = Row(i, j)
         /\ Part(b, i)[b[i].rows + 1] = Done(i)
<1>1. b[i].rows \in Nat /\ i \in Nat
  BY BatchType
<1>. DEFINE n == b[i].rows
            rs == [j \in 1..n |-> Row(i, j)]
<1>2. \A j \in 1..n : Row(i, j) \in Result
  BY <1>1, EventKinds
<1>3. rs \in Seq(Result) /\ Len(rs) = n /\ \A j \in 1..n : rs[j] = Row(i, j)
  BY <1>1, <1>2
<1>4. Done(i) \in Result
  BY <1>1, EventKinds
<1>5. Part(b, i) = Append(rs, Done(i))
  BY DEF Part
<1>. HIDE DEF rs, n
<1>6. n \in Nat
  BY <1>1 DEF n
<1>7. /\ Append(rs, Done(i)) \in Seq(Result)
      /\ Len(Append(rs, Done(i))) = n + 1
      /\ \A j \in 1..n : Append(rs, Done(i))[j] = rs[j]
      /\ Append(rs, Done(i))[n + 1] = Done(i)
  BY <1>3, <1>4, <1>6
<1>. QED  BY <1>3, <1>5, <1>7 DEF n

(* Expected joins the parts one after another. *)
LEMMA UptoSteps ==
  ASSUME NEW b \in Batches
  PROVE  /\ Upto(b, 0) = <<>>
         /\ \A i \in 1..Len(b) : Upto(b, i) = Upto(b, i - 1) \o Part(b, i)
         /\ Upto(b, Len(b)) = Expected(b)
<1>. DEFINE s == Parts(b)
            f == Flattening(s)
<1>1. Len(b) \in Nat /\ Len(b) >= 1
  BY BatchType
<1>2. Len(s) = Len(b) /\ \A i \in 1..Len(b) : s[i] = Part(b, i)
  BY <1>1 DEF Parts
<1>3. Expected(b) = f[Len(b)]
  <2>1. Expected(b) = FlattenSeq(s)
    BY DEF Expected, Parts, Part
  <2>. HIDE DEF s
  <2>. QED  BY <2>1, <1>1, <1>2, FlattenDef
<1>4. \A i \in 1..Len(b) : Upto(b, i) = f[i]
  BY <1>1 DEF Upto
<1>5. Upto(b, 0) = <<>>
  BY DEF Upto
<1>. HIDE DEF s
<1>6. f[1] = s[1] /\ \A i \in 2..Len(s) : f[i] = f[i-1] \o s[i]
  BY <1>1, <1>2, FlattenSteps
<1>. HIDE DEF f
<1>7. ASSUME NEW i \in 1..Len(b)
      PROVE  Upto(b, i) = Upto(b, i - 1) \o Part(b, i)
  <2>1. Upto(b, i) = f[i] /\ s[i] = Part(b, i)
    BY <1>4, <1>2
  <2>2. CASE i = 1
    <3>1. Upto(b, i - 1) = <<>> /\ f[i] = Part(b, i)
      BY <2>1, <2>2, <1>5, <1>6
    <3>2. Part(b, i) \in Seq(Result)
      BY PartIs
    <3>3. <<>> \o Part(b, i) = Part(b, i)
      BY <3>2
    <3>. QED  BY <2>1, <3>1, <3>3, Zenon
  <2>3. CASE i # 1
    <3>1. i \in 2..Len(s) /\ i - 1 \in 1..Len(b)
      BY <2>3, <1>1, <1>2
    <3>2. Upto(b, i - 1) = f[i-1]
      BY <3>1, <1>4
    <3>3. f[i] = f[i-1] \o s[i]
      BY <1>6, <3>1
    <3>. QED  BY <2>1, <3>2, <3>3, Zenon
  <2>. QED  BY <2>2, <2>3
<1>8. Len(b) \in 1..Len(b)
  BY <1>1
<1>. QED  BY <1>3, <1>4, <1>5, <1>7, <1>8

LEMMA UptoType ==
  ASSUME NEW b \in Batches, NEW i \in 0..Len(b)
  PROVE  Upto(b, i) \in Seq(Result)
<1>. DEFINE N == {n \in Nat : n \in 0..Len(b) => Upto(b, n) \in Seq(Result)}
<1>1. 0 \in N
  <2>1. <<>> \in Seq(Result)
    OBVIOUS
  <2>. QED  BY <2>1, UptoSteps
<1>2. ASSUME NEW n \in Nat, n \in N  PROVE n + 1 \in N
  <2>. SUFFICES ASSUME n + 1 \in 0..Len(b)  PROVE Upto(b, n + 1) \in Seq(Result)
    OBVIOUS
  <2>0. Len(b) \in Nat
    BY BatchType
  <2>1. n + 1 \in 1..Len(b) /\ n \in 0..Len(b) /\ (n + 1) - 1 = n
    BY <2>0
  <2>2. Upto(b, n) \in Seq(Result)
    BY <1>2, <2>1
  <2>3. Part(b, n + 1) \in Seq(Result)
    BY <2>1, PartIs
  <2>4. Upto(b, n + 1) = Upto(b, n) \o Part(b, n + 1)
    <3>1. Upto(b, n + 1) = Upto(b, (n + 1) - 1) \o Part(b, n + 1)
      BY <2>1, UptoSteps, Zenon
    <3>. QED  BY <3>1, <2>1, Zenon
  <2>5. \A u, p \in Seq(Result) : u \o p \in Seq(Result)
    OBVIOUS
  <2>. QED  BY <2>2, <2>3, <2>4, <2>5, Zenon
<1>. HIDE DEF N
<1>3. \A n \in Nat : n \in N
  BY <1>1, <1>2, NaturalInduction
<1>4. i \in Nat
  BY BatchType
<1>5. i \in N
  BY <1>3, <1>4
<1>. QED  BY <1>5 DEF N

(* The results of a batch lie one after another.                           *)
LEMMA OffsetSteps ==
  ASSUME NEW b \in Batches
  PROVE  /\ Offset(b, 0) = 0
         /\ \A i \in 0..Len(b) : Offset(b, i) \in Nat
         /\ \A i \in 1..Len(b) : Offset(b, i) = Offset(b, i - 1) + b[i].rows + 1
         /\ Offset(b, Len(b)) = Len(Expected(b))
<1>0. Len(b) \in Nat
  BY BatchType
<1>1. Offset(b, 0) = 0
  BY UptoSteps DEF Offset
<1>2. ASSUME NEW i \in 0..Len(b)  PROVE Offset(b, i) \in Nat
  BY UptoType DEF Offset
<1>3. ASSUME NEW i \in 1..Len(b)
      PROVE  Offset(b, i) = Offset(b, i - 1) + b[i].rows + 1
  <2>. DEFINE u == Upto(b, i - 1)
              p == Part(b, i)
  <2>1. i - 1 \in 0..Len(b)
    BY <1>0
  <2>2. u \in Seq(Result) /\ p \in Seq(Result) /\ Len(p) = b[i].rows + 1
    BY <2>1, UptoType, PartIs
  <2>3. b[i].rows \in Nat
    BY BatchType
  <2>4. Upto(b, i) = u \o p
    BY UptoSteps
  <2>. HIDE DEF u, p
  <2>5. Len(u \o p) = Len(u) + Len(p) /\ Len(u) \in Nat
    BY <2>2
  <2>6. Offset(b, i) = Len(u) + Len(p) /\ Offset(b, i - 1) = Len(u)
    BY <2>4, <2>5 DEF Offset, u
  <2>. QED  BY <2>2, <2>3, <2>5, <2>6
<1>4. Offset(b, Len(b)) = Len(Expected(b))
  BY UptoSteps DEF Offset
<1>. QED  BY <1>1, <1>2, <1>3, <1>4

(* What comes first stays first. *)
LEMMA UptoGrows ==
  ASSUME NEW b \in Batches, NEW i \in 0..Len(b)
  PROVE  /\ Offset(b, i) <= Len(Expected(b))
         /\ \A j \in 1..Offset(b, i) : Expected(b)[j] = Upto(b, i)[j]
<1>0. Len(b) \in Nat
  BY BatchType
<1>. DEFINE Kept(n) == /\ Offset(b, i) <= Offset(b, n)
                       /\ \A j \in 1..Offset(b, i) : Upto(b, n)[j] = Upto(b, i)[j]
            N == {n \in Nat : i + n \in 0..Len(b) => Kept(i + n)}
<1>1. 0 \in N
  <2>1. Offset(b, i) \in Nat /\ i + 0 = i
    BY OffsetSteps, <1>0
  <2>. QED  BY <2>1
<1>2. ASSUME NEW n \in Nat, n \in N  PROVE n + 1 \in N
  <2>. DEFINE k == i + n
              u == Upto(b, k)
              p == Part(b, k + 1)
  <2>. SUFFICES ASSUME k + 1 \in 0..Len(b)  PROVE Kept(k + 1)
    BY <1>0
  <2>1. k + 1 \in 1..Len(b) /\ k \in 0..Len(b) /\ (k + 1) - 1 = k
    BY <1>0
  <2>2. Kept(k)
    BY <1>2, <2>1
  <2>. HIDE DEF k
  <2>3. u \in Seq(Result) /\ p \in Seq(Result)
    BY <2>1, UptoType, PartIs
  <2>4. Upto(b, k + 1) = u \o p
    <3>1. Upto(b, k + 1) = Upto(b, (k + 1) - 1) \o p
      BY <2>1, UptoSteps, Zenon
    <3>. QED  BY <3>1, <2>1, Zenon
  <2>5. Offset(b, i) \in Nat /\ Len(u) = Offset(b, k)
    BY OffsetSteps DEF Offset
  <2>. HIDE DEF u, p
  <2>6. /\ Len(u \o p) >= Len(u) /\ Len(u) \in Nat
        /\ \A j \in 1..Len(u) : (u \o p)[j] = u[j]
    BY <2>3
  <2>7. Offset(b, k + 1) = Len(u \o p)
    BY <2>4 DEF Offset
  <2>8. \A j \in 1..Offset(b, i) : u[j] = Upto(b, i)[j]
    BY <2>2 DEF u
  <2>9. Offset(b, i) <= Len(u) /\ Len(u \o p) \in Nat
    BY <2>2, <2>5, <2>3
  <2>10. Offset(b, i) <= Offset(b, k + 1)
    BY <2>5, <2>6, <2>7, <2>9
  <2>11. ASSUME NEW j \in 1..Offset(b, i)  PROVE Upto(b, k + 1)[j] = Upto(b, i)[j]
    <3>1. j \in 1..Len(u)
      BY <2>5, <2>6, <2>9
    <3>. QED  BY <3>1, <2>4, <2>6, <2>8
  <2>. QED  BY <2>10, <2>11
<1>. HIDE DEF N
<1>3. \A n \in Nat : n \in N
  BY <1>1, <1>2, NaturalInduction
<1>4. Len(b) - i \in Nat /\ i + (Len(b) - i) = Len(b) /\ Len(b) \in 0..Len(b)
  BY <1>0
<1>5. Kept(Len(b))
  <2>1. Len(b) - i \in N
    BY <1>3, <1>4
  <2>. HIDE DEF Kept
  <2>2. i + (Len(b) - i) \in 0..Len(b) => Kept(i + (Len(b) - i))
    BY <2>1 DEF N
  <2>. QED  BY <2>2, <1>4, Zenon
<1>. QED  BY <1>5, UptoSteps, OffsetSteps

(* Row j of result i, and its count, are where the walk finds them. *)
LEMMA EventAt ==
  ASSUME NEW b \in Batches, NEW i \in 1..Len(b)
  PROVE  /\ \A j \in 1..b[i].rows : Expected(b)[Offset(b, i - 1) + j] = Row(i, j)
         /\ Expected(b)[Offset(b, i - 1) + b[i].rows + 1] = Done(i)
         /\ Offset(b, i - 1) + b[i].rows + 1 <= Len(Expected(b))
<1>. DEFINE u == Upto(b, i - 1)
            p == Part(b, i)
            n == b[i].rows
<1>0. Len(b) \in Nat /\ i \in 0..Len(b) /\ i - 1 \in 0..Len(b) /\ n \in Nat
  BY BatchType
<1>1. u \in Seq(Result) /\ p \in Seq(Result) /\ Len(p) = n + 1
  BY <1>0, UptoType, PartIs
<1>2. Upto(b, i) = u \o p
  BY UptoSteps
<1>3. Offset(b, i) = Offset(b, i - 1) + n + 1 /\ Offset(b, i - 1) = Len(u)
  BY OffsetSteps DEF Offset
<1>4. /\ Offset(b, i) <= Len(Expected(b))
      /\ \A j \in 1..Offset(b, i) : Expected(b)[j] = (u \o p)[j]
  BY <1>0, <1>2, UptoGrows
<1>5. /\ \A j \in 1..n : p[j] = Row(i, j)
      /\ p[n + 1] = Done(i)
  BY PartIs
<1>. HIDE DEF u, p, n
<1>6. \A j \in 1..Len(p) : (u \o p)[Len(u) + j] = p[j]
  BY <1>1
<1>7. ASSUME NEW j \in 1..(n + 1)
      PROVE  Expected(b)[Offset(b, i - 1) + j] = p[j]
  <2>1. Len(u) \in Nat
    BY <1>1
  <2>2. Len(u) + j \in 1..Offset(b, i) /\ j \in 1..Len(p)
    BY <2>1, <1>0, <1>1, <1>3
  <2>. QED  BY <2>2, <1>3, <1>4, <1>6
<1>8. \A j \in 1..n : Expected(b)[Offset(b, i - 1) + j] = Row(i, j)
  BY <1>0, <1>5, <1>7
<1>9. Expected(b)[Offset(b, i - 1) + n + 1] = Done(i)
  <2>1. Offset(b, i - 1) + n + 1 = Offset(b, i - 1) + (n + 1)
    BY <1>0, OffsetSteps
  <2>2. n + 1 \in 1..(n + 1)
    BY <1>0
  <2>. QED  BY <2>1, <2>2, <1>5, <1>7
<1>. QED  BY <1>3, <1>4, <1>8, <1>9 DEF n

LEMMA ExpectedType ==
  ASSUME NEW b \in Batches
  PROVE  /\ Expected(b) \in Seq(Result)
         /\ \A i \in 1..Len(Expected(b)) : Expected(b)[i] # Error
         /\ Len(Expected(b)) >= 1
<1>1. Len(b) \in Nat /\ Len(b) >= 1
  BY BatchType
<1>2. Expected(b) \in Seq(Result)
  BY <1>1, UptoSteps, UptoType
<1>3. \A i \in 1..Len(Expected(b)) : Expected(b)[i] # Error
  <2>1. \A i \in 1..Len(Expected(b)) : Expected(b)[i] \in Result
    BY <1>2
  <2>. QED  BY <2>1, EventKinds
<1>4. Len(Expected(b)) >= 1
  <2>1. 1 \in 1..Len(b) /\ 1 - 1 = 0
    BY <1>1
  <2>2. Offset(b, 1 - 1) + b[1].rows + 1 <= Len(Expected(b))
    BY <2>1, EventAt
  <2>3. b[1].rows \in Nat /\ Offset(b, 1 - 1) = 0 /\ Len(Expected(b)) \in Nat
    <3>1. b[1].rows \in Nat
      BY <2>1, BatchType
    <3>2. Offset(b, 1 - 1) = 0
      BY <2>1, OffsetSteps
    <3>3. Len(Expected(b)) \in Nat
      BY <1>2
    <3>. QED  BY <3>1, <3>2, <3>3
  <2>. QED  BY <2>2, <2>3
<1>. QED  BY <1>2, <1>3, <1>4

-----------------------------------------------------------------------------
(* The inductive invariant. *)

(* What was sent is a beginning of the results, or that and one error. *)
Begins(s, e) == Len(s) <= Len(e) /\ \A i \in 1..Len(s) : s[i] = e[i]
Broken(s, e) == /\ Len(s) >= 1 /\ s[Len(s)] = Error
                /\ Len(s) - 1 <= Len(e)
                /\ \A i \in 1..(Len(s) - 1) : s[i] = e[i]

(* One query: batch, receiver, sender, received and under way.  Once the   *)
(* sender is gone, an open stream is complete or tells its error.          *)
QueryOK(b, r, s, g, c) ==
  /\ s = "idle" <=> r = "idle"
  /\ s = "idle" <=> b = <<>>
  /\ s \in {"idle", "queued"} => g = <<>> /\ c = <<>>
  /\ r \in {"dropped", "ended"} => c = <<>>
  /\ r = "ended" => s = "gone"
  /\ s \in {"queued", "held"} => Begins(g \o c, Expected(b))
  /\ s = "gone" => Begins(g \o c, Expected(b)) \/ Broken(g \o c, Expected(b))
  /\ s = "gone" /\ r = "open" => g \o c = Expected(b) \/ Broken(g \o c, Expected(b))

QueriesOK ==
  \A q \in Queries : QueryOK(batch[q], receiver[q], sender[q], got[q], chan[q])

(* The walk is n events into the result it is at; a stream that was        *)
(* dropped lost its count.                                                 *)
Reached(n) ==
  receiver[at] = "open" =>
    Len(got[at]) + Len(chan[at]) = Offset(batch[at], result - 1) + n

WalkOK ==
  /\ at \in Queries /\ sender[at] = "held"
  /\ result \in 1..Len(batch[at])
  /\ pc = "inspect" => fetched = 0 /\ Reached(0)
  /\ pc = "count" => Current.rows = 0 /\ Reached(0)
  /\ pc = "fetch" => fetched <= Current.rows /\ Reached(fetched)
  /\ pc = "send" => /\ 1 <= pending /\ pending <= fetched /\ fetched <= Current.rows
                    /\ Reached(fetched - pending)
  /\ pc = "finish" => Reached(Current.rows)
  /\ pc = "advance" => Reached(Current.rows + 1)

ActorOK ==
  /\ \A q \in Queries : sender[q] = "held" => pc # "idle" /\ q = at
  /\ pc # "idle" => WalkOK

StreamTypes ==
  /\ StreamTypeOK
  /\ got \in [Queries -> Seq(Event)]
  /\ chan \in [Queries -> Seq(Event)]

StreamInv == StreamTypes /\ QueriesOK /\ ActorOK

LEMMA SentParts ==
  ASSUME NEW g \in Seq(Event), NEW c \in Seq(Event)
  PROVE  /\ g \o c \in Seq(Event)
         /\ Len(g \o c) = Len(g) + Len(c)
         /\ g \o <<>> = g
         /\ c # <<>> => /\ Append(g, Head(c)) \o Tail(c) = g \o c
                        /\ Head(c) \in Event /\ Tail(c) \in Seq(Event)
                        /\ Len(Tail(c)) = Len(c) - 1
                        /\ (g \o c)[Len(g) + 1] = Head(c)
<1>. HIDE DEF Event
<1>1. g \o c \in Seq(Event) /\ Len(g \o c) = Len(g) + Len(c)
  OBVIOUS
<1>2. g \o <<>> = g
  OBVIOUS
<1>4. ASSUME c # <<>>
      PROVE  /\ Append(g, Head(c)) \o Tail(c) = g \o c
             /\ Head(c) \in Event /\ Tail(c) \in Seq(Event)
             /\ Len(Tail(c)) = Len(c) - 1
             /\ (g \o c)[Len(g) + 1] = Head(c)
  <2>1. Head(c) \in Event /\ Tail(c) \in Seq(Event) /\ Len(Tail(c)) = Len(c) - 1
    BY <1>4
  <2>2. (g \o c)[Len(g) + 1] = Head(c)
    BY <1>4
  <2>3. Append(g, Head(c)) \o Tail(c) = g \o c
    BY <1>4
  <2>. QED  BY <2>1, <2>2, <2>3
<1>. QED  BY <1>1, <1>2, <1>4

LEMMA SentMore ==
  ASSUME NEW g \in Seq(Event), NEW c \in Seq(Event), NEW e \in Event
  PROVE  g \o Append(c, e) = Append(g \o c, e)
<1>. HIDE DEF Event
<1>. QED  OBVIOUS

LEMMA NothingSent ==
  ASSUME NEW g \in Seq(Event), NEW c \in Seq(Event), g \o c = <<>> \o <<>>
  PROVE  g = <<>> /\ c = <<>>
<1>1. Len(g \o c) = Len(g) + Len(c) /\ Len(g) \in Nat /\ Len(c) \in Nat
  OBVIOUS
<1>2. Len(<<>> \o <<>>) = 0
  OBVIOUS
<1>3. Len(g) = 0 /\ Len(c) = 0
  BY <1>1, <1>2
<1>. QED  BY <1>3

(* A beginning of what was sent is still one. *)
LEMMA BeginsAppend ==
  ASSUME NEW s \in Seq(Event), NEW e \in Seq(Event), Begins(s, e),
         Len(s) < Len(e), NEW x \in Event, x = e[Len(s) + 1]
  PROVE  Begins(Append(s, x), e)
BY DEF Begins

LEMMA BeginsAll ==
  ASSUME NEW s \in Seq(Event), NEW x \in Seq(Event), Begins(s, x), Len(s) = Len(x)
  PROVE  s = x
<1>. HIDE DEF Event
<1>1. \A i \in 1..Len(s) : s[i] = x[i]
  BY DEF Begins
<1>. QED  BY <1>1, SeqEqual

LEMMA BrokenAppend ==
  ASSUME NEW s \in Seq(Event), NEW e \in Seq(Event), Begins(s, e)
  PROVE  Broken(Append(s, Error), e)
<1>1. Error \in Event
  BY EventKinds
<1>. QED  BY <1>1 DEF Begins, Broken

LEMMA BeginsCut ==
  ASSUME NEW g \in Seq(Event), NEW c \in Seq(Event), NEW e \in Seq(Event)
  PROVE  /\ Begins(g \o c, e) => Begins(g, e)
         /\ Broken(g \o c, e) => Begins(g, e) \/ c = <<>>
<1>1. /\ Len(g \o c) = Len(g) + Len(c) /\ Len(c) \in Nat /\ Len(g) \in Nat
      /\ Len(e) \in Nat
      /\ \A i \in 1..Len(g) : (g \o c)[i] = g[i]
      /\ c # <<>> => Len(c) >= 1
  OBVIOUS
<1>2. Begins(g \o c, e) => Begins(g, e)
  BY <1>1 DEF Begins
<1>3. ASSUME Broken(g \o c, e), c # <<>>  PROVE Begins(g, e)
  BY <1>1, <1>3 DEF Begins, Broken
<1>. QED  BY <1>2, <1>3

LEMMA QueryFacts ==
  ASSUME StreamInv, NEW q \in Queries
  PROVE  /\ batch[q] \in Batches \cup {<<>>}
         /\ got[q] \in Seq(Event) /\ chan[q] \in Seq(Event)
         /\ mode[q] \in {"many", "optional"}
         /\ receiver[q] \in {"idle", "open", "ended", "dropped"}
         /\ sender[q] \in {"idle", "queued", "held", "gone"}
         /\ sender[q] # "idle" =>
              batch[q] \in Batches /\ Expected(batch[q]) \in Seq(Event)
         /\ QueryOK(batch[q], receiver[q], sender[q], got[q], chan[q])
<1>1. /\ batch \in [Queries -> Batches \cup {<<>>}]
      /\ mode \in [Queries -> {"many", "optional"}]
      /\ receiver \in [Queries -> {"idle", "open", "ended", "dropped"}]
      /\ sender \in [Queries -> {"idle", "queued", "held", "gone"}]
      /\ got \in [Queries -> Seq(Event)] /\ chan \in [Queries -> Seq(Event)]
  BY DEF StreamInv, StreamTypes, StreamTypeOK
<1>2. QueryOK(batch[q], receiver[q], sender[q], got[q], chan[q])
  BY DEF StreamInv, QueriesOK
<1>3. ASSUME sender[q] # "idle"
      PROVE  batch[q] \in Batches /\ Expected(batch[q]) \in Seq(Event)
  <2>1. batch[q] \in Batches
    BY <1>1, <1>2, <1>3 DEF QueryOK
  <2>2. Expected(batch[q]) \in Seq(Result)
    BY <2>1, ExpectedType
  <2>3. \A s : s \in Seq(Result) => s \in Seq(Event)
    BY EventKinds
  <2>. QED  BY <2>1, <2>2, <2>3
<1>. QED  BY <1>1, <1>2, <1>3

LEMMA StreamInitInv == StreamInit => StreamInv
<1>. SUFFICES ASSUME StreamInit  PROVE StreamInv
  OBVIOUS
<1>1. StreamTypes
  <2>1. <<>> \in Seq(Event) /\ Len(<<>>) = 0
    OBVIOUS
  <2>2. Capacity \in Nat /\ MaxQueries \in Nat /\ RowSetSizes \subseteq Nat
    BY StreamAssumption
  <2>3. rowset \in Nat /\ 0 \in 0..MaxQueries /\ 0 \in 0..rowset
    BY <2>2 DEF StreamInit
  <2>4. /\ got = [q \in Queries |-> <<>>] /\ chan = [q \in Queries |-> <<>>]
    BY DEF StreamInit
  <2>5. got \in [Queries -> Seq(Event)] /\ chan \in [Queries -> Seq(Event)]
    BY <2>1, <2>4
  <2>6. \A q \in Queries : Len(chan[q]) <= Capacity
    BY <2>1, <2>2, <2>4
  <2>. QED  BY <2>2, <2>3, <2>5, <2>6 DEF StreamTypes, StreamTypeOK, StreamInit
<1>2. QueriesOK
  BY DEF QueriesOK, QueryOK, StreamInit
<1>3. ActorOK
  BY DEF ActorOK, StreamInit
<1>. QED  BY <1>1, <1>2, <1>3 DEF StreamInv

-----------------------------------------------------------------------------
LEMMA IssueKeeps ==
  ASSUME StreamInv, NEW q \in Queries, NEW b \in Batches,
         NEW m \in {"many", "optional"}, Issue(q, b, m)
  PROVE  StreamInv'
<1>0. receiver[q] = "idle"
  BY DEF Issue
<1>1. /\ batch' = [batch EXCEPT ![q] = b]
      /\ mode' = [mode EXCEPT ![q] = m]
      /\ receiver' = [receiver EXCEPT ![q] = "open"]
      /\ sender' = [sender EXCEPT ![q] = "queued"]
      /\ UNCHANGED <<got, chan, rowset, pc, at, result, fetched, pending>>
  BY DEF Issue, walkVars
<1>2. StreamTypes'
  BY <1>1 DEF StreamInv, StreamTypes, StreamTypeOK
<1>3. ASSUME NEW p \in Queries
      PROVE  QueryOK(batch[p], receiver[p], sender[p], got[p], chan[p])'
  <2>1. QueryOK(batch[p], receiver[p], sender[p], got[p], chan[p])
    BY DEF StreamInv, QueriesOK
  <2>2. CASE p # q
    <3>1. /\ batch'[p] = batch[p] /\ receiver'[p] = receiver[p]
          /\ sender'[p] = sender[p] /\ got'[p] = got[p] /\ chan'[p] = chan[p]
      BY <1>1, <2>2 DEF StreamInv, StreamTypes, StreamTypeOK
    <3>. QED  BY <2>1, <3>1
  <2>3. CASE p = q
    <3>1. got[q] = <<>> /\ chan[q] = <<>>
      BY <1>0, <2>1, <2>3 DEF QueryOK
    <3>2. /\ batch'[q] = b /\ receiver'[q] = "open" /\ sender'[q] = "queued"
          /\ got'[q] = <<>> /\ chan'[q] = <<>>
      BY <1>1, <3>1 DEF StreamInv, StreamTypes, StreamTypeOK
    <3>3. b # <<>>
      BY BatchType
    <3>4. <<>> \o <<>> = <<>> /\ Len(<<>>) = 0 /\ Len(Expected(b)) \in Nat
      BY ExpectedType
    <3>5. Begins(<<>> \o <<>>, Expected(b))
      BY <3>4 DEF Begins
    <3>. QED  BY <2>3, <3>2, <3>3, <3>5 DEF QueryOK
  <2>. QED  BY <2>2, <2>3
<1>4. QueriesOK'
  BY <1>1, <1>3 DEF QueriesOK
<1>5. sender[q] = "idle"
  BY <1>0 DEF StreamInv, QueriesOK, QueryOK
<1>6. ASSUME pc # "idle"  PROVE WalkOK'
  <2>1. WalkOK /\ at # q
    BY <1>5, <1>6 DEF StreamInv, ActorOK, WalkOK
  <2>2. /\ batch'[at] = batch[at] /\ receiver'[at] = receiver[at]
        /\ sender'[at] = sender[at]
    BY <1>1, <2>1 DEF StreamInv, StreamTypes, StreamTypeOK, WalkOK
  <2>. QED  BY <1>1, <2>1, <2>2 DEF WalkOK, Reached, Current
<1>7. ActorOK'
  <2>1. \A p \in Queries : sender'[p] = "held" => sender[p] = "held"
    BY <1>1 DEF StreamInv, StreamTypes, StreamTypeOK
  <2>. QED  BY <1>1, <1>6, <2>1 DEF StreamInv, ActorOK
<1>. QED  BY <1>2, <1>4, <1>7 DEF StreamInv

(* What the client does to a stream it reads: the event it takes goes from *)
(* the channel to what it has received; or the channel is emptied and the  *)
(* receiver closed.                                                        *)
LEMMA ReadKeeps ==
  ASSUME StreamInv, NEW q \in Queries,
         receiver[q] = "open",
         UNCHANGED <<batch, mode, sender, rowset, pc, walkVars>>,
         got' \in [Queries -> Seq(Event)], chan' \in [Queries -> Seq(Event)],
         receiver' \in [Queries -> {"idle", "open", "ended", "dropped"}],
         \A p \in Queries \ {q} : /\ got'[p] = got[p] /\ chan'[p] = chan[p]
                                  /\ receiver'[p] = receiver[p],
         Len(chan'[q]) <= Capacity,
         \/ /\ receiver'[q] = "open"
            /\ got'[q] \o chan'[q] = got[q] \o chan[q]
         \/ /\ receiver'[q] = "dropped" /\ chan'[q] = <<>>
            /\ \E c \in Seq(Event) : got'[q] \o c = got[q] \o chan[q]
         \/ /\ receiver'[q] = "ended" /\ chan'[q] = <<>>
            /\ chan[q] = <<>> /\ got'[q] = got[q] /\ sender[q] = "gone"
  PROVE  StreamInv'
<1>1. QueryOK(batch[q], receiver[q], sender[q], got[q], chan[q])
  BY DEF StreamInv, QueriesOK
<1>2. /\ got[q] \in Seq(Event) /\ chan[q] \in Seq(Event)
      /\ got'[q] \in Seq(Event) /\ chan'[q] \in Seq(Event)
      /\ sender[q] \in {"queued", "held", "gone"} /\ batch[q] # <<>>
      /\ Expected(batch[q]) \in Seq(Event)
  <2>1. sender[q] # "idle" /\ batch[q] # <<>>
    BY <1>1 DEF QueryOK
  <2>. QED  BY <2>1, QueryFacts
<1>3. StreamTypes'
  BY DEF StreamInv, StreamTypes, StreamTypeOK, walkVars
<1>. DEFINE e == Expected(batch[q])
            old == got[q] \o chan[q]
            new == got'[q] \o chan'[q]
<1>4. QueryOK(batch[q], receiver'[q], sender[q], got'[q], chan'[q])
  <2>1. CASE receiver'[q] = "open" /\ new = old
    <3>1. sender[q] = "queued" => got'[q] = <<>> /\ chan'[q] = <<>>
      <4>1. SUFFICES ASSUME sender[q] = "queued"
                     PROVE  got'[q] = <<>> /\ chan'[q] = <<>>
        OBVIOUS
      <4>2. got[q] = <<>> /\ chan[q] = <<>>
        BY <1>1, <4>1 DEF QueryOK
      <4>3. new = <<>> \o <<>>
        BY <2>1, <4>2
      <4>. HIDE DEF new
      <4>. QED  BY <1>2, <4>3, NothingSent DEF new
    <3>. HIDE DEF old, new, e
    <3>. QED  BY <1>1, <1>2, <2>1, <3>1 DEF QueryOK, old, new
  <2>2. ASSUME receiver'[q] = "dropped", chan'[q] = <<>>,
               NEW c \in Seq(Event), got'[q] \o c = old
        PROVE  QueryOK(batch[q], receiver'[q], sender[q], got'[q], chan'[q])
    <3>1. new = got'[q]
      BY <1>2, <2>2, SentParts
    <3>2. /\ Begins(old, e) => Begins(got'[q], e)
          /\ Broken(old, e) => Begins(got'[q], e) \/ c = <<>>
      BY <1>2, <2>2, BeginsCut
    <3>3. c = <<>> => new = old
      <4>1. got'[q] \o <<>> = got'[q]
        BY <1>2, SentParts
      <4>. QED  BY <4>1, <3>1, <2>2
    <3>4. sender[q] = "queued" => got'[q] = <<>>
      <4>1. SUFFICES ASSUME sender[q] = "queued"  PROVE got'[q] = <<>>
        OBVIOUS
      <4>2. got[q] = <<>> /\ chan[q] = <<>>
        BY <1>1, <4>1 DEF QueryOK
      <4>3. got'[q] \o c = <<>> \o <<>>
        BY <2>2, <4>2
      <4>. QED  BY <1>2, <4>3, NothingSent
    <3>. HIDE DEF e, old
    <3>. QED  BY <1>1, <1>2, <2>2, <3>1, <3>2, <3>3, <3>4 DEF QueryOK, e, old
  <2>3. CASE /\ receiver'[q] = "ended" /\ chan'[q] = <<>> /\ chan[q] = <<>>
             /\ got'[q] = got[q] /\ sender[q] = "gone"
    BY <1>1, <1>2, <2>3 DEF QueryOK
  <2>. QED  BY <2>1, <2>2, <2>3
<1>5. QueriesOK'
  <2>1. ASSUME NEW p \in Queries
        PROVE  QueryOK(batch[p], receiver'[p], sender[p], got'[p], chan'[p])
    <3>1. CASE p = q
      BY <3>1, <1>4
    <3>2. CASE p # q
      <4>1. QueryOK(batch[p], receiver[p], sender[p], got[p], chan[p])
        BY DEF StreamInv, QueriesOK
      <4>. QED  BY <3>2, <4>1
    <3>. QED  BY <3>1, <3>2
  <2>. QED  BY <2>1 DEF QueriesOK
<1>6. ASSUME pc # "idle"  PROVE WalkOK'
  <2>1. WalkOK
    BY <1>6 DEF StreamInv, ActorOK
  <2>2. receiver'[at] = "open" =>
           /\ receiver[at] = "open"
           /\ Len(got'[at]) + Len(chan'[at]) = Len(got[at]) + Len(chan[at])
    <3>1. CASE at # q
      BY <2>1, <3>1 DEF WalkOK
    <3>2. CASE at = q
      <4>1. SUFFICES ASSUME new = old
                     PROVE  Len(got'[q]) + Len(chan'[q]) = Len(got[q]) + Len(chan[q])
        BY <3>2
      <4>2. /\ Len(old) = Len(got[q]) + Len(chan[q])
            /\ Len(new) = Len(got'[q]) + Len(chan'[q])
        BY <1>2, SentParts
      <4>. QED  BY <4>1, <4>2
    <3>. QED  BY <3>1, <3>2
  <2>3. \A n : Reached(n) => Reached(n)'
    BY <2>2 DEF Reached, walkVars
  <2>. QED  BY <2>1, <2>3 DEF WalkOK, Current, walkVars
<1>7. ActorOK'
  BY <1>6 DEF StreamInv, ActorOK, walkVars
<1>. QED  BY <1>3, <1>5, <1>7 DEF StreamInv

LEMMA ReceiveParts ==
  ASSUME StreamInv, NEW q \in Queries, Receive(q)
  PROVE  /\ got' \in [Queries -> Seq(Event)] /\ chan' \in [Queries -> Seq(Event)]
         /\ receiver' \in [Queries -> {"idle", "open", "ended", "dropped"}]
         /\ \A p \in Queries \ {q} : /\ got'[p] = got[p] /\ chan'[p] = chan[p]
                                     /\ receiver'[p] = receiver[p]
         /\ got'[q] = Append(got[q], Head(chan[q]))
         /\ IF mode[q] = "optional" /\ Head(chan[q]).kind # "done"
            THEN receiver'[q] = "dropped" /\ chan'[q] = <<>>
            ELSE receiver'[q] = receiver[q] /\ chan'[q] = Tail(chan[q])
<1>1. /\ receiver \in [Queries -> {"idle", "open", "ended", "dropped"}]
      /\ got \in [Queries -> Seq(Event)] /\ chan \in [Queries -> Seq(Event)]
  BY DEF StreamInv, StreamTypes, StreamTypeOK
<1>2. /\ Head(chan[q]) \in Event /\ Tail(chan[q]) \in Seq(Event)
      /\ Append(got[q], Head(chan[q])) \in Seq(Event)
      /\ <<>> \in Seq(Event)
  <2>1. chan[q] # <<>>
    BY DEF Receive
  <2>2. got[q] \in Seq(Event) /\ chan[q] \in Seq(Event)
    BY <1>1
  <2>. HIDE DEF Event
  <2>. QED  BY <2>1, <2>2
<1>3. got' = [got EXCEPT ![q] = Append(got[q], Head(chan[q]))]
  BY DEF Receive
<1>4. CASE mode[q] = "optional" /\ Head(chan[q]).kind # "done"
  <2>1. /\ receiver' = [receiver EXCEPT ![q] = "dropped"]
        /\ chan' = [chan EXCEPT ![q] = <<>>]
    BY <1>4 DEF Receive, Close
  <2>. QED  BY <1>1, <1>2, <1>3, <1>4, <2>1
<1>5. CASE ~(mode[q] = "optional" /\ Head(chan[q]).kind # "done")
  <2>1. /\ receiver' = receiver
        /\ chan' = [chan EXCEPT ![q] = Tail(chan[q])]
    BY <1>5 DEF Receive, Close
  <2>. QED  BY <1>1, <1>2, <1>3, <1>5, <2>1
<1>. QED  BY <1>4, <1>5

LEMMA ReceiveKeeps ==
  ASSUME StreamInv, NEW q \in Queries, Receive(q)
  PROVE  StreamInv'
<1>1. /\ receiver[q] = "open" /\ chan[q] # <<>>
      /\ UNCHANGED <<batch, mode, sender, rowset, pc, walkVars>>
  BY DEF Receive
<1>2. /\ got[q] \in Seq(Event) /\ chan[q] \in Seq(Event)
      /\ Len(chan[q]) <= Capacity /\ Capacity \in Nat
  BY StreamAssumption DEF StreamInv, StreamTypes, StreamTypeOK
<1>3. /\ got'[q] \o Tail(chan[q]) = got[q] \o chan[q]
      /\ Tail(chan[q]) \in Seq(Event) /\ Len(Tail(chan[q])) <= Capacity
      /\ Len(<<>>) <= Capacity
  <2>1. /\ Append(got[q], Head(chan[q])) \o Tail(chan[q]) = got[q] \o chan[q]
        /\ Tail(chan[q]) \in Seq(Event) /\ Len(Tail(chan[q])) = Len(chan[q]) - 1
    BY <1>1, <1>2, SentParts
  <2>2. got'[q] = Append(got[q], Head(chan[q]))
    BY ReceiveParts
  <2>3. Len(Tail(chan[q])) <= Capacity
    <3>1. Len(chan[q]) \in Nat
      BY <1>2
    <3>. QED  BY <1>2, <2>1, <3>1
  <2>4. Len(<<>>) <= Capacity
    BY <1>2
  <2>5. got'[q] \o Tail(chan[q]) = got[q] \o chan[q]
    BY <2>1, <2>2
  <2>. QED  BY <2>1, <2>3, <2>4, <2>5
<1>4. CASE mode[q] = "optional" /\ Head(chan[q]).kind # "done"
  <2>1. receiver'[q] = "dropped" /\ chan'[q] = <<>>
    BY <1>4, ReceiveParts
  <2>. QED  BY <1>1, <1>3, <2>1, ReceiveParts, ReadKeeps
<1>5. CASE ~(mode[q] = "optional" /\ Head(chan[q]).kind # "done")
  <2>1. receiver'[q] = "open" /\ chan'[q] = Tail(chan[q])
    BY <1>1, <1>5, ReceiveParts
  <2>. QED  BY <1>1, <1>3, <2>1, ReceiveParts, ReadKeeps
<1>. QED  BY <1>4, <1>5

LEMMA CloseKeeps ==
  ASSUME StreamInv, NEW q \in Queries, ReceiveEnd(q) \/ Cancel(q)
  PROVE  /\ StreamInv'
         /\ got' = got /\ batch' = batch
         /\ \A p \in Queries \ {q} : receiver'[p] = receiver[p]
         /\ Cancel(q) => receiver'[q] = "dropped"
         /\ ReceiveEnd(q) => receiver'[q] = "ended"
<1>1. /\ receiver \in [Queries -> {"idle", "open", "ended", "dropped"}]
      /\ got \in [Queries -> Seq(Event)] /\ chan \in [Queries -> Seq(Event)]
      /\ <<>> \in Seq(Event) /\ Len(<<>>) <= Capacity
  BY StreamAssumption DEF StreamInv, StreamTypes, StreamTypeOK
<1>2. /\ receiver[q] = "open" /\ got' = got
      /\ UNCHANGED <<batch, mode, sender, rowset, pc, walkVars>>
  BY DEF ReceiveEnd, Cancel
<1>3. \E how \in {"ended", "dropped"} :
        /\ receiver' = [receiver EXCEPT ![q] = how]
        /\ chan' = [chan EXCEPT ![q] = <<>>]
        /\ Cancel(q) => how = "dropped"
        /\ ReceiveEnd(q) => how = "ended"
        /\ how = "ended" => chan[q] = <<>> /\ sender[q] = "gone"
  <2>1. CASE Cancel(q) /\ ~ReceiveEnd(q)
    BY <2>1 DEF Cancel, Close
  <2>2. CASE ReceiveEnd(q) /\ ~Cancel(q)
    BY <2>2 DEF ReceiveEnd, Close
  <2>3. ~(Cancel(q) /\ ReceiveEnd(q))
    BY <1>1 DEF Cancel, ReceiveEnd, Close
  <2>. QED  BY <2>1, <2>2, <2>3
<1>4. PICK how \in {"ended", "dropped"} :
        /\ receiver' = [receiver EXCEPT ![q] = how]
        /\ chan' = [chan EXCEPT ![q] = <<>>]
        /\ Cancel(q) => how = "dropped"
        /\ ReceiveEnd(q) => how = "ended"
        /\ how = "ended" => chan[q] = <<>> /\ sender[q] = "gone"
  BY <1>3
<1>5. /\ receiver' \in [Queries -> {"idle", "open", "ended", "dropped"}]
      /\ chan' \in [Queries -> Seq(Event)]
      /\ receiver'[q] = how /\ chan'[q] = <<>>
      /\ \A p \in Queries \ {q} : chan'[p] = chan[p] /\ receiver'[p] = receiver[p]
  BY <1>1, <1>4
<1>6. StreamInv'
  <2>1. CASE how = "ended"
    BY <1>1, <1>2, <1>4, <1>5, <2>1, ReadKeeps
  <2>2. CASE how = "dropped"
    <3>1. chan[q] \in Seq(Event) /\ got'[q] \o chan[q] = got[q] \o chan[q]
      BY <1>1, <1>2
    <3>. QED  BY <1>1, <1>2, <1>4, <1>5, <2>2, <3>1, ReadKeeps
  <2>. QED  BY <2>1, <2>2
<1>. QED  BY <1>2, <1>4, <1>5, <1>6

-----------------------------------------------------------------------------
(* What the actor does to a channel. *)
LEMMA WalkFacts ==
  ASSUME StreamInv, pc # "idle"
  PROVE  /\ WalkOK /\ at \in Queries /\ sender[at] = "held"
         /\ receiver[at] \in {"open", "dropped"}
         /\ batch[at] \in Batches /\ Expected(batch[at]) \in Seq(Event)
         /\ got[at] \in Seq(Event) /\ chan[at] \in Seq(Event)
         /\ Begins(got[at] \o chan[at], Expected(batch[at]))
         /\ result \in 1..Len(batch[at])
         /\ Current.rows \in Nat
         /\ Offset(batch[at], result - 1) \in Nat
<1>1. WalkOK
  BY DEF StreamInv, ActorOK
<1>2. at \in Queries /\ sender[at] = "held" /\ result \in 1..Len(batch[at])
  BY <1>1 DEF WalkOK
<1>3. /\ batch[at] \in Batches /\ Expected(batch[at]) \in Seq(Event)
      /\ got[at] \in Seq(Event) /\ chan[at] \in Seq(Event)
      /\ QueryOK(batch[at], receiver[at], sender[at], got[at], chan[at])
      /\ receiver[at] \in {"idle", "open", "ended", "dropped"}
  BY <1>2, QueryFacts
<1>4. Begins(got[at] \o chan[at], Expected(batch[at]))
  BY <1>2, <1>3 DEF QueryOK
<1>5. receiver[at] \in {"open", "dropped"}
  BY <1>2, <1>3 DEF QueryOK
<1>6. Current.rows \in Nat
  BY <1>2, <1>3, BatchType DEF Current
<1>7. Offset(batch[at], result - 1) \in Nat
  <2>1. result - 1 \in 0..Len(batch[at])
    BY <1>2, <1>3, BatchType
  <2>. QED  BY <1>3, <2>1, OffsetSteps
<1>. QED  BY <1>1, <1>2, <1>3, <1>4, <1>5, <1>6, <1>7

(* The walk does not depend on the queries it is not at. *)
LEMMA OthersKeep ==
  ASSUME StreamInv, pc # "idle", clientVars' = clientVars,
         chan' \in [Queries -> Seq(Event)],
         sender' \in [Queries -> {"idle", "queued", "held", "gone"}],
         \A p \in Queries \ {at} : chan'[p] = chan[p] /\ sender'[p] = sender[p],
         QueryOK(batch[at], receiver[at], sender'[at], got[at], chan'[at])
  PROVE  QueriesOK'
<1>1. ASSUME NEW p \in Queries
      PROVE  QueryOK(batch[p], receiver[p], sender'[p], got[p], chan'[p])
  <2>1. CASE p = at
    BY <2>1
  <2>2. CASE p # at
    <3>1. QueryOK(batch[p], receiver[p], sender[p], got[p], chan[p])
      BY QueryFacts
    <3>. QED  BY <2>2, <3>1
  <2>. QED  BY <2>1, <2>2
<1>. QED  BY <1>1 DEF QueriesOK, clientVars

(* An event in its place joins the channel. *)
LEMMA SendPlace ==
  ASSUME StreamInv, pc # "idle", CanSend, NEW n \in Nat, Reached(n),
         NEW e \in Event,
         Offset(batch[at], result - 1) + n < Len(Expected(batch[at])),
         e = Expected(batch[at])[Offset(batch[at], result - 1) + n + 1],
         Send(e), clientVars' = clientVars, sender' = sender
  PROVE  /\ QueriesOK'
         /\ chan' \in [Queries -> Seq(Event)]
         /\ \A q \in Queries : Len(chan'[q]) <= Capacity
         /\ Len(got[at]) + Len(chan'[at]) = Offset(batch[at], result - 1) + n + 1
<1>. DEFINE x == Expected(batch[at])
            s == got[at] \o chan[at]
<1>1. /\ at \in Queries /\ receiver[at] = "open" /\ sender[at] = "held"
      /\ batch[at] \in Batches
      /\ got[at] \in Seq(Event) /\ chan[at] \in Seq(Event) /\ x \in Seq(Event)
      /\ Begins(s, x) /\ Offset(batch[at], result - 1) \in Nat
  BY WalkFacts DEF CanSend
<1>2. /\ chan \in [Queries -> Seq(Event)] /\ Capacity \in Nat
      /\ sender \in [Queries -> {"idle", "queued", "held", "gone"}]
      /\ \A q \in Queries : Len(chan[q]) <= Capacity
  BY StreamAssumption DEF StreamInv, StreamTypes, StreamTypeOK
<1>3. /\ s \in Seq(Event) /\ Len(s) = Len(got[at]) + Len(chan[at])
      /\ got[at] \o Append(chan[at], e) = Append(s, e)
  <2>1. /\ got[at] \o chan[at] \in Seq(Event)
        /\ Len(got[at] \o chan[at]) = Len(got[at]) + Len(chan[at])
    BY <1>1, SentParts
  <2>2. got[at] \o Append(chan[at], e) = Append(got[at] \o chan[at], e)
    BY <1>1, SentMore
  <2>. QED  BY <2>1, <2>2
<1>4. Len(s) = Offset(batch[at], result - 1) + n
  BY <1>1, <1>3 DEF Reached
<1>5. Begins(Append(s, e), x)
  <2>. HIDE DEF s, x
  <2>1. Len(s) < Len(x) /\ e = x[Len(s) + 1]
    BY <1>4 DEF x
  <2>. QED  BY <1>1, <1>3, <2>1, BeginsAppend
<1>6. /\ chan' = [chan EXCEPT ![at] = Append(chan[at], e)]
      /\ Append(chan[at], e) \in Seq(Event)
      /\ Len(Append(chan[at], e)) = Len(chan[at]) + 1
      /\ Len(chan[at]) \in Nat
  <2>1. chan' = [chan EXCEPT ![at] = Append(chan[at], e)]
    BY DEF Send
  <2>. HIDE DEF Event
  <2>. QED  BY <1>1, <2>1
<1>7. /\ chan' \in [Queries -> Seq(Event)]
      /\ chan'[at] = Append(chan[at], e)
      /\ \A p \in Queries \ {at} : chan'[p] = chan[p]
  BY <1>1, <1>2, <1>6
<1>8. \A q \in Queries : Len(chan'[q]) <= Capacity
  BY <1>1, <1>2, <1>6, <1>7 DEF CanSend
<1>9. Len(got[at]) + Len(chan'[at]) = Offset(batch[at], result - 1) + n + 1
  <2>1. Len(got[at]) \in Nat /\ Len(chan[at]) \in Nat /\ n \in Nat
    BY <1>1
  <2>2. Len(chan'[at]) = Len(chan[at]) + 1
    BY <1>6, <1>7
  <2>3. Len(got[at]) + Len(chan[at]) = Offset(batch[at], result - 1) + n
    BY <1>3, <1>4
  <2>. DEFINE o == Offset(batch[at], result - 1)
              k == Len(got[at])
              c == Len(chan[at])
  <2>4. o \in Nat /\ k \in Nat /\ c \in Nat /\ k + c = o + n
    BY <1>1, <2>1, <2>3
  <2>. HIDE DEF o, k, c
  <2>5. k + (c + 1) = o + n + 1
    BY <2>4
  <2>. QED  BY <2>2, <2>5 DEF o, k, c
<1>10. QueryOK(batch[at], receiver[at], sender'[at], got[at], chan'[at])
  <2>1. QueryOK(batch[at], receiver[at], sender[at], got[at], chan[at])
    BY <1>1, QueryFacts
  <2>2. Begins(got[at] \o chan'[at], Expected(batch[at]))
    BY <1>3, <1>5, <1>7
  <2>3. batch[at] # <<>>
    BY <1>1, BatchType
  <2>. QED  BY <1>1, <2>1, <2>2, <2>3 DEF QueryOK
<1>11. QueriesOK'
  BY <1>2, <1>7, <1>10, OthersKeep
<1>. QED  BY <1>7, <1>8, <1>9, <1>11

(* The sender goes: its stream is complete, broken, or unheard. *)
LEMMA ReturnKeeps ==
  ASSUME StreamInv, pc # "idle", Return, UNCHANGED <<clientVars, walkVars>>,
         chan' \in [Queries -> Seq(Event)],
         \A q \in Queries : Len(chan'[q]) <= Capacity,
         \A p \in Queries \ {at} : chan'[p] = chan[p],
         LET sent == got[at] \o chan'[at] IN
         \/ receiver[at] = "dropped" /\ chan'[at] = chan[at]
         \/ receiver[at] = "open" /\ sent = Expected(batch[at])
         \/ receiver[at] = "open" /\ Broken(sent, Expected(batch[at]))
  PROVE  StreamInv'
<1>1. /\ at \in Queries /\ sender[at] = "held" /\ batch[at] # <<>>
      /\ Expected(batch[at]) \in Seq(Event)
      /\ Begins(got[at] \o chan[at], Expected(batch[at]))
  BY WalkFacts, BatchType
<1>2. /\ pc' = "idle" /\ sender' = [sender EXCEPT ![at] = "gone"]
      /\ sender \in [Queries -> {"idle", "queued", "held", "gone"}]
  BY DEF Return, StreamInv, StreamTypes, StreamTypeOK
<1>3. /\ sender' \in [Queries -> {"idle", "queued", "held", "gone"}]
      /\ sender'[at] = "gone"
      /\ \A p \in Queries \ {at} : sender'[p] = sender[p]
  BY <1>1, <1>2
<1>4. StreamTypes'
  BY <1>2, <1>3 DEF StreamInv, StreamTypes, StreamTypeOK, clientVars, walkVars
<1>5. Begins(Expected(batch[at]), Expected(batch[at]))
  <2>1. Len(Expected(batch[at])) \in Nat
    BY <1>1
  <2>. QED  BY <2>1 DEF Begins
<1>6. QueryOK(batch[at], receiver[at], sender'[at], got[at], chan'[at])
  <2>1. QueryOK(batch[at], receiver[at], sender[at], got[at], chan[at])
    BY <1>1, QueryFacts
  <2>. QED  BY <1>1, <1>3, <1>5, <2>1 DEF QueryOK
<1>7. QueriesOK'
  BY <1>3, <1>6, OthersKeep
<1>8. ActorOK'
  <2>1. ASSUME NEW p \in Queries, sender'[p] = "held"  PROVE FALSE
    BY <1>3, <2>1 DEF StreamInv, ActorOK
  <2>. QED  BY <1>2, <2>1 DEF ActorOK
<1>. QED  BY <1>4, <1>7, <1>8 DEF StreamInv

-----------------------------------------------------------------------------
(* The walk. *)

(* A walk that moves on without sending. *)
LEMMA MoveKeeps ==
  ASSUME StreamInv, pc # "idle", clientVars' = clientVars, chan' = chan,
         sender' = sender, at' = at,
         pc' \in {"inspect", "count", "fetch", "send", "finish", "advance", "fail"},
         result' \in Nat, fetched' \in Nat, pending' \in 0..rowset,
         WalkOK'
  PROVE  StreamInv'
<1>1. StreamTypes'
  BY DEF StreamInv, StreamTypes, StreamTypeOK, clientVars
<1>2. QueriesOK'
  BY DEF StreamInv, QueriesOK, clientVars
<1>3. ActorOK'
  BY DEF StreamInv, ActorOK
<1>. QED  BY <1>1, <1>2, <1>3 DEF StreamInv

(* ... and one that sends. *)
LEMMA MoveSends ==
  ASSUME StreamInv, pc # "idle", clientVars' = clientVars,
         sender' = sender, at' = at,
         chan' \in [Queries -> Seq(Event)],
         \A q \in Queries : Len(chan'[q]) <= Capacity,
         QueriesOK',
         pc' \in {"inspect", "count", "fetch", "send", "finish", "advance", "fail"},
         result' \in Nat, fetched' \in Nat, pending' \in 0..rowset,
         WalkOK'
  PROVE  StreamInv'
<1>1. StreamTypes'
  BY DEF StreamInv, StreamTypes, StreamTypeOK, clientVars
<1>2. ActorOK'
  BY DEF StreamInv, ActorOK
<1>. QED  BY <1>1, <1>2 DEF StreamInv

LEMMA WalkTypes ==
  ASSUME StreamInv
  PROVE  /\ result \in Nat /\ fetched \in Nat /\ pending \in 0..rowset
         /\ rowset \in Nat /\ rowset >= 1
BY StreamAssumption DEF StreamInv, StreamTypes, StreamTypeOK

LEMMA RaiseKeeps ==
  ASSUME StreamInv, pc # "idle", pc' = "fail", sender' = sender,
         UNCHANGED <<clientVars, chan, walkVars>>
  PROVE  StreamInv'
<1>1. WalkOK'
  BY WalkFacts DEF WalkOK, clientVars, walkVars
<1>. QED  BY <1>1, WalkTypes, MoveKeeps DEF walkVars, clientVars

(* One lemma per step of the actor. *)
LEMMA StartKeeps ==
  ASSUME StreamInv, Start
  PROVE  StreamInv'
<1>. DEFINE q == at + 1
<1>1. /\ pc = "idle" /\ at < MaxQueries /\ sender[q] = "queued"
      /\ at' = q /\ sender' = [sender EXCEPT ![q] = "held"]
      /\ result' = 1 /\ fetched' = 0 /\ pending' = 0
      /\ pc' \in {"inspect", "fail"}
      /\ UNCHANGED <<clientVars, chan>>
  BY DEF Start
<1>2. q \in Queries /\ q \in 0..MaxQueries
  BY <1>1, StreamAssumption DEF StreamInv, StreamTypes, StreamTypeOK, Queries
<1>. HIDE DEF q
<1>3. /\ batch[q] \in Batches /\ got[q] = <<>> /\ chan[q] = <<>>
      /\ QueryOK(batch[q], receiver[q], sender[q], got[q], chan[q])
      /\ Expected(batch[q]) \in Seq(Event)
  <2>1. /\ QueryOK(batch[q], receiver[q], sender[q], got[q], chan[q])
        /\ batch[q] \in Batches /\ Expected(batch[q]) \in Seq(Event)
    BY <1>1, <1>2, QueryFacts
  <2>. QED  BY <1>1, <2>1 DEF QueryOK
<1>4. /\ sender' \in [Queries -> {"idle", "queued", "held", "gone"}]
      /\ sender'[q] = "held"
      /\ \A p \in Queries \ {q} : sender'[p] = sender[p]
  <2>1. sender \in [Queries -> {"idle", "queued", "held", "gone"}]
    BY DEF StreamInv, StreamTypes, StreamTypeOK
  <2>. QED  BY <1>1, <1>2, <2>1
<1>5. StreamTypes'
  BY <1>1, <1>2, <1>4, WalkTypes DEF StreamInv, StreamTypes, StreamTypeOK, clientVars
<1>6. QueriesOK'
  <2>1. ASSUME NEW p \in Queries
        PROVE  QueryOK(batch[p], receiver[p], sender'[p], got[p], chan[p])
    <3>1. QueryOK(batch[p], receiver[p], sender[p], got[p], chan[p])
      BY QueryFacts
    <3>2. CASE p = q
      BY <1>1, <1>3, <1>4, <3>1, <3>2 DEF QueryOK
    <3>3. CASE p # q
      BY <1>4, <3>1, <3>3
    <3>. QED  BY <3>2, <3>3
  <2>. QED  BY <1>1, <2>1 DEF QueriesOK, clientVars
<1>7. WalkOK'
  <2>1. 1 \in 1..Len(batch[q]) /\ Offset(batch[q], 1 - 1) = 0
    <3>1. Len(batch[q]) \in Nat /\ Len(batch[q]) >= 1
      BY <1>3, BatchType
    <3>2. Offset(batch[q], 0) = 0 /\ 1 - 1 = 0
      BY <1>3, OffsetSteps
    <3>. QED  BY <3>1, <3>2
  <2>2. Reached(0)'
    <3>1. /\ batch'[at'] = batch[q] /\ result' = 1
          /\ got'[at'] = <<>> /\ chan'[at'] = <<>>
      BY <1>1, <1>3 DEF clientVars
    <3>. QED  BY <2>1, <3>1 DEF Reached
  <2>. QED  BY <1>1, <1>2, <1>4, <2>1, <2>2 DEF WalkOK, clientVars
<1>8. ActorOK'
  <2>1. ASSUME NEW p \in Queries, sender'[p] = "held"  PROVE p = q
    BY <1>1, <1>4, <2>1 DEF StreamInv, ActorOK
  <2>. QED  BY <1>1, <1>7, <2>1 DEF ActorOK
<1>. QED  BY <1>5, <1>6, <1>8 DEF StreamInv

LEMMA InspectKeeps ==
  ASSUME StreamInv, Inspect
  PROVE  StreamInv'
<1>1. pc = "inspect"
  BY DEF Inspect
<1>2. CASE Raise("inspect")
  BY <1>1, <1>2, RaiseKeeps DEF Raise, Goto
<1>3. CASE /\ IF Current.columns = 0 THEN Goto("count") ELSE Goto("fetch")
           /\ UNCHANGED <<clientVars, chan, walkVars>>
  <2>1. /\ WalkOK /\ fetched = 0 /\ Reached(0) /\ Current.rows \in Nat
    BY <1>1, WalkFacts DEF WalkOK
  <2>2. Current.columns = 0 => Current.rows = 0
    BY WalkFacts, BatchType, <1>1 DEF Current
  <2>3. /\ sender' = sender
        /\ (pc' = "count" /\ Current.rows = 0) \/ pc' = "fetch"
    BY <1>3, <2>2 DEF Goto
  <2>4. Reached(0)' /\ fetched' = 0 /\ Current' = Current
    BY <1>3, <2>1 DEF Reached, Current, walkVars, clientVars
  <2>5. WalkOK'
    BY <1>3, <2>1, <2>3, <2>4 DEF WalkOK, walkVars, clientVars
  <2>. QED  BY <1>1, <1>3, <2>3, <2>5, WalkTypes, MoveKeeps DEF walkVars
<1>. QED  BY <1>2, <1>3 DEF Inspect

LEMMA FetchKeeps ==
  ASSUME StreamInv, Fetch
  PROVE  StreamInv'
<1>1. pc = "fetch"
  BY DEF Fetch
<1>2. /\ WalkOK /\ fetched <= Current.rows /\ Reached(fetched) /\ Current.rows \in Nat
      /\ fetched \in Nat /\ rowset \in Nat /\ rowset >= 1 /\ result \in Nat
      /\ pending \in 0..rowset
  BY <1>1, WalkFacts, WalkTypes DEF WalkOK
<1>3. CASE Raise("fetch")
  BY <1>1, <1>3, RaiseKeeps DEF Raise, Goto
<1>4. CASE /\ Current.rows > fetched
           /\ pending' = Min({rowset, Current.rows - fetched})
           /\ fetched' = fetched + pending'
           /\ Goto("send")
           /\ UNCHANGED <<clientVars, chan, at, result>>
  <2>. DEFINE S == {rowset, Current.rows - fetched}
  <2>1. S \in SUBSET Nat /\ S # {}
    BY <1>2, <1>4
  <2>2. Min(S) \in S /\ \A k \in S : Min(S) <= k
    <3>. HIDE DEF S
    <3>. QED  BY <2>1, MinIs
  <2>3. /\ pending' \in Nat /\ 1 <= pending' /\ pending' <= rowset
        /\ pending' <= Current.rows - fetched
    BY <1>2, <1>4, <2>2
  <2>4. /\ fetched' \in Nat /\ pending' <= fetched' /\ fetched' <= Current.rows
        /\ fetched' - pending' = fetched /\ pending' \in 0..rowset
    BY <1>2, <1>4, <2>3
  <2>5. Current' = Current
    BY <1>4 DEF Current, clientVars
  <2>6. Reached(fetched - pending)'
    <3>1. receiver'[at'] = "open" =>
             Len(got'[at']) + Len(chan'[at']) = Offset(batch'[at'], result' - 1) + fetched
      BY <1>2, <1>4 DEF Reached, clientVars
    <3>. QED  BY <3>1, <2>4 DEF Reached
  <2>7. WalkOK'
    BY <1>2, <1>4, <2>3, <2>4, <2>5, <2>6 DEF WalkOK, Goto, clientVars
  <2>. QED  BY <1>1, <1>2, <1>4, <2>4, <2>7, MoveKeeps DEF Goto
<1>5. CASE /\ Current.rows = fetched
           /\ Goto("finish")
           /\ UNCHANGED <<clientVars, chan, walkVars>>
  <2>1. Reached(Current.rows)' /\ Current' = Current
    BY <1>2, <1>5 DEF Reached, Current, clientVars, walkVars
  <2>2. WalkOK'
    BY <1>2, <1>5, <2>1 DEF WalkOK, Goto, clientVars, walkVars
  <2>. QED  BY <1>1, <1>2, <1>5, <2>2, MoveKeeps DEF Goto, walkVars
<1>. QED  BY <1>3, <1>4, <1>5 DEF Fetch

LEMMA EventInPlace ==
  ASSUME StreamInv, pc # "idle"
  PROVE  LET o == Offset(batch[at], result - 1)
             x == Expected(batch[at]) IN
         /\ \A j \in 1..Current.rows : x[o + j] = Row(result, j)
         /\ x[o + Current.rows + 1] = Done(result)
         /\ o + Current.rows + 1 <= Len(x)
         /\ Len(x) \in Nat
         /\ Done(result) \in Event
         /\ \A j \in Nat : Row(result, j) \in Event
<1>1. /\ batch[at] \in Batches /\ result \in 1..Len(batch[at])
      /\ Expected(batch[at]) \in Seq(Event)
  BY WalkFacts
<1>2. result \in Nat
  BY WalkTypes
<1>3. Done(result) \in Event /\ \A j \in Nat : Row(result, j) \in Event
  BY <1>2, EventKinds
<1>. QED  BY <1>1, <1>3, EventAt DEF Current

LEMMA SendCountKeeps ==
  ASSUME StreamInv, SendCount
  PROVE  StreamInv'
<1>1. pc = "count" /\ pc # "idle" /\ clientVars' = clientVars /\ UNCHANGED walkVars
  BY DEF SendCount
<1>2. /\ WalkOK /\ Reached(0) /\ Current.rows = 0
      /\ Offset(batch[at], result - 1) \in Nat
  BY <1>1, WalkFacts DEF WalkOK
<1>3. CASE CanSend /\ Send(Done(result)) /\ Goto("advance")
  <2>. DEFINE o == Offset(batch[at], result - 1)
              x == Expected(batch[at])
  <2>1. x[o + 0 + 1] = Done(result) /\ o + 0 < Len(x) /\ Done(result) \in Event
    <3>1. /\ x[o + Current.rows + 1] = Done(result) /\ o + Current.rows + 1 <= Len(x)
          /\ Len(x) \in Nat /\ Done(result) \in Event
      BY <1>1, EventInPlace
    <3>. HIDE DEF o, x
    <3>2. o \in Nat
      BY <1>2 DEF o
    <3>. QED  BY <1>2, <3>1, <3>2
  <2>2. sender' = sender /\ pc' = "advance" /\ 0 \in Nat
    BY <1>3 DEF Goto
  <2>3. /\ QueriesOK' /\ chan' \in [Queries -> Seq(Event)]
        /\ \A q \in Queries : Len(chan'[q]) <= Capacity
        /\ Len(got[at]) + Len(chan'[at]) = o + 0 + 1
    <3>. HIDE DEF o, x
    <3>. QED  BY <1>1, <1>2, <1>3, <2>1, <2>2, SendPlace DEF o, x
  <2>4. Current' = Current
    BY <1>1 DEF Current, clientVars, walkVars
  <2>5. Reached(Current.rows + 1)'
    <3>1. Len(got[at]) + Len(chan'[at]) = o + (Current.rows + 1)
      <4>. HIDE DEF o
      <4>1. o \in Nat
        BY <1>2 DEF o
      <4>2. o + 0 + 1 = o + (Current.rows + 1)
        BY <4>1, <1>2
      <4>. QED  BY <2>3, <4>2
    <3>. QED  BY <1>1, <2>4, <3>1 DEF Reached, clientVars, walkVars
  <2>6. WalkOK'
    BY <1>1, <1>2, <2>2, <2>4, <2>5 DEF WalkOK, clientVars, walkVars
  <2>. QED  BY <1>1, <2>2, <2>3, <2>6, WalkTypes, MoveSends DEF walkVars
<1>4. CASE Unheard /\ Return /\ UNCHANGED chan
  BY <1>1, <1>4, ReturnKeeps DEF Unheard, StreamInv, StreamTypes, StreamTypeOK
<1>. QED  BY <1>3, <1>4 DEF SendCount

LEMMA SendRowKeeps ==
  ASSUME StreamInv, SendRow
  PROVE  StreamInv'
<1>1. pc = "send" /\ pc # "idle" /\ clientVars' = clientVars /\ UNCHANGED <<at, result, fetched>>
  BY DEF SendRow, walkVars
<1>2. /\ WalkOK /\ Reached(fetched - pending)
      /\ 1 <= pending /\ pending <= fetched /\ fetched <= Current.rows
      /\ Current.rows \in Nat /\ fetched \in Nat /\ pending \in 0..rowset
      /\ rowset \in Nat /\ result \in Nat
      /\ Offset(batch[at], result - 1) \in Nat
  BY <1>1, WalkFacts, WalkTypes DEF WalkOK
<1>. DEFINE k == fetched - pending
<1>3. CASE /\ CanSend
           /\ Send(Row(result, fetched - pending + 1))
           /\ pending' = pending - 1
           /\ Goto(IF pending = 1 THEN "fetch" ELSE "send")
           /\ UNCHANGED <<clientVars, at, result, fetched>>
  <2>. DEFINE o == Offset(batch[at], result - 1)
              x == Expected(batch[at])
  <2>0. k \in Nat /\ k + 1 \in 1..Current.rows /\ k < Current.rows /\ k + 1 \in Nat
    BY <1>2
  <2>1. x[o + k + 1] = Row(result, k + 1) /\ o + k < Len(x) /\ Row(result, k + 1) \in Event
    <3>1. /\ \A j \in 1..Current.rows : x[o + j] = Row(result, j)
          /\ o + Current.rows + 1 <= Len(x)
          /\ Len(x) \in Nat /\ \A j \in Nat : Row(result, j) \in Event
      BY <1>1, EventInPlace
    <3>. HIDE DEF o, x, k
    <3>2. o \in Nat
      BY <1>2 DEF o
    <3>3. o + (k + 1) = o + k + 1
      BY <2>0, <3>2
    <3>4. x[o + (k + 1)] = Row(result, k + 1) /\ Row(result, k + 1) \in Event
      BY <2>0, <3>1
    <3>5. o + k < Len(x)
      BY <1>2, <2>0, <3>1, <3>2
    <3>. QED  BY <3>3, <3>4, <3>5
  <2>2. /\ sender' = sender /\ pc' \in {"fetch", "send"}
        /\ pc' = "fetch" => pending = 1
        /\ pc' = "send" => pending # 1
    BY <1>3 DEF Goto
  <2>3. /\ QueriesOK' /\ chan' \in [Queries -> Seq(Event)]
        /\ \A q \in Queries : Len(chan'[q]) <= Capacity
        /\ Len(got[at]) + Len(chan'[at]) = o + k + 1
    <3>1. CanSend /\ Send(Row(result, k + 1)) /\ Reached(k)
      BY <1>2, <1>3
    <3>. HIDE DEF o, x, k
    <3>. QED  BY <1>1, <2>0, <2>1, <2>2, <3>1, SendPlace DEF o, x
  <2>4. Current' = Current
    BY <1>1 DEF Current, clientVars
  <2>5. Reached(fetched - pending)'
    <3>1. fetched' - pending' = k + 1
      BY <1>1, <1>2, <1>3
    <3>2. Len(got[at]) + Len(chan'[at]) = o + (k + 1)
      <4>. HIDE DEF o, k
      <4>1. o \in Nat
        BY <1>2 DEF o
      <4>2. o + k + 1 = o + (k + 1)
        BY <4>1, <2>0
      <4>. QED  BY <2>3, <4>2
    <3>. QED  BY <1>1, <3>1, <3>2 DEF Reached, clientVars
  <2>6. pc' = "fetch" => Reached(fetched)'
    <3>1. pending = 1 => fetched' - pending' = fetched'
      BY <1>1, <1>2, <1>3
    <3>. QED  BY <2>2, <2>5, <3>1 DEF Reached
  <2>7. /\ fetched' <= Current'.rows
        /\ pending' \in 0..rowset /\ pending' <= fetched'
        /\ pc' = "send" => 1 <= pending'
    BY <1>1, <1>2, <1>3, <2>2, <2>4
  <2>8. WalkOK'
    BY <1>1, <1>2, <2>2, <2>4, <2>5, <2>6, <2>7 DEF WalkOK, clientVars
  <2>. QED  BY <1>1, <1>2, <2>2, <2>3, <2>7, <2>8, MoveSends
<1>4. CASE Unheard /\ Return /\ UNCHANGED <<clientVars, chan, walkVars>>
  BY <1>1, <1>4, ReturnKeeps DEF Unheard, StreamInv, StreamTypes, StreamTypeOK
<1>. QED  BY <1>3, <1>4 DEF SendRow

LEMMA FinishKeeps ==
  ASSUME StreamInv, Finish
  PROVE  StreamInv'
<1>1. /\ pc = "finish" /\ pc # "idle" /\ clientVars' = clientVars /\ UNCHANGED walkVars
      /\ pc' \in {"advance", "fail"} /\ sender' = sender
  BY DEF Finish, Goto
<1>2. /\ WalkOK /\ Reached(Current.rows) /\ Current.rows \in Nat
      /\ Offset(batch[at], result - 1) \in Nat
  BY <1>1, WalkFacts DEF WalkOK
<1>3. Current' = Current
  BY <1>1 DEF Current, clientVars, walkVars
<1>4. CASE CanSend /\ Send(Done(result))
  <2>. DEFINE o == Offset(batch[at], result - 1)
              x == Expected(batch[at])
              k == Current.rows
  <2>1. x[o + k + 1] = Done(result) /\ o + k < Len(x) /\ Done(result) \in Event
    <3>1. /\ x[o + k + 1] = Done(result) /\ o + k + 1 <= Len(x)
          /\ Len(x) \in Nat /\ Done(result) \in Event
      BY <1>1, EventInPlace
    <3>. HIDE DEF o, x, k
    <3>2. o \in Nat /\ k \in Nat
      BY <1>2 DEF o, k
    <3>. QED  BY <3>1, <3>2
  <2>2. k \in Nat /\ Reached(k)
    BY <1>2
  <2>3. /\ QueriesOK' /\ chan' \in [Queries -> Seq(Event)]
        /\ \A q \in Queries : Len(chan'[q]) <= Capacity
        /\ Len(got[at]) + Len(chan'[at]) = o + k + 1
    <3>. HIDE DEF o, x, k
    <3>. QED  BY <1>1, <1>4, <2>1, <2>2, SendPlace DEF o, x
  <2>4. Reached(Current.rows + 1)'
    <3>1. Len(got[at]) + Len(chan'[at]) = o + (k + 1)
      <4>. HIDE DEF o, k
      <4>1. o \in Nat
        BY <1>2 DEF o
      <4>2. o + k + 1 = o + (k + 1)
        BY <4>1, <2>2
      <4>. QED  BY <2>3, <4>2
    <3>. QED  BY <1>1, <1>3, <3>1 DEF Reached, clientVars, walkVars
  <2>5. WalkOK'
    BY <1>1, <1>2, <1>3, <2>4 DEF WalkOK, clientVars, walkVars
  <2>. QED  BY <1>1, <2>3, <2>5, WalkTypes, MoveSends DEF walkVars
<1>5. CASE Unheard /\ UNCHANGED chan
  <2>1. receiver'[at'] # "open"
    BY <1>1, <1>5 DEF Unheard, clientVars, walkVars
  <2>2. WalkOK'
    BY <1>1, <1>2, <1>3, <2>1 DEF WalkOK, Reached, clientVars, walkVars
  <2>. QED  BY <1>1, <1>5, <2>2, WalkTypes, MoveKeeps DEF walkVars
<1>. QED  BY <1>4, <1>5 DEF Finish

LEMMA AdvanceKeeps ==
  ASSUME StreamInv, Advance
  PROVE  StreamInv'
<1>1. pc = "advance" /\ pc # "idle" /\ clientVars' = clientVars /\ chan' = chan
  BY DEF Advance, Raise
<1>2. /\ WalkOK /\ Reached(Current.rows + 1) /\ Current.rows \in Nat
      /\ Offset(batch[at], result - 1) \in Nat
      /\ batch[at] \in Batches /\ result \in 1..Len(batch[at]) /\ result \in Nat
      /\ Offset(batch[at], result) = Offset(batch[at], result - 1) + Current.rows + 1
      /\ at \in Queries
  BY <1>1, WalkFacts, WalkTypes, OffsetSteps DEF WalkOK, Current
<1>3. receiver[at] = "open" =>
        Len(got[at]) + Len(chan[at]) = Offset(batch[at], result)
  <2>. DEFINE o == Offset(batch[at], result - 1)
              k == Current.rows
  <2>1. o \in Nat /\ k \in Nat /\ Offset(batch[at], result) = o + k + 1
    BY <1>2
  <2>2. receiver[at] = "open" => Len(got[at]) + Len(chan[at]) = o + (k + 1)
    BY <1>2 DEF Reached
  <2>. HIDE DEF o, k
  <2>3. o + (k + 1) = o + k + 1
    BY <2>1
  <2>. QED  BY <2>1, <2>2, <2>3
<1>4. CASE Raise("advance")
  BY <1>1, <1>4, RaiseKeeps DEF Raise, Goto
<1>5. CASE /\ result < Len(batch[at])
           /\ result' = result + 1 /\ fetched' = 0 /\ pending' = 0
           /\ Goto("inspect")
           /\ UNCHANGED <<clientVars, chan, at>>
  <2>1. (result + 1) - 1 = result /\ result + 1 \in 1..Len(batch[at]) /\ result + 1 \in Nat
    <3>1. Len(batch[at]) \in Nat
      BY <1>2, BatchType
    <3>2. result \in Nat /\ 1 <= result /\ result < Len(batch[at])
      BY <1>2, <1>5
    <3>. QED  BY <3>1, <3>2
  <2>2. Reached(0)'
    <3>1. Offset(batch[at], result) + 0 = Offset(batch[at], result)
      <4>1. result \in 0..Len(batch[at])
        BY <1>2
      <4>2. Offset(batch[at], result) \in Nat
        BY <1>2, <4>1, OffsetSteps
      <4>. QED  BY <4>2
    <3>. QED  BY <1>3, <1>5, <2>1, <3>1 DEF Reached, clientVars
  <2>3. WalkOK'
    BY <1>2, <1>5, <2>1, <2>2 DEF WalkOK, Goto, clientVars
  <2>4. 0 \in 0..rowset
    BY WalkTypes
  <2>. QED  BY <1>1, <1>5, <2>1, <2>3, <2>4, MoveKeeps DEF Goto
<1>6. CASE /\ result = Len(batch[at])
           /\ Return
           /\ UNCHANGED <<clientVars, chan, walkVars>>
  <2>. DEFINE s == got[at] \o chan[at]
              x == Expected(batch[at])
  <2>1. /\ receiver[at] \in {"open", "dropped"} /\ Begins(s, x)
        /\ got[at] \in Seq(Event) /\ chan[at] \in Seq(Event) /\ x \in Seq(Event)
    BY <1>1, WalkFacts
  <2>2. receiver[at] = "open" => s = x
    <3>1. s \in Seq(Event) /\ Len(s) = Len(got[at]) + Len(chan[at])
      BY <2>1, SentParts
    <3>2. Offset(batch[at], result) = Len(x)
      BY <1>2, <1>6, OffsetSteps
    <3>3. receiver[at] = "open" => Len(s) = Len(x)
      BY <1>3, <3>1, <3>2
    <3>. HIDE DEF s, x
    <3>. QED  BY <2>1, <3>1, <3>3, BeginsAll
  <2>3. /\ chan \in [Queries -> Seq(Event)]
        /\ \A q \in Queries : Len(chan[q]) <= Capacity
    BY DEF StreamInv, StreamTypes, StreamTypeOK
  <2>. QED  BY <1>1, <1>6, <2>1, <2>2, <2>3, ReturnKeeps
<1>. QED  BY <1>4, <1>5, <1>6 DEF Advance

LEMMA ForwardErrorKeeps ==
  ASSUME StreamInv, ForwardError
  PROVE  StreamInv'
<1>1. /\ pc = "fail" /\ pc # "idle" /\ Return /\ UNCHANGED <<clientVars, walkVars>>
  BY DEF ForwardError
<1>2. /\ chan \in [Queries -> Seq(Event)] /\ Capacity \in Nat
      /\ \A q \in Queries : Len(chan[q]) <= Capacity
  BY StreamAssumption DEF StreamInv, StreamTypes, StreamTypeOK
<1>3. /\ got[at] \in Seq(Event) /\ chan[at] \in Seq(Event) /\ at \in Queries
      /\ Expected(batch[at]) \in Seq(Event)
      /\ Begins(got[at] \o chan[at], Expected(batch[at]))
  BY <1>1, WalkFacts
<1>4. CASE CanSend /\ Send(Error)
  <2>1. Error \in Event
    BY EventKinds
  <2>2. /\ chan' = [chan EXCEPT ![at] = Append(chan[at], Error)]
        /\ Append(chan[at], Error) \in Seq(Event)
        /\ Len(Append(chan[at], Error)) = Len(chan[at]) + 1
        /\ Len(chan[at]) \in Nat
    <3>1. chan' = [chan EXCEPT ![at] = Append(chan[at], Error)]
      BY <1>4 DEF Send
    <3>. HIDE DEF Event
    <3>. QED  BY <1>3, <2>1, <3>1
  <2>3. /\ chan' \in [Queries -> Seq(Event)]
        /\ chan'[at] = Append(chan[at], Error)
        /\ \A p \in Queries \ {at} : chan'[p] = chan[p]
    BY <1>2, <1>3, <2>2
  <2>4. \A q \in Queries : Len(chan'[q]) <= Capacity
    BY <1>2, <1>3, <1>4, <2>2, <2>3 DEF CanSend
  <2>5. Broken(got[at] \o chan'[at], Expected(batch[at]))
    <3>1. got[at] \o chan'[at] = Append(got[at] \o chan[at], Error)
      BY <1>3, <2>1, <2>3, SentMore
    <3>2. got[at] \o chan[at] \in Seq(Event)
      BY <1>3, SentParts
    <3>. QED  BY <1>3, <3>1, <3>2, BrokenAppend
  <2>. QED  BY <1>1, <1>4, <2>3, <2>4, <2>5, ReturnKeeps DEF CanSend
<1>5. CASE Unheard /\ UNCHANGED chan
  BY <1>1, <1>2, <1>5, ReturnKeeps DEF Unheard
<1>. QED  BY <1>4, <1>5 DEF ForwardError

-----------------------------------------------------------------------------
(* The theorems about the streams themselves. *)

LEMMA ActorStepKeeps ==
  ASSUME StreamInv, ActorStep
  PROVE  StreamInv'
BY StartKeeps, InspectKeeps, SendCountKeeps, FetchKeeps, SendRowKeeps,
   FinishKeeps, AdvanceKeeps, ForwardErrorKeeps DEF ActorStep

LEMMA StreamStepKeeps ==
  ASSUME StreamInv, [StreamNext]_streamVars
  PROVE  StreamInv'
<1>1. CASE \E q \in Queries, b \in Batches, m \in {"many", "optional"} : Issue(q, b, m)
  BY <1>1, IssueKeeps
<1>2. CASE Read
  BY <1>2, ReceiveKeeps, CloseKeeps DEF Read
<1>3. CASE \E q \in Queries : Cancel(q)
  BY <1>3, CloseKeeps
<1>4. CASE ActorStep
  BY <1>4, ActorStepKeeps
<1>5. CASE UNCHANGED streamVars
  BY <1>5 DEF StreamInv, StreamTypes, StreamTypeOK, QueriesOK, ActorOK, WalkOK,
              Reached, Current, streamVars, clientVars, walkVars
<1>. QED  BY <1>1, <1>2, <1>3, <1>4, <1>5 DEF StreamNext

(* The invariant holds in every reachable state.                           *)
THEOREM StreamInvariant == StreamSpec => []StreamInv
<1>1. StreamInit => StreamInv
  BY StreamInitInv
<1>2. StreamInv /\ [StreamNext]_streamVars => StreamInv'
  BY StreamStepKeeps
<1>. QED  BY <1>1, <1>2, PTL DEF StreamSpec

(* Every variable of the streams keeps its type; in particular no channel  *)
(* ever holds more than its capacity (bounded(64), connection.rs).         *)
THEOREM StreamTypeCorrect == StreamSpec => []StreamTypeOK
<1>1. StreamInv => StreamTypeOK
  BY DEF StreamInv, StreamTypes
<1>. QED  BY <1>1, StreamInvariant, PTL

(* No error among the results. *)
LEMMA ErrorIsLast ==
  ASSUME NEW s \in Seq(Event), NEW b \in Batches, Begins(s, Expected(b))
  PROVE  \A i \in 1..Len(s) : s[i] # Error
<1>1. Len(s) \in Nat /\ Len(Expected(b)) \in Nat
  BY ExpectedType
<1>. QED  BY <1>1, ExpectedType DEF Begins

LEMMA BeginsIsPrefix ==
  ASSUME NEW s \in Seq(Event), NEW x \in Seq(Event), Begins(s, x)
  PROVE  IsPrefix(s, x)
<1>. HIDE DEF Event
<1>1. Len(s) <= Len(x) /\ \A i \in 1..Len(s) : s[i] = x[i]
  BY DEF Begins
<1>2. s = SubSeq(x, 1, Len(s))
  <2>1. SubSeq(x, 1, Len(s)) \in Seq(Event) /\ Len(SubSeq(x, 1, Len(s))) = Len(s)
        /\ \A i \in 1..Len(s) : SubSeq(x, 1, Len(s))[i] = x[i]
    BY <1>1
  <2>. QED  BY <1>1, <2>1, SeqEqual
<1>. QED  BY <1>1, <1>2 DEF IsPrefix

(* For every query, what was received and what is under way is a beginning *)
(* of its results, or that and one error (helpers.rs, drive_result_sets).  *)
THEOREM SentInOrderHolds == StreamSpec => []SentInOrder
<1>1. ASSUME StreamInv, NEW q \in Queries  PROVE InOrder(q)
  <2>. DEFINE s == got[q] \o chan[q]
              x == Expected(batch[q])
  <2>1. /\ got[q] \in Seq(Event) /\ chan[q] \in Seq(Event)
        /\ QueryOK(batch[q], receiver[q], sender[q], got[q], chan[q])
        /\ sender[q] \in {"idle", "queued", "held", "gone"}
    BY <1>1, QueryFacts
  <2>2. s \in Seq(Event)
    BY <2>1, SentParts
  <2>3. CASE sender[q] = "idle"
    <3>1. got[q] = <<>> /\ chan[q] = <<>> /\ batch[q] = <<>>
      BY <2>1, <2>3 DEF QueryOK
    <3>2. s = <<>> /\ Len(<<>>) = 0
      BY <3>1
    <3>3. Expected(<<>>) = <<>>
      BY DEF Expected, FlattenSeq
    <3>4. IsPrefix(<<>>, <<>>)
      BY <3>2 DEF IsPrefix
    <3>. QED  BY <3>1, <3>2, <3>3, <3>4 DEF InOrder
  <2>4. CASE sender[q] # "idle"
    <3>1. batch[q] \in Batches /\ x \in Seq(Event)
      BY <1>1, <2>4, QueryFacts
    <3>2. Begins(s, x) \/ Broken(s, x)
      BY <2>1, <2>4 DEF QueryOK
    <3>3. CASE Begins(s, x)
      <4>1. \A i \in 1..Len(s) : s[i] # Error
        BY <2>2, <3>1, <3>3, ErrorIsLast
      <4>2. s # <<>> => Last(s) # Error
        <5>. HIDE DEF s, Event
        <5>1. s # <<>> => Len(s) \in 1..Len(s)
          BY <2>2
        <5>. QED  BY <4>1, <5>1 DEF Last
      <4>3. IsPrefix(s, x)
        <5>. HIDE DEF s, x
        <5>. QED  BY <2>2, <3>1, <3>3, BeginsIsPrefix
      <4>. QED  BY <4>2, <4>3 DEF InOrder
    <3>4. CASE Broken(s, x)
      <4>. DEFINE f == Front(s)
      <4>1. f \in Seq(Event) /\ Len(f) = Len(s) - 1 /\ \A i \in 1..Len(f) : f[i] = s[i]
        <5>. HIDE DEF s, Event
        <5>1. Len(s) >= 1 /\ Len(s) \in Nat
          BY <2>2, <3>4 DEF Broken
        <5>2. f = SubSeq(s, 1, Len(s) - 1)
          BY DEF Front
        <5>. DEFINE n == Len(s) - 1
        <5>3. n \in Nat /\ n <= Len(s)
          BY <5>1
        <5>4. /\ SubSeq(s, 1, n) \in Seq(Event) /\ Len(SubSeq(s, 1, n)) = n
              /\ \A i \in 1..n : SubSeq(s, 1, n)[i] = s[i]
          <6>. HIDE DEF n
          <6>1. SubSeq(s, 1, n) \in Seq(Event)
            BY <2>2, <5>3
          <6>2. Len(SubSeq(s, 1, n)) = n
            BY <2>2, <5>3
          <6>3. \A i \in 1..n : SubSeq(s, 1, n)[i] = s[i]
            BY <2>2, <5>3
          <6>. QED  BY <6>1, <6>2, <6>3
        <5>. HIDE DEF f, n
        <5>5. f = SubSeq(s, 1, n)
          BY <5>2 DEF n
        <5>. QED  BY <5>4, <5>5 DEF n
      <4>2. s # <<>> /\ Last(s) = Error
        <5>. HIDE DEF s, Event
        <5>1. Len(s) >= 1 /\ s[Len(s)] = Error
          BY <3>4 DEF Broken
        <5>. QED  BY <2>2, <5>1 DEF Last
      <4>3. Begins(f, x)
        <5>. HIDE DEF f, s
        <5>. QED  BY <3>4, <4>1 DEF Begins, Broken
      <4>4. IsPrefix(f, x)
        <5>. HIDE DEF f, x
        <5>. QED  BY <3>1, <4>1, <4>3, BeginsIsPrefix
      <4>. QED  BY <4>2, <4>4 DEF InOrder
    <3>. QED  BY <3>2, <3>3, <3>4
  <2>. QED  BY <2>3, <2>4
<1>2. StreamInv => SentInOrder
  BY <1>1 DEF SentInOrder
<1>. QED  BY <1>2, StreamInvariant, PTL

-----------------------------------------------------------------------------
(* The streams implement ResultDelivery. *)

(* What each query's reader is promised. *)
Promise == [q \in Queries |-> Expected(batch[q])]

(* An error that was received was the last thing sent. *)
LEMMA FailedIs ==
  ASSUME StreamInv, NEW q \in Queries, Failed(q)
  PROVE  chan[q] = <<>> /\ sender[q] = "gone"
<1>. DEFINE g == got[q]
            c == chan[q]
            s == g \o c
            x == Expected(batch[q])
<1>1. /\ g \in Seq(Event) /\ c \in Seq(Event)
      /\ QueryOK(batch[q], receiver[q], sender[q], g, c)
      /\ sender[q] \in {"idle", "queued", "held", "gone"}
  BY QueryFacts
<1>2. g # <<>> /\ g[Len(g)] = Error
  BY DEF Failed, Last
<1>3. sender[q] \in {"held", "gone"}
  BY <1>1, <1>2 DEF QueryOK
<1>4. batch[q] \in Batches /\ x \in Seq(Event)
  BY <1>3, QueryFacts
<1>5. /\ s \in Seq(Event) /\ Len(s) = Len(g) + Len(c)
      /\ Len(g) \in Nat /\ Len(g) >= 1 /\ Len(c) \in Nat /\ (c # <<>> => Len(c) >= 1)
      /\ s[Len(g)] = Error
  <2>1. s \in Seq(Event) /\ Len(s) = Len(g) + Len(c)
    BY <1>1, SentParts
  <2>2. Len(g) \in Nat /\ Len(g) >= 1 /\ Len(c) \in Nat /\ (c # <<>> => Len(c) >= 1)
    <3>. HIDE DEF Event, g, c
    <3>. QED  BY <1>1, <1>2
  <2>3. s[Len(g)] = g[Len(g)]
    <3>. HIDE DEF Event, g, c
    <3>. QED  BY <1>1, <2>2
  <2>. QED  BY <1>2, <2>1, <2>2, <2>3
<1>6. Begins(s, x) => FALSE
  <2>1. SUFFICES ASSUME Begins(s, x)  PROVE FALSE
    OBVIOUS
  <2>2. \A i \in 1..Len(s) : s[i] # Error
    BY <1>4, <1>5, <2>1, ErrorIsLast
  <2>. HIDE DEF s, g, c
  <2>3. Len(g) \in 1..Len(s)
    BY <1>5
  <2>. QED  BY <1>5, <2>2, <2>3
<1>7. Broken(s, x) => c = <<>>
  <2>1. SUFFICES ASSUME Broken(s, x), c # <<>>  PROVE FALSE
    OBVIOUS
  <2>2. \A i \in 1..Len(x) : x[i] # Error
    BY <1>4, ExpectedType
  <2>. HIDE DEF s, g, c, x
  <2>3. Len(g) \in 1..(Len(s) - 1) /\ Len(x) \in Nat
    BY <1>4, <1>5, <2>1
  <2>4. Len(g) \in 1..Len(x) /\ s[Len(g)] = x[Len(g)]
    BY <1>5, <2>1, <2>3 DEF Broken
  <2>. QED  BY <1>5, <2>2, <2>4
<1>. QED  BY <1>1, <1>3, <1>6, <1>7 DEF QueryOK

LEMMA StatusIs ==
  ASSUME NEW q \in Queries
  PROVE  /\ Failed(q) => Status[q] = "failed"
         /\ ~Failed(q) /\ receiver[q] = "dropped" => Status[q] = "abandoned"
         /\ ~Failed(q) /\ receiver[q] # "dropped" => Status[q] = receiver[q]
BY DEF Status

LEMMA StatusNextIs ==
  ASSUME NEW q \in Queries
  PROVE  /\ Failed(q)' => Status'[q] = "failed"
         /\ ~Failed(q)' /\ receiver'[q] = "dropped" => Status'[q] = "abandoned"
         /\ ~Failed(q)' /\ receiver'[q] # "dropped" => Status'[q] = receiver'[q]
BY DEF Status

LEMMA StatusStep ==
  ASSUME NEW q \in Queries, NEW s, Status'[q] = s,
         \A p \in Queries \ {q} : got'[p] = got[p] /\ receiver'[p] = receiver[p]
  PROVE  Status' = [Status EXCEPT ![q] = s]
<1>1. \A p \in Queries \ {q} : Status'[p] = Status[p]
  BY DEF Status, Failed
<1>2. Status = [p \in Queries |-> Status[p]] /\ Status' = [p \in Queries |-> Status'[p]]
  BY DEF Status
<1>. HIDE DEF Status
<1>3. DOMAIN Status = Queries /\ DOMAIN Status' = Queries
  BY <1>2
<1>. QED  BY <1>1, <1>2, <1>3

LEMMA SameStatus ==
  ASSUME got' = got, receiver' = receiver
  PROVE  Status' = Status
BY DEF Status, Failed

LEMMA SamePromise ==
  ASSUME batch' = batch
  PROVE  Promise' = Promise
BY DEF Promise

LEMMA InitDelivers == StreamInit => Delivery!Init
<1>. SUFFICES ASSUME StreamInit  PROVE Delivery!Init
  OBVIOUS
<1>1. Expected(<<>>) = <<>>
  BY DEF Expected, FlattenSeq
<1>2. Promise = [q \in Queries |-> <<>>]
  BY <1>1 DEF Promise, StreamInit
<1>3. \A q \in Queries : ~Failed(q) /\ receiver[q] = "idle"
  BY DEF Failed, StreamInit
<1>4. Status = [q \in Queries |-> "idle"]
  BY <1>3 DEF Status
<1>. QED  BY <1>2, <1>4 DEF Delivery!Init, Promise, StreamInit

LEMMA IssueDelivers ==
  ASSUME StreamInv, NEW q \in Queries, NEW b \in Batches,
         NEW m \in {"many", "optional"}, Issue(q, b, m)
  PROVE  Delivery!Open(q)
<1>1. /\ receiver[q] = "idle" /\ got' = got
      /\ batch' = [batch EXCEPT ![q] = b]
      /\ receiver' = [receiver EXCEPT ![q] = "open"]
  BY DEF Issue
<1>2. /\ receiver'[q] = "open" /\ batch'[q] = b
      /\ \A p \in Queries \ {q} : receiver'[p] = receiver[p] /\ batch'[p] = batch[p]
  BY <1>1 DEF StreamInv, StreamTypes, StreamTypeOK
<1>3. ~Failed(q) /\ ~Failed(q)'
  <2>1. got[q] = <<>>
    BY <1>1, QueryFacts DEF QueryOK
  <2>. QED  BY <1>1, <2>1 DEF Failed
<1>4. Status[q] = "idle" /\ Status'[q] = "open"
  BY <1>1, <1>2, <1>3, StatusIs, StatusNextIs
<1>5. Status' = [Status EXCEPT ![q] = "open"]
  BY <1>1, <1>2, <1>4, StatusStep
<1>6. /\ Promise'[q] # <<>>
      /\ \A p \in Queries \ {q} : Promise'[p] = Promise[p]
  <2>1. Promise'[q] = Expected(b)
    BY <1>2 DEF Promise
  <2>2. Expected(b) # <<>>
    <3>1. Len(Expected(b)) >= 1
      BY ExpectedType
    <3>2. Len(<<>>) = 0
      OBVIOUS
    <3>. QED  BY <3>1, <3>2
  <2>. QED  BY <1>2, <2>1, <2>2 DEF Promise
<1>. QED  BY <1>1, <1>4, <1>5, <1>6 DEF Delivery!Open, Delivery!To, Promise

LEMMA ReceiveDelivers ==
  ASSUME StreamInv, NEW q \in Queries, Receive(q)
  PROVE  Delivery!Deliver(q) \/ Delivery!Fail(q)
<1>. DEFINE g == got[q]
            c == chan[q]
            s == g \o c
            x == Expected(batch[q])
            e == Head(chan[q])
<1>1. receiver[q] = "open" /\ chan[q] # <<>> /\ batch' = batch
  BY DEF Receive
<1>2. /\ g \in Seq(Event) /\ c \in Seq(Event) /\ batch[q] \in Batches /\ x \in Seq(Event)
      /\ QueryOK(batch[q], receiver[q], sender[q], g, c)
      /\ sender[q] \in {"queued", "held", "gone"}
  <2>1. QueryOK(batch[q], receiver[q], sender[q], g, c)
    BY QueryFacts
  <2>2. sender[q] # "idle"
    BY <1>1, <2>1 DEF QueryOK
  <2>. QED  BY <2>1, <2>2, QueryFacts
<1>3. /\ got'[q] = Append(g, e)
      /\ receiver'[q] \in {"open", "dropped"}
      /\ \A p \in Queries \ {q} : got'[p] = got[p] /\ receiver'[p] = receiver[p]
      /\ got' = [got EXCEPT ![q] = Append(@, e)]
  <2>1. got' = [got EXCEPT ![q] = Append(@, e)]
    BY DEF Receive
  <2>. QED  BY <1>1, <2>1, ReceiveParts
<1>4. ~Failed(q) /\ Status[q] = "open"
  <2>1. ~Failed(q)
    BY <1>1, FailedIs
  <2>. QED  BY <1>1, <2>1, StatusIs
<1>5. e \in Event /\ Append(g, e) # <<>> /\ Last(Append(g, e)) = e
  <2>1. e \in Event
    BY <1>1, <1>2, SentParts
  <2>. HIDE DEF e, g, Event
  <2>. QED  BY <1>2, <2>1 DEF Last
<1>6. CASE e = Error
  <2>1. Failed(q)'
    BY <1>3, <1>5, <1>6 DEF Failed
  <2>2. Status'[q] = "failed"
    BY <2>1, StatusNextIs
  <2>3. Status' = [Status EXCEPT ![q] = "failed"]
    BY <1>3, <2>2, StatusStep
  <2>4. got' = [got EXCEPT ![q] = Append(@, Error)]
    BY <1>3, <1>6
  <2>. QED  BY <1>1, <1>4, <2>3, <2>4, SamePromise
            DEF Delivery!Fail, Delivery!To, Promise
<1>7. CASE e # Error
  <2>1. Len(g) < Len(x) /\ x[Len(g) + 1] = e
    <3>1. /\ s \in Seq(Event) /\ Len(s) = Len(g) + Len(c)
          /\ Len(g) \in Nat /\ Len(c) \in Nat /\ Len(c) >= 1 /\ Len(x) \in Nat
          /\ s[Len(g) + 1] = e
      <4>1. s \in Seq(Event) /\ Len(s) = Len(g) + Len(c) /\ s[Len(g) + 1] = e
        BY <1>1, <1>2, SentParts
      <4>2. Len(g) \in Nat /\ Len(c) \in Nat /\ Len(c) >= 1 /\ Len(x) \in Nat
        <5>. HIDE DEF g, x, Event
        <5>. QED  BY <1>1, <1>2
      <4>. QED  BY <4>1, <4>2
    <3>2. Begins(s, x) \/ Broken(s, x)
      BY <1>2 DEF QueryOK
    <3>. HIDE DEF g, c, s, x, e
    <3>. DEFINE n == Len(g)
                k == Len(c)
                l == Len(s)
                z == Len(x)
    <3>3. CASE Begins(s, x)
      <4>1. /\ l = n + k /\ n \in Nat /\ k \in Nat /\ k >= 1 /\ z \in Nat /\ l <= z
            /\ \A i \in 1..l : s[i] = x[i]
        BY <3>1, <3>3 DEF Begins
      <4>. HIDE DEF n, k, l, z
      <4>2. n + 1 \in 1..l /\ n < z
        BY <4>1
      <4>3. s[n + 1] = x[n + 1]
        BY <4>1, <4>2
      <4>. QED  BY <3>1, <4>2, <4>3 DEF n, z
    <3>4. CASE Broken(s, x)
      <4>1. /\ l = n + k /\ n \in Nat /\ k \in Nat /\ k >= 1 /\ z \in Nat
            /\ s[l] = Error /\ l - 1 <= z
            /\ \A i \in 1..(l - 1) : s[i] = x[i]
        BY <3>1, <3>4 DEF Broken
      <4>2. s[n + 1] = e
        BY <3>1
      <4>. HIDE DEF n, k, l, z
      <4>3. n + 1 # l
        BY <1>7, <4>1, <4>2
      <4>4. n + 1 \in 1..(l - 1) /\ n < z
        BY <4>1, <4>3
      <4>5. s[n + 1] = x[n + 1]
        BY <4>1, <4>4
      <4>. QED  BY <4>2, <4>4, <4>5 DEF n, z
    <3>. QED  BY <3>2, <3>3, <3>4
  <2>2. ~Failed(q)'
    BY <1>3, <1>5, <1>7 DEF Failed
  <2>3. Status'[q] = IF receiver'[q] = "open" THEN "open" ELSE "abandoned"
    BY <1>3, <2>2, StatusNextIs
  <2>4. Status' = Status \/ Status' = [Status EXCEPT ![q] = "abandoned"]
    <3>1. CASE receiver'[q] = "open"
      <4>1. Status' = [Status EXCEPT ![q] = "open"]
        BY <1>3, <2>3, <3>1, StatusStep
      <4>2. Status = [Status EXCEPT ![q] = "open"]
        <5>1. Status = [p \in Queries |-> Status[p]]
          BY DEF Status
        <5>. HIDE DEF Status
        <5>. QED  BY <1>4, <5>1
      <4>. QED  BY <4>1, <4>2
    <3>2. CASE receiver'[q] # "open"
      BY <1>3, <2>3, <3>2, StatusStep
    <3>. QED  BY <3>1, <3>2
  <2>5. Promise[q] = x
    BY DEF Promise
  <2>6. got' = [got EXCEPT ![q] = Append(@, Promise[q][Len(@) + 1])]
    BY <1>3, <2>1, <2>5
  <2>7. Delivery!Receive(q)
    <3>1. Len(got[q]) < Len(Promise[q])
      BY <2>1, <2>5
    <3>. QED  BY <1>1, <1>4, <2>6, <3>1, SamePromise DEF Delivery!Receive, Promise
  <2>. QED  BY <2>4, <2>7 DEF Delivery!Deliver, Delivery!To
<1>. QED  BY <1>6, <1>7

LEMMA CloseDelivers ==
  ASSUME StreamInv, NEW q \in Queries, ReceiveEnd(q) \/ Cancel(q)
  PROVE  \/ Delivery!End(q) \/ Delivery!Abandon(q)
         \/ UNCHANGED <<Promise, got, Status>>
<1>1. /\ receiver[q] = "open" /\ got' = got /\ batch' = batch
      /\ \A p \in Queries \ {q} : receiver'[p] = receiver[p]
      /\ Cancel(q) => receiver'[q] = "dropped"
      /\ ReceiveEnd(q) => receiver'[q] = "ended" /\ chan[q] = <<>> /\ sender[q] = "gone"
  BY CloseKeeps DEF ReceiveEnd, Cancel
<1>2. Promise' = Promise /\ Failed(q)' = Failed(q)
  BY <1>1, SamePromise DEF Failed
<1>3. CASE Failed(q)
  <2>1. Status'[q] = "failed" /\ Status[q] = "failed"
    BY <1>2, <1>3, StatusIs, StatusNextIs
  <2>2. Status' = [Status EXCEPT ![q] = "failed"]
    BY <1>1, <2>1, StatusStep
  <2>3. Status = [Status EXCEPT ![q] = "failed"]
    <3>1. Status = [p \in Queries |-> Status[p]]
      BY DEF Status
    <3>. HIDE DEF Status
    <3>. QED  BY <2>1, <3>1
  <2>. QED  BY <1>1, <1>2, <2>2, <2>3
<1>4. CASE ~Failed(q) /\ Cancel(q)
  <2>1. Status'[q] = "abandoned" /\ Status[q] = "open"
    BY <1>1, <1>2, <1>4, StatusIs, StatusNextIs
  <2>2. Status' = [Status EXCEPT ![q] = "abandoned"]
    BY <1>1, <2>1, StatusStep
  <2>. QED  BY <1>1, <1>2, <2>1, <2>2 DEF Delivery!Abandon, Delivery!To, Promise
<1>5. CASE ~Failed(q) /\ ReceiveEnd(q)
  <2>1. Status'[q] = "ended" /\ Status[q] = "open"
    BY <1>1, <1>2, <1>5, StatusIs, StatusNextIs
  <2>2. Status' = [Status EXCEPT ![q] = "ended"]
    BY <1>1, <2>1, StatusStep
  <2>3. got[q] = Expected(batch[q])
    <3>1. /\ QueryOK(batch[q], receiver[q], sender[q], got[q], chan[q])
          /\ got[q] \in Seq(Event) /\ chan[q] \in Seq(Event)
      BY QueryFacts
    <3>2. got[q] \o chan[q] = got[q]
      BY <1>1, <1>5, <3>1, SentParts
    <3>3. got[q] = Expected(batch[q]) \/ Broken(got[q], Expected(batch[q]))
      BY <1>1, <1>5, <3>1, <3>2 DEF QueryOK
    <3>4. ~Broken(got[q], Expected(batch[q]))
      <4>1. SUFFICES ASSUME Len(got[q]) >= 1, got[q][Len(got[q])] = Error  PROVE FALSE
        BY DEF Broken
      <4>2. got[q] # <<>>
        BY <4>1, <3>1
      <4>. QED  BY <1>5, <4>1, <4>2 DEF Failed, Last
    <3>. QED  BY <3>3, <3>4
  <2>. QED  BY <1>1, <1>2, <2>1, <2>2, <2>3 DEF Delivery!End, Delivery!To, Promise
<1>. QED  BY <1>3, <1>4, <1>5

LEMMA ActorDelivers ==
  ASSUME ActorStep
  PROVE  UNCHANGED <<Promise, got, Status>>
<1>1. clientVars' = clientVars
  BY DEF ActorStep, Start, Inspect, SendCount, Fetch, SendRow, Finish, Advance,
         ForwardError, Raise
<1>. QED  BY <1>1, SamePromise, SameStatus DEF clientVars

(* The actor, its walk and the channels implement what a reader is         *)
(* promised: every step of theirs is one of ResultDelivery, or none.       *)
THEOREM StreamDelivers == StreamSpec => ImplementsResultDelivery
<1>1. StreamInit => Delivery!Init
  BY InitDelivers
<1>2. StreamInv /\ [StreamNext]_streamVars => [Delivery!Next]_Delivery!vars
  <2>. SUFFICES ASSUME StreamInv, [StreamNext]_streamVars
                PROVE  Delivery!Next \/ UNCHANGED <<Promise, got, Status>>
    BY DEF Delivery!vars, Promise
  <2>1. CASE \E q \in Queries, b \in Batches, m \in {"many", "optional"} : Issue(q, b, m)
    BY <2>1, IssueDelivers DEF Delivery!Next
  <2>2. CASE \E q \in Queries : Receive(q)
    BY <2>2, ReceiveDelivers DEF Delivery!Next
  <2>3. CASE \E q \in Queries : ReceiveEnd(q) \/ Cancel(q)
    BY <2>3, CloseDelivers DEF Delivery!Next
  <2>4. CASE ActorStep
    BY <2>4, ActorDelivers
  <2>5. CASE UNCHANGED streamVars
    BY <2>5, SamePromise, SameStatus DEF streamVars, clientVars
  <2>. QED  BY <2>1, <2>2, <2>3, <2>4, <2>5 DEF StreamNext, Read
<1>. QED  BY <1>1, <1>2, StreamInvariant, PTL
          DEF StreamSpec, ImplementsResultDelivery, Delivery!Spec

-----------------------------------------------------------------------------
(* The statement cache. *)

States == {"absent", "clean", "pending"}

CacheTypes ==
  /\ prepared \in [Queries -> BOOLEAN]
  /\ handle \in {"none", "once", "cached", "new"}
  /\ cache \in [Batches -> States]
  /\ IsFiniteSet(Held(cache)) /\ Cardinality(Held(cache)) <= CacheSize
  /\ refused \subseteq Queries
  /\ broken \subseteq Queries

(* The statement being used: one of the cache stays there meanwhile. *)
HandleOK ==
  /\ pc = "idle" => handle = "none"
  /\ handle \in {"cached", "new"} => prepared[at]
  /\ handle = "cached" => cache[batch[at]] # "absent"
  /\ pc = "count" => Current.columns = 0

(* Only a query that was issued can have failed. *)
BrokenOK == \A q \in broken : receiver[q] # "idle"

CacheInv == StreamInv /\ CacheTypes /\ HandleOK /\ BrokenOK /\ PendingOnlyIfCutShort

-----------------------------------------------------------------------------
(* The streams move as they do without a cache. *)
LEMMA CacheStreams ==
  ASSUME [CacheNext]_allVars
  PROVE  [StreamNext]_streamVars
<1>1. CASE CacheIssue
  BY <1>1 DEF CacheIssue, StreamNext
<1>2. CASE CacheRead
  BY <1>2 DEF CacheRead, StreamNext
<1>3. CASE CacheStart
  BY <1>3 DEF CacheStart, StreamNext, ActorStep
<1>4. CASE CacheStep
  BY <1>4 DEF CacheStep, StreamNext
<1>5. CASE \E b \in Batches : PrepareCall(b)
  BY <1>5 DEF PrepareCall
<1>6. CASE ClearStatementCache
  BY <1>6 DEF ClearStatementCache
<1>7. CASE UNCHANGED allVars
  BY <1>7 DEF allVars
<1>. QED  BY <1>1, <1>2, <1>3, <1>4, <1>5, <1>6, <1>7 DEF CacheNext

-----------------------------------------------------------------------------
(* The entries of the cache. *)
LEMMA HeldOne ==
  ASSUME NEW c \in [Batches -> States], NEW b \in Batches,
         NEW state \in States \ {"absent"}
  PROVE  /\ [c EXCEPT ![b] = state] \in [Batches -> States]
         /\ Held([c EXCEPT ![b] = state]) = Held(c) \cup {b}
BY DEF Held, States

LEMMA HeldLess ==
  ASSUME NEW c \in [Batches -> States], NEW b \in Batches
  PROVE  /\ [c EXCEPT ![b] = "absent"] \in [Batches -> States]
         /\ Held([c EXCEPT ![b] = "absent"]) = Held(c) \ {b}
BY DEF Held, States

(* Inserting keeps the cache within its capacity, and what is pending      *)
(* afterwards was so before or came in pending.                            *)
LEMMA InsertKeeps ==
  ASSUME CacheTypes, NEW b \in Batches, NEW state \in {"clean", "pending"},
         Insert(b, state)
  PROVE  /\ cache' \in [Batches -> States]
         /\ IsFiniteSet(Held(cache')) /\ Cardinality(Held(cache')) <= CacheSize
         /\ Pending' => Pending \/ state = "pending"
<1>. DEFINE full == [cache EXCEPT ![b] = state]
            H == Held(cache)
            others == Held(full) \ {b}
<1>1. /\ cache \in [Batches -> States] /\ IsFiniteSet(H)
      /\ Cardinality(H) <= CacheSize /\ CacheSize \in Nat
  BY CacheAssumption DEF CacheTypes
<1>2. full \in [Batches -> States] /\ Held(full) = H \cup {b}
  <2>1. state \in States \ {"absent"}
    BY DEF States
  <2>. HIDE DEF Held
  <2>. QED  BY <1>1, <2>1, HeldOne
<1>. HIDE DEF H
<1>3. /\ IsFiniteSet(H \cup {b}) /\ Cardinality(H \cup {b}) \in Nat
      /\ Cardinality(H \cup {b}) <= CacheSize + 1
  <2>1. /\ IsFiniteSet(H \cup {b})
        /\ \/ Cardinality(H \cup {b}) = Cardinality(H)
           \/ Cardinality(H \cup {b}) = Cardinality(H) + 1
    BY <1>1, FS_AddElement
  <2>2. Cardinality(H) \in Nat
    BY <1>1, FS_CardinalityType
  <2>. QED  BY <1>1, <2>1, <2>2
<1>4. \A p \in Batches : full[p] = "pending" => cache[p] = "pending" \/ state = "pending"
  BY <1>1
<1>5. CASE cache' = full /\ Cardinality(Held(full)) <= CacheSize
  <2>1. Pending' => Pending \/ state = "pending"
    <3>. HIDE DEF full
    <3>. QED  BY <1>4, <1>5 DEF Pending
  <2>. HIDE DEF full, Held
  <2>. QED  BY <1>2, <1>3, <1>5, <2>1
<1>6. ASSUME NEW victim \in IF others = {} THEN {b} ELSE others,
             cache' = [full EXCEPT ![victim] = "absent"]
      PROVE  /\ cache' \in [Batches -> States]
             /\ IsFiniteSet(Held(cache')) /\ Cardinality(Held(cache')) <= CacheSize
             /\ Pending' => Pending \/ state = "pending"
  <2>1. victim \in H \cup {b} /\ victim \in Batches
    <3>1. victim \in H \cup {b}
      BY <1>2
    <3>2. H \subseteq Batches
      BY DEF H, Held
    <3>. QED  BY <3>1, <3>2
  <2>. HIDE DEF full, others
  <2>2. cache' \in [Batches -> States] /\ Held(cache') = Held(full) \ {victim}
    BY <1>2, <1>6, <2>1, HeldLess
  <2>3. Held(cache') = (H \cup {b}) \ {victim}
    BY <1>2, <2>2
  <2>. DEFINE G == H \cup {b}
  <2>4. IsFiniteSet(G \ {victim}) /\ Cardinality(G \ {victim}) = Cardinality(G) - 1
    <3>1. IsFiniteSet(G) /\ victim \in G
      BY <1>3, <2>1
    <3>. HIDE DEF G
    <3>. QED  BY <3>1, FS_RemoveElement
  <2>5. \A p \in Batches : cache'[p] = "pending" => full[p] = "pending"
    BY <1>2, <1>6
  <2>6. Pending' => Pending \/ state = "pending"
    BY <1>4, <2>5 DEF Pending
  <2>7. IsFiniteSet(Held(cache')) /\ Cardinality(Held(cache')) <= CacheSize
    <3>1. Cardinality(G) \in Nat /\ Cardinality(G) <= CacheSize + 1
      BY <1>3
    <3>2. Held(cache') = G \ {victim}
      BY <2>3
    <3>. HIDE DEF G, Held
    <3>. QED  BY <1>1, <2>4, <3>1, <3>2
  <2>. QED  BY <2>2, <2>6, <2>7
<1>. QED  BY <1>5, <1>6 DEF Insert

-----------------------------------------------------------------------------
(* A query once issued keeps its batch, and a dropped one is never heard. *)
LEMMA IssuedStays ==
  ASSUME StreamInv, [StreamNext]_streamVars, NEW q \in Queries, receiver[q] # "idle"
  PROVE  /\ receiver'[q] # "idle" /\ batch'[q] = batch[q]
         /\ receiver[q] = "dropped" => receiver'[q] = "dropped"
<1>1. /\ batch \in [Queries -> Batches \cup {<<>>}]
      /\ receiver \in [Queries -> {"idle", "open", "ended", "dropped"}]
  BY DEF StreamInv, StreamTypes, StreamTypeOK
<1>2. ASSUME NEW p \in Queries, NEW b \in Batches, NEW m \in {"many", "optional"},
             Issue(p, b, m)
      PROVE  /\ receiver'[q] # "idle" /\ batch'[q] = batch[q]
             /\ receiver[q] = "dropped" => receiver'[q] = "dropped"
  BY <1>1, <1>2 DEF Issue
<1>3. ASSUME NEW p \in Queries, Receive(p) \/ ReceiveEnd(p) \/ Cancel(p)
      PROVE  /\ receiver'[q] # "idle" /\ batch'[q] = batch[q]
             /\ receiver[q] = "dropped" => receiver'[q] = "dropped"
  <2>1. receiver[p] = "open" /\ batch' = batch
    BY <1>3 DEF Receive, ReceiveEnd, Cancel
  <2>2. receiver' = receiver \/ \E how \in {"ended", "dropped"} :
          receiver' = [receiver EXCEPT ![p] = how]
    BY <1>3 DEF Receive, ReceiveEnd, Cancel, Close
  <2>. QED  BY <1>1, <2>1, <2>2
<1>4. CASE ActorStep
  BY <1>4 DEF ActorStep, Start, Inspect, SendCount, Fetch, SendRow, Finish, Advance,
              ForwardError, Raise, clientVars
<1>5. CASE UNCHANGED streamVars
  BY <1>5 DEF streamVars, clientVars
<1>. QED  BY <1>2, <1>3, <1>4, <1>5 DEF StreamNext, Read

(* A query that was cut short remains so. *)
LEMMA CutShortStays ==
  ASSUME StreamInv, [StreamNext]_streamVars, broken \subseteq broken',
         NEW q \in Queries, CutShort(q)
  PROVE  CutShort(q)'
<1>1. CASE q \in broken
  BY <1>1 DEF CutShort
<1>2. CASE q \notin broken
  <2>1. receiver'[q] = "dropped" /\ batch'[q] = batch[q]
    BY <1>2, IssuedStays DEF CutShort
  <2>. QED  BY <1>2, <2>1 DEF CutShort
<1>. QED  BY <1>1, <1>2

(* A handler that leaves results pending failed outside a cursor, or its    *)
(* query was dropped before a row count that is not the last result.       *)
LEMMA LeavesPending ==
  ASSUME StreamInv, HandleOK, ActorStep, ~Start, pc' = "idle", "pending" \in Leaves,
         broken \subseteq broken'
  PROVE  CutShort(at)' /\ at' = at
<1>1. pc # "idle"
  BY DEF ActorStep, Inspect, SendCount, Fetch, SendRow, Finish, Advance, ForwardError
<1>2. at \in Queries /\ batch[at] \in Batches /\ result \in 1..Len(batch[at])
  BY <1>1, WalkFacts
<1>3. at' = at /\ batch' = batch /\ receiver' = receiver
  BY DEF ActorStep, Inspect, SendCount, Fetch, SendRow, Finish, Advance,
         ForwardError, Raise, walkVars, clientVars
<1>4. CASE pc = "fail"
  <2>1. at \in broken
    BY <1>4 DEF Leaves
  <2>. QED  BY <1>3, <2>1 DEF CutShort
<1>5. CASE pc # "fail"
  <2>1. pc # "send" /\ result # Len(batch[at])
    BY <1>5 DEF Leaves
  <2>2. pc = "count" /\ Unheard
    BY <1>1, <1>5, <2>1
       DEF ActorStep, Inspect, SendCount, Fetch, SendRow, Finish, Advance,
           ForwardError, Raise, Goto, Return
  <2>3. batch[at][result].columns = 0
    BY <2>2 DEF HandleOK, Current
  <2>4. result < Len(batch[at])
    <3>1. Len(batch[at]) \in Nat
      BY <1>2, StreamAssumption
    <3>. QED  BY <1>2, <2>1, <3>1
  <2>5. receiver[at] = "dropped"
    BY <2>2 DEF Unheard
  <2>. QED  BY <1>2, <1>3, <2>3, <2>4, <2>5 DEF CutShort
<1>. QED  BY <1>4, <1>5

-----------------------------------------------------------------------------
LEMMA CacheInitInv == CacheInit => CacheInv
<1>. SUFFICES ASSUME CacheInit  PROVE CacheInv
  OBVIOUS
<1>1. StreamInv
  BY StreamInitInv DEF CacheInit
<1>2. CacheTypes
  <2>1. Held(cache) = {}
    BY DEF Held, CacheInit
  <2>2. IsFiniteSet({}) /\ Cardinality({}) = 0
    BY FS_EmptySet
  <2>3. IsFiniteSet(Held(cache)) /\ Cardinality(Held(cache)) <= CacheSize
    BY <2>1, <2>2, CacheAssumption
  <2>. QED  BY <2>3 DEF CacheTypes, CacheInit, States
<1>3. HandleOK
  BY DEF HandleOK, CacheInit, StreamInit
<1>4. BrokenOK
  BY DEF BrokenOK, CacheInit
<1>5. PendingOnlyIfCutShort
  BY DEF PendingOnlyIfCutShort, Pending, CacheInit
<1>. QED  BY <1>1, <1>2, <1>3, <1>4, <1>5 DEF CacheInv

LEMMA BrokenKept ==
  ASSUME StreamInv, broken \subseteq Queries, BrokenOK, [StreamNext]_streamVars,
         broken' = broken
  PROVE  BrokenOK'
BY IssuedStays DEF BrokenOK

(* What was cut short explains what is pending, as long as nothing new is. *)
LEMMA CutKept ==
  ASSUME StreamInv, PendingOnlyIfCutShort, [StreamNext]_streamVars,
         broken \subseteq broken',
         \A q \in Queries : CutShort(q) /\ prepared[q] => prepared'[q],
         Pending' \/ refused' # {} => Pending \/ refused # {}
  PROVE  PendingOnlyIfCutShort'
BY CutShortStays DEF PendingOnlyIfCutShort

LEMMA CacheIssueKeeps ==
  ASSUME CacheInv, CacheIssue
  PROVE  CacheInv'
<1>1. PICK q \in Queries, b \in Batches, m \in {"many", "optional"} :
        /\ Issue(q, b, m)
        /\ \E p \in BOOLEAN : prepared' = [prepared EXCEPT ![q] = p]
  BY DEF CacheIssue
<1>2. UNCHANGED <<handle, cache, refused, broken, pc, at, result>> /\ receiver[q] = "idle"
  BY <1>1 DEF CacheIssue, Issue, walkVars
<1>3. StreamInv' /\ [StreamNext]_streamVars
  BY <1>1, IssueKeeps DEF CacheInv, StreamNext
<1>4. /\ prepared' \in [Queries -> BOOLEAN]
      /\ \A p \in Queries \ {q} : prepared'[p] = prepared[p]
  BY <1>1 DEF CacheInv, CacheTypes
<1>5. CacheTypes'
  BY <1>2, <1>4 DEF CacheInv, CacheTypes, Held
<1>6. HandleOK'
  <2>1. CASE pc = "idle"
    BY <1>2, <2>1 DEF CacheInv, HandleOK
  <2>2. CASE pc # "idle"
    <3>1. at \in Queries /\ receiver[at] # "idle"
      BY <2>2, WalkFacts DEF CacheInv
    <3>2. at # q
      BY <1>2, <3>1
    <3>3. batch'[at] = batch[at]
      BY <1>1, <3>1, <3>2 DEF Issue, CacheInv, StreamInv, StreamTypes, StreamTypeOK
    <3>. QED  BY <1>2, <1>4, <2>2, <3>1, <3>2, <3>3 DEF CacheInv, HandleOK, Current
  <2>. QED  BY <2>1, <2>2
<1>7. PendingOnlyIfCutShort'
  <2>1. ~CutShort(q)
    BY <1>2 DEF CutShort, CacheInv, BrokenOK
  <2>2. \A p \in Queries : CutShort(p) /\ prepared[p] => prepared'[p]
    BY <1>4, <2>1
  <2>3. Pending' \/ refused' # {} => Pending \/ refused # {}
    BY <1>2 DEF Pending
  <2>. QED  BY <1>2, <1>3, <2>2, <2>3, CutKept DEF CacheInv
<1>8. BrokenOK'
  BY <1>2, <1>3, BrokenKept DEF CacheInv, CacheTypes
<1>. QED  BY <1>3, <1>5, <1>6, <1>7, <1>8 DEF CacheInv

LEMMA CacheReadKeeps ==
  ASSUME CacheInv, CacheRead
  PROVE  CacheInv'
<1>1. StreamInv' /\ [StreamNext]_streamVars
  BY StreamStepKeeps DEF CacheInv, CacheRead, StreamNext
<1>2. UNCHANGED <<prepared, handle, cache, refused, broken, pc, at, result, batch>>
  BY DEF CacheRead, Read, Receive, ReceiveEnd, Cancel, cacheVars, walkVars
<1>3. CacheTypes' /\ HandleOK'
  BY <1>2 DEF CacheInv, CacheTypes, HandleOK, Held, Current
<1>4. PendingOnlyIfCutShort'
  <2>1. Pending' \/ refused' # {} => Pending \/ refused # {}
    BY <1>2 DEF Pending
  <2>. QED  BY <1>1, <1>2, <2>1, CutKept DEF CacheInv
<1>5. BrokenOK'
  BY <1>1, <1>2, BrokenKept DEF CacheInv, CacheTypes
<1>. QED  BY <1>1, <1>3, <1>4, <1>5 DEF CacheInv

LEMMA CacheStartKeeps ==
  ASSUME CacheInv, CacheStart
  PROVE  CacheInv'
<1>1. StreamInv' /\ [StreamNext]_streamVars
  BY StreamStepKeeps DEF CacheInv, CacheStart, StreamNext, ActorStep
<1>2. /\ prepared' = prepared /\ cache' = cache /\ batch' = batch /\ broken' = broken
      /\ pc' \in {"inspect", "fail"}
      /\ handle' \in {"none", "once", "cached", "new"}
      /\ handle' \in {"cached", "new"} => prepared[at']
      /\ handle' = "cached" => cache[batch[at']] # "absent"
      /\ refused' \subseteq refused \cup {at'}
      /\ refused' # {} => Pending \/ refused # {}
  <2>1. batch' = batch /\ pc' \in {"inspect", "fail"}
    BY DEF CacheStart, Start, clientVars
  <2>. DEFINE b == batch[at']
              own == prepared[at'] /\ cache[b] # "absent"
              blocked == \E c \in Batches : cache[c] = "pending" /\ ~(own /\ c = b)
  <2>2. /\ prepared' = prepared /\ cache' = cache /\ broken' = broken
        /\ handle' = IF pc' = "fail" THEN "none"
                     ELSE IF ~prepared[at'] THEN "once"
                     ELSE IF own THEN "cached"
                     ELSE "new"
        /\ refused' = IF blocked THEN refused \cup {at'} ELSE refused
    BY DEF CacheStart
  <2>3. blocked => Pending
    BY DEF Pending
  <2>4. /\ refused' \subseteq refused \cup {at'}
        /\ refused' # {} => Pending \/ refused # {}
    <3>. HIDE DEF blocked
    <3>. QED  BY <2>2, <2>3
  <2>. HIDE DEF blocked
  <2>. QED  BY <2>1, <2>2, <2>4
<1>3. at' \in Queries
  <2>1. pc' # "idle" => at' \in Queries
    BY <1>1 DEF StreamInv, ActorOK, WalkOK
  <2>. QED  BY <1>2, <2>1
<1>4. CacheTypes'
  <2>1. refused' \subseteq Queries
    BY <1>2, <1>3 DEF CacheInv, CacheTypes
  <2>. QED  BY <1>2, <2>1 DEF CacheInv, CacheTypes, Held
<1>5. HandleOK'
  BY <1>2 DEF HandleOK
<1>6. PendingOnlyIfCutShort'
  <2>1. Pending' \/ refused' # {} => Pending \/ refused # {}
    BY <1>2 DEF Pending
  <2>. QED  BY <1>1, <1>2, <2>1, CutKept DEF CacheInv
<1>7. BrokenOK'
  BY <1>1, <1>2, BrokenKept DEF CacheInv, CacheTypes
<1>. QED  BY <1>1, <1>4, <1>5, <1>6, <1>7 DEF CacheInv

(* The end of a handler, for the cache: what it leaves pending was pending *)
(* before, or belongs to the query it served.                              *)
LEMMA KeepKeeps ==
  ASSUME CacheInv, pc # "idle", Keep
  PROVE  /\ cache' \in [Batches -> States]
         /\ IsFiniteSet(Held(cache')) /\ Cardinality(Held(cache')) <= CacheSize
         /\ Pending' => Pending \/ (prepared[at] /\ "pending" \in Leaves)
<1>1. at \in Queries /\ batch[at] \in Batches
  BY WalkFacts DEF CacheInv
<1>2. /\ cache \in [Batches -> States]
      /\ IsFiniteSet(Held(cache)) /\ Cardinality(Held(cache)) <= CacheSize
  BY DEF CacheInv, CacheTypes
<1>3. Leaves \subseteq {"clean", "pending"}
  BY DEF Leaves
<1>4. ASSUME handle = "cached", NEW left \in Leaves,
             cache' = [cache EXCEPT ![batch[at]] = left]
      PROVE  /\ cache' \in [Batches -> States]
             /\ IsFiniteSet(Held(cache')) /\ Cardinality(Held(cache')) <= CacheSize
             /\ Pending' => Pending \/ (prepared[at] /\ "pending" \in Leaves)
  <2>1. prepared[at] /\ batch[at] \in Held(cache)
    BY <1>1, <1>4 DEF CacheInv, HandleOK, Held
  <2>2. left \in States \ {"absent"}
    BY <1>3 DEF States
  <2>3. cache' \in [Batches -> States] /\ Held(cache') = Held(cache) \cup {batch[at]}
    <3>. HIDE DEF Held
    <3>. QED  BY <1>1, <1>2, <1>4, <2>2, HeldOne
  <2>4. Held(cache') = Held(cache)
    BY <2>1, <2>3
  <2>5. Pending' => Pending \/ left = "pending"
    BY <1>1, <1>2, <1>4 DEF Pending
  <2>. QED  BY <1>2, <2>1, <2>3, <2>4, <2>5
<1>5. ASSUME handle = "new", NEW left \in Leaves, Insert(batch[at], left)
      PROVE  /\ cache' \in [Batches -> States]
             /\ IsFiniteSet(Held(cache')) /\ Cardinality(Held(cache')) <= CacheSize
             /\ Pending' => Pending \/ (prepared[at] /\ "pending" \in Leaves)
  <2>1. prepared[at]
    BY <1>5 DEF CacheInv, HandleOK
  <2>2. left \in {"clean", "pending"} /\ CacheTypes
    BY <1>3 DEF CacheInv
  <2>3. /\ cache' \in [Batches -> States]
        /\ IsFiniteSet(Held(cache')) /\ Cardinality(Held(cache')) <= CacheSize
        /\ Pending' => Pending \/ left = "pending"
    BY <1>1, <1>5, <2>2, InsertKeeps
  <2>. QED  BY <2>1, <2>3
<1>6. CASE UNCHANGED cache
  BY <1>2, <1>6 DEF Pending, Held
<1>. QED  BY <1>4, <1>5, <1>6 DEF Keep

LEMMA CacheStepKeeps ==
  ASSUME CacheInv, CacheStep
  PROVE  CacheInv'
<1>1. /\ StreamInv' /\ [StreamNext]_streamVars
      /\ ActorStep /\ ~Start /\ pc # "idle"
      /\ prepared' = prepared /\ refused' = refused
      /\ broken' = broken \/ broken' = broken \cup {at}
  <2>1. /\ ActorStep /\ ~Start /\ prepared' = prepared /\ refused' = refused
        /\ broken' = broken \/ broken' = broken \cup {at}
    BY DEF CacheStep, Break
  <2>2. pc # "idle"
    BY <2>1 DEF ActorStep, Inspect, SendCount, Fetch, SendRow, Finish, Advance,
                ForwardError
  <2>3. StreamInv' /\ [StreamNext]_streamVars
    BY <2>1, StreamStepKeeps DEF CacheInv, StreamNext
  <2>. QED  BY <2>1, <2>2, <2>3
<1>2. batch' = batch /\ at' = at
  BY <1>1 DEF ActorStep, Inspect, SendCount, Fetch, SendRow, Finish, Advance,
              ForwardError, Raise, clientVars, walkVars
<1>5. BrokenOK' /\ broken' \subseteq Queries
  <2>1. at \in Queries /\ receiver[at] # "idle"
    BY <1>1, WalkFacts DEF CacheInv
  <2>2. broken' \subseteq Queries
    BY <1>1, <2>1 DEF CacheInv, CacheTypes
  <2>3. ASSUME NEW q \in broken'  PROVE receiver'[q] # "idle"
    <3>1. q \in Queries /\ receiver[q] # "idle"
      BY <1>1, <2>1, <2>2, <2>3 DEF CacheInv, BrokenOK
    <3>. QED  BY <1>1, <3>1, IssuedStays DEF CacheInv
  <2>. QED  BY <2>2, <2>3 DEF BrokenOK
<1>3. CASE pc' # "idle"
  <2>1. UNCHANGED <<cache, handle>>
    BY <1>3 DEF CacheStep
  <2>2. CacheTypes'
    BY <1>1, <1>5, <2>1 DEF CacheInv, CacheTypes, Held
  <2>4. HandleOK'
    <3>1. pc' = "count" => Current'.columns = 0
      <4>1. SUFFICES ASSUME pc' = "count"  PROVE Current.columns = 0 /\ result' = result
        BY <1>2 DEF Current
      <4>. QED  BY <1>1, <4>1
             DEF ActorStep, Inspect, SendCount, Fetch, SendRow, Finish, Advance,
                 ForwardError, Raise, Goto, Return, walkVars
    <3>. QED  BY <1>1, <1>2, <1>3, <2>1, <3>1 DEF CacheInv, HandleOK
  <2>3. PendingOnlyIfCutShort'
    <3>1. Pending' \/ refused' # {} => Pending \/ refused # {}
      BY <1>1, <2>1 DEF Pending
    <3>. QED  BY <1>1, <3>1, CutKept DEF CacheInv
  <2>. QED  BY <1>1, <1>5, <2>2, <2>3, <2>4 DEF CacheInv
<1>4. CASE pc' = "idle"
  <2>1. Keep /\ handle' = "none"
    BY <1>4 DEF CacheStep
  <2>2. /\ cache' \in [Batches -> States]
        /\ IsFiniteSet(Held(cache')) /\ Cardinality(Held(cache')) <= CacheSize
        /\ Pending' => Pending \/ (prepared[at] /\ "pending" \in Leaves)
    BY <1>1, <2>1, KeepKeeps
  <2>3. CacheTypes'
    BY <1>1, <1>5, <2>1, <2>2 DEF CacheInv, CacheTypes
  <2>4. HandleOK'
    BY <1>4, <2>1 DEF HandleOK
  <2>5. PendingOnlyIfCutShort'
    <3>1. CASE prepared[at] /\ "pending" \in Leaves
      <4>1. CutShort(at)'
        BY <1>1, <1>4, <3>1, LeavesPending DEF CacheInv
      <4>2. at' \in Queries /\ prepared'[at']
        <5>1. at \in Queries
          BY <1>1, WalkFacts DEF CacheInv
        <5>. QED  BY <1>1, <1>2, <3>1, <5>1
      <4>. QED  BY <4>1, <4>2 DEF PendingOnlyIfCutShort, CutShort
    <3>2. CASE ~(prepared[at] /\ "pending" \in Leaves)
      <4>1. Pending' \/ refused' # {} => Pending \/ refused # {}
        BY <1>1, <2>2, <3>2
      <4>. QED  BY <1>1, <4>1, CutKept DEF CacheInv
    <3>. QED  BY <3>1, <3>2
  <2>. QED  BY <1>1, <1>5, <2>3, <2>4, <2>5 DEF CacheInv
<1>. QED  BY <1>3, <1>4

LEMMA CacheCallKeeps ==
  ASSUME CacheInv, (\E b \in Batches : PrepareCall(b)) \/ ClearStatementCache
  PROVE  CacheInv'
<1>1. /\ UNCHANGED <<streamVars, prepared, handle, refused, broken>>
      /\ pc = "idle" /\ handle = "none"
  BY DEF PrepareCall, ClearStatementCache, AtRest, CacheInv, HandleOK
<1>2. StreamInv' /\ [StreamNext]_streamVars
  BY <1>1, StreamStepKeeps DEF CacheInv
<1>3. /\ cache' \in [Batches -> States]
      /\ IsFiniteSet(Held(cache')) /\ Cardinality(Held(cache')) <= CacheSize
      /\ Pending' => Pending
  <2>1. ASSUME NEW b \in Batches, PrepareCall(b)
        PROVE  /\ cache' \in [Batches -> States]
               /\ IsFiniteSet(Held(cache')) /\ Cardinality(Held(cache')) <= CacheSize
               /\ Pending' => Pending
    <3>1. Insert(b, "clean") /\ "clean" \in {"clean", "pending"} /\ CacheTypes
      BY <2>1 DEF PrepareCall, CacheInv
    <3>2. Pending' => Pending \/ "clean" = "pending"
      BY <3>1, InsertKeeps
    <3>. QED  BY <3>1, <3>2, InsertKeeps
  <2>2. CASE ClearStatementCache
    <3>1. cache' = [b \in Batches |-> "absent"]
      BY <2>2 DEF ClearStatementCache
    <3>2. Held(cache') = {} /\ ~Pending' /\ cache' \in [Batches -> States]
      BY <3>1 DEF Held, Pending, States
    <3>3. IsFiniteSet({}) /\ Cardinality({}) = 0
      BY FS_EmptySet
    <3>. QED  BY <3>2, <3>3, CacheAssumption
  <2>. QED  BY <2>1, <2>2
<1>4. CacheTypes'
  BY <1>1, <1>3 DEF CacheInv, CacheTypes
<1>5. HandleOK'
  BY <1>1 DEF HandleOK, streamVars
<1>6. PendingOnlyIfCutShort'
  BY <1>1, <1>2, <1>3, CutKept DEF CacheInv
<1>7. BrokenOK'
  BY <1>1, <1>2, BrokenKept DEF CacheInv, CacheTypes
<1>. QED  BY <1>2, <1>4, <1>5, <1>6, <1>7 DEF CacheInv

(* The invariant holds in every reachable state.                           *)
THEOREM CacheInvariant == CacheSpec => []CacheInv
<1>1. CacheInit => CacheInv
  BY CacheInitInv
<1>2. CacheInv /\ [CacheNext]_allVars => CacheInv'
  <2>. SUFFICES ASSUME CacheInv, [CacheNext]_allVars  PROVE CacheInv'
    OBVIOUS
  <2>1. CASE UNCHANGED allVars
    <3>1. StreamInv'
      BY <2>1, StreamStepKeeps DEF CacheInv, allVars
    <3>2. CacheTypes' /\ HandleOK'
      BY <2>1 DEF CacheInv, CacheTypes, HandleOK, Held, allVars, cacheVars,
                  streamVars, clientVars, walkVars, Current
    <3>3. PendingOnlyIfCutShort'
      BY <2>1, CutKept DEF CacheInv, Pending, allVars, cacheVars
    <3>4. BrokenOK'
      BY <2>1 DEF CacheInv, BrokenOK, allVars, cacheVars, streamVars, clientVars
    <3>. QED  BY <3>1, <3>2, <3>3, <3>4 DEF CacheInv
  <2>. QED  BY <2>1, CacheIssueKeeps, CacheReadKeeps, CacheStartKeeps,
               CacheStepKeeps, CacheCallKeeps DEF CacheNext
<1>. QED  BY <1>1, <1>2, PTL DEF CacheSpec

(* Every variable keeps its type; in particular the cache never holds more *)
(* statements than its capacity (StatementCache::insert, actor.rs).        *)
THEOREM CacheTypeCorrect == CacheSpec => []CacheTypeOK
<1>1. CacheInv => CacheTypeOK
  BY DEF CacheInv, StreamInv, StreamTypes, CacheTypes, CacheTypeOK, States
<1>. QED  BY <1>1, CacheInvariant, PTL

(* Results stay pending, and queries are refused for it, only after a      *)
(* query on a prepared statement failed between two results or was dropped *)
(* before the row count in front of another result: dropping a stream of   *)
(* rows closes its cursor (helpers.rs:169-195, actor.rs:158-172, 213-219   *)
(* and 231-259).                                                           *)
THEOREM PendingCutShort == CacheSpec => []PendingOnlyIfCutShort
<1>1. CacheInv => PendingOnlyIfCutShort
  BY DEF CacheInv
<1>. QED  BY <1>1, CacheInvariant, PTL
=============================================================================
