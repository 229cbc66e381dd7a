----------------------- MODULE TransactionHandleProofs -----------------------
(***************************************************************************)
(* Proofs about TransactionHandle: the handle's depth, the actor's and the *)
(* client's transactions, and where the client's work is, while commands   *)
(* wait in the channel.                                                    *)
(***************************************************************************)
EXTENDS TransactionHandle, TransactionActorProofs, SequenceTheorems

-----------------------------------------------------------------------------
(* The depths. *)

(* A dropped transaction's rollback is on its way. *)
HasDrop(q) == \E i \in 1..Len(q) : q[i].op = "StartRollback"

DropQueued == HasDrop(queue)

(* The depth the actor has already added or taken away, of which the       *)
(* handle has the reply but has not read it.                               *)
Owed == IF reply # "ok" THEN 0 ELSE IF calling = "Begin" THEN 1 ELSE -1

(* A blocking call is the last command of the channel until it is served,  *)
(* and its caller has not moved on.                                        *)
CallOK ==
  /\ calling = "none" => /\ reply = "none"
                         /\ \A i \in 1..Len(queue) : queue[i].op \notin Calls
  /\ calling # "none" /\ reply = "none" =>
       /\ Len(queue) > 0
       /\ queue[Len(queue)].op = calling
       /\ \A i \in 1..(Len(queue) - 1) : queue[i].op \notin Calls
  /\ reply # "none" => queue = <<>>
  /\ calling \in {"Commit", "Rollback"} => handle_depth > 0 /\ open # <<>>
  /\ phase # "live" => calling = "none" /\ open = <<>>
  /\ phase = "exited" => queue = <<>>

(* HandleNeverAhead, between a command and its reply too. *)
AheadOK ==
  IF DropQueued THEN handle_depth = 0
                ELSE handle_depth + Owed <= transaction_depth

(* DepthsAgree, between a command and its reply too. *)
AgreeOK ==
  ~nested_dropped =>
    IF DropQueued THEN open = <<>> /\ handle_depth = 0 /\ transaction_depth <= 1
                  ELSE /\ handle_depth = Len(open)
                       /\ transaction_depth = Len(open) + Owed

DepthInv == HandleTypeOK /\ CallOK /\ AheadOK /\ AgreeOK

-----------------------------------------------------------------------------
(* The work. *)

(* Handle, actor and client count the same transactions. *)
InSync == /\ ~DropQueued
          /\ handle_depth = Len(open)
          /\ transaction_depth = Len(open) + Owed

(* What the k-th transaction the actor counts began with, and the present. *)
Before == Views(session, transaction_depth)

Seen == View(session)

(* What the k-th open transaction did is not in the view it began with:    *)
(* rolling it back undoes all of it.                                       *)
Apart == \A k \in 1..Len(open) :
           k <= transaction_depth => open[k] \cap Before[k] = {}

(* What it did was done before the next one began. *)
Done(k) ==
  open[k] \ InFlight \subseteq
    IF k < transaction_depth THEN Before[k + 1] ELSE Seen

(* The commit that failed made its own work the start of a new transaction. *)
ApartOK == ~(calling = "Commit" /\ reply = "err") => Apart

(* A rollback leaves nothing done of its own transaction. *)
DoneOK ==
  \A k \in 1..Len(open) :
    (calling = "Rollback" /\ reply # "none" => k < Len(open) /\ reply = "ok")
      => Done(k)

(* The transaction whose end was answered, as far as it is still apart. *)
EndedOK ==
  /\ calling = "Commit" /\ reply = "ok" /\ Len(open) > 1 =>
       open[Len(open)] \cap Before[Len(open) - 1] = {}
  /\ calling = "Rollback" /\ reply = "ok" => open[Len(open)] \cap Seen = {}

WorkOK == InSync => ApartOK /\ DoneOK /\ EndedOK

(* The statements in the channel; none waits twice. *)
Waiting(q) ==
  {w \in Work : \E i \in 1..Len(q) : q[i] = [op |-> "Execute", work |-> w]}

OnceEach(q) ==
  \A i, j \in 1..Len(q) : q[i].op = "Execute" /\ q[j] = q[i] => i = j

(* Only the innermost transaction has work in the channel. *)
FlightOK ==
  /\ OnceEach(queue)
  /\ InFlight \cap Seen = {}
  /\ \A k \in 1..(Len(open) - 1) : open[k] \cap InFlight = {}

(* Work that was issued outside every transaction is served before the     *)
(* next transaction begins, and before any rollback queued after it.       *)
OutsideOK ==
  ~nested_dropped =>
    /\ open # <<>> => kept \cap InFlight = {}
    /\ \A i, j \in 1..Len(queue) :
         /\ i < j
         /\ queue[i].op = "Execute"
         /\ queue[i].work \in kept
         => queue[j].op # "StartRollback"

(* The disconnect forgets the savepoints of a stale nested transaction.    *)
ServingInv == phase # "exited" => ActorInv

WorkInv == /\ DepthInv /\ ServingInv /\ WorkOK /\ FlightOK /\ OutsideOK
           /\ KeptIsDurableAtFirst

-----------------------------------------------------------------------------
(* The dropped work. *)

(* f foretells an actor's depth, now d, before and after each command of   *)
(* the channel q, as far as dropped transactions change it.                *)
Foretells(q, d, f) ==
  /\ f \in [0..Len(q) -> Nat]
  /\ f[0] = d
  /\ \A i \in 1..Len(q) :
       f[i] = IF q[i].op = "StartRollback" /\ f[i - 1] > 0
              THEN f[i - 1] - 1 ELSE f[i - 1]
  /\ \A i, j \in 0..Len(q) : i <= j => f[j] <= f[i]

(* Behind the channel q an actor that counts d transactions counts n or    *)
(* more, and it serves every statement but those of s inside of one.       *)
Reaches(q, d, n, s) ==
  \E f \in [0..Len(q) -> Nat] :
    /\ Foretells(q, d, f)
    /\ n <= f[Len(q)]
    /\ \A i \in 1..Len(q) :
         q[i].op = "Execute" /\ q[i].work \notin s => f[i - 1] >= 1

(* Work that was issued in a transaction reaches the actor while it counts *)
(* one, and it goes on counting as many as the client has open.            *)
DeepOK ==
  /\ Reaches(queue, transaction_depth, Len(open) + Owed, kept)
  /\ calling = "Begin" /\ reply = "err" => transaction_depth = 0

(* Nothing is issued twice. *)
IssuedOnce ==
  /\ kept \cap discarded = {}
  /\ \A k \in 1..Len(open) : open[k] \cap (kept \cup discarded) = {}
  /\ \A j, k \in 1..Len(open) : j # k => open[j] \cap open[k] = {}

(* The outermost commit is answered and its caller has not read the reply: *)
(* the work may be durable and is not yet kept.                            *)
InDoubt == calling = "Commit" /\ reply # "none" /\ Len(open) = 1

OpenNotYetDurable == \A k \in 1..Len(open) : open[k] \cap session.durable = {}

(* What is discarded is not durable, and nothing is about to make it so.   *)
DiscardOK ==
  /\ DiscardedNeverDurable
  /\ InSync /\ phase # "exited" => discarded \cap (Seen \cup InFlight) = {}
  /\ ~InDoubt => OpenNotYetDurable

DiscardInv == WorkInv /\ DeepOK /\ IssuedOnce /\ DiscardOK

-----------------------------------------------------------------------------
(* The channel and the stack of open transactions. *)

(* A command put behind the others. *)
LEMMA Sent ==
  ASSUME NEW q \in Seq(Command), NEW c \in Command
  PROVE  /\ Append(q, c) \in Seq(Command)
         /\ Len(Append(q, c)) = Len(q) + 1
         /\ Append(q, c)[Len(q) + 1] = c
         /\ \A i \in 1..Len(q) : Append(q, c)[i] = q[i]
  OBVIOUS

(* The oldest command taken away. *)
LEMMA Taken ==
  ASSUME NEW q \in Seq(Command), q # <<>>
  PROVE  /\ Head(q) = q[1] /\ Head(q) \in Command
         /\ Len(q) \in Nat /\ Len(q) >= 1
         /\ Tail(q) \in Seq(Command)
         /\ Len(Tail(q)) = Len(q) - 1
         /\ \A i \in 1..(Len(q) - 1) : Tail(q)[i] = q[i + 1]
  OBVIOUS

(* Which of the commands are rollbacks of dropped transactions. *)
LEMMA DropSent ==
  ASSUME NEW q \in Seq(Command), NEW c \in Command
  PROVE  HasDrop(Append(q, c)) <=> (HasDrop(q) \/ c.op = "StartRollback")
<1>. DEFINE l == Append(q, c)
<1>1. /\ Len(l) = Len(q) + 1 /\ Len(q) \in Nat /\ l[Len(q) + 1] = c
      /\ \A i \in 1..Len(q) : l[i] = q[i]
  BY Sent
<1>. HIDE DEF l
<1>2. \A i \in 1..Len(l) : i = Len(q) + 1 \/ i \in 1..Len(q)
  BY <1>1
<1>3. 1..Len(q) \subseteq 1..Len(l) /\ Len(q) + 1 \in 1..Len(l)
  BY <1>1
<1>. QED  BY <1>1, <1>2, <1>3 DEF HasDrop, l

(* Taking the oldest command takes no other rollback with it. *)
LEMMA DropTaken ==
  ASSUME NEW q \in Seq(Command), q # <<>>
  PROVE  HasDrop(q) <=> (HasDrop(Tail(q)) \/ Head(q).op = "StartRollback")
<1>. DEFINE l == Tail(q)
<1>1. /\ Len(q) \in Nat /\ Len(q) >= 1 /\ Len(l) = Len(q) - 1 /\ Head(q) = q[1]
      /\ \A i \in 1..(Len(q) - 1) : l[i] = q[i + 1]
  BY Taken
<1>. HIDE DEF l
<1>2. \A i \in 1..Len(q) : i = 1 \/ (i - 1 \in 1..Len(l) /\ l[i - 1] = q[i])
  BY <1>1
<1>3. \A i \in 1..Len(l) : i + 1 \in 1..Len(q) /\ l[i] = q[i + 1]
  BY <1>1
<1>4. 1 \in 1..Len(q)
  BY <1>1
<1>5. ASSUME HasDrop(q)  PROVE HasDrop(l) \/ Head(q).op = "StartRollback"
  BY <1>1, <1>2, <1>5 DEF HasDrop
<1>6. ASSUME HasDrop(l)  PROVE HasDrop(q)
  BY <1>3, <1>6 DEF HasDrop
<1>7. Head(q).op = "StartRollback" => HasDrop(q)
  BY <1>1, <1>4 DEF HasDrop
<1>. QED  BY <1>5, <1>6, <1>7 DEF l

(* No command, no rollback. *)
LEMMA NoDrop == ~HasDrop(<<>>)
  BY DEF HasDrop

(* The innermost transaction, and those around it. *)
LEMMA Innermost ==
  ASSUME NEW s \in Seq(SUBSET Work), s # <<>>
  PROVE  /\ Len(s) \in Nat \ {0}
         /\ Last(s) = s[Len(s)] /\ Last(s) \in SUBSET Work
         /\ Front(s) \in Seq(SUBSET Work)
         /\ Len(Front(s)) = Len(s) - 1
         /\ \A k \in 1..(Len(s) - 1) : Front(s)[k] = s[k]
<1>1. Len(s) \in Nat \ {0}
  OBVIOUS
<1>2. Last(s) = s[Len(s)] /\ Front(s) = SubSeq(s, 1, Len(s) - 1)
  BY DEF Last, Front
<1>3. s[Len(s)] \in SUBSET Work
  BY <1>1
<1>4. \A i \in 0..Len(s) : /\ SubSeq(s, 1, i) \in Seq(SUBSET Work)
                           /\ Len(SubSeq(s, 1, i)) = i
                           /\ \A j \in 1..i : SubSeq(s, 1, i)[j] = s[j]
  OBVIOUS
<1>5. Len(s) - 1 \in 0..Len(s)
  BY <1>1
<1>. QED  BY <1>1, <1>2, <1>3, <1>4, <1>5

(* A committed nested transaction becomes part of the one around it. *)
Merged(s) == [Front(s) EXCEPT ![Len(s) - 1] = @ \cup Last(s)]

LEMMA MergedIs ==
  ASSUME NEW s \in Seq(SUBSET Work), Len(s) > 1
  PROVE  /\ Merged(s) \in Seq(SUBSET Work)
         /\ Len(Merged(s)) = Len(s) - 1
         /\ \A k \in 1..(Len(s) - 2) : Merged(s)[k] = s[k]
         /\ Merged(s)[Len(s) - 1] = s[Len(s) - 1] \cup s[Len(s)]
<1>. DEFINE f == Front(s)
            n == Len(s)
<1>1. /\ n \in Nat /\ n > 1
      /\ f \in Seq(SUBSET Work) /\ Len(f) = n - 1 /\ Last(s) = s[n]
      /\ \A k \in 1..(n - 1) : f[k] = s[k]
      /\ Last(s) \in SUBSET Work
  BY Innermost
<1>2. Merged(s) = [f EXCEPT ![n - 1] = f[n - 1] \cup s[n]]
  BY <1>1 DEF Merged
<1>. HIDE DEF f, n
<1>3. n - 1 \in 1..Len(f) /\ f[n - 1] \in SUBSET Work
  BY <1>1
<1>4. Merged(s) \in Seq(SUBSET Work) /\ Len(Merged(s)) = n - 1
  BY <1>1, <1>2, <1>3
<1>5. /\ \A k \in 1..(n - 2) : Merged(s)[k] = s[k]
      /\ Merged(s)[n - 1] = s[n - 1] \cup s[n]
  BY <1>1, <1>2, <1>3
<1>. QED  BY <1>4, <1>5 DEF n

(* Commands are what the client sends. *)
LEMMA CommandIs ==
  /\ \A op \in Calls \cup {"StartRollback"} :
       [op |-> op] \in Command /\ [op |-> op].op = op
  /\ \A w \in Work : /\ [op |-> "Execute", work |-> w] \in Command
                     /\ [op |-> "Execute", work |-> w].op = "Execute"
                     /\ [op |-> "Execute", work |-> w].work = w
  /\ \A c \in Command : /\ c.op \in Calls \cup {"StartRollback", "Execute"}
                        /\ c.op = "Execute" =>
                             /\ c.work \in Work
                             /\ c = [op |-> "Execute", work |-> c.work]
  BY DEF Command, Calls

-----------------------------------------------------------------------------
(* What each handler does to the actor's depth. *)
LEMMA DepthOfBegin ==
  ASSUME transaction_depth \in Nat, NEW r, HandleBegin(r)
  PROVE  transaction_depth' = IF r = "ok" THEN transaction_depth + 1
                                          ELSE transaction_depth
  BY DEF HandleBegin, actorVars

(* Commit closes a level, or fails at the outermost one.                   *)
LEMMA DepthOfCommit ==
  ASSUME transaction_depth \in Nat, NEW r, HandleCommit(r)
  PROVE  /\ r = "ok" => transaction_depth' = IF transaction_depth = 0 THEN 0
                                             ELSE transaction_depth - 1
         /\ r # "ok" => transaction_depth' = transaction_depth /\ transaction_depth = 1
  BY DEF HandleCommit, RestoreAutocommit, actorVars

(* Rollback closes a level, or fails.                                      *)
LEMMA DepthOfRollback ==
  ASSUME transaction_depth \in Nat, NEW r, HandleRollback(r)
  PROVE  transaction_depth' = IF r = "ok" /\ transaction_depth > 0
                              THEN transaction_depth - 1 ELSE transaction_depth
  BY DEF HandleRollback, RestoreAutocommit, actorVars

(* StartRollback closes a level, whatever fails.                           *)
LEMMA DepthOfStartRollback ==
  ASSUME transaction_depth \in Nat, HandleStartRollback
  PROVE  transaction_depth' = IF transaction_depth > 0
                              THEN transaction_depth - 1 ELSE transaction_depth
  BY DEF HandleStartRollback, actorVars

(* A statement does not.                                                   *)
LEMMA DepthOfExecute ==
  ASSUME NEW w, HandleExecute(w)
  PROVE  transaction_depth' = transaction_depth
  BY DEF HandleExecute

-----------------------------------------------------------------------------
(* Types. *)

(* What the handle's own variables may hold. *)
LEMMA TypeFacts ==
  ASSUME HandleTypeOK
  PROVE  /\ transaction_depth \in Nat /\ session \in Session
         /\ handle_depth \in Nat /\ queue \in Seq(Command)
         /\ open \in Seq(SUBSET Work)
         /\ kept \in SUBSET Work /\ discarded \in SUBSET Work
         /\ nested_dropped \in BOOLEAN
         /\ Len(queue) \in Nat /\ Len(open) \in Nat
         /\ open # <<>> => Len(open) >= 1
  BY DEF HandleTypeOK, ActorTypeOK

(* The client hears that a transaction is over. *)
LEMMA ClientTypes ==
  ASSUME HandleTypeOK, open # <<>>
  PROVE  /\ Committed => /\ open' \in Seq(SUBSET Work) /\ kept' \in SUBSET Work
                         /\ discarded' \in SUBSET Work /\ nested_dropped' \in BOOLEAN
         /\ Discarded => /\ open' \in Seq(SUBSET Work) /\ kept' \in SUBSET Work
                         /\ discarded' \in SUBSET Work
         /\ Unknown => /\ open' \in Seq(SUBSET Work) /\ kept' \in SUBSET Work
                       /\ discarded' \in SUBSET Work
<1>1. /\ open \in Seq(SUBSET Work) /\ kept \in SUBSET Work /\ discarded \in SUBSET Work
      /\ nested_dropped \in BOOLEAN /\ Len(open) >= 1 /\ Len(open) \in Nat
  BY TypeFacts
<1>2. Last(open) \in SUBSET Work /\ Front(open) \in Seq(SUBSET Work)
  BY <1>1, Innermost
<1>3. ASSUME Committed
      PROVE  /\ open' \in Seq(SUBSET Work) /\ kept' \in SUBSET Work
             /\ discarded' \in SUBSET Work /\ nested_dropped' \in BOOLEAN
  <2>1. open' = IF Len(open) = 1 THEN <<>> ELSE Merged(open)
    BY <1>3 DEF Committed, Merged
  <2>2. Len(open) > 1 => Merged(open) \in Seq(SUBSET Work)
    BY <1>1, MergedIs
  <2>3. open' \in Seq(SUBSET Work)
    <3>1. CASE Len(open) = 1
      BY <2>1, <3>1
    <3>2. CASE Len(open) # 1
      <4>. DEFINE n == Len(open)
      <4>0. n \in Nat /\ n >= 1 /\ n # 1
        BY <1>1, <3>2
      <4>. HIDE DEF n
      <4>1. n > 1
        BY <4>0
      <4>. QED  BY <2>1, <2>2, <3>2, <4>1 DEF n
    <3>. QED  BY <3>1, <3>2
  <2>4. kept' \in SUBSET Work
    BY <1>1, <1>2, <1>3 DEF Committed
  <2>5. discarded' \in SUBSET Work /\ nested_dropped' \in BOOLEAN
    BY <1>1, <1>3 DEF Committed
  <2>. QED  BY <2>3, <2>4, <2>5
<1>. QED  BY <1>1, <1>2, <1>3 DEF Discarded, Unknown

(* A reply, or a handler that gives none, keeps the types. *)
LEMMA ServeTypes ==
  ASSUME HandleTypeOK, queue # <<>>, queue' = Tail(queue), Handled,
         reply' \in Result \cup {"none"},
         UNCHANGED <<handle_depth, calling, phase, clientVars>>
  PROVE  HandleTypeOK'
<1>1. ActorTypeOK'
  BY TypeStep DEF HandleTypeOK
<1>2. queue' \in Seq(Command)
  BY TypeFacts, Taken
<1>. QED  BY <1>1, <1>2 DEF HandleTypeOK, clientVars

(* Every step keeps the types. *)
LEMMA TypeKept ==
  ASSUME HandleTypeOK, CallOK, [HandleNext]_handleVars
  PROVE  HandleTypeOK'
<1>0. /\ transaction_depth \in Nat /\ session \in Session
      /\ handle_depth \in Nat /\ queue \in Seq(Command)
      /\ open \in Seq(SUBSET Work)
      /\ kept \in SUBSET Work /\ discarded \in SUBSET Work
      /\ nested_dropped \in BOOLEAN
  BY TypeFacts
<1>1. ASSUME NEW op \in Calls, Call(op)  PROVE HandleTypeOK'
  <2>1. queue' \in Seq(Command)
    BY <1>0, <1>1, Sent, CommandIs DEF Call, Send
  <2>. QED  BY <1>0, <1>1, <2>1 DEF Call, HandleTypeOK, ActorTypeOK, actorVars, clientVars
<1>2. ASSUME NEW level, StartRollback(level)
      PROVE  queue' \in Seq(Command) /\ handle_depth' \in Nat /\ nested_dropped' \in BOOLEAN
  BY <1>0, <1>2, Sent, CommandIs DEF StartRollback, NoteLevel, Send
<1>3. CASE BeginCall
  BY <1>1, <1>3 DEF BeginCall, Calls
<1>4. CASE CommitCall
  <2>1. CASE Call("Commit")
    BY <1>1, <2>1 DEF Calls
  <2>2. CASE Committed /\ UNCHANGED <<actorVars, callVars>>
    BY <1>4, <2>2, ClientTypes DEF CommitCall, HandleTypeOK, ActorTypeOK, actorVars, callVars
  <2>. QED  BY <1>4, <2>1, <2>2 DEF CommitCall
<1>5. CASE RollbackCall
  <2>1. CASE Call("Rollback")
    BY <1>1, <2>1 DEF Calls
  <2>2. CASE Discarded /\ UNCHANGED <<nested_dropped, actorVars, callVars>>
    BY <1>5, <2>2, ClientTypes DEF RollbackCall, HandleTypeOK, ActorTypeOK, actorVars, callVars
  <2>. QED  BY <1>5, <2>1, <2>2 DEF RollbackCall
<1>6. CASE DropTransaction
  BY <1>0, <1>2, <1>6, ClientTypes DEF DropTransaction, HandleTypeOK, ActorTypeOK, actorVars
<1>7. ASSUME NEW w \in Work, ExecuteCall(w)  PROVE HandleTypeOK'
  <2>1. queue' \in Seq(Command)
    BY <1>0, <1>7, Sent, CommandIs DEF ExecuteCall, Send
  <2>2. open' \in Seq(SUBSET Work) /\ kept' \in SUBSET Work
    <3>1. CASE open = <<>>
      BY <1>0, <1>7, <3>1 DEF ExecuteCall
    <3>2. CASE open # <<>>
      <4>1. /\ open' = [open EXCEPT ![Len(open)] = open[Len(open)] \cup {w}]
            /\ kept' = kept
        BY <1>7, <3>2 DEF ExecuteCall
      <4>2. Len(open) \in 1..Len(open) /\ open[Len(open)] \in SUBSET Work
        BY <1>0, <3>2
      <4>. QED  BY <1>0, <4>1, <4>2
    <3>. QED  BY <3>1, <3>2
  <2>. QED  BY <1>7, <2>1, <2>2 DEF ExecuteCall, HandleTypeOK, ActorTypeOK, actorVars
<1>8. CASE CloseHandle
  BY <1>0, <1>8 DEF CloseHandle, HandleTypeOK, ActorTypeOK, actorVars, clientVars
<1>9. CASE BeginReturn
  <2>1. /\ calling' = "none" /\ reply' = "none" /\ UNCHANGED <<phase, actorVars>>
    BY <1>9 DEF BeginReturn, Return
  <2>2. /\ queue' \in Seq(Command) /\ handle_depth' \in Nat /\ open' \in Seq(SUBSET Work)
        /\ kept' \in SUBSET Work /\ discarded' \in SUBSET Work
        /\ nested_dropped' \in BOOLEAN
    <3>1. Append(open, {}) \in Seq(SUBSET Work)
      BY <1>0
    <3>. QED  BY <1>0, <1>2, <1>9, <3>1 DEF BeginReturn
  <2>. QED  BY <2>1, <2>2 DEF HandleTypeOK, ActorTypeOK, actorVars
<1>10. CASE CommitReturn
  <2>1. /\ calling' = "none" /\ reply' = "none" /\ UNCHANGED <<phase, actorVars>>
        /\ open # <<>> /\ handle_depth > 0
    BY <1>10 DEF CommitReturn, Return, CallOK
  <2>2. /\ queue' \in Seq(Command) /\ handle_depth' \in Nat /\ open' \in Seq(SUBSET Work)
        /\ kept' \in SUBSET Work /\ discarded' \in SUBSET Work
        /\ nested_dropped' \in BOOLEAN
    BY <1>0, <1>2, <1>10, <2>1, ClientTypes DEF CommitReturn
  <2>. QED  BY <2>1, <2>2 DEF HandleTypeOK, ActorTypeOK, actorVars
<1>11. CASE RollbackReturn
  <2>1. /\ calling' = "none" /\ reply' = "none" /\ UNCHANGED <<phase, actorVars>>
        /\ open # <<>> /\ handle_depth > 0
    BY <1>11 DEF RollbackReturn, Return, CallOK
  <2>2. /\ queue' \in Seq(Command) /\ handle_depth' \in Nat /\ open' \in Seq(SUBSET Work)
        /\ kept' \in SUBSET Work /\ discarded' \in SUBSET Work
        /\ nested_dropped' \in BOOLEAN
    BY <1>0, <1>2, <1>11, <2>1, ClientTypes DEF RollbackReturn
  <2>. QED  BY <2>1, <2>2 DEF HandleTypeOK, ActorTypeOK, actorVars
<1>12. ASSUME ServeBegin \/ ServeCommit \/ ServeRollback \/ ServeStartRollback
              \/ ServeExecute
       PROVE  HandleTypeOK'
  <2>1. /\ queue # <<>> /\ queue' = Tail(queue)
        /\ UNCHANGED <<handle_depth, calling, phase, clientVars>>
    BY <1>12 DEF ServeBegin, ServeCommit, ServeRollback, ServeStartRollback,
                 ServeExecute, Take
  <2>2. reply' \in Result \cup {"none"}
    BY <1>12 DEF ServeBegin, ServeCommit, ServeRollback, ServeStartRollback,
                 ServeExecute, HandleTypeOK
  <2>3. Handled
    <3>1. ASSUME ServeExecute  PROVE Head(queue).work \in Work
      BY <1>0, <2>1, <3>1, Taken, CommandIs DEF ServeExecute, Take
    <3>. QED  BY <1>12, <3>1 DEF ServeBegin, ServeCommit, ServeRollback,
                                 ServeStartRollback, ServeExecute, Handled
  <2>. QED  BY <2>1, <2>2, <2>3, ServeTypes
<1>13. CASE ActorExit
  <2>1. session' \in Session
    BY <1>0, <1>13, EndTranIs DEF ActorExit, Disconnect, IsSession
  <2>. QED  BY <1>0, <1>13, <2>1 DEF ActorExit, HandleTypeOK, ActorTypeOK, clientVars
<1>14. CASE UNCHANGED handleVars
  BY <1>14 DEF handleVars, actorVars, callVars, clientVars, HandleTypeOK, ActorTypeOK
<1>. QED
  BY <1>3, <1>4, <1>5, <1>6, <1>7, <1>8, <1>9, <1>10, <1>11, <1>12, <1>13, <1>14
     DEF HandleNext, Client, Returns, Actor

-----------------------------------------------------------------------------
(* The protocol of calls and replies. *)

(* The channel holds no call of a caller that is still free.               *)
NoCalls(q) == \A i \in 1..Len(q) : q[i].op \notin Calls

(* A call is behind everything else.                                       *)
LastIs(q, op) ==
  /\ Len(q) > 0 /\ q[Len(q)].op = op
  /\ \A i \in 1..(Len(q) - 1) : q[i].op \notin Calls

LEMMA CallOKIs ==
  CallOK <=>
    /\ calling = "none" => reply = "none" /\ NoCalls(queue)
    /\ calling # "none" /\ reply = "none" => LastIs(queue, calling)
    /\ reply # "none" => queue = <<>>
    /\ calling \in {"Commit", "Rollback"} => handle_depth > 0 /\ open # <<>>
    /\ phase # "live" => calling = "none" /\ open = <<>>
    /\ phase = "exited" => queue = <<>>
  BY DEF CallOK, NoCalls, LastIs

(* How the two kinds of channel change. *)
LEMMA CallsSent ==
  ASSUME NEW q \in Seq(Command), NEW c \in Command, NoCalls(q)
  PROVE  /\ c.op \notin Calls => NoCalls(Append(q, c))
         /\ LastIs(Append(q, c), c.op)
<1>1. /\ Len(q) \in Nat /\ Len(Append(q, c)) = Len(q) + 1
      /\ Append(q, c)[Len(q) + 1] = c
      /\ \A i \in 1..Len(q) : Append(q, c)[i] = q[i]
  BY Sent
<1>2. NoCalls(q) => \A i \in 1..Len(q) : Append(q, c)[i].op \notin Calls
  BY <1>1 DEF NoCalls
<1>3. c.op \notin Calls => NoCalls(Append(q, c))
  BY <1>1, <1>2 DEF NoCalls
<1>4. LastIs(Append(q, c), c.op)
  BY <1>1, <1>2 DEF LastIs
<1>. QED  BY <1>3, <1>4

LEMMA CallsTaken ==
  ASSUME NEW q \in Seq(Command), q # <<>>
  PROVE  /\ NoCalls(q) => NoCalls(Tail(q)) /\ Head(q).op \notin Calls
         /\ \A op \in Calls : LastIs(q, op) =>
              IF Head(q).op \in Calls THEN Head(q).op = op /\ Tail(q) = <<>>
                                      ELSE LastIs(Tail(q), op)
<1>1. /\ Head(q) = q[1] /\ Len(q) \in Nat /\ Len(q) >= 1
      /\ Tail(q) \in Seq(Command) /\ Len(Tail(q)) = Len(q) - 1
      /\ \A i \in 1..(Len(q) - 1) : Tail(q)[i] = q[i + 1]
  BY Taken
<1>2. 1 \in 1..Len(q) /\ \A i \in 1..Len(Tail(q)) : i + 1 \in 1..Len(q)
  BY <1>1
<1>3. NoCalls(q) => NoCalls(Tail(q)) /\ Head(q).op \notin Calls
  BY <1>1, <1>2 DEF NoCalls
<1>4. ASSUME NEW op \in Calls, LastIs(q, op), Head(q).op \in Calls
      PROVE  Head(q).op = op /\ Tail(q) = <<>>
  <2>1. ~(1 \in 1..(Len(q) - 1))
    BY <1>1, <1>4 DEF LastIs
  <2>2. Len(q) = 1
    BY <1>1, <2>1
  <2>3. Head(q).op = op
    BY <1>1, <1>4, <2>2 DEF LastIs
  <2>4. Len(Tail(q)) = 0
    BY <1>1, <2>2
  <2>5. Tail(q) = <<>>
    BY <1>1, <2>4, EmptySeq
  <2>. QED  BY <2>3, <2>5
<1>5. ASSUME NEW op \in Calls, LastIs(q, op), Head(q).op \notin Calls
      PROVE  LastIs(Tail(q), op)
  <2>1. Len(q) > 1
    BY <1>1, <1>5 DEF LastIs
  <2>2. Tail(q)[Len(Tail(q))].op = op
    BY <1>1, <1>5, <2>1 DEF LastIs
  <2>3. \A i \in 1..(Len(Tail(q)) - 1) : i + 1 \in 1..(Len(q) - 1) /\ Tail(q)[i] = q[i + 1]
    BY <1>1
  <2>4. \A i \in 1..(Len(Tail(q)) - 1) : Tail(q)[i].op \notin Calls
    BY <1>5, <2>3 DEF LastIs
  <2>. QED  BY <1>1, <2>1, <2>2, <2>4 DEF LastIs
<1>. QED  BY <1>3, <1>4, <1>5

(* The actor takes a call: its caller waits, and nothing is behind it.     *)
LEMMA ServedCall ==
  ASSUME HandleTypeOK, CallOK, NEW op \in Calls, Take(op)
  PROVE  /\ calling = op /\ reply = "none" /\ queue' = <<>>
         /\ ~HasDrop(queue) /\ ~HasDrop(queue')
         /\ \A i \in 1..Len(queue) : queue[i].op # "Execute"
         /\ phase = "live"
         /\ UNCHANGED <<handle_depth, calling, phase, clientVars>>
<1>1. /\ queue \in Seq(Command) /\ queue # <<>> /\ Head(queue).op = op
      /\ queue' = Tail(queue)
      /\ UNCHANGED <<handle_depth, calling, phase, clientVars>>
  BY TypeFacts DEF Take
<1>2. reply = "none"
  BY <1>1 DEF CallOK
<1>3. calling # "none"
  BY <1>1, CallsTaken, CallOKIs
<1>4. calling \in Calls /\ LastIs(queue, calling)
  BY <1>2, <1>3, CallOKIs DEF HandleTypeOK
<1>5. op = calling /\ queue' = <<>>
  BY <1>1, <1>4, CallsTaken
<1>6. op # "StartRollback" /\ op # "Execute"
  BY DEF Calls
<1>7. ~HasDrop(queue) /\ ~HasDrop(queue')
  BY <1>1, <1>5, <1>6, DropTaken, NoDrop
<1>8. /\ Len(queue) \in Nat /\ Len(queue) >= 1 /\ Len(Tail(queue)) = Len(queue) - 1
      /\ Head(queue) = queue[1]
  BY <1>1, Taken
<1>9. \A i \in 1..Len(queue) : i = 1
  <2>1. Tail(queue) = <<>> /\ Len(<<>>) = 0
    BY <1>1, <1>5
  <2>. DEFINE n == Len(queue)
  <2>2. Len(queue) - 1 = 0
    BY <1>8, <2>1
  <2>3. n \in Nat /\ n - 1 = 0
    BY <1>8, <2>2
  <2>. HIDE DEF n
  <2>4. n = 1
    BY <2>3
  <2>. QED  BY <2>4 DEF n
<1>10. \A i \in 1..Len(queue) : queue[i].op # "Execute"
  BY <1>1, <1>6, <1>8, <1>9
<1>11. phase = "live"
  BY <1>3 DEF CallOK
<1>. QED  BY <1>1, <1>2, <1>5, <1>7, <1>10, <1>11

(* The actor takes a command nobody waits for. *)
LEMMA ServedSend ==
  ASSUME HandleTypeOK, CallOK, NEW op, op \notin Calls, Take(op)
  PROVE  /\ reply = "none"
         /\ calling = "none" => NoCalls(queue')
         /\ calling # "none" => LastIs(queue', calling)
         /\ queue \in Seq(Command) /\ queue # <<>> /\ queue' = Tail(queue)
         /\ phase # "exited"
         /\ UNCHANGED <<handle_depth, calling, phase, clientVars>>
<1>1. /\ queue \in Seq(Command) /\ queue # <<>> /\ Head(queue).op = op
      /\ queue' = Tail(queue) /\ phase # "exited"
      /\ UNCHANGED <<handle_depth, calling, phase, clientVars>>
  BY TypeFacts DEF Take
<1>2. reply = "none"
  BY <1>1 DEF CallOK
<1>3. calling = "none" => NoCalls(queue')
  BY <1>1, CallsTaken, CallOKIs
<1>4. ASSUME calling # "none"  PROVE LastIs(queue', calling)
  <2>1. calling \in Calls /\ LastIs(queue, calling)
    BY <1>2, <1>4, CallOKIs DEF HandleTypeOK
  <2>. QED  BY <1>1, <2>1, CallsTaken
<1>. QED  BY <1>1, <1>2, <1>3, <1>4

(* A free caller sends. *)
LEMMA CallStarted ==
  ASSUME HandleTypeOK, CallOK, phase = "live", calling = "none",
         NEW op \in Calls, Call(op),
         op = "Begin" \/ (handle_depth > 0 /\ open # <<>>)
  PROVE  CallOK'
<1>1. queue \in Seq(Command) /\ [op |-> op] \in Command /\ [op |-> op].op = op
  BY TypeFacts, CommandIs
<1>2. /\ queue' = Append(queue, [op |-> op]) /\ calling' = op
      /\ UNCHANGED <<handle_depth, reply, phase, clientVars>>
  BY DEF Call, Send
<1>3. NoCalls(queue) /\ reply = "none"
  BY CallOKIs
<1>4. LastIs(queue', op)
  BY <1>1, <1>2, <1>3, CallsSent
<1>5. op # "none"
  BY DEF Calls
<1>. QED  BY <1>2, <1>3, <1>4, <1>5 DEF CallOK, LastIs, clientVars

LEMMA CallOKSent ==
  ASSUME HandleTypeOK, CallOK, phase = "live", calling = "none",
         NEW c \in Command, c.op \notin Calls, Send(c),
         UNCHANGED <<calling, reply, phase>>
  PROVE  CallOK'
<1>1. NoCalls(queue') /\ reply = "none"
  BY TypeFacts, CallsSent, CallOKIs DEF Send
<1>. QED  BY <1>1 DEF CallOK, NoCalls

(* A caller reads its reply, and may queue a rollback. *)
LEMMA CallReturned ==
  ASSUME HandleTypeOK, CallOK, NEW op \in Calls, Return(op), UNCHANGED phase,
         UNCHANGED queue \/ \E level : StartRollback(level)
  PROVE  CallOK'
<1>1. /\ calling = op /\ reply # "none" /\ calling' = "none" /\ reply' = "none"
      /\ op # "none"
  BY DEF Return, Calls
<1>2. queue = <<>> /\ phase = "live" /\ phase' = "live"
  BY <1>1 DEF CallOK
<1>3. NoCalls(queue)
  BY <1>2 DEF NoCalls
<1>4. NoCalls(queue')
  <2>1. queue \in Seq(Command) /\ [op |-> "StartRollback"] \in Command
        /\ [op |-> "StartRollback"].op \notin Calls
    BY TypeFacts, CommandIs DEF Calls
  <2>. QED  BY <1>3, <2>1, CallsSent DEF StartRollback, Send
<1>. QED  BY <1>1, <1>2, <1>4 DEF CallOK, NoCalls

(* The protocol of calls is kept. *)
LEMMA CallKept ==
  ASSUME HandleTypeOK, CallOK, [HandleNext]_handleVars
  PROVE  CallOK'
<1>0. /\ "Begin" \in Calls /\ "Commit" \in Calls /\ "Rollback" \in Calls
      /\ "StartRollback" \notin Calls /\ "Execute" \notin Calls /\ "none" \notin Calls
  BY DEF Calls
<1>1. CASE BeginCall
  BY <1>0, <1>1, CallStarted DEF BeginCall, CanCall
<1>2. CASE CommitCall
  <2>1. CASE handle_depth > 0 /\ Call("Commit")
    BY <1>0, <1>2, <2>1, CallStarted DEF CommitCall, CanCall
  <2>2. CASE UNCHANGED callVars
    BY <1>2, <2>2 DEF CommitCall, CanCall, callVars, CallOK
  <2>. QED  BY <1>2, <2>1, <2>2 DEF CommitCall
<1>3. CASE RollbackCall
  <2>1. CASE handle_depth > 0 /\ Call("Rollback")
    BY <1>0, <1>3, <2>1, CallStarted DEF RollbackCall, CanCall
  <2>2. CASE UNCHANGED callVars
    BY <1>3, <2>2 DEF RollbackCall, CanCall, callVars, CallOK
  <2>. QED  BY <1>3, <2>1, <2>2 DEF RollbackCall
<1>4. CASE DropTransaction
  BY <1>0, <1>4, CallOKSent, CommandIs DEF DropTransaction, CanCall, StartRollback
<1>5. ASSUME NEW w \in Work, ExecuteCall(w)  PROVE CallOK'
  BY <1>0, <1>5, CallOKSent, CommandIs DEF ExecuteCall, CanCall
<1>6. CASE CloseHandle
  BY <1>6 DEF CloseHandle, CallOK, clientVars
<1>7. CASE BeginReturn
  BY <1>0, <1>7, CallReturned DEF BeginReturn
<1>8. CASE CommitReturn
  BY <1>0, <1>8, CallReturned DEF CommitReturn
<1>9. CASE RollbackReturn
  BY <1>0, <1>9, CallReturned DEF RollbackReturn
<1>10. ASSUME NEW op \in Calls, Take(op), reply' \in Result  PROVE CallOK'
  <2>1. /\ calling = op /\ queue' = <<>> /\ phase = "live"
        /\ UNCHANGED <<handle_depth, calling, phase, clientVars>>
    BY <1>10, ServedCall
  <2>2. reply' # "none"
    BY <1>10 DEF Result
  <2>. QED  BY <1>0, <2>1, <2>2 DEF CallOK, clientVars
<1>11. ASSUME NEW op, op \notin Calls, Take(op), UNCHANGED reply  PROVE CallOK'
  <2>1. /\ reply = "none"
        /\ calling = "none" => NoCalls(queue')
        /\ calling # "none" => LastIs(queue', calling)
        /\ phase # "exited"
        /\ UNCHANGED <<handle_depth, calling, phase, clientVars>>
    BY <1>11, ServedSend
  <2>. QED  BY <1>11, <2>1 DEF CallOK, clientVars, NoCalls, LastIs
<1>12. CASE ServeBegin
  BY <1>0, <1>10, <1>12 DEF ServeBegin
<1>13. CASE ServeCommit
  BY <1>0, <1>10, <1>13 DEF ServeCommit
<1>14. CASE ServeRollback
  BY <1>0, <1>10, <1>14 DEF ServeRollback
<1>15. CASE ServeStartRollback
  BY <1>0, <1>11, <1>15 DEF ServeStartRollback
<1>16. CASE ServeExecute
  BY <1>0, <1>11, <1>16 DEF ServeExecute
<1>17. CASE ActorExit
  BY <1>17 DEF ActorExit, CallOK, clientVars
<1>18. CASE UNCHANGED handleVars
  BY <1>18 DEF handleVars, callVars, clientVars, CallOK
<1>. QED
  BY <1>1, <1>2, <1>3, <1>4, <1>5, <1>6, <1>7, <1>8, <1>9, <1>12, <1>13, <1>14,
     <1>15, <1>16, <1>17, <1>18 DEF HandleNext, Client, Returns, Actor

-----------------------------------------------------------------------------
(* The depths. *)

(* HandleNeverAhead through each kind of step.                             *)
LEMMA AheadKept ==
  ASSUME HandleTypeOK, CallOK, AheadOK, [HandleNext]_handleVars
  PROVE  AheadOK'
<1>0. /\ transaction_depth \in Nat /\ handle_depth \in Nat
      /\ queue \in Seq(Command)
      /\ "Begin" \in Calls /\ "Commit" \in Calls /\ "Rollback" \in Calls
      /\ "StartRollback" \notin Calls /\ "Execute" \notin Calls
  BY TypeFacts DEF Calls
<1>1. AheadOK <=> IF HasDrop(queue) THEN handle_depth = 0
                  ELSE handle_depth + Owed <= transaction_depth
  BY DEF AheadOK, DropQueued
<1>2. ASSUME HasDrop(queue'), handle_depth' = 0  PROVE AheadOK'
  BY <1>2 DEF AheadOK, DropQueued
<1>3. ASSUME ~HasDrop(queue'), handle_depth' + Owed' <= transaction_depth'
      PROVE  AheadOK'
  BY <1>3 DEF AheadOK, DropQueued
<1>4. ASSUME calling = "none", UNCHANGED <<transaction_depth, handle_depth, reply>>,
             HasDrop(queue') = HasDrop(queue)
      PROVE  AheadOK'
  <2>1. reply = "none" /\ Owed = 0 /\ Owed' = 0
    BY <1>4 DEF CallOK, Owed
  <2>. QED  BY <1>0, <1>1, <1>2, <1>3, <1>4, <2>1
<1>5. ASSUME NEW c \in Command, c.op # "StartRollback", Send(c)
      PROVE  HasDrop(queue') = HasDrop(queue)
  <2>1. HasDrop(queue') \in BOOLEAN /\ HasDrop(queue) \in BOOLEAN
    BY DEF HasDrop
  <2>2. HasDrop(queue') <=> HasDrop(queue)
    BY <1>0, <1>5, DropSent DEF Send
  <2>. QED  BY <2>1, <2>2
<1>6. ASSUME NEW level, StartRollback(level)  PROVE AheadOK'
  <2>1. handle_depth' = 0 /\ HasDrop(queue')
    BY <1>0, <1>6, DropSent, CommandIs DEF StartRollback, Send
  <2>. QED  BY <1>2, <2>1
<1>7. ASSUME NEW op \in Calls, calling = "none", Call(op)  PROVE AheadOK'
  <2>1. [op |-> op] \in Command /\ [op |-> op].op = op /\ op # "StartRollback"
    BY <1>0, CommandIs
  <2>2. Send([op |-> op]) /\ UNCHANGED <<transaction_depth, handle_depth, reply>>
    BY <1>7 DEF Call, actorVars
  <2>. QED  BY <1>4, <1>5, <1>7, <2>1, <2>2
<1>8. ASSUME calling = "none", UNCHANGED <<transaction_depth, handle_depth, reply, queue>>
      PROVE  AheadOK'
  BY <1>4, <1>8
<1>9. CASE BeginCall
  BY <1>0, <1>7, <1>9 DEF BeginCall, CanCall
<1>10. CASE CommitCall
  BY <1>0, <1>7, <1>8, <1>10 DEF CommitCall, CanCall, actorVars, callVars
<1>11. CASE RollbackCall
  BY <1>0, <1>7, <1>8, <1>11 DEF RollbackCall, CanCall, actorVars, callVars
<1>12. CASE DropTransaction
  BY <1>6, <1>12 DEF DropTransaction
<1>13. ASSUME NEW w \in Work, ExecuteCall(w)  PROVE AheadOK'
  <2>1. /\ calling = "none" /\ UNCHANGED <<transaction_depth, handle_depth, reply>>
        /\ Send([op |-> "Execute", work |-> w])
    BY <1>13 DEF ExecuteCall, CanCall, actorVars
  <2>2. HasDrop(queue') = HasDrop(queue)
    BY <1>5, <2>1, CommandIs
  <2>. QED  BY <1>4, <2>1, <2>2
<1>14. CASE CloseHandle
  BY <1>8, <1>14 DEF CloseHandle, actorVars
<1>15. ASSUME NEW op \in Calls, Return(op), UNCHANGED <<actorVars, queue>>
       PROVE  /\ ~HasDrop(queue) /\ ~HasDrop(queue') /\ Owed' = 0
              /\ handle_depth + Owed <= transaction_depth'
              /\ Owed = IF reply # "ok" THEN 0 ELSE IF op = "Begin" THEN 1 ELSE -1
  <2>1. calling = op /\ reply # "none" /\ reply' = "none" /\ queue = <<>>
    BY <1>15 DEF Return, CallOK
  <2>2. ~HasDrop(queue) /\ ~HasDrop(queue')
    BY <1>15, <2>1, NoDrop
  <2>. QED  BY <1>1, <1>15, <2>1, <2>2 DEF Owed, actorVars
<1>16. CASE BeginReturn
  <2>1. CASE \E level : StartRollback(level)
    BY <1>6, <2>1
  <2>2. CASE reply = "ok" /\ handle_depth' = handle_depth + 1 /\ UNCHANGED queue
    <3>1. Return("Begin") /\ UNCHANGED actorVars
      BY <1>16 DEF BeginReturn
    <3>2. handle_depth + 1 <= transaction_depth' /\ Owed' = 0 /\ ~HasDrop(queue')
      BY <1>0, <1>15, <2>2, <3>1
    <3>. QED  BY <1>0, <1>3, <2>2, <3>2
  <2>3. CASE reply = "err" /\ UNCHANGED <<queue, handle_depth>>
    <3>1. Return("Begin") /\ UNCHANGED actorVars
      BY <1>16 DEF BeginReturn
    <3>2. handle_depth + 0 <= transaction_depth' /\ Owed' = 0 /\ ~HasDrop(queue')
      BY <1>0, <1>15, <2>3, <3>1
    <3>. QED  BY <1>0, <1>3, <2>3, <3>2
  <2>. QED  BY <1>16, <2>1, <2>2, <2>3 DEF BeginReturn
<1>17. ASSUME NEW op \in {"Commit", "Rollback"}, Return(op), reply = "ok",
              handle_depth' = handle_depth - 1, UNCHANGED <<actorVars, queue>>
       PROVE  AheadOK'
  <2>1. handle_depth + (-1) <= transaction_depth' /\ Owed' = 0 /\ ~HasDrop(queue')
    BY <1>0, <1>15, <1>17
  <2>. QED  BY <1>0, <1>3, <1>17, <2>1
<1>18. CASE CommitReturn
  BY <1>6, <1>17, <1>18 DEF CommitReturn
<1>19. CASE RollbackReturn
  BY <1>6, <1>17, <1>19 DEF RollbackReturn
<1>20. ASSUME NEW op \in Calls, Take(op)
       PROVE  /\ ~HasDrop(queue) /\ ~HasDrop(queue')
              /\ handle_depth <= transaction_depth
              /\ op # "Begin" => handle_depth > 0
              /\ Owed' = IF reply' # "ok" THEN 0 ELSE IF op = "Begin" THEN 1 ELSE -1
              /\ handle_depth' = handle_depth
  <2>1. /\ calling = op /\ reply = "none" /\ ~HasDrop(queue) /\ ~HasDrop(queue')
        /\ UNCHANGED <<handle_depth, calling>>
    BY <1>20, ServedCall
  <2>2. handle_depth + 0 <= transaction_depth
    BY <1>1, <2>1 DEF Owed
  <2>3. op # "Begin" => handle_depth > 0
    BY <1>20, <2>1 DEF CallOK, Calls
  <2>. QED  BY <1>0, <2>1, <2>2, <2>3 DEF Owed
<1>21. CASE ServeBegin
  <2>1. PICK r \in Result : HandleBegin(r) /\ reply' = r
    BY <1>21 DEF ServeBegin
  <2>2. transaction_depth' = IF r = "ok" THEN transaction_depth + 1 ELSE transaction_depth
    BY <1>0, <2>1, DepthOfBegin
  <2>3. /\ ~HasDrop(queue') /\ handle_depth <= transaction_depth
        /\ handle_depth' = handle_depth
        /\ Owed' = IF r # "ok" THEN 0 ELSE 1
    BY <1>0, <1>20, <1>21, <2>1 DEF ServeBegin
  <2>. QED  BY <1>0, <1>3, <2>2, <2>3
<1>22. ASSUME NEW op \in {"Commit", "Rollback"}, Take(op), NEW r \in Result, reply' = r,
              r = "ok" /\ transaction_depth > 0 => transaction_depth' = transaction_depth - 1,
              r # "ok" => transaction_depth' = transaction_depth
       PROVE  AheadOK'
  <2>1. /\ ~HasDrop(queue') /\ handle_depth <= transaction_depth
        /\ handle_depth' = handle_depth /\ handle_depth > 0
        /\ Owed' = IF r # "ok" THEN 0 ELSE -1
    BY <1>0, <1>20, <1>22
  <2>. QED  BY <1>0, <1>3, <1>22, <2>1
<1>23. CASE ServeCommit
  <2>1. PICK r \in Result : HandleCommit(r) /\ reply' = r
    BY <1>23 DEF ServeCommit
  <2>. QED  BY <1>0, <1>22, <1>23, <2>1, DepthOfCommit DEF ServeCommit
<1>24. CASE ServeRollback
  <2>1. PICK r \in Result : HandleRollback(r) /\ reply' = r
    BY <1>24 DEF ServeRollback
  <2>. QED  BY <1>0, <1>22, <1>24, <2>1, DepthOfRollback DEF ServeRollback
<1>25. CASE ServeStartRollback
  <2>1. Take("StartRollback") /\ HandleStartRollback /\ UNCHANGED reply
    BY <1>25 DEF ServeStartRollback
  <2>2. /\ reply = "none" /\ queue # <<>> /\ queue' = Tail(queue)
        /\ Head(queue).op = "StartRollback" /\ UNCHANGED handle_depth
    BY <1>0, <2>1, ServedSend DEF Take
  <2>3. HasDrop(queue)
    BY <1>0, <2>2, DropTaken
  <2>4. handle_depth' = 0 /\ Owed' = 0
    BY <1>1, <2>1, <2>2, <2>3 DEF Owed
  <2>5. transaction_depth' \in Nat
    BY <1>0, <2>1, DepthOfStartRollback
  <2>. QED  BY <1>2, <1>3, <2>4, <2>5
<1>26. CASE ServeExecute
  <2>1. Take("Execute") /\ UNCHANGED <<transaction_depth, reply>>
    BY <1>26, DepthOfExecute DEF ServeExecute
  <2>2. /\ reply = "none" /\ queue # <<>> /\ queue' = Tail(queue)
        /\ Head(queue).op = "Execute" /\ UNCHANGED handle_depth
    BY <1>0, <2>1, ServedSend DEF Take
  <2>3. HasDrop(queue) <=> HasDrop(queue')
    BY <1>0, <2>2, DropTaken
  <2>4. Owed = 0 /\ Owed' = 0
    BY <2>1, <2>2 DEF Owed
  <2>. QED  BY <1>0, <1>1, <1>2, <1>3, <2>1, <2>2, <2>3, <2>4
<1>27. CASE ActorExit
  <2>1. calling = "none" /\ UNCHANGED <<transaction_depth, handle_depth, reply, queue>>
    BY <1>27 DEF ActorExit, CallOK
  <2>. QED  BY <1>8, <2>1
<1>28. CASE UNCHANGED handleVars
  BY <1>28 DEF handleVars, actorVars, callVars, AheadOK, DropQueued, HasDrop, Owed
<1>. QED
  BY <1>9, <1>10, <1>11, <1>12, <1>13, <1>14, <1>16, <1>18, <1>19, <1>21, <1>23,
     <1>24, <1>25, <1>26, <1>27, <1>28 DEF HandleNext, Client, Returns, Actor

(* One transaction fewer. *)
LEMMA OneFewer ==
  ASSUME HandleTypeOK, open # <<>>
  PROVE  /\ Committed => Len(open') = Len(open) - 1
         /\ Discarded => Len(open') = Len(open) - 1
         /\ Unknown => Len(open') = Len(open) - 1
<1>. DEFINE n == Len(open)
<1>1. open \in Seq(SUBSET Work) /\ n \in Nat /\ n >= 1 /\ Len(Front(open)) = n - 1
  BY TypeFacts, Innermost
<1>2. n > 1 => Len(Merged(open)) = n - 1
  BY <1>1, MergedIs
<1>3. Committed => open' = IF n = 1 THEN <<>> ELSE Merged(open)
  BY DEF Committed, Merged
<1>4. Len(<<>>) = 0
  OBVIOUS
<1>. HIDE DEF n
<1>5. Committed => Len(open') = n - 1
  BY <1>1, <1>2, <1>3, <1>4
<1>6. (Discarded => open' = Front(open)) /\ (Unknown => open' = Front(open))
  BY DEF Discarded, Unknown
<1>. QED  BY <1>1, <1>5, <1>6 DEF n

(* The client, the handle and the actor count alike, through each kind of  *)
(* step.                                                                   *)
LEMMA AgreeKept ==
  ASSUME HandleTypeOK, CallOK, AgreeOK, [HandleNext]_handleVars
  PROVE  AgreeOK'
<1>0. /\ transaction_depth \in Nat /\ handle_depth \in Nat
      /\ queue \in Seq(Command) /\ open \in Seq(SUBSET Work) /\ Len(open) \in Nat
      /\ nested_dropped \in BOOLEAN
      /\ "Begin" \in Calls /\ "Commit" \in Calls /\ "Rollback" \in Calls
      /\ "StartRollback" \notin Calls /\ "Execute" \notin Calls
  BY TypeFacts DEF Calls
<1>1. ~nested_dropped =>
        IF HasDrop(queue) THEN open = <<>> /\ handle_depth = 0 /\ transaction_depth <= 1
                          ELSE /\ handle_depth = Len(open)
                               /\ transaction_depth = Len(open) + Owed
  BY DEF AgreeOK, DropQueued
<1>2. ASSUME HasDrop(queue'), open' = <<>>, handle_depth' = 0, transaction_depth' <= 1
      PROVE  AgreeOK'
  BY <1>2 DEF AgreeOK, DropQueued
<1>3. ASSUME ~HasDrop(queue'), handle_depth' = Len(open'),
             transaction_depth' = Len(open') + Owed'
      PROVE  AgreeOK'
  BY <1>3 DEF AgreeOK, DropQueued
<1>4. ASSUME nested_dropped' = TRUE  PROVE AgreeOK'
  BY <1>4 DEF AgreeOK
<1>5. (open = <<>> => Len(open) = 0) /\ (Len(open) = 0 => open = <<>>)
  BY <1>0, EmptySeq
<1>6. ASSUME calling = "none", Len(open') = Len(open), open' \in Seq(SUBSET Work),
             UNCHANGED <<transaction_depth, handle_depth, reply, nested_dropped>>,
             HasDrop(queue') <=> HasDrop(queue)
      PROVE  AgreeOK'
  <2>1. reply = "none" /\ Owed = 0 /\ Owed' = 0
    BY <1>6 DEF CallOK, Owed
  <2>2. open = <<>> => open' = <<>>
    BY <1>5, <1>6, EmptySeq
  <2>3. CASE nested_dropped
    BY <1>0, <1>4, <1>6, <2>3
  <2>4. CASE ~nested_dropped /\ HasDrop(queue)
    BY <1>1, <1>2, <1>6, <2>2, <2>4
  <2>5. CASE ~nested_dropped /\ ~HasDrop(queue)
    BY <1>1, <1>3, <1>6, <2>1, <2>5
  <2>. QED  BY <1>0, <2>3, <2>4, <2>5
<1>7. ASSUME NEW c \in Command, c.op # "StartRollback", Send(c)
      PROVE  HasDrop(queue') <=> HasDrop(queue)
  BY <1>0, <1>7, DropSent DEF Send
<1>8. ASSUME NEW level \in Nat, StartRollback(level)
      PROVE  /\ handle_depth' = 0 /\ HasDrop(queue')
             /\ nested_dropped' = TRUE \/ (~nested_dropped /\ ~(level > 1))
  <2>1. handle_depth' = 0 /\ HasDrop(queue')
    BY <1>0, <1>8, DropSent, CommandIs DEF StartRollback, Send
  <2>2. nested_dropped' = (nested_dropped \/ level > 1)
    BY <1>8 DEF StartRollback, NoteLevel
  <2>. QED  BY <2>1, <2>2
<1>9. ASSUME NEW op \in Calls, calling = "none", Call(op)  PROVE AgreeOK'
  <2>1. [op |-> op] \in Command /\ [op |-> op].op = op /\ op # "StartRollback"
    BY <1>0, CommandIs
  <2>2. /\ Send([op |-> op])
        /\ UNCHANGED <<transaction_depth, handle_depth, reply, open, nested_dropped>>
    BY <1>9 DEF Call, actorVars, clientVars
  <2>. QED  BY <1>0, <1>6, <1>7, <1>9, <2>1, <2>2
<1>10. ASSUME CanCall, open # <<>>, handle_depth = 0, nested_dropped' = nested_dropped
       PROVE  AgreeOK'
  <2>. SUFFICES nested_dropped' = TRUE
    BY <1>4
  <2>. QED  BY <1>0, <1>1, <1>5, <1>10
<1>11. CASE BeginCall
  BY <1>0, <1>9, <1>11 DEF BeginCall, CanCall
<1>12. CASE CommitCall
  <2>1. CASE Call("Commit")
    BY <1>0, <1>9, <1>12, <2>1 DEF CommitCall, CanCall
  <2>2. CASE handle_depth = 0 /\ Committed
    BY <1>10, <1>12, <2>2 DEF CommitCall, Committed
  <2>. QED  BY <1>12, <2>1, <2>2 DEF CommitCall
<1>13. CASE RollbackCall
  <2>1. CASE Call("Rollback")
    BY <1>0, <1>9, <1>13, <2>1 DEF RollbackCall, CanCall
  <2>2. CASE handle_depth = 0 /\ UNCHANGED nested_dropped
    BY <1>10, <1>13, <2>2 DEF RollbackCall
  <2>. QED  BY <1>13, <2>1, <2>2 DEF RollbackCall
<1>14. ASSUME open # <<>>, Len(open') = Len(open) - 1, open' \in Seq(SUBSET Work),
              StartRollback(Len(open)), UNCHANGED transaction_depth,
              ~nested_dropped => transaction_depth <= Len(open)
       PROVE  AgreeOK'
  <2>1. CASE nested_dropped' = TRUE
    BY <1>4, <2>1
  <2>2. CASE ~nested_dropped /\ ~(Len(open) > 1)
    <3>. DEFINE n == Len(open)
                m == Len(open')
    <3>1. /\ n \in Nat /\ ~(n = 0) /\ ~(n > 1) /\ m = n - 1
          /\ transaction_depth <= n
      BY <1>0, <1>5, <1>14, <2>2
    <3>. HIDE DEF n, m
    <3>2. m = 0 /\ transaction_depth <= 1
      BY <1>0, <3>1
    <3>3. open' = <<>>
      BY <1>14, <3>2, EmptySeq DEF m
    <3>. QED  BY <1>0, <1>2, <1>8, <1>14, <3>2, <3>3
  <2>. QED  BY <1>0, <1>8, <1>14, <2>1, <2>2
<1>15. CASE DropTransaction
  <2>1. /\ calling = "none" /\ open # <<>> /\ StartRollback(Len(open)) /\ Discarded
        /\ UNCHANGED transaction_depth
    BY <1>15 DEF DropTransaction, CanCall, actorVars
  <2>2. Owed = 0
    BY <2>1 DEF CallOK, Owed
  <2>3. ~nested_dropped => transaction_depth <= Len(open)
    BY <1>0, <1>1, <2>1, <2>2
  <2>4. Len(open') = Len(open) - 1 /\ open' \in Seq(SUBSET Work)
    BY <2>1, OneFewer, ClientTypes
  <2>. QED  BY <1>14, <2>1, <2>3, <2>4
<1>16. ASSUME NEW w \in Work, ExecuteCall(w)  PROVE AgreeOK'
  <2>1. /\ calling = "none"
        /\ UNCHANGED <<transaction_depth, handle_depth, reply, nested_dropped>>
        /\ Send([op |-> "Execute", work |-> w])
    BY <1>16 DEF ExecuteCall, CanCall, actorVars
  <2>2. HasDrop(queue') <=> HasDrop(queue)
    BY <1>7, <2>1, CommandIs
  <2>3. open' = open \/ open' = [open EXCEPT ![Len(open)] = @ \cup {w}]
    BY <1>16 DEF ExecuteCall
  <2>4. Len(open') = Len(open) /\ open' \in Seq(SUBSET Work)
    <3>1. open = <<>> => open' = open
      BY <1>16 DEF ExecuteCall
    <3>2. open # <<>> => Len(open) \in 1..Len(open) /\ open[Len(open)] \in SUBSET Work
      BY <1>0
    <3>. QED  BY <1>0, <2>3, <3>1, <3>2
  <2>. QED  BY <1>6, <2>1, <2>2, <2>4
<1>17. CASE CloseHandle
  BY <1>0, <1>6, <1>17 DEF CloseHandle, actorVars, clientVars
<1>18. ASSUME NEW op \in Calls, Return(op)
       PROVE  /\ queue = <<>> /\ ~HasDrop(queue) /\ Owed' = 0 /\ reply \in Result
              /\ Owed = IF reply # "ok" THEN 0 ELSE IF op = "Begin" THEN 1 ELSE -1
              /\ op # "Begin" => open # <<>>
  <2>1. calling = op /\ reply # "none" /\ reply' = "none" /\ queue = <<>>
    BY <1>18 DEF Return, CallOK
  <2>2. ~HasDrop(queue) /\ reply \in Result
    BY <2>1, NoDrop DEF HandleTypeOK
  <2>3. op # "Begin" => open # <<>>
    BY <1>18, <2>1 DEF CallOK, Calls
  <2>. QED  BY <2>1, <2>2, <2>3 DEF Owed
<1>19. CASE BeginReturn
  <2>0. Return("Begin") /\ UNCHANGED transaction_depth
    BY <1>19 DEF BeginReturn, actorVars
  <2>1. CASE reply = "err" /\ UNCHANGED open /\ StartRollback(Len(open) + 1)
    <3>1. Owed = 0 /\ ~HasDrop(queue)
      BY <1>0, <1>18, <2>0, <2>1
    <3>2. CASE nested_dropped' = TRUE
      BY <1>4, <3>2
    <3>3. CASE ~nested_dropped /\ ~(Len(open) + 1 > 1)
      <4>. DEFINE n == Len(open)
      <4>1. n \in Nat /\ ~(n + 1 > 1) /\ transaction_depth = n + 0
        BY <1>0, <1>1, <3>1, <3>3
      <4>. HIDE DEF n
      <4>2. n = 0 /\ transaction_depth <= 1
        BY <4>1
      <4>3. open = <<>>
        BY <1>5, <4>2 DEF n
      <4>4. handle_depth' = 0 /\ HasDrop(queue')
        <5>1. Len(open) + 1 \in Nat
          BY <1>0
        <5>. QED  BY <1>8, <2>1, <5>1
      <4>. QED  BY <1>2, <2>0, <2>1, <4>2, <4>3, <4>4
    <3>4. Len(open) + 1 \in Nat
      BY <1>0
    <3>. QED  BY <1>8, <2>1, <3>2, <3>3, <3>4
  <2>2. CASE /\ reply = "ok" /\ handle_depth' = handle_depth + 1
             /\ open' = Append(open, {})
             /\ UNCHANGED <<queue, nested_dropped>>
    <3>1. ~HasDrop(queue) /\ Owed' = 0 /\ Owed = 1
      BY <1>0, <1>18, <2>0, <2>2
    <3>2. Len(open') = Len(open) + 1
      BY <1>0, <2>2
    <3>3. CASE nested_dropped
      BY <1>0, <1>4, <2>2, <3>3
    <3>4. CASE ~nested_dropped
      <4>1. handle_depth = Len(open) /\ transaction_depth = Len(open) + 1
        BY <1>1, <3>1, <3>4
      <4>2. handle_depth' = Len(open') /\ transaction_depth' = Len(open') + Owed'
        BY <1>0, <2>0, <2>2, <3>1, <3>2, <4>1
      <4>. QED  BY <1>3, <2>2, <3>1, <4>2
    <3>. QED  BY <3>3, <3>4
  <2>3. CASE reply = "err" /\ UNCHANGED <<open, queue, handle_depth, nested_dropped>>
    <3>1. ~HasDrop(queue) /\ Owed' = 0 /\ Owed = 0
      BY <1>0, <1>18, <2>0, <2>3
    <3>2. CASE nested_dropped
      BY <1>0, <1>4, <2>3, <3>2
    <3>3. CASE ~nested_dropped
      <4>1. handle_depth = Len(open) /\ transaction_depth = Len(open) + 0
        BY <1>1, <3>1, <3>3
      <4>. QED  BY <1>0, <1>3, <2>0, <2>3, <3>1, <4>1
    <3>. QED  BY <3>2, <3>3
  <2>. QED  BY <1>19, <2>1, <2>2, <2>3 DEF BeginReturn
<1>20. ASSUME NEW op \in {"Commit", "Rollback"}, Return(op), reply = "ok",
              handle_depth' = handle_depth - 1, Len(open') = Len(open) - 1,
              UNCHANGED <<transaction_depth, queue, nested_dropped>>
       PROVE  AgreeOK'
  <2>1. ~HasDrop(queue) /\ Owed' = 0 /\ Owed = -1
    BY <1>0, <1>18, <1>20
  <2>2. CASE nested_dropped
    BY <1>0, <1>4, <1>20, <2>2
  <2>3. CASE ~nested_dropped
    <3>1. handle_depth = Len(open) /\ transaction_depth = Len(open) + (-1)
      BY <1>1, <2>1, <2>3
    <3>. QED  BY <1>0, <1>3, <1>20, <2>1, <3>1
  <2>. QED  BY <2>2, <2>3
<1>21. ASSUME NEW op \in {"Commit", "Rollback"}, Return(op), reply = "err",
              StartRollback(Len(open)), Len(open') = Len(open) - 1,
              open' \in Seq(SUBSET Work), UNCHANGED transaction_depth
       PROVE  AgreeOK'
  <2>1. ~HasDrop(queue) /\ Owed = 0 /\ open # <<>>
    BY <1>0, <1>18, <1>21
  <2>2. ~nested_dropped => transaction_depth <= Len(open)
    BY <1>0, <1>1, <2>1
  <2>. QED  BY <1>14, <1>21, <2>1, <2>2
<1>22. CASE CommitReturn
  <2>0. Return("Commit") /\ UNCHANGED transaction_depth /\ open # <<>>
    BY <1>0, <1>18, <1>22 DEF CommitReturn, actorVars
  <2>1. CASE reply = "ok" /\ handle_depth' = handle_depth - 1 /\ Committed /\ UNCHANGED queue
    BY <1>20, <2>0, <2>1, OneFewer DEF Committed
  <2>2. CASE reply = "err" /\ StartRollback(Len(open)) /\ Unknown
    BY <1>21, <2>0, <2>2, OneFewer, ClientTypes
  <2>. QED  BY <1>22, <2>1, <2>2 DEF CommitReturn
<1>23. CASE RollbackReturn
  <2>0. Return("Rollback") /\ UNCHANGED transaction_depth /\ open # <<>> /\ Discarded
    BY <1>0, <1>18, <1>23 DEF RollbackReturn, actorVars
  <2>1. Len(open') = Len(open) - 1 /\ open' \in Seq(SUBSET Work)
    BY <2>0, OneFewer, ClientTypes
  <2>2. CASE reply = "ok" /\ handle_depth' = handle_depth - 1
             /\ UNCHANGED <<queue, nested_dropped>>
    BY <1>20, <2>0, <2>1, <2>2
  <2>3. CASE reply = "err" /\ StartRollback(Len(open))
    BY <1>21, <2>0, <2>1, <2>3
  <2>. QED  BY <1>23, <2>2, <2>3 DEF RollbackReturn
<1>24. ASSUME NEW op \in Calls, Take(op)
       PROVE  /\ ~HasDrop(queue')
              /\ ~nested_dropped =>
                   handle_depth = Len(open) /\ transaction_depth = Len(open)
              /\ op # "Begin" => handle_depth > 0
              /\ Owed' = IF reply' # "ok" THEN 0 ELSE IF op = "Begin" THEN 1 ELSE -1
              /\ UNCHANGED <<handle_depth, open, nested_dropped>>
  <2>1. /\ calling = op /\ reply = "none" /\ ~HasDrop(queue) /\ ~HasDrop(queue')
        /\ UNCHANGED <<handle_depth, calling, open, nested_dropped>>
    BY <1>24, ServedCall DEF clientVars
  <2>2. ~nested_dropped =>
          handle_depth = Len(open) /\ transaction_depth = Len(open) + 0
    BY <1>1, <2>1 DEF Owed
  <2>3. op # "Begin" => handle_depth > 0
    BY <1>24, <2>1 DEF CallOK, Calls
  <2>. QED  BY <1>0, <2>1, <2>2, <2>3 DEF Owed
<1>25. ASSUME NEW op \in Calls, Take(op),
              ~nested_dropped => transaction_depth' = transaction_depth + Owed'
       PROVE  AgreeOK'
  <2>1. CASE nested_dropped
    BY <1>0, <1>4, <1>24, <1>25, <2>1
  <2>2. CASE ~nested_dropped
    BY <1>0, <1>3, <1>24, <1>25, <2>2
  <2>. QED  BY <2>1, <2>2
<1>26. CASE ServeBegin
  <2>1. PICK r \in Result : HandleBegin(r) /\ reply' = r
    BY <1>26 DEF ServeBegin
  <2>2. transaction_depth' = IF r = "ok" THEN transaction_depth + 1 ELSE transaction_depth
    BY <1>0, <2>1, DepthOfBegin
  <2>3. Take("Begin") /\ Owed' = IF r # "ok" THEN 0 ELSE 1
    BY <1>0, <1>24, <1>26, <2>1 DEF ServeBegin
  <2>4. transaction_depth' = transaction_depth + Owed'
    BY <1>0, <2>2, <2>3
  <2>. QED  BY <1>0, <1>25, <2>3, <2>4
<1>27. ASSUME NEW op \in {"Commit", "Rollback"}, Take(op), NEW r \in Result, reply' = r,
              r = "ok" /\ transaction_depth > 0 => transaction_depth' = transaction_depth - 1,
              r # "ok" => transaction_depth' = transaction_depth
       PROVE  AgreeOK'
  <2>1. Owed' = IF r # "ok" THEN 0 ELSE -1
    BY <1>0, <1>24, <1>27
  <2>2. ~nested_dropped => transaction_depth > 0
    BY <1>0, <1>24, <1>27
  <2>3. ~nested_dropped => transaction_depth' = transaction_depth + Owed'
    BY <1>0, <1>27, <2>1, <2>2
  <2>. QED  BY <1>0, <1>25, <1>27, <2>3
<1>28. CASE ServeCommit
  <2>1. PICK r \in Result : HandleCommit(r) /\ reply' = r
    BY <1>28 DEF ServeCommit
  <2>. QED  BY <1>0, <1>27, <1>28, <2>1, DepthOfCommit DEF ServeCommit
<1>29. CASE ServeRollback
  <2>1. PICK r \in Result : HandleRollback(r) /\ reply' = r
    BY <1>29 DEF ServeRollback
  <2>. QED  BY <1>0, <1>27, <1>29, <2>1, DepthOfRollback DEF ServeRollback
<1>30. CASE ServeStartRollback
  <2>1. Take("StartRollback") /\ HandleStartRollback /\ UNCHANGED reply
    BY <1>30 DEF ServeStartRollback
  <2>2. /\ reply = "none" /\ queue # <<>> /\ queue' = Tail(queue)
        /\ Head(queue).op = "StartRollback"
        /\ UNCHANGED <<handle_depth, open, nested_dropped>>
    BY <1>0, <2>1, ServedSend DEF Take, clientVars
  <2>3. HasDrop(queue)
    BY <1>0, <2>2, DropTaken
  <2>4. Owed' = 0
    BY <2>1, <2>2 DEF Owed
  <2>5. transaction_depth' = IF transaction_depth > 0
                             THEN transaction_depth - 1 ELSE transaction_depth
    BY <1>0, <2>1, DepthOfStartRollback
  <2>6. CASE nested_dropped
    BY <1>0, <1>4, <2>2, <2>6
  <2>7. CASE ~nested_dropped
    <3>1. open = <<>> /\ handle_depth = 0 /\ transaction_depth <= 1
      BY <1>1, <2>3, <2>7
    <3>2. transaction_depth' = 0 /\ Len(open) = 0 /\ open' = <<>> /\ handle_depth' = 0
      BY <1>0, <1>5, <2>2, <2>5, <3>1
    <3>. QED  BY <1>2, <1>3, <2>2, <2>4, <3>2
  <2>. QED  BY <2>6, <2>7
<1>31. CASE ServeExecute
  <2>1. Take("Execute") /\ UNCHANGED <<transaction_depth, reply>>
    BY <1>31, DepthOfExecute DEF ServeExecute
  <2>2. /\ reply = "none" /\ queue # <<>> /\ queue' = Tail(queue)
        /\ Head(queue).op = "Execute"
        /\ UNCHANGED <<handle_depth, open, nested_dropped>>
    BY <1>0, <2>1, ServedSend DEF Take, clientVars
  <2>3. HasDrop(queue) <=> HasDrop(queue')
    BY <1>0, <2>2, DropTaken
  <2>4. Owed = 0 /\ Owed' = 0
    BY <2>1, <2>2 DEF Owed
  <2>5. CASE nested_dropped
    BY <1>0, <1>4, <2>2, <2>5
  <2>6. CASE ~nested_dropped /\ HasDrop(queue)
    BY <1>1, <1>2, <2>1, <2>2, <2>3, <2>6
  <2>7. CASE ~nested_dropped /\ ~HasDrop(queue)
    BY <1>1, <1>3, <2>1, <2>2, <2>3, <2>4, <2>7
  <2>. QED  BY <1>0, <2>5, <2>6, <2>7
<1>32. CASE ActorExit
  <2>1. calling = "none"
        /\ UNCHANGED <<transaction_depth, handle_depth, reply, queue, open, nested_dropped>>
    BY <1>32 DEF ActorExit, CallOK, clientVars
  <2>. QED  BY <1>0, <1>6, <2>1
<1>33. CASE UNCHANGED handleVars
  BY <1>33 DEF handleVars, actorVars, callVars, clientVars, AgreeOK, DropQueued, HasDrop, Owed
<1>. QED
  BY <1>11, <1>12, <1>13, <1>15, <1>16, <1>17, <1>19, <1>22, <1>23, <1>26, <1>28,
     <1>29, <1>30, <1>31, <1>32, <1>33 DEF HandleNext, Client, Returns, Actor

-----------------------------------------------------------------------------
(* The theorems that hold whatever fails. *)
LEMMA HandleInitDepth == HandleInit => DepthInv
<1>. SUFFICES ASSUME HandleInit  PROVE DepthInv
  OBVIOUS
<1>1. /\ handle_depth = 0 /\ queue = <<>> /\ calling = "none" /\ reply = "none"
      /\ phase = "live" /\ open = <<>> /\ kept = {} /\ discarded = {}
      /\ nested_dropped = FALSE /\ transaction_depth = 0 /\ ActorInit
  BY DEF HandleInit, ActorInit
<1>2. ActorTypeOK
  BY <1>1, InitInv DEF ActorInv
<1>3. HandleTypeOK
  <2>1. queue \in Seq(Command) /\ open \in Seq(SUBSET Work)
    BY <1>1
  <2>2. calling \in Calls \cup {"none"} /\ reply \in Result \cup {"none"} /\ handle_depth \in Nat
    BY <1>1
  <2>. QED  BY <1>1, <1>2, <2>1, <2>2 DEF HandleTypeOK
<1>4. CallOK
  BY <1>1 DEF CallOK
<1>5. ~DropQueued /\ Owed = 0 /\ Len(open) = 0
  BY <1>1, NoDrop DEF DropQueued, Owed
<1>6. AheadOK /\ AgreeOK
  BY <1>1, <1>5 DEF AheadOK, AgreeOK
<1>. QED  BY <1>3, <1>4, <1>6 DEF DepthInv

(* The depths keep their relation. *)
LEMMA DepthInvariance == HandleSpec => []DepthInv
<1>1. DepthInv /\ [HandleNext]_handleVars => DepthInv'
  BY TypeKept, CallKept, AheadKept, AgreeKept DEF DepthInv
<1>. QED  BY <1>1, HandleInitDepth, PTL DEF HandleSpec

(* Every variable keeps its type, for any number of open transactions,     *)
(* queued commands and faults: neither depth counter goes below 0          *)
(* (transaction.rs:25, actor.rs:398), so no decrement wraps around.        *)
THEOREM HandleTypeCorrect == HandleSpec => []HandleTypeOK
<1>1. DepthInv => HandleTypeOK
  BY DEF DepthInv
<1>. QED  BY <1>1, DepthInvariance, PTL

(* Once the channel is drained the actor counts at least as many           *)
(* transactions as the handle, whatever fails and whatever is dropped.     *)
THEOREM HandleNeverGetsAhead == HandleSpec => []HandleNeverAhead
<1>1. DepthInv => HandleNeverAhead
  <2>. SUFFICES ASSUME DepthInv, queue = <<>>, calling = "none"
                PROVE  handle_depth <= transaction_depth
    BY DEF HandleNeverAhead, Settled
  <2>1. ~DropQueued /\ Owed = 0 /\ handle_depth \in Nat
    BY NoDrop DEF DropQueued, DepthInv, CallOK, Owed, HandleTypeOK
  <2>2. handle_depth + 0 <= transaction_depth
    BY <2>1 DEF DepthInv, AheadOK
  <2>. QED  BY <2>1, <2>2
<1>. QED  BY <1>1, DepthInvariance, PTL

(* Until a nested transaction is dropped the handle, the actor and the     *)
(* client count the same transactions, whatever fails.                     *)
THEOREM HandleDepthsAgree == HandleSpec => []DepthsAgree
<1>1. DepthInv => DepthsAgree
  <2>. SUFFICES ASSUME DepthInv, queue = <<>>, calling = "none", ~nested_dropped
                PROVE  handle_depth = transaction_depth /\ handle_depth = Len(open)
    BY DEF DepthsAgree, Settled
  <2>1. ~DropQueued /\ Owed = 0 /\ handle_depth \in Nat
    BY NoDrop DEF DropQueued, DepthInv, CallOK, Owed, HandleTypeOK
  <2>2. handle_depth = Len(open) /\ transaction_depth = Len(open) + 0
    BY <2>1 DEF DepthInv, AgreeOK
  <2>. QED  BY <2>1, <2>2
<1>. QED  BY <1>1, DepthInvariance, PTL

-----------------------------------------------------------------------------
(* What a step of the handle or the actor is to the actor alone. *)

(* The actor's part of a step is a handler, nothing, or the disconnect.    *)
LEMMA ActorPart ==
  ASSUME HandleTypeOK, [HandleNext]_handleVars
  PROVE  Handled \/ ActorExit
<1>1. ASSUME UNCHANGED actorVars  PROVE Handled
  BY <1>1 DEF Handled
<1>2. ASSUME NEW op, Call(op)  PROVE UNCHANGED actorVars
  BY <1>2 DEF Call
<1>3. CASE Client
  BY <1>1, <1>2, <1>3
     DEF Client, BeginCall, CommitCall, RollbackCall, DropTransaction, ExecuteCall, CloseHandle
<1>4. CASE Returns
  BY <1>1, <1>4 DEF Returns, BeginReturn, CommitReturn, RollbackReturn
<1>5. CASE ServeBegin \/ ServeCommit \/ ServeRollback \/ ServeStartRollback
  BY <1>5 DEF ServeBegin, ServeCommit, ServeRollback, ServeStartRollback, Handled
<1>6. CASE ServeExecute
  <2>1. /\ Head(queue) \in Command /\ Head(queue).op = "Execute"
        /\ HandleExecute(Head(queue).work)
    BY <1>6, TypeFacts, Taken DEF ServeExecute, Take
  <2>2. Head(queue).work \in Work
    BY <2>1, CommandIs
  <2>. QED  BY <2>1, <2>2 DEF Handled
<1>7. CASE UNCHANGED handleVars
  BY <1>1, <1>7 DEF handleVars
<1>. QED  BY <1>3, <1>4, <1>5, <1>6, <1>7 DEF HandleNext, Actor

(* The mode follows the actor's depth through the channel, and through the *)
(* disconnect.                                                             *)
LEMMA HandleMode ==
  ASSUME RestoreNeverSilent, HandleTypeOK, ManualModeIffOpen,
         [HandleNext]_handleVars
  PROVE  ManualModeIffOpen'
<1>1. ActorTypeOK /\ session \in Session
  BY DEF HandleTypeOK, ActorTypeOK
<1>2. CASE Handled
  BY <1>1, <1>2, ModeStep
<1>3. CASE ActorExit
  <2>1. session' = EndTranRollback(session) /\ transaction_depth' = transaction_depth
    BY <1>3 DEF ActorExit, Disconnect
  <2>2. session'.autocommit = session.autocommit /\ session'.log = <<>>
    BY <1>1, <2>1, EndTranIs DEF IsSession
  <2>. QED  BY <2>1, <2>2 DEF ManualModeIffOpen
<1>. QED  BY <1>2, <1>3, ActorPart

(* A connection with no transaction open goes back to its pool outside     *)
(* every server transaction, unless a nested transaction was dropped or    *)
(* StartRollback silently fails to restore autocommit.                     *)
THEOREM HandleReleasedClean ==
  RestoreNeverSilent => (HandleSpec => []ReleasedClean)
<1>. SUFFICES ASSUME RestoreNeverSilent  PROVE HandleSpec => []ReleasedClean
  OBVIOUS
<1>1. HandleInit => ManualModeIffOpen
  BY InitInv DEF HandleInit, ActorInv
<1>2. DepthInv /\ ManualModeIffOpen /\ [HandleNext]_handleVars => ManualModeIffOpen'
  BY HandleMode DEF DepthInv
<1>3. DepthInv /\ ManualModeIffOpen => ReleasedClean
  <2>. SUFFICES ASSUME DepthInv, ManualModeIffOpen,
                       queue = <<>>, calling = "none", open = <<>>, ~nested_dropped
                PROVE  session.autocommit /\ session.log = <<>>
    BY DEF ReleasedClean, Settled
  <2>1. ~DropQueued /\ Owed = 0 /\ Len(open) = 0
    BY NoDrop DEF DropQueued, DepthInv, CallOK, Owed
  <2>2. transaction_depth = 0
    BY <2>1 DEF DepthInv, AgreeOK
  <2>. QED  BY <2>2 DEF ManualModeIffOpen
<1>. QED  BY <1>1, <1>2, <1>3, DepthInvariance, PTL DEF HandleSpec

-----------------------------------------------------------------------------
(* The statements in the channel. *)
LEMMA WaitingIs ==
  /\ InFlight = Waiting(queue)
  /\ Waiting(<<>>) = {}
  /\ OnceEach(<<>>)
  BY DEF InFlight, Waiting, OnceEach

(* One more command. *)
LEMMA WaitingSent ==
  ASSUME NEW q \in Seq(Command), NEW c \in Command
  PROVE  /\ c.op # "Execute" => /\ Waiting(Append(q, c)) = Waiting(q)
                                /\ OnceEach(q) => OnceEach(Append(q, c))
         /\ \A w \in Work : c = [op |-> "Execute", work |-> w] =>
              /\ Waiting(Append(q, c)) = Waiting(q) \cup {w}
              /\ OnceEach(q) /\ w \notin Waiting(q) => OnceEach(Append(q, c))
<1>. DEFINE l == Append(q, c)
<1>1. /\ Len(l) = Len(q) + 1 /\ Len(q) \in Nat /\ l[Len(q) + 1] = c
      /\ \A i \in 1..Len(q) : l[i] = q[i]
  BY Sent
<1>. HIDE DEF l
<1>2. \A i \in 1..Len(l) : i = Len(q) + 1 \/ i \in 1..Len(q)
  BY <1>1
<1>3. 1..Len(q) \subseteq 1..Len(l) /\ Len(q) + 1 \in 1..Len(l)
  BY <1>1
<1>4. \A w \in Work : w \in Waiting(l) <=>
        w \in Waiting(q) \/ c = [op |-> "Execute", work |-> w]
  BY <1>1, <1>2, <1>3 DEF Waiting
<1>5. Waiting(l) \subseteq Work /\ Waiting(q) \subseteq Work
  BY DEF Waiting
<1>6. ASSUME c.op # "Execute"
      PROVE  Waiting(l) = Waiting(q) /\ (OnceEach(q) => OnceEach(l))
  <2>1. \A w : c # [op |-> "Execute", work |-> w]
    BY <1>6
  <2>2. Waiting(l) = Waiting(q)
    BY <1>4, <1>5, <2>1
  <2>3. ASSUME OnceEach(q), NEW i \in 1..Len(l), NEW j \in 1..Len(l),
               l[i].op = "Execute", l[j] = l[i]
        PROVE  i = j
    BY <1>1, <1>2, <1>6, <2>3 DEF OnceEach
  <2>. QED  BY <2>2, <2>3 DEF OnceEach
<1>7. ASSUME NEW w \in Work, c = [op |-> "Execute", work |-> w]
      PROVE  /\ Waiting(l) = Waiting(q) \cup {w}
             /\ OnceEach(q) /\ w \notin Waiting(q) => OnceEach(l)
  <2>1. \A v : c = [op |-> "Execute", work |-> v] => v = w
    <3>1. \A v : [op |-> "Execute", work |-> v].work = v
      OBVIOUS
    <3>. QED  BY <1>7, <3>1
  <2>2. Waiting(l) = Waiting(q) \cup {w}
    BY <1>4, <1>5, <1>7, <2>1
  <2>3. ASSUME OnceEach(q), w \notin Waiting(q),
               NEW i \in 1..Len(l), NEW j \in 1..Len(l), l[i].op = "Execute", l[j] = l[i]
        PROVE  i = j
    <3>1. \A k \in 1..Len(q) : q[k] # c
      BY <1>7, <2>3 DEF Waiting
    <3>2. CASE i \in 1..Len(q) /\ j \in 1..Len(q)
      BY <1>1, <2>3, <3>2 DEF OnceEach
    <3>3. CASE i \in 1..Len(q) /\ j = Len(q) + 1
      BY <1>1, <2>3, <3>1, <3>3
    <3>4. CASE i = Len(q) + 1 /\ j \in 1..Len(q)
      BY <1>1, <2>3, <3>1, <3>4
    <3>5. CASE i = Len(q) + 1 /\ j = Len(q) + 1
      BY <3>5
    <3>. QED  BY <1>2, <2>3, <3>2, <3>3, <3>4, <3>5
  <2>. QED  BY <2>2, <2>3 DEF OnceEach
<1>. QED  BY <1>6, <1>7 DEF l

(* One command fewer. *)
LEMMA WaitingTaken ==
  ASSUME NEW q \in Seq(Command), q # <<>>, OnceEach(q)
  PROVE  /\ OnceEach(Tail(q))
         /\ Head(q).op # "Execute" => Waiting(Tail(q)) = Waiting(q)
         /\ Head(q).op = "Execute" => /\ Head(q).work \in Waiting(q)
                                      /\ Waiting(Tail(q)) = Waiting(q) \ {Head(q).work}
<1>. DEFINE l == Tail(q)
<1>1. /\ Len(q) \in Nat /\ Len(q) >= 1 /\ Len(l) = Len(q) - 1 /\ Head(q) = q[1]
      /\ Head(q) \in Command
      /\ \A i \in 1..(Len(q) - 1) : l[i] = q[i + 1]
  BY Taken
<1>. HIDE DEF l
<1>2. \A i \in 1..Len(q) : i = 1 \/ (i - 1 \in 1..Len(l) /\ l[i - 1] = q[i])
  BY <1>1
<1>3. \A i \in 1..Len(l) : i + 1 \in 1..Len(q) /\ l[i] = q[i + 1]
  BY <1>1
<1>4. 1 \in 1..Len(q)
  BY <1>1
<1>5. ASSUME NEW i \in 1..Len(l), NEW j \in 1..Len(l), l[i].op = "Execute", l[j] = l[i]
      PROVE  i = j
  <2>1. i + 1 = j + 1
    BY <1>3, <1>5 DEF OnceEach
  <2>. QED  BY <2>1
<1>6. \A w \in Work : w \in Waiting(q) <=>
        w \in Waiting(l) \/ Head(q) = [op |-> "Execute", work |-> w]
  <2>1. ASSUME NEW w \in Work, w \in Waiting(q)
        PROVE  w \in Waiting(l) \/ Head(q) = [op |-> "Execute", work |-> w]
    <3>1. PICK i \in 1..Len(q) : q[i] = [op |-> "Execute", work |-> w]
      BY <2>1 DEF Waiting
    <3>. QED  BY <1>1, <1>2, <3>1 DEF Waiting
  <2>2. ASSUME NEW w \in Work, w \in Waiting(l)  PROVE w \in Waiting(q)
    BY <1>3, <2>2 DEF Waiting
  <2>3. ASSUME NEW w \in Work, Head(q) = [op |-> "Execute", work |-> w]
        PROVE  w \in Waiting(q)
    BY <1>1, <1>4, <2>3 DEF Waiting
  <2>. QED  BY <2>1, <2>2, <2>3
<1>7. Waiting(l) \subseteq Work /\ Waiting(q) \subseteq Work
  BY DEF Waiting
<1>8. ASSUME Head(q).op # "Execute"  PROVE Waiting(l) = Waiting(q)
  <2>1. \A w : Head(q) # [op |-> "Execute", work |-> w]
    BY <1>8
  <2>. QED  BY <1>6, <1>7, <2>1
<1>9. ASSUME Head(q).op = "Execute"
      PROVE  Head(q).work \in Waiting(q) /\ Waiting(l) = Waiting(q) \ {Head(q).work}
  <2>. DEFINE h == Head(q).work
  <2>1. h \in Work /\ Head(q) = [op |-> "Execute", work |-> h]
    BY <1>1, <1>9, CommandIs
  <2>2. \A v : Head(q) = [op |-> "Execute", work |-> v] => v = h
    <3>1. \A v : [op |-> "Execute", work |-> v].work = v
      OBVIOUS
    <3>. QED  BY <3>1
  <2>3. h \notin Waiting(l)
    <3>1. SUFFICES ASSUME NEW i \in 1..Len(l), l[i] = [op |-> "Execute", work |-> h]
                   PROVE  FALSE
      BY DEF Waiting
    <3>2. i + 1 \in 1..Len(q) /\ q[i + 1] = q[1] /\ q[1].op = "Execute"
      BY <1>1, <1>3, <1>9, <2>1, <3>1
    <3>3. i + 1 = 1
      BY <1>4, <3>2 DEF OnceEach
    <3>. QED  BY <3>1, <3>3
  <2>. HIDE DEF h
  <2>4. \A w \in Work : w \in Waiting(q) <=> w \in Waiting(l) \/ w = h
    BY <1>6, <2>1, <2>2
  <2>. QED  BY <1>7, <2>1, <2>3, <2>4 DEF h
<1>. QED  BY <1>5, <1>8, <1>9 DEF l, OnceEach

-----------------------------------------------------------------------------
(* The views of the open transactions. *)

(* Each began with no less than the one around it, and sees no less now.   *)
LEMMA StackIs ==
  ASSUME ActorInv
  PROVE  /\ transaction_depth \in Nat
         /\ Before \in Seq(SUBSET Work) /\ Len(Before) = transaction_depth
         /\ Seen \in SUBSET Work /\ session.durable \subseteq Seen
         /\ \A k \in 1..transaction_depth :
              session.durable \subseteq Before[k] /\ Before[k] \subseteq Seen
         /\ \A k \in 1..(transaction_depth - 1) : Before[k] \subseteq Before[k + 1]
         /\ transaction_depth = 0 => Seen = session.durable
         /\ transaction_depth > 0 => Before[1] = session.durable
<1>1. /\ transaction_depth \in Nat /\ session \in Session /\ session.log \in Seq(Entry)
      /\ ManualModeIffOpen /\ InPlace(session.log, transaction_depth - 1)
  BY DEF ActorInv, ActorTypeOK, Session, SavepointsInPlace
<1>2. /\ Before \in Seq(SUBSET Work) /\ Len(Before) = transaction_depth
      /\ \A k \in 1..transaction_depth : Before[k] = ViewAt(session, k)
      /\ Seen \in SUBSET Work
  BY <1>1, ViewsIs DEF Before, Seen
<1>3. session.durable \subseteq Seen
  BY DEF Seen, View
<1>4. ASSUME NEW k \in 1..transaction_depth
      PROVE  session.durable \subseteq Before[k] /\ Before[k] \subseteq Seen
  <2>1. CASE k = 1
    BY <1>2, <1>3, <2>1 DEF ViewAt
  <2>2. CASE k # 1
    <3>1. k - 1 \in 1..(transaction_depth - 1)
      BY <1>1, <2>2
    <3>2. HasMark(session.log, k - 1)
      BY <1>1, <3>1 DEF InPlace
    <3>3. LastMark(session.log, k - 1) \in 1..Len(session.log)
      BY <1>1, <3>2, LastMarkIs
    <3>4. WorkUpTo(session.log, LastMark(session.log, k - 1)) \subseteq WorkIn(session.log)
      BY <3>3 DEF WorkUpTo, WorkIn
    <3>. QED  BY <1>2, <2>2, <3>4 DEF ViewAt, Seen, View
  <2>. QED  BY <2>1, <2>2
<1>5. ASSUME NEW k \in 1..(transaction_depth - 1)
      PROVE  Before[k] \subseteq Before[k + 1]
  <2>0. k \in 1..transaction_depth /\ k + 1 \in 1..transaction_depth /\ k + 1 # 1
    BY <1>1
  <2>1. CASE k = 1
    BY <1>2, <1>4, <2>0, <2>1 DEF ViewAt
  <2>2. CASE k # 1
    <3>1. /\ k - 1 \in 1..(transaction_depth - 1) /\ k - 1 < k /\ (k + 1) - 1 = k
      BY <1>1, <2>2
    <3>2. /\ HasMark(session.log, k - 1) /\ HasMark(session.log, k)
          /\ LastMark(session.log, k - 1) < LastMark(session.log, k)
      BY <1>1, <3>1 DEF InPlace
    <3>3. /\ LastMark(session.log, k - 1) \in 1..Len(session.log)
          /\ LastMark(session.log, k) \in 1..Len(session.log)
      BY <1>1, <3>2, LastMarkIs
    <3>4. WorkUpTo(session.log, LastMark(session.log, k - 1))
            \subseteq WorkUpTo(session.log, LastMark(session.log, k))
      BY <3>2, <3>3 DEF WorkUpTo
    <3>5. /\ Before[k] = session.durable
                           \cup WorkUpTo(session.log, LastMark(session.log, k - 1))
          /\ Before[k + 1] = session.durable
                               \cup WorkUpTo(session.log, LastMark(session.log, k))
      BY <1>2, <2>0, <2>2, <3>1 DEF ViewAt
    <3>. QED  BY <3>4, <3>5
  <2>. QED  BY <2>1, <2>2
<1>6. transaction_depth = 0 => Seen = session.durable
  <2>1. transaction_depth = 0 => session.log = <<>>
    BY <1>1 DEF ManualModeIffOpen
  <2>. QED  BY <2>1, EmptyLogHasNoWork DEF Seen, View
<1>7. transaction_depth > 0 => Before[1] = session.durable
  <2>1. transaction_depth > 0 => 1 \in 1..transaction_depth
    BY <1>1
  <2>. QED  BY <1>2, <2>1 DEF ViewAt
<1>. QED  BY <1>1, <1>2, <1>3, <1>4, <1>5, <1>6, <1>7

(* Nothing of the actor changes. *)
Idle == UNCHANGED <<transaction_depth, Before, Seen, session.durable>>

(* The innermost transaction ends, and the view becomes v.                 *)
Popped(v) == /\ transaction_depth' = transaction_depth - 1
             /\ Before' = Nested!Outer(Before)
             /\ Seen' = v

LEMMA IdleIs == UNCHANGED actorVars => Idle
  BY DEF actorVars, Idle, Before, Seen

(* What each handler does to the views. *)
LEMMA BeginDoes ==
  ASSUME ActorInv, NEW r, HandleBegin(r)
  PROVE  /\ r = "ok" => /\ transaction_depth' = transaction_depth + 1
                        /\ Before' = Append(Before, Seen)
                        /\ UNCHANGED <<Seen, session.durable>>
         /\ r # "ok" => Idle
<1>1. transaction_depth \in Nat
  BY DEF ActorInv, ActorTypeOK
<1>2. transaction_depth' = IF r = "ok" THEN transaction_depth + 1 ELSE transaction_depth
  BY <1>1, DepthOfBegin
<1>3. (r = "ok" => Nested!Begin) /\ (r # "ok" => Stutter)
  BY BeginMaps
<1>. QED  BY <1>2, <1>3 DEF Nested!Begin, Stutter, Nested!vars, Idle, Before, Seen

LEMMA CommitDoes ==
  ASSUME ActorInv, transaction_depth > 0, NEW r, HandleCommit(r)
  PROVE  /\ r = "ok" => /\ Popped(Seen)
                        /\ session'.durable = IF transaction_depth = 1 THEN Seen
                                              ELSE session.durable
         /\ r # "ok" => \/ Idle
                        \/ /\ transaction_depth = 1
                           /\ UNCHANGED <<transaction_depth, Seen>>
                           /\ session'.durable = Seen
                           /\ Before' = <<Seen>>
<1>1. transaction_depth \in Nat /\ Len(Before) = transaction_depth
  BY StackIs
<1>2. /\ r = "ok" => transaction_depth' = transaction_depth - 1
      /\ r # "ok" => transaction_depth' = transaction_depth
  BY <1>1, DepthOfCommit
<1>3. (r = "ok" => Nested!Commit) /\ (r # "ok" => Nested!CommitAndChain \/ Stutter)
  BY CommitMaps
<1>4. ASSUME r = "ok"
      PROVE  /\ Popped(Seen)
             /\ session'.durable = IF transaction_depth = 1 THEN Seen ELSE session.durable
  BY <1>1, <1>2, <1>3, <1>4 DEF Nested!Commit, Popped, Before, Seen
<1>5. CASE r # "ok" /\ Stutter
  BY <1>2, <1>5 DEF Stutter, Nested!vars, Idle, Before, Seen
<1>6. CASE r # "ok" /\ Nested!CommitAndChain
  BY <1>1, <1>2, <1>6 DEF Nested!CommitAndChain, Before, Seen
<1>. QED  BY <1>3, <1>4, <1>5, <1>6

LEMMA RollbackDoes ==
  ASSUME ActorInv, transaction_depth > 0, NEW r, HandleRollback(r)
  PROVE  /\ r = "ok" => /\ Popped(Before[transaction_depth])
                        /\ UNCHANGED session.durable
         /\ r # "ok" => /\ UNCHANGED <<transaction_depth, Before, session.durable>>
                        /\ Seen' = Seen \/ (transaction_depth = 1 /\ Seen' = Before[1])
<1>1. transaction_depth \in Nat /\ Len(Before) = transaction_depth
  BY StackIs
<1>2. transaction_depth' = IF r = "ok" /\ transaction_depth > 0
                           THEN transaction_depth - 1 ELSE transaction_depth
  BY <1>1, DepthOfRollback
<1>3. (r = "ok" => Nested!Rollback) /\ (r # "ok" => Nested!RollbackAndChain \/ Stutter)
  BY RollbackMaps
<1>4. ASSUME r = "ok"
      PROVE  Popped(Before[transaction_depth]) /\ UNCHANGED session.durable
  BY <1>1, <1>2, <1>3, <1>4 DEF Nested!Rollback, Popped, Before, Seen
<1>5. CASE r # "ok" /\ Stutter
  BY <1>2, <1>5 DEF Stutter, Nested!vars, Before, Seen
<1>6. CASE r # "ok" /\ Nested!RollbackAndChain
  BY <1>1, <1>2, <1>6 DEF Nested!RollbackAndChain, Before, Seen
<1>. QED  BY <1>3, <1>4, <1>5, <1>6

LEMMA DropDoes ==
  ASSUME ActorInv, AllFailuresReported, HandleStartRollback
  PROVE  /\ transaction_depth = 0 => Idle
         /\ transaction_depth > 0 => /\ Popped(Before[transaction_depth])
                                     /\ UNCHANGED session.durable
<1>1. transaction_depth \in Nat /\ Len(Before) = transaction_depth
  BY StackIs
<1>2. CASE transaction_depth = 0
  <2>1. UNCHANGED actorVars
    BY <1>2 DEF HandleStartRollback
  <2>. QED  BY <1>2, <2>1, IdleIs
<1>3. CASE transaction_depth > 0
  <2>1. HandleRollback("ok")
    BY StartRollbackIs
  <2>. QED  BY <1>3, <2>1, RollbackDoes
<1>. QED  BY <1>1, <1>2, <1>3

LEMMA ExecuteDoes ==
  ASSUME ActorInv, AllFailuresReported, NEW w \in Work, HandleExecute(w)
  PROVE  /\ UNCHANGED <<transaction_depth, Before>>
         /\ Seen' = Seen \cup {w}
         /\ session'.durable = IF transaction_depth = 0 THEN Seen \cup {w}
                               ELSE session.durable
<1>1. transaction_depth \in Nat /\ Len(Before) = transaction_depth
  BY StackIs
<1>2. transaction_depth' = transaction_depth
  BY DepthOfExecute
<1>3. Nested!Do(w)
  BY ExecuteMaps
<1>4. Before = <<>> <=> transaction_depth = 0
  <2>1. Before \in Seq(SUBSET Work)
    BY StackIs
  <2>. QED  BY <1>1, <2>1, EmptySeq
<1>. QED  BY <1>2, <1>3, <1>4 DEF Nested!Do, Before, Seen

-----------------------------------------------------------------------------
(* Steps of the client, entry by entry. *)

(* The innermost transaction is over. *)
LEMMA FrontIs ==
  ASSUME HandleTypeOK, open # <<>>, open' = Front(open)
  PROVE  /\ Len(open') = Len(open) - 1
         /\ \A k \in 1..(Len(open) - 1) : open'[k] = open[k]
  BY TypeFacts, Innermost

(* ... and its work is the enclosing one's, or kept. *)
LEMMA CommittedIs ==
  ASSUME HandleTypeOK, open # <<>>, Committed
  PROVE  /\ Len(open') = Len(open) - 1
         /\ \A k \in 1..(Len(open) - 2) : open'[k] = open[k]
         /\ Len(open) > 1 =>
              /\ open'[Len(open) - 1] = open[Len(open) - 1] \cup open[Len(open)]
              /\ kept' = kept
         /\ Len(open) = 1 => kept' = kept \cup open[1]
         /\ UNCHANGED <<discarded, nested_dropped>>
<1>. DEFINE n == Len(open)
<1>1. /\ open \in Seq(SUBSET Work) /\ n \in Nat /\ n >= 1 /\ Last(open) = open[n]
      /\ Len(open') = n - 1
  BY TypeFacts, Innermost, OneFewer
<1>2. n > 1 => /\ \A k \in 1..(n - 2) : Merged(open)[k] = open[k]
               /\ Merged(open)[n - 1] = open[n - 1] \cup open[n]
  BY <1>1, MergedIs
<1>3. /\ open' = IF n = 1 THEN <<>> ELSE Merged(open)
      /\ kept' = IF n = 1 THEN kept \cup Last(open) ELSE kept
      /\ UNCHANGED <<discarded, nested_dropped>>
  BY DEF Committed, Merged
<1>. HIDE DEF n
<1>4. n = 1 \/ n > 1
  BY <1>1
<1>5. n = 1 => 1..(n - 2) = {}
  BY <1>1
<1>6. \A k \in 1..(n - 2) : open'[k] = open[k]
  BY <1>2, <1>3, <1>4, <1>5
<1>7. n > 1 => n # 1
  BY <1>1
<1>8. n > 1 => open'[n - 1] = open[n - 1] \cup open[n] /\ kept' = kept
  BY <1>2, <1>3, <1>7
<1>9. n = 1 => kept' = kept \cup open[1]
  BY <1>1, <1>3
<1>. QED  BY <1>1, <1>3, <1>6, <1>8, <1>9 DEF n

(* A statement is issued. *)
LEMMA ExecuteCallIs ==
  ASSUME HandleTypeOK, NEW w \in Work, ExecuteCall(w)
  PROVE  /\ queue' = Append(queue, [op |-> "Execute", work |-> w])
         /\ w \notin Issued /\ w \notin InFlight /\ w \notin Seen
         /\ w \notin kept /\ w \notin discarded
         /\ \A k \in 1..Len(open) : w \notin open[k]
         /\ Len(open') = Len(open)
         /\ \A k \in 1..(Len(open) - 1) : open'[k] = open[k]
         /\ open = <<>> => open' = <<>> /\ kept' = kept \cup {w}
         /\ open # <<>> => /\ open'[Len(open)] = open[Len(open)] \cup {w}
                           /\ kept' = kept
         /\ calling = "none" /\ phase = "live"
         /\ UNCHANGED <<discarded, nested_dropped, handle_depth, calling, reply, phase,
                        actorVars>>
<1>0. open \in Seq(SUBSET Work) /\ Len(open) \in Nat
  BY TypeFacts
<1>1. /\ queue' = Append(queue, [op |-> "Execute", work |-> w])
      /\ w \notin Issued /\ w \notin InFlight /\ w \notin Seen
      /\ calling = "none" /\ phase = "live"
      /\ UNCHANGED <<discarded, nested_dropped, handle_depth, calling, reply, phase,
                     actorVars>>
  BY DEF ExecuteCall, Send, CanCall, InFlight, Seen
<1>2. /\ w \notin kept /\ w \notin discarded
      /\ \A k \in 1..Len(open) : w \notin open[k]
  <2>1. \A k \in 1..Len(open) : open[k] \in ToSet(open)
    BY DEF ToSet
  <2>. QED  BY <1>1, <2>1 DEF Issued
<1>3. CASE open = <<>>
  <2>1. open' = open /\ kept' = kept \cup {w}
    BY <1>3 DEF ExecuteCall
  <2>. QED  BY <1>0, <1>1, <1>2, <1>3, <2>1
<1>4. CASE open # <<>>
  <2>. DEFINE n == Len(open)
  <2>1. open' = [open EXCEPT ![n] = @ \cup {w}] /\ kept' = kept
    BY <1>4 DEF ExecuteCall
  <2>2. n \in 1..n /\ n \in Nat
    BY <1>0, <1>4
  <2>3. Len(open') = n
    BY <1>0, <2>1
  <2>4. open'[n] = open[n] \cup {w}
    BY <1>0, <2>1, <2>2
  <2>5. \A k \in 1..(n - 1) : open'[k] = open[k]
    BY <1>0, <2>1, <2>2
  <2>. QED  BY <1>1, <1>2, <1>4, <2>1, <2>3, <2>4, <2>5
<1>. QED  BY <1>3, <1>4

(* A statement is served. *)
LEMMA ServeExecuteIs ==
  ASSUME HandleTypeOK, CallOK, ServeExecute
  PROVE  /\ queue # <<>> /\ queue' = Tail(queue)
         /\ Head(queue).op = "Execute" /\ Head(queue).work \in Work
         /\ HandleExecute(Head(queue).work)
         /\ reply = "none" /\ reply' = "none" /\ phase # "exited"
         /\ UNCHANGED <<handle_depth, calling, phase, clientVars>>
<1>1. Take("Execute") /\ HandleExecute(Head(queue).work) /\ UNCHANGED reply
  BY DEF ServeExecute
<1>2. /\ queue # <<>> /\ queue' = Tail(queue) /\ Head(queue).op = "Execute"
      /\ phase # "exited" /\ UNCHANGED <<handle_depth, calling, phase, clientVars>>
  BY <1>1 DEF Take
<1>3. reply = "none"
  BY <1>2 DEF CallOK
<1>4. Head(queue) \in Command
  BY <1>2, TypeFacts, Taken
<1>5. Head(queue).work \in Work
  BY <1>2, <1>4, CommandIs
<1>. QED  BY <1>1, <1>2, <1>3, <1>5

-----------------------------------------------------------------------------
(* What is in the channel. *)

(* Every other step leaves the waiting statements alone. *)
LEMMA FlightStep ==
  ASSUME HandleTypeOK, CallOK, OnceEach(queue), [HandleNext]_handleVars
  PROVE  \/ InFlight' = InFlight /\ OnceEach(queue') /\ ~ServeExecute
            /\ \A w \in Work : ~ExecuteCall(w)
         \/ \E w \in Work : /\ ExecuteCall(w)
                            /\ InFlight' = InFlight \cup {w} /\ OnceEach(queue')
         \/ /\ ServeExecute
            /\ InFlight' = InFlight \ {Head(queue).work} /\ OnceEach(queue')
<1>0. /\ queue \in Seq(Command) /\ InFlight = Waiting(queue) /\ InFlight' = Waiting(queue')
  BY TypeFacts, WaitingIs DEF InFlight, Waiting
<1>1. CASE \E w \in Work : ExecuteCall(w)
  <2>1. PICK w \in Work : ExecuteCall(w)
    BY <1>1
  <2>2. queue' = Append(queue, [op |-> "Execute", work |-> w]) /\ w \notin InFlight
    BY <2>1, ExecuteCallIs
  <2>3. [op |-> "Execute", work |-> w] \in Command
    BY CommandIs
  <2>4. InFlight' = InFlight \cup {w} /\ OnceEach(queue')
    BY <1>0, <2>2, <2>3, WaitingSent
  <2>. QED  BY <2>1, <2>4
<1>2. CASE ServeExecute
  <2>1. queue # <<>> /\ queue' = Tail(queue) /\ Head(queue).op = "Execute"
    BY <1>2, ServeExecuteIs
  <2>. QED  BY <1>0, <1>2, <2>1, WaitingTaken
<1>3. CASE ~ServeExecute /\ \A w \in Work : ~ExecuteCall(w)
  <2>. SUFFICES Waiting(queue') = Waiting(queue) /\ OnceEach(queue')
    BY <1>0, <1>3
  <2>1. ASSUME NEW c \in Command, c.op # "Execute", Send(c)
        PROVE  Waiting(queue') = Waiting(queue) /\ OnceEach(queue')
    BY <1>0, <2>1, WaitingSent DEF Send
  <2>2. ASSUME NEW op, op # "Execute", Take(op)
        PROVE  Waiting(queue') = Waiting(queue) /\ OnceEach(queue')
    BY <1>0, <2>2, WaitingTaken DEF Take
  <2>3. ASSUME UNCHANGED queue
        PROVE  Waiting(queue') = Waiting(queue) /\ OnceEach(queue')
    BY <2>3 DEF Waiting, OnceEach
  <2>4. /\ \A op \in Calls \cup {"StartRollback"} :
             [op |-> op] \in Command /\ [op |-> op].op # "Execute"
        /\ {"Begin", "Commit", "Rollback"} = Calls
    BY CommandIs DEF Calls
  <2>5. ASSUME NEW op \in Calls, Call(op)
        PROVE  Waiting(queue') = Waiting(queue) /\ OnceEach(queue')
    BY <2>1, <2>4, <2>5 DEF Call
  <2>6. ASSUME NEW level, StartRollback(level)
        PROVE  Waiting(queue') = Waiting(queue) /\ OnceEach(queue')
    BY <2>1, <2>4, <2>6 DEF StartRollback
  <2>7. CASE Client
    <3>1. CASE BeginCall
      BY <2>4, <2>5, <3>1 DEF BeginCall
    <3>2. CASE CommitCall
      BY <2>3, <2>4, <2>5, <3>2 DEF CommitCall, callVars
    <3>3. CASE RollbackCall
      BY <2>3, <2>4, <2>5, <3>3 DEF RollbackCall, callVars
    <3>4. CASE DropTransaction
      BY <2>6, <3>4 DEF DropTransaction
    <3>5. CASE CloseHandle
      BY <2>3, <3>5 DEF CloseHandle
    <3>. QED  BY <1>3, <2>7, <3>1, <3>2, <3>3, <3>4, <3>5 DEF Client
  <2>8. CASE Returns
    BY <2>3, <2>6, <2>8 DEF Returns, BeginReturn, CommitReturn, RollbackReturn
  <2>9. CASE ServeBegin \/ ServeCommit \/ ServeRollback \/ ServeStartRollback
    BY <2>2, <2>9 DEF ServeBegin, ServeCommit, ServeRollback, ServeStartRollback
  <2>10. CASE ActorExit \/ UNCHANGED handleVars
    BY <2>3, <2>10 DEF ActorExit, handleVars, callVars
  <2>. QED  BY <1>3, <2>7, <2>8, <2>9, <2>10 DEF HandleNext, Actor
<1>. QED  BY <1>1, <1>2, <1>3

(* The actor that has exited is gone. *)
LEMMA ExitIsFinal ==
  ASSUME phase = "exited", [HandleNext]_handleVars
  PROVE  phase' = "exited"
<1>1. CASE Client
  BY <1>1 DEF Client, BeginCall, CommitCall, RollbackCall, DropTransaction,
              ExecuteCall, CloseHandle, CanCall
<1>2. CASE Returns
  BY <1>2 DEF Returns, BeginReturn, CommitReturn, RollbackReturn
<1>3. CASE Actor
  BY <1>3 DEF Actor, ServeBegin, ServeCommit, ServeRollback,
              ServeStartRollback, ServeExecute, ActorExit, Take
<1>. QED  BY <1>1, <1>2, <1>3 DEF HandleNext, handleVars, callVars

(* Serving keeps the actor's invariant, up to the disconnect.              *)
LEMMA ServingKept ==
  ASSUME AllFailuresReported, HandleTypeOK, ServingInv, [HandleNext]_handleVars
  PROVE  ServingInv'
<1>1. CASE phase = "exited"
  <2>1. phase' = "exited"
    BY <1>1, ExitIsFinal
  <2>. QED  BY <2>1 DEF ServingInv
<1>2. CASE phase # "exited" /\ Handled
  BY <1>2, NextInv DEF ServingInv
<1>3. CASE ActorExit
  BY <1>3 DEF ActorExit, ServingInv
<1>. QED  BY <1>1, <1>2, <1>3, ActorPart

(* Nothing but a statement adds to what is seen, and nothing durable is    *)
(* lost.                                                                   *)
LEMMA SeenStep ==
  ASSUME AllFailuresReported, HandleTypeOK, CallOK, ServingInv, [HandleNext]_handleVars
  PROVE  /\ ~ServeExecute => Seen' \subseteq Seen
         /\ ServeExecute => Seen' = Seen \cup {Head(queue).work}
         /\ session.durable \subseteq session'.durable
<1>1. CASE UNCHANGED actorVars /\ ~ServeExecute
  BY <1>1 DEF actorVars, Seen
<1>2. CASE ServeExecute
  <2>1. /\ Head(queue).work \in Work /\ HandleExecute(Head(queue).work) /\ ActorInv
    BY <1>2, ServeExecuteIs DEF ServingInv
  <2>2. session.durable \subseteq Seen
    BY <2>1, StackIs
  <2>. QED  BY <1>2, <2>1, <2>2, ExecuteDoes
<1>3. CASE ActorExit
  <2>1. session \in Session /\ session' = EndTranRollback(session)
    BY <1>3 DEF ActorExit, Disconnect, HandleTypeOK, ActorTypeOK
  <2>2. session'.log = <<>> /\ session'.durable = session.durable
    BY <2>1, EndTranIs DEF IsSession
  <2>3. Seen' = session.durable
    BY <2>2, EmptyLogHasNoWork DEF Seen, View
  <2>4. session.durable \subseteq Seen
    BY DEF Seen, View
  <2>5. ~ServeExecute
    BY <1>3 DEF ActorExit, ServeExecute, Take
  <2>. QED  BY <2>2, <2>3, <2>4, <2>5
<1>4. ASSUME NEW op, Take(op)
      PROVE  ActorInv /\ (op # "Execute" => ~ServeExecute)
  BY <1>4 DEF Take, ServingInv, ServeExecute
<1>5. ASSUME ActorInv
      PROVE  /\ session.durable \subseteq Seen /\ transaction_depth \in Nat
             /\ transaction_depth > 0 => /\ Before[transaction_depth] \subseteq Seen
                                         /\ Before[1] \subseteq Seen
  <2>1. transaction_depth > 0 =>
          transaction_depth \in 1..transaction_depth /\ 1 \in 1..transaction_depth
    BY <1>5, StackIs
  <2>. QED  BY <1>5, <2>1, StackIs
<1>6. CASE ServeBegin
  <2>1. Take("Begin") /\ \E r : HandleBegin(r)
    BY <1>6 DEF ServeBegin
  <2>2. ActorInv /\ ~ServeExecute
    BY <1>4, <2>1
  <2>. QED  BY <2>1, <2>2, BeginDoes DEF Idle
<1>7. CASE ServeCommit
  <2>1. Take("Commit") /\ \E r : HandleCommit(r)
    BY <1>7 DEF ServeCommit
  <2>2. ActorInv /\ ~ServeExecute
    BY <1>4, <2>1
  <2>3. CASE transaction_depth > 0
    BY <1>5, <2>1, <2>2, <2>3, CommitDoes DEF Idle, Popped
  <2>4. CASE transaction_depth = 0
    <3>1. UNCHANGED actorVars
      BY <2>1, <2>4 DEF HandleCommit
    <3>. QED  BY <1>1, <2>2, <3>1
  <2>. QED  BY <1>5, <2>2, <2>3, <2>4
<1>8. CASE ServeRollback
  <2>1. Take("Rollback") /\ \E r : HandleRollback(r)
    BY <1>8 DEF ServeRollback
  <2>2. ActorInv /\ ~ServeExecute
    BY <1>4, <2>1
  <2>3. CASE transaction_depth > 0
    BY <1>5, <2>1, <2>2, <2>3, RollbackDoes DEF Idle, Popped
  <2>4. CASE transaction_depth = 0
    <3>1. UNCHANGED actorVars
      BY <2>1, <2>4 DEF HandleRollback
    <3>. QED  BY <1>1, <2>2, <3>1
  <2>. QED  BY <1>5, <2>2, <2>3, <2>4
<1>9. CASE ServeStartRollback
  <2>1. Take("StartRollback") /\ HandleStartRollback
    BY <1>9 DEF ServeStartRollback
  <2>2. ActorInv /\ ~ServeExecute
    BY <1>4, <2>1
  <2>. QED  BY <1>5, <2>1, <2>2, DropDoes DEF Idle, Popped
<1>10. CASE Client \/ Returns \/ UNCHANGED handleVars
  <2>1. UNCHANGED actorVars
    BY <1>10 DEF Client, BeginCall, CommitCall, RollbackCall, DropTransaction, ExecuteCall,
       CloseHandle, Call, Returns, BeginReturn, CommitReturn, RollbackReturn, handleVars
  <2>. QED  BY <1>1, <1>2, <2>1
<1>. QED  BY <1>2, <1>3, <1>6, <1>7, <1>8, <1>9, <1>10 DEF HandleNext, Actor

(* What is waiting is not done, and is of the innermost transaction.       *)
LEMMA FlightKept ==
  ASSUME AllFailuresReported, HandleTypeOK, CallOK, ServingInv, FlightOK,
         [HandleNext]_handleVars
  PROVE  FlightOK'
<1>0. /\ OnceEach(queue) /\ InFlight \cap Seen = {}
      /\ \A k \in 1..(Len(open) - 1) : open[k] \cap InFlight = {}
      /\ Len(open) \in Nat /\ open \in Seq(SUBSET Work)
  BY TypeFacts DEF FlightOK
<1>1. OnceEach(queue')
  BY <1>0, FlightStep
<1>2. InFlight' \cap Seen' = {}
  <2>1. CASE InFlight' = InFlight /\ ~ServeExecute
    BY <1>0, <2>1, SeenStep
  <2>2. ASSUME NEW w \in Work, ExecuteCall(w), InFlight' = InFlight \cup {w}
        PROVE  InFlight' \cap Seen' = {}
    <3>1. w \notin Seen /\ UNCHANGED actorVars
      BY <2>2, ExecuteCallIs
    <3>2. Seen' = Seen
      BY <3>1 DEF actorVars, Seen
    <3>. QED  BY <1>0, <2>2, <3>1, <3>2
  <2>3. CASE ServeExecute /\ InFlight' = InFlight \ {Head(queue).work}
    BY <1>0, <2>3, SeenStep
  <2>. QED  BY <1>0, <2>1, <2>2, <2>3, FlightStep
<1>3. ASSUME InFlight' \subseteq InFlight, Len(open') <= Len(open),
             \A k \in 1..(Len(open') - 1) : open'[k] = open[k], Len(open') \in Nat
      PROVE  \A k \in 1..(Len(open') - 1) : open'[k] \cap InFlight' = {}
  <2>1. 1..(Len(open') - 1) \subseteq 1..(Len(open) - 1)
    BY <1>0, <1>3
  <2>. QED  BY <1>0, <1>3, <2>1
<1>4. ASSUME \A w \in Work : ~ExecuteCall(w)  PROVE InFlight' \subseteq InFlight
  BY <1>0, <1>4, FlightStep
<1>5. ASSUME UNCHANGED open, \A w \in Work : ~ExecuteCall(w)
      PROVE  \A k \in 1..(Len(open') - 1) : open'[k] \cap InFlight' = {}
  BY <1>0, <1>4, <1>5
<1>6. ASSUME open # <<>>, open' = Front(open), \A w \in Work : ~ExecuteCall(w)
      PROVE  \A k \in 1..(Len(open') - 1) : open'[k] \cap InFlight' = {}
  <2>. DEFINE n == Len(open)
              m == Len(open')
  <2>1. m = n - 1 /\ n \in Nat /\ n >= 1 /\ \A k \in 1..(n - 1) : open'[k] = open[k]
    BY <1>0, <1>6, FrontIs
  <2>2. InFlight' \subseteq InFlight
    BY <1>4, <1>6
  <2>. HIDE DEF n, m
  <2>3. m <= n /\ m \in Nat /\ \A k \in 1..(m - 1) : open'[k] = open[k]
    BY <2>1
  <2>. QED  BY <1>3, <2>2, <2>3 DEF n, m
<1>7. ASSUME open # <<>>, Committed, \A w \in Work : ~ExecuteCall(w)
      PROVE  \A k \in 1..(Len(open') - 1) : open'[k] \cap InFlight' = {}
  <2>. DEFINE n == Len(open)
              m == Len(open')
  <2>1. m = n - 1 /\ n \in Nat /\ n >= 1 /\ \A k \in 1..(n - 2) : open'[k] = open[k]
    BY <1>0, <1>7, CommittedIs
  <2>2. InFlight' \subseteq InFlight
    BY <1>4, <1>7
  <2>. HIDE DEF n, m
  <2>3. m <= n /\ m \in Nat /\ \A k \in 1..(m - 1) : open'[k] = open[k]
    BY <2>1
  <2>. QED  BY <1>3, <2>2, <2>3 DEF n, m
<1>8. \A k \in 1..(Len(open') - 1) : open'[k] \cap InFlight' = {}
  <2>1. ASSUME NEW w \in Work, ExecuteCall(w)
        PROVE  \A k \in 1..(Len(open') - 1) : open'[k] \cap InFlight' = {}
    <3>1. /\ InFlight' = InFlight \cup {w}
          /\ Len(open') = Len(open)
          /\ \A k \in 1..(Len(open) - 1) : open'[k] = open[k]
          /\ \A k \in 1..Len(open) : w \notin open[k]
      <4>1. queue \in Seq(Command) /\ [op |-> "Execute", work |-> w] \in Command
        BY TypeFacts, CommandIs
      <4>2. InFlight' = Waiting(queue')
        BY WaitingIs DEF InFlight, Waiting
      <4>3. queue' = Append(queue, [op |-> "Execute", work |-> w])
        BY <2>1, ExecuteCallIs
      <4>4. Waiting(Append(queue, [op |-> "Execute", work |-> w])) = Waiting(queue) \cup {w}
        BY <4>1, WaitingSent
      <4>5. InFlight' = InFlight \cup {w}
        BY <4>2, <4>3, <4>4, WaitingIs
      <4>. QED  BY <2>1, <4>5, ExecuteCallIs
    <3>2. 1..(Len(open) - 1) \subseteq 1..Len(open)
      BY <1>0
    <3>. QED  BY <1>0, <3>1, <3>2
  <2>2. CASE \A w \in Work : ~ExecuteCall(w)
    <3>1. CASE BeginCall \/ CloseHandle \/ Actor \/ UNCHANGED handleVars
      <4>1. UNCHANGED open
        BY <3>1 DEF BeginCall, Call, CloseHandle, Actor, ServeBegin, ServeCommit,
           ServeRollback, ServeStartRollback, ServeExecute, Take, ActorExit,
           handleVars, clientVars
      <4>. QED  BY <1>5, <2>2, <4>1
    <3>2. CASE CommitCall
      <4>1. CASE Call("Commit")
        BY <1>5, <2>2, <4>1 DEF Call, clientVars
      <4>2. CASE open # <<>> /\ Committed
        BY <1>7, <2>2, <4>2
      <4>. QED  BY <3>2, <4>1, <4>2 DEF CommitCall
    <3>3. CASE RollbackCall
      <4>1. CASE Call("Rollback")
        BY <1>5, <2>2, <4>1 DEF Call, clientVars
      <4>2. CASE open # <<>> /\ Discarded
        BY <1>6, <2>2, <4>2 DEF Discarded
      <4>. QED  BY <3>3, <4>1, <4>2 DEF RollbackCall
    <3>4. CASE DropTransaction
      BY <1>6, <2>2, <3>4 DEF DropTransaction, Discarded
    <3>5. CASE BeginReturn
      <4>1. CASE UNCHANGED open
        BY <1>5, <2>2, <4>1
      <4>2. CASE reply = "ok" /\ UNCHANGED queue
        <5>1. queue = <<>>
          BY <4>2 DEF CallOK
        <5>2. InFlight' = {}
          BY <4>2, <5>1 DEF InFlight
        <5>. QED  BY <5>2
      <4>. QED  BY <3>5, <4>1, <4>2 DEF BeginReturn
    <3>6. CASE CommitReturn
      <4>1. open # <<>>
        BY <3>6 DEF CommitReturn, Return, CallOK
      <4>. QED  BY <1>6, <1>7, <2>2, <3>6, <4>1 DEF CommitReturn, Unknown
    <3>7. CASE RollbackReturn
      <4>1. open # <<>> /\ open' = Front(open)
        BY <3>7 DEF RollbackReturn, Return, CallOK, Discarded
      <4>. QED  BY <1>6, <2>2, <4>1
    <3>. QED  BY <2>2, <3>1, <3>2, <3>3, <3>4, <3>5, <3>6, <3>7 DEF HandleNext, Client, Returns
  <2>. QED  BY <2>1, <2>2
<1>. QED  BY <1>1, <1>2, <1>8 DEF FlightOK

(* Kept work that waits has no rollback behind it. *)
NoDropBehind(q, s) ==
  \A i, j \in 1..Len(q) :
    i < j /\ q[i].op = "Execute" /\ q[i].work \in s => q[j].op # "StartRollback"

LEMMA NoDropBehindIs ==
  ASSUME NEW q \in Seq(Command), NEW s
  PROVE  /\ NoDropBehind(<<>>, s)
         /\ q # <<>> /\ NoDropBehind(q, s) => NoDropBehind(Tail(q), s)
         /\ \A c \in Command : c.op # "StartRollback" /\ NoDropBehind(q, s)
              => NoDropBehind(Append(q, c), s)
         /\ \A t : Waiting(q) \cap t = {} => NoDropBehind(q, t)
<1>1. NoDropBehind(<<>>, s)
  BY DEF NoDropBehind
<1>2. ASSUME q # <<>>, NoDropBehind(q, s)  PROVE NoDropBehind(Tail(q), s)
  <2>. DEFINE l == Tail(q)
  <2>1. /\ Len(q) \in Nat /\ Len(q) >= 1 /\ Len(l) = Len(q) - 1
        /\ \A i \in 1..(Len(q) - 1) : l[i] = q[i + 1]
    BY <1>2, Taken
  <2>. HIDE DEF l
  <2>2. \A i \in 1..Len(l) : i + 1 \in 1..Len(q) /\ l[i] = q[i + 1]
    BY <2>1
  <2>3. ASSUME NEW i \in 1..Len(l), NEW j \in 1..Len(l),
               i < j, l[i].op = "Execute", l[i].work \in s
        PROVE  l[j].op # "StartRollback"
    <3>1. i + 1 < j + 1 /\ i + 1 \in 1..Len(q) /\ j + 1 \in 1..Len(q)
      BY <2>2, <2>3
    <3>. QED  BY <1>2, <2>2, <2>3, <3>1 DEF NoDropBehind
  <2>4. NoDropBehind(l, s)
    BY <2>3 DEF NoDropBehind
  <2>. QED  BY <2>4 DEF l
<1>3. ASSUME NEW c \in Command, c.op # "StartRollback", NoDropBehind(q, s)
      PROVE  NoDropBehind(Append(q, c), s)
  <2>. DEFINE l == Append(q, c)
  <2>1. /\ Len(l) = Len(q) + 1 /\ Len(q) \in Nat /\ l[Len(q) + 1] = c
        /\ \A i \in 1..Len(q) : l[i] = q[i]
    BY Sent
  <2>. HIDE DEF l
  <2>2. ASSUME NEW i \in 1..Len(l), NEW j \in 1..Len(l),
               i < j, l[i].op = "Execute", l[i].work \in s
        PROVE  l[j].op # "StartRollback"
    <3>1. CASE j = Len(q) + 1
      BY <1>3, <2>1, <3>1
    <3>2. CASE j \in 1..Len(q)
      <4>1. i \in 1..Len(q)
        BY <2>1, <2>2, <3>2
      <4>. QED  BY <1>3, <2>1, <2>2, <3>2, <4>1 DEF NoDropBehind
    <3>. QED  BY <2>1, <3>1, <3>2
  <2>3. NoDropBehind(l, s)
    BY <2>2 DEF NoDropBehind
  <2>. QED  BY <2>3 DEF l
<1>4. ASSUME NEW t, Waiting(q) \cap t = {}  PROVE NoDropBehind(q, t)
  <2>1. ASSUME NEW i \in 1..Len(q), q[i].op = "Execute"  PROVE q[i].work \in Waiting(q)
    <3>1. q[i] \in Command
      OBVIOUS
    <3>2. q[i].work \in Work /\ q[i] = [op |-> "Execute", work |-> q[i].work]
      BY <2>1, <3>1, CommandIs
    <3>. DEFINE w == q[i].work
    <3>3. w \in Work /\ q[i] = [op |-> "Execute", work |-> w]
      BY <3>2
    <3>. HIDE DEF w
    <3>4. w \in Waiting(q)
      BY <3>3 DEF Waiting
    <3>. QED  BY <3>4 DEF w
  <2>. QED  BY <1>4, <2>1 DEF NoDropBehind
<1>. QED  BY <1>1, <1>2, <1>3, <1>4

(* Outside every transaction, work is served before anything is dropped.   *)
LEMMA OutsideKept ==
  ASSUME HandleTypeOK, CallOK, AgreeOK, OnceEach(queue), OutsideOK,
         [HandleNext]_handleVars
  PROVE  OutsideOK'
<1>. SUFFICES ASSUME ~nested_dropped'
              PROVE  /\ open' # <<>> => kept' \cap InFlight' = {}
                     /\ NoDropBehind(queue', kept')
  BY DEF OutsideOK, NoDropBehind
<1>0. /\ queue \in Seq(Command) /\ Len(open) \in Nat /\ nested_dropped \in BOOLEAN
      /\ open \in Seq(SUBSET Work)
      /\ InFlight = Waiting(queue) /\ InFlight' = Waiting(queue')
      /\ {"Begin", "Commit", "Rollback"} = Calls
  BY TypeFacts, WaitingIs DEF InFlight, Waiting, Calls
<1>1. ~nested_dropped => /\ open # <<>> => kept \cap InFlight = {}
                         /\ NoDropBehind(queue, kept)
  BY DEF OutsideOK, NoDropBehind
<1>2. ASSUME UNCHANGED <<open, kept, nested_dropped>>, InFlight' \subseteq InFlight,
             NoDropBehind(queue, kept) => NoDropBehind(queue', kept)
      PROVE  /\ open' # <<>> => kept' \cap InFlight' = {}
             /\ NoDropBehind(queue', kept')
  BY <1>1, <1>2
<1>3. ASSUME InFlight' = {}
      PROVE  /\ open' # <<>> => kept' \cap InFlight' = {}
             /\ NoDropBehind(queue', kept')
  <2>1. Waiting(queue') \cap kept' = {}
    BY <1>0, <1>3
  <2>2. queue' \in Seq(Command)
    BY TypeKept DEF HandleTypeOK
  <2>. QED  BY <1>3, <2>1, <2>2, NoDropBehindIs
<1>4. ASSUME NEW op \in Calls, Call(op)
      PROVE  /\ open' # <<>> => kept' \cap InFlight' = {}
             /\ NoDropBehind(queue', kept')
  <2>1. [op |-> op] \in Command /\ [op |-> op].op # "StartRollback" /\ [op |-> op].op # "Execute"
    BY CommandIs DEF Calls
  <2>2. queue' = Append(queue, [op |-> op]) /\ UNCHANGED <<open, kept, nested_dropped>>
    BY <1>4 DEF Call, Send, clientVars
  <2>. QED  BY <1>0, <1>2, <2>1, <2>2, WaitingSent, NoDropBehindIs
<1>5. ASSUME UNCHANGED <<queue, open, kept, nested_dropped>>
      PROVE  /\ open' # <<>> => kept' \cap InFlight' = {}
             /\ NoDropBehind(queue', kept')
  BY <1>0, <1>2, <1>5
<1>6. ASSUME handle_depth = 0, open # <<>>, UNCHANGED nested_dropped
      PROVE  FALSE
  <2>1. ~nested_dropped /\ Len(open) # 0
    BY <1>0, <1>6, EmptySeq
  <2>. QED  BY <1>6, <2>1 DEF AgreeOK
<1>7. ASSUME NEW op, Take(op)
      PROVE  /\ open' # <<>> => kept' \cap InFlight' = {}
             /\ NoDropBehind(queue', kept')
  <2>1. queue # <<>> /\ queue' = Tail(queue) /\ UNCHANGED <<open, kept, nested_dropped>>
    BY <1>7 DEF Take, clientVars
  <2>. QED  BY <1>0, <1>2, <2>1, WaitingTaken, NoDropBehindIs
<1>8. CASE BeginCall
  BY <1>0, <1>4, <1>8 DEF BeginCall
<1>9. CASE CommitCall
  BY <1>0, <1>4, <1>6, <1>9 DEF CommitCall, Committed
<1>10. CASE RollbackCall
  BY <1>0, <1>4, <1>6, <1>10 DEF RollbackCall
<1>11. ASSUME NEW level \in Nat, StartRollback(level)
       PROVE  ~nested_dropped /\ InFlight' = InFlight
  <2>1. nested_dropped' = (nested_dropped \/ level > 1)
    BY <1>11 DEF StartRollback, NoteLevel
  <2>2. ~nested_dropped
    BY <2>1
  <2>3. /\ queue' = Append(queue, [op |-> "StartRollback"])
        /\ [op |-> "StartRollback"] \in Command /\ [op |-> "StartRollback"].op # "Execute"
    BY <1>11, CommandIs DEF StartRollback, Send
  <2>. QED  BY <1>0, <2>2, <2>3, WaitingSent
<1>12. CASE DropTransaction
  <2>1. open # <<>> /\ kept' = kept /\ ~nested_dropped /\ InFlight' = InFlight
    BY <1>0, <1>11, <1>12 DEF DropTransaction, Discarded
  <2>2. Waiting(queue') \cap kept' = {}
    BY <1>0, <1>1, <2>1
  <2>3. queue' \in Seq(Command)
    BY TypeKept DEF HandleTypeOK
  <2>. QED  BY <1>0, <2>2, <2>3, NoDropBehindIs
<1>13. ASSUME NEW w \in Work, ExecuteCall(w)
       PROVE  /\ open' # <<>> => kept' \cap InFlight' = {}
              /\ NoDropBehind(queue', kept')
  <2>. DEFINE c == [op |-> "Execute", work |-> w]
  <2>0. c \in Command /\ c.op = "Execute"
    BY CommandIs
  <2>1. /\ queue' = Append(queue, c) /\ w \notin InFlight /\ w \notin kept
        /\ ~nested_dropped /\ Len(open') = Len(open)
        /\ open = <<>> => open' = <<>> /\ kept' = kept \cup {w}
        /\ open # <<>> => kept' = kept
    BY <1>13, ExecuteCallIs
  <2>2. InFlight' = InFlight \cup {w}
    BY <1>0, <2>0, <2>1, WaitingSent
  <2>3. open' # <<>> => kept' \cap InFlight' = {}
    BY <1>1, <2>1, <2>2
  <2>4. NoDropBehind(queue, kept')
    <3>1. ASSUME NEW i \in 1..Len(queue), queue[i].op = "Execute", queue[i].work = w
          PROVE  FALSE
      <4>1. queue[i] \in Command
        BY <1>0
      <4>2. queue[i] = [op |-> "Execute", work |-> w]
        BY <3>1, <4>1, CommandIs
      <4>. QED  BY <1>0, <2>1, <4>2 DEF Waiting
    <3>2. NoDropBehind(queue, kept)
      BY <1>1, <2>1
    <3>. QED  BY <2>1, <3>1, <3>2 DEF NoDropBehind
  <2>5. NoDropBehind(Append(queue, c), kept')
    BY <1>0, <2>0, <2>4, NoDropBehindIs
  <2>. QED  BY <2>1, <2>3, <2>5
<1>14. CASE CloseHandle
  BY <1>5, <1>14 DEF CloseHandle, clientVars
<1>15. CASE Returns
  <2>1. reply # "none"
    BY <1>15 DEF Returns, BeginReturn, CommitReturn, RollbackReturn, Return
  <2>2. queue = <<>>
    BY <2>1 DEF CallOK
  <2>3. InFlight = {}
    BY <2>2 DEF InFlight
  <2>4. \A w \in Work : ~ExecuteCall(w)
    <3>1. ASSUME NEW w \in Work, ExecuteCall(w)  PROVE FALSE
      <4>1. calling = "none"
        BY <3>1 DEF ExecuteCall, CanCall
      <4>. QED  BY <2>1, <4>1 DEF CallOK
    <3>. QED  BY <3>1
  <2>5. InFlight' = {}
    BY <2>3, <2>4, FlightStep
  <2>. QED  BY <1>3, <2>5
<1>16. CASE ServeBegin \/ ServeCommit \/ ServeRollback \/ ServeStartRollback \/ ServeExecute
  BY <1>7, <1>16 DEF ServeBegin, ServeCommit, ServeRollback, ServeStartRollback, ServeExecute
<1>17. CASE ActorExit \/ UNCHANGED handleVars
  BY <1>5, <1>17 DEF ActorExit, handleVars, callVars, clientVars
<1>. QED
  BY <1>8, <1>9, <1>10, <1>12, <1>13, <1>14, <1>15, <1>16, <1>17
     DEF HandleNext, Client, Actor

-----------------------------------------------------------------------------
(* In step. *)

(* Handle, actor and client come into step again only when no transaction  *)
(* is left and no reply waits.                                             *)
LEMMA Resync ==
  ASSUME DepthInv, [HandleNext]_handleVars, InSync', ~InSync
  PROVE  open' = <<>> /\ reply' = "none"
<1>0. /\ transaction_depth \in Nat /\ handle_depth \in Nat
      /\ queue \in Seq(Command) /\ open \in Seq(SUBSET Work) /\ Len(open) \in Nat
      /\ HandleTypeOK /\ CallOK /\ AheadOK
      /\ {"Begin", "Commit", "Rollback"} = Calls
      /\ "StartRollback" \notin Calls /\ "Execute" \notin Calls
  BY TypeFacts DEF DepthInv, Calls
<1>1. /\ ~HasDrop(queue') /\ handle_depth' = Len(open')
      /\ transaction_depth' = Len(open') + Owed'
  BY DEF InSync, DropQueued
<1>2. ASSUME handle_depth' = 0, reply' = "none"
      PROVE  open' = <<>> /\ reply' = "none"
  <2>1. open' \in Seq(SUBSET Work) /\ Len(open') = 0
    BY <1>0, <1>1, <1>2, TypeKept DEF HandleTypeOK
  <2>. QED  BY <1>2, <2>1, EmptySeq
<1>3. HasDrop(queue) => handle_depth = 0
  BY <1>0 DEF AheadOK, DropQueued
<1>4. ~HasDrop(queue) => ~(handle_depth = Len(open) /\ transaction_depth = Len(open) + Owed)
  BY DEF InSync, DropQueued
<1>5. ASSUME UNCHANGED <<handle_depth, transaction_depth>>, Len(open') = Len(open), Owed' = Owed,
             reply' = "none"
      PROVE  open' = <<>> /\ reply' = "none"
  BY <1>1, <1>2, <1>3, <1>4, <1>5
<1>6. ASSUME calling = "none", UNCHANGED <<handle_depth, transaction_depth, reply>>,
             Len(open') = Len(open)
      PROVE  open' = <<>> /\ reply' = "none"
  <2>1. Owed' = Owed /\ reply' = "none"
    BY <1>0, <1>6 DEF CallOK, Owed
  <2>. QED  BY <1>5, <1>6, <2>1
<1>7. ASSUME NEW op, Call(op), calling = "none"
      PROVE  open' = <<>> /\ reply' = "none"
  BY <1>6, <1>7 DEF Call, actorVars, clientVars
<1>8. ASSUME NEW level, StartRollback(level)  PROVE FALSE
  <2>1. HasDrop(queue')
    BY <1>0, <1>8, DropSent, CommandIs DEF StartRollback, Send
  <2>. QED  BY <1>1, <2>1
<1>9. CASE BeginCall
  BY <1>7, <1>9 DEF BeginCall, CanCall
<1>10. CASE CommitCall
  BY <1>0, <1>2, <1>7, <1>10 DEF CommitCall, CanCall, CallOK, callVars
<1>11. CASE RollbackCall
  BY <1>0, <1>2, <1>7, <1>11 DEF RollbackCall, CanCall, CallOK, callVars
<1>12. CASE DropTransaction
  BY <1>8, <1>12 DEF DropTransaction
<1>13. ASSUME NEW w \in Work, ExecuteCall(w)  PROVE open' = <<>> /\ reply' = "none"
  <2>1. /\ Len(open') = Len(open) /\ calling = "none"
        /\ UNCHANGED <<handle_depth, reply, actorVars>>
    BY <1>0, <1>13, ExecuteCallIs
  <2>. QED  BY <1>6, <2>1 DEF actorVars
<1>14. CASE CloseHandle
  BY <1>6, <1>14 DEF CloseHandle, actorVars, clientVars
<1>15. ASSUME NEW op \in Calls, Return(op), UNCHANGED <<queue, transaction_depth>>
       PROVE  /\ Owed' = 0 /\ reply' = "none"
              /\ ~(handle_depth = Len(open) /\ transaction_depth = Len(open) + Owed)
              /\ Owed = IF reply # "ok" THEN 0 ELSE IF op = "Begin" THEN 1 ELSE -1
              /\ op # "Begin" => open # <<>>
  BY <1>0, <1>1, <1>4, <1>15 DEF Return, CallOK, Owed, Calls
<1>16. CASE BeginReturn
  <2>0. Return("Begin") /\ UNCHANGED transaction_depth /\ "Begin" \in Calls
    BY <1>0, <1>16 DEF BeginReturn, actorVars
  <2>1. CASE /\ reply = "ok" /\ handle_depth' = handle_depth + 1
             /\ open' = Append(open, {}) /\ UNCHANGED queue
    <3>1. Len(open') = Len(open) + 1
      BY <1>0, <2>1
    <3>2. Owed' = 0 /\ ~(handle_depth = Len(open) /\ transaction_depth = Len(open) + 1)
      BY <1>15, <2>0, <2>1
    <3>3. handle_depth + 1 = Len(open) + 1 /\ transaction_depth = (Len(open) + 1) + 0
      BY <1>1, <2>0, <2>1, <3>1, <3>2
    <3>. QED  BY <1>0, <3>2, <3>3
  <2>2. CASE reply = "err" /\ UNCHANGED <<queue, handle_depth, open>>
    <3>1. Owed' = 0 /\ Owed = 0 /\ reply' = "none"
      BY <1>15, <2>0, <2>2
    <3>. QED  BY <1>5, <2>0, <2>2, <3>1
  <2>. QED  BY <1>8, <1>16, <2>1, <2>2 DEF BeginReturn
<1>17. ASSUME NEW op \in {"Commit", "Rollback"}, Return(op), reply = "ok",
              handle_depth' = handle_depth - 1, UNCHANGED <<queue, transaction_depth>>,
              open # <<>> => Len(open') = Len(open) - 1
       PROVE  FALSE
  <2>1. /\ Owed' = 0 /\ open # <<>>
        /\ ~(handle_depth = Len(open) /\ transaction_depth = Len(open) + (-1))
    BY <1>0, <1>15, <1>17
  <2>2. handle_depth - 1 = Len(open) - 1 /\ transaction_depth = (Len(open) - 1) + 0
    BY <1>1, <1>17, <2>1
  <2>. QED  BY <1>0, <2>1, <2>2
<1>18. CASE CommitReturn
  <2>0. Return("Commit") /\ UNCHANGED transaction_depth
    BY <1>18 DEF CommitReturn, actorVars
  <2>1. CASE reply = "ok" /\ handle_depth' = handle_depth - 1 /\ Committed /\ UNCHANGED queue
    BY <1>0, <1>17, <2>0, <2>1, OneFewer
  <2>. QED  BY <1>8, <1>18, <2>1 DEF CommitReturn
<1>19. CASE RollbackReturn
  <2>0. Return("Rollback") /\ UNCHANGED transaction_depth /\ Discarded
    BY <1>19 DEF RollbackReturn, actorVars
  <2>1. CASE reply = "ok" /\ handle_depth' = handle_depth - 1 /\ UNCHANGED queue
    BY <1>0, <1>17, <2>0, <2>1, OneFewer
  <2>. QED  BY <1>8, <1>19, <2>1 DEF RollbackReturn
<1>20. ASSUME NEW op \in Calls, Take(op), transaction_depth' = transaction_depth + Owed'
       PROVE  FALSE
  <2>1. /\ reply = "none" /\ ~HasDrop(queue)
        /\ UNCHANGED <<handle_depth, open>>
    BY <1>0, <1>20, ServedCall DEF clientVars
  <2>2. ~(handle_depth = Len(open) /\ transaction_depth = Len(open) + 0)
    BY <1>4, <2>1 DEF Owed
  <2>3. handle_depth = Len(open) /\ transaction_depth + Owed' = Len(open) + Owed'
    BY <1>1, <1>20, <2>1
  <2>4. Owed' \in Int
    BY DEF Owed
  <2>. QED  BY <1>0, <2>2, <2>3, <2>4
<1>21. ASSUME NEW op \in Calls, Take(op)
       PROVE  /\ Owed' = IF reply' # "ok" THEN 0 ELSE IF op = "Begin" THEN 1 ELSE -1
              /\ op # "Begin" => transaction_depth > 0
  <2>1. /\ calling = op /\ calling' = calling /\ reply = "none" /\ ~HasDrop(queue)
    BY <1>0, <1>21, ServedCall
  <2>2. handle_depth + 0 <= transaction_depth
    BY <1>0, <2>1 DEF AheadOK, DropQueued, Owed
  <2>3. op # "Begin" => handle_depth > 0
    BY <1>0, <1>21, <2>1 DEF CallOK, Calls
  <2>. QED  BY <1>0, <2>1, <2>2, <2>3 DEF Owed
<1>22. CASE ServeBegin
  <2>1. PICK r \in Result : HandleBegin(r) /\ reply' = r
    BY <1>22 DEF ServeBegin
  <2>2. transaction_depth' = IF r = "ok" THEN transaction_depth + 1 ELSE transaction_depth
    BY <1>0, <2>1, DepthOfBegin
  <2>3. Take("Begin") /\ Owed' = IF r # "ok" THEN 0 ELSE 1
    BY <1>0, <1>21, <1>22, <2>1 DEF ServeBegin
  <2>. QED  BY <1>0, <1>20, <2>2, <2>3
<1>23. ASSUME NEW op \in {"Commit", "Rollback"}, Take(op), NEW r \in Result, reply' = r,
              r = "ok" /\ transaction_depth > 0 => transaction_depth' = transaction_depth - 1,
              r # "ok" => transaction_depth' = transaction_depth
       PROVE  FALSE
  <2>1. (Owed' = IF r # "ok" THEN 0 ELSE -1) /\ transaction_depth > 0
    BY <1>0, <1>21, <1>23
  <2>2. transaction_depth' = transaction_depth + Owed'
    BY <1>0, <1>23, <2>1
  <2>. QED  BY <1>0, <1>20, <1>23, <2>2
<1>24. CASE ServeCommit
  <2>1. PICK r \in Result : HandleCommit(r) /\ reply' = r
    BY <1>24 DEF ServeCommit
  <2>. QED  BY <1>0, <1>23, <1>24, <2>1, DepthOfCommit DEF ServeCommit
<1>25. CASE ServeRollback
  <2>1. PICK r \in Result : HandleRollback(r) /\ reply' = r
    BY <1>25 DEF ServeRollback
  <2>. QED  BY <1>0, <1>23, <1>25, <2>1, DepthOfRollback DEF ServeRollback
<1>26. CASE ServeStartRollback
  <2>1. /\ queue # <<>> /\ Head(queue).op = "StartRollback"
        /\ UNCHANGED <<handle_depth, reply>>
    BY <1>26 DEF ServeStartRollback, Take
  <2>2. HasDrop(queue)
    BY <1>0, <2>1, DropTaken
  <2>3. reply = "none"
    BY <1>0, <2>1 DEF CallOK
  <2>. QED  BY <1>2, <1>3, <2>1, <2>2, <2>3
<1>27. CASE ServeExecute
  <2>1. /\ reply = "none" /\ reply' = "none" /\ UNCHANGED <<handle_depth, open>>
    BY <1>0, <1>27, ServeExecuteIs DEF clientVars
  <2>2. UNCHANGED transaction_depth
    BY <1>27, DepthOfExecute DEF ServeExecute
  <2>3. Owed' = 0 /\ Owed = 0
    BY <2>1 DEF Owed
  <2>. QED  BY <1>5, <2>1, <2>2, <2>3
<1>28. CASE ActorExit
  <2>1. open' = open /\ open = <<>> /\ reply = "none" /\ reply' = reply
    BY <1>0, <1>28 DEF ActorExit, CallOK, clientVars
  <2>. QED  BY <2>1
<1>29. CASE UNCHANGED handleVars
  <2>1. InSync' = InSync
    BY <1>29 DEF handleVars, actorVars, callVars, clientVars, InSync, DropQueued, HasDrop, Owed
  <2>. QED  BY <2>1
<1>. QED
  BY <1>9, <1>10, <1>11, <1>12, <1>13, <1>14, <1>16, <1>18, <1>19, <1>22, <1>24,
     <1>25, <1>26, <1>27, <1>28, <1>29 DEF HandleNext, Client, Returns, Actor

-----------------------------------------------------------------------------
(* While no reply to a commit or rollback waits, every open transaction is *)
(* apart, and done.                                                        *)
AllDone == \A k \in 1..Len(open) : Done(k)

LEMMA PlainIs ==
  ASSUME InSync, WorkOK, reply = "none" \/ calling = "Begin"
  PROVE  Apart /\ AllDone
<1>1. /\ ~(calling = "Commit" /\ reply = "err")
      /\ ~(calling = "Rollback" /\ reply # "none")
  OBVIOUS
<1>. QED  BY <1>1 DEF WorkOK, ApartOK, DoneOK, AllDone

(* The same of the next state. *)
LEMMA PlainNext ==
  ASSUME Apart' /\ AllDone', reply' = "none" \/ calling' = "Begin"
  PROVE  WorkOK'
<1>1. /\ ~(calling' = "Commit" /\ reply' = "ok") /\ ~(calling' = "Rollback" /\ reply' = "ok")
  OBVIOUS
<1>. QED  BY <1>1 DEF WorkOK, ApartOK, DoneOK, EndedOK, AllDone

(* With no transaction open there is nothing to show. *)
LEMMA WorkEmpty ==
  ASSUME CallOK', open' = <<>>
  PROVE  WorkOK'
<1>1. Len(open') = 0
  OBVIOUS
<1>2. 1..Len(open') = {}
  BY <1>1
<1>3. calling' # "Rollback"
  BY DEF CallOK
<1>. QED  BY <1>1, <1>2, <1>3 DEF WorkOK, ApartOK, Apart, DoneOK, EndedOK

(* Facts of a state in step. *)
LEMMA InSyncFacts ==
  ASSUME DepthInv, InSync
  PROVE  /\ transaction_depth = Len(open) + Owed /\ handle_depth = Len(open)
         /\ ~HasDrop(queue)
         /\ reply = "none" => transaction_depth = Len(open)
         /\ Len(open) \in Nat /\ open \in Seq(SUBSET Work) /\ queue \in Seq(Command)
         /\ \A k \in 1..Len(open) : open[k] \in SUBSET Work
         /\ HandleTypeOK /\ CallOK
<1>1. /\ transaction_depth \in Nat /\ Len(open) \in Nat /\ open \in Seq(SUBSET Work)
      /\ queue \in Seq(Command)
  BY TypeFacts DEF DepthInv
<1>2. reply = "none" => Owed = 0
  BY DEF Owed
<1>. QED  BY <1>1, <1>2 DEF DepthInv, InSync, DropQueued

(* The client moves and the actor does not. *)
LEMMA WorkIdle ==
  ASSUME Apart, AllDone, Idle, UNCHANGED open, InFlight' = InFlight
  PROVE  Apart' /\ AllDone'
BY DEF Apart, AllDone, Done, Idle

(* A statement joins the others in the channel. *)
LEMMA InFlightIssued ==
  ASSUME HandleTypeOK, NEW w \in Work, ExecuteCall(w)
  PROVE  InFlight' = InFlight \cup {w}
<1>1. queue \in Seq(Command) /\ [op |-> "Execute", work |-> w] \in Command
  BY TypeFacts, CommandIs
<1>2. queue' = Append(queue, [op |-> "Execute", work |-> w])
  BY ExecuteCallIs
<1>3. Waiting(Append(queue, [op |-> "Execute", work |-> w])) = Waiting(queue) \cup {w}
  BY <1>1, WaitingSent
<1>4. InFlight' = Waiting(queue')
  BY DEF InFlight, Waiting
<1>. QED  BY <1>2, <1>3, <1>4, WaitingIs

(* A statement is issued in the innermost transaction. *)
LEMMA WorkIssued ==
  ASSUME DepthInv, ActorInv, InSync, WorkOK, FlightOK, NEW w \in Work, ExecuteCall(w)
  PROVE  Apart' /\ AllDone'
<1>. DEFINE n == Len(open)
<1>1. /\ Len(open') = n /\ \A k \in 1..(n - 1) : open'[k] = open[k]
      /\ open # <<>> => open'[n] = open[n] \cup {w}
      /\ w \notin Seen /\ reply = "none" /\ UNCHANGED actorVars
      /\ \A k \in 1..n : w \notin open[k]
  BY ExecuteCallIs DEF DepthInv, CallOK
<1>2. /\ n \in Nat /\ transaction_depth = n
      /\ open # <<>> => n >= 1
      /\ \A k \in 1..n : open[k] \in SUBSET Work
  BY <1>1, InSyncFacts
<1>3. InFlight' = InFlight \cup {w}
  BY InFlightIssued DEF DepthInv
<1>4. transaction_depth' = n /\ Before' = Before /\ Seen' = Seen
  BY <1>1, <1>2 DEF actorVars, Before, Seen
<1>5. \A k \in 1..n : Before[k] \subseteq Seen
  BY <1>2, StackIs
<1>6. Apart /\ AllDone
  BY <1>1, PlainIs
<1>7. \A k \in 1..n : open[k] \cap Before[k] = {}
  BY <1>2, <1>6 DEF Apart
<1>8. \A k \in 1..n : open[k] \ InFlight \subseteq IF k < n THEN Before[k + 1] ELSE Seen
  BY <1>2, <1>6 DEF AllDone, Done
<1>. HIDE DEF n
<1>9. \A k \in 1..n : open # <<>> /\ (k = n \/ k \in 1..(n - 1))
  <2>1. open = <<>> => n = 0
    BY DEF n
  <2>2. \A k \in 1..n : n # 0 /\ (k = n \/ k \in 1..(n - 1))
    BY <1>2
  <2>. QED  BY <2>1, <2>2
<1>10. ASSUME NEW k \in 1..n
       PROVE  /\ open'[k] \cap Before[k] = {}
              /\ open'[k] \ InFlight' \subseteq IF k < n THEN Before[k + 1] ELSE Seen
  <2>1. CASE k = n
    BY <1>1, <1>3, <1>5, <1>7, <1>8, <1>9, <2>1
  <2>2. CASE k \in 1..(n - 1)
    BY <1>1, <1>3, <1>7, <1>8, <2>2
  <2>. QED  BY <1>9, <2>1, <2>2
<1>11. Apart'
  BY <1>1, <1>4, <1>10 DEF Apart
<1>12. AllDone'
  BY <1>1, <1>4, <1>10 DEF AllDone, Done
<1>. QED  BY <1>11, <1>12

(* A new transaction has done nothing. *)
LEMMA WorkBegun ==
  ASSUME DepthInv, InSync, Apart, AllDone, reply = "ok", calling = "Begin",
         open' = Append(open, {}), Idle, InFlight = {}, InFlight' = {}
  PROVE  Apart' /\ AllDone'
<1>. DEFINE n == Len(open)
<1>1. /\ n \in Nat /\ Len(open') = n + 1 /\ open'[n + 1] = {}
      /\ \A k \in 1..n : open'[k] = open[k]
  BY InSyncFacts
<1>2. transaction_depth = n + 1
  <2>1. Owed = 1
    BY DEF Owed
  <2>. QED  BY <2>1, InSyncFacts
<1>3. transaction_depth' = n + 1 /\ Before' = Before /\ Seen' = Seen
  BY <1>2 DEF Idle
<1>. HIDE DEF n
<1>4. \A k \in 1..(n + 1) : k = n + 1 \/ k \in 1..n
  BY <1>1
<1>5. /\ \A k \in 1..n : open[k] \cap Before[k] = {}
      /\ \A k \in 1..n : open[k] \subseteq Before[k + 1]
  BY <1>1, <1>2 DEF Apart, AllDone, Done, n
<1>6. Apart'
  BY <1>1, <1>3, <1>4, <1>5 DEF Apart
<1>7. AllDone'
  BY <1>1, <1>3, <1>4, <1>5 DEF AllDone, Done
<1>. QED  BY <1>6, <1>7

(* The work of a committed nested transaction is the enclosing one's. *)
LEMMA WorkCommitted ==
  ASSUME DepthInv, ActorInv, InSync, WorkOK, reply = "ok", calling = "Commit",
         Committed, Idle, InFlight = {}, InFlight' = {}
  PROVE  Apart' /\ AllDone'
<1>. DEFINE n == Len(open)
<1>0. open # <<>>
  BY DEF DepthInv, CallOK
<1>1. /\ n \in Nat /\ n >= 1 /\ Len(open') = n - 1
      /\ \A k \in 1..(n - 2) : open'[k] = open[k]
      /\ n > 1 => open'[n - 1] = open[n - 1] \cup open[n]
  BY <1>0, CommittedIs, TypeFacts DEF DepthInv
<1>2. transaction_depth = n - 1
  <2>1. Owed = -1
    BY DEF Owed
  <2>. QED  BY <1>1, <2>1, InSyncFacts
<1>3. transaction_depth' = n - 1 /\ Before' = Before /\ Seen' = Seen
  BY <1>2 DEF Idle
<1>4. /\ Apart /\ AllDone
      /\ n > 1 => open[n] \cap Before[n - 1] = {}
  BY DEF WorkOK, ApartOK, DoneOK, EndedOK, AllDone
<1>5. \A k \in 1..n : /\ k <= n - 1 => open[k] \cap Before[k] = {}
                      /\ open[k] \subseteq IF k < n - 1 THEN Before[k + 1] ELSE Seen
  BY <1>2, <1>4 DEF Apart, AllDone, Done
<1>. HIDE DEF n
<1>6. \A k \in 1..(n - 1) : (k = n - 1 /\ n > 1) \/ (k \in 1..(n - 2) /\ k # n - 1)
  BY <1>1
<1>7. ASSUME NEW k \in 1..(n - 1)
      PROVE  /\ open'[k] \cap Before[k] = {}
             /\ open'[k] \subseteq IF k < n - 1 THEN Before[k + 1] ELSE Seen
  <2>1. CASE k = n - 1 /\ n > 1
    <3>1. n - 1 \in 1..n /\ n \in 1..n /\ ~(n < n - 1) /\ ~(n - 1 < n - 1)
      BY <1>1, <2>1
    <3>2. /\ open[n - 1] \cap Before[n - 1] = {} /\ open[n] \cap Before[n - 1] = {}
          /\ open[n - 1] \subseteq Seen /\ open[n] \subseteq Seen
      BY <1>1, <1>4, <1>5, <2>1, <3>1
    <3>3. open'[k] = open[n - 1] \cup open[n]
      BY <1>1, <2>1
    <3>. QED  BY <2>1, <3>1, <3>2, <3>3
  <2>2. CASE k \in 1..(n - 2)
    <3>1. k \in 1..n /\ k <= n - 1
      BY <1>1, <2>2
    <3>. QED  BY <1>1, <1>5, <2>2, <3>1
  <2>. QED  BY <1>6, <2>1, <2>2
<1>8. Apart'
  BY <1>1, <1>3, <1>7 DEF Apart
<1>9. AllDone'
  BY <1>1, <1>3, <1>7 DEF AllDone, Done
<1>. QED  BY <1>8, <1>9

(* Rolled-back work is gone. *)
LEMMA WorkRolledBack ==
  ASSUME DepthInv, InSync, WorkOK, reply = "ok", calling = "Rollback",
         open' = Front(open), Idle, InFlight = {}, InFlight' = {}
  PROVE  Apart' /\ AllDone'
<1>. DEFINE n == Len(open)
<1>0. open # <<>>
  BY DEF DepthInv, CallOK
<1>1. /\ n \in Nat /\ n >= 1 /\ Len(open') = n - 1
      /\ \A k \in 1..(n - 1) : open'[k] = open[k]
  BY <1>0, FrontIs, TypeFacts DEF DepthInv
<1>2. transaction_depth = n - 1
  <2>1. Owed = -1
    BY DEF Owed
  <2>. QED  BY <1>1, <2>1, InSyncFacts
<1>3. transaction_depth' = n - 1 /\ Before' = Before /\ Seen' = Seen
  BY <1>2 DEF Idle
<1>4. Apart /\ \A k \in 1..n : k < n => Done(k)
  BY DEF WorkOK, ApartOK, DoneOK
<1>5. \A k \in 1..(n - 1) : /\ open[k] \cap Before[k] = {}
                            /\ open[k] \subseteq IF k < n - 1 THEN Before[k + 1] ELSE Seen
  <2>1. \A k \in 1..(n - 1) : k \in 1..n /\ k < n /\ k <= n - 1
    BY <1>1
  <2>. QED  BY <1>2, <1>4, <2>1 DEF Apart, Done
<1>6. Apart'
  BY <1>1, <1>3, <1>5 DEF Apart
<1>7. AllDone'
  BY <1>1, <1>3, <1>5 DEF AllDone, Done
<1>. QED  BY <1>6, <1>7

(* The actor serves a call of a client that is in step.                    *)
LEMMA ServedInSync ==
  ASSUME DepthInv, InSync, NEW op \in Calls, Take(op)
  PROVE  /\ calling = op /\ calling' = op /\ reply = "none"
         /\ InFlight = {} /\ InFlight' = {}
         /\ open' = open /\ transaction_depth = Len(open)
         /\ op # "Begin" => transaction_depth > 0
         /\ phase # "exited"
<1>1. HandleTypeOK /\ CallOK /\ Len(open) \in Nat /\ open \in Seq(SUBSET Work)
  BY InSyncFacts
<1>2. /\ calling = op /\ reply = "none" /\ queue' = <<>> /\ phase # "exited"
      /\ \A i \in 1..Len(queue) : queue[i].op # "Execute"
      /\ UNCHANGED <<calling, clientVars>>
  BY <1>1, ServedCall DEF Take
<1>3. \A w : [op |-> "Execute", work |-> w].op = "Execute"
  OBVIOUS
<1>4. InFlight = {}
  BY <1>2, <1>3 DEF InFlight
<1>5. InFlight' = {}
  BY <1>2 DEF InFlight
<1>6. transaction_depth = Len(open)
  BY <1>2, InSyncFacts
<1>7. op # "Begin" => transaction_depth > 0
  <2>1. op # "Begin" => Len(open) # 0
    BY <1>1, <1>2, EmptySeq DEF CallOK, Calls
  <2>. QED  BY <1>1, <1>6, <2>1
<1>. QED  BY <1>2, <1>4, <1>5, <1>6, <1>7 DEF clientVars

(* A begin: what was done so far was done before the new transaction. *)
LEMMA WorkBegins ==
  ASSUME DepthInv, ActorInv, InSync, WorkOK, Take("Begin"),
         NEW r \in Result, HandleBegin(r), reply' = r
  PROVE  WorkOK'
<1>. DEFINE n == Len(open)
<1>0. "Begin" \in Calls
  BY DEF Calls
<1>1. /\ calling' = "Begin" /\ reply = "none" /\ InFlight = {} /\ InFlight' = {}
      /\ open' = open /\ transaction_depth = n
  BY <1>0, ServedInSync
<1>2. Apart /\ AllDone
  BY <1>1, PlainIs
<1>3. n \in Nat /\ Len(Before) = n /\ Before \in Seq(SUBSET Work) /\ Seen \in SUBSET Work
  BY <1>1, StackIs
<1>4. \A k \in 1..n : /\ open[k] \cap Before[k] = {}
                      /\ open[k] \subseteq IF k < n THEN Before[k + 1] ELSE Seen
  BY <1>1, <1>2, <1>3 DEF Apart, AllDone, Done
<1>5. CASE r = "ok"
  <2>1. transaction_depth' = n + 1 /\ Before' = Append(Before, Seen) /\ Seen' = Seen
    BY <1>1, <1>5, BeginDoes
  <2>2. (\A k \in 1..n : Before'[k] = Before[k]) /\ Before'[n + 1] = Seen
    BY <1>3, <2>1, PushIs
  <2>. HIDE DEF n
  <2>3. \A k \in 1..n : /\ k < n + 1
                        /\ k = n \/ (k < n /\ k + 1 \in 1..n)
    BY <1>3
  <2>4. Apart'
    BY <1>1, <1>4, <2>2 DEF Apart, n
  <2>5. ASSUME NEW k \in 1..n  PROVE open[k] \subseteq Before'[k + 1]
    BY <1>4, <2>2, <2>3
  <2>6. AllDone'
    BY <1>1, <2>1, <2>3, <2>5 DEF AllDone, Done, n
  <2>. QED  BY <1>1, <2>4, <2>6, PlainNext
<1>6. CASE r # "ok"
  <2>1. Idle
    BY <1>6, BeginDoes
  <2>2. Apart' /\ AllDone'
    BY <1>1, <1>2, <2>1, WorkIdle
  <2>. QED  BY <1>1, <2>2, PlainNext
<1>. QED  BY <1>5, <1>6

(* A commit: what is seen stays, and one level less began with it. *)
LEMMA WorkCommits ==
  ASSUME DepthInv, ActorInv, InSync, WorkOK, Take("Commit"),
         NEW r \in Result, HandleCommit(r), reply' = r
  PROVE  WorkOK'
<1>. DEFINE n == Len(open)
<1>0. "Commit" \in Calls
  BY DEF Calls
<1>1. /\ calling' = "Commit" /\ reply = "none" /\ InFlight = {} /\ InFlight' = {}
      /\ open' = open /\ transaction_depth = n /\ transaction_depth > 0
  BY <1>0, ServedInSync
<1>2. Apart /\ AllDone
  BY <1>1, PlainIs
<1>3. /\ n \in Nat /\ n > 0 /\ Len(Before) = n /\ Before \in Seq(SUBSET Work)
      /\ \A k \in 1..n : Before[k] \subseteq Seen
      /\ \A k \in 1..(n - 1) : Before[k] \subseteq Before[k + 1]
  BY <1>1, StackIs
<1>4. \A k \in 1..n : /\ open[k] \cap Before[k] = {}
                      /\ open[k] \subseteq IF k < n THEN Before[k + 1] ELSE Seen
  BY <1>1, <1>2, <1>3 DEF Apart, AllDone, Done
<1>5. CASE r = "ok"
  <2>1. transaction_depth' = n - 1 /\ Before' = Nested!Outer(Before) /\ Seen' = Seen
    BY <1>1, <1>5, CommitDoes DEF Popped
  <2>2. \A k \in 1..(n - 1) : Before'[k] = Before[k]
    BY <1>3, <2>1, OuterIs
  <2>. HIDE DEF n
  <2>3. Apart'
    <3>1. \A k \in 1..n : k <= n - 1 => k \in 1..(n - 1)
      BY <1>3
    <3>. QED  BY <1>1, <1>4, <2>1, <2>2, <3>1 DEF Apart, n
  <2>4. ASSUME NEW k \in 1..n
        PROVE  open[k] \subseteq IF k < n - 1 THEN Before'[k + 1] ELSE Seen
    <3>1. CASE k < n - 1
      <4>1. k < n /\ k + 1 \in 1..(n - 1)
        BY <1>3, <3>1
      <4>. QED  BY <1>4, <2>2, <3>1, <4>1
    <3>2. CASE ~(k < n - 1)
      <4>1. k < n => k + 1 \in 1..n
        BY <1>3
      <4>. QED  BY <1>3, <1>4, <3>2, <4>1
    <3>. QED  BY <3>1, <3>2
  <2>5. AllDone'
    BY <1>1, <2>1, <2>4 DEF AllDone, Done, n
  <2>6. n > 1 => open[n] \cap Before'[n - 1] = {}
    <3>1. n > 1 => n - 1 \in 1..(n - 1) /\ (n - 1) + 1 = n /\ n \in 1..n
      BY <1>3
    <3>. QED  BY <1>3, <1>4, <2>2, <3>1
  <2>. QED  BY <1>1, <2>3, <2>5, <2>6 DEF WorkOK, ApartOK, DoneOK, EndedOK, AllDone, n
<1>6. CASE r = "err" /\ Idle
  <2>1. Apart' /\ AllDone'
    BY <1>1, <1>2, <1>6, WorkIdle
  <2>. QED  BY <1>1, <1>6, <2>1 DEF WorkOK, ApartOK, DoneOK, EndedOK, AllDone
<1>7. CASE r = "err" /\ n = 1 /\ transaction_depth' = n /\ Seen' = Seen
  <2>1. \A k \in 1..n : k = 1 /\ ~(k < n)
    BY <1>7
  <2>2. \A k \in 1..n : open[k] \subseteq Seen
    BY <1>4, <2>1
  <2>. HIDE DEF n
  <2>3. AllDone'
    BY <1>1, <1>7, <2>1, <2>2 DEF AllDone, Done, n
  <2>. QED  BY <1>1, <1>7, <2>3 DEF WorkOK, ApartOK, DoneOK, EndedOK, AllDone
<1>. QED  BY <1>1, <1>5, <1>6, <1>7, CommitDoes DEF Result

(* A rollback: what is seen is what the innermost transaction began with. *)
LEMMA WorkRollsBack ==
  ASSUME DepthInv, ActorInv, InSync, WorkOK, Take("Rollback"),
         NEW r \in Result, HandleRollback(r), reply' = r
  PROVE  WorkOK'
<1>. DEFINE n == Len(open)
<1>0. "Rollback" \in Calls
  BY DEF Calls
<1>1. /\ calling' = "Rollback" /\ reply = "none" /\ InFlight = {} /\ InFlight' = {}
      /\ open' = open /\ transaction_depth = n /\ transaction_depth > 0
  BY <1>0, ServedInSync
<1>2. Apart /\ AllDone
  BY <1>1, PlainIs
<1>3. n \in Nat /\ n > 0 /\ Len(Before) = n /\ Before \in Seq(SUBSET Work)
  BY <1>1, StackIs
<1>4. \A k \in 1..n : /\ open[k] \cap Before[k] = {}
                      /\ open[k] \subseteq IF k < n THEN Before[k + 1] ELSE Seen
  BY <1>1, <1>2, <1>3 DEF Apart, AllDone, Done
<1>5. CASE r = "ok"
  <2>1. transaction_depth' = n - 1 /\ Before' = Nested!Outer(Before) /\ Seen' = Before[n]
    BY <1>1, <1>5, RollbackDoes DEF Popped
  <2>2. \A k \in 1..(n - 1) : Before'[k] = Before[k]
    BY <1>3, <2>1, OuterIs
  <2>. HIDE DEF n
  <2>3. Apart'
    <3>1. \A k \in 1..n : k <= n - 1 => k \in 1..(n - 1)
      BY <1>3
    <3>. QED  BY <1>1, <1>4, <2>1, <2>2, <3>1 DEF Apart, n
  <2>4. ASSUME NEW k \in 1..n, k < n
        PROVE  open[k] \subseteq IF k < n - 1 THEN Before'[k + 1] ELSE Seen'
    <3>1. open[k] \subseteq Before[k + 1]
      BY <1>4, <2>4
    <3>2. CASE k < n - 1
      <4>1. k + 1 \in 1..(n - 1)
        BY <1>3, <3>2
      <4>. QED  BY <2>2, <3>1, <3>2, <4>1
    <3>3. CASE ~(k < n - 1)
      <4>1. k + 1 = n
        BY <1>3, <2>4, <3>3
      <4>. QED  BY <2>1, <3>1, <3>3, <4>1
    <3>. QED  BY <3>2, <3>3
  <2>5. \A k \in 1..Len(open') : k < Len(open') => Done(k)'
    BY <1>1, <2>1, <2>4 DEF Done, n
  <2>6. open[n] \cap Seen' = {}
    <3>1. n \in 1..n
      BY <1>3
    <3>. QED  BY <1>4, <2>1, <3>1
  <2>7. reply' = "ok"
    BY <1>5
  <2>. QED  BY <1>1, <2>3, <2>5, <2>6, <2>7 DEF WorkOK, ApartOK, DoneOK, EndedOK, n
<1>6. CASE r # "ok"
  <2>1. UNCHANGED <<transaction_depth, Before>> /\ reply' = "err"
    BY <1>1, <1>6, RollbackDoes DEF Result
  <2>2. Apart'
    BY <1>1, <1>2, <2>1 DEF Apart
  <2>. QED  BY <1>1, <2>1, <2>2 DEF WorkOK, ApartOK, DoneOK, EndedOK
<1>. QED  BY <1>5, <1>6

(* A statement is served in the innermost transaction. *)
LEMMA WorkServed ==
  ASSUME AllFailuresReported, DepthInv, ActorInv, InSync, WorkOK, FlightOK, ServeExecute
  PROVE  WorkOK'
<1>. DEFINE n == Len(open)
            w == Head(queue).work
<1>1. /\ reply = "none" /\ reply' = "none" /\ open' = open /\ w \in Work /\ HandleExecute(w)
      /\ queue # <<>> /\ queue' = Tail(queue) /\ Head(queue).op = "Execute"
  BY ServeExecuteIs DEF DepthInv, clientVars
<1>2. n \in Nat /\ transaction_depth = n /\ queue \in Seq(Command)
  BY <1>1, InSyncFacts
<1>3. Apart /\ AllDone
  BY <1>1, PlainIs
<1>4. transaction_depth' = transaction_depth /\ Before' = Before /\ Seen' = Seen \cup {w}
  BY <1>1, ExecuteDoes
<1>5. InFlight' = InFlight \ {w} /\ w \in InFlight
  <2>1. InFlight' = Waiting(queue')
    BY DEF InFlight, Waiting
  <2>. QED  BY <1>1, <1>2, <2>1, WaitingTaken, WaitingIs DEF FlightOK
<1>6. \A k \in 1..(n - 1) : w \notin open[k]
  BY <1>5 DEF FlightOK
<1>7. Apart'
  BY <1>1, <1>3, <1>4 DEF Apart
<1>. HIDE DEF n, w
<1>8. ASSUME NEW k \in 1..n
      PROVE  open[k] \ InFlight' \subseteq IF k < n THEN Before[k + 1] ELSE Seen'
  <2>1. open[k] \ InFlight \subseteq IF k < n THEN Before[k + 1] ELSE Seen
    BY <1>2, <1>3 DEF AllDone, Done, n
  <2>2. CASE k < n
    <3>1. k \in 1..(n - 1)
      BY <1>2, <2>2
    <3>. QED  BY <1>5, <1>6, <2>1, <2>2, <3>1
  <2>3. CASE ~(k < n)
    BY <1>4, <1>5, <2>1, <2>3
  <2>. QED  BY <2>2, <2>3
<1>9. AllDone'
  BY <1>1, <1>2, <1>4, <1>8 DEF AllDone, Done, n
<1>. QED  BY <1>1, <1>7, <1>9, PlainNext

(* Every step keeps the open transactions apart and done. *)
LEMMA WorkKept ==
  ASSUME AllFailuresReported, DepthInv, ServingInv, WorkOK, FlightOK,
         [HandleNext]_handleVars
  PROVE  WorkOK'
<1>. /\ HandleTypeOK /\ CallOK /\ queue \in Seq(Command)
     /\ {"Begin", "Commit", "Rollback"} = Calls
  BY TypeFacts DEF DepthInv, Calls
<1>1. CallOK' /\ HandleTypeOK'
  BY CallKept, TypeKept
<1>2. CASE ~InSync'
  BY <1>2 DEF WorkOK
<1>3. CASE open' = <<>>
  BY <1>1, <1>3, WorkEmpty
<1>. SUFFICES ASSUME InSync, InSync', open' # <<>>  PROVE WorkOK'
  BY <1>2, <1>3, Resync
<1>4. ASSUME NEW level, StartRollback(level)  PROVE WorkOK'
  <2>1. HasDrop(queue')
    BY <1>4, DropSent, CommandIs DEF StartRollback, Send
  <2>. QED  BY <2>1 DEF InSync, DropQueued
<1>5. ASSUME UNCHANGED <<actorVars, open>>, reply = "none" \/ calling = "Begin",
             reply' = "none", InFlight' = InFlight
      PROVE  WorkOK'
  <2>1. Apart /\ AllDone /\ Idle
    BY <1>5, PlainIs, IdleIs
  <2>2. Apart' /\ AllDone'
    BY <1>5, <2>1, WorkIdle
  <2>. QED  BY <1>5, <2>2, PlainNext
<1>6. CASE ServeExecute
  BY <1>6, WorkServed, ServeExecuteIs DEF ServingInv
<1>7. ASSUME NEW w \in Work, ExecuteCall(w)  PROVE WorkOK'
  <2>1. phase # "exited" /\ calling = "none" /\ reply' = reply
    BY <1>7, ExecuteCallIs
  <2>2. ActorInv /\ reply' = "none"
    BY <2>1 DEF ServingInv, CallOK
  <2>3. Apart' /\ AllDone'
    BY <1>7, <2>2, WorkIssued
  <2>. QED  BY <2>2, <2>3, PlainNext
<1>8. CASE ~ServeExecute /\ \A w \in Work : ~ExecuteCall(w)
  <2>0. InFlight' = InFlight
    BY <1>8, FlightStep DEF FlightOK
  <2>1. ASSUME handle_depth = 0, open # <<>>  PROVE FALSE
    BY <2>1, EmptySeq, InSyncFacts
  <2>2. ASSUME NEW op, Call(op), calling = "none"  PROVE WorkOK'
    <3>1. reply = "none" /\ UNCHANGED <<actorVars, open, reply>>
      BY <2>2 DEF CallOK, Call, clientVars
    <3>. QED  BY <1>5, <2>0, <3>1
  <2>3. CASE BeginCall
    BY <2>2, <2>3 DEF BeginCall, CanCall
  <2>4. CASE CommitCall
    BY <2>1, <2>2, <2>4 DEF CommitCall, CanCall
  <2>5. CASE RollbackCall
    BY <2>1, <2>2, <2>5 DEF RollbackCall, CanCall
  <2>6. CASE DropTransaction
    BY <1>4, <2>6 DEF DropTransaction
  <2>7. CASE CloseHandle
    <3>1. reply = "none" /\ UNCHANGED <<actorVars, open, reply>>
      BY <2>7 DEF CloseHandle, CallOK, clientVars
    <3>. QED  BY <1>5, <2>0, <3>1
  <2>8. ASSUME NEW op, Return(op)
        PROVE  /\ calling = op /\ reply # "none" /\ reply' = "none"
               /\ InFlight = {} /\ InFlight' = {} /\ ActorInv
    <3>1. calling = op /\ reply # "none" /\ reply' = "none"
      BY <2>8 DEF Return
    <3>2. queue = <<>> /\ phase # "exited"
      BY <3>1 DEF CallOK
    <3>3. InFlight = {}
      BY <3>2 DEF InFlight
    <3>. QED  BY <2>0, <3>1, <3>2, <3>3 DEF ServingInv
  <2>9. CASE BeginReturn
    <3>1. Return("Begin") /\ UNCHANGED actorVars
      BY <2>9 DEF BeginReturn
    <3>2. CASE reply = "ok" /\ open' = Append(open, {})
      <4>1. /\ Apart /\ AllDone /\ Idle /\ calling = "Begin" /\ reply' = "none"
            /\ InFlight = {} /\ InFlight' = {}
        BY <2>8, <3>1, PlainIs, IdleIs
      <4>2. Apart' /\ AllDone'
        BY <3>2, <4>1, WorkBegun
      <4>. QED  BY <4>1, <4>2, PlainNext
    <3>3. CASE UNCHANGED open
      BY <1>5, <2>0, <2>8, <3>1, <3>3
    <3>. QED  BY <2>9, <3>2, <3>3 DEF BeginReturn
  <2>10. CASE CommitReturn
    <3>1. Return("Commit") /\ UNCHANGED actorVars
      BY <2>10 DEF CommitReturn
    <3>2. CASE reply = "ok" /\ Committed
      <4>1. /\ Idle /\ calling = "Commit" /\ reply' = "none" /\ ActorInv
            /\ InFlight = {} /\ InFlight' = {}
        BY <2>8, <3>1, IdleIs
      <4>2. Apart' /\ AllDone'
        BY <3>2, <4>1, WorkCommitted
      <4>. QED  BY <4>1, <4>2, PlainNext
    <3>. QED  BY <1>4, <2>10, <3>2 DEF CommitReturn
  <2>11. CASE RollbackReturn
    <3>1. Return("Rollback") /\ UNCHANGED actorVars /\ open' = Front(open)
      BY <2>11 DEF RollbackReturn, Discarded
    <3>2. CASE reply = "ok"
      <4>1. /\ Idle /\ calling = "Rollback" /\ reply' = "none"
            /\ InFlight = {} /\ InFlight' = {}
        BY <2>8, <3>1, IdleIs
      <4>2. Apart' /\ AllDone'
        BY <3>1, <3>2, <4>1, WorkRolledBack
      <4>. QED  BY <4>1, <4>2, PlainNext
    <3>. QED  BY <1>4, <2>11, <3>2 DEF RollbackReturn
  <2>12. ASSUME NEW op, Take(op)  PROVE ActorInv
    BY <2>12 DEF Take, ServingInv
  <2>13. CASE ServeBegin
    BY <2>12, <2>13, WorkBegins DEF ServeBegin
  <2>14. CASE ServeCommit
    BY <2>12, <2>14, WorkCommits DEF ServeCommit
  <2>15. CASE ServeRollback
    BY <2>12, <2>15, WorkRollsBack DEF ServeRollback
  <2>16. CASE ServeStartRollback
    <3>1. queue # <<>> /\ Head(queue).op = "StartRollback"
      BY <2>16 DEF ServeStartRollback, Take
    <3>2. HasDrop(queue)
      BY <3>1, DropTaken
    <3>. QED  BY <3>2, InSyncFacts
  <2>17. CASE ActorExit
    <3>1. open' = open /\ open = <<>>
      BY <2>17 DEF ActorExit, CallOK, clientVars
    <3>. QED  BY <3>1
  <2>18. CASE UNCHANGED handleVars
    BY <2>18 DEF handleVars, actorVars, callVars, clientVars, WorkOK, InSync, DropQueued,
       HasDrop, Owed, ApartOK, Apart, DoneOK, Done, EndedOK, Before, Seen, InFlight
  <2>. QED
    BY <1>8, <2>3, <2>4, <2>5, <2>6, <2>7, <2>9, <2>10, <2>11, <2>13, <2>14, <2>15,
       <2>16, <2>17, <2>18 DEF HandleNext, Client, Returns, Actor
<1>. QED  BY <1>6, <1>7, <1>8

-----------------------------------------------------------------------------
(* What is kept. *)

(* The client's word is good, until a nested transaction is dropped.       *)
LEMMA KeptKept ==
  ASSUME AllFailuresReported, WorkInv, [HandleNext]_handleVars
  PROVE  KeptIsDurableAtFirst'
<1>0. /\ HandleTypeOK /\ CallOK /\ AgreeOK /\ DepthInv /\ ServingInv /\ WorkOK
      /\ FlightOK /\ OutsideOK
      /\ Len(open) \in Nat /\ nested_dropped \in BOOLEAN
      /\ open \in Seq(SUBSET Work) /\ queue \in Seq(Command)
      /\ transaction_depth \in Nat
      /\ {"Begin", "Commit", "Rollback"} = Calls
  BY TypeFacts DEF WorkInv, DepthInv, Calls
<1>. SUFFICES ASSUME ~nested_dropped'  PROVE kept' \ InFlight' \subseteq session'.durable
  BY DEF KeptIsDurableAtFirst, KeptIsDurable
<1>1. ~nested_dropped
  <2>1. ASSUME NEW level, StartRollback(level)  PROVE ~nested_dropped
    <3>1. nested_dropped' = (nested_dropped \/ level > 1)
      BY <2>1 DEF StartRollback, NoteLevel
    <3>. QED  BY <3>1
  <2>2. ASSUME UNCHANGED nested_dropped  PROVE ~nested_dropped
    BY <2>2
  <2>3. CASE Client
    <3>1. CASE BeginCall \/ CommitCall \/ RollbackCall \/ CloseHandle
               \/ \E w \in Work : ExecuteCall(w)
      BY <2>2, <3>1 DEF BeginCall, CommitCall, RollbackCall, CloseHandle, ExecuteCall, Call,
         Committed, clientVars
    <3>2. CASE DropTransaction
      BY <2>1, <3>2 DEF DropTransaction
    <3>. QED  BY <2>3, <3>1, <3>2 DEF Client
  <2>4. CASE Returns
    BY <2>1, <2>2, <2>4 DEF Returns, BeginReturn, CommitReturn, RollbackReturn, Committed
  <2>5. CASE Actor \/ UNCHANGED handleVars
    BY <2>2, <2>5 DEF Actor, ServeBegin, ServeCommit, ServeRollback, ServeStartRollback,
       ServeExecute, Take, ActorExit, handleVars, clientVars
  <2>. QED  BY <2>3, <2>4, <2>5 DEF HandleNext
<1>2. /\ kept \ InFlight \subseteq session.durable
      /\ session.durable \subseteq session'.durable
      /\ open # <<>> => handle_depth # 0
  <2>1. open # <<>> => Len(open) # 0
    BY <1>0, EmptySeq
  <2>. QED  BY <1>0, <1>1, <2>1, SeenStep
            DEF WorkInv, KeptIsDurableAtFirst, KeptIsDurable, AgreeOK
<1>3. CASE ServeExecute
  <2>. DEFINE w == Head(queue).work
  <2>1. /\ w \in Work /\ HandleExecute(w) /\ kept' = kept /\ reply = "none"
        /\ queue # <<>> /\ queue' = Tail(queue) /\ Head(queue).op = "Execute"
        /\ phase # "exited"
    BY <1>0, <1>3, ServeExecuteIs DEF clientVars
  <2>2. InFlight' = InFlight \ {w} /\ w \in InFlight
    <3>1. InFlight' = Waiting(queue')
      BY DEF InFlight, Waiting
    <3>. QED  BY <1>0, <2>1, <3>1, WaitingTaken, WaitingIs DEF FlightOK
  <2>3. ASSUME w \in kept  PROVE w \in session'.durable
    <3>1. open = <<>>
      BY <1>0, <1>1, <2>2, <2>3 DEF OutsideOK
    <3>2. ~HasDrop(queue)
      <4>1. NoDropBehind(queue, kept)
        BY <1>0, <1>1 DEF OutsideOK, NoDropBehind
      <4>2. Head(queue) = queue[1] /\ Len(queue) \in Nat /\ Len(queue) >= 1
        BY <1>0, <2>1, Taken
      <4>3. \A j \in 1..Len(queue) : j = 1 \/ 1 < j
        BY <4>2
      <4>4. 1 \in 1..Len(queue) /\ queue[1].op = "Execute" /\ queue[1].work \in kept
        BY <2>1, <2>3, <4>2
      <4>. QED  BY <4>1, <4>3, <4>4 DEF NoDropBehind, HasDrop
    <3>3. transaction_depth = 0
      <4>1. Owed = 0 /\ Len(open) = 0
        BY <2>1, <3>1 DEF Owed
      <4>. QED  BY <1>0, <1>1, <3>2, <4>1 DEF AgreeOK, DropQueued
    <3>4. session'.durable = Seen \cup {w}
      BY <1>0, <2>1, <3>3, ExecuteDoes DEF ServingInv
    <3>. QED  BY <3>4
  <2>. HIDE DEF w
  <2>. QED  BY <1>2, <2>1, <2>2, <2>3
<1>4. ASSUME NEW w \in Work, ExecuteCall(w)
      PROVE  kept' \ InFlight' \subseteq session'.durable
  <2>1. InFlight' = InFlight \cup {w} /\ kept' \subseteq kept \cup {w}
    BY <1>0, <1>4, InFlightIssued, ExecuteCallIs
  <2>. QED  BY <1>2, <2>1
<1>5. CASE ~ServeExecute /\ \A w \in Work : ~ExecuteCall(w)
  <2>1. InFlight' = InFlight
    BY <1>0, <1>5, FlightStep DEF FlightOK
  <2>2. ASSUME UNCHANGED kept  PROVE kept' \ InFlight' \subseteq session'.durable
    BY <1>2, <2>1, <2>2
  <2>3. CASE CommitReturn
    <3>1. CASE reply = "ok" /\ Committed /\ Len(open) = 1
      <4>1. calling = "Commit" /\ phase # "exited" /\ open # <<>> /\ queue = <<>>
        BY <1>0, <2>3, <3>1 DEF CommitReturn, Return, CallOK
      <4>2. UNCHANGED actorVars /\ kept' = kept \cup open[1]
        BY <1>0, <2>3, <3>1, <4>1, CommittedIs DEF CommitReturn
      <4>3. InSync
        BY <1>0, <1>1, <4>1, NoDrop DEF AgreeOK, InSync, DropQueued
      <4>4. transaction_depth = 0
        <5>1. Owed = -1
          BY <3>1, <4>1 DEF Owed
        <5>. QED  BY <3>1, <4>3, <5>1 DEF InSync
      <4>5. Done(1)
        <5>1. 1 \in 1..Len(open)
          BY <3>1
        <5>. QED  BY <1>0, <4>1, <4>3, <5>1 DEF WorkOK, DoneOK
      <4>6. InFlight = {} /\ Seen = session.durable
        BY <1>0, <4>1, <4>4, StackIs DEF InFlight, ServingInv
      <4>7. open[1] \subseteq session.durable
        BY <4>4, <4>5, <4>6 DEF Done
      <4>. QED  BY <1>2, <2>1, <4>2, <4>7
    <3>2. CASE reply = "ok" /\ Committed /\ Len(open) # 1
      BY <2>2, <3>2 DEF Committed
    <3>3. CASE Unknown
      BY <2>2, <3>3 DEF Unknown
    <3>. QED  BY <2>3, <3>1, <3>2, <3>3 DEF CommitReturn
  <2>4. CASE CommitCall
    BY <1>2, <2>2, <2>4 DEF CommitCall, Call, clientVars
  <2>5. CASE BeginCall \/ RollbackCall \/ DropTransaction \/ CloseHandle
    BY <2>2, <2>5 DEF BeginCall, RollbackCall, DropTransaction, CloseHandle, Call,
       Discarded, clientVars
  <2>6. CASE BeginReturn \/ RollbackReturn
    BY <2>2, <2>6 DEF BeginReturn, RollbackReturn, Discarded
  <2>7. CASE Actor \/ UNCHANGED handleVars
    BY <2>2, <2>7 DEF Actor, ServeBegin, ServeCommit, ServeRollback, ServeStartRollback,
       ServeExecute, Take, ActorExit, handleVars, clientVars
  <2>. QED  BY <1>5, <2>3, <2>4, <2>5, <2>6, <2>7 DEF HandleNext, Client, Returns
<1>. QED  BY <1>3, <1>4, <1>5

(* Where the client's work is. *)
LEMMA WorkInvariance == AllFailuresReported => (HandleSpec => []WorkInv)
<1>. SUFFICES ASSUME AllFailuresReported  PROVE HandleSpec => []WorkInv
  OBVIOUS
<1>1. HandleInit => WorkInv
  <2>. SUFFICES ASSUME HandleInit  PROVE WorkInv
    OBVIOUS
  <2>1. open = <<>> /\ queue = <<>> /\ kept = {} /\ calling = "none" /\ ActorInit
    BY DEF HandleInit
  <2>2. DepthInv /\ ServingInv
    BY <2>1, HandleInitDepth, InitInv DEF ServingInv
  <2>3. Len(open) = 0 /\ InFlight = {} /\ Len(queue) = 0
    BY <2>1 DEF InFlight
  <2>4. WorkOK
    BY <2>1, <2>3 DEF WorkOK, ApartOK, Apart, DoneOK, EndedOK
  <2>5. FlightOK /\ OutsideOK /\ KeptIsDurableAtFirst
    BY <2>1, <2>3, WaitingIs DEF FlightOK, OutsideOK, KeptIsDurableAtFirst, KeptIsDurable
  <2>. QED  BY <2>2, <2>4, <2>5 DEF WorkInv
<1>2. ASSUME WorkInv, [HandleNext]_handleVars  PROVE WorkInv'
  <2>1. /\ HandleTypeOK /\ CallOK /\ AheadOK /\ AgreeOK /\ DepthInv /\ ServingInv
        /\ WorkOK /\ FlightOK /\ OutsideOK /\ OnceEach(queue)
    BY <1>2 DEF WorkInv, DepthInv, FlightOK
  <2>2. DepthInv'
    BY <1>2, <2>1, TypeKept, CallKept, AheadKept, AgreeKept DEF DepthInv
  <2>3. ServingInv'
    BY <1>2, <2>1, ServingKept
  <2>4. WorkOK'
    BY <1>2, <2>1, WorkKept
  <2>5. FlightOK'
    BY <1>2, <2>1, FlightKept
  <2>6. OutsideOK'
    BY <1>2, <2>1, OutsideKept
  <2>7. KeptIsDurableAtFirst'
    BY <1>2, KeptKept
  <2>. QED  BY <2>2, <2>3, <2>4, <2>5, <2>6, <2>7 DEF WorkInv
<1>. QED  BY <1>1, <1>2, PTL DEF HandleSpec

(* What the client was told is committed is committed, and what it issued  *)
(* outside every transaction is durable once it is served, as long as no   *)
(* nested transaction was dropped and every failure is reported.           *)
THEOREM HandleKeepsWhatItCommits ==
  AllFailuresReported => (HandleSpec => []KeptIsDurableAtFirst)
<1>. SUFFICES ASSUME AllFailuresReported  PROVE HandleSpec => []KeptIsDurableAtFirst
  OBVIOUS
<1>1. WorkInv => KeptIsDurableAtFirst
  BY DEF WorkInv
<1>. QED  BY <1>1, WorkInvariance, PTL

-----------------------------------------------------------------------------
(* The depth behind the channel. *)
LEMMA ReachesNone ==
  ASSUME NEW d \in Nat, NEW n \in Int, NEW s
  PROVE  Reaches(<<>>, d, n, s) <=> n <= d
<1>1. Len(<<>>) = 0 /\ 1..Len(<<>>) = {} /\ 0..Len(<<>>) = {0}
  OBVIOUS
<1>2. ASSUME n <= d  PROVE Reaches(<<>>, d, n, s)
  <2>. DEFINE f == [i \in 0..0 |-> d]
  <2>1. f \in [0..0 -> Nat] /\ f[0] = d
    OBVIOUS
  <2>. HIDE DEF f
  <2>. QED  BY <1>1, <1>2, <2>1 DEF Reaches, Foretells
<1>. QED  BY <1>1, <1>2 DEF Reaches, Foretells

(* Fewer transactions, and more statements left out.                       *)
LEMMA ReachesLess ==
  ASSUME NEW q \in Seq(Command), NEW d, NEW n \in Int, NEW s, Reaches(q, d, n, s),
         NEW m \in Int, m <= n, NEW t, s \subseteq t
  PROVE  Reaches(q, d, m, t)
<1>1. PICK f \in [0..Len(q) -> Nat] :
        /\ Foretells(q, d, f)
        /\ n <= f[Len(q)]
        /\ \A i \in 1..Len(q) : q[i].op = "Execute" /\ q[i].work \notin s => f[i - 1] >= 1
  BY DEF Reaches
<1>2. f[Len(q)] \in Nat
  BY <1>1
<1>3. m <= f[Len(q)]
  BY <1>1, <1>2
<1>4. \A i \in 1..Len(q) : q[i].op = "Execute" /\ q[i].work \notin t => f[i - 1] >= 1
  BY <1>1
<1>. QED  BY <1>1, <1>3, <1>4 DEF Reaches

(* No more than now; and outside of every transaction nothing is served    *)
(* inside of one.                                                          *)
LEMMA ReachesNow ==
  ASSUME NEW q \in Seq(Command), NEW d \in Nat, NEW n \in Int, NEW s, Reaches(q, d, n, s)
  PROVE  n <= d /\ (d = 0 => Waiting(q) \subseteq s)
<1>1. PICK f \in [0..Len(q) -> Nat] :
        /\ Foretells(q, d, f)
        /\ n <= f[Len(q)]
        /\ \A i \in 1..Len(q) : q[i].op = "Execute" /\ q[i].work \notin s => f[i - 1] >= 1
  BY DEF Reaches
<1>2. /\ Len(q) \in Nat /\ f[0] = d
      /\ \A i, j \in 0..Len(q) : i <= j => f[j] <= f[i]
      /\ \A i \in 0..Len(q) : f[i] \in Nat
  BY <1>1 DEF Foretells
<1>. DEFINE k == Len(q)
<1>. HIDE DEF k
<1>2a. /\ k \in 0..k /\ 0 \in 0..k /\ \A i \in 0..k : 0 <= i
       /\ \A i \in 1..k : i - 1 \in 0..k
  BY <1>2 DEF k
<1>3. /\ k \in 0..k /\ \A i \in 1..k : i - 1 \in 0..k
      /\ \A i \in 0..k : f[i] \in Nat /\ f[i] <= d
  BY <1>2, <1>2a DEF k
<1>4. n <= d
  BY <1>1, <1>2, <1>3 DEF k
<1>5. ASSUME d = 0, NEW w \in Waiting(q)  PROVE w \in s
  <2>1. PICK i \in 1..Len(q) : q[i] = [op |-> "Execute", work |-> w]
    BY <1>5 DEF Waiting
  <2>2. q[i].op = "Execute" /\ q[i].work = w
    BY <2>1
  <2>3. ~(f[i - 1] >= 1)
    <3>1. i - 1 \in 0..k
      BY <1>3 DEF k
    <3>2. f[i - 1] \in Nat /\ f[i - 1] <= 0
      BY <1>3, <1>5, <3>1
    <3>. QED  BY <3>2
  <2>. QED  BY <1>1, <2>2, <2>3
<1>. QED  BY <1>4, <1>5

(* One command more.                                                       *)
LEMMA ReachesSent ==
  ASSUME NEW q \in Seq(Command), NEW d \in Nat, NEW n \in Int, NEW s, Reaches(q, d, n, s),
         NEW c \in Command
  PROVE  /\ c.op # "StartRollback" /\ c.op # "Execute" => Reaches(Append(q, c), d, n, s)
         /\ c.op = "Execute" /\ (n >= 1 \/ c.work \in s) => Reaches(Append(q, c), d, n, s)
         /\ c.op = "StartRollback" =>
              /\ Reaches(Append(q, c), d, n - 1, s)
              /\ n <= 0 => Reaches(Append(q, c), d, n, s)
<1>. DEFINE l == Append(q, c)
            k == Len(q)
<1>1. PICK f \in [0..k -> Nat] :
        /\ Foretells(q, d, f)
        /\ n <= f[k]
        /\ \A i \in 1..k : q[i].op = "Execute" /\ q[i].work \notin s => f[i - 1] >= 1
  BY DEF Reaches
<1>2. /\ k \in Nat /\ Len(l) = k + 1 /\ l[k + 1] = c
      /\ \A i \in 1..k : l[i] = q[i]
  BY Sent
<1>3. /\ f[0] = d
      /\ \A i \in 1..k : f[i] = IF q[i].op = "StartRollback" /\ f[i - 1] > 0
                                THEN f[i - 1] - 1 ELSE f[i - 1]
      /\ \A i, j \in 0..k : i <= j => f[j] <= f[i]
  BY <1>1 DEF Foretells
<1>. DEFINE e == IF c.op = "StartRollback" /\ f[k] > 0 THEN f[k] - 1 ELSE f[k]
            g == [i \in 0..(k + 1) |-> IF i = k + 1 THEN e ELSE f[i]]
<1>. HIDE DEF l, k
<1>4. f[k] \in Nat /\ e \in Nat /\ e <= f[k]
  <2>1. k \in 0..k
    BY <1>2
  <2>2. f[k] \in Nat
    BY <1>1, <2>1
  <2>. HIDE DEF k
  <2>. QED  BY <2>2
<1>. HIDE DEF e
<1>5. /\ \A i \in 0..k : i \in 0..(k + 1) /\ i # k + 1 /\ f[i] \in Nat
      /\ k + 1 \in 0..(k + 1) /\ k \in 0..k /\ 0 \in 0..k
      /\ \A i \in 1..k : i \in 0..k /\ i - 1 \in 0..k
      /\ \A i \in 0..(k + 1) : i = k + 1 \/ i \in 0..k
      /\ \A i \in 1..(k + 1) : i = k + 1 \/ i \in 1..k
      /\ (k + 1) - 1 = k
  BY <1>1, <1>2
<1>6. g \in [0..(k + 1) -> Nat]
  BY <1>4, <1>5
<1>7. g[k + 1] = e /\ \A i \in 0..k : g[i] = f[i]
  BY <1>5
<1>. HIDE DEF g
<1>8. Foretells(l, d, g)
  <2>1. g[0] = d
    BY <1>3, <1>5, <1>7
  <2>2. ASSUME NEW i \in 1..(k + 1)
        PROVE  g[i] = IF l[i].op = "StartRollback" /\ g[i - 1] > 0
                      THEN g[i - 1] - 1 ELSE g[i - 1]
    <3>1. CASE i = k + 1
      BY <1>2, <1>5, <1>7, <3>1 DEF e
    <3>2. CASE i \in 1..k
      BY <1>2, <1>3, <1>5, <1>7, <3>2
    <3>. QED  BY <1>5, <3>1, <3>2
  <2>3. ASSUME NEW i \in 0..(k + 1), NEW j \in 0..(k + 1), i <= j  PROVE g[j] <= g[i]
    <3>1. CASE j \in 0..k
      <4>1. i \in 0..k
        BY <1>2, <2>3, <3>1
      <4>. QED  BY <1>3, <1>7, <2>3, <3>1, <4>1
    <3>2. CASE i = k + 1 /\ j = k + 1
      BY <1>4, <1>7, <3>2
    <3>3. CASE i \in 0..k /\ j = k + 1
      <4>1. i <= k
        BY <1>2, <3>3
      <4>2. f[k] <= f[i] /\ f[i] \in Nat /\ g[i] = f[i] /\ g[j] = e
        BY <1>3, <1>5, <1>7, <3>3, <4>1
      <4>. QED  BY <1>4, <4>2
    <3>. QED  BY <1>5, <2>3, <3>1, <3>2, <3>3
  <2>. QED  BY <1>2, <1>6, <2>1, <2>2, <2>3 DEF Foretells
<1>9. ASSUME NEW m \in Int, m <= e, c.op = "Execute" /\ c.work \notin s => f[k] >= 1
      PROVE  Reaches(l, d, m, s)
  <2>1. ASSUME NEW i \in 1..(k + 1), l[i].op = "Execute", l[i].work \notin s
        PROVE  g[i - 1] >= 1
    <3>1. CASE i = k + 1
      BY <1>2, <1>5, <1>7, <1>9, <2>1, <3>1
    <3>2. CASE i \in 1..k
      BY <1>1, <1>2, <1>5, <1>7, <2>1, <3>2
    <3>. QED  BY <1>5, <3>1, <3>2
  <2>. QED  BY <1>2, <1>6, <1>7, <1>8, <1>9, <2>1 DEF Reaches
<1>10. /\ c.op # "StartRollback" => e = f[k]
       /\ n - 1 <= e /\ (n <= 0 => n <= e)
       /\ n >= 1 => f[k] >= 1
  BY <1>1, <1>4 DEF e
<1>11. n - 1 \in Int /\ n <= f[k] /\ ~("StartRollback" = "Execute")
  BY <1>1
<1>12. ASSUME c.op # "StartRollback", c.op # "Execute"  PROVE Reaches(l, d, n, s)
  BY <1>9, <1>10, <1>11, <1>12
<1>13. ASSUME c.op = "Execute", n >= 1 \/ c.work \in s  PROVE Reaches(l, d, n, s)
  BY <1>9, <1>10, <1>11, <1>13
<1>14. ASSUME c.op = "StartRollback"
       PROVE  Reaches(l, d, n - 1, s) /\ (n <= 0 => Reaches(l, d, n, s))
  BY <1>9, <1>10, <1>11, <1>14
<1>. QED  BY <1>12, <1>13, <1>14 DEF l

(* One command fewer.                                                      *)
LEMMA ReachesTaken ==
  ASSUME NEW q \in Seq(Command), q # <<>>, NEW d \in Nat, NEW n \in Int, NEW s,
         Reaches(q, d, n, s)
  PROVE  /\ Reaches(Tail(q),
                    IF Head(q).op = "StartRollback" /\ d > 0 THEN d - 1 ELSE d, n, s)
         /\ Head(q).op = "Execute" /\ Head(q).work \notin s => d > 0
<1>. DEFINE l == Tail(q)
            k == Len(l)
<1>1. PICK f \in [0..Len(q) -> Nat] :
        /\ Foretells(q, d, f)
        /\ n <= f[Len(q)]
        /\ \A i \in 1..Len(q) : q[i].op = "Execute" /\ q[i].work \notin s => f[i - 1] >= 1
  BY DEF Reaches
<1>2. /\ Head(q) = q[1] /\ k \in Nat /\ Len(q) = k + 1
      /\ \A i \in 1..k : l[i] = q[i + 1]
  BY Taken
<1>. DEFINE e == IF Head(q).op = "StartRollback" /\ d > 0 THEN d - 1 ELSE d
            g == [i \in 0..k |-> f[i + 1]]
<1>. HIDE DEF l, k
<1>3. /\ f \in [0..(k + 1) -> Nat] /\ f[0] = d /\ n <= f[k + 1]
      /\ \A i \in 1..(k + 1) : f[i] = IF q[i].op = "StartRollback" /\ f[i - 1] > 0
                                      THEN f[i - 1] - 1 ELSE f[i - 1]
      /\ \A i, j \in 0..(k + 1) : i <= j => f[j] <= f[i]
      /\ \A i \in 1..(k + 1) : q[i].op = "Execute" /\ q[i].work \notin s => f[i - 1] >= 1
  BY <1>1, <1>2 DEF Foretells
<1>4. /\ \A i \in 0..k : i + 1 \in 0..(k + 1) /\ i + 1 \in 1..(k + 1)
      /\ \A i \in 1..k : i \in 0..k /\ i - 1 \in 0..k /\ (i + 1) - 1 = i /\ (i - 1) + 1 = i
      /\ 1 \in 1..(k + 1) /\ 0 \in 0..k /\ k \in 0..k /\ 1 - 1 = 0
  BY <1>2
<1>5. f[1] = e
  BY <1>2, <1>3, <1>4
<1>. HIDE DEF e
<1>6. /\ g \in [0..k -> Nat] /\ \A i \in 0..k : g[i] = f[i + 1] /\ f[i + 1] \in Nat
  BY <1>3, <1>4
<1>. HIDE DEF g
<1>7. \A i \in 1..k : g[i - 1] = f[i] /\ g[i] = f[i + 1]
  BY <1>4, <1>6
<1>8. Foretells(l, e, g)
  <2>1. g[0] = e
    BY <1>4, <1>5, <1>6
  <2>2. ASSUME NEW i \in 1..k
        PROVE  g[i] = IF l[i].op = "StartRollback" /\ g[i - 1] > 0
                      THEN g[i - 1] - 1 ELSE g[i - 1]
    <3>1. i + 1 \in 1..(k + 1) /\ (i + 1) - 1 = i
      BY <1>4
    <3>. QED  BY <1>2, <1>3, <1>7, <3>1
  <2>3. ASSUME NEW i \in 0..k, NEW j \in 0..k, i <= j  PROVE g[j] <= g[i]
    <3>1. i + 1 \in 0..(k + 1) /\ j + 1 \in 0..(k + 1) /\ i + 1 <= j + 1
      BY <1>4, <2>3
    <3>. QED  BY <1>3, <1>6, <3>1
  <2>. QED  BY <1>6, <2>1, <2>2, <2>3 DEF Foretells, k
<1>9. n <= g[k]
  BY <1>3, <1>4, <1>6
<1>10. ASSUME NEW i \in 1..k, l[i].op = "Execute", l[i].work \notin s
       PROVE  g[i - 1] >= 1
  <2>1. i + 1 \in 1..(k + 1) /\ (i + 1) - 1 = i
    BY <1>4
  <2>2. q[i + 1].op = "Execute" /\ q[i + 1].work \notin s
    BY <1>2, <1>10
  <2>3. f[i] >= 1
    BY <1>3, <2>1, <2>2
  <2>. QED  BY <1>7, <2>3
<1>11. Reaches(l, e, n, s)
  BY <1>6, <1>8, <1>9, <1>10 DEF Reaches, k
<1>12. ASSUME Head(q).op = "Execute", Head(q).work \notin s  PROVE d > 0
  <2>1. f[0] >= 1
    BY <1>2, <1>3, <1>4, <1>12
  <2>. QED  BY <1>3, <2>1
<1>. QED  BY <1>11, <1>12 DEF l, e

-----------------------------------------------------------------------------
(* What the actor still has to count. *)

(* Nothing is served while a reply waits.                                  *)
LEMMA ReplyWaits ==
  ASSUME DepthInv, reply # "none"
  PROVE  queue = <<>> /\ phase = "live" /\ calling # "none"
<1>1. calling # "none"
  BY DEF DepthInv, CallOK
<1>. QED  BY <1>1 DEF DepthInv, CallOK

(* The actor keeps up with the client.                                     *)
LEMMA DeepKept ==
  ASSUME DepthInv, DeepOK, [HandleNext]_handleVars
  PROVE  Reaches(queue', transaction_depth', Len(open') + Owed', kept')
<1>. DEFINE n == Len(open)
            R(q, d, m) == Reaches(q, d, m, kept')
            Goal == Reaches(queue', transaction_depth', Len(open') + Owed', kept')
<1>0. /\ HandleTypeOK /\ CallOK /\ AheadOK
      /\ n \in Nat /\ open \in Seq(SUBSET Work) /\ queue \in Seq(Command)
      /\ transaction_depth \in Nat /\ handle_depth \in Nat
      /\ {"Begin", "Commit", "Rollback"} = Calls
      /\ Owed \in {0, 1, -1}
  BY TypeFacts DEF DepthInv, Calls, Owed
<1>1. /\ Reaches(queue, transaction_depth, n + Owed, kept)
      /\ calling = "Begin" /\ reply = "err" => transaction_depth = 0
  BY DEF DeepOK
<1>2. calling = "none" => reply = "none"
  BY <1>0 DEF CallOK
<1>3. reply = "none" => Owed = 0 /\ n + Owed = n
  BY <1>0 DEF Owed
<1>4. reply # "none" => queue = <<>> /\ n + Owed <= transaction_depth
  <2>. DEFINE k == n + Owed
  <2>1. k \in Int
    BY <1>0
  <2>. HIDE DEF k
  <2>. QED  BY <1>0, <1>1, <2>1, ReachesNow, ReplyWaits DEF k
<1>5. UNCHANGED actorVars => UNCHANGED transaction_depth
  BY DEF actorVars
(* The client sends, and nothing else. *)
<1>6. ASSUME NEW op \in Calls, Call(op), calling = "none"  PROVE Goal
  <2>1. /\ queue' = Append(queue, [op |-> op]) /\ UNCHANGED <<open, kept, reply, transaction_depth>>
    BY <1>5, <1>6 DEF Call, Send, clientVars
  <2>2. reply' = "none" /\ Owed' = 0 /\ Owed = 0
    BY <1>2, <1>6, <2>1 DEF Owed
  <2>3. /\ [op |-> op] \in Command /\ [op |-> op].op # "StartRollback"
        /\ [op |-> op].op # "Execute"
    BY CommandIs DEF Calls
  <2>4. Reaches(queue, transaction_depth, n, kept)
    BY <1>0, <1>1, <2>2
  <2>5. Reaches(queue', transaction_depth, n, kept)
    BY <1>0, <2>1, <2>3, <2>4, ReachesSent
  <2>. QED  BY <1>0, <2>1, <2>2, <2>5
(* A transaction is over without the actor. *)
<1>7. ASSUME calling = "none", UNCHANGED <<queue, transaction_depth, reply>>,
             Len(open') = n \/ (open # <<>> /\ Len(open') = n - 1), kept \subseteq kept'
      PROVE  Goal
  <2>1. Owed' = 0 /\ Owed = 0
    BY <1>2, <1>7 DEF Owed
  <2>. DEFINE m == Len(open')
  <2>2. m \in Int /\ m <= n /\ n \in Int
    <3>. HIDE DEF n
    <3>. QED  BY <1>0, <1>7
  <2>3. Reaches(queue, transaction_depth, n, kept)
    BY <1>0, <1>1, <2>1
  <2>4. Reaches(queue, transaction_depth, m, kept')
    BY <1>0, <1>7, <2>2, <2>3, ReachesLess
  <2>5. m + 0 = m
    BY <2>2
  <2>. QED  BY <1>7, <2>1, <2>4, <2>5
(* A rollback is queued behind the rest. *)
<1>8. ASSUME NEW level, StartRollback(level), reply' = "none",
             UNCHANGED <<transaction_depth, kept>>,
             \/ Reaches(queue, transaction_depth, n, kept) /\ open # <<>> /\ Len(open') = n - 1
             \/ Reaches(queue, transaction_depth, n, kept) /\ n <= 0 /\ Len(open') = n
      PROVE  Goal
  <2>1. /\ queue' = Append(queue, [op |-> "StartRollback"])
        /\ [op |-> "StartRollback"] \in Command
        /\ [op |-> "StartRollback"].op = "StartRollback"
    BY <1>8, CommandIs DEF StartRollback, Send
  <2>2. /\ Owed' = 0 /\ n \in Int
    BY <1>0, <1>8 DEF Owed
  <2>. HIDE DEF n
  <2>3. CASE Reaches(queue, transaction_depth, n, kept) /\ Len(open') = n - 1
    <3>1. Reaches(queue', transaction_depth, n - 1, kept)
      BY <1>0, <2>1, <2>2, <2>3, ReachesSent
    <3>2. Len(open') + Owed' = n - 1
      BY <2>2, <2>3
    <3>. QED  BY <1>8, <3>1, <3>2
  <2>4. CASE Reaches(queue, transaction_depth, n, kept) /\ n <= 0 /\ Len(open') = n
    <3>1. Reaches(queue', transaction_depth, n, kept)
      BY <1>0, <2>1, <2>2, <2>4, ReachesSent
    <3>2. Len(open') + Owed' = n
      BY <2>2, <2>4
    <3>. QED  BY <1>8, <3>1, <3>2
  <2>. QED  BY <1>8, <2>3, <2>4
<1>9. CASE BeginCall
  BY <1>0, <1>6, <1>9 DEF BeginCall, CanCall
<1>10. CASE CommitCall
  <2>1. CASE Call("Commit")
    BY <1>0, <1>6, <1>10, <2>1 DEF CommitCall, CanCall
  <2>2. CASE open # <<>> /\ calling = "none" /\ Committed /\ UNCHANGED <<actorVars, callVars>>
    <3>1. Len(open') = n - 1 /\ kept \subseteq kept'
      <4>1. Len(open') = n - 1
        BY <1>0, <2>2, OneFewer
      <4>2. kept \subseteq kept'
        BY <2>2 DEF Committed
      <4>. QED  BY <4>1, <4>2
    <3>. QED  BY <1>5, <1>7, <2>2, <3>1 DEF callVars
  <2>. QED  BY <1>10, <2>1, <2>2 DEF CommitCall, CanCall
<1>11. CASE RollbackCall
  <2>1. CASE Call("Rollback")
    BY <1>0, <1>6, <1>11, <2>1 DEF RollbackCall, CanCall
  <2>2. CASE open # <<>> /\ calling = "none" /\ Discarded /\ UNCHANGED <<actorVars, callVars>>
    <3>1. Len(open') = n - 1 /\ kept' = kept
      BY <1>0, <2>2, OneFewer DEF Discarded
    <3>. QED  BY <1>5, <1>7, <2>2, <3>1 DEF callVars
  <2>. QED  BY <1>11, <2>1, <2>2 DEF RollbackCall, CanCall
<1>12. CASE DropTransaction
  <2>1. /\ open # <<>> /\ calling = "none" /\ StartRollback(n) /\ Discarded
        /\ UNCHANGED <<reply, actorVars>>
    BY <1>12 DEF DropTransaction, CanCall
  <2>2. Len(open') = n - 1 /\ kept' = kept
    BY <1>0, <2>1, OneFewer DEF Discarded
  <2>3. Reaches(queue, transaction_depth, n, kept)
    BY <1>0, <1>1, <1>2, <1>3, <2>1
  <2>. QED  BY <1>2, <1>5, <1>8, <2>1, <2>2, <2>3
<1>13. ASSUME NEW w \in Work, ExecuteCall(w)  PROVE Goal
  <2>. DEFINE c == [op |-> "Execute", work |-> w]
  <2>1. c \in Command /\ c.op = "Execute" /\ c.work = w
    BY CommandIs
  <2>2. /\ queue' = Append(queue, c) /\ Len(open') = n /\ calling = "none"
        /\ open = <<>> => kept' = kept \cup {w}
        /\ open # <<>> => kept' = kept
        /\ UNCHANGED <<reply, actorVars>>
    BY <1>0, <1>13, ExecuteCallIs
  <2>3. Reaches(queue, transaction_depth, n, kept)
    BY <1>0, <1>1, <1>2, <1>3, <2>2
  <2>4. kept \subseteq kept' /\ n \in Int /\ n <= n /\ (n >= 1 \/ w \in kept')
    <3>1. open # <<>> => n >= 1
      BY <1>0
    <3>. HIDE DEF n
    <3>. QED  BY <1>0, <2>2, <3>1
  <2>5. Reaches(queue, transaction_depth, n, kept')
    BY <1>0, <2>3, <2>4, ReachesLess
  <2>. HIDE DEF c, n
  <2>6. Reaches(queue', transaction_depth, n, kept')
    BY <1>0, <2>1, <2>2, <2>4, <2>5, ReachesSent
  <2>7. Len(open') + Owed' = n /\ UNCHANGED transaction_depth
    <3>1. Owed' = 0
      BY <1>2, <2>2 DEF Owed
    <3>. QED  BY <1>0, <1>5, <2>2, <3>1
  <2>. QED  BY <2>6, <2>7
<1>14. CASE CloseHandle
  BY <1>5, <1>7, <1>14 DEF CloseHandle, clientVars
(* The caller reads its reply: the channel is empty. *)
<1>15. ASSUME queue' = <<>>, transaction_depth' \in Nat, NEW m \in Int, m = Len(open') + Owed',
              m <= transaction_depth'
       PROVE  Goal
  BY <1>15, ReachesNone
<1>16. ASSUME NEW op \in Calls, Return(op), UNCHANGED actorVars
       PROVE  /\ queue = <<>> /\ reply' = "none" /\ Owed' = 0
              /\ UNCHANGED transaction_depth
              /\ n + (IF reply # "ok" THEN 0 ELSE IF op = "Begin" THEN 1 ELSE -1)
                   <= transaction_depth
              /\ op # "Begin" => open # <<>>
              /\ reply = "err" => Reaches(queue, transaction_depth, n, kept)
  <2>1. calling = op /\ reply # "none" /\ reply' = "none"
    BY <1>16 DEF Return
  <2>2. Owed' = 0
    BY <2>1 DEF Owed
  <2>3. op # "Begin" => open # <<>>
    BY <1>0, <2>1 DEF CallOK, Calls
  <2>4. reply = "err" => Owed = 0 /\ n + Owed = n
    BY <1>0 DEF Owed
  <2>. QED  BY <1>1, <1>4, <1>5, <1>16, <2>1, <2>2, <2>3, <2>4 DEF Owed
<1>17. CASE BeginReturn
  <2>0. Return("Begin") /\ UNCHANGED actorVars /\ "Begin" \in Calls
    BY <1>0, <1>17 DEF BeginReturn
  <2>1. CASE reply = "ok" /\ open' = Append(open, {}) /\ UNCHANGED <<queue, kept>>
    <3>1. Len(open') = n + 1
      BY <1>0, <2>1
    <3>2. queue' = <<>> /\ Owed' = 0 /\ n + 1 <= transaction_depth /\ UNCHANGED transaction_depth
      BY <1>16, <2>0, <2>1
    <3>3. n + 1 \in Int /\ n + 1 = (n + 1) + 0
      BY <1>0
    <3>. QED  BY <1>0, <1>15, <3>1, <3>2, <3>3
  <2>2. CASE reply = "err" /\ UNCHANGED <<open, kept, queue>>
    <3>1. queue' = <<>> /\ Owed' = 0 /\ n + 0 <= transaction_depth /\ UNCHANGED transaction_depth
      BY <1>16, <2>0, <2>2
    <3>2. n + 0 \in Int /\ n + 0 = Len(open') + Owed'
      BY <1>0, <2>2, <3>1
    <3>. QED  BY <1>0, <1>15, <3>1, <3>2
  <2>3. CASE reply = "err" /\ UNCHANGED <<open, kept>> /\ StartRollback(n + 1)
    <3>1. /\ reply' = "none" /\ UNCHANGED transaction_depth /\ n + 0 <= transaction_depth
          /\ Reaches(queue, transaction_depth, n, kept)
      BY <1>16, <2>0, <2>3
    <3>2. transaction_depth = 0
      BY <1>1, <2>0, <2>3 DEF Return
    <3>3. n <= 0
      <4>. HIDE DEF n
      <4>. QED  BY <1>0, <3>1, <3>2
    <3>. QED  BY <1>8, <2>3, <3>1, <3>3
  <2>. QED  BY <1>17, <2>1, <2>2, <2>3 DEF BeginReturn
<1>18. ASSUME NEW op \in {"Commit", "Rollback"}, Return(op), UNCHANGED <<actorVars, queue>>,
              reply = "ok", open # <<>> => Len(open') = n - 1
       PROVE  Goal
  <2>1. /\ queue' = <<>> /\ Owed' = 0 /\ n + (-1) <= transaction_depth
        /\ UNCHANGED transaction_depth /\ Len(open') = n - 1
    BY <1>0, <1>16, <1>18
  <2>. HIDE DEF n
  <2>2. n - 1 \in Int /\ n - 1 = Len(open') + Owed' /\ n - 1 <= transaction_depth
    BY <1>0, <2>1
  <2>. QED  BY <1>0, <1>15, <2>1, <2>2
<1>19. ASSUME NEW op \in {"Commit", "Rollback"}, Return(op), UNCHANGED <<actorVars, kept>>,
              reply = "err", open # <<>> => Len(open') = n - 1, NEW level, StartRollback(level)
       PROVE  Goal
  <2>1. /\ reply' = "none" /\ UNCHANGED transaction_depth /\ open # <<>>
        /\ Reaches(queue, transaction_depth, n, kept)
    BY <1>0, <1>16, <1>19
  <2>. QED  BY <1>8, <1>19, <2>1
<1>20. CASE CommitReturn
  <2>0. Return("Commit") /\ UNCHANGED actorVars
    BY <1>20 DEF CommitReturn
  <2>1. CASE reply = "ok" /\ Committed /\ UNCHANGED queue
    BY <1>0, <1>18, <2>0, <2>1, OneFewer
  <2>2. CASE reply = "err" /\ StartRollback(n) /\ Unknown
    <3>1. open # <<>> => Len(open') = n - 1
      BY <1>0, <2>2, OneFewer DEF Unknown
    <3>2. UNCHANGED kept
      BY <2>2 DEF Unknown
    <3>. QED  BY <1>19, <2>0, <2>2, <3>1, <3>2
  <2>. QED  BY <1>20, <2>1, <2>2 DEF CommitReturn
<1>21. CASE RollbackReturn
  <2>0. Return("Rollback") /\ UNCHANGED <<actorVars, kept>> /\ Discarded
    BY <1>21 DEF RollbackReturn, Discarded
  <2>1. open # <<>> => Len(open') = n - 1
    BY <1>0, <2>0, OneFewer DEF Discarded
  <2>2. CASE reply = "ok" /\ UNCHANGED queue
    BY <1>18, <2>0, <2>1, <2>2
  <2>3. CASE reply = "err" /\ StartRollback(n)
    BY <1>19, <2>0, <2>1, <2>3
  <2>. QED  BY <1>21, <2>2, <2>3 DEF RollbackReturn
(* The actor answers. *)
<1>22. ASSUME NEW op \in Calls, Take(op)
       PROVE  /\ queue' = <<>> /\ Len(open') = n
              /\ n <= transaction_depth
              /\ Owed' = IF reply' # "ok" THEN 0 ELSE IF op = "Begin" THEN 1 ELSE -1
              /\ op # "Begin" => transaction_depth > 0
  <2>1. /\ calling = op /\ calling' = calling /\ reply = "none" /\ ~HasDrop(queue)
        /\ queue' = <<>> /\ open' = open
    BY <1>0, <1>22, ServedCall DEF clientVars
  <2>2. handle_depth + 0 <= transaction_depth
    BY <1>0, <2>1 DEF AheadOK, DropQueued, Owed
  <2>3. op # "Begin" => handle_depth > 0
    BY <1>0, <1>22, <2>1 DEF CallOK, Calls
  <2>4. Reaches(queue, transaction_depth, n, kept)
    BY <1>0, <1>1, <1>3, <2>1
  <2>5. n <= transaction_depth
    BY <1>0, <2>4, ReachesNow
  <2>6. op # "Begin" => transaction_depth > 0
    BY <1>0, <2>2, <2>3
  <2>. QED  BY <2>1, <2>5, <2>6 DEF Owed
<1>23. ASSUME NEW op \in Calls, Take(op), transaction_depth' \in Nat,
              transaction_depth' = transaction_depth + Owed'
       PROVE  Goal
  <2>1. Owed' \in Int
    BY DEF Owed
  <2>2. queue' = <<>> /\ Len(open') = n /\ n <= transaction_depth
    BY <1>22, <1>23
  <2>. DEFINE o == Owed'
  <2>0. o \in Int /\ transaction_depth' = transaction_depth + o
    BY <1>23, <2>1
  <2>. HIDE DEF n, o
  <2>3. n + o \in Int /\ n + o <= transaction_depth'
    BY <1>0, <2>0, <2>2
  <2>. QED  BY <1>15, <1>23, <2>2, <2>3 DEF o
<1>24. CASE ServeBegin
  <2>1. PICK r \in Result : HandleBegin(r) /\ reply' = r
    BY <1>24 DEF ServeBegin
  <2>2. transaction_depth' = IF r = "ok" THEN transaction_depth + 1 ELSE transaction_depth
    BY <1>0, <2>1, DepthOfBegin
  <2>3. Take("Begin") /\ Owed' = IF r # "ok" THEN 0 ELSE 1
    BY <1>0, <1>22, <1>24, <2>1 DEF ServeBegin
  <2>. QED  BY <1>0, <1>23, <2>2, <2>3
<1>25. ASSUME NEW op \in {"Commit", "Rollback"}, Take(op), NEW r \in Result, reply' = r,
              r = "ok" /\ transaction_depth > 0 => transaction_depth' = transaction_depth - 1,
              r # "ok" => transaction_depth' = transaction_depth
       PROVE  Goal
  <2>1. (Owed' = IF r # "ok" THEN 0 ELSE -1) /\ transaction_depth > 0 /\ op \in Calls
    BY <1>0, <1>22, <1>25
  <2>2. transaction_depth' = transaction_depth + Owed' /\ transaction_depth' \in Nat
    BY <1>0, <1>25, <2>1
  <2>. QED  BY <1>23, <1>25, <2>1, <2>2
<1>26. CASE ServeCommit
  <2>1. PICK r \in Result : HandleCommit(r) /\ reply' = r
    BY <1>26 DEF ServeCommit
  <2>. QED  BY <1>0, <1>25, <1>26, <2>1, DepthOfCommit DEF ServeCommit
<1>27. CASE ServeRollback
  <2>1. PICK r \in Result : HandleRollback(r) /\ reply' = r
    BY <1>27 DEF ServeRollback
  <2>. QED  BY <1>0, <1>25, <1>27, <2>1, DepthOfRollback DEF ServeRollback
<1>28. ASSUME NEW op, op \notin Calls, Take(op), UNCHANGED reply,
              transaction_depth' = IF op = "StartRollback" /\ transaction_depth > 0
                                   THEN transaction_depth - 1 ELSE transaction_depth
       PROVE  Goal
  <2>1. /\ queue # <<>> /\ queue' = Tail(queue) /\ Head(queue).op = op
        /\ UNCHANGED <<open, kept>> /\ reply = "none"
    BY <1>0, <1>28, ServedSend DEF Take, clientVars
  <2>2. Reaches(queue, transaction_depth, n, kept) /\ n \in Int /\ n + 0 = n /\ Owed' = 0
    BY <1>0, <1>1, <1>3, <1>28, <2>1 DEF Owed
  <2>3. Reaches(Tail(queue), transaction_depth', n, kept)
    BY <1>0, <1>28, <2>1, <2>2, ReachesTaken
  <2>. QED  BY <2>1, <2>2, <2>3
<1>29. CASE ServeStartRollback
  <2>1. /\ Take("StartRollback") /\ UNCHANGED reply /\ "StartRollback" \notin Calls
        /\ HandleStartRollback
    BY <1>29 DEF ServeStartRollback, Calls
  <2>. QED  BY <1>0, <1>28, <2>1, DepthOfStartRollback
<1>30. CASE ServeExecute
  <2>1. Take("Execute") /\ UNCHANGED reply /\ "Execute" \notin Calls
    BY <1>30 DEF ServeExecute, Calls
  <2>2. UNCHANGED transaction_depth
    BY <1>30, DepthOfExecute DEF ServeExecute
  <2>. QED  BY <1>28, <2>1, <2>2
<1>31. CASE ActorExit \/ UNCHANGED handleVars
  <2>1. UNCHANGED <<queue, transaction_depth, open, kept, reply, calling>>
    BY <1>31 DEF ActorExit, handleVars, actorVars, callVars, clientVars
  <2>. QED  BY <1>1, <2>1 DEF Owed
<1>. QED
  BY <1>9, <1>10, <1>11, <1>12, <1>13, <1>14, <1>17, <1>20, <1>21, <1>24, <1>26,
     <1>27, <1>29, <1>30, <1>31 DEF HandleNext, Client, Returns, Actor

(* The begin of a nested transaction does not fail.                        *)
SavesSucceed == "save" \notin Faults

(* So one that fails leaves the actor outside of every transaction.        *)
LEMMA BeginFailsOutside ==
  ASSUME SavesSucceed, DepthInv, ServingInv, DeepOK, [HandleNext]_handleVars,
         calling' = "Begin", reply' = "err"
  PROVE  transaction_depth' = 0
<1>0. /\ HandleTypeOK /\ CallOK /\ HandleTypeOK' /\ CallOK'
      /\ {"Begin", "Commit", "Rollback"} = Calls
  BY CallKept, TypeKept DEF DepthInv, Calls
<1>1. calling = "Begin" /\ reply = "err" => transaction_depth = 0
  BY DEF DeepOK
<1>2. calling = "none" => reply = "none"
  BY <1>0 DEF CallOK
<1>3. CASE UNCHANGED <<calling, reply, transaction_depth>>
  BY <1>1, <1>3
<1>4. ASSUME calling = "none", UNCHANGED reply  PROVE FALSE
  BY <1>2, <1>4
<1>5. CASE Client
  BY <1>4, <1>5 DEF Client, BeginCall, CommitCall, RollbackCall, DropTransaction,
     ExecuteCall, CloseHandle, CanCall, Call, callVars
<1>6. CASE Returns
  BY <1>6 DEF Returns, BeginReturn, CommitReturn, RollbackReturn, Return
<1>7. CASE ServeBegin
  <2>1. Take("Begin") /\ HandleBegin("err") /\ ActorInv
    BY <1>7 DEF ServeBegin, Take, ServingInv
  <2>2. session.autocommit <=> transaction_depth = 0
    BY <2>1 DEF ActorInv, ManualModeIffOpen
  <2>3. transaction_depth = 0 /\ UNCHANGED transaction_depth
    BY <2>1, <2>2 DEF HandleBegin, SavesSucceed, actorVars
  <2>. QED  BY <2>3
<1>8. CASE ServeCommit
  <2>1. Take("Commit")
    BY <1>8 DEF ServeCommit
  <2>2. calling' = "Commit"
    BY <1>0, <2>1, ServedCall
  <2>. QED  BY <2>2
<1>9. CASE ServeRollback
  <2>1. Take("Rollback")
    BY <1>9 DEF ServeRollback
  <2>2. calling' = "Rollback"
    BY <1>0, <2>1, ServedCall
  <2>. QED  BY <2>2
<1>10. CASE ServeStartRollback \/ ServeExecute
  <2>1. queue # <<>> /\ reply' = reply
    BY <1>10 DEF ServeStartRollback, ServeExecute, Take
  <2>. QED  BY <1>0, <2>1 DEF CallOK
<1>11. CASE ActorExit \/ UNCHANGED handleVars
  BY <1>3, <1>11 DEF ActorExit, handleVars, actorVars, callVars
<1>. QED
  BY <1>5, <1>6, <1>7, <1>8, <1>9, <1>10, <1>11 DEF HandleNext, Actor

-----------------------------------------------------------------------------
(* The dropped work. *)

(* What a step tells the client. *)
LEMMA ClientStep ==
  ASSUME HandleTypeOK, CallOK, [HandleNext]_handleVars
  PROVE  \/ /\ UNCHANGED <<open, kept, discarded>>
            /\ calling = "Commit" /\ reply # "none" => UNCHANGED <<calling, reply>>
         \/ UNCHANGED actorVars /\ open # <<>> /\ Committed
         \/ UNCHANGED actorVars /\ open # <<>> /\ Discarded /\ calling # "Commit"
         \/ UNCHANGED actorVars /\ open # <<>> /\ Unknown
         \/ /\ UNCHANGED actorVars /\ open' = Append(open, {})
            /\ UNCHANGED <<kept, discarded>> /\ calling = "Begin"
         \/ \E w \in Work : ExecuteCall(w)
<1>. {"Begin", "Commit", "Rollback"} = Calls
  BY DEF Calls
<1>1. CASE BeginCall
  BY <1>1 DEF BeginCall, CanCall, Call, clientVars
<1>2. CASE CommitCall
  BY <1>2 DEF CommitCall, CanCall, Call, clientVars
<1>3. CASE RollbackCall
  BY <1>3 DEF RollbackCall, CanCall, Call, clientVars
<1>4. CASE DropTransaction
  BY <1>4 DEF DropTransaction, CanCall
<1>5. CASE CloseHandle
  BY <1>5 DEF CloseHandle, clientVars
<1>6. CASE BeginReturn
  BY <1>6 DEF BeginReturn, Return
<1>7. CASE CommitReturn
  <2>1. open # <<>>
    BY <1>7 DEF CommitReturn, Return, CallOK
  <2>. QED  BY <1>7, <2>1 DEF CommitReturn
<1>8. CASE RollbackReturn
  <2>1. open # <<>> /\ calling # "Commit"
    BY <1>8 DEF RollbackReturn, Return, CallOK
  <2>. QED  BY <1>8, <2>1 DEF RollbackReturn
<1>9. ASSUME NEW op, Take(op)
      PROVE  UNCHANGED <<open, kept, discarded>> /\ reply = "none"
  BY <1>9 DEF Take, CallOK, clientVars
<1>10. CASE ServeBegin \/ ServeCommit \/ ServeRollback \/ ServeStartRollback \/ ServeExecute
  BY <1>9, <1>10 DEF ServeBegin, ServeCommit, ServeRollback, ServeStartRollback, ServeExecute
<1>11. CASE ActorExit \/ UNCHANGED handleVars
  BY <1>11 DEF ActorExit, handleVars, callVars, clientVars
<1>. QED
  BY <1>1, <1>2, <1>3, <1>4, <1>5, <1>6, <1>7, <1>8, <1>10, <1>11
     DEF HandleNext, Client, Returns, Actor

(* The innermost transaction's work goes to the client's other sets, or    *)
(* nowhere, and its transaction with it.                                   *)
LEMMA IssuedFewer ==
  ASSUME HandleTypeOK, IssuedOnce, open # <<>>, open' = Front(open),
         discarded \subseteq discarded', discarded' \subseteq discarded \cup Last(open),
         UNCHANGED kept
  PROVE  IssuedOnce'
<1>. DEFINE n == Len(open)
<1>1. /\ n \in Nat /\ n >= 1 /\ Len(open') = n - 1 /\ Last(open) = open[n]
      /\ \A k \in 1..(n - 1) : open'[k] = open[k]
  BY FrontIs, TypeFacts, Innermost
<1>2. /\ kept \cap discarded = {}
      /\ \A k \in 1..n : open[k] \cap (kept \cup discarded) = {}
      /\ \A j, k \in 1..n : j # k => open[j] \cap open[k] = {}
  BY DEF IssuedOnce
<1>. HIDE DEF n
<1>3. n \in 1..n /\ \A k \in 1..(n - 1) : k \in 1..n /\ k # n
  BY <1>1
<1>4. kept' \cap discarded' = {}
  BY <1>1, <1>2, <1>3
<1>5. ASSUME NEW k \in 1..(n - 1)  PROVE open'[k] \cap (kept' \cup discarded') = {}
  BY <1>1, <1>2, <1>3
<1>6. ASSUME NEW j \in 1..(n - 1), NEW k \in 1..(n - 1), j # k
      PROVE  open'[j] \cap open'[k] = {}
  BY <1>1, <1>2, <1>3, <1>6
<1>. QED  BY <1>1, <1>4, <1>5, <1>6 DEF IssuedOnce

LEMMA IssuedCommitted ==
  ASSUME HandleTypeOK, IssuedOnce, open # <<>>, Committed
  PROVE  IssuedOnce'
<1>. DEFINE n == Len(open)
<1>1. /\ n \in Nat /\ n >= 1 /\ Len(open') = n - 1
      /\ \A k \in 1..(n - 2) : open'[k] = open[k]
      /\ n > 1 => open'[n - 1] = open[n - 1] \cup open[n] /\ kept' = kept
      /\ n = 1 => kept' = kept \cup open[1]
      /\ discarded' = discarded
  BY CommittedIs, TypeFacts
<1>2. /\ kept \cap discarded = {}
      /\ \A k \in 1..n : open[k] \cap (kept \cup discarded) = {}
      /\ \A j, k \in 1..n : j # k => open[j] \cap open[k] = {}
  BY DEF IssuedOnce
<1>. HIDE DEF n
<1>3. CASE n = 1
  <2>1. 1 \in 1..n /\ Len(open') = 0 /\ 1..0 = {}
    BY <1>1, <1>3
  <2>2. kept' \cap discarded' = {}
    BY <1>1, <1>2, <1>3, <2>1
  <2>. QED  BY <2>1, <2>2 DEF IssuedOnce
<1>4. CASE n > 1
  <2>1. /\ n \in 1..n /\ n - 1 \in 1..n /\ n # n - 1
        /\ \A k \in 1..(n - 1) : k = n - 1 \/ k \in 1..(n - 2)
        /\ \A k \in 1..(n - 2) : k \in 1..n /\ k # n /\ k # n - 1
    BY <1>1, <1>4
  <2>2. kept' \cap discarded' = {}
    BY <1>1, <1>2, <1>4
  <2>3. ASSUME NEW k \in 1..(n - 1)  PROVE open'[k] \cap (kept' \cup discarded') = {}
    <3>1. CASE k = n - 1
      BY <1>1, <1>2, <1>4, <2>1, <3>1
    <3>2. CASE k \in 1..(n - 2)
      BY <1>1, <1>2, <1>4, <2>1, <3>2
    <3>. QED  BY <2>1, <3>1, <3>2
  <2>4. ASSUME NEW k \in 1..(n - 2)  PROVE open'[k] \cap open'[n - 1] = {}
    BY <1>1, <1>2, <1>4, <2>1
  <2>5. ASSUME NEW j \in 1..(n - 2), NEW k \in 1..(n - 2), j # k
        PROVE  open'[j] \cap open'[k] = {}
    BY <1>1, <1>2, <2>1, <2>5
  <2>6. ASSUME NEW j \in 1..(n - 1), NEW k \in 1..(n - 1), j # k
        PROVE  open'[j] \cap open'[k] = {}
    BY <2>1, <2>4, <2>5, <2>6
  <2>. QED  BY <1>1, <2>2, <2>3, <2>6 DEF IssuedOnce
<1>. QED  BY <1>1, <1>3, <1>4

LEMMA IssuedBegun ==
  ASSUME HandleTypeOK, IssuedOnce, open' = Append(open, {}), UNCHANGED <<kept, discarded>>
  PROVE  IssuedOnce'
<1>. DEFINE n == Len(open)
<1>1. /\ n \in Nat /\ Len(open') = n + 1 /\ open'[n + 1] = {}
      /\ \A k \in 1..n : open'[k] = open[k]
  BY TypeFacts
<1>2. /\ kept \cap discarded = {}
      /\ \A k \in 1..n : open[k] \cap (kept \cup discarded) = {}
      /\ \A j, k \in 1..n : j # k => open[j] \cap open[k] = {}
  BY DEF IssuedOnce
<1>. HIDE DEF n
<1>3. \A k \in 1..(n + 1) : k = n + 1 \/ k \in 1..n
  BY <1>1
<1>4. ASSUME NEW k \in 1..(n + 1)  PROVE open'[k] \cap (kept' \cup discarded') = {}
  BY <1>1, <1>2, <1>3
<1>5. ASSUME NEW j \in 1..(n + 1), NEW k \in 1..(n + 1), j # k
      PROVE  open'[j] \cap open'[k] = {}
  BY <1>1, <1>2, <1>3, <1>5
<1>6. kept' \cap discarded' = {}
  BY <1>2
<1>. QED  BY <1>1, <1>4, <1>5, <1>6 DEF IssuedOnce

LEMMA IssuedMore ==
  ASSUME HandleTypeOK, IssuedOnce, NEW w \in Work, ExecuteCall(w)
  PROVE  IssuedOnce'
<1>. DEFINE n == Len(open)
<1>1. /\ w \notin kept /\ w \notin discarded
      /\ \A k \in 1..n : w \notin open[k]
      /\ Len(open') = n
      /\ \A k \in 1..(n - 1) : open'[k] = open[k]
      /\ open = <<>> => open' = <<>> /\ kept' = kept \cup {w}
      /\ open # <<>> => open'[n] = open[n] \cup {w} /\ kept' = kept
      /\ discarded' = discarded
      /\ n \in Nat /\ (open # <<>> => n >= 1)
  BY ExecuteCallIs, TypeFacts
<1>2. /\ kept \cap discarded = {}
      /\ \A k \in 1..n : open[k] \cap (kept \cup discarded) = {}
      /\ \A j, k \in 1..n : j # k => open[j] \cap open[k] = {}
  BY DEF IssuedOnce
<1>3. CASE open = <<>>
  <2>1. Len(open') = 0 /\ 1..0 = {}
    BY <1>1, <1>3
  <2>2. kept' \cap discarded' = {}
    BY <1>1, <1>2, <1>3
  <2>. QED  BY <2>1, <2>2 DEF IssuedOnce
<1>4. CASE open # <<>>
  <2>. HIDE DEF n
  <2>1. /\ n \in 1..n
        /\ \A k \in 1..n : k = n \/ k \in 1..(n - 1)
        /\ \A k \in 1..(n - 1) : k \in 1..n /\ k # n
    BY <1>1, <1>4
  <2>2. kept' \cap discarded' = {}
    BY <1>1, <1>2, <1>4
  <2>3. ASSUME NEW k \in 1..n  PROVE open'[k] \cap (kept' \cup discarded') = {}
    BY <1>1, <1>2, <1>4, <2>1
  <2>4. ASSUME NEW j \in 1..n, NEW k \in 1..n, j # k
        PROVE  open'[j] \cap open'[k] = {}
    BY <1>1, <1>2, <1>4, <2>1, <2>4
  <2>. QED  BY <1>1, <2>2, <2>3, <2>4 DEF IssuedOnce
<1>. QED  BY <1>3, <1>4

(* No step issues anything twice. *)
LEMMA IssuedKept ==
  ASSUME HandleTypeOK, CallOK, IssuedOnce, [HandleNext]_handleVars
  PROVE  IssuedOnce'
<1>1. CASE UNCHANGED <<open, kept, discarded>>
  BY <1>1 DEF IssuedOnce
<1>2. CASE open # <<>> /\ (Discarded \/ Unknown)
  BY <1>2, IssuedFewer DEF Discarded, Unknown
<1>. QED  BY <1>1, <1>2, ClientStep, IssuedCommitted, IssuedBegun, IssuedMore

(* Work becomes durable outside of every transaction, or with the          *)
(* outermost commit.                                                       *)
LEMMA DurableStep ==
  ASSUME AllFailuresReported, HandleTypeOK, CallOK, ServingInv, [HandleNext]_handleVars
  PROVE  \/ session'.durable = session.durable
         \/ /\ ServeExecute /\ transaction_depth = 0
            /\ session'.durable = session.durable \cup {Head(queue).work}
         \/ /\ Take("Commit") /\ reply' # "none" /\ transaction_depth = 1
            /\ session'.durable = Seen
<1>1. CASE UNCHANGED actorVars
  BY <1>1 DEF actorVars
<1>2. ASSUME NEW op, Take(op)
      PROVE  ActorInv /\ transaction_depth \in Nat
  BY <1>2, StackIs DEF Take, ServingInv
<1>3. CASE ServeBegin
  <2>1. ActorInv /\ \E r : HandleBegin(r)
    BY <1>2, <1>3 DEF ServeBegin
  <2>. QED  BY <2>1, BeginDoes DEF Idle
<1>4. CASE ServeCommit
  <2>1. PICK r \in Result : HandleCommit(r) /\ reply' = r
    BY <1>4 DEF ServeCommit
  <2>2. Take("Commit") /\ ActorInv /\ reply' # "none" /\ transaction_depth \in Nat
    BY <1>2, <1>4, <2>1 DEF ServeCommit, Result
  <2>3. CASE transaction_depth > 0
    BY <2>1, <2>2, <2>3, CommitDoes DEF Idle
  <2>4. CASE transaction_depth = 0
    <3>1. UNCHANGED actorVars
      BY <2>1, <2>4 DEF HandleCommit
    <3>. QED  BY <1>1, <3>1
  <2>. QED  BY <2>2, <2>3, <2>4
<1>5. CASE ServeRollback
  <2>1. PICK r \in Result : HandleRollback(r) /\ reply' = r
    BY <1>5 DEF ServeRollback
  <2>2. ActorInv /\ transaction_depth \in Nat
    BY <1>2, <1>5 DEF ServeRollback
  <2>3. CASE transaction_depth > 0
    BY <2>1, <2>2, <2>3, RollbackDoes
  <2>4. CASE transaction_depth = 0
    <3>1. UNCHANGED actorVars
      BY <2>1, <2>4 DEF HandleRollback
    <3>. QED  BY <1>1, <3>1
  <2>. QED  BY <2>2, <2>3, <2>4
<1>6. CASE ServeStartRollback
  <2>1. ActorInv /\ HandleStartRollback /\ transaction_depth \in Nat
    BY <1>2, <1>6 DEF ServeStartRollback
  <2>2. transaction_depth = 0 \/ transaction_depth > 0
    BY <2>1
  <2>. QED  BY <2>1, <2>2, DropDoes DEF Idle
<1>7. CASE ServeExecute
  <2>1. Head(queue).work \in Work /\ HandleExecute(Head(queue).work) /\ ActorInv
    BY <1>7, ServeExecuteIs DEF ServingInv
  <2>. QED  BY <1>7, <2>1, ExecuteDoes, StackIs
<1>8. CASE ActorExit
  <2>1. session \in Session /\ session' = EndTranRollback(session)
    BY <1>8 DEF ActorExit, Disconnect, HandleTypeOK, ActorTypeOK
  <2>. QED  BY <2>1, EndTranIs DEF IsSession
<1>9. CASE Client \/ Returns \/ UNCHANGED handleVars
  <2>1. UNCHANGED actorVars
    BY <1>9 DEF Client, BeginCall, CommitCall, RollbackCall, DropTransaction, ExecuteCall,
       CloseHandle, Call, Returns, BeginReturn, CommitReturn, RollbackReturn, handleVars
  <2>. QED  BY <1>1, <2>1
<1>. QED  BY <1>3, <1>4, <1>5, <1>6, <1>7, <1>8, <1>9 DEF HandleNext, Actor

(* What became durable was not dropped. *)
LEMMA NewlyDurable ==
  ASSUME AllFailuresReported, DiscardInv, [HandleNext]_handleVars
  PROVE  \/ session'.durable = session.durable
         \/ /\ Take("Commit") /\ reply' # "none" /\ Len(open) = 1
            /\ discarded \cap session'.durable = {}
         \/ /\ ServeExecute
            /\ \E w \in kept : session'.durable = session.durable \cup {w}
<1>0. /\ HandleTypeOK /\ CallOK /\ AheadOK /\ DepthInv /\ ServingInv
      /\ Reaches(queue, transaction_depth, Len(open) + Owed, kept)
      /\ InSync /\ phase # "exited" => discarded \cap (Seen \cup InFlight) = {}
      /\ transaction_depth \in Nat /\ handle_depth \in Nat /\ queue \in Seq(Command)
      /\ Len(open) \in Nat /\ open \in Seq(SUBSET Work)
      /\ Owed \in Int /\ (reply = "none" => Owed = 0)
  BY TypeFacts DEF DiscardInv, WorkInv, DepthInv, DeepOK, DiscardOK, Owed
<1>. DEFINE n == Len(open) + Owed
<1>1. n \in Int /\ Reaches(queue, transaction_depth, n, kept)
  BY <1>0
<1>2. CASE Take("Commit") /\ reply' # "none" /\ transaction_depth = 1 /\ session'.durable = Seen
  <2>0. "Commit" \in Calls
    BY DEF Calls
  <2>1. calling = "Commit" /\ reply = "none" /\ ~HasDrop(queue) /\ phase = "live"
    BY <1>0, <1>2, <2>0, ServedCall
  <2>2. handle_depth > 0 /\ open # <<>> /\ handle_depth + 0 <= transaction_depth
    BY <1>0, <2>1 DEF CallOK, AheadOK, DropQueued, Owed
  <2>3. n <= transaction_depth
    BY <1>0, <1>1, ReachesNow
  <2>4. Len(open) + 0 <= 1 /\ Len(open) >= 1
    BY <1>0, <1>2, <2>1, <2>2, <2>3
  <2>. DEFINE m == Len(open)
  <2>5. m \in Nat /\ m + 0 <= 1 /\ m >= 1
    BY <1>0, <2>4
  <2>. HIDE DEF m
  <2>6. m = 1 /\ handle_depth = 1
    BY <1>0, <1>2, <2>2, <2>5
  <2>7. InSync
    BY <1>0, <1>2, <2>1, <2>6 DEF InSync, DropQueued, m
  <2>. QED  BY <1>0, <1>2, <2>1, <2>6, <2>7 DEF m
<1>3. CASE /\ ServeExecute /\ transaction_depth = 0
           /\ session'.durable = session.durable \cup {Head(queue).work}
  <2>1. queue # <<>> /\ Head(queue).op = "Execute"
    BY <1>0, <1>3, ServeExecuteIs
  <2>2. Head(queue).work \in kept
    <3>. HIDE DEF n
    <3>1. Head(queue).op = "Execute" /\ Head(queue).work \notin kept
            => transaction_depth > 0
      BY <1>0, <1>1, <2>1, ReachesTaken
    <3>2. ~(transaction_depth > 0)
      BY <1>3
    <3>. QED  BY <2>1, <3>1, <3>2
  <2>. QED  BY <1>3, <2>2
<1>. QED  BY <1>0, <1>2, <1>3, DurableStep

(* A reply or a call of the client leaves its open work as it should be,   *)
(* not durable unless its commit is in doubt; a step of the actor leaves   *)
(* the client as it is.                                                    *)
LEMMA OpenClient ==
  ASSUME HandleTypeOK, CallOK, ~InDoubt => OpenNotYetDurable,
         [HandleNext]_handleVars, ~InDoubt'
  PROVE  \/ OpenNotYetDurable'
         \/ /\ UNCHANGED <<open, kept, discarded>>
            /\ calling = "Commit" /\ reply # "none" => UNCHANGED <<calling, reply>>
<1>. DEFINE n == Len(open)
<1>0. /\ n \in Nat /\ open \in Seq(SUBSET Work)
      /\ open # <<>> => n >= 1
      /\ session.durable \subseteq Seen
  BY TypeFacts DEF Seen, View
<1>1. UNCHANGED actorVars => session'.durable = session.durable
  BY DEF actorVars
<1>2. ASSUME open # <<>>, open' = Front(open), UNCHANGED actorVars
      PROVE  OpenNotYetDurable'
  <2>1. n >= 1 /\ Len(open') = n - 1 /\ \A k \in 1..(n - 1) : open'[k] = open[k]
    BY <1>0, <1>2, FrontIs
  <2>. HIDE DEF n
  <2>2. CASE n = 1
    <3>1. 1..(n - 1) = {}
      BY <2>2
    <3>. QED  BY <2>1, <3>1 DEF OpenNotYetDurable
  <2>3. CASE n # 1
    <3>1. OpenNotYetDurable
      BY <1>0, <2>3 DEF InDoubt, n
    <3>2. \A k \in 1..(n - 1) : k \in 1..n
      BY <1>0
    <3>. QED  BY <1>1, <1>2, <2>1, <3>1, <3>2 DEF OpenNotYetDurable, n
  <2>. QED  BY <2>2, <2>3
<1>3. ASSUME open # <<>>, Committed, UNCHANGED actorVars
      PROVE  OpenNotYetDurable'
  <2>1. /\ n >= 1 /\ Len(open') = n - 1 /\ \A k \in 1..(n - 2) : open'[k] = open[k]
        /\ n > 1 => open'[n - 1] = open[n - 1] \cup open[n]
    BY <1>0, <1>3, CommittedIs
  <2>. HIDE DEF n
  <2>2. CASE n = 1
    <3>1. 1..(n - 1) = {}
      BY <2>2
    <3>. QED  BY <2>1, <3>1 DEF OpenNotYetDurable
  <2>3. CASE n # 1
    <3>1. OpenNotYetDurable /\ n > 1
      BY <1>0, <2>1, <2>3 DEF InDoubt, n
    <3>2. /\ n \in 1..n /\ n - 1 \in 1..n
          /\ \A k \in 1..(n - 2) : k \in 1..n
          /\ \A k \in 1..(n - 1) : k = n - 1 \/ k \in 1..(n - 2)
      BY <1>0, <3>1
    <3>3. \A k \in 1..n : open[k] \cap session'.durable = {}
      BY <1>1, <1>3, <3>1 DEF OpenNotYetDurable, n
    <3>4. ASSUME NEW k \in 1..(n - 1)  PROVE open'[k] \cap session'.durable = {}
      BY <2>1, <3>1, <3>2, <3>3
    <3>. QED  BY <2>1, <3>4 DEF OpenNotYetDurable
  <2>. QED  BY <2>2, <2>3
<1>4. ASSUME open' = Append(open, {}), UNCHANGED actorVars, calling = "Begin"
      PROVE  OpenNotYetDurable'
  <2>1. /\ Len(open') = n + 1 /\ open'[n + 1] = {} /\ \A k \in 1..n : open'[k] = open[k]
    BY <1>0, <1>4
  <2>2. \A k \in 1..(n + 1) : k = n + 1 \/ k \in 1..n
    BY <1>0
  <2>3. OpenNotYetDurable
    BY <1>0, <1>4 DEF InDoubt
  <2>. QED  BY <1>1, <1>4, <2>1, <2>2, <2>3 DEF OpenNotYetDurable
<1>5. ASSUME NEW w \in Work, ExecuteCall(w)
      PROVE  OpenNotYetDurable'
  <2>1. /\ Len(open') = n /\ \A k \in 1..(n - 1) : open'[k] = open[k]
        /\ open = <<>> => open' = <<>>
        /\ open # <<>> => open'[n] = open[n] \cup {w}
        /\ w \notin Seen /\ calling = "none" /\ UNCHANGED actorVars
    BY <1>0, <1>5, ExecuteCallIs
  <2>2. OpenNotYetDurable
    BY <1>0, <2>1 DEF InDoubt
  <2>3. CASE open = <<>>
    <3>1. Len(open') = 0 /\ 1..0 = {}
      BY <2>1, <2>3
    <3>. QED  BY <3>1 DEF OpenNotYetDurable
  <2>4. CASE open # <<>>
    <3>1. \A k \in 1..n : k = n \/ k \in 1..(n - 1)
      BY <1>0
    <3>. QED  BY <1>0, <1>1, <2>1, <2>2, <2>4, <3>1 DEF OpenNotYetDurable
  <2>. QED  BY <2>3, <2>4
<1>. QED
  BY <1>0, <1>2, <1>3, <1>4, <1>5, ClientStep DEF Discarded, Unknown

(* Open work is not durable, unless the commit is in doubt.                *)
LEMMA OpenKept ==
  ASSUME AllFailuresReported, DiscardInv, [HandleNext]_handleVars, ~InDoubt'
  PROVE  OpenNotYetDurable'
<1>. DEFINE n == Len(open)
<1>0. /\ HandleTypeOK /\ CallOK /\ n \in Nat
      /\ ~InDoubt => OpenNotYetDurable
      /\ \A k \in 1..n : open[k] \cap kept = {}
  BY TypeFacts DEF DiscardInv, WorkInv, DepthInv, DiscardOK, InDoubt, OpenNotYetDurable,
     IssuedOnce
<1>1. CASE /\ UNCHANGED <<open, kept, discarded>>
           /\ calling = "Commit" /\ reply # "none" => UNCHANGED <<calling, reply>>
  <2>1. ~InDoubt
    BY <1>1 DEF InDoubt
  <2>2. CASE session'.durable = session.durable
    BY <1>0, <1>1, <2>1, <2>2 DEF OpenNotYetDurable
  <2>3. ASSUME NEW w \in kept, session'.durable = session.durable \cup {w}
        PROVE  OpenNotYetDurable'
    BY <1>0, <1>1, <2>1, <2>3 DEF OpenNotYetDurable
  <2>4. CASE Take("Commit") /\ reply' # "none" /\ n = 1
    <3>1. calling' = "Commit" /\ Len(open') = 1
      BY <1>0, <1>1, <2>4, ServedCall DEF Calls
    <3>. QED  BY <2>4, <3>1 DEF InDoubt
  <2>. QED  BY <2>2, <2>3, <2>4, NewlyDurable
<1>. QED  BY <1>0, <1>1, OpenClient

(* What was dropped does not become durable. *)
LEMMA DroppedKept ==
  ASSUME AllFailuresReported, DiscardInv, [HandleNext]_handleVars
  PROVE  DiscardedNeverDurable'
<1>0. /\ HandleTypeOK /\ CallOK /\ Len(open) \in Nat /\ open \in Seq(SUBSET Work)
      /\ discarded \cap session.durable = {}
      /\ ~InDoubt => OpenNotYetDurable
      /\ kept \cap discarded = {}
  BY TypeFacts DEF DiscardInv, WorkInv, DepthInv, DiscardOK, InDoubt, OpenNotYetDurable,
     DiscardedNeverDurable, IssuedOnce
<1>1. CASE UNCHANGED discarded
  BY <1>0, <1>1, NewlyDurable DEF DiscardedNeverDurable
<1>2. CASE UNCHANGED actorVars /\ open # <<>> /\ Discarded /\ calling # "Commit"
  <2>1. Len(open) \in 1..Len(open) /\ Last(open) = open[Len(open)]
    BY <1>0, <1>2, Innermost
  <2>2. OpenNotYetDurable
    BY <1>0, <1>2 DEF InDoubt
  <2>3. Last(open) \cap session.durable = {}
    BY <2>1, <2>2 DEF OpenNotYetDurable
  <2>4. session'.durable = session.durable /\ discarded' = discarded \cup Last(open)
    BY <1>2 DEF actorVars, Discarded
  <2>. QED  BY <1>0, <2>3, <2>4 DEF DiscardedNeverDurable
<1>3. ASSUME NEW w \in Work, ExecuteCall(w)  PROVE UNCHANGED discarded
  BY <1>0, <1>3, ExecuteCallIs
<1>. QED  BY <1>0, <1>1, <1>2, <1>3, ClientStep DEF Committed, Unknown

(* While all count alike, what was dropped is neither done nor waiting.    *)
LEMMA DroppedGone ==
  ASSUME AllFailuresReported, DiscardInv, [HandleNext]_handleVars,
         WorkInv', Reaches(queue', transaction_depth', Len(open') + Owed', kept'),
         IssuedOnce', DiscardedNeverDurable', InSync', phase' # "exited"
  PROVE  discarded' \cap (Seen' \cup InFlight') = {}
<1>0. /\ HandleTypeOK /\ CallOK /\ DepthInv /\ ServingInv /\ WorkOK /\ FlightOK
      /\ OnceEach(queue)
      /\ Len(open) \in Nat /\ open \in Seq(SUBSET Work) /\ queue \in Seq(Command)
      /\ InSync /\ phase # "exited" => discarded \cap (Seen \cup InFlight) = {}
      /\ phase # "exited"
  BY TypeFacts, ExitIsFinal DEF DiscardInv, WorkInv, DepthInv, DiscardOK, FlightOK
<1>1. CASE ~InSync
  <2>1. open' = <<>> /\ reply' = "none"
    BY <1>0, <1>1, Resync
  <2>2. Len(open') = 0 /\ Owed' = 0
    BY <2>1 DEF Owed
  <2>3. transaction_depth' = 0
    BY <2>2 DEF InSync
  <2>4. session'.log = <<>>
    BY <2>3 DEF WorkInv, ServingInv, ActorInv, ManualModeIffOpen
  <2>5. Seen' = session'.durable
    BY <2>4, EmptyLogHasNoWork DEF Seen, View
  <2>6. InFlight' \subseteq kept'
    <3>1. queue' \in Seq(Command) /\ InFlight' = Waiting(queue')
      BY TypeKept, <1>0 DEF HandleTypeOK, InFlight, Waiting
    <3>2. Reaches(queue', 0, 0, kept')
      BY <2>2, <2>3
    <3>. QED  BY <3>1, <3>2, ReachesNow
  <2>. QED  BY <2>5, <2>6 DEF IssuedOnce, DiscardedNeverDurable
<1>2. CASE InSync
  <2>1. discarded \cap (Seen \cup InFlight) = {}
    BY <1>0, <1>2
  <2>2. CASE UNCHANGED discarded /\ \A w \in Work : ~ExecuteCall(w)
    <3>1. ServeExecute => Head(queue).work \in InFlight
      <4>1. ASSUME ServeExecute  PROVE Head(queue).work \in InFlight
        <5>1. queue # <<>> /\ Head(queue).op = "Execute"
          BY <1>0, <4>1, ServeExecuteIs
        <5>. QED  BY <1>0, <5>1, WaitingTaken, WaitingIs
      <4>. QED  BY <4>1
    <3>2. Seen' \subseteq Seen \cup InFlight
      BY <1>0, <3>1, SeenStep
    <3>3. InFlight' \subseteq InFlight
      BY <1>0, <2>2, FlightStep
    <3>. QED  BY <2>1, <2>2, <3>2, <3>3
  <2>3. ASSUME NEW w \in Work, ExecuteCall(w)
        PROVE  discarded' \cap (Seen' \cup InFlight') = {}
    <3>1. w \notin discarded /\ discarded' = discarded /\ UNCHANGED actorVars
      BY <1>0, <2>3, ExecuteCallIs
    <3>2. InFlight' = InFlight \cup {w} /\ Seen' = Seen
      BY <1>0, <2>3, <3>1, InFlightIssued DEF actorVars, Seen
    <3>. QED  BY <2>1, <3>1, <3>2
  <2>4. ASSUME NEW level, StartRollback(level)  PROVE FALSE
    <3>1. HasDrop(queue')
      BY <1>0, <2>4, DropSent, CommandIs DEF StartRollback, Send
    <3>. QED  BY <3>1 DEF InSync, DropQueued
  <2>5. CASE RollbackReturn
    <3>1. /\ calling = "Rollback" /\ reply = "ok" /\ UNCHANGED <<queue, actorVars>>
          /\ Discarded /\ open # <<>> /\ queue = <<>>
      BY <1>0, <2>4, <2>5 DEF RollbackReturn, Return, CallOK
    <3>2. open[Len(open)] \cap Seen = {}
      BY <1>0, <1>2, <3>1 DEF WorkOK, EndedOK
    <3>3. discarded' = discarded \cup open[Len(open)]
      BY <1>0, <3>1, Innermost DEF Discarded
    <3>4. Seen' = Seen /\ InFlight' = {}
      BY <3>1 DEF actorVars, Seen, InFlight
    <3>. QED  BY <2>1, <3>2, <3>3, <3>4
  <2>6. CASE RollbackCall
    <3>1. Call("Rollback")
      <4>1. handle_depth = Len(open)
        BY <1>2 DEF InSync
      <4>2. open # <<>> => Len(open) # 0
        BY <1>0, EmptySeq
      <4>. QED  BY <2>6, <4>1, <4>2 DEF RollbackCall
    <3>2. UNCHANGED discarded /\ \A w \in Work : ~ExecuteCall(w)
      <4>1. calling' = "Rollback" /\ calling = "none" /\ UNCHANGED discarded
        BY <2>6, <3>1 DEF RollbackCall, CanCall, Call, clientVars
      <4>. QED  BY <4>1 DEF ExecuteCall
    <3>. QED  BY <2>2, <3>2
  <2>7. CASE DropTransaction
    BY <2>4, <2>7 DEF DropTransaction
  <2>8. CASE BeginCall \/ CommitCall \/ CloseHandle \/ BeginReturn \/ CommitReturn
    <3>1. UNCHANGED discarded
      BY <2>8 DEF BeginCall, CommitCall, CloseHandle, BeginReturn, CommitReturn, Call,
         Committed, Unknown, clientVars
    <3>. QED  BY <2>2, <2>3, <3>1
  <2>9. CASE Actor \/ UNCHANGED handleVars
    <3>1. UNCHANGED discarded
      BY <2>9 DEF Actor, ServeBegin, ServeCommit, ServeRollback, ServeStartRollback,
         ServeExecute, Take, ActorExit, handleVars, clientVars
    <3>. QED  BY <2>2, <2>3, <3>1
  <2>. QED
    BY <2>3, <2>5, <2>6, <2>7, <2>8, <2>9 DEF HandleNext, Client, Returns
<1>. QED  BY <1>1, <1>2

(* Where the dropped work is. *)
LEMMA DiscardInvariance ==
  AllFailuresReported /\ SavesSucceed => (HandleSpec => []DiscardInv)
<1>. SUFFICES ASSUME AllFailuresReported, SavesSucceed  PROVE HandleSpec => []DiscardInv
  OBVIOUS
<1>1. HandleInit => (WorkInv => DiscardInv)
  <2>. SUFFICES ASSUME HandleInit, WorkInv  PROVE DiscardInv
    OBVIOUS
  <2>1. /\ open = <<>> /\ queue = <<>> /\ kept = {} /\ discarded = {} /\ reply = "none"
        /\ transaction_depth = 0
    BY DEF HandleInit, ActorInit
  <2>2. Len(open) = 0 /\ Owed = 0 /\ 1..0 = {}
    BY <2>1 DEF Owed
  <2>3. DeepOK
    <3>1. Reaches(<<>>, 0, 0, kept)
      BY ReachesNone
    <3>. QED  BY <2>1, <2>2, <3>1 DEF DeepOK
  <2>4. IssuedOnce /\ DiscardOK
    BY <2>1, <2>2 DEF IssuedOnce, DiscardOK, DiscardedNeverDurable, OpenNotYetDurable
  <2>. QED  BY <2>3, <2>4 DEF DiscardInv
<1>2. ASSUME DiscardInv, WorkInv', [HandleNext]_handleVars  PROVE DiscardInv'
  <2>1. /\ HandleTypeOK /\ CallOK /\ DepthInv /\ ServingInv /\ DeepOK /\ IssuedOnce
    BY <1>2 DEF DiscardInv, WorkInv, DepthInv
  <2>2. Reaches(queue', transaction_depth', Len(open') + Owed', kept')
    BY <1>2, <2>1, DeepKept
  <2>3. DeepOK'
    BY <1>2, <2>1, <2>2, BeginFailsOutside DEF DeepOK
  <2>4. IssuedOnce'
    BY <1>2, <2>1, IssuedKept
  <2>5. DiscardedNeverDurable'
    BY <1>2, DroppedKept
  <2>6. DiscardOK'
    <3>1. InSync' /\ phase' # "exited" => discarded' \cap (Seen' \cup InFlight') = {}
      BY <1>2, <2>2, <2>4, <2>5, DroppedGone
    <3>2. ~InDoubt' => OpenNotYetDurable'
      BY <1>2, OpenKept
    <3>. QED  BY <2>5, <3>1, <3>2 DEF DiscardOK, InDoubt, OpenNotYetDurable
  <2>. QED  BY <1>2, <2>3, <2>4, <2>6 DEF DiscardInv
<1>. QED  BY <1>1, <1>2, WorkInvariance, PTL DEF HandleSpec

(* What was rolled back or dropped never becomes durable, even when nested *)
(* transactions are dropped, as long as every failure is reported and no   *)
(* begin of a nested transaction fails.                                    *)
THEOREM HandleDiscardsForGood ==
  AllFailuresReported /\ SavesSucceed => (HandleSpec => []DiscardedNeverDurable)
<1>. SUFFICES ASSUME AllFailuresReported, SavesSucceed
              PROVE  HandleSpec => []DiscardedNeverDurable
  OBVIOUS
<1>1. DiscardInv => DiscardedNeverDurable
  BY DEF DiscardInv, DiscardOK
<1>. QED  BY <1>1, DiscardInvariance, PTL

-----------------------------------------------------------------------------
(* The open work, whatever fails. *)

(* While the counters agree, only the outermost commit makes open work     *)
(* durable, and it has not been answered.                                  *)
LEMMA OpenServed ==
  ASSUME DepthInv, ManualInside, ~nested_dropped, [HandleNext]_handleVars,
         open # <<>>, UNCHANGED open, ~InDoubt'
  PROVE  session'.durable = session.durable
<1>. DEFINE n == Len(open)
<1>0. /\ HandleTypeOK /\ CallOK /\ ActorTypeOK /\ n \in Nat /\ n >= 1
      /\ transaction_depth \in Nat /\ session \in Session
  BY TypeFacts DEF DepthInv, HandleTypeOK
<1>1. ~DropQueued /\ transaction_depth = n + Owed
  BY DEF DepthInv, AgreeOK
<1>2. ASSUME NEW op, Take(op)
      PROVE  transaction_depth = n
  <2>1. reply = "none" /\ Owed = 0
    BY <1>0, <1>2 DEF Take, CallOK, Owed
  <2>. QED  BY <1>0, <1>1, <2>1
<1>3. ASSUME NEW op, Take(op), Handled
      PROVE  n = 1 \/ session'.durable = session.durable
  <2>1. transaction_depth = n
    BY <1>2, <1>3
  <2>. HIDE DEF n
  <2>2. session.autocommit = FALSE
    BY <1>0, <2>1 DEF ManualInside
  <2>3. CASE transaction_depth # 1
    <3>1. session.autocommit # TRUE
      BY <2>2
    <3>. QED  BY <1>0, <1>3, <2>3, <3>1, DurableKept
  <2>. QED  BY <2>1, <2>3
<1>4. UNCHANGED actorVars => session'.durable = session.durable
  BY DEF actorVars
<1>5. CASE ServeBegin
  <2>1. PICK r \in Result : HandleBegin(r)
    BY <1>5 DEF ServeBegin
  <2>2. /\ AutocommitOff(session).durable = session.durable
        /\ SaveTransaction(session, transaction_depth).durable = session.durable
    BY <1>0, AutocommitIs, SaveIs DEF IsSession
  <2>. QED  BY <1>4, <2>1, <2>2 DEF HandleBegin
<1>6. CASE ServeCommit
  <2>1. PICK r \in Result : HandleCommit(r) /\ reply' = r
    BY <1>6 DEF ServeCommit
  <2>2. Take("Commit") /\ Handled /\ reply' # "none"
    BY <1>6, <2>1 DEF ServeCommit, Handled, Result
  <2>3. calling' = "Commit" /\ Len(open') = n
    BY <1>0, <2>2, ServedCall DEF Calls
  <2>4. n # 1
    BY <2>2, <2>3 DEF InDoubt
  <2>. QED  BY <1>3, <2>2, <2>4
<1>7. CASE ServeRollback
  <2>1. PICK r \in Result : HandleRollback(r)
    BY <1>7 DEF ServeRollback
  <2>2. Take("Rollback") /\ Handled
    BY <1>7, <2>1 DEF ServeRollback, Handled
  <2>3. CASE n # 1
    BY <1>3, <2>2, <2>3
  <2>4. CASE n = 1
    <3>1. transaction_depth = 1
      BY <1>2, <2>2, <2>4
    <3>2. /\ EndTranRollback(session).durable = session.durable
          /\ AutocommitOn(EndTranRollback(session)).durable = session.durable
      BY <1>0, EndTranIs, EndedIs DEF IsSession
    <3>. QED  BY <1>4, <2>1, <3>1, <3>2 DEF HandleRollback, RestoreAutocommit
  <2>. QED  BY <2>3, <2>4
<1>8. CASE ServeStartRollback
  <2>1. queue \in Seq(Command) /\ queue # <<>> /\ Head(queue).op = "StartRollback"
    BY <1>0, <1>8, TypeFacts DEF ServeStartRollback, Take
  <2>2. HasDrop(queue)
    <3>1. Len(queue) >= 1 /\ Head(queue) = queue[1] /\ Len(queue) \in Nat
      BY <2>1, Taken
    <3>. QED  BY <2>1, <3>1 DEF HasDrop
  <2>. QED  BY <1>1, <2>2 DEF DropQueued
<1>9. CASE ServeExecute
  <2>1. Head(queue).work \in Work /\ HandleExecute(Head(queue).work)
    BY <1>0, <1>9, ServeExecuteIs
  <2>2. Take("Execute") /\ transaction_depth = n
    BY <1>2, <1>9 DEF ServeExecute
  <2>3. ~session.autocommit
    BY <1>0, <2>2 DEF ManualInside
  <2>4. /\ Execute(session, Head(queue).work).durable = session.durable
        /\ Abort(session).durable = session.durable
    BY <1>0, <2>1, <2>3, ExecuteIs, EndTranIs DEF Abort, EndTranRollback, IsSession
  <2>. QED  BY <2>1, <2>4 DEF HandleExecute
<1>10. CASE ActorExit
  <2>1. session' = EndTranRollback(session)
    BY <1>10 DEF ActorExit, Disconnect
  <2>. QED  BY <1>0, <2>1, EndTranIs DEF IsSession
<1>11. CASE Client \/ Returns \/ UNCHANGED handleVars
  <2>1. UNCHANGED actorVars
    BY <1>11 DEF Client, BeginCall, CommitCall, RollbackCall, DropTransaction, ExecuteCall,
       CloseHandle, Call, Returns, BeginReturn, CommitReturn, RollbackReturn, handleVars
  <2>. QED  BY <1>4, <2>1
<1>. QED  BY <1>5, <1>6, <1>7, <1>8, <1>9, <1>10, <1>11 DEF HandleNext, Actor

(* A dropped nested transaction is remembered. *)
LEMMA DropRemembered ==
  ASSUME HandleTypeOK, [HandleNext]_handleVars, nested_dropped
  PROVE  nested_dropped'
<1>1. ASSUME NEW op, Take(op)  PROVE nested_dropped'
  BY <1>1 DEF Take, clientVars
<1>2. CASE Actor
  BY <1>1, <1>2 DEF Actor, ServeBegin, ServeCommit, ServeRollback, ServeStartRollback,
     ServeExecute, ActorExit, clientVars
<1>3. CASE Returns
  BY <1>3 DEF Returns, BeginReturn, CommitReturn, RollbackReturn, StartRollback, NoteLevel,
     Committed
<1>4. CASE Client
  BY <1>4 DEF Client, BeginCall, CommitCall, RollbackCall, DropTransaction, ExecuteCall,
     CloseHandle, Call, StartRollback, NoteLevel, Committed, clientVars
<1>. QED  BY <1>2, <1>3, <1>4 DEF HandleNext, handleVars, clientVars

(* Open work is not durable while its commit is not in doubt, and the      *)
(* connection is in manual-commit mode meanwhile.                          *)
OpenInv == /\ DepthInv /\ ManualInside
           /\ ~nested_dropped /\ ~InDoubt => OpenNotYetDurable

LEMMA OpenInvariance == HandleSpec => []OpenInv
<1>1. HandleInit /\ DepthInv => OpenInv
  <2>. SUFFICES ASSUME HandleInit, DepthInv  PROVE OpenInv
    OBVIOUS
  <2>1. open = <<>> /\ transaction_depth = 0
    BY DEF HandleInit, ActorInit
  <2>2. Len(open) = 0 /\ 1..0 = {}
    BY <2>1
  <2>. QED  BY <2>1, <2>2 DEF OpenInv, ManualInside, OpenNotYetDurable
<1>2. ASSUME OpenInv, DepthInv', [HandleNext]_handleVars  PROVE OpenInv'
  <2>0. /\ HandleTypeOK /\ CallOK /\ DepthInv /\ ActorTypeOK /\ ManualInside
        /\ open \in Seq(SUBSET Work)
    BY <1>2, TypeFacts DEF OpenInv, DepthInv, HandleTypeOK
  <2>1. ManualInside'
    <3>1. CASE Handled
      BY <2>0, <3>1, ManualStays
    <3>2. CASE ActorExit
      <4>1. session' = EndTranRollback(session) /\ UNCHANGED transaction_depth
        BY <3>2 DEF ActorExit, Disconnect
      <4>2. session'.autocommit = session.autocommit
        BY <2>0, <4>1, EndTranIs DEF IsSession, ActorTypeOK
      <4>. QED  BY <2>0, <4>1, <4>2 DEF ManualInside
    <3>. QED  BY <1>2, <2>0, <3>1, <3>2, ActorPart
  <2>2. ASSUME ~nested_dropped', ~InDoubt'  PROVE OpenNotYetDurable'
    <3>1. ~nested_dropped
      BY <1>2, <2>0, <2>2, DropRemembered
    <3>2. ~InDoubt => OpenNotYetDurable
      BY <1>2, <3>1 DEF OpenInv
    <3>3. CASE /\ UNCHANGED <<open, kept, discarded>>
               /\ calling = "Commit" /\ reply # "none" => UNCHANGED <<calling, reply>>
      <4>1. ~InDoubt
        BY <2>2, <3>3 DEF InDoubt
      <4>2. CASE open = <<>>
        <5>1. Len(open') = 0 /\ 1..0 = {}
          BY <3>3, <4>2
        <5>. QED  BY <5>1 DEF OpenNotYetDurable
      <4>3. CASE open # <<>>
        <5>1. session'.durable = session.durable
          BY <1>2, <2>0, <2>2, <3>1, <3>3, <4>3, OpenServed
        <5>. QED  BY <3>2, <3>3, <4>1, <5>1 DEF OpenNotYetDurable
      <4>. QED  BY <4>2, <4>3
    <3>. QED  BY <1>2, <2>0, <2>2, <3>2, <3>3, OpenClient
  <2>. QED  BY <1>2, <2>1, <2>2 DEF OpenInv
<1>. QED  BY <1>1, <1>2, DepthInvariance, PTL DEF HandleSpec

(* Work of an open transaction is not durable before its commit is under   *)
(* way, whatever fails and whatever the server aborts, as long as no       *)
(* nested transaction was dropped.                                         *)
THEOREM HandleOpenNotDurable == HandleSpec => []OpenNotDurable
<1>1. OpenInv => OpenNotDurable
  <2>. SUFFICES ASSUME OpenInv, calling # "Commit", ~nested_dropped
                PROVE  (UNION ToSet(open)) \cap session.durable = {}
    BY DEF OpenNotDurable
  <2>1. ToSet(open) = {open[k] : k \in 1..Len(open)}
    BY DEF ToSet
  <2>2. OpenNotYetDurable
    BY DEF OpenInv, InDoubt
  <2>. QED  BY <2>1, <2>2 DEF OpenNotYetDurable
<1>. QED  BY <1>1, OpenInvariance, PTL
=============================================================================
