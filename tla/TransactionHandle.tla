-------------------------- MODULE TransactionHandle --------------------------
(***************************************************************************)
(* An MssqlConnection handle (connection.rs, transaction.rs), its          *)
(* unbounded command channel, and the actor behind it.  The handle keeps a *)
(* transaction depth of its own.  begin, commit and rollback send a        *)
(* command and block for the reply; start_rollback, which runs when a      *)
(* Transaction is dropped, and the statements of a query only send.        *)
(*                                                                         *)
(* The client is sqlx-core's Transaction wrapper (external): it owns the   *)
(* handle mutably, so only the innermost open transaction can act, and one *)
(* whose commit or rollback fails is dropped with its rollback pending.    *)
(*                                                                         *)
(* What the client believes is kept apart from what the server did:        *)
(*   open       for each open Transaction, outermost first, the work       *)
(*              issued in it                                               *)
(*   kept       work of transactions whose outermost commit returned Ok,   *)
(*              and work issued outside every transaction                  *)
(*   discarded  work of transactions rolled back or dropped                *)
(***************************************************************************)
EXTENDS TransactionActor, SequencesExt, FiniteSets

CONSTANTS
  MaxOpen,         \* bound: Transactions the client has open at once
  MaxQueue         \* bound: commands in the channel

ASSUME HandleAssumption == MaxOpen \in Nat /\ MaxQueue \in Nat

VARIABLES
  handle_depth,    \* MssqlConnection::transaction_depth
  queue,           \* the command channel
  calling,         \* the blocking call in progress, or "none"
  reply,           \* the reply of the actor to it, or "none"
  phase,           \* "live"; "closed" once the handle is gone; "exited"
  open, kept, discarded,
  nested_dropped   \* was a rollback ever queued for a nested Transaction

clientVars == <<open, kept, discarded, nested_dropped>>
callVars == <<handle_depth, queue, calling, reply, phase>>
handleVars == <<actorVars, callVars, clientVars>>

Calls == {"Begin", "Commit", "Rollback"}

Command == [op : Calls \cup {"StartRollback"}] \cup [op : {"Execute"}, work : Work]

HandleTypeOK ==
  /\ ActorTypeOK
  /\ handle_depth \in Nat
  /\ queue \in Seq(Command)
  /\ calling \in Calls \cup {"none"}
  /\ reply \in Result \cup {"none"}
  /\ phase \in {"live", "closed", "exited"}
  /\ open \in Seq(SUBSET Work)
  /\ kept \subseteq Work /\ discarded \subseteq Work
  /\ nested_dropped \in BOOLEAN

HandleInit ==
  /\ ActorInit
  /\ handle_depth = 0
  /\ queue = <<>>
  /\ calling = "none" /\ reply = "none" /\ phase = "live"
  /\ open = <<>> /\ kept = {} /\ discarded = {} /\ nested_dropped = FALSE

-----------------------------------------------------------------------------
(* What the client concludes about its innermost transaction. *)
Committed == /\ open' = IF Len(open) = 1 THEN <<>>
                        ELSE [Front(open) EXCEPT ![Len(open) - 1] = @ \cup Last(open)]
             /\ kept' = IF Len(open) = 1 THEN kept \cup Last(open) ELSE kept
             /\ UNCHANGED <<discarded, nested_dropped>>

Discarded == /\ open' = Front(open)
             /\ discarded' = discarded \cup Last(open)
             /\ UNCHANGED kept

(* After a failed commit it knows nothing. *)
Unknown == open' = Front(open) /\ UNCHANGED <<kept, discarded>>

CanCall == phase = "live" /\ calling = "none" /\ Len(queue) < MaxQueue

Send(c) == queue' = Append(queue, c)

Call(op) == /\ Send([op |-> op])
            /\ calling' = op
            /\ UNCHANGED <<handle_depth, reply, phase, actorVars, clientVars>>

(* begin_blocking always asks the actor. *)
BeginCall ==
  /\ CanCall
  /\ Len(open) < MaxOpen
  /\ Len(session.log) + Len(queue) < MaxLog
  /\ Call("Begin")

(* commit and rollback ask it only if the handle counts a transaction. *)
CommitCall ==
  /\ CanCall
  /\ open # <<>>
  /\ \/ handle_depth > 0 /\ Call("Commit")
     \/ handle_depth = 0 /\ Committed /\ UNCHANGED <<actorVars, callVars>>

RollbackCall ==
  /\ CanCall
  /\ open # <<>>
  /\ \/ handle_depth > 0 /\ Call("Rollback")
     \/ handle_depth = 0 /\ Discarded /\ UNCHANGED <<nested_dropped, actorVars, callVars>>

NoteLevel(level) == nested_dropped' = (nested_dropped \/ level > 1)

(* Mutant: a dropped transaction is only forgotten. *)
StartRollbackForgets(level) ==
  handle_depth' = 0 /\ NoteLevel(level) /\ UNCHANGED queue

(* Mutant: the handle closes one level, as the actor does, even if none is *)
(* open.                                                                   *)
StartRollbackCountsDown(level) == /\ Send([op |-> "StartRollback"])
                                  /\ handle_depth' = handle_depth - 1
                                  /\ NoteLevel(level)

(* Mutant: the depth is left for the actor to correct. *)
StartRollbackKeepsDepth(level) ==
  Send([op |-> "StartRollback"]) /\ NoteLevel(level) /\ UNCHANGED handle_depth

(* start_rollback: queue the command, forget the depth.  Which level the   *)
(* client means is known to nobody else.                                   *)
StartRollback(level) == /\ Send([op |-> "StartRollback"])
                        /\ handle_depth' = 0
                        /\ NoteLevel(level)

DropTransaction ==
  /\ CanCall
  /\ open # <<>>
  /\ StartRollback(Len(open))
  /\ Discarded
  /\ UNCHANGED <<calling, reply, phase, actorVars>>

Issued == kept \cup discarded \cup UNION ToSet(open)

(* A statement is sent and not waited for (fetch_many). *)
ExecuteCall(w) ==
  /\ CanCall
  /\ w \notin Issued
  /\ \A i \in 1..Len(queue) : queue[i] # [op |-> "Execute", work |-> w]
  /\ w \notin View(session)
  /\ Len(session.log) + Len(queue) < MaxLog
  /\ Send([op |-> "Execute", work |-> w])
  /\ IF open = <<>>
     THEN kept' = kept \cup {w} /\ UNCHANGED open
     ELSE open' = [open EXCEPT ![Len(open)] = @ \cup {w}] /\ UNCHANGED kept
  /\ UNCHANGED <<discarded, nested_dropped, handle_depth, calling, reply, phase,
                 actorVars>>

-----------------------------------------------------------------------------
Return(op) == calling = op /\ reply # "none" /\ calling' = "none" /\ reply' = "none"

(* sqlx-core may roll back a begin that failed, in case it had happened. *)
BeginReturn ==
  /\ Return("Begin")
  /\ \/ /\ reply = "ok"
        /\ handle_depth' = handle_depth + 1
        /\ open' = Append(open, {})
        /\ UNCHANGED <<queue, kept, discarded, nested_dropped>>
     \/ /\ reply = "err"
        /\ UNCHANGED <<open, kept, discarded>>
        /\ \/ StartRollback(Len(open) + 1)
           \/ UNCHANGED <<queue, handle_depth, nested_dropped>>
  /\ UNCHANGED <<phase, actorVars>>

(* Mutant: the handle forgets every level at the first commit. *)
CommitReturnAll ==
  /\ Return("Commit")
  /\ reply = "ok"
  /\ handle_depth' = 0
  /\ Committed
  /\ UNCHANGED <<queue, phase, actorVars>>

CommitReturn ==
  /\ Return("Commit")
  /\ \/ /\ reply = "ok"
        /\ handle_depth' = handle_depth - 1
        /\ Committed
        /\ UNCHANGED queue
     \/ /\ reply = "err"
        /\ StartRollback(Len(open))
        /\ Unknown
  /\ UNCHANGED <<phase, actorVars>>

RollbackReturn ==
  /\ Return("Rollback")
  /\ Discarded
  /\ \/ /\ reply = "ok"
        /\ handle_depth' = handle_depth - 1
        /\ UNCHANGED <<queue, nested_dropped>>
     \/ /\ reply = "err"
        /\ StartRollback(Len(open))
  /\ UNCHANGED <<phase, actorVars>>

(* The handle is dropped; no Transaction can outlive it. *)
CloseHandle ==
  /\ phase = "live" /\ calling = "none" /\ open = <<>>
  /\ phase' = "closed"
  /\ UNCHANGED <<handle_depth, queue, calling, reply, actorVars, clientVars>>

-----------------------------------------------------------------------------
(* Mutant: a closed channel is not drained. *)
TakeWhileLive(op) == /\ phase = "live"
                     /\ queue # <<>>
                     /\ Head(queue).op = op
                     /\ queue' = Tail(queue)
                     /\ UNCHANGED <<handle_depth, calling, phase, clientVars>>

(* The actor loop takes the oldest command and runs its handler. *)
Take(op) == /\ phase # "exited"
            /\ queue # <<>>
            /\ Head(queue).op = op
            /\ queue' = Tail(queue)
            /\ UNCHANGED <<handle_depth, calling, phase, clientVars>>

ServeBegin == Take("Begin") /\ \E r \in Result : HandleBegin(r) /\ reply' = r

(* Mutant: the reply is lost when there is nothing to commit or more than  *)
(* one level is open.                                                      *)
ServeCommitMute ==
  /\ Take("Commit")
  /\ \E r \in Result : HandleCommit(r)
                       /\ reply' = IF transaction_depth = 1 THEN r ELSE reply

ServeCommit == Take("Commit") /\ \E r \in Result : HandleCommit(r) /\ reply' = r

ServeRollback ==
  Take("Rollback") /\ \E r \in Result : HandleRollback(r) /\ reply' = r

ServeStartRollback ==
  Take("StartRollback") /\ HandleStartRollback /\ UNCHANGED reply

ServeExecute ==
  Take("Execute") /\ HandleExecute(Head(queue).work) /\ UNCHANGED reply

(* The channel is closed and drained: the loop ends and drops the          *)
(* connection, which rolls back what is pending.                           *)
ActorExit ==
  /\ phase = "closed" /\ queue = <<>>
  /\ phase' = "exited"
  /\ session' = Disconnect(session)
  /\ UNCHANGED <<transaction_depth, handle_depth, queue, calling, reply, clientVars>>

Client == \/ BeginCall \/ CommitCall \/ RollbackCall \/ DropTransaction
          \/ \E w \in Work : ExecuteCall(w)
          \/ CloseHandle

Returns == BeginReturn \/ CommitReturn \/ RollbackReturn

Actor == \/ ServeBegin \/ ServeCommit \/ ServeRollback
         \/ ServeStartRollback \/ ServeExecute \/ ActorExit

HandleNext == Client \/ Returns \/ Actor

(* The actor thread is never stopped and a caller that has its reply takes *)
(* it; what the client calls is up to the client.                          *)
HandleSpec ==
  HandleInit /\ [][HandleNext]_handleVars /\ WF_handleVars(Actor) /\ WF_handleVars(Returns)

-----------------------------------------------------------------------------
Settled == queue = <<>> /\ calling = "none"

InFlight == {w \in Work : \E i \in 1..Len(queue) :
                            queue[i] = [op |-> "Execute", work |-> w]}

(* Until a nested Transaction is dropped, by itself or because its own     *)
(* rollback failed: once the channel is drained the two depth counters     *)
(* (connection.rs:33 and actor.rs:21) agree with each other and with the   *)
(* transactions the client has open.                                       *)
DepthsAgree ==
  Settled /\ phase = "live" /\ ~nested_dropped =>
    handle_depth = transaction_depth /\ handle_depth = Len(open)

(* What the client was told is committed is committed: work of a           *)
(* transaction whose outermost commit() returned Ok, and work issued       *)
(* outside every transaction once the actor got to it (connection.rs:109). *)
KeptIsDurable == kept \ InFlight \subseteq session.durable

(* That holds until a nested Transaction is dropped.                       *)
KeptIsDurableAtFirst == ~nested_dropped => KeptIsDurable

(* What was rolled back or dropped never becomes durable, however many     *)
(* commands follow (connection.rs:127 and 144).                            *)
DiscardedNeverDurable == discarded \cap session.durable = {}

(* Until a nested Transaction is dropped, the work of an open transaction  *)
(* is not durable before its commit is under way.                          *)
OpenNotDurable ==
  calling # "Commit" /\ ~nested_dropped =>
    (UNION ToSet(open)) \cap session.durable = {}

(* A connection with no transaction open goes back to its pool outside     *)
(* every server transaction, unless a nested Transaction was dropped.      *)
ReleasedClean ==
  Settled /\ open = <<>> /\ ~nested_dropped => session.autocommit /\ session.log = <<>>

(* Even when nested transactions are dropped, the actor never counts fewer *)
(* transactions than the handle: a commit the handle asks for never ends a *)
(* server transaction that an enclosing Transaction still has open.        *)
HandleNeverAhead == Settled => handle_depth <= transaction_depth

(* Every blocking call returns: the actor answers each command, whatever   *)
(* state it is in (actor.rs:52-60).                                        *)
CallsReturn == calling # "none" ~> calling = "none"

(* Dropping the handle ends the actor once it has served the whole channel *)
(* (actor.rs:28 and connection.rs:261).                                    *)
ActorExits == phase = "closed" ~> phase = "exited"
=============================================================================
