---------------------------- MODULE ResultStream ----------------------------
(***************************************************************************)
(* How the results of a query travel: the actor executes the batch and     *)
(* walks its results (handle_execute in connection/actor.rs,               *)
(* drive_result_sets and the two row streamers in connection/helpers.rs),  *)
(* sending each row and row count into a bounded channel from which the    *)
(* client reads (fetch_many and fetch_optional in connection.rs).  Each    *)
(* query has a channel of its own; the client borrows the handle mutably   *)
(* while it reads, so it reads one stream at a time, but the actor may     *)
(* still be busy with a stream that was dropped.                           *)
(*                                                                         *)
(* A batch is a sequence of results: a row count (no columns) or a number  *)
(* of rows.  Faults names the ODBC calls that may fail:                    *)
(*   "execute"  allocating, preparing or executing the statement           *)
(*   "inspect"  describing a result, reading a row count, binding a buffer *)
(*   "fetch"    fetching a rowset or converting its values                 *)
(*   "unbind"   giving the cursor back after buffered fetching             *)
(*   "advance"  SQLMoreResults                                             *)
(***************************************************************************)
EXTENDS Integers, SequencesExt

CONSTANTS
  MaxQueries,      \* bound: queries issued
  Batches,         \* the batches a query may be
  Capacity,        \* of a result channel; 64 in the code
  RowSetSizes,     \* rows per fetch: batch_size, or 1 when unbuffered
  Faults

Queries == 1..MaxQueries

Count == [columns |-> 0, rows |-> 0]
Rows(n) == [columns |-> 1, rows |-> n]

ASSUME StreamAssumption ==
  /\ MaxQueries \in Nat /\ Capacity \in Nat \ {0}
  /\ RowSetSizes \subseteq Nat \ {0}
  /\ Batches \subseteq Seq([columns : Nat, rows : Nat]) \ {<<>>}
  /\ \A b \in Batches : \A i \in 1..Len(b) : b[i].columns = 0 => b[i].rows = 0
  /\ Faults \subseteq {"execute", "inspect", "fetch", "unbind", "advance"}

VARIABLES
  (* the client *)
  batch,       \* for each query, its batch; <<>> before it is issued
  mode,        \* "many" (fetch_many) or "optional" (fetch_optional)
  receiver,    \* "idle", "open", "ended" (the stream said so) or "dropped"
  got,         \* events received
  rowset,      \* the settings of the connection: rows per fetch
  (* the channels *)
  chan,        \* events sent and not received
  sender,      \* "idle", "queued" (in a command), "held" (by the actor), "gone"
  (* the actor *)
  pc,          \* what the actor does next; "idle" between commands
  at,          \* the query it serves, or served last
  result,      \* the result of its batch it is at
  fetched,     \* rows of this result fetched so far
  pending      \* rows of the rowset at hand that are still to be sent

clientVars == <<batch, mode, receiver, got, rowset>>
walkVars == <<at, result, fetched, pending>>
streamVars == <<clientVars, chan, sender, pc, walkVars>>

Row(i, j) == [kind |-> "row", result |-> i, row |-> j]
Done(i) == [kind |-> "done", result |-> i, row |-> 0]
Error == [kind |-> "error", result |-> 0, row |-> 0]

Event == [kind : {"row", "done", "error"}, result : Nat, row : Nat]

(* Everything a batch produces: the rows of each result, then its count. *)
Expected(b) ==
  FlattenSeq([i \in 1..Len(b) |->
                Append([j \in 1..b[i].rows |-> Row(i, j)], Done(i))])

StreamTypeOK ==
  /\ batch \in [Queries -> Batches \cup {<<>>}]
  /\ mode \in [Queries -> {"many", "optional"}]
  /\ receiver \in [Queries -> {"idle", "open", "ended", "dropped"}]
  /\ \A q \in Queries : got[q] \in Seq(Event) /\ chan[q] \in Seq(Event)
  /\ \A q \in Queries : Len(chan[q]) <= Capacity
  /\ sender \in [Queries -> {"idle", "queued", "held", "gone"}]
  /\ pc \in {"idle", "inspect", "count", "fetch", "send", "finish",
             "advance", "fail"}
  /\ at \in 0..MaxQueries
  /\ result \in Nat /\ fetched \in Nat /\ pending \in 0..rowset
  /\ rowset \in RowSetSizes

StreamInit ==
  /\ batch = [q \in Queries |-> <<>>]
  /\ mode = [q \in Queries |-> "many"]
  /\ receiver = [q \in Queries |-> "idle"]
  /\ got = [q \in Queries |-> <<>>]
  /\ rowset \in RowSetSizes
  /\ chan = [q \in Queries |-> <<>>]
  /\ sender = [q \in Queries |-> "idle"]
  /\ pc = "idle" /\ at = 0 /\ result = 0 /\ fetched = 0 /\ pending = 0

-----------------------------------------------------------------------------
(* The client. *)
Busy == \E q \in Queries : receiver[q] = "open"

(* execute_receiver: a channel of its own and one command.                 *)
Issue(q, b, m) ==
  /\ ~Busy
  /\ receiver[q] = "idle"
  /\ \A p \in Queries : p < q => receiver[p] # "idle"
  /\ batch' = [batch EXCEPT ![q] = b]
  /\ mode' = [mode EXCEPT ![q] = m]
  /\ receiver' = [receiver EXCEPT ![q] = "open"]
  /\ sender' = [sender EXCEPT ![q] = "queued"]
  /\ UNCHANGED <<got, chan, rowset, pc, walkVars>>

(* Closing the receiver throws away what is still in the channel. *)
Close(q, how) == /\ receiver' = [receiver EXCEPT ![q] = how]
                 /\ chan' = [chan EXCEPT ![q] = <<>>]

(* One item.  fetch_optional passes over row counts and returns, dropping  *)
(* its receiver, with the first row or error.                              *)
Receive(q) ==
  /\ receiver[q] = "open"
  /\ chan[q] # <<>>
  /\ got' = [got EXCEPT ![q] = Append(@, Head(chan[q]))]
  /\ IF mode[q] = "optional" /\ Head(chan[q]).kind # "done"
     THEN Close(q, "dropped")
     ELSE chan' = [chan EXCEPT ![q] = Tail(@)] /\ UNCHANGED receiver
  /\ UNCHANGED <<batch, mode, sender, rowset, pc, walkVars>>

(* recv_async fails once the channel is empty and its sender is gone: the  *)
(* stream ends, and fetch_optional returns None.                           *)
ReceiveEnd(q) ==
  /\ receiver[q] = "open"
  /\ chan[q] = <<>>
  /\ sender[q] = "gone"
  /\ Close(q, "ended")
  /\ UNCHANGED <<batch, mode, got, sender, rowset, pc, walkVars>>

(* The stream or the future is dropped half-way. *)
Cancel(q) ==
  /\ receiver[q] = "open"
  /\ Close(q, "dropped")
  /\ UNCHANGED <<batch, mode, got, sender, rowset, pc, walkVars>>

-----------------------------------------------------------------------------
(* Mutant: an unbounded channel. *)
CanSendUnbounded == receiver[at] = "open"

(* The actor.  A send waits while the channel is full and its receiver is  *)
(* there; it fails once the receiver is dropped.                           *)
CanSend == receiver[at] = "open" /\ Len(chan[at]) < Capacity
Unheard == receiver[at] = "dropped"

Send(e) == chan' = [chan EXCEPT ![at] = Append(@, e)]

(* The handler returns; dropping its command drops the sender. *)
Return == pc' = "idle" /\ sender' = [sender EXCEPT ![at] = "gone"]

Goto(p) == pc' = p /\ UNCHANGED sender

Raise(fault) == /\ fault \in Faults
                /\ Goto("fail")
                /\ UNCHANGED <<clientVars, chan, walkVars>>

Start ==
  /\ pc = "idle"
  /\ at < MaxQueries /\ sender[at + 1] = "queued"
  /\ at' = at + 1
  /\ sender' = [sender EXCEPT ![at + 1] = "held"]
  /\ result' = 1 /\ fetched' = 0 /\ pending' = 0
  /\ \/ pc' = "inspect"
     \/ "execute" \in Faults /\ pc' = "fail"
  /\ UNCHANGED <<clientVars, chan>>

Current == batch[at][result]

Inspect ==
  /\ pc = "inspect"
  /\ \/ /\ IF Current.columns = 0 THEN Goto("count") ELSE Goto("fetch")
        /\ UNCHANGED <<clientVars, chan, walkVars>>
     \/ Raise("inspect")

(* A row count nobody hears ends the walk. *)
SendCount ==
  /\ pc = "count"
  /\ \/ CanSend /\ Send(Done(result)) /\ Goto("advance")
     \/ Unheard /\ Return /\ UNCHANGED chan
  /\ UNCHANGED <<clientVars, walkVars>>

(* Mutant: the last, partly filled rowset is taken for the end.            *)
FetchFullOnly ==
  /\ pc = "fetch"
  /\ IF Current.rows - fetched >= rowset
     THEN /\ pending' = rowset /\ fetched' = fetched + rowset
          /\ Goto("send")
     ELSE Goto("finish") /\ UNCHANGED <<fetched, pending>>
  /\ UNCHANGED <<clientVars, chan, at, result>>

Fetch ==
  /\ pc = "fetch"
  /\ \/ /\ Current.rows > fetched
        /\ pending' = Min({rowset, Current.rows - fetched})
        /\ fetched' = fetched + pending'
        /\ Goto("send")
        /\ UNCHANGED <<clientVars, chan, at, result>>
     \/ /\ Current.rows = fetched
        /\ Goto("finish")
        /\ UNCHANGED <<clientVars, chan, walkVars>>
     \/ Raise("fetch")

(* Mutant: a row nobody hears is simply retried. *)
SendRowRetries ==
  /\ pc = "send"
  /\ CanSend
  /\ Send(Row(result, fetched - pending + 1))
  /\ pending' = pending - 1
  /\ Goto(IF pending = 1 THEN "fetch" ELSE "send")
  /\ UNCHANGED <<clientVars, at, result, fetched>>

(* A row nobody hears ends the walk. *)
SendRow ==
  /\ pc = "send"
  /\ \/ /\ CanSend
        /\ Send(Row(result, fetched - pending + 1))
        /\ pending' = pending - 1
        /\ Goto(IF pending = 1 THEN "fetch" ELSE "send")
        /\ UNCHANGED <<clientVars, at, result, fetched>>
     \/ /\ Unheard
        /\ Return
        /\ UNCHANGED <<clientVars, chan, walkVars>>

(* The row count that closes a result set; that nobody hears it is not     *)
(* noticed.  Unbinding comes after it.                                     *)
Finish ==
  /\ pc = "finish"
  /\ \/ CanSend /\ Send(Done(result))
     \/ Unheard /\ UNCHANGED chan
  /\ \/ Goto("advance")
     \/ rowset > 1 /\ "unbind" \in Faults /\ Goto("fail")
  /\ UNCHANGED <<clientVars, walkVars>>

(* Mutant: the sender outlives the handler (a clone of it is kept). *)
AdvanceKeepsSender ==
  /\ pc = "advance"
  /\ IF result < Len(batch[at])
     THEN /\ result' = result + 1 /\ fetched' = 0 /\ pending' = 0
          /\ Goto("inspect") /\ UNCHANGED at
     ELSE Goto("idle") /\ UNCHANGED walkVars
  /\ UNCHANGED <<clientVars, chan>>

Advance ==
  /\ pc = "advance"
  /\ \/ /\ result < Len(batch[at])
        /\ result' = result + 1 /\ fetched' = 0 /\ pending' = 0
        /\ Goto("inspect")
        /\ UNCHANGED <<clientVars, chan, at>>
     \/ /\ result = Len(batch[at])
        /\ Return
        /\ UNCHANGED <<clientVars, chan, walkVars>>
     \/ Raise("advance")

(* Mutant: the error of a handler is dropped. *)
ForwardNothing ==
  /\ pc = "fail"
  /\ Return
  /\ UNCHANGED <<clientVars, chan, walkVars>>

(* The loop forwards the error of handle_execute. *)
ForwardError ==
  /\ pc = "fail"
  /\ \/ CanSend /\ Send(Error)
     \/ Unheard /\ UNCHANGED chan
  /\ Return
  /\ UNCHANGED <<clientVars, walkVars>>

-----------------------------------------------------------------------------
Read == \E q \in Queries : Receive(q) \/ ReceiveEnd(q)

ActorStep == \/ Start \/ Inspect \/ SendCount \/ Fetch \/ SendRow \/ Finish
             \/ Advance \/ ForwardError

StreamNext ==
  \/ \E q \in Queries, b \in Batches, m \in {"many", "optional"} : Issue(q, b, m)
  \/ Read
  \/ \E q \in Queries : Cancel(q)
  \/ ActorStep

(* The actor thread runs.  A reader that loops until it has its answer     *)
(* (fetch_optional) reads on; the reader of a stream may stop at any item. *)
ReadOn == \E q \in Queries : mode[q] = "optional" /\ (Receive(q) \/ ReceiveEnd(q))

StreamSpec == /\ StreamInit /\ [][StreamNext]_streamVars
              /\ WF_streamVars(ActorStep) /\ WF_streamVars(ReadOn)

-----------------------------------------------------------------------------
(* The reader's view of a query. *)
Failed(q) == got[q] # <<>> /\ Last(got[q]) = Error

Status == [q \in Queries |-> IF Failed(q) THEN "failed"
                             ELSE IF receiver[q] = "dropped" THEN "abandoned"
                             ELSE receiver[q]]

Delivery == INSTANCE ResultDelivery WITH
              promise <- [q \in Queries |-> Expected(batch[q])],
              got     <- got,
              status  <- Status

(* Whatever fails inside the driver, each reader gets the results of its   *)
(* own batch in order and without gaps, and its stream ends silently only  *)
(* after the last one (actor.rs:39-46, helpers.rs:136-142).                *)
ImplementsResultDelivery == Delivery!Spec

(* What is delivered or under way is the beginning of the batch's results, *)
(* with at most one error, at the very end.                                *)
InOrder(q) ==
  LET sent == got[q] \o chan[q]
      good == IF sent # <<>> /\ Last(sent) = Error THEN Front(sent) ELSE sent
  IN  IsPrefix(good, Expected(batch[q]))

(* No reordering between the walk and the reader: for every query, what is *)
(* received followed by what is in its channel is the beginning of its     *)
(* batch, or that and one error after which nothing is sent                *)
(* (helpers.rs:143-198, actor.rs:45).                                      *)
SentInOrder == \A q \in Queries : InOrder(q)

(* A stream that is dropped, with the actor waiting for room in its        *)
(* channel or not, and whatever was dropped before it, lets go of the      *)
(* actor: its sender is gone, and the next command is served               *)
(* (helpers.rs:170, 180 and 336).                                          *)
DroppedFreesActor ==
  \A q \in Queries : receiver[q] = "dropped" ~> sender[q] = "gone"

(* fetch_optional returns: with the first row, the first error, or None    *)
(* (connection.rs:368-377).                                                *)
OptionalReturns ==
  \A q \in Queries : receiver[q] = "open" /\ mode[q] = "optional" ~> receiver[q] # "open"

=============================================================================
