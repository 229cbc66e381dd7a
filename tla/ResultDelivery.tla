--------------------------- MODULE ResultDelivery ---------------------------
(***************************************************************************)
(* What the reader of a query's results is promised, with no thread,       *)
(* channel, cursor or rowset in sight: it receives the results of its      *)
(* batch in order and without gaps; the stream ends by itself only after   *)
(* the last of them, or after one error that tells why the rest is         *)
(* missing; and a reader may abandon the stream at any point.              *)
(***************************************************************************)
EXTENDS Naturals, Sequences

CONSTANTS
  Queries,
  Error        \* the event that reports a failure

VARIABLES
  promise,     \* for each query, the events its batch produces
  got,         \* what its reader has received
  status       \* "idle", "open", "ended", "failed", "abandoned"

vars == <<promise, got, status>>

Init == /\ promise = [q \in Queries |-> <<>>]
        /\ got = [q \in Queries |-> <<>>]
        /\ status = [q \in Queries |-> "idle"]

To(q, s) == status' = [status EXCEPT ![q] = s]

Open(q) == /\ status[q] = "idle"
           /\ To(q, "open")
           /\ promise'[q] # <<>>
           /\ \A p \in Queries \ {q} : promise'[p] = promise[p]
           /\ UNCHANGED got

Receive(q) == /\ status[q] = "open"
              /\ Len(got[q]) < Len(promise[q])
              /\ got' = [got EXCEPT ![q] = Append(@, promise[q][Len(@) + 1])]
              /\ UNCHANGED promise

(* The next event, the reader staying or leaving with it. *)
Deliver(q) == Receive(q) /\ (UNCHANGED status \/ To(q, "abandoned"))

Fail(q) == /\ status[q] = "open"
           /\ got' = [got EXCEPT ![q] = Append(@, Error)]
           /\ To(q, "failed")
           /\ UNCHANGED promise

End(q) == /\ status[q] = "open"
          /\ got[q] = promise[q]
          /\ To(q, "ended")
          /\ UNCHANGED <<promise, got>>

Abandon(q) == status[q] = "open" /\ To(q, "abandoned") /\ UNCHANGED <<promise, got>>

Next == \E q \in Queries :
          Open(q) \/ Deliver(q) \/ Fail(q) \/ End(q) \/ Abandon(q)

Spec == Init /\ [][Next]_vars
=============================================================================
