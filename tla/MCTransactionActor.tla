------------------------- MODULE MCTransactionActor -------------------------
(***************************************************************************)
(* The actor's transaction handlers for TLC: three work items, four open   *)
(* transactions (three savepoint names alive at once) and log room for     *)
(* savepoints that share a name.                                           *)
(***************************************************************************)
EXTENDS TransactionActor

CONSTANTS w1, w2, w3

MCWork == {w1, w2, w3}
=============================================================================
