------------------------- MODULE MCTransactionHandle -------------------------
(***************************************************************************)
(* The handle and its actor for TLC.                                       *)
(***************************************************************************)
EXTENDS TransactionHandle

CONSTANTS w1, w2

MCWork == {w1, w2}
=============================================================================
