--------------------------- MODULE MCResultStream ---------------------------
(***************************************************************************)
(* Result streams for TLC: row counts, empty result sets, result sets of   *)
(* one rowset and of more than a channel holds, alone and mixed.           *)
(***************************************************************************)
EXTENDS ResultStream

MCBatches == { <<Count>>,
               <<Rows(0), Count>>,
               <<Rows(3)>>,
               <<Count, Rows(2), Rows(1)>> }
=============================================================================
