-------------------------- MODULE MCStatementCache --------------------------
(***************************************************************************)
(* Queries over three SQL texts, more than the cache holds: one starts     *)
(* with a row count and has rows after it, one starts with rows.           *)
(***************************************************************************)
EXTENDS StatementCache

MCTexts == { <<Count>>, <<Count, Rows(2)>>, <<Rows(1), Rows(1)>> }
=============================================================================
