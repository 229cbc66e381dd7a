------------------------- MODULE MCActorMigrations -------------------------
(***************************************************************************)
(* The actor's transactions and migrations for TLC: one statement of the   *)
(* client, one script in a transaction and one without.                    *)
(***************************************************************************)
EXTENDS ActorMigrations

CONSTANTS w1, tx, notx

MCScripts == {tx, notx}
MCNoTx == {notx}
MCWork == {w1} \cup MigrationWork
=============================================================================
