---------------------------- MODULE MCMigrations ----------------------------
(***************************************************************************)
(* Two migrators over two migrations for TLC, the second without a         *)
(* transaction.                                                            *)
(***************************************************************************)
EXTENDS Migrations

MCVersions == {1, 2}
MCNoTx == {2}
=============================================================================
