---------------------------- MODULE MCMigration -----------------------------
(* The migration of two instances; which image each of them runs is part   *)
(* of Migration's initial states.                                          *)
EXTENDS Migration
=============================================================================
