--------------------------- MODULE MCMigrations ---------------------------
(* Migrations with two accounts and one row id in each table.               *)
EXTENDS Migrations

TwoUsers == 1 .. 2
=============================================================================
