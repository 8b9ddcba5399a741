---------------------------- MODULE MCMigrations ----------------------------
(***************************************************************************)
(* An instance of Migrations for TLC: one replica of a release with one    *)
(* migration, and two of the next release, which adds a second.            *)
(***************************************************************************)
EXTENDS Migrations

CONSTANTS r1, r2, r3

TwoReleases == [r \in Replicas |-> IF r = r1 THEN 1 ELSE 2]
=============================================================================
