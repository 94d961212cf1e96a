----------------------------- MODULE MCMigrations -----------------------------
(***************************************************************************)
(* The three migrations of db/migrations; only 0002 cannot be repeated.    *)
(***************************************************************************)
EXTENDS Migrations, TLC

CONSTANTS i1, i2, i3

Symmetry == Permutations(Instances)
=============================================================================
