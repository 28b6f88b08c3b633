---------------------------- MODULE MCMigration ----------------------------
(* Instances of Migration for TLC: r1 and r2 are twins, r3 stands alone. *)
EXTENDS Migration, TLC

CONSTANTS r1, r2, r3

MCKeyOf == (r1 :> "pre") @@ (r2 :> "pre") @@ (r3 :> "post")
=============================================================================
