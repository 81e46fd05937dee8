----------------------------- MODULE MCMigrate -----------------------------
(* A rolling upgrade: replicas built with different numbers of migrations. *)
EXTENDS Migrate, TLC

CONSTANTS p1, p2, p3

Rolling == p1 :> 1 @@ p2 :> 2 @@ p3 :> 2
=============================================================================
