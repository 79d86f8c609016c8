--------------------------- MODULE MCMigrationLock ---------------------------
(***************************************************************************)
(* MigrationLock on small instances.                                       *)
(***************************************************************************)
EXTENDS MigrationLock

CONSTANTS p1, p2, p3, p4, p5
==============================================================================
