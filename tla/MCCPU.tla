-------------------------------- MODULE MCCPU --------------------------------
(***************************************************************************)
(* CPU with three workers, of which one is idle; no two sets of the others *)
(* use the same.                                                           *)
(***************************************************************************)
EXTENDS CPU

MCUsage(w) == IF w = "light" THEN 1 ELSE IF w = "heavy" THEN 2 ELSE 4
MCWorkers == {"light", "heavy", "idle"}
=============================================================================
