----------------------------- MODULE MCCrashEye -----------------------------
(***************************************************************************)
(* CrashEye on a few delegates and threads.                                *)
(***************************************************************************)
EXTENDS CrashEye

CONSTANTS d1, d2, d3

(* d3 is allocated where d1 was. *)
MCHash == [d \in Delegates |-> IF d = d2 THEN 2 ELSE 1]
=============================================================================
