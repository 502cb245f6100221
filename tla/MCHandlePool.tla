---------------------------- MODULE MCHandlePool ----------------------------
(***************************************************************************)
(* HandlePool with three threads: one that runs operations and             *)
(* transactions, one with operations and canOpen, one that closes and      *)
(* purges the database.                                                    *)
(***************************************************************************)
EXTENDS HandlePool, TLC

CONSTANTS u1, u2, u3

ThreeRoles ==
  u1 :> {"exec", "begin", "commit", "rollback"} @@
  u2 :> {"exec", "fill"} @@
  u3 :> {"close", "purge"}
=============================================================================
