------------------------------ MODULE MCShmLock ------------------------------
(* Instances of ShmLock for TLC.                                            *)
EXTENDS ShmLock, TLC
CONSTANTS ui, t1, t2
WriterReaderCheckpoint == ui :> {"write"} @@ t1 :> {"read"} @@ t2 :> {"write", "checkpoint"}
=============================================================================
