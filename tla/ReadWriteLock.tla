---------------------------- MODULE ReadWriteLock ----------------------------
(***************************************************************************)
(* What a read-write lock promises its users: many readers or one writer,  *)
(* and no new reader while a writer waits.                                 *)
(***************************************************************************)
CONSTANT Users

VARIABLE state   (* what each user has of the lock, or waits for *)

States == {"out", "wantRead", "reading", "wantWrite", "writing"}

Nobody(s) == \A u \in Users : state[u] # s

Init == state = [u \in Users |-> "out"]

Become(u, from, to) == state[u] \in from /\ state' = [state EXCEPT ![u] = to]

WaitToRead(u) == Become(u, {"out"}, "wantRead")

Read(u) ==
  /\ Nobody("writing") /\ Nobody("wantWrite")
  /\ Become(u, {"out", "wantRead"}, "reading")

WaitToWrite(u) == Become(u, {"out"}, "wantWrite")

Write(u) ==
  /\ Nobody("writing") /\ Nobody("reading")
  /\ Become(u, {"out", "wantWrite"}, "writing")

Leave(u) == Become(u, {"reading", "writing"}, "out")

Next ==
  \E u \in Users : WaitToRead(u) \/ Read(u) \/ WaitToWrite(u) \/ Write(u) \/ Leave(u)

Spec == Init /\ [][Next]_state
=============================================================================
