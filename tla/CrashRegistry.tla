---------------------------- MODULE CrashRegistry ----------------------------
(***************************************************************************)
(* What CrashEye.add and CrashEye.remove promise the application: a set of *)
(* living members, and a watch that runs from the first add to the remove  *)
(* that leaves no member. A member leaves by its own remove or with its    *)
(* life; the end of its life does not end the watch.                       *)
(***************************************************************************)
CONSTANT Objects

VARIABLES living, members, watching

Init == living = {} /\ members = {} /\ watching = FALSE

Appear(d) ==
  /\ d \notin living
  /\ living' = living \cup {d}
  /\ UNCHANGED <<members, watching>>

Vanish(d) ==
  /\ d \in living
  /\ living' = living \ {d} /\ members' = members \ {d}
  /\ UNCHANGED watching

Add(d) ==
  /\ d \in living
  /\ members' = members \cup {d} /\ watching' = TRUE
  /\ UNCHANGED living

Remove(d) ==
  /\ d \in living
  /\ members' = members \ {d}
  /\ watching' = (watching /\ members' # {})
  /\ UNCHANGED living

Next == \E d \in Objects : Appear(d) \/ Vanish(d) \/ Add(d) \/ Remove(d)

Spec == Init /\ [][Next]_<<living, members, watching>>
=============================================================================
