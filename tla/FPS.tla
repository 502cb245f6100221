--------------------------------- MODULE FPS ---------------------------------
(***************************************************************************)
(* FPS (SystemEye/FPS.swift): a display link calls displayLinkHandler at   *)
(* the refreshes of the screen; once updateInterval has passed it reports  *)
(* the calls it has counted, by the time they took.                        *)
(*                                                                         *)
(* Time is counted in refreshes. A refresh brings a call, or it finds the  *)
(* link paused, the application suspended or the main thread busy and is   *)
(* missed. Instead of the two timestamps the model keeps their difference, *)
(* interval, which MaxInterval bounds.                                     *)
(***************************************************************************)
EXTENDS Integers

CONSTANTS
  updateInterval,
  Boot,         (* the timestamp of the display when the object is made    *)
  MaxInterval   (* a bound on the refreshes between two reports            *)

(* What the constants are; the theorems take it as their hypothesis.         *)
IntervalAssumption ==
  updateInterval \in Nat \ {0} /\ Boot \in Nat /\ MaxInterval \in Nat

VARIABLES
  isEnable,
  isPaused,   (* displayLink.isPaused                                      *)
  count,
  interval,   (* the timestamp of the last refresh - lastTime              *)
  app,        (* the application is active, inactive or suspended          *)
  report,     (* the count and the interval of the last report             *)
  missed,     (* history: the refreshes missed since the last report       *)
  gap         (* history: those missed before the last report              *)

vars == <<isEnable, isPaused, count, interval, app, report, missed, gap>>

(* lastTime is zero, so the first interval reaches back to the start of the  *)
(* clock.                                                                   *)
Init ==
  /\ isEnable = TRUE /\ isPaused = TRUE
  /\ count = 0 /\ interval = Boot
  /\ app = "active"
  /\ report = [count |-> 0, interval |-> 0]
  /\ missed = Boot /\ gap = 0

SetEnable ==
  /\ isEnable' = ~isEnable
  /\ UNCHANGED <<isPaused, count, interval, app, report, missed, gap>>

Open ==
  /\ isEnable
  /\ isPaused' = FALSE
  /\ UNCHANGED <<isEnable, count, interval, app, report, missed, gap>>

Close ==
  /\ isEnable
  /\ isPaused' = TRUE
  /\ UNCHANGED <<isEnable, count, interval, app, report, missed, gap>>

-----------------------------------------------------------------------------
(* Both notifications are bound to applicationDidBecomeActiveNotification.   *)
Notified == isPaused' = (isPaused /\ ~isEnable)

WillResignActive ==
  /\ app = "active" /\ app' = "inactive"
  /\ Notified
  /\ UNCHANGED <<isEnable, count, interval, report, missed, gap>>

DidBecomeActive ==
  /\ app = "inactive" /\ app' = "active"
  /\ Notified
  /\ UNCHANGED <<isEnable, count, interval, report, missed, gap>>

(* The system suspends an inactive application, and wakes it.                *)
Suspend ==
  /\ app \in {"inactive", "suspended"}
  /\ app' = IF app = "inactive" THEN "suspended" ELSE "inactive"
  /\ UNCHANGED <<isEnable, isPaused, count, interval, report, missed, gap>>

-----------------------------------------------------------------------------
Miss ==
  /\ interval < MaxInterval
  /\ interval' = interval + 1 /\ missed' = missed + 1
  /\ UNCHANGED <<isEnable, isPaused, count, app, report, gap>>

DisplayLinkHandler ==
  /\ ~isPaused /\ app # "suspended"
  /\ IF interval + 1 >= updateInterval
     THEN /\ report' = [count |-> count + 1, interval |-> interval + 1]
          /\ interval' = 0 /\ count' = 0
          /\ gap' = missed /\ missed' = 0
     ELSE /\ count' = count + 1 /\ interval' = interval + 1
          /\ UNCHANGED <<report, missed, gap>>
  /\ UNCHANGED <<isEnable, isPaused, app>>

Next ==
  \/ SetEnable \/ Open \/ Close
  \/ WillResignActive \/ DidBecomeActive \/ Suspend
  \/ Miss \/ DisplayLinkHandler

Spec == Init /\ [][Next]_vars

-----------------------------------------------------------------------------
(* Properties.                                                              *)

(* Fewer calls are counted than updateInterval has refreshes.               *)
TypeOK ==
  /\ {isEnable, isPaused} \subseteq BOOLEAN
  /\ count \in 0..(updateInterval - 1)
  /\ interval \in Nat /\ missed \in Nat /\ gap \in Nat
  /\ app \in {"active", "inactive", "suspended"}
  /\ report \in [count : Nat, interval : Nat]

(* However it is opened, closed, suspended and kept waiting, every refresh   *)
(* since the last report is counted once or was missed.                     *)
CountedOrMissed == count + missed = interval

(* A report is the rate of the display less the refreshes missed in its      *)
(* interval, so never more than the display can do; it covers the whole      *)
(* time since the report before, pauses included.                           *)
HonestRate == report.count + gap = report.interval

=============================================================================
