----------------------------- MODULE NetworkFlow -----------------------------
(***************************************************************************)
(* NetworkFlow (SystemEye/NetworkFlow.swift) and the counters it reads     *)
(* (OCBridge/NetObjc.m): open() starts a thread that samples the traffic   *)
(* of the interfaces and reports what has passed since the first sample;   *)
(* close() asks it to end, which it does when it next looks.               *)
(*                                                                         *)
(* The four counters are read, subtracted and reported alike; one stands   *)
(* for them. open() and close() are called on one thread. Two samplers may *)
(* be in execute() at once, and test and set first_model without a lock.   *)
(***************************************************************************)
EXTENDS Integers

CONSTANTS
  Samplers,   (* the threads open() may start: a bound on the calls of open *)
  NoSampler,
  Width,      (* 2^32: the counters of the kernel are 32 bits wide          *)
  MaxBytes    (* a bound on the traffic                                     *)

ASSUME SamplersAssumption == NoSampler \notin Samplers
ASSUME WidthAssumption == Width \in Nat \ {0}
ASSUME BytesAssumption == MaxBytes \in Nat

VARIABLES
  bytes,       (* the traffic there has been                               *)
  eyeThread,   (* NetworkFlow.eyeThread                                    *)
  cancelled,   (* the threads that were cancelled                          *)
  stage,       (* how far each thread is in eyeThreadHandler               *)
  model,       (* the counter each thread has read, then its report        *)
  first,       (* first_model, or nil                                      *)
  trapped,     (* an unsigned subtraction went below zero: the process dies *)
  seen,        (* history: the traffic when each thread took its sample    *)
  base,        (* history: the traffic when first_model was sampled        *)
  late,        (* history: how often a thread reported after its cancel    *)
  failed,      (* history: getifaddrs has failed                           *)
  overlapped   (* history: open() met a thread that may set first_model    *)

api == <<eyeThread, cancelled>>
history == <<seen, base, late, failed, overlapped>>
vars == <<bytes, api, stage, model, first, trapped, history>>

nil == -1

Stages == {"new", "check", "flow", "test", "set", "subtract", "deliver", "sleep", "exit"}

Init ==
  /\ bytes = 0
  /\ eyeThread = NoSampler /\ cancelled = {}
  /\ stage = [t \in Samplers |-> "new"]
  /\ model = [t \in Samplers |-> 0]
  /\ first = nil
  /\ trapped = FALSE
  /\ seen = [t \in Samplers |-> 0] /\ base = 0
  /\ late = [t \in Samplers |-> 0]
  /\ failed = FALSE /\ overlapped = FALSE

Traffic ==
  /\ ~trapped /\ bytes < MaxBytes
  /\ bytes' = bytes + 1
  /\ UNCHANGED <<api, stage, model, first, trapped, history>>

-----------------------------------------------------------------------------
Cancel == cancelled' = cancelled \cup ({eyeThread} \ {NoSampler})

(* Mutant: open() that leaves the old thread alone. *)
OpenBeside(t) ==
  /\ ~trapped /\ stage[t] = "new"
  /\ eyeThread' = t
  /\ stage' = [stage EXCEPT ![t] = "check"]
  /\ UNCHANGED <<bytes, cancelled, model, first, trapped, history>>

(* open() closes first. The new thread may begin while the old one is still *)
(* between its look at isCancelled and its report.                          *)
Open(t) ==
  /\ ~trapped /\ stage[t] = "new"
  /\ Cancel
  /\ eyeThread' = t
  /\ stage' = [stage EXCEPT ![t] = "check"]
  /\ overlapped' = (overlapped \/ (first = nil /\
                      \E s \in Samplers : stage[s] \in {"flow", "test", "set"}))
  /\ UNCHANGED <<bytes, model, first, trapped, seen, base, late, failed>>

Close ==
  /\ ~trapped
  /\ Cancel
  /\ eyeThread' = NoSampler
  /\ UNCHANGED <<bytes, stage, model, first, trapped, history>>

-----------------------------------------------------------------------------
(* eyeThreadHandler                                                         *)

At(t, s) == ~trapped /\ stage[t] = s
Goto(t, s) == stage' = [stage EXCEPT ![t] = s]

(* Mutant: the thread does not look at isCancelled. *)
NeverLook(t) ==
  /\ At(t, "check")
  /\ Goto(t, "flow")
  /\ UNCHANGED <<bytes, api, model, first, trapped, history>>

(* Mutant: continue in the place of Thread.exit(). *)
SpinCancelled(t) ==
  /\ At(t, "check")
  /\ IF t \in cancelled THEN UNCHANGED stage ELSE Goto(t, "flow")
  /\ UNCHANGED <<bytes, api, model, first, trapped, history>>

CheckCancelled(t) ==
  /\ At(t, "check")
  /\ Goto(t, IF t \in cancelled THEN "exit" ELSE "flow")
  /\ UNCHANGED <<bytes, api, model, first, trapped, history>>

(* NetObjc.flow: the counters, or zeros when getifaddrs fails. *)
Flow(t) ==
  /\ At(t, "flow")
  /\ \/ model' = [model EXCEPT ![t] = bytes % Width] /\ UNCHANGED failed
     \/ model' = [model EXCEPT ![t] = 0] /\ failed' = TRUE
  /\ seen' = [seen EXCEPT ![t] = bytes]
  /\ Goto(t, "test")
  /\ UNCHANGED <<bytes, api, first, trapped, base, late, overlapped>>

(* if self.first_model == nil *)
TestFirst(t) ==
  /\ At(t, "test")
  /\ Goto(t, IF first = nil THEN "set" ELSE "subtract")
  /\ UNCHANGED <<bytes, api, model, first, trapped, history>>

SetFirst(t) ==
  /\ At(t, "set")
  /\ first' = model[t] /\ base' = seen[t]
  /\ Goto(t, "deliver")
  /\ UNCHANGED <<bytes, api, model, trapped, seen, late, failed, overlapped>>

(* Mutant: every sample becomes the first one of the next. *)
SubtractAndSet(t) ==
  /\ At(t, "subtract")
  /\ model' = [model EXCEPT ![t] = @ - first] /\ first' = model[t]
  /\ trapped' = (model[t] < first)
  /\ Goto(t, "deliver")
  /\ UNCHANGED <<bytes, api, history>>

(* Mutant: the operands in the wrong order. *)
SubtractFrom(t) ==
  /\ At(t, "subtract")
  /\ IF model[t] <= first
     THEN model' = [model EXCEPT ![t] = first - @] /\ Goto(t, "deliver") /\ UNCHANGED trapped
     ELSE trapped' = TRUE /\ UNCHANGED <<model, stage>>
  /\ UNCHANGED <<bytes, api, first, history>>

(* UInt32's -= traps below zero. *)
Subtract(t) ==
  /\ At(t, "subtract")
  /\ IF model[t] >= first
     THEN model' = [model EXCEPT ![t] = @ - first] /\ Goto(t, "deliver") /\ UNCHANGED trapped
     ELSE trapped' = TRUE /\ UNCHANGED <<model, stage>>
  /\ UNCHANGED <<bytes, api, first, history>>

(* The call of the delegate. *)
Deliver(t) ==
  /\ At(t, "deliver")
  /\ late' = IF t \in cancelled THEN [late EXCEPT ![t] = @ + 1] ELSE late
  /\ Goto(t, "sleep")
  /\ UNCHANGED <<bytes, api, model, first, trapped, seen, base, failed, overlapped>>

Sleep(t) ==
  /\ At(t, "sleep")
  /\ Goto(t, "check")
  /\ UNCHANGED <<bytes, api, model, first, trapped, history>>

-----------------------------------------------------------------------------
Sample(t) ==
  \/ CheckCancelled(t) \/ Flow(t) \/ TestFirst(t) \/ SetFirst(t)
  \/ Subtract(t) \/ Deliver(t) \/ Sleep(t)

Next ==
  \/ Traffic \/ Close
  \/ \E t \in Samplers : Open(t) \/ Sample(t)
  \/ trapped /\ UNCHANGED vars

Spec == Init /\ [][Next]_vars

(* The system runs every thread. *)
Fairness == \A t \in Samplers : WF_vars(Sample(t))
FairSpec == Spec /\ Fairness

-----------------------------------------------------------------------------
(* Properties.                                                              *)

Running == {t \in Samplers : stage[t] \notin {"new", "exit"}}

(* Every variable keeps its type; a report is never negative.               *)
TypeOK ==
  /\ bytes \in Nat
  /\ eyeThread \in Samplers \cup {NoSampler} /\ cancelled \subseteq Samplers
  /\ stage \in [Samplers -> Stages]
  /\ model \in [Samplers -> 0..(Width - 1)]
  /\ first \in 0..(Width - 1) \cup {nil}
  /\ trapped \in BOOLEAN
  /\ seen \in [Samplers -> Nat] /\ base \in Nat
  /\ late \in [Samplers -> Nat]
  /\ failed \in BOOLEAN /\ overlapped \in BOOLEAN

(* However often open() and close() are called, the one thread that runs     *)
(* without having been cancelled is eyeThread.                               *)
OneSampler == Running \ cancelled = {eyeThread} \ {NoSampler}

(* A cancelled thread reports once more at most, the sample it was in.       *)
OneLateReport == \A t \in Samplers : late[t] <= 1

Quiet == ~failed /\ ~overlapped

(* The process traps in a subtraction only if the counters have wrapped,     *)
(* could not be read, or two threads took their first samples together.      *)
TrapHasCause == trapped => ~Quiet \/ bytes >= Width

(* What is reported is, up to a wrap of the counter, the traffic between the *)
(* first sample and this one; the first report is the counter itself.        *)
HonestReport ==
  Quiet => \A t \in Samplers : stage[t] = "deliver" =>
    \/ (model[t] - (seen[t] - base)) % Width = 0
    \/ seen[t] = base /\ model[t] = first

(* A cancelled thread ends.                                                 *)
CancelledEnds == \A t \in Samplers : t \in cancelled ~> stage[t] = "exit" \/ trapped
=============================================================================
