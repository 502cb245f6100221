-------------------------- MODULE NetworkFlowProofs --------------------------
(***************************************************************************)
(* Theorems about NetworkFlow, for any number of threads and any width of  *)
(* the counters.                                                           *)
(***************************************************************************)
EXTENDS NetworkFlow, TLAPS

(* A thread subtracts only when first_model is there.                       *)
HasFirst == \A t \in Samplers : stage[t] = "subtract" => first # nil

(* Only a thread that was started can have been cancelled.                  *)
CancelledStarted == \A t \in cancelled : stage[t] # "new"

(* A report after the cancel was the last one.                              *)
LateInv ==
  \A t \in Samplers :
    /\ late[t] <= 1
    /\ late[t] = 1 => t \in cancelled /\ stage[t] \in {"sleep", "check", "exit"}

(* Before first_model is set, the thread that may set it is the only one     *)
(* that has begun, but for cancelled ones that have not yet looked.          *)
MaySet(t) == stage[t] \in {"flow", "test", "set"}

FirstUnset ==
  /\ \A s, t \in Samplers : MaySet(s) /\ MaySet(t) => s = t
  /\ \A s, t \in Samplers : MaySet(s) /\ t \in Running /\ t \notin cancelled => s = t
  /\ \A t \in Samplers : stage[t] \notin {"subtract", "deliver"}

(* It is set once, and is what the counter of base was.                      *)
FirstSet == first = base % Width /\ \A t \in Samplers : stage[t] # "set"

SetOnce == (first = nil => FirstUnset) /\ (first # nil => FirstSet)

(* A sample is the counter, until it is made a difference.                   *)
Sampled ==
  \A t \in Samplers : stage[t] \in {"test", "set", "subtract"} => model[t] = seen[t] % Width

Reported ==
  \A t \in Samplers : stage[t] = "deliver" =>
    (model[t] - (seen[t] - base)) % Width = 0 \/ (seen[t] = base /\ model[t] = first)

HonestInv == Quiet => SetOnce /\ Sampled /\ Reported

(* Before the counter wraps, every sample was taken after the first one.     *)
Ordered ==
  /\ ~trapped
  /\ \A t \in Samplers : stage[t] \in {"test", "set", "subtract"} => seen[t] <= bytes
  /\ first # nil =>
       /\ base <= bytes
       /\ \A t \in Samplers : stage[t] \in {"test", "subtract"} => base <= seen[t]

CauseInv == Quiet /\ bytes < Width => Ordered

FlowInv ==
  TypeOK /\ HasFirst /\ CancelledStarted /\ OneSampler /\ LateInv /\ HonestInv /\ CauseInv

LEMMA FlowInit == Init => FlowInv
<1> SUFFICES ASSUME Init PROVE FlowInv
  OBVIOUS
<1>1. TypeOK
  <2>1. 0 \in 0..(Width - 1) /\ nil \in 0..(Width - 1) \cup {nil}
    BY WidthAssumption
  <2>2. model \in [Samplers -> 0..(Width - 1)]
    BY <2>1 DEF Init
  <2> QED
    BY <2>1, <2>2 DEF Init, TypeOK, Stages
<1>2. OneSampler /\ HasFirst /\ CancelledStarted
  BY DEF Init, OneSampler, Running, HasFirst, CancelledStarted
<1>3. LateInv
  <2>1. late = [t \in Samplers |-> 0]
    BY DEF Init
  <2>2. ASSUME NEW t \in Samplers
        PROVE  late[t] <= 1 /\ (late[t] = 1 => t \in cancelled /\ stage[t] \in {"sleep", "check", "exit"})
    <3>1. late[t] = 0
      BY <2>1
    <3> QED
      BY <3>1
  <2> QED
    BY <2>2 DEF LateInv
<1>4. HonestInv /\ CauseInv
  BY DEF Init, HonestInv, SetOnce, FirstUnset, MaySet, Sampled, Reported, CauseInv, Ordered, nil
<1> QED
  BY <1>1, <1>2, <1>3, <1>4 DEF FlowInv

LEMMA FlowTypes ==
  ASSUME TypeOK, HasFirst, [Next]_vars
  PROVE  TypeOK'
<1> USE WidthAssumption, BytesAssumption DEF TypeOK
<1>1. CASE UNCHANGED vars
  BY <1>1 DEF vars, api, history
<1>2. CASE Traffic
  BY <1>2 DEF Traffic, api, history
<1>3. CASE Close
  BY <1>3 DEF Close, Cancel, history
<1>4. ASSUME NEW t \in Samplers, Open(t) PROVE TypeOK'
  BY <1>4 DEF Open, Cancel, Stages
<1>5. ASSUME NEW t \in Samplers, CheckCancelled(t) PROVE TypeOK'
  BY <1>5 DEF CheckCancelled, Goto, Stages, api, history
<1>6. ASSUME NEW t \in Samplers, Flow(t) PROVE TypeOK'
  <2>1. bytes % Width \in 0..(Width - 1) /\ 0 \in 0..(Width - 1)
    OBVIOUS
  <2>2. model' \in [Samplers -> 0..(Width - 1)]
    BY <1>6, <2>1 DEF Flow
  <2>3. failed' \in BOOLEAN
    BY <1>6 DEF Flow
  <2> QED
    BY <1>6, <2>2, <2>3 DEF Flow, Goto, Stages, api
<1>7. ASSUME NEW t \in Samplers, TestFirst(t) PROVE TypeOK'
  BY <1>7 DEF TestFirst, Goto, Stages, api, history
<1>8. ASSUME NEW t \in Samplers, SetFirst(t) PROVE TypeOK'
  BY <1>8 DEF SetFirst, Goto, Stages, api
<1>9. ASSUME NEW t \in Samplers, Subtract(t) PROVE TypeOK'
  <2>1. first \in 0..(Width - 1) /\ model[t] \in 0..(Width - 1)
    BY <1>9 DEF Subtract, At, HasFirst
  <2>2. model[t] >= first => model[t] - first \in 0..(Width - 1)
    BY <2>1
  <2>3. model' \in [Samplers -> 0..(Width - 1)]
    BY <1>9, <2>2 DEF Subtract
  <2> QED
    BY <1>9, <2>3 DEF Subtract, Goto, Stages, api, history
<1>10. ASSUME NEW t \in Samplers, Deliver(t) PROVE TypeOK'
  <2>1. late' \in [Samplers -> Nat]
    BY <1>10 DEF Deliver
  <2> QED
    BY <1>10, <2>1 DEF Deliver, Goto, Stages, api
<1>11. ASSUME NEW t \in Samplers, Sleep(t) PROVE TypeOK'
  BY <1>11 DEF Sleep, Goto, Stages, api, history
<1>12. CASE trapped /\ UNCHANGED vars
  BY <1>12, <1>1
<1> QED
  BY <1>1, <1>2, <1>3, <1>4, <1>5, <1>6, <1>7, <1>8, <1>9, <1>10, <1>11, <1>12
  DEF Next, Sample

(* What a step of one thread leaves of the others.                          *)
LEMMA ThreadStep ==
  ASSUME TypeOK, NEW t \in Samplers, Sample(t)
  PROVE  /\ \A s \in Samplers : s # t => stage'[s] = stage[s]
         /\ UNCHANGED <<bytes, eyeThread, cancelled, overlapped>>
         /\ stage[t] # "new" /\ stage[t] # "exit" /\ stage'[t] # "new"
         /\ stage'[t] = "exit" => t \in cancelled
         /\ stage'[t] = "flow" => t \notin cancelled
<1> USE DEF TypeOK, At, Goto, api, history
<1>1. CASE CheckCancelled(t)
  BY <1>1 DEF CheckCancelled
<1>2. CASE Flow(t)
  BY <1>2 DEF Flow
<1>3. CASE TestFirst(t)
  BY <1>3 DEF TestFirst
<1>4. CASE SetFirst(t)
  BY <1>4 DEF SetFirst
<1>5. CASE Subtract(t)
  BY <1>5 DEF Subtract
<1>6. CASE Deliver(t)
  BY <1>6 DEF Deliver
<1>7. CASE Sleep(t)
  BY <1>7 DEF Sleep
<1> QED
  BY <1>1, <1>2, <1>3, <1>4, <1>5, <1>6, <1>7 DEF Sample

LEMMA HasFirstStep ==
  ASSUME TypeOK, HasFirst, [Next]_vars
  PROVE  HasFirst'
<1> USE DEF TypeOK, HasFirst, Goto, At
<1>1. CASE UNCHANGED <<stage, first>>
  BY <1>1
<1>2. ASSUME NEW t \in Samplers, Open(t) PROVE HasFirst'
  BY <1>2 DEF Open
<1>3. ASSUME NEW t \in Samplers, TestFirst(t) PROVE HasFirst'
  BY <1>3 DEF TestFirst
<1>4. ASSUME NEW t \in Samplers, SetFirst(t) PROVE HasFirst'
  BY <1>4 DEF SetFirst, nil
<1>5. ASSUME NEW t \in Samplers, CheckCancelled(t) \/ Flow(t) \/ Subtract(t) \/ Deliver(t) \/ Sleep(t)
      PROVE  HasFirst'
  BY <1>5 DEF CheckCancelled, Flow, Subtract, Deliver, Sleep
<1>6. CASE Traffic \/ Close \/ UNCHANGED vars
  BY <1>6, <1>1 DEF Traffic, Close, vars
<1> QED
  BY <1>2, <1>3, <1>4, <1>5, <1>6 DEF Next, Sample

LEMMA OneSamplerStep ==
  ASSUME TypeOK, CancelledStarted, OneSampler, [Next]_vars
  PROVE  OneSampler' /\ CancelledStarted'
<1> USE DEF OneSampler, Running, CancelledStarted
<1>1. CASE UNCHANGED <<stage, eyeThread, cancelled>>
  BY <1>1
<1>2. CASE Close
  BY <1>2 DEF Close, Cancel, TypeOK
<1>3. ASSUME NEW t \in Samplers, Open(t) PROVE OneSampler' /\ CancelledStarted'
  <2>1. \A s \in Samplers : stage'[s] = IF s = t THEN "check" ELSE stage[s]
    BY <1>3 DEF Open, TypeOK
  <2>2. eyeThread' = t /\ cancelled' = cancelled \cup ({eyeThread} \ {NoSampler}) /\ t # NoSampler
    BY <1>3, SamplersAssumption DEF Open, Cancel
  <2>3. t \notin cancelled /\ t # eyeThread
    <3>1. stage[t] = "new"
      BY <1>3 DEF Open
    <3> QED
      BY <3>1, <2>2
  <2>4. CancelledStarted'
    BY <2>1, <2>2, <2>3 DEF TypeOK
  <2>5. OneSampler'
    BY <2>1, <2>2, <2>3
  <2> QED
    BY <2>4, <2>5
<1>4. ASSUME NEW t \in Samplers, Sample(t) PROVE OneSampler' /\ CancelledStarted'
  <2>1. /\ \A s \in Samplers : s # t => stage'[s] = stage[s]
        /\ eyeThread' = eyeThread /\ cancelled' = cancelled
        /\ stage[t] # "new" /\ stage[t] # "exit" /\ stage'[t] # "new"
        /\ stage'[t] = "exit" => t \in cancelled
    BY <1>4, ThreadStep
  <2>2. CancelledStarted'
    BY <2>1 DEF TypeOK
  <2>3. \A s \in Samplers : s \in Running' \ cancelled' <=> s \in Running \ cancelled
    BY <2>1
  <2>4. Running' \subseteq Samplers /\ Running \subseteq Samplers
    OBVIOUS
  <2>5. Running' \ cancelled' = Running \ cancelled
    BY <2>3, <2>4
  <2> QED
    BY <2>1, <2>2, <2>5
<1>5. CASE Traffic \/ UNCHANGED vars
  BY <1>5, <1>1 DEF Traffic, vars, api
<1> QED
  BY <1>2, <1>3, <1>4, <1>5 DEF Next

LEMMA LateStep ==
  ASSUME TypeOK, LateInv, [Next]_vars
  PROVE  LateInv'
<1> USE DEF TypeOK
<1>1. CASE UNCHANGED <<late, stage, cancelled>>
  BY <1>1 DEF LateInv
<1>2. CASE Close
  BY <1>2 DEF Close, Cancel, history, LateInv
<1>3. ASSUME NEW t \in Samplers, Open(t) PROVE LateInv'
  BY <1>3 DEF Open, Cancel, LateInv
<1>4. ASSUME NEW t \in Samplers, CheckCancelled(t) PROVE LateInv'
  BY <1>4 DEF CheckCancelled, Goto, At, api, history, LateInv
<1>5. ASSUME NEW t \in Samplers, Flow(t) \/ TestFirst(t) \/ SetFirst(t) \/ Subtract(t)
      PROVE  LateInv'
  BY <1>5 DEF Flow, TestFirst, SetFirst, Subtract, Goto, At, api, history, LateInv
<1>6. ASSUME NEW t \in Samplers, Deliver(t) PROVE LateInv'
  <2>1. late[t] \in Nat /\ late[t] <= 1 /\ late[t] # 1
    BY <1>6 DEF Deliver, At, LateInv
  <2>2. late[t] = 0
    BY <2>1
  <2>3. /\ stage'[t] = "sleep" /\ cancelled' = cancelled
        /\ late'[t] = IF t \in cancelled THEN 1 ELSE 0
    BY <1>6, <2>2 DEF Deliver, Goto, api
  <2>4. \A s \in Samplers : s # t => late'[s] = late[s] /\ stage'[s] = stage[s]
    BY <1>6 DEF Deliver, Goto
  <2>5. ASSUME NEW s \in Samplers
        PROVE  late'[s] <= 1 /\ (late'[s] = 1 =>
                 s \in cancelled' /\ stage'[s] \in {"sleep", "check", "exit"})
    <3>1. CASE s # t
      BY <2>3, <2>4, <3>1 DEF LateInv
    <3>2. CASE s = t
      BY <2>3, <3>2
    <3> QED
      BY <3>1, <3>2
  <2> QED
    BY <2>5 DEF LateInv
<1>7. ASSUME NEW t \in Samplers, Sleep(t) PROVE LateInv'
  BY <1>7 DEF Sleep, Goto, At, api, history, LateInv
<1>8. CASE Traffic \/ UNCHANGED vars
  BY <1>8, <1>1 DEF Traffic, vars, api, history
<1> QED
  BY <1>2, <1>3, <1>4, <1>5, <1>6, <1>7, <1>8 DEF Next, Sample

-----------------------------------------------------------------------------
(* The first sample.                                                        *)

(* Traffic does not shrink, and what is not quiet does not become so.        *)
LEMMA Growing ==
  ASSUME TypeOK, [Next]_vars
  PROVE  bytes <= bytes' /\ (Quiet' => Quiet)
<1> USE DEF Quiet
<1>1. CASE UNCHANGED <<bytes, failed, overlapped>>
  BY <1>1 DEF TypeOK
<1>2. CASE Traffic
  BY <1>2 DEF Traffic, history, TypeOK
<1>3. ASSUME NEW t \in Samplers, Open(t) PROVE bytes <= bytes' /\ (Quiet' => Quiet)
  BY <1>3 DEF Open, TypeOK
<1>4. ASSUME NEW t \in Samplers, Flow(t) PROVE bytes <= bytes' /\ (Quiet' => Quiet)
  BY <1>4 DEF Flow, TypeOK
<1>5. ASSUME NEW t \in Samplers,
             CheckCancelled(t) \/ TestFirst(t) \/ SetFirst(t) \/ Subtract(t) \/ Deliver(t) \/ Sleep(t)
      PROVE  UNCHANGED <<bytes, failed, overlapped>>
  BY <1>5 DEF CheckCancelled, TestFirst, SetFirst, Subtract, Deliver, Sleep, history
<1>6. CASE Close \/ UNCHANGED vars
  BY <1>6, <1>1 DEF Close, vars, history
<1> QED
  BY <1>1, <1>2, <1>3, <1>4, <1>5, <1>6 DEF Next, Sample

(* The two remainders differ by what the numbers differ by, up to the width.  *)
LEMMA Remainders ==
  ASSUME NEW a \in Int, NEW b \in Int
  PROVE  (((a % Width) - (b % Width)) - (a - b)) % Width = 0
<1> DEFINE p == a \div Width
           q == b \div Width
<1>1. /\ p \in Int /\ q \in Int /\ Width \in Nat \ {0}
      /\ a = Width * p + (a % Width) /\ b = Width * q + (b % Width)
      /\ a % Width \in Int /\ b % Width \in Int
  BY WidthAssumption
<1> DEFINE r == a % Width
           u == b % Width
<1> HIDE DEF p, q, r, u
<1>2. (r - u) - (a - b) = Width * (q - p)
  <2>1. Width * (q - p) = Width * q - Width * p
    BY <1>1
  <2>2. a = Width * p + r /\ b = Width * q + u /\ r \in Int /\ u \in Int
        /\ Width * p \in Int /\ Width * q \in Int
    BY <1>1 DEF r, u
  <2> HIDE DEF r, u
  <2> QED
    BY <2>1, <2>2
<1>3. (Width * (q - p)) % Width = 0
  <2>1. q - p \in Int
    BY <1>1
  <2> QED
    BY <2>1, <1>1
<1> QED
  BY <1>2, <1>3 DEF r, u

Good == SetOnce /\ Sampled /\ Reported /\ (bytes < Width => Ordered)

(* What each thread has read, while it is one of the counter's values.       *)
LEMMA Unwrapped ==
  ASSUME FlowInv, Good, bytes < Width, NEW t \in Samplers,
         stage[t] \in {"test", "set", "subtract"}
  PROVE  model[t] = seen[t] /\ seen[t] <= bytes
<1>1. model[t] = seen[t] % Width /\ seen[t] <= bytes
  BY DEF Good, Sampled, Ordered
<1> QED
  BY <1>1, WidthAssumption DEF FlowInv, TypeOK

(* open() finds no thread that may still set first_model, or there was one   *)
(* and the two overlapped.                                                   *)
LEMMA OpenGood ==
  ASSUME FlowInv, Good, NEW t \in Samplers, Open(t), Quiet'
  PROVE  Good'
<1>1. /\ \A s \in Samplers : stage'[s] = IF s = t THEN "check" ELSE stage[s]
      /\ UNCHANGED <<bytes, model, first, trapped, seen, base>>
      /\ cancelled' = cancelled \cup ({eyeThread} \ {NoSampler})
  BY DEF Open, Cancel, FlowInv, TypeOK
<1>2. Sampled' /\ Reported' /\ (bytes' < Width => Ordered')
  BY <1>1 DEF Good, Sampled, Reported, Ordered
<1>3. first # nil => FirstSet'
  BY <1>1 DEF Good, SetOnce, FirstSet
<1>4. ASSUME first = nil PROVE FirstUnset'
  <2>1. \A s \in Samplers : ~MaySet(s)
    BY <1>4 DEF Open, Quiet, MaySet
  <2>2. \A s \in Samplers : ~MaySet(s)'
    BY <2>1, <1>1 DEF MaySet
  <2>3. \A s \in Samplers : stage'[s] \notin {"subtract", "deliver"}
    BY <1>1, <1>4 DEF Good, SetOnce, FirstUnset
  <2> QED
    BY <2>2, <2>3 DEF FirstUnset
<1> QED
  BY <1>1, <1>2, <1>3, <1>4 DEF Good, SetOnce

(* A thread that finds itself not cancelled is, by OneSampler, the only such *)
(* one, so nobody else may set first_model.                                 *)
LEMMA CheckGood ==
  ASSUME FlowInv, Good, NEW t \in Samplers, CheckCancelled(t)
  PROVE  Good'
<1>1. /\ stage[t] = "check" /\ ~trapped /\ t \in Running
      /\ \A s \in Samplers : stage'[s] =
           IF s = t THEN (IF t \in cancelled THEN "exit" ELSE "flow") ELSE stage[s]
      /\ UNCHANGED <<bytes, cancelled, model, first, trapped, seen, base>>
  BY DEF CheckCancelled, At, Goto, FlowInv, TypeOK, api, history, Running
<1>2. Sampled' /\ Reported' /\ (bytes' < Width => Ordered')
  BY <1>1 DEF Good, Sampled, Reported, Ordered
<1>3. first # nil => FirstSet'
  BY <1>1 DEF Good, SetOnce, FirstSet
<1>4. ASSUME first = nil PROVE FirstUnset'
  <2>1. FirstUnset
    BY <1>4 DEF Good, SetOnce
  <2>2. \A s \in Samplers : stage'[s] \notin {"subtract", "deliver"}
    BY <2>1, <1>1 DEF FirstUnset
  <2>3. CASE t \in cancelled
    <3>1. \A s \in Samplers : MaySet(s)' => MaySet(s)
      BY <2>3, <1>1 DEF MaySet
    <3>2. \A s \in Samplers : s \in Running' => s \in Running
      BY <2>3, <1>1 DEF Running
    <3> QED
      BY <2>1, <2>2, <3>1, <3>2, <1>1 DEF FirstUnset
  <2>4. CASE t \notin cancelled
    <3>1. \A s \in Samplers : ~MaySet(s)
      BY <2>1, <2>4, <1>1 DEF FirstUnset, MaySet
    <3>2. \A s \in Samplers : MaySet(s)' => s = t
      BY <3>1, <1>1 DEF MaySet
    <3>3. \A s \in Samplers : s \in Running' => s \in Running
      BY <1>1 DEF Running
    <3>4. \A s \in Samplers : s \in Running /\ s \notin cancelled => s = t
      BY <1>1, <2>4 DEF FlowInv, OneSampler
    <3> QED
      BY <2>2, <3>2, <3>3, <3>4, <1>1 DEF FirstUnset
  <2> QED
    BY <2>3, <2>4
<1> QED
  BY <1>1, <1>2, <1>3, <1>4 DEF Good, SetOnce

LEMMA FlowGood ==
  ASSUME FlowInv, Good, NEW t \in Samplers, Flow(t), Quiet'
  PROVE  Good'
<1> USE WidthAssumption
<1>1. /\ stage[t] = "flow" /\ ~trapped
      /\ \A s \in Samplers : stage'[s] = IF s = t THEN "test" ELSE stage[s]
      /\ UNCHANGED <<bytes, cancelled, first, trapped, base>>
      /\ \A s \in Samplers : seen'[s] = IF s = t THEN bytes ELSE seen[s]
  BY DEF Flow, At, Goto, FlowInv, TypeOK, api
<1>2. \A s \in Samplers : model'[s] = IF s = t THEN bytes % Width ELSE model[s]
  <2>1. model' = [model EXCEPT ![t] = bytes % Width]
    BY DEF Flow, Quiet
  <2> QED
    BY <2>1 DEF FlowInv, TypeOK
<1>3. bytes \in Nat /\ base \in Nat
  BY DEF FlowInv, TypeOK
<1>4. Sampled' /\ Reported'
  BY <1>1, <1>2 DEF Good, Sampled, Reported
<1>5. bytes' < Width => Ordered'
  BY <1>1, <1>3 DEF Good, Ordered
<1>6. first # nil => FirstSet'
  BY <1>1 DEF Good, SetOnce, FirstSet
<1>7. ASSUME first = nil PROVE FirstUnset'
  <2>1. \A s \in Samplers : (MaySet(s)' => MaySet(s)) /\ (s \in Running' => s \in Running)
    BY <1>1 DEF MaySet, Running
  <2> QED
    BY <2>1, <1>1, <1>7 DEF Good, SetOnce, FirstUnset
<1> QED
  BY <1>1, <1>4, <1>5, <1>6, <1>7 DEF Good, SetOnce

LEMMA TestGood ==
  ASSUME FlowInv, Good, NEW t \in Samplers, TestFirst(t)
  PROVE  Good'
<1>1. /\ stage[t] = "test" /\ ~trapped
      /\ \A s \in Samplers : stage'[s] =
           IF s = t THEN (IF first = nil THEN "set" ELSE "subtract") ELSE stage[s]
      /\ UNCHANGED <<bytes, cancelled, model, first, trapped, seen, base>>
  BY DEF TestFirst, At, Goto, FlowInv, TypeOK, api, history
<1>2. Sampled' /\ Reported' /\ (bytes' < Width => Ordered')
  BY <1>1 DEF Good, Sampled, Reported, Ordered
<1>3. first # nil => FirstSet'
  BY <1>1 DEF Good, SetOnce, FirstSet
<1>4. ASSUME first = nil PROVE FirstUnset'
  <2>1. \A s \in Samplers : (MaySet(s)' => MaySet(s)) /\ (s \in Running' => s \in Running)
    BY <1>1 DEF MaySet, Running
  <2> QED
    BY <2>1, <1>1, <1>4 DEF Good, SetOnce, FirstUnset
<1> QED
  BY <1>1, <1>2, <1>3, <1>4 DEF Good, SetOnce

(* first_model is set once: no other thread may set it, and none has begun   *)
(* a subtraction or has something to report.                                *)
LEMMA SetGood ==
  ASSUME FlowInv, Good, NEW t \in Samplers, SetFirst(t)
  PROVE  Good'
<1>1. /\ stage[t] = "set" /\ ~trapped
      /\ \A s \in Samplers : stage'[s] = IF s = t THEN "deliver" ELSE stage[s]
      /\ UNCHANGED <<bytes, cancelled, model, trapped, seen>>
      /\ first' = model[t] /\ base' = seen[t]
  BY DEF SetFirst, At, Goto, FlowInv, TypeOK, api
<1>2. first = nil
  BY <1>1 DEF Good, SetOnce, FirstSet
<1>3. first' # nil
  BY <1>1, WidthAssumption DEF FlowInv, TypeOK, nil
<1>4. \A s \in Samplers : s # t => ~MaySet(s) /\ stage[s] \notin {"subtract", "deliver"}
  BY <1>1, <1>2 DEF Good, SetOnce, FirstUnset, MaySet
<1>5. \A s \in Samplers : stage'[s] \notin {"test", "set", "subtract"}
  BY <1>4, <1>1 DEF MaySet
<1>6. FirstSet'
  BY <1>1, <1>5 DEF FirstSet, Good, Sampled
<1>7. Sampled' /\ Reported'
  BY <1>1, <1>4, <1>5 DEF Sampled, Reported
<1>8. bytes' < Width => Ordered'
  BY <1>1, <1>5 DEF Good, Ordered
<1> QED
  BY <1>3, <1>6, <1>7, <1>8 DEF Good, SetOnce

(* Before a wrap no subtraction goes below zero; the difference is the        *)
(* traffic since the first sample, up to a wrap.                             *)
LEMMA SubtractGood ==
  ASSUME FlowInv, Good, NEW t \in Samplers, Subtract(t)
  PROVE  Good'
<1>1. /\ stage[t] = "subtract" /\ ~trapped
      /\ UNCHANGED <<bytes, cancelled, first, seen, base>>
  BY DEF Subtract, At, api, history
<1>2. first # nil /\ FirstSet
  BY <1>1 DEF FlowInv, HasFirst, Good, SetOnce
<1>3. bytes < Width => model[t] >= first
  <2> SUFFICES ASSUME bytes < Width PROVE model[t] >= first
    OBVIOUS
  <2>1. model[t] = seen[t] /\ base <= seen[t] /\ base <= bytes /\ first = base % Width
    BY <1>1, <1>2, Unwrapped DEF Good, Ordered, FirstSet
  <2> QED
    BY <2>1, WidthAssumption DEF FlowInv, TypeOK
<1>4. CASE model[t] >= first
  <2>1. /\ \A s \in Samplers : stage'[s] = IF s = t THEN "deliver" ELSE stage[s]
        /\ \A s \in Samplers : s # t => model'[s] = model[s]
        /\ model'[t] = model[t] - first /\ trapped' = trapped
    BY <1>4 DEF Subtract, Goto, FlowInv, TypeOK
  <2>2. (model'[t] - (seen'[t] - base')) % Width = 0
    <3>1. model[t] = seen[t] % Width /\ first = base % Width
      BY <1>1, <1>2 DEF Good, Sampled, FirstSet
    <3>2. seen[t] \in Int /\ base \in Int
      BY DEF FlowInv, TypeOK
    <3> QED
      BY <1>1, <2>1, <3>1, <3>2, Remainders
  <2>3. Sampled' /\ Reported'
    BY <1>1, <2>1, <2>2 DEF Good, Sampled, Reported
  <2>4. FirstSet' /\ (bytes' < Width => Ordered')
    BY <1>1, <1>2, <2>1 DEF FirstSet, Good, Ordered
  <2> QED
    BY <1>1, <1>2, <2>3, <2>4 DEF Good, SetOnce
<1>5. CASE ~(model[t] >= first)
  <2>1. UNCHANGED <<model, stage>>
    BY <1>5 DEF Subtract
  <2>2. Sampled' /\ Reported' /\ FirstSet' /\ ~(bytes' < Width)
    BY <1>1, <1>2, <1>3, <1>5, <2>1 DEF Good, Sampled, Reported, FirstSet
  <2> QED
    BY <1>1, <1>2, <2>2 DEF Good, SetOnce
<1> QED
  BY <1>4, <1>5

LEMMA ReportGood ==
  ASSUME FlowInv, Good, NEW t \in Samplers, Deliver(t) \/ Sleep(t)
  PROVE  Good'
<1>1. /\ stage[t] \in {"deliver", "sleep"} /\ stage'[t] \in {"sleep", "check"}
      /\ \A s \in Samplers : s # t => stage'[s] = stage[s]
      /\ UNCHANGED <<bytes, cancelled, model, first, trapped, seen, base>>
  BY DEF Deliver, Sleep, At, Goto, FlowInv, TypeOK, api, history
<1>2. Sampled' /\ Reported' /\ (bytes' < Width => Ordered')
  BY <1>1 DEF Good, Sampled, Reported, Ordered
<1>3. first # nil => FirstSet'
  BY <1>1 DEF Good, SetOnce, FirstSet
<1>4. ASSUME first = nil PROVE FirstUnset'
  <2>1. \A s \in Samplers : (MaySet(s)' => MaySet(s)) /\ (s \in Running' => s \in Running)
    BY <1>1 DEF MaySet, Running
  <2>2. \A s \in Samplers : stage'[s] \notin {"subtract", "deliver"}
    BY <1>1, <1>4 DEF Good, SetOnce, FirstUnset
  <2> QED
    BY <2>1, <2>2, <1>1, <1>4 DEF Good, SetOnce, FirstUnset
<1> QED
  BY <1>1, <1>2, <1>3, <1>4 DEF Good, SetOnce

(* Traffic, close() and the steps that change nothing.                      *)
LEMMA OutsideGood ==
  ASSUME FlowInv, Good, Traffic \/ Close \/ UNCHANGED vars
  PROVE  Good'
<1>1. /\ UNCHANGED <<stage, model, first, trapped, seen, base>>
      /\ cancelled \subseteq cancelled' /\ bytes <= bytes'
  BY DEF Traffic, Close, Cancel, vars, api, history, FlowInv, TypeOK
<1>2. bytes \in Nat /\ bytes' \in Nat /\ base \in Nat /\ seen \in [Samplers -> Nat]
  BY DEF Traffic, Close, vars, FlowInv, TypeOK
<1>3. Sampled' /\ Reported'
  BY <1>1 DEF Good, Sampled, Reported
<1>4. bytes' < Width => Ordered'
  BY <1>1, <1>2, WidthAssumption DEF Good, Ordered
<1>5. SetOnce'
  BY <1>1 DEF Good, SetOnce, FirstSet, FirstUnset, MaySet, Running
<1> QED
  BY <1>3, <1>4, <1>5 DEF Good

LEMMA HonestStep ==
  ASSUME FlowInv, [Next]_vars
  PROVE  HonestInv' /\ CauseInv'
<1> SUFFICES ASSUME Quiet' PROVE Good'
  BY DEF HonestInv, CauseInv, Good
<1>1. Good
  <2>1. Quiet
    BY Growing DEF FlowInv
  <2> QED
    BY <2>1 DEF FlowInv, HonestInv, CauseInv, Good
<1>2. CASE Traffic \/ Close \/ UNCHANGED vars
  BY <1>1, <1>2, OutsideGood
<1>3. ASSUME NEW t \in Samplers, Open(t) PROVE Good'
  BY <1>1, <1>3, OpenGood
<1>4. ASSUME NEW t \in Samplers, Sample(t) PROVE Good'
  BY <1>1, <1>4, CheckGood, FlowGood, TestGood, SetGood, SubtractGood, ReportGood DEF Sample
<1> QED
  BY <1>2, <1>3, <1>4 DEF Next

-----------------------------------------------------------------------------
(* The inductive invariant of the sampling threads.                         *)
THEOREM FlowInvariant == Spec => []FlowInv
<1>1. FlowInv /\ [Next]_vars => FlowInv'
  BY FlowTypes, HasFirstStep, OneSamplerStep, LateStep, HonestStep DEF FlowInv
<1> QED
  BY FlowInit, <1>1, PTL DEF Spec

(* The samples, first_model and the reports keep their types: whatever is    *)
(* reported is a value of UInt32.                                           *)
THEOREM FlowTypeCorrect == Spec => []TypeOK
<1>1. FlowInv => TypeOK
  BY DEF FlowInv
<1> QED
  BY FlowInvariant, <1>1, PTL

(* open() and close() leave one thread at most that goes on sampling, and it *)
(* is eyeThread.                                                            *)
THEOREM OneAtATime == Spec => []OneSampler
<1>1. FlowInv => OneSampler
  BY DEF FlowInv
<1> QED
  BY FlowInvariant, <1>1, PTL

(* The delegate hears of a cancelled thread once more at most.              *)
THEOREM LateOnce == Spec => []OneLateReport
<1>1. FlowInv => OneLateReport
  BY DEF FlowInv, LateInv, OneLateReport
<1> QED
  BY FlowInvariant, <1>1, PTL

(* The subtractions of execute() trap only after a wrap of the counter, a    *)
(* failure of getifaddrs, or two threads that took their first samples       *)
(* together.                                                                *)
THEOREM TrapIsCaused == Spec => []TrapHasCause
<1>1. FlowInv => TrapHasCause
  <2> SUFFICES ASSUME FlowInv, trapped, Quiet PROVE bytes >= Width
    BY DEF TrapHasCause
  <2>1. ~(bytes < Width)
    BY DEF FlowInv, CauseInv, Ordered
  <2> QED
    BY <2>1, WidthAssumption DEF FlowInv, TypeOK
<1> QED
  BY FlowInvariant, <1>1, PTL

(* However threads are started and cancelled, and however often the counter   *)
(* wraps, the delegate hears first of the counter itself and then of the      *)
(* traffic since that sample, but for multiples of the width (execute()      *)
(* against open() and close()).                                              *)
THEOREM ReportsAreHonest == Spec => []HonestReport
<1>1. FlowInv => HonestReport
  BY DEF FlowInv, HonestInv, Reported, HonestReport
<1> QED
  BY FlowInvariant, <1>1, PTL
=============================================================================
