--------------------------------- MODULE CPU ---------------------------------
(***************************************************************************)
(* The two measurements of SystemEye/CPU.swift. systemUsage() gives the    *)
(* ticks the system has counted since the last call, whoever made it;      *)
(* applicationUsage() adds up what the threads of the process use, one     *)
(* after the other, while they come and go. Every monitor page calls both  *)
(* once a second on the main thread; being public and static, they may be  *)
(* called on any thread, and loadPrevious has no lock.                     *)
(***************************************************************************)
EXTENDS Integers, FiniteSetsExt

CONSTANTS
  Callers,   (* the threads that call the two functions                    *)
  States,    (* what a tick is counted for: user, system, idle, nice       *)
  Width,     (* 2^32: cpu_ticks are 32 bits wide                           *)
  MaxTicks,  (* a bound on the ticks counted for each state                *)
  Workers,   (* the other threads of the process, each of which lives once *)
  IdleWorkers, (* those that have TH_FLAGS_IDLE                            *)
  Usage(_)   (* the cpu_usage of a thread                                  *)

ASSUME WidthAssumption == Width \in Nat \ {0}
ASSUME TicksAssumption == MaxTicks \in Nat
ASSUME UsageAssumption == \A w \in Workers : Usage(w) \in Nat

VARIABLES
  ticks,         (* the ticks there have been                              *)
  loadPrevious,
  stage,         (* how far each caller is in one of the functions         *)
  load,          (* what each caller of systemUsage() has read             *)
  trapped,       (* an unsigned subtraction went below zero                *)
  living, exited, (* the workers that run, those that have run             *)
  todo,          (* the threads a caller of applicationUsage() has to look at *)
  result,        (* what it has added up, and then what it returns         *)
  listed,        (* history: the threads task_threads gave it              *)
  reported,      (* history: the sum of all differences, until calls overlap *)
  failed,        (* history: host_statistics has failed                    *)
  overlapped     (* history: a systemUsage() has begun inside another      *)

history == <<reported, failed, overlapped>>
system == <<ticks, loadPrevious, load, trapped, history>>
application == <<living, exited, todo, result, listed>>
vars == <<system, stage, application>>

Zero == [k \in States |-> 0]
Counters == [States -> 0..(Width - 1)]

Init ==
  /\ ticks = Zero /\ loadPrevious = Zero
  /\ stage = [c \in Callers |-> "idle"]
  /\ load = [c \in Callers |-> Zero]
  /\ trapped = FALSE
  /\ reported = Zero /\ failed = FALSE /\ overlapped = FALSE
  /\ living = {} /\ exited = {}
  /\ todo = [c \in Callers |-> {}] /\ listed = [c \in Callers |-> {}]
  /\ result = [c \in Callers |-> 0]

Tick ==
  /\ ~trapped
  /\ \E k \in States : ticks[k] < MaxTicks /\ ticks' = [ticks EXCEPT ![k] = @ + 1]
  /\ UNCHANGED <<loadPrevious, stage, load, trapped, history, application>>

-----------------------------------------------------------------------------
(* systemUsage().                                                           *)

Measuring(c) == stage[c] \in {"subtract", "store"}
Idle == \A c \in Callers : ~Measuring(c)

(* hostCPULoadInfo: where nothing was read (and the build is not a debug     *)
(* build) the counters are zeros.                                           *)
Read(c) ==
  /\ ~trapped /\ stage[c] = "idle"
  /\ \/ load' = [load EXCEPT ![c] = [k \in States |-> ticks[k] % Width]] /\ UNCHANGED failed
     \/ load' = [load EXCEPT ![c] = Zero] /\ failed' = TRUE
  /\ stage' = [stage EXCEPT ![c] = "subtract"]
  /\ overlapped' = (overlapped \/ ~Idle)
  /\ UNCHANGED <<ticks, loadPrevious, trapped, reported, application>>

Add(diff) == IF overlapped THEN UNCHANGED reported
                ELSE reported' = [k \in States |-> reported[k] + diff[k]]

(* Mutant: the operands in the wrong order. *)
SubtractFrom(c) ==
  /\ ~trapped /\ stage[c] = "subtract"
  /\ trapped' = \E k \in States : load[c][k] > loadPrevious[k]
  /\ Add([k \in States |-> loadPrevious[k] - load[c][k]])
  /\ stage' = [stage EXCEPT ![c] = "store"]
  /\ UNCHANGED <<ticks, loadPrevious, load, failed, overlapped, application>>

(* The four differences of UInt32 values: any of them may trap.              *)
Subtract(c) ==
  /\ ~trapped /\ stage[c] = "subtract"
  /\ IF \A k \in States : load[c][k] >= loadPrevious[k]
     THEN /\ Add([k \in States |-> load[c][k] - loadPrevious[k]])
          /\ stage' = [stage EXCEPT ![c] = "store"]
          /\ UNCHANGED trapped
     ELSE trapped' = TRUE /\ UNCHANGED <<reported, stage>>
  /\ UNCHANGED <<ticks, loadPrevious, load, failed, overlapped, application>>

(* Mutant: loadPrevious read once more in the place of load. *)
StoreLater(c) ==
  /\ ~trapped /\ stage[c] = "store"
  /\ loadPrevious' = [k \in States |-> ticks[k] % Width]
  /\ stage' = [stage EXCEPT ![c] = "idle"]
  /\ UNCHANGED <<ticks, load, trapped, history, application>>

Store(c) ==
  /\ ~trapped /\ stage[c] = "store"
  /\ loadPrevious' = load[c]
  /\ stage' = [stage EXCEPT ![c] = "idle"]
  /\ UNCHANGED <<ticks, load, trapped, history, application>>

-----------------------------------------------------------------------------
(* applicationUsage(). A worker that has exited is never read again: the     *)
(* process keeps the right to its port, so that the name is not used for     *)
(* another thread.                                                          *)

Begin(w) ==
  /\ ~trapped /\ w \notin exited /\ living' = living \cup {w}
  /\ UNCHANGED <<system, stage, exited, todo, result, listed>>

Exit(w) ==
  /\ ~trapped /\ w \in living
  /\ living' = living \ {w} /\ exited' = exited \cup {w}
  /\ UNCHANGED <<system, stage, todo, result, listed>>

Return(c, usage) ==
  /\ stage' = [stage EXCEPT ![c] = "idle"]
  /\ result' = [result EXCEPT ![c] = usage]
  /\ todo' = [todo EXCEPT ![c] = {}]

(* task_threads; if it fails the list is empty.                             *)
ThreadActPointers(c) ==
  /\ ~trapped /\ stage[c] = "idle"
  /\ \E threads \in {living, {}} :
       /\ todo' = [todo EXCEPT ![c] = threads]
       /\ listed' = [listed EXCEPT ![c] = threads]
  /\ result' = [result EXCEPT ![c] = 0]
  /\ stage' = [stage EXCEPT ![c] = "infos"]
  /\ UNCHANGED <<system, living, exited>>

Counted(w) == IF w \in IdleWorkers THEN 0 ELSE Usage(w)

(* Mutant: a thread that cannot be read is passed over. *)
PassOver(c, w) ==
  /\ ~trapped /\ stage[c] = "infos" /\ w \in todo[c]
  /\ todo' = [todo EXCEPT ![c] = @ \ {w}]
  /\ result' = IF w \in living THEN [result EXCEPT ![c] = @ + Counted(w)] ELSE result
  /\ UNCHANGED <<system, stage, living, exited, listed>>

(* One turn of threadBasicInfos: a thread that has exited since the list was *)
(* made empties the whole result.                                           *)
ThreadBasicInfo(c, w) ==
  /\ ~trapped /\ stage[c] = "infos" /\ w \in todo[c]
  /\ IF w \in living
     THEN /\ todo' = [todo EXCEPT ![c] = @ \ {w}]
          /\ result' = [result EXCEPT ![c] = @ + Counted(w)]
          /\ UNCHANGED stage
     ELSE Return(c, 0)
  /\ UNCHANGED <<system, living, exited, listed>>

ApplicationUsage(c) ==
  /\ ~trapped /\ stage[c] = "infos" /\ todo[c] = {}
  /\ Return(c, result[c])
  /\ UNCHANGED <<system, living, exited, listed>>

-----------------------------------------------------------------------------
Next ==
  \/ Tick
  \/ \E c \in Callers :
       \/ Read(c) \/ Subtract(c) \/ Store(c)
       \/ ThreadActPointers(c) \/ ApplicationUsage(c)
       \/ \E w \in Workers : ThreadBasicInfo(c, w)
  \/ \E w \in Workers : Begin(w) \/ Exit(w)
  \/ trapped /\ UNCHANGED vars

Spec == Init /\ [][Next]_vars

-----------------------------------------------------------------------------
(* Properties.                                                              *)

TypeOK ==
  /\ ticks \in [States -> Nat] /\ loadPrevious \in Counters
  /\ stage \in [Callers -> {"idle", "subtract", "store", "infos"}]
  /\ load \in [Callers -> Counters]
  /\ reported \in [States -> Nat]
  /\ {trapped, failed, overlapped} \subseteq BOOLEAN
  /\ living \subseteq Workers /\ exited \subseteq Workers
  /\ todo \in [Callers -> SUBSET Workers] /\ listed \in [Callers -> SUBSET Workers]
  /\ result \in [Callers -> Nat]

Wrapped == \E k \in States : ticks[k] >= Width

(* The process traps in a subtraction only if a counter has wrapped, could   *)
(* not be read, or two threads were in systemUsage() at once. Calls of one   *)
(* thread, of however many pages, are safe.                                 *)
TrapHasCause == trapped => Wrapped \/ failed \/ overlapped

(* "Determined by the delta between the current and last call" (CPU.swift:   *)
(* 40): the calls of all pages together report each tick once, those before  *)
(* the first call included, and lose none that was read.                    *)
EveryTickOnce ==
  ~overlapped => \A k \in States :
    /\ Idle => reported[k] = loadPrevious[k]
    /\ ~failed /\ ~Wrapped => reported[k] <= ticks[k]

(* "Get CPU usage of application, get from all thread" (CPU.swift:66): what  *)
(* applicationUsage() returns is the sum over all the threads of its list,   *)
(* or nothing at all, never the sum over some of them.                       *)
AllThreads ==
  \A c \in Callers : stage[c] # "infos" =>
    result[c] \in {0, MapThenSumSet(Counted, listed[c])}
=============================================================================
