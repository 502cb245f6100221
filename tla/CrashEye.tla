------------------------------ MODULE CrashEye ------------------------------
(***************************************************************************)
(* The static class CrashEye (LeigodAPM/Classes/CrashEye/CrashEye.swift):  *)
(* the list of weakly held delegates, the uncaught-exception handler it    *)
(* chains in front of the one it found, the signal handlers it installs,   *)
(* and what a crash on any thread does until the process is gone.          *)
(*                                                                         *)
(* add/remove run on the main thread, one call at a time; a crash may      *)
(* interrupt them after any of their steps, on the main thread itself or   *)
(* on another one, and two threads may crash at the same time.             *)
(***************************************************************************)
EXTENDS Integers, Sequences, FiniteSets

CONSTANTS
  Delegates,  (* objects that may be registered; each is allocated once     *)
  Hash,       (* NSObject.hash: two objects share it only if one is gone    *)
  Threads,    (* the threads of the process                                 *)
  Main,       (* the thread that calls add and remove                       *)
  Raised,     (* what threads may raise, signals or "exception": a bound    *)
  MaxLoad     (* a bound on what takes part in one behaviour, see Room      *)

Signals ==
  {"SIGABRT", "SIGILL", "SIGSEGV", "SIGFPE", "SIGBUS", "SIGPIPE", "SIGTRAP"}

ASSUME MainAssumption == Main \in Threads
ASSUME HashAssumption == Hash \in [Delegates -> Int]
ASSUME MaxLoadAssumption == MaxLoad \in Nat
ASSUME RaisedAssumption == Raised \subseteq Signals \cup {"exception"}

VARIABLES
  born,        (* delegates allocated so far                               *)
  alive,       (* delegates not yet deallocated: their weak slot is not nil *)
  slots,       (* CrashEye.delegates: how many weak slots hold a delegate   *)
  isOpen,      (* CrashEye.isOpen                                           *)
  oldHandler,  (* app_old_exceptionHandler                                  *)
  uncaught,    (* what NSGetUncaughtExceptionHandler returns                *)
  otherPrev,   (* the handler another crash reporter saved when it installed *)
  crossed,     (* history: the two reporters took their handlers out of turn *)
  signals,     (* the disposition of each signal                            *)
  call,        (* how far the main thread is inside open() or close()       *)
  frame,       (* how far each thread is in its crash                       *)
  sig,         (* the signal a thread is handling                           *)
  todo,        (* the slots a handler's loop has still to visit             *)
  owed,        (* history: the live delegates when the signal loop began    *)
  reports,     (* history: the reports a delegate got from a thread's crash *)
  dead         (* the process is gone                                       *)

registry == <<born, alive, slots>>
handlers == <<isOpen, oldHandler, uncaught, otherPrev, crossed, signals, call>>
crash == <<frame, sig, todo, owed, reports, dead>>
vars == <<registry, handlers, crash>>

Handlers == {"none", "CrashEye", "other"}
Calls == {"idle", "open", "save", "install", "signals", "close", "restore"}
Stages == {"run", "excOld", "otherNested", "other", "excGuard", "excDeliver",
           "abort", "sigGuard", "refault", "sigDeliver", "kill"}
Kinds == {"exception", "signal"}

NoSlots == [d \in Delegates |-> 0]

Init ==
  /\ born = {} /\ alive = {}
  /\ slots = NoSlots
  /\ isOpen = FALSE
  /\ oldHandler = "none" /\ uncaught = "none"
  /\ otherPrev = "absent" /\ crossed = FALSE
  /\ signals = [s \in Signals |-> "default"]
  /\ call = "idle"
  /\ frame = [t \in Threads |-> "run"]
  /\ sig = [t \in Threads |-> "none"]
  /\ todo = [t \in Threads |-> NoSlots]
  /\ owed = [t \in Threads |-> {}]
  /\ reports = [t \in Threads |-> [d \in Delegates |-> <<>>]]
  /\ dead = FALSE

(* The bound: a crash counts for one, a delegate for two, another reporter,   *)
(* from its coming to the last trace it leaves, for three.                   *)
Room(size) ==
  2 * Cardinality(born) + Cardinality({t \in Threads : frame[t] # "run"})
    + (IF otherPrev # "absent" \/ oldHandler = "other" \/ crossed THEN 3 ELSE 0)
    + size <= MaxLoad

-----------------------------------------------------------------------------
(* The objects that act as delegates. An address, and so a hash, is reused   *)
(* once its object is gone.                                                  *)

Alloc(d) ==
  /\ ~dead /\ Room(2)
  /\ d \notin born
  /\ \A e \in alive : Hash[e] # Hash[d]
  /\ born' = born \cup {d}
  /\ alive' = alive \cup {d}
  /\ UNCHANGED <<slots, handlers, crash>>

Dealloc(d) ==
  /\ ~dead
  /\ d \in alive
  /\ alive' = alive \ {d}
  /\ UNCHANGED <<born, slots, handlers, crash>>

-----------------------------------------------------------------------------
(* Registration.                                                            *)

(* Mutant: nil slots stay in the list. *)
NilToo(s) == s

(* filter { $0.delegate != nil } *)
NonNil(s) == [d \in Delegates |-> IF d \in alive THEN s[d] ELSE 0]

(* contains { $0.delegate?.hash == delegate.hash }: nil has no hash *)
Contains(s, d) == \E e \in alive : s[e] > 0 /\ Hash[e] = Hash[d]

(* Mutant: add without its contains. *)
AppendedAgain(s, d) == [s EXCEPT ![d] = @ + 1]

Appended(s, d) == IF Contains(s, d) THEN s ELSE [s EXCEPT ![d] = @ + 1]

(* filter { $0.delegate?.hash != delegate.hash } *)
Without(s, d) ==
  [e \in Delegates |-> IF e \in alive /\ Hash[e] = Hash[d] THEN 0 ELSE s[e]]

IsEmpty(s) == \A d \in Delegates : s[d] = 0

MainIdle == ~dead /\ call = "idle" /\ frame[Main] = "run"

(* Mutant: open() without its guard. *)
OpeningAgain == call' = "open"

(* The guards of open() and of close(); only the main thread changes isOpen. *)
Opening == call' = IF isOpen THEN call ELSE "open"
Closing == call' = IF isOpen THEN "close" ELSE call

Add(d) ==
  /\ MainIdle
  /\ d \in alive
  /\ slots' = Appended(NonNil(slots), d)
  /\ Opening
  /\ UNCHANGED <<born, alive, isOpen, oldHandler, uncaught, otherPrev, crossed, signals, crash>>

(* Mutant: remove that closes whoever is left. *)
RemoveAndClose(d) ==
  /\ MainIdle
  /\ d \in alive
  /\ slots' = Without(NonNil(slots), d)
  /\ Closing
  /\ UNCHANGED <<born, alive, isOpen, oldHandler, uncaught, otherPrev, crossed, signals, crash>>

Remove(d) ==
  /\ MainIdle
  /\ d \in alive
  /\ slots' = Without(NonNil(slots), d)
  /\ IF IsEmpty(slots') THEN Closing ELSE UNCHANGED call
  /\ UNCHANGED <<born, alive, isOpen, oldHandler, uncaught, otherPrev, crossed, signals, crash>>

(* The next statement of open() or close() on the main thread. *)
MainAt(c) == ~dead /\ call = c /\ frame[Main] = "run"

SetOpen ==
  /\ MainAt("open")
  /\ isOpen' = TRUE
  /\ call' = "save"
  /\ UNCHANGED <<registry, oldHandler, uncaught, otherPrev, crossed, signals, crash>>

SaveHandler ==
  /\ MainAt("save")
  /\ oldHandler' = uncaught
  /\ call' = "install"
  /\ UNCHANGED <<registry, isOpen, uncaught, otherPrev, crossed, signals, crash>>

InstallHandler ==
  /\ MainAt("install")
  /\ uncaught' = "CrashEye"
  /\ call' = "signals"
  /\ UNCHANGED <<registry, isOpen, oldHandler, otherPrev, crossed, signals, crash>>

(* Mutant: setCrashSignalHandler with one signal forgotten. *)
SetMostSignalHandlers ==
  /\ MainAt("signals")
  /\ signals' = [s \in Signals |-> IF s = "SIGTRAP" THEN signals[s] ELSE "CrashEye"]
  /\ call' = "idle"
  /\ UNCHANGED <<registry, isOpen, oldHandler, uncaught, otherPrev, crossed, crash>>

SetCrashSignalHandler ==
  /\ MainAt("signals")
  /\ signals' = [s \in Signals |-> "CrashEye"]
  /\ call' = "idle"
  /\ UNCHANGED <<registry, isOpen, oldHandler, uncaught, otherPrev, crossed, crash>>

(* Mutant: close() that does not put the old handler back. *)
SetClosedOnly ==
  /\ MainAt("close")
  /\ isOpen' = FALSE
  /\ call' = "idle"
  /\ UNCHANGED <<registry, oldHandler, uncaught, otherPrev, crossed, signals, crash>>

SetClosed ==
  /\ MainAt("close")
  /\ isOpen' = FALSE
  /\ call' = "restore"
  /\ UNCHANGED <<registry, oldHandler, uncaught, otherPrev, crossed, signals, crash>>

RestoreHandler ==
  /\ MainAt("restore")
  /\ uncaught' = oldHandler
  /\ call' = "idle"
  /\ UNCHANGED <<registry, isOpen, oldHandler, otherPrev, crossed, signals, crash>>

-----------------------------------------------------------------------------
(* Another crash reporter of the application, the reason CrashEye keeps      *)
(* app_old_exceptionHandler: it chains to what it found, and puts that back  *)
(* when it is switched off. The two can cross: it acts between two steps of  *)
(* open() or close(), or is switched off when its handler is not in force.   *)

OtherInstall ==
  /\ ~dead /\ Room(3)
  /\ otherPrev = "absent"
  /\ otherPrev' = uncaught
  /\ uncaught' = "other"
  /\ crossed' = (crossed \/ call # "idle")
  /\ UNCHANGED <<registry, isOpen, oldHandler, signals, call, crash>>

OtherUninstall ==
  /\ ~dead
  /\ otherPrev # "absent"
  /\ uncaught' = otherPrev
  /\ otherPrev' = "absent"
  /\ crossed' = (crossed \/ call # "idle" \/ uncaught # "other")
  /\ UNCHANGED <<registry, isOpen, oldHandler, signals, call, crash>>

-----------------------------------------------------------------------------
(* A crash.                                                                 *)

Goto(t, stage) == frame' = [frame EXCEPT ![t] = stage]
At(t, stage) == ~dead /\ frame[t] = stage

(* The system ends the process: the default action of a signal. *)
Die(t) == dead' = TRUE /\ UNCHANGED frame

(* A thread lets an NSException escape: the runtime calls the handler in force. *)
Throw(t) ==
  /\ At(t, "run") /\ "exception" \in Raised /\ Room(1)
  /\ Goto(t, [none |-> "abort", CrashEye |-> "excOld", other |-> "other"][uncaught])
  /\ UNCHANGED <<registry, handlers, sig, todo, owed, reports, dead>>

(* Mutant: the handler in force called in place of the one it replaced. *)
CallHandlerInForce(t) ==
  /\ At(t, "excOld")
  /\ Goto(t, [none |-> "excGuard", CrashEye |-> "excOld", other |-> "otherNested"][uncaught])
  /\ UNCHANGED <<registry, handlers, sig, todo, owed, reports, dead>>

(* RecieveException begins by calling the handler it replaced. *)
CallOldHandler(t) ==
  /\ At(t, "excOld")
  /\ Goto(t, [none |-> "excGuard", CrashEye |-> "excOld", other |-> "otherNested"][oldHandler])
  /\ UNCHANGED <<registry, handlers, sig, todo, owed, reports, dead>>

(* The other reporter's handler ends by calling the one it saved.           *)
Chained(again, return) ==
  IF otherPrev = "CrashEye" THEN "excOld"
  ELSE IF otherPrev = "other" THEN again ELSE return

OtherHandler(t) ==
  /\ \/ At(t, "other") /\ Goto(t, Chained("other", "abort"))
     \/ At(t, "otherNested") /\ Goto(t, Chained("otherNested", "excGuard"))
  /\ UNCHANGED <<registry, handlers, sig, todo, owed, reports, dead>>

(* guard CrashEye.isOpen, then the loop starts on a copy of the list. *)
RecieveException(t) ==
  /\ At(t, "excGuard")
  /\ IF isOpen
     THEN Goto(t, "excDeliver") /\ todo' = [todo EXCEPT ![t] = slots]
     ELSE Goto(t, "abort") /\ UNCHANGED todo
  /\ UNCHANGED <<registry, handlers, sig, owed, reports, dead>>

(* One turn of a handler's loop: delegate.delegate?.crashEyeDidCatchCrash. *)
Visit(t, d, kind) ==
  /\ todo[t][d] > 0
  /\ todo' = [todo EXCEPT ![t][d] = @ - 1]
  /\ reports' = IF d \in alive
                THEN [reports EXCEPT ![t][d] = Append(@, kind)]
                ELSE reports
  /\ UNCHANGED <<registry, handlers, frame, sig, owed, dead>>

DeliverException(t, d) == At(t, "excDeliver") /\ Visit(t, d, "exception")

(* The handler returns and the runtime calls abort(). *)
ReturnFromException(t) ==
  /\ At(t, "excDeliver")
  /\ IsEmpty(todo[t])
  /\ Goto(t, "abort")
  /\ UNCHANGED <<registry, handlers, sig, todo, owed, reports, dead>>

(* The kernel delivers a signal to the thread that caused it. *)
Raise(t, s) ==
  /\ IF signals[s] = "CrashEye" THEN Goto(t, "sigGuard") /\ UNCHANGED dead ELSE Die(t)
  /\ sig' = [sig EXCEPT ![t] = s]
  /\ UNCHANGED <<registry, handlers, todo, owed, reports>>

Fault(t, s) == At(t, "run") /\ Room(1) /\ Raise(t, s)
Abort(t) == At(t, "abort") /\ Raise(t, "SIGABRT")
Refault(t) == At(t, "refault") /\ Raise(t, sig[t])

(* guard CrashEye.isOpen, then the loop; or a return to what was interrupted: *)
(* abort() ends the process, a write goes on with EPIPE, and a faulting       *)
(* instruction is executed again.                                            *)
RecieveSignal(t) ==
  /\ At(t, "sigGuard")
  /\ \/ /\ isOpen
        /\ Goto(t, "sigDeliver")
        /\ todo' = [todo EXCEPT ![t] = slots]
        /\ owed' = [owed EXCEPT ![t] = {d \in alive : slots[d] > 0}]
        /\ UNCHANGED dead
     \/ /\ ~isOpen /\ sig[t] = "SIGABRT"
        /\ Die(t)
        /\ UNCHANGED <<todo, owed>>
     \/ /\ ~isOpen /\ sig[t] # "SIGABRT"
        /\ Goto(t, IF sig[t] = "SIGPIPE" THEN "run" ELSE "refault")
        /\ UNCHANGED <<todo, owed, dead>>
  /\ UNCHANGED <<registry, handlers, sig, reports>>

DeliverSignal(t, d) == At(t, "sigDeliver") /\ Visit(t, d, "signal")

(* Mutant: a loop that may be left before its last turn. *)
BreakFromLoop(t) ==
  /\ At(t, "sigDeliver")
  /\ Goto(t, "kill")
  /\ UNCHANGED <<registry, handlers, sig, todo, owed, reports, dead>>

(* Mutant: RecieveSignal without killApp. *)
ReturnFromSignal(t) ==
  /\ At(t, "sigDeliver")
  /\ IsEmpty(todo[t])
  /\ Goto(t, "refault")
  /\ UNCHANGED <<registry, handlers, sig, todo, owed, reports, dead>>

ReturnFromLoop(t) ==
  /\ At(t, "sigDeliver")
  /\ IsEmpty(todo[t])
  /\ Goto(t, "kill")
  /\ UNCHANGED <<registry, handlers, sig, todo, owed, reports, dead>>

(* killApp: default dispositions, all but SIGTRAP's, then SIGKILL. *)
KillApp(t) ==
  /\ At(t, "kill")
  /\ uncaught' = "none"
  /\ signals' = [s \in Signals |-> IF s = "SIGTRAP" THEN signals[s] ELSE "default"]
  /\ dead' = TRUE
  /\ UNCHANGED <<registry, isOpen, oldHandler, otherPrev, crossed, call,
                 frame, sig, todo, owed, reports>>

-----------------------------------------------------------------------------
Registration ==
  \/ \E d \in Delegates : Add(d) \/ Remove(d)
  \/ SetOpen \/ SaveHandler \/ InstallHandler \/ SetCrashSignalHandler
  \/ SetClosed \/ RestoreHandler

Environment ==
  \/ \E d \in Delegates : Alloc(d) \/ Dealloc(d)
  \/ OtherInstall \/ OtherUninstall
  \/ \E t \in Threads : Throw(t)
  \/ \E t \in Threads, s \in Raised \ {"exception"} : Fault(t, s)

(* What the crash of t does next, without anybody's help. *)
Crashing(t) ==
  \/ CallOldHandler(t) \/ OtherHandler(t) \/ RecieveException(t)
  \/ \E d \in Delegates : DeliverException(t, d) \/ DeliverSignal(t, d)
  \/ ReturnFromException(t) \/ Abort(t) \/ Refault(t) \/ RecieveSignal(t)
  \/ ReturnFromLoop(t) \/ KillApp(t)

(* The process is gone, or the bound is reached. *)
Gone == (dead \/ ~Room(1)) /\ UNCHANGED vars

Next == Registration \/ Environment \/ (\E t \in Threads : Crashing(t)) \/ Gone

Spec == Init /\ [][Next]_vars

(* A crashing thread keeps running: nothing suspends it. *)
Fairness == \A t \in Threads : WF_vars(Crashing(t))
FairSpec == Spec /\ Fairness
-----------------------------------------------------------------------------
(* Properties.                                                              *)

Registered == {d \in Delegates : slots[d] > 0}

(* Every variable keeps its type, whatever add, remove and crashes do.       *)
TypeOK ==
  /\ born \subseteq Delegates /\ alive \subseteq born
  /\ slots \in [Delegates -> Nat]
  /\ isOpen \in BOOLEAN
  /\ oldHandler \in Handlers /\ uncaught \in Handlers
  /\ otherPrev \in Handlers \cup {"absent"} /\ crossed \in BOOLEAN
  /\ signals \in [Signals -> {"default", "CrashEye"}]
  /\ call \in Calls
  /\ frame \in [Threads -> Stages]
  /\ sig \in [Threads -> Signals \cup {"none"}]
  /\ todo \in [Threads -> [Delegates -> Nat]]
  /\ owed \in [Threads -> SUBSET Delegates]
  /\ reports \in [Threads -> [Delegates -> Seq(Kinds)]]
  /\ dead \in BOOLEAN

(* CrashEye is open exactly while its list is not empty, but for the moments  *)
(* at which open() and close() begin: add and remove open and close it by the *)
(* length of the filtered list, which a delegate that was deallocated without *)
(* being removed still lengthens.                                            *)
OpenWhileRegistered == call \notin {"open", "close"} => (isOpen <=> Registered # {})

(* add appends a delegate once however often it is called and whoever had its *)
(* address before, so no crash is reported twice by one loop.                *)
RegisteredOnce == \A d \in Delegates : slots[d] <= 1

(* The handlers form no ring: open() never saves its own handler as the old  *)
(* one, nor one that leads back to it, which RecieveException would call     *)
(* without end; unless the two reporters crossed.                            *)
NoHandlerRing ==
  oldHandler = "CrashEye" \/ (oldHandler = "other" /\ otherPrev = "CrashEye") => crossed

(* Once close() has returned, the runtime no longer calls CrashEye.          *)
CloseTakesHandlerOut ==
  ~isOpen /\ call = "idle" /\ ~crossed => uncaught # "CrashEye"

(* When open() has returned, every crash signal comes to CrashEye, and until *)
(* a killApp nothing takes that away.                                        *)
OpenTakesSignals ==
  isOpen /\ call = "idle" /\ ~dead => \A s \in Signals : signals[s] = "CrashEye"

(* RecieveSignal reaches killApp only after every delegate that was          *)
(* registered when its loop began has the report or is gone, even while the  *)
(* main thread goes on changing the list.                                    *)
KillAfterReports ==
  \A t \in Threads : frame[t] = "kill" =>
    \A d \in owed[t] \cap alive :
      reports[t][d] # <<>> /\ reports[t][d][Len(reports[t][d])] = "signal"

(* What a delegate hears of one thread's crash is the exception, then the    *)
(* SIGABRT that follows it; never the same kind twice, never out of order.   *)
ReportOrder ==
  \A t \in Threads, d \in Delegates :
    reports[t][d] \in {<<>>, <<"exception">>, <<"signal">>, <<"exception", "signal">>}

(* An uncaught exception ends the process, through the SIGABRT of the runtime *)
(* even if CrashEye was closed in the middle; provided the other reporter is  *)
(* switched on and off only so often, and never out of turn, which can make a *)
(* ring of the handlers.                                                     *)
ExceptionKills ==
  <>[][~OtherInstall /\ ~OtherUninstall]_vars =>
    \A t \in Threads : frame[t] \in {"excOld", "other", "otherNested", "excGuard"}
                         ~> dead \/ crossed

(* A fault handled while CrashEye stays open ends the process: the guard of  *)
(* RecieveSignal leads to killApp and not back to the faulting instruction.  *)
FaultKills ==
  \A t \in Threads : [](frame[t] \in {"sigGuard", "refault"} /\ []isOpen => <>dead)

(* The list of weak slots implements the set of living members.             *)
Registry == INSTANCE CrashRegistry WITH
  Objects <- Delegates,
  living <- alive,
  members <- {d \in alive : slots[d] > 0},
  watching <- call = "open" \/ (isOpen /\ call # "close")

(* add, remove and deallocation change the live members and isOpen as a set *)
(* of members and its watch would: a reused address, a nil slot or a        *)
(* delegate added twice makes no difference. The watch is the one that the  *)
(* call under way is about to begin or to end.                              *)
RegistrySpec == Registry!Spec
=============================================================================
