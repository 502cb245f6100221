--------------------------- MODULE CrashEyeProofs ---------------------------
(***************************************************************************)
(* What holds of CrashEye for any delegates, hashes and threads; and of    *)
(* the crash log (CrashLog) for any threads and any number of launches,    *)
(* whether or not operations of the database fail.                         *)
(***************************************************************************)
EXTENDS CrashEye, CrashRecords, SequenceTheorems, TLAPS

USE DEF At, MainAt, MainIdle, Goto, Die

-----------------------------------------------------------------------------
(* Type correctness.                                                        *)

LEMMA VisitTypes ==
  ASSUME NEW t \in Threads, NEW d \in Delegates, NEW kind \in Kinds,
         TypeOK, Visit(t, d, kind)
  PROVE  TypeOK'
<1>1. todo' \in [Threads -> [Delegates -> Nat]]
  BY DEF Visit, TypeOK
<1>2. reports' \in [Threads -> [Delegates -> Seq(Kinds)]]
  BY DEF Visit, TypeOK
<1> QED
  BY <1>1, <1>2 DEF Visit, TypeOK, registry, handlers

LEMMA RaiseTypes ==
  ASSUME NEW t \in Threads, NEW s \in Signals, TypeOK, Raise(t, s)
  PROVE  TypeOK'
BY DEF Raise, TypeOK, registry, handlers, Stages

LEMMA RegistrationTypes ==
  ASSUME TypeOK, Registration
  PROVE  TypeOK'
<1>1. ASSUME NEW d \in Delegates, Add(d) PROVE TypeOK'
  <2>1. NonNil(slots) \in [Delegates -> Nat]
    BY DEF NonNil, TypeOK
  <2>2. slots' \in [Delegates -> Nat]
    BY <1>1, <2>1 DEF Add, Appended
  <2>3. isOpen' = isOpen /\ call' \in Calls
    BY <1>1 DEF Add, Opening, TypeOK, Calls
  <2> QED
    BY <1>1, <2>2, <2>3 DEF Add, TypeOK, crash
<1>2. ASSUME NEW d \in Delegates, Remove(d) PROVE TypeOK'
  BY <1>2 DEF Remove, Without, NonNil, Closing, TypeOK, crash, Calls
<1>3. CASE SaveHandler
  BY <1>3 DEF SaveHandler, TypeOK, registry, crash, Calls
<1>4. CASE InstallHandler
  BY <1>4 DEF InstallHandler, TypeOK, registry, crash, Calls, Handlers
<1>5. CASE SetCrashSignalHandler
  BY <1>5 DEF SetCrashSignalHandler, TypeOK, registry, crash, Calls
<1>6. CASE RestoreHandler
  BY <1>6 DEF RestoreHandler, TypeOK, registry, crash, Calls
<1>7. CASE SetOpen \/ SetClosed
  BY <1>7 DEF SetOpen, SetClosed, TypeOK, registry, crash, Calls
<1> QED
  BY <1>1, <1>2, <1>3, <1>4, <1>5, <1>6, <1>7 DEF Registration

LEMMA EnvironmentTypes ==
  ASSUME TypeOK, Environment
  PROVE  TypeOK'
<1>1. ASSUME NEW d \in Delegates, Alloc(d) \/ Dealloc(d) PROVE TypeOK'
  BY <1>1 DEF Alloc, Dealloc, TypeOK, handlers, crash
<1>2. CASE OtherInstall
  BY <1>2 DEF OtherInstall, TypeOK, registry, crash, Handlers
<1>3. CASE OtherUninstall
  BY <1>3 DEF OtherUninstall, TypeOK, registry, crash, Handlers
<1>4. ASSUME NEW t \in Threads, Throw(t) PROVE TypeOK'
  BY <1>4 DEF Throw, TypeOK, registry, handlers, Handlers, Stages
<1>5. ASSUME NEW t \in Threads, NEW s \in Raised \ {"exception"}, Fault(t, s)
      PROVE  TypeOK'
  BY <1>5, RaiseTypes, RaisedAssumption DEF Fault
<1> QED
  BY <1>1, <1>2, <1>3, <1>4, <1>5 DEF Environment

LEMMA CrashingTypes ==
  ASSUME NEW t \in Threads, TypeOK, Crashing(t)
  PROVE  TypeOK'
<1>1. CASE CallOldHandler(t)
  BY <1>1 DEF CallOldHandler, TypeOK, registry, handlers, Handlers, Stages
<1>2. CASE OtherHandler(t)
  BY <1>2 DEF OtherHandler, Chained, TypeOK, registry, handlers, Stages
<1>3. CASE RecieveException(t)
  BY <1>3 DEF RecieveException, TypeOK, registry, handlers, Stages
<1>4. ASSUME NEW d \in Delegates, DeliverException(t, d) \/ DeliverSignal(t, d)
      PROVE  TypeOK'
  BY <1>4, VisitTypes DEF DeliverException, DeliverSignal, Kinds
<1>5. CASE ReturnFromException(t)
  BY <1>5 DEF ReturnFromException, TypeOK, registry, handlers, Stages
<1>6. CASE Abort(t)
  BY <1>6, RaiseTypes DEF Abort, Signals
<1>7. CASE Refault(t)
  BY <1>7 DEF Refault, Raise, TypeOK, registry, handlers, Stages
<1>8. CASE RecieveSignal(t)
  <2>1. frame' \in [Threads -> Stages] /\ dead' \in BOOLEAN
    BY <1>8 DEF RecieveSignal, TypeOK, Stages
  <2>2. todo' \in [Threads -> [Delegates -> Nat]]
    BY <1>8 DEF RecieveSignal, TypeOK
  <2>3. {d \in alive : slots[d] > 0} \in SUBSET Delegates
    BY DEF TypeOK
  <2>4. owed' \in [Threads -> SUBSET Delegates]
    BY <1>8, <2>3 DEF RecieveSignal, TypeOK
  <2>5. UNCHANGED <<registry, handlers, sig, reports>>
    BY <1>8 DEF RecieveSignal
  <2> QED
    BY <2>1, <2>2, <2>4, <2>5 DEF TypeOK, registry, handlers
<1>9. CASE ReturnFromLoop(t)
  BY <1>9 DEF ReturnFromLoop, TypeOK, registry, handlers, Stages
<1>10. CASE KillApp(t)
  BY <1>10 DEF KillApp, TypeOK, registry, Handlers
<1> QED
  BY <1>1, <1>2, <1>3, <1>4, <1>5, <1>6, <1>7, <1>8, <1>9, <1>10 DEF Crashing

LEMMA InitTypes == Init => TypeOK
<1> SUFFICES ASSUME Init PROVE TypeOK
  OBVIOUS
<1>1. reports \in [Threads -> [Delegates -> Seq(Kinds)]]
  BY DEF Init
<1>2. todo \in [Threads -> [Delegates -> Nat]]
  BY DEF Init, NoSlots
<1>3. signals \in [Signals -> {"default", "CrashEye"}]
  BY DEF Init
<1> QED
  BY <1>1, <1>2, <1>3 DEF Init, TypeOK, NoSlots, Handlers, Calls, Stages

LEMMA StepTypes == TypeOK /\ [Next]_vars => TypeOK'
<1> SUFFICES ASSUME TypeOK, [Next]_vars PROVE TypeOK'
  OBVIOUS
<1>1. CASE UNCHANGED vars
  BY <1>1 DEF vars, registry, handlers, crash, TypeOK
<1>2. CASE Next
  BY <1>1, <1>2, RegistrationTypes, EnvironmentTypes, CrashingTypes DEF Next, Gone
<1> QED
  BY <1>1, <1>2

(* Every variable keeps its type through registration, other reporters and   *)
(* crashes.                                                                  *)
THEOREM TypeCorrect == Spec => []TypeOK
BY InitTypes, StepTypes, PTL DEF Spec

-----------------------------------------------------------------------------
(* Registration.                                                            *)

(* Objects alive at one time have hashes of their own, and only objects that  *)
(* were allocated are in the list.                                           *)
DistinctHashes == \A d, e \in alive : Hash[d] = Hash[e] => d = e
RegisteredBorn == Registered \subseteq born

(* What the list asks for: open() and close() have yet to see to it when they *)
(* begin.                                                                    *)
Watching == call = "open" \/ (isOpen /\ call # "close")

WatchFits ==
  /\ Watching <=> Registered # {}
  /\ call = "open" => ~isOpen
  /\ call = "close" => isOpen

RegistryInv ==
  TypeOK /\ RegisteredOnce /\ WatchFits /\ DistinctHashes /\ RegisteredBorn

Members == {d \in alive : slots[d] > 0}

(* Every other step leaves the registry and what it asks for alone.          *)
LEMMA RegistrySteps ==
  ASSUME [Next]_vars, WatchFits, isOpen \in BOOLEAN
  PROVE  \/ /\ UNCHANGED <<born, alive, slots>> /\ Watching' = Watching
            /\ (call' = "open" => ~isOpen') /\ (call' = "close" => isOpen')
         \/ \E d \in Delegates : Add(d) \/ Remove(d) \/ Alloc(d) \/ Dealloc(d)
<1> USE DEF WatchFits, Watching
<1>1. CASE UNCHANGED vars
  BY <1>1 DEF vars, registry, handlers
<1>2. CASE Registration
  BY <1>2 DEF Registration, SetOpen, SaveHandler, InstallHandler,
              SetCrashSignalHandler, SetClosed, RestoreHandler, registry
<1>3. CASE Environment
  BY <1>3 DEF Environment, OtherInstall, OtherUninstall, Throw, Fault, Raise,
              registry, handlers
<1>4. ASSUME NEW t \in Threads, Crashing(t)
      PROVE  UNCHANGED <<born, alive, slots, isOpen, call>>
  BY <1>4 DEF Crashing, CallOldHandler, OtherHandler, RecieveException, Visit,
              DeliverException, DeliverSignal, ReturnFromException, Abort,
              Refault, Raise, RecieveSignal, ReturnFromLoop, KillApp, registry,
              handlers
<1> QED
  BY <1>1, <1>2, <1>3, <1>4 DEF Next, Gone

(* add(d) leaves the live delegates it found and d itself, once each, and      *)
(* CrashEye open or about to open.                                           *)
LEMMA AddEffect ==
  ASSUME NEW d \in Delegates, RegistryInv, Add(d)
  PROVE  /\ slots' = [e \in Delegates |->
                        IF e = d THEN 1 ELSE IF e \in alive THEN slots[e] ELSE 0]
         /\ Watching' = TRUE /\ (call' = "open" => ~isOpen') /\ call' # "close"
<1>0. Watching' = TRUE /\ (call' = "open" => ~isOpen') /\ call' # "close"
  BY DEF Add, Opening, Watching
<1>1. slots' = Appended(NonNil(slots), d) /\ d \in alive /\ alive \subseteq Delegates
  BY DEF Add, RegistryInv, TypeOK
<1>2. NonNil(slots) \in [Delegates -> Nat]
  BY DEF NonNil, RegistryInv, TypeOK
<1>3. CASE Contains(NonNil(slots), d)
  <2>1. PICK e \in alive : NonNil(slots)[e] > 0 /\ Hash[e] = Hash[d]
    BY <1>3 DEF Contains
  <2>2. slots[d] = 1
    BY <1>1, <2>1 DEF NonNil, RegistryInv, TypeOK, RegisteredOnce, DistinctHashes
  <2> QED
    BY <1>0, <1>1, <1>3, <2>2 DEF Appended, NonNil
<1>4. CASE ~Contains(NonNil(slots), d)
  <2>1. NonNil(slots)[d] = 0
    BY <1>1, <1>2, <1>4 DEF Contains
  <2>2. slots' = [NonNil(slots) EXCEPT ![d] = 1]
    BY <1>1, <1>4, <2>1 DEF Appended
  <2> QED
    BY <1>0, <1>1, <2>2 DEF NonNil
<1> QED
  BY <1>3, <1>4

(* remove(d) leaves the live delegates but d, and is about to close CrashEye   *)
(* when that is nobody.                                                      *)
LEMMA RemoveEffect ==
  ASSUME NEW d \in Delegates, RegistryInv, Remove(d)
  PROVE  /\ slots' = [e \in Delegates |->
                        IF e # d /\ e \in alive THEN slots[e] ELSE 0]
         /\ Watching' = (Watching /\ \E e \in Delegates : slots'[e] > 0)
         /\ call' # "open" /\ (call' = "close" => isOpen')
<1>1. slots' = [e \in Delegates |-> IF e # d /\ e \in alive THEN slots[e] ELSE 0]
  BY DEF Remove, Without, NonNil, RegistryInv, TypeOK, DistinctHashes
<1>2. IsEmpty(slots') <=> ~ \E e \in Delegates : slots'[e] > 0
  BY <1>1 DEF IsEmpty, RegistryInv, TypeOK
<1> QED
  BY <1>1, <1>2 DEF Remove, Closing, Watching, RegistryInv, TypeOK

LEMMA RegistryInit == Init => RegistryInv
BY InitTypes DEF Init, RegistryInv, RegisteredOnce, WatchFits, Watching,
   DistinctHashes, RegisteredBorn, Registered, NoSlots

LEMMA RegistryStep ==
  ASSUME RegistryInv, [Next]_vars
  PROVE  RegistryInv'
<1>1. TypeOK'
  BY StepTypes DEF RegistryInv
<1>2. CASE /\ UNCHANGED <<born, alive, slots>> /\ Watching' = Watching
           /\ (call' = "open" => ~isOpen') /\ (call' = "close" => isOpen')
  BY <1>1, <1>2 DEF RegistryInv, RegisteredOnce, WatchFits,
                    DistinctHashes, RegisteredBorn, Registered
<1>0. /\ \A e \in Delegates : slots[e] \in Nat /\ slots[e] <= 1 /\ (slots[e] > 0 => e \in born)
      /\ alive \subseteq born
  BY DEF RegistryInv, TypeOK, RegisteredOnce, RegisteredBorn, Registered
<1>3. ASSUME NEW d \in Delegates, Add(d) PROVE RegistryInv'
  <2>1. d \in alive /\ alive' = alive /\ born' = born
    BY <1>3 DEF Add
  <2>2. \A e \in Delegates :
          slots'[e] = IF e = d THEN 1 ELSE IF e \in alive THEN slots[e] ELSE 0
    BY <1>3, AddEffect
  <2>3. RegisteredOnce'
    BY <1>0, <2>2 DEF RegisteredOnce
  <2>4. WatchFits'
    <3>1. Watching' = TRUE /\ (call' = "open" => ~isOpen') /\ call' # "close"
      BY <1>3, AddEffect
    <3>2. slots'[d] > 0
      BY <2>2
    <3> QED
      BY <3>1, <3>2 DEF WatchFits, Registered
  <2>5. RegisteredBorn'
    BY <1>0, <2>1, <2>2 DEF RegisteredBorn, Registered
  <2> QED
    BY <1>1, <2>1, <2>3, <2>4, <2>5 DEF RegistryInv, DistinctHashes
<1>4. ASSUME NEW d \in Delegates, Remove(d) PROVE RegistryInv'
  <2>1. alive' = alive /\ born' = born
    BY <1>4 DEF Remove
  <2>2. \A e \in Delegates :
          slots'[e] = IF e # d /\ e \in alive THEN slots[e] ELSE 0
    BY <1>4, RemoveEffect
  <2>3. /\ Watching' = (Watching /\ \E e \in Delegates : slots'[e] > 0)
        /\ call' # "open" /\ (call' = "close" => isOpen')
    BY <1>4, RemoveEffect
  <2>4. RegisteredOnce'
    BY <1>0, <2>2 DEF RegisteredOnce
  <2>5. WatchFits'
    <3>1. (\E e \in Delegates : slots'[e] > 0) => Watching
      BY <2>2 DEF RegistryInv, WatchFits, Registered
    <3> QED
      BY <2>3, <3>1 DEF WatchFits, Registered
  <2>6. RegisteredBorn'
    BY <1>0, <2>1, <2>2 DEF RegisteredBorn, Registered
  <2> QED
    BY <1>1, <2>1, <2>4, <2>5, <2>6 DEF RegistryInv, DistinctHashes
<1>5. ASSUME NEW d \in Delegates, Alloc(d) \/ Dealloc(d) PROVE RegistryInv'
  <2>1. /\ slots' = slots /\ isOpen' = isOpen /\ call' = call
        /\ born \subseteq born'
    BY <1>5 DEF Alloc, Dealloc, handlers
  <2>2. DistinctHashes'
    BY <1>5 DEF Alloc, Dealloc, RegistryInv, DistinctHashes
  <2> QED
    BY <1>1, <2>1, <2>2 DEF RegistryInv, RegisteredOnce, WatchFits, Watching,
       RegisteredBorn, Registered
<1> QED
  BY <1>2, <1>3, <1>4, <1>5, RegistrySteps DEF RegistryInv, TypeOK

(* A delegate is in the list at most once, for any delegates and hashes and   *)
(* whatever address is reused.                                               *)
THEOREM NeverTwice == Spec => []RegisteredOnce
BY RegistryInit, RegistryStep, PTL DEF Spec, RegistryInv

(* CrashEye is open exactly while its list is not empty, but at the beginning *)
(* of open() and close(), for any delegates.                                 *)
THEOREM OpenExactly == Spec => []OpenWhileRegistered
<1>1. RegistryInv => OpenWhileRegistered
  BY DEF RegistryInv, WatchFits, Watching, OpenWhileRegistered
<1> QED
  BY <1>1, RegistryInit, RegistryStep, PTL DEF Spec

(* The list of weak slots, with its nil slots and reused addresses, implements *)
(* the set of members: every step is a step of CrashRegistry or changes no    *)
(* member and no watch.                                                      *)
THEOREM ImplementsRegistry == Spec => RegistrySpec
<1> USE DEF RegistryInv
<1>1. Init => Registry!Init
  BY DEF Init, Registry!Init, Watching
<1>2. RegistryInv /\ [Next]_vars => [Registry!Next]_<<alive, Members, Watching>>
  <2> SUFFICES ASSUME RegistryInv, [Next]_vars
               PROVE  [Registry!Next]_<<alive, Members, Watching>>
    OBVIOUS
  <2> USE DEF Members
  <2>1. CASE UNCHANGED <<born, alive, slots>> /\ Watching' = Watching
    BY <2>1
  <2>2. ASSUME NEW d \in Delegates, Add(d) PROVE Registry!Add(d)
    <3>1. Watching' = TRUE /\ alive' = alive /\ d \in alive
      BY <2>2, AddEffect DEF Add
    <3>2. \A e \in Delegates :
            slots'[e] = IF e = d THEN 1 ELSE IF e \in alive THEN slots[e] ELSE 0
      BY <2>2, AddEffect
    <3>3. Members' = Members \cup {d}
      BY <3>1, <3>2 DEF TypeOK
    <3> QED
      BY <3>1, <3>3 DEF Registry!Add, Watching
  <2>3. ASSUME NEW d \in Delegates, Remove(d) PROVE Registry!Remove(d)
    <3>1. alive' = alive
      BY <2>3 DEF Remove
    <3>2. \A e \in Delegates :
            slots'[e] = IF e # d /\ e \in alive THEN slots[e] ELSE 0
      BY <2>3, RemoveEffect
    <3>3. Members' = Members \ {d}
      BY <3>1, <3>2 DEF TypeOK
    <3>4. Members' # {} <=> \E e \in Delegates : slots'[e] > 0
      BY <3>1, <3>2 DEF TypeOK
    <3>5. Watching' = (Watching /\ Members' # {}) /\ d \in alive
      BY <2>3, <3>4, RemoveEffect DEF Remove
    <3> QED
      BY <3>1, <3>3, <3>5 DEF Registry!Remove, Watching
  <2>4. ASSUME NEW d \in Delegates, Alloc(d) PROVE Registry!Appear(d)
    <3>1. slots[d] = 0 \/ d \notin Delegates
      BY <2>4 DEF Alloc, RegisteredBorn, Registered, TypeOK
    <3> QED
      BY <2>4, <3>1 DEF Alloc, handlers, Registry!Appear, TypeOK, Watching
  <2>5. ASSUME NEW d \in Delegates, Dealloc(d) PROVE Registry!Vanish(d)
    BY <2>5 DEF Dealloc, Registry!Vanish, handlers, Watching
  <2> QED
    BY <2>1, <2>2, <2>3, <2>4, <2>5, RegistrySteps
    DEF Registry!Next, TypeOK
<1> QED
  BY <1>1, <1>2, RegistryInit, RegistryStep, PTL
  DEF Spec, RegistrySpec, Registry!Spec, Members, Watching

-----------------------------------------------------------------------------
(* The chain of exception handlers. While the two reporters take turns, the   *)
(* other one is either below CrashEye, above it or alone, and open() and      *)
(* close() find it there.                                                    *)

CallFits ==
  /\ call = "open" => ~isOpen
  /\ call = "close" => isOpen
  /\ call \in {"save", "install", "signals"} => isOpen
  /\ call = "restore" => ~isOpen

NotInstalled == (call = "idle" /\ ~isOpen) \/ call \in {"open", "save", "install"}
Below ==
  oldHandler = "other" /\ (call \in {"signals", "close", "restore"} \/ (call = "idle" /\ isOpen))

InTurn ==
  /\ oldHandler # "CrashEye"
  /\ oldHandler = "other" => otherPrev # "CrashEye"
  /\ call = "install" => oldHandler = uncaught
  /\ uncaught = "other" => otherPrev # "absent"
  /\ otherPrev # "other"
  /\ NotInstalled => uncaught # "CrashEye" /\ (uncaught = "other" => otherPrev # "CrashEye")
  /\ Below => otherPrev # "absent"
  /\ Below /\ call # "restore" => uncaught # "other"

HandlerInv ==
  /\ CallFits
  /\ NoHandlerRing
  /\ CloseTakesHandlerOut
  /\ ~dead /\ ~crossed => InTurn

(* What the crashes of a step leave of the handlers.                         *)
LEMMA HandlerSteps ==
  ASSUME [Next]_vars
  PROVE  \/ UNCHANGED handlers /\ (dead' = dead \/ dead')
         \/ \E d \in Delegates : Add(d) \/ Remove(d)
         \/ SetOpen \/ SaveHandler \/ InstallHandler \/ SetCrashSignalHandler
         \/ SetClosed \/ RestoreHandler
         \/ OtherInstall \/ OtherUninstall
         \/ \E t \in Threads : KillApp(t)
<1>1. CASE UNCHANGED vars
  BY <1>1 DEF vars, handlers, crash
<1>2. CASE Registration
  BY <1>2 DEF Registration
<1>3. CASE Environment
  BY <1>3 DEF Environment, Alloc, Dealloc, Throw, Fault, Raise, crash, handlers
<1>4. ASSUME NEW t \in Threads, Crashing(t)
      PROVE  (UNCHANGED handlers /\ (dead' = dead \/ dead')) \/ KillApp(t)
  BY <1>4 DEF Crashing, CallOldHandler, OtherHandler, RecieveException, Visit,
              DeliverException, DeliverSignal, ReturnFromException, Abort,
              Refault, Raise, RecieveSignal, ReturnFromLoop, handlers
<1> QED
  BY <1>1, <1>2, <1>3, <1>4 DEF Next, Gone

LEMMA HandlerInit == Init => HandlerInv
BY DEF Init, HandlerInv, CallFits, NoHandlerRing, CloseTakesHandlerOut, InTurn,
   NotInstalled, Below

LEMMA HandlerStep ==
  ASSUME TypeOK, HandlerInv, [Next]_vars
  PROVE  HandlerInv'
<1> USE DEF HandlerInv, CallFits, NoHandlerRing, CloseTakesHandlerOut, InTurn,
            NotInstalled, Below
<1>0. /\ call \in Calls /\ oldHandler \in Handlers /\ uncaught \in Handlers
      /\ otherPrev \in Handlers \cup {"absent"}
      /\ isOpen \in BOOLEAN /\ crossed \in BOOLEAN /\ dead \in BOOLEAN
  BY DEF TypeOK
<1>1. CASE UNCHANGED handlers /\ (dead' = dead \/ dead')
  BY <1>0, <1>1 DEF handlers
<1>2. ASSUME NEW d \in Delegates, Add(d) PROVE HandlerInv'
  BY <1>0, <1>2 DEF Add, Opening, crash
<1>3. ASSUME NEW d \in Delegates, Remove(d) PROVE HandlerInv'
  BY <1>0, <1>3 DEF Remove, Closing, crash
<1>4. CASE SaveHandler
  BY <1>0, <1>4 DEF SaveHandler, crash, Handlers
<1>5. CASE InstallHandler
  BY <1>0, <1>5 DEF InstallHandler, crash, Handlers
<1>6. CASE SetCrashSignalHandler
  BY <1>0, <1>6 DEF SetCrashSignalHandler, crash
<1>7. CASE RestoreHandler
  BY <1>0, <1>7 DEF RestoreHandler, crash
<1>8. CASE OtherInstall
  BY <1>0, <1>8 DEF OtherInstall, crash, Calls, Handlers
<1>9. CASE OtherUninstall
  BY <1>0, <1>9 DEF OtherUninstall, crash, Calls, Handlers
<1>10. ASSUME NEW t \in Threads, KillApp(t) PROVE HandlerInv'
  BY <1>0, <1>10 DEF KillApp
<1>11. CASE SetOpen \/ SetClosed
  BY <1>0, <1>11 DEF SetOpen, SetClosed, crash
<1> QED
  BY <1>1, <1>2, <1>3, <1>4, <1>5, <1>6, <1>7, <1>8, <1>9, <1>10, <1>11, HandlerSteps

(* RecieveException is never led back to itself through the old handler while *)
(* the two reporters are switched on and off in turn.                        *)
THEOREM NeverARing == Spec => []NoHandlerRing
BY InitTypes, StepTypes, HandlerInit, HandlerStep, PTL DEF Spec, HandlerInv

(* After close() the runtime calls somebody else, or nobody.                 *)
THEOREM ClosedIsOut == Spec => []CloseTakesHandlerOut
BY InitTypes, StepTypes, HandlerInit, HandlerStep, PTL DEF Spec, HandlerInv

-----------------------------------------------------------------------------
(* The signals.                                                              *)

(* open() ends by taking every signal, and nothing but killApp changes one.  *)
LEMMA SignalStep ==
  ASSUME TypeOK, HandlerInv, OpenTakesSignals, [Next]_vars
  PROVE  OpenTakesSignals'
<1>0. call \in Calls /\ (call \in {"save", "install", "signals"} => isOpen)
  BY DEF TypeOK, HandlerInv, CallFits
<1>1. CASE UNCHANGED handlers /\ (dead' = dead \/ dead')
  BY <1>1 DEF handlers, OpenTakesSignals
<1>2. ASSUME NEW d \in Delegates, Add(d) PROVE OpenTakesSignals'
  BY <1>2 DEF Add, Opening, crash, OpenTakesSignals
<1>3. ASSUME NEW d \in Delegates, Remove(d) PROVE OpenTakesSignals'
  BY <1>3 DEF Remove, Closing, crash, OpenTakesSignals
<1>4. CASE SaveHandler
  BY <1>4 DEF SaveHandler, OpenTakesSignals
<1>5. CASE InstallHandler
  BY <1>5 DEF InstallHandler, OpenTakesSignals
<1>6. CASE SetCrashSignalHandler
  BY <1>6 DEF SetCrashSignalHandler, OpenTakesSignals
<1>7. CASE RestoreHandler
  <2>1. ~isOpen'
    BY <1>7 DEF RestoreHandler, HandlerInv, CallFits
  <2> QED
    BY <2>1 DEF OpenTakesSignals
<1>8. CASE OtherInstall
  BY <1>8 DEF OtherInstall, crash, OpenTakesSignals
<1>9. CASE OtherUninstall
  BY <1>9 DEF OtherUninstall, crash, OpenTakesSignals
<1>10. ASSUME NEW t \in Threads, KillApp(t) PROVE OpenTakesSignals'
  BY <1>10 DEF KillApp, OpenTakesSignals
<1>11. CASE SetOpen \/ SetClosed
  BY <1>11 DEF SetOpen, SetClosed, OpenTakesSignals
<1> QED
  BY <1>1, <1>2, <1>3, <1>4, <1>5, <1>6, <1>7, <1>8, <1>9, <1>10, <1>11, HandlerSteps

(* Once open() has returned every crash signal comes to CrashEye, until       *)
(* killApp, and whatever another reporter does to the exception handler.     *)
THEOREM SignalsAreTaken == Spec => []OpenTakesSignals
<1>1. Init => OpenTakesSignals
  BY DEF Init, OpenTakesSignals
<1> QED
  BY <1>1, SignalStep, InitTypes, StepTypes, HandlerInit, HandlerStep, PTL DEF Spec

-----------------------------------------------------------------------------
(* What a delegate hears. Each stage of a crash says what its thread can have *)
(* reported so far, and of whom the loop has yet to report.                  *)

BeforeAnyReport == {"run", "excOld", "otherNested", "other", "excGuard", "refault"}
NoSignalYet == {<<>>, <<"exception">>}
InOrder == NoSignalYet \cup {<<"signal">>, <<"exception", "signal">>}

HeardSoFar(t, d) ==
  /\ reports[t][d] \in InOrder
  /\ todo[t][d] <= 1
  /\ frame[t] \in BeforeAnyReport => reports[t][d] = <<>>
  /\ frame[t] = "excDeliver" =>
       reports[t][d] = <<>> \/ (todo[t][d] = 0 /\ reports[t][d] = <<"exception">>)
  /\ frame[t] \in {"abort", "sigGuard"} => reports[t][d] \in NoSignalYet
  /\ frame[t] = "sigGuard" /\ sig[t] # "SIGABRT" => reports[t][d] = <<>>
  /\ frame[t] = "sigDeliver" /\ todo[t][d] > 0 => reports[t][d] \in NoSignalYet

LastIsSignal(t, d) ==
  reports[t][d] # <<>> /\ reports[t][d][Len(reports[t][d])] = "signal"

OwedHeard(t) ==
  /\ owed[t] \subseteq born
  /\ \A d \in owed[t] \cap alive :
       /\ frame[t] = "sigDeliver" => todo[t][d] > 0 \/ LastIsSignal(t, d)
       /\ frame[t] = "kill" => LastIsSignal(t, d)

ReportInv ==
  \A t \in Threads :
    /\ frame[t] = "refault" => sig[t] # "SIGABRT"
    /\ \A d \in Delegates : HeardSoFar(t, d)
    /\ OwedHeard(t)

(* A step of the crash of one thread leaves what the others have reported.   *)
Untouched(t) ==
  /\ frame'[t] = frame[t] /\ sig'[t] = sig[t] /\ todo'[t] = todo[t]
  /\ owed'[t] = owed[t] /\ reports'[t] = reports[t]

(* The steps that concern what thread t reports.                             *)
CrashStep(t) ==
  \/ Throw(t)
  \/ \E s \in Raised \ {"exception"} : Fault(t, s)
  \/ Crashing(t)

LEMMA CrashSteps ==
  ASSUME TypeOK, [Next]_vars, NEW t \in Threads
  PROVE  Untouched(t) \/ CrashStep(t)
<1> USE DEF Untouched, CrashStep
<1>1. CASE UNCHANGED vars
  BY <1>1 DEF vars, crash
<1>2. CASE Registration
  BY <1>2 DEF Registration, Add, Remove, SetOpen, SaveHandler, InstallHandler,
              SetCrashSignalHandler, SetClosed, RestoreHandler, crash
<1>3. CASE Environment
  <2>1. CASE (\E d \in Delegates : Alloc(d) \/ Dealloc(d)) \/ OtherInstall \/ OtherUninstall
    BY <2>1 DEF Alloc, Dealloc, OtherInstall, OtherUninstall, crash
  <2>2. ASSUME NEW u \in Threads, u # t, Throw(u) PROVE Untouched(t)
    BY <2>2 DEF Throw, TypeOK
  <2>3. ASSUME NEW u \in Threads, NEW s \in Raised \ {"exception"}, u # t, Fault(u, s)
        PROVE  Untouched(t)
    BY <2>3 DEF Fault, Raise, TypeOK
  <2> QED
    BY <1>3, <2>1, <2>2, <2>3 DEF Environment
<1>4. ASSUME NEW u \in Threads, u # t, Crashing(u) PROVE Untouched(t)
  <2>1. ASSUME NEW d \in Delegates, NEW kind \in Kinds, Visit(u, d, kind) PROVE Untouched(t)
    BY <1>4, <2>1 DEF Visit, TypeOK
  <2>2. ASSUME NEW s \in Signals \cup {"none"}, Raise(u, s) PROVE Untouched(t)
    BY <1>4, <2>2 DEF Raise, TypeOK
  <2>3. CASE Abort(u) \/ Refault(u)
    BY <2>2, <2>3 DEF Abort, Refault, TypeOK, Signals
  <2>4. CASE \E d \in Delegates : DeliverException(u, d) \/ DeliverSignal(u, d)
    BY <2>1, <2>4 DEF DeliverException, DeliverSignal, Kinds
  <2>5. CASE CallOldHandler(u) \/ OtherHandler(u) \/ RecieveException(u)
    BY <1>4, <2>5 DEF CallOldHandler, OtherHandler, RecieveException, TypeOK
  <2>6. CASE ReturnFromException(u) \/ RecieveSignal(u) \/ ReturnFromLoop(u) \/ KillApp(u)
    BY <1>4, <2>6 DEF ReturnFromException, RecieveSignal, ReturnFromLoop, KillApp, TypeOK
  <2> QED
    BY <1>4, <2>3, <2>4, <2>5, <2>6 DEF Crashing
<1> QED
  BY <1>1, <1>2, <1>3, <1>4 DEF Next, Gone

(* Appending to sequences of no and of one element.                          *)
LEMMA AppendToNone == ASSUME NEW k PROVE Append(<<>>, k) = <<k>>
<1>1. <<>> \in Seq({k}) /\ <<k>> \in Seq({k}) /\ Append(<<>>, k) \in Seq({k})
  OBVIOUS
<1>2. Len(Append(<<>>, k)) = 1 /\ Append(<<>>, k)[1] = k /\ Len(<<k>>) = 1 /\ <<k>>[1] = k
  BY <1>1
<1> QED
  BY <1>1, <1>2, SeqEqual

LEMMA AppendToOne == ASSUME NEW j, NEW k PROVE Append(<<j>>, k) = <<j, k>>
<1>1. <<j>> \in Seq({j, k}) /\ <<j, k>> \in Seq({j, k}) /\ Append(<<j>>, k) \in Seq({j, k})
  OBVIOUS
<1>2. Len(Append(<<j>>, k)) = 2 /\ Append(<<j>>, k)[1] = j /\ Append(<<j>>, k)[2] = k
  BY <1>1
<1>3. Len(<<j, k>>) = 2 /\ <<j, k>>[1] = j /\ <<j, k>>[2] = k
  BY <1>1
<1>4. 1 .. 2 = {1, 2}
  OBVIOUS
<1>5. \A i \in 1 .. 2 : Append(<<j>>, k)[i] = <<j, k>>[i]
  BY <1>2, <1>3, <1>4, Zenon
<1> QED
  BY <1>1, <1>2, <1>3, <1>5, SeqEqual, Zenon

(* What the signal appended to what a delegate has heard gives.              *)
LEMMA Hearing ==
  ASSUME NEW s \in NoSignalYet
  PROVE  /\ Append(s, "signal") \in InOrder
         /\ Append(s, "signal") # <<>>
         /\ Append(s, "signal")[Len(Append(s, "signal"))] = "signal"
<1>1. s = <<>> \/ s = <<"exception">>
  BY Zenon DEF NoSignalYet
<1>2. s \in Seq(Kinds)
  <2>1. <<>> \in Seq(Kinds) /\ <<"exception">> \in Seq(Kinds)
    BY DEF Kinds
  <2> QED
    BY <1>1, <2>1, Zenon
<1>3. Append(s, "signal") # <<>> /\ Append(s, "signal")[Len(Append(s, "signal"))] = "signal"
  BY <1>2 DEF Kinds
<1>4. Append(s, "signal") = <<"signal">> \/ Append(s, "signal") = <<"exception", "signal">>
  BY <1>1, AppendToNone, AppendToOne, Zenon
<1>5. Append(s, "signal") \in InOrder
  <2>1. <<"signal">> \in InOrder /\ <<"exception", "signal">> \in InOrder
    BY DEF InOrder
  <2> QED
    BY <1>4, <2>1, Zenon
<1> QED
  BY <1>3, <1>5

(* What a thread has reported fits where it is, and whom it still owes a      *)
(* report its loop has still to visit: step by step.                         *)
LEMMA ReportStep ==
  ASSUME RegistryInv, ReportInv, [Next]_vars
  PROVE  ReportInv'
<1>t. TypeOK /\ TypeOK'
  BY StepTypes DEF RegistryInv
<1>b. born \subseteq born' /\ alive' \cap born \subseteq alive
  BY RegistrySteps DEF RegistryInv, TypeOK, Add, Remove, Alloc, Dealloc
<1> SUFFICES ASSUME NEW t \in Threads
             PROVE  /\ frame'[t] = "refault" => sig'[t] # "SIGABRT"
                    /\ \A d \in Delegates : HeardSoFar(t, d)'
                    /\ OwedHeard(t)'
  BY DEF ReportInv
<1>i. /\ frame[t] = "refault" => sig[t] # "SIGABRT"
      /\ \A d \in Delegates : HeardSoFar(t, d)
      /\ OwedHeard(t)
  BY DEF ReportInv
<1>o. owed'[t] = owed[t] => owed'[t] \subseteq born' /\ owed'[t] \cap alive' \subseteq owed[t] \cap alive
  BY <1>b, <1>i DEF OwedHeard
<1>1. CASE Untouched(t)
  BY <1>i, <1>o, <1>1 DEF Untouched, HeardSoFar, OwedHeard, LastIsSignal
<1>2. ASSUME UNCHANGED <<sig, todo, owed, reports>>,
             \/ frame[t] \in BeforeAnyReport \ {"refault"} /\ frame'[t] \in (BeforeAnyReport \ {"refault"}) \cup {"abort"}
             \/ frame[t] = "excDeliver" /\ frame'[t] = "abort"
             \/ frame[t] = "sigDeliver" /\ frame'[t] = "kill" /\ IsEmpty(todo[t])
             \/ frame'[t] = frame[t]
      PROVE  /\ frame'[t] = "refault" => sig'[t] # "SIGABRT"
             /\ \A d \in Delegates : HeardSoFar(t, d)'
             /\ OwedHeard(t)'
  <2>1. \A d \in Delegates : HeardSoFar(t, d)'
    BY <1>i, <1>2 DEF HeardSoFar, BeforeAnyReport, NoSignalYet
  <2>2. OwedHeard(t)'
    <3>1. owed'[t] \cap alive' \subseteq Delegates
      BY <1>t DEF TypeOK
    <3> QED
      BY <1>i, <1>o, <1>2, <3>1 DEF OwedHeard, LastIsSignal, IsEmpty, BeforeAnyReport
  <2> QED
    BY <1>i, <1>2, <2>1, <2>2 DEF BeforeAnyReport
<1>3. CASE Throw(t)
  <2>1. frame'[t] \in {"abort", "excOld", "other"}
    BY <1>t, <1>3 DEF Throw, TypeOK, Handlers
  <2> QED
    BY <1>2, <1>3, <2>1 DEF Throw, BeforeAnyReport
<1>4. CASE CallOldHandler(t)
  <2>1. frame'[t] \in {"excGuard", "excOld", "otherNested"}
    BY <1>t, <1>4 DEF CallOldHandler, TypeOK, Handlers
  <2> QED
    BY <1>2, <1>4, <2>1 DEF CallOldHandler, BeforeAnyReport
<1>5. CASE OtherHandler(t)
  <2>1. frame'[t] \in {"excGuard", "excOld", "otherNested", "other", "abort"}
    BY <1>t, <1>5 DEF OtherHandler, Chained, TypeOK
  <2> QED
    BY <1>2, <1>5, <2>1 DEF OtherHandler, BeforeAnyReport
<1>6. CASE RecieveException(t)
  <2>1. CASE ~isOpen
    <3>1. frame'[t] = "abort" /\ frame[t] = "excGuard"
      BY <1>t, <1>6, <2>1 DEF RecieveException, TypeOK
    <3> QED
      BY <1>2, <1>6, <2>1, <3>1 DEF RecieveException, BeforeAnyReport
  <2>2. CASE isOpen
    <3>1. /\ frame[t] = "excGuard" /\ frame'[t] = "excDeliver"
          /\ todo'[t] = slots /\ UNCHANGED <<sig, owed, reports>>
      BY <1>t, <1>6, <2>2 DEF RecieveException, TypeOK
    <3>2. \A d \in Delegates : slots[d] <= 1
      BY DEF RegistryInv, RegisteredOnce
    <3>3. \A d \in Delegates : HeardSoFar(t, d)'
      BY <1>i, <3>1, <3>2 DEF HeardSoFar, BeforeAnyReport
    <3> QED
      BY <1>o, <3>1, <3>3 DEF OwedHeard
  <2> QED
    BY <2>1, <2>2
<1>7. CASE ReturnFromException(t)
  BY <1>t, <1>2, <1>7 DEF ReturnFromException, TypeOK
<1>8. CASE ReturnFromLoop(t)
  BY <1>t, <1>2, <1>8 DEF ReturnFromLoop, TypeOK
<1>9. CASE KillApp(t)
  BY <1>t, <1>2, <1>9 DEF KillApp, TypeOK
<1>10. ASSUME NEW s \in Signals, Raise(t, s),
              \/ frame[t] \in {"run", "refault"}
              \/ frame[t] = "abort" /\ s = "SIGABRT",
              frame[t] = "refault" => s = sig[t]
       PROVE  /\ frame'[t] = "refault" => sig'[t] # "SIGABRT"
              /\ \A d \in Delegates : HeardSoFar(t, d)'
              /\ OwedHeard(t)'
  <2>1. /\ frame'[t] \in {frame[t], "sigGuard"} /\ sig'[t] = s
        /\ UNCHANGED <<todo, owed, reports>>
    BY <1>t, <1>10 DEF Raise, TypeOK
  <2>2. \A d \in Delegates : HeardSoFar(t, d)'
    BY <1>i, <1>10, <2>1 DEF HeardSoFar, BeforeAnyReport, NoSignalYet
  <2>3. OwedHeard(t)'
    BY <1>o, <1>10, <2>1 DEF OwedHeard
  <2> QED
    BY <1>i, <1>10, <2>1, <2>2, <2>3
<1>11. ASSUME NEW s \in Raised \ {"exception"}, Fault(t, s)
       PROVE  /\ frame'[t] = "refault" => sig'[t] # "SIGABRT"
              /\ \A d \in Delegates : HeardSoFar(t, d)'
              /\ OwedHeard(t)'
  <2>1. s \in Signals /\ Raise(t, s) /\ frame[t] = "run"
    BY <1>11, RaisedAssumption DEF Fault
  <2> QED
    BY <1>10, <2>1
<1>12. CASE Abort(t)
  <2>1. Raise(t, "SIGABRT") /\ frame[t] = "abort" /\ "SIGABRT" \in Signals
    BY <1>12 DEF Abort, Signals
  <2> QED
    BY <1>10, <2>1
<1>13. CASE Refault(t)
  <2>1. Raise(t, sig[t]) /\ frame[t] = "refault"
    BY <1>13 DEF Refault
  <2>2. CASE sig[t] \in Signals
    BY <1>10, <2>1, <2>2
  <2>3. CASE sig[t] = "none"
    <3>1. /\ frame'[t] \in {"refault", "sigGuard"} /\ sig'[t] = "none"
          /\ UNCHANGED <<todo, owed, reports>>
      BY <1>t, <2>1, <2>3 DEF Raise, TypeOK
    <3>2. \A d \in Delegates : HeardSoFar(t, d)'
      BY <1>i, <2>1, <3>1 DEF HeardSoFar, BeforeAnyReport, NoSignalYet
    <3>3. OwedHeard(t)'
      BY <1>o, <2>1, <3>1 DEF OwedHeard
    <3> QED
      BY <3>1, <3>2, <3>3
  <2> QED
    BY <1>t, <2>2, <2>3 DEF TypeOK
<1>14. CASE RecieveSignal(t)
  <2>0. frame[t] = "sigGuard"
    BY <1>14 DEF RecieveSignal
  <2>1. CASE isOpen
    <3>1. /\ frame'[t] = "sigDeliver" /\ todo'[t] = slots
          /\ owed'[t] = {d \in alive : slots[d] > 0}
          /\ reports' = reports /\ alive' = alive /\ born' = born
      BY <1>t, <1>14, <2>1 DEF RecieveSignal, TypeOK, registry
    <3>2. \A d \in Delegates : slots[d] <= 1
      BY DEF RegistryInv, RegisteredOnce
    <3>3. \A d \in Delegates : HeardSoFar(t, d)'
      BY <1>i, <2>0, <3>1, <3>2 DEF HeardSoFar, BeforeAnyReport
    <3> QED
      BY <1>t, <3>1, <3>3 DEF OwedHeard, TypeOK
  <2>2. CASE ~isOpen /\ sig[t] = "SIGABRT"
    BY <1>2, <1>14, <2>2 DEF RecieveSignal
  <2>3. CASE ~isOpen /\ sig[t] # "SIGABRT"
    <3>1. frame'[t] \in {"run", "refault"} /\ UNCHANGED <<sig, todo, owed, reports>>
      BY <1>t, <1>14, <2>3 DEF RecieveSignal, TypeOK
    <3>2. \A d \in Delegates : HeardSoFar(t, d)'
      BY <1>i, <2>0, <2>3, <3>1 DEF HeardSoFar, BeforeAnyReport
    <3>3. OwedHeard(t)'
      BY <1>o, <3>1 DEF OwedHeard
    <3> QED
      BY <2>3, <3>1, <3>2, <3>3
  <2> QED
    BY <2>1, <2>2, <2>3
<1>15. ASSUME NEW d \in Delegates, DeliverException(t, d)
       PROVE  /\ frame'[t] = "refault" => sig'[t] # "SIGABRT"
              /\ \A e \in Delegates : HeardSoFar(t, e)'
              /\ OwedHeard(t)'
  <2>1. /\ frame[t] = "excDeliver" /\ frame'[t] = "excDeliver" /\ UNCHANGED <<sig, owed>>
        /\ todo[t][d] > 0 /\ todo'[t][d] = todo[t][d] - 1
        /\ \A e \in Delegates \ {d} : todo'[t][e] = todo[t][e] /\ reports'[t][e] = reports[t][e]
        /\ reports'[t][d] \in {reports[t][d], Append(reports[t][d], "exception")}
    BY <1>t, <1>15 DEF DeliverException, Visit, TypeOK
  <2>2. todo[t][d] \in Nat /\ todo[t][d] <= 1 /\ reports[t][d] = <<>>
    BY <1>i, <1>t, <2>1 DEF HeardSoFar, TypeOK
  <2>3. todo'[t][d] = 0 /\ (reports'[t][d] = <<>> \/ reports'[t][d] = <<"exception">>)
    <3>1. todo'[t][d] = 0
      BY <2>1, <2>2
    <3>2. reports'[t][d] = reports[t][d] \/ reports'[t][d] = Append(reports[t][d], "exception")
      BY <2>1
    <3>3. reports'[t][d] = <<>> \/ reports'[t][d] = <<"exception">>
      BY <2>2, <3>2, AppendToNone, Zenon
    <3> QED
      BY <3>1, <3>3
  <2>4. HeardSoFar(t, d)'
    <3>1. reports'[t][d] \in InOrder
      <4>1. reports'[t][d] \in NoSignalYet
        BY <2>3, Zenon DEF NoSignalYet
      <4> QED
        BY <4>1 DEF InOrder
    <3>2. frame'[t] = "excDeliver"
      BY <2>1
    <3>3. todo'[t][d] = 0 /\ todo'[t][d] <= 1
      BY <2>3
    <3> QED
      BY <2>3, <3>1, <3>2, <3>3, Zenon DEF HeardSoFar, BeforeAnyReport
  <2>5. \A e \in Delegates \ {d} : HeardSoFar(t, e)'
    BY <1>i, <2>1 DEF HeardSoFar
  <2> QED
    BY <1>o, <2>1, <2>4, <2>5 DEF OwedHeard
<1>16. ASSUME NEW d \in Delegates, DeliverSignal(t, d)
       PROVE  /\ frame'[t] = "refault" => sig'[t] # "SIGABRT"
              /\ \A e \in Delegates : HeardSoFar(t, e)'
              /\ OwedHeard(t)'
  <2>1. /\ frame[t] = "sigDeliver" /\ frame'[t] = "sigDeliver" /\ UNCHANGED <<sig, owed, alive>>
        /\ todo[t][d] > 0 /\ todo'[t][d] = todo[t][d] - 1
        /\ \A e \in Delegates \ {d} : todo'[t][e] = todo[t][e] /\ reports'[t][e] = reports[t][e]
        /\ reports'[t][d] = IF d \in alive THEN Append(reports[t][d], "signal") ELSE reports[t][d]
    BY <1>t, <1>16 DEF DeliverSignal, Visit, TypeOK, registry
  <2>2. todo[t][d] \in Nat /\ todo[t][d] <= 1 /\ reports[t][d] \in NoSignalYet
    BY <1>i, <1>t, <2>1 DEF HeardSoFar, TypeOK
  <2>3. todo'[t][d] = 0
    BY <2>1, <2>2
  <2>4. reports'[t][d] \in InOrder /\ (d \in alive => LastIsSignal(t, d)')
    BY <2>1, <2>2, Hearing DEF InOrder, LastIsSignal
  <2>5. HeardSoFar(t, d)'
    BY <2>1, <2>3, <2>4 DEF HeardSoFar, BeforeAnyReport
  <2>6. \A e \in Delegates \ {d} : HeardSoFar(t, e)'
    BY <1>i, <2>1 DEF HeardSoFar
  <2>7. OwedHeard(t)'
    <3>1. owed'[t] \cap alive' \subseteq owed[t] \cap alive /\ owed[t] \subseteq Delegates /\ owed'[t] \subseteq born'
      BY <1>o, <1>t, <2>1 DEF TypeOK
    <3>2. \A e \in owed'[t] \cap alive' : todo'[t][e] > 0 \/ LastIsSignal(t, e)'
      BY <1>i, <2>1, <2>4, <3>1 DEF OwedHeard, LastIsSignal
    <3> QED
      BY <2>1, <3>1, <3>2 DEF OwedHeard
  <2> QED
    BY <2>1, <2>5, <2>6, <2>7
<1> QED
  BY <1>1, <1>3, <1>4, <1>5, <1>6, <1>7, <1>8, <1>9, <1>11, <1>12, <1>13, <1>14,
     <1>15, <1>16, <1>t, CrashSteps DEF CrashStep, Crashing

LEMMA ReportInit == Init => ReportInv
BY DEF Init, ReportInv, HeardSoFar, OwedHeard, NoSlots, BeforeAnyReport, InOrder,
   NoSignalYet

(* killApp is reached only when every delegate that was registered when the   *)
(* signal loop began has the report or is gone, for any number of threads     *)
(* that crash and while the list changes.                                    *)
THEOREM KillsAfterReports == Spec => []KillAfterReports
<1>1. ReportInv => KillAfterReports
  BY DEF ReportInv, OwedHeard, LastIsSignal, KillAfterReports
<1> QED
  BY <1>1, RegistryInit, RegistryStep, ReportInit, ReportStep, PTL DEF Spec

(* A delegate hears of a crash at most the exception and then the signal,     *)
(* for any number of delegates and threads.                                  *)
THEOREM HeardInOrder == Spec => []ReportOrder
<1>1. ReportInv => ReportOrder
  BY DEF ReportInv, HeardSoFar, InOrder, NoSignalYet, ReportOrder
<1> QED
  BY <1>1, RegistryInit, RegistryStep, ReportInit, ReportStep, PTL DEF Spec

-----------------------------------------------------------------------------
(* The crash log; inCrash is its crash, how far each thread is in its own.    *)

CONSTANTS Nobody, MaxLaunches, Failures
VARIABLES launch, hooked, inCrash, closer, page, dataArray

L == INSTANCE CrashLog WITH crash <- inCrash

USE DEF L!Can, L!MainFree, L!Unlocked, L!Outcomes, L!Become

(* A row tells which thread of which launch crashed, and how.                *)
RowKinds == {"exception", "signal"}
Row == [launch : Nat, thread : Threads, kind : RowKinds]
LogStages == {"run", "refault", "exception", "abort", "signal", "kill"}

LogTypes ==
  /\ table \in BOOLEAN /\ rows \in Seq(Row)
  /\ launch \in Nat /\ running \in BOOLEAN
  /\ watching \in BOOLEAN /\ discarded \in BOOLEAN
  /\ inCrash \in [Threads -> LogStages]
  /\ closer \in Threads \cup {Nobody}
  /\ dataArray \in Seq(Row) /\ recordData \in Seq(Row)

(* What the rows already tell of a thread of this launch.                    *)
ToldOf(t, kinds) ==
  \A i \in 1 .. Len(rows) :
    rows[i].launch = launch /\ rows[i].thread = t => rows[i].kind \in kinds

(* No row is of a launch to come, and of a thread that has yet to insert one  *)
(* there is none; the signal comes last.                                     *)
ToldSoFar ==
  /\ \A i \in 1 .. Len(rows) : rows[i].launch <= launch
  /\ \A t \in Threads :
       /\ inCrash[t] \in {"run", "refault", "exception"} => ToldOf(t, {})
       /\ inCrash[t] \in {"abort", "signal"} => ToldOf(t, {"exception"})

OldestFirst(s) == \A i, j \in 1 .. Len(s) : i < j => Later(s[j], s[i])

LogInv ==
  LogTypes /\ ToldSoFar /\ RowsInOrder /\ OldestFirst(dataArray) /\ NewestFirst

-----------------------------------------------------------------------------
(* Watching needs the table.                                                 *)

LEMMA WatchStep == WatchedIsWritable /\ [L!Next]_L!vars => WatchedIsWritable'
<1> SUFFICES ASSUME WatchedIsWritable, [L!Next]_L!vars PROVE WatchedIsWritable'
  OBVIOUS
<1> USE DEF WatchedIsWritable
<1>1. CASE UNCHANGED L!vars
  BY <1>1 DEF L!vars, L!disk, L!process, L!recorder
<1>2. CASE L!Launch \/ L!Terminate
  BY <1>2 DEF L!Launch, L!Terminate
<1>3. CASE L!CreateTable
  BY <1>3 DEF L!CreateTable, L!process
<1>4. CASE L!CloseCrashEye
  BY <1>4 DEF L!CloseCrashEye
<1>5. CASE L!DropTable
  BY <1>5 DEF L!DropTable, L!process
<1>6. CASE L!MakePage \/ L!ViewWillAppear \/ L!ViewDisappears \/ L!DropPage
         \/ L!CleanRecord
  BY <1>6 DEF L!MakePage, L!ViewWillAppear, L!ViewDisappears, L!DropPage,
     L!CleanRecord, L!disk, L!process, L!recorder
<1>7. CASE L!DeleteRows
  BY <1>7 DEF L!DeleteRows, L!process, L!recorder
<1>8. ASSUME NEW t \in Threads, L!CloseDatabase(t) \/ L!RemoveFiles(t)
      PROVE  WatchedIsWritable'
  BY <1>8 DEF L!CloseDatabase, L!RemoveFiles, L!disk, L!process
<1>9. ASSUME NEW t \in Threads, L!Throw(t) \/ L!Fault(t) \/ L!Refault(t) \/ L!Abort(t) \/ L!KillApp(t)
      PROVE  WatchedIsWritable'
  BY <1>9 DEF L!Throw, L!Fault, L!Refault, L!Abort, L!KillApp, L!Die, L!disk
<1>10. ASSUME NEW t \in Threads, NEW kind \in RowKinds, L!Insert(t, kind)
       PROVE  WatchedIsWritable'
  BY <1>10 DEF L!Insert
<1> QED
  BY <1>1, <1>2, <1>3, <1>4, <1>5, <1>6, <1>7, <1>8, <1>9, <1>10 DEF L!Next,
     L!Crashing, RowKinds

(* EyesManager is told of crashes only while there is a table to write them   *)
(* to, unless the application has dropped it: for any threads and launches.  *)
THEOREM WatchesWithATable == L!Spec => []WatchedIsWritable
<1>1. L!Init => WatchedIsWritable
  BY DEF L!Init, WatchedIsWritable
<1> QED
  BY <1>1, WatchStep, PTL DEF L!Spec

-----------------------------------------------------------------------------
(* The rows and the page.                                                    *)

(* Sequences of rows: reading them backwards, and adding one.                *)
LEMMA ReversedRows ==
  ASSUME NEW s \in Seq(Row), OldestFirst(s)
  PROVE  /\ L!Reverse(s) \in Seq(Row)
         /\ \A i, j \in 1 .. Len(L!Reverse(s)) :
              i < j => Later(L!Reverse(s)[i], L!Reverse(s)[j])
<1>1. PICK n \in Nat : n = Len(s)
  OBVIOUS
<1>2. \A i \in 1 .. n : s[i] \in Row /\ n - i + 1 \in 1 .. n
  BY <1>1
<1>3. L!Reverse(s) = [i \in 1 .. n |-> s[n - i + 1]]
  BY <1>1 DEF L!Reverse
<1>4. L!Reverse(s) \in [1 .. n -> Row]
  BY <1>2, <1>3
<1>5. L!Reverse(s) \in Seq(Row) /\ Len(L!Reverse(s)) = n
  BY <1>4
<1>6. ASSUME NEW i \in 1 .. n, NEW j \in 1 .. n, i < j
      PROVE  Later(L!Reverse(s)[i], L!Reverse(s)[j])
  <2>1. PICK k \in 1 .. n, l \in 1 .. n : k = n - i + 1 /\ l = n - j + 1
    BY <1>2
  <2>2. l < k
    BY <1>6, <2>1
  <2>3. L!Reverse(s)[i] = s[k] /\ L!Reverse(s)[j] = s[l]
    BY <1>3, <2>1
  <2>4. Later(s[k], s[l])
    BY <1>1, <2>2 DEF OldestFirst
  <2> QED
    BY <2>3, <2>4
<1> QED
  BY <1>5, <1>6

LEMMA RowAdded ==
  ASSUME NEW s \in Seq(Row), NEW r \in Row, OldestFirst(s),
         \A i \in 1 .. Len(s) : Later(r, s[i])
  PROVE  /\ OldestFirst(Append(s, r)) /\ Append(s, r) \in Seq(Row)
         /\ \A i \in 1 .. Len(Append(s, r)) :
              Append(s, r)[i] = r \/ \E j \in 1 .. Len(s) : Append(s, r)[i] = s[j]
<1>1. PICK n \in Nat : n = Len(s)
  OBVIOUS
<1>2. Append(s, r) \in Seq(Row) /\ Len(Append(s, r)) = n + 1
  BY <1>1
<1>3. \A i \in 1 .. n : Append(s, r)[i] = s[i]
  BY <1>1
<1>4. Append(s, r)[n + 1] = r
  BY <1>1
<1>5. ASSUME NEW i \in 1 .. n + 1, NEW j \in 1 .. n + 1, i < j
      PROVE  Later(Append(s, r)[j], Append(s, r)[i])
  <2>1. i \in 1 .. n /\ (j \in 1 .. n \/ j = n + 1)
    BY <1>5
  <2> QED
    BY <1>1, <1>3, <1>4, <1>5, <2>1 DEF OldestFirst
<1>6. \A i \in 1 .. n + 1 : i = n + 1 \/ i \in 1 .. n
  OBVIOUS
<1>7. \A i \in 1 .. n + 1 : Append(s, r)[i] = r \/ \E j \in 1 .. n : Append(s, r)[i] = s[j]
  BY <1>3, <1>4, <1>6
<1>8. OldestFirst(Append(s, r))
  BY <1>2, <1>5 DEF OldestFirst
<1> QED
  BY <1>1, <1>2, <1>7, <1>8

LEMMA NoRows == OldestFirst(<<>>) /\ <<>> \in Seq(Row)
BY DEF OldestFirst

LEMMA LogInit == L!Init => LogInv
<1> SUFFICES ASSUME L!Init PROVE LogInv
  OBVIOUS
<1>1. rows \in Seq(Row) /\ dataArray \in Seq(Row) /\ recordData \in Seq(Row)
  BY NoRows, Zenon DEF L!Init
<1>2. inCrash \in [Threads -> LogStages]
  BY DEF L!Init, LogStages
<1>3. LogTypes
  BY <1>1, <1>2 DEF L!Init, LogTypes
<1>4. Len(rows) = 0 /\ Len(recordData) = 0 /\ Len(dataArray) = 0
  BY DEF L!Init
<1> QED
  BY <1>3, <1>4 DEF LogInv, ToldSoFar, ToldOf, RowsInOrder, OldestFirst, NewestFirst

(* A step that only empties the log, or leaves it, and leaves the page or     *)
(* drops what it listed.                                                     *)
LEMMA RowsKept ==
  ASSUME LogInv, LogTypes', UNCHANGED launch,
         rows' \in {rows, <<>>}, dataArray' \in {dataArray, <<>>},
         recordData' \in {recordData, <<>>},
         \A t \in Threads :
           /\ inCrash'[t] \in {"run", "refault", "exception"} =>
                inCrash[t] \in {"run", "refault", "exception"}
           /\ inCrash'[t] \in {"abort", "signal"} =>
                inCrash[t] \in {"run", "refault", "exception", "abort", "signal"}
  PROVE  LogInv'
<1>1. CASE rows' = rows
  <2>1. ToldSoFar' /\ RowsInOrder'
    BY <1>1 DEF LogInv, ToldSoFar, ToldOf, RowsInOrder
  <2> QED
    BY <2>1, NoRows DEF LogInv, NewestFirst, OldestFirst
<1>2. CASE rows' = <<>>
  <2>1. ToldSoFar' /\ RowsInOrder'
    BY <1>2 DEF ToldSoFar, ToldOf, RowsInOrder
  <2> QED
    BY <2>1, NoRows DEF LogInv, NewestFirst, OldestFirst
<1> QED
  BY <1>1, <1>2

(* The steps that leave the log, or empty it, and the page alone but for what *)
(* it lists.                                                                 *)
Quiet ==
  \/ L!Terminate \/ L!CreateTable \/ L!CloseCrashEye \/ L!DropTable
  \/ L!ViewDisappears \/ L!DropPage \/ L!CleanRecord \/ L!DeleteRows
  \/ \E t \in Threads : L!CloseDatabase(t) \/ L!RemoveFiles(t)

LEMMA LogTypesStep ==
  ASSUME LogTypes, [L!Next]_L!vars
  PROVE  LogTypes'
<1> USE DEF LogTypes
<1>0. <<>> \in Seq(Row) /\ Nobody \in Threads \cup {Nobody}
  BY NoRows
<1>1. CASE UNCHANGED L!vars
  BY <1>1 DEF L!vars, L!disk, L!process, L!recorder, L!console
<1>2. CASE L!Launch
  <2>1. dataArray' \in Seq(Row) /\ recordData' \in Seq(Row)
    BY <1>0, <1>2, Zenon DEF L!Launch
  <2>2. inCrash' \in [Threads -> LogStages]
    BY <1>2 DEF L!Launch, LogStages
  <2>3. /\ launch' = launch + 1 /\ running' = TRUE /\ watching' = FALSE
        /\ discarded' = FALSE /\ closer' = Nobody /\ table' = table /\ rows' = rows
    BY <1>2 DEF L!Launch, L!disk
  <2>4. launch' \in Nat
    BY <2>3
  <2>5. running' \in BOOLEAN /\ watching' \in BOOLEAN /\ discarded' \in BOOLEAN
    BY <2>3
  <2>6. table' \in BOOLEAN /\ rows' \in Seq(Row) /\ closer' \in Threads \cup {Nobody}
    BY <1>0, <2>3, Zenon
  <2> QED
    BY <2>1, <2>2, <2>4, <2>5, <2>6
<1>3. CASE L!Terminate \/ L!CreateTable \/ L!CloseCrashEye \/ L!DropTable
  BY <1>0, <1>3 DEF L!Terminate, L!CreateTable, L!CloseCrashEye, L!DropTable, L!disk,
     L!process, L!recorder, L!console
<1>4. CASE L!ViewDisappears \/ L!DropPage \/ L!CleanRecord \/ L!DeleteRows
  BY <1>0, <1>4 DEF L!ViewDisappears, L!DropPage, L!CleanRecord, L!DeleteRows, L!disk,
     L!process, L!recorder, L!console
<1>5. CASE L!MakePage
  BY <1>0, <1>5 DEF L!MakePage, L!disk, L!process, L!recorder
<1>6. ASSUME NEW t \in Threads, L!CloseDatabase(t) \/ L!RemoveFiles(t) PROVE LogTypes'
  BY <1>0, <1>6 DEF L!CloseDatabase, L!RemoveFiles, L!disk, L!process, L!console
<1>7. ASSUME NEW t \in Threads, L!Throw(t) \/ L!Fault(t) \/ L!Refault(t) \/ L!Abort(t) \/ L!KillApp(t)
      PROVE  LogTypes'
  BY <1>7 DEF L!Throw, L!Fault, L!Refault, L!Abort, L!KillApp, L!Die, LogStages, L!disk, L!console
<1>8. ASSUME NEW t \in Threads, NEW kind \in RowKinds, L!Insert(t, kind) PROVE LogTypes'
  <2>1. [launch |-> launch, thread |-> t, kind |-> kind] \in Row
    BY DEF Row
  <2>2. rows' \in Seq(Row)
    BY <1>8, <2>1 DEF L!Insert
  <2> QED
    BY <1>8, <2>2 DEF L!Insert, LogStages, L!console
<1>9. CASE L!ViewWillAppear
  <2>1. L!Reverse(dataArray) \in Seq(Row)
    <3>1. PICK n \in Nat : n = Len(dataArray)
      OBVIOUS
    <3>2. \A i \in 1 .. n : dataArray[n - i + 1] \in Row
      BY <3>1
    <3>3. L!Reverse(dataArray) = [i \in 1 .. n |-> dataArray[n - i + 1]]
      BY <3>1 DEF L!Reverse
    <3>4. L!Reverse(dataArray) \in [1 .. n -> Row]
      BY <3>2, <3>3
    <3> QED
      BY <3>4
  <2> QED
    BY <1>9, <2>1 DEF L!ViewWillAppear, L!disk, L!process, L!recorder
<1> QED
  BY <1>1, <1>2, <1>3, <1>4, <1>5, <1>6, <1>7, <1>8, <1>9 DEF L!Next, L!Crashing,
     RowKinds

(* The row of an insertion comes after all there are: no launch to come has a *)
(* row, and its thread has told of an exception at most before a signal.     *)
LEMMA LogStep ==
  ASSUME LogInv, [L!Next]_L!vars
  PROVE  LogInv'
<1>0. LogTypes /\ LogTypes'
  BY LogTypesStep DEF LogInv
<1>1. CASE UNCHANGED L!vars
  BY <1>0, <1>1, RowsKept DEF L!vars, L!disk, L!process, L!recorder, L!console
<1>2. CASE Quiet
  <2>1. UNCHANGED <<launch, inCrash>>
    BY <1>2 DEF Quiet, L!Terminate, L!CreateTable, L!CloseCrashEye, L!DropTable,
       L!ViewDisappears, L!DropPage, L!CleanRecord, L!DeleteRows, L!CloseDatabase,
       L!RemoveFiles, L!process, L!recorder
  <2>2. rows' \in {rows, <<>>}
    BY <1>2 DEF Quiet, L!Terminate, L!CreateTable, L!CloseCrashEye, L!DropTable,
       L!ViewDisappears, L!DropPage, L!CleanRecord, L!DeleteRows, L!CloseDatabase,
       L!RemoveFiles, L!disk
  <2>3. dataArray' \in {dataArray, <<>>} /\ recordData' \in {recordData, <<>>}
    BY <1>2 DEF Quiet, L!Terminate, L!CreateTable, L!CloseCrashEye, L!DropTable,
       L!ViewDisappears, L!DropPage, L!CleanRecord, L!DeleteRows, L!CloseDatabase,
       L!RemoveFiles, L!console
  <2> QED
    BY <1>0, <2>1, <2>2, <2>3, RowsKept
<1>3. CASE L!Launch
  <2>1. rows' = rows /\ launch' = launch + 1 /\ dataArray' = <<>> /\ recordData' = <<>>
        /\ \A t \in Threads : inCrash'[t] = "run"
    BY <1>3 DEF L!Launch, L!disk
  <2>2. /\ launch \in Nat
        /\ \A i \in 1 .. Len(rows) :
             rows[i].launch \in Nat /\ rows[i].launch <= launch
    <3>1. \A i \in 1 .. Len(rows) : rows[i] \in Row
      BY <1>0 DEF LogTypes
    <3> QED
      BY <1>0, <3>1 DEF LogInv, LogTypes, ToldSoFar, Row
  <2>3. ToldSoFar'
    BY <2>1, <2>2 DEF ToldSoFar, ToldOf
  <2>4. RowsInOrder' /\ OldestFirst(dataArray)' /\ NewestFirst'
    BY <2>1, NoRows DEF LogInv, RowsInOrder, OldestFirst, NewestFirst
  <2> QED
    BY <1>0, <2>3, <2>4 DEF LogInv
<1>4. CASE L!MakePage
  <2>1. rows' = rows /\ inCrash' = inCrash /\ launch' = launch /\ recordData' = <<>>
        /\ dataArray' \in {rows, <<>>}
    BY <1>4 DEF L!MakePage, L!disk, L!process, L!recorder
  <2>2. OldestFirst(rows) /\ OldestFirst(<<>>)
    BY NoRows DEF LogInv, RowsInOrder, OldestFirst
  <2>3. OldestFirst(dataArray)'
    BY <2>1, <2>2
  <2>4. NewestFirst'
    BY <2>1 DEF NewestFirst
  <2> QED
    BY <1>0, <2>1, <2>3, <2>4 DEF LogInv, ToldSoFar, ToldOf, RowsInOrder
<1>5. CASE L!ViewWillAppear
  <2>1. rows' = rows /\ inCrash' = inCrash /\ launch' = launch /\ dataArray' = dataArray
        /\ recordData' = L!Reverse(dataArray)
    BY <1>5 DEF L!ViewWillAppear, L!disk, L!process, L!recorder
  <2>2. NewestFirst'
    BY <1>0, <2>1, ReversedRows DEF LogInv, LogTypes, NewestFirst
  <2> QED
    BY <1>0, <2>1, <2>2 DEF LogInv, ToldSoFar, ToldOf, RowsInOrder, OldestFirst
<1>6. ASSUME NEW t \in Threads, L!Throw(t) \/ L!Fault(t) \/ L!Refault(t) \/ L!Abort(t) \/ L!KillApp(t)
      PROVE  LogInv'
  <2>1. UNCHANGED <<rows, launch, dataArray, recordData>>
    BY <1>6 DEF L!Throw, L!Fault, L!Refault, L!Abort, L!KillApp, L!disk, L!console
  <2>2. \A u \in Threads :
          \/ inCrash'[u] = inCrash[u]
          \/ inCrash[u] = "run" /\ inCrash'[u] \in {"refault", "exception", "abort", "signal"}
          \/ inCrash[u] \in {"refault", "abort"} /\ inCrash'[u] = "signal"
    BY <1>0, <1>6 DEF L!Throw, L!Fault, L!Refault, L!Abort, L!KillApp, L!Die, LogTypes
  <2> QED
    BY <1>0, <2>1, <2>2, RowsKept
<1>7. ASSUME NEW t \in Threads, NEW kind \in RowKinds, L!Insert(t, kind) PROVE LogInv'
  <2> DEFINE new == [launch |-> launch, thread |-> t, kind |-> kind]
  <2>1. /\ launch' = launch /\ dataArray' = dataArray /\ recordData' = recordData
        /\ rows' = rows \/ rows' = Append(rows, new)
        /\ inCrash[t] = kind
        /\ inCrash'[t] = IF kind = "exception" THEN "abort" ELSE "kill"
        /\ \A u \in Threads \ {t} : inCrash'[u] = inCrash[u]
    BY <1>0, <1>7 DEF L!Insert, L!console, LogTypes
  <2>2. OldestFirst(dataArray)' /\ NewestFirst'
    BY <2>1 DEF LogInv, OldestFirst, NewestFirst
  <2>3. CASE rows' = rows
    <3>1. ToldSoFar' /\ RowsInOrder'
      BY <2>1, <2>3 DEF LogInv, ToldSoFar, ToldOf, RowsInOrder, RowKinds
    <3> QED
      BY <1>0, <2>2, <3>1 DEF LogInv
  <2>4. CASE rows' = Append(rows, new)
    <3>1. new \in Row /\ rows \in Seq(Row) /\ OldestFirst(rows)
      BY <1>0 DEF LogInv, LogTypes, Row, RowsInOrder, OldestFirst
    <3>2. \A i \in 1 .. Len(rows) : Later(new, rows[i])
      <4> SUFFICES ASSUME NEW i \in 1 .. Len(rows) PROVE Later(new, rows[i])
        OBVIOUS
      <4>1. rows[i] \in Row /\ rows[i].launch <= launch /\ launch \in Nat
        BY <1>0 DEF LogInv, LogTypes, ToldSoFar
      <4>2. rows[i].launch = launch /\ rows[i].thread = t =>
              kind = "signal" /\ rows[i].kind = "exception"
        BY <2>1 DEF LogInv, ToldSoFar, ToldOf, RowKinds
      <4>3. rows[i].launch \in Nat
        BY <4>1 DEF Row
      <4> QED
        BY <4>1, <4>2, <4>3 DEF Later
    <3>3. /\ OldestFirst(rows')
          /\ \A i \in 1 .. Len(rows') :
               rows'[i] = new \/ \E j \in 1 .. Len(rows) : rows'[i] = rows[j]
      BY <2>4, <3>1, <3>2, RowAdded
    <3>4. \A i \in 1 .. Len(rows') : rows'[i].launch <= launch'
      <4>1. new.launch = launch /\ launch <= launch
        BY <1>0 DEF LogTypes
      <4>2. \A j \in 1 .. Len(rows) : rows[j].launch <= launch
        BY DEF LogInv, ToldSoFar
      <4> HIDE DEF new
      <4> QED
        BY <2>1, <3>3, <4>1, <4>2
    <3>5. ASSUME NEW u \in Threads
          PROVE  /\ inCrash'[u] \in {"run", "refault", "exception"} => ToldOf(u, {})'
                 /\ inCrash'[u] \in {"abort", "signal"} => ToldOf(u, {"exception"})'
      <4>1. CASE u # t
        <5>1. new.thread # u
          BY <4>1
        <5> QED
          BY <2>1, <3>3, <4>1, <5>1 DEF LogInv, ToldSoFar, ToldOf
      <4>2. CASE u = t
        <5>1. inCrash'[u] \in {"abort", "kill"}
          BY <2>1, <4>2
        <5>2. inCrash'[u] = "abort" => new.kind = "exception" /\ ToldOf(t, {})
          BY <2>1, <4>2 DEF LogInv, ToldSoFar, RowKinds
        <5> QED
          BY <2>1, <3>3, <4>2, <5>1, <5>2 DEF ToldOf
      <4> QED
        BY <4>1, <4>2
    <3> QED
      BY <1>0, <2>2, <3>3, <3>4, <3>5 DEF LogInv, ToldSoFar, RowsInOrder, OldestFirst
  <2> QED
    BY <2>1, <2>3, <2>4
<1> QED
  BY <1>1, <1>2, <1>3, <1>4, <1>5, <1>6, <1>7 DEF L!Next, L!Crashing, Quiet, RowKinds

(* The rows tell the story of every launch in order, and of a thread at most  *)
(* an exception and then a signal: for any threads that crash at once, any   *)
(* number of launches, and whatever insertion fails.                         *)
THEOREM RowsTellTheStory == L!Spec => []RowsInOrder
BY LogInit, LogStep, PTL DEF L!Spec, LogInv

(* The page lists the newest crash first.                                    *)
THEOREM ListsNewestFirst == L!Spec => []NewestFirst
BY LogInit, LogStep, PTL DEF L!Spec, LogInv
=============================================================================
