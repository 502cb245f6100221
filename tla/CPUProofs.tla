------------------------------ MODULE CPUProofs ------------------------------
(***************************************************************************)
(* Theorems about CPU, for any callers, any states a tick is counted for   *)
(* and any width of the counters.                                          *)
(***************************************************************************)
EXTENDS CPU, FiniteSetTheorems, WellFoundedInduction, TLAPS

(* Nobody is inside another's call, nothing failed, nothing wrapped.         *)
Calm == ~overlapped /\ ~failed /\ ~Wrapped

(* Until calls overlap only one caller is between reading and storing.       *)
Alone == ~overlapped => \A c, d \in Callers : Measuring(c) /\ Measuring(d) => c = d

(* The sum of the differences telescopes, whatever was read.                 *)
Telescoped ==
  ~overlapped =>
    /\ Idle => reported = loadPrevious
    /\ \A c \in Callers : stage[c] = "subtract" /\ ~trapped => reported = loadPrevious
    /\ \A c \in Callers : stage[c] = "store" => reported = load[c]

(* As long as all is calm the loads are ticks of the past, in their order.   *)
InOrder ==
  Calm => /\ \A k \in States : loadPrevious[k] <= ticks[k]
          /\ \A c \in Callers, k \in States :
               Measuring(c) => loadPrevious[k] <= load[c][k] /\ load[c][k] <= ticks[k]
          /\ ~trapped

CPUInv == TypeOK /\ Alone /\ Telescoped /\ InOrder

LEMMA LoadsAreCounters ==
  /\ Zero \in Counters
  /\ ticks \in [States -> Nat] => [k \in States |-> ticks[k] % Width] \in Counters
<1>1. \A n \in Nat : n % Width \in 0..(Width - 1)
  BY WidthAssumption
<1>2. 0 \in 0..(Width - 1)
  BY WidthAssumption
<1> QED
  BY <1>1, <1>2 DEF Zero, Counters

LEMMA CPUInit == Init => CPUInv
<1> SUFFICES ASSUME Init PROVE CPUInv
  OBVIOUS
<1>1. TypeOK
  BY LoadsAreCounters DEF Init, TypeOK, Zero
<1>2. \A c \in Callers : ~Measuring(c)
  BY DEF Init, Measuring
<1>3. Alone /\ Telescoped
  BY <1>2 DEF Init, Alone, Telescoped, Measuring
<1>4. InOrder
  <2>1. \A k \in States : loadPrevious[k] <= ticks[k]
    BY DEF Init, Zero
  <2> QED
    BY <1>2, <2>1 DEF Init, InOrder
<1> QED
  BY <1>1, <1>3, <1>4 DEF CPUInv

LEMMA TickStep == CPUInv /\ Tick => CPUInv'
<1> SUFFICES ASSUME CPUInv, Tick PROVE CPUInv'
  OBVIOUS
<1> USE DEF CPUInv
<1>1. PICK k \in States : ticks' = [ticks EXCEPT ![k] = @ + 1]
  BY DEF Tick
<1>2. UNCHANGED <<loadPrevious, stage, load, trapped, reported, failed, overlapped>>
  BY DEF Tick, history
<1>3. UNCHANGED <<living, exited, todo, result, listed>>
  BY DEF Tick, application
<1>4. ticks' \in [States -> Nat] /\ \A j \in States : ticks[j] <= ticks'[j]
  BY <1>1 DEF TypeOK
<1>5. TypeOK'
  BY <1>2, <1>3, <1>4 DEF TypeOK
<1>6. Alone' /\ Telescoped'
  BY <1>2 DEF Alone, Telescoped, Idle, Measuring
<1>7. Wrapped => Wrapped'
  BY <1>4, WidthAssumption DEF Wrapped, TypeOK
<1>8. Calm' => Calm
  BY <1>2, <1>7 DEF Calm
<1>9. InOrder'
  <2> SUFFICES ASSUME Calm' PROVE InOrder'
    BY DEF InOrder
  <2>1. Calm
    BY <1>8
  <2> QED
    BY <2>1, <1>2, <1>4 DEF InOrder, Measuring, TypeOK, Counters
<1> QED
  BY <1>5, <1>6, <1>9

LEMMA ReadStep == CPUInv => \A c \in Callers : Read(c) => CPUInv'
<1> SUFFICES ASSUME CPUInv, NEW c \in Callers, Read(c) PROVE CPUInv'
  OBVIOUS
<1> USE DEF CPUInv
<1>1. /\ UNCHANGED <<ticks, loadPrevious, trapped, reported, living, exited, todo, result, listed>>
      /\ ~trapped /\ stage[c] = "idle"
      /\ overlapped' = (overlapped \/ ~Idle)
  BY DEF Read, application
<1>2. stage' = [stage EXCEPT ![c] = "subtract"]
  BY DEF Read
<1>3. PICK l \in Counters : load' = [load EXCEPT ![c] = l]
  <2>1. CASE load' = [load EXCEPT ![c] = [k \in States |-> ticks[k] % Width]]
    BY <2>1, LoadsAreCounters DEF TypeOK
  <2>2. CASE load' = [load EXCEPT ![c] = Zero]
    BY <2>2, LoadsAreCounters
  <2> QED
    BY <2>1, <2>2 DEF Read
<1>4. failed' \in BOOLEAN /\ (failed => failed')
  <2>1. CASE UNCHANGED failed
    BY <2>1 DEF TypeOK
  <2>2. CASE failed' = TRUE
    BY <2>2
  <2> QED
    BY <2>1, <2>2 DEF Read
<1>5. ~failed' => load' = [load EXCEPT ![c] = [k \in States |-> ticks[k] % Width]]
  BY DEF Read
<1>6. TypeOK'
  <2>1. load' \in [Callers -> Counters]
    BY <1>3 DEF TypeOK
  <2>2. stage' \in [Callers -> {"idle", "subtract", "store", "infos"}]
    BY <1>2 DEF TypeOK
  <2>3. overlapped' \in BOOLEAN
    BY <1>1
  <2> QED
    BY <1>1, <1>4, <2>1, <2>2, <2>3 DEF TypeOK
<1>7. ~overlapped' => ~overlapped /\ Idle
  BY <1>1
<1>8. \A d \in Callers : d # c => stage'[d] = stage[d] /\ load'[d] = load[d]
  BY <1>2, <1>3 DEF TypeOK
<1>9. stage'[c] = "subtract" /\ load'[c] = l
  BY <1>2, <1>3 DEF TypeOK
<1>10. Alone'
  BY <1>7, <1>8 DEF Alone, Idle, Measuring
<1>11. Telescoped'
  <2> SUFFICES ASSUME ~overlapped' PROVE Telescoped'
    BY DEF Telescoped
  <2>1. reported' = loadPrevious'
    BY <1>1, <1>7 DEF Telescoped
  <2>2. \A d \in Callers : stage'[d] # "store"
    BY <1>7, <1>8, <1>9 DEF Idle, Measuring
  <2> QED
    BY <2>1, <2>2 DEF Telescoped
<1>12. InOrder'
  <2> SUFFICES ASSUME Calm' PROVE InOrder'
    BY DEF InOrder
  <2>1. Calm /\ Idle
    BY <1>1, <1>4, <1>7 DEF Calm, Wrapped
  <2>2. \A k \in States : ticks[k] < Width
    BY <2>1, WidthAssumption DEF Calm, Wrapped, TypeOK
  <2>3. \A k \in States : load'[c][k] = ticks[k]
    <3>1. load'[c] = [k \in States |-> ticks[k] % Width]
      BY <1>5 DEF Calm, TypeOK
    <3> QED
      BY <3>1, <2>2, WidthAssumption DEF TypeOK
  <2>4. \A d \in Callers : d # c => ~Measuring(d)'
    BY <2>1, <1>8 DEF Idle, Measuring
  <2>5. \A k \in States : loadPrevious[k] <= ticks[k]
    BY <2>1 DEF InOrder
  <2> QED
    BY <2>1, <2>3, <2>4, <2>5, <1>1 DEF InOrder, TypeOK
<1> QED
  BY <1>6, <1>10, <1>11, <1>12

(* A subtraction that does not trap adds the difference to what was reported. *)
LEMMA SubtractStep == CPUInv => \A c \in Callers : Subtract(c) => CPUInv'
<1> SUFFICES ASSUME CPUInv, NEW c \in Callers, Subtract(c) PROVE CPUInv'
  OBVIOUS
<1> USE DEF CPUInv
<1>1. /\ UNCHANGED <<ticks, loadPrevious, load, failed, overlapped>>
      /\ UNCHANGED <<living, exited, todo, result, listed>>
      /\ ~trapped /\ stage[c] = "subtract"
  BY DEF Subtract, application
<1>2. Calm' = Calm
  BY <1>1 DEF Calm, Wrapped
<1>3. CASE ~\A k \in States : load[c][k] >= loadPrevious[k]
  <2>1. trapped' = TRUE /\ UNCHANGED <<reported, stage>>
    BY <1>3 DEF Subtract
  <2>2. TypeOK'
    BY <1>1, <2>1 DEF TypeOK
  <2>3. Alone' /\ Telescoped'
    BY <1>1, <2>1 DEF Alone, Telescoped, Idle, Measuring
  <2>4. ~Calm
    BY <1>1, <1>3 DEF InOrder, Measuring, TypeOK, Counters
  <2>5. InOrder'
    BY <1>2, <2>4 DEF InOrder
  <2> QED
    BY <2>2, <2>3, <2>5
<1>4. CASE \A k \in States : load[c][k] >= loadPrevious[k]
  <2>1. UNCHANGED trapped /\ stage' = [stage EXCEPT ![c] = "store"]
    BY <1>4 DEF Subtract
  <2>2. /\ overlapped => reported' = reported
        /\ ~overlapped =>
             reported' = [k \in States |-> reported[k] + (load[c][k] - loadPrevious[k])]
    BY <1>4 DEF Subtract, Add
  <2>3. loadPrevious \in [States -> Nat] /\ load[c] \in [States -> Nat]
    BY WidthAssumption DEF TypeOK, Counters
  <2>4. ~overlapped => reported' = load[c]
    <3> SUFFICES ASSUME ~overlapped PROVE reported' = load[c]
      OBVIOUS
    <3>1. reported = loadPrevious
      BY <1>1 DEF Telescoped
    <3>2. reported' = [k \in States |-> loadPrevious[k] + (load[c][k] - loadPrevious[k])]
      BY <2>2, <3>1
    <3>3. \A k \in States : loadPrevious[k] + (load[c][k] - loadPrevious[k]) = load[c][k]
      BY <2>3
    <3>4. load[c] = [k \in States |-> load[c][k]]
      BY <2>3
    <3> QED
      BY <3>2, <3>3, <3>4
  <2>5. reported' \in [States -> Nat]
    BY <2>2, <2>3, <2>4 DEF TypeOK
  <2>6. stage' \in [Callers -> {"idle", "subtract", "store", "infos"}]
    BY <2>1 DEF TypeOK
  <2>7. TypeOK'
    BY <1>1, <2>1, <2>5, <2>6 DEF TypeOK
  <2>8. \A d \in Callers : Measuring(d)' <=> Measuring(d)
    BY <1>1, <2>1 DEF Measuring, TypeOK
  <2>9. Alone'
    BY <1>1, <2>8 DEF Alone
  <2>10. Telescoped'
    <3> SUFFICES ASSUME ~overlapped PROVE Telescoped'
      BY <1>1 DEF Telescoped
    <3>1. Measuring(c)
      BY <1>1 DEF Measuring
    <3>2. \A d \in Callers : Measuring(d) => d = c
      BY <3>1 DEF Alone
    <3>3. stage'[c] = "store"
      BY <2>1 DEF TypeOK
    <3>4. ~Idle'
      BY <3>1, <2>8 DEF Idle
    <3>5. \A d \in Callers : stage'[d] \in {"subtract", "store"} => d = c
      BY <3>2, <2>8 DEF Measuring
    <3> QED
      BY <3>3, <3>4, <3>5, <2>4, <1>1 DEF Telescoped
  <2>11. InOrder'
    BY <1>1, <1>2, <2>1, <2>8 DEF InOrder
  <2> QED
    BY <2>7, <2>9, <2>10, <2>11
<1> QED
  BY <1>3, <1>4

LEMMA StoreStep == CPUInv => \A c \in Callers : Store(c) => CPUInv'
<1> SUFFICES ASSUME CPUInv, NEW c \in Callers, Store(c) PROVE CPUInv'
  OBVIOUS
<1> USE DEF CPUInv
<1>1. /\ UNCHANGED <<ticks, load, trapped, reported, failed, overlapped>>
      /\ UNCHANGED <<living, exited, todo, result, listed>>
      /\ ~trapped /\ stage[c] = "store"
      /\ loadPrevious' = load[c]
      /\ stage' = [stage EXCEPT ![c] = "idle"]
  BY DEF Store, application, history
<1>2. TypeOK'
  BY <1>1 DEF TypeOK
<1>3. /\ stage'[c] = "idle"
      /\ \A d \in Callers : d # c => stage'[d] = stage[d]
  BY <1>1 DEF TypeOK
<1>4. Alone'
  BY <1>1, <1>3 DEF Alone, Measuring
<1>5. ~overlapped => \A d \in Callers : ~Measuring(d)'
  BY <1>1, <1>3 DEF Alone, Measuring
<1>6. Telescoped'
  BY <1>1, <1>5 DEF Telescoped, Measuring
<1>7. InOrder'
  <2> SUFFICES ASSUME Calm' PROVE InOrder'
    BY DEF InOrder
  <2>1. Calm
    BY <1>1 DEF Calm, Wrapped
  <2>2. \A d \in Callers : ~Measuring(d)'
    BY <1>5, <2>1 DEF Calm
  <2>3. \A k \in States : loadPrevious'[k] <= ticks'[k]
    BY <1>1, <2>1 DEF InOrder, Measuring
  <2> QED
    BY <1>1, <2>2, <2>3 DEF InOrder
<1> QED
  BY <1>2, <1>4, <1>6, <1>7

(* applicationUsage() and the workers leave what systemUsage() works on alone. *)
LEMMA Elsewhere ==
  ASSUME CPUInv, UNCHANGED system,
         \A c \in Callers : Measuring(c)' <=> Measuring(c),
         \A c \in Callers : Measuring(c) => stage'[c] = stage[c]
  PROVE  Alone' /\ Telescoped' /\ InOrder'
<1> USE DEF CPUInv
<1>1. UNCHANGED <<ticks, loadPrevious, load, trapped, reported, failed, overlapped>>
  BY DEF system, history
<1>2. Alone'
  BY <1>1 DEF Alone
<1>3. Idle' <=> Idle
  BY DEF Idle
<1>4. \A c \in Callers : stage'[c] \in {"subtract", "store"} => stage[c] = stage'[c]
  BY DEF Measuring
<1>5. Telescoped'
  BY <1>1, <1>3, <1>4 DEF Telescoped
<1>6. Calm' <=> Calm
  BY <1>1 DEF Calm, Wrapped
<1>7. InOrder'
  BY <1>1, <1>6 DEF InOrder
<1> QED
  BY <1>2, <1>5, <1>7

LEMMA ApplicationStep ==
  CPUInv => \A c \in Callers :
    /\ ThreadActPointers(c) => CPUInv'
    /\ \A w \in Workers : ThreadBasicInfo(c, w) => CPUInv'
    /\ ApplicationUsage(c) => CPUInv'
<1> SUFFICES ASSUME CPUInv, NEW c \in Callers,
                    \/ ThreadActPointers(c) \/ ApplicationUsage(c)
                    \/ \E w \in Workers : ThreadBasicInfo(c, w)
             PROVE  CPUInv'
  OBVIOUS
<1> USE DEF CPUInv
<1>1. /\ UNCHANGED system
      /\ UNCHANGED <<living, exited>>
  BY DEF ThreadActPointers, ApplicationUsage, ThreadBasicInfo
<1>2. /\ stage[c] \in {"idle", "infos"}
      /\ \E st \in {"idle", "infos"} : stage' = [stage EXCEPT ![c] = st]
  <2>1. CASE ThreadActPointers(c)
    BY <2>1 DEF ThreadActPointers
  <2>2. CASE ApplicationUsage(c)
    BY <2>2 DEF ApplicationUsage, Return
  <2>3. ASSUME NEW w \in Workers, ThreadBasicInfo(c, w)
        PROVE  /\ stage[c] \in {"idle", "infos"}
               /\ \E st \in {"idle", "infos"} : stage' = [stage EXCEPT ![c] = st]
    <3>1. CASE w \in living
      BY <2>3, <3>1 DEF ThreadBasicInfo, TypeOK
    <3>2. CASE w \notin living
      BY <2>3, <3>2 DEF ThreadBasicInfo, Return
    <3> QED
      BY <3>1, <3>2
  <2> QED
    BY <2>1, <2>2, <2>3
<1>3. /\ \A d \in Callers : Measuring(d)' <=> Measuring(d)
      /\ \A d \in Callers : Measuring(d) => stage'[d] = stage[d]
  BY <1>2 DEF Measuring, TypeOK
<1>4. Alone' /\ Telescoped' /\ InOrder'
  BY <1>1, <1>3, Elsewhere
<1>5. /\ todo' \in [Callers -> SUBSET Workers]
      /\ listed' \in [Callers -> SUBSET Workers]
      /\ result' \in [Callers -> Nat]
  <2>1. CASE ThreadActPointers(c)
    BY <2>1 DEF ThreadActPointers, TypeOK
  <2>2. CASE ApplicationUsage(c)
    BY <2>2 DEF ApplicationUsage, Return, TypeOK
  <2>3. ASSUME NEW w \in Workers, ThreadBasicInfo(c, w)
        PROVE  /\ todo' \in [Callers -> SUBSET Workers]
               /\ listed' \in [Callers -> SUBSET Workers]
               /\ result' \in [Callers -> Nat]
    <3>1. CASE w \in living
      <4>1. Counted(w) \in Nat
        BY UsageAssumption DEF Counted
      <4> QED
        BY <2>3, <3>1, <4>1 DEF ThreadBasicInfo, TypeOK
    <3>2. CASE w \notin living
      BY <2>3, <3>2 DEF ThreadBasicInfo, Return, TypeOK
    <3> QED
      BY <3>1, <3>2
  <2> QED
    BY <2>1, <2>2, <2>3
<1>6. TypeOK'
  BY <1>1, <1>2, <1>5 DEF TypeOK, system, history
<1> QED
  BY <1>4, <1>6

LEMMA WorkerStep == CPUInv /\ (\E w \in Workers : Begin(w) \/ Exit(w)) => CPUInv'
<1> SUFFICES ASSUME CPUInv, NEW w \in Workers, Begin(w) \/ Exit(w) PROVE CPUInv'
  OBVIOUS
<1> USE DEF CPUInv
<1>1. UNCHANGED <<system, stage, todo, result, listed>>
  BY DEF Begin, Exit
<1>2. living' \subseteq Workers /\ exited' \subseteq Workers
  BY DEF Begin, Exit, TypeOK
<1>3. TypeOK'
  BY <1>1, <1>2 DEF TypeOK, system, history
<1>4. Alone' /\ Telescoped' /\ InOrder'
  BY <1>1, Elsewhere DEF Measuring
<1> QED
  BY <1>3, <1>4

(* The inductive invariant of both functions.                               *)
THEOREM CPUInvariant == Spec => []CPUInv
<1>1. CPUInv /\ UNCHANGED vars => CPUInv'
  <2> SUFFICES ASSUME CPUInv, UNCHANGED vars PROVE CPUInv'
    OBVIOUS
  <2> USE DEF CPUInv
  <2>1. UNCHANGED <<system, stage, living, exited, todo, result, listed>>
    BY DEF vars, application
  <2>2. TypeOK'
    BY <2>1 DEF TypeOK, system, history
  <2>3. Alone' /\ Telescoped' /\ InOrder'
    BY <2>1, Elsewhere DEF Measuring
  <2> QED
    BY <2>2, <2>3
<1>2. CPUInv /\ [Next]_vars => CPUInv'
  BY <1>1, TickStep, ReadStep, SubtractStep, StoreStep, ApplicationStep, WorkerStep DEF Next
<1> QED
  BY CPUInit, <1>2, PTL DEF Spec

(* The variables keep their types: no usage and no sum of ticks is negative. *)
THEOREM CPUTypeCorrect == Spec => []TypeOK
<1>1. CPUInv => TypeOK
  BY DEF CPUInv
<1> QED
  BY CPUInvariant, <1>1, PTL

(* systemUsage() traps only for one of the three causes.                     *)
THEOREM CPUTrapIsCaused == Spec => []TrapHasCause
<1>1. CPUInv => TrapHasCause
  BY DEF CPUInv, InOrder, Calm, TrapHasCause, TypeOK
<1> QED
  BY CPUInvariant, <1>1, PTL

(* Calls of one thread at a time report every tick once.                     *)
THEOREM TicksAreReportedOnce == Spec => []EveryTickOnce
<1>1. CPUInv => EveryTickOnce
  <2> SUFFICES ASSUME CPUInv, ~overlapped, NEW k \in States
               PROVE  /\ Idle => reported[k] = loadPrevious[k]
                      /\ ~failed /\ ~Wrapped => reported[k] <= ticks[k]
    BY DEF EveryTickOnce
  <2>1. Idle => reported[k] = loadPrevious[k]
    BY DEF CPUInv, Telescoped
  <2>2. ASSUME ~failed, ~Wrapped PROVE reported[k] <= ticks[k]
    <3>1. Calm
      BY <2>2 DEF Calm
    <3>2. ~trapped /\ loadPrevious[k] <= ticks[k]
      BY <3>1 DEF CPUInv, InOrder
    <3>3. CASE Idle
      BY <2>1, <3>2, <3>3
    <3>4. CASE ~Idle
      <4>1. PICK c \in Callers : Measuring(c)
        BY <3>4 DEF Idle
      <4>2. load[c][k] <= ticks[k]
        BY <3>1, <4>1 DEF CPUInv, InOrder
      <4> QED
        BY <3>2, <4>1, <4>2 DEF CPUInv, Telescoped, Measuring
    <3> QED
      BY <3>3, <3>4
  <2> QED
    BY <2>1, <2>2
<1> QED
  BY CPUInvariant, <1>1, PTL

-----------------------------------------------------------------------------
(* Sums over sets of threads. MapThenSumSet takes any member first and goes   *)
(* on with the others; SumIn(S) is the function it defines on the subsets of  *)
(* S.                                                                        *)
First(s) == CHOOSE x \in s : TRUE
Turn(g, s) == IF s = {} THEN 0 ELSE Counted(First(s)) + g[s \ {First(s)}]
SumIn(S) == CHOOSE g : g = [s \in SUBSET S |-> Turn(g, s)]

LEMMA Sums == ASSUME NEW S PROVE MapThenSumSet(Counted, S) = SumIn(S)[S]
BY DEF MapThenSumSet, MapThenFoldSet, SumIn, Turn, First

LEMMA LeastNumber ==
  ASSUME NEW N \in SUBSET Nat, N # {}
  PROVE  \E x \in N : \A y \in N : x <= y
<1> DEFINE R == {ss \in Nat \X Nat : ss[1] < ss[2]}
<1>1. OpToRel(<, Nat) = R
  BY DEF OpToRel
<1>2. IsWellFoundedOn(R, Nat)
  BY <1>1, NatLessThanWellFounded, Zenon
<1>3. \A x, y \in Nat : y < x => <<y, x>> \in R
  OBVIOUS
<1> HIDE DEF R
<1>4. PICK x \in N : \A y \in N : ~(<<y, x>> \in R)
  BY <1>2, WFMin
<1>5. ASSUME NEW y \in N PROVE x <= y
  <2>1. x \in Nat /\ y \in Nat /\ ~(y < x)
    BY <1>3, <1>4
  <2> QED
    BY <2>1
<1> QED
  BY <1>5

(* What is left of a finite set is smaller.                                  *)
LEMMA Smaller ==
  ASSUME NEW S, IsFiniteSet(S), NEW s \in SUBSET S, NEW x \in s
  PROVE  /\ Cardinality(s) \in Nat /\ Cardinality(s) <= Cardinality(S)
         /\ s \ {x} \in SUBSET S
         /\ Cardinality(s \ {x}) \in Nat /\ Cardinality(s \ {x}) < Cardinality(s)
<1>1. IsFiniteSet(s) /\ Cardinality(s) <= Cardinality(S)
  BY FS_Subset
<1>2. Cardinality(s) \in Nat /\ Cardinality(s) > 0
  <2>1. Cardinality(s) \in Nat
    BY <1>1, FS_CardinalityType
  <2>2. Cardinality(s) # 0
    BY <1>1, FS_EmptySet
  <2> QED
    BY <2>1, <2>2
<1>3. IsFiniteSet(s \ {x}) /\ Cardinality(s \ {x}) = Cardinality(s) - 1
  BY <1>1, FS_RemoveElement
<1> QED
  BY <1>1, <1>2, <1>3

LEMMA AFirst == ASSUME NEW s, s # {} PROVE First(s) \in s
BY DEF First

(* A function that satisfies the recursion up to a size gives one up to the   *)
(* next, so that there is one for all the subsets of a finite set.           *)
LEMMA Recursion ==
  ASSUME NEW S, IsFiniteSet(S)
  PROVE  \A s \in SUBSET S : SumIn(S)[s] = Turn(SumIn(S), s)
<1> DEFINE Fits(g, n) ==
             g = [s \in SUBSET S |-> g[s]]
             /\ \A s \in SUBSET S : Cardinality(s) <= n => g[s] = Turn(g, s)
           bad == {n \in Nat : ~\E g : Fits(g, n)}
<1>1. bad = {}
  <2> SUFFICES ASSUME bad # {} PROVE FALSE
    OBVIOUS
  <2>1. bad \in SUBSET Nat
    OBVIOUS
  <2>2. PICK n \in bad : \A m \in bad : n <= m
    BY <2>1, LeastNumber
  <2>3. n \in Nat /\ ~\E g : Fits(g, n)
    OBVIOUS
  <2>4. CASE n = 0
    <3> DEFINE z == [s \in SUBSET S |-> 0]
    <3>1. ASSUME NEW s \in SUBSET S, Cardinality(s) <= 0 PROVE z[s] = Turn(z, s)
      <4>1. s = {}
        <5>1. IsFiniteSet(s)
          BY FS_Subset
        <5>2. Cardinality(s) \in Nat
          BY <5>1, FS_CardinalityType
        <5> QED
          BY <3>1, <5>1, <5>2, FS_EmptySet
      <4> QED
        BY <4>1 DEF Turn
    <3>2. z = [s \in SUBSET S |-> z[s]]
      OBVIOUS
    <3>3. Fits(z, 0)
      BY <3>1, <3>2
    <3> QED
      BY <2>3, <2>4, <3>3
  <2>5. CASE n # 0
    <3>1. n - 1 \in Nat /\ ~(n <= n - 1)
      BY <2>3, <2>5
    <3>2. n - 1 \notin bad
      BY <2>2, <3>1
    <3>3. PICK g : Fits(g, n - 1)
      BY <3>1, <3>2
    <3> DEFINE h == [s \in SUBSET S |-> Turn(g, s)]
    <3>4. ASSUME NEW s \in SUBSET S, Cardinality(s) <= n PROVE h[s] = Turn(h, s)
      <4>1. CASE s = {}
        BY <4>1 DEF Turn
      <4>2. CASE s # {}
        <5>1. First(s) \in s
          BY <4>2, AFirst
        <5> DEFINE r == s \ {First(s)}
        <5>2. /\ r \in SUBSET S /\ Cardinality(r) \in Nat /\ Cardinality(s) \in Nat
              /\ Cardinality(r) < Cardinality(s)
          BY <5>1, Smaller
        <5>3. Cardinality(r) <= n - 1
          BY <2>3, <3>4, <5>2
        <5>4. g[r] = Turn(g, r)
          BY <3>3, <5>2, <5>3
        <5>5. h[r] = g[r]
          BY <5>2, <5>4
        <5>6. Turn(h, s) = Turn(g, s)
          BY <4>2, <5>5 DEF Turn
        <5> QED
          BY <5>6
      <4> QED
        BY <4>1, <4>2
    <3>5. h = [s \in SUBSET S |-> h[s]]
      OBVIOUS
    <3>6. Fits(h, n)
      BY <3>4, <3>5
    <3> QED
      BY <2>3, <3>6
  <2> QED
    BY <2>4, <2>5
<1>2. Cardinality(S) \in Nat
  BY FS_CardinalityType
<1>3. PICK g : Fits(g, Cardinality(S))
  BY <1>1, <1>2
<1>4. \A s \in SUBSET S : g[s] = Turn(g, s)
  <2> TAKE s \in SUBSET S
  <2>1. Cardinality(s) <= Cardinality(S)
    BY FS_Subset
  <2> QED
    BY <1>3, <2>1
<1>5. g = [s \in SUBSET S |-> Turn(g, s)]
  BY <1>3, <1>4
<1> HIDE DEF Fits
<1>6. SumIn(S) = [s \in SUBSET S |-> Turn(SumIn(S), s)]
  BY <1>5 DEF SumIn
<1> QED
  BY <1>6

(* Whichever member is taken first, the sum is the same.                     *)
LEMMA AnyFirst ==
  ASSUME NEW S \in SUBSET Workers, IsFiniteSet(S)
  PROVE  \A s \in SUBSET S :
           SumIn(S)[s] \in Nat /\ \A w \in s : SumIn(S)[s] = Counted(w) + SumIn(S)[s \ {w}]
<1> DEFINE I == SumIn(S)
           Holds(s) == I[s] \in Nat /\ \A w \in s : I[s] = Counted(w) + I[s \ {w}]
           bad == {n \in Nat : \E s \in SUBSET S : Cardinality(s) = n /\ ~Holds(s)}
<1>1. \A w \in S : Counted(w) \in Nat
  BY UsageAssumption DEF Counted
<1>2. \A s \in SUBSET S : s # {} => First(s) \in s /\ I[s] = Counted(First(s)) + I[s \ {First(s)}]
  BY Recursion, AFirst DEF Turn
<1>3. I[{}] = 0
  BY Recursion DEF Turn
<1> HIDE DEF I
<1>4. ASSUME bad # {} PROVE FALSE
  <2>1. bad \in SUBSET Nat
    OBVIOUS
  <2>2. PICK n \in bad : \A m \in bad : n <= m
    BY <1>4, <2>1, LeastNumber
  <2>3. PICK s \in SUBSET S : Cardinality(s) = n /\ ~Holds(s)
    OBVIOUS
  <2>4. s # {}
    BY <1>3, <2>3
  <2> HIDE DEF Holds
  <2>5. ASSUME NEW t \in SUBSET S, Cardinality(t) \in Nat, Cardinality(t) < n PROVE Holds(t)
    <3>1. n \in Nat /\ ~(n <= Cardinality(t))
      BY <2>5
    <3>2. Cardinality(t) \notin bad
      BY <2>2, <3>1
    <3> QED
      BY <2>5, <3>2
  <2>6. ASSUME NEW y \in s PROVE Holds(s \ {y})
    <3>1. s \ {y} \in SUBSET S /\ Cardinality(s \ {y}) \in Nat /\ Cardinality(s \ {y}) < n
      BY <2>3, Smaller
    <3> QED
      BY <2>5, <3>1
  <2> DEFINE x == First(s)
  <2>7. x \in s /\ x \in S /\ I[s] = Counted(x) + I[s \ {x}]
    BY <1>2, <2>4
  <2> HIDE DEF x
  <2>8. I[s] \in Nat
    <3>1. Holds(s \ {x}) /\ Counted(x) \in Nat
      BY <1>1, <2>6, <2>7
    <3> QED
      BY <2>7, <3>1 DEF Holds
  <2>9. ASSUME NEW w \in s PROVE I[s] = Counted(w) + I[s \ {w}]
    <3>1. CASE w = x
      BY <2>7, <3>1
    <3>2. CASE w # x
      <4>1. Holds(s \ {x}) /\ Holds(s \ {w})
        BY <2>6, <2>7
      <4>2. I[s \ {x}] = Counted(w) + I[(s \ {x}) \ {w}]
        BY <3>2, <4>1 DEF Holds
      <4>3. I[s \ {w}] = Counted(x) + I[(s \ {w}) \ {x}]
        BY <2>7, <3>2, <4>1 DEF Holds
      <4>4. (s \ {x}) \ {w} = (s \ {w}) \ {x}
        OBVIOUS
      <4> DEFINE r == (s \ {x}) \ {w}
      <4>5. I[r] \in Nat
        <5>1. /\ s \ {x} \in SUBSET S /\ Cardinality(s \ {x}) \in Nat
              /\ Cardinality(s \ {x}) < n /\ n \in Nat
          BY <2>3, <2>7, Smaller
        <5>2. w \in s \ {x}
          BY <3>2
        <5>3. /\ r \in SUBSET S /\ Cardinality(r) \in Nat
              /\ Cardinality(r) < Cardinality(s \ {x})
          BY <5>1, <5>2, Smaller
        <5>4. Holds(r)
          BY <2>5, <5>1, <5>3
        <5> QED
          BY <5>4 DEF Holds
      <4>6. Counted(w) \in Nat /\ Counted(x) \in Nat
        BY <1>1, <2>7
      <4>7. I[s] = Counted(x) + (Counted(w) + I[r]) /\ I[s \ {w}] = Counted(x) + I[r]
        BY <2>7, <4>2, <4>3, <4>4
      <4> HIDE DEF r
      <4> QED
        BY <4>5, <4>6, <4>7
    <3> QED
      BY <3>1, <3>2
  <2>10. Holds(s)
    BY <2>8, <2>9 DEF Holds
  <2> QED
    BY <2>3, <2>10
<1>5. ASSUME NEW s \in SUBSET S PROVE Holds(s)
  <2>1. Cardinality(s) \in Nat
    BY FS_Subset, FS_CardinalityType
  <2> QED
    BY <1>4, <2>1
<1> QED
  BY <1>5 DEF I

-----------------------------------------------------------------------------
(* applicationUsage(): what a caller has added up and what it has still to    *)
(* look at are together the sum over its list; the lists are finite, as       *)
(* threads begin one at a time.                                              *)
Counting ==
  /\ IsFiniteSet(living)
  /\ \A c \in Callers :
       LET Sum(s) == SumIn(listed[c])[s]
       IN /\ IsFiniteSet(listed[c])
          /\ stage[c] = "infos" =>
               todo[c] \in SUBSET listed[c] /\ result[c] + Sum(todo[c]) = Sum(listed[c])
          /\ stage[c] # "infos" => result[c] \in {0, Sum(listed[c])}

(* A step that leaves the lists and the results, and brings nobody into the   *)
(* loop or out of it.                                                        *)
LEMMA NotCounting ==
  ASSUME Counting, UNCHANGED <<todo, result, listed>>, IsFiniteSet(living'),
         \A c \in Callers : stage'[c] = "infos" <=> stage[c] = "infos"
  PROVE  Counting'
BY DEF Counting

LEMMA ListStep ==
  ASSUME TypeOK, Counting, NEW c \in Callers, ThreadActPointers(c) PROVE Counting'
<1>1. PICK threads \in {living, {}} :
        todo' = [todo EXCEPT ![c] = threads] /\ listed' = [listed EXCEPT ![c] = threads]
  BY DEF ThreadActPointers
<1>2. /\ living' = living /\ result' = [result EXCEPT ![c] = 0]
      /\ stage' = [stage EXCEPT ![c] = "infos"]
  BY DEF ThreadActPointers
<1>3. IsFiniteSet(threads) /\ threads \in SUBSET Workers
  BY FS_EmptySet DEF Counting, TypeOK
<1>4. /\ stage'[c] = "infos" /\ result'[c] = 0 /\ todo'[c] = threads /\ listed'[c] = threads
  BY <1>1, <1>2 DEF TypeOK
<1>5. \A d \in Callers : d # c => /\ stage'[d] = stage[d] /\ result'[d] = result[d]
                                  /\ todo'[d] = todo[d] /\ listed'[d] = listed[d]
  BY <1>1, <1>2 DEF TypeOK
<1>6. 0 + SumIn(threads)[threads] = SumIn(threads)[threads]
  BY <1>3, AnyFirst
<1> QED
  BY <1>2, <1>3, <1>4, <1>5, <1>6, ZenonT(30) DEF Counting

LEMMA TurnStep ==
  ASSUME TypeOK, Counting, NEW c \in Callers, NEW w \in Workers, ThreadBasicInfo(c, w)
  PROVE  Counting'
<1>1. /\ UNCHANGED <<living, listed>> /\ stage[c] = "infos" /\ w \in todo[c]
  BY DEF ThreadBasicInfo
<1>2. CASE w \in living
  <2>1. /\ stage' = stage /\ todo' = [todo EXCEPT ![c] = @ \ {w}]
        /\ result' = [result EXCEPT ![c] = @ + Counted(w)]
    BY <1>2 DEF ThreadBasicInfo
  <2>2. /\ todo'[c] = todo[c] \ {w} /\ result'[c] = result[c] + Counted(w)
        /\ \A d \in Callers : d # c => result'[d] = result[d] /\ todo'[d] = todo[d]
    BY <2>1 DEF TypeOK
  <2> DEFINE Sum(s) == SumIn(listed[c])[s]
  <2>3. todo[c] \in SUBSET listed[c] /\ result[c] + Sum(todo[c]) = Sum(listed[c])
    BY <1>1 DEF Counting
  <2>4. /\ Sum(todo[c]) = Counted(w) + Sum(todo[c] \ {w})
        /\ Sum(todo[c] \ {w}) \in Nat
    <3>1. listed[c] \in SUBSET Workers /\ IsFiniteSet(listed[c])
      BY DEF TypeOK, Counting
    <3>2. todo[c] \ {w} \in SUBSET listed[c]
      BY <2>3
    <3> QED
      BY <1>1, <2>3, <3>1, <3>2, AnyFirst
  <2>5. result[c] \in Nat /\ Counted(w) \in Nat
    BY UsageAssumption DEF TypeOK, Counted
  <2> HIDE DEF Sum
  <2>6. result'[c] + Sum(todo'[c]) = Sum(listed[c])
    BY <2>2, <2>3, <2>4, <2>5
  <2>7. todo'[c] \in SUBSET listed[c]
    BY <2>2, <2>3
  <2> QED
    BY <1>1, <2>1, <2>2, <2>6, <2>7 DEF Counting, Sum
<1>3. CASE w \notin living
  <2>1. /\ stage' = [stage EXCEPT ![c] = "idle"]
        /\ result' = [result EXCEPT ![c] = 0]
        /\ todo' = [todo EXCEPT ![c] = {}]
    BY <1>3 DEF ThreadBasicInfo, Return
  <2>2. /\ stage'[c] = "idle" /\ result'[c] = 0
        /\ \A d \in Callers : d # c => /\ stage'[d] = stage[d] /\ result'[d] = result[d]
                                       /\ todo'[d] = todo[d]
    BY <2>1 DEF TypeOK
  <2> QED
    BY <1>1, <2>2 DEF Counting
<1> QED
  BY <1>2, <1>3

LEMMA ReturnStep ==
  ASSUME TypeOK, Counting, NEW c \in Callers, ApplicationUsage(c) PROVE Counting'
<1>1. /\ UNCHANGED <<living, listed>> /\ stage[c] = "infos" /\ todo[c] = {}
      /\ stage' = [stage EXCEPT ![c] = "idle"]
      /\ result' = [result EXCEPT ![c] = result[c]]
      /\ todo' = [todo EXCEPT ![c] = {}]
  BY DEF ApplicationUsage, Return
<1>2. /\ stage'[c] = "idle" /\ result'[c] = result[c]
      /\ \A d \in Callers : d # c => /\ stage'[d] = stage[d] /\ result'[d] = result[d]
                                     /\ todo'[d] = todo[d]
  BY <1>1 DEF TypeOK
<1>3. result[c] = SumIn(listed[c])[listed[c]]
  <2>1. result[c] + SumIn(listed[c])[{}] = SumIn(listed[c])[listed[c]]
    BY <1>1 DEF Counting
  <2>2. SumIn(listed[c])[{}] = 0
    BY Recursion DEF Counting, Turn
  <2>3. result[c] \in Nat
    BY DEF TypeOK
  <2> QED
    BY <2>1, <2>2, <2>3
<1> QED
  BY <1>1, <1>2, <1>3 DEF Counting

LEMMA CountingStep == ASSUME TypeOK, Counting, [Next]_vars PROVE Counting'
<1>1. IsFiniteSet(living)
  BY DEF Counting
<1>2. CASE Tick \/ UNCHANGED vars
  BY <1>1, <1>2, NotCounting DEF Tick, application, vars
<1>3. ASSUME NEW c \in Callers, Read(c) \/ Subtract(c) \/ Store(c) PROVE Counting'
  <2>1. UNCHANGED <<living, todo, result, listed>>
    BY <1>3 DEF Read, Subtract, Store, application
  <2>2. stage[c] # "infos" /\ \E st \in {"subtract", "store", "idle"} :
          stage' = stage \/ stage' = [stage EXCEPT ![c] = st]
    BY <1>3 DEF Read, Subtract, Store
  <2>3. \A d \in Callers : stage'[d] = "infos" <=> stage[d] = "infos"
    BY <2>2 DEF TypeOK
  <2> QED
    BY <1>1, <2>1, <2>3, NotCounting
<1>4. ASSUME NEW c \in Callers,
             \/ ThreadActPointers(c) \/ ApplicationUsage(c)
             \/ \E w \in Workers : ThreadBasicInfo(c, w)
      PROVE  Counting'
  BY <1>4, ListStep, TurnStep, ReturnStep
<1>5. ASSUME NEW w \in Workers, Begin(w) \/ Exit(w) PROVE Counting'
  <2>1. IsFiniteSet(living \cup {w}) /\ IsFiniteSet(living \ {w})
    BY <1>1, FS_AddElement, FS_RemoveElement
  <2>2. IsFiniteSet(living')
    BY <1>5, <2>1 DEF Begin, Exit
  <2> QED
    BY <1>5, <2>2, NotCounting DEF Begin, Exit
<1> QED
  BY <1>2, <1>3, <1>4, <1>5 DEF Next

(* applicationUsage() returns the sum over every thread of its list, or       *)
(* nothing at all, for any number of threads that come and go, whatever the   *)
(* order the list has them in.                                               *)
THEOREM SumsAllThreads == Spec => []AllThreads
<1>1. Init => Counting
  BY FS_EmptySet DEF Init, Counting
<1>2. TypeOK /\ Counting /\ [Next]_vars => Counting'
  BY CountingStep
<1>3. Counting => AllThreads
  BY Sums DEF Counting, AllThreads
<1> QED
  BY CPUTypeCorrect, <1>1, <1>2, <1>3, PTL DEF Spec
=============================================================================
