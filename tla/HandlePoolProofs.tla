-------------------------- MODULE HandlePoolProofs --------------------------
(***************************************************************************)
(* First the lock of WCDB's pool, which is a read-write lock for any       *)
(* finite set of users. Then the pool, for any number of threads, any      *)
(* operations they call and any capacities: it uses its lock as a lock     *)
(* wants to be used, no handle is ever in two hands, close(onClosed:)      *)
(* finds no handle open but dropped ones, and the handles are counted      *)
(* right.                                                                  *)
(***************************************************************************)
EXTENDS HandlePool, FiniteSetTheorems, SequenceTheorems, TLAPS

-----------------------------------------------------------------------------
(* The lock.                                                                *)

Count(place) == Cardinality(InPlace(place))

(* What the counters must say of each other for the lock to exclude.        *)
WriterAlone == writer <= 1 /\ (writer = 1 => reader = 0)

LockInv == TypeOK /\ CountersCount /\ WriterAlone /\ NoLostWakeup

-----------------------------------------------------------------------------
(* Counting the users of a place.                                           *)

LEMMA PlacesFinite ==
  ASSUME NEW place
  PROVE  IsFiniteSet(InPlace(place)) /\ Count(place) \in Nat
<1>1. InPlace(place) \subseteq Users
  BY DEF InPlace
<1> QED
  BY <1>1, UsersAssumption, FS_Subset, FS_CardinalityType DEF Count

LEMMA CountPositive ==
  ASSUME NEW u \in Users
  PROVE  Count(pc[u]) > 0
<1>1. u \in InPlace(pc[u])
  BY DEF InPlace
<1> QED
  BY <1>1, PlacesFinite, FS_EmptySet DEF Count

(* A user that moves enters one place, leaves another, and disturbs no third. *)
LEMMA Moves ==
  ASSUME NEW u \in Users, NEW place \in Places, TypeOK, Goto(u, place), pc[u] # place
  PROVE  \A p \in Places : Count(p)' = IF p = place THEN Count(p) + 1
                                       ELSE IF p = pc[u] THEN Count(p) - 1
                                       ELSE Count(p)
<1> SUFFICES ASSUME NEW p \in Places
             PROVE  Count(p)' = IF p = place THEN Count(p) + 1
                                ELSE IF p = pc[u] THEN Count(p) - 1
                                ELSE Count(p)
  OBVIOUS
<1>1. CASE p = place
  <2>1. InPlace(p)' = InPlace(p) \cup {u} /\ u \notin InPlace(p)
    BY <1>1 DEF InPlace, Goto, TypeOK
  <2> QED
    BY <1>1, <2>1, PlacesFinite, FS_AddElement DEF Count
<1>2. CASE p # place /\ p = pc[u]
  <2>1. InPlace(p)' = InPlace(p) \ {u} /\ u \in InPlace(p)
    BY <1>2 DEF InPlace, Goto, TypeOK
  <2> QED
    BY <1>2, <2>1, PlacesFinite, FS_RemoveElement DEF Count
<1>3. CASE p # place /\ p # pc[u]
  <2>1. InPlace(p)' = InPlace(p)
    BY <1>3 DEF InPlace, Goto, TypeOK
  <2> QED
    BY <1>3, <2>1 DEF Count
<1> QED
  BY <1>1, <1>2, <1>3

-----------------------------------------------------------------------------
(* The invariant.                                                           *)

LEMMA LockInit == Init => LockInv
<1> SUFFICES ASSUME Init PROVE LockInv
  OBVIOUS
<1>1. \A p \in Places \ {"out"} : InPlace(p) = {}
  BY DEF Init, InPlace
<1>2. \A p \in Places \ {"out"} : Cardinality(InPlace(p)) = 0
  BY <1>1, FS_EmptySet
<1> QED
  BY <1>2 DEF Init, LockInv, TypeOK, CountersCount, WriterAlone, NoLostWakeup, Places

LEMMA LockStep ==
  ASSUME LockInv, [Next]_vars
  PROVE  LockInv'
<1> USE DEF LockInv, WriterAlone, ReadBlocked, WriteBlocked, counters
<1>0. /\ reader = Count("reading") /\ writer = Count("writing")
      /\ pending = Count("lockWrite")
      /\ CountersCount' <=> /\ reader' = Count("reading")'
                            /\ writer' = Count("writing")'
                            /\ pending' = Count("lockWrite")'
  BY DEF CountersCount, Count
<1>1. CASE UNCHANGED vars
  BY <1>1 DEF vars, TypeOK, CountersCount, NoLostWakeup, InPlace
<1>2. ASSUME NEW u \in Users, SleepInLockRead(u) PROVE LockInv'
  <2>1. TypeOK' /\ NoLostWakeup'
    BY <1>2 DEF SleepInLockRead, Goto, TypeOK, NoLostWakeup, InPlace, Places
  <2>2. CASE pc[u] = "out"
    <3>1. CountersCount'
      BY <1>0, <1>2, <2>2, Moves DEF SleepInLockRead, Places
    <3> QED
      BY <1>2, <2>1, <3>1 DEF SleepInLockRead
  <2>3. CASE pc[u] = "lockRead"
    <3>1. pc' = pc
      BY <1>2, <2>3 DEF SleepInLockRead, Goto, TypeOK
    <3>2. CountersCount'
      BY <1>2, <3>1 DEF SleepInLockRead, CountersCount, InPlace
    <3> QED
      BY <1>2, <2>1, <3>2 DEF SleepInLockRead
  <2> QED
    BY <1>2, <2>2, <2>3 DEF SleepInLockRead
<1>3. ASSUME NEW u \in Users, PassLockRead(u) PROVE LockInv'
  <2>1. Count(pc[u]) > 0 /\ Count(pc[u]) \in Nat
    BY CountPositive, PlacesFinite
  <2>2. TypeOK' /\ NoLostWakeup'
    BY <1>0, <1>3, <2>1 DEF PassLockRead, Goto, TypeOK, NoLostWakeup, InPlace, Places
  <2>3. CountersCount'
    BY <1>0, <1>3, Moves DEF PassLockRead, Places
  <2> QED
    BY <1>0, <1>3, <2>1, <2>2, <2>3 DEF PassLockRead, TypeOK
<1>4. ASSUME NEW u \in Users, UnlockRead(u) PROVE LockInv'
  <2>1. Count(pc[u]) > 0 /\ Count(pc[u]) \in Nat
    BY CountPositive, PlacesFinite
  <2>2. TypeOK' /\ NoLostWakeup'
    BY <1>0, <1>4, <2>1 DEF UnlockRead, Goto, TypeOK, NoLostWakeup, InPlace, Places
  <2>3. CountersCount'
    BY <1>0, <1>4, Moves DEF UnlockRead, Places
  <2> QED
    BY <1>0, <1>4, <2>1, <2>2, <2>3 DEF UnlockRead, TypeOK
<1>5. ASSUME NEW u \in Users, CallLockWrite(u) PROVE LockInv'
  <2>1. Count(pc[u]) > 0 /\ Count(pc[u]) \in Nat
    BY CountPositive, PlacesFinite
  <2>2. TypeOK' /\ NoLostWakeup'
    BY <1>0, <1>5, <2>1 DEF CallLockWrite, Goto, TypeOK, NoLostWakeup, InPlace, Places
  <2>3. CountersCount'
    BY <1>0, <1>5, Moves DEF CallLockWrite, Places
  <2> QED
    BY <1>0, <1>5, <2>1, <2>2, <2>3 DEF CallLockWrite, TypeOK
<1>6. ASSUME NEW u \in Users, SleepInLockWrite(u) PROVE LockInv'
  BY <1>6 DEF SleepInLockWrite, TypeOK, CountersCount, NoLostWakeup, InPlace
<1>7. ASSUME NEW u \in Users, PassLockWrite(u) PROVE LockInv'
  <2>1. Count(pc[u]) > 0 /\ Count(pc[u]) \in Nat
    BY CountPositive, PlacesFinite
  <2>2. TypeOK' /\ NoLostWakeup'
    BY <1>0, <1>7, <2>1 DEF PassLockWrite, Goto, TypeOK, NoLostWakeup, InPlace, Places
  <2>3. CountersCount'
    BY <1>0, <1>7, Moves DEF PassLockWrite, Places
  <2> QED
    BY <1>0, <1>7, <2>1, <2>2, <2>3 DEF PassLockWrite, TypeOK
<1>8. ASSUME NEW u \in Users, UnlockWrite(u) PROVE LockInv'
  <2>1. Count(pc[u]) > 0 /\ Count(pc[u]) \in Nat
    BY CountPositive, PlacesFinite
  <2>2. TypeOK' /\ NoLostWakeup'
    BY <1>0, <1>8, <2>1 DEF UnlockWrite, Goto, TypeOK, NoLostWakeup, InPlace, Places
  <2>3. CountersCount'
    BY <1>0, <1>8, Moves DEF UnlockWrite, Places
  <2> QED
    BY <1>0, <1>8, <2>1, <2>2, <2>3 DEF UnlockWrite, TypeOK
<1>9. ASSUME NEW u \in Users, WakeSpuriously(u) PROVE LockInv'
  BY <1>9 DEF WakeSpuriously, TypeOK, CountersCount, NoLostWakeup, InPlace
<1> QED
  BY <1>1, <1>2, <1>3, <1>4, <1>5, <1>6, <1>7, <1>8, <1>9
  DEF Next, Call, Recheck, Unlock

(* Nobody sleeps in lockRead or lockWrite who could pass: no wake-up is lost,  *)
(* however many users call and whenever they wake.                           *)
THEOREM NoWakeupIsLost == Spec => []NoLostWakeup
BY LockInit, LockStep, PTL DEF Spec, LockInv

(* The counters are at all times the numbers of users they stand for.        *)
THEOREM CountersAreRight == Spec => []CountersCount
BY LockInit, LockStep, PTL DEF Spec, LockInv

-----------------------------------------------------------------------------
(* What the counters say of the users.                                      *)

LEMMA NobodyThere ==
  ASSUME NEW place, Count(place) = 0
  PROVE  \A u \in Users : pc[u] # place
BY CountPositive

(* Two users at one place are counted as two.                               *)
LEMMA OnlyOne ==
  ASSUME NEW u \in Users, NEW v \in Users, u # v, pc[v] = pc[u]
  PROVE  Count(pc[u]) > 1
<1>1. u \in InPlace(pc[u]) /\ v \in InPlace(pc[u])
  BY DEF InPlace
<1>2. CASE Count(pc[u]) = 1
  <2>1. PICK x : InPlace(pc[u]) = {x}
    BY <1>2, PlacesFinite, FS_Singleton DEF Count
  <2> QED
    BY <1>1, <2>1
<1> QED
  BY <1>2, CountPositive, PlacesFinite

LEMMA Excludes ==
  ASSUME LockInv
  PROVE  Exclusion
<1> SUFFICES ASSUME NEW u \in Users, NEW v \in Users, pc[u] = "writing", v # u,
                    pc[v] \in {"reading", "writing"}
             PROVE  FALSE
  BY DEF Exclusion
<1>1. writer = Count("writing") /\ reader = Count("reading") /\ writer \in Nat /\ reader \in Nat
  BY DEF LockInv, CountersCount, Count, TypeOK
<1>2. writer = 1 /\ reader = 0
  BY <1>1, CountPositive DEF LockInv, WriterAlone
<1>3. CASE pc[v] = "reading"
  BY <1>1, <1>2, <1>3, CountPositive
<1>4. CASE pc[v] = "writing"
  BY <1>1, <1>2, <1>4, OnlyOne
<1> QED
  BY <1>3, <1>4

(* A writer is alone, for any finite set of users.                          *)
THEOREM WriterIsAlone == Spec => []Exclusion
BY LockInit, LockStep, Excludes, PTL DEF Spec

-----------------------------------------------------------------------------
(* RWLock implements ReadWriteLock.                                         *)

Shown == [u \in Users |-> StateOf[pc[u]]]

LEMMA StateOfPlaces ==
  /\ StateOf["out"] = "out" /\ StateOf["reading"] = "reading"
  /\ StateOf["writing"] = "writing" /\ StateOf["lockRead"] = "wantRead"
  /\ StateOf["lockWrite"] = "wantWrite"
BY DEF StateOf

LEMMA GuardsAgree ==
  ASSUME LockInv
  PROVE  /\ ~ReadBlocked => Lock!Nobody("writing") /\ Lock!Nobody("wantWrite")
         /\ ~WriteBlocked => Lock!Nobody("writing") /\ Lock!Nobody("reading")
<1>1. /\ reader = Count("reading") /\ writer = Count("writing")
      /\ pending = Count("lockWrite")
      /\ reader \in Nat /\ writer \in Nat /\ pending \in Nat
  BY DEF LockInv, CountersCount, Count, TypeOK
<1>2. \A u \in Users : pc[u] \in Places
  BY DEF LockInv, TypeOK
<1>3. \A u \in Users : pc[u] # "writing" => StateOf[pc[u]] # "writing"
  BY <1>2, StateOfPlaces DEF Places
<1>4. \A u \in Users : pc[u] # "reading" => StateOf[pc[u]] # "reading"
  BY <1>2, StateOfPlaces DEF Places
<1>5. \A u \in Users : pc[u] # "lockWrite" => StateOf[pc[u]] # "wantWrite"
  BY <1>2, StateOfPlaces DEF Places
<1>6. ~ReadBlocked => \A u \in Users : pc[u] # "writing" /\ pc[u] # "lockWrite"
  BY <1>1, CountPositive DEF ReadBlocked
<1>7. ~WriteBlocked => \A u \in Users : pc[u] # "writing" /\ pc[u] # "reading"
  BY <1>1, CountPositive DEF WriteBlocked
<1>8. \A u \in Users : [v \in Users |-> StateOf[pc[v]]][u] = StateOf[pc[u]]
  OBVIOUS
<1>9. ASSUME \A u \in Users : pc[u] # "writing" PROVE Lock!Nobody("writing")
  <2>1. \A u \in Users : StateOf[pc[u]] # "writing"
    BY <1>3, <1>9
  <2>2. \A u \in Users : [v \in Users |-> StateOf[pc[v]]][u] # "writing"
    BY <2>1, <1>8
  <2> QED
    BY <2>2 DEF Lock!Nobody
<1>10. ASSUME \A u \in Users : pc[u] # "lockWrite" PROVE Lock!Nobody("wantWrite")
  <2>1. \A u \in Users : StateOf[pc[u]] # "wantWrite"
    BY <1>5, <1>10
  <2>2. \A u \in Users : [v \in Users |-> StateOf[pc[v]]][u] # "wantWrite"
    BY <2>1, <1>8
  <2> QED
    BY <2>2 DEF Lock!Nobody
<1>11. ASSUME \A u \in Users : pc[u] # "reading" PROVE Lock!Nobody("reading")
  <2>1. \A u \in Users : StateOf[pc[u]] # "reading"
    BY <1>4, <1>11
  <2>2. \A u \in Users : [v \in Users |-> StateOf[pc[v]]][u] # "reading"
    BY <2>1, <1>8
  <2> QED
    BY <2>2 DEF Lock!Nobody
<1>12. ~ReadBlocked => Lock!Nobody("writing") /\ Lock!Nobody("wantWrite")
  BY <1>6, <1>9, <1>10
<1>13. ~WriteBlocked => Lock!Nobody("writing") /\ Lock!Nobody("reading")
  BY <1>7, <1>9, <1>11
<1> QED
  BY <1>12, <1>13

LEMMA MoveShows ==
  ASSUME NEW u \in Users, NEW place \in Places, TypeOK, Goto(u, place),
         NEW from, StateOf[pc[u]] \in from
  PROVE  Lock!Become(u, from, StateOf[place])
<1>1. [v \in Users |-> StateOf[pc[v]]]'
        = [[v \in Users |-> StateOf[pc[v]]] EXCEPT ![u] = StateOf[place]]
  BY DEF Goto, TypeOK
<1> QED
  BY <1>1 DEF Lock!Become

(* Every step of the counters and the condition variable is a step of the    *)
(* lock: a reader enters only when nobody writes or waits to write, a writer *)
(* only when nobody else has the lock.                                       *)
THEOREM ImplementsLock == Spec => LockSpec
<1>1. Init => Lock!Init
  BY DEF Init, Lock!Init, StateOf
<1>2. LockInv /\ [Next]_vars => [Lock!Next]_Shown
  <2> SUFFICES ASSUME LockInv, [Next]_vars PROVE [Lock!Next]_Shown
    OBVIOUS
  <2>0. TypeOK
    BY DEF LockInv
  <2>1. CASE UNCHANGED pc
    BY <2>1 DEF Shown
  <2>2. ASSUME NEW u \in Users, SleepInLockRead(u) PROVE [Lock!Next]_Shown
    <3>1. CASE pc[u] = "out"
      <4>1. Lock!WaitToRead(u)
        BY <2>0, <2>2, <3>1, MoveShows, StateOfPlaces
        DEF SleepInLockRead, Lock!WaitToRead, Places
      <4> QED
        BY <4>1 DEF Lock!Next
    <3>2. CASE pc[u] = "lockRead"
      BY <2>0, <2>1, <2>2, <3>2 DEF SleepInLockRead, Goto, TypeOK
    <3> QED
      BY <2>2, <3>1, <3>2 DEF SleepInLockRead
  <2>3. ASSUME NEW u \in Users, PassLockRead(u) PROVE [Lock!Next]_Shown
    <3>1. Lock!Read(u)
      BY <2>0, <2>3, GuardsAgree, MoveShows, StateOfPlaces
      DEF PassLockRead, Lock!Read, Places
    <3> QED
      BY <3>1 DEF Lock!Next
  <2>4. ASSUME NEW u \in Users, UnlockRead(u) \/ UnlockWrite(u) PROVE [Lock!Next]_Shown
    <3>1. Lock!Leave(u)
      BY <2>0, <2>4, MoveShows, StateOfPlaces
      DEF UnlockRead, UnlockWrite, Lock!Leave, Places
    <3> QED
      BY <3>1 DEF Lock!Next
  <2>5. ASSUME NEW u \in Users, CallLockWrite(u) PROVE [Lock!Next]_Shown
    <3>1. CASE WriteBlocked
      <4>1. Lock!WaitToWrite(u)
        BY <2>0, <2>5, <3>1, MoveShows, StateOfPlaces
        DEF CallLockWrite, Lock!WaitToWrite, Places
      <4> QED
        BY <4>1 DEF Lock!Next
    <3>2. CASE ~WriteBlocked
      <4>1. Lock!Write(u)
        BY <2>0, <2>5, <3>2, GuardsAgree, MoveShows, StateOfPlaces
        DEF CallLockWrite, Lock!Write, Places
      <4> QED
        BY <4>1 DEF Lock!Next
    <3> QED
      BY <3>1, <3>2
  <2>6. ASSUME NEW u \in Users, PassLockWrite(u) PROVE [Lock!Next]_Shown
    <3>1. Lock!Write(u)
      BY <2>0, <2>6, GuardsAgree, MoveShows, StateOfPlaces
      DEF PassLockWrite, Lock!Write, Places
    <3> QED
      BY <3>1 DEF Lock!Next
  <2>7. ASSUME NEW u \in Users, SleepInLockWrite(u) \/ WakeSpuriously(u)
        PROVE  UNCHANGED pc
    BY <2>7 DEF SleepInLockWrite, WakeSpuriously
  <2> QED
    BY <2>1, <2>2, <2>3, <2>4, <2>5, <2>6, <2>7 DEF Next, Call, Recheck, Unlock, vars
<1> QED
  BY <1>1, <1>2, LockInit, LockStep, PTL DEF Spec, LockSpec, Lock!Spec, Shown

-----------------------------------------------------------------------------
(* Every step of the pool is a step of the lock or leaves it alone.         *)

LEMMA PoolStepIsLockStep ==
  ASSUME TypeOK, NEW u \in Users, Step(u), pc[u] \in Places
  PROVE  [Next]_vars
<1>1. CASE LockRead(u)
  <2>1. Call(u) \/ Recheck(u)
    BY <1>1 DEF LockRead, SleepInLockRead, PassLockRead, Call, Recheck
  <2> QED
    BY <2>1 DEF Next
<1>2. CASE LockWrite(u)
  <2>1. Call(u) \/ Recheck(u)
    BY <1>2 DEF LockWrite, CallLockWrite, SleepInLockWrite, PassLockWrite, Call, Recheck
  <2> QED
    BY <2>1 DEF Next
<1>3. CASE GiveUp(u) \/ UnlockBack(u) \/ Unblockade(u)
  <2>1. Unlock(u)
    BY <1>3 DEF GiveUp, UnlockBack, Unblockade, Unlock
  <2> QED
    BY <2>1 DEF Next
<1>4. CASE PopBack(u) \/ Generate(u) \/ CountOne(u) \/ PushNew(u) \/ Use(u)
  BY <1>4 DEF PopBack, Generate, CountOne, PushNew, Use
<1>5. CASE PushBack(u) \/ Release(u) \/ Clear(u)
  BY <1>5 DEF PushBack, Release, Clear
<1> QED
  BY <1>1, <1>2, <1>3, <1>4, <1>5 DEF Step

LEMMA PoolNextIsLockNext == TypeOK /\ [PoolNext]_poolVars => [Next]_vars
<1> SUFFICES ASSUME TypeOK, [PoolNext]_poolVars PROVE [Next]_vars
  OBVIOUS
<1>1. CASE UNCHANGED poolVars
  BY <1>1 DEF poolVars
<1>2. ASSUME NEW u \in Users, NEW j \in Jobs[u], Begin(u, j) PROVE [Next]_vars
  BY <1>2 DEF Begin
<1>3. ASSUME NEW u \in Users, Commit(u) \/ Rollback(u) PROVE [Next]_vars
  BY <1>3 DEF Commit, Rollback
<1>4. ASSUME NEW u \in Users, Step(u) PROVE [Next]_vars
  BY <1>4, PoolStepIsLockStep DEF TypeOK
<1>5. ASSUME NEW u \in Users, Wake(u) PROVE [Next]_vars
  BY <1>5 DEF Wake, Next
<1> QED
  BY <1>1, <1>2, <1>3, <1>4, <1>5 DEF PoolNext

LEMMA PoolLockInv == PoolSpec => []LockInv /\ [][Next]_vars
<1>1. PoolInit => LockInv
  BY LockInit DEF PoolInit
<1>2. LockInv /\ [PoolNext]_poolVars => LockInv' /\ [Next]_vars
  BY PoolNextIsLockNext, LockStep DEF LockInv
<1> QED
  BY <1>1, <1>2, PTL DEF PoolSpec

(* What the pool does to its lock are calls of the lock, made as the lock    *)
(* asks: what is proved of RWLock holds in the pool.                        *)
THEOREM PoolUsesLock == PoolSpec => Spec
<1>1. PoolInit => Init
  BY DEF PoolInit
<1> QED
  BY <1>1, PoolLockInv, PTL DEF Spec, PoolSpec

(* In the pool nobody sleeps who could go on.                               *)
THEOREM PoolLosesNoWakeup == PoolSpec => []NoLostWakeup
BY PoolUsesLock, NoWakeupIsLost, PTL

(* The pool's threads see an abstract read-write lock.                      *)
THEOREM PoolSeesLock == PoolSpec => LockSpec
BY PoolUsesLock, ImplementsLock
-----------------------------------------------------------------------------
(* The handles.                                                             *)

WithHandle == {"use", "bound", "push", "back", "release"}
WithoutHandle == {"idle", "lockRead", "lockWrite", "locked", "generate", "fail", "onClosed"}
Spots == WithHandle \cup WithoutHandle \cup {"count", "unlock"}

PoolTypeOK ==
  /\ handles \in Seq(Handles) /\ open \subseteq Handles
  /\ held \in [Users -> Handles \cup {NoHandle}]
  /\ at \in [Users -> Spots]
  /\ job \in [Users -> Calls \cup {"none", "unbind"}]

(* Where a thread is tells which side of the lock it has and whether it has  *)
(* a handle in hand.                                                        *)
Settled(u) ==
  /\ at[u] \in {"generate", "count", "use", "bound", "push", "fail", "back", "unlock"} =>
       pc[u] = "reading"
  /\ at[u] = "locked" => pc[u] = IF job[u] = "close" THEN "writing" ELSE "reading"
  /\ at[u] = "onClosed" => pc[u] = "writing"
  /\ at[u] \in {"idle", "release"} => pc[u] = "out"
  /\ at[u] = "lockRead" => job[u] # "close" /\ pc[u] \in {"out", "lockRead"}
  /\ at[u] = "lockWrite" => job[u] = "close" /\ pc[u] \in {"out", "lockWrite"}
  /\ (at[u] = "generate" => job[u] # "fill") /\ (at[u] = "push" => job[u] = "fill")
  /\ at[u] \in WithHandle \/ (at[u] = "count" /\ job[u] # "fill") => held[u] # NoHandle
  /\ at[u] \in WithoutHandle \/ (at[u] = "count" /\ job[u] = "fill") => held[u] = NoHandle

InHand == {held[u] : u \in Users} \ {NoHandle}

(* Every open connection is in the list or in a hand.                       *)
Accounted == open = Free \cup InHand

Drained == \A u \in Users : at[u] = "onClosed" => handles = <<>>

PoolInv ==
  /\ LockInv /\ PoolTypeOK /\ (\A u \in Users : Settled(u))
  /\ HeldAlone /\ Accounted /\ Drained

(* The lists, as sets.                                                      *)
LEMMA HandlesFacts ==
  ASSUME PoolTypeOK
  PROVE  /\ Len(handles) \in Nat /\ DOMAIN handles = 1..Len(handles)
         /\ \A i \in 1..Len(handles) : handles[i] \in Handles
         /\ handles # <<>> => Len(handles) \in 1..Len(handles)
         /\ Free \subseteq Handles /\ NoHandle \notin Handles
<1>1. handles \in Seq(Handles)
  BY DEF PoolTypeOK
<1>2. Len(handles) \in Nat /\ DOMAIN handles = 1..Len(handles)
  BY <1>1, LenProperties
<1>3. \A i \in 1..Len(handles) : handles[i] \in Handles
  BY <1>1, ElementOfSeq
<1>4. handles # <<>> => Len(handles) # 0
  BY <1>1, EmptySeq
<1> QED
  BY <1>2, <1>3, <1>4, PoolAssumption DEF Free, NoHandle

LEMMA BelowLast ==
  \A n \in Nat \ {0} :
    /\ n \in 1..n
    /\ \A i \in 1..(n - 1) : i \in 1..n /\ i # n
    /\ \A i \in 1..n : i = n \/ i \in 1..(n - 1)
OBVIOUS

LEMMA LastTaken ==
  ASSUME PoolTypeOK, HeldAlone, handles # <<>>, handles' = WithoutLast
  PROVE  /\ handles' \in Seq(Handles)
         /\ Free' = Free \ {handles[Len(handles)]}
         /\ handles[Len(handles)] \in Free
         /\ \A i, j \in DOMAIN handles' : handles'[i] = handles'[j] => i = j
<1> DEFINE n == Len(handles)
<1>1. /\ n \in Nat \ {0} /\ DOMAIN handles = 1..n
      /\ handles \in Seq(Handles)
  BY HandlesFacts DEF PoolTypeOK
<1>2. handles' = SubSeq(handles, 1, n - 1)
  BY DEF WithoutLast
<1>3. /\ handles' \in Seq(Handles)
      /\ DOMAIN handles' = 1..(n - 1)
      /\ \A i \in 1..(n - 1) : handles'[i] = handles[i]
  BY <1>1, <1>2, SubSeqProperties
<1>4. \A i \in 1..(n - 1) : i \in 1..n /\ i # n
  BY <1>1, BelowLast, Zenon
<1>5. \A i \in 1..n : i = n \/ i \in 1..(n - 1)
  BY <1>1, BelowLast, Zenon
<1>6. \A i, j \in 1..n : handles[i] = handles[j] => i = j
  BY <1>1 DEF HeldAlone
<1>7. n \in 1..n
  BY <1>1
<1> HIDE DEF n
<1>8. Free' = {handles[i] : i \in 1..(n - 1)}
  BY <1>3 DEF Free
<1>9. Free = {handles[i] : i \in 1..n}
  BY <1>1 DEF Free
<1>10. Free' = Free \ {handles[n]}
  BY <1>4, <1>5, <1>6, <1>7, <1>8, <1>9
<1>11. \A i, j \in DOMAIN handles' : handles'[i] = handles'[j] => i = j
  BY <1>3, <1>4, <1>6
<1> QED
  BY <1>3, <1>7, <1>9, <1>10, <1>11 DEF n

LEMMA OneAppended ==
  ASSUME PoolTypeOK, HeldAlone, NEW h \in Handles, h \notin Free, handles' = Append(handles, h)
  PROVE  /\ handles' \in Seq(Handles)
         /\ Free' = Free \cup {h}
         /\ \A i, j \in DOMAIN handles' : handles'[i] = handles'[j] => i = j
<1> DEFINE n == Len(handles)
<1>1. n \in Nat /\ DOMAIN handles = 1..n /\ handles \in Seq(Handles)
  BY HandlesFacts DEF PoolTypeOK
<1>2. /\ handles' \in Seq(Handles)
      /\ DOMAIN handles' = 1..(n + 1)
      /\ \A i \in 1..n : handles'[i] = handles[i]
      /\ handles'[n + 1] = h
  BY <1>1, AppendProperties
<1>3. \A i \in 1..(n + 1) : i = n + 1 \/ i \in 1..n
  BY <1>1
<1>4. n + 1 \in 1..(n + 1) /\ \A i \in 1..n : i \in 1..(n + 1)
  BY <1>1
<1>5. \A i, j \in 1..n : handles[i] = handles[j] => i = j
  BY <1>1 DEF HeldAlone
<1>6. Free = {handles[i] : i \in 1..n}
  BY <1>1 DEF Free
<1> HIDE DEF n
<1>7. Free' = {handles'[i] : i \in 1..(n + 1)}
  BY <1>2 DEF Free
<1>8. Free' = Free \cup {h}
  BY <1>2, <1>3, <1>4, <1>6, <1>7
<1>9. ASSUME NEW i \in 1..(n + 1), NEW j \in 1..(n + 1), handles'[i] = handles'[j]
      PROVE  i = j
  <2>1. \A k \in 1..n : handles'[k] # h
    BY <1>2, <1>6
  <2> QED
    BY <1>2, <1>3, <1>5, <1>9, <2>1
<1> QED
  BY <1>2, <1>8, <1>9

-----------------------------------------------------------------------------
(* What the steps do to the handles: nothing, or one of five things.        *)

Owned == HeldAlone /\ Accounted

LEMMA Keeping ==
  ASSUME Owned, UNCHANGED <<handles, open, held>>
  PROVE  Owned'
BY DEF Owned, HeldAlone, Accounted, Free, InHand

(* A thread takes the last of the list.                                     *)
LEMMA Taking ==
  ASSUME PoolTypeOK, Owned, NEW u \in Users, held[u] = NoHandle, handles # <<>>,
         held' = [held EXCEPT ![u] = handles[Len(handles)]],
         handles' = WithoutLast, open' = open
  PROVE  Owned' /\ handles' \in Seq(Handles) /\ held' \in [Users -> Handles \cup {NoHandle}]
<1> DEFINE h == handles[Len(handles)]
<1>0. HeldAlone /\ Accounted
  BY DEF Owned
<1>1. /\ handles' \in Seq(Handles) /\ Free' = Free \ {h} /\ h \in Free
      /\ \A i, j \in DOMAIN handles' : handles'[i] = handles'[j] => i = j
  BY <1>0, LastTaken
<1>2. h \in Handles /\ h # NoHandle
  BY <1>1, HandlesFacts
<1> HIDE DEF h
<1>3. held \in [Users -> Handles \cup {NoHandle}] /\ held' = [held EXCEPT ![u] = h]
  BY DEF PoolTypeOK, h
<1>4. held'[u] = h /\ \A v \in Users : v # u => held'[v] = held[v]
  BY <1>3
<1>5. \A v \in Users : held[v] # h
  BY <1>0, <1>1 DEF HeldAlone
<1>6. HeldAlone'
  <2>1. \A v, w \in Users : held'[v] # NoHandle /\ v # w => held'[v] # held'[w]
    BY <1>0, <1>4, <1>5 DEF HeldAlone, NoHandle
  <2>2. \A v \in Users : held'[v] \notin Free'
    BY <1>0, <1>1, <1>4 DEF HeldAlone
  <2> QED
    BY <1>1, <2>1, <2>2 DEF HeldAlone, NoHandle
<1>7. InHand' = InHand \cup {h}
  BY <1>2, <1>4 DEF InHand, NoHandle
<1>8. Accounted'
  BY <1>0, <1>1, <1>7 DEF Accounted
<1> QED
  BY <1>1, <1>2, <1>3, <1>6, <1>8 DEF Owned

(* A thread opens a connection.                                             *)
LEMMA Opening ==
  ASSUME PoolTypeOK, Owned, NEW u \in Users, held[u] = NoHandle, NEW h \in Handles, h \notin open,
         held' = [held EXCEPT ![u] = h], open' = open \cup {h}, handles' = handles
  PROVE  Owned' /\ open' \subseteq Handles /\ held' \in [Users -> Handles \cup {NoHandle}]
<1>0. HeldAlone /\ Accounted
  BY DEF Owned
<1>1. h # NoHandle
  BY HandlesFacts
<1>2. held \in [Users -> Handles \cup {NoHandle}] /\ open \subseteq Handles
  BY DEF PoolTypeOK
<1>3. held'[u] = h /\ \A v \in Users : v # u => held'[v] = held[v]
  BY <1>2
<1>4. h \notin Free /\ \A v \in Users : held[v] # h
  BY <1>0, <1>1 DEF Accounted, InHand
<1>5. Free' = Free
  BY DEF Free
<1>6. HeldAlone'
  <2>1. \A v, w \in Users : held'[v] # NoHandle /\ v # w => held'[v] # held'[w]
    BY <1>0, <1>3, <1>4 DEF HeldAlone, NoHandle
  <2>2. \A v \in Users : held'[v] \notin Free'
    BY <1>0, <1>3, <1>4, <1>5 DEF HeldAlone
  <2> QED
    BY <1>0, <2>1, <2>2 DEF HeldAlone, NoHandle
<1>7. InHand' = InHand \cup {h}
  BY <1>1, <1>3 DEF InHand, NoHandle
<1> QED
  BY <1>0, <1>2, <1>5, <1>6, <1>7 DEF Owned, Accounted

(* A thread without a handle in hand.                                       *)
LEMMA HandEmptied ==
  ASSUME PoolTypeOK, HeldAlone, NEW u \in Users, held[u] # NoHandle,
         held' = [held EXCEPT ![u] = NoHandle]
  PROVE  /\ held' \in [Users -> Handles \cup {NoHandle}]
         /\ held'[u] = NoHandle /\ \A v \in Users : v # u => held'[v] = held[v]
         /\ InHand' = InHand \ {held[u]}
         /\ \A v, w \in Users : held'[v] # NoHandle /\ v # w => held'[v] # held'[w]
         /\ \A v \in Users : held'[v] # held[u]
         /\ held[u] \in Handles /\ held[u] \in InHand /\ held[u] \notin Free
<1>1. held \in [Users -> Handles \cup {NoHandle}]
  BY DEF PoolTypeOK
<1>2. held'[u] = NoHandle /\ \A v \in Users : v # u => held'[v] = held[v]
  BY <1>1
<1>3. \A v \in Users : v # u => held[v] # held[u]
  BY DEF HeldAlone
<1>4. InHand' = InHand \ {held[u]}
  BY <1>2, <1>3 DEF InHand, NoHandle
<1> QED
  BY <1>1, <1>2, <1>3, <1>4 DEF HeldAlone, InHand, NoHandle

(* A thread puts its handle at the end of the list.                         *)
LEMMA Returning ==
  ASSUME PoolTypeOK, Owned, NEW u \in Users, held[u] # NoHandle,
         held' = [held EXCEPT ![u] = NoHandle],
         handles' = Append(handles, held[u]), open' = open
  PROVE  Owned' /\ handles' \in Seq(Handles) /\ held' \in [Users -> Handles \cup {NoHandle}]
<1>0. HeldAlone /\ Accounted
  BY DEF Owned
<1>1. /\ held' \in [Users -> Handles \cup {NoHandle}]
      /\ \A v \in Users : held'[v] = NoHandle \/ held'[v] = held[v]
      /\ InHand' = InHand \ {held[u]}
      /\ \A v, w \in Users : held'[v] # NoHandle /\ v # w => held'[v] # held'[w]
      /\ \A v \in Users : held'[v] # held[u]
      /\ held[u] \in Handles /\ held[u] \in InHand /\ held[u] \notin Free
  BY <1>0, HandEmptied
<1>2. /\ handles' \in Seq(Handles) /\ Free' = Free \cup {held[u]}
      /\ \A i, j \in DOMAIN handles' : handles'[i] = handles'[j] => i = j
  BY <1>0, <1>1, OneAppended
<1>3. NoHandle \notin Free
  BY HandlesFacts
<1>4. \A v \in Users : held'[v] \notin Free'
  BY <1>0, <1>1, <1>2, <1>3 DEF HeldAlone
<1>5. HeldAlone'
  BY <1>1, <1>2, <1>4 DEF HeldAlone, NoHandle
<1>6. Accounted'
  BY <1>0, <1>1, <1>2 DEF Accounted
<1> QED
  BY <1>1, <1>2, <1>5, <1>6 DEF Owned

(* A thread closes the connection it has in hand.                           *)
LEMMA Shutting ==
  ASSUME PoolTypeOK, Owned, NEW u \in Users, held[u] # NoHandle,
         held' = [held EXCEPT ![u] = NoHandle],
         open' = open \ {held[u]}, handles' = handles
  PROVE  Owned' /\ open' \subseteq Handles /\ held' \in [Users -> Handles \cup {NoHandle}]
<1>0. HeldAlone /\ Accounted
  BY DEF Owned
<1>1. /\ held' \in [Users -> Handles \cup {NoHandle}]
      /\ \A v \in Users : held'[v] = NoHandle \/ held'[v] = held[v]
      /\ InHand' = InHand \ {held[u]}
      /\ \A v, w \in Users : held'[v] # NoHandle /\ v # w => held'[v] # held'[w]
      /\ held[u] \in Handles /\ held[u] \notin Free
  BY <1>0, HandEmptied
<1>2. Free' = Free /\ NoHandle \notin Free
  BY HandlesFacts DEF Free
<1>3. \A v \in Users : held'[v] \notin Free'
  BY <1>0, <1>1, <1>2 DEF HeldAlone
<1>4. HeldAlone'
  BY <1>0, <1>1, <1>3 DEF HeldAlone, NoHandle
<1>5. Accounted'
  BY <1>0, <1>1, <1>2 DEF Accounted
<1> QED
  BY <1>1, <1>4, <1>5 DEF Owned, PoolTypeOK

(* The list is emptied and its connections are closed.                      *)
LEMMA Clearing ==
  ASSUME PoolTypeOK, Owned, handles' = <<>>, open' = open \ Free, held' = held
  PROVE  Owned' /\ handles' \in Seq(Handles) /\ open' \subseteq Handles
<1>0. HeldAlone /\ Accounted
  BY DEF Owned
<1>1. handles' \in Seq(Handles) /\ DOMAIN handles' = {}
  BY EmptySeq
<1>2. Free' = {}
  BY <1>1 DEF Free
<1>3. InHand' = InHand /\ InHand \cap Free = {}
  BY <1>0 DEF InHand, HeldAlone
<1>4. HeldAlone' /\ Accounted'
  BY <1>0, <1>1, <1>2, <1>3 DEF HeldAlone, Accounted, NoHandle
<1> QED
  BY <1>1, <1>4 DEF Owned, PoolTypeOK

-----------------------------------------------------------------------------
(* Every step keeps the invariant.                                          *)

OnlyMoves(u) ==
  \A v \in Users \ {u} :
    at'[v] = at[v] /\ job'[v] = job[v] /\ pc'[v] = pc[v] /\ held'[v] = held[v]

(* What a step of one thread must show: where it is then agrees with what it *)
(* has, and the list changes only in the hands of a reader, or to be empty.  *)
LEMMA Moved ==
  ASSUME PoolInv, LockInv', PoolTypeOK', Owned',
         NEW u \in Users, OnlyMoves(u), Settled(u)',
         at'[u] = "onClosed" => handles' = <<>>,
         handles' = handles \/ handles' = <<>> \/ pc[u] = "reading"
  PROVE  PoolInv'
<1>1. \A v \in Users : Settled(v)'
  <2> SUFFICES ASSUME NEW v \in Users, v # u PROVE Settled(v)'
    OBVIOUS
  <2>1. Settled(v)
    BY DEF PoolInv
  <2>2. at'[v] = at[v] /\ job'[v] = job[v] /\ pc'[v] = pc[v] /\ held'[v] = held[v]
    BY DEF OnlyMoves
  <2> QED
    BY <2>1, <2>2 DEF Settled, NoHandle
<1>2. pc[u] = "reading" => \A v \in Users : at[v] # "onClosed"
  BY Excludes DEF PoolInv, Settled, Exclusion
<1>3. Drained'
  BY <1>2 DEF Drained, OnlyMoves, PoolInv
<1> QED
  BY <1>1, <1>3 DEF PoolInv, Owned

LEMMA InvFacts ==
  ASSUME PoolInv
  PROVE  /\ PoolTypeOK /\ Owned /\ \A u \in Users : Settled(u)
         /\ pc \in [Users -> Places] /\ at \in [Users -> Spots]
         /\ job \in [Users -> Calls \cup {"none", "unbind"}]
         /\ held \in [Users -> Handles \cup {NoHandle}]
BY DEF PoolInv, Owned, LockInv, TypeOK, PoolTypeOK

(* The steps that leave the handles where they are.                         *)
LEMMA MovedOnly ==
  ASSUME PoolInv, LockInv', NEW u \in Users, UNCHANGED <<handles, open, held>>,
         NEW place \in Spots \ {"onClosed"}, Go(u, place),
         NEW j \in Calls \cup {"none", "unbind"}, job' = [job EXCEPT ![u] = j],
         NEW p, pc' = [pc EXCEPT ![u] = p], Settled(u)'
  PROVE  PoolInv'
<1>1. OnlyMoves(u)
  BY InvFacts DEF OnlyMoves, Go
<1>2. PoolTypeOK'
  BY InvFacts DEF PoolTypeOK, Go
<1>3. Owned'
  BY InvFacts, Keeping
<1>4. at'[u] # "onClosed"
  BY InvFacts DEF Go
<1> QED
  BY <1>1, <1>2, <1>3, <1>4, Moved

(* A step of this kind in the form the actions have it.                     *)
LEMMA Stays ==
  ASSUME PoolInv, NEW u \in Users
  PROVE  /\ UNCHANGED pc => pc' = [pc EXCEPT ![u] = pc[u]]
         /\ UNCHANGED job => job' = [job EXCEPT ![u] = job[u]]
         /\ UNCHANGED at => Go(u, at[u])
         /\ job[u] \in Calls \cup {"none", "unbind"} /\ at[u] \in Spots
         /\ at'[u] = at[u] /\ job'[u] = job[u] /\ pc'[u] = pc[u] /\ held'[u] = held[u] =>
              Settled(u)'
<1>1. Settled(u)
  BY InvFacts
<1>2. at'[u] = at[u] /\ job'[u] = job[u] /\ pc'[u] = pc[u] /\ held'[u] = held[u] => Settled(u)'
  BY <1>1 DEF Settled, NoHandle
<1> QED
  BY <1>2, InvFacts DEF Go

LEMMA BeginKeeps ==
  ASSUME PoolInv, LockInv', NEW u \in Users, NEW j \in Jobs[u], Begin(u, j)
  PROVE  PoolInv'
<1>1. j \in Calls /\ Settled(u)
  BY PoolAssumption, InvFacts
<1> DEFINE place == IF j = "close" THEN "lockWrite" ELSE "lockRead"
<1>2. /\ Go(u, place) /\ place \in Spots \ {"onClosed"}
      /\ job' = [job EXCEPT ![u] = j] /\ UNCHANGED <<handles, open, held>>
      /\ pc' = [pc EXCEPT ![u] = pc[u]] /\ at[u] = "idle"
  BY Stays DEF Begin, vars, pool, Spots, WithHandle, WithoutHandle
<1>3. at'[u] = place /\ job'[u] = j /\ pc'[u] = pc[u] /\ held'[u] = held[u]
  BY <1>2, InvFacts DEF Go
<1>4. pc[u] = "out" /\ held[u] = NoHandle
  BY <1>1, <1>2 DEF Settled, WithoutHandle
<1>5. Settled(u)'
  BY <1>3, <1>4 DEF Settled, WithHandle, WithoutHandle, NoHandle
<1> QED
  BY <1>1, <1>2, <1>5, MovedOnly

LEMMA EndingKeeps ==
  ASSUME PoolInv, LockInv', NEW u \in Users, Commit(u) \/ Rollback(u)
  PROVE  PoolInv'
<1>1. PICK j \in {"commit", "unbind"} :
        /\ Go(u, "back") /\ job' = [job EXCEPT ![u] = j]
        /\ UNCHANGED <<handles, open, held, pc>> /\ at[u] = "bound"
  BY DEF Commit, Rollback, vars, pool
<1>2. pc[u] = "reading" /\ held[u] # NoHandle
  BY <1>1, InvFacts DEF Settled, WithHandle
<1>3. at'[u] = "back" /\ job'[u] = j /\ pc'[u] = pc[u] /\ held'[u] = held[u]
  BY <1>1, InvFacts DEF Go
<1>4. Settled(u)'
  BY <1>2, <1>3 DEF Settled, WithHandle, WithoutHandle, NoHandle
<1> QED
  BY <1>1, <1>4, Stays, MovedOnly DEF Spots, WithHandle, Calls

LEMMA LockingKeeps ==
  ASSUME PoolInv, LockInv', NEW u \in Users, LockRead(u) \/ LockWrite(u)
  PROVE  PoolInv'
<1>1. UNCHANGED <<handles, open, held>> /\ job' = [job EXCEPT ![u] = job[u]]
  BY Stays DEF LockRead, LockWrite, pool
<1>2. Settled(u) /\ job[u] \in Calls \cup {"none", "unbind"}
  BY InvFacts, Stays
<1>3. held'[u] = held[u] /\ job'[u] = job[u]
  BY <1>1, InvFacts
<1>4. CASE LockRead(u)
  <2>1. at[u] = "lockRead" /\ held[u] = NoHandle /\ job[u] # "close"
    BY <1>2, <1>4 DEF LockRead, Settled, WithoutHandle
  <2>2. CASE SleepInLockRead(u) /\ UNCHANGED at
    <3>1. pc' = [pc EXCEPT ![u] = "lockRead"] /\ Go(u, "lockRead")
      BY <2>1, <2>2, Stays DEF SleepInLockRead, Goto
    <3>2. pc'[u] = "lockRead" /\ at'[u] = "lockRead"
      BY <3>1, InvFacts DEF Go
    <3>3. Settled(u)'
      BY <1>3, <2>1, <3>2 DEF Settled, WithHandle, WithoutHandle, NoHandle
    <3> QED
      BY <1>1, <1>2, <3>1, <3>3, MovedOnly DEF Spots, WithoutHandle
  <2>3. CASE PassLockRead(u) /\ Go(u, "locked")
    <3>1. pc' = [pc EXCEPT ![u] = "reading"] /\ Go(u, "locked")
      BY <2>3 DEF PassLockRead, Goto
    <3>2. pc'[u] = "reading" /\ at'[u] = "locked"
      BY <3>1, InvFacts DEF Go
    <3>3. Settled(u)'
      BY <1>3, <2>1, <3>2 DEF Settled, WithHandle, WithoutHandle, NoHandle
    <3> QED
      BY <1>1, <1>2, <3>1, <3>3, MovedOnly DEF Spots, WithoutHandle
  <2> QED
    BY <1>4, <2>2, <2>3 DEF LockRead
<1>5. CASE LockWrite(u)
  <2>1. at[u] = "lockWrite" /\ held[u] = NoHandle /\ job[u] = "close"
    BY <1>2, <1>5 DEF LockWrite, Settled, WithoutHandle
  <2>2. PICK p \in {"lockWrite", "writing"} : pc' = [pc EXCEPT ![u] = p]
    <3>1. CASE CallLockWrite(u)
      BY <3>1 DEF CallLockWrite, Goto
    <3>2. CASE SleepInLockWrite(u)
      BY <3>2, Stays DEF SleepInLockWrite
    <3>3. CASE PassLockWrite(u)
      BY <3>3 DEF PassLockWrite, Goto
    <3> QED
      BY <1>5, <3>1, <3>2, <3>3 DEF LockWrite
  <2>3. pc'[u] = p
    BY <2>2, InvFacts
  <2>4. CASE p = "writing"
    <3>1. Go(u, "locked")
      BY <1>5, <2>3, <2>4 DEF LockWrite
    <3>2. at'[u] = "locked"
      BY <3>1, InvFacts DEF Go
    <3>3. Settled(u)'
      BY <1>3, <2>1, <2>3, <2>4, <3>2 DEF Settled, WithHandle, WithoutHandle, NoHandle
    <3> QED
      BY <1>1, <1>2, <2>2, <3>1, <3>3, MovedOnly DEF Spots, WithoutHandle
  <2>5. CASE p = "lockWrite"
    <3>1. Go(u, "lockWrite")
      BY <1>5, <2>1, <2>3, <2>5, Stays DEF LockWrite
    <3>2. at'[u] = "lockWrite"
      BY <3>1, InvFacts DEF Go
    <3>3. Settled(u)'
      BY <1>3, <2>1, <2>3, <2>5, <3>2 DEF Settled, WithHandle, WithoutHandle, NoHandle
    <3> QED
      BY <1>1, <1>2, <2>2, <3>1, <3>3, MovedOnly DEF Spots, WithoutHandle
  <2> QED
    BY <2>4, <2>5
<1> QED
  BY <1>4, <1>5

(* Where the place and the handle in hand change, and perhaps the list.      *)
LEMMA Handled ==
  ASSUME PoolInv, LockInv', NEW u \in Users, UNCHANGED vars, UNCHANGED job,
         NEW place \in Spots, Go(u, place), at[u] # "idle",
         handles' \in Seq(Handles), open' \subseteq Handles, Owned',
         NEW h \in Handles \cup {NoHandle}, held' = [held EXCEPT ![u] = h],
         place = "onClosed" => handles' = <<>>,
         handles' = handles \/ handles' = <<>> \/ pc[u] = "reading",
         at'[u] = place /\ job'[u] = job[u] /\ pc'[u] = pc[u] /\ held'[u] = h => Settled(u)'
  PROVE  PoolInv'
<1>1. OnlyMoves(u)
  BY InvFacts DEF OnlyMoves, Go, vars
<1>2. PoolTypeOK'
  BY InvFacts DEF PoolTypeOK, Go
<1>3. at'[u] = place /\ job'[u] = job[u] /\ pc'[u] = pc[u] /\ held'[u] = h
  BY InvFacts DEF Go, vars
<1>4. Settled(u)'
  BY <1>3
<1> QED
  BY <1>1, <1>2, <1>3, <1>4, Moved

LEMMA PopBackKeeps ==
  ASSUME PoolInv, LockInv', NEW u \in Users, PopBack(u)
  PROVE  PoolInv'
<1>1. /\ at[u] = "locked" /\ job[u] \in {"exec", "begin", "rollback"}
      /\ UNCHANGED <<vars, job>> /\ open' = open
  BY DEF PopBack
<1>2. pc[u] = "reading" /\ held[u] = NoHandle
  BY <1>1, InvFacts DEF Settled, WithoutHandle
<1>3. CASE handles # <<>>
  <2> DEFINE h == handles[Len(handles)]
  <2>1. held' = [held EXCEPT ![u] = h] /\ handles' = WithoutLast /\ Go(u, "use")
    BY <1>3 DEF PopBack
  <2>2. h \in Handles
    BY <1>3, InvFacts, HandlesFacts
  <2>3. Owned' /\ handles' \in Seq(Handles)
    BY <1>1, <1>2, <1>3, <2>1, InvFacts, Taking
  <2>4. h # NoHandle
    BY <2>2, InvFacts, HandlesFacts
  <2> HIDE DEF h
  <2>5. at'[u] = "use" /\ pc'[u] = pc[u] /\ held'[u] = h => Settled(u)'
    BY <1>2, <2>4 DEF Settled, WithHandle, WithoutHandle, NoHandle
  <2>6. open' \subseteq Handles /\ "use" \in Spots
    BY <1>1, InvFacts DEF PoolTypeOK, Spots, WithHandle
  <2> QED
    BY <1>1, <1>2, <2>1, <2>2, <2>3, <2>5, <2>6, Handled
<1>4. CASE handles = <<>>
  <2>1. PICK place \in {"generate", "fail"} : Go(u, place)
    BY <1>4 DEF PopBack
  <2>2. UNCHANGED <<handles, held>>
    BY <1>4 DEF PopBack
  <2>3. /\ pc' = [pc EXCEPT ![u] = pc[u]] /\ job' = [job EXCEPT ![u] = job[u]]
        /\ job[u] \in Calls \cup {"none", "unbind"} /\ place \in Spots \ {"onClosed"}
    BY <1>1, <2>1, Stays DEF vars, Spots, WithoutHandle
  <2>4. at'[u] = place /\ job'[u] = job[u] /\ pc'[u] = pc[u] /\ held'[u] = held[u]
    BY <1>1, <2>1, <2>2, InvFacts DEF Go, vars
  <2>5. Settled(u)'
    BY <1>1, <1>2, <2>1, <2>4 DEF Settled, WithHandle, WithoutHandle, NoHandle
  <2> QED
    BY <1>1, <2>1, <2>2, <2>3, <2>5, MovedOnly
<1> QED
  BY <1>3, <1>4

LEMMA GenerateKeeps ==
  ASSUME PoolInv, LockInv', NEW u \in Users, Generate(u)
  PROVE  PoolInv'
<1>1. /\ UNCHANGED <<vars, job>> /\ handles' = handles
      /\ at[u] = "generate" \/ (at[u] = "locked" /\ job[u] = "fill")
  BY DEF Generate
<1>2. pc[u] = "reading" /\ held[u] = NoHandle /\ (at[u] = "generate" => job[u] # "fill")
  BY <1>1, InvFacts DEF Settled, WithoutHandle
<1>3. CASE /\ Handles \ open # {}
           /\ open' = open \cup {Opened} /\ held' = [held EXCEPT ![u] = Opened]
           /\ Go(u, IF job[u] = "fill" THEN "push" ELSE "count")
  <2>1. Opened \in Handles /\ Opened \notin open
    BY <1>3, Zenon DEF Opened
  <2> DEFINE place == IF job[u] = "fill" THEN "push" ELSE "count"
  <2>2. PICK h \in Handles : h = Opened
    BY <2>1
  <2>3. Owned' /\ open' \subseteq Handles
    BY <1>1, <1>2, <1>3, <2>1, <2>2, InvFacts, Opening
  <2>4. h # NoHandle /\ handles' \in Seq(Handles)
    BY <1>1, InvFacts, HandlesFacts DEF PoolTypeOK
  <2>5. at'[u] = place /\ job'[u] = job[u] /\ pc'[u] = pc[u] /\ held'[u] = h => Settled(u)'
    BY <1>2, <2>4 DEF Settled, WithHandle, WithoutHandle, NoHandle
  <2>6. place \in Spots /\ place # "onClosed" /\ at[u] # "idle"
    BY <1>1 DEF Spots, WithHandle
  <2>7. Go(u, place) /\ held' = [held EXCEPT ![u] = h]
    BY <1>3, <2>2
  <2> HIDE DEF place
  <2> QED
    BY <1>1, <2>3, <2>4, <2>5, <2>6, <2>7, Handled
<1>4. CASE Go(u, "fail") /\ UNCHANGED <<open, held>>
  <2>1. /\ pc' = [pc EXCEPT ![u] = pc[u]] /\ job' = [job EXCEPT ![u] = job[u]]
        /\ job[u] \in Calls \cup {"none", "unbind"} /\ "fail" \in Spots \ {"onClosed"}
    BY <1>1, Stays DEF vars, Spots, WithoutHandle
  <2>2. at'[u] = "fail" /\ job'[u] = job[u] /\ pc'[u] = pc[u] /\ held'[u] = held[u]
    BY <1>1, <1>4, InvFacts DEF Go, vars
  <2>3. Settled(u)'
    BY <1>2, <2>2 DEF Settled, WithHandle, WithoutHandle, NoHandle
  <2> QED
    BY <1>1, <1>4, <2>1, <2>3, MovedOnly
<1> QED
  BY <1>3, <1>4 DEF Generate

LEMMA CountOneKeeps ==
  ASSUME PoolInv, LockInv', NEW u \in Users, CountOne(u)
  PROVE  PoolInv'
<1> DEFINE place == IF job[u] = "fill" THEN "fail" ELSE "use"
<1>1. Go(u, place) /\ UNCHANGED <<vars, handles, open, held, job>> /\ at[u] = "count"
  BY DEF CountOne
<1>2. /\ pc[u] = "reading" /\ (job[u] = "fill" => held[u] = NoHandle)
      /\ (job[u] # "fill" => held[u] # NoHandle)
  BY <1>1, InvFacts DEF Settled
<1>3. /\ pc' = [pc EXCEPT ![u] = pc[u]] /\ job' = [job EXCEPT ![u] = job[u]]
      /\ job[u] \in Calls \cup {"none", "unbind"} /\ place \in Spots \ {"onClosed"}
  BY <1>1, Stays DEF vars, Spots, WithHandle, WithoutHandle
<1>4. at'[u] = place /\ job'[u] = job[u] /\ pc'[u] = pc[u] /\ held'[u] = held[u]
  BY <1>1, InvFacts DEF Go, vars
<1>5. Settled(u)'
  BY <1>2, <1>4 DEF Settled, WithHandle, WithoutHandle, NoHandle
<1> QED
  BY <1>1, <1>3, <1>5, MovedOnly

LEMMA PushNewKeeps ==
  ASSUME PoolInv, LockInv', NEW u \in Users, PushNew(u)
  PROVE  PoolInv'
<1>1. /\ at[u] = "push" /\ held' = [held EXCEPT ![u] = NoHandle]
      /\ UNCHANGED <<vars, job>>
  BY DEF PushNew
<1>2. pc[u] = "reading" /\ held[u] # NoHandle /\ job[u] = "fill"
  BY <1>1, InvFacts DEF Settled, WithHandle
<1>3. at'[u] \in {"count", "fail"} /\ job'[u] = job[u] /\ pc'[u] = pc[u] /\ held'[u] = NoHandle
        => Settled(u)'
  BY <1>2 DEF Settled, WithHandle, WithoutHandle, NoHandle
<1>4. {"count", "fail"} \subseteq Spots
  BY DEF Spots, WithoutHandle
<1>5. CASE handles' = Append(handles, held[u]) /\ Go(u, "count") /\ UNCHANGED <<open, owner>>
  <2>1. Owned' /\ handles' \in Seq(Handles) /\ open' \subseteq Handles
    BY <1>1, <1>2, <1>5, InvFacts, Returning DEF PoolTypeOK
  <2> QED
    BY <1>1, <1>2, <1>3, <1>4, <1>5, <2>1, Handled
<1>6. CASE Shut({held[u]}) /\ Go(u, "fail") /\ UNCHANGED handles
  <2>1. open' = open \ {held[u]}
    BY <1>6 DEF Shut
  <2>2. Owned' /\ handles' \in Seq(Handles) /\ open' \subseteq Handles
    BY <1>1, <1>2, <1>6, <2>1, InvFacts, Shutting DEF PoolTypeOK
  <2> QED
    BY <1>1, <1>2, <1>3, <1>4, <1>6, <2>2, Handled
<1> QED
  BY <1>5, <1>6 DEF PushNew

LEMMA UseKeeps ==
  ASSUME PoolInv, LockInv', NEW u \in Users, Use(u)
  PROVE  PoolInv'
<1>1. PICK place \in {"back", "bound"} :
        Go(u, place) /\ UNCHANGED <<vars, handles, open, held, job>> /\ at[u] = "use"
  BY DEF Use
<1>2. pc[u] = "reading" /\ held[u] # NoHandle
  BY <1>1, InvFacts DEF Settled, WithHandle
<1>3. /\ pc' = [pc EXCEPT ![u] = pc[u]] /\ job' = [job EXCEPT ![u] = job[u]]
      /\ job[u] \in Calls \cup {"none", "unbind"} /\ place \in Spots \ {"onClosed"}
  BY <1>1, Stays DEF vars, Spots, WithHandle
<1>4. at'[u] = place /\ job'[u] = job[u] /\ pc'[u] = pc[u] /\ held'[u] = held[u]
  BY <1>1, InvFacts DEF Go, vars
<1>5. Settled(u)'
  BY <1>2, <1>4 DEF Settled, WithHandle, WithoutHandle, NoHandle
<1> QED
  BY <1>1, <1>3, <1>5, MovedOnly

LEMMA PushBackKeeps ==
  ASSUME PoolInv, LockInv', NEW u \in Users, PushBack(u)
  PROVE  PoolInv'
<1>1. at[u] = "back" /\ Go(u, "unlock") /\ UNCHANGED <<vars, open, job>>
  BY DEF PushBack
<1>2. pc[u] = "reading" /\ held[u] # NoHandle
  BY <1>1, InvFacts DEF Settled, WithHandle
<1>3. at'[u] = "unlock" /\ job'[u] = job[u] /\ pc'[u] = pc[u] => Settled(u)'
  BY <1>2 DEF Settled, WithHandle, WithoutHandle
<1>4. "unlock" \in Spots /\ open' \subseteq Handles
  BY <1>1, InvFacts DEF Spots, PoolTypeOK
<1>5. CASE /\ handles' = Append(handles, held[u])
           /\ held' = [held EXCEPT ![u] = NoHandle]
  <2>1. Owned' /\ handles' \in Seq(Handles)
    BY <1>1, <1>2, <1>5, InvFacts, Returning
  <2> QED
    BY <1>1, <1>2, <1>3, <1>4, <1>5, <2>1, Handled
<1>6. CASE UNCHANGED <<handles, held>>
  <2>1. Owned' /\ handles' \in Seq(Handles)
    BY <1>1, <1>6, InvFacts, Keeping DEF PoolTypeOK
  <2>2. held' = [held EXCEPT ![u] = held[u]] /\ held[u] \in Handles \cup {NoHandle}
    BY <1>6, InvFacts
  <2> QED
    BY <1>1, <1>2, <1>3, <1>4, <1>6, <2>1, <2>2, Handled
<1> QED
  BY <1>5, <1>6 DEF PushBack

(* The steps that give the lock back.                                       *)
LEMMA UnlockingKeeps ==
  ASSUME PoolInv, LockInv', NEW u \in Users, GiveUp(u) \/ UnlockBack(u) \/ Unblockade(u)
  PROVE  PoolInv'
<1>1. UNCHANGED <<handles, open, held>> /\ pc' = [pc EXCEPT ![u] = "out"]
  BY DEF GiveUp, UnlockBack, Unblockade, UnlockRead, UnlockWrite, Goto, pool
<1>2. pc'[u] = "out" /\ held'[u] = held[u]
  BY <1>1, InvFacts
<1>3. CASE held[u] = NoHandle
  <2>1. PICK place \in {"idle", "lockRead"}, j \in {"none", "rollback"} :
          Go(u, place) /\ job' = [job EXCEPT ![u] = j]
    <3>1. CASE GiveUp(u) \/ Unblockade(u)
      BY <3>1 DEF GiveUp, Unblockade
    <3>2. CASE UnlockBack(u)
      BY <1>3, <3>2 DEF UnlockBack, Done
    <3> QED
      BY <3>1, <3>2
  <2>2. at'[u] = place /\ job'[u] = j
    BY <2>1, InvFacts DEF Go
  <2>3. Settled(u)'
    BY <1>2, <1>3, <2>1, <2>2 DEF Settled, WithHandle, WithoutHandle, NoHandle
  <2>4. place \in Spots \ {"onClosed"} /\ j \in Calls \cup {"none", "unbind"}
    BY <2>1 DEF Spots, WithoutHandle, Calls
  <2> QED
    BY <1>1, <2>1, <2>3, <2>4, MovedOnly
<1>4. CASE held[u] # NoHandle
  <2>1. UnlockBack(u)
    BY <1>4, InvFacts DEF GiveUp, Unblockade, Settled, WithoutHandle
  <2>2. Go(u, "release") /\ job' = [job EXCEPT ![u] = job[u]]
    BY <1>4, <2>1, Stays DEF UnlockBack
  <2>3. at'[u] = "release" /\ job'[u] = job[u]
    BY <2>2, InvFacts DEF Go
  <2>4. Settled(u)'
    BY <1>2, <1>4, <2>3 DEF Settled, WithHandle, WithoutHandle, NoHandle
  <2>5. "release" \in Spots \ {"onClosed"} /\ job[u] \in Calls \cup {"none", "unbind"}
    BY Stays DEF Spots, WithHandle
  <2> QED
    BY <1>1, <2>2, <2>4, <2>5, MovedOnly
<1> QED
  BY <1>3, <1>4

LEMMA ReleaseKeeps ==
  ASSUME PoolInv, LockInv', NEW u \in Users, Release(u)
  PROVE  PoolInv'
<1>1. /\ at[u] = "release" /\ held' = [held EXCEPT ![u] = NoHandle]
      /\ open' = open \ {held[u]} /\ UNCHANGED <<vars, handles>>
  BY DEF Release, Shut
<1>2. pc[u] = "out" /\ held[u] # NoHandle
  BY <1>1, InvFacts DEF Settled, WithHandle
<1>3. Owned' /\ open' \subseteq Handles /\ held' \in [Users -> Handles \cup {NoHandle}]
  BY <1>1, <1>2, InvFacts, Shutting
<1>4. PICK place \in {"idle", "lockRead"}, j \in {"none", "rollback"} :
        Go(u, place) /\ job' = [job EXCEPT ![u] = j]
  BY DEF Release, Done
<1>5. at'[u] = place /\ job'[u] = j /\ pc'[u] = "out" /\ held'[u] = NoHandle
  BY <1>1, <1>2, <1>4, InvFacts DEF Go, vars
<1>6. Settled(u)'
  BY <1>4, <1>5 DEF Settled, WithHandle, WithoutHandle, NoHandle
<1>7. PoolTypeOK'
  BY <1>1, <1>3, <1>4, InvFacts DEF PoolTypeOK, Go, Spots, WithoutHandle, Calls
<1>8. OnlyMoves(u)
  BY <1>1, <1>4, InvFacts DEF OnlyMoves, Go, vars
<1>9. at'[u] # "onClosed" /\ handles' = handles
  BY <1>1, <1>4, <1>5
<1> QED
  BY <1>3, <1>6, <1>7, <1>8, <1>9, Moved

LEMMA ClearKeeps ==
  ASSUME PoolInv, LockInv', NEW u \in Users, Clear(u)
  PROVE  PoolInv'
<1> DEFINE place == IF job[u] = "close" THEN "onClosed" ELSE "fail"
<1>1. /\ at[u] = "locked" /\ UNCHANGED <<vars, held, job>> /\ Go(u, place)
      /\ handles' = <<>> /\ open' = open \ Free
  BY DEF Clear, Shut
<1>2. /\ held[u] = NoHandle
      /\ pc[u] = IF job[u] = "close" THEN "writing" ELSE "reading"
  BY <1>1, InvFacts DEF Settled, WithoutHandle
<1>3. Owned' /\ handles' \in Seq(Handles) /\ open' \subseteq Handles
  BY <1>1, InvFacts, Clearing
<1>4. held' = [held EXCEPT ![u] = NoHandle]
  BY <1>1, <1>2, InvFacts
<1>5. at'[u] = place /\ job'[u] = job[u] /\ pc'[u] = pc[u] /\ held'[u] = NoHandle => Settled(u)'
  BY <1>2 DEF Settled, WithHandle, WithoutHandle, NoHandle
<1>6. place \in Spots
  BY DEF Spots, WithoutHandle
<1> HIDE DEF place
<1> QED
  BY <1>1, <1>3, <1>4, <1>5, <1>6, Handled

LEMMA PoolInvInit == PoolInit => PoolInv
<1> SUFFICES ASSUME PoolInit PROVE PoolInv
  OBVIOUS
<1>1. LockInv
  BY LockInit DEF PoolInit
<1>2. PoolTypeOK
  BY EmptySeq DEF PoolInit, PoolTypeOK, Spots, WithoutHandle
<1>3. ASSUME NEW u \in Users PROVE Settled(u)
  <2>1. at[u] = "idle" /\ pc[u] = "out" /\ held[u] = NoHandle
    BY DEF PoolInit, Init
  <2> QED
    BY <2>1 DEF Settled, WithHandle, WithoutHandle, NoHandle
<1>4. DOMAIN handles = {} /\ Free = {}
  BY EmptySeq DEF PoolInit, Free
<1>5. \A u \in Users : held[u] = NoHandle
  BY DEF PoolInit
<1>6. InHand = {}
  BY <1>5 DEF InHand
<1> QED
  BY <1>1, <1>2, <1>3, <1>4, <1>5, <1>6
  DEF PoolInv, HeldAlone, Accounted, Drained, PoolInit

LEMMA PoolInvStep ==
  ASSUME PoolInv, [PoolNext]_poolVars
  PROVE  PoolInv'
<1>1. LockInv'
  BY PoolNextIsLockNext, LockStep DEF PoolInv, LockInv
<1>2. ASSUME UNCHANGED <<handles, open, threads, pc>> PROVE PoolInv'
  <2>1. Owned' /\ PoolTypeOK'
    BY <1>2, InvFacts, Keeping DEF PoolTypeOK, threads
  <2>2. \A u \in Users : Settled(u)'
    BY <1>2, InvFacts DEF Settled, NoHandle, threads
  <2>3. Drained'
    BY <1>2 DEF PoolInv, Drained, threads
  <2> QED
    BY <1>1, <2>1, <2>2, <2>3 DEF PoolInv, Owned
<1>3. CASE UNCHANGED poolVars
  BY <1>2, <1>3 DEF poolVars, vars, pool
<1>4. ASSUME NEW u \in Users, Wake(u) PROVE PoolInv'
  BY <1>2, <1>4 DEF Wake, WakeSpuriously, pool
<1>5. ASSUME NEW u \in Users, Step(u) PROVE PoolInv'
  BY <1>1, <1>5, LockingKeeps, PopBackKeeps, GenerateKeeps, CountOneKeeps, PushNewKeeps,
     UseKeeps, PushBackKeeps, UnlockingKeeps, ReleaseKeeps, ClearKeeps DEF Step
<1> QED
  BY <1>1, <1>3, <1>4, <1>5, BeginKeeps, EndingKeeps DEF PoolNext

LEMMA PoolAlways == PoolSpec => []PoolInv
BY PoolInvInit, PoolInvStep, PTL DEF PoolSpec

-----------------------------------------------------------------------------
(* No two threads use one connection of SQLite at a time, and none uses one  *)
(* that is in the free list: whatever the threads call, in every order.      *)
THEOREM HandlesHeldAlone == PoolSpec => []HeldAlone
BY PoolAlways, PTL DEF PoolInv

(* In the block of close(onClosed:) no connection is open but the ones for   *)
(* which flowBack found no room and that it is about to close: none of the   *)
(* list, none that a thread uses or could be given.                          *)
THEOREM OnlyDroppedStayOpen == PoolSpec => []OnlyDroppedOpen
<1>1. ASSUME PoolInv, NEW u \in Users, at[u] = "onClosed", NEW h \in open
      PROVE  \E v \in Users : at[v] = "release" /\ held[v] = h
  <2>1. DOMAIN handles = {}
    BY <1>1, EmptySeq DEF PoolInv, Drained
  <2>2. PICK v \in Users : held[v] = h /\ h # NoHandle
    BY <1>1, <2>1 DEF PoolInv, Accounted, Free, InHand
  <2>3. pc[u] = "writing" /\ held[u] = NoHandle
    BY <1>1, InvFacts DEF Settled, WithoutHandle
  <2>4. pc[v] # "reading" /\ pc[v] # "writing"
    BY <1>1, <2>2, <2>3, Excludes DEF PoolInv, Exclusion
  <2>5. at[v] = "release"
    BY <1>1, <2>2, <2>4, InvFacts DEF Settled, Spots, WithHandle, WithoutHandle
  <2> QED
    BY <2>2, <2>5
<1>2. PoolInv => OnlyDroppedOpen
  BY <1>1 DEF OnlyDroppedOpen
<1> QED
  BY <1>2, PoolAlways, PTL
-----------------------------------------------------------------------------
(* aliveHandleCount is in step with the list and the hands, but for threads  *)
(* that have yet to count what they opened, or have put back uncounted.      *)

IsEarly(u) == at[u] = "count" /\ job[u] = "fill"
IsCounted(u) == held[u] # NoHandle /\ at[u] \notin {"push", "count"}
Early == {u \in Users : IsEarly(u)}
Counted == {u \in Users : IsCounted(u)}

Tallied ==
  alive \in Int /\ alive + Cardinality(Early) = Len(handles) + Cardinality(Counted)

(* A thread that joins a set, leaves it or stays where it is: x and x2 say   *)
(* whether it was in it, and is.                                            *)
LEMMA OneJoins ==
  ASSUME NEW S, IsFiniteSet(S), NEW T, NEW u, T = S \cup {u} \/ T = S \ {u},
         NEW x \in {0, 1}, NEW x2 \in {0, 1}, u \in S <=> x = 1, u \in T <=> x2 = 1
  PROVE  /\ Cardinality(S) \in Int /\ Cardinality(T) \in Int
         /\ Cardinality(T) = Cardinality(S) + x2 - x
<1>1. Cardinality(S) \in Nat
  BY FS_CardinalityType
<1>2. CASE T = S
  BY <1>1, <1>2
<1>3. CASE T = S \cup {u} /\ u \notin S
  BY <1>1, <1>3, FS_AddElement
<1>4. CASE T = S \ {u} /\ u \in S
  <2>1. Cardinality(T) = Cardinality(S) - 1
    BY <1>4, FS_RemoveElement
  <2>2. x = 1 /\ x2 = 0
    BY <1>4
  <2> QED
    BY <1>1, <2>1, <2>2
<1>5. T = S \/ (T = S \cup {u} /\ u \notin S) \/ (T = S \ {u} /\ u \in S)
  BY Zenon
<1> QED
  BY <1>2, <1>3, <1>4, <1>5

OthersStay(u) ==
  \A v \in Users \ {u} : at'[v] = at[v] /\ job'[v] = job[v] /\ held'[v] = held[v]

(* A step of one thread changes the sums by what it changes of this thread.  *)
LEMMA TallyMoves ==
  ASSUME Tallied, NEW u \in Users, OthersStay(u),
         alive' \in Int, Len(handles) \in Nat, Len(handles') \in Nat,
         NEW x \in {0, 1}, NEW x2 \in {0, 1}, NEW y \in {0, 1}, NEW y2 \in {0, 1},
         IsEarly(u) <=> x = 1, IsEarly(u)' <=> x2 = 1,
         IsCounted(u) <=> y = 1, IsCounted(u)' <=> y2 = 1,
         alive' - alive + x2 - x = Len(handles') - Len(handles) + y2 - y
  PROVE  Tallied'
<1>1. Early \subseteq Users /\ Counted \subseteq Users
  BY DEF Early, Counted
<1>2. IsFiniteSet(Early) /\ IsFiniteSet(Counted)
  BY <1>1, UsersAssumption, FS_Subset
<1>3. \A v \in Users \ {u} : (IsEarly(v)' <=> IsEarly(v)) /\ (IsCounted(v)' <=> IsCounted(v))
  BY DEF OthersStay, IsEarly, IsCounted, NoHandle
<1>4. Early' = Early \cup {u} \/ Early' = Early \ {u}
  BY <1>3 DEF Early
<1>5. Counted' = Counted \cup {u} \/ Counted' = Counted \ {u}
  BY <1>3 DEF Counted
<1>6. /\ u \in Early' <=> x2 = 1
      /\ u \in Early <=> x = 1
      /\ u \in Counted' <=> y2 = 1
      /\ u \in Counted <=> y = 1
  BY DEF Early, Counted
<1>7. /\ Cardinality(Early) \in Int /\ Cardinality(Early') \in Int
      /\ Cardinality(Early') = Cardinality(Early) + x2 - x
  BY <1>2, <1>4, <1>6, OneJoins
<1>8. /\ Cardinality(Counted) \in Int /\ Cardinality(Counted') \in Int
      /\ Cardinality(Counted') = Cardinality(Counted) + y2 - y
  BY <1>2, <1>5, <1>6, OneJoins
<1>9. alive \in Int /\ alive + Cardinality(Early) = Len(handles) + Cardinality(Counted)
  BY DEF Tallied
<1>10. alive' + Cardinality(Early') = Len(handles') + Cardinality(Counted')
  <2>1. Len(handles) \in Int /\ Len(handles') \in Int /\ x \in Int /\ x2 \in Int /\ y \in Int /\ y2 \in Int
    OBVIOUS
  <2>2. PICK a \in Int, b \in Int, l \in Int, m \in Int, e \in Int, f \in Int, c \in Int, d \in Int,
             p \in Int, p2 \in Int, q \in Int, q2 \in Int :
          /\ a = alive /\ b = alive' /\ l = Len(handles) /\ m = Len(handles')
          /\ e = Cardinality(Early) /\ f = Cardinality(Early')
          /\ c = Cardinality(Counted) /\ d = Cardinality(Counted')
          /\ p = x /\ p2 = x2 /\ q = y /\ q2 = y2
    BY <1>7, <1>8, <1>9, <2>1, Zenon
  <2>3. b - a + p2 - p = m - l + q2 - q
    BY <2>2, Zenon
  <2>4. f = e + p2 - p
    BY <1>7, <2>2, Zenon
  <2>5. d = c + q2 - q
    BY <1>8, <2>2, Zenon
  <2>6. a + e = l + c
    BY <1>9, <2>2, Zenon
  <2>7. b + f = m + d
    BY <2>3, <2>4, <2>5, <2>6
  <2> QED
    BY <2>2, <2>7, Zenon
<1> QED
  BY <1>10 DEF Tallied

LEMMA TallyStep ==
  ASSUME PoolInv, PoolInv', Tallied, [PoolNext]_poolVars
  PROVE  Tallied'
<1>1. /\ Len(handles) \in Nat /\ Len(handles') \in Nat /\ alive \in Int
      /\ \A v \in Users : Settled(v) /\ Settled(v)'
      /\ at \in [Users -> Spots] /\ job \in [Users -> Calls \cup {"none", "unbind"}]
      /\ held \in [Users -> Handles \cup {NoHandle}] /\ NoHandle \notin Handles
  <2>1. PoolTypeOK /\ PoolTypeOK'
    BY DEF PoolInv
  <2>2. Len(handles') \in Nat
    BY <2>1, LenProperties DEF PoolTypeOK
  <2> QED
    BY <2>1, <2>2, InvFacts, HandlesFacts DEF Tallied, PoolInv
<1>2. CASE UNCHANGED <<handles, alive, threads>>
  BY <1>2 DEF threads, Tallied, Early, Counted, IsEarly, IsCounted, NoHandle
<1>3. ASSUME NEW u \in Users, UNCHANGED <<handles, alive>>, OthersStay(u),
             ~IsEarly(u), ~IsEarly(u)', IsCounted(u) <=> IsCounted(u)'
      PROVE  Tallied'
  <2>1. PICK y \in {0, 1} : IsCounted(u) <=> y = 1
    OBVIOUS
  <2>2. alive' = alive /\ Len(handles') = Len(handles)
    BY <1>3
  <2>3. alive' - alive + 0 - 0 = Len(handles') - Len(handles) + y - y
    BY <1>1, <2>2
  <2> QED
    BY <1>1, <1>3, <2>1, <2>2, <2>3, TallyMoves
<1>4. ASSUME NEW u \in Users, NEW j \in Jobs[u], Begin(u, j) PROVE Tallied'
  <2>1. /\ UNCHANGED <<handles, alive, held>> /\ at[u] = "idle"
        /\ at' = [at EXCEPT ![u] = IF j = "close" THEN "lockWrite" ELSE "lockRead"]
        /\ job' = [job EXCEPT ![u] = j]
    BY <1>4 DEF Begin, Go, pool
  <2>2. OthersStay(u) /\ at'[u] \in {"lockWrite", "lockRead"}
    BY <1>1, <2>1 DEF OthersStay
  <2>3. held[u] = NoHandle
    BY <1>1, <2>1 DEF Settled, WithoutHandle
  <2> QED
    BY <1>3, <2>1, <2>2, <2>3 DEF IsEarly, IsCounted, NoHandle
<1>5. ASSUME NEW u \in Users, Commit(u) \/ Rollback(u) PROVE Tallied'
  <2>1. /\ UNCHANGED <<handles, alive, held>> /\ at[u] = "bound"
        /\ at' = [at EXCEPT ![u] = "back"]
        /\ \A v \in Users \ {u} : job'[v] = job[v]
    BY <1>1, <1>5 DEF Commit, Rollback, Go, pool
  <2>2. OthersStay(u) /\ at'[u] = "back"
    BY <1>1, <2>1 DEF OthersStay
  <2> QED
    BY <1>3, <2>1, <2>2 DEF IsEarly, IsCounted, NoHandle
<1>6. ASSUME NEW u \in Users, LockRead(u) \/ LockWrite(u) PROVE Tallied'
  <2>1. /\ UNCHANGED <<handles, alive, held, job>> /\ at[u] \in {"lockRead", "lockWrite"}
        /\ at' = at \/ at' = [at EXCEPT ![u] = "locked"]
    BY <1>6 DEF LockRead, LockWrite, Go, pool
  <2>2. OthersStay(u) /\ at'[u] # "count"
    BY <1>1, <2>1 DEF OthersStay
  <2>3. held[u] = NoHandle
    BY <1>1, <2>1 DEF Settled, WithoutHandle
  <2> QED
    BY <1>3, <2>1, <2>2, <2>3 DEF IsEarly, IsCounted, NoHandle
<1>7. ASSUME NEW u \in Users, PopBack(u) PROVE Tallied'
  <2>1. /\ UNCHANGED <<alive, job>> /\ at[u] = "locked" /\ job[u] # "fill"
        /\ held[u] = NoHandle
    BY <1>1, <1>7 DEF PopBack, Settled, WithoutHandle
  <2>2. CASE handles # <<>>
    <3>1. /\ held' = [held EXCEPT ![u] = handles[Len(handles)]] /\ handles' = WithoutLast
          /\ at' = [at EXCEPT ![u] = "use"]
      BY <1>7, <2>2 DEF PopBack, Go
    <3>2. OthersStay(u) /\ at'[u] = "use"
      BY <1>1, <2>1, <3>1 DEF OthersStay
    <3>3. held'[u] # NoHandle
      BY <1>1, <3>2 DEF Settled, WithHandle
    <3>4. Len(handles') = Len(handles) - 1
      <4>1. handles \in Seq(Handles) /\ Len(handles) # 0
        BY <2>2, EmptySeq DEF PoolInv, PoolTypeOK
      <4>2. /\ 1 \in 1..(Len(handles) + 1) /\ Len(handles) - 1 \in 0..Len(handles)
            /\ Len(handles) - 1 - 1 + 1 = Len(handles) - 1
            /\ Len(handles) - 1 >= 1 \/ Len(handles) - 1 = 0
        <5>1. \A n \in Nat \ {0} : /\ 1 \in 1..(n + 1) /\ n - 1 \in 0..n
                                  /\ n - 1 - 1 + 1 = n - 1 /\ (n - 1 >= 1 \/ n - 1 = 0)
          OBVIOUS
        <5> QED
          BY <1>1, <4>1, <5>1, Zenon
      <4> QED
        BY <1>1, <3>1, <4>1, <4>2, SubSeqProperties DEF WithoutLast
    <3>5. /\ ~IsEarly(u)' /\ ~IsEarly(u)
          /\ IsCounted(u)' /\ ~IsCounted(u)
      BY <2>1, <3>2, <3>3 DEF IsEarly, IsCounted, NoHandle
    <3>6. alive' - alive + 0 - 0 = Len(handles') - Len(handles) + 1 - 0
      BY <1>1, <2>1, <3>4
    <3> QED
      BY <1>1, <2>1, <3>2, <3>5, <3>6, TallyMoves
  <2>3. CASE handles = <<>>
    <3>1. /\ UNCHANGED <<handles, held>>
          /\ \E place \in {"generate", "fail"} : at' = [at EXCEPT ![u] = place]
      BY <1>7, <2>3 DEF PopBack, Go
    <3>2. OthersStay(u) /\ at'[u] # "count"
      BY <1>1, <2>1, <3>1 DEF OthersStay
    <3> QED
      BY <1>3, <2>1, <3>1, <3>2 DEF IsEarly, IsCounted, NoHandle
  <2> QED
    BY <2>2, <2>3
<1>8. ASSUME NEW u \in Users, Generate(u) PROVE Tallied'
  <2>1. /\ UNCHANGED <<handles, alive, job>>
        /\ at[u] = "generate" \/ (at[u] = "locked" /\ job[u] = "fill")
        /\ \E h : held' = [held EXCEPT ![u] = h]
        /\ \E place \in {"push", "count", "fail"} :
             /\ at' = [at EXCEPT ![u] = place]
             /\ (place = "count" => job[u] # "fill") /\ (place = "fail" => held' = held)
    <3>1. /\ UNCHANGED <<handles, alive, job>>
          /\ at[u] = "generate" \/ (at[u] = "locked" /\ job[u] = "fill")
      BY <1>8 DEF Generate
    <3>2. held = [held EXCEPT ![u] = held[u]]
      BY <1>1
    <3> QED
      BY <1>8, <3>1, <3>2 DEF Generate, Go
  <2>2. OthersStay(u) /\ at'[u] \in {"push", "count", "fail"} /\ (at'[u] = "count" => job'[u] # "fill")
        /\ (at'[u] = "fail" => held'[u] = held[u])
    BY <1>1, <2>1 DEF OthersStay
  <2>3. held[u] = NoHandle
    BY <1>1, <2>1 DEF Settled, WithoutHandle
  <2> QED
    BY <1>3, <2>1, <2>2, <2>3 DEF IsEarly, IsCounted, NoHandle
<1>9. ASSUME NEW u \in Users, CountOne(u) PROVE Tallied'
  <2>1. /\ UNCHANGED <<handles, held, job>> /\ at[u] = "count" /\ alive' = alive + 1
        /\ at' = [at EXCEPT ![u] = IF job[u] = "fill" THEN "fail" ELSE "use"]
    BY <1>9 DEF CountOne, Go
  <2>2. OthersStay(u) /\ at'[u] = IF job[u] = "fill" THEN "fail" ELSE "use"
    BY <1>1, <2>1 DEF OthersStay
  <2>3. job[u] = "fill" <=> held[u] = NoHandle
    BY <1>1, <2>1 DEF Settled
  <2>4. ~IsEarly(u)' /\ ~IsCounted(u)
    BY <2>1, <2>2 DEF IsEarly, IsCounted
  <2>5. CASE job[u] = "fill"
    <3>1. IsEarly(u) /\ ~IsCounted(u)'
      BY <2>1, <2>2, <2>3, <2>5 DEF IsEarly, IsCounted, NoHandle
    <3>2. alive' - alive + 0 - 1 = Len(handles') - Len(handles) + 0 - 0
      BY <1>1, <2>1
    <3> QED
      BY <1>1, <2>1, <2>2, <2>4, <3>1, <3>2, TallyMoves
  <2>6. CASE job[u] # "fill"
    <3>1. ~IsEarly(u) /\ IsCounted(u)'
      BY <2>1, <2>2, <2>3, <2>6 DEF IsEarly, IsCounted, NoHandle
    <3>2. alive' - alive + 0 - 0 = Len(handles') - Len(handles) + 1 - 0
      BY <1>1, <2>1
    <3> QED
      BY <1>1, <2>1, <2>2, <2>4, <3>1, <3>2, TallyMoves
  <2> QED
    BY <2>5, <2>6
<1>10. ASSUME NEW u \in Users, PushNew(u) PROVE Tallied'
  <2>1. /\ UNCHANGED <<alive, job>> /\ at[u] = "push" /\ held' = [held EXCEPT ![u] = NoHandle]
        /\ \/ handles' = Append(handles, held[u]) /\ at' = [at EXCEPT ![u] = "count"]
           \/ handles' = handles /\ at' = [at EXCEPT ![u] = "fail"]
    BY <1>10 DEF PushNew, Go
  <2>2. job[u] = "fill" /\ held[u] \in Handles
    BY <1>1, <2>1 DEF Settled, WithHandle
  <2>3. OthersStay(u) /\ held'[u] = NoHandle /\ job'[u] = "fill"
    BY <1>1, <2>1, <2>2 DEF OthersStay
  <2>4. CASE handles' = Append(handles, held[u]) /\ at' = [at EXCEPT ![u] = "count"]
    <3>1. Len(handles') = Len(handles) + 1
      BY <2>2, <2>4, AppendProperties DEF PoolInv, PoolTypeOK
    <3>2. at'[u] = "count"
      BY <1>1, <2>4
    <3>3. /\ IsEarly(u)' /\ ~IsEarly(u)
          /\ ~IsCounted(u)' /\ ~IsCounted(u)
      BY <2>1, <2>3, <3>2 DEF IsEarly, IsCounted, NoHandle
    <3>4. alive' - alive + 1 - 0 = Len(handles') - Len(handles) + 0 - 0
      BY <1>1, <2>1, <3>1
    <3> QED
      BY <1>1, <2>1, <2>3, <3>3, <3>4, TallyMoves
  <2>5. CASE handles' = handles /\ at' = [at EXCEPT ![u] = "fail"]
    <3>1. at'[u] = "fail"
      BY <1>1, <2>5
    <3> QED
      BY <1>3, <2>1, <2>3, <2>5, <3>1 DEF IsEarly, IsCounted, NoHandle
  <2> QED
    BY <2>1, <2>4, <2>5
<1>11. ASSUME NEW u \in Users, Use(u) PROVE Tallied'
  <2>1. /\ UNCHANGED <<handles, alive, held, job>> /\ at[u] = "use"
        /\ \E place \in {"back", "bound"} : at' = [at EXCEPT ![u] = place]
    BY <1>11 DEF Use, Go
  <2>2. OthersStay(u) /\ at'[u] \in {"back", "bound"}
    BY <1>1, <2>1 DEF OthersStay
  <2> QED
    BY <1>3, <2>1, <2>2 DEF IsEarly, IsCounted, NoHandle
<1>12. ASSUME NEW u \in Users, PushBack(u) PROVE Tallied'
  <2>1. /\ UNCHANGED <<alive, job>> /\ at[u] = "back" /\ at' = [at EXCEPT ![u] = "unlock"]
        /\ \/ handles' = Append(handles, held[u]) /\ held' = [held EXCEPT ![u] = NoHandle]
           \/ UNCHANGED <<handles, held>>
    BY <1>12 DEF PushBack, Go
  <2>2. held[u] \in Handles
    BY <1>1, <2>1 DEF Settled, WithHandle
  <2>3. OthersStay(u) /\ at'[u] = "unlock"
    BY <1>1, <2>1 DEF OthersStay
  <2>4. CASE handles' = Append(handles, held[u]) /\ held' = [held EXCEPT ![u] = NoHandle]
    <3>1. Len(handles') = Len(handles) + 1
      BY <2>2, <2>4, AppendProperties DEF PoolInv, PoolTypeOK
    <3>2. held'[u] = NoHandle /\ held[u] # NoHandle
      BY <1>1, <2>2, <2>4
    <3>3. /\ ~IsEarly(u)' /\ ~IsEarly(u)
          /\ ~IsCounted(u)' /\ IsCounted(u)
      BY <2>1, <2>3, <3>2 DEF IsEarly, IsCounted, NoHandle
    <3>4. alive' - alive + 0 - 0 = Len(handles') - Len(handles) + 0 - 1
      BY <1>1, <2>1, <3>1
    <3> QED
      BY <1>1, <2>1, <2>3, <3>3, <3>4, TallyMoves
  <2>5. CASE UNCHANGED <<handles, held>>
    BY <1>3, <2>1, <2>3, <2>5 DEF IsEarly, IsCounted, NoHandle
  <2> QED
    BY <2>1, <2>4, <2>5
<1>13. ASSUME NEW u \in Users, GiveUp(u) \/ UnlockBack(u) \/ Unblockade(u) PROVE Tallied'
  <2>1. /\ UNCHANGED <<handles, alive, held>> /\ at[u] \in {"fail", "unlock", "onClosed"}
        /\ \E place \in {"idle", "lockRead", "release"} : at' = [at EXCEPT ![u] = place]
        /\ \A v \in Users \ {u} : job'[v] = job[v]
    BY <1>1, <1>13 DEF GiveUp, UnlockBack, Unblockade, Done, Go, pool
  <2>2. OthersStay(u) /\ at'[u] \in {"idle", "lockRead", "release"}
    BY <1>1, <2>1 DEF OthersStay
  <2> QED
    BY <1>3, <2>1, <2>2 DEF IsEarly, IsCounted, NoHandle
<1>14. ASSUME NEW u \in Users, Release(u) PROVE Tallied'
  <2>1. /\ handles' = handles /\ alive' = alive - 1 /\ at[u] = "release"
        /\ held' = [held EXCEPT ![u] = NoHandle]
        /\ \E place \in {"idle", "lockRead"} : at' = [at EXCEPT ![u] = place]
        /\ \A v \in Users \ {u} : job'[v] = job[v]
    BY <1>1, <1>14 DEF Release, Done, Go
  <2>2. OthersStay(u) /\ held'[u] = NoHandle /\ at'[u] # "count"
    BY <1>1, <2>1 DEF OthersStay
  <2>3. held[u] # NoHandle
    BY <1>1, <2>1 DEF Settled, WithHandle
  <2>4. /\ ~IsEarly(u)' /\ ~IsEarly(u)
        /\ ~IsCounted(u)' /\ IsCounted(u)
    BY <2>1, <2>2, <2>3 DEF IsEarly, IsCounted, NoHandle
  <2>5. alive' - alive + 0 - 0 = Len(handles') - Len(handles) + 0 - 1
    BY <1>1, <2>1
  <2> QED
    BY <1>1, <2>1, <2>2, <2>4, <2>5, TallyMoves
<1>15. ASSUME NEW u \in Users, Clear(u) PROVE Tallied'
  <2>1. /\ handles' = <<>> /\ alive' = alive - Len(handles) /\ at[u] = "locked"
        /\ UNCHANGED <<held, job>>
        /\ \E place \in {"onClosed", "fail"} : at' = [at EXCEPT ![u] = place]
    BY <1>15 DEF Clear, Go
  <2>2. OthersStay(u) /\ at'[u] # "count"
    BY <1>1, <2>1 DEF OthersStay
  <2>3. held[u] = NoHandle /\ Len(handles') = 0
    BY <1>1, <2>1 DEF Settled, WithoutHandle
  <2>4. /\ ~IsEarly(u)' /\ ~IsEarly(u)
        /\ ~IsCounted(u)' /\ ~IsCounted(u)
    BY <2>1, <2>2, <2>3 DEF IsEarly, IsCounted, NoHandle
  <2>5. alive' - alive + 0 - 0 = Len(handles') - Len(handles) + 0 - 0
    BY <1>1, <2>1, <2>3
  <2> QED
    BY <1>1, <2>1, <2>2, <2>4, <2>5, TallyMoves
<1>16. CASE UNCHANGED poolVars
  BY <1>2, <1>16 DEF poolVars, pool
<1>17. ASSUME NEW u \in Users, Wake(u) PROVE Tallied'
  BY <1>2, <1>17 DEF Wake, pool
<1> QED
  BY <1>4, <1>5, <1>6, <1>7, <1>8, <1>9, <1>10, <1>11, <1>12, <1>13, <1>14, <1>15, <1>16, <1>17
  DEF PoolNext, Step

(* When all calls have returned the open connections are those of the free   *)
(* list, and aliveHandleCount is their number.                              *)
THEOREM CountEndsRight == PoolSpec => []CountIsRight
<1>1. PoolInit => Tallied
  <2> SUFFICES ASSUME PoolInit PROVE Tallied
    OBVIOUS
  <2>1. Early = {} /\ Counted = {} /\ Len(handles) = 0 /\ alive = 0
    BY DEF PoolInit, Early, Counted, IsEarly, IsCounted
  <2> QED
    BY <2>1, FS_EmptySet DEF Tallied
<1>2. PoolInv /\ PoolInv' /\ Tallied /\ [PoolNext]_poolVars => Tallied'
  BY TallyStep
<1>3. PoolInv /\ Tallied => CountIsRight
  <2> SUFFICES ASSUME PoolInv, Tallied, \A u \in Users : at[u] = "idle"
               PROVE  open = Free /\ alive = Len(handles)
    BY DEF CountIsRight
  <2>1. \A u \in Users : held[u] = NoHandle
    BY InvFacts DEF Settled, WithoutHandle
  <2>2. Early = {} /\ Counted = {} /\ InHand = {}
    BY <2>1 DEF Early, Counted, IsEarly, IsCounted, InHand
  <2>3. open = Free
    BY <2>2 DEF PoolInv, Accounted
  <2>4. Len(handles) \in Nat
    BY InvFacts, HandlesFacts
  <2> QED
    BY <2>2, <2>3, <2>4, FS_EmptySet DEF Tallied
<1> QED
  BY <1>1, <1>2, <1>3, PoolAlways, PTL DEF PoolSpec
=============================================================================
