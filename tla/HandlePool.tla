----------------------------- MODULE HandlePool -----------------------------
(***************************************************************************)
(* WCDB's pool of SQLite handles (core/base/HandlePool.swift) and what     *)
(* Database.swift does with it: operations, transactions bound to a        *)
(* thread, close(onClosed:), purge and canOpen, over the read-write lock.  *)
(*                                                                         *)
(* A handle in use keeps a read lock, which its recycling gives back; the  *)
(* steps of an operation interleave with those of the other threads. A     *)
(* thread uses the interface as its comments ask: it ends what it began,   *)
(* and closes and purges with no handle in hand. Configurations are set    *)
(* before the first operation, so flowOut finds nothing to configure in a  *)
(* handle that is used again.                                              *)
(***************************************************************************)
EXTENDS RWLock, Sequences

CONSTANTS
  Cap,             (* maxHardwareConcurrency, the capacity of the free list *)
  Handles,         (* connections, enough for the list and every thread     *)
  MaxConcurrency,  (* handles there may be before flowOut refuses           *)
  Jobs,            (* the operations each thread calls                      *)
  Failures         (* may opening, configuring and BEGIN fail?              *)

Calls == {"exec", "begin", "commit", "rollback", "fill", "close", "purge"}

ASSUME PoolAssumption ==
  /\ Cap \in Nat \ {0} /\ Handles \subseteq Nat \ {0}
  /\ Jobs \in [Users -> SUBSET Calls]

VARIABLES
  handles,   (* the free ones, in the order they came back                 *)
  alive,     (* aliveHandleCount                                           *)
  open,      (* the handles whose connection is open                       *)
  owner,     (* the thread whose transaction each open handle is in        *)
  held,      (* the handle a thread has in hand                            *)
  at, job    (* where each thread is, in which operation                   *)

pool == <<handles, alive, open, owner>>
threads == <<held, at, job>>
poolVars == <<vars, pool, threads>>

NoHandle == 0
Free == {handles[i] : i \in DOMAIN handles}

PoolInit ==
  /\ Init
  /\ handles = <<>> /\ alive = 0 /\ open = {}
  /\ owner = [h \in Handles |-> {}]
  /\ held = [u \in Users |-> NoHandle]
  /\ at = [u \in Users |-> "idle"] /\ job = [u \in Users |-> "none"]

Go(u, place) == at' = [at EXCEPT ![u] = place]
Opened == CHOOSE h \in Handles : h \notin open
Shut(H) == open' = open \ H /\ owner' = [h \in Handles |-> IF h \in H THEN {} ELSE owner[h]]

-----------------------------------------------------------------------------
(* The calls.                                                               *)

Begin(u, j) ==
  /\ at[u] = "idle" /\ j \in Jobs[u] \ {"commit", "rollback"}
  /\ Go(u, IF j = "close" THEN "lockWrite" ELSE "lockRead")
  /\ job' = [job EXCEPT ![u] = j]
  /\ UNCHANGED <<vars, pool, held>>

(* In a transaction every operation uses the thread's own handle. A COMMIT   *)
(* that fails throws before the handle is unbound, and changes nothing here. *)
Commit(u) ==
  /\ at[u] = "bound" /\ "commit" \in Jobs[u]
  /\ owner' = [owner EXCEPT ![held[u]] = {}]
  /\ Go(u, "back") /\ job' = [job EXCEPT ![u] = "commit"]
  /\ UNCHANGED <<vars, handles, alive, open, held>>

(* rollback() unbinds, and so recycles, the handle before it takes one.      *)
Rollback(u) ==
  /\ at[u] = "bound" /\ "rollback" \in Jobs[u]
  /\ Go(u, "back") /\ job' = [job EXCEPT ![u] = "unbind"]
  /\ UNCHANGED <<vars, pool, held>>

(* The lock's own steps, where the pool calls it.                           *)
LockRead(u) ==
  /\ at[u] = "lockRead"
  /\ \/ SleepInLockRead(u) /\ UNCHANGED at
     \/ PassLockRead(u) /\ Go(u, "locked")
  /\ UNCHANGED <<pool, held, job>>

LockWrite(u) ==
  /\ at[u] = "lockWrite"
  /\ CallLockWrite(u) \/ SleepInLockWrite(u) \/ PassLockWrite(u)
  /\ IF pc'[u] = "writing" THEN Go(u, "locked") ELSE UNCHANGED at
  /\ UNCHANGED <<pool, held, job>>

-----------------------------------------------------------------------------
(* flowOut and fillOne.                                                     *)

(* Mutant: the last one stays in the list. *)
WithLast == handles

WithoutLast == SubSeq(handles, 1, Len(handles) - 1)

PopBack(u) ==
  /\ at[u] = "locked" /\ job[u] \in {"exec", "begin", "rollback"}
  /\ IF handles # <<>>
     THEN /\ held' = [held EXCEPT ![u] = handles[Len(handles)]]
          /\ handles' = WithoutLast
          /\ Go(u, "use")
     ELSE /\ Go(u, IF alive < MaxConcurrency THEN "generate" ELSE "fail")
          /\ UNCHANGED <<handles, held>>
  /\ UNCHANGED <<vars, alive, open, owner, job>>

(* A handle that cannot be opened or configured is closed again.             *)
Generate(u) ==
  /\ at[u] = "generate" \/ (at[u] = "locked" /\ job[u] = "fill")
  /\ \/ /\ Handles \ open # {}
        /\ open' = open \cup {Opened} /\ held' = [held EXCEPT ![u] = Opened]
        /\ Go(u, IF job[u] = "fill" THEN "push" ELSE "count")
     \/ /\ Failures /\ Go(u, "fail")
        /\ UNCHANGED <<open, held>>
  /\ UNCHANGED <<vars, handles, alive, owner, job>>

CountOne(u) ==
  /\ at[u] = "count"
  /\ alive' = alive + 1
  /\ Go(u, IF job[u] = "fill" THEN "fail" ELSE "use")
  /\ UNCHANGED <<vars, handles, open, owner, held, job>>

(* pushBack of fillOne.                                                     *)
PushNew(u) ==
  /\ at[u] = "push"
  /\ held' = [held EXCEPT ![u] = NoHandle]
  /\ IF Len(handles) < Cap
     THEN handles' = Append(handles, held[u]) /\ Go(u, "count") /\ UNCHANGED <<open, owner>>
     ELSE Shut({held[u]}) /\ Go(u, "fail") /\ UNCHANGED handles
  /\ UNCHANGED <<vars, alive, job>>

(* The read lock is given back without a handle.                            *)
GiveUp(u) ==
  /\ at[u] = "fail"
  /\ UnlockRead(u)
  /\ Go(u, "idle") /\ job' = [job EXCEPT ![u] = "none"]
  /\ UNCHANGED <<pool, held>>

-----------------------------------------------------------------------------
(* What the operations do with the handle.                                  *)

Use(u) ==
  /\ at[u] = "use"
  /\ \/ job[u] = "exec" /\ UNCHANGED owner /\ Go(u, "back")
     \/ job[u] = "begin" /\ owner[held[u]] = {}
        /\ owner' = [owner EXCEPT ![held[u]] = {u}] /\ Go(u, "bound")
     \/ job[u] = "begin" /\ (Failures \/ owner[held[u]] # {})
        /\ UNCHANGED owner /\ Go(u, "back")
     \/ job[u] = "rollback" /\ owner' = [owner EXCEPT ![held[u]] = {}] /\ Go(u, "back")
  /\ UNCHANGED <<vars, handles, alive, open, held, job>>

-----------------------------------------------------------------------------
(* flowBack: into the free list, or closed once the lock is given back.      *)

(* Mutant: the lock is given back first. *)
UnlockFirst(u) ==
  /\ at[u] = "back"
  /\ UnlockRead(u)
  /\ Go(u, "unlock")
  /\ UNCHANGED <<pool, held, job>>

PushBack(u) ==
  /\ at[u] = "back"
  /\ IF Len(handles) < Cap
     THEN /\ handles' = Append(handles, held[u])
          /\ held' = [held EXCEPT ![u] = NoHandle]
     ELSE UNCHANGED <<handles, held>>
  /\ Go(u, "unlock")
  /\ UNCHANGED <<vars, alive, open, owner, job>>

Done(u) ==
  IF job[u] = "unbind"
  THEN Go(u, "lockRead") /\ job' = [job EXCEPT ![u] = "rollback"]
  ELSE Go(u, "idle") /\ job' = [job EXCEPT ![u] = "none"]

UnlockBack(u) ==
  /\ at[u] = "unlock"
  /\ UnlockRead(u)
  /\ IF held[u] = NoHandle THEN Done(u) ELSE Go(u, "release") /\ UNCHANGED job
  /\ UNCHANGED <<pool, held>>

(* Mutant: a handle that is closed but still counted. *)
ReleaseCounted(u) ==
  /\ at[u] = "release"
  /\ Shut({held[u]}) /\ held' = [held EXCEPT ![u] = NoHandle]
  /\ Done(u)
  /\ UNCHANGED <<vars, handles, alive>>

Release(u) ==
  /\ at[u] = "release"
  /\ alive' = alive - 1
  /\ Shut({held[u]}) /\ held' = [held EXCEPT ![u] = NoHandle]
  /\ Done(u)
  /\ UNCHANGED <<vars, handles>>

-----------------------------------------------------------------------------
(* close(onClosed:) is drain, purge() is purgeFreeHandles. The count follows *)
(* the emptied list in the same step: in between it could only refuse a     *)
(* thread a handle, which GiveUp allows after a failed Generate.            *)

Clear(u) ==
  /\ at[u] = "locked" /\ job[u] \in {"close", "purge"}
  /\ handles' = <<>> /\ Shut(Free)
  /\ alive' = alive - Len(handles)
  /\ Go(u, IF job[u] = "close" THEN "onClosed" ELSE "fail")
  /\ UNCHANGED <<vars, held, job>>

Unblockade(u) ==
  /\ at[u] = "onClosed"
  /\ UnlockWrite(u)
  /\ Go(u, "idle") /\ job' = [job EXCEPT ![u] = "none"]
  /\ UNCHANGED <<pool, held>>

-----------------------------------------------------------------------------
Step(u) ==
  \/ LockRead(u) \/ LockWrite(u) \/ PopBack(u) \/ Generate(u) \/ CountOne(u)
  \/ PushNew(u) \/ GiveUp(u) \/ Use(u) \/ PushBack(u) \/ UnlockBack(u) \/ Release(u)
  \/ Clear(u) \/ Unblockade(u)

Wake(u) == WakeSpuriously(u) /\ UNCHANGED <<pool, threads>>

PoolNext ==
  \E u \in Users :
    \/ \E j \in Jobs[u] : Begin(u, j)
    \/ Commit(u) \/ Rollback(u) \/ Step(u) \/ Wake(u)

PoolSpec == PoolInit /\ [][PoolNext]_poolVars

(* Whoever can go on does, and a transaction is ended by its thread.         *)
PoolFairness ==
  \A u \in Users : WF_poolVars(Step(u)) /\ WF_poolVars(Commit(u) \/ Rollback(u))
FairPoolSpec == PoolSpec /\ PoolFairness

-----------------------------------------------------------------------------
(* Properties.                                                              *)

(* A handle is in the hand of one thread or in the free list, once: no two   *)
(* threads ever use one SQLite connection at a time.                        *)
HeldAlone ==
  /\ \A u, v \in Users : held[u] # NoHandle /\ u # v => held[u] # held[v]
  /\ \A u \in Users : held[u] \notin Free
  /\ \A i, j \in DOMAIN handles : handles[i] = handles[j] => i = j

(* aliveHandleCount, counted before and after the list changes and outside   *)
(* the lock, is right in the end, and no connection is left over: else       *)
(* isOpened lies and flowOut one day refuses every thread.                  *)
CountIsRight ==
  (\A u \in Users : at[u] = "idle") => open = Free /\ alive = Len(handles)

(* "this method can make sure database is closed in the `onClosed` block"    *)
(* (Database.swift:139): no connection is open there.                       *)
ClosedInOnClosed == (\E u \in Users : at[u] = "onClosed") => open = {}

(* What the code keeps of that: in onClosed nothing is open that a thread    *)
(* could still use or be given, only handles for which flowBack found no     *)
(* room and which it closes after it has given its lock back.                *)
OnlyDroppedOpen ==
  (\E u \in Users : at[u] = "onClosed") =>
    \A h \in open : \E v \in Users : at[v] = "release" /\ held[v] = h

(* Every operation returns, if calls of close do, some day, cease: nobody    *)
(* waits for the lock or for a handle for ever.                             *)
OperationsEnd ==
  <>[][\A u \in Users : ~CallLockWrite(u)]_poolVars =>
    \A u \in Users : at[u] # "idle" ~> at[u] = "idle"

(* "return false to rollback transaction" (Core.swift:129): when its call of *)
(* the database has returned, no handle is left in a thread's transaction.   *)
RolledBack == \A h \in open : \A u \in owner[h] : at[u] # "idle"
=============================================================================
