------------------------------- MODULE RWLock -------------------------------
(***************************************************************************)
(* WCDB's RWLock (swift/source/util/RWLock.swift), under which every       *)
(* database operation of LeigodAPM runs: three counters under one mutex    *)
(* and one condition variable.                                             *)
(*                                                                         *)
(* A method holds the mutex from its first statement to its last and gives *)
(* it up only in pthread_cond_wait, so its parts between waits are atomic.  *)
(* A waiter returns from pthread_cond_wait after a broadcast, or for no    *)
(* reason at all, and tests its condition again when it has the mutex.     *)
(* The users unlock what they have locked: HandlePool pairs the calls.     *)
(***************************************************************************)
EXTENDS Integers, FiniteSets

CONSTANT Users

ASSUME UsersAssumption == IsFiniteSet(Users)

VARIABLES
  reader, writer, pending,  (* the counters                                *)
  pc,                       (* where each user is                          *)
  asleep                    (* the users blocked in pthread_cond_wait      *)

counters == <<reader, writer, pending>>
vars == <<counters, pc, asleep>>

Places == {"out", "lockRead", "reading", "lockWrite", "writing"}

Init ==
  /\ reader = 0 /\ writer = 0 /\ pending = 0
  /\ pc = [u \in Users |-> "out"]
  /\ asleep = {}

Goto(u, place) == pc' = [pc EXCEPT ![u] = place]

(* Mutant: lockRead that looks at the writers only. *)
BlockedByWriter == writer > 0

(* while writer>0 || pending>0 *)
ReadBlocked == writer > 0 \/ pending > 0

(* while writer>0||reader>0 *)
WriteBlocked == writer > 0 \/ reader > 0

-----------------------------------------------------------------------------
(* lockRead: blocked at once, or through; and again each time it wakes up.   *)

SleepInLockRead(u) ==
  /\ pc[u] = "out" \/ (pc[u] = "lockRead" /\ u \notin asleep)
  /\ ReadBlocked
  /\ Goto(u, "lockRead")
  /\ asleep' = asleep \cup {u}
  /\ UNCHANGED counters

PassLockRead(u) ==
  /\ pc[u] = "out" \/ (pc[u] = "lockRead" /\ u \notin asleep)
  /\ ~ReadBlocked
  /\ reader' = reader + 1
  /\ Goto(u, "reading")
  /\ UNCHANGED <<writer, pending, asleep>>

(* Mutant: unlockRead that broadcasts to nobody. *)
UnlockReadSilently(u) ==
  /\ pc[u] = "reading"
  /\ reader' = reader - 1
  /\ Goto(u, "out")
  /\ UNCHANGED <<writer, pending, asleep>>

UnlockRead(u) ==
  /\ pc[u] = "reading"
  /\ reader' = reader - 1
  /\ asleep' = IF reader' = 0 THEN {} ELSE asleep
  /\ Goto(u, "out")
  /\ UNCHANGED <<writer, pending>>

(* lockWrite counts itself pending once, before its first test. *)
CallLockWrite(u) ==
  /\ pc[u] = "out"
  /\ IF WriteBlocked
     THEN /\ pending' = pending + 1
          /\ Goto(u, "lockWrite")
          /\ asleep' = asleep \cup {u}
          /\ UNCHANGED <<reader, writer>>
     ELSE /\ writer' = writer + 1
          /\ Goto(u, "writing")
          /\ UNCHANGED <<reader, pending, asleep>>

SleepInLockWrite(u) ==
  /\ pc[u] = "lockWrite" /\ u \notin asleep
  /\ WriteBlocked
  /\ asleep' = asleep \cup {u}
  /\ UNCHANGED <<counters, pc>>

PassLockWrite(u) ==
  /\ pc[u] = "lockWrite" /\ u \notin asleep
  /\ ~WriteBlocked
  /\ pending' = pending - 1 /\ writer' = writer + 1
  /\ Goto(u, "writing")
  /\ UNCHANGED <<reader, asleep>>

(* Mutant: unlockWrite that broadcasts to nobody. *)
UnlockWriteSilently(u) ==
  /\ pc[u] = "writing"
  /\ writer' = writer - 1
  /\ Goto(u, "out")
  /\ UNCHANGED <<reader, pending, asleep>>

UnlockWrite(u) ==
  /\ pc[u] = "writing"
  /\ writer' = writer - 1
  /\ asleep' = {}
  /\ Goto(u, "out")
  /\ UNCHANGED <<reader, pending>>

(* pthread_cond_wait returns without a broadcast. *)
WakeSpuriously(u) ==
  /\ u \in asleep
  /\ asleep' = asleep \ {u}
  /\ UNCHANGED <<counters, pc>>

-----------------------------------------------------------------------------
Recheck(u) ==
  /\ pc[u] \in {"lockRead", "lockWrite"}
  /\ SleepInLockRead(u) \/ PassLockRead(u) \/ SleepInLockWrite(u) \/ PassLockWrite(u)
Unlock(u) == UnlockRead(u) \/ UnlockWrite(u)
Call(u) ==
  /\ pc[u] = "out"
  /\ SleepInLockRead(u) \/ PassLockRead(u) \/ CallLockWrite(u)

Next == \E u \in Users : Call(u) \/ Recheck(u) \/ Unlock(u) \/ WakeSpuriously(u)

Spec == Init /\ [][Next]_vars

-----------------------------------------------------------------------------
(* Properties.                                                              *)

InPlace(place) == {u \in Users : pc[u] = place}

(* The counters count, and only a user in a wait of lockRead or lockWrite    *)
(* sleeps.                                                                   *)
TypeOK ==
  /\ pc \in [Users -> Places]
  /\ asleep \subseteq InPlace("lockRead") \cup InPlace("lockWrite")
  /\ reader \in Nat /\ writer \in Nat /\ pending \in Nat

(* The counters are the numbers of users that read, write and wait to write: *)
(* no path through lock and unlock misses or doubles one.                    *)
CountersCount ==
  /\ reader = Cardinality(InPlace("reading"))
  /\ writer = Cardinality(InPlace("writing"))
  /\ pending = Cardinality(InPlace("lockWrite"))

(* A writer is alone.                                                       *)
Exclusion ==
  \A u, v \in Users : pc[u] = "writing" /\ v # u => pc[v] \notin {"reading", "writing"}

(* Nobody sleeps who need not: every change that could let a sleeper through *)
(* is followed by a broadcast, though unlockRead broadcasts only when it was *)
(* the last reader and lockWrite takes itself out of pending in silence.     *)
NoLostWakeup ==
  \A u \in asleep : IF pc[u] = "lockRead" THEN ReadBlocked ELSE WriteBlocked

(* The counters and the condition variable implement the lock.              *)
StateOf ==
  [out |-> "out", lockRead |-> "wantRead", reading |-> "reading",
   lockWrite |-> "wantWrite", writing |-> "writing"]
Lock == INSTANCE ReadWriteLock WITH state <- [u \in Users |-> StateOf[pc[u]]]

(* Every step of RWLock is a step of the lock or none: in particular no      *)
(* reader enters past a waiting writer, and none enters beside a writer.     *)
LockSpec == Lock!Spec
=============================================================================
