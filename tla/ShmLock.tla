------------------------------- MODULE ShmLock -------------------------------
(***************************************************************************)
(* The locks of the wal-index among the connections of one process, with   *)
(* the waiting WCDB added to them (os_unix.c, os_wcdb.c, queue.c): a       *)
(* transaction that finds a lock taken puts an entry into the queue of the *)
(* shared-memory node and sleeps, for ten seconds at most, until an unlock *)
(* signals it; it then returns SQLITE_BUSY and is tried again.             *)
(*                                                                         *)
(* One action is one call of xShmLock, which runs under pShmMutex; the     *)
(* calls come in the order in which wal.c makes them. What the locks are   *)
(* for is the business of module Wal, which takes a lock that is not free  *)
(* to be refused. The process has the file to itself: the system's own     *)
(* lock is always granted.                                                 *)
(***************************************************************************)
EXTENDS Naturals, Sequences, SequencesExt, FiniteSetsExt

CONSTANTS
  Threads, Files,   (* threads, and the connections they take from a pool   *)
  Main,             (* the main thread                                      *)
  Jobs,             (* what each thread does: "read", "write", "checkpoint" *)
  MaxCalls,         (* how many operations are started                      *)
  MaxTimeouts       (* how many waits end by themselves                     *)

NoFile == "none"

ASSUME ShmAssumption ==
  /\ NoFile \notin Files
  /\ MaxCalls \in Nat /\ MaxTimeouts \in Nat
  /\ Jobs \in [Threads -> SUBSET {"read", "write", "checkpoint"}]

VARIABLES
  excl, shared,   (* exclMask and sharedMask of each connection's unixShm   *)
  linked,         (* the connections in the node's list                     *)
  bWait,          (* the connections whose calls may wait                   *)
  queue,          (* qWaitQueue                                             *)
  purging,        (* is unixShmPurge emptying the queue of a dead node?     *)
  asleep,         (* the threads in pthreadCondWait                         *)
  file, at, job,  (* the connection, the place and the job of each thread   *)
  stale,          (* is the readers' mark behind the last commit?           *)
  calls, timeouts

node == <<excl, shared, linked, bWait, queue, purging>>
vars == <<node, asleep, file, at, job, stale, calls, timeouts>>

(* WAL_WRITE_LOCK, WAL_CKPT_LOCK, and the readers of the database file and   *)
(* of the log; one lock stands for WAL_READ_LOCK(1) and those after it.      *)
Locks == {"write", "ckpt", "read0", "read1"}

Init ==
  /\ excl = [f \in Files |-> {}] /\ shared = [f \in Files |-> {}]
  /\ linked = Files /\ bWait = {} /\ queue = <<>> /\ purging = FALSE /\ asleep = {}
  /\ file = [t \in Threads |-> NoFile]
  /\ at = [t \in Threads |-> "idle"] /\ job = [t \in Threads |-> "none"]
  /\ stale = TRUE /\ calls = 0 /\ timeouts = 0

Go(t, place) == t \notin asleep /\ at' = [at EXCEPT ![t] = place]

-----------------------------------------------------------------------------
(* The queue.                                                               *)

(* As Blocked, were shared locks no obstacle.                                *)
BlockedByExclusive(ex, sh, flag, mask) == \E f \in linked : ex[f] \cap mask # {}

(* Does a connection hold what a request asks for?                           *)
Blocked(ex, sh, flag, mask) == \E f \in linked :
  \/ ex[f] \cap mask # {}
  \/ flag = "exclusive" /\ sh[f] \cap mask # {}

(* As Signal, were only the first woken.                                     *)
SignalFirst(n) ==
  /\ queue' = SubSeq(queue, n + 1, Len(queue))
  /\ asleep' = asleep \ {queue[i].thread : i \in 1..n \cap {1}}

(* WCDBOsShmSignal, for the first n entries.                                 *)
Signal(n) ==
  /\ queue' = SubSeq(queue, n + 1, Len(queue))
  /\ asleep' = asleep \ {queue[i].thread : i \in 1..n}

(* As TrySignal, were it no loop.                                            *)
TrySignalOne(ex, sh) == LET taken == {i \in DOMAIN queue : Blocked(ex, sh, queue[i].flag, queue[i].mask)} IN
  Signal(Min(taken \cup {2, Len(queue) + 1}) - 1)

(* WCDBOsShmTrySignal signals the entries in front, up to the first whose    *)
(* lock is still taken.                                                      *)
TrySignal(ex, sh) == LET taken == {i \in DOMAIN queue : Blocked(ex, sh, queue[i].flag, queue[i].mask)} IN
  Signal(Min(taken \cup {Len(queue) + 1}) - 1)

(* What the connection of an entry is found to hold. The entry outlives its  *)
(* wait when that timed out, and then it may outlive the connection: what is *)
(* read of a freed one is anything.                                          *)
Found(f) == IF f \in linked THEN {excl[f] \cup shared[f]} ELSE SUBSET Locks

(* Do the caller and the first in the queue wait for each other's locks?     *)
Crossed(f, flag, mask, others) ==
  \/ Head(queue).flag = "exclusive" /\ (excl[f] \cup shared[f]) \cap Head(queue).mask # {}
  \/ flag = "exclusive" /\ others \cap mask # {}

(* WCDBOsShmWait: whoever crosses the first in the queue wakes it and goes   *)
(* on; the others queue, the main thread in front, and sleep.                *)
Wait(t, flag, mask) ==
  \E others \in IF queue = <<>> THEN {{}} ELSE Found(Head(queue).file) :
    IF queue # <<>> /\ Crossed(file[t], flag, mask, others)
    THEN Signal(1)
    ELSE LET entry == [thread |-> t, file |-> file[t], flag |-> flag, mask |-> mask] IN
         /\ queue' = IF t = Main THEN <<entry>> \o queue ELSE Append(queue, entry)
         /\ asleep' = asleep \cup {t}

(* A wait that takes the entry in front for its own.                         *)
TimeOutAndPop(t) ==
  /\ t \in asleep /\ timeouts < MaxTimeouts
  /\ queue' = SubSeq(queue, 2, Len(queue))
  /\ asleep' = asleep \ {t} /\ timeouts' = timeouts + 1
  /\ UNCHANGED <<excl, shared, linked, bWait, purging, file, at, job, stale, calls>>

(* A wait that ends after ten seconds, or for no reason.                     *)
TimeOut(t) ==
  /\ t \in asleep /\ timeouts < MaxTimeouts
  /\ asleep' = asleep \ {t} /\ timeouts' = timeouts + 1
  /\ UNCHANGED <<node, file, at, job, stale, calls>>

-----------------------------------------------------------------------------
(* xShmLock. Waiting is allowed within sqlite3BtreeBeginTrans, except in the *)
(* first transaction of a connection: the lock it takes to look for a log    *)
(* leaves bWait at zero (pager_wait_on_lock), and it spins instead.          *)

Take(t, flag, mask) ==
  /\ excl' = IF flag = "exclusive" THEN [excl EXCEPT ![file[t]] = @ \cup mask] ELSE excl
  /\ shared' = IF flag = "shared" THEN [shared EXCEPT ![file[t]] = @ \cup mask] ELSE shared
  /\ UNCHANGED <<queue, asleep>>

(* The operation over, the connection goes back to the pool.                 *)
GiveBack(t) == LET over == at'[t] = "idle" IN
  /\ file' = IF over THEN [file EXCEPT ![t] = NoFile] ELSE file
  /\ job' = IF over THEN [job EXCEPT ![t] = "none"] ELSE job
  /\ bWait' = IF over THEN bWait \ {file[t]} ELSE bWait

LockCall(t, flag, mask, begins, granted, busy) ==
  /\ IF ~Blocked(excl, shared, flag, mask)
     THEN Go(t, granted) /\ Take(t, flag, mask)
     ELSE /\ Go(t, busy) /\ UNCHANGED <<excl, shared>>
          /\ IF begins /\ file[t] \in bWait THEN Wait(t, flag, mask) ELSE UNCHANGED <<queue, asleep>>
  /\ GiveBack(t) /\ UNCHANGED <<linked, purging, calls, timeouts>>

Unlock(t, mask) ==
  /\ excl' = [excl EXCEPT ![file[t]] = @ \ mask]
  /\ shared' = [shared EXCEPT ![file[t]] = @ \ mask]
  /\ TrySignal(excl', shared')

UnlockCall(t, mask, next) ==
  /\ Go(t, next) /\ Unlock(t, mask)
  /\ GiveBack(t) /\ UNCHANGED <<linked, purging, calls, timeouts>>

-----------------------------------------------------------------------------
(* A thread takes a connection nobody uses; its first use of the wal-index   *)
(* links it to the node (unixOpenSharedMemory).                              *)
NewFile == IF purging \/ linked = Files THEN {} ELSE {CHOOSE f \in Files : f \notin linked}

Start(t) ==
  /\ at[t] = "idle" /\ calls < MaxCalls
  /\ \E f \in (linked \ {file[u] : u \in Threads}) \cup NewFile :
       /\ linked' = linked \cup {f} /\ file' = [file EXCEPT ![t] = f]
       /\ bWait' = IF f \in linked THEN bWait \cup {f} ELSE bWait \ {f}
  /\ \E j \in Jobs[t] :
       Go(t, IF j = "checkpoint" THEN "checkpoint" ELSE "begin") /\ job' = [job EXCEPT ![t] = j]
  /\ calls' = calls + 1
  /\ UNCHANGED <<excl, shared, queue, purging, asleep, stale, timeouts>>

(* The pool closes a connection it has no room for (unixShmUnmap). The last  *)
(* one takes the node along, once its queue is empty (unixShmPurge).         *)
Unmap(f) ==
  /\ f \in linked /\ \A t \in Threads : file[t] # f
  /\ linked' = linked \ {f} /\ purging' = (linked' = {})
  /\ UNCHANGED <<excl, shared, bWait, queue, asleep, file, at, job, stale, calls, timeouts>>

Purge ==
  /\ purging /\ queue = <<>> /\ purging' = FALSE
  /\ UNCHANGED <<excl, shared, linked, bWait, queue, asleep, file, at, job, stale, calls, timeouts>>

-----------------------------------------------------------------------------
(* A read transaction (walTryBeginRead). A mark behind the last commit is    *)
(* raised first, under its lock and without waiting; the mark, or the        *)
(* database file when all of the log is in it, is then shared.               *)
Raise(t) ==
  /\ at[t] = "begin" /\ stale
  /\ LockCall(t, "exclusive", {"read1"}, FALSE, "raised", "share")
  /\ stale' = (at'[t] # "raised")
Raised(t) == at[t] = "raised" /\ UnlockCall(t, {"read1"}, "share")

Share(t) ==
  \E lock \in {"read0", "read1"} :
       /\ \/ at[t] = "begin" /\ (lock = "read1" => ~stale)
          \/ at[t] = "share" /\ lock = "read1"
       /\ LockCall(t, "shared", {lock}, TRUE, "reading", "begin")

EndRead(t) ==
  /\ \/ at[t] = "reading" /\ job[t] = "read"
     \/ at[t] = "ending"
  /\ UnlockCall(t, shared[file[t]], "idle")

(* A write transaction. One that finds another writer lets go of its read    *)
(* lock and begins again, for as long as it takes: WCDB's busy handler never *)
(* gives up.                                                                 *)
BeginWrite(t) ==
  /\ at[t] = "reading" /\ job[t] = "write"
  /\ LockCall(t, "exclusive", {"write"}, TRUE, "writing", "refused")

Refused(t) == at[t] = "refused" /\ UnlockCall(t, shared[file[t]], "begin")

(* A writer that reads the database file may start the log over, if nobody   *)
(* reads it; it becomes a reader of the log in any case (walRestartLog).     *)
RestartLog(t) ==
  /\ at[t] = "writing" /\ shared[file[t]] = {"read0"}
  /\ LockCall(t, "exclusive", {"read1"}, FALSE, "restarted", "leaving")
Restarted(t) == at[t] = "restarted" /\ UnlockCall(t, {"read1"}, "leaving")
LeaveFile(t) == at[t] = "leaving" /\ UnlockCall(t, {"read0"}, "rejoin")
Rejoin(t) == at[t] = "rejoin" /\ LockCall(t, "shared", {"read1"}, FALSE, "written", "rejoin")

EndWrite(t) ==
  /\ at[t] \in {"writing", "written"} /\ UnlockCall(t, {"write"}, "ending")
  /\ stale' \in {stale, TRUE}

(* A passive checkpoint (sqlite3WalCheckpoint): it waits for nobody.         *)
Checkpoint(t) ==
  at[t] = "checkpoint" /\ LockCall(t, "exclusive", {"ckpt"}, FALSE, "testing", "idle")
TestMark(t) == at[t] = "testing" /\ LockCall(t, "exclusive", {"read1"}, FALSE, "tested", "copying")
Tested(t) == at[t] = "tested" /\ UnlockCall(t, {"read1"}, "copying")
Copy(t) == at[t] = "copying" /\ LockCall(t, "exclusive", {"read0"}, FALSE, "copied", "stopped")
Copied(t) == at[t] = "copied" /\ UnlockCall(t, {"read0"}, "stopped")
EndCheckpoint(t) == at[t] = "stopped" /\ UnlockCall(t, {"ckpt"}, "idle")

Step(t) ==
  \/ Raise(t) \/ EndWrite(t)
  \/ /\ \/ Raised(t) \/ Share(t) \/ EndRead(t) \/ BeginWrite(t) \/ Refused(t)
        \/ RestartLog(t) \/ Restarted(t) \/ LeaveFile(t) \/ Rejoin(t)
        \/ Checkpoint(t) \/ TestMark(t) \/ Tested(t) \/ Copy(t) \/ Copied(t) \/ EndCheckpoint(t)
     /\ UNCHANGED stale

Next ==
  \/ \E t \in Threads : Start(t) \/ Step(t) \/ TimeOut(t)
  \/ \E f \in Files : Unmap(f)
  \/ Purge

Spec == Init /\ [][Next]_vars

(* Threads are scheduled. Nothing is assumed of the ten seconds.             *)
Fairness == \A t \in Threads : WF_vars(Step(t))
FairSpec == Spec /\ Fairness

-----------------------------------------------------------------------------
(* Two connections never hold locks that exclude each other, as the          *)
(* assertion in the unlocking branch of unixShmLock has it.                  *)
SiblingsDisjoint ==
  \A f, g \in Files : f # g => excl[f] \cap (excl[g] \cup shared[g]) = {}

(* While anybody is in the queue somebody holds a lock, whose unlock will    *)
(* look at the queue; so nobody is left in it when the node is purged, whose *)
(* loop takes nothing out.                                                   *)
QueueHasHolder == queue # <<>> => \E f \in linked : excl[f] \cup shared[f] # {}

(* A sleeping thread is in the queue, whoever's wait has timed out.          *)
SleeperIsQueued == \A t \in asleep : \E i \in DOMAIN queue : queue[i].thread = t

(* Every operation ends, without any wait having to time out.                *)
NobodyNeedsTheTimeout == \A t \in Threads : at[t] # "idle" ~> at[t] = "idle"
=============================================================================
