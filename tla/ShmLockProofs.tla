---------------------------- MODULE ShmLockProofs ----------------------------
(***************************************************************************)
(* The locks of the wal-index and the queue of those who wait for them,    *)
(* for any threads, connections and jobs, any number of operations and any *)
(* waits that time out: what two connections hold never conflicts, and     *)
(* nobody sleeps or is left in the queue without somebody to wake it.      *)
(***************************************************************************)
EXTENDS ShmLock, TLAPS, SequenceTheorems, WellFoundedInduction

(* Minima of sets of naturals.                                              *)
LEMMA LeastNat ==
  ASSUME NEW S \in SUBSET Nat, S # {}
  PROVE  Min(S) \in S /\ \A y \in S : Min(S) <= y
<1> DEFINE R == {ss \in Nat \X Nat : ss[1] < ss[2]}
<1>1. OpToRel(<, Nat) = R
  BY DEF OpToRel
<1>2. IsWellFoundedOn(R, Nat)
  BY <1>1, NatLessThanWellFounded, Zenon
<1>3. \A x, y \in Nat : y < x => <<y, x>> \in R
  OBVIOUS
<1> HIDE DEF R
<1>4. PICK x \in S : \A y \in S : ~(<<y, x>> \in R)
  BY <1>2, WFMin
<1>5. ASSUME NEW y \in S PROVE x <= y
  <2>1. x \in Nat /\ y \in Nat
    OBVIOUS
  <2>2. ~(y < x)
    BY <1>3, <1>4, <2>1
  <2> QED
    BY <2>1, <2>2
<1> QED
  BY <1>5 DEF Min

-----------------------------------------------------------------------------
(* Where a thread is tells what its connection holds.                       *)

Places ==
  {"idle", "begin", "raised", "share", "reading", "refused", "writing", "restarted", "leaving",
   "rejoin", "written", "ending", "checkpoint", "testing", "tested", "copying", "copied", "stopped"}

ExclAt(place) == {lock \in Locks :
  \/ lock = "write" /\ place \in {"writing", "restarted", "leaving", "rejoin", "written"}
  \/ lock = "ckpt" /\ place \in {"testing", "tested", "copying", "copied", "stopped"}
  \/ lock = "read0" /\ place = "copied"
  \/ lock = "read1" /\ place \in {"raised", "restarted", "tested"}}

SharedAt(place) ==
  IF place \in {"reading", "refused", "writing", "written", "ending"} THEN {{"read0"}, {"read1"}}
  ELSE IF place \in {"restarted", "leaving"} THEN {{"read0"}}
  ELSE {{}}

Entries ==
  [thread : Threads, file : Files, flag : {"exclusive", "shared"}, mask : SUBSET Locks]

ShmTypeOK ==
  /\ excl \in [Files -> SUBSET Locks] /\ shared \in [Files -> SUBSET Locks]
  /\ linked \subseteq Files /\ bWait \subseteq Files /\ purging \in BOOLEAN
  /\ queue \in Seq(Entries) /\ asleep \subseteq Threads
  /\ file \in [Threads -> Files \cup {NoFile}] /\ at \in [Threads -> Places]

Placed(t) ==
  IF at[t] = "idle" THEN file[t] = NoFile
  ELSE /\ file[t] \in linked
       /\ excl[file[t]] = ExclAt(at[t]) /\ shared[file[t]] \in SharedAt(at[t])

OwnFile == \A t, u \in Threads : t # u /\ file[t] # NoFile => file[t] # file[u]

Unused(f) == \A t \in Threads : file[t] # f
UnusedHoldsNothing == \A f \in Files : Unused(f) => excl[f] = {} /\ shared[f] = {}

FilesInv ==
  /\ ShmTypeOK /\ (\A t \in Threads : Placed(t)) /\ OwnFile /\ UnusedHoldsNothing
  /\ SiblingsDisjoint /\ (purging => linked = {})

Held == \E f \in linked : excl[f] \cup shared[f] # {}

QueueInv == QueueHasHolder /\ SleeperIsQueued
ShmInv == FilesInv /\ QueueInv

LEMMA HoldersLinked ==
  ASSUME FilesInv, NEW f \in Files, excl[f] \cup shared[f] # {}
  PROVE  f \in linked
<1>1. PICK t \in Threads : file[t] = f
  BY DEF FilesInv, UnusedHoldsNothing, Unused
<1>2. at[t] # "idle"
  BY <1>1, ShmAssumption DEF FilesInv, Placed
<1> QED
  BY <1>1, <1>2 DEF FilesInv, Placed

-----------------------------------------------------------------------------
(* The queue.                                                               *)

LEMMA Signalled ==
  ASSUME queue \in Seq(Entries), NEW n \in 0..Len(queue), Signal(n), asleep \subseteq Threads
  PROVE  /\ queue' \in Seq(Entries) /\ asleep' \subseteq Threads
         /\ SleeperIsQueued => SleeperIsQueued'
         /\ queue' # <<>> => n + 1 \in DOMAIN queue /\ queue # <<>>
<1>1. /\ Len(queue) \in Nat /\ DOMAIN queue = 1..Len(queue)
      /\ \A i \in 1..Len(queue) : queue[i] \in Entries
  BY LenProperties, ElementOfSeq
<1> DEFINE m == Len(queue)
<1>9. m \in Nat /\ n \in Nat /\ n <= m
  BY <1>1
<1>2. queue' = SubSeq(queue, n + 1, m)
  BY DEF Signal
<1>3. asleep' = asleep \ {queue[i].thread : i \in 1..n}
  BY DEF Signal
<1>4. /\ queue' \in Seq(Entries)
      /\ Len(queue') = m - n
      /\ \A i \in 1..(m - n) : queue'[i] = queue[n + i]
  <2>1. n + 1 \in 1..(m + 1) /\ \A i \in (n + 1)..m : i \in 1..m
    BY <1>1
  <2>2. /\ SubSeq(queue, n + 1, m) \in Seq(Entries)
        /\ Len(SubSeq(queue, n + 1, m)) = IF n + 1 <= m THEN m - (n + 1) + 1 ELSE 0
        /\ \A i \in 1..(m - (n + 1) + 1) : SubSeq(queue, n + 1, m)[i] = queue[n + 1 + i - 1]
    BY <1>1, <2>1, SubSeqProperties
  <2>3. m - (n + 1) + 1 = m - n /\ (n + 1 <= m \/ m - n = 0) /\ \A i \in 1..(m - n) : n + 1 + i - 1 = n + i
    <3> HIDE DEF m
    <3> QED
      BY <1>9
  <2> HIDE DEF m
  <2> QED
    BY <1>2, <2>2, <2>3
<1>5. DOMAIN queue' = 1..(m - n)
  BY <1>4, LenProperties
<1>6. ASSUME SleeperIsQueued, NEW t \in asleep'
      PROVE  \E i \in DOMAIN queue' : queue'[i].thread = t
  <2>1. PICK j \in 1..m : queue[j].thread = t
    BY <1>1, <1>3, <1>6 DEF SleeperIsQueued
  <2>2. j \notin 1..n
    BY <1>3, <1>6, <2>1
  <2>3. j - n \in 1..(m - n) /\ n + (j - n) = j
    BY <1>1, <2>2
  <2> QED
    BY <1>4, <1>5, <2>1, <2>3
<1>7. queue' # <<>> => n + 1 \in DOMAIN queue
  <2>1. m - n = 0 => queue' = <<>>
    BY <1>4, EmptySeq
  <2>2. m - n # 0 => n + 1 \in 1..m
    <3> HIDE DEF m
    <3> QED
      BY <1>9
  <2> QED
    BY <1>1, <2>1, <2>2
<1>8. n + 1 \in DOMAIN queue => queue # <<>>
  BY <1>1, EmptySeq
<1> QED
  BY <1>3, <1>4, <1>6, <1>7, <1>8 DEF SleeperIsQueued

(* Whoever is left in the queue after an unlock waits for a lock that is     *)
(* held.                                                                    *)
LEMMA TriedSignal ==
  ASSUME queue \in Seq(Entries), asleep \subseteq Threads, NEW ex, NEW sh, TrySignal(ex, sh)
  PROVE  /\ queue' \in Seq(Entries) /\ asleep' \subseteq Threads
         /\ SleeperIsQueued => SleeperIsQueued'
         /\ queue' # <<>> => \E f \in linked : ex[f] \cup sh[f] # {}
<1> DEFINE taken == {i \in DOMAIN queue : Blocked(ex, sh, queue[i].flag, queue[i].mask)}
           S == taken \cup {Len(queue) + 1}
           n == Min(S) - 1
<1>1. Len(queue) \in Nat /\ DOMAIN queue = 1..Len(queue)
  BY LenProperties
<1>2. S \in SUBSET Nat /\ S # {}
  BY <1>1
<1>3. Min(S) \in S /\ \A y \in S : Min(S) <= y
  BY <1>2, LeastNat
<1>4. n \in 0..Len(queue) /\ n + 1 = Min(S)
  BY <1>1, <1>3
<1>5. Signal(n)
  BY DEF TrySignal
<1>6. /\ queue' \in Seq(Entries) /\ asleep' \subseteq Threads
      /\ SleeperIsQueued => SleeperIsQueued'
      /\ queue' # <<>> => n + 1 \in DOMAIN queue
  BY <1>4, <1>5, Signalled
<1>7. ASSUME queue' # <<>> PROVE \E f \in linked : ex[f] \cup sh[f] # {}
  <2>1. Min(S) \in taken
    BY <1>1, <1>3, <1>4, <1>6, <1>7
  <2>2. PICK i : Blocked(ex, sh, queue[i].flag, queue[i].mask)
    BY <2>1
  <2> QED
    BY <2>2 DEF Blocked
<1> QED
  BY <1>6, <1>7

(* A wait, of one who found a lock taken.                                   *)
LEMMA Waited ==
  ASSUME queue \in Seq(Entries), asleep \subseteq Threads,
         NEW t \in Threads, file[t] \in Files,
         NEW flag \in {"exclusive", "shared"}, NEW mask \in SUBSET Locks, Wait(t, flag, mask)
  PROVE  /\ queue' \in Seq(Entries) /\ asleep' \subseteq Threads
         /\ SleeperIsQueued => SleeperIsQueued'
<1> DEFINE entry == [thread |-> t, file |-> file[t], flag |-> flag, mask |-> mask]
<1>1. \/ queue # <<>> /\ Signal(1)
      \/ /\ queue' = <<entry>> \o queue \/ queue' = Append(queue, entry)
         /\ asleep' = asleep \cup {t}
  BY DEF Wait
<1>2. Len(queue) \in Nat /\ DOMAIN queue = 1..Len(queue)
  BY LenProperties
<1>3. CASE queue # <<>> /\ Signal(1)
  <2>1. 1 \in 0..Len(queue)
    BY <1>2, <1>3, EmptySeq
  <2> QED
    BY <1>3, <2>1, Signalled
<1>4. entry \in Entries /\ entry.thread = t
  BY DEF Entries
<1> HIDE DEF entry
<1>5. CASE queue' = Append(queue, entry) /\ asleep' = asleep \cup {t}
  <2>1. /\ queue' \in Seq(Entries) /\ DOMAIN queue' = 1..(Len(queue) + 1)
        /\ queue'[Len(queue) + 1] = entry
        /\ \A i \in 1..Len(queue) : queue'[i] = queue[i]
    BY <1>2, <1>4, <1>5, AppendProperties
  <2>2. ASSUME SleeperIsQueued, NEW u \in asleep'
        PROVE  \E i \in DOMAIN queue' : queue'[i].thread = u
    <3>1. CASE u = t
      BY <1>2, <1>4, <2>1, <3>1
    <3>2. CASE u \in asleep
      <4>1. PICK i \in 1..Len(queue) : queue[i].thread = u
        BY <1>2, <2>2, <3>2 DEF SleeperIsQueued
      <4> QED
        BY <1>2, <2>1, <4>1
    <3> QED
      BY <1>5, <2>2, <3>1, <3>2
  <2> QED
    BY <1>5, <2>1, <2>2 DEF SleeperIsQueued
<1>6. CASE queue' = <<entry>> \o queue /\ asleep' = asleep \cup {t}
  <2>1. <<entry>> \in Seq(Entries) /\ Len(<<entry>>) = 1 /\ <<entry>>[1] = entry
    BY <1>4
  <2>2. /\ queue' \in Seq(Entries) /\ Len(queue') = 1 + Len(queue)
        /\ \A i \in 1..(1 + Len(queue)) :
             queue'[i] = IF i <= 1 THEN <<entry>>[i] ELSE queue[i - 1]
    BY <1>2, <1>6, <2>1, ConcatProperties
  <2>3. DOMAIN queue' = 1..(1 + Len(queue))
    BY <2>2, LenProperties
  <2>4. ASSUME SleeperIsQueued, NEW u \in asleep'
        PROVE  \E i \in DOMAIN queue' : queue'[i].thread = u
    <3>1. CASE u = t
      <4>1. 1 \in DOMAIN queue' /\ queue'[1] = entry
        BY <1>2, <2>1, <2>2, <2>3
      <4> QED
        BY <1>4, <3>1, <4>1
    <3>2. CASE u \in asleep
      <4>1. PICK i \in 1..Len(queue) : queue[i].thread = u
        BY <1>2, <2>4, <3>2 DEF SleeperIsQueued
      <4>2. i + 1 \in DOMAIN queue' /\ queue'[i + 1] = queue[i]
        BY <1>2, <2>2, <2>3
      <4> QED
        BY <4>1, <4>2
    <3> QED
      BY <1>6, <2>4, <3>1, <3>2
  <2> QED
    BY <1>6, <2>2, <2>4 DEF SleeperIsQueued
<1> QED
  BY <1>1, <1>3, <1>5, <1>6

-----------------------------------------------------------------------------
(* The calls.                                                               *)

(* A thread goes to another place, and its connection holds what that place  *)
(* asks for and no other connection excludes.                               *)
LEMMA Moved ==
  ASSUME FilesInv, NEW t \in Threads, at[t] # "idle",
         NEW place \in Places, NEW E \in SUBSET Locks, NEW S \in SUBSET Locks,
         at' = [at EXCEPT ![t] = place],
         excl' = [excl EXCEPT ![file[t]] = E], shared' = [shared EXCEPT ![file[t]] = S],
         E = ExclAt(place), S \in SharedAt(place), place = "idle" => E = {} /\ S = {},
         \A g \in Files \ {file[t]} : E \cap (excl[g] \cup shared[g]) = {} /\ excl[g] \cap S = {},
         GiveBack(t), UNCHANGED <<linked, purging>>,
         queue' \in Seq(Entries), asleep' \subseteq Threads
  PROVE  FilesInv'
<1> DEFINE f == file[t]
<1>1. f \in Files /\ f \in linked /\ f # NoFile /\ at[t] \in Places
  BY ShmAssumption DEF FilesInv, Placed, ShmTypeOK
<1>2. /\ excl'[f] = E /\ shared'[f] = S /\ at'[t] = place
      /\ \A g \in Files \ {f} : excl'[g] = excl[g] /\ shared'[g] = shared[g]
      /\ \A u \in Threads \ {t} : at'[u] = at[u] /\ file'[u] = file[u]
      /\ file'[t] = IF place = "idle" THEN NoFile ELSE f
  BY <1>1 DEF FilesInv, ShmTypeOK, GiveBack
<1>3. ShmTypeOK'
  BY <1>1, <1>2 DEF FilesInv, ShmTypeOK, GiveBack
<1>4. \A u \in Threads \ {t} : file[u] # f
  BY <1>1 DEF FilesInv, OwnFile
<1>5. ASSUME NEW u \in Threads PROVE Placed(u)'
  <2>1. CASE u = t
    BY <1>1, <1>2, <2>1 DEF Placed
  <2>2. CASE u # t
    <3>1. at[u] = "idle" \/ (file[u] \in Files \ {f})
      BY <1>4, <2>2 DEF FilesInv, Placed, ShmTypeOK
    <3> QED
      BY <1>2, <2>2, <3>1 DEF FilesInv, Placed
  <2> QED
    BY <2>1, <2>2
<1>6. OwnFile'
  BY <1>1, <1>2, <1>4 DEF FilesInv, OwnFile
<1>7. UnusedHoldsNothing'
  <2> SUFFICES ASSUME NEW g \in Files, Unused(g)' PROVE excl'[g] = {} /\ shared'[g] = {}
    BY DEF UnusedHoldsNothing
  <2>1. CASE g = f
    BY <1>2, <2>1 DEF Unused
  <2>2. CASE g # f
    <3>1. Unused(g)
      BY <1>2, <2>2 DEF Unused
    <3> QED
      BY <1>2, <2>2, <3>1 DEF FilesInv, UnusedHoldsNothing
  <2> QED
    BY <2>1, <2>2
<1>8. SiblingsDisjoint'
  <2> SUFFICES ASSUME NEW g \in Files, NEW h \in Files, g # h
               PROVE  excl'[g] \cap (excl'[h] \cup shared'[h]) = {}
    BY DEF SiblingsDisjoint
  <2> QED
    BY <1>2 DEF FilesInv, SiblingsDisjoint
<1>9. (purging => linked = {})'
  BY DEF FilesInv
<1> QED
  BY <1>3, <1>5, <1>6, <1>7, <1>8, <1>9 DEF FilesInv

LEMMA LockCallKeeps ==
  ASSUME ShmInv, NEW t \in Threads, at[t] # "idle",
         NEW flag \in {"exclusive", "shared"}, NEW mask \in SUBSET Locks, mask # {},
         NEW begins \in BOOLEAN, NEW granted \in Places \ {"idle"}, NEW busy \in Places,
         LockCall(t, flag, mask, begins, granted, busy),
         flag = "exclusive" =>
           ExclAt(granted) = ExclAt(at[t]) \cup mask /\ shared[file[t]] \in SharedAt(granted),
         flag = "shared" =>
           ExclAt(granted) = ExclAt(at[t]) /\ (shared[file[t]] \cup mask) \in SharedAt(granted),
         ExclAt(busy) = ExclAt(at[t]) /\ shared[file[t]] \in SharedAt(busy),
         busy = "idle" => ExclAt(at[t]) = {} /\ shared[file[t]] = {}
  PROVE  ShmInv'
<1> DEFINE f == file[t]
<1>1. FilesInv /\ QueueInv /\ ShmTypeOK
  BY DEF ShmInv, FilesInv
<1>2. f \in Files /\ f \in linked /\ excl[f] = ExclAt(at[t]) /\ excl[f] \in SUBSET Locks /\ shared[f] \in SUBSET Locks
  BY <1>1 DEF FilesInv, Placed, ShmTypeOK
<1>3. \A g \in Files \ {f} : excl[f] \cap (excl[g] \cup shared[g]) = {} /\ excl[g] \cap shared[f] = {}
  BY <1>1, <1>2 DEF FilesInv, SiblingsDisjoint
<1>4. GiveBack(t) /\ UNCHANGED <<linked, purging>>
  BY DEF LockCall
<1>5. CASE ~Blocked(excl, shared, flag, mask)
  <2>1. Go(t, granted) /\ Take(t, flag, mask)
    BY <1>5 DEF LockCall
  <2>2. queue' = queue /\ asleep' = asleep /\ at' = [at EXCEPT ![t] = granted]
    BY <2>1 DEF Take, Go
  <2>3. queue' \in Seq(Entries) /\ asleep' \subseteq Threads
    BY <1>1, <2>2 DEF ShmTypeOK
  <2>4. ASSUME NEW g \in Files
        PROVE  excl[g] \cap mask = {} /\ (flag = "exclusive" => shared[g] \cap mask = {})
    <3>1. CASE g \in linked
      BY <1>5, <3>1 DEF Blocked
    <3>2. CASE g \notin linked
      BY <1>1, <3>2, HoldersLinked
    <3> QED
      BY <3>1, <3>2
  <2>5. CASE flag = "exclusive"
    <3>1. /\ excl' = [excl EXCEPT ![f] = excl[f] \cup mask]
          /\ shared' = [shared EXCEPT ![f] = shared[f]]
      BY <1>1, <2>1, <2>5 DEF Take, ShmTypeOK
    <3>2. \A g \in Files \ {f} : /\ (excl[f] \cup mask) \cap (excl[g] \cup shared[g]) = {}
                                /\ excl[g] \cap shared[f] = {}
      BY <1>3, <2>4, <2>5
    <3>3. excl[f] \cup mask = ExclAt(granted) /\ shared[f] \in SharedAt(granted)
          /\ excl[f] \cup mask \in SUBSET Locks
      BY <1>2, <2>5
    <3>4. FilesInv'
      BY <1>1, <1>2, <1>4, <2>2, <2>3, <3>1, <3>2, <3>3, Moved
    <3>5. \A g \in Files : excl[g] \subseteq excl'[g] /\ shared[g] \subseteq shared'[g]
      BY <1>1, <1>2, <3>1 DEF ShmTypeOK
    <3>6. QueueInv'
      BY <1>1, <1>4, <2>2, <3>5 DEF QueueInv, QueueHasHolder, SleeperIsQueued, ShmTypeOK
    <3> QED
      BY <3>4, <3>6 DEF ShmInv
  <2>6. CASE flag = "shared"
    <3>1. /\ excl' = [excl EXCEPT ![f] = excl[f]]
          /\ shared' = [shared EXCEPT ![f] = shared[f] \cup mask]
      BY <1>1, <2>1, <2>6 DEF Take, ShmTypeOK
    <3>2. \A g \in Files \ {f} : /\ excl[f] \cap (excl[g] \cup shared[g]) = {}
                                /\ excl[g] \cap (shared[f] \cup mask) = {}
      BY <1>3, <2>4
    <3>3. excl[f] = ExclAt(granted) /\ shared[f] \cup mask \in SharedAt(granted)
          /\ shared[f] \cup mask \in SUBSET Locks
      BY <1>2, <2>6
    <3>4. FilesInv'
      BY <1>1, <1>2, <1>4, <2>2, <2>3, <3>1, <3>2, <3>3, Moved
    <3>5. \A g \in Files : excl[g] \subseteq excl'[g] /\ shared[g] \subseteq shared'[g]
      BY <1>1, <1>2, <3>1 DEF ShmTypeOK
    <3>6. QueueInv'
      BY <1>1, <1>4, <2>2, <3>5 DEF QueueInv, QueueHasHolder, SleeperIsQueued, ShmTypeOK
    <3> QED
      BY <3>4, <3>6 DEF ShmInv
  <2> QED
    BY <2>5, <2>6
<1>6. CASE Blocked(excl, shared, flag, mask)
  <2>1. Go(t, busy) /\ UNCHANGED <<excl, shared>> /\ (Wait(t, flag, mask) \/ UNCHANGED <<queue, asleep>>)
    BY <1>6 DEF LockCall
  <2>2. at' = [at EXCEPT ![t] = busy]
    BY <2>1 DEF Go
  <2>3. /\ excl' = [excl EXCEPT ![f] = excl[f]] /\ shared' = [shared EXCEPT ![f] = shared[f]]
    BY <1>1, <2>1 DEF ShmTypeOK
  <2>4. /\ queue' \in Seq(Entries) /\ asleep' \subseteq Threads
        /\ SleeperIsQueued => SleeperIsQueued'
    <3>1. CASE UNCHANGED <<queue, asleep>>
      BY <1>1, <3>1 DEF ShmTypeOK, SleeperIsQueued
    <3>2. CASE Wait(t, flag, mask)
      BY <1>1, <1>2, <3>2, Waited DEF ShmTypeOK
    <3> QED
      BY <2>1, <3>1, <3>2
  <2>5. FilesInv'
    BY <1>1, <1>2, <1>3, <1>4, <2>2, <2>3, <2>4, Moved
  <2>6. QueueHasHolder'
    BY <1>4, <1>6, <2>1 DEF Blocked, QueueHasHolder
  <2> QED
    BY <1>1, <2>4, <2>5, <2>6 DEF ShmInv, QueueInv
<1> QED
  BY <1>5, <1>6

LEMMA UnlockCallKeeps ==
  ASSUME ShmInv, NEW t \in Threads, at[t] # "idle",
         NEW mask \in SUBSET Locks, NEW next \in Places, UnlockCall(t, mask, next),
         ExclAt(next) = ExclAt(at[t]) \ mask, (shared[file[t]] \ mask) \in SharedAt(next),
         next = "idle" => ExclAt(at[t]) \subseteq mask /\ shared[file[t]] \subseteq mask
  PROVE  ShmInv'
<1> DEFINE f == file[t]
<1>1. FilesInv /\ QueueInv /\ ShmTypeOK
  BY DEF ShmInv, FilesInv
<1>2. f \in Files /\ excl[f] = ExclAt(at[t]) /\ excl[f] \in SUBSET Locks /\ shared[f] \in SUBSET Locks
  BY <1>1 DEF FilesInv, Placed, ShmTypeOK
<1>3. \A g \in Files \ {f} : excl[f] \cap (excl[g] \cup shared[g]) = {} /\ excl[g] \cap shared[f] = {}
  BY <1>1, <1>2 DEF FilesInv, SiblingsDisjoint
<1>4. GiveBack(t) /\ UNCHANGED <<linked, purging>> /\ Unlock(t, mask) /\ at' = [at EXCEPT ![t] = next]
  BY DEF UnlockCall, Go
<1>5. /\ excl' = [excl EXCEPT ![f] = excl[f] \ mask] /\ shared' = [shared EXCEPT ![f] = shared[f] \ mask]
      /\ TrySignal(excl', shared')
  BY <1>4 DEF Unlock
<1>6. /\ queue' \in Seq(Entries) /\ asleep' \subseteq Threads
      /\ SleeperIsQueued => SleeperIsQueued'
      /\ queue' # <<>> => \E g \in linked : excl'[g] \cup shared'[g] # {}
  BY <1>1, <1>5, TriedSignal DEF ShmTypeOK
<1>7. FilesInv'
  <2>1. \A g \in Files \ {f} : /\ (excl[f] \ mask) \cap (excl[g] \cup shared[g]) = {}
                              /\ excl[g] \cap (shared[f] \ mask) = {}
    BY <1>3
  <2>2. /\ excl[f] \ mask \in SUBSET Locks /\ shared[f] \ mask \in SUBSET Locks
        /\ excl[f] \ mask = ExclAt(next)
        /\ next = "idle" => excl[f] \ mask = {} /\ shared[f] \ mask = {}
    BY <1>2
  <2> QED
    BY <1>1, <1>2, <1>4, <1>5, <1>6, <2>1, <2>2, Moved
<1> QED
  BY <1>1, <1>4, <1>6, <1>7 DEF ShmInv, QueueInv, QueueHasHolder

(* What the connections hold, place by place.                               *)
LEMMA Holdings ==
  /\ \A place \in {"idle", "begin", "share", "reading", "refused", "ending", "checkpoint"} :
       ExclAt(place) = {}
  /\ \A place \in {"writing", "leaving", "rejoin", "written"} : ExclAt(place) = {"write"}
  /\ \A place \in {"testing", "copying", "stopped"} : ExclAt(place) = {"ckpt"}
  /\ ExclAt("raised") = {"read1"} /\ ExclAt("restarted") = {"write", "read1"}
  /\ ExclAt("tested") = {"ckpt", "read1"} /\ ExclAt("copied") = {"ckpt", "read0"}
BY DEF ExclAt, Locks

LEMMA Standing ==
  ASSUME ShmInv, NEW t \in Threads
  PROVE  /\ at[t] \in Places
         /\ at[t] # "idle" => file[t] \in Files /\ shared[file[t]] \in SharedAt(at[t])
         /\ at[t] # "idle" => excl[file[t]] = ExclAt(at[t]) /\ shared[file[t]] \in SUBSET Locks
BY DEF ShmInv, FilesInv, Placed, ShmTypeOK

(* One call of xShmLock, whichever it is.                                    *)
LEMMA StepKeeps ==
  ASSUME ShmInv, NEW t \in Threads, Step(t)
  PROVE  ShmInv'
<1> USE DEF SharedAt
<1>1. /\ at[t] \in Places
      /\ at[t] # "idle" => file[t] \in Files /\ shared[file[t]] \in SharedAt(at[t])
      /\ at[t] # "idle" => excl[file[t]] = ExclAt(at[t]) /\ shared[file[t]] \in SUBSET Locks
  BY Standing
<1>2. CASE Raise(t)
  <2>1. at[t] = "begin" /\ LockCall(t, "exclusive", {"read1"}, FALSE, "raised", "share")
    BY <1>2 DEF Raise
  <2> QED
    BY <1>1, <2>1, Holdings, LockCallKeeps DEF Places, Locks
<1>3. CASE BeginWrite(t)
  <2>1. at[t] = "reading" /\ LockCall(t, "exclusive", {"write"}, TRUE, "writing", "refused")
    BY <1>3 DEF BeginWrite
  <2> QED
    BY <1>1, <2>1, Holdings, LockCallKeeps DEF Places, Locks
<1>4. CASE RestartLog(t)
  <2>1. at[t] = "writing" /\ LockCall(t, "exclusive", {"read1"}, FALSE, "restarted", "leaving")
    BY <1>4 DEF RestartLog
  <2>2. shared[file[t]] = {"read0"}
    BY <1>4 DEF RestartLog
  <2> QED
    BY <1>1, <2>1, <2>2, Holdings, LockCallKeeps DEF Places, Locks
<1>5. CASE Rejoin(t)
  <2>1. at[t] = "rejoin" /\ LockCall(t, "shared", {"read1"}, FALSE, "written", "rejoin")
    BY <1>5 DEF Rejoin
  <2> QED
    BY <1>1, <2>1, Holdings, LockCallKeeps DEF Places, Locks
<1>6. CASE Checkpoint(t)
  <2>1. at[t] = "checkpoint" /\ LockCall(t, "exclusive", {"ckpt"}, FALSE, "testing", "idle")
    BY <1>6 DEF Checkpoint
  <2> QED
    BY <1>1, <2>1, Holdings, LockCallKeeps DEF Places, Locks
<1>7. CASE TestMark(t)
  <2>1. at[t] = "testing" /\ LockCall(t, "exclusive", {"read1"}, FALSE, "tested", "copying")
    BY <1>7 DEF TestMark
  <2> QED
    BY <1>1, <2>1, Holdings, LockCallKeeps DEF Places, Locks
<1>8. CASE Copy(t)
  <2>1. at[t] = "copying" /\ LockCall(t, "exclusive", {"read0"}, FALSE, "copied", "stopped")
    BY <1>8 DEF Copy
  <2> QED
    BY <1>1, <2>1, Holdings, LockCallKeeps DEF Places, Locks
<1>9. CASE Share(t)
  <2>1. PICK lock \in {"read0", "read1"} :
          at[t] \in {"begin", "share"} /\ LockCall(t, "shared", {lock}, TRUE, "reading", "begin")
    BY <1>9 DEF Share
  <2> QED
    BY <1>1, <2>1, Holdings, LockCallKeeps, ZenonT(30) DEF Places, Locks
<1>10. CASE Raised(t)
  <2>1. at[t] = "raised" /\ UnlockCall(t, {"read1"}, "share")
    BY <1>10 DEF Raised
  <2> QED
    BY <1>1, <2>1, Holdings, UnlockCallKeeps DEF Places, Locks
<1>11. CASE Refused(t)
  <2>1. at[t] = "refused" /\ UnlockCall(t, shared[file[t]], "begin")
    BY <1>11 DEF Refused
  <2> QED
    BY <1>1, <2>1, Holdings, UnlockCallKeeps DEF Places, Locks
<1>12. CASE Restarted(t)
  <2>1. at[t] = "restarted" /\ UnlockCall(t, {"read1"}, "leaving")
    BY <1>12 DEF Restarted
  <2> QED
    BY <1>1, <2>1, Holdings, UnlockCallKeeps DEF Places, Locks
<1>13. CASE LeaveFile(t)
  <2>1. at[t] = "leaving" /\ UnlockCall(t, {"read0"}, "rejoin")
    BY <1>13 DEF LeaveFile
  <2> QED
    BY <1>1, <2>1, Holdings, UnlockCallKeeps DEF Places, Locks
<1>14. CASE Tested(t)
  <2>1. at[t] = "tested" /\ UnlockCall(t, {"read1"}, "copying")
    BY <1>14 DEF Tested
  <2> QED
    BY <1>1, <2>1, Holdings, UnlockCallKeeps DEF Places, Locks
<1>15. CASE Copied(t)
  <2>1. at[t] = "copied" /\ UnlockCall(t, {"read0"}, "stopped")
    BY <1>15 DEF Copied
  <2> QED
    BY <1>1, <2>1, Holdings, UnlockCallKeeps DEF Places, Locks
<1>16. CASE EndCheckpoint(t)
  <2>1. at[t] = "stopped" /\ UnlockCall(t, {"ckpt"}, "idle")
    BY <1>16 DEF EndCheckpoint
  <2> QED
    BY <1>1, <2>1, Holdings, UnlockCallKeeps DEF Places, Locks
<1>17. CASE EndRead(t)
  <2>1. at[t] \in {"reading", "ending"} /\ UnlockCall(t, shared[file[t]], "idle")
    BY <1>17 DEF EndRead
  <2> QED
    BY <1>1, <2>1, Holdings, UnlockCallKeeps DEF Places, Locks
<1>18. CASE EndWrite(t)
  <2>1. at[t] \in {"writing", "written"} /\ UnlockCall(t, {"write"}, "ending")
    BY <1>18 DEF EndWrite
  <2> QED
    BY <1>1, <2>1, Holdings, UnlockCallKeeps DEF Places, Locks
<1> QED
  BY <1>2, <1>3, <1>4, <1>5, <1>6, <1>7, <1>8, <1>9, <1>10, <1>11, <1>12, <1>13, <1>14, <1>15, <1>16, <1>17, <1>18 DEF Step

-----------------------------------------------------------------------------
(* The other steps, which touch no lock.                                    *)

LEMMA StartKeeps ==
  ASSUME ShmInv, NEW t \in Threads, Start(t)
  PROVE  ShmInv'
<1>1. FilesInv /\ QueueInv /\ ShmTypeOK
  BY DEF ShmInv, FilesInv
<1>2. PICK f \in (linked \ {file[u] : u \in Threads}) \cup NewFile :
        linked' = linked \cup {f} /\ file' = [file EXCEPT ![t] = f]
        /\ bWait' = IF f \in linked THEN bWait \cup {f} ELSE bWait \ {f}
  BY DEF Start
<1>3. PICK place \in {"checkpoint", "begin"} : at' = [at EXCEPT ![t] = place]
  BY DEF Start, Go
<1>4. UNCHANGED <<excl, shared, queue, purging, asleep>> /\ at[t] = "idle"
  BY DEF Start
<1>5. f \in Files /\ Unused(f) /\ ~purging
  <2>1. CASE f \in linked /\ f \notin {file[u] : u \in Threads}
    BY <1>1, <2>1 DEF FilesInv, ShmTypeOK, Unused
  <2>2. CASE f \in NewFile
    <3>1. ~purging /\ linked # Files /\ f = (CHOOSE g \in Files : g \notin linked)
      BY <2>2 DEF NewFile
    <3>2. f \in Files /\ f \notin linked
      BY <1>1, <3>1 DEF ShmTypeOK
    <3>3. \A u \in Threads : file[u] # f
      BY <1>1, <3>2, ShmAssumption DEF FilesInv, Placed, ShmTypeOK
    <3> QED
      BY <3>1, <3>2, <3>3 DEF Unused
  <2> QED
    BY <1>2, <2>1, <2>2
<1>6. excl[f] = {} /\ shared[f] = {}
  BY <1>1, <1>5 DEF FilesInv, UnusedHoldsNothing
<1>7. ExclAt(place) = {} /\ {} \in SharedAt(place) /\ place # "idle" /\ place \in Places
  BY <1>3, Holdings DEF SharedAt, Places
<1>8. ShmTypeOK'
  BY <1>1, <1>2, <1>3, <1>4, <1>5, <1>7 DEF ShmTypeOK
<1>9. /\ at'[t] = place /\ file'[t] = f
      /\ \A u \in Threads \ {t} : at'[u] = at[u] /\ file'[u] = file[u] /\ file[u] # f
  BY <1>1, <1>2, <1>3, <1>5 DEF ShmTypeOK, Unused
<1>10. ASSUME NEW u \in Threads PROVE Placed(u)'
  <2>1. CASE u = t
    BY <1>2, <1>4, <1>6, <1>7, <1>9, <2>1, SMTT(30) DEF Placed
  <2>2. CASE u # t
    BY <1>1, <1>2, <1>4, <1>9, <2>2 DEF FilesInv, Placed
  <2> QED
    BY <2>1, <2>2
<1>11. OwnFile'
  BY <1>1, <1>9 DEF FilesInv, OwnFile
<1>12. UnusedHoldsNothing'
  <2> SUFFICES ASSUME NEW g \in Files, Unused(g)' PROVE excl'[g] = {} /\ shared'[g] = {}
    BY DEF UnusedHoldsNothing
  <2>1. g # f
    BY <1>9 DEF Unused
  <2>2. file[t] # g
    BY <1>1, <1>4, ShmAssumption DEF FilesInv, Placed
  <2>3. Unused(g)
    BY <1>9, <2>2 DEF Unused
  <2> QED
    BY <1>1, <1>4, <2>3 DEF FilesInv, UnusedHoldsNothing
<1>13. SiblingsDisjoint' /\ (purging => linked = {})'
  BY <1>1, <1>4, <1>5 DEF FilesInv, SiblingsDisjoint
<1>14. QueueInv'
  BY <1>1, <1>2, <1>4 DEF QueueInv, QueueHasHolder, SleeperIsQueued
<1> QED
  BY <1>8, <1>10, <1>11, <1>12, <1>13, <1>14 DEF ShmInv, FilesInv

LEMMA UnmapKeeps ==
  ASSUME ShmInv, NEW f \in Files, Unmap(f)
  PROVE  ShmInv'
<1>1. FilesInv /\ QueueInv /\ ShmTypeOK
  BY DEF ShmInv, FilesInv
<1>2. /\ linked' = linked \ {f} /\ purging' = (linked' = {}) /\ Unused(f)
      /\ UNCHANGED <<excl, shared, bWait, queue, asleep, file, at>>
  BY DEF Unmap, Unused
<1>3. ShmTypeOK'
  BY <1>1, <1>2 DEF ShmTypeOK
<1>4. \A u \in Threads : Placed(u)'
  BY <1>1, <1>2 DEF FilesInv, Placed, Unused
<1>5. OwnFile' /\ UnusedHoldsNothing' /\ SiblingsDisjoint' /\ (purging => linked = {})'
  BY <1>1, <1>2 DEF FilesInv, OwnFile, UnusedHoldsNothing, Unused, SiblingsDisjoint
<1>6. excl[f] \cup shared[f] = {}
  BY <1>1, <1>2 DEF FilesInv, UnusedHoldsNothing
<1>7. QueueInv'
  BY <1>1, <1>2, <1>6 DEF QueueInv, QueueHasHolder, SleeperIsQueued
<1> QED
  BY <1>3, <1>4, <1>5, <1>7 DEF ShmInv, FilesInv

LEMMA TimeOutKeeps ==
  ASSUME ShmInv, NEW t \in Threads, TimeOut(t)
  PROVE  ShmInv'
<1>1. asleep' = asleep \ {t} /\ UNCHANGED <<excl, shared, linked, bWait, queue, purging, file, at>>
  BY DEF TimeOut, node
<1> QED
  BY <1>1 DEF ShmInv, FilesInv, ShmTypeOK, Placed, OwnFile, UnusedHoldsNothing, Unused,
    SiblingsDisjoint, QueueInv, QueueHasHolder, SleeperIsQueued

LEMMA PurgeKeeps ==
  ASSUME ShmInv, Purge
  PROVE  ShmInv'
<1>1. purging' = FALSE /\ UNCHANGED <<excl, shared, linked, bWait, queue, asleep, file, at>>
  BY DEF Purge
<1> QED
  BY <1>1 DEF ShmInv, FilesInv, ShmTypeOK, Placed, OwnFile, UnusedHoldsNothing, Unused,
    SiblingsDisjoint, QueueInv, QueueHasHolder, SleeperIsQueued

-----------------------------------------------------------------------------
LEMMA ShmInvInvariant == Spec => []ShmInv
<1>1. Init => ShmInv
  <2> SUFFICES ASSUME Init PROVE ShmInv
    OBVIOUS
  <2>1. ShmTypeOK
    <3>1. queue \in Seq(Entries)
      BY DEF Init
    <3>2. excl \in [Files -> SUBSET Locks] /\ shared \in [Files -> SUBSET Locks]
      BY DEF Init
    <3>3. file \in [Threads -> Files \cup {NoFile}] /\ at \in [Threads -> Places]
      BY DEF Init, Places
    <3> QED
      BY <3>1, <3>2, <3>3 DEF Init, ShmTypeOK
  <2>2. /\ \A t \in Threads : Placed(t)
        /\ OwnFile /\ UnusedHoldsNothing /\ SiblingsDisjoint /\ (purging => linked = {})
    BY DEF Init, Placed, OwnFile, UnusedHoldsNothing, SiblingsDisjoint
  <2>3. QueueInv
    BY DEF Init, QueueInv, QueueHasHolder, SleeperIsQueued
  <2> QED
    BY <2>1, <2>2, <2>3 DEF ShmInv, FilesInv
<1>2. ShmInv /\ [Next]_vars => ShmInv'
  <2> SUFFICES ASSUME ShmInv, [Next]_vars PROVE ShmInv'
    OBVIOUS
  <2>1. CASE UNCHANGED vars
    BY <2>1 DEF vars, node, ShmInv, FilesInv, ShmTypeOK, Placed, OwnFile, UnusedHoldsNothing,
      Unused, SiblingsDisjoint, QueueInv, QueueHasHolder, SleeperIsQueued
  <2>2. ASSUME NEW t \in Threads, Start(t) PROVE ShmInv'
    BY <2>2, StartKeeps
  <2>3. ASSUME NEW t \in Threads, Step(t) PROVE ShmInv'
    BY <2>3, StepKeeps
  <2>4. ASSUME NEW t \in Threads, TimeOut(t) PROVE ShmInv'
    BY <2>4, TimeOutKeeps
  <2>5. ASSUME NEW f \in Files, Unmap(f) PROVE ShmInv'
    BY <2>5, UnmapKeeps
  <2>6. CASE Purge
    BY <2>6, PurgeKeeps
  <2> QED
    BY <2>1, <2>2, <2>3, <2>4, <2>5, <2>6 DEF Next
<1> QED
  BY <1>1, <1>2, PTL DEF Spec

(* Two connections never hold locks that exclude each other (os_unix.c, the  *)
(* assertion in the unlocking branch of unixShmLock), however many there are *)
(* and whatever their threads do.                                           *)
THEOREM NeverInConflict == Spec => []SiblingsDisjoint
BY ShmInvInvariant, PTL DEF ShmInv, FilesInv

(* While anybody is in the queue a connection of the node holds a lock, and  *)
(* its unlock will look at the queue.                                       *)
THEOREM SomebodyWillLook == Spec => []QueueHasHolder
BY ShmInvInvariant, PTL DEF ShmInv, QueueInv

(* Nobody sleeps in WCDBOsShmWait whom no entry of the queue names.          *)
THEOREM SleepersAreQueued == Spec => []SleeperIsQueued
BY ShmInvInvariant, PTL DEF ShmInv, QueueInv

(* What a connection holds is what its thread has asked for at this place of *)
(* wal.c, and a connection in the pool holds nothing.                       *)
THEOREM HoldsWhatItsPlaceAsks == Spec => []((\A t \in Threads : Placed(t)) /\ UnusedHoldsNothing)
BY ShmInvInvariant, PTL DEF ShmInv, FilesInv

(* unixShmPurge finds the queue empty: its loop over the entries left, which *)
(* takes none of them out, is never entered.                                *)
THEOREM PurgeFindsNobody == Spec => [](purging => queue = <<>>)
<1>1. ShmInv => (purging => queue = <<>>)
  BY DEF ShmInv, FilesInv, QueueInv, QueueHasHolder
<1> QED
  BY <1>1, ShmInvInvariant, PTL
=============================================================================
