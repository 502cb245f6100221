------------------------------ MODULE WalStore ------------------------------
(***************************************************************************)
(* The write-ahead log beside what it is for: a history of the commits and *)
(* of the state each transaction began with, which the log, the wal-index  *)
(* and the database file must be able to reproduce at any moment.          *)
(***************************************************************************)
EXTENDS Wal

VARIABLES
  store,     (* the newest committed content of the database               *)
  past,      (* every content committed since the last loss of power       *)
  snap       (* what each transaction must read: its begin and its writes  *)

history == <<store, past, snap>>

Empty == [p \in Pages |-> 0]

(* What a recovery would find in the files f and d.                         *)
Replay(f, n, d) ==
  [p \in Pages |-> LET i == MaxOf({0} \cup {j \in 1..n : f.frame[j].pg = p})
                   IN IF i = 0 THEN d[p] ELSE f.frame[i].val]
Recovered(f, d) == Replay(f, CommittedUpTo(f), d)

Begins(c) == conn[c].pc \in {"check0", "check"} /\ conn'[c].pc = "read"
RollsBack(c) == conn[c].pc = "write" /\ conn'[c].pc = "read"
Puts(c) == conn[c].pc = "frames" /\ conn'[c].list # conn[c].list
Commits(c) == conn[c].pc = "frames" /\ conn'[c].pc = "done"

RememberRestart ==
  /\ store' = Recovered(file', db')
  /\ past' = IF file' = disk' /\ db' = dbDisk' THEN {store'} ELSE past \cup {store'}
  /\ snap' = [c \in Conns |-> NoState]

RememberStep ==
  /\ snap' = [c \in Conns |->
       IF Begins(c) \/ RollsBack(c) THEN store
       ELSE IF Puts(c) THEN [snap[c] EXCEPT ![MinOf(conn[c].list)] = Value(c)]
       ELSE snap[c]]
  /\ store' = IF \E c \in Conns : Commits(c) THEN snap[CHOOSE c \in Conns : Commits(c)] ELSE store
  /\ past' = past \cup {store'}

StoreInit ==
  /\ Init
  /\ store = Empty /\ past = {Empty} /\ snap = [c \in Conns |-> NoState]

StoreNext ==
  \/ (\E c \in Conns : Step(c)) /\ RememberStep
  \/ (Crash \/ PowerLoss) /\ RememberRestart

StoreSpec == StoreInit /\ [][StoreNext]_<<vars, history>>

-----------------------------------------------------------------------------
InTxn(c) == conn[c].pc \in {"read", "write", "done"}

(* Whatever others commit and checkpoint, a transaction reads the content   *)
(* the database had when it began, and what it wrote itself since.          *)
SnapshotRead == \A c \in Conns : InTxn(c) => View(c) = snap[c]

(* The newest commit is in the log over the database, and as well in the    *)
(* part of the log that is not backfilled: no reset and no checkpoint loses *)
(* a commit.                                                                *)
Content(lo) == [p \in Pages |-> PageAt(p, lo, hdr.mx)]
NewestIsKept == hdr.init => Content(1) = store /\ Content(nBackfill + 1) = store

Committing(c) == conn[c].pc = "frames" /\ conn[c].commit /\ conn[c].list = {}
Pending == {snap[c] : c \in {x \in Conns : Committing(x)}}

(* Kill the process at any point: recovery (walIndexRecover) finds the      *)
(* newest commit, or the one whose frames were all written.                 *)
CrashKeepsCommits == Recovered(file, db) \in {store} \cup Pending

(* Lose power at any point: whichever unsynced writes survive, recovery     *)
(* finds one of the commits, never a mixture or a part of one.              *)
PowerLossIsClean ==
  \A g \in Left(file.frame, disk.frame), d \in Left(db, dbDisk) :
    Recovered([disk EXCEPT !.frame = g], d) \in past \cup Pending

(* A page cache that is kept because the header has not changed since       *)
(* (walIndexTryHdr, sqlite3WalBeginReadTransaction) holds what the new       *)
(* transaction must read.                                                   *)
CacheFresh ==
  [][\A c \in Conns : Begins(c) /\ conn[c].cache # NoState => conn[c].cache = View(c)']_vars
=============================================================================
