-------------------------------- MODULE Wal --------------------------------
(***************************************************************************)
(* The write-ahead log under WCDB (WCDBOptimizedSQLCipher/src/wal.c):      *)
(* connections of one process that read, write, checkpoint and recover     *)
(* through the wal-index they share, and what a crash of the process or a  *)
(* loss of power leaves of the two files.                                  *)
(*                                                                         *)
(* A step ends where another connection can come between: at each look at  *)
(* or change of the wal-index, a lock or a file. A transaction's value of  *)
(* a page is 2 * txn, or 2 * txn + 1 where the commit wrote it. The        *)
(* checksum of a frame is the contents of the frames up to it, so a        *)
(* checksum never matches by accident. A reader compares both copies of    *)
(* the header in an order opposite to the writer's, so what it accepts is  *)
(* one header: reading and publishing it are single steps.                 *)
(*                                                                         *)
(* Left out: nBackfillAttempted, which only snapshots read; the size of    *)
(* the database; savepoints; checkpoints that wait or truncate, which      *)
(* WCDB never asks for; errors of the file system.                         *)
(***************************************************************************)
EXTENDS Integers, FiniteSets

CONSTANTS
  Conns,            (* connections (sqlite handles), all of one process     *)
  Writers,          (* those the instance lets write                        *)
  Spillers,         (* those whose page cache may be full                   *)
  Checkpointers,    (* those the instance lets checkpoint                   *)
  NPages,           (* pages of the database file                           *)
  NREADER,          (* WAL_NREADER, the number of read locks                *)
  IdleCheckpoints,  (* are checkpoints called when all is backfilled?       *)
  MaxFrame, MaxTxn, MaxCrash,  (* bounds of the instance                    *)
  Nobody, NoState

(* The log has room for the frames of one transaction at least.             *)
ASSUME WalAssumption ==
  /\ NPages \in Nat \ {0} /\ NREADER \in Nat \ {0, 1}
  /\ MaxFrame \in Nat /\ NPages <= MaxFrame
  /\ Writers \subseteq Conns /\ Checkpointers \subseteq Conns
  /\ Nobody \notin Conns /\ IdleCheckpoints \in BOOLEAN

VARIABLES
  hdr, nBackfill, mark, idx,           (* the wal-index, in shared memory   *)
  writer, ckpter, shared, excl,        (* its locks                         *)
  file, disk,                          (* the WAL file; as it is on storage *)
  db, dbDisk,                          (* the database file; on storage     *)
  conn,                                (* the connections                   *)
  salts, txns, crashes                 (* drawn, begun, suffered            *)

index == <<hdr, nBackfill, mark, idx>>
locks == <<writer, ckpter, shared, excl>>
files == <<file, disk, db, dbDisk>>
counts == <<salts, txns, crashes>>
vars == <<index, locks, files, conn, counts>>

Pages == 1..NPages
Frames == 1..MaxFrame
ReadLocks == 0..NREADER - 1
Marks == 1..NREADER - 1
NotUsed == MaxFrame + 1        (* READMARK_NOT_USED *)
NoFrame == [salt |-> 0, pg |-> 0, val |-> 0, commit |-> FALSE, sum |-> <<>>]
NoHdr == [init |-> FALSE, salt |-> 0, mx |-> 0]
NoFile == [salt |-> 0, nCkpt |-> 0, frame |-> [i \in Frames |-> NoFrame]]

(* A Wal object: where it is; its copy of the header and of nCkpt; what its *)
(* page cache holds between transactions; the read transaction (readLock,   *)
(* the mark it saw, minFrame); the write (its transaction, the pages still  *)
(* to write, iReCksum); the checkpoint (isChanged, mxSafeFrame, the mark to *)
(* look at, the frames to copy).                                            *)
Resting ==
  [pc |-> "idle", hdr |-> NoHdr, nCkpt |-> 0, cache |-> NoState,
   slot |-> 0, seen |-> 0, min |-> 1, useWal |-> FALSE,
   txn |-> 0, list |-> {}, commit |-> FALSE, n |-> 0, reck |-> 0,
   changed |-> FALSE, safe |-> 0, i |-> 0, copy |-> {}]

Init ==
  /\ hdr = NoHdr /\ nBackfill = 0
  /\ mark = [i \in Marks |-> 0] /\ idx = [i \in Frames |-> 0]
  /\ writer = Nobody /\ ckpter = Nobody
  /\ shared = [i \in ReadLocks |-> {}] /\ excl = {}
  /\ file = NoFile /\ disk = NoFile
  /\ db = [p \in Pages |-> 0] /\ dbDisk = db
  /\ conn = [c \in Conns |-> Resting]
  /\ salts = 0 /\ txns = 0 /\ crashes = 0

MaxOf(S) == CHOOSE x \in S : \A y \in S : y <= x
MinOf(S) == CHOOSE x \in S : \A y \in S : x <= y

CanShare(i) == i \notin excl
CanOwn(i) == i \notin excl /\ shared[i] = {}

(* sqlite3WalFindFrame: 0 when the page is not among the frames. *)
FindFrame(p, lo, hi) == MaxOf({0} \cup {i \in lo..hi : idx[i] = p})
PageAt(p, lo, hi) ==
  LET i == FindFrame(p, lo, hi) IN IF i = 0 THEN db[p] ELSE file.frame[i].val

-----------------------------------------------------------------------------
(* Frames that a recovery believes: walDecodeFrame.                         *)

Payload(f, i) == <<f[i].pg, f[i].val, f[i].commit>>
Sum(f, i) == [j \in 1..i |-> Payload(f, j)]
Valid(f, i) == f.frame[i].salt = f.salt /\ f.frame[i].pg # 0 /\ f.frame[i].sum = Sum(f.frame, i)
ValidUpTo(f) == MaxOf({0} \cup {n \in Frames : \A i \in 1..n : Valid(f, i)})
CommittedUpTo(f) == MaxOf({0} \cup {n \in 1..ValidUpTo(f) : f.frame[n].commit})

-----------------------------------------------------------------------------
(* Beginning and ending to read. Abandoned is WAL_RETRY.                    *)

Abandoned(c) == [conn EXCEPT ![c].pc = IF conn[c].useWal THEN "pick" ELSE "idle", ![c].slot = 0,
                             ![c].seen = 0, ![c].min = 1]

View(c) ==
  IF conn[c].slot = 0 THEN db
  ELSE [p \in Pages |-> PageAt(p, conn[c].min, conn[c].hdr.mx)]

(* walIndexReadHdr: the page cache survives if the header is the same.      *)
ReadHdr(c) ==
  /\ conn[c].pc = "idle" /\ hdr.init
  /\ conn' = [conn EXCEPT ![c].pc = IF nBackfill = hdr.mx THEN "lock0" ELSE "pick", ![c].hdr = hdr,
                          ![c].cache = IF hdr = conn[c].hdr THEN @ ELSE NoState]
  /\ UNCHANGED <<index, locks, files, counts>>

(* walIndexRecover, under all the locks but the read lock 0.                *)
Recover(c) ==
  /\ conn[c].pc = "idle" /\ ~hdr.init
  /\ writer = Nobody /\ ckpter = Nobody /\ \A i \in Marks : CanOwn(i)
  /\ LET some == \E i \in Frames : file.frame[i] # NoFrame
         n == CommittedUpTo(file)
     IN /\ hdr' = [init |-> TRUE, salt |-> IF some THEN file.salt ELSE 0, mx |-> n]
        /\ mark' = [i \in Marks |-> IF i = 1 /\ n > 0 THEN n ELSE NotUsed]
        /\ idx' = [i \in Frames |-> IF i <= ValidUpTo(file) THEN file.frame[i].pg ELSE 0]
        /\ conn' = [conn EXCEPT ![c].pc = IF n = 0 THEN "lock0" ELSE "pick",
                                ![c].hdr = hdr', ![c].cache = NoState,
                                ![c].nCkpt = IF some THEN file.nCkpt ELSE @]
  /\ nBackfill' = 0
  /\ UNCHANGED <<locks, files, counts>>

(* The log is backfilled: read the database alone, under read lock 0.       *)
Lock0(c) ==
  /\ conn[c].pc = "lock0"
  /\ IF CanShare(0)
     THEN /\ shared' = [shared EXCEPT ![0] = @ \cup {c}]
          /\ conn' = [conn EXCEPT ![c].pc = "check0"]
     ELSE /\ conn' = [conn EXCEPT ![c].pc = "pick"]
          /\ UNCHANGED shared
  /\ UNCHANGED <<index, writer, ckpter, excl, files, counts>>

Check0(c) ==
  /\ conn[c].pc = "check0"
  /\ IF hdr = conn[c].hdr
     THEN /\ conn' = [conn EXCEPT ![c].pc = "read", ![c].cache = NoState]
          /\ UNCHANGED shared
     ELSE /\ conn' = [conn EXCEPT ![c].pc = "idle"]
          /\ shared' = [shared EXCEPT ![0] = @ \ {c}]
  /\ UNCHANGED <<index, writer, ckpter, excl, files, counts>>

(* Otherwise, the highest mark that is not beyond the header.               *)
Pick(c) ==
  /\ conn[c].pc = "pick"
  /\ LET mx == conn[c].hdr.mx
         fit == {i \in Marks : mark[i] <= mx}
         best == MaxOf({0} \cup {mark[i] : i \in fit})
         slot == MaxOf({0} \cup {i \in fit : mark[i] = best})
     IN conn' = [conn EXCEPT ![c].slot = slot, ![c].seen = best,
                             ![c].pc = IF best < mx \/ slot = 0 THEN "raise" ELSE "share"]
  /\ UNCHANGED <<index, locks, files, counts>>

(* It is too low: set a free one to the header, holding its lock.           *)
Raise(c) ==
  /\ conn[c].pc = "raise"
  /\ LET mx == conn[c].hdr.mx
         free == {i \in Marks : CanOwn(i)}
     IN IF free # {}
        THEN /\ mark' = [mark EXCEPT ![MinOf(free)] = mx]
             /\ conn' = [conn EXCEPT ![c].slot = MinOf(free), ![c].seen = mx, ![c].pc = "share"]
        ELSE /\ conn' = IF conn[c].slot = 0 THEN Abandoned(c) ELSE [conn EXCEPT ![c].pc = "share"]
             /\ UNCHANGED mark
  /\ UNCHANGED <<hdr, nBackfill, idx, locks, files, counts>>

Share(c) ==
  /\ conn[c].pc = "share"
  /\ IF CanShare(conn[c].slot)
     THEN /\ shared' = [shared EXCEPT ![conn[c].slot] = @ \cup {c}]
          /\ conn' = [conn EXCEPT ![c].pc = "min"]
     ELSE /\ conn' = Abandoned(c)
          /\ UNCHANGED shared
  /\ UNCHANGED <<index, writer, ckpter, excl, files, counts>>

ReadMin(c) ==
  /\ conn[c].pc = "min"
  /\ conn' = [conn EXCEPT ![c].min = nBackfill + 1, ![c].pc = "check"]
  /\ UNCHANGED <<index, locks, files, counts>>

(* Mutant: a look at the mark alone. *)
SameMark(c) == mark[conn[c].slot] = conn[c].seen

SameIndex(c) == mark[conn[c].slot] = conn[c].seen /\ hdr = conn[c].hdr

(* A writer or a checkpoint may have come between: look again.              *)
Check(c) ==
  /\ conn[c].pc = "check"
  /\ IF SameIndex(c)
     THEN /\ conn' = [conn EXCEPT ![c].pc = IF conn[c].useWal THEN "header" ELSE "read",
                                  ![c].useWal = FALSE, ![c].seen = 0, ![c].cache = NoState]
          /\ UNCHANGED shared
     ELSE /\ conn' = Abandoned(c)
          /\ shared' = [shared EXCEPT ![conn[c].slot] = @ \ {c}]
  /\ UNCHANGED <<index, writer, ckpter, excl, files, counts>>

EndRead(c) ==
  /\ conn[c].pc = "read"
  /\ shared' = [shared EXCEPT ![conn[c].slot] = @ \ {c}]
  /\ conn' = [conn EXCEPT ![c] = [Resting EXCEPT !.hdr = conn[c].hdr, !.nCkpt = conn[c].nCkpt,
                                                 !.cache = View(c)]]
  /\ UNCHANGED <<index, writer, ckpter, excl, files, counts>>

-----------------------------------------------------------------------------
(* Writing.                                                                 *)

(* Only the newest snapshot may be written upon (SQLITE_BUSY_SNAPSHOT).     *)
CanWrite(c) == writer = Nobody /\ hdr = conn[c].hdr

BeginWrite(c) ==
  /\ conn[c].pc = "read" /\ c \in Writers /\ txns < MaxTxn
  /\ CanWrite(c)
  /\ writer' = c /\ txns' = txns + 1
  /\ conn' = [conn EXCEPT ![c].pc = "write", ![c].txn = txns + 1]
  /\ UNCHANGED <<index, ckpter, shared, excl, files, salts, crashes>>

CanRestart(c) == conn[c].slot = 0 /\ nBackfill > 0 /\ \A i \in Marks : CanOwn(i)

RestartedHdr(c) == [conn[c].hdr EXCEPT !.mx = 0, !.salt = salts + 1]

(* The pages whose frames are not overwritten in place.                     *)
New(c, S) == {p \in S : p = MaxOf(S) \/ FindFrame(p, conn[c].min, conn[c].hdr.mx) <= hdr.mx}

(* sqlite3WalFrames for the pages S, begun: walRestartLog and, when the log  *)
(* was wholly backfilled and nobody reads it, walRestartHdr.                *)
WriteFrames(c, S, commit) ==
  /\ conn[c].pc = "write"
  /\ conn[c].hdr.mx + Cardinality(New(c, S)) <= MaxFrame \/ CanRestart(c)
  /\ IF CanRestart(c)
     THEN /\ hdr' = RestartedHdr(c) /\ salts' = salts + 1
          /\ excl' = excl \cup Marks
          /\ conn' = [conn EXCEPT ![c].hdr = hdr', ![c].nCkpt = @ + 1,
                                  ![c].list = S, ![c].commit = commit,
                                  ![c].pc = "restart"]
     ELSE /\ conn' = [conn EXCEPT ![c].list = S, ![c].commit = commit,
                                  ![c].pc = IF conn[c].slot = 0 THEN "rejoin" ELSE "header"]
          /\ UNCHANGED <<hdr, salts, excl>>
  /\ UNCHANGED <<nBackfill, mark, idx, writer, ckpter, shared, files, txns, crashes>>

(* Mutant: a reset that leaves nBackfill. *)
RestartMarks(c) ==
  /\ conn[c].pc = "restart"
  /\ mark' = [i \in Marks |-> IF i = 1 THEN 0 ELSE NotUsed]
  /\ excl' = excl \ Marks
  /\ conn' = [conn EXCEPT ![c].pc = "rejoin"]
  /\ UNCHANGED <<hdr, nBackfill, idx, writer, ckpter, shared, files, counts>>

Restart(c) ==
  /\ conn[c].pc = "restart"
  /\ nBackfill' = 0
  /\ mark' = [i \in Marks |-> IF i = 1 THEN 0 ELSE NotUsed]
  /\ excl' = excl \ Marks
  /\ conn' = [conn EXCEPT ![c].pc = "rejoin"]
  /\ UNCHANGED <<hdr, idx, writer, ckpter, shared, files, counts>>

(* A writer that had read the database alone becomes a reader of the log.   *)
Rejoin(c) ==
  /\ conn[c].pc = "rejoin"
  /\ shared' = [shared EXCEPT ![0] = @ \ {c}]
  /\ conn' = [conn EXCEPT ![c].useWal = TRUE, ![c].pc = "pick"]
  /\ UNCHANGED <<index, writer, ckpter, excl, files, counts>>

(* The log's header is synced at once; it draws new salts the first time.   *)
WriteHeader(c) ==
  /\ conn[c].pc = "header"
  /\ IF conn[c].hdr.mx = 0
     THEN LET fresh == conn[c].nCkpt = 0
              salt == IF fresh THEN salts + 1 ELSE conn[c].hdr.salt
          IN /\ file' = [file EXCEPT !.salt = salt, !.nCkpt = conn[c].nCkpt]
             /\ disk' = file'
             /\ salts' = IF fresh THEN salts + 1 ELSE salts
             /\ conn' = [conn EXCEPT ![c].hdr.salt = salt, ![c].n = 0, ![c].pc = "frames"]
     ELSE /\ conn' = [conn EXCEPT ![c].n = conn[c].hdr.mx, ![c].pc = "frames"]
          /\ UNCHANGED <<file, disk, salts>>
  /\ UNCHANGED <<index, locks, db, dbDisk, txns, crashes>>

Value(c) == 2 * conn[c].txn + (IF conn[c].commit THEN 1 ELSE 0)

(* The pages come in the order of their numbers (sqlite3PcacheDirtyList).    *)
(* One the transaction has already written is overwritten in place, and     *)
(* from there on the checksums are wrong until the commit (iReCksum); the   *)
(* last frame of a commit is always a new one.                              *)
WriteFrame(c) ==
  /\ conn[c].pc = "frames" /\ conn[c].list # {}
  /\ LET p == MinOf(conn[c].list)
         last == conn[c].list = {p}
         old == FindFrame(p, conn[c].min, conn[c].hdr.mx)
         n == conn[c].n + 1
         put == [file.frame EXCEPT ![n] =
                   [salt |-> conn[c].hdr.salt, pg |-> p, val |-> Value(c),
                    commit |-> conn[c].commit /\ last, sum |-> <<>>]]
     IN IF conn[c].hdr # hdr /\ old > hdr.mx /\ (~last \/ ~conn[c].commit)
        THEN /\ file' = [file EXCEPT !.frame[old].val = Value(c)]
             /\ conn' = [conn EXCEPT ![c].list = @ \ {p},
                                     ![c].reck = IF @ = 0 \/ old < @ THEN old ELSE @]
        ELSE /\ file' = [file EXCEPT !.frame =
                 IF conn[c].reck = 0 THEN [put EXCEPT ![n].sum = Sum(put, n)]
                                     ELSE [put EXCEPT ![n].salt = 0]]
             /\ conn' = [conn EXCEPT ![c].list = @ \ {p}, ![c].n = n]
  /\ UNCHANGED <<index, locks, disk, db, dbDisk, counts>>

(* Mutant: the overwritten frame itself is passed over. *)
AfterRewritten(c) == conn[c].reck + 1..conn[c].n

WrongSums(c) == conn[c].reck..conn[c].n

RewriteChecksums(c) ==
  /\ conn[c].pc = "frames" /\ conn[c].list = {}
  /\ conn[c].commit /\ conn[c].reck > 0
  /\ file' = [file EXCEPT !.frame =
       [i \in Frames |-> IF i \in WrongSums(c)
                         THEN [@[i] EXCEPT !.salt = conn[c].hdr.salt, !.sum = Sum(file.frame, i)]
                         ELSE @[i]]]
  /\ conn' = [conn EXCEPT ![c].reck = 0]
  /\ UNCHANGED <<index, locks, disk, db, dbDisk, counts>>

(* walIndexAppend for the frames mx+1..n. *)
Appended(mx, n) ==
  [i \in Frames |->
     IF i <= mx THEN idx[i]
     ELSE IF i <= n THEN file.frame[i].pg
     ELSE IF n > mx /\ (mx = 0 \/ idx[mx + 1] # 0) THEN 0 ELSE idx[i]]

(* walIndexAppend, and walIndexWriteHdr when it is a commit.                *)
FinishFrames(c) ==
  /\ conn[c].pc = "frames" /\ conn[c].list = {}
  /\ ~(conn[c].commit /\ conn[c].reck > 0)
  /\ idx' = Appended(conn[c].hdr.mx, conn[c].n)
  /\ LET h == [conn[c].hdr EXCEPT !.mx = conn[c].n]
     IN IF conn[c].commit
        THEN hdr' = h /\ conn' = [conn EXCEPT ![c].hdr = h, ![c].pc = "done", ![c].n = 0,
                                              ![c].commit = FALSE]
        ELSE UNCHANGED hdr /\ conn' = [conn EXCEPT ![c].hdr = h, ![c].pc = "write", ![c].n = 0]
  /\ UNCHANGED <<nBackfill, mark, locks, files, counts>>

EndWrite(c) ==
  /\ conn[c].pc = "done"
  /\ writer' = Nobody
  /\ conn' = [conn EXCEPT ![c].pc = "read", ![c].txn = 0]
  /\ UNCHANGED <<index, ckpter, shared, excl, files, counts>>

(* A rollback: sqlite3WalUndo with walCleanupHash.                          *)
Undo(c) ==
  /\ conn[c].pc = "write"
  /\ idx' = IF conn[c].hdr.mx = hdr.mx \/ hdr.mx = 0 THEN idx
            ELSE [i \in Frames |-> IF i <= hdr.mx THEN idx[i] ELSE 0]
  /\ writer' = Nobody
  /\ conn' = [conn EXCEPT ![c].hdr = hdr, ![c].reck = 0, ![c].txn = 0, ![c].pc = "read"]
  /\ UNCHANGED <<hdr, nBackfill, mark, ckpter, shared, excl, files, counts>>

-----------------------------------------------------------------------------
(* Checkpoints. IdleCheckpoints = FALSE leaves out those begun when all is  *)
(* backfilled.                                                              *)

BeginCheckpoint(c) ==
  /\ conn[c].pc = "idle" /\ c \in Checkpointers /\ hdr.init
  /\ IdleCheckpoints \/ nBackfill < hdr.mx
  /\ ckpter = Nobody /\ ckpter' = c
  /\ conn' = [conn EXCEPT ![c].pc = "ckpt", ![c].hdr = hdr,
                          ![c].changed = (hdr # conn[c].hdr)]
  /\ UNCHANGED <<index, writer, shared, excl, files, counts>>

StartCheckpoint(c) ==
  /\ conn[c].pc = "ckpt"
  /\ conn' = IF nBackfill < conn[c].hdr.mx
             THEN [conn EXCEPT ![c].pc = "marks", ![c].safe = conn[c].hdr.mx, ![c].i = 1]
             ELSE [conn EXCEPT ![c].pc = "endCkpt"]
  /\ UNCHANGED <<index, locks, files, counts>>

(* Backfill no further than a mark in use; a mark not in use is raised.     *)
TestMark(c) ==
  /\ conn[c].pc = "marks" /\ conn[c].i \in Marks
  /\ LET i == conn[c].i
         over == conn[c].safe > mark[i]
     IN /\ mark' = IF over /\ CanOwn(i)
                   THEN [mark EXCEPT ![i] = IF i = 1 THEN conn[c].safe ELSE NotUsed]
                   ELSE mark
        /\ conn' = [conn EXCEPT ![c].i = i + 1,
                                ![c].safe = IF over /\ ~CanOwn(i) THEN mark[i] ELSE @]
  /\ UNCHANGED <<hdr, nBackfill, idx, locks, files, counts>>

ToCopy(c, from) ==
  {<<p, FindFrame(p, 1, conn[c].hdr.mx)>> : p \in Pages}
     \cap (Pages \X (from + 1..conn[c].safe))

(* Mutant: no sync. *)
Unsynced == disk

Synced == file

(* The log is synced before the first page is copied.                       *)
StartBackfill(c) ==
  /\ conn[c].pc = "marks" /\ conn[c].i = NREADER
  /\ IF nBackfill < conn[c].safe /\ CanOwn(0)
     THEN /\ excl' = excl \cup {0}
          /\ disk' = Synced
          /\ conn' = [conn EXCEPT ![c].pc = "copy", ![c].copy = ToCopy(c, nBackfill)]
     ELSE /\ conn' = [conn EXCEPT ![c].pc = "endCkpt"]
          /\ UNCHANGED <<excl, disk>>
  /\ UNCHANGED <<index, writer, ckpter, shared, file, db, dbDisk, counts>>

CopyPage(c) ==
  /\ conn[c].pc = "copy" /\ conn[c].copy # {}
  /\ LET p == MinOf({x[1] : x \in conn[c].copy})
         x == CHOOSE y \in conn[c].copy : y[1] = p
     IN /\ db' = [db EXCEPT ![p] = file.frame[x[2]].val]
        /\ conn' = [conn EXCEPT ![c].copy = @ \ {x}]
  /\ UNCHANGED <<index, locks, file, disk, dbDisk, counts>>

(* Mutant: all of the log. *)
WholeLog(c) == conn[c].hdr.mx

CopiedUpTo(c) == conn[c].safe

(* The database is synced when the whole log was copied.                    *)
Backfilled(c) ==
  /\ conn[c].pc = "copy" /\ conn[c].copy = {}
  /\ dbDisk' = IF conn[c].safe = hdr.mx THEN db ELSE dbDisk
  /\ nBackfill' = CopiedUpTo(c)
  /\ excl' = excl \ {0}
  /\ conn' = [conn EXCEPT ![c].pc = "endCkpt"]
  /\ UNCHANGED <<hdr, mark, idx, writer, ckpter, shared, file, disk, db, counts>>

(* Mutant: the header the cache does not belong to. *)
HdrAsRead(c) == conn[c].hdr

(* If the header changed with BeginCheckpoint, the copy is zeroed, so that   *)
(* the next transaction drops its page cache.                               *)
HdrToKeep(c) == IF conn[c].changed THEN NoHdr ELSE conn[c].hdr

EndCheckpoint(c) ==
  /\ conn[c].pc = "endCkpt"
  /\ ckpter' = Nobody
  /\ conn' = [conn EXCEPT ![c] = [Resting EXCEPT !.nCkpt = conn[c].nCkpt,
                   !.cache = conn[c].cache, !.hdr = HdrToKeep(c)]]
  /\ UNCHANGED <<index, writer, shared, excl, files, counts>>

-----------------------------------------------------------------------------
(* The end of the process: the wal-index is made anew, zeroed, by the next  *)
(* one; the files stay. A loss of power keeps any of the unsynced writes.   *)

Die ==
  /\ crashes < MaxCrash /\ crashes' = crashes + 1
  /\ hdr' = NoHdr /\ nBackfill' = 0
  /\ mark' = [i \in Marks |-> 0] /\ idx' = [i \in Frames |-> 0]
  /\ writer' = Nobody /\ ckpter' = Nobody
  /\ shared' = [i \in ReadLocks |-> {}] /\ excl' = {}
  /\ conn' = [c \in Conns |-> Resting]
  /\ UNCHANGED <<salts, txns>>

Crash == Die /\ UNCHANGED files

Mixed(new, old, S) == [x \in DOMAIN new |-> IF x \in S THEN new[x] ELSE old[x]]
Differ(new, old) == {x \in DOMAIN new : new[x] # old[x]}
Left(new, old) == {Mixed(new, old, S) : S \in SUBSET Differ(new, old)}

PowerLoss ==
  /\ Die
  /\ \E f \in Left(file.frame, disk.frame) : file' = [disk EXCEPT !.frame = f]
  /\ disk' = file'
  /\ db' \in Left(db, dbDisk) /\ dbDisk' = db'

Step(c) ==
  \/ ReadHdr(c) \/ Recover(c) \/ Lock0(c) \/ Check0(c) \/ Pick(c)
  \/ Raise(c) \/ Share(c) \/ ReadMin(c) \/ Check(c) \/ EndRead(c)
  \/ BeginWrite(c)
  \/ c \in Spillers /\ \E p \in Pages : WriteFrames(c, {p}, FALSE)
  \/ \E S \in (SUBSET Pages) \ {{}} : WriteFrames(c, S, TRUE)
  \/ Restart(c) \/ Rejoin(c) \/ WriteHeader(c) \/ WriteFrame(c) \/ RewriteChecksums(c)
  \/ FinishFrames(c) \/ EndWrite(c) \/ Undo(c)
  \/ BeginCheckpoint(c) \/ StartCheckpoint(c) \/ TestMark(c) \/ StartBackfill(c)
  \/ CopyPage(c) \/ Backfilled(c) \/ EndCheckpoint(c)

Next == (\E c \in Conns : Step(c)) \/ Crash \/ PowerLoss

Spec == Init /\ [][Next]_vars

-----------------------------------------------------------------------------
(* "The nBackfill number is never greater than WalIndexHdr.mxFrame"          *)
(* (wal.c:354): a commit beyond it would never be copied. While a writer    *)
(* resets the log the header is zeroed first.                               *)
BackfillBound == nBackfill <= hdr.mx \/ \E c \in Conns : conn[c].pc = "restart"

=============================================================================
