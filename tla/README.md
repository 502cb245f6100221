# LeigodAPM in TLA+

LeigodAPM is an in-app performance monitor for iOS: it catches crashes and
keeps a log of them in a database, samples CPU, memory, frame rate and network
traffic, and shows all that on two pages and in a floating window. This
directory holds TLA+ models of it, the TLC runs that check them on small
instances, and proofs of the main theorems for the TLA+ proof system.

The reference is the code under `src/LeigodAPM/Classes`, and, where LeigodAPM
relies on it for its own correctness, the database it keeps its crash log in:
the vendored WCDB library under `src/Example/Pods/WCDB.swift/swift/source` and the
SQLite it comes with, `src/Example/Pods/WCDBOptimizedSQLCipher/src`. A report is
worth something only if the row a dying thread writes is there at the next
launch: that is decided by WCDB's pool and lock and by SQLite's write-ahead log.
The repository has no tests, and its
README is the template of the packaging tool, so the code and its comments are
all there is.

## Inventory

| Component | State | Operations | Talks to |
|---|---|---|---|
| `CrashEye` (CrashEye.swift) | list of weak delegates, `isOpen`, the saved exception handler; the process's exception handler and signal dispositions | `add`, `remove`, private `open`, `close`, `RecieveException`, `RecieveSignal`, `killApp` | every delegate (callback on the crashing thread), the Objective-C runtime, the kernel, any other crash reporter |
| `EyesManager` | whether it is a delegate of `CrashEye`; the floating FPS window | `createTable`, `closeCrashEye`, `crashEyeDidCatchCrash`, `isShowFPS`, `fps` | `NNDBManager`, `CrashEye`, `NNHoverView` |
| `NNDBManager` | the `Database`, its file | create, insert, delete, query, drop, remove the file; each catches its errors and reports `true` or `false` | WCDB |
| Console page | `dataArray` (read once), `recordData` (listed) | `loadData`, `cleanRecord`, delete button | `NNDBManager` |
| WCDB `RWLock` | three counters, a mutex, a condition | lock and unlock for reading and writing | `HandlePool` |
| WCDB `HandlePool`, `Database` | the idle handles, the count of live handles, thread-bound transactions | `flowOut`, `flowBack`, `drain`, `purge`, `begin`, `commit`, `rollback`, `close(onClosed:)` | `RWLock`, SQLite |
| Write-ahead log (wal.c) | the wal-index in shared memory, the log and the database file; each connection's copy of the header | begin and end to read and to write, write frames, undo, checkpoint, recover | every other connection, through the wal-index and its locks; the file system |
| Wal-index locks (os_unix.c, os_wcdb.c, queue.c) | the masks of each connection, the queue of waiting threads | `unixShmLock`, `unixShmUnmap`, `WCDBOsShmWait`, `WCDBOsShmTrySignal` | wal.c calls it; threads of the process sleep in it |
| `NetworkFlow`, `NetObjc` | sampling thread, `first_model` | `open`, `close`, the thread's loop, 32-bit counters of the interfaces | its delegate, from the sampling thread |
| `FPS` | display link (paused or not), `count`, `lastTime`, `isEnable` | `open`, `close`, two notifications, the frame callback | its delegate, on the main thread |
| `CPU` | `loadPrevious` | `systemUsage`, `applicationUsage` (a sum over the process's threads) | mach |
| Monitor page (MonitorController, MonitorContainerView) | its samplers, its timer, what its labels show | samplers and timer start when the page is made and never stop; network samples go through the main queue | `FPS`, `NetworkFlow`, `CPU`, `EyesManager` |
| `NNHoverView` | its frame, the touch it follows | touches, correction of the position | - |
| Navigation bar (APMNavigationBar.swift) | buttons found by tag, a handler and a hide flag for each side | add, hide, click (nothing calls remove) | the page's closures |
| `storageCapacity`, `Store` (EyeCommonDefine.swift) | - | formatting of byte counts | - |
| `Memory`, `System`, `Network` | - | reads of system values | - |
| View models, cells, UIKit extensions, example | - | text and layout | - |

### What is hard here

* **A crash at any moment.** `RecieveException` and `RecieveSignal` run on the
  thread that crashed, between any two statements of `add`, `remove`, `open` and
  `close`, and on several threads at once. One exception is reported twice, as
  an exception and as the `SIGABRT` that follows; then the process is killed.
* **Handlers that chain.** The exception handler calls the one it replaced,
  which may be another reporter's, which calls the one it replaced.
* **Weak references.** Delegates die without being removed, their slots stay in
  the list as nil, and their addresses, hence their hashes, are used again.
* **A database under a crash.** The report is a row written by the dying
  thread, which may have to wait for the write lock of a `close(onClosed:)`.
  The next launch knows nothing but what was committed.
* **Stale copies.** The console page reads its rows once.
* **Lock and wake-ups.** One condition variable serves readers and writers;
  which changes broadcast is a matter of argument.
* **A pool that counts.** Handles are taken and given back under a read lock, with
  a list and a counter that change at different moments.
* **A log that is read while it is overwritten.** Readers choose a mark, writers
  restart the log, checkpoints copy it, and each looks at what the others have
  changed since; then the process is killed, or power is lost, in the middle.
* **Waiting that WCDB added to SQLite.** Threads sleep in a queue until the unlock
  they need, or for ten seconds; a wait that ended by itself leaves its entry.
* **Samplers.** `Thread.cancel()` only asks; a cancelled sampler may still be in
  its last sample while the next one starts. The counters are 32 bits wide and
  are subtracted with overflow checks. `CPU.systemUsage` shares one static
  `loadPrevious` between all its callers.
* **Who keeps whom alive.** A repeating timer holds the container of a page after
  the page is gone, and the floating window lives on that.
* **Identity by number.** Delegates are found by hash, buttons by tag, clicks by
  the point where the finger lifts.

The full list, with lines and with the properties that cover each one, is
`hazards` in `PROJECT.json`.

## Modules

| Module | Models | Kind |
|---|---|---|
| `CrashEye` | the class `CrashEye`, the runtime's and the kernel's part of a crash, the other reporter | specification and properties |
| `CrashRegistry` | what `add` and `remove` promise: a set of members and a watch | abstract specification |
| `MCCrashEye` | delegates and their hashes | model checking |
| `CrashEyeProofs` | theorems about `CrashEye` and `CrashLog` | proofs |
| `CrashRecords` | what can be seen of the crash log, and what must hold of it | variables and properties |
| `CrashLog` | `EyesManager`'s log, `NNDBManager`, the console page and the launches | specification and properties |
| `ReadWriteLock` | a read-write lock that gives way to writers | abstract specification |
| `RWLock` | WCDB's lock | specification and properties |
| `HandlePool` | WCDB's pool of SQLite handles, and transactions, close and purge of `Database`, over `RWLock` | specification and properties |
| `MCHandlePool` | what each of three threads does | model checking |
| `HandlePoolProofs` | theorems about `RWLock` and `HandlePool` | proofs |
| `Wal` | the write-ahead log: wal-index, files, connections, crashes | specification |
| `WalStore` | `Wal` beside the history of commits and snapshots it has to reproduce | properties |
| `WalProofs` | theorems about `Wal` and `WalStore` | proofs |
| `RecoveryProofs` | theorems about what a recovery of the log finds, after a crash and after a loss of power | proofs |
| `ShmLock` | the locks of the wal-index and WCDB's queue of waiting threads | specification and properties |
| `MCShmLock` | what each of three threads does | model checking |
| `ShmLockProofs` | theorems about `ShmLock` | proofs |
| `NetworkFlow` | the class, its sampling threads, `NetObjc`'s counters | specification and properties |
| `NetworkFlowProofs` | theorems about `NetworkFlow` | proofs |
| `FPS` | the frame counter and its display link | specification and properties |
| `CPU` | `systemUsage` and `applicationUsage` | specification and properties |
| `MCCPU` | the workers and what they use | model checking |
| `CPUProofs` | theorems about `CPU` | proofs |
| `Monitor` | the pages, their samplers, the main queue, the floating window's title | specification and properties |
| `HoverView` | the floating window's position under touches | specification and properties |
| `NavigationBar` | the buttons of a page's bar | specification and properties |
| `PageProofs` | theorems about `Monitor`, `FPS`, `HoverView` and `NavigationBar` | proofs |

`CrashLog` takes from `CrashEye` only what its property `ReportOrder` states;
`Monitor` takes from `FPS` and `NetworkFlow` that a sampler goes on. `HandlePool`
extends `RWLock`: its steps are made of the lock's actions. `RWLock` (within
`HandlePool`) and `CrashEye` are each shown to implement their abstract
specification by an `INSTANCE ... WITH` a mapping of the state. `WalStore` extends
`Wal`. `ShmLock` models the locks that `Wal` takes for granted: `Wal` lets a request
be refused whenever the lock is taken, `ShmLock` says when the refused one is
tried again; the order of the calls is that of the same functions of wal.c.

`FPS`, `HoverView` and `NavigationBar` have no TLC run: their safety properties are
proved for every value of their constants, which covers all that bounded runs
of them could show.

Operators headed *Mutant* in a comment are not part of a specification: each is a
definition that follows it with one plausible mistake, and `PROJECT.json` says
which property finds it.

### CrashEye

`slots[d]` counts the weak slots of `CrashEye.delegates` that hold `d`; `alive` is
the set of objects not deallocated, so a slot of a dead object is one whose
`delegate` is nil. `Hash` may give two delegates the same hash, but `Alloc` never
lets two of them live at once: that is what `NSObject.hash` (the address)
guarantees. `call` is the statement the main thread has reached inside `open()`
or `close()`. `Add` and `Remove` change the list, and pass the guard of `open()` or
`close()`, which only the main thread can change; each assignment to a global of
the process (`isOpen`, `app_old_exceptionHandler`, the handler in force, the
signals) is a step of its own, since a crash may come in between. The filter,
`contains` and `append` of `add` are one step: a handler sees the old list or the
new one. So are the seven calls of `signal()` in `setCrashSignalHandler`, of which
a crash can meet only its own, and what `killApp` resets before it kills.

`frame[t]` is how far thread `t` is in its crash. `Throw` asks the runtime for the
handler in force; `CallOldHandler` and `OtherHandler` follow the chain;
`RecieveException` and `RecieveSignal` test `isOpen` and start the loop over a
copy of the list (`todo`); `Visit` is one turn of it. The order of delivery within
one loop is left open. After the exception handler the runtime calls `abort()`,
whose `SIGABRT` goes to `RecieveSignal` or, by default, ends the process. When
`RecieveSignal` returns without killing (CrashEye was closed), `abort()` ends the
process all the same, a write goes on after `SIGPIPE`, and a faulting instruction
is executed again (`refault`).

The history variables are `owed`, `reports` and `crossed`. The last one becomes
true when the other reporter acts inside `open()` or `close()` or is switched off
while its handler is not the one in force; no scheme of chained handlers
survives that, and the properties about handlers are claimed without it only.

The parts of the model multiply each other, so one bound (`Room`) covers them
together: a delegate costs two, a thread that crashes one, another reporter, as
long as a trace of it is left, three, and a behaviour spends `MaxLoad` at most.

Left out: the text of a report; a delegate that crashes itself; signal masks;
the stack, which a ring of handlers would exhaust.

### CrashLog

`EyesManager` is the only delegate, as in the repository. The crash of a thread is
reduced to the stages `CrashEye`'s property `ReportOrder`
allows: an exception, the abort, the signal, the kill. `table` and `rows` are the
disk, which survives `Launch`; everything else starts afresh. An operation of the
database is one step that needs its read lock (`Unlocked`): a
`close(onClosed:)` by another thread (`closer`) is what it can wait for. Each may
fail (`Outcomes`), as the `do`/`catch` of `NNDBManager` provides for. The page
exists or not, is shown or hidden; `dataArray` is read in `MakePage` and copied in
`ViewWillAppear`. `hooked` says that this launch once gave CrashEye the signals,
which `close()` leaves it: a fault then meets a handler that returns, and is
executed again (`refault`) until CrashEye is opened again or for ever. `removeDbFile`
removes all its files or none. What can be seen of the log (the table, its rows, whether
`EyesManager` watches, the list on the page) is declared in `CrashRecords`, with the
properties that need nothing else.

### RWLock

A method runs under the mutex, so what it does between two waits is one step. A
user is `asleep` in `pthread_cond_wait` until a broadcast, or without any
(`WakeSpuriously`); when awake it tests its condition again (`Recheck`).
`pending` is raised once, when `lockWrite` is called.

### HandlePool

`handles` is `ConcurrentList.values`, `alive` is `aliveHandleCount`, `open` are
the connections whose `Handle` object lives, `owner` says in whose transaction
each is. `at[u]` is the statement thread `u` has reached: the lock, `popBack`,
the test of the count and `generate`, the increment, the use, `pushBack`, the
unlock and (for a handle the list had no room for) the decrement and the close
are steps of their own. A method of `ConcurrentList` or `Atomic` is one step, as
its spin lock makes it. `begin` binds the handle to its thread (`bound`);
`commit` uses and releases that one (a COMMIT that fails throws first and leaves
it bound, with its transaction; that SQLite may have ended the transaction
itself is left out); `rollback` releases it first (`unbind`) and then goes
through `flowOut` as any operation does. `fill` is `canOpen`, `close` is
`close(onClosed:)`.

A thread uses the interface as the comments ask: it begins a transaction when
it has none, ends what it began in the same thread, and does not close the
database with a handle in hand. `Failures` lets opening, configuring and `BEGIN`
fail. `Clear` empties the list and takes its length off the count in one step; the
comment there says why nothing can tell.

### Wal and WalStore

`hdr`, `nBackfill`, `mark` and `idx` are the wal-index (the hash table is the page
number of each frame); `shared` and `excl` its read locks, `writer` and `ckpter` the
two others. `file` and `db` are the files as the process sees them, `disk` and
`dbDisk` as they are on storage. `conn[c]` is a `Wal` object with the place `pc` its
thread has reached; a step ends at each look at or change of something shared.
`walTryBeginRead` alone is nine actions. Data is abstract: a page's content is
the transaction that wrote it and whether its commit did, a checksum is the
contents up to a frame, a salt is a number that never returns.

`PowerLoss` keeps any of the frames and pages that were written since the last
sync and loses any others. WCDB sets `synchronous` to NORMAL
(Database.swift:421), so a commit is not synced: the newest commits may be lost, and `PowerLossIsClean` asks only that
what is found is one of the commits. `Crash` loses nothing of the files, and
`CrashKeepsCommits` asks for the newest commit: it is the property a crash
reporter lives on.

Where steps of the code are joined, a stop between them shows nothing new: the
loop of `walRewriteChecksums` (its last frame is the commit, and before that
nothing is believed), the header of the log with its sync, the count and the marks
that a restart resets under exclusive locks. A checkpoint finds the index
recovered, as by any reader; one that would recover it first is left out.

`WalStore` remembers what was committed (`store`, `past`) and what each transaction
saw when it began (`snap`); nothing in `Wal` depends on it.

### ShmLock

One action is one call of `unixShmLock` or the end of a wait, since the calls run
under `pShmMutex`. `excl` and `shared` are the masks, `queue` is `qWaitQueue`, `bWait` the
flag that `sqlite3BtreeBeginTrans` sets: only within it may a call sleep, and not in
the first transaction of a connection, where `pager_wait_on_lock` has cleared the
flag. A refused call returns `SQLITE_BUSY` after the wait and is made again by
`sqlite3BtreeBeginTrans`, whose busy handler never gives up. Of wal.c the model
has the lock calls in their order (`Raise`, `Share`, `BeginWrite`, `RestartLog`, `TestMark`,
`Copy`, ...); `stale` says whether a reader finds its mark behind the header.

An entry whose wait timed out stays in the queue and keeps a pointer to its
connection, which may be closed by then; what `WCDBOsShmWait` reads through it
is any set of locks (`Found`). One read mark stands for all of them, and
`walTryBeginRead`, which gives up after very many tries, may be tried without end.

### NetworkFlow

One counter stands for the four, which the code reads, subtracts and reports
alike. `stage[t]` is the statement of `eyeThreadHandler` and `execute` that thread
`t` has reached; the test of `first_model` and its assignment are two steps, since
a cancelled thread may be in the middle of its last sample when `open()` starts
the next. `bytes` is the traffic there has really been, `bytes % Width` the
counter (`Width` stands for 2^32), and `trapped` is Swift's overflow trap.

### FPS

Time is counted in refreshes of the screen. A refresh calls `displayLinkHandler`,
or it is missed (paused link, suspended application, busy main thread). In the
place of `lastTime` and the link's timestamp the model keeps their difference.
`lastTime` is 0 at first, so the first interval begins when the clock did
(`Boot`). Both notifications lead to the same handler, as the code binds them.

### CPU

`systemUsage` is three steps (read, subtract, store) of the thread that calls it,
since nothing locks `loadPrevious`. `applicationUsage` lists the threads, reads
them one after the other while workers begin and exit, and returns; a read that
fails returns 0 at once. Percentages are left out: a difference, or a sum,
determines them.

### Monitor

A page's container is alive while its controller is in the navigation stack, its
timer is scheduled, or a block of the main queue captures it (`Alive`); the timer
is never invalidated, so `timers` never shrinks. A sampler reports to a container
that is alive only, because its delegate is weak. Network samples are queued and
`RunBlock` shows them; frame rates arrive on the main thread and go to the label
and to `EyesManager.fps`, whose observer sets the window's title while the window
is shown: one that is shown again begins with the title it was hidden with.

### HoverView

`center` is the view's centre, moved by the offsets of a finger. `beginPoint` is the
view's place when the touch began; a touch that ends there is a click. The
system may take a touch away (`TouchesCancelled`: the view does not override it)
and the screen may be turned, while `screenW` and `screenH` stay what they were.
`loose` records that a touch left the view where it had dragged it.

### NavigationBar

`buttons` is the sequence of the buttons among the bar's subviews, which
`viewWithTag` searches from the front. `told` is the handler the last click called,
and with what; the button's side and index, which the code does not keep, are
there for the property `TellsItsSide` to compare. `careless` records the sides that were used
otherwise than the comment at APMNavigationBar.swift:224 asks.

## Runs

| Run | Bounds | Shows |
|---|---|---|
| `crash_eye` | 3 delegates, two with one hash; 2 threads, exceptions and `SIGSEGV`; another reporter; `MaxLoad` 6 (fair) | the list implements a set, `isOpen` follows it, the handlers form no ring, what delegates are told before the process dies, an exception and a fault end it, crashes at every step |
| `crash_log` | 2 launches, 2 threads, failures (fair) | rows and page; crashes and deletions end |
| `deleted_is_gone` | 2 launches, 2 threads, no failures | **violated**: see below |
| `handle_pool` | 3 threads (operations and transactions; operations and `canOpen`; close and purge), a list of 1, 2 handles before `flowOut` refuses, failures, spurious wake-ups (fair) | no handle in two hands, the count, what may be open in `onClosed`, wake-ups, refinement of the lock, every call returns |
| `rolled_back` | the same without failures | **violated**: see below |
| `closed_early` | the same without failures | **violated**: see below |
| `wal` | 2 connections (both read and write, one spills, one checkpoints), 2 pages, log of 2 frames, 2 read marks, 2 transactions, 1 crash or loss of power | snapshots, commits under checkpoints, restarts, crashes and losses of power, the page cache |
| `wal_reset` | the same, 3 transactions, no crash, checkpoints also when all is backfilled | **violated**: see below |
| `shm_lock` | 3 threads (main, writer; reader; writer and checkpointer), 3 connections, 3 operations, 1 wait that times out (fair) | locks exclude each other, nobody sleeps outside the queue or for good |
| `network_flow` | 2 sampling threads, counters modulo 3, 4 bytes (fair) | one sampler, one late report, what reports mean, when a subtraction traps |
| `cpu` | 2 callers, 3 workers (one idle), counters modulo 2, 2 ticks | when a subtraction traps, each tick once, a sum over all threads or none |
| `monitor` | 2 pages, 2 rates, 3 waiting blocks, 2 samples (fair) | labels and window under pages that come and go, a window that is hidden and shown |

Why the bounds are enough. Three delegates give a reused address (two share a
hash) next to a bystander, and two threads give every interleaving of two loops
with `add` and `remove`: threads meet only in the list, the flag and the handlers,
so a third repeats what the second does. A load of 6 is three delegates without a
crash, two with two crashing threads, one with the other reporter and a crash, so
that an exception meets a `close()` of the main thread with a reporter below or
above CrashEye. `SIGSEGV` stands for the faults, the abort brings in
`SIGABRT`. Two launches are enough for rows older than the process. In the
pool three threads are a closer, and two that take, fill and give back handles
beside it; with a list of one and a limit of two, each of them meets a full
list, an empty one, an overflowing handle and the refusal. In the log two
connections are a writer and whoever reads or checkpoints beside it; two frames
let the log be filled, backfilled, restarted and overwritten within two
transactions, two pages are one that is spilled and overwritten in place and one
that is the last of its commit, and two marks are one in use and one to choose.
Three threads in the queue of the wal-index are the holder, the one in front
and the one behind; with three connections each may be new to its thread. Two
samplers are a cancelled one and its successor; counters modulo 3 with 4 bytes
wrap once after two samples without a wrap. Two callers race for
`loadPrevious`; three workers with the weights 1, 2 and (idle) 4 give each
partial sum a value of its own. A second page shares the window and the main
queue with the first.

Fairness. A thread that has begun to crash is never suspended: weak fairness of
its next step. A thread inside `removeDbFile` or the delete handler goes on. In the
pool a thread inside a call goes on when it can (`Step`: whoever is woken gets
the mutex at some time), and a thread in a transaction ends it; `OperationsEnd`
is claimed for behaviours in which calls of `close` cease, since a stream of
writers starves readers by design. In `ShmLock` threads are scheduled, and nothing
is assumed of the ten seconds: `NobodyNeedsTheTimeout` says that the wake-ups
suffice. The system runs sampling threads, a display link that is not paused is
called, and the main queue is served. `Wal` states no fairness: all its
properties are of safety. Nobody is required to ask for the lock, to wake for no
reason, to crash, or to call any function of the interface.

Deadlock is checked in every run but `wal`, `wal_reset` and `shm_lock`, where the
bound on transactions, frames or operations lets everybody come to rest with
nothing left to do; that nobody is stuck there is what `NobodyNeedsTheTimeout`
says for the locks. Where the code really ends (the process was killed, a trap)
the model says so with a step that changes nothing.

### Findings

`deleted_is_gone`: the delete button ("删除", ConsoleController.swift:28) clears the
list and, as its comment says (ConsoleController.swift:31), "清空数据库", empties the
database. `RecordTableViewDataSource.dataArray` is read in `init` only
(RecordTableView.swift:35), so the next `viewWillAppear` of the same page lists the
deleted crashes again. In the run's trace a crash of the first launch is read
when the page is made, deleted, and is back when the page returns.

`rolled_back`: "return true to commit transaction and return false to rollback
transaction" (Core.swift:129). `Database.rollback()` first removes the handle from
`threadedHandles` (Database.swift:246), whose recycling puts it into the free list,
and then asks the pool for one to run ROLLBACK on. In the trace another thread
takes the handle in between: ROLLBACK runs on a different handle, where it fails,
and the call returns with the transaction open. The other thread's operations are
now part of it. `HeldAlone` holds all the same: one thread at a time has the handle.

`closed_early`: "So this method can make sure database is closed in the `onClosed`
block", and `close` "waits until all sqlite handles return and closes them"
(Database.swift:139, 144). `flowBack` gives the read lock back (HandlePool.swift:154)
and only then lets go of a handle for which the full list had no room; its
connection is closed when the closure that captured it ends. `drain` waits for
the lock. In the trace a thread returns a handle while `canOpen` of another has
filled the list; it is between its unlock and its close when the third one's block
runs. `removeDbFile` removes the files of the database in that block.
`OnlyDroppedOpen` holds: nothing is open there that anybody can still use.

`wal_reset`: "The nBackfill number is never greater than WalIndexHdr.mxFrame"
(wal.c:353-354). A passive checkpoint copies the header (wal.c:3622), and before it
looks at `nBackfill` (wal.c:1806) a writer, which it does not exclude, restarts the
backfilled log: `nBackfill` is zero again, the copy still has the old `mxFrame`, and
the checkpoint backfills once more and stores the old count (wal.c:1905) over a
log that is shorter. Frames committed later up to that count are taken for
backfilled and never copied. The case needs a checkpoint that is begun when there
is nothing to do; the `wal` run leaves these out (`IdleCheckpoints`), so that
`NewestIsKept` and the others are checked for everything else. `BackfillBound` itself
excepts the moments between the zeroed header and the zeroed `nBackfill` of
`walRestartHdr`, when no reader is in the log.

### What the runs taught

* After `close()` the signal handlers stay installed. `RecieveSignal` then returns
  to the faulting instruction, and the process hangs where it would have died.
  `FaultKills` is therefore claimed only for a CrashEye that stays open, and
  `CrashEnds` names this as the one way in which a crash does not end.
* A thread that crashes inside the `onClosed` block of `removeDbFile` waits for its
  own write lock, and with it every user of the database. `CloseIsHarmless`
  excludes it.
* The first report of `NetworkFlow` is the counter since the system started, not
  the traffic since `open()`. Two overlapping first samples may leave a
  `first_model` that is newer than the other thread's sample, whose subtraction
  then traps; `TrapHasCause` names this case (`overlapped`) beside a wrap and a
  failed read. `CPU.systemUsage` has the same three causes.
* `FPS` is not paused when the application resigns: both notifications reach the
  handler of one. What `close()` paused runs again at the next of them.
* `unixShmPurge` loops while the queue is not empty and takes nothing out
  (os_unix.c:4441-4447): with an entry left it would never return.
  `QueueHasHolder` shows that none is left when the last connection goes, even
  after waits that timed out, because every unlock empties the queue up to the
  first entry that is still blocked.
* A thread whose request the first one in the queue excludes, and the other way
  round, wakes it and spins (`Crossed`); without that rule two transactions would
  sleep for ten seconds each on the other's locks.
* On a screen turned since the floating window was made, a drag takes it to
  where the side of the upright screen was (`screenW` and `screenH` are read once);
  `Reachable` therefore speaks of a screen that is not turned.
* `WindowIsFed` and `OldRateGoes` hold because of what looks like a leak: a
  container without its timer would be gone with its page, and the window with
  its title. Every page ever opened goes on sampling.
* A drag that ends at its starting point counts as a click and leaves the window
  where the last movement put it (`loose`).
* Buttons added while their side is hidden are visible, and `hideNav...` of more
  than two finds two; `HiddenTogether` leaves such sides out.

## Proofs

`tlapm` proves, for every value of the constants and without bounds:

* `CrashEyeProofs`, on `CrashEye`: type correctness (`TypeCorrect`), `RegisteredOnce`
  (`NeverTwice`), `OpenWhileRegistered` (`OpenExactly`), `NoHandlerRing`
  (`NeverARing`), `CloseTakesHandlerOut` (`ClosedIsOut`), and that the list
  implements `CrashRegistry` (`ImplementsRegistry`). They rest on
  `HashAssumption`, `MainAssumption` and `RaisedAssumption`.
  `RegisteredOnce` needs that two live delegates have different hashes;
  `OpenWhileRegistered` needs that `open()` and `close()` begin only when CrashEye is
  not what the list asks for (`WatchFits`);
  the two handler theorems need one invariant that says, for each step of
  `open()` and `close()`, which handlers may be in force, saved by `CrashEye` and
  saved by the other reporter as long as the two have not crossed. A second
  invariant, `ReportInv`, says of every stage of a crash which delegates have heard
  of it (`HeardSoFar`: a prefix of the list as it was when the loop began) and which
  are still owed it (`OwedHeard`); from it follow `OpenTakesSignals` (`SignalsAreTaken`),
  `KillAfterReports` (`KillsAfterReports`) and `ReportOrder` (`HeardInOrder`).
* `CrashEyeProofs`, on `CrashLog`: `WatchedIsWritable` (`WatchesWithATable`), `RowsInOrder`
  (`RowsTellTheStory`) and `NewestFirst` (`ListsNewestFirst`), for any threads and
  any number of launches and crashes. The invariant `LogInv` relates, at each
  statement of a crash or of an insertion, the rows of the table to the crashes told so
  far (`ToldSoFar`) and keeps every list read from the table in its order
  (`OldestFirst`).
* `HandlePoolProofs`, on the lock: `CountersCount`, `Exclusion`, `NoLostWakeup` and the
  refinement of `ReadWriteLock`, for any finite set of users. The inductive invariant
  `LockInv` joins the types, the counters as cardinalities, a lone writer, and the
  wake-up condition; the counters of sets rest on the library's theorems about
  finite sets.
* `HandlePoolProofs`, on the pool: that it uses its lock as the lock asks (`PoolUsesLock`:
  every behaviour of the pool is one of `RWLock`), from which `PoolLosesNoWakeup` and
  `PoolSeesLock` follow by the theorems on the lock; and `HeldAlone`, `OnlyDroppedOpen` and
  `CountIsRight`, for any finite set of threads, any handles and any capacity. The invariant
  `PoolInv` adds to the first two properties where each thread stands (`Settled`: which
  side of the lock it has and whether it has a handle, statement by statement),
  that every open connection is in the list or in a hand (`Accounted`), and that
  the list is empty while somebody is in `onClosed` (`Drained`). `OnlyDroppedOpen` then needs
  that a handle in hand means a read lock, which excludes the writer, but in
  `release`. Five lemmas say what taking, opening, returning, closing and clearing
  do to the list, the hands and the open connections; the steps only cite them.
  `CountIsRight` needs in addition that `aliveHandleCount` and the threads that have
  counted a connection they have not opened, or not closed, make up for each other
  (`Tallied`).
* `WalProofs`: `BackfillBound` (`BackfillNeverBeyond`), for any number of connections,
  pages, read locks, frames, transactions, crashes and losses of power, and that
  the log beside its history (`WalStore`) takes no step `Wal` does not take
  (`HistoryAddsNothing`), so that the theorem holds of the specification the run
  `wal` checks. The hypothesis `~IdleCheckpoints` is the run's: no checkpoint begins
  when all is backfilled; without it the statement is false, which the run
  `wal_reset` shows. The invariant `WalInv` says who has the write and the checkpoint
  lock (`LocksHeld`), that a copy of the header with the salt of the log of now ends
  no later than the log, while only the writer's is ahead (`HeaderGrows`), that one
  who reads the database alone found the whole log backfilled and that it is, as
  long as the header is what it was (`AllBackfilled`), and that a checkpoint has
  something left to copy, within the log of now (`StillToCopy`). The last two exclude
  each other, which is why a reset and a checkpoint cannot meet. Lemmas on the steps
  that only look (`Walks`), on those of one connection that leave the header (`ByOne`),
  and on those that change it for everybody divide the thirty actions.
* `WalProofs`, on what the log is for: `SnapshotRead` (`ReadsItsSnapshot`), `NewestIsKept`
  (`NeverLosesACommit`) and `CacheFresh` (`CacheIsFresh`), under the same hypothesis and
  without bounds. They are three readings of one invariant, `StoreInv`, inductive
  together with `WalInv`. It says that the frames from a reader's `minFrame` to its copy of
  `mxFrame`, over the database file, give the pages of its snapshot (`Gives`,
  `ReadsItsSnap`); that the whole log, and what is left of it beyond `nBackfill`, give the
  newest commit (`GivesAll`, `Newest`); that the shared read locks are those of the
  connections whose place says so, and a lock held alone has no sharer (`SlotsHeld`); that
  a mark in use is no further than its reader's snapshot reaches (`WithinMark`), and what
  a checkpoint may copy ends before it (`Spares`); what a checkpoint has still to copy
  (`Copies`); what a writer has written and not yet put into the index (`Index`,
  `WritesOn`); and whose page cache is the newest commit (`Caches`). For a step of one
  connection the lemmas `OthersLook`, `OthersRead` and `OthersWork` show once that no other
  is disturbed, if the step is `Gentle`: it changes no frame up to `mxFrame`, takes no
  mark that somebody shares, and writes to the database only pages of which a frame
  lies beyond `nBackfill`, where every reader of the log looks first. The three steps that begin a new
  log are not gentle: they can happen only while `NobodyReads` the old one.
* `RecoveryProofs`, on crashes: `CrashKeepsCommits` (`CrashesKeepCommits`), under the same
  hypothesis. A recovery believes the frames whose salt is that of the file and whose sum
  is that of all before them, up to the last that is a commit (`Sound`, `Believed`). The
  invariant `CrashInv`, inductive together with `StoreInv`, says that the committed frames are
  sound and the last of them a commit (`InFile`), that beyond them nothing is
  believed unless a whole commit is written (`NoneBelieved`), and of a writer's frames
  which are sound, as far as none was overwritten in place, and that none but the last of a commit
  says so (`LogsOn`). What makes it inductive is that every sum recorded in a frame the
  writer has not written yet is over values of earlier transactions (`Before`, `Old`), so that the first
  frame a transaction writes makes all that lay beyond it worthless, whatever an
  earlier transaction or an earlier log left there. After a reset the file is that of the
  old log until its header is written: a recovery then finds the newest commit in
  the old frames (`StillOld`).
* `RecoveryProofs`, on losses of power: `PowerLossIsClean` (`LossOfPowerIsClean`),
  under the same hypothesis. After a loss of power each frame is that of the file
  or the older one on storage (`Mix`), and so is each page of the database. The
  invariant `PowerInv`, inductive together with `CrashInv`, names a frame `m`, a
  commit or 0: the frames up to `m` are sound and on storage (`OnStorage`); every
  page that the database on storage does not have yet has a frame among them
  (`Covered`), so that a recovery that takes them does not see which version of
  the page survived; and whatever any mixture of frames makes a recovery believe
  beyond `m` is one of the commits, as is what it finds up to `m` itself
  (`Lasts`). A checkpoint's sync moves `m` to the end of the log at least, before
  it copies a page, and it copies nothing from beyond `m`; a header over an empty
  log sets it to 0, when the database is synced. While frames are written nothing
  is believed beyond the committed frames (`NoneYet`), so `m` is no further than
  these; and no commit on storage beyond them is of the transaction that writes
  (`NoNewer`). A mixture with a frame of this transaction is therefore believed
  only up to the commit the file has, and only if its pages and values are those
  of the file, since that commit's sum is over all of them (`SumOf`,
  `ReadyIsSnap`): the lemma `FramesWritten` shows this once, for frames appended,
  overwritten in place and given new sums. After the recovery, or a crash with
  nothing unsynced, `m` is the commit that was found (`Settled`).
* `ShmLockProofs`: `SiblingsDisjoint` (`NeverInConflict`), `QueueHasHolder`
  (`SomebodyWillLook`) and `SleeperIsQueued` (`SleepersAreQueued`), for any number of
  threads and connections; that each connection holds exactly the locks its place in
  wal.c takes for granted (`HoldsWhatItsPlaceAsks`); and that the purge of a file
  finds an empty queue (`PurgeFindsNobody`), so that its loop, which takes nothing
  out, ends. The invariant `ShmInv` joins what each connection holds with the masks
  of its siblings (`FilesInv`) and the queue with what its threads wait for
  (`QueueInv`).
* `NetworkFlowProofs`: types, `OneSampler`, `OneLateReport`, `TrapHasCause` and
  `HonestReport`, for any number of threads and any width. `HonestReport` needs that
  before `first_model` is set one thread at most can be on its way to set it
  (`FirstUnset`), that it is set once (`FirstSet`), and that two remainders differ by
  what the numbers differ by, up to the width (`Remainders`). `TrapHasCause` adds that,
  as long as nothing has wrapped, no sample was taken before the first one (`Ordered`).
* `CPUProofs`: types, `TrapHasCause`, `EveryTickOnce` and `AllThreads`, for any number of
  callers. As long as calls have not overlapped, one caller at most is between its read
  and its store (`Alone`), the differences add up to what was read last
  (`Telescoped`), and what was read last is no larger than what is read next
  (`InOrder`). `AllThreads` needs that what is added up and what is still to add make
  the sum over the list (`Counting`), and that a sum over a finite set does not depend
  on which member is taken first (`AnyFirst`).
* `PageProofs`, on `Monitor`: the action property `LabelsAdvance`
  (`LabelsNeverGoBack`), for any number of pages. What waits in the main queue is no older than the label it is for (`LaterThanLabel`), in
  the order it was sampled in (`InSampledOrder`), and no label is ahead of its
  sampler (`LabelsBehind`).
* `PageProofs`, on `FPS`: types, `CountedOrMissed` and from it `HonestRate`, for any
  `updateInterval`.
* `PageProofs`, on `HoverView`: types, `RestsInPlace`, `Reachable` and the action property
  `SnapsToNearerSide`, for any screen in which the view and its margins fit
  (`ScreenAssumption`: the two side margins alike, as in the code).
* `PageProofs`, on `NavigationBar`: types, the action property `TellsItsSide` and
  `HiddenTogether`, for any
  number of calls and up to a hundred buttons in each (`AddedAssumption`: a hundred more
  and the tags of the left would reach those of the right). The invariant adds that
  a button's tag is that of its side and index and its side has a handler
  (`WellTagged`), so that a tag has one answer (`WhoAnswers`), and that a side used
  as asked has a first and a second button at most (`Careful`), so that a search
  by tag finds all of them and none of the other side (`FindsTheSide`).

The assumptions about constants are those the code justifies; for `FPS`, `HoverView`
and `NavigationBar`, as for `IdleCheckpoints`, they are hypotheses of the theorems.

The library's theorems on induction take a predicate as a parameter, which the
provers cannot instantiate. Where a proof needs induction over numbers, it takes the
least counterexample instead, which exists because `<` on the naturals is well
founded (`Least` and `Greatest` in `WalProofs`, for `CHOOSE` of a bound;
`Recursion` and `AnyFirst` in `CPUProofs`, for a fold over a set).

Every invariant that a passing run checks, and every action property, is the
statement of a theorem or a conjunct of one. Only model-checked is what is about
fairness: liveness and `ENABLED` are out of the prover's reach.

## Not modelled

* **The rest of SQLite.** Most of the repository's lines of C (some 215,000) are the
  vendored SQLite with SQLCipher, FTS5 and the repair kit. LeigodAPM uses them
  through WCDB and does not change them; their parser, planner, virtual machine,
  b-tree and extensions carry none of this program's own logic, and each would be
  a project of its own. Modelled are the two parts on which the crash log's
  promises rest and which no test of LeigodAPM reaches: the log, and the locks
  with the waiting that WCDB added. The models therefore stand for a small share
  of the C, and for most of the repository's own Swift and Objective-C.
* **File locks with the same queue** (`WCDBOsWait`, os_unix.c:1673-2096): used only
  for a rollback journal and before the log is there; WCDB turns the log on for
  every handle. That wait sleeps under the mutex of the file system layer.
* **Checkpoints that wait or truncate, snapshots, savepoints, errors of the file
  system** in `Wal`: WCDB asks for none of the first three; after the last, SQLite
  rolls back, which `Undo` models.
* **The schedule of WCDB's checkpoints** (`TimedQueue`, the checkpoint configuration):
  `Wal` lets a checkpoint be called at any time.
* **Configurations changed while the database is used**, several pools, several
  processes: the repository does neither.
* **Text, layout, reads of system values, view models, the SQL builder, SnapKit**:
  no behaviour a model could tell apart. `storageCapacity` is a division with a
  choice of unit.
* **The console page's cells** (a recognizer is added at each reuse) and the layer
  that `addCorner` puts on a reused view: drawing, without state that another part
  reads.
