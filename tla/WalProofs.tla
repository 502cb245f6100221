----------------------------- MODULE WalProofs -----------------------------
(***************************************************************************)
(* What holds of the write-ahead log for any number of connections, pages, *)
(* read locks, frames, transactions and crashes: that nothing counts as    *)
(* backfilled beyond the log; and, beside the history of its commits, that *)
(* a transaction reads its snapshot, that no reset and no checkpoint loses *)
(* a commit, and that a page cache is kept only while it is right.         *)
(***************************************************************************)
EXTENDS WalStore, FiniteSetTheorems, WellFoundedInduction, TLAPS

-----------------------------------------------------------------------------
(* The least and the greatest of a set of numbers.                           *)

LEMMA Least ==
  ASSUME NEW S \in SUBSET Nat, S # {}
  PROVE  MinOf(S) \in S /\ \A y \in S : MinOf(S) <= y
<1> DEFINE R == {ss \in Nat \X Nat : ss[1] < ss[2]}
<1>1. OpToRel(<, Nat) = R
  BY DEF OpToRel
<1>2. IsWellFoundedOn(R, Nat)
  BY <1>1, NatLessThanWellFounded, Zenon
<1>3. \A x, y \in Nat : y < x => <<y, x>> \in R
  OBVIOUS
<1> HIDE DEF R
<1>4. PICK x \in S : \A y \in S : ~(<<y, x>> \in R)
  BY <1>2, WFMin
<1>5. ASSUME NEW y \in S PROVE x <= y
  <2>1. x \in Nat /\ y \in Nat /\ ~(y < x)
    BY <1>3, <1>4
  <2> QED
    BY <2>1
<1> QED
  BY <1>5 DEF MinOf

LEMMA Greatest ==
  ASSUME NEW n \in Nat, NEW S \in SUBSET (0 .. n), S # {}
  PROVE  MaxOf(S) \in S /\ \A y \in S : y <= MaxOf(S)
<1> DEFINE T == {x \in 0 .. n : n - x \in S}
<1>1. T \in SUBSET Nat /\ T # {}
  <2>1. PICK x \in S : TRUE
    OBVIOUS
  <2>2. x \in 0 .. n /\ n - x \in 0 .. n /\ n - (n - x) = x
    BY <2>1
  <2>3. n - x \in T
    BY <2>1, <2>2
  <2>4. \A y \in T : y \in Nat
    OBVIOUS
  <2> HIDE DEF T
  <2> QED
    BY <2>3, <2>4
<1>2. PICK m \in T : \A y \in T : m <= y
  BY <1>1, Least
<1>3. n - m \in S /\ m \in 0 .. n
  BY <1>2
<1>4. ASSUME NEW y \in S PROVE y <= n - m
  <2>1. y \in 0 .. n /\ n - y \in 0 .. n /\ n - (n - y) = y
    OBVIOUS
  <2>2. n - y \in T
    BY <2>1
  <2>3. m <= n - y
    BY <1>2, <2>2
  <2> QED
    BY <1>3, <2>1, <2>3
<1> HIDE DEF T
<1>5. PICK g \in S : \A y \in S : y <= g
  BY <1>3, <1>4
<1> QED
  BY <1>5 DEF MaxOf

(* What a recovery counts.                                                   *)
LEMMA Counted ==
  ASSUME NEW f
  PROVE  ValidUpTo(f) \in 0 .. MaxFrame /\ CommittedUpTo(f) \in 0 .. ValidUpTo(f)
<1>1. MaxFrame \in Nat
  BY WalAssumption
<1> DEFINE V == {0} \cup {n \in Frames : \A i \in 1 .. n : Valid(f, i)}
<1>2. V \in SUBSET (0 .. MaxFrame) /\ V # {}
  BY <1>1 DEF Frames
<1>3. ValidUpTo(f) \in 0 .. MaxFrame
  <2>1. MaxOf(V) \in V
    BY <1>1, <1>2, Greatest
  <2> QED
    BY <1>2, <2>1 DEF ValidUpTo
<1> HIDE DEF V
<1> DEFINE C == {0} \cup {n \in 1 .. ValidUpTo(f) : f.frame[n].commit}
<1>4. C \in SUBSET (0 .. ValidUpTo(f)) /\ C # {} /\ ValidUpTo(f) \in Nat
  BY <1>3
<1>5. MaxOf(C) \in C
  BY <1>4, Greatest
<1>6. CommittedUpTo(f) = MaxOf(C)
  BY DEF CommittedUpTo
<1> HIDE DEF C
<1> QED
  BY <1>3, <1>4, <1>5, <1>6

-----------------------------------------------------------------------------
(* The inductive invariant. A connection is a record of these fields; only    *)
(* those that say how far nBackfill may go are typed.                        *)

Fields ==
  {"pc", "hdr", "nCkpt", "cache", "slot", "seen", "min", "useWal", "txn", "list",
   "commit", "n", "reck", "changed", "safe", "i", "copy"}
FileFields == {"salt", "nCkpt", "frame"}
Header == [init : BOOLEAN, salt : Nat, mx : Nat]

(* The salts a header, a copy of it or a file can have were drawn.           *)
Drawn(h) == h \in Header /\ h.salt <= salts
DrawnFile(f) == f = [x \in FileFields |-> f[x]] /\ f.salt \in Nat /\ f.salt <= salts

WalShape ==
  /\ Drawn(hdr) /\ nBackfill \in Nat /\ salts \in Nat
  /\ mark \in [Marks -> Nat]
  /\ DrawnFile(file) /\ DrawnFile(disk)
  /\ conn = [c \in Conns |-> conn[c]]
  /\ \A c \in Conns :
       /\ conn[c] = [x \in Fields |-> conn[c][x]]
       /\ Drawn(conn[c].hdr) /\ conn[c].n \in Nat /\ conn[c].safe \in Nat
       /\ conn[c].useWal \in BOOLEAN

Joining == {"pick", "raise", "share", "min", "check"}

(* From BEGIN to the end of its transaction a connection has the write lock,  *)
(* through a checkpoint the checkpoint lock.                                 *)
Writing(c) ==
  conn[c].useWal \/ conn[c].pc \in {"write", "restart", "rejoin", "header", "frames", "done"}
Checkpointing(c) == conn[c].pc \in {"ckpt", "marks", "copy", "endCkpt"}

LocksHeld(c) ==
  /\ conn[c].useWal => conn[c].pc \in Joining
  /\ Writing(c) => writer = c
  /\ Checkpointing(c) => ckpter = c

(* Until somebody has recovered the log nobody has seen a header.            *)
SeenHeader(c) ==
  /\ conn[c].pc # "idle" => hdr.init /\ conn[c].hdr.init
  /\ ~hdr.init => conn[c].hdr = NoHdr

(* A header seen earlier with the salt of now ends no later; only the writer's *)
(* own copy is ahead, and with a salt of its own only over an empty log.      *)
HeaderGrows(c) ==
  /\ ~Writing(c) /\ conn[c].hdr.salt = hdr.salt => conn[c].hdr.mx <= hdr.mx
  /\ Writing(c) =>
       /\ hdr.mx <= conn[c].hdr.mx
       /\ conn[c].hdr.salt # hdr.salt =>
            /\ hdr.mx = 0 /\ conn[c].hdr.salt > 0
            /\ \A d \in Conns \ {c} : conn[d].hdr.salt # conn[c].hdr.salt
  /\ conn[c].pc = "frames" => conn[c].hdr.mx <= conn[c].n
  /\ conn[c].pc = "restart" => hdr.mx = 0 /\ conn[c].hdr = hdr
  /\ conn[c].pc = "done" => conn[c].hdr = hdr

(* Who reads the database alone found the whole log backfilled, and it is, as *)
(* long as the header is what it was.                                        *)
ReadsDatabase(c) ==
  conn[c].pc \in {"lock0", "check0"} \/ (conn[c].pc \in {"read", "write"} /\ conn[c].slot = 0)

AllBackfilled(c) ==
  /\ conn[c].pc \in {"share", "min", "check", "header", "frames", "done"} => conn[c].slot # 0
  /\ conn[c].pc = "write" /\ conn[c].slot = 0 => conn[c].hdr = hdr
  /\ ReadsDatabase(c) /\ conn[c].hdr = hdr => nBackfill = hdr.mx

(* A checkpoint has something to backfill, up to what it may, in the log of   *)
(* now.                                                                      *)
StillToCopy(c) ==
  /\ conn[c].pc \in {"ckpt", "marks", "copy"} =>
       nBackfill < hdr.mx /\ conn[c].hdr.mx <= hdr.mx
  /\ conn[c].pc \in {"marks", "copy"} => conn[c].safe <= conn[c].hdr.mx
  /\ conn[c].pc = "copy" => nBackfill < conn[c].safe

WalInv ==
  /\ WalShape
  /\ BackfillBound
  /\ \A c \in Conns :
       LocksHeld(c) /\ SeenHeader(c) /\ HeaderGrows(c) /\ AllBackfilled(c) /\ StillToCopy(c)

(* A step of c that changes no record but its own.                           *)
Only(c) ==
  conn' = [conn EXCEPT ![c] = conn'[c]] /\ conn'[c] = [x \in Fields |-> conn'[c][x]]

(* It keeps the fields that matter here, but its place and its read lock.    *)
KeepsCopy(c) ==
  /\ conn'[c].hdr = conn[c].hdr /\ conn'[c].n = conn[c].n
  /\ conn'[c].safe = conn[c].safe /\ conn'[c].useWal = conn[c].useWal

Own(c) ==
  LocksHeld(c) /\ SeenHeader(c) /\ HeaderGrows(c) /\ AllBackfilled(c) /\ StillToCopy(c)

LEMMA ShapeKept ==
  ASSUME WalShape, NEW c \in Conns, Only(c),
         Drawn(conn[c].hdr)', conn'[c].n \in Nat, conn'[c].safe \in Nat,
         conn'[c].useWal \in BOOLEAN,
         Drawn(hdr)', nBackfill' \in Nat, salts' \in Nat, salts <= salts',
         mark' \in [Marks -> Nat], DrawnFile(file)', DrawnFile(disk)'
  PROVE  WalShape'
<1>1. \A d \in Conns : d # c => conn'[d] = conn[d]
  BY DEF Only, WalShape
<1>2. conn' = [d \in Conns |-> conn'[d]]
  BY DEF Only, WalShape
<1>4. ASSUME NEW d \in Conns
      PROVE  /\ conn'[d] = [x \in Fields |-> conn'[d][x]]
             /\ Drawn(conn[d].hdr)' /\ conn'[d].n \in Nat /\ conn'[d].safe \in Nat
             /\ conn'[d].useWal \in BOOLEAN
  <2>1. CASE d = c
    BY <2>1 DEF Only
  <2>2. CASE d # c
    <3>1. conn'[d] = conn[d] /\ Drawn(conn[d].hdr)
      BY <1>1, <2>2 DEF WalShape
    <3>2. Drawn(conn[d].hdr)'
      BY <3>1 DEF Drawn, Header, WalShape
    <3> QED
      BY <3>1, <3>2 DEF WalShape
  <2> QED
    BY <2>1, <2>2
<1> QED
  BY <1>2, <1>4 DEF WalShape

(* The step of one connection that leaves the header and nBackfill disturbs   *)
(* no other: it takes no lock another holds, and shows no salt that another   *)
(* has drawn and not yet committed.                                          *)
LEMMA OthersKept ==
  ASSUME WalInv, NEW c \in Conns, Only(c), UNCHANGED <<hdr, nBackfill>>,
         writer' = writer \/ writer \in {c, Nobody},
         ckpter' = ckpter \/ ckpter \in {c, Nobody},
         \/ conn'[c].hdr.salt \in {conn[c].hdr.salt, hdr.salt, 0}
         \/ conn'[c].hdr.salt > salts
  PROVE  \A d \in Conns \ {c} : Own(d)'
<1> SUFFICES ASSUME NEW d \in Conns, d # c PROVE Own(d)'
  OBVIOUS
<1>1. conn'[d] = conn[d]
  BY DEF Only, WalInv, WalShape
<1>2. LocksHeld(d) /\ SeenHeader(d) /\ HeaderGrows(d) /\ AllBackfilled(d) /\ StillToCopy(d)
  BY DEF WalInv
<1>3. LocksHeld(d)'
  BY <1>1, <1>2, WalAssumption DEF LocksHeld, Writing, Checkpointing
<1>4. SeenHeader(d)' /\ AllBackfilled(d)' /\ StillToCopy(d)'
  BY <1>1, <1>2 DEF SeenHeader, AllBackfilled, ReadsDatabase, StillToCopy
<1>5. HeaderGrows(d)'
  <2>1. Writing(d)' <=> Writing(d)
    BY <1>1 DEF Writing
  <2>2. ASSUME Writing(d), conn[d].hdr.salt # hdr.salt, NEW e \in Conns \ {d}
        PROVE  conn'[e].hdr.salt # conn[d].hdr.salt
    <3>1. \A x \in Conns \ {d} : conn[x].hdr.salt # conn[d].hdr.salt
      BY <1>2, <2>2 DEF HeaderGrows
    <3>2. conn[d].hdr.salt > 0 /\ conn[d].hdr.salt \in Nat /\ conn[d].hdr.salt <= salts /\ salts \in Nat
      BY <1>2, <2>2 DEF HeaderGrows, WalInv, WalShape, Drawn, Header
    <3>3. CASE e = c
      <4>1. CASE conn'[c].hdr.salt \in {conn[c].hdr.salt, hdr.salt, 0}
        BY <2>2, <3>1, <3>2, <3>3, <4>1
      <4>2. CASE conn'[c].hdr.salt > salts
        BY <2>2, <3>2, <3>3, <4>2
      <4> QED
        BY <4>1, <4>2
    <3>4. CASE e # c
      BY <2>2, <3>1, <3>4 DEF Only, WalInv, WalShape
    <3> QED
      BY <3>3, <3>4
  <2> QED
    BY <1>1, <1>2, <2>1, <2>2 DEF HeaderGrows
<1> QED
  BY <1>3, <1>4, <1>5 DEF Own

LEMMA BoundKept ==
  ASSUME WalInv, NEW c \in Conns, Only(c), conn[c].pc # "restart",
         UNCHANGED <<hdr, nBackfill>>
  PROVE  BackfillBound'
BY DEF BackfillBound, Only, WalInv, WalShape

(* Together: a step of c that leaves the header and nBackfill.               *)
LEMMA ByOne ==
  ASSUME WalInv, NEW c \in Conns, conn[c].pc # "restart", Only(c),
         UNCHANGED <<hdr, nBackfill>>,
         Drawn(conn[c].hdr)', conn'[c].n \in Nat, conn'[c].safe \in Nat,
         conn'[c].useWal \in BOOLEAN,
         salts' \in Nat, salts <= salts',
         mark' \in [Marks -> Nat], DrawnFile(file)', DrawnFile(disk)',
         writer' = writer \/ writer \in {c, Nobody},
         ckpter' = ckpter \/ ckpter \in {c, Nobody},
         \/ conn'[c].hdr.salt \in {conn[c].hdr.salt, hdr.salt, 0}
         \/ conn'[c].hdr.salt > salts,
         Own(c)'
  PROVE  WalInv'
<1>0. Drawn(hdr)' /\ nBackfill' \in Nat
  BY DEF WalInv, WalShape, Drawn, Header
<1>1. WalShape'
  BY <1>0, ShapeKept DEF WalInv
<1>2. BackfillBound'
  BY BoundKept
<1>3. \A d \in Conns : Own(d)'
  BY OthersKept
<1> QED
  BY <1>1, <1>2, <1>3 DEF WalInv, Own

(* What every step finds.                                                    *)
LEMMA Finds ==
  ASSUME WalInv, NEW c \in Conns
  PROVE  /\ Own(c) /\ Drawn(hdr) /\ nBackfill \in Nat /\ salts \in Nat
         /\ mark \in [Marks -> Nat] /\ DrawnFile(file) /\ DrawnFile(disk)
         /\ conn = [d \in Conns |-> conn[d]]
         /\ conn[c] = [x \in Fields |-> conn[c][x]]
         /\ Drawn(conn[c].hdr) /\ conn[c].n \in Nat /\ conn[c].safe \in Nat
         /\ conn[c].useWal \in BOOLEAN
BY DEF WalInv, WalShape, Own

(* A step whose copy of the header is the old one or the one there is, and    *)
(* that draws no salt.                                                       *)
LEMMA Moves ==
  ASSUME WalInv, NEW c \in Conns, conn[c].pc # "restart", Only(c),
         UNCHANGED <<hdr, nBackfill, salts>>, mark' \in [Marks -> Nat],
         DrawnFile(file)', DrawnFile(disk)',
         conn'[c].hdr \in {conn[c].hdr, hdr}, conn'[c].n \in Nat, conn'[c].safe \in Nat,
         conn'[c].useWal \in BOOLEAN,
         writer' = writer \/ writer \in {c, Nobody},
         ckpter' = ckpter \/ ckpter \in {c, Nobody},
         Own(c)'
  PROVE  WalInv'
<1>1. Drawn(conn[c].hdr)'
  BY Finds DEF Drawn
<1>2. salts' \in Nat /\ salts <= salts'
  BY DEF WalInv, WalShape
<1>3. conn'[c].hdr.salt \in {conn[c].hdr.salt, hdr.salt, 0}
  OBVIOUS
<1> QED
  BY <1>1, <1>2, <1>3, ByOne

(* The same when the marks and the files are left.                           *)
LEMMA Stays ==
  ASSUME WalInv, NEW c \in Conns, conn[c].pc # "restart", Only(c),
         UNCHANGED <<hdr, nBackfill, salts, mark, file, disk>>,
         conn'[c].hdr \in {conn[c].hdr, hdr}, conn'[c].n \in Nat, conn'[c].safe \in Nat,
         conn'[c].useWal \in BOOLEAN,
         writer' = writer \/ writer \in {c, Nobody},
         ckpter' = ckpter \/ ckpter \in {c, Nobody},
         Own(c)'
  PROVE  WalInv'
<1>1. mark' \in [Marks -> Nat] /\ DrawnFile(file)' /\ DrawnFile(disk)'
  BY DEF WalInv, WalShape, DrawnFile
<1> QED
  BY <1>1, Moves

(* What c itself finds, and the shape of its record.                         *)
LEMMA Self ==
  ASSUME WalInv, NEW c \in Conns
  PROVE  /\ LocksHeld(c) /\ SeenHeader(c) /\ HeaderGrows(c) /\ AllBackfilled(c)
         /\ StillToCopy(c)
         /\ hdr \in Header /\ conn[c].hdr \in Header /\ nBackfill \in Nat
         /\ conn[c].n \in Nat /\ conn[c].safe \in Nat /\ conn[c].useWal \in BOOLEAN
BY DEF WalInv, WalShape, Drawn

LEMMA Shape ==
  ASSUME WalInv, NEW c \in Conns
  PROVE  conn = [d \in Conns |-> conn[d]] /\ conn[c] = [x \in Fields |-> conn[c][x]]
BY DEF WalInv, WalShape

LEMMA ReadHdrStep == ASSUME WalInv, NEW c \in Conns, ReadHdr(c) PROVE WalInv'
<1>0. /\ Own(c) /\ Drawn(hdr) /\ nBackfill \in Nat /\ salts \in Nat
      /\ mark \in [Marks -> Nat] /\ DrawnFile(file) /\ DrawnFile(disk)
      /\ conn[c].n \in Nat /\ conn[c].safe \in Nat /\ conn[c].useWal \in BOOLEAN
  BY Finds
<1>1. /\ UNCHANGED <<hdr, nBackfill, salts, file, disk, mark, writer, ckpter>>
      /\ conn[c].pc = "idle" /\ hdr.init
  BY DEF ReadHdr, index, locks, files, counts
<1>s. conn = [d \in Conns |-> conn[d]] /\ conn[c] = [x \in Fields |-> conn[c][x]]
  BY Shape
<1>2. /\ Only(c) /\ conn'[c].hdr = hdr
      /\ conn'[c].n = conn[c].n /\ conn'[c].safe = conn[c].safe /\ conn'[c].useWal = conn[c].useWal
      /\ conn'[c].pc = IF nBackfill = hdr.mx THEN "lock0" ELSE "pick"
  BY <1>s DEF ReadHdr, Only, Fields
<1>3. Own(c)'
  <2>0. ~conn[c].useWal
    BY <1>0, <1>1 DEF Own, LocksHeld, Joining
  <2>1. LocksHeld(c)'
    BY <1>1, <1>2, <2>0 DEF LocksHeld, Writing, Checkpointing
  <2>2. SeenHeader(c)'
    BY <1>1, <1>2, <2>0 DEF SeenHeader
  <2>3. HeaderGrows(c)'
    BY <1>0, <1>1, <1>2, <2>0 DEF HeaderGrows, Writing, Drawn, Header
  <2>4. AllBackfilled(c)'
    BY <1>1, <1>2, <2>0 DEF AllBackfilled, ReadsDatabase
  <2>5. StillToCopy(c)'
    BY <1>1, <1>2, <2>0 DEF StillToCopy
  <2> QED
    BY <2>1, <2>2, <2>3, <2>4, <2>5 DEF Own
<1> QED
  BY <1>0, <1>1, <1>2, <1>3, Stays

LEMMA FirstFree ==
  LET free == {i \in Marks : CanOwn(i)}
  IN  free # {} => MinOf(free) \in Marks /\ MinOf(free) # 0
<1> DEFINE free == {i \in Marks : CanOwn(i)}
<1> SUFFICES ASSUME free # {} PROVE MinOf(free) \in Marks /\ MinOf(free) # 0
  OBVIOUS
<1>1. free \in SUBSET Nat /\ \A i \in free : i \in Marks /\ i # 0
  BY WalAssumption DEF Marks
<1> HIDE DEF free
<1> QED
  BY <1>1, Least

-----------------------------------------------------------------------------
(* The steps that look and wait: where c may go without a change of its       *)
(* copies.                                                                   *)
Walk(c) ==
  \/ conn[c].pc = "lock0" /\ conn'[c].pc \in {"check0", "pick"}
  \/ conn[c].pc = "check0" /\ conn'[c].pc \in {"read", "idle"}
  \/ conn[c].pc = "pick" /\ conn'[c].pc = "raise"
  \/ conn[c].pc \in {"pick", "raise"} /\ conn'[c].pc = "share" /\ conn'[c].slot # 0
  \/ /\ conn[c].pc \in {"raise", "share", "check"}
     /\ conn'[c].pc = IF conn[c].useWal THEN "pick" ELSE "idle"
  \/ conn[c].pc = "share" /\ conn'[c].pc = "min" /\ conn'[c].slot = conn[c].slot
  \/ conn[c].pc = "min" /\ conn'[c].pc = "check" /\ conn'[c].slot = conn[c].slot
  \/ conn[c].pc = "write" /\ conn'[c].pc = "header" /\ conn'[c].slot # 0
  \/ conn[c].pc = "write" /\ conn'[c].pc = "rejoin"
  \/ conn[c].pc = "copy" /\ conn'[c].pc = "copy"
  \/ conn[c].pc \in {"ckpt", "marks"} /\ conn'[c].pc = "endCkpt"

LEMMA Walks ==
  ASSUME WalInv, NEW c \in Conns, Only(c), KeepsCopy(c), Walk(c),
         UNCHANGED <<hdr, nBackfill, salts, writer, ckpter>>,
         mark' \in [Marks -> Nat], DrawnFile(file)', DrawnFile(disk)'
  PROVE  WalInv'
<1>0. /\ LocksHeld(c) /\ SeenHeader(c) /\ HeaderGrows(c) /\ AllBackfilled(c) /\ StillToCopy(c)
      /\ Drawn(hdr) /\ nBackfill \in Nat /\ salts \in Nat
      /\ Drawn(conn[c].hdr) /\ conn[c].n \in Nat /\ conn[c].safe \in Nat /\ conn[c].useWal \in BOOLEAN
  BY Finds DEF Own
<1>1. conn[c].useWal => conn[c].pc \in Joining
  BY <1>0 DEF LocksHeld
<1>2. Writing(c)' <=> Writing(c)
  BY <1>1 DEF Walk, KeepsCopy, Writing, Joining
<1>3. Own(c)'
  <2>1. LocksHeld(c)'
    <3>1. Checkpointing(c)' <=> Checkpointing(c)
      BY DEF Walk, Checkpointing
    <3>2. conn'[c].useWal => conn'[c].pc \in Joining
      BY <1>1 DEF Walk, KeepsCopy, Joining
    <3> QED
      BY <1>0, <1>2, <3>1, <3>2 DEF LocksHeld
  <2>2. SeenHeader(c)'
    <3>1. conn[c].pc # "idle"
      BY DEF Walk
    <3> QED
      BY <1>0, <3>1 DEF SeenHeader, KeepsCopy
  <2>3. HeaderGrows(c)'
    <3>1. \A d \in Conns \ {c} : conn'[d] = conn[d]
      BY DEF Only, WalInv, WalShape
    <3>2. conn'[c].pc \notin {"frames", "restart", "done"}
      BY DEF Walk
    <3> QED
      BY <1>0, <1>2, <3>1, <3>2 DEF HeaderGrows, KeepsCopy
  <2>4. AllBackfilled(c)'
    <3>1. conn'[c].pc \in {"share", "min", "check", "header"} => conn'[c].slot # 0
      BY <1>0 DEF AllBackfilled, Walk
    <3>2. conn'[c].pc \notin {"write", "frames", "done"}
      BY DEF Walk
    <3>3. conn'[c].pc \in {"lock0", "check0", "read"} => conn[c].pc \in {"lock0", "check0"}
      BY DEF Walk
    <3> QED
      BY <1>0, <3>1, <3>2, <3>3 DEF AllBackfilled, ReadsDatabase, KeepsCopy
  <2>5. StillToCopy(c)'
    BY <1>0 DEF StillToCopy, Walk, KeepsCopy
  <2> QED
    BY <2>1, <2>2, <2>3, <2>4, <2>5 DEF Own
<1>4. /\ conn'[c].hdr \in {conn[c].hdr, hdr} /\ conn'[c].n \in Nat /\ conn'[c].safe \in Nat
      /\ conn'[c].useWal \in BOOLEAN
  BY <1>0 DEF KeepsCopy
<1>5. conn[c].pc # "restart"
  BY DEF Walk
<1> QED
  BY <1>3, <1>4, <1>5, Moves

LEMMA LookingSteps ==
  ASSUME WalInv, NEW c \in Conns,
         \/ Lock0(c) \/ Check0(c) \/ Pick(c) \/ Raise(c) \/ Share(c) \/ ReadMin(c)
         \/ Check(c) /\ ~SameIndex(c)
  PROVE  WalInv'
<1>1. UNCHANGED <<hdr, nBackfill, salts, file, disk, writer, ckpter>>
  BY DEF Lock0, Check0, Pick, Raise, Share, ReadMin, Check, index, locks, files, counts
<1>2. DrawnFile(file)' /\ DrawnFile(disk)'
  BY <1>1, Finds DEF DrawnFile
<1>3. conn = [d \in Conns |-> conn[d]] /\ conn[c] = [x \in Fields |-> conn[c][x]]
  BY Shape
<1>4. Only(c) /\ KeepsCopy(c) /\ Walk(c)
  <2> USE <1>3 DEF Only, KeepsCopy, Walk, Fields
  <2>1. CASE Lock0(c)
    BY <2>1 DEF Lock0
  <2>2. CASE Check0(c)
    BY <2>2 DEF Check0
  <2>3. CASE Pick(c)
    BY <2>3 DEF Pick
  <2>4. CASE Raise(c)
    <3> DEFINE free == {i \in Marks : CanOwn(i)}
    <3>1. CASE free # {}
      <4>1. MinOf(free) # 0
        BY <3>1, FirstFree
      <4> HIDE DEF free
      <4>2. /\ conn' = [conn EXCEPT ![c].slot = MinOf(free), ![c].seen = conn[c].hdr.mx, ![c].pc = "share"]
            /\ conn[c].pc = "raise"
        BY <2>4, <3>1 DEF Raise, free
      <4> QED
        BY <4>1, <4>2
    <3>2. CASE free = {} /\ conn[c].slot = 0
      <4>1. conn' = Abandoned(c) /\ conn[c].pc = "raise"
        BY <2>4, <3>2 DEF Raise
      <4> QED
        BY <4>1 DEF Abandoned
    <3>3. CASE free = {} /\ conn[c].slot # 0
      <4>1. conn' = [conn EXCEPT ![c].pc = "share"] /\ conn[c].pc = "raise"
        BY <2>4, <3>3 DEF Raise
      <4> QED
        BY <3>3, <4>1
    <3> QED
      BY <3>1, <3>2, <3>3
  <2>5. CASE Share(c)
    BY <2>5 DEF Share, Abandoned
  <2>6. CASE ReadMin(c)
    BY <2>6 DEF ReadMin
  <2>7. CASE Check(c) /\ ~SameIndex(c)
    <3>1. conn' = Abandoned(c) /\ conn[c].pc = "check"
      BY <2>7 DEF Check
    <3> QED
      BY <3>1 DEF Abandoned
  <2> QED
    BY <2>1, <2>2, <2>3, <2>4, <2>5, <2>6, <2>7
<1>5. mark' \in [Marks -> Nat]
  <2>1. mark \in [Marks -> Nat] /\ conn[c].hdr.mx \in Nat
    BY Finds DEF Drawn, Header
  <2>2. mark' = mark \/ \E i \in Marks : mark' = [mark EXCEPT ![i] = conn[c].hdr.mx]
    BY FirstFree DEF Lock0, Check0, Pick, Raise, Share, ReadMin, Check, index
  <2> QED
    BY <2>1, <2>2
<1> QED
  BY <1>1, <1>2, <1>4, <1>5, Walks

-----------------------------------------------------------------------------
(* The steps that change a copy: what they leave, from Own(c) before to       *)
(* Own(c) after.                                                             *)

LEMMA CheckStep ==
  ASSUME WalInv, NEW c \in Conns, Check(c), SameIndex(c) PROVE WalInv'
<1>0. /\ LocksHeld(c) /\ SeenHeader(c) /\ AllBackfilled(c)
      /\ hdr \in Header /\ conn[c].hdr \in Header
      /\ conn[c].n \in Nat /\ conn[c].safe \in Nat /\ conn[c].useWal \in BOOLEAN
  BY Self
<1>1. /\ UNCHANGED <<hdr, nBackfill, salts, file, disk, mark, writer, ckpter>>
      /\ conn[c].pc = "check" /\ hdr = conn[c].hdr
  BY DEF Check, SameIndex, index, locks, files, counts
<1>2. /\ Only(c) /\ conn'[c].hdr = conn[c].hdr /\ conn'[c].slot = conn[c].slot
      /\ conn'[c].n = conn[c].n /\ conn'[c].safe = conn[c].safe
      /\ ~conn'[c].useWal /\ conn'[c].useWal \in BOOLEAN
      /\ conn'[c].pc = IF conn[c].useWal THEN "header" ELSE "read"
  <2>1. conn' = [conn EXCEPT ![c].pc = IF conn[c].useWal THEN "header" ELSE "read",
                             ![c].useWal = FALSE, ![c].seen = 0, ![c].cache = NoState]
    BY DEF Check
  <2>2. conn = [d \in Conns |-> conn[d]] /\ conn[c] = [x \in Fields |-> conn[c][x]]
    BY Shape
  <2>3. conn'[c] = [conn[c] EXCEPT !.pc = IF conn[c].useWal THEN "header" ELSE "read",
                                   !.useWal = FALSE, !.seen = 0, !.cache = NoState]
    BY <2>1, <2>2
  <2>4. Only(c)
    <3>1. conn'[c] = [x \in Fields |-> conn'[c][x]]
      BY <2>1, <2>2, <2>3, Zenon DEF Fields
    <3>2. conn' = [conn EXCEPT ![c] = conn'[c]]
      BY <2>1, <2>2, <2>3
    <3> QED
      BY <3>1, <3>2 DEF Only
  <2>5. conn'[c].useWal = FALSE
    BY <2>2, <2>3 DEF Fields
  <2>6. /\ conn'[c].hdr = conn[c].hdr /\ conn'[c].slot = conn[c].slot
        /\ conn'[c].n = conn[c].n /\ conn'[c].safe = conn[c].safe
        /\ conn'[c].pc = IF conn[c].useWal THEN "header" ELSE "read"
    BY <2>2, <2>3 DEF Fields
  <2> QED
    BY <2>4, <2>5, <2>6
<1>3. Own(c)'
  <2>0. conn[c].slot # 0
    BY <1>0, <1>1 DEF AllBackfilled
  <2>1. LocksHeld(c)'
    BY <1>0, <1>1, <1>2 DEF LocksHeld, Writing, Checkpointing
  <2>2. SeenHeader(c)'
    BY <1>0, <1>1, <1>2 DEF SeenHeader
  <2>3. HeaderGrows(c)'
    BY <1>0, <1>1, <1>2 DEF HeaderGrows, Writing, Header
  <2>4. AllBackfilled(c)'
    BY <1>1, <1>2, <2>0 DEF AllBackfilled, ReadsDatabase
  <2>5. StillToCopy(c)'
    BY <1>1, <1>2 DEF StillToCopy
  <2> QED
    BY <2>1, <2>2, <2>3, <2>4, <2>5 DEF Own
<1> QED
  BY <1>0, <1>1, <1>2, <1>3, Stays

LEMMA EndReadStep == ASSUME WalInv, NEW c \in Conns, EndRead(c) PROVE WalInv'
<1>0. LocksHeld(c) /\ SeenHeader(c) /\ HeaderGrows(c)
  BY Self
<1>1. /\ UNCHANGED <<hdr, nBackfill, salts, file, disk, mark, writer, ckpter>>
      /\ conn[c].pc = "read"
  BY DEF EndRead, index, locks, files, counts
<1>2. /\ Only(c) /\ conn'[c].hdr = conn[c].hdr /\ conn'[c].n = 0 /\ conn'[c].safe = 0
      /\ ~conn'[c].useWal /\ conn'[c].useWal \in BOOLEAN /\ conn'[c].pc = "idle"
  BY Shape DEF EndRead, Only, Fields, Resting
<1>3. Own(c)'
  <2>0. ~Writing(c)
    BY <1>0, <1>1 DEF LocksHeld, Writing, Joining
  <2>1. LocksHeld(c)'
    BY <1>1, <1>2 DEF LocksHeld, Writing, Checkpointing
  <2>2. SeenHeader(c)'
    BY <1>0, <1>1, <1>2 DEF SeenHeader
  <2>3. HeaderGrows(c)'
    BY <1>0, <1>1, <1>2, <2>0 DEF HeaderGrows, Writing
  <2>4. AllBackfilled(c)'
    BY <1>1, <1>2 DEF AllBackfilled, ReadsDatabase
  <2>5. StillToCopy(c)'
    BY <1>1, <1>2 DEF StillToCopy
  <2> QED
    BY <2>1, <2>2, <2>3, <2>4, <2>5 DEF Own
<1> QED
  BY <1>1, <1>2, <1>3, Stays

LEMMA BeginWriteStep == ASSUME WalInv, NEW c \in Conns, BeginWrite(c) PROVE WalInv'
<1>0. /\ LocksHeld(c) /\ SeenHeader(c) /\ AllBackfilled(c)
      /\ hdr \in Header /\ conn[c].n \in Nat /\ conn[c].safe \in Nat /\ conn[c].useWal \in BOOLEAN
  BY Self
<1>1. /\ UNCHANGED <<hdr, nBackfill, salts, file, disk, mark, ckpter>>
      /\ conn[c].pc = "read" /\ hdr = conn[c].hdr
      /\ writer = Nobody /\ writer' = c
  BY DEF BeginWrite, CanWrite, index, files
<1>2. Only(c) /\ KeepsCopy(c) /\ conn'[c].slot = conn[c].slot /\ conn'[c].pc = "write"
  <2>1. conn' = [conn EXCEPT ![c].pc = "write", ![c].txn = txns + 1]
    BY DEF BeginWrite
  <2>2. conn = [d \in Conns |-> conn[d]] /\ conn[c] = [x \in Fields |-> conn[c][x]]
    BY Shape
  <2>3. conn'[c] = [conn[c] EXCEPT !.pc = "write", !.txn = txns + 1]
    BY <2>1, <2>2
  <2>4. Only(c)
    <3>1. conn'[c] = [x \in Fields |-> conn'[c][x]]
      BY <2>1, <2>2, <2>3, Zenon DEF Fields
    <3>2. conn' = [conn EXCEPT ![c] = conn'[c]]
      BY <2>1, <2>2, <2>3
    <3> QED
      BY <3>1, <3>2 DEF Only
  <2>5. KeepsCopy(c) /\ conn'[c].slot = conn[c].slot /\ conn'[c].pc = "write"
    BY <2>2, <2>3 DEF KeepsCopy, Fields
  <2> QED
    BY <2>4, <2>5
<1>3. Own(c)'
  <2>0. ~conn[c].useWal
    BY <1>0, <1>1 DEF LocksHeld, Joining
  <2>1. LocksHeld(c)'
    BY <1>1, <1>2, <2>0 DEF LocksHeld, Writing, Checkpointing, KeepsCopy
  <2>2. SeenHeader(c)'
    BY <1>0, <1>1, <1>2 DEF SeenHeader, KeepsCopy
  <2>3. HeaderGrows(c)'
    BY <1>0, <1>1, <1>2 DEF HeaderGrows, Writing, KeepsCopy, Header
  <2>4. AllBackfilled(c)'
    BY <1>0, <1>1, <1>2 DEF AllBackfilled, ReadsDatabase, KeepsCopy
  <2>5. StillToCopy(c)'
    BY <1>1, <1>2 DEF StillToCopy
  <2> QED
    BY <2>1, <2>2, <2>3, <2>4, <2>5 DEF Own
<1>4. /\ conn'[c].hdr \in {conn[c].hdr, hdr} /\ conn'[c].n \in Nat /\ conn'[c].safe \in Nat
      /\ conn'[c].useWal \in BOOLEAN
  BY <1>0, <1>2 DEF KeepsCopy
<1> QED
  BY <1>1, <1>2, <1>3, <1>4, Stays

LEMMA WriteFramesStep ==
  ASSUME WalInv, NEW c \in Conns, NEW S, NEW commit, WriteFrames(c, S, commit), ~CanRestart(c)
  PROVE  WalInv'
<1>1. /\ UNCHANGED <<hdr, nBackfill, salts, file, disk, mark, writer, ckpter>>
      /\ conn[c].pc = "write"
      /\ conn' = [conn EXCEPT ![c].list = S, ![c].commit = commit,
                              ![c].pc = IF conn[c].slot = 0 THEN "rejoin" ELSE "header"]
  BY DEF WriteFrames, files
<1>2. mark' \in [Marks -> Nat] /\ DrawnFile(file)' /\ DrawnFile(disk)'
  BY <1>1, Finds DEF DrawnFile
<1>3. /\ Only(c) /\ KeepsCopy(c) /\ conn'[c].slot = conn[c].slot
      /\ conn'[c].pc = IF conn[c].slot = 0 THEN "rejoin" ELSE "header"
  <2>1. conn'[c] = [conn[c] EXCEPT !.list = S, !.commit = commit,
                                   !.pc = IF conn[c].slot = 0 THEN "rejoin" ELSE "header"]
    BY <1>1, Shape
  <2>2. Only(c)
    BY <1>1, <2>1, Shape DEF Only, Fields
  <2> QED
    BY <2>1, <2>2, Shape DEF KeepsCopy, Fields
<1>4. Walk(c)
  BY <1>1, <1>3 DEF Walk
<1> QED
  BY <1>1, <1>2, <1>3, <1>4, Walks

LEMMA RejoinStep == ASSUME WalInv, NEW c \in Conns, Rejoin(c) PROVE WalInv'
<1>0. /\ LocksHeld(c) /\ SeenHeader(c) /\ HeaderGrows(c)
      /\ conn[c].n \in Nat /\ conn[c].safe \in Nat
  BY Self
<1>1. /\ UNCHANGED <<hdr, nBackfill, salts, file, disk, mark, writer, ckpter>>
      /\ conn[c].pc = "rejoin"
  BY DEF Rejoin, index, files, counts
<1>2. /\ Only(c) /\ conn'[c].hdr = conn[c].hdr /\ conn'[c].n = conn[c].n
      /\ conn'[c].safe = conn[c].safe /\ conn'[c].pc = "pick"
  <2>1. conn = [d \in Conns |-> conn[d]] /\ conn[c] = [x \in Fields |-> conn[c][x]]
    BY Shape
  <2>2. conn' = [conn EXCEPT ![c].useWal = TRUE, ![c].pc = "pick"]
    BY DEF Rejoin
  <2>3. conn'[c] = [conn[c] EXCEPT !.useWal = TRUE, !.pc = "pick"]
    BY <2>1, <2>2
  <2>4. conn'[c] = [x \in Fields |-> conn'[c][x]]
    BY <2>1, <2>3, Zenon DEF Fields
  <2>5. conn' = [conn EXCEPT ![c] = conn'[c]]
    BY <2>1, <2>2, <2>3
  <2>6. /\ conn'[c].hdr = conn[c].hdr /\ conn'[c].n = conn[c].n
        /\ conn'[c].safe = conn[c].safe /\ conn'[c].pc = "pick"
    BY <2>1, <2>3 DEF Fields
  <2> QED
    BY <2>4, <2>5, <2>6 DEF Only
<1>3. conn'[c].useWal = TRUE
  BY Shape DEF Rejoin, Fields
<1>4. Own(c)'
  <2>0. Writing(c) /\ Writing(c)'
    BY <1>1, <1>3 DEF Writing
  <2>1. LocksHeld(c)'
    BY <1>0, <1>1, <1>2, <2>0 DEF LocksHeld, Joining, Checkpointing
  <2>2. SeenHeader(c)'
    BY <1>0, <1>1, <1>2 DEF SeenHeader
  <2>3. HeaderGrows(c)'
    <3>1. \A d \in Conns \ {c} : conn'[d] = conn[d]
      BY <1>2 DEF Only, WalInv, WalShape
    <3> QED
      BY <1>0, <1>1, <1>2, <2>0, <3>1 DEF HeaderGrows
  <2>4. AllBackfilled(c)'
    BY <1>1, <1>2 DEF AllBackfilled, ReadsDatabase
  <2>5. StillToCopy(c)'
    BY <1>1, <1>2 DEF StillToCopy
  <2> QED
    BY <2>1, <2>2, <2>3, <2>4, <2>5 DEF Own
<1>5. conn'[c].useWal \in BOOLEAN
  BY <1>3
<1> QED
  BY <1>0, <1>1, <1>2, <1>4, <1>5, Stays

LEMMA EndWriteStep == ASSUME WalInv, NEW c \in Conns, EndWrite(c) PROVE WalInv'
<1>0. /\ LocksHeld(c) /\ SeenHeader(c) /\ HeaderGrows(c) /\ AllBackfilled(c)
      /\ hdr \in Header /\ conn[c].n \in Nat /\ conn[c].safe \in Nat /\ conn[c].useWal \in BOOLEAN
  BY Self
<1>1. /\ UNCHANGED <<hdr, nBackfill, salts, file, disk, mark, ckpter>>
      /\ conn[c].pc = "done" /\ writer' = Nobody
  BY DEF EndWrite, index, files, counts
<1>2. Only(c) /\ KeepsCopy(c) /\ conn'[c].slot = conn[c].slot /\ conn'[c].pc = "read"
  <2>1. conn = [d \in Conns |-> conn[d]] /\ conn[c] = [x \in Fields |-> conn[c][x]]
    BY Shape
  <2>2. conn' = [conn EXCEPT ![c].pc = "read", ![c].txn = 0]
    BY DEF EndWrite
  <2>3. conn'[c] = [conn[c] EXCEPT !.pc = "read", !.txn = 0]
    BY <2>1, <2>2
  <2>4. conn'[c] = [x \in Fields |-> conn'[c][x]]
    BY <2>1, <2>3, Zenon DEF Fields
  <2>5. conn' = [conn EXCEPT ![c] = conn'[c]]
    BY <2>1, <2>2, <2>3
  <2>6. KeepsCopy(c) /\ conn'[c].slot = conn[c].slot /\ conn'[c].pc = "read"
    BY <2>1, <2>3 DEF KeepsCopy, Fields
  <2> QED
    BY <2>4, <2>5, <2>6 DEF Only
<1>3. Own(c)'
  <2>0. ~conn[c].useWal /\ conn[c].hdr = hdr /\ conn[c].slot # 0
    BY <1>0, <1>1 DEF LocksHeld, Joining, HeaderGrows, AllBackfilled
  <2>1. LocksHeld(c)'
    BY <1>1, <1>2, <2>0 DEF LocksHeld, Writing, Checkpointing, KeepsCopy
  <2>2. SeenHeader(c)'
    BY <1>0, <1>1, <1>2 DEF SeenHeader, KeepsCopy
  <2>3. HeaderGrows(c)'
    BY <1>0, <1>1, <1>2, <2>0 DEF HeaderGrows, Writing, KeepsCopy, Header
  <2>4. AllBackfilled(c)'
    BY <1>1, <1>2, <2>0 DEF AllBackfilled, ReadsDatabase
  <2>5. StillToCopy(c)'
    BY <1>1, <1>2 DEF StillToCopy
  <2> QED
    BY <2>1, <2>2, <2>3, <2>4, <2>5 DEF Own
<1>4. /\ conn'[c].hdr \in {conn[c].hdr, hdr} /\ conn'[c].n \in Nat /\ conn'[c].safe \in Nat
      /\ conn'[c].useWal \in BOOLEAN
  BY <1>0, <1>2 DEF KeepsCopy
<1>5. writer = c
  BY <1>0, <1>1 DEF LocksHeld, Writing
<1> QED
  BY <1>1, <1>2, <1>3, <1>4, <1>5, Stays

LEMMA UndoStep == ASSUME WalInv, NEW c \in Conns, Undo(c) PROVE WalInv'
<1>0. /\ LocksHeld(c) /\ SeenHeader(c) /\ AllBackfilled(c)
      /\ hdr \in Header /\ conn[c].n \in Nat /\ conn[c].safe \in Nat /\ conn[c].useWal \in BOOLEAN
  BY Self
<1>1. /\ UNCHANGED <<hdr, nBackfill, salts, file, disk, mark, ckpter>>
      /\ conn[c].pc = "write" /\ writer' = Nobody
  BY DEF Undo, files, counts
<1>2. /\ Only(c) /\ conn'[c].hdr = hdr /\ conn'[c].slot = conn[c].slot /\ conn'[c].pc = "read"
      /\ conn'[c].n = conn[c].n /\ conn'[c].safe = conn[c].safe /\ conn'[c].useWal = conn[c].useWal
  <2>1. conn' = [conn EXCEPT ![c].hdr = hdr, ![c].reck = 0, ![c].txn = 0, ![c].pc = "read"]
    BY DEF Undo
  <2>2. conn'[c] = [conn[c] EXCEPT !.hdr = hdr, !.reck = 0, !.txn = 0, !.pc = "read"]
    BY <2>1, Shape
  <2>3. Only(c)
    BY <2>1, <2>2, Shape DEF Only, Fields
  <2> QED
    BY <2>2, <2>3, Shape DEF Fields
<1>3. Own(c)'
  <2>0. ~conn[c].useWal
    BY <1>0, <1>1 DEF LocksHeld, Joining
  <2>1. LocksHeld(c)'
    BY <1>1, <1>2, <2>0 DEF LocksHeld, Writing, Checkpointing
  <2>2. SeenHeader(c)'
    BY <1>0, <1>1, <1>2 DEF SeenHeader
  <2>3. HeaderGrows(c)'
    BY <1>0, <1>1, <1>2, <2>0 DEF HeaderGrows, Writing, Header
  <2>4. AllBackfilled(c)'
    BY <1>0, <1>1, <1>2 DEF AllBackfilled, ReadsDatabase
  <2>5. StillToCopy(c)'
    BY <1>1, <1>2 DEF StillToCopy
  <2> QED
    BY <2>1, <2>2, <2>3, <2>4, <2>5 DEF Own
<1>4. conn'[c].useWal \in BOOLEAN
  BY <1>0, <1>2
<1>5. writer = c
  BY <1>0, <1>1 DEF LocksHeld, Writing
<1> QED
  BY <1>0, <1>1, <1>2, <1>3, <1>4, <1>5, Stays

(* Whatever is written into the log, the header stays, and n does not fall.  *)
LEMMA FramesGoOn ==
  ASSUME WalInv, NEW c \in Conns, Only(c), UNCHANGED <<hdr, nBackfill, salts, mark, writer, ckpter>>,
         DrawnFile(file)', DrawnFile(disk)', conn[c].pc = "frames", conn'[c].pc = "frames",
         conn'[c].hdr = conn[c].hdr, conn'[c].slot = conn[c].slot,
         conn'[c].n \in {conn[c].n, conn[c].n + 1}, conn'[c].safe = conn[c].safe,
         conn'[c].useWal = conn[c].useWal
  PROVE  WalInv'
<1>0. /\ LocksHeld(c) /\ SeenHeader(c) /\ HeaderGrows(c) /\ AllBackfilled(c)
      /\ conn[c].hdr \in Header /\ conn[c].n \in Nat /\ conn[c].safe \in Nat
      /\ conn[c].useWal \in BOOLEAN
  BY Self
<1>1. Own(c)'
  <2>0. Writing(c) /\ Writing(c)' /\ ~conn[c].useWal
    BY <1>0 DEF Writing, LocksHeld, Joining
  <2>1. LocksHeld(c)'
    BY <1>0, <2>0 DEF LocksHeld, Checkpointing
  <2>2. SeenHeader(c)'
    BY <1>0 DEF SeenHeader
  <2>3. HeaderGrows(c)'
    <3>1. \A d \in Conns \ {c} : conn'[d] = conn[d]
      BY DEF Only, WalInv, WalShape
    <3>2. conn'[c].hdr.mx <= conn'[c].n
      BY <1>0 DEF HeaderGrows, Header
    <3> QED
      BY <1>0, <2>0, <3>1, <3>2 DEF HeaderGrows
  <2>4. AllBackfilled(c)'
    BY <1>0 DEF AllBackfilled, ReadsDatabase
  <2>5. StillToCopy(c)'
    BY DEF StillToCopy
  <2> QED
    BY <2>1, <2>2, <2>3, <2>4, <2>5 DEF Own
<1>2. mark' \in [Marks -> Nat]
  BY Finds
<1>3. /\ conn'[c].n \in Nat /\ conn'[c].safe \in Nat
      /\ conn'[c].useWal \in BOOLEAN
  BY <1>0
<1> QED
  BY <1>1, <1>2, <1>3, Moves

LEMMA RewriteChecksumsStep ==
  ASSUME WalInv, NEW c \in Conns, RewriteChecksums(c) PROVE WalInv'
<1>1. /\ UNCHANGED <<hdr, nBackfill, salts, mark, writer, ckpter, disk>>
      /\ conn[c].pc = "frames"
  BY DEF RewriteChecksums, index, locks, counts
<1>2. conn' = [conn EXCEPT ![c].reck = 0]
  BY DEF RewriteChecksums
<1>3. /\ Only(c) /\ KeepsCopy(c) /\ conn'[c].slot = conn[c].slot /\ conn'[c].pc = conn[c].pc
  BY <1>2, Shape DEF Only, KeepsCopy, Fields
<1>4. DrawnFile(file)' /\ DrawnFile(disk)'
  <2>1. DrawnFile(file) /\ DrawnFile(disk)
    BY Finds
  <2>2. PICK f : file' = [file EXCEPT !.frame = f]
    BY DEF RewriteChecksums
  <2>3. DrawnFile(file)'
    BY <1>1, <2>1, <2>2 DEF DrawnFile, FileFields
  <2>4. DrawnFile(disk)'
    BY <1>1, <2>1 DEF DrawnFile
  <2> QED
    BY <2>3, <2>4
<1> QED
  BY <1>1, <1>3, <1>4, FramesGoOn DEF KeepsCopy

LEMMA WriteFrameStep == ASSUME WalInv, NEW c \in Conns, WriteFrame(c) PROVE WalInv'
<1>1. /\ UNCHANGED <<hdr, nBackfill, salts, mark, writer, ckpter, disk>>
      /\ conn[c].pc = "frames"
  BY DEF WriteFrame, index, locks, counts
<1> DEFINE p == MinOf(conn[c].list)
           last == conn[c].list = {p}
           old == FindFrame(p, conn[c].min, conn[c].hdr.mx)
           n == conn[c].n + 1
           put == [file.frame EXCEPT ![n] =
                     [salt |-> conn[c].hdr.salt, pg |-> p, val |-> Value(c),
                      commit |-> conn[c].commit /\ last, sum |-> <<>>]]
           over == conn[c].hdr # hdr /\ old > hdr.mx /\ (~last \/ ~conn[c].commit)
<1>s. conn = [d \in Conns |-> conn[d]] /\ conn[c] = [x \in Fields |-> conn[c][x]]
  BY Shape
<1>f. DrawnFile(file) /\ DrawnFile(disk)
  BY Finds
<1>d. DrawnFile(disk)'
  BY <1>1, <1>f DEF DrawnFile
<1>2. CASE over
  <2>1. /\ file' = [file EXCEPT !.frame[old].val = Value(c)]
        /\ conn' = [conn EXCEPT ![c].list = @ \ {p},
                                ![c].reck = IF @ = 0 \/ old < @ THEN old ELSE @]
    BY <1>2 DEF WriteFrame
  <2> HIDE DEF p, last, old, n, put, over
  <2>2. conn'[c] = [conn[c] EXCEPT !.list = @ \ {p}, !.reck = IF @ = 0 \/ old < @ THEN old ELSE @]
    BY <1>s, <2>1
  <2>3. Only(c)
    BY <1>s, <2>1, <2>2 DEF Only, Fields
  <2>4. KeepsCopy(c) /\ conn'[c].slot = conn[c].slot /\ conn'[c].pc = "frames"
    BY <1>1, <1>s, <2>2 DEF KeepsCopy, Fields
  <2>5. DrawnFile(file)'
    BY <1>1, <1>f, <2>1 DEF DrawnFile, FileFields
  <2> QED
    BY <1>1, <1>d, <2>3, <2>4, <2>5, FramesGoOn DEF KeepsCopy
<1>3. CASE ~over
  <2>1. /\ file' = [file EXCEPT !.frame =
                      IF conn[c].reck = 0 THEN [put EXCEPT ![n].sum = Sum(put, n)]
                                          ELSE [put EXCEPT ![n].salt = 0]]
        /\ conn' = [conn EXCEPT ![c].list = @ \ {p}, ![c].n = n]
    BY <1>3 DEF WriteFrame
  <2>n. n = conn[c].n + 1
    OBVIOUS
  <2> HIDE DEF p, last, old, n, put, over
  <2>2. conn'[c] = [conn[c] EXCEPT !.list = @ \ {p}, !.n = n]
    BY <1>s, <2>1
  <2>3. Only(c)
    BY <1>s, <2>1, <2>2 DEF Only, Fields
  <2>4. /\ conn'[c].hdr = conn[c].hdr /\ conn'[c].slot = conn[c].slot /\ conn'[c].pc = "frames"
        /\ conn'[c].safe = conn[c].safe /\ conn'[c].useWal = conn[c].useWal
        /\ conn'[c].n = conn[c].n + 1
    BY <1>1, <1>s, <2>2, <2>n DEF Fields
  <2>5. DrawnFile(file)'
    <3> DEFINE fr == IF conn[c].reck = 0 THEN [put EXCEPT ![n].sum = Sum(put, n)]
                                         ELSE [put EXCEPT ![n].salt = 0]
    <3>1. file' = [file EXCEPT !.frame = fr]
      BY <2>1
    <3> HIDE DEF fr
    <3> QED
      BY <1>1, <1>f, <3>1 DEF DrawnFile, FileFields
  <2> QED
    BY <1>1, <1>d, <2>3, <2>4, <2>5, FramesGoOn
<1> QED
  BY <1>2, <1>3

LEMMA WriteHeaderStep == ASSUME WalInv, NEW c \in Conns, WriteHeader(c) PROVE WalInv'
<1>0. /\ LocksHeld(c) /\ SeenHeader(c) /\ HeaderGrows(c) /\ AllBackfilled(c)
      /\ hdr \in Header /\ conn[c].hdr \in Header /\ conn[c].n \in Nat /\ conn[c].safe \in Nat
      /\ conn[c].useWal \in BOOLEAN
  BY Self
<1>s. conn = [d \in Conns |-> conn[d]] /\ conn[c] = [x \in Fields |-> conn[c][x]]
  BY Shape
<1>f. /\ DrawnFile(file) /\ DrawnFile(disk) /\ Drawn(conn[c].hdr) /\ salts \in Nat
      /\ mark \in [Marks -> Nat] /\ Drawn(hdr)
  BY Finds
<1>1. /\ UNCHANGED <<hdr, nBackfill, mark, writer, ckpter>>
      /\ conn[c].pc = "header"
  BY DEF WriteHeader, index, locks
<1>w. Writing(c) /\ ~conn[c].useWal /\ writer = c /\ ~Checkpointing(c)
      /\ conn[c].slot # 0 /\ hdr.init /\ conn[c].hdr.init
  BY <1>0, <1>1 DEF Writing, LocksHeld, Joining, Checkpointing, AllBackfilled, SeenHeader
<1>2. CASE conn[c].hdr.mx # 0
  <2>1. /\ conn' = [conn EXCEPT ![c].n = conn[c].hdr.mx, ![c].pc = "frames"]
        /\ UNCHANGED <<file, disk, salts>>
    BY <1>2 DEF WriteHeader
  <2>2. conn'[c] = [conn[c] EXCEPT !.n = conn[c].hdr.mx, !.pc = "frames"]
    BY <1>s, <2>1
  <2>3. Only(c)
    BY <1>s, <2>1, <2>2 DEF Only, Fields
  <2>4. /\ conn'[c].hdr = conn[c].hdr /\ conn'[c].slot = conn[c].slot /\ conn'[c].pc = "frames"
        /\ conn'[c].safe = conn[c].safe /\ conn'[c].useWal = conn[c].useWal
        /\ conn'[c].n = conn[c].hdr.mx
    BY <1>s, <2>2 DEF Fields
  <2>5. Own(c)'
    <3>0. Writing(c)'
      BY <2>4 DEF Writing
    <3>1. LocksHeld(c)'
      BY <1>1, <1>w, <2>4 DEF LocksHeld, Checkpointing
    <3>2. SeenHeader(c)'
      BY <1>0, <1>1, <1>w, <2>4 DEF SeenHeader
    <3>3. HeaderGrows(c)'
      <4>1. \A d \in Conns \ {c} : conn'[d] = conn[d]
        BY <2>3 DEF Only, WalInv, WalShape
      <4>2. conn'[c].hdr.mx <= conn'[c].n
        BY <1>0, <2>4 DEF Header
      <4> QED
        BY <1>0, <1>1, <1>w, <2>4, <3>0, <4>1, <4>2 DEF HeaderGrows
    <3>4. AllBackfilled(c)'
      BY <1>1, <1>w, <2>4 DEF AllBackfilled, ReadsDatabase
    <3>5. StillToCopy(c)'
      BY <2>4 DEF StillToCopy
    <3> QED
      BY <3>1, <3>2, <3>3, <3>4, <3>5 DEF Own
  <2>6. conn'[c].n \in Nat /\ conn'[c].safe \in Nat /\ conn'[c].useWal \in BOOLEAN
    BY <1>0, <2>4 DEF Header
  <2> QED
    BY <1>1, <2>1, <2>3, <2>4, <2>5, <2>6, Stays
<1>3. CASE conn[c].hdr.mx = 0
  <2> DEFINE fresh == conn[c].nCkpt = 0
             salt == IF fresh THEN salts + 1 ELSE conn[c].hdr.salt
  <2>1. /\ conn' = [conn EXCEPT ![c].hdr.salt = salt, ![c].n = 0, ![c].pc = "frames"]
        /\ file' = [file EXCEPT !.salt = salt, !.nCkpt = conn[c].nCkpt]
        /\ disk' = file'
        /\ salts' = IF fresh THEN salts + 1 ELSE salts
    BY <1>3 DEF WriteHeader
  <2>s. /\ salt \in Nat /\ salts' \in Nat /\ salt <= salts' /\ salts <= salts'
        /\ salt = conn[c].hdr.salt \/ (salt > salts /\ salt > 0)
    BY <1>f, <2>1 DEF Drawn, Header
  <2> HIDE DEF fresh, salt
  <2>2. conn'[c] = [conn[c] EXCEPT !.hdr = [conn[c].hdr EXCEPT !.salt = salt], !.n = 0, !.pc = "frames"]
    BY <1>s, <2>1 DEF Fields
  <2>3. Only(c)
    <3>1. conn'[c] = [x \in Fields |-> conn'[c][x]]
      BY <1>s, <2>1, <2>2, Zenon DEF Fields
    <3>2. conn' = [conn EXCEPT ![c] = conn'[c]]
      BY <1>s, <2>1, <2>2
    <3> QED
      BY <3>1, <3>2 DEF Only
  <2>4. /\ conn'[c].hdr = [conn[c].hdr EXCEPT !.salt = salt]
        /\ conn'[c].slot = conn[c].slot /\ conn'[c].pc = "frames"
        /\ conn'[c].safe = conn[c].safe /\ conn'[c].useWal = conn[c].useWal
        /\ conn'[c].n = 0
    BY <1>s, <2>2 DEF Fields
  <2>h. /\ conn'[c].hdr \in Header /\ conn'[c].hdr.salt = salt /\ conn'[c].hdr.mx = 0
        /\ conn'[c].hdr.init
    BY <1>0, <1>3, <1>w, <2>4, <2>s DEF Header
  <2>5. Own(c)'
    <3>0. Writing(c)'
      BY <2>4 DEF Writing
    <3>1. LocksHeld(c)'
      BY <1>1, <1>w, <2>4 DEF LocksHeld, Checkpointing
    <3>2. SeenHeader(c)'
      BY <1>1, <1>w, <2>h DEF SeenHeader
    <3>3. HeaderGrows(c)'
      <4>1. hdr.mx = 0
        BY <1>0, <1>3, <1>w DEF HeaderGrows, Header
      <4>2. ASSUME salt # hdr.salt
            PROVE  salt > 0 /\ \A d \in Conns \ {c} : conn'[d].hdr.salt # salt
        <5>1. \A d \in Conns \ {c} : conn'[d] = conn[d]
          BY <2>3 DEF Only, WalInv, WalShape
        <5>2. CASE salt = conn[c].hdr.salt
          BY <1>0, <1>w, <4>2, <5>1, <5>2 DEF HeaderGrows
        <5>3. CASE salt > salts /\ salt > 0
          <6>1. ASSUME NEW d \in Conns \ {c} PROVE conn'[d].hdr.salt # salt
            <7>1. Drawn(conn[d].hdr) /\ conn'[d] = conn[d]
              BY <5>1, Finds
            <7> QED
              BY <1>f, <2>s, <5>3, <7>1 DEF Drawn, Header
          <6> QED
            BY <5>3, <6>1
        <5> QED
          BY <2>s, <5>2, <5>3
      <4>3. hdr'.mx <= conn'[c].hdr.mx /\ conn'[c].hdr.mx <= conn'[c].n
        BY <1>1, <2>4, <2>h, <4>1
      <4> QED
        BY <1>1, <2>4, <2>h, <3>0, <4>1, <4>2, <4>3 DEF HeaderGrows
    <3>4. AllBackfilled(c)'
      BY <1>1, <1>w, <2>4 DEF AllBackfilled, ReadsDatabase
    <3>5. StillToCopy(c)'
      BY <2>4 DEF StillToCopy
    <3> QED
      BY <3>1, <3>2, <3>3, <3>4, <3>5 DEF Own
  <2>6. conn'[c].n \in Nat /\ conn'[c].safe \in Nat /\ conn'[c].useWal \in BOOLEAN
    BY <1>0, <2>4
  <2>7. DrawnFile(file)' /\ DrawnFile(disk)'
    <3>1. DrawnFile(file)'
      BY <1>f, <2>1, <2>s DEF DrawnFile, FileFields
    <3> QED
      BY <2>1, <3>1 DEF DrawnFile
  <2>8. Drawn(conn[c].hdr)'
    BY <2>h, <2>s DEF Drawn
  <2>9. mark' \in [Marks -> Nat]
    BY <1>1, <1>f
  <2>10. conn'[c].hdr.salt \in {conn[c].hdr.salt, hdr.salt, 0} \/ conn'[c].hdr.salt > salts
    BY <2>h, <2>s
  <2> QED
    BY <1>1, <2>s, <2>3, <2>5, <2>6, <2>7, <2>8, <2>9, <2>10, ByOne
<1> QED
  BY <1>2, <1>3

LEMMA SpillStep ==
  ASSUME WalInv, NEW c \in Conns, FinishFrames(c), ~conn[c].commit PROVE WalInv'
<1>0. /\ LocksHeld(c) /\ SeenHeader(c) /\ HeaderGrows(c) /\ AllBackfilled(c)
      /\ hdr \in Header /\ conn[c].hdr \in Header /\ conn[c].n \in Nat /\ conn[c].safe \in Nat
      /\ conn[c].useWal \in BOOLEAN
  BY Self
<1>s. conn = [d \in Conns |-> conn[d]] /\ conn[c] = [x \in Fields |-> conn[c][x]]
  BY Shape
<1>f. /\ DrawnFile(file) /\ DrawnFile(disk) /\ Drawn(conn[c].hdr) /\ salts \in Nat
      /\ mark \in [Marks -> Nat]
  BY Finds
<1>1. /\ UNCHANGED <<hdr, nBackfill, mark, writer, ckpter, file, disk, salts>>
      /\ conn[c].pc = "frames"
  BY DEF FinishFrames, locks, files, counts
<1>w. Writing(c) /\ ~conn[c].useWal /\ writer = c /\ ~Checkpointing(c)
      /\ conn[c].slot # 0 /\ hdr.init /\ conn[c].hdr.init /\ conn[c].hdr.mx <= conn[c].n
      /\ hdr.mx <= conn[c].hdr.mx
  BY <1>0, <1>1 DEF Writing, LocksHeld, Joining, Checkpointing, AllBackfilled, SeenHeader, HeaderGrows
<1> DEFINE h == [conn[c].hdr EXCEPT !.mx = conn[c].n]
<1>2. conn' = [conn EXCEPT ![c].hdr = h, ![c].pc = "write", ![c].n = 0]
  BY DEF FinishFrames
<1>h. /\ h \in Header /\ h.salt = conn[c].hdr.salt /\ h.mx = conn[c].n /\ h.init
  BY <1>0, <1>w DEF Header
<1> HIDE DEF h
<1>3. conn'[c] = [conn[c] EXCEPT !.hdr = h, !.pc = "write", !.n = 0]
  BY <1>s, <1>2
<1>4. Only(c)
  <2>1. conn'[c] = [x \in Fields |-> conn'[c][x]]
    BY <1>s, <1>2, <1>3, Zenon DEF Fields
  <2>2. conn' = [conn EXCEPT ![c] = conn'[c]]
    BY <1>s, <1>2, <1>3
  <2> QED
    BY <2>1, <2>2 DEF Only
<1>5. /\ conn'[c].hdr = h /\ conn'[c].pc = "write" /\ conn'[c].n = 0
      /\ conn'[c].slot = conn[c].slot /\ conn'[c].safe = conn[c].safe
      /\ conn'[c].useWal = conn[c].useWal
  BY <1>s, <1>3 DEF Fields
<1>6. Own(c)'
  <2>0. Writing(c)'
    BY <1>5 DEF Writing
  <2>1. LocksHeld(c)'
    BY <1>1, <1>w, <1>5 DEF LocksHeld, Checkpointing
  <2>2. SeenHeader(c)'
    BY <1>1, <1>w, <1>h, <1>5 DEF SeenHeader
  <2>3. HeaderGrows(c)'
    <3>1. \A d \in Conns \ {c} : conn'[d] = conn[d]
      BY <1>4 DEF Only, WalInv, WalShape
    <3>2. hdr'.mx <= conn'[c].hdr.mx
      BY <1>0, <1>1, <1>w, <1>h, <1>5 DEF Header
    <3> QED
      BY <1>0, <1>1, <1>w, <1>h, <1>5, <2>0, <3>1, <3>2 DEF HeaderGrows
  <2>4. AllBackfilled(c)'
    BY <1>w, <1>5 DEF AllBackfilled, ReadsDatabase
  <2>5. StillToCopy(c)'
    BY <1>5 DEF StillToCopy
  <2> QED
    BY <2>1, <2>2, <2>3, <2>4, <2>5 DEF Own
<1>7. Drawn(conn[c].hdr)'
  BY <1>1, <1>f, <1>h, <1>5 DEF Drawn
<1>8. DrawnFile(file)' /\ DrawnFile(disk)' /\ mark' \in [Marks -> Nat] /\ salts' \in Nat /\ salts <= salts'
  BY <1>1, <1>f DEF DrawnFile
<1>9. /\ conn'[c].n \in Nat /\ conn'[c].safe \in Nat /\ conn'[c].useWal \in BOOLEAN
      /\ conn'[c].hdr.salt \in {conn[c].hdr.salt, hdr.salt, 0}
  BY <1>0, <1>h, <1>5
<1> QED
  BY <1>1, <1>4, <1>6, <1>7, <1>8, <1>9, ByOne

LEMMA BeginCheckpointStep ==
  ASSUME WalInv, ~IdleCheckpoints, NEW c \in Conns, BeginCheckpoint(c) PROVE WalInv'
<1>0. /\ LocksHeld(c) /\ hdr \in Header
      /\ conn[c].n \in Nat /\ conn[c].safe \in Nat /\ conn[c].useWal \in BOOLEAN
  BY Self
<1>1. /\ UNCHANGED <<hdr, nBackfill, salts, file, disk, mark, writer>>
      /\ conn[c].pc = "idle" /\ hdr.init /\ nBackfill < hdr.mx /\ ckpter = Nobody /\ ckpter' = c
  BY DEF BeginCheckpoint, index, files, counts
<1>2. /\ Only(c) /\ conn'[c].hdr = hdr /\ conn'[c].pc = "ckpt"
      /\ conn'[c].n = conn[c].n /\ conn'[c].safe = conn[c].safe /\ conn'[c].useWal = conn[c].useWal
  <2>1. conn' = [conn EXCEPT ![c].pc = "ckpt", ![c].hdr = hdr, ![c].changed = (hdr # conn[c].hdr)]
    BY DEF BeginCheckpoint
  <2>2. conn'[c] = [conn[c] EXCEPT !.pc = "ckpt", !.hdr = hdr, !.changed = (hdr # conn[c].hdr)]
    BY <2>1, Shape
  <2>3. Only(c)
    BY <2>1, <2>2, Shape DEF Only, Fields
  <2> QED
    BY <2>2, <2>3, Shape DEF Fields
<1>3. Own(c)'
  <2>0. ~conn[c].useWal
    BY <1>0, <1>1 DEF LocksHeld, Joining
  <2>1. LocksHeld(c)'
    BY <1>1, <1>2, <2>0 DEF LocksHeld, Writing, Checkpointing
  <2>2. SeenHeader(c)'
    BY <1>1, <1>2 DEF SeenHeader
  <2>3. HeaderGrows(c)'
    BY <1>0, <1>1, <1>2, <2>0 DEF HeaderGrows, Writing, Header
  <2>4. AllBackfilled(c)'
    BY <1>2 DEF AllBackfilled, ReadsDatabase
  <2>5. StillToCopy(c)'
    BY <1>0, <1>1, <1>2 DEF StillToCopy, Header
  <2> QED
    BY <2>1, <2>2, <2>3, <2>4, <2>5 DEF Own
<1>4. conn'[c].n \in Nat /\ conn'[c].safe \in Nat /\ conn'[c].useWal \in BOOLEAN
  BY <1>0, <1>2
<1> QED
  BY <1>1, <1>2, <1>3, <1>4, Stays

(* From StartCheckpoint on: the copy of the header is kept.                  *)
LEMMA CheckpointGoesOn ==
  ASSUME WalInv, NEW c \in Conns, Only(c), UNCHANGED <<hdr, nBackfill, salts, writer, ckpter>>,
         mark' \in [Marks -> Nat], DrawnFile(file)', DrawnFile(disk)',
         conn[c].pc \in {"ckpt", "marks"}, conn'[c].pc \in {"marks", "copy"},
         conn'[c].hdr = conn[c].hdr, conn'[c].n = conn[c].n, conn'[c].useWal = conn[c].useWal,
         conn'[c].safe \in Nat, conn'[c].safe <= conn[c].hdr.mx,
         conn'[c].pc = "copy" => nBackfill < conn'[c].safe
  PROVE  WalInv'
<1>0. /\ LocksHeld(c) /\ SeenHeader(c) /\ HeaderGrows(c) /\ StillToCopy(c)
      /\ conn[c].n \in Nat /\ conn[c].useWal \in BOOLEAN
  BY Self
<1>1. Own(c)'
  <2>0. ~conn[c].useWal /\ ~Writing(c) /\ ~Writing(c)'
    BY <1>0 DEF LocksHeld, Joining, Writing
  <2>1. LocksHeld(c)'
    BY <1>0, <2>0 DEF LocksHeld, Checkpointing
  <2>2. SeenHeader(c)'
    BY <1>0 DEF SeenHeader
  <2>3. HeaderGrows(c)'
    BY <1>0, <2>0 DEF HeaderGrows
  <2>4. AllBackfilled(c)'
    BY DEF AllBackfilled, ReadsDatabase
  <2>5. StillToCopy(c)'
    BY <1>0 DEF StillToCopy
  <2> QED
    BY <2>1, <2>2, <2>3, <2>4, <2>5 DEF Own
<1>2. /\ conn'[c].n \in Nat /\ conn'[c].useWal \in BOOLEAN
      /\ conn'[c].hdr \in {conn[c].hdr, hdr} /\ conn[c].pc # "restart"
  BY <1>0
<1> QED
  BY <1>1, <1>2, Moves

LEMMA StartCheckpointStep == ASSUME WalInv, NEW c \in Conns, StartCheckpoint(c) PROVE WalInv'
<1>0. StillToCopy(c) /\ conn[c].hdr \in Header
  BY Self
<1>1. /\ UNCHANGED <<hdr, nBackfill, salts, file, disk, mark, writer, ckpter>>
      /\ conn[c].pc = "ckpt"
  BY DEF StartCheckpoint, index, locks, files, counts
<1>2. mark' \in [Marks -> Nat] /\ DrawnFile(file)' /\ DrawnFile(disk)'
  BY <1>1, Finds DEF DrawnFile
<1>s. conn = [d \in Conns |-> conn[d]] /\ conn[c] = [x \in Fields |-> conn[c][x]]
  BY Shape
<1>3. CASE nBackfill < conn[c].hdr.mx
  <2>1. /\ Only(c) /\ conn'[c].hdr = conn[c].hdr /\ conn'[c].pc = "marks"
        /\ conn'[c].n = conn[c].n /\ conn'[c].safe = conn[c].hdr.mx /\ conn'[c].useWal = conn[c].useWal
    BY <1>3, <1>s DEF StartCheckpoint, Only, Fields
  <2>2. conn'[c].safe \in Nat /\ conn'[c].safe <= conn[c].hdr.mx
    BY <1>0, <2>1 DEF Header
  <2>3. conn[c].pc \in {"ckpt", "marks"} /\ conn'[c].pc \in {"marks", "copy"} /\ conn'[c].pc # "copy"
    BY <1>1, <2>1
  <2> QED
    BY <1>1, <1>2, <2>1, <2>2, <2>3, CheckpointGoesOn
<1>4. CASE ~(nBackfill < conn[c].hdr.mx)
  <2>1. Only(c) /\ KeepsCopy(c) /\ conn'[c].pc = "endCkpt"
    BY <1>4, <1>s DEF StartCheckpoint, Only, KeepsCopy, Fields
  <2>2. Walk(c)
    BY <1>1, <2>1 DEF Walk
  <2> QED
    BY <1>1, <1>2, <2>1, <2>2, Walks
<1> QED
  BY <1>3, <1>4

LEMMA TestMarkStep == ASSUME WalInv, NEW c \in Conns, TestMark(c) PROVE WalInv'
<1>0. StillToCopy(c) /\ conn[c].hdr \in Header /\ conn[c].safe \in Nat
  BY Self
<1>1. /\ UNCHANGED <<hdr, nBackfill, salts, file, disk, writer, ckpter>>
      /\ conn[c].pc = "marks" /\ conn[c].i \in Marks
  BY DEF TestMark, locks, files, counts
<1>2. DrawnFile(file)' /\ DrawnFile(disk)' /\ mark \in [Marks -> Nat]
  BY <1>1, Finds DEF DrawnFile
<1>s. conn = [d \in Conns |-> conn[d]] /\ conn[c] = [x \in Fields |-> conn[c][x]]
  BY Shape
<1> DEFINE i == conn[c].i
           over == conn[c].safe > mark[i]
           safe == IF over /\ ~CanOwn(i) THEN mark[i] ELSE conn[c].safe
<1>3. /\ mark' = IF over /\ CanOwn(i)
                 THEN [mark EXCEPT ![i] = IF i = 1 THEN conn[c].safe ELSE NotUsed]
                 ELSE mark
      /\ conn' = [conn EXCEPT ![c].i = i + 1, ![c].safe = safe]
  BY <1>s DEF TestMark, Fields
<1>4. safe \in Nat /\ safe <= conn[c].safe
  BY <1>0, <1>1, <1>2
<1>5. mark' \in [Marks -> Nat]
  <2>1. NotUsed \in Nat
    BY WalAssumption DEF NotUsed
  <2> QED
    BY <1>0, <1>2, <1>3, <2>1
<1> HIDE DEF over, safe
<1>6. conn'[c] = [conn[c] EXCEPT !.i = i + 1, !.safe = safe]
  BY <1>s, <1>3
<1>7. /\ Only(c) /\ conn'[c].hdr = conn[c].hdr /\ conn'[c].pc = "marks"
      /\ conn'[c].n = conn[c].n /\ conn'[c].safe = safe /\ conn'[c].useWal = conn[c].useWal
  <2>1. Only(c)
    BY <1>s, <1>3, <1>6 DEF Only, Fields
  <2> QED
    BY <1>1, <1>s, <1>6, <2>1 DEF Fields
<1>8. conn'[c].safe \in Nat /\ conn'[c].safe <= conn[c].hdr.mx
  BY <1>0, <1>1, <1>4, <1>7 DEF StillToCopy, Header
<1>9. conn[c].pc \in {"ckpt", "marks"} /\ conn'[c].pc \in {"marks", "copy"} /\ conn'[c].pc # "copy"
  BY <1>1, <1>7
<1> QED
  BY <1>1, <1>2, <1>5, <1>7, <1>8, <1>9, CheckpointGoesOn

LEMMA StartBackfillStep == ASSUME WalInv, NEW c \in Conns, StartBackfill(c) PROVE WalInv'
<1>0. StillToCopy(c) /\ conn[c].hdr \in Header /\ conn[c].safe \in Nat
  BY Self
<1>1. /\ UNCHANGED <<hdr, nBackfill, salts, file, mark, writer, ckpter>>
      /\ conn[c].pc = "marks"
  BY DEF StartBackfill, index, counts
<1>2. DrawnFile(file)' /\ mark' \in [Marks -> Nat]
  BY <1>1, Finds DEF DrawnFile
<1>3. DrawnFile(disk)'
  <2>1. disk' = file \/ disk' = disk
    BY DEF StartBackfill, Synced
  <2> QED
    BY <1>1, <2>1, Finds DEF DrawnFile
<1>s. conn = [d \in Conns |-> conn[d]] /\ conn[c] = [x \in Fields |-> conn[c][x]]
  BY Shape
<1>4. CASE nBackfill < conn[c].safe /\ CanOwn(0)
  <2>1. conn' = [conn EXCEPT ![c].pc = "copy", ![c].copy = ToCopy(c, nBackfill)]
    BY <1>4 DEF StartBackfill
  <2>2. conn'[c] = [conn[c] EXCEPT !.pc = "copy", !.copy = ToCopy(c, nBackfill)]
    BY <1>s, <2>1
  <2>3. /\ Only(c) /\ conn'[c].hdr = conn[c].hdr /\ conn'[c].pc = "copy"
        /\ conn'[c].n = conn[c].n /\ conn'[c].safe = conn[c].safe /\ conn'[c].useWal = conn[c].useWal
    <3>1. Only(c)
      BY <1>s, <2>1, <2>2 DEF Only, Fields
    <3> QED
      BY <1>s, <2>2, <3>1 DEF Fields
  <2>4. /\ conn'[c].safe \in Nat /\ conn'[c].safe <= conn[c].hdr.mx
        /\ conn'[c].pc = "copy" => nBackfill < conn'[c].safe
    BY <1>0, <1>1, <1>4, <2>3 DEF StillToCopy
  <2>5. conn[c].pc \in {"ckpt", "marks"} /\ conn'[c].pc \in {"marks", "copy"}
    BY <1>1, <2>3
  <2> QED
    BY <1>1, <1>2, <1>3, <2>3, <2>4, <2>5, CheckpointGoesOn
<1>5. CASE ~(nBackfill < conn[c].safe /\ CanOwn(0))
  <2>1. Only(c) /\ KeepsCopy(c) /\ conn'[c].pc = "endCkpt"
    BY <1>5, <1>s DEF StartBackfill, Only, KeepsCopy, Fields
  <2>2. Walk(c)
    BY <1>1, <2>1 DEF Walk
  <2> QED
    BY <1>1, <1>2, <1>3, <2>1, <2>2, Walks
<1> QED
  BY <1>4, <1>5

LEMMA CopyPageStep == ASSUME WalInv, NEW c \in Conns, CopyPage(c) PROVE WalInv'
<1>1. /\ UNCHANGED <<hdr, nBackfill, salts, file, disk, mark, writer, ckpter>>
      /\ conn[c].pc = "copy"
  BY DEF CopyPage, index, locks, counts
<1>2. mark' \in [Marks -> Nat] /\ DrawnFile(file)' /\ DrawnFile(disk)'
  BY <1>1, Finds DEF DrawnFile
<1>3. PICK s : conn' = [conn EXCEPT ![c].copy = s]
  BY DEF CopyPage
<1>4. Only(c) /\ KeepsCopy(c) /\ conn'[c].pc = conn[c].pc
  BY <1>3, Shape DEF Only, KeepsCopy, Fields
<1>5. Walk(c)
  BY <1>1, <1>4 DEF Walk
<1> QED
  BY <1>1, <1>2, <1>4, <1>5, Walks

LEMMA EndCheckpointStep == ASSUME WalInv, NEW c \in Conns, EndCheckpoint(c) PROVE WalInv'
<1>0. /\ LocksHeld(c) /\ SeenHeader(c) /\ HeaderGrows(c) /\ hdr \in Header
  BY Self
<1>1. /\ UNCHANGED <<hdr, nBackfill, salts, file, disk, mark, writer>>
      /\ conn[c].pc = "endCkpt" /\ ckpter' = Nobody
  BY DEF EndCheckpoint, index, files, counts
<1>f. /\ Drawn(conn[c].hdr) /\ mark \in [Marks -> Nat] /\ DrawnFile(file) /\ DrawnFile(disk)
      /\ salts \in Nat
  BY Finds
<1>2. /\ Only(c) /\ conn'[c].hdr = HdrToKeep(c) /\ conn'[c].n = 0 /\ conn'[c].safe = 0
      /\ conn'[c].pc = "idle"
  <2>1. conn' = [conn EXCEPT ![c] = [Resting EXCEPT !.nCkpt = conn[c].nCkpt,
                   !.cache = conn[c].cache, !.hdr = HdrToKeep(c)]]
    BY DEF EndCheckpoint
  <2>2. conn'[c] = [Resting EXCEPT !.nCkpt = conn[c].nCkpt,
                   !.cache = conn[c].cache, !.hdr = HdrToKeep(c)]
    BY <2>1, Shape
  <2>3. Only(c)
    BY <2>1, <2>2, Shape DEF Only, Fields, Resting
  <2> QED
    BY <2>2, <2>3 DEF Resting
<1>3. conn'[c].useWal = FALSE
  <2>1. conn' = [conn EXCEPT ![c] = [Resting EXCEPT !.nCkpt = conn[c].nCkpt,
                   !.cache = conn[c].cache, !.hdr = HdrToKeep(c)]]
    BY DEF EndCheckpoint
  <2> QED
    BY <2>1, Shape DEF Resting
<1>h. conn'[c].hdr = conn[c].hdr \/ conn'[c].hdr = NoHdr
  BY <1>2 DEF HdrToKeep
<1>4. Own(c)'
  <2>0. ~Writing(c) /\ ckpter = c /\ hdr.init
    BY <1>0, <1>1 DEF LocksHeld, Joining, Writing, Checkpointing, SeenHeader
  <2>1. LocksHeld(c)'
    BY <1>2, <1>3 DEF LocksHeld, Writing, Checkpointing
  <2>2. SeenHeader(c)'
    BY <1>1, <1>2, <2>0 DEF SeenHeader
  <2>3. HeaderGrows(c)'
    <3>1. ~Writing(c)'
      BY <1>2, <1>3 DEF Writing
    <3>2. conn'[c].hdr.salt = hdr.salt => conn'[c].hdr.mx <= hdr.mx
      <4>1. CASE conn'[c].hdr = conn[c].hdr
        BY <1>0, <2>0, <4>1 DEF HeaderGrows
      <4>2. CASE conn'[c].hdr = NoHdr
        BY <1>0, <4>2 DEF NoHdr, Header
      <4> QED
        BY <1>h, <4>1, <4>2
    <3> QED
      BY <1>1, <1>2, <3>1, <3>2 DEF HeaderGrows
  <2>4. AllBackfilled(c)'
    BY <1>2 DEF AllBackfilled, ReadsDatabase
  <2>5. StillToCopy(c)'
    BY <1>2 DEF StillToCopy
  <2> QED
    BY <2>1, <2>2, <2>3, <2>4, <2>5 DEF Own
<1>5. Drawn(conn[c].hdr)'
  <2>1. Drawn(NoHdr)
    BY <1>f DEF Drawn, Header, NoHdr
  <2> QED
    BY <1>1, <1>f, <1>h, <2>1 DEF Drawn
<1>6. DrawnFile(file)' /\ DrawnFile(disk)' /\ mark' \in [Marks -> Nat] /\ salts' \in Nat /\ salts <= salts'
  BY <1>1, <1>f DEF DrawnFile
<1>7. conn'[c].hdr.salt \in {conn[c].hdr.salt, hdr.salt, 0}
  BY <1>h DEF NoHdr
<1>8. /\ conn'[c].n \in Nat /\ conn'[c].safe \in Nat
  BY <1>2
<1>9. conn'[c].useWal \in BOOLEAN
  BY <1>3
<1>10. ckpter = c \/ ckpter = Nobody
  BY <1>0, <1>1 DEF LocksHeld, Checkpointing
<1> QED
  BY <1>1, <1>2, <1>4, <1>5, <1>6, <1>7, <1>8, <1>9, <1>10, ByOne

-----------------------------------------------------------------------------
(* The steps that change the header or nBackfill, seen by every connection.  *)

LEMMA RecoverStep == ASSUME WalInv, NEW c \in Conns, Recover(c) PROVE WalInv'
<1> DEFINE some == \E i \in Frames : file.frame[i] # NoFrame
           n == CommittedUpTo(file)
           h == [init |-> TRUE, salt |-> IF some THEN file.salt ELSE 0, mx |-> n]
           pc == IF n = 0 THEN "lock0" ELSE "pick"
           m == IF some THEN file.nCkpt ELSE conn[c].nCkpt
<1>s. conn = [d \in Conns |-> conn[d]] /\ conn[c] = [x \in Fields |-> conn[c][x]]
  BY Shape
<1>f. /\ DrawnFile(file) /\ DrawnFile(disk) /\ salts \in Nat /\ mark \in [Marks -> Nat]
      /\ conn[c].n \in Nat /\ conn[c].safe \in Nat /\ conn[c].useWal \in BOOLEAN
  BY Finds
<1>1. /\ UNCHANGED <<salts, writer, ckpter, file, disk>> /\ nBackfill' = 0 /\ hdr' = h
      /\ mark' = [i \in Marks |-> IF i = 1 /\ n > 0 THEN n ELSE NotUsed]
      /\ ~hdr.init
  BY DEF Recover, locks, files, counts
<1>2. conn' = [conn EXCEPT ![c].pc = pc, ![c].hdr = hdr', ![c].cache = NoState, ![c].nCkpt = m]
  BY <1>s DEF Recover, Fields
<1>n. n \in Nat
  <2>1. ValidUpTo(file) \in 0 .. MaxFrame /\ n \in 0 .. ValidUpTo(file)
    BY Counted
  <2> QED
    BY <2>1, WalAssumption
<1>h. h \in Header /\ h.init /\ h.salt <= salts /\ h.mx = n
  BY <1>f, <1>n DEF Header, DrawnFile
<1>p. pc \in {"lock0", "pick"} /\ (pc = "lock0" => n = 0)
  OBVIOUS
<1>m. mark' \in [Marks -> Nat]
  <2>1. NotUsed \in Nat
    BY WalAssumption DEF NotUsed
  <2> QED
    BY <1>1, <1>n, <2>1
<1> HIDE DEF some, n, h, pc, m
<1>3. conn'[c] = [conn[c] EXCEPT !.pc = pc, !.hdr = h, !.cache = NoState, !.nCkpt = m]
  BY <1>s, <1>1, <1>2
<1>4. Only(c)
  <2>1. conn'[c] = [x \in Fields |-> conn'[c][x]]
    BY <1>s, <1>1, <1>2, <1>3, Zenon DEF Fields
  <2>2. conn' = [conn EXCEPT ![c] = conn'[c]]
    BY <1>s, <1>1, <1>2, <1>3
  <2> QED
    BY <2>1, <2>2 DEF Only
<1>5. /\ conn'[c].pc = pc /\ conn'[c].hdr = h /\ conn'[c].n = conn[c].n
      /\ conn'[c].safe = conn[c].safe /\ conn'[c].useWal = conn[c].useWal
  BY <1>s, <1>3 DEF Fields
<1>6. WalShape'
  <2>1. Drawn(hdr)' /\ Drawn(conn[c].hdr)' /\ DrawnFile(file)' /\ DrawnFile(disk)'
    BY <1>f, <1>1, <1>h, <1>5 DEF Drawn, DrawnFile
  <2>2. /\ conn'[c].n \in Nat /\ conn'[c].safe \in Nat /\ conn'[c].useWal \in BOOLEAN
        /\ nBackfill' \in Nat /\ salts' \in Nat /\ salts <= salts'
    BY <1>f, <1>1, <1>5
  <2> QED
    BY <1>4, <1>m, <2>1, <2>2, ShapeKept DEF WalInv
<1>7. BackfillBound'
  BY <1>1, <1>n, <1>h DEF BackfillBound
<1>8. ASSUME NEW d \in Conns PROVE Own(d)'
  <2>1. conn[d].pc = "idle" /\ conn[d].hdr = NoHdr /\ ~conn[d].useWal
    <3>1. LocksHeld(d) /\ SeenHeader(d)
      BY Self
    <3> QED
      BY <1>1, <3>1 DEF LocksHeld, SeenHeader, Joining
  <2>2. CASE d = c
    <3>1. LocksHeld(d)'
      BY <1>p, <1>5, <2>1, <2>2 DEF LocksHeld, Writing, Checkpointing
    <3>2. SeenHeader(d)'
      BY <1>1, <1>h, <1>5, <2>2 DEF SeenHeader
    <3>3. HeaderGrows(d)'
      BY <1>1, <1>h, <1>n, <1>p, <1>5, <2>1, <2>2 DEF HeaderGrows, Writing
    <3>4. AllBackfilled(d)'
      BY <1>1, <1>h, <1>p, <1>5, <2>2 DEF AllBackfilled, ReadsDatabase
    <3>5. StillToCopy(d)'
      BY <1>p, <1>5, <2>2 DEF StillToCopy
    <3> QED
      BY <3>1, <3>2, <3>3, <3>4, <3>5 DEF Own
  <2>3. CASE d # c
    <3>0. conn'[d] = conn[d]
      BY <1>4, <2>3 DEF Only, WalInv, WalShape
    <3>1. LocksHeld(d)'
      BY <2>1, <3>0 DEF LocksHeld, Writing, Checkpointing
    <3>2. SeenHeader(d)'
      BY <1>1, <1>h, <2>1, <3>0 DEF SeenHeader
    <3>3. HeaderGrows(d)'
      BY <1>1, <1>h, <1>n, <2>1, <3>0 DEF HeaderGrows, Writing, NoHdr
    <3>4. AllBackfilled(d)'
      BY <2>1, <3>0 DEF AllBackfilled, ReadsDatabase
    <3>5. StillToCopy(d)'
      BY <2>1, <3>0 DEF StillToCopy
    <3> QED
      BY <3>1, <3>2, <3>3, <3>4, <3>5 DEF Own
  <2> QED
    BY <2>2, <2>3
<1> QED
  BY <1>6, <1>7, <1>8 DEF WalInv, Own

(* While one writes no other does.                                           *)
LEMMA OneWrites ==
  ASSUME WalInv, NEW c \in Conns, Writing(c), NEW d \in Conns, d # c
  PROVE  ~Writing(d)
BY Self DEF LocksHeld

LEMMA ResetStep ==
  ASSUME WalInv, NEW c \in Conns, NEW S, NEW commit, WriteFrames(c, S, commit), CanRestart(c)
  PROVE  WalInv'
<1>s. conn = [d \in Conns |-> conn[d]] /\ conn[c] = [x \in Fields |-> conn[c][x]]
  BY Shape
<1>0. /\ LocksHeld(c) /\ SeenHeader(c) /\ AllBackfilled(c)
      /\ hdr \in Header /\ nBackfill \in Nat
      /\ conn[c].n \in Nat /\ conn[c].safe \in Nat /\ conn[c].useWal \in BOOLEAN
  BY Self
<1>f. /\ DrawnFile(file) /\ DrawnFile(disk) /\ salts \in Nat /\ mark \in [Marks -> Nat]
  BY Finds
<1> DEFINE h == RestartedHdr(c)
<1>1. /\ UNCHANGED <<nBackfill, mark, writer, ckpter, file, disk>>
      /\ hdr' = h /\ salts' = salts + 1 /\ conn[c].pc = "write" /\ conn[c].slot = 0
  BY DEF WriteFrames, CanRestart, files
<1>2. PICK m : conn' = [conn EXCEPT ![c].hdr = hdr', ![c].nCkpt = m, ![c].list = S,
                                    ![c].commit = commit, ![c].pc = "restart"]
  <2>1. conn' = [conn EXCEPT ![c].hdr = hdr', ![c].nCkpt = conn[c].nCkpt + 1,
                             ![c].list = S, ![c].commit = commit, ![c].pc = "restart"]
    BY <1>s DEF WriteFrames, Fields
  <2> QED
    BY <2>1
<1>3. conn[c].hdr = hdr /\ nBackfill = hdr.mx /\ hdr.init /\ Writing(c) /\ ~conn[c].useWal
  BY <1>0, <1>1 DEF AllBackfilled, ReadsDatabase, SeenHeader, Writing, LocksHeld, Joining
<1>h. h \in Header /\ h.init /\ h.salt = salts + 1 /\ h.mx = 0
  <2>1. h = [hdr EXCEPT !.mx = 0, !.salt = salts + 1]
    BY <1>3 DEF RestartedHdr
  <2>2. salts + 1 \in Nat
    BY <1>f
  <2> HIDE DEF h
  <2> QED
    BY <1>0, <1>3, <2>1, <2>2 DEF Header
<1> HIDE DEF h
<1>4. conn'[c] = [conn[c] EXCEPT !.hdr = h, !.nCkpt = m, !.list = S,
                                 !.commit = commit, !.pc = "restart"]
  BY <1>s, <1>1, <1>2
<1>5. Only(c)
  <2>1. conn' = [conn EXCEPT ![c] = conn'[c]]
    BY <1>s, <1>2, <1>4
  <2>2. conn'[c] = [x \in Fields |-> conn'[c][x]]
    BY <1>s, <1>4 DEF Fields
  <2> QED
    BY <2>1, <2>2 DEF Only
<1>6. /\ conn'[c].pc = "restart" /\ conn'[c].hdr = h /\ conn'[c].n = conn[c].n
      /\ conn'[c].safe = conn[c].safe /\ conn'[c].useWal = conn[c].useWal
  BY <1>s, <1>4 DEF Fields
<1>7. WalShape'
  <2>1. Drawn(hdr)' /\ Drawn(conn[c].hdr)' /\ DrawnFile(file)' /\ DrawnFile(disk)'
    BY <1>f, <1>1, <1>h, <1>6 DEF Drawn, DrawnFile
  <2>2. /\ conn'[c].n \in Nat /\ conn'[c].safe \in Nat /\ conn'[c].useWal \in BOOLEAN
        /\ nBackfill' \in Nat /\ salts' \in Nat /\ salts <= salts' /\ mark' \in [Marks -> Nat]
    BY <1>0, <1>f, <1>1, <1>6
  <2> QED
    BY <1>5, <2>1, <2>2, ShapeKept DEF WalInv
<1>8. BackfillBound'
  BY <1>6 DEF BackfillBound
<1>9. Own(c)'
  <2>0. Writing(c)'
    BY <1>6 DEF Writing
  <2>1. LocksHeld(c)'
    BY <1>0, <1>1, <1>3, <1>6 DEF LocksHeld, Checkpointing
  <2>2. SeenHeader(c)'
    BY <1>1, <1>h, <1>6 DEF SeenHeader
  <2>3. HeaderGrows(c)'
    BY <1>1, <1>h, <1>6, <2>0 DEF HeaderGrows
  <2>4. AllBackfilled(c)'
    BY <1>6 DEF AllBackfilled, ReadsDatabase
  <2>5. StillToCopy(c)'
    BY <1>6 DEF StillToCopy
  <2> QED
    BY <2>1, <2>2, <2>3, <2>4, <2>5 DEF Own
<1>10. ASSUME NEW d \in Conns, d # c PROVE Own(d)'
  <2>0. /\ LocksHeld(d) /\ SeenHeader(d) /\ StillToCopy(d) /\ AllBackfilled(d)
        /\ conn'[d] = conn[d] /\ conn[d].hdr.salt # hdr'.salt /\ ~Writing(d)
    <3>1. conn'[d] = conn[d]
      BY <1>5, <1>10 DEF Only, WalInv, WalShape
    <3>2. Drawn(conn[d].hdr)
      BY Finds
    <3>3. conn[d].hdr.salt # hdr'.salt
      BY <1>f, <1>1, <1>h, <3>2 DEF Drawn, Header
    <3> QED
      BY <1>3, <1>10, <3>1, <3>3, Self, OneWrites
  <2>w. ~Writing(d)'
    BY <2>0 DEF Writing
  <2>1. LocksHeld(d)'
    BY <1>1, <2>0, <2>w DEF LocksHeld, Checkpointing
  <2>2. SeenHeader(d)'
    BY <1>1, <1>3, <1>h, <2>0 DEF SeenHeader
  <2>3. HeaderGrows(d)'
    BY <2>0, <2>w DEF HeaderGrows, Writing
  <2>4. AllBackfilled(d)'
    BY <2>0 DEF AllBackfilled, Writing
  <2>5. StillToCopy(d)'
    BY <1>0, <1>3, <2>0 DEF StillToCopy, Header
  <2> QED
    BY <2>1, <2>2, <2>3, <2>4, <2>5 DEF Own
<1> QED
  BY <1>7, <1>8, <1>9, <1>10 DEF WalInv, Own

LEMMA RestartStep == ASSUME WalInv, NEW c \in Conns, Restart(c) PROVE WalInv'
<1>s. conn = [d \in Conns |-> conn[d]] /\ conn[c] = [x \in Fields |-> conn[c][x]]
  BY Shape
<1>0. /\ LocksHeld(c) /\ SeenHeader(c) /\ HeaderGrows(c)
      /\ conn[c].n \in Nat /\ conn[c].safe \in Nat /\ conn[c].useWal \in BOOLEAN
      /\ nBackfill \in Nat
  BY Self
<1>f. /\ DrawnFile(file) /\ DrawnFile(disk) /\ salts \in Nat /\ Drawn(hdr)
  BY Finds
<1>1. /\ UNCHANGED <<hdr, writer, ckpter, file, disk, salts>>
      /\ nBackfill' = 0 /\ conn[c].pc = "restart"
      /\ mark' = [i \in Marks |-> IF i = 1 THEN 0 ELSE NotUsed]
  BY DEF Restart, files, counts
<1>2. Only(c) /\ KeepsCopy(c) /\ conn'[c].pc = "rejoin"
  BY <1>s DEF Restart, Only, KeepsCopy, Fields
<1>3. conn[c].hdr = hdr /\ hdr.mx = 0 /\ Writing(c) /\ ~conn[c].useWal /\ Writing(c)'
  BY <1>0, <1>1, <1>2 DEF HeaderGrows, Writing, LocksHeld, Joining
<1>4. WalShape'
  <2>1. Drawn(hdr)' /\ Drawn(conn[c].hdr)' /\ DrawnFile(file)' /\ DrawnFile(disk)'
    BY <1>f, <1>1, <1>2, <1>3 DEF Drawn, DrawnFile, KeepsCopy
  <2>2. /\ conn'[c].n \in Nat /\ conn'[c].safe \in Nat /\ conn'[c].useWal \in BOOLEAN
        /\ nBackfill' \in Nat /\ salts' \in Nat /\ salts <= salts'
    BY <1>0, <1>f, <1>1, <1>2 DEF KeepsCopy
  <2>3. mark' \in [Marks -> Nat]
    <3>1. NotUsed \in Nat
      BY WalAssumption DEF NotUsed
    <3> QED
      BY <1>1, <3>1
  <2> QED
    BY <1>2, <2>1, <2>2, <2>3, ShapeKept DEF WalInv
<1>5. BackfillBound'
  BY <1>1, <1>3 DEF BackfillBound
<1>6. Own(c)'
  <2>1. LocksHeld(c)'
    BY <1>0, <1>1, <1>2, <1>3 DEF LocksHeld, Checkpointing, KeepsCopy
  <2>2. SeenHeader(c)'
    BY <1>0, <1>1, <1>2 DEF SeenHeader, KeepsCopy
  <2>3. HeaderGrows(c)'
    BY <1>1, <1>2, <1>3 DEF HeaderGrows, KeepsCopy
  <2>4. AllBackfilled(c)'
    BY <1>2 DEF AllBackfilled, ReadsDatabase
  <2>5. StillToCopy(c)'
    BY <1>2 DEF StillToCopy
  <2> QED
    BY <2>1, <2>2, <2>3, <2>4, <2>5 DEF Own
<1>7. ASSUME NEW d \in Conns, d # c PROVE Own(d)'
  <2>0. /\ LocksHeld(d) /\ SeenHeader(d) /\ HeaderGrows(d) /\ AllBackfilled(d) /\ StillToCopy(d)
        /\ conn'[d] = conn[d] /\ ~Writing(d)
    BY <1>2, <1>3, <1>7, Self, OneWrites DEF Only, WalInv, WalShape
  <2>w. ~Writing(d)'
    BY <2>0 DEF Writing
  <2>1. LocksHeld(d)'
    BY <1>1, <2>0, <2>w DEF LocksHeld, Checkpointing
  <2>2. SeenHeader(d)'
    BY <1>1, <2>0 DEF SeenHeader
  <2>3. HeaderGrows(d)'
    BY <1>1, <2>0, <2>w DEF HeaderGrows, Writing
  <2>4. AllBackfilled(d)'
    BY <1>1, <1>3, <2>0 DEF AllBackfilled, ReadsDatabase, Writing
  <2>5. StillToCopy(d)'
    BY <1>0, <1>1, <1>3, <2>0 DEF StillToCopy
  <2> QED
    BY <2>1, <2>2, <2>3, <2>4, <2>5 DEF Own
<1> QED
  BY <1>4, <1>5, <1>6, <1>7 DEF WalInv, Own

LEMMA CommitStep ==
  ASSUME WalInv, NEW c \in Conns, FinishFrames(c), conn[c].commit PROVE WalInv'
<1>s. conn = [d \in Conns |-> conn[d]] /\ conn[c] = [x \in Fields |-> conn[c][x]]
  BY Shape
<1>0. /\ LocksHeld(c) /\ SeenHeader(c) /\ HeaderGrows(c) /\ AllBackfilled(c)
      /\ hdr \in Header /\ conn[c].hdr \in Header /\ nBackfill \in Nat
      /\ conn[c].n \in Nat /\ conn[c].safe \in Nat /\ conn[c].useWal \in BOOLEAN
  BY Self
<1>f. /\ DrawnFile(file) /\ DrawnFile(disk) /\ salts \in Nat /\ mark \in [Marks -> Nat]
      /\ Drawn(conn[c].hdr)
  BY Finds
<1> DEFINE h == [conn[c].hdr EXCEPT !.mx = conn[c].n]
<1>1. /\ UNCHANGED <<nBackfill, mark, writer, ckpter, file, disk, salts>>
      /\ hdr' = h /\ conn[c].pc = "frames"
  BY DEF FinishFrames, locks, files, counts
<1>2. conn' = [conn EXCEPT ![c].hdr = h, ![c].pc = "done", ![c].n = 0, ![c].commit = FALSE]
  BY DEF FinishFrames
<1>3. /\ Writing(c) /\ ~conn[c].useWal /\ hdr.init /\ conn[c].hdr.init /\ conn[c].slot # 0
      /\ hdr.mx <= conn[c].n
  <2>1. hdr.mx <= conn[c].hdr.mx /\ conn[c].hdr.mx <= conn[c].n
    BY <1>0, <1>1 DEF HeaderGrows, Writing
  <2> QED
    BY <1>0, <1>1, <2>1 DEF AllBackfilled, SeenHeader, Writing, LocksHeld, Joining, Header
<1>h. h \in Header /\ h.init /\ h.salt = conn[c].hdr.salt /\ h.mx = conn[c].n
  BY <1>0, <1>3 DEF Header
<1> HIDE DEF h
<1>4. conn'[c] = [conn[c] EXCEPT !.hdr = h, !.pc = "done", !.n = 0, !.commit = FALSE]
  BY <1>s, <1>2
<1>5. Only(c)
  <2>1. conn'[c] = [x \in Fields |-> conn'[c][x]]
    BY <1>s, <1>2, <1>4, Zenon DEF Fields
  <2>2. conn' = [conn EXCEPT ![c] = conn'[c]]
    BY <1>s, <1>2, <1>4
  <2> QED
    BY <2>1, <2>2 DEF Only
<1>6. /\ conn'[c].pc = "done" /\ conn'[c].hdr = h /\ conn'[c].n = 0 /\ conn'[c].slot = conn[c].slot
      /\ conn'[c].safe = conn[c].safe /\ conn'[c].useWal = conn[c].useWal
  BY <1>s, <1>4 DEF Fields
<1>7. WalShape'
  <2>1. Drawn(hdr)' /\ Drawn(conn[c].hdr)' /\ DrawnFile(file)' /\ DrawnFile(disk)'
    BY <1>f, <1>1, <1>h, <1>6 DEF Drawn, DrawnFile
  <2>2. /\ conn'[c].n \in Nat /\ conn'[c].safe \in Nat /\ conn'[c].useWal \in BOOLEAN
        /\ nBackfill' \in Nat /\ salts' \in Nat /\ salts <= salts' /\ mark' \in [Marks -> Nat]
    BY <1>0, <1>f, <1>1, <1>6
  <2> QED
    BY <1>5, <2>1, <2>2, ShapeKept DEF WalInv
<1>8. BackfillBound'
  <2>1. \A d \in Conns : conn[d].pc # "restart"
    BY <1>1, <1>3, OneWrites DEF Writing
  <2>2. nBackfill <= hdr.mx
    BY <2>1 DEF BackfillBound, WalInv
  <2>3. nBackfill' <= hdr'.mx
    BY <1>0, <1>1, <1>3, <1>h, <2>2 DEF Header
  <2> QED
    BY <2>3 DEF BackfillBound
<1>9. Own(c)'
  <2>0. Writing(c)'
    BY <1>6 DEF Writing
  <2>1. LocksHeld(c)'
    BY <1>0, <1>1, <1>3, <1>6 DEF LocksHeld, Checkpointing
  <2>2. SeenHeader(c)'
    BY <1>1, <1>h, <1>6 DEF SeenHeader
  <2>3. HeaderGrows(c)'
    BY <1>0, <1>1, <1>h, <1>6, <2>0 DEF HeaderGrows
  <2>4. AllBackfilled(c)'
    BY <1>3, <1>6 DEF AllBackfilled, ReadsDatabase
  <2>5. StillToCopy(c)'
    BY <1>6 DEF StillToCopy
  <2> QED
    BY <2>1, <2>2, <2>3, <2>4, <2>5 DEF Own
<1>10. ASSUME NEW d \in Conns, d # c PROVE Own(d)'
  <2>0. /\ LocksHeld(d) /\ SeenHeader(d) /\ HeaderGrows(d) /\ AllBackfilled(d) /\ StillToCopy(d)
        /\ conn'[d] = conn[d] /\ ~Writing(d) /\ conn[d].hdr \in Header
    BY <1>3, <1>5, <1>10, Self, OneWrites DEF Only, WalInv, WalShape
  <2>w. ~Writing(d)'
    BY <2>0 DEF Writing
  <2>m. conn[d].hdr.salt = hdr'.salt => conn[d].hdr.salt = hdr.salt /\ conn[d].hdr.mx <= hdr.mx
    BY <1>0, <1>1, <1>3, <1>10, <1>h, <2>0 DEF HeaderGrows
  <2>1. LocksHeld(d)'
    BY <1>1, <2>0, <2>w DEF LocksHeld, Checkpointing
  <2>2. SeenHeader(d)'
    BY <1>1, <1>3, <1>h, <2>0 DEF SeenHeader
  <2>3. HeaderGrows(d)'
    <3>1. conn[d].hdr.salt = hdr'.salt => conn[d].hdr.mx <= hdr'.mx
      BY <1>0, <1>1, <1>3, <1>h, <2>0, <2>m DEF Header
    <3> QED
      BY <2>0, <2>w, <3>1 DEF HeaderGrows, Writing
  <2>4. AllBackfilled(d)'
    <3>1. ASSUME conn[d].hdr = hdr' PROVE conn[d].hdr = hdr /\ hdr.mx = hdr'.mx
      <4>1. conn[d].hdr.salt = hdr.salt /\ conn[d].hdr.mx <= hdr.mx
        BY <2>m, <3>1
      <4>2. conn[d].hdr.mx = conn[c].n /\ conn[d].hdr.init
        BY <1>1, <1>h, <3>1
      <4>3. conn[d].hdr.mx = hdr.mx
        BY <1>0, <1>3, <2>0, <4>1, <4>2 DEF Header
      <4>4. conn[d].hdr.init = TRUE /\ hdr.init = TRUE
        BY <1>0, <1>3, <2>0, <4>2 DEF Header
      <4> QED
        BY <1>0, <2>0, <3>1, <4>1, <4>3, <4>4 DEF Header
    <3> QED
      BY <1>1, <2>0, <3>1 DEF AllBackfilled, ReadsDatabase, Writing
  <2>5. StillToCopy(d)'
    BY <1>0, <1>1, <1>3, <1>h, <2>0 DEF StillToCopy, Header
  <2> QED
    BY <2>1, <2>2, <2>3, <2>4, <2>5 DEF Own
<1> QED
  BY <1>7, <1>8, <1>9, <1>10 DEF WalInv, Own

LEMMA BackfilledStep == ASSUME WalInv, NEW c \in Conns, Backfilled(c) PROVE WalInv'
<1>s. conn = [d \in Conns |-> conn[d]] /\ conn[c] = [x \in Fields |-> conn[c][x]]
  BY Shape
<1>0. /\ LocksHeld(c) /\ SeenHeader(c) /\ HeaderGrows(c) /\ StillToCopy(c)
      /\ hdr \in Header /\ conn[c].hdr \in Header /\ nBackfill \in Nat
      /\ conn[c].n \in Nat /\ conn[c].safe \in Nat /\ conn[c].useWal \in BOOLEAN
  BY Self
<1>f. /\ DrawnFile(file) /\ DrawnFile(disk) /\ salts \in Nat /\ mark \in [Marks -> Nat]
      /\ Drawn(conn[c].hdr) /\ Drawn(hdr)
  BY Finds
<1>1. /\ UNCHANGED <<hdr, mark, writer, ckpter, file, disk, salts>>
      /\ nBackfill' = conn[c].safe /\ conn[c].pc = "copy"
  BY DEF Backfilled, CopiedUpTo, counts
<1>2. Only(c) /\ KeepsCopy(c) /\ conn'[c].pc = "endCkpt"
  BY <1>s DEF Backfilled, Only, KeepsCopy, Fields
<1>3. /\ nBackfill < hdr.mx /\ conn[c].safe <= hdr.mx /\ ckpter = c
      /\ ~Writing(c) /\ ~Writing(c)' /\ ~conn[c].useWal
  BY <1>0, <1>1, <1>2 DEF StillToCopy, LocksHeld, Writing, Checkpointing, Joining, KeepsCopy, Header
<1>4. WalShape'
  <2>1. Drawn(hdr)' /\ Drawn(conn[c].hdr)' /\ DrawnFile(file)' /\ DrawnFile(disk)'
    BY <1>f, <1>1, <1>2 DEF Drawn, DrawnFile, KeepsCopy
  <2>2. /\ conn'[c].n \in Nat /\ conn'[c].safe \in Nat /\ conn'[c].useWal \in BOOLEAN
        /\ nBackfill' \in Nat /\ salts' \in Nat /\ salts <= salts' /\ mark' \in [Marks -> Nat]
    BY <1>0, <1>f, <1>1, <1>2 DEF KeepsCopy
  <2> QED
    BY <1>2, <2>1, <2>2, ShapeKept DEF WalInv
<1>5. BackfillBound'
  BY <1>1, <1>3 DEF BackfillBound
<1>6. Own(c)'
  <2>1. LocksHeld(c)'
    BY <1>0, <1>1, <1>2, <1>3 DEF LocksHeld, Checkpointing, KeepsCopy
  <2>2. SeenHeader(c)'
    BY <1>0, <1>1, <1>2 DEF SeenHeader, KeepsCopy
  <2>3. HeaderGrows(c)'
    BY <1>0, <1>1, <1>2, <1>3 DEF HeaderGrows, KeepsCopy
  <2>4. AllBackfilled(c)'
    BY <1>2 DEF AllBackfilled, ReadsDatabase
  <2>5. StillToCopy(c)'
    BY <1>2 DEF StillToCopy
  <2> QED
    BY <2>1, <2>2, <2>3, <2>4, <2>5 DEF Own
<1>7. ASSUME NEW d \in Conns, d # c PROVE Own(d)'
  <2>0. /\ LocksHeld(d) /\ SeenHeader(d) /\ HeaderGrows(d) /\ AllBackfilled(d)
        /\ conn'[d] = conn[d]
    BY <1>2, <1>7, Self DEF Only, WalInv, WalShape
  <2>w. Writing(d)' <=> Writing(d)
    BY <2>0 DEF Writing
  <2>1. LocksHeld(d)'
    BY <1>1, <2>0, <2>w DEF LocksHeld, Checkpointing
  <2>2. SeenHeader(d)'
    BY <1>1, <2>0 DEF SeenHeader
  <2>3. HeaderGrows(d)'
    <3>1. \A e \in Conns : conn'[e].hdr = conn[e].hdr
      BY <1>2 DEF Only, KeepsCopy, WalInv, WalShape
    <3> QED
      BY <1>1, <2>0, <2>w, <3>1 DEF HeaderGrows
  <2>4. AllBackfilled(d)'
    <3>1. ~(ReadsDatabase(d) /\ conn[d].hdr = hdr)
      BY <1>0, <1>3, <2>0 DEF AllBackfilled, Header
    <3> QED
      BY <1>1, <2>0, <3>1 DEF AllBackfilled, ReadsDatabase
  <2>5. StillToCopy(d)'
    BY <1>3, <1>7, <2>0 DEF StillToCopy, LocksHeld, Checkpointing
  <2> QED
    BY <2>1, <2>2, <2>3, <2>4, <2>5 DEF Own
<1> QED
  BY <1>4, <1>5, <1>6, <1>7 DEF WalInv, Own

(* A crash leaves every connection at rest, and what was drawn drawn.        *)
LEMMA Rested ==
  ASSUME salts' \in Nat, hdr' = NoHdr, nBackfill' = 0, mark' = [i \in Marks |-> 0],
         conn' = [c \in Conns |-> Resting], DrawnFile(file)', DrawnFile(disk)'
  PROVE  WalInv'
<1>1. NoHdr \in Header /\ NoHdr.salt = 0 /\ NoHdr.mx = 0 /\ ~NoHdr.init
  BY DEF NoHdr, Header
<1>2. /\ Resting = [x \in Fields |-> Resting[x]] /\ Resting.hdr = NoHdr
      /\ Resting.n = 0 /\ Resting.safe = 0 /\ Resting.pc = "idle"
  BY DEF Resting, Fields
<1>3. Resting.useWal = FALSE
  BY DEF Resting
<1> HIDE DEF Resting, NoHdr
<1>4. WalShape'
  <2>1. Drawn(hdr)'
    BY <1>1 DEF Drawn
  <2>2. ASSUME NEW c \in Conns
        PROVE  /\ conn'[c] = [x \in Fields |-> conn'[c][x]]
               /\ Drawn(conn[c].hdr)' /\ conn'[c].n \in Nat /\ conn'[c].safe \in Nat
               /\ conn'[c].useWal \in BOOLEAN
    <3>1. conn'[c] = Resting
      OBVIOUS
    <3>2. Drawn(conn[c].hdr)'
      BY <1>1, <1>2, <3>1 DEF Drawn
    <3>3. conn'[c].useWal \in BOOLEAN
      BY <1>3, <3>1
    <3> QED
      BY <1>2, <3>1, <3>2, <3>3
  <2>3. conn' = [c \in Conns |-> conn'[c]] /\ mark' \in [Marks -> Nat]
    OBVIOUS
  <2> QED
    BY <2>1, <2>2, <2>3 DEF WalShape
<1>5. BackfillBound'
  BY <1>1 DEF BackfillBound
<1>6. ASSUME NEW c \in Conns PROVE Own(c)'
  <2>1. conn'[c].pc = "idle" /\ conn'[c].hdr = NoHdr /\ ~conn'[c].useWal
    BY <1>2, <1>3
  <2>2. ~Writing(c)'
    BY <2>1 DEF Writing
  <2> QED
    BY <1>1, <2>1, <2>2 DEF Own, LocksHeld, Checkpointing, SeenHeader, HeaderGrows, AllBackfilled,
                            ReadsDatabase, StillToCopy
<1> QED
  BY <1>4, <1>5, <1>6 DEF WalInv, Own

LEMMA CrashSteps == ASSUME WalInv, Crash \/ PowerLoss PROVE WalInv'
<1>0. DrawnFile(file) /\ DrawnFile(disk) /\ salts \in Nat
  BY DEF WalInv, WalShape
<1>1. /\ hdr' = NoHdr /\ nBackfill' = 0 /\ mark' = [i \in Marks |-> 0]
      /\ conn' = [c \in Conns |-> Resting] /\ salts' = salts
  BY DEF Crash, PowerLoss, Die
<1>2. DrawnFile(file)' /\ DrawnFile(disk)'
  <2>1. CASE Crash
    BY <1>0, <1>1, <2>1 DEF Crash, files, DrawnFile
  <2>2. CASE PowerLoss
    <3>1. PICK f : file' = [disk EXCEPT !.frame = f] /\ disk' = file'
      BY <2>2 DEF PowerLoss
    <3> QED
      BY <1>0, <1>1, <3>1 DEF DrawnFile, FileFields
  <2> QED
    BY <2>1, <2>2
<1> QED
  BY <1>0, <1>1, <1>2, Rested

-----------------------------------------------------------------------------
LEMMA StepKeeps ==
  ASSUME WalInv, ~IdleCheckpoints, NEW c \in Conns, Step(c) PROVE WalInv'
<1>1. CASE ReadHdr(c) \/ Recover(c) \/ EndRead(c) \/ BeginWrite(c)
  BY <1>1, ReadHdrStep, RecoverStep, EndReadStep, BeginWriteStep
<1>2. CASE Lock0(c) \/ Check0(c) \/ Pick(c) \/ Raise(c) \/ Share(c) \/ ReadMin(c)
  BY <1>2, LookingSteps
<1>3. CASE Check(c)
  BY <1>3, LookingSteps, CheckStep
<1>4. CASE \/ \E p \in Pages : WriteFrames(c, {p}, FALSE)
           \/ \E S \in (SUBSET Pages) \ {{}} : WriteFrames(c, S, TRUE)
  BY <1>4, WriteFramesStep, ResetStep
<1>5. CASE Restart(c) \/ Rejoin(c) \/ WriteHeader(c) \/ WriteFrame(c) \/ RewriteChecksums(c)
  BY <1>5, RestartStep, RejoinStep, WriteHeaderStep, WriteFrameStep, RewriteChecksumsStep
<1>6. CASE FinishFrames(c)
  BY <1>6, SpillStep, CommitStep
<1>7. CASE EndWrite(c) \/ Undo(c)
  BY <1>7, EndWriteStep, UndoStep
<1>8. CASE BeginCheckpoint(c) \/ StartCheckpoint(c) \/ TestMark(c) \/ StartBackfill(c)
  BY <1>8, BeginCheckpointStep, StartCheckpointStep, TestMarkStep, StartBackfillStep
<1>9. CASE CopyPage(c) \/ Backfilled(c) \/ EndCheckpoint(c)
  BY <1>9, CopyPageStep, BackfilledStep, EndCheckpointStep
<1> QED
  BY <1>1, <1>2, <1>3, <1>4, <1>5, <1>6, <1>7, <1>8, <1>9 DEF Step

LEMMA AtFirst == ASSUME Init PROVE WalInv
<1>1. NoHdr \in Header /\ NoHdr.salt = 0 /\ NoHdr.mx = 0 /\ ~NoHdr.init
  BY DEF NoHdr, Header
<1>2. /\ Resting = [x \in Fields |-> Resting[x]] /\ Resting.hdr = NoHdr
      /\ Resting.n = 0 /\ Resting.safe = 0 /\ Resting.pc = "idle"
  BY DEF Resting, Fields
<1>3. Resting.useWal = FALSE
  BY DEF Resting
<1>4. /\ hdr = NoHdr /\ nBackfill = 0 /\ salts = 0 /\ mark = [i \in Marks |-> 0]
      /\ conn = [c \in Conns |-> Resting]
  BY DEF Init
<1>5. DrawnFile(file) /\ DrawnFile(disk)
  BY <1>4 DEF Init, DrawnFile, FileFields, NoFile
<1> HIDE DEF Resting, NoHdr
<1>6. WalShape
  <2>1. ASSUME NEW c \in Conns
        PROVE  /\ conn[c] = [x \in Fields |-> conn[c][x]]
               /\ Drawn(conn[c].hdr) /\ conn[c].n \in Nat /\ conn[c].safe \in Nat
               /\ conn[c].useWal \in BOOLEAN
    <3>1. conn[c] = Resting
      BY <1>4
    <3>2. Drawn(conn[c].hdr)
      BY <1>1, <1>2, <1>4, <3>1 DEF Drawn
    <3>3. conn[c].useWal \in BOOLEAN
      BY <1>3, <3>1
    <3> QED
      BY <1>2, <3>1, <3>2, <3>3
  <2>2. conn = [c \in Conns |-> conn[c]] /\ mark \in [Marks -> Nat]
    BY <1>4
  <2>3. Drawn(hdr)
    BY <1>1, <1>4 DEF Drawn
  <2> QED
    BY <1>4, <1>5, <2>1, <2>2, <2>3 DEF WalShape
<1>7. BackfillBound
  BY <1>1, <1>4 DEF BackfillBound
<1>8. ASSUME NEW c \in Conns PROVE Own(c)
  <2>1. conn[c].pc = "idle" /\ conn[c].hdr = NoHdr /\ ~conn[c].useWal
    BY <1>2, <1>3, <1>4
  <2>2. ~Writing(c)
    BY <2>1 DEF Writing
  <2> QED
    BY <1>1, <1>4, <2>1, <2>2 DEF Own, LocksHeld, Checkpointing, SeenHeader, HeaderGrows,
                            AllBackfilled, ReadsDatabase, StillToCopy
<1> QED
  BY <1>6, <1>7, <1>8 DEF WalInv, Own

LEMMA WalInvKept == ASSUME WalInv, ~IdleCheckpoints, [Next]_vars PROVE WalInv'
<1>1. CASE \E c \in Conns : Step(c)
  BY <1>1, StepKeeps
<1>2. CASE Crash \/ PowerLoss
  BY <1>2, CrashSteps
<1>3. CASE UNCHANGED vars
  BY <1>3 DEF vars, index, locks, files, counts, WalInv, WalShape, BackfillBound, Drawn, DrawnFile,
              LocksHeld, Writing, Checkpointing, SeenHeader, HeaderGrows, AllBackfilled,
              ReadsDatabase, StillToCopy
<1> QED
  BY <1>1, <1>2, <1>3 DEF Next

(* Whatever transactions, checkpoints, resets, recoveries and losses of power *)
(* come between, the frames counted as backfilled are never more than the log *)
(* has (sqlite3WalCheckpoint against walRestartHdr and walIndexWriteHdr), as  *)
(* long as no checkpoint begins when all is backfilled.                      *)
THEOREM BackfillNeverBeyond ==
  ASSUME ~IdleCheckpoints PROVE Spec => []BackfillBound
<1>1. WalInv => BackfillBound
  BY DEF WalInv
<1> QED
  BY AtFirst, WalInvKept, <1>1, PTL DEF Spec

(* The log beside the history of its commits takes no step the log does not   *)
(* take: what holds of Spec holds of what the run checks.                    *)
THEOREM HistoryAddsNothing == StoreSpec => Spec
<1>1. StoreInit => Init
  BY DEF StoreInit
<1>2. [StoreNext]_<<vars, history>> => [Next]_vars
  BY DEF StoreNext, Next
<1> QED
  BY <1>1, <1>2, PTL DEF StoreSpec, Spec

-----------------------------------------------------------------------------
(* The inductive invariant: who shares which read lock, how far a reader may  *)
(* look, and that the pages it finds are those of the history.               *)

FrameFields == {"salt", "pg", "val", "commit", "sum"}
Framed(f) ==
  /\ f = [i \in Frames |-> f[i]]
  /\ \A i \in Frames : f[i] = [x \in FrameFields |-> f[i][x]] /\ f[i].pg \in 0 .. NPages

Contents ==
  /\ idx \in [Frames -> 0 .. NPages] /\ hdr.mx <= MaxFrame
  /\ Framed(file.frame) /\ Framed(disk.frame)
  /\ db = [p \in Pages |-> db[p]] /\ dbDisk = [p \in Pages |-> dbDisk[p]]
  /\ store = [p \in Pages |-> store[p]] /\ snap = [c \in Conns |-> snap[c]]
  /\ shared \in [ReadLocks -> SUBSET Conns] /\ excl \in SUBSET ReadLocks

Typed(c) ==
  /\ conn[c].hdr.mx <= MaxFrame /\ conn[c].slot \in ReadLocks
  /\ conn[c].seen \in Nat /\ conn[c].min \in Nat \ {0}
  /\ conn[c].list \in SUBSET Pages /\ conn[c].commit \in BOOLEAN /\ conn[c].n <= MaxFrame
  /\ conn[c].changed \in BOOLEAN /\ conn[c].i \in Nat
  /\ conn[c].copy \in SUBSET (Pages \X Frames)

(* Where a connection has the read lock of its slot, and where it has no slot. *)
InSlot ==
  {"check0", "min", "check", "read", "write", "restart", "rejoin", "header", "frames", "done"}
NoSlot ==
  {"idle", "lock0", "check0", "restart", "rejoin", "ckpt", "marks", "copy", "endCkpt"}

Shares(c, i) == conn[c].pc \in InSlot /\ conn[c].slot = i

Owns(c) ==
  /\ conn[c].pc \in NoSlot => conn[c].slot = 0
  /\ conn[c].pc = "restart" => Marks \subseteq excl
  /\ conn[c].pc = "copy" => 0 \in excl

SlotsHeld ==
  /\ \A i \in ReadLocks : \A c \in Conns : c \in shared[i] <=> Shares(c, i)
  /\ \A i \in excl : shared[i] = {}
  /\ \A c \in Conns : Owns(c)

(* A reader of the log has min and mark below what a checkpoint may copy: the *)
(* end of its snapshot, or for a writer the end of the log.                  *)
ReadsLog(c) == conn[c].slot # 0 /\ conn[c].pc \in {"read", "write", "header", "frames", "done"}
Base(c) == IF Writing(c) THEN hdr.mx ELSE conn[c].hdr.mx

WithinMark(c) ==
  /\ conn[c].pc \in {"raise", "share", "min", "check"} => conn[c].seen <= conn[c].hdr.mx
  /\ conn[c].pc = "check" \/ ReadsLog(c) => conn[c].min <= nBackfill + 1
  /\ ReadsLog(c) => Base(c) <= hdr.mx /\ mark[conn[c].slot] <= Base(c)

(* What k may copy ends before the snapshot of c does.                       *)
Spares(k, c) ==
  ReadsLog(c) /\ (conn[k].pc = "copy" \/ (conn[k].pc = "marks" /\ conn[k].i > conn[c].slot))
    => conn[k].safe <= Base(c)

(* Frame i is the last of page p up to hi. The last frames f from lo to hi,   *)
(* over the database d, have the pages of s. The same for the whole log, of   *)
(* which the frames up to b are in the database.                             *)
IsLast(pg, p, i, hi) == pg[i] = p /\ \A j \in i + 1 .. hi : pg[j] # p
Gives(pg, lo, hi, f, d, s) ==
  \A p \in Pages :
    /\ \A i \in lo .. hi : IsLast(pg, p, i, hi) => f[i].val = s[p]
    /\ (\A i \in lo .. hi : pg[i] # p) => d[p] = s[p]
GivesAll(pg, b, hi, f, d, s) ==
  /\ Gives(pg, 1, hi, f, d, s)
  /\ \A p \in Pages, i \in 1 .. hi : IsLast(pg, p, i, hi) /\ i <= b => d[p] = s[p]

(* What a writer has written and not yet put into the index counts for it.   *)
Index(c) ==
  IF conn[c].pc = "frames"
  THEN [i \in Frames |-> IF i <= conn[c].hdr.mx THEN idx[i] ELSE file.frame[i].pg]
  ELSE idx
End(c) == IF conn[c].pc = "frames" THEN conn[c].n ELSE conn[c].hdr.mx

Rejoins(c) == conn[c].useWal \/ conn[c].pc \in {"restart", "rejoin"}

ReadsItsSnap(c) ==
  /\ ReadsLog(c) => /\ snap[c] = [p \in Pages |-> snap[c][p]]
                    /\ Gives(Index(c), conn[c].min, End(c), file.frame, db, snap[c])
  /\ conn[c].pc \in {"read", "write"} /\ conn[c].slot = 0 => snap[c] = db
  /\ Rejoins(c) => snap[c] = store /\ conn[c].hdr = hdr

(* The frames of the pages still to write fit into the log; they are not yet  *)
(* among those written; a commit has a frame of its own.                     *)
WritesOn(c) ==
  /\ Rejoins(c) => conn[c].hdr.mx + Cardinality(conn[c].list) <= MaxFrame
  /\ Rejoins(c) \/ conn[c].pc = "header" => conn[c].list # {}
  /\ conn[c].pc = "header" => conn[c].hdr.mx + Cardinality(New(c, conn[c].list)) <= MaxFrame
  /\ conn[c].pc = "frames" =>
       /\ conn[c].n + Cardinality(New(c, conn[c].list)) <= MaxFrame
       /\ \A q \in conn[c].list :
            \A i \in conn[c].hdr.mx + 1 .. conn[c].n : file.frame[i].pg # q
       /\ conn[c].list = {} /\ conn[c].commit => conn[c].hdr.mx < conn[c].n

(* The log over the database is the newest commit, and so is the database    *)
(* where the log is backfilled.                                              *)
Newest ==
  /\ ~hdr.init => store = Recovered(file, db)
  /\ hdr.init => GivesAll(idx, nBackfill, hdr.mx, file.frame, db, store)

(* What a checkpoint has still to copy, and that it has copied the rest.     *)
Copies(c) ==
  conn[c].pc = "copy" =>
    /\ \A x \in conn[c].copy :
         /\ nBackfill < x[2] /\ x[2] <= conn[c].safe
         /\ IsLast(idx, x[1], x[2], conn[c].hdr.mx)
    /\ \A p \in Pages, i \in nBackfill + 1 .. conn[c].safe :
         IsLast(idx, p, i, conn[c].hdr.mx) => <<p, i>> \in conn[c].copy \/ db[p] = file.frame[i].val

(* A page cache that would be kept is that of the newest commit.             *)
Caches(c) ==
  /\ conn[c].useWal \/ conn[c].pc \in InSlot \ {"check0", "min", "check"} => conn[c].cache = NoState
  /\ conn[c].cache # NoState /\ conn[c].hdr = hdr /\ ~(Checkpointing(c) /\ conn[c].changed)
       => conn[c].cache = store

Keeping(c) == WithinMark(c) /\ ReadsItsSnap(c) /\ WritesOn(c) /\ Copies(c) /\ Caches(c)

StoreInv ==
  /\ Contents /\ SlotsHeld /\ Newest
  /\ \A c \in Conns : Typed(c) /\ Keeping(c) /\ \A d \in Conns : Spares(c, d)

-----------------------------------------------------------------------------
(* Of the last frames of pages.                                              *)

LEMMA HasLast ==
  ASSUME NEW pg, NEW p, NEW lo \in Nat, NEW hi \in Nat, NEW k \in lo .. hi, pg[k] = p
  PROVE  \E i \in lo .. hi : k <= i /\ IsLast(pg, p, i, hi)
<1> DEFINE S == {i \in lo .. hi : pg[i] = p}
<1>1. S \in SUBSET (0 .. hi) /\ k \in S
  OBVIOUS
<1>2. MaxOf(S) \in S /\ \A y \in S : y <= MaxOf(S)
  BY <1>1, Greatest
<1>3. PICK m : m \in S /\ \A y \in S : y <= m
  BY <1>2
<1>4. m \in lo .. hi /\ pg[m] = p /\ k <= m
  BY <1>1, <1>3
<1>5. ASSUME NEW j \in m + 1 .. hi PROVE pg[j] # p
  BY <1>3, <1>4, <1>5
<1> QED
  BY <1>4, <1>5 DEF IsLast

LEMMA OneLast ==
  ASSUME NEW pg, NEW p, NEW i \in Nat, NEW j \in Nat, NEW hi \in Nat, i <= hi, j <= hi,
         IsLast(pg, p, i, hi), IsLast(pg, p, j, hi)
  PROVE  i = j
BY DEF IsLast

(* The log, read from a frame not beyond the first that is not backfilled, is *)
(* the newest commit; and so is the database when all is backfilled.         *)
LEMMA GivesFrom ==
  ASSUME NEW pg, NEW b \in Nat, NEW hi \in Nat, NEW f, NEW d, NEW s, GivesAll(pg, b, hi, f, d, s),
         NEW lo \in Nat \ {0}, lo <= b + 1
  PROVE  Gives(pg, lo, hi, f, d, s)
<1> SUFFICES ASSUME NEW p \in Pages
             PROVE  /\ \A i \in lo .. hi : IsLast(pg, p, i, hi) => f[i].val = s[p]
                    /\ (\A i \in lo .. hi : pg[i] # p) => d[p] = s[p]
  BY DEF Gives
<1>1. \A i \in lo .. hi : IsLast(pg, p, i, hi) => f[i].val = s[p]
  <2>1. \A i \in lo .. hi : i \in 1 .. hi
    OBVIOUS
  <2> QED
    BY <2>1 DEF GivesAll, Gives
<1>2. ASSUME \A i \in lo .. hi : pg[i] # p PROVE d[p] = s[p]
  <2>1. CASE \A i \in 1 .. hi : pg[i] # p
    BY <2>1 DEF GivesAll, Gives
  <2>2. CASE \E i \in 1 .. hi : pg[i] = p
    <3>1. PICK k \in 1 .. hi : pg[k] = p
      BY <2>2
    <3>2. PICK i \in 1 .. hi : k <= i /\ IsLast(pg, p, i, hi)
      BY <3>1, HasLast
    <3>3. pg[i] = p
      BY <3>2 DEF IsLast
    <3>4. i <= b
      BY <1>2, <3>3
    <3> QED
      BY <3>2, <3>4 DEF GivesAll
  <2> QED
    BY <2>1, <2>2
<1> QED
  BY <1>1, <1>2

LEMMA AllCopied ==
  ASSUME NEW pg, NEW b \in Nat, NEW hi \in Nat, NEW f, NEW d, NEW s, GivesAll(pg, b, hi, f, d, s),
         hi <= b, d = [p \in Pages |-> d[p]], s = [p \in Pages |-> s[p]]
  PROVE  d = s
<1>1. Gives(pg, hi + 1, hi, f, d, s)
  BY GivesFrom
<1>2. ASSUME NEW p \in Pages PROVE d[p] = s[p]
  <2>1. \A i \in hi + 1 .. hi : pg[i] # p
    OBVIOUS
  <2> QED
    BY <1>1, <2>1 DEF Gives
<1> QED
  BY <1>2

(* What is given depends on the frames from lo to hi alone.                  *)
LEMMA GivesSame ==
  ASSUME NEW pg, NEW pg2, NEW lo \in Nat, NEW hi \in Nat, NEW f, NEW f2, NEW d, NEW s,
         \A i \in lo .. hi : pg2[i] = pg[i] /\ f2[i].val = f[i].val,
         Gives(pg, lo, hi, f, d, s)
  PROVE  Gives(pg2, lo, hi, f2, d, s)
<1>1. ASSUME NEW p, NEW i \in lo .. hi, IsLast(pg2, p, i, hi) PROVE IsLast(pg, p, i, hi)
  <2>1. \A j \in i + 1 .. hi : j \in lo .. hi
    OBVIOUS
  <2> QED
    BY <1>1, <2>1 DEF IsLast
<1>2. ASSUME NEW p \in Pages
      PROVE  /\ \A i \in lo .. hi : IsLast(pg2, p, i, hi) => f2[i].val = s[p]
             /\ (\A i \in lo .. hi : pg2[i] # p) => d[p] = s[p]
  <2>1. \A i \in lo .. hi : IsLast(pg2, p, i, hi) => f2[i].val = s[p]
    BY <1>1 DEF Gives
  <2>2. (\A i \in lo .. hi : pg2[i] # p) => d[p] = s[p]
    BY DEF Gives
  <2> QED
    BY <2>1, <2>2
<1> QED
  BY <1>2 DEF Gives

LEMMA GivesAllSame ==
  ASSUME NEW pg, NEW pg2, NEW b \in Nat, NEW hi \in Nat, NEW f, NEW f2, NEW d, NEW s,
         \A i \in 1 .. hi : pg2[i] = pg[i] /\ f2[i].val = f[i].val,
         GivesAll(pg, b, hi, f, d, s)
  PROVE  GivesAll(pg2, b, hi, f2, d, s)
<1>1. Gives(pg2, 1, hi, f2, d, s)
  BY GivesSame DEF GivesAll
<1>2. ASSUME NEW p \in Pages, NEW i \in 1 .. hi, IsLast(pg2, p, i, hi) PROVE IsLast(pg, p, i, hi)
  <2>1. \A j \in i + 1 .. hi : j \in 1 .. hi
    OBVIOUS
  <2> QED
    BY <1>2, <2>1 DEF IsLast
<1> QED
  BY <1>1, <1>2 DEF GivesAll

-----------------------------------------------------------------------------
(* Of FindFrame and PageAt.                                                  *)

LEMMA Finding ==
  ASSUME NEW p, NEW lo \in Nat \ {0}, NEW hi \in Nat
  PROVE  \/ FindFrame(p, lo, hi) = 0 /\ \A i \in lo .. hi : idx[i] # p
         \/ FindFrame(p, lo, hi) \in lo .. hi /\ IsLast(idx, p, FindFrame(p, lo, hi), hi)
<1> DEFINE T == {i \in lo .. hi : idx[i] = p}
           S == {0} \cup T
<1>1. S \in SUBSET (0 .. hi) /\ S # {}
  OBVIOUS
<1>2. MaxOf(S) \in S /\ \A y \in S : y <= MaxOf(S)
  BY <1>1, Greatest
<1>3. FindFrame(p, lo, hi) = MaxOf(S)
  BY DEF FindFrame
<1>4. PICK m : m = MaxOf(S)
  OBVIOUS
<1>5. m \in S /\ \A y \in S : y <= m
  BY <1>2, <1>4
<1>6. CASE m = 0
  <2>1. \A i \in lo .. hi : ~(i <= 0)
    OBVIOUS
  <2> QED
    BY <1>3, <1>4, <1>5, <1>6, <2>1
<1>7. CASE m # 0
  <2>1. m \in lo .. hi /\ idx[m] = p
    BY <1>5, <1>7
  <2>2. ASSUME NEW j \in m + 1 .. hi PROVE idx[j] # p
    BY <1>5, <2>1, <2>2
  <2> QED
    BY <1>3, <1>4, <2>1, <2>2 DEF IsLast
<1> QED
  BY <1>6, <1>7

LEMMA FoundLast ==
  ASSUME NEW p, NEW lo \in Nat \ {0}, NEW hi \in Nat, NEW i \in lo .. hi, IsLast(idx, p, i, hi)
  PROVE  FindFrame(p, lo, hi) = i
<1>1. idx[i] = p
  BY DEF IsLast
<1>2. FindFrame(p, lo, hi) \in lo .. hi /\ IsLast(idx, p, FindFrame(p, lo, hi), hi)
  BY <1>1, Finding
<1> QED
  BY <1>2, OneLast

LEMMA PagesGiven ==
  ASSUME NEW lo \in Nat \ {0}, NEW hi \in Nat, NEW s, Gives(idx, lo, hi, file.frame, db, s),
         s = [p \in Pages |-> s[p]]
  PROVE  [p \in Pages |-> PageAt(p, lo, hi)] = s
<1>1. ASSUME NEW p \in Pages PROVE PageAt(p, lo, hi) = s[p]
  <2>1. CASE FindFrame(p, lo, hi) = 0 /\ \A i \in lo .. hi : idx[i] # p
    BY <2>1 DEF PageAt, Gives
  <2>2. CASE FindFrame(p, lo, hi) \in lo .. hi /\ IsLast(idx, p, FindFrame(p, lo, hi), hi)
    BY <2>2 DEF PageAt, Gives
  <2> QED
    BY <2>1, <2>2, Finding
<1> QED
  BY <1>1

-----------------------------------------------------------------------------
(* What the steps of c do to its record.                                     *)

SameLook(c) ==
  /\ conn'[c].slot = conn[c].slot /\ conn'[c].seen = conn[c].seen
  /\ conn'[c].min = conn[c].min /\ conn'[c].useWal = conn[c].useWal
SameWork(c) ==
  conn'[c].list = conn[c].list /\ conn'[c].commit = conn[c].commit /\ conn'[c].n = conn[c].n
SameCkpt(c) ==
  /\ conn'[c].changed = conn[c].changed /\ conn'[c].safe = conn[c].safe
  /\ conn'[c].i = conn[c].i /\ conn'[c].copy = conn[c].copy
SameCopy(c) == conn'[c].hdr = conn[c].hdr /\ conn'[c].cache = conn[c].cache
SameTxn(c) == conn'[c].txn = conn[c].txn /\ conn'[c].reck = conn[c].reck
SameButPlace(c) == SameLook(c) /\ SameWork(c) /\ SameCkpt(c) /\ SameCopy(c)

LEMMA Sole ==
  ASSUME WalInv, NEW c \in Conns, NEW r, r = [x \in Fields |-> r[x]],
         conn' = [conn EXCEPT ![c] = r]
  PROVE  Only(c) /\ conn'[c] = r
<1>1. conn = [d \in Conns |-> conn[d]]
  BY Shape
<1>2. conn'[c] = r
  BY <1>1
<1> QED
  BY <1>2 DEF Only

LEMMA OthersSame ==
  ASSUME WalInv, NEW c \in Conns, Only(c), NEW d \in Conns, d # c
  PROVE  conn'[d] = conn[d]
BY DEF Only, WalInv, WalShape

GoesTo(c, v) == conn' = [conn EXCEPT ![c].pc = v]

LEMMA ToPlace ==
  ASSUME WalInv, NEW c \in Conns, NEW v, GoesTo(c, v)
  PROVE  Only(c) /\ conn'[c].pc = v /\ SameButPlace(c) /\ SameTxn(c)
<1> DEFINE r == [conn[c] EXCEPT !.pc = v]
<1>1. conn[c] = [x \in Fields |-> conn[c][x]]
  BY Shape
<1>2. r = [x \in Fields |-> r[x]]
  BY <1>1, Zenon DEF Fields
<1>3. conn' = [conn EXCEPT ![c] = r]
  BY DEF GoesTo
<1>4. Only(c) /\ conn'[c] = r
  BY <1>2, <1>3, Sole
<1>5. conn'[c].pc = v /\ SameLook(c) /\ SameWork(c)
  BY <1>1, <1>4, Zenon DEF Fields, SameLook, SameWork
<1>6. SameCkpt(c) /\ SameCopy(c)
  BY <1>1, <1>4, Zenon DEF Fields, SameCkpt, SameCopy
<1>t. SameTxn(c)
  BY <1>1, <1>4, Zenon DEF Fields, SameTxn
<1> QED
  BY <1>t, <1>4, <1>5, <1>6 DEF SameButPlace

LEMMA GivesUp ==
  ASSUME WalInv, NEW c \in Conns, conn' = Abandoned(c)
  PROVE  /\ Only(c) /\ conn'[c].pc = IF conn[c].useWal THEN "pick" ELSE "idle"
         /\ conn'[c].slot = 0 /\ conn'[c].seen = 0 /\ conn'[c].min = 1
         /\ conn'[c].useWal = conn[c].useWal /\ SameWork(c) /\ SameCkpt(c) /\ SameCopy(c)
         /\ SameTxn(c)
<1> DEFINE pc == IF conn[c].useWal THEN "pick" ELSE "idle"
           r == [conn[c] EXCEPT !.pc = pc, !.slot = 0, !.seen = 0, !.min = 1]
<1>1. conn[c] = [x \in Fields |-> conn[c][x]]
  BY Shape
<1>2. conn' = [conn EXCEPT ![c].pc = pc, ![c].slot = 0, ![c].seen = 0, ![c].min = 1]
  BY DEF Abandoned
<1>p. pc = IF conn[c].useWal THEN "pick" ELSE "idle"
  OBVIOUS
<1> HIDE DEF pc
<1>3. r = [x \in Fields |-> r[x]]
  BY <1>1, Zenon DEF Fields
<1>4. conn' = [conn EXCEPT ![c] = r]
  BY <1>2, Shape
<1>5. Only(c) /\ conn'[c] = r
  BY <1>3, <1>4, Sole
<1>6. /\ conn'[c].pc = pc /\ conn'[c].slot = 0 /\ conn'[c].seen = 0 /\ conn'[c].min = 1
      /\ conn'[c].useWal = conn[c].useWal
  BY <1>1, <1>5, Zenon DEF Fields
<1>7. SameWork(c) /\ SameCkpt(c) /\ SameCopy(c)
  BY <1>1, <1>5, Zenon DEF Fields, SameWork, SameCkpt, SameCopy
<1>t. SameTxn(c)
  BY <1>1, <1>5, Zenon DEF Fields, SameTxn
<1> QED
  BY <1>t, <1>p, <1>5, <1>6, <1>7

LEMMA ReadHdrSets ==
  ASSUME WalInv, NEW c \in Conns, ReadHdr(c)
  PROVE  /\ Only(c)
         /\ conn'[c].pc = IF nBackfill = hdr.mx THEN "lock0" ELSE "pick"
         /\ conn'[c].hdr = hdr
         /\ conn'[c].cache = IF hdr = conn[c].hdr THEN conn[c].cache ELSE NoState
         /\ SameLook(c)
         /\ SameWork(c)
         /\ SameCkpt(c)
         /\ SameTxn(c)
<1> DEFINE vpc == IF nBackfill = hdr.mx THEN "lock0" ELSE "pick"
           vcache == IF hdr = conn[c].hdr THEN conn[c].cache ELSE NoState
           r == [conn[c] EXCEPT !.pc = vpc, !.hdr = hdr, !.cache = vcache]
<1>1. conn[c] = [x \in Fields |-> conn[c][x]]
  BY Shape
<1>2. conn' = [conn EXCEPT ![c].pc = vpc, ![c].hdr = hdr, ![c].cache = vcache]
  BY DEF ReadHdr
<1>v. /\ vpc = IF nBackfill = hdr.mx THEN "lock0" ELSE "pick"
      /\ vcache = IF hdr = conn[c].hdr THEN conn[c].cache ELSE NoState
  OBVIOUS
<1> HIDE DEF vpc, vcache
<1>3. r = [x \in Fields |-> r[x]]
  BY <1>1, Zenon DEF Fields
<1>4. conn' = [conn EXCEPT ![c] = r]
  BY <1>2, Shape
<1>5. Only(c) /\ conn'[c] = r
  BY <1>3, <1>4, Sole
<1>6. conn'[c].pc = vpc /\ conn'[c].hdr = hdr /\ conn'[c].cache = vcache
  BY <1>1, <1>5, Zenon DEF Fields
<1>7. SameLook(c) /\ SameWork(c) /\ SameCkpt(c)
  BY <1>1, <1>5, Zenon DEF Fields, SameLook, SameWork, SameCkpt
<1>t. SameTxn(c)
  BY <1>1, <1>5, Zenon DEF Fields, SameTxn
<1> QED
  BY <1>t, <1>v, <1>5, <1>6, <1>7

LEMMA Check0Sets ==
  ASSUME WalInv, NEW c \in Conns, Check0(c), hdr = conn[c].hdr
  PROVE  /\ Only(c)
         /\ conn'[c].pc = "read"
         /\ conn'[c].cache = NoState
         /\ conn'[c].hdr = conn[c].hdr
         /\ SameLook(c)
         /\ SameWork(c)
         /\ SameCkpt(c)
         /\ SameTxn(c)
<1> DEFINE r == [conn[c] EXCEPT !.pc = "read", !.cache = NoState]
<1>1. conn[c] = [x \in Fields |-> conn[c][x]]
  BY Shape
<1>2. conn' = [conn EXCEPT ![c].pc = "read", ![c].cache = NoState]
  BY DEF Check0
<1>3. r = [x \in Fields |-> r[x]]
  BY <1>1, Zenon DEF Fields
<1>4. conn' = [conn EXCEPT ![c] = r]
  BY <1>2, Shape
<1>5. Only(c) /\ conn'[c] = r
  BY <1>3, <1>4, Sole
<1>6. conn'[c].pc = "read" /\ conn'[c].cache = NoState /\ conn'[c].hdr = conn[c].hdr
  BY <1>1, <1>5, Zenon DEF Fields
<1>7. SameLook(c) /\ SameWork(c) /\ SameCkpt(c)
  BY <1>1, <1>5, Zenon DEF Fields, SameLook, SameWork, SameCkpt
<1>t. SameTxn(c)
  BY <1>1, <1>5, Zenon DEF Fields, SameTxn
<1> QED
  BY <1>t, <1>5, <1>6, <1>7

LEMMA ReadMinSets ==
  ASSUME WalInv, NEW c \in Conns, ReadMin(c)
  PROVE  /\ Only(c)
         /\ conn'[c].min = nBackfill + 1
         /\ conn'[c].pc = "check"
         /\ conn'[c].slot = conn[c].slot
         /\ conn'[c].seen = conn[c].seen
         /\ conn'[c].useWal = conn[c].useWal
         /\ SameWork(c)
         /\ SameCkpt(c)
         /\ SameCopy(c)
         /\ SameTxn(c)
<1> DEFINE r == [conn[c] EXCEPT !.min = nBackfill + 1, !.pc = "check"]
<1>1. conn[c] = [x \in Fields |-> conn[c][x]]
  BY Shape
<1>2. conn' = [conn EXCEPT ![c].min = nBackfill + 1, ![c].pc = "check"]
  BY DEF ReadMin
<1>3. r = [x \in Fields |-> r[x]]
  BY <1>1, Zenon DEF Fields
<1>4. conn' = [conn EXCEPT ![c] = r]
  BY <1>2, Shape
<1>5. Only(c) /\ conn'[c] = r
  BY <1>3, <1>4, Sole
<1>6. conn'[c].min = nBackfill + 1 /\ conn'[c].pc = "check" /\ conn'[c].slot = conn[c].slot /\ conn'[c].seen = conn[c].seen
  BY <1>1, <1>5, Zenon DEF Fields
<1>7. conn'[c].useWal = conn[c].useWal
  BY <1>1, <1>5, Zenon DEF Fields
<1>8. SameWork(c) /\ SameCkpt(c) /\ SameCopy(c)
  BY <1>1, <1>5, Zenon DEF Fields, SameWork, SameCkpt, SameCopy
<1>t. SameTxn(c)
  BY <1>1, <1>5, Zenon DEF Fields, SameTxn
<1> QED
  BY <1>t, <1>5, <1>6, <1>7, <1>8

LEMMA CheckSets ==
  ASSUME WalInv, NEW c \in Conns, Check(c), SameIndex(c)
  PROVE  /\ Only(c)
         /\ conn'[c].pc = IF conn[c].useWal THEN "header" ELSE "read"
         /\ conn'[c].useWal = FALSE
         /\ conn'[c].seen = 0
         /\ conn'[c].cache = NoState
         /\ conn'[c].slot = conn[c].slot
         /\ conn'[c].min = conn[c].min
         /\ conn'[c].hdr = conn[c].hdr
         /\ SameWork(c)
         /\ SameCkpt(c)
         /\ SameTxn(c)
<1> DEFINE vpc == IF conn[c].useWal THEN "header" ELSE "read"
           r == [conn[c] EXCEPT !.pc = vpc, !.useWal = FALSE, !.seen = 0, !.cache = NoState]
<1>1. conn[c] = [x \in Fields |-> conn[c][x]]
  BY Shape
<1>2. conn' = [conn EXCEPT ![c].pc = vpc, ![c].useWal = FALSE, ![c].seen = 0, ![c].cache = NoState]
  BY DEF Check
<1>v. vpc = IF conn[c].useWal THEN "header" ELSE "read"
  OBVIOUS
<1> HIDE DEF vpc
<1>3. r = [x \in Fields |-> r[x]]
  BY <1>1, Zenon DEF Fields
<1>4. conn' = [conn EXCEPT ![c] = r]
  BY <1>2, Shape
<1>5. Only(c) /\ conn'[c] = r
  BY <1>3, <1>4, Sole
<1>6. conn'[c].pc = vpc /\ conn'[c].useWal = FALSE /\ conn'[c].seen = 0 /\ conn'[c].cache = NoState
  BY <1>1, <1>5, Zenon DEF Fields
<1>7. conn'[c].slot = conn[c].slot /\ conn'[c].min = conn[c].min /\ conn'[c].hdr = conn[c].hdr
  BY <1>1, <1>5, Zenon DEF Fields
<1>8. SameWork(c) /\ SameCkpt(c)
  BY <1>1, <1>5, Zenon DEF Fields, SameWork, SameCkpt
<1>t. SameTxn(c)
  BY <1>1, <1>5, Zenon DEF Fields, SameTxn
<1> QED
  BY <1>t, <1>v, <1>5, <1>6, <1>7, <1>8

LEMMA BeginWriteSets ==
  ASSUME WalInv, NEW c \in Conns, BeginWrite(c)
  PROVE  /\ Only(c)
         /\ conn'[c].pc = "write"
         /\ SameLook(c)
         /\ SameWork(c)
         /\ SameCkpt(c)
         /\ SameCopy(c)
         /\ conn'[c].txn = txns + 1 /\ conn'[c].reck = conn[c].reck
<1> DEFINE r == [conn[c] EXCEPT !.pc = "write", !.txn = txns + 1]
<1>1. conn[c] = [x \in Fields |-> conn[c][x]]
  BY Shape
<1>2. conn' = [conn EXCEPT ![c].pc = "write", ![c].txn = txns + 1]
  BY DEF BeginWrite
<1>3. r = [x \in Fields |-> r[x]]
  BY <1>1, Zenon DEF Fields
<1>4. conn' = [conn EXCEPT ![c] = r]
  BY <1>2, Shape
<1>5. Only(c) /\ conn'[c] = r
  BY <1>3, <1>4, Sole
<1>6. conn'[c].pc = "write"
  BY <1>1, <1>5, Zenon DEF Fields
<1>7. SameLook(c) /\ SameWork(c) /\ SameCkpt(c) /\ SameCopy(c)
  BY <1>1, <1>5, Zenon DEF Fields, SameLook, SameWork, SameCkpt, SameCopy
<1>t. conn'[c].txn = txns + 1 /\ conn'[c].reck = conn[c].reck
  BY <1>1, <1>5, Zenon DEF Fields
<1> QED
  BY <1>t, <1>5, <1>6, <1>7

LEMMA WriteFramesSets ==
  ASSUME WalInv, NEW c \in Conns, NEW S, NEW commit,
         WriteFrames(c, S, commit), ~CanRestart(c)
  PROVE  /\ Only(c)
         /\ conn'[c].list = S
         /\ conn'[c].commit = commit
         /\ conn'[c].pc = IF conn[c].slot = 0 THEN "rejoin" ELSE "header"
         /\ conn'[c].n = conn[c].n
         /\ SameLook(c)
         /\ SameCkpt(c)
         /\ SameCopy(c)
         /\ SameTxn(c)
<1> DEFINE vpc == IF conn[c].slot = 0 THEN "rejoin" ELSE "header"
           r == [conn[c] EXCEPT !.list = S, !.commit = commit, !.pc = vpc]
<1>1. conn[c] = [x \in Fields |-> conn[c][x]]
  BY Shape
<1>2. conn' = [conn EXCEPT ![c].list = S, ![c].commit = commit, ![c].pc = vpc]
  BY DEF WriteFrames
<1>v. vpc = IF conn[c].slot = 0 THEN "rejoin" ELSE "header"
  OBVIOUS
<1> HIDE DEF vpc
<1>3. r = [x \in Fields |-> r[x]]
  BY <1>1, Zenon DEF Fields
<1>4. conn' = [conn EXCEPT ![c] = r]
  BY <1>2, Shape
<1>5. Only(c) /\ conn'[c] = r
  BY <1>3, <1>4, Sole
<1>6. conn'[c].list = S /\ conn'[c].commit = commit /\ conn'[c].pc = vpc /\ conn'[c].n = conn[c].n
  BY <1>1, <1>5, Zenon DEF Fields
<1>7. SameLook(c) /\ SameCkpt(c) /\ SameCopy(c)
  BY <1>1, <1>5, Zenon DEF Fields, SameLook, SameCkpt, SameCopy
<1>t. SameTxn(c)
  BY <1>1, <1>5, Zenon DEF Fields, SameTxn
<1> QED
  BY <1>t, <1>v, <1>5, <1>6, <1>7

LEMMA ResetSets ==
  ASSUME WalInv, NEW c \in Conns, NEW S, NEW commit,
         WriteFrames(c, S, commit), CanRestart(c)
  PROVE  /\ Only(c)
         /\ conn'[c].hdr = hdr'
         /\ conn'[c].list = S
         /\ conn'[c].commit = commit
         /\ conn'[c].pc = "restart"
         /\ conn'[c].n = conn[c].n
         /\ conn'[c].cache = conn[c].cache
         /\ SameLook(c)
         /\ SameCkpt(c)
         /\ SameTxn(c)
<1> DEFINE vhdr == hdr'
           r == [conn[c] EXCEPT !.hdr = vhdr, !.nCkpt = conn[c].nCkpt + 1, !.list = S, !.commit = commit, !.pc = "restart"]
<1>1. conn[c] = [x \in Fields |-> conn[c][x]]
  BY Shape
<1>2. conn' = [conn EXCEPT ![c].hdr = vhdr, ![c].nCkpt = conn[c].nCkpt + 1, ![c].list = S, ![c].commit = commit, ![c].pc = "restart"]
  BY DEF WriteFrames
<1>v. vhdr = hdr'
  OBVIOUS
<1> HIDE DEF vhdr
<1>3. r = [x \in Fields |-> r[x]]
  BY <1>1, Zenon DEF Fields
<1>4. conn' = [conn EXCEPT ![c] = r]
  BY <1>2, Shape
<1>5. Only(c) /\ conn'[c] = r
  BY <1>3, <1>4, Sole
<1>6. conn'[c].hdr = vhdr /\ conn'[c].list = S /\ conn'[c].commit = commit /\ conn'[c].pc = "restart"
  BY <1>1, <1>5, Zenon DEF Fields
<1>7. conn'[c].n = conn[c].n /\ conn'[c].cache = conn[c].cache
  BY <1>1, <1>5, Zenon DEF Fields
<1>8. SameLook(c) /\ SameCkpt(c)
  BY <1>1, <1>5, Zenon DEF Fields, SameLook, SameCkpt
<1>t. SameTxn(c)
  BY <1>1, <1>5, Zenon DEF Fields, SameTxn
<1> QED
  BY <1>t, <1>v, <1>5, <1>6, <1>7, <1>8

LEMMA RejoinSets ==
  ASSUME WalInv, NEW c \in Conns, Rejoin(c)
  PROVE  /\ Only(c)
         /\ conn'[c].useWal = TRUE
         /\ conn'[c].pc = "pick"
         /\ conn'[c].slot = conn[c].slot
         /\ conn'[c].seen = conn[c].seen
         /\ conn'[c].min = conn[c].min
         /\ SameWork(c)
         /\ SameCkpt(c)
         /\ SameCopy(c)
         /\ SameTxn(c)
<1> DEFINE r == [conn[c] EXCEPT !.useWal = TRUE, !.pc = "pick"]
<1>1. conn[c] = [x \in Fields |-> conn[c][x]]
  BY Shape
<1>2. conn' = [conn EXCEPT ![c].useWal = TRUE, ![c].pc = "pick"]
  BY DEF Rejoin
<1>3. r = [x \in Fields |-> r[x]]
  BY <1>1, Zenon DEF Fields
<1>4. conn' = [conn EXCEPT ![c] = r]
  BY <1>2, Shape
<1>5. Only(c) /\ conn'[c] = r
  BY <1>3, <1>4, Sole
<1>6. conn'[c].useWal = TRUE /\ conn'[c].pc = "pick" /\ conn'[c].slot = conn[c].slot /\ conn'[c].seen = conn[c].seen
  BY <1>1, <1>5, Zenon DEF Fields
<1>7. conn'[c].min = conn[c].min
  BY <1>1, <1>5, Zenon DEF Fields
<1>8. SameWork(c) /\ SameCkpt(c) /\ SameCopy(c)
  BY <1>1, <1>5, Zenon DEF Fields, SameWork, SameCkpt, SameCopy
<1>t. SameTxn(c)
  BY <1>1, <1>5, Zenon DEF Fields, SameTxn
<1> QED
  BY <1>t, <1>5, <1>6, <1>7, <1>8

LEMMA RewriteSets ==
  ASSUME WalInv, NEW c \in Conns, RewriteChecksums(c)
  PROVE  /\ Only(c)
         /\ conn'[c].pc = conn[c].pc
         /\ SameLook(c)
         /\ SameWork(c)
         /\ SameCkpt(c)
         /\ SameCopy(c)
         /\ conn'[c].txn = conn[c].txn /\ conn'[c].reck = 0
<1> DEFINE r == [conn[c] EXCEPT !.reck = 0]
<1>1. conn[c] = [x \in Fields |-> conn[c][x]]
  BY Shape
<1>2. conn' = [conn EXCEPT ![c].reck = 0]
  BY DEF RewriteChecksums
<1>3. r = [x \in Fields |-> r[x]]
  BY <1>1, Zenon DEF Fields
<1>4. conn' = [conn EXCEPT ![c] = r]
  BY <1>2, Shape
<1>5. Only(c) /\ conn'[c] = r
  BY <1>3, <1>4, Sole
<1>6. conn'[c].pc = conn[c].pc
  BY <1>1, <1>5, Zenon DEF Fields
<1>7. SameLook(c) /\ SameWork(c) /\ SameCkpt(c) /\ SameCopy(c)
  BY <1>1, <1>5, Zenon DEF Fields, SameLook, SameWork, SameCkpt, SameCopy
<1>t. conn'[c].txn = conn[c].txn /\ conn'[c].reck = 0
  BY <1>1, <1>5, Zenon DEF Fields
<1> QED
  BY <1>t, <1>5, <1>6, <1>7

LEMMA EndWriteSets ==
  ASSUME WalInv, NEW c \in Conns, EndWrite(c)
  PROVE  /\ Only(c)
         /\ conn'[c].pc = "read"
         /\ SameLook(c)
         /\ SameWork(c)
         /\ SameCkpt(c)
         /\ SameCopy(c)
         /\ conn'[c].reck = conn[c].reck
<1> DEFINE r == [conn[c] EXCEPT !.pc = "read", !.txn = 0]
<1>1. conn[c] = [x \in Fields |-> conn[c][x]]
  BY Shape
<1>2. conn' = [conn EXCEPT ![c].pc = "read", ![c].txn = 0]
  BY DEF EndWrite
<1>3. r = [x \in Fields |-> r[x]]
  BY <1>1, Zenon DEF Fields
<1>4. conn' = [conn EXCEPT ![c] = r]
  BY <1>2, Shape
<1>5. Only(c) /\ conn'[c] = r
  BY <1>3, <1>4, Sole
<1>6. conn'[c].pc = "read"
  BY <1>1, <1>5, Zenon DEF Fields
<1>7. SameLook(c) /\ SameWork(c) /\ SameCkpt(c) /\ SameCopy(c)
  BY <1>1, <1>5, Zenon DEF Fields, SameLook, SameWork, SameCkpt, SameCopy
<1>t. conn'[c].reck = conn[c].reck
  BY <1>1, <1>5, Zenon DEF Fields
<1> QED
  BY <1>t, <1>5, <1>6, <1>7

LEMMA UndoSets ==
  ASSUME WalInv, NEW c \in Conns, Undo(c)
  PROVE  /\ Only(c)
         /\ conn'[c].hdr = hdr
         /\ conn'[c].pc = "read"
         /\ conn'[c].cache = conn[c].cache
         /\ SameLook(c)
         /\ SameWork(c)
         /\ SameCkpt(c)
         /\ conn'[c].reck = 0
<1> DEFINE r == [conn[c] EXCEPT !.hdr = hdr, !.reck = 0, !.txn = 0, !.pc = "read"]
<1>1. conn[c] = [x \in Fields |-> conn[c][x]]
  BY Shape
<1>2. conn' = [conn EXCEPT ![c].hdr = hdr, ![c].reck = 0, ![c].txn = 0, ![c].pc = "read"]
  BY DEF Undo
<1>3. r = [x \in Fields |-> r[x]]
  BY <1>1, Zenon DEF Fields
<1>4. conn' = [conn EXCEPT ![c] = r]
  BY <1>2, Shape
<1>5. Only(c) /\ conn'[c] = r
  BY <1>3, <1>4, Sole
<1>6. conn'[c].hdr = hdr /\ conn'[c].pc = "read" /\ conn'[c].cache = conn[c].cache
  BY <1>1, <1>5, Zenon DEF Fields
<1>7. SameLook(c) /\ SameWork(c) /\ SameCkpt(c)
  BY <1>1, <1>5, Zenon DEF Fields, SameLook, SameWork, SameCkpt
<1>t. conn'[c].reck = 0
  BY <1>1, <1>5, Zenon DEF Fields
<1> QED
  BY <1>t, <1>5, <1>6, <1>7

LEMMA BeginCheckpointSets ==
  ASSUME WalInv, NEW c \in Conns, BeginCheckpoint(c)
  PROVE  /\ Only(c)
         /\ conn'[c].pc = "ckpt"
         /\ conn'[c].hdr = hdr
         /\ conn'[c].changed = (hdr # conn[c].hdr)
         /\ conn'[c].safe = conn[c].safe
         /\ conn'[c].i = conn[c].i
         /\ conn'[c].copy = conn[c].copy
         /\ conn'[c].cache = conn[c].cache
         /\ SameLook(c)
         /\ SameWork(c)
         /\ SameTxn(c)
<1> DEFINE vchanged == (hdr # conn[c].hdr)
           r == [conn[c] EXCEPT !.pc = "ckpt", !.hdr = hdr, !.changed = vchanged]
<1>1. conn[c] = [x \in Fields |-> conn[c][x]]
  BY Shape
<1>2. conn' = [conn EXCEPT ![c].pc = "ckpt", ![c].hdr = hdr, ![c].changed = vchanged]
  BY DEF BeginCheckpoint
<1>v. vchanged = (hdr # conn[c].hdr)
  OBVIOUS
<1> HIDE DEF vchanged
<1>3. r = [x \in Fields |-> r[x]]
  BY <1>1, Zenon DEF Fields
<1>4. conn' = [conn EXCEPT ![c] = r]
  BY <1>2, Shape
<1>5. Only(c) /\ conn'[c] = r
  BY <1>3, <1>4, Sole
<1>6. conn'[c].pc = "ckpt" /\ conn'[c].hdr = hdr /\ conn'[c].changed = vchanged /\ conn'[c].safe = conn[c].safe
  BY <1>1, <1>5, Zenon DEF Fields
<1>7. conn'[c].i = conn[c].i /\ conn'[c].copy = conn[c].copy /\ conn'[c].cache = conn[c].cache
  BY <1>1, <1>5, Zenon DEF Fields
<1>8. SameLook(c) /\ SameWork(c)
  BY <1>1, <1>5, Zenon DEF Fields, SameLook, SameWork
<1>t. SameTxn(c)
  BY <1>1, <1>5, Zenon DEF Fields, SameTxn
<1> QED
  BY <1>t, <1>v, <1>5, <1>6, <1>7, <1>8

LEMMA StartCheckpointSets ==
  ASSUME WalInv, NEW c \in Conns, StartCheckpoint(c), nBackfill < conn[c].hdr.mx
  PROVE  /\ Only(c)
         /\ conn'[c].pc = "marks"
         /\ conn'[c].safe = conn[c].hdr.mx
         /\ conn'[c].i = 1
         /\ conn'[c].changed = conn[c].changed
         /\ conn'[c].copy = conn[c].copy
         /\ SameLook(c)
         /\ SameWork(c)
         /\ SameCopy(c)
         /\ SameTxn(c)
<1> DEFINE r == [conn[c] EXCEPT !.pc = "marks", !.safe = conn[c].hdr.mx, !.i = 1]
<1>1. conn[c] = [x \in Fields |-> conn[c][x]]
  BY Shape
<1>2. conn' = [conn EXCEPT ![c].pc = "marks", ![c].safe = conn[c].hdr.mx, ![c].i = 1]
  BY DEF StartCheckpoint
<1>3. r = [x \in Fields |-> r[x]]
  BY <1>1, Zenon DEF Fields
<1>4. conn' = [conn EXCEPT ![c] = r]
  BY <1>2, Shape
<1>5. Only(c) /\ conn'[c] = r
  BY <1>3, <1>4, Sole
<1>6. conn'[c].pc = "marks" /\ conn'[c].safe = conn[c].hdr.mx /\ conn'[c].i = 1 /\ conn'[c].changed = conn[c].changed
  BY <1>1, <1>5, Zenon DEF Fields
<1>7. conn'[c].copy = conn[c].copy
  BY <1>1, <1>5, Zenon DEF Fields
<1>8. SameLook(c) /\ SameWork(c) /\ SameCopy(c)
  BY <1>1, <1>5, Zenon DEF Fields, SameLook, SameWork, SameCopy
<1>t. SameTxn(c)
  BY <1>1, <1>5, Zenon DEF Fields, SameTxn
<1> QED
  BY <1>t, <1>5, <1>6, <1>7, <1>8

LEMMA StartBackfillSets ==
  ASSUME WalInv, NEW c \in Conns, StartBackfill(c),
         nBackfill < conn[c].safe, CanOwn(0)
  PROVE  /\ Only(c)
         /\ conn'[c].pc = "copy"
         /\ conn'[c].copy = ToCopy(c, nBackfill)
         /\ conn'[c].changed = conn[c].changed
         /\ conn'[c].safe = conn[c].safe
         /\ conn'[c].i = conn[c].i
         /\ SameLook(c)
         /\ SameWork(c)
         /\ SameCopy(c)
         /\ SameTxn(c)
<1> DEFINE vcopy == ToCopy(c, nBackfill)
           r == [conn[c] EXCEPT !.pc = "copy", !.copy = vcopy]
<1>1. conn[c] = [x \in Fields |-> conn[c][x]]
  BY Shape
<1>2. conn' = [conn EXCEPT ![c].pc = "copy", ![c].copy = vcopy]
  BY DEF StartBackfill
<1>v. vcopy = ToCopy(c, nBackfill)
  OBVIOUS
<1> HIDE DEF vcopy
<1>3. r = [x \in Fields |-> r[x]]
  BY <1>1, Zenon DEF Fields
<1>4. conn' = [conn EXCEPT ![c] = r]
  BY <1>2, Shape
<1>5. Only(c) /\ conn'[c] = r
  BY <1>3, <1>4, Sole
<1>6. conn'[c].pc = "copy" /\ conn'[c].copy = vcopy /\ conn'[c].changed = conn[c].changed /\ conn'[c].safe = conn[c].safe
  BY <1>1, <1>5, Zenon DEF Fields
<1>7. conn'[c].i = conn[c].i
  BY <1>1, <1>5, Zenon DEF Fields
<1>8. SameLook(c) /\ SameWork(c) /\ SameCopy(c)
  BY <1>1, <1>5, Zenon DEF Fields, SameLook, SameWork, SameCopy
<1>t. SameTxn(c)
  BY <1>1, <1>5, Zenon DEF Fields, SameTxn
<1> QED
  BY <1>t, <1>v, <1>5, <1>6, <1>7, <1>8

(* Their parts that are chosen on the way.                                   *)
Sees(c, slot, seen, pc) ==
  conn' = [conn EXCEPT ![c].slot = slot, ![c].seen = seen, ![c].pc = pc]
ToFrames(c, h) == conn' = [conn EXCEPT ![c].hdr = h, ![c].n = h.mx, ![c].pc = "frames"]
Overwrites(c, S, k) == conn' = [conn EXCEPT ![c].list = S, ![c].reck = k]
Appends(c, S, k) == conn' = [conn EXCEPT ![c].list = S, ![c].n = k]
Leaves(c, x) == conn' = [conn EXCEPT ![c].copy = @ \ {x}]

LEMMA RecoverSets ==
  ASSUME WalInv, NEW c \in Conns, Recover(c)
  PROVE  /\ Only(c)
         /\ conn'[c].pc = IF CommittedUpTo(file) = 0 THEN "lock0" ELSE "pick"
         /\ conn'[c].hdr = hdr'
         /\ conn'[c].cache = NoState
         /\ SameLook(c)
         /\ SameWork(c)
         /\ SameCkpt(c)
         /\ SameTxn(c)
<1> DEFINE vpc == IF CommittedUpTo(file) = 0 THEN "lock0" ELSE "pick"
           vhdr == hdr'
           vnCkpt == IF \E i \in Frames : file.frame[i] # NoFrame
                     THEN file.nCkpt ELSE conn[c].nCkpt
           r == [conn[c] EXCEPT !.pc = vpc, !.hdr = vhdr, !.cache = NoState, !.nCkpt = vnCkpt]
<1>1. conn[c] = [x \in Fields |-> conn[c][x]]
  BY Shape
<1>2. conn' = [conn EXCEPT ![c].pc = vpc, ![c].hdr = vhdr, ![c].cache = NoState, ![c].nCkpt = vnCkpt]
  BY DEF Recover
<1>v. /\ vpc = IF CommittedUpTo(file) = 0 THEN "lock0" ELSE "pick"
      /\ vhdr = hdr'
      /\ vnCkpt = IF \E i \in Frames : file.frame[i] # NoFrame
                     THEN file.nCkpt ELSE conn[c].nCkpt
  OBVIOUS
<1> HIDE DEF vpc, vhdr, vnCkpt
<1>3. r = [x \in Fields |-> r[x]]
  BY <1>1, Zenon DEF Fields
<1>4. conn' = [conn EXCEPT ![c] = r]
  BY <1>2, Shape
<1>5. Only(c) /\ conn'[c] = r
  BY <1>3, <1>4, Sole
<1>6. conn'[c].pc = vpc /\ conn'[c].hdr = vhdr /\ conn'[c].cache = NoState
  BY <1>1, <1>5, Zenon DEF Fields
<1>7. SameLook(c) /\ SameWork(c) /\ SameCkpt(c)
  BY <1>1, <1>5, Zenon DEF Fields, SameLook, SameWork, SameCkpt
<1>t. SameTxn(c)
  BY <1>1, <1>5, Zenon DEF Fields, SameTxn
<1> QED
  BY <1>t, <1>v, <1>5, <1>6, <1>7

LEMMA SeesSets ==
  ASSUME WalInv, NEW c \in Conns, NEW slot, NEW seen, NEW pc, Sees(c, slot, seen, pc)
  PROVE  /\ Only(c)
         /\ conn'[c].slot = slot
         /\ conn'[c].seen = seen
         /\ conn'[c].pc = pc
         /\ conn'[c].min = conn[c].min
         /\ conn'[c].useWal = conn[c].useWal
         /\ SameWork(c)
         /\ SameCkpt(c)
         /\ SameCopy(c)
         /\ SameTxn(c)
<1> DEFINE r == [conn[c] EXCEPT !.slot = slot, !.seen = seen, !.pc = pc]
<1>1. conn[c] = [x \in Fields |-> conn[c][x]]
  BY Shape
<1>2. conn' = [conn EXCEPT ![c].slot = slot, ![c].seen = seen, ![c].pc = pc]
  BY DEF Sees
<1>3. r = [x \in Fields |-> r[x]]
  BY <1>1, Zenon DEF Fields
<1>4. conn' = [conn EXCEPT ![c] = r]
  BY <1>2, Shape
<1>5. Only(c) /\ conn'[c] = r
  BY <1>3, <1>4, Sole
<1>6. conn'[c].slot = slot /\ conn'[c].seen = seen /\ conn'[c].pc = pc /\ conn'[c].min = conn[c].min
  BY <1>1, <1>5, Zenon DEF Fields
<1>7. conn'[c].useWal = conn[c].useWal
  BY <1>1, <1>5, Zenon DEF Fields
<1>8. SameWork(c) /\ SameCkpt(c) /\ SameCopy(c)
  BY <1>1, <1>5, Zenon DEF Fields, SameWork, SameCkpt, SameCopy
<1>t. SameTxn(c)
  BY <1>1, <1>5, Zenon DEF Fields, SameTxn
<1> QED
  BY <1>t, <1>5, <1>6, <1>7, <1>8

LEMMA HeaderSets ==
  ASSUME WalInv, NEW c \in Conns, NEW h, ToFrames(c, h)
  PROVE  /\ Only(c)
         /\ conn'[c].hdr = h
         /\ conn'[c].n = h.mx
         /\ conn'[c].pc = "frames"
         /\ conn'[c].list = conn[c].list
         /\ conn'[c].commit = conn[c].commit
         /\ conn'[c].cache = conn[c].cache
         /\ SameLook(c)
         /\ SameCkpt(c)
         /\ SameTxn(c)
<1> DEFINE vn == h.mx
           r == [conn[c] EXCEPT !.hdr = h, !.n = vn, !.pc = "frames"]
<1>1. conn[c] = [x \in Fields |-> conn[c][x]]
  BY Shape
<1>2. conn' = [conn EXCEPT ![c].hdr = h, ![c].n = vn, ![c].pc = "frames"]
  BY DEF ToFrames
<1>v. /\ vn = h.mx
  OBVIOUS
<1> HIDE DEF vn
<1>3. r = [x \in Fields |-> r[x]]
  BY <1>1, Zenon DEF Fields
<1>4. conn' = [conn EXCEPT ![c] = r]
  BY <1>2, Shape
<1>5. Only(c) /\ conn'[c] = r
  BY <1>3, <1>4, Sole
<1>6. conn'[c].hdr = h /\ conn'[c].n = vn /\ conn'[c].pc = "frames" /\ conn'[c].list = conn[c].list
  BY <1>1, <1>5, Zenon DEF Fields
<1>7. conn'[c].commit = conn[c].commit /\ conn'[c].cache = conn[c].cache
  BY <1>1, <1>5, Zenon DEF Fields
<1>8. SameLook(c) /\ SameCkpt(c)
  BY <1>1, <1>5, Zenon DEF Fields, SameLook, SameCkpt
<1>t. SameTxn(c)
  BY <1>1, <1>5, Zenon DEF Fields, SameTxn
<1> QED
  BY <1>t, <1>v, <1>5, <1>6, <1>7, <1>8

LEMMA OverwriteSets ==
  ASSUME WalInv, NEW c \in Conns, NEW S, NEW k, Overwrites(c, S, k)
  PROVE  /\ Only(c)
         /\ conn'[c].list = S
         /\ conn'[c].commit = conn[c].commit
         /\ conn'[c].n = conn[c].n
         /\ conn'[c].pc = conn[c].pc
         /\ SameLook(c)
         /\ SameCkpt(c)
         /\ SameCopy(c)
         /\ conn'[c].txn = conn[c].txn /\ conn'[c].reck = k
<1> DEFINE r == [conn[c] EXCEPT !.list = S, !.reck = k]
<1>1. conn[c] = [x \in Fields |-> conn[c][x]]
  BY Shape
<1>2. conn' = [conn EXCEPT ![c].list = S, ![c].reck = k]
  BY DEF Overwrites
<1>3. r = [x \in Fields |-> r[x]]
  BY <1>1, Zenon DEF Fields
<1>4. conn' = [conn EXCEPT ![c] = r]
  BY <1>2, Shape
<1>5. Only(c) /\ conn'[c] = r
  BY <1>3, <1>4, Sole
<1>6. conn'[c].list = S /\ conn'[c].commit = conn[c].commit /\ conn'[c].n = conn[c].n /\ conn'[c].pc = conn[c].pc
  BY <1>1, <1>5, Zenon DEF Fields
<1>7. SameLook(c) /\ SameCkpt(c) /\ SameCopy(c)
  BY <1>1, <1>5, Zenon DEF Fields, SameLook, SameCkpt, SameCopy
<1>t. conn'[c].txn = conn[c].txn /\ conn'[c].reck = k
  BY <1>1, <1>5, Zenon DEF Fields
<1> QED
  BY <1>t, <1>5, <1>6, <1>7

LEMMA AppendSets ==
  ASSUME WalInv, NEW c \in Conns, NEW S, NEW k, Appends(c, S, k)
  PROVE  /\ Only(c)
         /\ conn'[c].list = S
         /\ conn'[c].n = k
         /\ conn'[c].commit = conn[c].commit
         /\ conn'[c].pc = conn[c].pc
         /\ SameLook(c)
         /\ SameCkpt(c)
         /\ SameCopy(c)
         /\ SameTxn(c)
<1> DEFINE r == [conn[c] EXCEPT !.list = S, !.n = k]
<1>1. conn[c] = [x \in Fields |-> conn[c][x]]
  BY Shape
<1>2. conn' = [conn EXCEPT ![c].list = S, ![c].n = k]
  BY DEF Appends
<1>3. r = [x \in Fields |-> r[x]]
  BY <1>1, Zenon DEF Fields
<1>4. conn' = [conn EXCEPT ![c] = r]
  BY <1>2, Shape
<1>5. Only(c) /\ conn'[c] = r
  BY <1>3, <1>4, Sole
<1>6. conn'[c].list = S /\ conn'[c].n = k /\ conn'[c].commit = conn[c].commit /\ conn'[c].pc = conn[c].pc
  BY <1>1, <1>5, Zenon DEF Fields
<1>7. SameLook(c) /\ SameCkpt(c) /\ SameCopy(c)
  BY <1>1, <1>5, Zenon DEF Fields, SameLook, SameCkpt, SameCopy
<1>t. SameTxn(c)
  BY <1>1, <1>5, Zenon DEF Fields, SameTxn
<1> QED
  BY <1>t, <1>5, <1>6, <1>7

LEMMA SpillSets ==
  ASSUME WalInv, NEW c \in Conns, FinishFrames(c), ~conn[c].commit
  PROVE  /\ Only(c)
         /\ conn'[c].hdr = [conn[c].hdr EXCEPT !.mx = conn[c].n]
         /\ conn'[c].pc = "write"
         /\ conn'[c].n = 0
         /\ conn'[c].list = conn[c].list
         /\ conn'[c].commit = conn[c].commit
         /\ conn'[c].cache = conn[c].cache
         /\ SameLook(c)
         /\ SameCkpt(c)
         /\ SameTxn(c)
<1> DEFINE vhdr == [conn[c].hdr EXCEPT !.mx = conn[c].n]
           r == [conn[c] EXCEPT !.hdr = vhdr, !.pc = "write", !.n = 0]
<1>1. conn[c] = [x \in Fields |-> conn[c][x]]
  BY Shape
<1>2. conn' = [conn EXCEPT ![c].hdr = vhdr, ![c].pc = "write", ![c].n = 0]
  BY DEF FinishFrames
<1>v. /\ vhdr = [conn[c].hdr EXCEPT !.mx = conn[c].n]
  OBVIOUS
<1> HIDE DEF vhdr
<1>3. r = [x \in Fields |-> r[x]]
  BY <1>1, Zenon DEF Fields
<1>4. conn' = [conn EXCEPT ![c] = r]
  BY <1>2, Shape
<1>5. Only(c) /\ conn'[c] = r
  BY <1>3, <1>4, Sole
<1>6. conn'[c].hdr = vhdr /\ conn'[c].pc = "write" /\ conn'[c].n = 0 /\ conn'[c].list = conn[c].list
  BY <1>1, <1>5, Zenon DEF Fields
<1>7. conn'[c].commit = conn[c].commit /\ conn'[c].cache = conn[c].cache
  BY <1>1, <1>5, Zenon DEF Fields
<1>8. SameLook(c) /\ SameCkpt(c)
  BY <1>1, <1>5, Zenon DEF Fields, SameLook, SameCkpt
<1>t. SameTxn(c)
  BY <1>1, <1>5, Zenon DEF Fields, SameTxn
<1> QED
  BY <1>t, <1>v, <1>5, <1>6, <1>7, <1>8

LEMMA CommitSets ==
  ASSUME WalInv, NEW c \in Conns, FinishFrames(c), conn[c].commit
  PROVE  /\ Only(c)
         /\ conn'[c].hdr = [conn[c].hdr EXCEPT !.mx = conn[c].n]
         /\ conn'[c].pc = "done"
         /\ conn'[c].n = 0
         /\ conn'[c].commit = FALSE
         /\ conn'[c].list = conn[c].list
         /\ conn'[c].cache = conn[c].cache
         /\ SameLook(c)
         /\ SameCkpt(c)
         /\ SameTxn(c)
<1> DEFINE vhdr == [conn[c].hdr EXCEPT !.mx = conn[c].n]
           r == [conn[c] EXCEPT !.hdr = vhdr, !.pc = "done", !.n = 0, !.commit = FALSE]
<1>1. conn[c] = [x \in Fields |-> conn[c][x]]
  BY Shape
<1>2. conn' = [conn EXCEPT ![c].hdr = vhdr, ![c].pc = "done", ![c].n = 0, ![c].commit = FALSE]
  BY DEF FinishFrames
<1>v. /\ vhdr = [conn[c].hdr EXCEPT !.mx = conn[c].n]
  OBVIOUS
<1> HIDE DEF vhdr
<1>3. r = [x \in Fields |-> r[x]]
  BY <1>1, Zenon DEF Fields
<1>4. conn' = [conn EXCEPT ![c] = r]
  BY <1>2, Shape
<1>5. Only(c) /\ conn'[c] = r
  BY <1>3, <1>4, Sole
<1>6. conn'[c].hdr = vhdr /\ conn'[c].pc = "done" /\ conn'[c].n = 0 /\ conn'[c].commit = FALSE
  BY <1>1, <1>5, Zenon DEF Fields
<1>7. conn'[c].list = conn[c].list /\ conn'[c].cache = conn[c].cache
  BY <1>1, <1>5, Zenon DEF Fields
<1>8. SameLook(c) /\ SameCkpt(c)
  BY <1>1, <1>5, Zenon DEF Fields, SameLook, SameCkpt
<1>t. SameTxn(c)
  BY <1>1, <1>5, Zenon DEF Fields, SameTxn
<1> QED
  BY <1>t, <1>v, <1>5, <1>6, <1>7, <1>8

LEMMA TestMarkSets ==
  ASSUME WalInv, NEW c \in Conns, TestMark(c)
  PROVE  /\ Only(c)
         /\ conn'[c].i = conn[c].i + 1
         /\ conn'[c].safe = IF conn[c].safe > mark[conn[c].i] /\ ~CanOwn(conn[c].i)
                            THEN mark[conn[c].i] ELSE conn[c].safe
         /\ conn'[c].changed = conn[c].changed
         /\ conn'[c].copy = conn[c].copy
         /\ conn'[c].pc = conn[c].pc
         /\ SameLook(c)
         /\ SameWork(c)
         /\ SameCopy(c)
         /\ SameTxn(c)
<1> DEFINE vi == conn[c].i + 1
           vsafe == IF conn[c].safe > mark[conn[c].i] /\ ~CanOwn(conn[c].i)
                            THEN mark[conn[c].i] ELSE conn[c].safe
           r == [conn[c] EXCEPT !.i = vi, !.safe = vsafe]
<1>1. conn[c] = [x \in Fields |-> conn[c][x]]
  BY Shape
<1>2. conn' = [conn EXCEPT ![c].i = vi, ![c].safe = vsafe]
  BY DEF TestMark
<1>v. /\ vi = conn[c].i + 1
      /\ vsafe = IF conn[c].safe > mark[conn[c].i] /\ ~CanOwn(conn[c].i)
                            THEN mark[conn[c].i] ELSE conn[c].safe
  OBVIOUS
<1> HIDE DEF vi, vsafe
<1>3. r = [x \in Fields |-> r[x]]
  BY <1>1, Zenon DEF Fields
<1>4. conn' = [conn EXCEPT ![c] = r]
  BY <1>2, Shape
<1>5. Only(c) /\ conn'[c] = r
  BY <1>3, <1>4, Sole
<1>6. conn'[c].i = vi /\ conn'[c].safe = vsafe /\ conn'[c].changed = conn[c].changed /\ conn'[c].copy = conn[c].copy
  BY <1>1, <1>5, Zenon DEF Fields
<1>7. conn'[c].pc = conn[c].pc
  BY <1>1, <1>5, Zenon DEF Fields
<1>8. SameLook(c) /\ SameWork(c) /\ SameCopy(c)
  BY <1>1, <1>5, Zenon DEF Fields, SameLook, SameWork, SameCopy
<1>t. SameTxn(c)
  BY <1>1, <1>5, Zenon DEF Fields, SameTxn
<1> QED
  BY <1>t, <1>v, <1>5, <1>6, <1>7, <1>8

LEMMA CopySets ==
  ASSUME WalInv, NEW c \in Conns, NEW x, Leaves(c, x)
  PROVE  /\ Only(c)
         /\ conn'[c].copy = conn[c].copy \ {x}
         /\ conn'[c].changed = conn[c].changed
         /\ conn'[c].safe = conn[c].safe
         /\ conn'[c].i = conn[c].i
         /\ conn'[c].pc = conn[c].pc
         /\ SameLook(c)
         /\ SameWork(c)
         /\ SameCopy(c)
         /\ SameTxn(c)
<1> DEFINE vcopy == conn[c].copy \ {x}
           r == [conn[c] EXCEPT !.copy = vcopy]
<1>1. conn[c] = [f \in Fields |-> conn[c][f]]
  BY Shape
<1>2. conn' = [conn EXCEPT ![c].copy = vcopy]
  BY DEF Leaves
<1>v. /\ vcopy = conn[c].copy \ {x}
  OBVIOUS
<1> HIDE DEF vcopy
<1>3. r = [f \in Fields |-> r[f]]
  BY <1>1, Zenon DEF Fields
<1>4. conn' = [conn EXCEPT ![c] = r]
  BY <1>2, Shape
<1>5. Only(c) /\ conn'[c] = r
  BY <1>3, <1>4, Sole
<1>6. conn'[c].copy = vcopy /\ conn'[c].changed = conn[c].changed /\ conn'[c].safe = conn[c].safe /\ conn'[c].i = conn[c].i
  BY <1>1, <1>5, Zenon DEF Fields
<1>7. conn'[c].pc = conn[c].pc
  BY <1>1, <1>5, Zenon DEF Fields
<1>8. SameLook(c) /\ SameWork(c) /\ SameCopy(c)
  BY <1>1, <1>5, Zenon DEF Fields, SameLook, SameWork, SameCopy
<1>t. SameTxn(c)
  BY <1>1, <1>5, Zenon DEF Fields, SameTxn
<1> QED
  BY <1>t, <1>v, <1>5, <1>6, <1>7, <1>8

AtRest(c) ==
  /\ conn'[c].pc = "idle" /\ conn'[c].slot = 0 /\ conn'[c].seen = 0 /\ conn'[c].min = 1
  /\ conn'[c].useWal = FALSE /\ conn'[c].list = {} /\ conn'[c].commit = FALSE
  /\ conn'[c].n = 0 /\ conn'[c].changed = FALSE /\ conn'[c].safe = 0 /\ conn'[c].i = 0
  /\ conn'[c].copy = {} /\ conn'[c].reck = 0

ComesToRest(c, h, k, s) ==
  conn' = [conn EXCEPT ![c] = [Resting EXCEPT !.hdr = h, !.nCkpt = k, !.cache = s]]

LEMMA Rests ==
  ASSUME WalInv, NEW c \in Conns, NEW h, NEW k, NEW s, ComesToRest(c, h, k, s)
  PROVE  Only(c) /\ AtRest(c) /\ conn'[c].hdr = h /\ conn'[c].cache = s
<1> DEFINE r == [Resting EXCEPT !.hdr = h, !.nCkpt = k, !.cache = s]
<1>1. r = [x \in Fields |-> r[x]]
  BY Zenon DEF Fields, Resting
<1>2. Only(c) /\ conn'[c] = r
  BY <1>1, Sole DEF ComesToRest
<1>3. /\ r.pc = "idle" /\ r.slot = 0 /\ r.seen = 0 /\ r.min = 1
      /\ r.useWal = FALSE /\ r.list = {} /\ r.commit = FALSE /\ r.n = 0 /\ r.changed = FALSE
      /\ r.safe = 0 /\ r.i = 0 /\ r.copy = {} /\ r.reck = 0 /\ r.hdr = h /\ r.cache = s
  BY DEF Resting
<1> HIDE DEF r
<1> QED
  BY <1>2, <1>3 DEF AtRest

LEMMA EndReadSets ==
  ASSUME WalInv, NEW c \in Conns, EndRead(c)
  PROVE  Only(c) /\ AtRest(c) /\ conn'[c].hdr = conn[c].hdr /\ conn'[c].cache = View(c)
<1>1. ComesToRest(c, conn[c].hdr, conn[c].nCkpt, View(c))
  BY DEF EndRead, ComesToRest
<1> QED
  BY <1>1, Rests

LEMMA EndCheckpointSets ==
  ASSUME WalInv, NEW c \in Conns, EndCheckpoint(c)
  PROVE  Only(c) /\ AtRest(c) /\ conn'[c].hdr = HdrToKeep(c) /\ conn'[c].cache = conn[c].cache
<1>1. ComesToRest(c, HdrToKeep(c), conn[c].nCkpt, conn[c].cache)
  BY DEF EndCheckpoint, ComesToRest
<1> QED
  BY <1>1, Rests

-----------------------------------------------------------------------------
(* What a step of c must leave so that no other connection is disturbed.     *)

KeepsLog(n) ==
  \A i \in 1 .. n : /\ idx'[i] = idx[i] /\ file'.frame[i].pg = file.frame[i].pg
                    /\ file'.frame[i].val = file.frame[i].val

KeepsDb(c) ==
  \/ db' = db
  \/ /\ conn[c].pc = "copy"
     /\ \E p \in Pages, i \in nBackfill + 1 .. conn[c].safe :
          idx[i] = p /\ \A q \in Pages \ {p} : db'[q] = db[q]

Gentle(c) ==
  /\ Only(c) /\ \A d \in Conns \ {c} : snap'[d] = snap[d]
  /\ KeepsLog(hdr.mx)
  /\ ~Writing(c) => KeepsLog(MaxFrame) /\ hdr' = hdr /\ store' = store
  /\ \/ hdr' = hdr /\ store' = store
     \/ hdr.mx <= hdr'.mx /\ \A d \in Conns \ {c} : conn[d].hdr # hdr'
  /\ nBackfill' = nBackfill \/ (Checkpointing(c) /\ nBackfill <= nBackfill')
  /\ \A i \in Marks : mark'[i] = mark[i] \/ shared[i] = {}
  /\ KeepsDb(c)

LEMMA Digest ==
  ASSUME WalInv, NEW c \in Conns
  PROVE  /\ LocksHeld(c) /\ SeenHeader(c) /\ HeaderGrows(c) /\ AllBackfilled(c)
         /\ StillToCopy(c) /\ BackfillBound
         /\ hdr.mx \in Nat /\ hdr.init \in BOOLEAN /\ conn[c].hdr.mx \in Nat
         /\ nBackfill \in Nat /\ mark \in [Marks -> Nat]
         /\ conn[c].n \in Nat /\ conn[c].safe \in Nat /\ conn[c].useWal \in BOOLEAN
BY DEF WalInv, WalShape, Drawn, Header

LEMMA OneAtATime ==
  ASSUME WalInv, NEW c \in Conns, NEW d \in Conns, d # c
  PROVE  ~(Writing(c) /\ Writing(d)) /\ ~(Checkpointing(c) /\ Checkpointing(d))
BY Digest DEF LocksHeld

LEMMA LogReader ==
  ASSUME WalInv, StoreInv, NEW c \in Conns, ReadsLog(c)
  PROVE  /\ conn[c].slot \in Marks /\ c \in shared[conn[c].slot]
         /\ Base(c) <= End(c) /\ End(c) <= MaxFrame /\ Base(c) \in Nat /\ End(c) \in Nat
         /\ conn[c].min <= nBackfill + 1 /\ mark[conn[c].slot] <= Base(c) /\ Base(c) <= hdr.mx
         /\ snap[c] = [p \in Pages |-> snap[c][p]]
         /\ Gives(Index(c), conn[c].min, End(c), file.frame, db, snap[c])
<1>1. Typed(c) /\ WithinMark(c) /\ ReadsItsSnap(c) /\ SlotsHeld
  BY DEF StoreInv, Keeping
<1>2. conn[c].slot \in Marks /\ conn[c].slot \in ReadLocks
  BY <1>1, WalAssumption DEF Typed, ReadsLog, ReadLocks, Marks
<1>3. c \in shared[conn[c].slot]
  BY <1>1, <1>2 DEF SlotsHeld, Shares, ReadsLog, InSlot
<1>4. /\ hdr.mx \in Nat /\ conn[c].hdr.mx \in Nat /\ conn[c].n \in Nat
      /\ HeaderGrows(c)
  BY Digest
<1>5. Base(c) \in Nat /\ End(c) \in Nat /\ Base(c) <= End(c)
  BY <1>4 DEF Base, End, HeaderGrows, Writing
<1>6. End(c) <= MaxFrame
  BY <1>1 DEF Typed, End
<1> QED
  BY <1>1, <1>2, <1>3, <1>5, <1>6 DEF WithinMark, ReadsItsSnap

LEMMA GivesOver ==
  ASSUME NEW pg, NEW lo, NEW hi, NEW f, NEW d, NEW d2, NEW s, Gives(pg, lo, hi, f, d, s),
         \A p \in Pages : d2[p] = d[p] \/ \E i \in lo .. hi : pg[i] = p
  PROVE  Gives(pg, lo, hi, f, d2, s)
BY DEF Gives

LEMMA OthersLook ==
  ASSUME WalInv, WalInv', StoreInv, NEW c \in Conns, Gentle(c), NEW d \in Conns, d # c
  PROVE  WithinMark(d)' /\ \A k \in Conns \ {c} : Spares(k, d)'
<1>1. conn'[d] = conn[d] /\ \A k \in Conns \ {c} : conn'[k] = conn[k]
  BY OthersSame DEF Gentle
<1>2. Writing(d) => ~Writing(c) /\ hdr' = hdr
  BY OneAtATime DEF Gentle
<1>3. /\ hdr.mx \in Nat /\ hdr'.mx \in Nat /\ hdr.mx <= hdr'.mx /\ nBackfill \in Nat
      /\ nBackfill' \in Nat /\ nBackfill <= nBackfill' /\ conn[d].hdr.mx \in Nat
  <2>1. hdr.mx \in Nat /\ nBackfill \in Nat /\ conn[d].hdr.mx \in Nat
    BY Digest
  <2>2. hdr'.mx \in Nat /\ nBackfill' \in Nat
    BY DEF WalInv, WalShape, Drawn, Header
  <2> QED
    BY <2>1, <2>2 DEF Gentle
<1>4. (Writing(d)' <=> Writing(d)) /\ (ReadsLog(d)' <=> ReadsLog(d)) /\ Base(d)' = Base(d)
  BY <1>1, <1>2 DEF Writing, ReadsLog, Base
<1>5. WithinMark(d) /\ Typed(d) /\ \A k \in Conns : Spares(k, d)
  BY DEF StoreInv, Keeping
<1>6. WithinMark(d)'
  <2>1. conn[d].pc = "check" \/ ReadsLog(d) => conn[d].min <= nBackfill' + 1
    BY <1>3, <1>5 DEF WithinMark, Typed
  <2>2. ReadsLog(d) => Base(d) <= hdr'.mx
    BY <1>3, <1>5 DEF WithinMark, Base
  <2>3. ReadsLog(d) => mark'[conn[d].slot] <= Base(d)
    <3>1. SUFFICES ASSUME ReadsLog(d) PROVE mark'[conn[d].slot] <= Base(d)
      OBVIOUS
    <3>2. conn[d].slot \in Marks /\ shared[conn[d].slot] # {} /\ mark[conn[d].slot] <= Base(d)
      BY <3>1, LogReader
    <3> QED
      BY <3>2 DEF Gentle
  <2> QED
    BY <1>1, <1>4, <1>5, <2>1, <2>2, <2>3 DEF WithinMark
<1>7. ASSUME NEW k \in Conns \ {c} PROVE Spares(k, d)'
  BY <1>1, <1>4, <1>5 DEF Spares
<1> QED
  BY <1>6, <1>7

LEMMA OthersRead ==
  ASSUME WalInv, WalInv', StoreInv, NEW c \in Conns, Gentle(c), NEW d \in Conns, d # c
  PROVE  ReadsItsSnap(d)'
<1>1. conn'[d] = conn[d] /\ snap'[d] = snap[d]
  BY OthersSame DEF Gentle
<1>2. Writing(d) => /\ KeepsLog(MaxFrame)
                    /\ hdr' = hdr /\ store' = store
  BY OneAtATime DEF Gentle
<1>3. Typed(d) /\ ReadsItsSnap(d) /\ StillToCopy(c) /\ SlotsHeld /\ Contents
  BY Digest DEF StoreInv, Keeping
<1>4. ASSUME ReadsLog(d)
      PROVE  Gives(Index(d)', conn[d].min, End(d)', file'.frame, db', snap[d])
  <2> DEFINE lo == conn[d].min
             hi == End(d)
  <2>1. /\ Base(d) <= hi /\ hi <= MaxFrame /\ Base(d) \in Nat /\ hi \in Nat
        /\ lo <= nBackfill + 1 /\ Base(d) <= hdr.mx
        /\ Gives(Index(d), lo, hi, file.frame, db, snap[d])
    BY <1>4, LogReader
  <2>2. lo \in Nat \ {0} /\ hdr.mx \in Nat /\ conn[d].hdr.mx \in Nat /\ MaxFrame \in Nat
        /\ nBackfill \in Nat
    BY <1>3, Digest, WalAssumption DEF Typed
  <2>3. End(d)' = hi
    BY <1>1 DEF End
  <2>4. \A i \in lo .. hi : Index(d)'[i] = Index(d)[i] /\ file'.frame[i].val = file.frame[i].val
    <3>1. SUFFICES ASSUME NEW i \in lo .. hi
                   PROVE  Index(d)'[i] = Index(d)[i] /\ file'.frame[i].val = file.frame[i].val
      OBVIOUS
    <3>2. i \in Frames
      BY <2>1, <2>2 DEF Frames
    <3>3. CASE Writing(d)
      <4>1. /\ idx'[i] = idx[i] /\ file'.frame[i].pg = file.frame[i].pg
            /\ file'.frame[i].val = file.frame[i].val
        BY <1>2, <3>2, <3>3 DEF KeepsLog, Frames
      <4> QED
        BY <1>1, <3>2, <4>1 DEF Index
    <3>4. CASE ~Writing(d)
      <4>1. conn[d].pc # "frames" /\ Base(d) = conn[d].hdr.mx /\ End(d) = conn[d].hdr.mx
        BY <3>4 DEF Writing, Base, End
      <4>2. i \in 1 .. hdr.mx
        BY <2>1, <2>2, <4>1
      <4>3. idx'[i] = idx[i] /\ file'.frame[i].val = file.frame[i].val
        BY <4>2 DEF KeepsLog, Gentle
      <4> QED
        BY <1>1, <4>1, <4>3 DEF Index
    <3> QED
      BY <3>3, <3>4
  <2> HIDE DEF lo, hi
  <2>5. Gives(Index(d)', lo, hi, file'.frame, db, snap[d])
    BY <2>1, <2>2, <2>4, GivesSame, ZenonT(40)
  <2>6. \A p \in Pages : db'[p] = db[p] \/ \E i \in lo .. hi : Index(d)'[i] = p
    <3>1. CASE db' = db
      BY <3>1
    <3>2. CASE conn[c].pc = "copy" /\ db' # db
      <4>1. PICK q \in Pages, i \in nBackfill + 1 .. conn[c].safe :
              idx[i] = q /\ \A p \in Pages \ {q} : db'[p] = db[p]
        BY <3>2 DEF Gentle, KeepsDb
      <4>2. conn[c].safe <= Base(d)
        BY <1>4, <3>2 DEF StoreInv, Spares
      <4>3. conn[c].safe \in Nat
        BY Digest
      <4>4. i \in lo .. hi /\ i <= Base(d)
        BY <2>1, <2>2, <4>1, <4>2, <4>3
      <4>5. Index(d)[i] = idx[i]
        <5>1. Base(d) <= conn[d].hdr.mx
          BY <2>2, Digest DEF Base, HeaderGrows
        <5>2. i <= conn[d].hdr.mx /\ i \in Frames
          BY <2>1, <2>2, <4>4, <5>1 DEF Frames
        <5> QED
          BY <5>2 DEF Index
      <4> QED
        BY <2>4, <4>1, <4>4, <4>5
    <3> QED
      BY <3>1, <3>2 DEF Gentle, KeepsDb
  <2>7. Gives(Index(d)', lo, hi, file'.frame, db', snap[d])
    BY <2>5, <2>6, GivesOver, Zenon
  <2> QED
    BY <2>3, <2>7 DEF lo
<1>5. ASSUME conn[d].pc \in {"read", "write"}, conn[d].slot = 0 PROVE snap[d] = db'
  <2>1. d \in shared[0] /\ 0 \in ReadLocks
    BY <1>3, <1>5 DEF SlotsHeld, Shares, InSlot, Typed
  <2>2. conn[c].pc # "copy"
    BY <1>3, <2>1 DEF SlotsHeld, Owns
  <2>3. db' = db
    BY <2>2 DEF Gentle, KeepsDb
  <2> QED
    BY <1>3, <1>5, <2>3 DEF ReadsItsSnap
<1>6. Rejoins(d) => snap[d] = store' /\ conn[d].hdr = hdr'
  BY <1>2, <1>3 DEF ReadsItsSnap, Rejoins, Writing
<1>7. ReadsLog(d) => snap[d] = [p \in Pages |-> snap[d][p]]
  BY <1>3 DEF ReadsItsSnap
<1> QED
  BY <1>1, <1>4, <1>5, <1>6, <1>7 DEF ReadsItsSnap, ReadsLog, Rejoins

LEMMA OthersWork ==
  ASSUME WalInv, WalInv', StoreInv, NEW c \in Conns, Gentle(c), NEW d \in Conns, d # c,
         idx' \in [Frames -> 0 .. NPages]
  PROVE  WritesOn(d)' /\ Copies(d)' /\ Caches(d)' /\ Typed(d)'
<1>1. conn'[d] = conn[d]
  BY OthersSame DEF Gentle
<1>2. WritesOn(d) /\ Copies(d) /\ Caches(d) /\ Typed(d)
  BY DEF StoreInv, Keeping
<1>3. /\ hdr.mx \in Nat /\ conn[d].hdr.mx \in Nat /\ conn[d].n \in Nat /\ MaxFrame \in Nat
      /\ nBackfill \in Nat /\ StillToCopy(d) /\ conn[d].safe \in Nat
  BY Digest, WalAssumption
<1>4. WritesOn(d)'
  <2>1. CASE Writing(d)
    <3>1. KeepsLog(MaxFrame) /\ hdr' = hdr
      BY <2>1, OneAtATime DEF Gentle
    <3>a. idx \in [Frames -> 0 .. NPages]
      BY DEF StoreInv, Contents
    <3>2. idx' = idx
      <4>1. \A i \in Frames : idx'[i] = idx[i]
        BY <3>1 DEF KeepsLog, Frames
      <4> QED
        BY <3>a, <4>1
    <3>3. \A S : New(d, S)' = New(d, S)
      BY <1>1, <3>1, <3>2 DEF New, FindFrame
    <3>4. ASSUME NEW i \in conn[d].hdr.mx + 1 .. conn[d].n
          PROVE  file'.frame[i].pg = file.frame[i].pg
      <4>1. i \in 1 .. MaxFrame
        BY <1>2, <1>3 DEF Typed
      <4> QED
        BY <3>1, <4>1 DEF KeepsLog
    <3> QED
      BY <1>1, <1>2, <3>3, <3>4 DEF WritesOn, Rejoins
  <2>2. CASE ~Writing(d)
    BY <1>1, <2>2 DEF WritesOn, Rejoins, Writing
  <2> QED
    BY <2>1, <2>2
<1>5. Copies(d)'
  <2>1. SUFFICES ASSUME conn[d].pc = "copy" PROVE Copies(d)'
    BY <1>1 DEF Copies
  <2>2. nBackfill' = nBackfill /\ db' = db
    BY <2>1, OneAtATime DEF Gentle, KeepsDb, Checkpointing
  <2>3. conn[d].hdr.mx <= hdr.mx /\ conn[d].safe <= conn[d].hdr.mx
    BY <1>3, <2>1 DEF StillToCopy
  <2>4. \A i \in 1 .. conn[d].hdr.mx : idx'[i] = idx[i] /\ file'.frame[i].val = file.frame[i].val
    BY <1>3, <2>3 DEF Gentle, KeepsLog
  <2>5. ASSUME NEW p, NEW i \in Nat, 1 <= i, i <= conn[d].hdr.mx
        PROVE  IsLast(idx', p, i, conn[d].hdr.mx) <=> IsLast(idx, p, i, conn[d].hdr.mx)
    <3>1. \A j \in i .. conn[d].hdr.mx : j \in 1 .. conn[d].hdr.mx
      BY <2>5
    <3> QED
      BY <1>3, <2>4, <2>5, <3>1 DEF IsLast
  <2>6. ASSUME NEW x \in conn[d].copy
        PROVE  /\ nBackfill' < x[2] /\ x[2] <= conn[d].safe
               /\ IsLast(idx', x[1], x[2], conn[d].hdr.mx)
    <3>1. /\ nBackfill < x[2] /\ x[2] <= conn[d].safe
          /\ IsLast(idx, x[1], x[2], conn[d].hdr.mx)
      BY <1>2, <2>1 DEF Copies
    <3>2. x[2] \in Nat
      BY <1>2 DEF Typed, Frames
    <3> QED
      BY <1>3, <2>2, <2>3, <2>5, <3>1, <3>2
  <2>7. ASSUME NEW p \in Pages, NEW i \in nBackfill + 1 .. conn[d].safe,
               IsLast(idx', p, i, conn[d].hdr.mx)
        PROVE  <<p, i>> \in conn[d].copy \/ db'[p] = file'.frame[i].val
    <3>1. i \in Nat /\ 1 <= i /\ i <= conn[d].hdr.mx
      BY <1>3, <2>3
    <3>2. IsLast(idx, p, i, conn[d].hdr.mx)
      BY <2>5, <2>7, <3>1
    <3>3. <<p, i>> \in conn[d].copy \/ db[p] = file.frame[i].val
      BY <1>2, <2>1, <3>2 DEF Copies
    <3> QED
      BY <2>2, <2>4, <3>1, <3>3
  <2> QED
    BY <1>1, <2>2, <2>6, <2>7 DEF Copies
<1>6. Caches(d)'
  BY <1>1, <1>2 DEF Caches, Gentle, Checkpointing
<1>7. Typed(d)'
  BY <1>1, <1>2 DEF Typed
<1> QED
  BY <1>4, <1>5, <1>6, <1>7

-----------------------------------------------------------------------------
(* Who shares which read lock after a step of c.                             *)

LEMMA SlotsByOne ==
  ASSUME WalInv, StoreInv, NEW c \in Conns, Only(c),
         \A i \in ReadLocks : \A d \in Conns \ {c} : d \in shared'[i] <=> d \in shared[i],
         \A i \in ReadLocks : c \in shared'[i] <=> Shares(c, i)',
         \A i \in excl' : shared'[i] = {},
         \A d \in Conns \ {c} : /\ conn[d].pc = "restart" => Marks \subseteq excl'
                                /\ conn[d].pc = "copy" => 0 \in excl',
         Owns(c)'
  PROVE  SlotsHeld'
<1>1. SlotsHeld
  BY DEF StoreInv
<1>2. ASSUME NEW i \in ReadLocks, NEW d \in Conns PROVE d \in shared'[i] <=> Shares(d, i)'
  <2>1. CASE d = c
    BY <2>1
  <2>2. CASE d # c
    BY <1>1, <2>2, OthersSame DEF SlotsHeld, Shares
  <2> QED
    BY <2>1, <2>2
<1>3. ASSUME NEW d \in Conns PROVE Owns(d)'
  <2>1. CASE d = c
    BY <2>1
  <2>2. CASE d # c
    BY <1>1, <2>2, OthersSame DEF SlotsHeld, Owns
  <2> QED
    BY <2>1, <2>2
<1> QED
  BY <1>2, <1>3 DEF SlotsHeld

LEMMA SlotsStay ==
  ASSUME WalInv, StoreInv, NEW c \in Conns, Only(c), UNCHANGED <<shared, excl>>,
         \A i \in ReadLocks : Shares(c, i)' <=> Shares(c, i), Owns(c)'
  PROVE  SlotsHeld' /\ shared' \in [ReadLocks -> SUBSET Conns] /\ excl' \in SUBSET ReadLocks
<1>1. SlotsHeld /\ Contents
  BY DEF StoreInv
<1>2. SlotsHeld'
  <2>1. /\ \A i \in ReadLocks : c \in shared'[i] <=> Shares(c, i)'
        /\ \A i \in excl' : shared'[i] = {}
        /\ \A d \in Conns \ {c} : /\ conn[d].pc = "restart" => Marks \subseteq excl'
                                  /\ conn[d].pc = "copy" => 0 \in excl'
    BY <1>1 DEF SlotsHeld, Owns
  <2> QED
    BY <2>1, SlotsByOne
<1> QED
  BY <1>1, <1>2 DEF Contents

LEMMA SlotTaken ==
  ASSUME WalInv, StoreInv, NEW c \in Conns, Only(c), NEW k \in ReadLocks, k \notin excl,
         shared' = [shared EXCEPT ![k] = @ \cup {c}], excl' = excl,
         conn[c].pc \notin InSlot, \A i \in ReadLocks : Shares(c, i)' <=> i = k, Owns(c)'
  PROVE  SlotsHeld' /\ shared' \in [ReadLocks -> SUBSET Conns] /\ excl' \in SUBSET ReadLocks
<1>1. SlotsHeld /\ shared \in [ReadLocks -> SUBSET Conns] /\ excl \in SUBSET ReadLocks
  BY DEF StoreInv, Contents
<1>2. SlotsHeld'
  <2>1. \A i \in ReadLocks : c \notin shared[i]
    BY <1>1 DEF SlotsHeld, Shares
  <2>2. \A i \in ReadLocks : shared'[i] = IF i = k THEN shared[i] \cup {c} ELSE shared[i]
    BY <1>1
  <2>3. /\ \A i \in ReadLocks : c \in shared'[i] <=> Shares(c, i)'
        /\ \A i \in ReadLocks : \A d \in Conns \ {c} : d \in shared'[i] <=> d \in shared[i]
    BY <2>1, <2>2
  <2>4. \A i \in excl' : shared'[i] = {}
    BY <1>1, <2>2 DEF SlotsHeld
  <2>5. \A d \in Conns \ {c} : /\ conn[d].pc = "restart" => Marks \subseteq excl'
                               /\ conn[d].pc = "copy" => 0 \in excl'
    BY <1>1 DEF SlotsHeld, Owns
  <2> QED
    BY <2>3, <2>4, <2>5, SlotsByOne
<1> QED
  BY <1>1, <1>2

LEMMA SlotLeft ==
  ASSUME WalInv, StoreInv, NEW c \in Conns, Only(c), NEW k \in ReadLocks,
         shared' = [shared EXCEPT ![k] = @ \ {c}], excl' = excl,
         Shares(c, k), \A i \in ReadLocks : ~Shares(c, i)', Owns(c)'
  PROVE  SlotsHeld' /\ shared' \in [ReadLocks -> SUBSET Conns] /\ excl' \in SUBSET ReadLocks
<1>1. SlotsHeld /\ shared \in [ReadLocks -> SUBSET Conns] /\ excl \in SUBSET ReadLocks
  BY DEF StoreInv, Contents
<1>2. SlotsHeld'
  <2>1. \A i \in ReadLocks : i # k => c \notin shared[i]
    BY <1>1 DEF SlotsHeld, Shares
  <2>2. \A i \in ReadLocks : shared'[i] = IF i = k THEN shared[i] \ {c} ELSE shared[i]
    BY <1>1
  <2>3. /\ \A i \in ReadLocks : c \in shared'[i] <=> Shares(c, i)'
        /\ \A i \in ReadLocks : \A d \in Conns \ {c} : d \in shared'[i] <=> d \in shared[i]
    BY <2>1, <2>2
  <2>4. \A i \in excl' : shared'[i] = {}
    BY <1>1, <2>2 DEF SlotsHeld
  <2>5. \A d \in Conns \ {c} : /\ conn[d].pc = "restart" => Marks \subseteq excl'
                               /\ conn[d].pc = "copy" => 0 \in excl'
    BY <1>1 DEF SlotsHeld, Owns
  <2> QED
    BY <2>3, <2>4, <2>5, SlotsByOne
<1> QED
  BY <1>1, <1>2

-----------------------------------------------------------------------------
(* What the history makes of a step of c.                                    *)

LEMMA Remembers ==
  ASSUME WalInv, StoreInv, NEW c \in Conns, Only(c), RememberStep
  PROVE  /\ snap' = [d \in Conns |-> snap'[d]]
         /\ \A d \in Conns \ {c} : snap'[d] = snap[d]
         /\ snap'[c] = IF Begins(c) \/ RollsBack(c) THEN store
                       ELSE IF Puts(c) THEN [snap[c] EXCEPT ![MinOf(conn[c].list)] = Value(c)]
                       ELSE snap[c]
         /\ store' = IF Commits(c) THEN snap[c] ELSE store
<1>1. ASSUME NEW d \in Conns, d # c
      PROVE  ~Begins(d) /\ ~RollsBack(d) /\ ~Puts(d) /\ ~Commits(d)
  BY <1>1, OthersSame DEF Begins, RollsBack, Puts, Commits
<1>2. snap' = [d \in Conns |->
                 IF Begins(d) \/ RollsBack(d) THEN store
                 ELSE IF Puts(d) THEN [snap[d] EXCEPT ![MinOf(conn[d].list)] = Value(d)]
                 ELSE snap[d]]
  BY DEF RememberStep
<1>3. snap' = [d \in Conns |-> snap'[d]] /\ \A d \in Conns \ {c} : snap'[d] = snap[d]
  BY <1>1, <1>2
<1>4. snap'[c] = IF Begins(c) \/ RollsBack(c) THEN store
                 ELSE IF Puts(c) THEN [snap[c] EXCEPT ![MinOf(conn[c].list)] = Value(c)]
                 ELSE snap[c]
  BY <1>2
<1>5. store' = IF Commits(c) THEN snap[c] ELSE store
  <2>1. store' = IF \E d \in Conns : Commits(d) THEN snap[CHOOSE d \in Conns : Commits(d)]
                                                ELSE store
    BY DEF RememberStep
  <2>2. CASE Commits(c)
    <3>1. (CHOOSE d \in Conns : Commits(d)) = c
      BY <1>1, <2>2
    <3> QED
      BY <2>1, <2>2, <3>1
  <2>3. CASE ~Commits(c)
    BY <1>1, <2>1, <2>3
  <2> QED
    BY <2>2, <2>3
<1> QED
  BY <1>3, <1>4, <1>5

-----------------------------------------------------------------------------
(* Together: what remains to be shown of a step of c.                        *)

LEMMA StoreByOne ==
  ASSUME WalInv, WalInv', StoreInv, NEW c \in Conns, Gentle(c),
         Contents', SlotsHeld', Newest', Typed(c)', Keeping(c)',
         \A d \in Conns : Spares(c, d)' /\ Spares(d, c)'
  PROVE  StoreInv'
<1>1. idx' \in [Frames -> 0 .. NPages]
  BY DEF Contents
<1>2. ASSUME NEW d \in Conns
      PROVE  Typed(d)' /\ Keeping(d)' /\ \A k \in Conns : Spares(d, k)'
  <2>1. CASE d = c
    BY <2>1
  <2>2. CASE d # c
    <3>1. Typed(d)' /\ Keeping(d)'
      BY <1>1, <2>2, OthersLook, OthersRead, OthersWork DEF Keeping
    <3>2. ASSUME NEW k \in Conns PROVE Spares(d, k)'
      BY <2>2, OthersLook
    <3> QED
      BY <3>1, <3>2
  <2> QED
    BY <2>1, <2>2
<1> QED
  BY <1>2 DEF StoreInv

(* A step that leaves the contents of the log, of the index and of the        *)
(* database.                                                                 *)
LEMMA Quietly ==
  ASSUME WalInv, WalInv', StoreInv, NEW c \in Conns, Only(c),
         UNCHANGED <<hdr, nBackfill, idx, file, db, dbDisk, store>>, Framed(disk.frame)',
         snap' = [d \in Conns |-> snap'[d]], \A d \in Conns \ {c} : snap'[d] = snap[d],
         \A i \in Marks : mark'[i] = mark[i] \/ shared[i] = {},
         SlotsHeld', shared' \in [ReadLocks -> SUBSET Conns], excl' \in SUBSET ReadLocks,
         Typed(c)', Keeping(c)', \A d \in Conns : Spares(c, d)' /\ Spares(d, c)'
  PROVE  StoreInv'
<1>1. Gentle(c)
  <2>1. KeepsLog(hdr.mx) /\ KeepsLog(MaxFrame)
    BY DEF KeepsLog
  <2> QED
    BY <2>1 DEF Gentle, KeepsDb
<1>2. Contents'
  BY DEF StoreInv, Contents, Framed
<1>3. Newest'
  BY DEF StoreInv, Newest
<1> QED
  BY <1>1, <1>2, <1>3, StoreByOne

Outside ==
  {"idle", "lock0", "check0", "pick", "raise", "share", "min", "check", "ckpt", "marks", "endCkpt"}

(* The steps of a connection that reads nothing yet, or no more.             *)
LEMMA LooksOn ==
  ASSUME WalInv, WalInv', StoreInv, NEW c \in Conns, Only(c), RememberStep,
         conn[c].pc \notin {"write", "frames"}, conn'[c].pc \in Outside,
         UNCHANGED <<hdr, nBackfill, idx, file, disk, db, dbDisk>>,
         \A i \in Marks : mark'[i] = mark[i] \/ shared[i] = {},
         SlotsHeld', shared' \in [ReadLocks -> SUBSET Conns], excl' \in SUBSET ReadLocks,
         Typed(c)',
         conn'[c].pc \in {"raise", "share", "min", "check"} => conn'[c].seen <= conn'[c].hdr.mx,
         conn'[c].pc = "check" => conn'[c].min <= nBackfill + 1,
         conn'[c].pc = "marks" => \A d \in Conns : Spares(c, d)',
         conn'[c].useWal =>
           Rejoins(c) /\ conn'[c].hdr = conn[c].hdr /\ conn'[c].list = conn[c].list,
         store' = store => Caches(c)'
  PROVE  StoreInv'
<1>1. ~Begins(c) /\ ~RollsBack(c) /\ ~Puts(c) /\ ~Commits(c)
  BY DEF Begins, RollsBack, Puts, Commits, Outside
<1>2. /\ snap' = [d \in Conns |-> snap'[d]] /\ \A d \in Conns \ {c} : snap'[d] = snap[d]
      /\ snap'[c] = snap[c] /\ store' = store
  BY <1>1, Remembers
<1>3. /\ ~ReadsLog(c)'
      /\ conn'[c].pc \notin {"read", "write", "header", "frames", "done", "copy"}
      /\ Rejoins(c)' <=> conn'[c].useWal
  BY DEF ReadsLog, Outside, Rejoins
<1>4. ReadsItsSnap(c) /\ WritesOn(c)
  BY DEF StoreInv, Keeping
<1>5. WithinMark(c)'
  BY <1>3 DEF WithinMark
<1>6. ReadsItsSnap(c)'
  BY <1>2, <1>3, <1>4 DEF ReadsItsSnap
<1>7. WritesOn(c)'
  BY <1>3, <1>4 DEF WritesOn
<1>8. Copies(c)'
  BY <1>3 DEF Copies
<1>9. Keeping(c)'
  BY <1>2, <1>5, <1>6, <1>7, <1>8 DEF Keeping
<1>10. ASSUME NEW d \in Conns PROVE Spares(c, d)' /\ Spares(d, c)'
  BY <1>3 DEF Spares
<1>11. Framed(disk.frame)'
  BY DEF StoreInv, Contents, Framed
<1> QED
  BY <1>2, <1>9, <1>10, <1>11, Quietly

-----------------------------------------------------------------------------
(* The steps of a connection that reads nothing yet, or no more.             *)

LEMMA Stands ==
  ASSUME StoreInv, NEW c \in Conns
  PROVE  /\ Typed(c) /\ Owns(c) /\ WithinMark(c) /\ ReadsItsSnap(c) /\ WritesOn(c)
         /\ Copies(c) /\ Caches(c) /\ Contents /\ SlotsHeld /\ Newest
         /\ \A d \in Conns : Spares(c, d) /\ Spares(d, c)
BY DEF StoreInv, Keeping, SlotsHeld

LEMMA ReadHdrKeeps ==
  ASSUME WalInv, WalInv', StoreInv, NEW c \in Conns, ReadHdr(c), RememberStep PROVE StoreInv'
<1>1. /\ conn[c].pc = "idle"
      /\ UNCHANGED <<hdr, nBackfill, mark, idx, shared, excl, file, disk, db, dbDisk>>
  BY DEF ReadHdr, index, locks, files
<1>2. /\ Only(c) /\ conn'[c].pc \in {"lock0", "pick"} /\ conn'[c].hdr = hdr
      /\ conn'[c].cache = IF hdr = conn[c].hdr THEN conn[c].cache ELSE NoState
      /\ SameLook(c) /\ SameWork(c) /\ SameCkpt(c)
  BY ReadHdrSets
<1>3. ~conn[c].useWal /\ ~conn'[c].useWal
  BY <1>1, <1>2, Digest DEF LocksHeld, Joining, SameLook
<1>4. Typed(c) /\ Owns(c) /\ Caches(c) /\ Contents
  BY Stands
<1>5. Owns(c)' /\ \A i \in ReadLocks : Shares(c, i)' <=> Shares(c, i)
  BY <1>1, <1>2, <1>4 DEF Owns, Shares, InSlot, NoSlot, SameLook
<1>6. SlotsHeld' /\ shared' \in [ReadLocks -> SUBSET Conns] /\ excl' \in SUBSET ReadLocks
  BY <1>1, <1>2, <1>5, SlotsStay
<1>7. Typed(c)'
  BY <1>2, <1>4 DEF Typed, Contents, SameLook, SameWork, SameCkpt
<1>8. store' = store => Caches(c)'
  BY <1>1, <1>2, <1>3, <1>4 DEF Caches, Checkpointing, InSlot
<1> QED
  BY <1>1, <1>2, <1>3, <1>6, <1>7, <1>8, LooksOn DEF Outside

(* The steps to another place that leave all else.                           *)
LEMMA PlaceKeeps ==
  ASSUME WalInv, WalInv', StoreInv, NEW c \in Conns, RememberStep,
         Only(c), SameButPlace(c),
         conn[c].pc \notin {"write", "frames"}, conn'[c].pc \in Outside,
         conn'[c].pc \in {"raise", "share", "min"} => conn[c].pc \in {"raise", "share"},
         conn'[c].pc \notin {"check", "marks"},
         Checkpointing(c)' <=> Checkpointing(c),
         UNCHANGED <<hdr, nBackfill, mark, idx, file, disk, db, dbDisk>>,
         SlotsHeld', shared' \in [ReadLocks -> SUBSET Conns], excl' \in SUBSET ReadLocks
  PROVE  StoreInv'
<1>1. Typed(c) /\ Caches(c) /\ WithinMark(c)
  BY Stands
<1>2. Typed(c)'
  BY <1>1 DEF Typed, SameButPlace, SameLook, SameWork, SameCkpt, SameCopy
<1>3. conn'[c].pc \in {"raise", "share", "min", "check"} => conn'[c].seen <= conn'[c].hdr.mx
  BY <1>1 DEF WithinMark, SameButPlace, SameLook, SameCopy
<1>4. conn'[c].useWal => /\ Rejoins(c) /\ conn'[c].hdr = conn[c].hdr
                         /\ conn'[c].list = conn[c].list
  BY DEF Rejoins, SameButPlace, SameLook, SameWork, SameCopy
<1>5. store' = store => Caches(c)'
  BY <1>1 DEF Caches, SameButPlace, SameLook, SameCkpt, SameCopy, InSlot, Outside
<1> QED
  BY <1>2, <1>3, <1>4, <1>5, LooksOn

LEMMA Lock0Keeps ==
  ASSUME WalInv, WalInv', StoreInv, NEW c \in Conns, Lock0(c), RememberStep PROVE StoreInv'
<1>1. /\ conn[c].pc = "lock0" /\ excl' = excl
      /\ UNCHANGED <<hdr, nBackfill, mark, idx, file, disk, db, dbDisk>>
  BY DEF Lock0, index, files
<1>2. Owns(c) /\ conn[c].slot = 0 /\ 0 \in ReadLocks
  BY <1>1, Stands DEF Owns, NoSlot, Typed
<1>3. CASE CanShare(0)
  <2>1. GoesTo(c, "check0") /\ shared' = [shared EXCEPT ![0] = @ \cup {c}] /\ 0 \notin excl
    BY <1>3 DEF Lock0, GoesTo, CanShare
  <2>2. Only(c) /\ conn'[c].pc = "check0" /\ SameButPlace(c)
    BY <2>1, ToPlace
  <2>3. Owns(c)' /\ \A i \in ReadLocks : Shares(c, i)' <=> i = 0
    BY <1>2, <2>2 DEF Owns, Shares, InSlot, SameButPlace, SameLook
  <2>4. SlotsHeld' /\ shared' \in [ReadLocks -> SUBSET Conns] /\ excl' \in SUBSET ReadLocks
    BY <1>1, <1>2, <2>1, <2>2, <2>3, SlotTaken DEF InSlot
  <2> QED
    BY <1>1, <2>2, <2>4, PlaceKeeps DEF Outside, Checkpointing
<1>4. CASE ~CanShare(0)
  <2>1. GoesTo(c, "pick") /\ UNCHANGED <<shared, excl>>
    BY <1>1, <1>4 DEF Lock0, GoesTo
  <2>2. Only(c) /\ conn'[c].pc = "pick" /\ SameButPlace(c)
    BY <2>1, ToPlace
  <2>3. Owns(c)' /\ \A i \in ReadLocks : Shares(c, i)' <=> Shares(c, i)
    BY <1>1, <2>2 DEF Owns, Shares, InSlot, NoSlot
  <2>4. SlotsHeld' /\ shared' \in [ReadLocks -> SUBSET Conns] /\ excl' \in SUBSET ReadLocks
    BY <2>1, <2>2, <2>3, SlotsStay
  <2> QED
    BY <1>1, <2>2, <2>4, PlaceKeeps DEF Outside, Checkpointing
<1> QED
  BY <1>3, <1>4

LEMMA Check0Fails ==
  ASSUME WalInv, WalInv', StoreInv, NEW c \in Conns, Check0(c), hdr # conn[c].hdr, RememberStep
  PROVE  StoreInv'
<1>1. /\ conn[c].pc = "check0" /\ excl' = excl /\ shared' = [shared EXCEPT ![0] = @ \ {c}]
      /\ UNCHANGED <<hdr, nBackfill, mark, idx, file, disk, db, dbDisk>>
      /\ GoesTo(c, "idle")
  BY DEF Check0, index, files, GoesTo
<1>2. Only(c) /\ conn'[c].pc = "idle" /\ SameButPlace(c)
  BY <1>1, ToPlace
<1>3. Owns(c) /\ conn[c].slot = 0 /\ 0 \in ReadLocks
  BY <1>1, Stands DEF Owns, NoSlot, Typed
<1>4. Owns(c)' /\ Shares(c, 0) /\ \A i \in ReadLocks : ~Shares(c, i)'
  BY <1>1, <1>2, <1>3 DEF Owns, Shares, InSlot, SameButPlace, SameLook
<1>5. SlotsHeld' /\ shared' \in [ReadLocks -> SUBSET Conns] /\ excl' \in SUBSET ReadLocks
  BY <1>1, <1>2, <1>3, <1>4, SlotLeft
<1> QED
  BY <1>1, <1>2, <1>5, PlaceKeeps DEF Outside, Checkpointing

(* A step back to the start of the search for a read lock.                   *)
LEMMA GivingUpKeeps ==
  ASSUME WalInv, WalInv', StoreInv, NEW c \in Conns, RememberStep, conn' = Abandoned(c),
         conn[c].pc \in {"raise", "share", "check"},
         UNCHANGED <<hdr, nBackfill, mark, idx, excl, file, disk, db, dbDisk>>,
         \/ conn[c].pc # "check" /\ shared' = shared
         \/ conn[c].pc = "check" /\ shared' = [shared EXCEPT ![conn[c].slot] = @ \ {c}]
  PROVE  StoreInv'
<1>1. /\ Only(c) /\ conn'[c].pc \in {"pick", "idle"} /\ conn'[c].slot = 0
      /\ conn'[c].seen = 0 /\ conn'[c].min = 1 /\ conn'[c].useWal = conn[c].useWal
      /\ SameWork(c) /\ SameCkpt(c) /\ SameCopy(c)
  BY GivesUp
<1>2. Typed(c) /\ Caches(c)
  BY Stands
<1>3. 0 \in ReadLocks
  BY WalAssumption DEF ReadLocks
<1>4. Typed(c)'
  BY <1>1, <1>2, <1>3 DEF Typed, SameWork, SameCkpt, SameCopy
<1>5. Owns(c)' /\ \A i \in ReadLocks : ~Shares(c, i)'
  BY <1>1 DEF Owns, Shares, InSlot
<1>6. SlotsHeld' /\ shared' \in [ReadLocks -> SUBSET Conns] /\ excl' \in SUBSET ReadLocks
  <2>1. CASE conn[c].pc # "check"
    BY <1>1, <1>5, <2>1, SlotsStay DEF Shares, InSlot
  <2>2. CASE conn[c].pc = "check"
    <3>1. conn[c].slot \in ReadLocks /\ Shares(c, conn[c].slot)
      BY <1>2, <2>2 DEF Typed, Shares, InSlot
    <3> QED
      BY <1>1, <1>5, <2>2, <3>1, SlotLeft
  <2> QED
    BY <2>1, <2>2
<1>7. store' = store => Caches(c)'
  BY <1>1, <1>2 DEF Caches, SameCkpt, SameCopy, InSlot, Checkpointing
<1>8. conn'[c].useWal => /\ Rejoins(c) /\ conn'[c].hdr = conn[c].hdr
                         /\ conn'[c].list = conn[c].list
  BY <1>1 DEF Rejoins, SameWork, SameCopy
<1> QED
  BY <1>1, <1>4, <1>6, <1>7, <1>8, LooksOn DEF Outside

LEMMA PickKeeps ==
  ASSUME WalInv, WalInv', StoreInv, NEW c \in Conns, Pick(c), RememberStep PROVE StoreInv'
<1> DEFINE mx == conn[c].hdr.mx
           fit == {i \in Marks : mark[i] <= mx}
           best == MaxOf({0} \cup {mark[i] : i \in fit})
           slot == MaxOf({0} \cup {i \in fit : mark[i] = best})
           pc == IF best < mx \/ slot = 0 THEN "raise" ELSE "share"
<1>1. /\ conn[c].pc = "pick" /\ Sees(c, slot, best, pc)
      /\ UNCHANGED <<hdr, nBackfill, mark, idx, shared, excl, file, disk, db, dbDisk>>
  BY DEF Pick, Sees, index, locks, files
<1>2. mx \in Nat /\ mark \in [Marks -> Nat]
  BY Digest
<1>3. best \in 0 .. mx
  <2> DEFINE S == {0} \cup {mark[i] : i \in fit}
  <2>1. S \in SUBSET (0 .. mx) /\ S # {}
    BY <1>2
  <2>2. MaxOf(S) \in S
    BY <1>2, <2>1, Greatest
  <2> QED
    BY <2>1, <2>2
<1>4. slot \in ReadLocks
  <2> DEFINE S == {0} \cup {i \in fit : mark[i] = best}
  <2>1. NREADER - 1 \in Nat /\ S \in SUBSET (0 .. NREADER - 1) /\ S # {}
    BY WalAssumption DEF Marks
  <2>2. MaxOf(S) \in S
    BY <2>1, Greatest
  <2> QED
    BY <2>1, <2>2 DEF ReadLocks
<1>5. pc \in {"raise", "share"}
  OBVIOUS
<1> HIDE DEF best, slot, pc
<1>6. /\ Only(c) /\ conn'[c].slot = slot /\ conn'[c].seen = best /\ conn'[c].pc = pc
      /\ conn'[c].min = conn[c].min /\ conn'[c].useWal = conn[c].useWal
      /\ SameWork(c) /\ SameCkpt(c) /\ SameCopy(c)
  BY <1>1, SeesSets
<1>7. Typed(c) /\ Caches(c)
  BY Stands
<1>8. Typed(c)'
  BY <1>2, <1>3, <1>4, <1>6, <1>7 DEF Typed, SameWork, SameCkpt, SameCopy
<1>9. Owns(c)' /\ \A i \in ReadLocks : Shares(c, i)' <=> Shares(c, i)
  BY <1>1, <1>5, <1>6 DEF Owns, Shares, InSlot, NoSlot
<1>10. SlotsHeld' /\ shared' \in [ReadLocks -> SUBSET Conns] /\ excl' \in SUBSET ReadLocks
  BY <1>1, <1>6, <1>9, SlotsStay
<1>11. store' = store => Caches(c)'
  BY <1>1, <1>5, <1>6, <1>7 DEF Caches, SameCkpt, SameCopy, InSlot, Checkpointing
<1>12. conn'[c].seen <= conn'[c].hdr.mx
  BY <1>2, <1>3, <1>6 DEF SameCopy
<1>13. conn'[c].useWal => /\ Rejoins(c) /\ conn'[c].hdr = conn[c].hdr
                          /\ conn'[c].list = conn[c].list
  BY <1>6 DEF Rejoins, SameWork, SameCopy
<1> QED
  BY <1>1, <1>5, <1>6, <1>8, <1>10, <1>11, <1>12, <1>13, LooksOn DEF Outside

LEMMA RaiseKeeps ==
  ASSUME WalInv, WalInv', StoreInv, NEW c \in Conns, Raise(c), RememberStep PROVE StoreInv'
<1> DEFINE free == {i \in Marks : CanOwn(i)}
           m == MinOf(free)
           mx == conn[c].hdr.mx
<1>1. /\ conn[c].pc = "raise"
      /\ UNCHANGED <<hdr, nBackfill, idx, shared, excl, file, disk, db, dbDisk>>
  BY DEF Raise, locks, files
<1>2. mx \in Nat /\ mark \in [Marks -> Nat]
  BY Digest
<1>3. CASE free # {}
  <2>1. m \in free
    <3>1. free \in SUBSET Nat
      BY WalAssumption DEF Marks
    <3> QED
      BY <1>3, <3>1, Least
  <2>2. m \in Marks /\ m \in ReadLocks /\ shared[m] = {}
    BY <2>1, WalAssumption DEF CanOwn, Marks, ReadLocks
  <2>3. Sees(c, m, mx, "share") /\ mark' = [mark EXCEPT ![m] = mx]
    BY <1>3 DEF Raise, Sees
  <2> HIDE DEF free, m
  <2>4. /\ Only(c) /\ conn'[c].slot = m /\ conn'[c].seen = mx /\ conn'[c].pc = "share"
        /\ conn'[c].min = conn[c].min /\ conn'[c].useWal = conn[c].useWal
        /\ SameWork(c) /\ SameCkpt(c) /\ SameCopy(c)
    BY <2>3, SeesSets
  <2>5. Typed(c) /\ Caches(c)
    BY Stands
  <2>6. Typed(c)'
    BY <1>2, <2>2, <2>4, <2>5 DEF Typed, SameWork, SameCkpt, SameCopy
  <2>7. Owns(c)' /\ \A i \in ReadLocks : Shares(c, i)' <=> Shares(c, i)
    BY <1>1, <2>4 DEF Owns, Shares, InSlot, NoSlot
  <2>8. SlotsHeld' /\ shared' \in [ReadLocks -> SUBSET Conns] /\ excl' \in SUBSET ReadLocks
    BY <1>1, <2>4, <2>7, SlotsStay
  <2>9. store' = store => Caches(c)'
    BY <1>1, <2>4, <2>5 DEF Caches, SameCkpt, SameCopy, InSlot, Checkpointing
  <2>10. conn'[c].seen <= conn'[c].hdr.mx
    BY <1>2, <2>4 DEF SameCopy
  <2>11. \A i \in Marks : mark'[i] = mark[i] \/ shared[i] = {}
    BY <1>2, <2>2, <2>3
  <2>12. conn'[c].useWal => /\ Rejoins(c) /\ conn'[c].hdr = conn[c].hdr
                            /\ conn'[c].list = conn[c].list
    BY <2>4 DEF Rejoins, SameWork, SameCopy
  <2> QED
    BY <1>1, <2>4, <2>6, <2>8, <2>9, <2>10, <2>11, <2>12, LooksOn DEF Outside
<1>4. CASE free = {} /\ conn[c].slot = 0
  <2>1. conn' = Abandoned(c) /\ mark' = mark
    BY <1>4 DEF Raise
  <2> QED
    BY <1>1, <2>1, GivingUpKeeps
<1>5. CASE free = {} /\ conn[c].slot # 0
  <2>1. GoesTo(c, "share") /\ mark' = mark
    BY <1>5 DEF Raise, GoesTo
  <2>2. Only(c) /\ conn'[c].pc = "share" /\ SameButPlace(c)
    BY <2>1, ToPlace
  <2>3. Owns(c)' /\ \A i \in ReadLocks : Shares(c, i)' <=> Shares(c, i)
    BY <1>1, <2>2 DEF Owns, Shares, InSlot, NoSlot
  <2>4. SlotsHeld' /\ shared' \in [ReadLocks -> SUBSET Conns] /\ excl' \in SUBSET ReadLocks
    BY <1>1, <2>2, <2>3, SlotsStay
  <2> QED
    BY <1>1, <2>1, <2>2, <2>4, PlaceKeeps DEF Outside, Checkpointing
<1> QED
  BY <1>3, <1>4, <1>5

LEMMA ShareKeeps ==
  ASSUME WalInv, WalInv', StoreInv, NEW c \in Conns, Share(c), RememberStep PROVE StoreInv'
<1>1. /\ conn[c].pc = "share" /\ excl' = excl
      /\ UNCHANGED <<hdr, nBackfill, mark, idx, file, disk, db, dbDisk>>
  BY DEF Share, index, files
<1>2. CASE CanShare(conn[c].slot)
  <2>1. /\ GoesTo(c, "min") /\ shared' = [shared EXCEPT ![conn[c].slot] = @ \cup {c}]
        /\ conn[c].slot \notin excl
    BY <1>2 DEF Share, GoesTo, CanShare
  <2>2. Only(c) /\ conn'[c].pc = "min" /\ SameButPlace(c)
    BY <2>1, ToPlace
  <2>3. conn[c].slot \in ReadLocks
    BY Stands DEF Typed
  <2>4. Owns(c)' /\ \A i \in ReadLocks : Shares(c, i)' <=> i = conn[c].slot
    BY <2>2 DEF Owns, Shares, InSlot, NoSlot, SameButPlace, SameLook
  <2>5. SlotsHeld' /\ shared' \in [ReadLocks -> SUBSET Conns] /\ excl' \in SUBSET ReadLocks
    BY <1>1, <2>1, <2>2, <2>3, <2>4, SlotTaken DEF InSlot
  <2> QED
    BY <1>1, <2>2, <2>5, PlaceKeeps DEF Outside, Checkpointing
<1>3. CASE ~CanShare(conn[c].slot)
  <2>1. conn' = Abandoned(c) /\ shared' = shared
    BY <1>3 DEF Share
  <2> QED
    BY <1>1, <2>1, GivingUpKeeps
<1> QED
  BY <1>2, <1>3

LEMMA ReadMinKeeps ==
  ASSUME WalInv, WalInv', StoreInv, NEW c \in Conns, ReadMin(c), RememberStep PROVE StoreInv'
<1>1. /\ conn[c].pc = "min"
      /\ UNCHANGED <<hdr, nBackfill, mark, idx, shared, excl, file, disk, db, dbDisk>>
  BY DEF ReadMin, index, locks, files
<1>2. /\ Only(c) /\ conn'[c].min = nBackfill + 1 /\ conn'[c].pc = "check"
      /\ conn'[c].slot = conn[c].slot /\ conn'[c].seen = conn[c].seen
      /\ conn'[c].useWal = conn[c].useWal /\ SameWork(c) /\ SameCkpt(c) /\ SameCopy(c)
  BY ReadMinSets
<1>3. Typed(c) /\ Caches(c) /\ WithinMark(c) /\ nBackfill \in Nat
  BY Stands, Digest
<1>4. Typed(c)'
  BY <1>2, <1>3 DEF Typed, SameWork, SameCkpt, SameCopy
<1>5. Owns(c)' /\ \A i \in ReadLocks : Shares(c, i)' <=> Shares(c, i)
  BY <1>1, <1>2 DEF Owns, Shares, InSlot, NoSlot
<1>6. SlotsHeld' /\ shared' \in [ReadLocks -> SUBSET Conns] /\ excl' \in SUBSET ReadLocks
  BY <1>1, <1>2, <1>5, SlotsStay
<1>7. store' = store => Caches(c)'
  BY <1>1, <1>2, <1>3 DEF Caches, SameCkpt, SameCopy, InSlot, Checkpointing
<1>8. conn'[c].seen <= conn'[c].hdr.mx
  BY <1>1, <1>2, <1>3 DEF WithinMark, SameCopy
<1>9. conn'[c].useWal => /\ Rejoins(c) /\ conn'[c].hdr = conn[c].hdr
                         /\ conn'[c].list = conn[c].list
  BY <1>2 DEF Rejoins, SameWork, SameCopy
<1>10. conn'[c].min <= nBackfill + 1
  BY <1>2, <1>3
<1> QED
  BY <1>1, <1>2, <1>4, <1>6, <1>7, <1>8, <1>9, <1>10, LooksOn DEF Outside

LEMMA CheckFails ==
  ASSUME WalInv, WalInv', StoreInv, NEW c \in Conns, Check(c), ~SameIndex(c), RememberStep
  PROVE  StoreInv'
<1>1. /\ conn[c].pc = "check" /\ conn' = Abandoned(c)
      /\ shared' = [shared EXCEPT ![conn[c].slot] = @ \ {c}]
      /\ UNCHANGED <<hdr, nBackfill, mark, idx, excl, file, disk, db, dbDisk>>
  BY DEF Check, index, files
<1> QED
  BY <1>1, GivingUpKeeps

(* The newest commit, as it is read under the header of now.                 *)
LEMMA NewestGiven ==
  ASSUME WalInv, StoreInv, hdr.init, NEW lo \in Nat \ {0}, lo <= nBackfill + 1
  PROVE  Gives(idx, lo, hdr.mx, file.frame, db, store)
<1>1. GivesAll(idx, nBackfill, hdr.mx, file.frame, db, store)
  BY DEF StoreInv, Newest
<1>2. nBackfill \in Nat /\ hdr.mx \in Nat
  BY DEF WalInv, WalShape, Drawn, Header
<1> QED
  BY <1>1, <1>2, GivesFrom

LEMMA NewestInDb ==
  ASSUME WalInv, StoreInv, hdr.init, nBackfill = hdr.mx
  PROVE  db = store
<1>1. GivesAll(idx, nBackfill, hdr.mx, file.frame, db, store)
  BY DEF StoreInv, Newest
<1>2. nBackfill \in Nat /\ hdr.mx \in Nat
  BY DEF WalInv, WalShape, Drawn, Header
<1>3. db = [p \in Pages |-> db[p]] /\ store = [p \in Pages |-> store[p]]
  BY DEF StoreInv, Contents
<1> QED
  BY <1>1, <1>2, <1>3, AllCopied

LEMMA TypedAtRest ==
  ASSUME NEW c \in Conns, AtRest(c), conn'[c].hdr.mx <= MaxFrame PROVE Typed(c)'
<1>1. conn'[c].slot \in ReadLocks /\ conn'[c].seen \in Nat /\ conn'[c].min \in Nat \ {0}
  BY WalAssumption DEF AtRest, ReadLocks
<1>2. conn'[c].n <= MaxFrame /\ conn'[c].i \in Nat
  BY WalAssumption DEF AtRest
<1>3. /\ conn'[c].list \in SUBSET Pages /\ conn'[c].copy \in SUBSET (Pages \X Frames)
      /\ conn'[c].commit \in BOOLEAN /\ conn'[c].changed \in BOOLEAN
  BY Zenon DEF AtRest
<1> QED
  BY <1>1, <1>2, <1>3 DEF Typed

LEMMA EndReadKeeps ==
  ASSUME WalInv, WalInv', StoreInv, NEW c \in Conns, EndRead(c), RememberStep PROVE StoreInv'
<1>1. /\ conn[c].pc = "read" /\ excl' = excl
      /\ shared' = [shared EXCEPT ![conn[c].slot] = @ \ {c}]
      /\ UNCHANGED <<hdr, nBackfill, mark, idx, file, disk, db, dbDisk>>
  BY DEF EndRead, index, files
<1>2. Only(c) /\ AtRest(c) /\ conn'[c].hdr = conn[c].hdr /\ conn'[c].cache = View(c)
  BY EndReadSets
<1>3. Typed(c) /\ WithinMark(c) /\ AllBackfilled(c) /\ SeenHeader(c) /\ Contents
  BY Stands, Digest
<1>5. Typed(c)'
  BY <1>2, <1>3, TypedAtRest DEF Typed
<1>6. conn[c].slot \in ReadLocks /\ Shares(c, conn[c].slot)
  BY <1>1, <1>3 DEF Typed, Shares, InSlot
<1>7. Owns(c)' /\ \A i \in ReadLocks : ~Shares(c, i)'
  BY <1>2 DEF Owns, Shares, InSlot, AtRest
<1>8. SlotsHeld' /\ shared' \in [ReadLocks -> SUBSET Conns] /\ excl' \in SUBSET ReadLocks
  BY <1>1, <1>2, <1>6, <1>7, SlotLeft
<1>9. conn[c].hdr = hdr => View(c) = store
  <2>1. SUFFICES ASSUME conn[c].hdr = hdr PROVE View(c) = store
    OBVIOUS
  <2>2. hdr.init
    BY <1>1, <1>3 DEF SeenHeader
  <2>3. CASE conn[c].slot = 0
    BY <1>1, <1>3, <2>1, <2>2, <2>3, NewestInDb DEF View, AllBackfilled, ReadsDatabase
  <2>4. CASE conn[c].slot # 0
    <3>1. conn[c].min \in Nat \ {0} /\ conn[c].min <= nBackfill + 1 /\ hdr.mx \in Nat
      BY <1>1, <1>3, <2>4, Digest DEF Typed, WithinMark, ReadsLog
    <3>2. Gives(idx, conn[c].min, hdr.mx, file.frame, db, store)
      BY <2>2, <3>1, NewestGiven
    <3>3. store = [p \in Pages |-> store[p]]
      BY <1>3 DEF Contents
    <3>4. [p \in Pages |-> PageAt(p, conn[c].min, hdr.mx)] = store
      BY <3>1, <3>2, <3>3, PagesGiven
    <3> QED
      BY <2>1, <2>4, <3>4 DEF View
  <2> QED
    BY <2>3, <2>4
<1>10. store' = store => Caches(c)'
  BY <1>1, <1>2, <1>9 DEF Caches, AtRest, InSlot
<1> QED
  BY <1>1, <1>2, <1>5, <1>8, <1>10, LooksOn DEF Outside, AtRest

LEMMA RejoinKeeps ==
  ASSUME WalInv, WalInv', StoreInv, NEW c \in Conns, Rejoin(c), RememberStep PROVE StoreInv'
<1>1. /\ conn[c].pc = "rejoin" /\ excl' = excl /\ shared' = [shared EXCEPT ![0] = @ \ {c}]
      /\ UNCHANGED <<hdr, nBackfill, mark, idx, file, disk, db, dbDisk>>
  BY DEF Rejoin, index, files
<1>2. /\ Only(c) /\ conn'[c].useWal = TRUE /\ conn'[c].pc = "pick"
      /\ conn'[c].slot = conn[c].slot /\ conn'[c].seen = conn[c].seen
      /\ conn'[c].min = conn[c].min /\ SameWork(c) /\ SameCkpt(c) /\ SameCopy(c)
  BY RejoinSets
<1>3. Typed(c) /\ Caches(c) /\ Owns(c)
  BY Stands
<1>4. Typed(c)'
  BY <1>2, <1>3 DEF Typed, SameWork, SameCkpt, SameCopy
<1>5. 0 \in ReadLocks /\ Shares(c, 0)
  BY <1>1, <1>3, WalAssumption DEF ReadLocks, Shares, Owns, NoSlot, InSlot
<1>6. Owns(c)' /\ \A i \in ReadLocks : ~Shares(c, i)'
  BY <1>2 DEF Owns, Shares, InSlot, NoSlot
<1>7. SlotsHeld' /\ shared' \in [ReadLocks -> SUBSET Conns] /\ excl' \in SUBSET ReadLocks
  BY <1>1, <1>2, <1>5, <1>6, SlotLeft
<1>8. store' = store => Caches(c)'
  BY <1>1, <1>2, <1>3 DEF Caches, SameCkpt, SameCopy, InSlot, Checkpointing
<1>9. Rejoins(c) /\ conn'[c].hdr = conn[c].hdr /\ conn'[c].list = conn[c].list
  BY <1>1, <1>2 DEF Rejoins, SameWork, SameCopy
<1> QED
  BY <1>1, <1>2, <1>4, <1>7, <1>8, <1>9, LooksOn DEF Outside

-----------------------------------------------------------------------------
(* The steps of a checkpoint.                                                *)

LEMMA BeginCheckpointKeeps ==
  ASSUME WalInv, WalInv', StoreInv, NEW c \in Conns, BeginCheckpoint(c), RememberStep
  PROVE  StoreInv'
<1>1. /\ conn[c].pc = "idle"
      /\ UNCHANGED <<hdr, nBackfill, mark, idx, shared, excl, file, disk, db, dbDisk>>
  BY DEF BeginCheckpoint, index, files
<1>2. /\ Only(c) /\ conn'[c].pc = "ckpt" /\ conn'[c].hdr = hdr
      /\ conn'[c].changed = (hdr # conn[c].hdr) /\ conn'[c].safe = conn[c].safe
      /\ conn'[c].i = conn[c].i /\ conn'[c].copy = conn[c].copy
      /\ conn'[c].cache = conn[c].cache /\ SameLook(c) /\ SameWork(c)
  BY BeginCheckpointSets
<1>3. Typed(c) /\ Caches(c) /\ Owns(c) /\ Contents /\ ~conn[c].useWal
  BY <1>1, Stands, Digest DEF LocksHeld, Joining
<1>4. Typed(c)'
  BY <1>2, <1>3 DEF Typed, Contents, SameLook, SameWork
<1>5. Owns(c)' /\ \A i \in ReadLocks : Shares(c, i)' <=> Shares(c, i)
  BY <1>1, <1>2, <1>3 DEF Owns, Shares, InSlot, NoSlot, SameLook
<1>6. SlotsHeld' /\ shared' \in [ReadLocks -> SUBSET Conns] /\ excl' \in SUBSET ReadLocks
  BY <1>1, <1>2, <1>5, SlotsStay
<1>7. store' = store => Caches(c)'
  BY <1>1, <1>2, <1>3 DEF Caches, SameLook, InSlot, Checkpointing
<1>8. ~conn'[c].useWal
  BY <1>2, <1>3 DEF SameLook
<1> QED
  BY <1>1, <1>2, <1>4, <1>6, <1>7, <1>8, LooksOn DEF Outside

(* The end of a checkpoint that has nothing to copy, or may not.             *)
LEMMA ToTheEnd ==
  ASSUME WalInv, WalInv', StoreInv, NEW c \in Conns, RememberStep, GoesTo(c, "endCkpt"),
         conn[c].pc \in {"ckpt", "marks"},
         UNCHANGED <<hdr, nBackfill, mark, idx, shared, excl, file, disk, db, dbDisk>>
  PROVE  StoreInv'
<1>1. Only(c) /\ conn'[c].pc = "endCkpt" /\ SameButPlace(c)
  BY ToPlace
<1>2. Owns(c)' /\ \A i \in ReadLocks : Shares(c, i)' <=> Shares(c, i)
  BY <1>1, Stands DEF Owns, Shares, InSlot, NoSlot, SameButPlace, SameLook
<1>3. SlotsHeld' /\ shared' \in [ReadLocks -> SUBSET Conns] /\ excl' \in SUBSET ReadLocks
  BY <1>1, <1>2, SlotsStay
<1> QED
  BY <1>1, <1>3, PlaceKeeps DEF Outside, Checkpointing

LEMMA StartCheckpointKeeps ==
  ASSUME WalInv, WalInv', StoreInv, NEW c \in Conns, StartCheckpoint(c), RememberStep
  PROVE  StoreInv'
<1>1. /\ conn[c].pc = "ckpt"
      /\ UNCHANGED <<hdr, nBackfill, mark, idx, shared, excl, file, disk, db, dbDisk>>
  BY DEF StartCheckpoint, index, locks, files
<1>2. CASE nBackfill < conn[c].hdr.mx
  <2>1. /\ Only(c) /\ conn'[c].pc = "marks" /\ conn'[c].safe = conn[c].hdr.mx
        /\ conn'[c].i = 1 /\ conn'[c].changed = conn[c].changed /\ conn'[c].copy = conn[c].copy
        /\ SameLook(c) /\ SameWork(c) /\ SameCopy(c)
    BY <1>2, StartCheckpointSets
  <2>2. Typed(c) /\ Caches(c) /\ Owns(c) /\ ~conn[c].useWal
    BY <1>1, Stands, Digest DEF LocksHeld, Joining
  <2>3. Typed(c)'
    BY <2>1, <2>2 DEF Typed, SameLook, SameWork, SameCopy
  <2>4. Owns(c)' /\ \A i \in ReadLocks : Shares(c, i)' <=> Shares(c, i)
    BY <1>1, <2>1, <2>2 DEF Owns, Shares, InSlot, NoSlot, SameLook
  <2>5. SlotsHeld' /\ shared' \in [ReadLocks -> SUBSET Conns] /\ excl' \in SUBSET ReadLocks
    BY <1>1, <2>1, <2>4, SlotsStay
  <2>6. store' = store => Caches(c)'
    BY <1>1, <2>1, <2>2 DEF Caches, SameLook, SameCopy, InSlot, Checkpointing
  <2>7. ASSUME NEW d \in Conns PROVE Spares(c, d)'
    <3>1. conn'[d].slot \in Nat
      <4>1. CASE d = c
        BY <2>3, <4>1 DEF Typed, ReadLocks
      <4>2. CASE d # c
        BY <2>1, <4>2, OthersSame, Stands DEF Typed, ReadLocks
      <4> QED
        BY <4>1, <4>2
    <3> QED
      BY <2>1, <3>1 DEF Spares, ReadsLog
  <2>8. ~conn'[c].useWal
    BY <2>1, <2>2 DEF SameLook
  <2> QED
    BY <1>1, <2>1, <2>3, <2>5, <2>6, <2>7, <2>8, LooksOn DEF Outside
<1>3. CASE ~(nBackfill < conn[c].hdr.mx)
  <2>1. GoesTo(c, "endCkpt")
    BY <1>3 DEF StartCheckpoint, GoesTo
  <2> QED
    BY <1>1, <2>1, ToTheEnd
<1> QED
  BY <1>2, <1>3

LEMMA TestMarkKeeps ==
  ASSUME WalInv, WalInv', StoreInv, NEW c \in Conns, TestMark(c), RememberStep PROVE StoreInv'
<1> DEFINE i == conn[c].i
           over == conn[c].safe > mark[i]
<1>1. /\ conn[c].pc = "marks" /\ i \in Marks
      /\ UNCHANGED <<hdr, nBackfill, idx, shared, excl, file, disk, db, dbDisk>>
      /\ mark' = IF over /\ CanOwn(i)
                 THEN [mark EXCEPT ![i] = IF i = 1 THEN conn[c].safe ELSE NotUsed] ELSE mark
  BY DEF TestMark, locks, files
<1>2. /\ Only(c) /\ conn'[c].i = i + 1
      /\ conn'[c].safe = IF over /\ ~CanOwn(i) THEN mark[i] ELSE conn[c].safe
      /\ conn'[c].changed = conn[c].changed /\ conn'[c].copy = conn[c].copy
      /\ conn'[c].pc = "marks"
      /\ SameLook(c) /\ SameWork(c) /\ SameCopy(c)
  BY <1>1, TestMarkSets
<1>3. /\ Typed(c) /\ Caches(c) /\ Owns(c) /\ ~conn[c].useWal /\ SlotsHeld
      /\ conn[c].safe \in Nat /\ mark \in [Marks -> Nat] /\ i \in Nat /\ mark[i] \in Nat
  BY <1>1, Stands, Digest DEF LocksHeld, Joining, Typed
<1>4. Typed(c)'
  BY <1>2, <1>3 DEF Typed, SameLook, SameWork, SameCopy
<1>5. Owns(c)' /\ \A k \in ReadLocks : Shares(c, k)' <=> Shares(c, k)
  BY <1>1, <1>2, <1>3 DEF Owns, Shares, InSlot, NoSlot, SameLook
<1>6. SlotsHeld' /\ shared' \in [ReadLocks -> SUBSET Conns] /\ excl' \in SUBSET ReadLocks
  BY <1>1, <1>2, <1>5, SlotsStay
<1>7. store' = store => Caches(c)'
  BY <1>1, <1>2, <1>3 DEF Caches, SameLook, SameCopy, InSlot, Checkpointing
<1>8. ~conn'[c].useWal
  BY <1>2, <1>3 DEF SameLook
<1>9. \A k \in Marks : mark'[k] = mark[k] \/ shared[k] = {}
  BY <1>1, <1>3 DEF CanOwn
<1>10. ASSUME NEW d \in Conns PROVE Spares(c, d)'
  <2>1. SUFFICES ASSUME ReadsLog(d)', i + 1 > conn'[d].slot
                 PROVE  conn'[c].safe <= Base(d)'
    BY <1>2 DEF Spares
  <2>2. d # c
    BY <1>2, <2>1 DEF ReadsLog
  <2>3. conn'[d] = conn[d]
    BY <1>2, <2>2, OthersSame
  <2>4. ReadsLog(d) /\ Base(d)' = Base(d) /\ i + 1 > conn[d].slot
    BY <1>1, <2>1, <2>3 DEF ReadsLog, Base, Writing
  <2>5. /\ conn[d].slot \in Marks /\ d \in shared[conn[d].slot] /\ Base(d) \in Nat
        /\ mark[conn[d].slot] <= Base(d)
    BY <2>4, LogReader
  <2>6. CASE i > conn[d].slot
    <3>1. conn[c].safe <= Base(d)
      BY <1>1, <2>4, <2>6, Stands DEF Spares
    <3> QED
      BY <1>2, <1>3, <2>4, <2>5, <3>1
  <2>7. CASE i = conn[d].slot
    <3>1. ~CanOwn(i)
      BY <2>5, <2>7 DEF CanOwn
    <3> QED
      BY <1>2, <1>3, <2>4, <2>5, <2>7, <3>1
  <2>8. conn[d].slot \in Nat
    BY <2>5 DEF Marks
  <2> QED
    BY <1>3, <2>4, <2>6, <2>7, <2>8
<1> QED
  BY <1>1, <1>2, <1>4, <1>6, <1>7, <1>8, <1>9, <1>10, LooksOn DEF Outside

LEMMA EndCheckpointKeeps ==
  ASSUME WalInv, WalInv', StoreInv, NEW c \in Conns, EndCheckpoint(c), RememberStep
  PROVE  StoreInv'
<1>1. /\ conn[c].pc = "endCkpt"
      /\ UNCHANGED <<hdr, nBackfill, mark, idx, shared, excl, file, disk, db, dbDisk>>
  BY DEF EndCheckpoint, index, files
<1>2. Only(c) /\ AtRest(c) /\ conn'[c].hdr = HdrToKeep(c) /\ conn'[c].cache = conn[c].cache
  BY EndCheckpointSets
<1>3. Typed(c) /\ Caches(c) /\ SeenHeader(c)
  BY Stands, Digest
<1>4. Typed(c)'
  <2>1. HdrToKeep(c).mx <= MaxFrame
    BY <1>3, WalAssumption DEF Typed, HdrToKeep, NoHdr
  <2> QED
    BY <1>2, <2>1, TypedAtRest
<1>5. Owns(c)' /\ \A i \in ReadLocks : Shares(c, i)' <=> Shares(c, i)
  BY <1>1, <1>2 DEF Owns, Shares, InSlot, AtRest
<1>6. SlotsHeld' /\ shared' \in [ReadLocks -> SUBSET Conns] /\ excl' \in SUBSET ReadLocks
  BY <1>1, <1>2, <1>5, SlotsStay
<1>7. conn'[c].hdr = hdr => ~conn[c].changed /\ conn[c].hdr = hdr
  <2>1. hdr.init /\ ~NoHdr.init
    BY <1>1, <1>3 DEF SeenHeader, NoHdr
  <2> QED
    BY <1>2, <2>1 DEF HdrToKeep
<1>8. store' = store => Caches(c)'
  BY <1>1, <1>2, <1>3, <1>7 DEF Caches, AtRest, InSlot
<1> QED
  BY <1>1, <1>2, <1>4, <1>6, <1>8, LooksOn DEF Outside, AtRest

-----------------------------------------------------------------------------
(* The steps of a transaction that leave the pages of the log.               *)

LEMMA JoinsToWrite ==
  ASSUME WalInv, NEW c \in Conns, conn[c].pc \notin Joining
  PROVE  ~conn[c].useWal
BY Digest DEF LocksHeld

LEMMA Check0Keeps ==
  ASSUME WalInv, WalInv', StoreInv, NEW c \in Conns, Check0(c), hdr = conn[c].hdr, RememberStep
  PROVE  StoreInv'
<1>1. /\ conn[c].pc = "check0"
      /\ UNCHANGED <<hdr, nBackfill, mark, idx, shared, excl, file, disk, db, dbDisk>>
  BY DEF Check0, index, files
<1>2. /\ Only(c) /\ conn'[c].pc = "read" /\ conn'[c].cache = NoState
      /\ conn'[c].hdr = conn[c].hdr /\ SameLook(c) /\ SameWork(c) /\ SameCkpt(c)
  BY Check0Sets
<1>3. Typed(c) /\ Owns(c) /\ AllBackfilled(c) /\ SeenHeader(c) /\ Contents /\ ~conn[c].useWal
  BY <1>1, Stands, Digest, JoinsToWrite DEF Joining
<1>4. conn[c].slot = 0 /\ hdr.init /\ nBackfill = hdr.mx
  BY <1>1, <1>3 DEF Owns, NoSlot, SeenHeader, AllBackfilled, ReadsDatabase
<1>5. db = store
  BY <1>4, NewestInDb
<1>6. /\ snap' = [d \in Conns |-> snap'[d]] /\ \A d \in Conns \ {c} : snap'[d] = snap[d]
      /\ snap'[c] = store /\ store' = store
  BY <1>1, <1>2, Remembers DEF Begins, Commits
<1>7. Typed(c)'
  BY <1>2, <1>3 DEF Typed, SameLook, SameWork, SameCkpt
<1>8. Owns(c)' /\ \A i \in ReadLocks : Shares(c, i)' <=> Shares(c, i)
  BY <1>1, <1>2 DEF Owns, Shares, InSlot, NoSlot, SameLook
<1>9. SlotsHeld' /\ shared' \in [ReadLocks -> SUBSET Conns] /\ excl' \in SUBSET ReadLocks
  BY <1>1, <1>2, <1>8, SlotsStay
<1>10. ~ReadsLog(c)' /\ ~Rejoins(c)'
  BY <1>2, <1>3, <1>4 DEF ReadsLog, Rejoins, SameLook
<1>11. Keeping(c)'
  BY <1>1, <1>2, <1>5, <1>6, <1>10 DEF Keeping, WithinMark, ReadsItsSnap, WritesOn, Copies, Caches
<1>12. ASSUME NEW d \in Conns PROVE Spares(c, d)' /\ Spares(d, c)'
  BY <1>2, <1>10 DEF Spares
<1>13. Framed(disk.frame)'
  BY <1>1, <1>3 DEF Contents, Framed
<1> QED
  BY <1>1, <1>2, <1>6, <1>7, <1>9, <1>11, <1>12, <1>13, Quietly

LEMMA CheckPasses ==
  ASSUME WalInv, WalInv', StoreInv, NEW c \in Conns, Check(c), SameIndex(c), RememberStep
  PROVE  StoreInv'
<1>1. /\ conn[c].pc = "check" /\ hdr = conn[c].hdr /\ mark[conn[c].slot] = conn[c].seen
      /\ UNCHANGED <<hdr, nBackfill, mark, idx, shared, excl, file, disk, db, dbDisk>>
  BY DEF Check, SameIndex, index, files
<1>2. /\ Only(c) /\ conn'[c].pc = IF conn[c].useWal THEN "header" ELSE "read"
      /\ conn'[c].useWal = FALSE /\ conn'[c].seen = 0 /\ conn'[c].cache = NoState
      /\ conn'[c].slot = conn[c].slot /\ conn'[c].min = conn[c].min
      /\ conn'[c].hdr = conn[c].hdr /\ SameWork(c) /\ SameCkpt(c)
  BY CheckSets
<1>3. /\ Typed(c) /\ Owns(c) /\ WithinMark(c) /\ ReadsItsSnap(c) /\ WritesOn(c)
      /\ AllBackfilled(c) /\ SeenHeader(c) /\ Contents
      /\ hdr.mx \in Nat /\ nBackfill \in Nat
  BY Stands, Digest
<1>4. conn[c].slot # 0 /\ hdr.init /\ conn[c].min \in Nat \ {0} /\ conn[c].min <= nBackfill + 1
  BY <1>1, <1>3 DEF SeenHeader, AllBackfilled, Typed, WithinMark
<1>5. /\ snap' = [d \in Conns |-> snap'[d]] /\ \A d \in Conns \ {c} : snap'[d] = snap[d]
      /\ snap'[c] = store /\ store' = store
  <2>1. ~Commits(c) /\ ~RollsBack(c) /\ ~Puts(c)
    BY <1>1 DEF Commits, RollsBack, Puts
  <2>2. CASE conn[c].useWal
    <3>1. ~Begins(c) /\ snap[c] = store
      BY <1>2, <1>3, <2>2 DEF Begins, ReadsItsSnap, Rejoins
    <3> QED
      BY <1>2, <2>1, <3>1, Remembers
  <2>3. CASE ~conn[c].useWal
    <3>1. Begins(c)
      BY <1>1, <1>2, <2>3 DEF Begins
    <3> QED
      BY <1>2, <2>1, <3>1, Remembers
  <2> QED
    BY <2>2, <2>3
<1>6. Typed(c)'
  BY <1>2, <1>3 DEF Typed, SameWork, SameCkpt
<1>7. Owns(c)' /\ \A i \in ReadLocks : Shares(c, i)' <=> Shares(c, i)
  BY <1>1, <1>2 DEF Owns, Shares, InSlot, NoSlot
<1>8. SlotsHeld' /\ shared' \in [ReadLocks -> SUBSET Conns] /\ excl' \in SUBSET ReadLocks
  BY <1>1, <1>2, <1>7, SlotsStay
<1>9. /\ conn'[c].pc \in {"read", "header"} /\ ReadsLog(c)' /\ ~Rejoins(c)'
      /\ Base(c)' = hdr.mx /\ End(c)' = hdr.mx /\ Index(c)' = idx
  BY <1>1, <1>2, <1>4 DEF ReadsLog, Rejoins, Base, Writing, End, Index
<1>10. WithinMark(c)'
  BY <1>1, <1>2, <1>3, <1>4, <1>9 DEF WithinMark
<1>11. ReadsItsSnap(c)'
  <2>1. Gives(idx, conn[c].min, hdr.mx, file.frame, db, store)
    BY <1>4, NewestGiven
  <2>2. store = [p \in Pages |-> store[p]]
    BY <1>3 DEF Contents
  <2> QED
    BY <1>1, <1>2, <1>4, <1>5, <1>9, <2>1, <2>2 DEF ReadsItsSnap
<1>12. WritesOn(c)'
  <2>1. SUFFICES ASSUME conn'[c].pc = "header" PROVE WritesOn(c)'
    BY <1>9 DEF WritesOn
  <2>2. Rejoins(c) /\ conn'[c].list = conn[c].list
    BY <1>2, <2>1 DEF Rejoins, SameWork
  <2>3. conn[c].hdr.mx + Cardinality(conn[c].list) <= MaxFrame /\ conn[c].list # {}
    BY <1>3, <2>2 DEF WritesOn
  <2>4. Cardinality(New(c, conn[c].list)') <= Cardinality(conn[c].list)
    <3>1. New(c, conn[c].list)' \subseteq conn[c].list
      BY <2>2 DEF New
    <3>2. IsFiniteSet(conn[c].list)
      <4>1. IsFiniteSet(Pages)
        BY FS_Interval, WalAssumption DEF Pages
      <4> QED
        BY <1>3, <4>1, FS_Subset DEF Typed
    <3> QED
      BY <3>1, <3>2, FS_Subset
  <2>5. Cardinality(conn[c].list) \in Nat /\ Cardinality(New(c, conn[c].list)') \in Nat
    <3>1. IsFiniteSet(Pages)
      BY FS_Interval, WalAssumption DEF Pages
    <3>2. conn[c].list \subseteq Pages /\ New(c, conn[c].list)' \subseteq Pages
      BY <1>3, <2>2 DEF New, Typed
    <3> QED
      BY <3>1, <3>2, FS_Subset, FS_CardinalityType
  <2> QED
    BY <1>1, <1>2, <1>3, <1>9, <2>1, <2>2, <2>3, <2>4, <2>5, WalAssumption DEF WritesOn
<1>13. Copies(c)' /\ Caches(c)'
  BY <1>2, <1>9 DEF Copies, Caches
<1>14. ASSUME NEW d \in Conns PROVE Spares(c, d)' /\ Spares(d, c)'
  <2>1. Spares(c, d)'
    BY <1>9 DEF Spares
  <2>2. Spares(d, c)'
    <3>1. CASE d = c
      BY <2>1, <3>1
    <3>2. CASE d # c
      <4>1. conn'[d] = conn[d]
        BY <1>2, <3>2, OthersSame
      <4>2. conn[d].pc \in {"copy", "marks"} => conn[d].safe <= hdr.mx
        BY Digest DEF StillToCopy
      <4> QED
        BY <1>9, <4>1, <4>2 DEF Spares
    <3> QED
      BY <3>1, <3>2
  <2> QED
    BY <2>1, <2>2
<1>15. Keeping(c)'
  BY <1>10, <1>11, <1>12, <1>13 DEF Keeping
<1>16. Framed(disk.frame)'
  BY <1>1, <1>3 DEF Contents, Framed
<1> QED
  BY <1>1, <1>2, <1>5, <1>6, <1>8, <1>14, <1>15, <1>16, Quietly

LEMMA SparesOn ==
  ASSUME WalInv, StoreInv, NEW c \in Conns, Only(c), conn'[c].pc \notin {"copy", "marks"},
         ReadsLog(c)' => /\ ReadsLog(c) /\ conn'[c].slot = conn[c].slot
                         /\ Base(c)' \in Nat /\ Base(c) <= Base(c)',
         NEW d \in Conns
  PROVE  Spares(c, d)' /\ Spares(d, c)'
<1>1. Spares(c, d)'
  BY DEF Spares
<1>2. Spares(d, c)'
  <2>1. CASE d = c
    BY <1>1, <2>1
  <2>2. CASE d # c /\ ReadsLog(c)'
    <3>1. conn'[d] = conn[d] /\ Spares(d, c) /\ conn[d].safe \in Nat
      BY <2>2, OthersSame, Stands, Digest
    <3>2. Base(c) \in Nat
      BY <2>2, LogReader
    <3> QED
      BY <2>2, <3>1, <3>2 DEF Spares
  <2>3. CASE ~ReadsLog(c)'
    BY <2>3 DEF Spares
  <2> QED
    BY <2>1, <2>2, <2>3
<1> QED
  BY <1>1, <1>2

LEMMA BeginWriteKeeps ==
  ASSUME WalInv, WalInv', StoreInv, NEW c \in Conns, BeginWrite(c), RememberStep PROVE StoreInv'
<1>1. /\ conn[c].pc = "read" /\ hdr = conn[c].hdr
      /\ UNCHANGED <<hdr, nBackfill, mark, idx, shared, excl, file, disk, db, dbDisk>>
  BY DEF BeginWrite, CanWrite, index, files
<1>2. /\ Only(c) /\ conn'[c].pc = "write" /\ SameLook(c) /\ SameWork(c) /\ SameCkpt(c)
      /\ SameCopy(c)
  BY BeginWriteSets
<1>3. /\ Typed(c) /\ WithinMark(c) /\ ReadsItsSnap(c) /\ Caches(c) /\ Contents /\ ~conn[c].useWal
      /\ hdr.mx \in Nat
  BY <1>1, Stands, Digest, JoinsToWrite DEF Joining
<1>4. /\ snap' = [d \in Conns |-> snap'[d]] /\ \A d \in Conns \ {c} : snap'[d] = snap[d]
      /\ snap'[c] = snap[c] /\ store' = store
  BY <1>1, <1>2, Remembers DEF Begins, RollsBack, Puts, Commits
<1>5. Typed(c)'
  BY <1>2, <1>3 DEF Typed, SameLook, SameWork, SameCkpt, SameCopy
<1>6. Owns(c)' /\ \A i \in ReadLocks : Shares(c, i)' <=> Shares(c, i)
  BY <1>1, <1>2 DEF Owns, Shares, InSlot, NoSlot, SameLook
<1>7. SlotsHeld' /\ shared' \in [ReadLocks -> SUBSET Conns] /\ excl' \in SUBSET ReadLocks
  BY <1>1, <1>2, <1>6, SlotsStay
<1>8. (ReadsLog(c)' <=> ReadsLog(c)) /\ ~Rejoins(c)'
  BY <1>1, <1>2, <1>3 DEF ReadsLog, Rejoins, SameLook
<1>9. Base(c)' = Base(c) /\ Index(c)' = Index(c) /\ End(c)' = End(c)
  BY <1>1, <1>2, <1>3 DEF Base, Writing, Index, End, SameLook, SameCopy
<1>10. WithinMark(c)'
  BY <1>1, <1>2, <1>3, <1>8, <1>9 DEF WithinMark, SameLook
<1>11. ReadsItsSnap(c)'
  BY <1>1, <1>2, <1>3, <1>4, <1>8, <1>9 DEF ReadsItsSnap, SameLook
<1>12. WritesOn(c)' /\ Copies(c)'
  BY <1>2, <1>8 DEF WritesOn, Copies
<1>13. Caches(c)'
  BY <1>1, <1>2, <1>3 DEF Caches, SameCopy, InSlot
<1>14. Keeping(c)'
  BY <1>10, <1>11, <1>12, <1>13 DEF Keeping
<1>15. ASSUME NEW d \in Conns PROVE Spares(c, d)' /\ Spares(d, c)'
  <2>1. ReadsLog(c) => Base(c) \in Nat
    BY LogReader
  <2> QED
    BY <1>2, <1>8, <1>9, <2>1, SparesOn DEF SameLook
<1>16. Framed(disk.frame)'
  BY <1>1, <1>3 DEF Contents, Framed
<1> QED
  BY <1>1, <1>2, <1>4, <1>5, <1>7, <1>14, <1>15, <1>16, Quietly

LEMMA EndWriteKeeps ==
  ASSUME WalInv, WalInv', StoreInv, NEW c \in Conns, EndWrite(c), RememberStep PROVE StoreInv'
<1>1. /\ conn[c].pc = "done"
      /\ UNCHANGED <<hdr, nBackfill, mark, idx, shared, excl, file, disk, db, dbDisk>>
  BY DEF EndWrite, index, files
<1>2. /\ Only(c) /\ conn'[c].pc = "read" /\ SameLook(c) /\ SameWork(c) /\ SameCkpt(c)
      /\ SameCopy(c)
  BY EndWriteSets
<1>3. /\ Typed(c) /\ WithinMark(c) /\ ReadsItsSnap(c) /\ Caches(c) /\ Contents /\ ~conn[c].useWal
      /\ hdr.mx \in Nat /\ conn[c].hdr = hdr /\ conn[c].slot # 0
  BY <1>1, Stands, Digest, JoinsToWrite DEF Joining, HeaderGrows, AllBackfilled
<1>4. /\ snap' = [d \in Conns |-> snap'[d]] /\ \A d \in Conns \ {c} : snap'[d] = snap[d]
      /\ snap'[c] = snap[c] /\ store' = store
  BY <1>1, <1>2, Remembers DEF Begins, RollsBack, Puts, Commits
<1>5. Typed(c)'
  BY <1>2, <1>3 DEF Typed, SameLook, SameWork, SameCkpt, SameCopy
<1>6. Owns(c)' /\ \A i \in ReadLocks : Shares(c, i)' <=> Shares(c, i)
  BY <1>1, <1>2 DEF Owns, Shares, InSlot, NoSlot, SameLook
<1>7. SlotsHeld' /\ shared' \in [ReadLocks -> SUBSET Conns] /\ excl' \in SUBSET ReadLocks
  BY <1>1, <1>2, <1>6, SlotsStay
<1>8. /\ ReadsLog(c) /\ ReadsLog(c)' /\ ~Rejoins(c)'
  BY <1>1, <1>2, <1>3 DEF ReadsLog, Rejoins, SameLook
<1>9. Base(c)' = Base(c) /\ Index(c)' = Index(c) /\ End(c)' = End(c)
  BY <1>1, <1>2, <1>3 DEF Base, Writing, Index, End, SameLook, SameCopy
<1>10. WithinMark(c)'
  BY <1>1, <1>2, <1>3, <1>8, <1>9 DEF WithinMark, SameLook
<1>11. ReadsItsSnap(c)'
  BY <1>1, <1>2, <1>3, <1>4, <1>8, <1>9 DEF ReadsItsSnap, SameLook
<1>12. WritesOn(c)' /\ Copies(c)'
  BY <1>2, <1>8 DEF WritesOn, Copies
<1>13. Caches(c)'
  BY <1>1, <1>2, <1>3 DEF Caches, SameCopy, InSlot
<1>14. Keeping(c)'
  BY <1>10, <1>11, <1>12, <1>13 DEF Keeping
<1>15. ASSUME NEW d \in Conns PROVE Spares(c, d)' /\ Spares(d, c)'
  <2>1. Base(c) \in Nat
    BY <1>8, LogReader
  <2> QED
    BY <1>2, <1>8, <1>9, <2>1, SparesOn DEF SameLook
<1>16. Framed(disk.frame)'
  BY <1>1, <1>3 DEF Contents, Framed
<1> QED
  BY <1>1, <1>2, <1>4, <1>5, <1>7, <1>14, <1>15, <1>16, Quietly

(* A write begun under read lock 0 writes upon the newest commit, which the   *)
(* database has.                                                             *)
LEMMA WritesOnNewest ==
  ASSUME WalInv, StoreInv, NEW c \in Conns, conn[c].pc = "write", conn[c].slot = 0
  PROVE  conn[c].hdr = hdr /\ nBackfill = hdr.mx /\ hdr.init /\ snap[c] = store /\ db = store
<1>1. AllBackfilled(c) /\ SeenHeader(c) /\ ReadsItsSnap(c)
  BY Stands, Digest
<1>2. conn[c].hdr = hdr /\ nBackfill = hdr.mx /\ hdr.init /\ snap[c] = db
  BY <1>1 DEF AllBackfilled, ReadsDatabase, SeenHeader, ReadsItsSnap
<1> QED
  BY <1>2, NewestInDb

LEMMA WriteFramesKeeps ==
  ASSUME WalInv, WalInv', StoreInv, NEW c \in Conns, NEW S \in SUBSET Pages, S # {},
         NEW commit \in BOOLEAN, WriteFrames(c, S, commit), ~CanRestart(c), RememberStep
  PROVE  StoreInv'
<1>1. /\ conn[c].pc = "write" /\ conn[c].hdr.mx + Cardinality(New(c, S)) <= MaxFrame
      /\ UNCHANGED <<hdr, nBackfill, mark, idx, shared, excl, file, disk, db, dbDisk>>
  BY DEF WriteFrames, files
<1>2. /\ Only(c) /\ conn'[c].list = S /\ conn'[c].commit = commit
      /\ conn'[c].pc = IF conn[c].slot = 0 THEN "rejoin" ELSE "header"
      /\ conn'[c].n = conn[c].n /\ SameLook(c) /\ SameCkpt(c) /\ SameCopy(c)
  BY WriteFramesSets
<1>3. /\ Typed(c) /\ WithinMark(c) /\ ReadsItsSnap(c) /\ Caches(c) /\ Contents /\ ~conn[c].useWal
      /\ hdr.mx \in Nat
  BY <1>1, Stands, Digest, JoinsToWrite DEF Joining
<1>4. /\ snap' = [d \in Conns |-> snap'[d]] /\ \A d \in Conns \ {c} : snap'[d] = snap[d]
      /\ snap'[c] = snap[c] /\ store' = store
  BY <1>1, <1>2, Remembers DEF Begins, RollsBack, Puts, Commits
<1>5. Typed(c)'
  BY <1>2, <1>3 DEF Typed, SameLook, SameCkpt, SameCopy
<1>6. Owns(c)' /\ \A i \in ReadLocks : Shares(c, i)' <=> Shares(c, i)
  BY <1>1, <1>2 DEF Owns, Shares, InSlot, NoSlot, SameLook
<1>7. SlotsHeld' /\ shared' \in [ReadLocks -> SUBSET Conns] /\ excl' \in SUBSET ReadLocks
  BY <1>1, <1>2, <1>6, SlotsStay
<1>8. (ReadsLog(c)' <=> ReadsLog(c)) /\ (Rejoins(c)' <=> conn[c].slot = 0)
  BY <1>1, <1>2, <1>3 DEF ReadsLog, Rejoins, SameLook
<1>9. Base(c)' = Base(c) /\ Index(c)' = Index(c) /\ End(c)' = End(c)
  BY <1>1, <1>2 DEF Base, Writing, Index, End, SameCopy
<1>10. WithinMark(c)'
  BY <1>1, <1>2, <1>3, <1>8, <1>9 DEF WithinMark, SameLook
<1>11. ReadsItsSnap(c)'
  BY <1>1, <1>2, <1>3, <1>4, <1>8, <1>9, WritesOnNewest DEF ReadsItsSnap, SameLook, SameCopy
<1>12. WritesOn(c)'
  <2>1. New(c, S)' = New(c, S)
    BY <1>1, <1>2 DEF New, FindFrame, SameLook, SameCopy
  <2>2. CASE conn[c].slot # 0
    BY <1>1, <1>2, <1>8, <2>1, <2>2 DEF WritesOn, SameCopy
  <2>3. CASE conn[c].slot = 0
    <3>1. conn[c].hdr = hdr
      BY <1>1, <2>3, WritesOnNewest
    <3>2. ASSUME NEW p \in S PROVE FindFrame(p, conn[c].min, conn[c].hdr.mx) <= hdr.mx
      BY <1>3, <3>1, Finding DEF Typed
    <3>3. New(c, S) = S
      BY <3>2 DEF New
    <3> QED
      BY <1>1, <1>2, <1>8, <2>3, <3>3 DEF WritesOn, SameCopy
  <2> QED
    BY <2>2, <2>3
<1>13. Copies(c)'
  BY <1>2 DEF Copies
<1>14. Caches(c)'
  BY <1>1, <1>2, <1>3 DEF Caches, SameCopy, InSlot
<1>15. Keeping(c)'
  BY <1>10, <1>11, <1>12, <1>13, <1>14 DEF Keeping
<1>16. ASSUME NEW d \in Conns PROVE Spares(c, d)' /\ Spares(d, c)'
  <2>1. ReadsLog(c) => Base(c) \in Nat
    BY LogReader
  <2> QED
    BY <1>2, <1>8, <1>9, <2>1, SparesOn DEF SameLook
<1>17. Framed(disk.frame)'
  BY <1>1, <1>3 DEF Contents, Framed
<1> QED
  BY <1>1, <1>2, <1>4, <1>5, <1>7, <1>15, <1>16, <1>17, Quietly

-----------------------------------------------------------------------------
(* The steps that copy frames into the database.                             *)

LEMMA StartBackfillKeeps ==
  ASSUME WalInv, WalInv', StoreInv, NEW c \in Conns, StartBackfill(c), RememberStep
  PROVE  StoreInv'
<1>1. /\ conn[c].pc = "marks" /\ conn[c].i = NREADER
      /\ UNCHANGED <<hdr, nBackfill, mark, idx, shared, file, db, dbDisk>>
  BY DEF StartBackfill, index
<1>2. CASE nBackfill < conn[c].safe /\ CanOwn(0)
  <2>1. excl' = excl \cup {0} /\ disk' = file /\ shared[0] = {}
    BY <1>2 DEF StartBackfill, Synced, CanOwn
  <2>2. /\ Only(c) /\ conn'[c].pc = "copy" /\ conn'[c].copy = ToCopy(c, nBackfill)
        /\ conn'[c].changed = conn[c].changed /\ conn'[c].safe = conn[c].safe
        /\ conn'[c].i = conn[c].i /\ SameLook(c) /\ SameWork(c) /\ SameCopy(c)
    BY <1>2, StartBackfillSets
  <2>3. /\ Typed(c) /\ Owns(c) /\ Caches(c) /\ Contents /\ SlotsHeld /\ StillToCopy(c)
        /\ ~conn[c].useWal /\ 0 \in ReadLocks
        /\ nBackfill \in Nat /\ conn[c].safe \in Nat /\ conn[c].hdr.mx \in Nat
    BY <1>1, Stands, Digest, JoinsToWrite, WalAssumption DEF Joining, ReadLocks
  <2>4. conn[c].safe <= conn[c].hdr.mx /\ conn[c].hdr.mx <= MaxFrame
    BY <1>1, <2>3 DEF StillToCopy, Typed
  <2>5. /\ snap' = [d \in Conns |-> snap'[d]] /\ \A d \in Conns \ {c} : snap'[d] = snap[d]
        /\ snap'[c] = snap[c] /\ store' = store
    BY <1>1, <2>2, Remembers DEF Begins, RollsBack, Puts, Commits
  <2>6. ToCopy(c, nBackfill) \in SUBSET (Pages \X Frames)
    <3>1. \A i \in nBackfill + 1 .. conn[c].safe : i \in Frames
      BY <2>3, <2>4, WalAssumption DEF Frames
    <3> QED
      BY <3>1 DEF ToCopy
  <2>7. Typed(c)'
    BY <2>2, <2>3, <2>6 DEF Typed, SameLook, SameWork, SameCopy
  <2>8. SlotsHeld' /\ shared' \in [ReadLocks -> SUBSET Conns] /\ excl' \in SUBSET ReadLocks
    <3>1. Owns(c)' /\ \A i \in ReadLocks : Shares(c, i)' <=> Shares(c, i)
      BY <1>1, <2>1, <2>2, <2>3 DEF Owns, Shares, InSlot, NoSlot, SameLook
    <3>2. \A i \in excl' : shared'[i] = {}
      BY <1>1, <2>1, <2>3 DEF SlotsHeld
    <3>3. \A d \in Conns \ {c} : /\ conn[d].pc = "restart" => Marks \subseteq excl'
                                 /\ conn[d].pc = "copy" => 0 \in excl'
      BY <2>1, <2>3 DEF SlotsHeld, Owns
    <3>4. /\ \A i \in ReadLocks : c \in shared'[i] <=> Shares(c, i)'
          /\ \A i \in ReadLocks : \A d \in Conns \ {c} : d \in shared'[i] <=> d \in shared[i]
      BY <1>1, <2>3, <3>1 DEF SlotsHeld
    <3>5. SlotsHeld'
      BY <2>2, <3>1, <3>2, <3>3, <3>4, SlotsByOne
    <3> QED
      BY <1>1, <2>1, <2>3, <3>5 DEF Contents
  <2>9. ~ReadsLog(c)' /\ ~Rejoins(c)'
    BY <2>2, <2>3 DEF ReadsLog, Rejoins, SameLook
  <2>10. Copies(c)'
    <3>1. ASSUME NEW x \in ToCopy(c, nBackfill)
          PROVE  /\ nBackfill < x[2] /\ x[2] <= conn[c].safe
                 /\ IsLast(idx, x[1], x[2], conn[c].hdr.mx)
      <4>1. PICK p \in Pages : x = <<p, FindFrame(p, 1, conn[c].hdr.mx)>>
        BY DEF ToCopy
      <4>2. x[1] = p /\ x[2] = FindFrame(p, 1, conn[c].hdr.mx) /\ x[2] \in nBackfill + 1 .. conn[c].safe
        BY <4>1 DEF ToCopy
      <4>3. FindFrame(p, 1, conn[c].hdr.mx) # 0
        BY <2>3, <4>2
      <4>4. IsLast(idx, p, FindFrame(p, 1, conn[c].hdr.mx), conn[c].hdr.mx)
        BY <2>3, <4>3, Finding
      <4> QED
        BY <2>3, <4>2, <4>4
    <3>2. ASSUME NEW p \in Pages, NEW i \in nBackfill + 1 .. conn[c].safe,
                 IsLast(idx, p, i, conn[c].hdr.mx)
          PROVE  <<p, i>> \in ToCopy(c, nBackfill)
      <4>1. i \in 1 .. conn[c].hdr.mx
        BY <2>3, <2>4
      <4>2. FindFrame(p, 1, conn[c].hdr.mx) = i
        BY <2>3, <3>2, <4>1, FoundLast
      <4> QED
        BY <4>2 DEF ToCopy
    <3> QED
      BY <1>1, <2>2, <3>1, <3>2 DEF Copies, SameCopy
  <2>11. Caches(c)'
    BY <1>1, <2>2, <2>3, <2>5 DEF Caches, SameLook, SameCopy, InSlot, Checkpointing
  <2>12. Keeping(c)'
    <3>1. WithinMark(c)' /\ ReadsItsSnap(c)' /\ WritesOn(c)'
      BY <2>2, <2>9 DEF WithinMark, ReadsItsSnap, WritesOn
    <3> QED
      BY <2>10, <2>11, <3>1 DEF Keeping
  <2>13. ASSUME NEW d \in Conns PROVE Spares(c, d)' /\ Spares(d, c)'
    <3>1. Spares(d, c)'
      BY <2>9 DEF Spares
    <3>2. SUFFICES ASSUME ReadsLog(d)' PROVE conn'[c].safe <= Base(d)'
      BY <3>1 DEF Spares
    <3>3. d # c
      BY <2>9, <3>2
    <3>4. conn'[d] = conn[d]
      BY <2>2, <3>3, OthersSame
    <3>5. ReadsLog(d) /\ Base(d)' = Base(d)
      BY <1>1, <3>2, <3>4 DEF ReadsLog, Base, Writing
    <3>6. conn[d].slot \in Marks /\ conn[c].i > conn[d].slot
      <4>1. conn[d].slot \in Marks
        BY <3>5, LogReader
      <4>2. conn[c].i = NREADER
        BY <1>1
      <4> QED
        BY <4>1, <4>2, WalAssumption DEF Marks
    <3>7. Spares(c, d)
      BY Stands
    <3> QED
      BY <1>1, <2>2, <3>5, <3>6, <3>7 DEF Spares
  <2>14. Framed(disk.frame)'
    BY <2>1, <2>3 DEF Contents, Framed
  <2> QED
    BY <1>1, <2>2, <2>5, <2>7, <2>8, <2>12, <2>13, <2>14, Quietly
<1>3. CASE ~(nBackfill < conn[c].safe /\ CanOwn(0))
  <2>1. GoesTo(c, "endCkpt") /\ UNCHANGED <<excl, disk>>
    BY <1>3 DEF StartBackfill, GoesTo
  <2> QED
    BY <1>1, <2>1, ToTheEnd
<1> QED
  BY <1>2, <1>3

LEMMA CopyPageKeeps ==
  ASSUME WalInv, WalInv', StoreInv, NEW c \in Conns, CopyPage(c), RememberStep PROVE StoreInv'
<1> DEFINE p == MinOf({y[1] : y \in conn[c].copy})
           x == CHOOSE y \in conn[c].copy : y[1] = p
<1>1. /\ conn[c].pc = "copy" /\ conn[c].copy # {}
      /\ UNCHANGED <<hdr, nBackfill, mark, idx, shared, excl, file, disk, dbDisk>>
      /\ db' = [db EXCEPT ![p] = file.frame[x[2]].val] /\ Leaves(c, x)
  BY DEF CopyPage, Leaves, index, locks
<1>2. /\ Typed(c) /\ Owns(c) /\ Caches(c) /\ Copies(c) /\ Contents /\ StillToCopy(c)
      /\ ~conn[c].useWal /\ SeenHeader(c) /\ Newest
      /\ nBackfill \in Nat /\ conn[c].safe \in Nat /\ conn[c].hdr.mx \in Nat /\ hdr.mx \in Nat
  BY <1>1, Stands, Digest, JoinsToWrite DEF Joining
<1>3. x \in conn[c].copy /\ x[1] = p
  <2> DEFINE T == {y[1] : y \in conn[c].copy}
  <2>1. T \in SUBSET Nat /\ T # {}
    BY <1>1, <1>2 DEF Typed, Pages
  <2>2. p \in T
    BY <2>1, Least
  <2>3. \E y \in conn[c].copy : y[1] = p
    BY <2>2
  <2> QED
    BY <2>3
<1> HIDE DEF p, x
<1>4. p \in Pages /\ x[2] \in Frames /\ x = <<p, x[2]>>
  BY <1>2, <1>3 DEF Typed
<1>5. /\ nBackfill < x[2] /\ x[2] <= conn[c].safe /\ IsLast(idx, p, x[2], conn[c].hdr.mx)
      /\ conn[c].safe <= conn[c].hdr.mx /\ conn[c].hdr.mx <= hdr.mx /\ x[2] \in Nat
  BY <1>1, <1>2, <1>3, <1>4 DEF Copies, StillToCopy, Frames
<1>6. /\ Only(c) /\ conn'[c].copy = conn[c].copy \ {x} /\ conn'[c].pc = "copy"
      /\ conn'[c].changed = conn[c].changed /\ conn'[c].safe = conn[c].safe
      /\ conn'[c].i = conn[c].i /\ SameLook(c) /\ SameWork(c) /\ SameCopy(c)
  BY <1>1, CopySets
<1>7. /\ snap' = [d \in Conns |-> snap'[d]] /\ \A d \in Conns \ {c} : snap'[d] = snap[d]
      /\ snap'[c] = snap[c] /\ store' = store
  BY <1>1, <1>6, Remembers DEF Begins, RollsBack, Puts, Commits
<1>8. Gentle(c)
  <2>1. KeepsLog(hdr.mx) /\ KeepsLog(MaxFrame)
    BY <1>1 DEF KeepsLog
  <2>2. KeepsDb(c)
    <3>1. x[2] \in nBackfill + 1 .. conn[c].safe /\ idx[x[2]] = p
      BY <1>2, <1>5 DEF IsLast
    <3>2. \A q \in Pages \ {p} : db'[q] = db[q]
      BY <1>1, <1>2, <1>4 DEF Contents
    <3> QED
      BY <1>1, <1>4, <3>1, <3>2 DEF KeepsDb
  <2> QED
    BY <1>1, <1>6, <1>7, <2>1, <2>2 DEF Gentle
<1>9. /\ db'[p] = file.frame[x[2]].val /\ \A q \in Pages : q # p => db'[q] = db[q]
      /\ db' = [q \in Pages |-> db'[q]]
  BY <1>1, <1>2, <1>4 DEF Contents
<1>10. Owns(c)' /\ \A i \in ReadLocks : Shares(c, i)' <=> Shares(c, i)
  BY <1>1, <1>2, <1>6 DEF Owns, Shares, InSlot, NoSlot, SameLook
<1>11. SlotsHeld' /\ shared' \in [ReadLocks -> SUBSET Conns] /\ excl' \in SUBSET ReadLocks
  BY <1>1, <1>6, <1>10, SlotsStay
<1>12. Contents'
  BY <1>1, <1>2, <1>7, <1>9, <1>11 DEF Contents, Framed
<1>13. Typed(c)'
  BY <1>2, <1>6 DEF Typed, SameLook, SameWork, SameCopy
<1>14. Newest'
  <2>1. hdr.init /\ GivesAll(idx, nBackfill, hdr.mx, file.frame, db, store)
    BY <1>1, <1>2 DEF SeenHeader, Newest
  <2>2. x[2] \in 1 .. hdr.mx /\ idx[x[2]] = p
    BY <1>2, <1>5 DEF IsLast
  <2>3. Gives(idx, 1, hdr.mx, file.frame, db', store)
    BY <1>9, <2>1, <2>2, GivesOver DEF GivesAll
  <2>4. ASSUME NEW q \in Pages, NEW i \in 1 .. hdr.mx, IsLast(idx, q, i, hdr.mx), i <= nBackfill
        PROVE  db'[q] = store[q]
    <3>1. db[q] = store[q]
      BY <2>1, <2>4 DEF GivesAll
    <3>2. q # p
      BY <1>2, <1>5, <2>2, <2>4 DEF IsLast
    <3> QED
      BY <1>9, <3>1, <3>2
  <2> QED
    BY <1>1, <1>7, <2>1, <2>3, <2>4 DEF Newest, GivesAll
<1>15. Copies(c)'
  <2>1. ASSUME NEW y \in conn'[c].copy
        PROVE  /\ nBackfill < y[2] /\ y[2] <= conn[c].safe
               /\ IsLast(idx, y[1], y[2], conn[c].hdr.mx)
    BY <1>1, <1>2, <1>6 DEF Copies
  <2>2. ASSUME NEW q \in Pages, NEW i \in nBackfill + 1 .. conn[c].safe,
               IsLast(idx, q, i, conn[c].hdr.mx)
        PROVE  <<q, i>> \in conn'[c].copy \/ db'[q] = file.frame[i].val
    <3>1. <<q, i>> \in conn[c].copy \/ db[q] = file.frame[i].val
      BY <1>1, <1>2, <2>2 DEF Copies
    <3>2. CASE q = p
      <4>1. i \in Nat /\ i <= conn[c].hdr.mx /\ x[2] <= conn[c].hdr.mx
        BY <1>2, <1>5
      <4>2. i = x[2]
        BY <1>2, <1>5, <2>2, <3>2, <4>1, OneLast
      <4> QED
        BY <1>9, <3>2, <4>2
    <3>3. CASE q # p
      BY <1>4, <1>6, <1>9, <3>1, <3>3
    <3> QED
      BY <3>2, <3>3
  <2> QED
    BY <1>1, <1>6, <2>1, <2>2 DEF Copies, SameCopy
<1>16. ~ReadsLog(c)' /\ ~Rejoins(c)'
  BY <1>2, <1>6 DEF ReadsLog, Rejoins, SameLook
<1>17. Caches(c)'
  BY <1>1, <1>2, <1>6, <1>7 DEF Caches, SameLook, SameCopy, InSlot, Checkpointing
<1>18. Keeping(c)'
  <2>1. WithinMark(c)' /\ ReadsItsSnap(c)' /\ WritesOn(c)'
    BY <1>6, <1>16 DEF WithinMark, ReadsItsSnap, WritesOn
  <2> QED
    BY <1>15, <1>17, <2>1 DEF Keeping
<1>19. ASSUME NEW d \in Conns PROVE Spares(c, d)' /\ Spares(d, c)'
  <2>1. Spares(d, c)'
    BY <1>16 DEF Spares
  <2>2. SUFFICES ASSUME ReadsLog(d)' PROVE conn'[c].safe <= Base(d)'
    BY <2>1 DEF Spares
  <2>3. conn'[d] = conn[d]
    BY <1>6, <1>16, <2>2, OthersSame
  <2>4. ReadsLog(d) /\ Base(d)' = Base(d)
    BY <1>1, <2>2, <2>3 DEF ReadsLog, Base, Writing
  <2>5. Spares(c, d)
    BY Stands
  <2> QED
    BY <1>1, <1>6, <2>4, <2>5 DEF Spares
<1> QED
  BY <1>8, <1>11, <1>12, <1>13, <1>14, <1>18, <1>19, StoreByOne

LEMMA BackfilledKeeps ==
  ASSUME WalInv, WalInv', StoreInv, NEW c \in Conns, Backfilled(c), RememberStep PROVE StoreInv'
<1>1. /\ conn[c].pc = "copy" /\ conn[c].copy = {} /\ GoesTo(c, "endCkpt")
      /\ dbDisk' = IF conn[c].safe = hdr.mx THEN db ELSE dbDisk
      /\ nBackfill' = conn[c].safe /\ excl' = excl \ {0}
      /\ UNCHANGED <<hdr, mark, idx, shared, file, disk, db>>
  BY DEF Backfilled, CopiedUpTo, GoesTo
<1>2. /\ Typed(c) /\ Owns(c) /\ Caches(c) /\ Copies(c) /\ Contents /\ StillToCopy(c) /\ SlotsHeld
      /\ ~conn[c].useWal /\ SeenHeader(c) /\ Newest
      /\ nBackfill \in Nat /\ conn[c].safe \in Nat /\ conn[c].hdr.mx \in Nat /\ hdr.mx \in Nat
  BY <1>1, Stands, Digest, JoinsToWrite DEF Joining
<1>3. Only(c) /\ conn'[c].pc = "endCkpt" /\ SameButPlace(c)
  BY <1>1, ToPlace
<1>4. /\ snap' = [d \in Conns |-> snap'[d]] /\ \A d \in Conns \ {c} : snap'[d] = snap[d]
      /\ snap'[c] = snap[c] /\ store' = store
  BY <1>1, <1>3, Remembers DEF Begins, RollsBack, Puts, Commits
<1>5. nBackfill < conn[c].safe /\ conn[c].safe <= conn[c].hdr.mx /\ conn[c].hdr.mx <= hdr.mx
  BY <1>1, <1>2 DEF StillToCopy
<1>6. Gentle(c)
  <2>1. KeepsLog(hdr.mx) /\ KeepsLog(MaxFrame)
    BY <1>1 DEF KeepsLog
  <2>2. Checkpointing(c) /\ nBackfill <= nBackfill'
    BY <1>1, <1>2, <1>5 DEF Checkpointing
  <2> QED
    BY <1>1, <1>3, <1>4, <2>1, <2>2 DEF Gentle, KeepsDb
<1>7. SlotsHeld' /\ shared' \in [ReadLocks -> SUBSET Conns] /\ excl' \in SUBSET ReadLocks
  <2>1. Owns(c)' /\ \A i \in ReadLocks : Shares(c, i)' <=> Shares(c, i)
    BY <1>1, <1>2, <1>3 DEF Owns, Shares, InSlot, NoSlot, SameButPlace, SameLook
  <2>2. ASSUME NEW d \in Conns \ {c}
        PROVE  /\ conn[d].pc = "restart" => Marks \subseteq excl'
               /\ conn[d].pc = "copy" => 0 \in excl'
    <3>1. conn[d].pc # "copy"
      BY <1>1, OneAtATime DEF Checkpointing
    <3>2. conn[d].pc = "restart" => Marks \subseteq excl
      BY Stands DEF Owns
    <3>3. 0 \notin Marks
      BY DEF Marks
    <3> QED
      BY <1>1, <3>1, <3>2, <3>3
  <2>3. \A i \in excl' : shared'[i] = {}
    BY <1>1, <1>2 DEF SlotsHeld
  <2>4. /\ \A i \in ReadLocks : c \in shared'[i] <=> Shares(c, i)'
        /\ \A i \in ReadLocks : \A d \in Conns \ {c} : d \in shared'[i] <=> d \in shared[i]
    BY <1>1, <1>2, <2>1 DEF SlotsHeld
  <2>5. SlotsHeld'
    BY <1>3, <2>1, <2>2, <2>3, <2>4, SlotsByOne
  <2> QED
    BY <1>1, <1>2, <2>5 DEF Contents
<1>8. Contents'
  BY <1>1, <1>2, <1>4, <1>7 DEF Contents, Framed
<1>9. Typed(c)'
  BY <1>2, <1>3 DEF Typed, SameButPlace, SameLook, SameWork, SameCkpt, SameCopy
<1>10. Newest'
  <2>1. hdr.init /\ GivesAll(idx, nBackfill, hdr.mx, file.frame, db, store)
    BY <1>1, <1>2 DEF SeenHeader, Newest
  <2>2. ASSUME NEW q \in Pages, NEW i \in 1 .. hdr.mx, IsLast(idx, q, i, hdr.mx), i <= conn[c].safe
        PROVE  db[q] = store[q]
    <3>1. CASE i <= nBackfill
      BY <2>1, <2>2, <3>1 DEF GivesAll
    <3>2. CASE i > nBackfill
      <4>1. i \in nBackfill + 1 .. conn[c].safe
        BY <1>2, <2>2, <3>2
      <4>2. IsLast(idx, q, i, conn[c].hdr.mx)
        BY <1>2, <1>5, <2>2 DEF IsLast
      <4>3. db[q] = file.frame[i].val
        BY <1>1, <1>2, <4>1, <4>2 DEF Copies
      <4>4. file.frame[i].val = store[q]
        BY <2>1, <2>2 DEF GivesAll, Gives
      <4> QED
        BY <4>3, <4>4
    <3> QED
      BY <1>2, <3>1, <3>2
  <2> QED
    BY <1>1, <1>4, <2>1, <2>2 DEF Newest, GivesAll
<1>11. ~ReadsLog(c)' /\ ~Rejoins(c)'
  BY <1>2, <1>3 DEF ReadsLog, Rejoins, SameButPlace, SameLook
<1>12. Caches(c)'
  BY <1>1, <1>2, <1>3, <1>4
     DEF Caches, SameButPlace, SameLook, SameCopy, SameCkpt, InSlot, Checkpointing
<1>13. Keeping(c)'
  <2>1. WithinMark(c)' /\ ReadsItsSnap(c)' /\ WritesOn(c)' /\ Copies(c)'
    BY <1>3, <1>11 DEF WithinMark, ReadsItsSnap, WritesOn, Copies
  <2> QED
    BY <1>12, <2>1 DEF Keeping
<1>14. ASSUME NEW d \in Conns PROVE Spares(c, d)' /\ Spares(d, c)'
  BY <1>3, <1>11 DEF Spares
<1> QED
  BY <1>6, <1>7, <1>8, <1>9, <1>10, <1>13, <1>14, StoreByOne

-----------------------------------------------------------------------------
(* The steps of a transaction that write frames.                             *)

(* What they have in common: the frames and the index up to the header stay,  *)
(* and beyond it nobody looks but the writer.                                *)
LEMMA WritesLog ==
  ASSUME WalInv, WalInv', StoreInv, NEW c \in Conns, Only(c), SameLook(c),
         conn'[c].cache = conn[c].cache,
         conn[c].pc \in {"header", "frames", "write"}, conn'[c].pc \in {"frames", "write", "read"},
         conn'[c].pc = "read" => conn'[c].hdr = hdr,
         UNCHANGED <<hdr, nBackfill, mark, shared, excl, db, dbDisk, store>>,
         idx' \in [Frames -> 0 .. NPages], Framed(file'.frame), Framed(disk'.frame),
         KeepsLog(hdr.mx),
         snap' = [d \in Conns |-> snap'[d]], \A d \in Conns \ {c} : snap'[d] = snap[d],
         Typed(c)', ReadsItsSnap(c)', WritesOn(c)'
  PROVE  StoreInv'
<1>1. /\ WithinMark(c) /\ Caches(c) /\ Contents /\ Newest /\ SeenHeader(c) /\ ~conn[c].useWal
      /\ hdr.mx \in Nat /\ nBackfill \in Nat
  BY Stands, Digest, JoinsToWrite DEF Joining
<1>2. Writing(c) /\ ~conn'[c].useWal
  BY <1>1 DEF Writing, SameLook
<1>3. Gentle(c)
  BY <1>2 DEF Gentle, KeepsDb
<1>4. Owns(c)' /\ \A i \in ReadLocks : Shares(c, i)' <=> Shares(c, i)
  BY DEF Owns, Shares, InSlot, NoSlot, SameLook
<1>5. SlotsHeld' /\ shared' \in [ReadLocks -> SUBSET Conns] /\ excl' \in SUBSET ReadLocks
  BY <1>4, SlotsStay
<1>6. Contents'
  BY <1>1, <1>5 DEF Contents
<1>7. Newest'
  <2>1. hdr.init
    BY <1>1 DEF SeenHeader
  <2>2. GivesAll(idx, nBackfill, hdr.mx, file.frame, db, store)
    BY <1>1, <2>1 DEF Newest
  <2>3. GivesAll(idx', nBackfill, hdr.mx, file'.frame, db, store)
    BY <1>1, <2>2, GivesAllSame DEF KeepsLog
  <2> QED
    BY <2>1, <2>3 DEF Newest
<1>8. ReadsLog(c)' <=> ReadsLog(c)
  BY DEF ReadsLog, SameLook
<1>9. Base(c) = hdr.mx /\ Base(c)' = hdr.mx
  BY <1>2 DEF Base, Writing
<1>10. WithinMark(c)'
  BY <1>1, <1>8, <1>9 DEF WithinMark, SameLook
<1>11. Copies(c)' /\ Caches(c)'
  BY <1>1 DEF Copies, Caches, InSlot
<1>12. Keeping(c)'
  BY <1>10, <1>11 DEF Keeping
<1>13. ASSUME NEW d \in Conns PROVE Spares(c, d)' /\ Spares(d, c)'
  BY <1>1, <1>8, <1>9, SparesOn DEF SameLook
<1> QED
  BY <1>3, <1>5, <1>6, <1>7, <1>12, <1>13, StoreByOne

LEMMA FrameSet ==
  ASSUME WalInv, NEW g, file' = [file EXCEPT !.frame = g]
  PROVE  file'.frame = g
<1>1. file = [x \in FileFields |-> file[x]]
  BY DEF WalInv, WalShape, DrawnFile
<1> QED
  BY <1>1, Zenon DEF FileFields

LEMMA RewriteChecksumsKeeps ==
  ASSUME WalInv, WalInv', StoreInv, NEW c \in Conns, RewriteChecksums(c), RememberStep
  PROVE  StoreInv'
<1> DEFINE f == file.frame
           g == [i \in Frames |-> IF i \in WrongSums(c)
                                  THEN [f[i] EXCEPT !.salt = conn[c].hdr.salt, !.sum = Sum(f, i)]
                                  ELSE f[i]]
<1>1. /\ conn[c].pc = "frames" /\ file' = [file EXCEPT !.frame = g]
      /\ UNCHANGED <<hdr, nBackfill, mark, idx, shared, excl, disk, db, dbDisk>>
  BY DEF RewriteChecksums, index, locks
<1>2. /\ Only(c) /\ conn'[c].pc = conn[c].pc /\ SameLook(c) /\ SameWork(c) /\ SameCkpt(c)
      /\ SameCopy(c)
  BY RewriteSets
<1>3. /\ Typed(c) /\ ReadsItsSnap(c) /\ WritesOn(c) /\ Contents /\ ~conn[c].useWal
      /\ AllBackfilled(c) /\ hdr.mx \in Nat /\ conn[c].hdr.mx \in Nat /\ conn[c].n \in Nat
  BY <1>1, Stands, Digest, JoinsToWrite DEF Joining
<1>4. /\ snap' = [d \in Conns |-> snap'[d]] /\ \A d \in Conns \ {c} : snap'[d] = snap[d]
      /\ snap'[c] = snap[c] /\ store' = store
  BY <1>1, <1>2, Remembers DEF Begins, RollsBack, Puts, Commits, SameWork
<1>5. file'.frame = g
  BY <1>1, FrameSet
<1>6. ASSUME NEW i \in Frames
      PROVE  g[i] = [x \in FrameFields |-> g[i][x]] /\ g[i].pg = f[i].pg /\ g[i].val = f[i].val
  <2>1. f[i] = [x \in FrameFields |-> f[i][x]]
    BY <1>3 DEF Contents, Framed
  <2>2. CASE i \in WrongSums(c)
    <3>1. PICK q : q = [f[i] EXCEPT !.salt = conn[c].hdr.salt, !.sum = Sum(f, i)]
      OBVIOUS
    <3>2. q = [x \in FrameFields |-> q[x]] /\ q.pg = f[i].pg /\ q.val = f[i].val
      BY <2>1, <3>1, Zenon DEF FrameFields
    <3>3. g[i] = q
      BY <2>2, <3>1
    <3> HIDE DEF g
    <3> QED
      BY <3>2, <3>3, Zenon
  <2>3. CASE i \notin WrongSums(c)
    BY <2>1, <2>3
  <2> QED
    BY <2>2, <2>3
<1>7. g = [i \in Frames |-> g[i]]
  OBVIOUS
<1> HIDE DEF g
<1>8. Framed(file'.frame) /\ Framed(disk'.frame)
  <2>1. \A i \in Frames : g[i].pg \in 0 .. NPages
    BY <1>3, <1>6 DEF Framed, Contents
  <2>2. Framed(g)
    BY <1>6, <1>7, <2>1 DEF Framed
  <2> QED
    BY <1>1, <1>3, <1>5, <2>2 DEF Contents
<1>9. MaxFrame \in Nat /\ hdr.mx <= MaxFrame /\ KeepsLog(MaxFrame) /\ KeepsLog(hdr.mx)
  <2>1. MaxFrame \in Nat /\ hdr.mx <= MaxFrame
    BY <1>3, WalAssumption DEF Contents
  <2>2. KeepsLog(MaxFrame)
    BY <1>1, <1>5, <1>6 DEF KeepsLog, Frames
  <2> QED
    BY <1>3, <2>1, <2>2 DEF KeepsLog
<1>10. Typed(c)'
  BY <1>2, <1>3 DEF Typed, SameLook, SameWork, SameCkpt, SameCopy
<1>11. Index(c)' = Index(c) /\ End(c)' = End(c)
  <2>1. \A i \in Frames : file'.frame[i].pg = file.frame[i].pg
    BY <1>5, <1>6
  <2> QED
    BY <1>1, <1>2, <2>1 DEF Index, End, SameCopy, SameWork
<1>12. ReadsItsSnap(c)'
  <2>1. conn[c].slot # 0 /\ ReadsLog(c) /\ ~Rejoins(c)'
    BY <1>1, <1>2, <1>3 DEF AllBackfilled, ReadsLog, Rejoins, SameLook
  <2>2. /\ Gives(Index(c), conn[c].min, End(c), file.frame, db, snap[c])
        /\ snap[c] = [p \in Pages |-> snap[c][p]] /\ End(c) \in Nat /\ End(c) <= MaxFrame
        /\ conn[c].min \in Nat \ {0}
    BY <1>3, <2>1, LogReader DEF Typed
  <2>3. \A i \in conn[c].min .. End(c) : file'.frame[i].val = file.frame[i].val
    <3>1. \A i \in conn[c].min .. End(c) : i \in Frames
      BY <1>9, <2>2 DEF Frames
    <3> QED
      BY <1>5, <1>6, <3>1
  <2>4. Gives(Index(c), conn[c].min, End(c), file'.frame, db, snap[c])
    <3>1. PICK lo \in Nat : lo = conn[c].min
      BY <2>2
    <3>2. PICK hi \in Nat : hi = End(c)
      BY <2>2
    <3>3. PICK pg : pg = Index(c)
      OBVIOUS
    <3>4. \A i \in lo .. hi : pg[i] = pg[i] /\ file'.frame[i].val = file.frame[i].val
      BY <2>3, <3>1, <3>2
    <3>5. Gives(pg, lo, hi, file.frame, db, snap[c])
      BY <2>2, <3>1, <3>2, <3>3, Zenon
    <3>6. Gives(pg, lo, hi, file'.frame, db, snap[c])
      BY <3>4, <3>5, GivesSame, ZenonT(40)
    <3> QED
      BY <3>1, <3>2, <3>3, <3>6, Zenon
  <2> QED
    BY <1>1, <1>2, <1>4, <1>11, <2>1, <2>2, <2>4 DEF ReadsItsSnap, SameLook
<1>13. WritesOn(c)'
  <2>1. New(c, conn[c].list)' = New(c, conn[c].list)
    BY <1>1, <1>2 DEF New, FindFrame, SameLook, SameCopy, SameWork
  <2>2. \A i \in conn[c].hdr.mx + 1 .. conn[c].n : file'.frame[i].pg = file.frame[i].pg
    <3>1. \A i \in conn[c].hdr.mx + 1 .. conn[c].n : i \in Frames
      BY <1>3, <1>9 DEF Typed, Frames
    <3> QED
      BY <1>5, <1>6, <3>1
  <2>3. ~Rejoins(c)'
    BY <1>1, <1>2, <1>3 DEF Rejoins, SameLook
  <2> QED
    BY <1>1, <1>2, <1>3, <2>1, <2>2, <2>3 DEF WritesOn, SameWork, SameCopy
<1> QED
  BY <1>1, <1>2, <1>3, <1>4, <1>8, <1>9, <1>10, <1>12, <1>13, WritesLog DEF SameCopy, Contents

(* The header of the log: its salt, and what it leaves.                      *)
LEMMA HeaderDetail ==
  ASSUME WalInv, NEW c \in Conns, WriteHeader(c)
  PROVE  /\ conn[c].hdr.mx # 0 => ToFrames(c, conn[c].hdr) /\ UNCHANGED <<file, disk, salts>>
         /\ conn[c].hdr.mx = 0 =>
              \E s : /\ ToFrames(c, [conn[c].hdr EXCEPT !.salt = s])
                     /\ file'.salt = s /\ file'.frame = file.frame /\ disk' = file'
                     /\ \/ s = salts + 1 /\ salts' = salts + 1
                        \/ s = conn[c].hdr.salt /\ salts' = salts
<1>1. conn[c] = [x \in Fields |-> conn[c][x]] /\ conn = [d \in Conns |-> conn[d]]
  BY Shape
<1>2. conn[c].hdr \in Header
  BY DEF WalInv, WalShape, Drawn
<1>3. ASSUME conn[c].hdr.mx # 0
      PROVE  ToFrames(c, conn[c].hdr) /\ UNCHANGED <<file, disk, salts>>
  <2>1. /\ conn' = [conn EXCEPT ![c].n = conn[c].hdr.mx, ![c].pc = "frames"]
        /\ UNCHANGED <<file, disk, salts>>
    BY <1>3 DEF WriteHeader
  <2>2. PICK h : h = conn[c].hdr
    OBVIOUS
  <2>3. [conn[c] EXCEPT !.n = h.mx, !.pc = "frames"]
          = [conn[c] EXCEPT !.hdr = h, !.n = h.mx, !.pc = "frames"]
    BY <1>1, <2>2, Zenon DEF Fields
  <2>4. ToFrames(c, h)
    BY <1>1, <2>1, <2>2, <2>3 DEF ToFrames
  <2> QED
    BY <2>1, <2>2, <2>4
<1>4. ASSUME conn[c].hdr.mx = 0
      PROVE  \E s : /\ ToFrames(c, [conn[c].hdr EXCEPT !.salt = s])
                    /\ file'.salt = s /\ file'.frame = file.frame /\ disk' = file'
                    /\ \/ s = salts + 1 /\ salts' = salts + 1
                       \/ s = conn[c].hdr.salt /\ salts' = salts
  <2>1. PICK s : /\ s = IF conn[c].nCkpt = 0 THEN salts + 1 ELSE conn[c].hdr.salt
                 /\ conn' = [conn EXCEPT ![c].hdr.salt = s, ![c].n = 0, ![c].pc = "frames"]
                 /\ file' = [file EXCEPT !.salt = s, !.nCkpt = conn[c].nCkpt]
                 /\ disk' = file'
                 /\ salts' = IF conn[c].nCkpt = 0 THEN salts + 1 ELSE salts
    BY <1>4 DEF WriteHeader
  <2>2. PICK h : h = [conn[c].hdr EXCEPT !.salt = s]
    OBVIOUS
  <2>3. h.mx = 0
    BY <1>2, <1>4, <2>2 DEF Header
  <2>4. ToFrames(c, h)
    <3>1. conn' = [conn EXCEPT ![c] = [conn[c] EXCEPT !.hdr = h, !.n = 0, !.pc = "frames"]]
      BY <1>1, <2>1, <2>2 DEF Fields
    <3> QED
      BY <1>1, <2>3, <3>1 DEF ToFrames
  <2>5. file'.frame = file.frame /\ file'.salt = s
    <3>1. file = [x \in FileFields |-> file[x]]
      BY DEF WalInv, WalShape, DrawnFile
    <3> QED
      BY <2>1, <3>1, Zenon DEF FileFields
  <2> QED
    BY <2>1, <2>2, <2>4, <2>5
<1> QED
  BY <1>3, <1>4

LEMMA HeaderWritten ==
  ASSUME WalInv, NEW c \in Conns, WriteHeader(c)
  PROVE  /\ \E h : ToFrames(c, h) /\ h.mx = conn[c].hdr.mx
         /\ file'.frame = file.frame /\ (disk' = disk \/ disk' = file')
<1>1. CASE conn[c].hdr.mx # 0
  BY <1>1, HeaderDetail
<1>2. CASE conn[c].hdr.mx = 0
  <2>1. PICK s : /\ ToFrames(c, [conn[c].hdr EXCEPT !.salt = s])
                 /\ file'.frame = file.frame /\ disk' = file'
    BY <1>2, HeaderDetail
  <2>2. [conn[c].hdr EXCEPT !.salt = s].mx = conn[c].hdr.mx
    BY DEF WalInv, WalShape, Drawn, Header
  <2> QED
    BY <2>1, <2>2
<1> QED
  BY <1>1, <1>2

LEMMA WriteHeaderKeeps ==
  ASSUME WalInv, WalInv', StoreInv, NEW c \in Conns, WriteHeader(c), RememberStep PROVE StoreInv'
<1>1. /\ conn[c].pc = "header"
      /\ UNCHANGED <<hdr, nBackfill, mark, idx, shared, excl, db, dbDisk>>
  BY DEF WriteHeader, index, locks
<1>2. file'.frame = file.frame /\ (disk' = disk \/ disk' = file')
  BY HeaderWritten
<1>3. PICK h : ToFrames(c, h) /\ h.mx = conn[c].hdr.mx
  BY HeaderWritten
<1>4. /\ Only(c) /\ conn'[c].hdr.mx = conn[c].hdr.mx /\ conn'[c].n = conn[c].hdr.mx
      /\ conn'[c].pc = "frames" /\ conn'[c].list = conn[c].list
      /\ conn'[c].commit = conn[c].commit /\ conn'[c].cache = conn[c].cache
      /\ SameLook(c) /\ SameCkpt(c)
  BY <1>3, HeaderSets
<1>5. /\ Typed(c) /\ ReadsItsSnap(c) /\ WritesOn(c) /\ Contents /\ ~conn[c].useWal
      /\ AllBackfilled(c) /\ hdr.mx \in Nat /\ conn[c].hdr.mx \in Nat
  BY <1>1, Stands, Digest, JoinsToWrite DEF Joining
<1>6. /\ snap' = [d \in Conns |-> snap'[d]] /\ \A d \in Conns \ {c} : snap'[d] = snap[d]
      /\ snap'[c] = snap[c] /\ store' = store
  BY <1>1, <1>4, Remembers DEF Begins, RollsBack, Puts, Commits
<1>7. Framed(file'.frame) /\ Framed(disk'.frame)
  <2>1. Framed(file.frame) /\ Framed(disk.frame)
    BY <1>5 DEF Contents
  <2> QED
    BY <1>2, <2>1
<1>8. KeepsLog(hdr.mx)
  BY <1>1, <1>2 DEF KeepsLog
<1>9. Typed(c)'
  BY <1>4, <1>5 DEF Typed, SameLook, SameCkpt
<1>10. conn[c].slot # 0 /\ ReadsLog(c) /\ ~Rejoins(c)'
  BY <1>1, <1>4, <1>5 DEF AllBackfilled, ReadsLog, Rejoins, SameLook
<1>11. ReadsItsSnap(c)'
  <2>1. /\ Gives(idx, conn[c].min, conn[c].hdr.mx, file.frame, db, snap[c])
        /\ snap[c] = [p \in Pages |-> snap[c][p]] /\ conn[c].hdr.mx <= MaxFrame
        /\ conn[c].min \in Nat \ {0} /\ MaxFrame \in Nat
    BY <1>1, <1>5, <1>10, LogReader, WalAssumption DEF Typed, Index, End
  <2>2. \A i \in conn[c].min .. conn[c].hdr.mx :
          Index(c)'[i] = idx[i] /\ file'.frame[i].val = file.frame[i].val
    <3>1. ASSUME NEW i \in conn[c].min .. conn[c].hdr.mx
          PROVE  i \in Frames /\ i <= conn[c].hdr.mx
      BY <1>5, <2>1 DEF Frames
    <3>2. Index(c)' = [i \in Frames |-> IF i <= conn[c].hdr.mx THEN idx[i]
                                                               ELSE file'.frame[i].pg]
      BY <1>1, <1>4 DEF Index
    <3> QED
      BY <1>2, <3>1, <3>2
  <2>3. Gives(Index(c)', conn[c].min, conn[c].hdr.mx, file'.frame, db, snap[c])
    <3>1. PICK ix, f : ix = Index(c)' /\ f = file'.frame
      OBVIOUS
    <3>2. PICK lo \in Nat, hi \in Nat : lo = conn[c].min /\ hi = conn[c].hdr.mx
      BY <1>5, <2>1
    <3>3. \A i \in lo .. hi : ix[i] = idx[i] /\ f[i].val = file.frame[i].val
      BY <2>2, <3>1, <3>2
    <3>4. Gives(idx, lo, hi, file.frame, db, snap[c])
      BY <2>1, <3>2
    <3>5. Gives(ix, lo, hi, f, db, snap[c])
      BY <3>3, <3>4, GivesSame, Zenon
    <3> QED
      BY <3>1, <3>2, <3>5
  <2>4. End(c)' = conn[c].hdr.mx
    BY <1>4 DEF End
  <2> QED
    BY <1>1, <1>4, <1>6, <1>10, <2>1, <2>3, <2>4 DEF ReadsItsSnap, SameLook
<1>12. WritesOn(c)'
  <2>1. New(c, conn[c].list)' = New(c, conn[c].list)
    BY <1>1, <1>4 DEF New, FindFrame, SameLook
  <2>2. /\ conn[c].hdr.mx + Cardinality(New(c, conn[c].list)) <= MaxFrame
        /\ conn[c].list # {}
    BY <1>1, <1>5 DEF WritesOn
  <2> QED
    BY <1>1, <1>4, <1>5, <1>10, <2>1, <2>2 DEF WritesOn
<1> QED
  BY <1>1, <1>4, <1>5, <1>6, <1>7, <1>8, <1>9, <1>11, <1>12, WritesLog DEF Contents

(* A page put over one of its last frame, or into a frame after them all.    *)
LEMMA GivesOver1 ==
  ASSUME NEW pg, NEW lo \in Nat, NEW hi \in Nat, NEW f, NEW f2, NEW d, NEW s, NEW s2,
         Gives(pg, lo, hi, f, d, s), NEW p \in Pages, NEW k \in lo .. hi, IsLast(pg, p, k, hi),
         \A i \in lo .. hi : i # k => f2[i].val = f[i].val,
         f2[k].val = s2[p], \A q \in Pages \ {p} : s2[q] = s[q]
  PROVE  Gives(pg, lo, hi, f2, d, s2)
<1>1. pg[k] = p
  BY DEF IsLast
<1>2. ASSUME NEW q \in Pages
      PROVE  /\ \A i \in lo .. hi : IsLast(pg, q, i, hi) => f2[i].val = s2[q]
             /\ (\A i \in lo .. hi : pg[i] # q) => d[q] = s2[q]
  <2>1. CASE q = p
    <3>1. \A i \in lo .. hi : IsLast(pg, p, i, hi) => i = k
      BY OneLast
    <3> QED
      BY <1>1, <2>1, <3>1
  <2>2. CASE q # p
    <3>1. \A i \in lo .. hi : IsLast(pg, q, i, hi) => i # k
      BY <1>1, <2>2 DEF IsLast
    <3> QED
      BY <2>2, <3>1 DEF Gives
  <2> QED
    BY <2>1, <2>2
<1> QED
  BY <1>2 DEF Gives

LEMMA GivesMore ==
  ASSUME NEW pg, NEW pg2, NEW lo \in Nat, NEW hi \in Nat, NEW n \in Nat, n = hi + 1, lo <= n,
         NEW f, NEW f2, NEW d, NEW s, NEW s2, Gives(pg, lo, hi, f, d, s), NEW p \in Pages,
         \A i \in lo .. hi : pg2[i] = pg[i] /\ f2[i].val = f[i].val,
         pg2[n] = p, f2[n].val = s2[p], \A q \in Pages \ {p} : s2[q] = s[q]
  PROVE  Gives(pg2, lo, n, f2, d, s2)
<1>1. ASSUME NEW q \in Pages
      PROVE  /\ \A i \in lo .. n : IsLast(pg2, q, i, n) => f2[i].val = s2[q]
             /\ (\A i \in lo .. n : pg2[i] # q) => d[q] = s2[q]
  <2>1. CASE q = p
    <3>1. ASSUME NEW i \in lo .. n, IsLast(pg2, p, i, n) PROVE i = n
      <4>1. CASE i < n
        <5>1. n \in i + 1 .. n
          BY <4>1
        <5> QED
          BY <3>1, <5>1 DEF IsLast
      <4> QED
        BY <4>1
    <3>2. n \in lo .. n
      OBVIOUS
    <3> QED
      BY <2>1, <3>1, <3>2
  <2>2. CASE q # p
    <3>1. ASSUME NEW i \in lo .. n, IsLast(pg2, q, i, n) PROVE f2[i].val = s2[q]
      <4>1. pg2[i] = q /\ i # n
        BY <2>2, <3>1 DEF IsLast
      <4>2. i \in lo .. hi
        BY <4>1
      <4>3. \A j \in i + 1 .. hi : j \in lo .. hi /\ j \in i + 1 .. n
        OBVIOUS
      <4>4. IsLast(pg, q, i, hi)
        BY <3>1, <4>1, <4>2, <4>3 DEF IsLast
      <4>5. f[i].val = s[q]
        BY <4>2, <4>4 DEF Gives
      <4> QED
        BY <2>2, <4>2, <4>5
    <3>2. ASSUME \A i \in lo .. n : pg2[i] # q PROVE d[q] = s2[q]
      <4>1. \A i \in lo .. hi : i \in lo .. n
        OBVIOUS
      <4>2. \A i \in lo .. hi : pg[i] # q
        BY <3>2, <4>1
      <4>3. d[q] = s[q]
        BY <4>2 DEF Gives
      <4> QED
        BY <2>2, <4>3
    <3> QED
      BY <3>1, <3>2
  <2> QED
    BY <2>1, <2>2
<1> QED
  BY <1>1 DEF Gives

(* The frames that are still wanted after one page.                          *)
LEMMA FewerNew ==
  ASSUME WalInv, NEW c \in Conns, NEW S \in SUBSET Pages, S # {}
  PROVE  LET p == MinOf(S) IN
         /\ p \in S /\ p \in Pages
         /\ Cardinality(New(c, S)) \in Nat /\ Cardinality(New(c, S \ {p})) \in Nat
         /\ Cardinality(New(c, S \ {p})) <= Cardinality(New(c, S))
         /\ p \in New(c, S) => Cardinality(New(c, S \ {p})) + 1 <= Cardinality(New(c, S))
<1>0. NPages \in Nat /\ Pages \subseteq Nat
  BY WalAssumption DEF Pages
<1>1. MinOf(S) \in S /\ \A y \in S : MinOf(S) <= y
  BY <1>0, Least
<1>2. PICK p \in S : p = MinOf(S) /\ \A y \in S : p <= y
  BY <1>1
<1>3. S \in SUBSET (0 .. NPages)
  BY <1>0 DEF Pages
<1>4. MaxOf(S) \in S /\ \A y \in S : y <= MaxOf(S)
  BY <1>0, <1>3, Greatest
<1>5. New(c, S \ {p}) \subseteq New(c, S) \ {p}
  <2>1. ASSUME NEW q \in S \ {p}, q = MaxOf(S \ {p}) PROVE q = MaxOf(S)
    <3>1. S \ {p} \in SUBSET (0 .. NPages) /\ S \ {p} # {}
      BY <1>3
    <3>2. q \in S \ {p} /\ \A y \in S \ {p} : y <= q
      BY <1>0, <2>1, <3>1, Greatest
    <3>3. \A y \in S : y \in Nat
      BY <1>0
    <3>4. p <= q
      BY <1>2
    <3>5. \A y \in S : y <= q
      BY <3>2, <3>4
    <3>6. PICK m \in S : m = MaxOf(S) /\ \A y \in S : y <= m
      BY <1>4
    <3>7. q <= m /\ m <= q /\ q \in Nat /\ m \in Nat
      BY <3>3, <3>5, <3>6
    <3> QED
      BY <3>6, <3>7
  <2> QED
    BY <2>1 DEF New
<1>6. IsFiniteSet(New(c, S)) /\ IsFiniteSet(New(c, S) \ {p})
  <2>1. IsFiniteSet(Pages)
    BY <1>0, FS_Interval DEF Pages
  <2>2. New(c, S) \subseteq Pages /\ New(c, S) \ {p} \subseteq Pages
    BY DEF New
  <2> QED
    BY <2>1, <2>2, FS_Subset
<1>7. /\ IsFiniteSet(New(c, S \ {p})) /\ Cardinality(New(c, S \ {p})) \in Nat
      /\ Cardinality(New(c, S)) \in Nat /\ Cardinality(New(c, S) \ {p}) \in Nat
      /\ Cardinality(New(c, S \ {p})) <= Cardinality(New(c, S) \ {p})
  BY <1>5, <1>6, FS_Subset, FS_CardinalityType
<1>8. Cardinality(New(c, S) \ {p}) <= Cardinality(New(c, S))
  BY <1>6, FS_Subset
<1>9. p \in New(c, S) => Cardinality(New(c, S) \ {p}) = Cardinality(New(c, S)) - 1
  BY <1>6, FS_RemoveElement
<1>10. /\ Cardinality(New(c, S \ {p})) <= Cardinality(New(c, S))
       /\ p \in New(c, S) => Cardinality(New(c, S \ {p})) + 1 <= Cardinality(New(c, S))
  BY <1>7, <1>8, <1>9
<1>11. p \in Pages
  BY <1>2
<1> QED
  BY <1>2, <1>7, <1>10, <1>11

LEMMA OverwriteKeeps ==
  ASSUME WalInv, WalInv', StoreInv, NEW c \in Conns, RememberStep,
         conn[c].pc = "frames", conn[c].list # {},
         UNCHANGED <<hdr, nBackfill, mark, idx, shared, excl, disk, db, dbDisk>>,
         NEW p, p = MinOf(conn[c].list), NEW old,
         old = FindFrame(p, conn[c].min, conn[c].hdr.mx), old > hdr.mx,
         conn[c].list # {p} \/ ~conn[c].commit,
         file' = [file EXCEPT !.frame[old].val = Value(c)],
         NEW k, Overwrites(c, conn[c].list \ {p}, k)
  PROVE  StoreInv'
<1>1. /\ Typed(c) /\ ReadsItsSnap(c) /\ WritesOn(c) /\ Contents /\ ~conn[c].useWal
      /\ AllBackfilled(c) /\ HeaderGrows(c)
      /\ hdr.mx \in Nat /\ conn[c].hdr.mx \in Nat /\ conn[c].n \in Nat
  BY Stands, Digest, JoinsToWrite DEF Joining
<1>2. /\ Only(c) /\ conn'[c].list = conn[c].list \ {p} /\ conn'[c].commit = conn[c].commit
      /\ conn'[c].n = conn[c].n /\ conn'[c].pc = "frames"
      /\ SameLook(c) /\ SameCkpt(c) /\ SameCopy(c)
  BY OverwriteSets
<1>3. p \in conn[c].list /\ p \in Pages
  BY <1>1, FewerNew DEF Typed
<1>4. /\ snap' = [d \in Conns |-> snap'[d]] /\ \A d \in Conns \ {c} : snap'[d] = snap[d]
      /\ snap'[c] = [snap[c] EXCEPT ![p] = Value(c)] /\ store' = store
  <2>1. ~Begins(c) /\ ~RollsBack(c) /\ ~Commits(c) /\ Puts(c)
    BY <1>2, <1>3 DEF Begins, RollsBack, Puts, Commits
  <2> QED
    BY <1>2, <2>1, Remembers
<1>5. /\ conn[c].min \in Nat \ {0} /\ MaxFrame \in Nat /\ conn[c].hdr.mx <= conn[c].n
      /\ conn[c].n <= MaxFrame /\ hdr.mx <= conn[c].hdr.mx
  BY <1>1, WalAssumption DEF Typed, HeaderGrows, Writing
<1>6. old \in conn[c].min .. conn[c].hdr.mx /\ IsLast(idx, p, old, conn[c].hdr.mx)
  BY <1>1, <1>5, Finding
<1>7. old \in Frames
  BY <1>1, <1>5, <1>6 DEF Frames
<1> DEFINE f == file.frame
           g == [f EXCEPT ![old] = [f[old] EXCEPT !.val = Value(c)]]
<1>8. file'.frame = g
  <2>1. file' = [file EXCEPT !.frame = g]
    BY DEF WalInv, WalShape, DrawnFile
  <2> HIDE DEF g
  <2> QED
    BY <2>1, FrameSet
<1>9. f = [i \in Frames |-> f[i]]
  BY <1>1 DEF Contents, Framed
<1>10. /\ g = [i \in Frames |-> g[i]] /\ \A i \in Frames : i # old => g[i] = f[i]
       /\ g[old] = [f[old] EXCEPT !.val = Value(c)]
  BY <1>7, <1>9
<1>11. /\ g[old] = [x \in FrameFields |-> g[old][x]] /\ g[old].pg = f[old].pg
       /\ g[old].val = Value(c)
  <2>1. f[old] = [x \in FrameFields |-> f[old][x]]
    BY <1>1, <1>7 DEF Contents, Framed
  <2>2. PICK q : q = [f[old] EXCEPT !.val = Value(c)]
    OBVIOUS
  <2>3. q = [x \in FrameFields |-> q[x]] /\ q.pg = f[old].pg /\ q.val = Value(c)
    BY <2>1, <2>2, Zenon DEF FrameFields
  <2>4. g[old] = q
    BY <1>10, <2>2
  <2> HIDE DEF g
  <2> QED
    BY <2>3, <2>4, Zenon
<1> HIDE DEF g
<1>12. /\ \A i \in Frames : g[i].pg = f[i].pg
       /\ \A i \in Frames : i # old => g[i].val = f[i].val
  BY <1>10, <1>11
<1>13. Framed(file'.frame) /\ Framed(disk'.frame)
  <2>1. \A i \in Frames : f[i] = [x \in FrameFields |-> f[i][x]] /\ f[i].pg \in 0 .. NPages
    BY <1>1 DEF Contents, Framed
  <2>2. \A i \in Frames : g[i] = [x \in FrameFields |-> g[i][x]] /\ g[i].pg \in 0 .. NPages
    <3>1. ASSUME NEW i \in Frames
          PROVE  g[i] = [x \in FrameFields |-> g[i][x]] /\ g[i].pg \in 0 .. NPages
      <4>1. CASE i = old
        BY <1>7, <1>11, <2>1, <4>1
      <4>2. CASE i # old
        <5>1. g[i] = f[i]
          BY <1>10, <4>2
        <5>2. f[i] = [x \in FrameFields |-> f[i][x]] /\ f[i].pg \in 0 .. NPages
          BY <2>1
        <5> HIDE DEF f
        <5> QED
          BY <5>1, <5>2, Zenon
      <4> QED
        BY <4>1, <4>2
    <3> QED
      BY <3>1
  <2>3. Framed(g)
    BY <1>10, <2>2 DEF Framed
  <2> QED
    BY <1>1, <1>8, <2>3 DEF Contents
<1>14. KeepsLog(hdr.mx)
  <2>1. \A i \in 1 .. hdr.mx : i \in Frames /\ i # old
    BY <1>1, <1>5, <1>6 DEF Frames
  <2> QED
    BY <1>8, <1>12, <2>1 DEF KeepsLog
<1>15. Typed(c)'
  BY <1>1, <1>2 DEF Typed, SameLook, SameCkpt, SameCopy
<1>16. Index(c)' = Index(c) /\ End(c)' = conn[c].n /\ End(c) = conn[c].n
  BY <1>2, <1>8, <1>12 DEF Index, End, SameCopy
<1>17. conn[c].slot # 0 /\ ReadsLog(c) /\ ~Rejoins(c)'
  BY <1>1, <1>2 DEF AllBackfilled, ReadsLog, Rejoins, SameLook
<1>18. ReadsItsSnap(c)'
  <2>1. /\ Gives(Index(c), conn[c].min, conn[c].n, f, db, snap[c])
        /\ snap[c] = [q \in Pages |-> snap[c][q]]
    BY <1>16, <1>17, LogReader
  <2>2. /\ snap'[c] = [q \in Pages |-> snap'[c][q]] /\ snap'[c][p] = Value(c)
        /\ \A q \in Pages \ {p} : snap'[c][q] = snap[c][q]
    BY <1>3, <1>4, <2>1
  <2>3. old \in conn[c].min .. conn[c].n
    BY <1>1, <1>5, <1>6
  <2>4. IsLast(Index(c), p, old, conn[c].n)
    <3>1. Index(c) = [i \in Frames |-> IF i <= conn[c].hdr.mx THEN idx[i] ELSE f[i].pg]
      BY DEF Index
    <3>2. Index(c)[old] = p
      BY <1>6, <1>7, <3>1 DEF IsLast
    <3>3. ASSUME NEW i \in old + 1 .. conn[c].n PROVE Index(c)[i] # p
      <4>1. i \in Frames
        BY <1>1, <1>5, <1>7, <3>3 DEF Frames
      <4>2. CASE i <= conn[c].hdr.mx
        <5>1. i \in old + 1 .. conn[c].hdr.mx
          BY <1>1, <1>6, <4>2
        <5> QED
          BY <1>6, <3>1, <4>1, <4>2, <5>1 DEF IsLast
      <4>3. CASE ~(i <= conn[c].hdr.mx)
        <5>1. i \in conn[c].hdr.mx + 1 .. conn[c].n
          BY <1>1, <1>6, <4>3
        <5>2. f[i].pg # p
          BY <1>1, <1>3, <5>1 DEF WritesOn
        <5> QED
          BY <3>1, <4>1, <4>3, <5>2
      <4> QED
        BY <4>2, <4>3
    <3> QED
      BY <3>2, <3>3 DEF IsLast
  <2>5. \A i \in conn[c].min .. conn[c].n : i # old => g[i].val = f[i].val
    <3>1. \A i \in conn[c].min .. conn[c].n : i \in Frames
      BY <1>1, <1>5 DEF Frames
    <3> QED
      BY <1>12, <3>1
  <2>6. Gives(Index(c), conn[c].min, conn[c].n, g, db, snap'[c])
    <3>1. PICK ix, s : ix = Index(c) /\ s = snap'[c]
      OBVIOUS
    <3>2. PICK lo \in Nat, hi \in Nat : lo = conn[c].min /\ hi = conn[c].n
      BY <1>1, <1>5
    <3>3. Gives(ix, lo, hi, f, db, snap[c]) /\ old \in lo .. hi /\ IsLast(ix, p, old, hi)
      BY <2>1, <2>3, <2>4, <3>1, <3>2
    <3>4. /\ \A i \in lo .. hi : i # old => g[i].val = f[i].val
          /\ g[old].val = s[p] /\ \A q \in Pages \ {p} : s[q] = snap[c][q]
      BY <1>11, <2>2, <2>5, <3>1, <3>2
    <3>5. Gives(ix, lo, hi, g, db, s)
      BY <1>3, <3>3, <3>4, GivesOver1
    <3> QED
      BY <3>1, <3>2, <3>5
  <2> QED
    BY <1>2, <1>8, <1>16, <1>17, <2>2, <2>6 DEF ReadsItsSnap, SameLook
<1>19. WritesOn(c)'
  <2>1. New(c, conn[c].list \ {p})' = New(c, conn[c].list \ {p})
    BY <1>2 DEF New, FindFrame, SameLook, SameCopy
  <2>2. /\ Cardinality(New(c, conn[c].list)) \in Nat
        /\ Cardinality(New(c, conn[c].list \ {p})) \in Nat
        /\ Cardinality(New(c, conn[c].list \ {p})) <= Cardinality(New(c, conn[c].list))
    BY <1>1, FewerNew DEF Typed
  <2>3. conn[c].n + Cardinality(New(c, conn[c].list)) <= MaxFrame
    BY <1>1 DEF WritesOn
  <2>4. conn[c].n + Cardinality(New(c, conn[c].list \ {p})) <= MaxFrame
    BY <1>1, <1>5, <2>2, <2>3
  <2>5. \A q \in conn[c].list \ {p} :
          \A i \in conn[c].hdr.mx + 1 .. conn[c].n : file'.frame[i].pg # q
    <3>1. \A i \in conn[c].hdr.mx + 1 .. conn[c].n : i \in Frames
      BY <1>1, <1>5 DEF Frames
    <3> QED
      BY <1>1, <1>8, <1>12, <3>1 DEF WritesOn
  <2>6. ~(conn[c].list \ {p} = {} /\ conn[c].commit)
    BY <1>3
  <2> QED
    BY <1>2, <1>17, <2>1, <2>4, <2>5, <2>6 DEF WritesOn, SameCopy
<1> QED
  BY <1>1, <1>2, <1>4, <1>13, <1>14, <1>15, <1>18, <1>19, WritesLog DEF SameCopy, Contents

LEMMA AppendKeeps ==
  ASSUME WalInv, WalInv', StoreInv, NEW c \in Conns, RememberStep,
         conn[c].pc = "frames", conn[c].list # {},
         UNCHANGED <<hdr, nBackfill, mark, idx, shared, excl, disk, db, dbDisk>>,
         NEW p, p = MinOf(conn[c].list), p \in New(c, conn[c].list),
         NEW n, n = conn[c].n + 1, NEW r, r = [x \in FrameFields |-> r[x]],
         r.pg = p, r.val = Value(c), file' = [file EXCEPT !.frame = [@ EXCEPT ![n] = r]],
         Appends(c, conn[c].list \ {p}, n)
  PROVE  StoreInv'
<1>1. /\ Typed(c) /\ ReadsItsSnap(c) /\ WritesOn(c) /\ Contents /\ ~conn[c].useWal
      /\ AllBackfilled(c) /\ HeaderGrows(c)
      /\ hdr.mx \in Nat /\ conn[c].hdr.mx \in Nat /\ conn[c].n \in Nat /\ nBackfill \in Nat
  BY Stands, Digest, JoinsToWrite DEF Joining
<1>2. /\ Only(c) /\ conn'[c].list = conn[c].list \ {p} /\ conn'[c].commit = conn[c].commit
      /\ conn'[c].n = n /\ conn'[c].pc = "frames"
      /\ SameLook(c) /\ SameCkpt(c) /\ SameCopy(c)
  BY AppendSets
<1>3. p \in conn[c].list /\ p \in Pages
  BY <1>1, FewerNew DEF Typed
<1>4. /\ snap' = [d \in Conns |-> snap'[d]] /\ \A d \in Conns \ {c} : snap'[d] = snap[d]
      /\ snap'[c] = [snap[c] EXCEPT ![p] = Value(c)] /\ store' = store
  <2>1. ~Begins(c) /\ ~RollsBack(c) /\ ~Commits(c) /\ Puts(c)
    BY <1>2, <1>3 DEF Begins, RollsBack, Puts, Commits
  <2> QED
    BY <1>2, <2>1, Remembers
<1>5. /\ conn[c].min \in Nat \ {0} /\ MaxFrame \in Nat /\ conn[c].hdr.mx <= conn[c].n
      /\ conn[c].n <= MaxFrame /\ hdr.mx <= conn[c].hdr.mx /\ n \in Nat
  BY <1>1, WalAssumption DEF Typed, HeaderGrows, Writing
<1>6. /\ Cardinality(New(c, conn[c].list \ {p})) \in Nat
      /\ n + Cardinality(New(c, conn[c].list \ {p})) <= MaxFrame
  <2>1. /\ Cardinality(New(c, conn[c].list)) \in Nat
        /\ Cardinality(New(c, conn[c].list \ {p})) \in Nat
        /\ Cardinality(New(c, conn[c].list \ {p})) + 1 <= Cardinality(New(c, conn[c].list))
    BY <1>1, FewerNew DEF Typed
  <2>2. conn[c].n + Cardinality(New(c, conn[c].list)) <= MaxFrame
    BY <1>1 DEF WritesOn
  <2> QED
    BY <1>1, <1>5, <2>1, <2>2
<1>7. n \in Frames /\ n <= MaxFrame
  BY <1>1, <1>5, <1>6 DEF Frames
<1> DEFINE f == file.frame
           g == [f EXCEPT ![n] = r]
<1>8. file'.frame = g
  <2>1. file' = [file EXCEPT !.frame = g]
    BY DEF WalInv, WalShape, DrawnFile
  <2> HIDE DEF g
  <2> QED
    BY <2>1, FrameSet
<1>9. f = [i \in Frames |-> f[i]]
  BY <1>1 DEF Contents, Framed
<1>10. /\ g = [i \in Frames |-> g[i]] /\ \A i \in Frames : i # n => g[i] = f[i]
       /\ g[n] = r
  BY <1>7, <1>9
<1> HIDE DEF g
<1>13. Framed(file'.frame) /\ Framed(disk'.frame)
  <2>1. \A i \in Frames : f[i] = [x \in FrameFields |-> f[i][x]] /\ f[i].pg \in 0 .. NPages
    BY <1>1 DEF Contents, Framed
  <2>2. \A i \in Frames : g[i] = [x \in FrameFields |-> g[i][x]] /\ g[i].pg \in 0 .. NPages
    <3>1. ASSUME NEW i \in Frames
          PROVE  g[i] = [x \in FrameFields |-> g[i][x]] /\ g[i].pg \in 0 .. NPages
      <4>1. CASE i = n
        <5>1. p \in 0 .. NPages
          BY <1>3, WalAssumption DEF Pages
        <5>2. g[i] = r
          BY <1>10, <4>1
        <5> QED
          BY <5>1, <5>2, Zenon
      <4>2. CASE i # n
        <5>1. g[i] = f[i]
          BY <1>10, <4>2
        <5>2. f[i] = [x \in FrameFields |-> f[i][x]] /\ f[i].pg \in 0 .. NPages
          BY <2>1
        <5> HIDE DEF f
        <5> QED
          BY <5>1, <5>2, Zenon
      <4> QED
        BY <4>1, <4>2
    <3> QED
      BY <3>1
  <2>3. Framed(g)
    BY <1>10, <2>2 DEF Framed
  <2> QED
    BY <1>1, <1>8, <2>3 DEF Contents
<1>14. KeepsLog(hdr.mx)
  <2>1. \A i \in 1 .. hdr.mx : i \in Frames /\ i # n
    BY <1>1, <1>5 DEF Frames
  <2> QED
    BY <1>8, <1>10, <2>1 DEF KeepsLog
<1>15. Typed(c)'
  BY <1>1, <1>2, <1>7 DEF Typed, SameLook, SameCkpt, SameCopy
<1>16. End(c)' = n /\ End(c) = conn[c].n
  BY <1>2 DEF End
<1>17. conn[c].slot # 0 /\ ReadsLog(c) /\ ~Rejoins(c)'
  BY <1>1, <1>2 DEF AllBackfilled, ReadsLog, Rejoins, SameLook
<1>18. ReadsItsSnap(c)'
  <2>1. /\ Gives(Index(c), conn[c].min, conn[c].n, f, db, snap[c])
        /\ snap[c] = [q \in Pages |-> snap[c][q]] /\ conn[c].min <= nBackfill + 1
    BY <1>16, <1>17, LogReader
  <2>2. /\ snap'[c] = [q \in Pages |-> snap'[c][q]] /\ snap'[c][p] = Value(c)
        /\ \A q \in Pages \ {p} : snap'[c][q] = snap[c][q]
    BY <1>3, <1>4, <2>1
  <2>3. nBackfill <= hdr.mx
    <3>1. \A d \in Conns : conn[d].pc # "restart"
      BY OneAtATime DEF Writing
    <3> QED
      BY <3>1, Digest DEF BackfillBound
  <2>4. \A i \in conn[c].min .. conn[c].n :
          Index(c)'[i] = Index(c)[i] /\ g[i].val = f[i].val
    <3>1. ASSUME NEW i \in conn[c].min .. conn[c].n PROVE i \in Frames /\ i # n
      BY <1>1, <1>5 DEF Frames
    <3>2. Index(c) = [i \in Frames |-> IF i <= conn[c].hdr.mx THEN idx[i] ELSE f[i].pg]
      BY DEF Index
    <3>3. Index(c)' = [i \in Frames |-> IF i <= conn[c].hdr.mx THEN idx[i]
                                                               ELSE file'.frame[i].pg]
      BY <1>2 DEF Index, SameCopy
    <3> QED
      BY <1>8, <1>10, <3>1, <3>2, <3>3
  <2>5. Index(c)'[n] = p
    <3>1. Index(c)' = [i \in Frames |-> IF i <= conn[c].hdr.mx THEN idx[i]
                                                               ELSE file'.frame[i].pg]
      BY <1>2 DEF Index, SameCopy
    <3>2. ~(n <= conn[c].hdr.mx)
      BY <1>1, <1>5
    <3> QED
      BY <1>7, <1>8, <1>10, <3>1, <3>2
  <2>6. Gives(Index(c)', conn[c].min, n, g, db, snap'[c])
    <3>1. PICK ix, ix2, s : ix = Index(c) /\ ix2 = Index(c)' /\ s = snap'[c]
      OBVIOUS
    <3>2. PICK lo \in Nat, hi \in Nat : lo = conn[c].min /\ hi = conn[c].n
      BY <1>1, <1>5
    <3>3. Gives(ix, lo, hi, f, db, snap[c]) /\ n = hi + 1 /\ lo <= n /\ n \in Nat
      <4>1. conn[c].min <= n
        BY <1>1, <1>5, <2>1, <2>3
      <4> QED
        BY <1>5, <2>1, <3>1, <3>2, <4>1
    <3>4. /\ \A i \in lo .. hi : ix2[i] = ix[i] /\ g[i].val = f[i].val
          /\ ix2[n] = p /\ g[n].val = s[p] /\ \A q \in Pages \ {p} : s[q] = snap[c][q]
      BY <1>10, <2>2, <2>4, <2>5, <3>1, <3>2
    <3>5. Gives(ix2, lo, n, g, db, s)
      <4> HIDE DEF f
      <4>1. n \in Nat /\ n = hi + 1 /\ lo <= n
        BY <3>3
      <4>2. g[n].val = s[p] /\ ix2[n] = p /\ p \in Pages
        BY <1>3, <3>4
      <4>3. /\ \A i \in lo .. hi : ix2[i] = ix[i] /\ g[i].val = f[i].val
            /\ \A q \in Pages \ {p} : s[q] = snap[c][q]
        BY <3>4
      <4> QED
        BY <3>3, <4>1, <4>2, <4>3, GivesMore, SMTT(30)
    <3> QED
      BY <3>1, <3>2, <3>5
  <2> QED
    BY <1>2, <1>8, <1>16, <1>17, <2>2, <2>6 DEF ReadsItsSnap, SameLook
<1>19. WritesOn(c)'
  <2>1. New(c, conn[c].list \ {p})' = New(c, conn[c].list \ {p})
    BY <1>2 DEF New, FindFrame, SameLook, SameCopy
  <2>2. ASSUME NEW q \in conn[c].list \ {p}, NEW i \in conn[c].hdr.mx + 1 .. n
        PROVE  file'.frame[i].pg # q
    <3>1. CASE i = n
      BY <1>8, <1>10, <2>2, <3>1
    <3>2. CASE i # n
      <4>1. i \in conn[c].hdr.mx + 1 .. conn[c].n /\ i \in Frames
        BY <1>1, <1>5, <3>2 DEF Frames
      <4> QED
        BY <1>1, <1>8, <1>10, <3>2, <4>1 DEF WritesOn
    <3> QED
      BY <3>1, <3>2
  <2>3. conn[c].hdr.mx < n
    BY <1>1, <1>5
  <2> QED
    BY <1>2, <1>6, <1>17, <2>1, <2>2, <2>3 DEF WritesOn, SameCopy
<1> QED
  BY <1>1, <1>2, <1>4, <1>13, <1>14, <1>15, <1>18, <1>19, WritesLog DEF SameCopy, Contents

(* The two ways to write a page: over its frame, or into a new one.          *)
PutsOver(c, p, old) ==
  /\ old = FindFrame(p, conn[c].min, conn[c].hdr.mx) /\ old > hdr.mx
  /\ conn[c].list # {p} \/ ~conn[c].commit
  /\ file' = [file EXCEPT !.frame[old].val = Value(c)]
  /\ Overwrites(c, conn[c].list \ {p},
                IF conn[c].reck = 0 \/ old < conn[c].reck THEN old ELSE conn[c].reck)
PutsAfter(c, p, n, r) ==
  /\ p \in New(c, conn[c].list) /\ n = conn[c].n + 1
  /\ r = [x \in FrameFields |-> r[x]] /\ r.pg = p /\ r.val = Value(c)
  /\ r.commit <=> conn[c].commit /\ conn[c].list = {p}
  /\ conn[c].reck = 0 =>
       r.salt = conn[c].hdr.salt /\ r.sum = Sum([file.frame EXCEPT ![n] = r], n)
  /\ conn[c].reck # 0 => r.salt = 0 /\ r.sum = <<>>
  /\ file' = [file EXCEPT !.frame = [@ EXCEPT ![n] = r]]
  /\ Appends(c, conn[c].list \ {p}, n)

LEMMA SumSame ==
  ASSUME NEW f, NEW f2, NEW i \in Nat, \A k \in 1 .. i : Payload(f2, k) = Payload(f, k)
  PROVE  Sum(f2, i) = Sum(f, i)
BY DEF Sum

LEMMA FramePutAs ==
  ASSUME WalInv, StoreInv, NEW c \in Conns, WriteFrame(c), NEW p, p = MinOf(conn[c].list)
  PROVE  (\E old : PutsOver(c, p, old)) \/ (\E n, r : PutsAfter(c, p, n, r))
<1> DEFINE last == conn[c].list = {p}
           old == FindFrame(p, conn[c].min, conn[c].hdr.mx)
           n == conn[c].n + 1
           put == [file.frame EXCEPT ![n] =
                     [salt |-> conn[c].hdr.salt, pg |-> p, val |-> Value(c),
                      commit |-> conn[c].commit /\ last, sum |-> <<>>]]
           over == conn[c].hdr # hdr /\ old > hdr.mx /\ (~last \/ ~conn[c].commit)
<1>1. conn[c].pc = "frames" /\ conn[c].list # {}
  BY DEF WriteFrame
<1>2. CASE over
  <2>1. file' = [file EXCEPT !.frame[old].val = Value(c)]
    BY <1>2 DEF WriteFrame
  <2>2. Overwrites(c, conn[c].list \ {p},
                   IF conn[c].reck = 0 \/ old < conn[c].reck THEN old ELSE conn[c].reck)
    BY <1>2, Shape DEF WriteFrame, Overwrites
  <2> QED
    BY <1>2, <2>1, <2>2 DEF PutsOver
<1>3. CASE ~over
  <2> DEFINE rec == [salt |-> conn[c].hdr.salt, pg |-> p, val |-> Value(c),
                     commit |-> conn[c].commit /\ last, sum |-> <<>>]
             r == IF conn[c].reck = 0 THEN [rec EXCEPT !.sum = Sum(put, n)]
                                      ELSE [rec EXCEPT !.salt = 0]
  <2>1. Appends(c, conn[c].list \ {p}, n)
    BY <1>3, Shape DEF WriteFrame, Appends
  <2>2. file' = [file EXCEPT !.frame =
                   IF conn[c].reck = 0 THEN [put EXCEPT ![n].sum = Sum(put, n)]
                                       ELSE [put EXCEPT ![n].salt = 0]]
    BY <1>3 DEF WriteFrame
  <2>3. p \in New(c, conn[c].list)
    <3>1. Typed(c) /\ Contents /\ hdr.mx \in Nat /\ HeaderGrows(c)
      BY Stands, Digest
    <3>2. p \in conn[c].list
      BY <1>1, <3>1, FewerNew DEF Typed
    <3>3. CASE last
      <4>1. MaxOf({p}) = p
        <5>1. p \in Pages /\ p \in Nat
          BY <3>1, <3>2 DEF Typed, Pages
        <5>2. {p} \in SUBSET (0 .. p) /\ {p} # {}
          BY <5>1
        <5>3. MaxOf({p}) \in {p}
          BY <5>1, <5>2, Greatest
        <5> QED
          BY <5>3
      <4> QED
        BY <3>2, <3>3, <4>1 DEF New
    <3>4. CASE conn[c].hdr = hdr
      <4>1. old <= hdr.mx
        BY <3>1, <3>4, Finding DEF Typed
      <4> QED
        BY <3>2, <4>1 DEF New
    <3>5. CASE ~(old > hdr.mx)
      <4>1. old <= hdr.mx
        BY <3>1, <3>5, Finding, Digest DEF Typed
      <4> QED
        BY <3>2, <4>1 DEF New
    <3> QED
      BY <1>3, <3>3, <3>4, <3>5
  <2>4. file.frame = [i \in Frames |-> file.frame[i]]
    BY DEF StoreInv, Contents, Framed
  <2>5. PICK u, v, w : u = n /\ v = rec /\ w = Sum(put, n)
    OBVIOUS
  <2>6. put = [file.frame EXCEPT ![u] = v]
    BY <2>5
  <2>7. r = IF conn[c].reck = 0 THEN [v EXCEPT !.sum = w] ELSE [v EXCEPT !.salt = 0]
    BY <2>5
  <2>8. /\ v = [x \in FrameFields |-> v[x]] /\ v.pg = p /\ v.val = Value(c)
        /\ v.salt = conn[c].hdr.salt /\ v.sum = <<>> /\ v.commit = (conn[c].commit /\ last)
    <3>1. v = rec
      BY <2>5
    <3> HIDE DEF last
    <3> QED
      BY <3>1, Zenon DEF FrameFields
  <2> HIDE DEF put, rec, r, n, last
  <2>9. PICK a, b : a = [v EXCEPT !.sum = w] /\ b = [v EXCEPT !.salt = 0]
    OBVIOUS
  <2>10. /\ a = [x \in FrameFields |-> a[x]] /\ a.pg = p /\ a.val = Value(c)
         /\ a.salt = conn[c].hdr.salt /\ a.sum = w /\ a.commit = v.commit
    BY <2>8, <2>9, Zenon DEF FrameFields
  <2>11. /\ b = [x \in FrameFields |-> b[x]] /\ b.pg = p /\ b.val = Value(c)
         /\ b.salt = 0 /\ b.sum = <<>> /\ b.commit = v.commit
    BY <2>8, <2>9, Zenon DEF FrameFields
  <2>12. r = IF conn[c].reck = 0 THEN a ELSE b
    BY <2>7, <2>9
  <2>13. r = [x \in FrameFields |-> r[x]] /\ r.pg = p /\ r.val = Value(c) /\ r.commit = v.commit
    BY <2>10, <2>11, <2>12, Zenon
  <2>14. file' = [file EXCEPT !.frame = [@ EXCEPT ![n] = r]]
    <3>1. /\ [put EXCEPT ![u].sum = w] = [file.frame EXCEPT ![u] = a]
          /\ [put EXCEPT ![u].salt = 0] = [file.frame EXCEPT ![u] = b]
      BY <2>4, <2>6, <2>9
    <3>2. (IF conn[c].reck = 0 THEN [put EXCEPT ![u].sum = w] ELSE [put EXCEPT ![u].salt = 0])
          = [file.frame EXCEPT ![u] = r]
      BY <2>12, <3>1
    <3> QED
      BY <2>2, <2>5, <3>2
  <2>15. Sum(put, n) = Sum([file.frame EXCEPT ![n] = r], n)
    <3>1. PICK g : g = [file.frame EXCEPT ![u] = r]
      OBVIOUS
    <3>2. ASSUME NEW i \in 1 .. n PROVE Payload(put, i) = Payload(g, i)
      <4>1. CASE i = u /\ u \in Frames
        <5>1. put[i] = v /\ g[i] = r
          BY <2>4, <2>6, <3>1, <4>1
        <5> QED
          BY <2>8, <2>13, <5>1 DEF Payload
      <4>2. CASE i # u \/ u \notin Frames
        <5>1. put[i] = file.frame[i] /\ g[i] = file.frame[i]
          BY <2>4, <2>6, <3>1, <4>2
        <5> QED
          BY <5>1 DEF Payload
      <4> QED
        BY <4>1, <4>2
    <3>3. n \in Nat
      BY Digest DEF n
    <3>4. Sum(put, n) = Sum(g, n)
      BY <3>2, <3>3, SumSame
    <3> QED
      BY <2>5, <3>1, <3>4
  <2>16. /\ conn[c].reck = 0 =>
              r.salt = conn[c].hdr.salt /\ r.sum = Sum([file.frame EXCEPT ![n] = r], n)
         /\ conn[c].reck # 0 => r.salt = 0 /\ r.sum = <<>>
    BY <2>5, <2>10, <2>11, <2>12, <2>15
  <2>17. r.commit <=> conn[c].commit /\ conn[c].list = {p}
    BY <2>8, <2>13 DEF last
  <2>18. n = conn[c].n + 1
    BY DEF n
  <2>19. PutsAfter(c, p, n, r)
    BY <2>1, <2>3, <2>13, <2>14, <2>16, <2>17, <2>18, Zenon DEF PutsAfter
  <2> QED
    BY <2>19
<1> QED
  BY <1>2, <1>3

LEMMA WriteFrameKeeps ==
  ASSUME WalInv, WalInv', StoreInv, NEW c \in Conns, WriteFrame(c), RememberStep PROVE StoreInv'
<1>1. /\ conn[c].pc = "frames" /\ conn[c].list # {}
      /\ UNCHANGED <<hdr, nBackfill, mark, idx, shared, excl, disk, db, dbDisk>>
  BY DEF WriteFrame, index, locks
<1>2. PICK p : p = MinOf(conn[c].list)
  OBVIOUS
<1>3. CASE \E old : PutsOver(c, p, old)
  <2>1. PICK old : PutsOver(c, p, old)
    BY <1>3
  <2>2. PICK k : k = IF conn[c].reck = 0 \/ old < conn[c].reck THEN old ELSE conn[c].reck
    OBVIOUS
  <2> QED
    BY <1>1, <1>2, <2>1, <2>2, OverwriteKeeps DEF PutsOver
<1>4. CASE \E n, r : PutsAfter(c, p, n, r)
  BY <1>1, <1>2, <1>4, AppendKeeps DEF PutsAfter
<1> QED
  BY <1>2, <1>3, <1>4, FramePutAs

(* What the writer has written, in the index.                                *)
LEMMA Indexed ==
  ASSUME WalInv, StoreInv, NEW c \in Conns, FinishFrames(c)
  PROVE  /\ conn[c].pc = "frames" /\ conn[c].list = {}
         /\ UNCHANGED <<nBackfill, mark, shared, excl, file, disk, db, dbDisk>>
         /\ idx' \in [Frames -> 0 .. NPages]
         /\ \A i \in 1 .. conn[c].n : i \in Frames /\ idx'[i] = Index(c)[i]
         /\ \A i \in 1 .. conn[c].hdr.mx : i \in Frames /\ idx'[i] = idx[i]
         /\ conn[c].slot # 0 /\ ~conn[c].useWal /\ ReadsLog(c)
<1>1. /\ conn[c].pc = "frames" /\ conn[c].list = {} /\ idx' = Appended(conn[c].hdr.mx, conn[c].n)
      /\ UNCHANGED <<nBackfill, mark, shared, excl, file, disk, db, dbDisk>>
  BY DEF FinishFrames, locks, files
<1>2. /\ Typed(c) /\ AllBackfilled(c) /\ HeaderGrows(c) /\ Contents /\ ~conn[c].useWal
      /\ conn[c].hdr.mx \in Nat /\ conn[c].n \in Nat
  BY <1>1, Stands, Digest, JoinsToWrite DEF Joining
<1>3. conn[c].hdr.mx <= conn[c].n /\ conn[c].n <= MaxFrame /\ MaxFrame \in Nat
  BY <1>1, <1>2, WalAssumption DEF Typed, HeaderGrows
<1>4. idx' \in [Frames -> 0 .. NPages]
  <2>1. \A i \in Frames : file.frame[i].pg \in 0 .. NPages /\ idx[i] \in 0 .. NPages
    BY <1>2 DEF Contents, Framed
  <2>2. 0 \in 0 .. NPages
    BY WalAssumption
  <2> QED
    BY <1>1, <2>1, <2>2 DEF Appended
<1>5. ASSUME NEW i \in 1 .. conn[c].n PROVE i \in Frames /\ idx'[i] = Index(c)[i]
  <2>1. i \in Frames /\ i <= conn[c].n
    BY <1>2, <1>3 DEF Frames
  <2> QED
    BY <1>1, <2>1 DEF Index, Appended
<1>6. ASSUME NEW i \in 1 .. conn[c].hdr.mx PROVE i \in Frames /\ idx'[i] = idx[i]
  <2>1. i \in Frames /\ i <= conn[c].hdr.mx
    BY <1>2, <1>3 DEF Frames
  <2> QED
    BY <1>1, <2>1 DEF Appended
<1>7. conn[c].slot # 0 /\ ReadsLog(c)
  BY <1>1, <1>2 DEF AllBackfilled, ReadsLog
<1> QED
  BY <1>1, <1>2, <1>4, <1>5, <1>6, <1>7

LEMMA IndexedGives ==
  ASSUME WalInv, StoreInv, NEW c \in Conns, FinishFrames(c)
  PROVE  Gives(idx', conn[c].min, conn[c].n, file.frame, db, snap[c])
<1>1. /\ conn[c].pc = "frames" /\ ReadsLog(c) /\ \A i \in 1 .. conn[c].n : idx'[i] = Index(c)[i]
  BY Indexed
<1>2. Typed(c) /\ conn[c].n \in Nat
  BY Stands, Digest
<1>3. PICK ix, ix2 : ix = Index(c) /\ ix2 = idx'
  OBVIOUS
<1>4. PICK lo \in Nat \ {0}, hi \in Nat : lo = conn[c].min /\ hi = conn[c].n
  BY <1>2 DEF Typed
<1>5. Gives(ix, lo, hi, file.frame, db, snap[c])
  BY <1>1, <1>3, <1>4, LogReader DEF End
<1>6. \A i \in lo .. hi : ix2[i] = ix[i]
  BY <1>1, <1>3, <1>4
<1>7. Gives(ix2, lo, hi, file.frame, db, snap[c])
  BY <1>5, <1>6, GivesSame
<1> QED
  BY <1>3, <1>4, <1>7

LEMMA SpillKeeps ==
  ASSUME WalInv, WalInv', StoreInv, NEW c \in Conns, FinishFrames(c), ~conn[c].commit, RememberStep
  PROVE  StoreInv'
<1>1. /\ conn[c].pc = "frames" /\ conn[c].slot # 0 /\ ReadsLog(c) /\ ~conn[c].useWal
      /\ UNCHANGED <<nBackfill, mark, shared, excl, file, disk, db, dbDisk>>
      /\ idx' \in [Frames -> 0 .. NPages]
      /\ \A i \in 1 .. conn[c].hdr.mx : idx'[i] = idx[i]
  BY Indexed
<1>2. hdr' = hdr
  BY DEF FinishFrames
<1>3. /\ Only(c) /\ conn'[c].hdr = [conn[c].hdr EXCEPT !.mx = conn[c].n]
      /\ conn'[c].pc = "write" /\ conn'[c].n = 0 /\ conn'[c].list = conn[c].list
      /\ conn'[c].commit = conn[c].commit /\ conn'[c].cache = conn[c].cache
      /\ SameLook(c) /\ SameCkpt(c)
  BY SpillSets
<1>4. /\ Typed(c) /\ HeaderGrows(c) /\ Contents /\ conn[c].hdr \in Header /\ hdr.mx \in Nat
  BY Stands, Digest DEF WalInv, WalShape, Drawn
<1>5. conn'[c].hdr.mx = conn[c].n
  BY <1>3, <1>4 DEF Header
<1>6. /\ snap' = [d \in Conns |-> snap'[d]] /\ \A d \in Conns \ {c} : snap'[d] = snap[d]
      /\ snap'[c] = snap[c] /\ store' = store
  BY <1>1, <1>3, Remembers DEF Begins, RollsBack, Puts, Commits
<1>7. Framed(file'.frame) /\ Framed(disk'.frame)
  BY <1>1, <1>4 DEF Contents
<1>8. KeepsLog(hdr.mx)
  <2>1. hdr.mx <= conn[c].hdr.mx /\ conn[c].hdr.mx \in Nat
    BY <1>1, <1>4, Digest DEF HeaderGrows, Writing
  <2> QED
    BY <1>1, <1>4, <2>1 DEF KeepsLog
<1>9. Typed(c)'
  BY <1>3, <1>4, <1>5, WalAssumption DEF Typed, SameLook, SameCkpt
<1>10. ReadsItsSnap(c)'
  <2>1. Gives(idx', conn[c].min, conn[c].n, file.frame, db, snap[c])
    BY IndexedGives
  <2>2. snap[c] = [p \in Pages |-> snap[c][p]]
    BY <1>1, LogReader
  <2>3. Index(c)' = idx' /\ End(c)' = conn[c].n /\ ~Rejoins(c)'
    BY <1>1, <1>3, <1>5 DEF Index, End, Rejoins, SameLook
  <2> QED
    BY <1>1, <1>3, <1>6, <2>1, <2>2, <2>3 DEF ReadsItsSnap, SameLook
<1>11. WritesOn(c)'
  BY <1>1, <1>3 DEF WritesOn, Rejoins, SameLook
<1> QED
  BY <1>1, <1>2, <1>3, <1>4, <1>6, <1>7, <1>8, <1>9, <1>10, <1>11, WritesLog DEF Contents

(* A rollback.                                                               *)
LEMMA UndoKeeps ==
  ASSUME WalInv, WalInv', StoreInv, NEW c \in Conns, Undo(c), RememberStep PROVE StoreInv'
<1>1. /\ conn[c].pc = "write"
      /\ idx' = IF conn[c].hdr.mx = hdr.mx \/ hdr.mx = 0 THEN idx
                ELSE [i \in Frames |-> IF i <= hdr.mx THEN idx[i] ELSE 0]
      /\ UNCHANGED <<hdr, nBackfill, mark, shared, excl, file, disk, db, dbDisk>>
  BY DEF Undo, files
<1>2. /\ Only(c) /\ conn'[c].hdr = hdr /\ conn'[c].pc = "read" /\ conn'[c].cache = conn[c].cache
      /\ SameLook(c) /\ SameWork(c) /\ SameCkpt(c)
  BY UndoSets
<1>3. /\ Typed(c) /\ WithinMark(c) /\ SeenHeader(c) /\ Contents /\ ~conn[c].useWal
      /\ hdr.mx \in Nat /\ nBackfill \in Nat
  BY <1>1, Stands, Digest, JoinsToWrite DEF Joining
<1>4. /\ snap' = [d \in Conns |-> snap'[d]] /\ \A d \in Conns \ {c} : snap'[d] = snap[d]
      /\ snap'[c] = store /\ store' = store
  <2>1. RollsBack(c) /\ ~Commits(c)
    BY <1>1, <1>2 DEF RollsBack, Commits
  <2> QED
    BY <1>2, <2>1, Remembers
<1>5. idx' \in [Frames -> 0 .. NPages] /\ \A i \in 1 .. hdr.mx : i \in Frames /\ idx'[i] = idx[i]
  <2>1. \A i \in 1 .. hdr.mx : i \in Frames /\ i <= hdr.mx
    BY <1>3, WalAssumption DEF Contents, Frames
  <2>2. 0 \in 0 .. NPages
    BY WalAssumption
  <2> QED
    BY <1>1, <1>3, <2>1, <2>2 DEF Contents
<1>6. Framed(file'.frame) /\ Framed(disk'.frame)
  BY <1>1, <1>3 DEF Contents
<1>7. KeepsLog(hdr.mx)
  BY <1>1, <1>5 DEF KeepsLog
<1>8. Typed(c)'
  BY <1>2, <1>3 DEF Typed, Contents, SameLook, SameWork, SameCkpt
<1>9. ~Rejoins(c)' /\ Index(c)' = idx' /\ End(c)' = hdr.mx /\ (ReadsLog(c)' <=> conn[c].slot # 0)
  BY <1>2, <1>3 DEF Rejoins, Index, End, ReadsLog, SameLook
<1>10. ReadsItsSnap(c)'
  <2>1. hdr.init /\ store = [p \in Pages |-> store[p]]
    BY <1>1, <1>3 DEF SeenHeader, Contents
  <2>2. CASE conn[c].slot = 0
    <3>1. db = store
      BY <1>1, <2>2, WritesOnNewest
    <3> QED
      BY <1>1, <1>2, <1>4, <1>9, <2>2, <3>1 DEF ReadsItsSnap, SameLook
  <2>3. CASE conn[c].slot # 0
    <3>1. conn[c].min \in Nat \ {0} /\ conn[c].min <= nBackfill + 1
      BY <1>1, <1>3, <2>3 DEF Typed, WithinMark, ReadsLog
    <3>2. Gives(idx, conn[c].min, hdr.mx, file.frame, db, store)
      BY <2>1, <3>1, NewestGiven
    <3>3. Gives(idx', conn[c].min, hdr.mx, file.frame, db, store)
      <4>1. PICK ix : ix = idx'
        OBVIOUS
      <4>2. PICK lo \in Nat \ {0}, hi \in Nat : lo = conn[c].min /\ hi = hdr.mx
        BY <1>3, <3>1
      <4>3. Gives(idx, lo, hi, file.frame, db, store) /\ \A i \in lo .. hi : ix[i] = idx[i]
        BY <1>5, <3>2, <4>1, <4>2
      <4>4. Gives(ix, lo, hi, file.frame, db, store)
        BY <4>3, GivesSame
      <4> QED
        BY <4>1, <4>2, <4>4
    <3> QED
      BY <1>1, <1>2, <1>4, <1>9, <2>1, <2>3, <3>3 DEF ReadsItsSnap, SameLook
  <2> QED
    BY <2>2, <2>3
<1>11. WritesOn(c)'
  BY <1>2, <1>9 DEF WritesOn
<1> QED
  BY <1>1, <1>2, <1>4, <1>5, <1>6, <1>7, <1>8, <1>10, <1>11, WritesLog

(* A commit: what the writer reads is the newest content, and stays so in the  *)
(* part of the log that is not backfilled.                                   *)
LEMMA GivesCommitted ==
  ASSUME NEW pg, NEW pg2, NEW b \in Nat, NEW hi \in Nat, NEW n \in Nat, b <= hi, hi <= n,
         NEW f, NEW d, NEW s, NEW s2, GivesAll(pg, b, hi, f, d, s),
         NEW lo \in Nat \ {0}, lo <= b + 1, \A i \in 1 .. hi : pg2[i] = pg[i],
         Gives(pg2, lo, n, f, d, s2)
  PROVE  GivesAll(pg2, b, n, f, d, s2)
<1>1. ASSUME NEW p \in Pages, NEW i \in 1 .. n, IsLast(pg2, p, i, n), i <= b
      PROVE  f[i].val = s[p] /\ d[p] = s[p]
  <2>1. i \in 1 .. hi
    BY <1>1
  <2>2. \A j \in i + 1 .. hi : j \in i + 1 .. n /\ j \in 1 .. hi
    BY <1>1
  <2>3. IsLast(pg, p, i, hi)
    BY <1>1, <2>1, <2>2 DEF IsLast
  <2> QED
    BY <1>1, <2>1, <2>3 DEF GivesAll, Gives
<1>2. ASSUME NEW p \in Pages, NEW i \in 1 .. n, IsLast(pg2, p, i, n), i < lo
      PROVE  d[p] = s2[p]
  <2>1. \A j \in lo .. n : j \in i + 1 .. n
    BY <1>2
  <2>2. \A j \in lo .. n : pg2[j] # p
    BY <1>2, <2>1 DEF IsLast
  <2> QED
    BY <2>2 DEF Gives
<1>3. ASSUME NEW p \in Pages, NEW i \in 1 .. n, IsLast(pg2, p, i, n)
      PROVE  f[i].val = s2[p] /\ (i <= b => d[p] = s2[p])
  <2>1. CASE i < lo
    <3>1. i <= b
      BY <2>1
    <3> QED
      BY <1>1, <1>2, <1>3, <2>1, <3>1
  <2>2. CASE ~(i < lo)
    <3>1. i \in lo .. n
      BY <2>2
    <3>2. f[i].val = s2[p]
      BY <1>3, <3>1 DEF Gives
    <3> QED
      BY <1>1, <1>3, <3>2
  <2> QED
    BY <2>1, <2>2
<1>4. ASSUME NEW p \in Pages, \A i \in 1 .. n : pg2[i] # p PROVE d[p] = s2[p]
  <2>1. \A i \in lo .. n : i \in 1 .. n
    OBVIOUS
  <2>2. \A i \in lo .. n : pg2[i] # p
    BY <1>4, <2>1
  <2> QED
    BY <2>2 DEF Gives
<1> QED
  BY <1>3, <1>4 DEF GivesAll, Gives

LEMMA CommitKeeps ==
  ASSUME WalInv, WalInv', StoreInv, NEW c \in Conns, FinishFrames(c), conn[c].commit, RememberStep
  PROVE  StoreInv'
<1>1. /\ conn[c].pc = "frames" /\ conn[c].list = {} /\ conn[c].slot # 0 /\ ReadsLog(c)
      /\ ~conn[c].useWal
      /\ UNCHANGED <<nBackfill, mark, shared, excl, file, disk, db, dbDisk>>
      /\ idx' \in [Frames -> 0 .. NPages]
      /\ \A i \in 1 .. conn[c].hdr.mx : idx'[i] = idx[i]
  BY Indexed
<1>2. hdr' = [conn[c].hdr EXCEPT !.mx = conn[c].n]
  BY DEF FinishFrames
<1>3. /\ Only(c) /\ conn'[c].hdr = hdr'
      /\ conn'[c].pc = "done" /\ conn'[c].n = 0 /\ conn'[c].list = conn[c].list
      /\ conn'[c].commit = FALSE /\ conn'[c].cache = conn[c].cache
      /\ SameLook(c) /\ SameCkpt(c)
  BY <1>2, CommitSets
<1>4. /\ Typed(c) /\ HeaderGrows(c) /\ SeenHeader(c) /\ WithinMark(c) /\ WritesOn(c) /\ Caches(c)
      /\ Contents /\ Newest /\ conn[c].hdr \in Header /\ hdr.mx \in Nat /\ conn[c].n \in Nat
      /\ conn[c].hdr.mx \in Nat /\ nBackfill \in Nat
  BY Stands, Digest DEF WalInv, WalShape, Drawn
<1>5. hdr'.mx = conn[c].n /\ hdr'.salt = conn[c].hdr.salt /\ hdr'.init /\ hdr.init
  BY <1>1, <1>2, <1>4 DEF Header, SeenHeader
<1>6. /\ snap' = [d \in Conns |-> snap'[d]] /\ \A d \in Conns \ {c} : snap'[d] = snap[d]
      /\ snap'[c] = snap[c] /\ store' = snap[c]
  <2>1. Commits(c) /\ ~Begins(c) /\ ~RollsBack(c) /\ ~Puts(c)
    BY <1>1, <1>3 DEF Begins, RollsBack, Puts, Commits
  <2> QED
    BY <1>3, <2>1, Remembers
<1>7. /\ hdr.mx <= conn[c].hdr.mx /\ conn[c].hdr.mx < conn[c].n /\ conn[c].n <= MaxFrame
      /\ MaxFrame \in Nat
  BY <1>1, <1>4, WalAssumption DEF HeaderGrows, Writing, WritesOn, Typed
<1>8. nBackfill <= hdr.mx
  <2>1. \A d \in Conns : conn[d].pc # "restart"
    BY <1>1, OneAtATime DEF Writing
  <2> QED
    BY <2>1, Digest DEF BackfillBound
<1>9. ASSUME NEW d \in Conns \ {c} PROVE conn[d].hdr # hdr'
  <2>1. ~Writing(d)
    BY <1>1, OneAtATime DEF Writing
  <2>2. conn[d].hdr.salt = hdr.salt => conn[d].hdr.mx <= hdr.mx
    BY <2>1, Digest DEF HeaderGrows
  <2>3. conn[c].hdr.salt # hdr.salt => conn[d].hdr.salt # conn[c].hdr.salt
    BY <1>1, <1>4 DEF HeaderGrows, Writing
  <2>4. CASE conn[c].hdr.salt = hdr.salt
    BY <1>4, <1>5, <1>7, <2>2, <2>4
  <2>5. CASE conn[c].hdr.salt # hdr.salt
    BY <1>5, <2>3, <2>5
  <2> QED
    BY <2>4, <2>5
<1>10. Gentle(c)
  <2>1. KeepsLog(hdr.mx)
    BY <1>1, <1>4, <1>7 DEF KeepsLog
  <2>2. Writing(c)
    BY <1>1 DEF Writing
  <2>3. hdr.mx <= hdr'.mx
    BY <1>4, <1>5, <1>7
  <2> QED
    BY <1>1, <1>3, <1>6, <1>9, <2>1, <2>2, <2>3 DEF Gentle, KeepsDb
<1>11. SlotsHeld' /\ shared' \in [ReadLocks -> SUBSET Conns] /\ excl' \in SUBSET ReadLocks
  <2>1. Owns(c)' /\ \A i \in ReadLocks : Shares(c, i)' <=> Shares(c, i)
    BY <1>1, <1>3 DEF Owns, Shares, InSlot, NoSlot, SameLook
  <2> QED
    BY <1>1, <1>3, <2>1, SlotsStay
<1>12. snap[c] = [p \in Pages |-> snap[c][p]]
  BY <1>1, LogReader
<1>13. Contents'
  BY <1>1, <1>4, <1>5, <1>6, <1>7, <1>11, <1>12 DEF Contents
<1>14. conn[c].min \in Nat \ {0} /\ conn[c].min <= nBackfill + 1
  BY <1>1, <1>4 DEF Typed, WithinMark
<1>15. Gives(idx', conn[c].min, conn[c].n, file.frame, db, snap[c])
  BY IndexedGives
<1>16. Newest'
  <2>1. GivesAll(idx, nBackfill, hdr.mx, file.frame, db, store)
    BY <1>4, <1>5 DEF Newest
  <2>2. PICK ix : ix = idx'
    OBVIOUS
  <2>3. \A i \in 1 .. hdr.mx : ix[i] = idx[i]
    BY <1>1, <1>4, <1>7, <2>2
  <2>4. PICK lo \in Nat \ {0} : lo = conn[c].min
    BY <1>14
  <2>5. PICK n \in Nat : n = conn[c].n
    BY <1>4
  <2>6. Gives(ix, lo, n, file.frame, db, snap[c])
    BY <1>15, <2>2, <2>4, <2>5
  <2>7. lo <= nBackfill + 1 /\ hdr.mx <= n
    BY <1>4, <1>7, <1>14, <2>4, <2>5
  <2>8. GivesAll(ix, nBackfill, n, file.frame, db, snap[c])
    <3>1. PICK b \in Nat : b = nBackfill
      BY <1>4
    <3>2. PICK hi \in Nat : hi = hdr.mx
      BY <1>4
    <3>3. PICK f : f = file.frame
      OBVIOUS
    <3>4. PICK s2 : s2 = snap[c]
      OBVIOUS
    <3>5. b <= hi /\ hi <= n /\ lo <= b + 1
      BY <1>8, <2>7, <3>1, <3>2
    <3>6. GivesAll(idx, b, hi, f, db, store) /\ Gives(ix, lo, n, f, db, s2)
      BY <2>1, <2>6, <3>1, <3>2, <3>3, <3>4, Zenon
    <3>7. \A i \in 1 .. hi : ix[i] = idx[i]
      BY <2>3, <3>2
    <3>8. GivesAll(ix, b, n, f, db, s2)
      BY <3>5, <3>6, <3>7, GivesCommitted, SMTT(30)
    <3> QED
      BY <3>1, <3>3, <3>4, <3>8, Zenon
  <2> QED
    <3>1. /\ idx' = ix /\ hdr'.mx = n /\ nBackfill' = nBackfill /\ file' = file /\ db' = db
          /\ store' = snap[c]
      BY <1>1, <1>5, <1>6, <2>2, <2>5
    <3>2. GivesAll(idx, nBackfill, hdr.mx, file.frame, db, store)'
      BY <2>8, <3>1, Zenon
    <3> QED
      BY <1>5, <3>2 DEF Newest
<1>17. Typed(c)'
  <2>1. conn'[c].hdr.mx <= MaxFrame /\ conn'[c].n <= MaxFrame
    <3>1. conn'[c].hdr.mx = conn[c].n /\ conn'[c].n = 0
      BY <1>3, <1>5, Zenon
    <3> QED
      BY <1>7, <3>1
  <2>2. conn'[c].commit \in BOOLEAN /\ conn'[c].list \in SUBSET Pages
    BY <1>3, <1>4, Zenon DEF Typed
  <2> QED
    BY <1>3, <1>4, <2>1, <2>2 DEF Typed, SameLook, SameCkpt
<1>18. /\ ReadsLog(c)' /\ ~Rejoins(c)' /\ Index(c)' = idx' /\ End(c)' = conn[c].n
       /\ Base(c)' = conn[c].n /\ Base(c) = hdr.mx
  BY <1>1, <1>3, <1>5 DEF ReadsLog, Rejoins, Index, End, Base, Writing, SameLook
<1>19. WithinMark(c)'
  <2>1. mark[conn[c].slot] <= hdr.mx /\ mark[conn[c].slot] \in Nat
    BY <1>1, <1>18, LogReader, Digest
  <2>2. mark[conn[c].slot] <= conn[c].n
    BY <1>4, <1>7, <2>1
  <2>3. /\ conn'[c].slot = conn[c].slot /\ conn'[c].min = conn[c].min /\ mark' = mark
        /\ nBackfill' = nBackfill
    BY <1>1, <1>3 DEF SameLook
  <2> QED
    BY <1>3, <1>4, <1>5, <1>14, <1>18, <2>2, <2>3 DEF WithinMark
<1>20. ReadsItsSnap(c)'
  <2>1. conn'[c].min = conn[c].min /\ conn'[c].pc = "done" /\ file' = file /\ db' = db
    BY <1>1, <1>3 DEF SameLook
  <2> QED
    BY <1>6, <1>12, <1>15, <1>18, <2>1 DEF ReadsItsSnap
<1>21. WritesOn(c)' /\ Copies(c)' /\ Caches(c)'
  BY <1>1, <1>3, <1>4, <1>18 DEF WritesOn, Copies, Caches, InSlot
<1>22. Keeping(c)'
  BY <1>19, <1>20, <1>21 DEF Keeping
<1>23. ASSUME NEW d \in Conns PROVE Spares(c, d)' /\ Spares(d, c)'
  <2>1. Base(c)' \in Nat /\ Base(c) <= Base(c)'
    BY <1>4, <1>7, <1>18
  <2> QED
    BY <1>1, <1>3, <2>1, SparesOn DEF SameLook
<1> QED
  BY <1>10, <1>11, <1>13, <1>16, <1>17, <1>22, <1>23, StoreByOne

-----------------------------------------------------------------------------
(* The steps that begin a new log, while nobody reads the old one.           *)

LEMMA NobodyReads ==
  ASSUME WalInv, WalInv', StoreInv, NEW c \in Conns, Only(c), ~ReadsLog(c)',
         \A d \in Conns \ {c} : /\ ~(conn[d].pc \in InSlot /\ conn[d].slot # 0)
                                /\ ~Writing(d) /\ conn[d].pc # "copy",
         hdr' = hdr \/ \A d \in Conns \ {c} : conn[d].hdr # hdr',
         db' = db, store' = store, \A d \in Conns \ {c} : snap'[d] = snap[d],
         Contents', SlotsHeld', Newest', Typed(c)', Keeping(c)'
  PROVE  StoreInv'
<1>1. ASSUME NEW d \in Conns, d # c PROVE Typed(d)' /\ Keeping(d)' /\ ~ReadsLog(d)'
  <2>1. /\ conn'[d] = conn[d] /\ snap'[d] = snap[d] /\ ~Writing(d) /\ conn[d].pc # "copy"
        /\ ~(conn[d].pc \in InSlot /\ conn[d].slot # 0)
    BY <1>1, OthersSame
  <2>2. /\ Typed(d) /\ WithinMark(d) /\ ReadsItsSnap(d) /\ WritesOn(d) /\ Caches(d)
        /\ AllBackfilled(d)
    BY Stands, Digest
  <2>3. ~ReadsLog(d)' /\ ~Rejoins(d)' /\ conn[d].pc # "check"
    BY <2>1, <2>2 DEF ReadsLog, Rejoins, Writing, InSlot, AllBackfilled
  <2>4. Typed(d)'
    BY <2>1, <2>2 DEF Typed
  <2>5. WithinMark(d)'
    BY <2>1, <2>2, <2>3 DEF WithinMark
  <2>6. ReadsItsSnap(d)'
    BY <2>1, <2>2, <2>3 DEF ReadsItsSnap
  <2>7. WritesOn(d)' /\ Copies(d)'
    BY <2>1, <2>3 DEF WritesOn, Copies, Writing
  <2>8. Caches(d)'
    BY <1>1, <2>1, <2>2 DEF Caches, Checkpointing
  <2> QED
    BY <2>3, <2>4, <2>5, <2>6, <2>7, <2>8 DEF Keeping
<1>2. ASSUME NEW d \in Conns PROVE Typed(d)' /\ Keeping(d)' /\ ~ReadsLog(d)'
  BY <1>1
<1>3. ASSUME NEW d \in Conns, NEW k \in Conns PROVE Spares(d, k)'
  BY <1>2 DEF Spares
<1> QED
  BY <1>2, <1>3 DEF StoreInv

LEMMA MarksFree ==
  ASSUME WalInv, StoreInv, \A i \in Marks : shared[i] = {}, NEW d \in Conns
  PROVE  ~(conn[d].pc \in InSlot /\ conn[d].slot # 0)
<1> SUFFICES ASSUME conn[d].pc \in InSlot, conn[d].slot # 0 PROVE FALSE
  OBVIOUS
<1>1. Typed(d) /\ SlotsHeld
  BY Stands
<1>2. conn[d].slot \in Marks /\ conn[d].slot \in ReadLocks
  BY <1>1, WalAssumption DEF Typed, ReadLocks, Marks
<1>3. d \in shared[conn[d].slot]
  BY <1>1, <1>2 DEF SlotsHeld, Shares
<1> QED
  BY <1>2, <1>3

LEMMA FewPages ==
  ASSUME NEW S \in SUBSET Pages
  PROVE  Cardinality(S) \in Nat /\ Cardinality(S) <= MaxFrame
<1>1. NPages \in Nat /\ MaxFrame \in Nat /\ NPages <= MaxFrame
  BY WalAssumption
<1>2. IsFiniteSet(Pages) /\ Cardinality(Pages) = NPages
  BY <1>1, FS_Interval DEF Pages
<1>3. IsFiniteSet(S) /\ Cardinality(S) <= Cardinality(Pages)
  BY <1>2, FS_Subset
<1>4. Cardinality(S) \in Nat
  BY <1>3, FS_CardinalityType
<1> QED
  BY <1>1, <1>2, <1>3, <1>4

LEMMA ResetKeeps ==
  ASSUME WalInv, WalInv', StoreInv, NEW c \in Conns, NEW S \in SUBSET Pages, S # {},
         NEW commit \in BOOLEAN, WriteFrames(c, S, commit), CanRestart(c), RememberStep
  PROVE  StoreInv'
<1>1. /\ conn[c].pc = "write" /\ conn[c].slot = 0 /\ \A i \in Marks : shared[i] = {}
      /\ hdr' = RestartedHdr(c) /\ salts' = salts + 1 /\ excl' = excl \cup Marks
      /\ UNCHANGED <<nBackfill, mark, idx, shared, file, disk, db, dbDisk>>
  BY DEF WriteFrames, CanRestart, CanOwn, files
<1>2. /\ Only(c) /\ conn'[c].hdr = hdr' /\ conn'[c].list = S /\ conn'[c].commit = commit
      /\ conn'[c].pc = "restart" /\ conn'[c].n = conn[c].n /\ conn'[c].cache = conn[c].cache
      /\ SameLook(c) /\ SameCkpt(c)
  BY ResetSets
<1>3. conn[c].hdr = hdr /\ nBackfill = hdr.mx /\ hdr.init /\ snap[c] = store /\ db = store
  BY <1>1, WritesOnNewest
<1>4. /\ Typed(c) /\ Caches(c) /\ Contents /\ SlotsHeld /\ ~conn[c].useWal
      /\ MaxFrame \in Nat
  BY <1>1, Stands, JoinsToWrite, WalAssumption DEF Joining
<1>5. hdr'.mx = 0 /\ hdr'.init /\ hdr'.salt = salts + 1
  <2>1. hdr \in Header
    BY DEF WalInv, WalShape, Drawn
  <2> QED
    BY <1>1, <1>3, <2>1 DEF RestartedHdr, Header
<1>6. /\ snap' = [d \in Conns |-> snap'[d]] /\ \A d \in Conns \ {c} : snap'[d] = snap[d]
      /\ snap'[c] = snap[c] /\ store' = store
  <2>1. ~Commits(c) /\ ~Begins(c) /\ ~RollsBack(c) /\ ~Puts(c)
    BY <1>1, <1>2 DEF Begins, RollsBack, Puts, Commits
  <2> QED
    BY <1>2, <2>1, Remembers
<1>7. ASSUME NEW d \in Conns \ {c}
      PROVE  /\ ~(conn[d].pc \in InSlot /\ conn[d].slot # 0) /\ ~Writing(d)
             /\ conn[d].pc # "copy" /\ conn[d].hdr # hdr'
  <2>1. ~Writing(d)
    BY <1>1, OneAtATime DEF Writing
  <2>2. conn[d].pc # "copy"
    BY <1>3, Digest DEF StillToCopy
  <2>3. conn[d].hdr.salt \in Nat /\ conn[d].hdr.salt <= salts /\ salts \in Nat
    BY DEF WalInv, WalShape, Drawn, Header
  <2>4. conn[d].hdr.salt # hdr'.salt
    BY <1>5, <2>3
  <2> QED
    BY <1>1, <2>1, <2>2, <2>4, MarksFree
<1>8. SlotsHeld' /\ shared' \in [ReadLocks -> SUBSET Conns] /\ excl' \in SUBSET ReadLocks
  <2>1. Owns(c)' /\ \A i \in ReadLocks : Shares(c, i)' <=> Shares(c, i)
    BY <1>1, <1>2 DEF Owns, Shares, InSlot, NoSlot, SameLook
  <2>2. \A i \in excl' : shared'[i] = {}
    BY <1>1, <1>4 DEF SlotsHeld
  <2>3. \A d \in Conns \ {c} : /\ conn[d].pc = "restart" => Marks \subseteq excl'
                               /\ conn[d].pc = "copy" => 0 \in excl'
    BY <1>1, <1>7
  <2>4. /\ \A i \in ReadLocks : c \in shared'[i] <=> Shares(c, i)'
        /\ \A i \in ReadLocks : \A d \in Conns \ {c} : d \in shared'[i] <=> d \in shared[i]
    BY <1>1, <1>4, <2>1 DEF SlotsHeld
  <2>5. SlotsHeld'
    BY <1>2, <2>1, <2>2, <2>3, <2>4, SlotsByOne
  <2>6. Marks \subseteq ReadLocks
    BY WalAssumption DEF Marks, ReadLocks
  <2> QED
    BY <1>1, <1>4, <2>5, <2>6 DEF Contents
<1>9. Contents'
  BY <1>1, <1>4, <1>5, <1>6, <1>8 DEF Contents, Framed
<1>10. Newest'
  <2>1. ASSUME NEW p \in Pages PROVE db[p] = store[p]
    BY <1>3
  <2> QED
    BY <1>1, <1>5, <1>6, <2>1 DEF Newest, GivesAll, Gives
<1>11. Typed(c)'
  BY <1>2, <1>4, <1>5 DEF Typed, SameLook, SameCkpt
<1>12. ~ReadsLog(c)'
  BY <1>2 DEF ReadsLog
<1>13. Keeping(c)'
  <2>1. WithinMark(c)' /\ Copies(c)'
    BY <1>2, <1>12 DEF WithinMark, Copies
  <2>2. ReadsItsSnap(c)'
    BY <1>2, <1>3, <1>6, <1>12 DEF ReadsItsSnap
  <2>3. WritesOn(c)'
    BY <1>2, <1>5, FewPages DEF WritesOn
  <2>4. Caches(c)'
    BY <1>1, <1>2, <1>4 DEF Caches, InSlot
  <2> QED
    BY <2>1, <2>2, <2>3, <2>4 DEF Keeping
<1> QED
  BY <1>1, <1>2, <1>6, <1>7, <1>8, <1>9, <1>10, <1>11, <1>12, <1>13, NobodyReads

LEMMA RestartKeeps ==
  ASSUME WalInv, WalInv', StoreInv, NEW c \in Conns, Restart(c), RememberStep PROVE StoreInv'
<1>1. /\ conn[c].pc = "restart" /\ nBackfill' = 0 /\ excl' = excl \ Marks /\ GoesTo(c, "rejoin")
      /\ UNCHANGED <<hdr, idx, shared, file, disk, db, dbDisk>>
  BY DEF Restart, GoesTo, files
<1>2. Only(c) /\ conn'[c].pc = "rejoin" /\ SameButPlace(c)
  BY <1>1, ToPlace
<1>3. /\ Typed(c) /\ Owns(c) /\ ReadsItsSnap(c) /\ WritesOn(c) /\ Caches(c) /\ Contents
      /\ SlotsHeld /\ Newest /\ ~conn[c].useWal /\ HeaderGrows(c) /\ SeenHeader(c)
      /\ nBackfill \in Nat
  BY <1>1, Stands, Digest, JoinsToWrite DEF Joining
<1>4. hdr.mx = 0 /\ conn[c].hdr = hdr /\ hdr.init /\ Marks \subseteq excl
  BY <1>1, <1>3 DEF HeaderGrows, SeenHeader, Owns
<1>5. /\ snap' = [d \in Conns |-> snap'[d]] /\ \A d \in Conns \ {c} : snap'[d] = snap[d]
      /\ snap'[c] = snap[c] /\ store' = store
  BY <1>1, <1>2, Remembers DEF Begins, RollsBack, Puts, Commits
<1>6. ASSUME NEW d \in Conns \ {c}
      PROVE  /\ ~(conn[d].pc \in InSlot /\ conn[d].slot # 0) /\ ~Writing(d)
             /\ conn[d].pc # "copy"
  <2>1. ~Writing(d)
    BY <1>1, OneAtATime DEF Writing
  <2>2. conn[d].pc # "copy"
    BY <1>3, <1>4, Digest DEF StillToCopy
  <2>3. \A i \in Marks : shared[i] = {}
    BY <1>3, <1>4 DEF SlotsHeld
  <2> QED
    BY <2>1, <2>2, <2>3, MarksFree
<1>7. SlotsHeld' /\ shared' \in [ReadLocks -> SUBSET Conns] /\ excl' \in SUBSET ReadLocks
  <2>1. Owns(c)' /\ \A i \in ReadLocks : Shares(c, i)' <=> Shares(c, i)
    BY <1>1, <1>2, <1>3 DEF Owns, Shares, InSlot, NoSlot, SameButPlace, SameLook
  <2>2. \A i \in excl' : shared'[i] = {}
    BY <1>1, <1>3 DEF SlotsHeld
  <2>3. \A d \in Conns \ {c} : /\ conn[d].pc = "restart" => Marks \subseteq excl'
                               /\ conn[d].pc = "copy" => 0 \in excl'
    BY <1>6 DEF Writing
  <2>4. /\ \A i \in ReadLocks : c \in shared'[i] <=> Shares(c, i)'
        /\ \A i \in ReadLocks : \A d \in Conns \ {c} : d \in shared'[i] <=> d \in shared[i]
    BY <1>1, <1>3, <2>1 DEF SlotsHeld
  <2>5. SlotsHeld'
    BY <1>2, <2>1, <2>2, <2>3, <2>4, SlotsByOne
  <2> QED
    BY <1>1, <1>3, <2>5 DEF Contents
<1>8. Contents'
  BY <1>1, <1>3, <1>5, <1>7 DEF Contents, Framed
<1>9. Newest'
  <2>1. GivesAll(idx, nBackfill, 0, file.frame, db, store)
    BY <1>3, <1>4 DEF Newest
  <2>2. GivesAll(idx, 0, 0, file.frame, db, store)
    BY <2>1 DEF GivesAll
  <2> QED
    BY <1>1, <1>4, <1>5, <2>2 DEF Newest
<1>10. Typed(c)' /\ ~ReadsLog(c)'
  BY <1>2, <1>3 DEF Typed, SameButPlace, SameLook, SameWork, SameCkpt, SameCopy, ReadsLog
<1>11. Rejoins(c) /\ Rejoins(c)'
  BY <1>1, <1>2 DEF Rejoins
<1>12. Keeping(c)'
  <2>1. WithinMark(c)' /\ Copies(c)'
    BY <1>2, <1>10 DEF WithinMark, Copies
  <2>2. ReadsItsSnap(c)'
    BY <1>1, <1>2, <1>3, <1>5, <1>10, <1>11 DEF ReadsItsSnap, SameButPlace, SameCopy
  <2>3. WritesOn(c)'
    BY <1>2, <1>3, <1>11 DEF WritesOn, SameButPlace, SameCopy, SameWork
  <2>4. Caches(c)'
    BY <1>1, <1>2, <1>3 DEF Caches, InSlot, SameButPlace, SameCopy
  <2> QED
    BY <2>1, <2>2, <2>3, <2>4 DEF Keeping
<1> QED
  BY <1>1, <1>2, <1>5, <1>6, <1>7, <1>8, <1>9, <1>10, <1>12, NobodyReads

-----------------------------------------------------------------------------
(* Recovery and the end of the process.                                      *)

(* What a recovery replays is what a reader of its index will be given.      *)
LEMMA ReplayGives ==
  ASSUME NEW f, NEW n \in Nat, NEW d, NEW pg, \A i \in 1 .. n : pg[i] = f.frame[i].pg
  PROVE  GivesAll(pg, 0, n, f.frame, d, Replay(f, n, d))
<1> DEFINE s == Replay(f, n, d)
<1>1. ASSUME NEW p \in Pages
      PROVE  /\ \A i \in 1 .. n : IsLast(pg, p, i, n) => f.frame[i].val = s[p]
             /\ (\A i \in 1 .. n : pg[i] # p) => d[p] = s[p]
  <2> DEFINE T == {j \in 1 .. n : f.frame[j].pg = p}
             S == {0} \cup T
  <2>1. S \in SUBSET (0 .. n) /\ S # {}
    OBVIOUS
  <2>2. MaxOf(S) \in S /\ \A y \in S : y <= MaxOf(S)
    BY <2>1, Greatest
  <2>3. PICK m : m = MaxOf(S)
    OBVIOUS
  <2>4. s[p] = IF m = 0 THEN d[p] ELSE f.frame[m].val
    BY <2>3 DEF Replay
  <2>5. m \in S /\ \A y \in S : y <= m
    BY <2>2, <2>3
  <2>6. ASSUME NEW i \in 1 .. n, IsLast(pg, p, i, n) PROVE f.frame[i].val = s[p]
    <3>1. i \in T
      BY <2>6 DEF IsLast
    <3>2. m \in T /\ i <= m /\ pg[m] = p
      BY <2>5, <3>1
    <3>3. ~(m \in i + 1 .. n)
      BY <2>6, <3>2 DEF IsLast
    <3>4. m = i
      BY <3>2, <3>3
    <3> QED
      BY <2>4, <3>4
  <2>7. ASSUME \A i \in 1 .. n : pg[i] # p PROVE d[p] = s[p]
    <3>1. m = 0
      BY <2>5, <2>7
    <3> QED
      BY <2>4, <3>1
  <2> QED
    BY <2>6, <2>7
<1> HIDE DEF s
<1>2. \A p \in Pages, i \in 1 .. n : IsLast(pg, p, i, n) /\ i <= 0 => d[p] = s[p]
  OBVIOUS
<1>3. GivesAll(pg, 0, n, f.frame, d, s)
  BY <1>1, <1>2 DEF GivesAll, Gives
<1> QED
  BY <1>3 DEF s

LEMMA RecoverKeeps ==
  ASSUME WalInv, WalInv', StoreInv, NEW c \in Conns, Recover(c), RememberStep PROVE StoreInv'
<1> DEFINE n == CommittedUpTo(file)
           v == ValidUpTo(file)
<1>1. /\ conn[c].pc = "idle" /\ ~hdr.init /\ nBackfill' = 0
      /\ hdr'.init /\ hdr'.mx = n
      /\ idx' = [i \in Frames |-> IF i <= v THEN file.frame[i].pg ELSE 0]
      /\ UNCHANGED <<shared, excl, file, disk, db, dbDisk>>
  BY DEF Recover, locks, files
<1>2. /\ Only(c) /\ conn'[c].pc \in {"lock0", "pick"} /\ conn'[c].hdr = hdr'
      /\ conn'[c].cache = NoState /\ SameLook(c) /\ SameWork(c) /\ SameCkpt(c)
  BY RecoverSets, Zenon
<1>3. /\ Typed(c) /\ Owns(c) /\ Contents /\ SlotsHeld /\ Newest /\ ~conn[c].useWal
  BY <1>1, Stands, JoinsToWrite DEF Joining
<1>4. v \in 0 .. MaxFrame /\ n \in 0 .. v /\ MaxFrame \in Nat
  BY Counted, WalAssumption
<1>5. n \in Nat /\ n <= MaxFrame /\ n <= v /\ v \in Nat
  BY <1>4
<1> HIDE DEF n, v
<1>6. /\ snap' = [d \in Conns |-> snap'[d]] /\ \A d \in Conns \ {c} : snap'[d] = snap[d]
      /\ snap'[c] = snap[c] /\ store' = store
  BY <1>1, <1>2, Remembers DEF Begins, RollsBack, Puts, Commits
<1>7. ASSUME NEW d \in Conns \ {c}
      PROVE  /\ ~(conn[d].pc \in InSlot /\ conn[d].slot # 0) /\ ~Writing(d)
             /\ conn[d].pc # "copy" /\ conn[d].hdr # hdr'
  <2>1. conn[d].pc = "idle" /\ conn[d].hdr = NoHdr
    BY <1>1, Digest DEF SeenHeader
  <2>2. ~conn[d].useWal
    BY <2>1, JoinsToWrite DEF Joining
  <2> QED
    BY <1>1, <2>1, <2>2 DEF InSlot, Writing, NoHdr
<1>8. SlotsHeld' /\ shared' \in [ReadLocks -> SUBSET Conns] /\ excl' \in SUBSET ReadLocks
  <2>1. Owns(c)' /\ \A i \in ReadLocks : Shares(c, i)' <=> Shares(c, i)
    BY <1>1, <1>2, <1>3 DEF Owns, Shares, InSlot, NoSlot, SameLook
  <2> QED
    BY <1>1, <1>2, <2>1, SlotsStay
<1>9. idx' \in [Frames -> 0 .. NPages]
  <2>1. \A i \in Frames : file.frame[i].pg \in 0 .. NPages
    BY <1>3 DEF Contents, Framed
  <2>2. 0 \in 0 .. NPages
    BY WalAssumption
  <2> QED
    BY <1>1, <2>1, <2>2
<1>10. Contents'
  BY <1>1, <1>3, <1>5, <1>6, <1>8, <1>9 DEF Contents, Framed
<1>11. Newest'
  <2>1. store = Replay(file, n, db)
    BY <1>1, <1>3 DEF Newest, Recovered, n
  <2>2. PICK pg : pg = idx'
    OBVIOUS
  <2>3. \A i \in 1 .. n : i \in Frames /\ i <= v
    BY <1>5, WalAssumption DEF Frames
  <2>4. \A i \in 1 .. n : pg[i] = file.frame[i].pg
    BY <1>1, <2>2, <2>3
  <2>5. GivesAll(pg, 0, n, file.frame, db, store)
    BY <1>5, <2>1, <2>4, ReplayGives
  <2>6. /\ idx' = pg /\ nBackfill' = 0 /\ hdr'.mx = n /\ file' = file /\ db' = db
        /\ store' = store
    BY <1>1, <1>6, <2>2
  <2>7. GivesAll(idx, nBackfill, hdr.mx, file.frame, db, store)'
    BY <2>5, <2>6, Zenon
  <2> QED
    BY <1>1, <2>7 DEF Newest
<1>12. Typed(c)' /\ ~ReadsLog(c)' /\ ~Rejoins(c)'
  BY <1>1, <1>2, <1>3, <1>5 DEF Typed, SameLook, SameWork, SameCkpt, ReadsLog, Rejoins
<1>13. Keeping(c)'
  <2>1. WithinMark(c)' /\ Copies(c)' /\ ReadsItsSnap(c)' /\ WritesOn(c)'
    BY <1>2, <1>12 DEF WithinMark, Copies, ReadsItsSnap, WritesOn
  <2>2. Caches(c)'
    BY <1>2 DEF Caches
  <2> QED
    BY <2>1, <2>2 DEF Keeping
<1> QED
  BY <1>1, <1>2, <1>6, <1>7, <1>8, <1>10, <1>11, <1>12, <1>13, NobodyReads

(* A process that has just started: nothing is known of the files but what a  *)
(* recovery will find there.                                                 *)
Starts ==
  /\ hdr = NoHdr /\ idx = [i \in Frames |-> 0]
  /\ shared = [i \in ReadLocks |-> {}] /\ excl = {}
  /\ conn = [c \in Conns |-> Resting]
  /\ Framed(file.frame) /\ Framed(disk.frame)
  /\ db = [p \in Pages |-> db[p]] /\ dbDisk = [p \in Pages |-> dbDisk[p]]
  /\ store = Recovered(file, db) /\ snap = [c \in Conns |-> NoState]

LEMMA Started == Starts => StoreInv
<1> SUFFICES ASSUME Starts PROVE StoreInv
  OBVIOUS
<1>1. hdr.mx = 0 /\ ~hdr.init
  BY DEF Starts, NoHdr
<1>2. ASSUME NEW c \in Conns
      PROVE  /\ conn[c].pc = "idle" /\ conn[c].hdr.mx = 0 /\ conn[c].slot = 0
             /\ conn[c].seen = 0 /\ conn[c].min = 1 /\ conn[c].useWal = FALSE
             /\ conn[c].list = {} /\ conn[c].commit = FALSE /\ conn[c].n = 0
             /\ conn[c].changed = FALSE /\ conn[c].i = 0 /\ conn[c].copy = {}
             /\ conn[c].cache = NoState
  <2>1. conn[c] = Resting
    BY DEF Starts
  <2> QED
    BY <2>1 DEF Resting, NoHdr
<1>3. Contents
  <2>1. 0 \in 0 .. NPages /\ MaxFrame \in Nat
    BY WalAssumption
  <2>2. store = [p \in Pages |-> store[p]]
    BY DEF Starts, Recovered, Replay
  <2> QED
    BY <1>1, <2>1, <2>2 DEF Starts, Contents
<1>4. SlotsHeld
  BY <1>2 DEF Starts, SlotsHeld, Shares, Owns, InSlot
<1>5. Newest
  BY <1>1 DEF Starts, Newest
<1>6. ASSUME NEW c \in Conns PROVE Typed(c)
  <2>1. MaxFrame \in Nat /\ 0 \in ReadLocks
    BY WalAssumption DEF ReadLocks
  <2>2. conn[c].commit \in BOOLEAN /\ conn[c].changed \in BOOLEAN
    BY <1>2, Zenon
  <2>3. conn[c].list \in SUBSET Pages /\ conn[c].copy \in SUBSET (Pages \X Frames)
    BY <1>2, Zenon
  <2>4. /\ conn[c].hdr.mx <= MaxFrame /\ conn[c].slot \in ReadLocks /\ conn[c].seen \in Nat
        /\ conn[c].min \in Nat \ {0} /\ conn[c].n <= MaxFrame /\ conn[c].i \in Nat
    <3>1. /\ conn[c].hdr.mx = 0 /\ conn[c].slot = 0 /\ conn[c].seen = 0 /\ conn[c].min = 1
          /\ conn[c].n = 0 /\ conn[c].i = 0
      BY <1>2
    <3> QED
      BY <2>1, <3>1
  <2> QED
    BY <2>2, <2>3, <2>4 DEF Typed
<1>7. ASSUME NEW c \in Conns PROVE ~ReadsLog(c) /\ ~Rejoins(c)
  BY <1>2 DEF ReadsLog, Rejoins
<1>8. ASSUME NEW c \in Conns PROVE Keeping(c)
  BY <1>2, <1>7 DEF Keeping, WithinMark, ReadsItsSnap, WritesOn, Copies, Caches
<1>9. ASSUME NEW c \in Conns, NEW d \in Conns PROVE Spares(c, d)
  BY <1>7 DEF Spares
<1> QED
  BY <1>3, <1>4, <1>5, <1>6, <1>8, <1>9 DEF StoreInv

LEMMA MixedFrames ==
  ASSUME NEW f, NEW g, Framed(f), Framed(g), NEW h \in Left(f, g) PROVE Framed(h)
<1>1. DOMAIN f = Frames
  BY DEF Framed
<1>2. PICK S : h = [i \in Frames |-> IF i \in S THEN f[i] ELSE g[i]]
  BY <1>1 DEF Left, Mixed
<1>3. ASSUME NEW i \in Frames
      PROVE  h[i] = [x \in FrameFields |-> h[i][x]] /\ h[i].pg \in 0 .. NPages
  <2>1. h[i] = f[i] \/ h[i] = g[i]
    BY <1>2
  <2>2. f[i] = [x \in FrameFields |-> f[i][x]] /\ f[i].pg \in 0 .. NPages
    BY DEF Framed
  <2>3. g[i] = [x \in FrameFields |-> g[i][x]] /\ g[i].pg \in 0 .. NPages
    BY DEF Framed
  <2>4. CASE h[i] = f[i]
    BY <2>2, <2>4, Zenon
  <2>5. CASE h[i] = g[i]
    BY <2>3, <2>5, Zenon
  <2> QED
    BY <2>1, <2>4, <2>5
<1>4. h = [i \in Frames |-> h[i]]
  BY <1>2
<1> QED
  BY <1>3, <1>4 DEF Framed

LEMMA CrashKeeps ==
  ASSUME WalInv, StoreInv, Crash \/ PowerLoss, RememberRestart PROVE StoreInv'
<1>1. Contents
  BY DEF StoreInv
<1>2. /\ hdr' = NoHdr /\ idx' = [i \in Frames |-> 0]
      /\ shared' = [i \in ReadLocks |-> {}] /\ excl' = {} /\ conn' = [c \in Conns |-> Resting]
  BY DEF Crash, PowerLoss, Die
<1>3. /\ Framed(file'.frame) /\ Framed(disk'.frame)
      /\ db' = [p \in Pages |-> db'[p]] /\ dbDisk' = [p \in Pages |-> dbDisk'[p]]
  <2>1. CASE Crash
    BY <1>1, <2>1 DEF Crash, files, Contents
  <2>2. CASE PowerLoss
    <3>1. PICK f \in Left(file.frame, disk.frame) : file' = [disk EXCEPT !.frame = f]
      BY <2>2 DEF PowerLoss
    <3>2. Framed(f)
      BY <1>1, MixedFrames DEF Contents
    <3>3. file'.frame = f /\ disk' = file'
      BY <2>2, <3>1 DEF PowerLoss, WalInv, WalShape, DrawnFile, FileFields
    <3>4. db' \in Left(db, dbDisk) /\ dbDisk' = db' /\ DOMAIN db = Pages
      BY <1>1, <2>2 DEF PowerLoss, Contents
    <3>5. db' = [p \in Pages |-> db'[p]]
      BY <3>4 DEF Left, Mixed
    <3> QED
      BY <3>2, <3>3, <3>4, <3>5
  <2> QED
    BY <2>1, <2>2
<1>4. store' = Recovered(file, db)' /\ snap' = [c \in Conns |-> NoState]
  BY DEF RememberRestart, Recovered
<1>5. Starts'
  BY <1>2, <1>3, <1>4 DEF Starts, Framed
<1>6. Starts' => StoreInv'
  BY Started, PTL
<1> QED
  BY <1>5, <1>6

LEMMA StoreAtFirst == ASSUME StoreInit PROVE StoreInv
<1>1. /\ hdr = NoHdr /\ idx = [i \in Frames |-> 0]
      /\ shared = [i \in ReadLocks |-> {}] /\ excl = {} /\ conn = [c \in Conns |-> Resting]
      /\ file = NoFile /\ disk = NoFile /\ db = [p \in Pages |-> 0] /\ dbDisk = db
      /\ store = [p \in Pages |-> 0] /\ snap = [c \in Conns |-> NoState]
  BY DEF StoreInit, Init, Empty
<1>2. Framed(file.frame) /\ Framed(disk.frame)
  <2>1. file.frame = [i \in Frames |-> NoFrame]
    BY <1>1 DEF NoFile
  <2>2. NoFrame = [x \in FrameFields |-> NoFrame[x]] /\ NoFrame.pg = 0
    BY DEF NoFrame, FrameFields
  <2>3. 0 \in 0 .. NPages
    BY WalAssumption
  <2> HIDE DEF NoFrame
  <2> QED
    BY <1>1, <2>1, <2>2, <2>3 DEF Framed
<1>3. Recovered(file, db) = [p \in Pages |-> 0]
  <2>1. PICK n : n = CommittedUpTo(file)
    OBVIOUS
  <2>2. n \in 0 .. ValidUpTo(file) /\ ValidUpTo(file) \in 0 .. MaxFrame
    BY <2>1, Counted
  <2>3. \A j \in 1 .. n : j \in Frames
    BY <2>2, WalAssumption DEF Frames
  <2>4. \A j \in 1 .. n : file.frame[j].pg = 0
    BY <1>1, <2>3 DEF NoFile, NoFrame
  <2>5. Recovered(file, db) = Replay(file, n, db)
    BY <2>1 DEF Recovered
  <2>6. ASSUME NEW p \in Pages
        PROVE  MaxOf({0} \cup {j \in 1 .. n : file.frame[j].pg = p}) = 0
    <3>1. {0} \cup {j \in 1 .. n : file.frame[j].pg = p} = {0}
      BY <2>4 DEF Pages
    <3>2. MaxOf({0}) \in {0}
      <4>1. {0} \in SUBSET (0 .. 0) /\ {0} # {}
        OBVIOUS
      <4> QED
        BY <4>1, Greatest
    <3> QED
      BY <3>1, <3>2
  <2> QED
    BY <1>1, <2>5, <2>6 DEF Replay
<1>4. Starts
  BY <1>1, <1>2, <1>3 DEF Starts
<1> QED
  BY <1>4, Started

-----------------------------------------------------------------------------
(* Together.                                                                 *)

LEMMA StoreStep ==
  ASSUME WalInv, WalInv', StoreInv, NEW c \in Conns, Step(c), RememberStep PROVE StoreInv'
<1>1. CASE ReadHdr(c) \/ Recover(c) \/ Lock0(c) \/ Pick(c) \/ Raise(c) \/ Share(c)
  BY <1>1, ReadHdrKeeps, RecoverKeeps, Lock0Keeps, PickKeeps, RaiseKeeps, ShareKeeps
<1>2. CASE Check0(c)
  BY <1>2, Check0Keeps, Check0Fails
<1>3. CASE Check(c)
  BY <1>3, CheckPasses, CheckFails
<1>4. CASE ReadMin(c) \/ EndRead(c) \/ BeginWrite(c) \/ Restart(c) \/ Rejoin(c)
  BY <1>4, ReadMinKeeps, EndReadKeeps, BeginWriteKeeps, RestartKeeps, RejoinKeeps
<1>5. CASE \/ \E p \in Pages : WriteFrames(c, {p}, FALSE)
           \/ \E S \in (SUBSET Pages) \ {{}} : WriteFrames(c, S, TRUE)
  <2>1. ASSUME NEW S \in SUBSET Pages, S # {}, NEW commit \in BOOLEAN, WriteFrames(c, S, commit)
        PROVE  StoreInv'
    BY <2>1, WriteFramesKeeps, ResetKeeps
  <2>2. CASE \E p \in Pages : WriteFrames(c, {p}, FALSE)
    <3>1. PICK p \in Pages : WriteFrames(c, {p}, FALSE)
      BY <2>2
    <3>2. {p} \in SUBSET Pages /\ {p} # {} /\ FALSE \in BOOLEAN
      OBVIOUS
    <3> QED
      BY <2>1, <3>1, <3>2, Zenon
  <2>3. CASE \E S \in (SUBSET Pages) \ {{}} : WriteFrames(c, S, TRUE)
    <3>1. PICK S \in (SUBSET Pages) \ {{}} : WriteFrames(c, S, TRUE)
      BY <2>3
    <3>2. S \in SUBSET Pages /\ S # {}
      OBVIOUS
    <3>3. TRUE \in BOOLEAN
      BY Zenon
    <3> QED
      BY <2>1, <3>1, <3>2, <3>3, Zenon
  <2> QED
    BY <1>5, <2>2, <2>3
<1>6. CASE WriteHeader(c) \/ WriteFrame(c) \/ RewriteChecksums(c) \/ EndWrite(c) \/ Undo(c)
  BY <1>6, WriteHeaderKeeps, WriteFrameKeeps, RewriteChecksumsKeeps, EndWriteKeeps, UndoKeeps
<1>7. CASE FinishFrames(c)
  BY <1>7, SpillKeeps, CommitKeeps
<1>8. CASE BeginCheckpoint(c) \/ StartCheckpoint(c) \/ TestMark(c) \/ StartBackfill(c)
  BY <1>8, BeginCheckpointKeeps, StartCheckpointKeeps, TestMarkKeeps, StartBackfillKeeps
<1>9. CASE CopyPage(c) \/ Backfilled(c) \/ EndCheckpoint(c)
  BY <1>9, CopyPageKeeps, BackfilledKeeps, EndCheckpointKeeps
<1> QED
  BY <1>1, <1>2, <1>3, <1>4, <1>5, <1>6, <1>7, <1>8, <1>9 DEF Step

LEMMA StoreStays == ASSUME StoreInv, UNCHANGED <<vars, history>> PROVE StoreInv'
<1>1. /\ UNCHANGED <<hdr, nBackfill, mark, idx, shared, excl, file, disk, db, dbDisk, conn>>
      /\ UNCHANGED <<store, snap>>
  BY DEF vars, history, index, locks, files
<1>2. Contents' /\ SlotsHeld' /\ Newest'
  <2>1. Contents /\ SlotsHeld /\ Newest
    BY DEF StoreInv
  <2>2. Contents'
    BY <1>1, <2>1 DEF Contents, Framed
  <2>3. SlotsHeld'
    BY <1>1, <2>1 DEF SlotsHeld, Shares, Owns
  <2>4. Newest'
    BY <1>1, <2>1 DEF Newest
  <2> QED
    BY <2>2, <2>3, <2>4
<1>3. ASSUME NEW c \in Conns PROVE Typed(c)' /\ Keeping(c)' /\ \A d \in Conns : Spares(c, d)'
  <2>1. Typed(c)'
    BY <1>1, Stands DEF Typed
  <2>2. Base(c)' = Base(c) /\ Index(c)' = Index(c) /\ End(c)' = End(c)
    BY <1>1 DEF Base, Writing, Index, End
  <2>3. (ReadsLog(c)' <=> ReadsLog(c)) /\ (Rejoins(c)' <=> Rejoins(c))
    BY <1>1 DEF ReadsLog, Rejoins
  <2>4. WithinMark(c)'
    BY <1>1, <2>2, <2>3, Stands DEF WithinMark
  <2>5. ReadsItsSnap(c)'
    BY <1>1, <2>2, <2>3, Stands DEF ReadsItsSnap
  <2>6. WritesOn(c)'
    <3>1. \A S : New(c, S)' = New(c, S)
      BY <1>1 DEF New, FindFrame
    <3> QED
      BY <1>1, <2>3, <3>1, Stands DEF WritesOn
  <2>7. Copies(c)' /\ Caches(c)'
    BY <1>1, Stands DEF Copies, Caches, Checkpointing
  <2>8. ASSUME NEW d \in Conns PROVE Spares(c, d)'
    <3>1. Spares(c, d)
      BY Stands
    <3> QED
      BY <1>1, <3>1 DEF Spares, Base, Writing, ReadsLog
  <2> QED
    BY <2>1, <2>4, <2>5, <2>6, <2>7, <2>8 DEF Keeping
<1> QED
  BY <1>2, <1>3 DEF StoreInv

LEMMA StoreInvKept ==
  ASSUME WalInv, WalInv', StoreInv, [StoreNext]_<<vars, history>> PROVE StoreInv'
<1>1. CASE \E c \in Conns : Step(c) /\ RememberStep
  BY <1>1, StoreStep
<1>2. CASE (Crash \/ PowerLoss) /\ RememberRestart
  BY <1>2, CrashKeeps
<1>3. CASE UNCHANGED <<vars, history>>
  BY <1>3, StoreStays
<1> QED
  BY <1>1, <1>2, <1>3 DEF StoreNext

LEMMA StoreInvHolds ==
  ASSUME ~IdleCheckpoints PROVE StoreSpec => [](WalInv /\ StoreInv)
<1>1. StoreInit => WalInv /\ StoreInv
  BY AtFirst, StoreAtFirst DEF StoreInit
<1>2. WalInv /\ StoreInv /\ [StoreNext]_<<vars, history>> => (WalInv /\ StoreInv)'
  <2>1. [StoreNext]_<<vars, history>> => [Next]_vars
    BY DEF StoreNext, Next
  <2> QED
    BY <2>1, WalInvKept, StoreInvKept
<1> QED
  BY <1>1, <1>2, PTL DEF StoreSpec

(* Whatever others commit, checkpoint and reset while it lasts, and whatever  *)
(* it spilled and overwrote itself, a transaction finds (sqlite3WalFindFrame, *)
(* from minFrame to its own copy of mxFrame, over the database file) the      *)
(* content the database had when it began, with its own writes.              *)
LEMMA ReadsSnapshot == ASSUME WalInv, StoreInv PROVE SnapshotRead
<1> SUFFICES ASSUME NEW c \in Conns, InTxn(c) PROVE View(c) = snap[c]
  BY DEF SnapshotRead
<1>1. Typed(c) /\ ReadsItsSnap(c) /\ AllBackfilled(c) /\ conn[c].hdr.mx \in Nat
  BY Stands, Digest
<1>2. CASE conn[c].slot = 0
  <2>1. conn[c].pc \in {"read", "write"}
    BY <1>1, <1>2 DEF InTxn, AllBackfilled
  <2> QED
    BY <1>1, <1>2, <2>1 DEF ReadsItsSnap, View
<1>3. CASE conn[c].slot # 0
  <2>1. ReadsLog(c) /\ Index(c) = idx /\ End(c) = conn[c].hdr.mx
    BY <1>3 DEF InTxn, ReadsLog, Index, End
  <2>2. PICK lo \in Nat \ {0} : lo = conn[c].min
    BY <1>1 DEF Typed
  <2>3. PICK hi \in Nat : hi = conn[c].hdr.mx
    BY <1>1
  <2>4. PICK s : s = snap[c]
    OBVIOUS
  <2>5. s = [p \in Pages |-> s[p]] /\ Gives(idx, lo, hi, file.frame, db, s)
    BY <1>1, <2>1, <2>2, <2>3, <2>4, LogReader
  <2>6. [p \in Pages |-> PageAt(p, lo, hi)] = s
    BY <2>5, PagesGiven
  <2> QED
    BY <1>3, <2>2, <2>3, <2>4, <2>6 DEF View
<1> QED
  BY <1>2, <1>3

(* A reader sees, through the index and the database, exactly the commit that *)
(* was the newest when its transaction began, whatever is written, reset and  *)
(* checkpointed meanwhile (walTryBeginRead against sqlite3WalCheckpoint and   *)
(* walRestartLog), as long as no checkpoint begins when all is backfilled.    *)
THEOREM ReadsItsSnapshot ==
  ASSUME ~IdleCheckpoints PROVE StoreSpec => []SnapshotRead
BY StoreInvHolds, ReadsSnapshot, PTL

(* No reset of the log, no checkpoint and no recovery loses a commit: the     *)
(* newest one is what is read of the whole log over the database, and of the  *)
(* part that is not backfilled.                                              *)
LEMMA KeepsNewest == ASSUME WalInv, StoreInv PROVE NewestIsKept
<1> SUFFICES ASSUME hdr.init PROVE Content(1) = store /\ Content(nBackfill + 1) = store
  BY DEF NewestIsKept
<1>1. nBackfill \in Nat /\ hdr.mx \in Nat /\ store = [p \in Pages |-> store[p]]
  BY DEF WalInv, WalShape, Drawn, Header, StoreInv, Contents
<1>2. ASSUME NEW lo \in Nat \ {0}, lo <= nBackfill + 1 PROVE Content(lo) = store
  <2>1. PICK hi \in Nat : hi = hdr.mx
    BY <1>1
  <2>2. Gives(idx, lo, hi, file.frame, db, store)
    BY <1>2, <2>1, NewestGiven
  <2>3. [p \in Pages |-> PageAt(p, lo, hi)] = store
    BY <1>1, <2>2, PagesGiven
  <2> QED
    BY <2>1, <2>3 DEF Content
<1>3. Content(1) = store
  <2>1. 1 \in Nat \ {0} /\ 1 <= nBackfill + 1
    BY <1>1
  <2> QED
    BY <1>2, <2>1
<1>4. PICK lo \in Nat \ {0} : lo = nBackfill + 1
  BY <1>1
<1>5. Content(lo) = store
  BY <1>1, <1>2, <1>4
<1> QED
  BY <1>3, <1>4, <1>5

(* Whatever resets, checkpoints and recoveries come between, the newest       *)
(* commit is what the index gives of the whole log and of the part that is    *)
(* not backfilled (walIndexAppend, walRestartHdr, walIndexRecover).          *)
THEOREM NeverLosesACommit ==
  ASSUME ~IdleCheckpoints PROVE StoreSpec => []NewestIsKept
BY StoreInvHolds, KeepsNewest, PTL

(* A step of one connection leaves the others where they are, so it is their  *)
(* own look at the index that lets them begin.                               *)
LEMMA Alone ==
  ASSUME WalInv, NEW c \in Conns, Step(c), NEW d \in Conns, d # c PROVE conn'[d] = conn[d]
<1>1. conn = [e \in Conns |-> conn[e]]
  BY Shape
<1>2. CASE \/ ReadHdr(c) \/ Recover(c) \/ Lock0(c) \/ Check0(c) \/ Pick(c) \/ ReadMin(c)
           \/ EndRead(c) \/ BeginWrite(c)
  BY <1>1, <1>2 DEF ReadHdr, Recover, Lock0, Check0, Pick, ReadMin, EndRead, BeginWrite
<1>3. CASE Raise(c) \/ Share(c) \/ Check(c)
  BY <1>1, <1>3 DEF Raise, Share, Check, Abandoned
<1>4. CASE \/ \E p \in Pages : WriteFrames(c, {p}, FALSE)
           \/ \E S \in (SUBSET Pages) \ {{}} : WriteFrames(c, S, TRUE)
  BY <1>1, <1>4 DEF WriteFrames
<1>5. CASE Restart(c) \/ Rejoin(c) \/ WriteHeader(c) \/ RewriteChecksums(c) \/ EndWrite(c)
  BY <1>1, <1>5 DEF Restart, Rejoin, WriteHeader, RewriteChecksums, EndWrite
<1>6. CASE WriteFrame(c)
  BY <1>1, <1>6 DEF WriteFrame
<1>7. CASE FinishFrames(c) \/ Undo(c)
  BY <1>1, <1>7 DEF FinishFrames, Undo
<1>8. CASE BeginCheckpoint(c) \/ StartCheckpoint(c) \/ TestMark(c) \/ StartBackfill(c)
  BY <1>1, <1>8 DEF BeginCheckpoint, StartCheckpoint, TestMark, StartBackfill
<1>9. CASE CopyPage(c) \/ Backfilled(c) \/ EndCheckpoint(c)
  BY <1>1, <1>9 DEF CopyPage, Backfilled, EndCheckpoint
<1> QED
  BY <1>2, <1>3, <1>4, <1>5, <1>6, <1>7, <1>8, <1>9 DEF Step

LEMMA BeginsByLooking ==
  ASSUME NEW c \in Conns, Step(c), conn[c].pc \in {"check0", "check"}
  PROVE  Check0(c) \/ Check(c)
<1>1. ~(ReadHdr(c) \/ Recover(c) \/ Lock0(c) \/ Pick(c) \/ Raise(c) \/ Share(c))
  BY DEF ReadHdr, Recover, Lock0, Pick, Raise, Share
<1>2. ~(ReadMin(c) \/ EndRead(c) \/ BeginWrite(c) \/ \E S, commit : WriteFrames(c, S, commit))
  BY DEF ReadMin, EndRead, BeginWrite, WriteFrames
<1>3. ~(Restart(c) \/ Rejoin(c) \/ WriteHeader(c) \/ WriteFrame(c) \/ RewriteChecksums(c))
  BY DEF Restart, Rejoin, WriteHeader, WriteFrame, RewriteChecksums
<1>4. ~(FinishFrames(c) \/ EndWrite(c) \/ Undo(c) \/ BeginCheckpoint(c) \/ StartCheckpoint(c))
  BY DEF FinishFrames, EndWrite, Undo, BeginCheckpoint, StartCheckpoint
<1>5. ~(TestMark(c) \/ StartBackfill(c) \/ CopyPage(c) \/ Backfilled(c) \/ EndCheckpoint(c))
  BY DEF TestMark, StartBackfill, CopyPage, Backfilled, EndCheckpoint
<1> QED
  BY <1>1, <1>2, <1>3, <1>4, <1>5 DEF Step

(* A page cache kept because the header is the one it was read under          *)
(* (walIndexTryHdr) holds the pages the new transaction must read, also when  *)
(* its connection has checkpointed in between.                               *)
LEMMA KeptCache ==
  ASSUME WalInv, StoreInv, SnapshotRead', [StoreNext]_<<vars, history>>
  PROVE  [\A c \in Conns : Begins(c) /\ conn[c].cache # NoState => conn[c].cache = View(c)']_vars
<1>1. ASSUME NEW e \in Conns, Step(e), RememberStep,
             NEW c \in Conns, Begins(c), conn[c].cache # NoState
      PROVE  conn[c].cache = View(c)'
  <2>1. conn[c].pc \in {"check0", "check"} /\ conn'[c].pc = "read"
    BY <1>1 DEF Begins
  <2>2. Step(c)
    BY <1>1, <2>1, Alone
  <2>3. Check0(c) \/ Check(c)
    BY <2>1, <2>2, BeginsByLooking
  <2>4. conn[c].hdr = hdr
    <3>1. CASE Check0(c) /\ hdr # conn[c].hdr
      <4>1. GoesTo(c, "idle")
        BY <3>1 DEF Check0, GoesTo
      <4> QED
        BY <2>1, <4>1, ToPlace
    <3>2. CASE Check(c) /\ ~SameIndex(c)
      <4>1. conn' = Abandoned(c)
        BY <3>2 DEF Check
      <4> QED
        BY <2>1, <4>1, GivesUp
    <3> QED
      BY <2>3, <3>1, <3>2 DEF SameIndex
  <2>5. conn[c].cache = store
    <3>1. Caches(c)
      BY Stands
    <3> QED
      BY <1>1, <2>1, <2>4, <3>1 DEF Caches, Checkpointing
  <2>6. snap'[c] = store
    BY <1>1 DEF RememberStep
  <2>7. InTxn(c)'
    BY <2>1 DEF InTxn
  <2> QED
    BY <2>5, <2>6, <2>7 DEF SnapshotRead
<1>2. ASSUME Crash \/ PowerLoss, NEW c \in Conns PROVE ~Begins(c)
  <2>1. conn'[c] = Resting
    BY <1>2 DEF Crash, PowerLoss, Die
  <2> QED
    BY <2>1 DEF Begins, Resting
<1> QED
  BY <1>1, <1>2 DEF StoreNext

(* No transaction begins with a cached page that is not the one it must read: *)
(* the cache is kept only under the header it was filled under                *)
(* (walIndexTryHdr), also by a connection that has checkpointed in between.   *)
THEOREM CacheIsFresh ==
  ASSUME ~IdleCheckpoints PROVE StoreSpec => CacheFresh
<1>1. WalInv /\ StoreInv /\ SnapshotRead' /\ [StoreNext]_<<vars, history>>
      => [\A c \in Conns : Begins(c) /\ conn[c].cache # NoState => conn[c].cache = View(c)']_vars
  BY KeptCache
<1> QED
  BY <1>1, StoreInvHolds, ReadsItsSnapshot, PTL DEF StoreSpec, CacheFresh
=============================================================================
