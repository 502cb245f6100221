--------------------------- MODULE RecoveryProofs ---------------------------
(***************************************************************************)
(* What the recovery of the write-ahead log finds, for any number of       *)
(* connections, pages, read locks, frames, transactions and crashes: after *)
(* a crash of the process the newest commit and nothing more, and after a  *)
(* loss of power one of the commits, whichever unsynced writes were lost.  *)
(***************************************************************************)
EXTENDS WalProofs

-----------------------------------------------------------------------------
(* What a recovery would find. The values of the transactions before t; the    *)
(* checksum recorded in frame i is over such values only.                    *)

Before(t) == 0 .. 2 * t - 1
Old(f, i, t) == f[i].sum = <<>> \/ \A k \in 1 .. i : f[i].sum[k][2] \in Before(t)

Recorded(f) ==
  \A i \in Frames :
    /\ f[i].val \in Before(txns + 1) /\ Old(f, i, txns + 1)
    /\ f[i].salt \in Nat /\ f[i].salt <= salts

(* A recovery that expects the salt s believes the frames f up to a commit i.  *)
Sound(f, s, i) == f[i].salt = s /\ f[i].pg # 0 /\ f[i].sum = Sum(f, i)
Believed(f, s, i) == f[i].commit /\ \A j \in 1 .. i : Sound(f, s, j)
NoneBeyond(f, s, m) == \A i \in Frames : m < i => ~Believed(f, s, i)

(* A writer has frames in the log that are not committed yet.                *)
Logs(c) == conn[c].pc = "frames" \/ (Writing(c) /\ hdr.mx < conn[c].hdr.mx)

(* The log is empty, but its file is still that of before the reset.         *)
StillOld ==
  hdr.mx = 0 /\ Recovered(file, db) = store /\ \A c \in Conns : ~Logs(c)

(* The committed frames are sound and the last is a commit; none beyond them  *)
(* is believed, under the salt of the index nor under that of the file.       *)
InFile ==
  /\ \A i \in 1 .. hdr.mx : idx[i] = file.frame[i].pg
  /\ hdr.mx > 0 => /\ file.salt = hdr.salt /\ file.frame[hdr.mx].commit
                   /\ \A i \in 1 .. hdr.mx : Sound(file.frame, file.salt, i)
NoneBelieved ==
  (\A c \in Conns : ~Committing(c)) =>
    /\ NoneBeyond(file.frame, hdr.salt, hdr.mx)
    /\ NoneBeyond(file.frame, file.salt, hdr.mx) \/ StillOld

(* The frames of the writer c: they have its values, are sound as far as none *)
(* is overwritten, and only the last one of a commit says so.                *)
Mine(c, i) ==
  /\ file.frame[i].pg # 0 /\ file.frame[i].val \notin Before(txns)
  /\ conn[c].reck = 0 \/ i < conn[c].reck => Sound(file.frame, file.salt, i)
  /\ file.frame[i].commit =>
       Committing(c) /\ i = End(c) /\ (conn[c].reck > 0 => file.frame[i].sum = <<>>)
LogsOn(c) ==
  /\ Logs(c) =>
       /\ file.salt = conn[c].hdr.salt
       /\ \A i \in hdr.mx + 1 .. conn[c].hdr.mx : idx[i] = file.frame[i].pg
       /\ \A i \in hdr.mx + 1 .. End(c) : Mine(c, i)
  /\ conn[c].pc = "frames" /\ conn[c].list = {} => hdr.mx < conn[c].n
  /\ Committing(c) => file.frame[conn[c].n].commit
  /\ Writing(c) =>
       /\ conn[c].txn = txns
       /\ conn[c].pc # "done" =>
            \A i \in Frames : i <= hdr.mx \/ End(c) < i => Old(file.frame, i, txns)
       /\ conn[c].pc # "frames" /\ conn[c].hdr.mx = hdr.mx => conn[c].hdr = hdr
  /\ conn[c].reck \in Nat
  /\ conn[c].reck > 0 => Writing(c) /\ hdr.mx < conn[c].reck /\ conn[c].reck <= conn[c].hdr.mx

CrashInv ==
  /\ txns \in Nat /\ Recorded(file.frame) /\ Recorded(disk.frame)
  /\ hdr.init => InFile /\ NoneBelieved
  /\ \A c \in Conns : LogsOn(c)

-----------------------------------------------------------------------------
(* Of checksums and of what a recovery counts.                               *)

LEMMA SumAt ==
  ASSUME NEW f, NEW i \in Nat, NEW k \in 1 .. i
  PROVE  Sum(f, i)[k] = Payload(f, k) /\ Sum(f, i)[k][2] = f[k].val
BY DEF Sum, Payload

LEMMA SomeSum ==
  ASSUME NEW f, NEW i \in Nat \ {0} PROVE Sum(f, i) # <<>>
<1>1. 1 \in DOMAIN Sum(f, i)
  BY DEF Sum
<1>2. DOMAIN <<>> = {}
  OBVIOUS
<1> QED
  BY <1>1, <1>2

(* A checksum over values of transactions before t is wrong once one of t has *)
(* been written among them.                                                  *)
LEMMA OldUnsound ==
  ASSUME NEW f, NEW i \in Nat \ {0}, NEW t, Old(f, i, t),
         NEW k \in 1 .. i, f[k].val \notin Before(t)
  PROVE  f[i].sum # Sum(f, i)
<1>1. CASE f[i].sum = <<>>
  BY <1>1, SomeSum
<1>2. CASE f[i].sum[k][2] \in Before(t)
  <2>1. Sum(f, i)[k][2] = f[k].val
    BY SumAt
  <2> QED
    BY <1>2, <2>1
<1> QED
  BY <1>1, <1>2 DEF Old

LEMMA OldSound ==
  ASSUME NEW f, NEW i \in Nat, NEW t, f[i].sum = Sum(f, i),
         \A k \in 1 .. i : f[k].val \in Before(t)
  PROVE  Old(f, i, t)
<1>1. ASSUME NEW k \in 1 .. i PROVE Sum(f, i)[k][2] \in Before(t)
  BY SumAt
<1> QED
  BY <1>1 DEF Old

LEMMA BeforeGrows ==
  ASSUME NEW a \in Nat, NEW b \in Nat, a <= b PROVE Before(a) \subseteq Before(b)
BY DEF Before

LEMMA Recovers ==
  ASSUME NEW f
  PROVE  /\ ValidUpTo(f) \in 0 .. MaxFrame /\ CommittedUpTo(f) \in 0 .. ValidUpTo(f)
         /\ \A i \in 1 .. ValidUpTo(f) : Valid(f, i)
         /\ CommittedUpTo(f) > 0 => f.frame[CommittedUpTo(f)].commit
         /\ \A n \in Frames : f.frame[n].commit /\ (\A i \in 1 .. n : Valid(f, i))
                                => n <= CommittedUpTo(f)
<1>1. MaxFrame \in Nat
  BY WalAssumption
<1>2. ValidUpTo(f) \in 0 .. MaxFrame /\ CommittedUpTo(f) \in 0 .. ValidUpTo(f)
  BY Counted
<1> DEFINE V == {0} \cup {n \in Frames : \A i \in 1 .. n : Valid(f, i)}
<1>3. V \in SUBSET (0 .. MaxFrame) /\ V # {}
  BY <1>1 DEF Frames
<1>4. MaxOf(V) \in V /\ \A y \in V : y <= MaxOf(V)
  BY <1>1, <1>3, Greatest
<1>5. ValidUpTo(f) = MaxOf(V)
  BY DEF ValidUpTo
<1>6. \A i \in 1 .. ValidUpTo(f) : Valid(f, i)
  <2>1. CASE MaxOf(V) = 0
    BY <1>5, <2>1
  <2>2. CASE MaxOf(V) # 0
    BY <1>4, <1>5, <2>2
  <2> QED
    BY <2>1, <2>2
<1>7. ASSUME NEW n \in Frames, \A i \in 1 .. n : Valid(f, i) PROVE n <= ValidUpTo(f)
  BY <1>4, <1>5, <1>7
<1> HIDE DEF V
<1> DEFINE C == {0} \cup {n \in 1 .. ValidUpTo(f) : f.frame[n].commit}
<1>8. C \in SUBSET (0 .. ValidUpTo(f)) /\ C # {} /\ ValidUpTo(f) \in Nat
  BY <1>2
<1>9. MaxOf(C) \in C /\ \A y \in C : y <= MaxOf(C)
  BY <1>8, Greatest
<1>10. CommittedUpTo(f) = MaxOf(C)
  BY DEF CommittedUpTo
<1>11. CommittedUpTo(f) > 0 => f.frame[CommittedUpTo(f)].commit
  BY <1>9, <1>10
<1>12. ASSUME NEW n \in Frames, f.frame[n].commit, \A i \in 1 .. n : Valid(f, i)
       PROVE  n <= CommittedUpTo(f)
  <2>1. n \in C
    BY <1>1, <1>2, <1>7, <1>12 DEF Frames
  <2> QED
    BY <1>9, <1>10, <2>1
<1> QED
  BY <1>2, <1>6, <1>11, <1>12

LEMMA CountsTo ==
  ASSUME NEW f, NEW m \in 0 .. MaxFrame, \A i \in 1 .. m : Valid(f, i),
         m > 0 => f.frame[m].commit,
         \A n \in Frames : m < n => ~(f.frame[n].commit /\ \A i \in 1 .. n : Valid(f, i))
  PROVE  CommittedUpTo(f) = m
<1>1. MaxFrame \in Nat
  BY WalAssumption
<1>2. PICK k : k = CommittedUpTo(f)
  OBVIOUS
<1>3. /\ ValidUpTo(f) \in 0 .. MaxFrame /\ k \in 0 .. ValidUpTo(f)
      /\ \A i \in 1 .. ValidUpTo(f) : Valid(f, i)
      /\ k > 0 => f.frame[k].commit
      /\ \A n \in Frames : f.frame[n].commit /\ (\A i \in 1 .. n : Valid(f, i)) => n <= k
  BY <1>2, Recovers, Zenon
<1>4. m <= k
  <2>1. CASE m = 0
    BY <1>3, <2>1
  <2>2. CASE m > 0
    BY <1>1, <1>3, <2>2 DEF Frames
  <2> QED
    BY <1>1, <2>1, <2>2
<1>5. ~(m < k)
  <2>1. SUFFICES ASSUME m < k PROVE FALSE
    OBVIOUS
  <2>2. k \in Frames /\ \A i \in 1 .. k : Valid(f, i)
    BY <1>1, <1>3, <2>1 DEF Frames
  <2> QED
    BY <1>1, <1>3, <2>1, <2>2
<1> QED
  BY <1>1, <1>2, <1>3, <1>4, <1>5

(* What the index gives is what a recovery replays.                          *)
LEMMA GivesReplay ==
  ASSUME NEW pg, NEW n \in Nat, NEW f, NEW d, NEW s, s = [p \in Pages |-> s[p]],
         \A i \in 1 .. n : pg[i] = f.frame[i].pg, Gives(pg, 1, n, f.frame, d, s)
  PROVE  Replay(f, n, d) = s
<1>1. ASSUME NEW p \in Pages
      PROVE  s[p] = LET i == MaxOf({0} \cup {j \in 1 .. n : f.frame[j].pg = p})
                    IN  IF i = 0 THEN d[p] ELSE f.frame[i].val
  <2> DEFINE T == {j \in 1 .. n : f.frame[j].pg = p}
             S == {0} \cup T
  <2>1. S \in SUBSET (0 .. n) /\ S # {}
    OBVIOUS
  <2>2. PICK i : i = MaxOf(S)
    OBVIOUS
  <2>3. i \in S /\ \A y \in S : y <= i
    BY <2>1, <2>2, Greatest
  <2>4. CASE i = 0
    <3>1. \A j \in 1 .. n : pg[j] # p
      BY <2>3, <2>4
    <3>2. d[p] = s[p]
      BY <3>1 DEF Gives
    <3> QED
      BY <2>2, <2>4, <3>2
  <2>5. CASE i # 0
    <3>1. i \in 1 .. n /\ f.frame[i].pg = p
      BY <2>3, <2>5
    <3>2. ASSUME NEW j \in i + 1 .. n PROVE pg[j] # p
      BY <2>3, <3>1, <3>2
    <3>3. IsLast(pg, p, i, n)
      BY <3>1, <3>2 DEF IsLast
    <3>4. f.frame[i].val = s[p]
      BY <3>1, <3>3 DEF Gives
    <3> QED
      BY <2>2, <2>5, <3>4
  <2> QED
    BY <2>4, <2>5
<1> QED
  BY <1>1 DEF Replay

(* Frames written after the last commit hide those of other transactions.    *)
LEMMA NoneByOld ==
  ASSUME NEW f, NEW s, NEW m \in Nat, NEW e \in Nat, NEW t, m < e,
         f[e].val \notin Before(t),
         \A i \in Frames : e < i => Old(f, i, t),
         \A i \in m + 1 .. e : f[i].commit => f[i].sum = <<>>
  PROVE  NoneBeyond(f, s, m)
<1> SUFFICES ASSUME NEW i \in Frames, m < i, Believed(f, s, i) PROVE FALSE
  BY DEF NoneBeyond
<1>1. i \in Nat \ {0} /\ MaxFrame \in Nat
  BY WalAssumption DEF Frames
<1>2. f[i].commit /\ f[i].sum = Sum(f, i)
  <2>1. i \in 1 .. i
    BY <1>1
  <2> QED
    BY <2>1 DEF Believed, Sound
<1>3. CASE i <= e
  BY <1>1, <1>2, <1>3, SomeSum
<1>4. CASE e < i
  <2>1. e \in 1 .. i /\ Old(f, i, t)
    BY <1>1, <1>4
  <2> QED
    BY <1>1, <1>2, <2>1, OldUnsound
<1> QED
  BY <1>1, <1>3, <1>4

LEMMA ReadInFile ==
  ASSUME WalInv, StoreInv, CrashInv, hdr.init, NoneBeyond(file.frame, file.salt, hdr.mx)
  PROVE  CommittedUpTo(file) = hdr.mx /\ Recovered(file, db) = store
<1>1. hdr.mx \in 0 .. MaxFrame /\ MaxFrame \in Nat
  BY WalAssumption DEF WalInv, WalShape, Drawn, Header, StoreInv, Contents
<1>2. InFile
  BY DEF CrashInv
<1>3. PICK m : m = hdr.mx
  OBVIOUS
<1>4. \A i \in 1 .. m : Valid(file, i)
  BY <1>1, <1>2, <1>3 DEF InFile, Sound, Valid
<1>5. m > 0 => file.frame[m].commit
  BY <1>2, <1>3 DEF InFile
<1>6. \A n \in Frames : m < n => ~(file.frame[n].commit /\ \A i \in 1 .. n : Valid(file, i))
  BY <1>3 DEF NoneBeyond, Believed, Sound, Valid
<1>7. CommittedUpTo(file) = m
  BY <1>1, <1>3, <1>4, <1>5, <1>6, CountsTo
<1>8. Replay(file, m, db) = store
  <2>1. store = [p \in Pages |-> store[p]] /\ Gives(idx, 1, m, file.frame, db, store)
    BY <1>3 DEF StoreInv, Contents, Newest, GivesAll
  <2>2. \A i \in 1 .. m : idx[i] = file.frame[i].pg
    BY <1>2, <1>3 DEF InFile
  <2> QED
    BY <1>1, <1>3, <2>1, <2>2, GivesReplay
<1> QED
  BY <1>3, <1>7, <1>8 DEF Recovered

(* A writer whose frames are all in the log.                                 *)
LEMMA AtCommit ==
  ASSUME WalInv, StoreInv, CrashInv, NEW c \in Conns, Committing(c)
  PROVE  /\ Writing(c) /\ Logs(c) /\ LogsOn(c) /\ ReadsLog(c) /\ hdr.init /\ InFile
         /\ End(c) = conn[c].n /\ hdr.mx \in Nat /\ conn[c].n \in Nat /\ hdr.mx < conn[c].n
         /\ conn[c].n <= MaxFrame /\ MaxFrame \in Nat /\ conn[c].n \in Frames
         /\ conn[c].hdr.mx \in Nat /\ hdr.mx <= conn[c].hdr.mx /\ conn[c].hdr.mx <= conn[c].n
         /\ conn[c].reck \in Nat
<1>1. conn[c].pc = "frames"
  BY DEF Committing
<1>2. Writing(c) /\ Logs(c) /\ LogsOn(c) /\ End(c) = conn[c].n
  BY <1>1 DEF Writing, Logs, End, CrashInv
<1>3. /\ SeenHeader(c) /\ HeaderGrows(c) /\ AllBackfilled(c) /\ hdr.mx \in Nat /\ conn[c].n \in Nat
      /\ conn[c].hdr.mx \in Nat
  BY Digest
<1>4. ReadsLog(c) /\ hdr.init /\ hdr.mx <= conn[c].hdr.mx /\ conn[c].hdr.mx <= conn[c].n
  BY <1>1, <1>2, <1>3 DEF ReadsLog, SeenHeader, HeaderGrows, AllBackfilled
<1>5. hdr.mx < conn[c].n
  BY <1>1, <1>2 DEF LogsOn, Committing
<1>6. conn[c].n <= MaxFrame /\ MaxFrame \in Nat
  BY WalAssumption DEF StoreInv, Typed
<1>7. conn[c].n \in Frames
  BY <1>3, <1>5, <1>6 DEF Frames
<1> QED
  BY <1>1, <1>2, <1>3, <1>4, <1>5, <1>6, <1>7 DEF CrashInv, Recorded, LogsOn

(* Its last frame still says a commit that no recovery believes, as long as   *)
(* the checksums after an overwritten frame are not written anew.            *)
LEMMA NotYet ==
  ASSUME WalInv, StoreInv, CrashInv, NEW c \in Conns, Committing(c), conn[c].reck > 0
  PROVE  NoneBeyond(file.frame, file.salt, hdr.mx)
<1>1. PICK e : e = conn[c].n
  OBVIOUS
<1>2. /\ e \in Nat /\ hdr.mx \in Nat /\ hdr.mx < e /\ LogsOn(c) /\ Logs(c) /\ Writing(c) /\ End(c) = e
      /\ conn[c].pc = "frames"
  BY <1>1, AtCommit DEF Committing
<1>3. \A i \in hdr.mx + 1 .. e : Mine(c, i)
  BY <1>2 DEF LogsOn
<1>4. file.frame[e].val \notin Before(txns)
  BY <1>2, <1>3 DEF Mine
<1>5. \A i \in hdr.mx + 1 .. e : file.frame[i].commit => file.frame[i].sum = <<>>
  BY <1>3 DEF Mine
<1>6. \A i \in Frames : e < i => Old(file.frame, i, txns)
  BY <1>2 DEF LogsOn
<1> QED
  BY <1>2, <1>4, <1>5, <1>6, NoneByOld

(* Once they are, its frames are believed up to the last, and none after it.  *)
LEMMA AllSound ==
  ASSUME WalInv, StoreInv, CrashInv, NEW c \in Conns, Committing(c), conn[c].reck = 0
  PROVE  /\ file.frame[conn[c].n].commit /\ file.salt = conn[c].hdr.salt
         /\ \A i \in 1 .. conn[c].n : Sound(file.frame, file.salt, i)
         /\ \A s : NoneBeyond(file.frame, s, conn[c].n)
<1>1. PICK e : e = conn[c].n
  OBVIOUS
<1>2. /\ e \in Nat /\ hdr.mx \in Nat /\ hdr.mx < e /\ LogsOn(c) /\ Logs(c) /\ Writing(c) /\ End(c) = e
      /\ InFile /\ MaxFrame \in Nat /\ conn[c].pc = "frames"
  BY <1>1, AtCommit DEF Committing
<1>3. \A i \in hdr.mx + 1 .. e : Mine(c, i)
  BY <1>2 DEF LogsOn
<1>4. ASSUME NEW i \in 1 .. e PROVE Sound(file.frame, file.salt, i)
  <2>1. CASE i <= hdr.mx
    BY <1>2, <2>1 DEF InFile
  <2>2. CASE hdr.mx < i
    BY <1>2, <1>3, <2>2 DEF Mine
  <2> QED
    BY <1>2, <2>1, <2>2
<1>5. file.frame[e].commit
  BY <1>1, <1>2 DEF LogsOn
<1>6. ASSUME NEW s, NEW n \in Frames, e < n, Believed(file.frame, s, n) PROVE FALSE
  <2>1. n \in Nat \ {0} /\ e \in 1 .. n /\ n \in 1 .. n
    BY <1>2, <1>6 DEF Frames
  <2>2. Old(file.frame, n, txns)
    BY <1>2, <1>6 DEF LogsOn
  <2>3. file.frame[e].val \notin Before(txns)
    BY <1>2, <1>3 DEF Mine
  <2>4. file.frame[n].sum # Sum(file.frame, n)
    BY <1>2, <2>1, <2>2, <2>3, OldUnsound
  <2> QED
    BY <1>6, <2>1, <2>4 DEF Believed, Sound
<1>7. \A s : NoneBeyond(file.frame, s, e)
  BY <1>6 DEF NoneBeyond
<1> QED
  BY <1>1, <1>2, <1>4, <1>5, <1>7 DEF LogsOn

LEMMA CommitIsInFile ==
  ASSUME WalInv, StoreInv, CrashInv, NEW c \in Conns, Committing(c), conn[c].reck = 0
  PROVE  CommittedUpTo(file) = conn[c].n
<1>1. PICK e : e = conn[c].n
  OBVIOUS
<1>2. e \in Nat /\ e \in 0 .. MaxFrame /\ MaxFrame \in Nat
  BY <1>1, AtCommit
<1>3. /\ file.frame[e].commit /\ \A i \in 1 .. e : Valid(file, i)
      /\ NoneBeyond(file.frame, file.salt, e)
  BY <1>1, AllSound DEF Sound, Valid
<1>4. \A n \in Frames : e < n => ~(file.frame[n].commit /\ \A i \in 1 .. n : Valid(file, i))
  BY <1>3 DEF NoneBeyond, Believed, Sound, Valid
<1> QED
  BY <1>1, <1>2, <1>3, <1>4, CountsTo

(* The index of its frames is what the file says.                            *)
LEMMA IndexIsFile ==
  ASSUME WalInv, StoreInv, CrashInv, NEW c \in Conns, Committing(c), NEW i \in 1 .. conn[c].n
  PROVE  Index(c)[i] = file.frame[i].pg /\ (i <= hdr.mx => Index(c)[i] = idx[i])
<1>1. /\ InFile /\ LogsOn(c) /\ Logs(c) /\ hdr.mx \in Nat /\ conn[c].n \in Nat /\ conn[c].n <= MaxFrame
      /\ MaxFrame \in Nat /\ conn[c].hdr.mx \in Nat /\ hdr.mx <= conn[c].hdr.mx
      /\ conn[c].pc = "frames"
  BY AtCommit DEF Committing
<1>2. i \in Frames
  BY <1>1 DEF Frames
<1>3. Index(c)[i] = IF i <= conn[c].hdr.mx THEN idx[i] ELSE file.frame[i].pg
  BY <1>1, <1>2 DEF Index
<1>4. CASE i <= hdr.mx
  BY <1>1, <1>3, <1>4 DEF InFile
<1>5. CASE ~(i <= hdr.mx) /\ i <= conn[c].hdr.mx
  <2>1. i \in hdr.mx + 1 .. conn[c].hdr.mx
    BY <1>1, <1>5
  <2> QED
    BY <1>1, <1>3, <1>5, <2>1 DEF LogsOn
<1>6. CASE ~(i <= hdr.mx) /\ ~(i <= conn[c].hdr.mx)
  BY <1>1, <1>3, <1>6
<1> QED
  BY <1>4, <1>5, <1>6

LEMMA LogSoFar ==
  ASSUME NEW ix, NEW n \in Nat, NEW lo \in Nat \ {0}, NEW s2,
         GivesAll(idx, nBackfill, hdr.mx, file.frame, db, store),
         nBackfill \in Nat, hdr.mx \in Nat, nBackfill <= hdr.mx, hdr.mx <= n, lo <= nBackfill + 1,
         \A i \in 1 .. hdr.mx : ix[i] = idx[i], Gives(ix, lo, n, file.frame, db, s2)
  PROVE  Gives(ix, 1, n, file.frame, db, s2)
<1>1. PICK pg, b, hi, f, d, s : /\ pg = idx /\ b = nBackfill /\ hi = hdr.mx
                               /\ f = file.frame /\ d = db /\ s = store
  OBVIOUS
<1>2. /\ b \in Nat /\ hi \in Nat /\ b <= hi /\ hi <= n /\ lo <= b + 1
      /\ \A i \in 1 .. hi : ix[i] = pg[i]
      /\ GivesAll(pg, b, hi, f, d, s) /\ Gives(ix, lo, n, f, d, s2)
  BY <1>1, Zenon
<1>3. GivesAll(ix, b, n, f, d, s2)
  BY <1>2, GivesCommitted
<1> QED
  BY <1>1, <1>3 DEF GivesAll

LEMMA CommitIsPending ==
  ASSUME WalInv, StoreInv, CrashInv, NEW c \in Conns, Committing(c), conn[c].reck = 0
  PROVE  Recovered(file, db) = snap[c]
<1>1. /\ ReadsLog(c) /\ hdr.init /\ InFile /\ End(c) = conn[c].n /\ LogsOn(c) /\ Logs(c)
      /\ hdr.mx < conn[c].n /\ hdr.mx \in Nat /\ conn[c].n \in Nat /\ conn[c].n <= MaxFrame
      /\ MaxFrame \in Nat /\ conn[c].hdr.mx \in Nat /\ hdr.mx <= conn[c].hdr.mx
      /\ conn[c].pc = "frames"
  BY AtCommit DEF Committing
<1>2. /\ snap[c] = [p \in Pages |-> snap[c][p]] /\ conn[c].min <= nBackfill + 1
      /\ Gives(Index(c), conn[c].min, conn[c].n, file.frame, db, snap[c])
  BY <1>1, LogReader
<1>3. conn[c].min \in Nat \ {0} /\ nBackfill \in Nat
  BY Digest DEF StoreInv, Typed
<1>4. GivesAll(idx, nBackfill, hdr.mx, file.frame, db, store)
  BY <1>1 DEF StoreInv, Newest
<1>5. nBackfill <= hdr.mx
  <2>1. Writing(c)
    BY AtCommit
  <2>2. \A d \in Conns : conn[d].pc # "restart"
    BY <1>1, <2>1, OneAtATime DEF Writing
  <2> QED
    BY <2>2, Digest DEF BackfillBound
<1>6. PICK ix : ix = Index(c)
  OBVIOUS
<1>7. PICK n \in Nat : n = conn[c].n
  BY <1>1
<1>8. PICK lo \in Nat \ {0} : lo = conn[c].min
  BY <1>3
<1>9. PICK s2 : s2 = snap[c]
  OBVIOUS
<1>10. ASSUME NEW i \in 1 .. n
       PROVE  ix[i] = file.frame[i].pg /\ (i <= hdr.mx => ix[i] = idx[i])
  BY <1>6, <1>7, IndexIsFile
<1>11. Gives(ix, 1, n, file.frame, db, s2)
  <2>1. hdr.mx <= n /\ lo <= nBackfill + 1 /\ \A i \in 1 .. hdr.mx : ix[i] = idx[i]
    BY <1>1, <1>2, <1>7, <1>8, <1>10
  <2>2. Gives(ix, lo, n, file.frame, db, s2)
    BY <1>2, <1>6, <1>7, <1>8, <1>9, Zenon
  <2> QED
    BY <1>1, <1>3, <1>4, <1>5, <2>1, <2>2, LogSoFar
<1>12. Replay(file, n, db) = s2
  BY <1>2, <1>9, <1>10, <1>11, GivesReplay
<1> QED
  BY <1>7, <1>9, <1>12, CommitIsInFile DEF Recovered

(* Kill the process at any point: recovery finds the newest commit, or the    *)
(* one whose frames were all written.                                        *)
LEMMA KeepsCommits == ASSUME WalInv, StoreInv, CrashInv PROVE CrashKeepsCommits
<1>1. CASE ~hdr.init
  BY <1>1 DEF StoreInv, Newest, CrashKeepsCommits
<1>2. CASE hdr.init /\ \A c \in Conns : ~Committing(c)
  <2>1. NoneBeyond(file.frame, file.salt, hdr.mx) \/ StillOld
    BY <1>2 DEF CrashInv, NoneBelieved
  <2>2. Recovered(file, db) = store
    BY <1>2, <2>1, ReadInFile DEF StillOld
  <2> QED
    BY <2>2 DEF CrashKeepsCommits
<1>3. ASSUME NEW c \in Conns, Committing(c) PROVE CrashKeepsCommits
  <2>1. CASE conn[c].reck = 0
    <3>1. snap[c] \in Pending
      BY <1>3 DEF Pending
    <3> QED
      BY <1>3, <2>1, <3>1, CommitIsPending DEF CrashKeepsCommits
  <2>2. CASE conn[c].reck > 0
    <3>1. Recovered(file, db) = store
      BY <1>3, <2>2, NotYet, ReadInFile, AtCommit
    <3> QED
      BY <3>1 DEF CrashKeepsCommits
  <2> QED
    BY <1>3, <2>1, <2>2, AtCommit
<1> QED
  BY <1>1, <1>2, <1>3

-----------------------------------------------------------------------------
(* What a step of c must leave so that a recovery is not disturbed.          *)

LEMMA RecordedOn ==
  ASSUME NEW f, Recorded(f), txns \in Nat, salts \in Nat, txns' \in Nat, salts' \in Nat,
         txns <= txns', salts <= salts'
  PROVE  Recorded(f)'
<1>1. Before(txns + 1) \subseteq Before(txns' + 1)
  BY BeforeGrows
<1> QED
  BY <1>1 DEF Recorded, Old

LEMMA OthersLog ==
  ASSUME WalInv, CrashInv, NEW c \in Conns, Only(c), NEW d \in Conns, d # c,
         ~Writing(d) \/ UNCHANGED <<hdr, file, idx, txns>>
  PROVE  LogsOn(d)'
<1>1. conn'[d] = conn[d] /\ LogsOn(d)
  BY OthersSame DEF CrashInv
<1>2. CASE ~Writing(d)
  <2>1. conn[d].pc \notin {"frames", "done"} /\ ~Writing(d)'
    BY <1>1, <1>2 DEF Writing
  <2>2. ~Logs(d)' /\ ~Committing(d)'
    BY <1>1, <2>1 DEF Logs, Committing
  <2>3. conn'[d].reck = 0
    BY <1>1, <1>2 DEF LogsOn
  <2> QED
    BY <1>1, <2>1, <2>2, <2>3 DEF LogsOn
<1>3. CASE UNCHANGED <<hdr, file, idx, txns>>
  BY <1>1, <1>3 DEF LogsOn, Logs, Mine, Committing, Writing, End
<1> QED
  BY <1>2, <1>3

LEMMA CrashByOne ==
  ASSUME WalInv, CrashInv, NEW c \in Conns, Only(c),
         \A d \in Conns \ {c} : ~Writing(d) \/ UNCHANGED <<hdr, file, idx, txns>>,
         txns' \in Nat, Recorded(file.frame)', Recorded(disk.frame)',
         hdr'.init => InFile' /\ NoneBelieved', LogsOn(c)'
  PROVE  CrashInv'
<1>1. ASSUME NEW d \in Conns PROVE LogsOn(d)'
  <2>1. CASE d = c
    BY <2>1
  <2>2. CASE d # c
    BY <2>2, OthersLog
  <2> QED
    BY <2>1, <2>2
<1> QED
  BY <1>1 DEF CrashInv

(* What a recovery believes is the same after a step that leaves the file and  *)
(* the newest commit, and the index of the committed frames.                 *)
LEMMA BelievedStays ==
  ASSUME WalInv, NEW c \in Conns, Only(c), hdr.init, InFile, NoneBelieved,
         UNCHANGED <<hdr, file, store>>, \A i \in 1 .. hdr.mx : idx'[i] = idx[i],
         db' = db \/ hdr.mx # 0, Logs(c)' => Logs(c) \/ hdr.mx # 0,
         Committing(c) => Committing(c)'
  PROVE  InFile' /\ NoneBelieved'
<1>1. InFile'
  BY DEF InFile
<1>2. NoneBelieved'
  <2>1. SUFFICES ASSUME \A d \in Conns : ~Committing(d)'
                 PROVE  /\ NoneBeyond(file.frame, hdr.salt, hdr.mx)'
                        /\ (NoneBeyond(file.frame, file.salt, hdr.mx) \/ StillOld)'
    BY DEF NoneBelieved
  <2>2. ASSUME NEW d \in Conns PROVE ~Committing(d)
    <3>1. CASE d = c
      BY <2>1, <3>1
    <3>2. CASE d # c
      BY <2>1, <3>2, OthersSame DEF Committing
    <3> QED
      BY <3>1, <3>2
  <2>3. NoneBeyond(file.frame, hdr.salt, hdr.mx)'
    BY <2>2 DEF NoneBelieved
  <2>4. CASE NoneBeyond(file.frame, file.salt, hdr.mx)
    BY <2>3, <2>4
  <2>5. CASE StillOld
    <3>1. ASSUME NEW d \in Conns PROVE ~Logs(d)'
      <4>1. CASE d = c
        BY <2>5, <4>1 DEF StillOld
      <4>2. CASE d # c
        BY <2>5, <4>2, OthersSame DEF StillOld, Logs, Writing
      <4> QED
        BY <4>1, <4>2
    <3>2. hdr'.mx = 0 /\ Recovered(file, db)' = store'
      BY <2>5 DEF StillOld
    <3> QED
      BY <2>3, <2>5, <3>1, <3>2 DEF StillOld
  <2> QED
    BY <2>2, <2>3, <2>4, <2>5 DEF NoneBelieved
<1> QED
  BY <1>1, <1>2

(* A step that leaves the log, and the newest commit.                        *)
LEMMA CrashQuietly ==
  ASSUME WalInv, WalInv', CrashInv, NEW c \in Conns, Only(c),
         UNCHANGED <<hdr, file, idx, txns, store>>, db' = db \/ hdr.mx # 0, salts <= salts',
         Recorded(disk.frame)', LogsOn(c)', Logs(c)' => Logs(c) \/ hdr.mx # 0,
         Committing(c) => Committing(c)'
  PROVE  CrashInv'
<1>1. txns' \in Nat /\ Recorded(file.frame)'
  BY RecordedOn DEF CrashInv, WalInv, WalShape
<1>2. hdr'.init => InFile' /\ NoneBelieved'
  BY BelievedStays DEF CrashInv
<1> QED
  BY <1>1, <1>2, CrashByOne

(* A step of a connection that is not writing its frames.                    *)
LEMMA Idly ==
  ASSUME WalInv, WalInv', StoreInv, CrashInv, NEW c \in Conns, Only(c), RememberStep,
         UNCHANGED <<hdr, file, idx, txns>>, db' = db \/ hdr.mx # 0, salts <= salts',
         Recorded(disk.frame)',
         conn[c].pc # "frames", conn'[c].pc # "frames",
         Writing(c)' => /\ Writing(c) /\ conn[c].pc # "done"
                        /\ conn'[c].hdr = conn[c].hdr /\ SameTxn(c),
         ~Writing(c)' => conn'[c].reck = 0
  PROVE  CrashInv'
<1>1. store' = store
  <2>1. ~Commits(c)
    BY DEF Commits
  <2> QED
    BY <2>1, Remembers
<1>2. ~Committing(c) /\ ~Committing(c)'
  BY DEF Committing
<1>3. LogsOn(c)
  BY DEF CrashInv
<1>4. Logs(c)' => Logs(c)
  BY DEF Logs
<1>5. CASE ~Writing(c)'
  <2>1. ~Logs(c)'
    BY <1>5 DEF Logs
  <2>2. LogsOn(c)'
    BY <1>2, <1>5, <2>1 DEF LogsOn
  <2> QED
    BY <1>1, <1>2, <1>4, <2>2, CrashQuietly
<1>6. CASE Writing(c)'
  <2>1. End(c)' = End(c) /\ (Writing(c)' <=> Writing(c)) /\ (Logs(c)' <=> Logs(c))
    BY <1>6 DEF End, Logs
  <2>2. LogsOn(c)'
    BY <1>2, <1>3, <1>6, <2>1 DEF LogsOn, Mine, SameTxn
  <2> QED
    BY <1>1, <1>2, <1>4, <2>2, CrashQuietly
<1> QED
  BY <1>5, <1>6

-----------------------------------------------------------------------------
(* The steps that leave the log: looking, ending, checkpoints.                *)

SameLog == UNCHANGED <<hdr, idx, file, disk, txns, salts>>

LEMMA LogStands ==
  ASSUME WalInv, WalInv', StoreInv, CrashInv, NEW c \in Conns, Only(c), RememberStep, SameLog,
         db' = db \/ hdr.mx # 0, conn[c].pc \notin {"frames", "done"}, conn'[c].pc # "frames",
         SameTxn(c), Writing(c)' <=> Writing(c), Writing(c) => conn'[c].hdr = conn[c].hdr
  PROVE  CrashInv'
<1>1. Recorded(disk.frame)' /\ salts <= salts'
  BY DEF SameLog, Recorded, Old, CrashInv, WalInv, WalShape
<1>2. ~Writing(c)' => conn'[c].reck = 0
  BY DEF CrashInv, LogsOn, SameTxn
<1> QED
  BY <1>1, <1>2, Idly DEF SameLog

(* A step to rest.                                                           *)
LEMMA LogRests ==
  ASSUME WalInv, WalInv', StoreInv, CrashInv, NEW c \in Conns, Only(c), RememberStep, SameLog,
         db' = db, AtRest(c), conn[c].pc # "frames"
  PROVE  CrashInv'
<1>1. Recorded(disk.frame)' /\ salts <= salts'
  BY DEF SameLog, Recorded, Old, CrashInv, WalInv, WalShape
<1>2. ~Writing(c)' /\ conn'[c].reck = 0 /\ conn'[c].pc # "frames"
  BY DEF AtRest, Writing
<1> QED
  BY <1>1, <1>2, Idly DEF SameLog

LEMMA ReadHdrLeaves ==
  ASSUME WalInv, WalInv', StoreInv, CrashInv, NEW c \in Conns, ReadHdr(c), RememberStep
  PROVE  CrashInv'
<1>1. conn[c].pc = "idle" /\ SameLog /\ db' = db
  BY DEF ReadHdr, index, files, counts, SameLog
<1>2. Only(c) /\ conn'[c].pc \in {"lock0", "pick"} /\ SameLook(c) /\ SameTxn(c)
  BY ReadHdrSets
<1>3. ~Writing(c) /\ ~Writing(c)'
  BY <1>1, <1>2, JoinsToWrite DEF Joining, Writing, SameLook
<1> QED
  BY <1>1, <1>2, <1>3, LogStands

LEMMA PlaceLeaves ==
  ASSUME WalInv, WalInv', StoreInv, CrashInv, NEW c \in Conns, NEW v, GoesTo(c, v), RememberStep,
         SameLog, db' = db, conn[c].pc \notin {"frames", "done"}, v # "frames",
         conn[c].pc \in {"write", "restart", "rejoin", "header"} <=>
           v \in {"write", "restart", "rejoin", "header", "done"}
  PROVE  CrashInv'
<1>1. Only(c) /\ conn'[c].pc = v /\ SameButPlace(c) /\ SameTxn(c)
  BY ToPlace
<1>2. (Writing(c)' <=> Writing(c)) /\ conn'[c].hdr = conn[c].hdr
  BY <1>1 DEF Writing, SameButPlace, SameLook, SameCopy
<1> QED
  BY <1>1, <1>2, LogStands

LEMMA Lock0Leaves ==
  ASSUME WalInv, WalInv', StoreInv, CrashInv, NEW c \in Conns, Lock0(c), RememberStep
  PROVE  CrashInv'
<1>1. conn[c].pc = "lock0" /\ SameLog /\ db' = db
  BY DEF Lock0, index, files, counts, SameLog
<1>2. GoesTo(c, "check0") \/ GoesTo(c, "pick")
  BY DEF Lock0, GoesTo
<1> QED
  BY <1>1, <1>2, PlaceLeaves

LEMMA Check0Leaves ==
  ASSUME WalInv, WalInv', StoreInv, CrashInv, NEW c \in Conns, Check0(c), RememberStep
  PROVE  CrashInv'
<1>1. conn[c].pc = "check0" /\ SameLog /\ db' = db
  BY DEF Check0, index, files, counts, SameLog
<1>2. CASE hdr = conn[c].hdr
  <2>1. Only(c) /\ conn'[c].pc = "read" /\ SameLook(c) /\ SameTxn(c)
    BY <1>2, Check0Sets
  <2>2. ~Writing(c) /\ ~Writing(c)'
    BY <1>1, <2>1, JoinsToWrite DEF Joining, Writing, SameLook
  <2> QED
    BY <1>1, <2>1, <2>2, LogStands
<1>3. CASE hdr # conn[c].hdr
  <2>1. GoesTo(c, "idle")
    BY <1>3 DEF Check0, GoesTo
  <2> QED
    BY <1>1, <2>1, PlaceLeaves
<1> QED
  BY <1>2, <1>3

LEMMA GivingUpLeaves ==
  ASSUME WalInv, WalInv', StoreInv, CrashInv, NEW c \in Conns, conn' = Abandoned(c), RememberStep,
         SameLog, db' = db, conn[c].pc \in {"raise", "share", "check"}
  PROVE  CrashInv'
<1>1. /\ Only(c) /\ conn'[c].pc \in {"pick", "idle"} /\ conn'[c].useWal = conn[c].useWal
      /\ SameCopy(c) /\ SameTxn(c)
  BY GivesUp
<1>2. (Writing(c)' <=> Writing(c)) /\ conn'[c].hdr = conn[c].hdr
  BY <1>1 DEF Writing, SameCopy
<1> QED
  BY <1>1, <1>2, LogStands

LEMMA SeesLeaves ==
  ASSUME WalInv, WalInv', StoreInv, CrashInv, NEW c \in Conns, NEW slot, NEW seen, NEW v,
         Sees(c, slot, seen, v), v \in {"raise", "share"}, RememberStep,
         SameLog, db' = db, conn[c].pc \in {"pick", "raise"}
  PROVE  CrashInv'
<1>1. /\ Only(c) /\ conn'[c].pc = v /\ conn'[c].useWal = conn[c].useWal
      /\ SameCopy(c) /\ SameTxn(c)
  BY SeesSets
<1>2. (Writing(c)' <=> Writing(c)) /\ conn'[c].hdr = conn[c].hdr
  BY <1>1 DEF Writing, SameCopy
<1> QED
  BY <1>1, <1>2, LogStands

LEMMA PickLeaves ==
  ASSUME WalInv, WalInv', StoreInv, CrashInv, NEW c \in Conns, Pick(c), RememberStep
  PROVE  CrashInv'
<1> DEFINE mx == conn[c].hdr.mx
           fit == {i \in Marks : mark[i] <= mx}
           best == MaxOf({0} \cup {mark[i] : i \in fit})
           slot == MaxOf({0} \cup {i \in fit : mark[i] = best})
           v == IF best < mx \/ slot = 0 THEN "raise" ELSE "share"
<1>1. conn[c].pc = "pick" /\ SameLog /\ db' = db
  BY DEF Pick, index, files, counts, SameLog
<1>2. Sees(c, slot, best, v)
  BY DEF Pick, Sees
<1>3. v \in {"raise", "share"}
  OBVIOUS
<1> HIDE DEF best, slot, v
<1> QED
  BY <1>1, <1>2, <1>3, SeesLeaves

LEMMA RaiseLeaves ==
  ASSUME WalInv, WalInv', StoreInv, CrashInv, NEW c \in Conns, Raise(c), RememberStep
  PROVE  CrashInv'
<1> DEFINE free == {i \in Marks : CanOwn(i)}
<1>1. conn[c].pc = "raise" /\ SameLog /\ db' = db
  BY DEF Raise, files, counts, SameLog
<1>2. CASE free # {}
  <2>1. Sees(c, MinOf(free), conn[c].hdr.mx, "share")
    BY <1>2 DEF Raise, Sees
  <2> QED
    BY <1>1, <2>1, SeesLeaves
<1>3. CASE free = {} /\ conn[c].slot = 0
  <2>1. conn' = Abandoned(c)
    BY <1>3 DEF Raise
  <2> QED
    BY <1>1, <2>1, GivingUpLeaves
<1>4. CASE free = {} /\ conn[c].slot # 0
  <2>1. GoesTo(c, "share")
    BY <1>4 DEF Raise, GoesTo
  <2> QED
    BY <1>1, <2>1, PlaceLeaves
<1> QED
  BY <1>2, <1>3, <1>4

LEMMA ShareLeaves ==
  ASSUME WalInv, WalInv', StoreInv, CrashInv, NEW c \in Conns, Share(c), RememberStep
  PROVE  CrashInv'
<1>1. conn[c].pc = "share" /\ SameLog /\ db' = db
  BY DEF Share, index, files, counts, SameLog
<1>2. GoesTo(c, "min") \/ conn' = Abandoned(c)
  BY DEF Share, GoesTo
<1> QED
  BY <1>1, <1>2, PlaceLeaves, GivingUpLeaves

LEMMA ReadMinLeaves ==
  ASSUME WalInv, WalInv', StoreInv, CrashInv, NEW c \in Conns, ReadMin(c), RememberStep
  PROVE  CrashInv'
<1>1. conn[c].pc = "min" /\ SameLog /\ db' = db
  BY DEF ReadMin, index, files, counts, SameLog
<1>2. /\ Only(c) /\ conn'[c].pc = "check" /\ conn'[c].useWal = conn[c].useWal
      /\ SameCopy(c) /\ SameTxn(c)
  BY ReadMinSets
<1>3. (Writing(c)' <=> Writing(c)) /\ conn'[c].hdr = conn[c].hdr
  BY <1>1, <1>2 DEF Writing, SameCopy
<1> QED
  BY <1>1, <1>2, <1>3, LogStands

LEMMA CheckLeaves ==
  ASSUME WalInv, WalInv', StoreInv, CrashInv, NEW c \in Conns, Check(c), RememberStep
  PROVE  CrashInv'
<1>1. conn[c].pc = "check" /\ SameLog /\ db' = db
  BY DEF Check, index, files, counts, SameLog
<1>2. CASE SameIndex(c)
  <2>1. /\ Only(c) /\ conn'[c].pc = IF conn[c].useWal THEN "header" ELSE "read"
        /\ conn'[c].useWal = FALSE /\ conn'[c].hdr = conn[c].hdr /\ SameTxn(c)
    BY <1>2, CheckSets
  <2>2. Writing(c)' <=> Writing(c)
    BY <1>1, <2>1 DEF Writing
  <2>3. conn'[c].pc # "frames"
    BY <2>1
  <2> QED
    BY <1>1, <2>1, <2>2, <2>3, LogStands
<1>3. CASE ~SameIndex(c)
  <2>1. conn' = Abandoned(c)
    BY <1>3 DEF Check
  <2> QED
    BY <1>1, <2>1, GivingUpLeaves
<1> QED
  BY <1>2, <1>3

LEMMA EndReadLeaves ==
  ASSUME WalInv, WalInv', StoreInv, CrashInv, NEW c \in Conns, EndRead(c), RememberStep
  PROVE  CrashInv'
<1>1. conn[c].pc = "read" /\ SameLog /\ db' = db
  BY DEF EndRead, index, files, counts, SameLog
<1>2. Only(c) /\ AtRest(c)
  BY EndReadSets
<1> QED
  BY <1>1, <1>2, LogRests

LEMMA WriteFramesLeaves ==
  ASSUME WalInv, WalInv', StoreInv, CrashInv, NEW c \in Conns, NEW S, NEW commit,
         WriteFrames(c, S, commit), ~CanRestart(c), RememberStep
  PROVE  CrashInv'
<1>1. conn[c].pc = "write" /\ SameLog /\ db' = db
  BY DEF WriteFrames, files, SameLog
<1>2. /\ Only(c) /\ conn'[c].pc \in {"rejoin", "header"} /\ SameLook(c) /\ SameCopy(c) /\ SameTxn(c)
  BY WriteFramesSets
<1>3. Writing(c)' /\ Writing(c) /\ conn'[c].hdr = conn[c].hdr
  BY <1>1, <1>2 DEF Writing, SameCopy
<1> QED
  BY <1>1, <1>2, <1>3, LogStands

LEMMA RestartLeaves ==
  ASSUME WalInv, WalInv', StoreInv, CrashInv, NEW c \in Conns, Restart(c), RememberStep
  PROVE  CrashInv'
<1>1. conn[c].pc = "restart" /\ SameLog /\ db' = db /\ GoesTo(c, "rejoin")
  BY DEF Restart, files, counts, SameLog, GoesTo
<1> QED
  BY <1>1, PlaceLeaves

LEMMA RejoinLeaves ==
  ASSUME WalInv, WalInv', StoreInv, CrashInv, NEW c \in Conns, Rejoin(c), RememberStep
  PROVE  CrashInv'
<1>1. conn[c].pc = "rejoin" /\ SameLog /\ db' = db
  BY DEF Rejoin, index, files, counts, SameLog
<1>2. /\ Only(c) /\ conn'[c].pc = "pick" /\ conn'[c].useWal = TRUE /\ SameCopy(c) /\ SameTxn(c)
  BY RejoinSets
<1>3. Writing(c)' /\ Writing(c) /\ conn'[c].hdr = conn[c].hdr
  BY <1>1, <1>2 DEF Writing, SameCopy
<1> QED
  BY <1>1, <1>2, <1>3, LogStands

LEMMA EndWriteLeaves ==
  ASSUME WalInv, WalInv', StoreInv, CrashInv, NEW c \in Conns, EndWrite(c), RememberStep
  PROVE  CrashInv'
<1>1. conn[c].pc = "done" /\ SameLog /\ db' = db
  BY DEF EndWrite, index, files, counts, SameLog
<1>2. Only(c) /\ conn'[c].pc = "read" /\ SameLook(c) /\ conn'[c].reck = conn[c].reck
  BY EndWriteSets
<1>3. ~conn[c].useWal /\ conn[c].hdr = hdr /\ LogsOn(c) /\ hdr.mx \in Nat
  BY <1>1, JoinsToWrite, Digest DEF Joining, HeaderGrows, CrashInv
<1>4. conn[c].reck = 0
  BY <1>3 DEF LogsOn
<1>5. ~Writing(c)'
  BY <1>2, <1>3 DEF Writing, SameLook
<1>6. Recorded(disk.frame)' /\ salts <= salts'
  BY <1>1 DEF SameLog, Recorded, Old, CrashInv, WalInv, WalShape
<1> QED
  BY <1>1, <1>2, <1>4, <1>5, <1>6, Idly DEF SameLog

LEMMA BeginCheckpointLeaves ==
  ASSUME WalInv, WalInv', StoreInv, CrashInv, NEW c \in Conns, BeginCheckpoint(c), RememberStep
  PROVE  CrashInv'
<1>1. conn[c].pc = "idle" /\ SameLog /\ db' = db
  BY DEF BeginCheckpoint, index, files, counts, SameLog
<1>2. Only(c) /\ conn'[c].pc = "ckpt" /\ SameLook(c) /\ SameTxn(c)
  BY BeginCheckpointSets
<1>3. ~Writing(c) /\ ~Writing(c)'
  BY <1>1, <1>2, JoinsToWrite DEF Joining, Writing, SameLook
<1> QED
  BY <1>1, <1>2, <1>3, LogStands

LEMMA StartCheckpointLeaves ==
  ASSUME WalInv, WalInv', StoreInv, CrashInv, NEW c \in Conns, StartCheckpoint(c), RememberStep
  PROVE  CrashInv'
<1>1. conn[c].pc = "ckpt" /\ SameLog /\ db' = db
  BY DEF StartCheckpoint, index, files, counts, SameLog
<1>2. CASE nBackfill < conn[c].hdr.mx
  <2>1. Only(c) /\ conn'[c].pc = "marks" /\ SameLook(c) /\ SameTxn(c)
    BY <1>2, StartCheckpointSets
  <2>2. ~Writing(c) /\ ~Writing(c)'
    BY <1>1, <2>1, JoinsToWrite DEF Joining, Writing, SameLook
  <2> QED
    BY <1>1, <2>1, <2>2, LogStands
<1>3. CASE ~(nBackfill < conn[c].hdr.mx)
  <2>1. GoesTo(c, "endCkpt")
    BY <1>3 DEF StartCheckpoint, GoesTo
  <2> QED
    BY <1>1, <2>1, PlaceLeaves
<1> QED
  BY <1>2, <1>3

LEMMA TestMarkLeaves ==
  ASSUME WalInv, WalInv', StoreInv, CrashInv, NEW c \in Conns, TestMark(c), RememberStep
  PROVE  CrashInv'
<1>1. conn[c].pc = "marks" /\ SameLog /\ db' = db
  BY DEF TestMark, files, counts, SameLog
<1>2. Only(c) /\ conn'[c].pc = conn[c].pc /\ SameLook(c) /\ SameTxn(c)
  BY TestMarkSets
<1>3. ~Writing(c) /\ ~Writing(c)'
  BY <1>1, <1>2, JoinsToWrite DEF Joining, Writing, SameLook
<1> QED
  BY <1>1, <1>2, <1>3, LogStands

LEMMA StartBackfillLeaves ==
  ASSUME WalInv, WalInv', StoreInv, CrashInv, NEW c \in Conns, StartBackfill(c), RememberStep
  PROVE  CrashInv'
<1>1. conn[c].pc = "marks" /\ UNCHANGED <<hdr, idx, file, db, txns, salts>>
  BY DEF StartBackfill, index, counts
<1>2. CASE nBackfill < conn[c].safe /\ CanOwn(0)
  <2>1. disk' = file
    BY <1>2 DEF StartBackfill, Synced
  <2>2. Only(c) /\ conn'[c].pc = "copy" /\ SameLook(c) /\ SameTxn(c)
    BY <1>2, StartBackfillSets
  <2>3. ~Writing(c) /\ ~Writing(c)'
    BY <1>1, <2>2, JoinsToWrite DEF Joining, Writing, SameLook
  <2>4. conn'[c].reck = 0
    BY <2>2, <2>3 DEF CrashInv, LogsOn, SameTxn
  <2>5. Recorded(disk.frame)' /\ salts <= salts'
    BY <1>1, <2>1 DEF Recorded, Old, CrashInv, WalInv, WalShape
  <2> QED
    BY <1>1, <2>2, <2>3, <2>4, <2>5, Idly
<1>3. CASE ~(nBackfill < conn[c].safe /\ CanOwn(0))
  <2>1. GoesTo(c, "endCkpt") /\ disk' = disk
    BY <1>3 DEF StartBackfill, GoesTo
  <2>2. SameLog
    BY <1>1, <2>1 DEF SameLog
  <2> QED
    BY <1>1, <2>1, <2>2, PlaceLeaves
<1> QED
  BY <1>2, <1>3

LEMMA CopyPageLeaves ==
  ASSUME WalInv, WalInv', StoreInv, CrashInv, NEW c \in Conns, CopyPage(c), RememberStep
  PROVE  CrashInv'
<1> DEFINE x == CHOOSE y \in conn[c].copy : y[1] = MinOf({z[1] : z \in conn[c].copy})
<1>1. conn[c].pc = "copy" /\ SameLog /\ Leaves(c, x)
  BY DEF CopyPage, index, counts, SameLog, Leaves
<1> HIDE DEF x
<1>2. Only(c) /\ conn'[c].pc = conn[c].pc /\ SameLook(c) /\ SameTxn(c)
  BY <1>1, CopySets
<1>3. ~Writing(c) /\ ~Writing(c)'
  BY <1>1, <1>2, JoinsToWrite DEF Joining, Writing, SameLook
<1>4. hdr.mx # 0
  BY <1>1, Digest DEF StillToCopy
<1> QED
  BY <1>1, <1>2, <1>3, <1>4, LogStands

LEMMA BackfilledLeaves ==
  ASSUME WalInv, WalInv', StoreInv, CrashInv, NEW c \in Conns, Backfilled(c), RememberStep
  PROVE  CrashInv'
<1>1. conn[c].pc = "copy" /\ SameLog /\ db' = db /\ GoesTo(c, "endCkpt")
  BY DEF Backfilled, counts, SameLog, GoesTo
<1> QED
  BY <1>1, PlaceLeaves

LEMMA EndCheckpointLeaves ==
  ASSUME WalInv, WalInv', StoreInv, CrashInv, NEW c \in Conns, EndCheckpoint(c), RememberStep
  PROVE  CrashInv'
<1>1. conn[c].pc = "endCkpt" /\ SameLog /\ db' = db
  BY DEF EndCheckpoint, index, files, counts, SameLog
<1>2. Only(c) /\ AtRest(c)
  BY EndCheckpointSets
<1> QED
  BY <1>1, <1>2, LogRests

-----------------------------------------------------------------------------
(* The steps that write, and the end of a write.                             *)

LEMMA OthersIdle ==
  ASSUME WalInv, NEW c \in Conns, Writing(c), NEW d \in Conns \ {c}
  PROVE  ~Writing(d) /\ ~Logs(d) /\ ~Committing(d)
<1>1. ~Writing(d)
  BY OneAtATime
<1> QED
  BY <1>1 DEF Logs, Committing, Writing

LEMMA NobodyCommits ==
  ASSUME WalInv, NEW c \in Conns, Only(c), Writing(c), ~Committing(c)
  PROVE  \A d \in Conns : ~Committing(d)
BY OthersIdle

(* What it writes is of its own transaction.                                 *)
LEMMA NewerValue ==
  ASSUME NEW t \in Nat, NEW b \in {0, 1}
  PROVE  2 * t + b \in Before(t + 1) /\ 2 * t + b \notin Before(t)
BY DEF Before

LEMMA ItsValue ==
  ASSUME CrashInv, NEW c \in Conns, Writing(c)
  PROVE  Value(c) \in Before(txns + 1) /\ Value(c) \notin Before(txns)
<1>1. conn[c].txn = txns /\ txns \in Nat
  BY DEF CrashInv, LogsOn
<1>2. PICK t \in Nat : t = txns
  BY <1>1
<1>3. PICK b \in {0, 1} : b = IF conn[c].commit THEN 1 ELSE 0
  OBVIOUS
<1>4. Value(c) = 2 * t + b
  BY <1>1, <1>2, <1>3, Zenon DEF Value
<1>5. 2 * t + b \in Before(t + 1) /\ 2 * t + b \notin Before(t)
  BY NewerValue
<1> QED
  BY <1>2, <1>4, <1>5, Zenon

LEMMA BeginWriteLogs ==
  ASSUME WalInv, WalInv', StoreInv, CrashInv, NEW c \in Conns, BeginWrite(c), RememberStep
  PROVE  CrashInv'
<1>1. /\ conn[c].pc = "read" /\ hdr = conn[c].hdr /\ writer = Nobody /\ txns' = txns + 1
      /\ UNCHANGED <<hdr, idx, file, disk, db, salts>>
  BY DEF BeginWrite, CanWrite, index, files
<1>2. /\ Only(c) /\ conn'[c].pc = "write" /\ SameLook(c) /\ SameCopy(c)
      /\ conn'[c].txn = txns + 1 /\ conn'[c].reck = conn[c].reck
  BY BeginWriteSets
<1>3. ASSUME NEW d \in Conns PROVE ~Writing(d) /\ ~Committing(d)
  <2>1. ~Writing(d)
    BY <1>1, Digest, WalAssumption DEF LocksHeld
  <2> QED
    BY <2>1 DEF Committing, Writing
<1>4. store' = store
  BY <1>1, <1>2, Remembers DEF Commits
<1>5. conn'[c].hdr = hdr /\ ~Logs(c)' /\ Writing(c)' /\ ~Committing(c)' /\ hdr.mx \in Nat
  BY <1>1, <1>2, Digest DEF Logs, Writing, Committing, SameCopy
<1>6. hdr'.init => InFile' /\ NoneBelieved'
  BY <1>1, <1>2, <1>3, <1>4, <1>5, BelievedStays DEF CrashInv
<1>7. txns \in Nat /\ txns' \in Nat /\ txns <= txns' /\ salts \in Nat
  BY <1>1 DEF CrashInv, WalInv, WalShape
<1>8. Recorded(file.frame)' /\ Recorded(disk.frame)'
  <2>1. PICK f, g : f = file.frame /\ g = disk.frame
    OBVIOUS
  <2>2. Recorded(f) /\ Recorded(g)
    BY <2>1 DEF CrashInv
  <2>3. Recorded(f)' /\ Recorded(g)'
    BY <1>1, <1>7, <2>2, RecordedOn
  <2> QED
    BY <1>1, <2>1, <2>3
<1>9. LogsOn(c)'
  <2>1. conn'[c].reck = 0
    BY <1>2, <1>3 DEF CrashInv, LogsOn
  <2>2. \A i \in Frames : Old(file.frame, i, txns')
    BY <1>1 DEF CrashInv, Recorded
  <2> QED
    BY <1>1, <1>2, <1>5, <2>1, <2>2 DEF LogsOn, Old
<1> QED
  BY <1>2, <1>3, <1>6, <1>7, <1>8, <1>9, CrashByOne

LEMMA UndoLogs ==
  ASSUME WalInv, WalInv', StoreInv, CrashInv, NEW c \in Conns, Undo(c), RememberStep
  PROVE  CrashInv'
<1>1. /\ conn[c].pc = "write" /\ UNCHANGED <<hdr, file, disk, db, txns, salts>>
      /\ idx' = IF conn[c].hdr.mx = hdr.mx \/ hdr.mx = 0 THEN idx
                ELSE [i \in Frames |-> IF i <= hdr.mx THEN idx[i] ELSE 0]
  BY DEF Undo, files, counts
<1>2. Only(c) /\ conn'[c].pc = "read" /\ SameLook(c) /\ conn'[c].reck = 0
  BY UndoSets
<1>3. ~conn[c].useWal /\ hdr.mx \in Nat /\ hdr.mx <= MaxFrame /\ MaxFrame \in Nat
  BY <1>1, JoinsToWrite, Digest, Stands, WalAssumption DEF Joining, Contents
<1>4. Writing(c) /\ ~Writing(c)' /\ ~Committing(c) /\ ~Committing(c)' /\ ~Logs(c)'
  BY <1>1, <1>2, <1>3 DEF Writing, Committing, Logs, SameLook
<1>5. store' = store
  BY <1>1, <1>2, Remembers DEF Commits
<1>6. \A i \in 1 .. hdr.mx : idx'[i] = idx[i]
  <2>1. \A i \in 1 .. hdr.mx : i \in Frames /\ i <= hdr.mx
    BY <1>3 DEF Frames
  <2> QED
    BY <1>1, <2>1
<1>7. hdr'.init => InFile' /\ NoneBelieved'
  BY <1>1, <1>2, <1>4, <1>5, <1>6, BelievedStays DEF CrashInv
<1>8. txns' \in Nat /\ Recorded(file.frame)' /\ Recorded(disk.frame)'
  BY <1>1 DEF CrashInv, Recorded, Old
<1>9. LogsOn(c)'
  BY <1>2, <1>4 DEF LogsOn
<1> QED
  BY <1>2, <1>4, <1>7, <1>8, <1>9, OthersIdle, CrashByOne

LEMMA SpillLogs ==
  ASSUME WalInv, WalInv', StoreInv, CrashInv, NEW c \in Conns, FinishFrames(c), ~conn[c].commit,
         RememberStep
  PROVE  CrashInv'
<1>1. /\ conn[c].pc = "frames" /\ conn[c].list = {} /\ UNCHANGED <<hdr, file, disk, db, txns, salts>>
      /\ \A i \in 1 .. conn[c].n : i \in Frames /\ idx'[i] = Index(c)[i]
      /\ \A i \in 1 .. conn[c].hdr.mx : idx'[i] = idx[i]
  BY Indexed DEF FinishFrames, files, counts
<1>2. /\ Only(c) /\ conn'[c].hdr = [conn[c].hdr EXCEPT !.mx = conn[c].n]
      /\ conn'[c].pc = "write" /\ SameLook(c) /\ SameTxn(c)
  BY SpillSets
<1>3. /\ HeaderGrows(c) /\ LogsOn(c) /\ conn[c].hdr \in Header /\ conn[c].n \in Nat /\ hdr.mx \in Nat
      /\ conn[c].hdr.mx \in Nat
  BY Digest DEF CrashInv, WalInv, WalShape, Drawn
<1>4. conn'[c].hdr.mx = conn[c].n /\ conn'[c].hdr.salt = conn[c].hdr.salt
  BY <1>2, <1>3 DEF Header
<1>5. /\ Writing(c) /\ Writing(c)' /\ Logs(c) /\ ~Committing(c) /\ ~Committing(c)'
      /\ End(c) = conn[c].n /\ End(c)' = conn[c].n
  BY <1>1, <1>2, <1>4 DEF Writing, Committing, Logs, End
<1>6. /\ hdr.mx <= conn[c].hdr.mx /\ conn[c].hdr.mx <= conn[c].n /\ hdr.mx < conn[c].n
  BY <1>1, <1>3, <1>5 DEF HeaderGrows, LogsOn
<1>7. store' = store
  BY <1>1, <1>2, Remembers DEF Commits
<1>8. hdr'.init => InFile' /\ NoneBelieved'
  <2>1. \A i \in 1 .. hdr.mx : idx'[i] = idx[i]
    BY <1>1, <1>3, <1>6
  <2> QED
    BY <1>1, <1>2, <1>5, <1>7, <2>1, BelievedStays DEF CrashInv
<1>9. txns' \in Nat /\ Recorded(file.frame)' /\ Recorded(disk.frame)'
  BY <1>1 DEF CrashInv, Recorded, Old
<1>10. ASSUME NEW i \in hdr.mx + 1 .. conn[c].n PROVE idx'[i] = file.frame[i].pg /\ Mine(c, i)'
  <2>1. i \in 1 .. conn[c].n /\ i \in Frames
    BY <1>1, <1>3
  <2>2. idx'[i] = file.frame[i].pg
    <3>1. idx'[i] = IF i <= conn[c].hdr.mx THEN idx[i] ELSE file.frame[i].pg
      BY <1>1, <2>1 DEF Index
    <3>2. i <= conn[c].hdr.mx => i \in hdr.mx + 1 .. conn[c].hdr.mx
      BY <1>3
    <3> QED
      BY <1>3, <1>5, <3>1, <3>2 DEF LogsOn
  <2>3. Mine(c, i)
    BY <1>3, <1>5 DEF LogsOn
  <2> QED
    BY <1>1, <1>2, <1>5, <2>2, <2>3 DEF Mine, SameTxn
<1>11. LogsOn(c)'
  <2>1. Logs(c)' => /\ file.salt = conn'[c].hdr.salt
                    /\ \A i \in hdr.mx + 1 .. conn'[c].hdr.mx : idx'[i] = file.frame[i].pg
                    /\ \A i \in hdr.mx + 1 .. conn[c].n : Mine(c, i)'
    BY <1>3, <1>4, <1>5, <1>10 DEF LogsOn
  <2>2. \A i \in Frames : i <= hdr.mx \/ conn[c].n < i => Old(file.frame, i, txns)
    BY <1>1, <1>3, <1>5 DEF LogsOn
  <2>3. /\ conn'[c].reck \in Nat
        /\ conn'[c].reck > 0 => hdr.mx < conn'[c].reck /\ conn'[c].reck <= conn[c].n
    BY <1>2, <1>3, <1>6 DEF LogsOn, SameTxn
  <2>4. conn'[c].txn = txns
    BY <1>2, <1>3, <1>5 DEF LogsOn, SameTxn
  <2>5. conn'[c].hdr.mx # hdr.mx
    BY <1>3, <1>4, <1>6
  <2> QED
    BY <1>1, <1>2, <1>4, <1>5, <2>1, <2>2, <2>3, <2>4, <2>5 DEF LogsOn, Old
<1> QED
  BY <1>2, <1>5, <1>8, <1>9, <1>11, OthersIdle, CrashByOne

LEMMA CommitLogs ==
  ASSUME WalInv, WalInv', StoreInv, CrashInv, NEW c \in Conns, FinishFrames(c), conn[c].commit
  PROVE  CrashInv'
<1>1. /\ conn[c].pc = "frames" /\ conn[c].list = {} /\ UNCHANGED <<file, disk, db, txns, salts>>
      /\ hdr' = [conn[c].hdr EXCEPT !.mx = conn[c].n] /\ ~(conn[c].reck > 0)
      /\ \A i \in 1 .. conn[c].n : idx'[i] = Index(c)[i]
  BY Indexed DEF FinishFrames, files, counts
<1>2. /\ Only(c) /\ conn'[c].hdr = hdr' /\ conn'[c].pc = "done" /\ SameLook(c) /\ SameTxn(c)
  BY <1>1, CommitSets
<1>3. Committing(c) /\ Writing(c) /\ LogsOn(c) /\ hdr.mx \in Nat
  BY <1>1, Digest DEF Committing, Writing, CrashInv
<1>4. conn[c].hdr \in Header /\ conn[c].reck = 0
  BY <1>1, <1>3 DEF WalInv, WalShape, Drawn, LogsOn
<1>5. hdr'.mx = conn[c].n /\ hdr'.salt = conn[c].hdr.salt /\ hdr'.mx \in Nat
  BY <1>1, <1>4, Digest DEF Header
<1>6. /\ file.frame[conn[c].n].commit /\ file.salt = hdr'.salt
      /\ \A i \in 1 .. conn[c].n : Sound(file.frame, file.salt, i)
      /\ \A s : NoneBeyond(file.frame, s, conn[c].n)
  BY <1>3, <1>4, <1>5, AllSound
<1>7. InFile'
  BY <1>1, <1>3, <1>5, <1>6, IndexIsFile DEF InFile
<1>8. NoneBelieved'
  BY <1>1, <1>5, <1>6 DEF NoneBelieved
<1>9. txns' \in Nat /\ Recorded(file.frame)' /\ Recorded(disk.frame)'
  BY <1>1 DEF CrashInv, Recorded, Old
<1>10. LogsOn(c)'
  <2>1. conn'[c].reck = 0 /\ conn'[c].txn = txns'
    BY <1>1, <1>2, <1>3, <1>4 DEF SameTxn, LogsOn
  <2>2. ~Logs(c)' /\ ~Committing(c)'
    BY <1>2, <1>5 DEF Logs, Committing
  <2> QED
    BY <1>2, <2>1, <2>2 DEF LogsOn
<1> QED
  BY <1>2, <1>3, <1>7, <1>8, <1>9, <1>10, OthersIdle, CrashByOne

LEMMA ResetLogs ==
  ASSUME WalInv, WalInv', StoreInv, CrashInv, NEW c \in Conns, NEW S, NEW commit,
         WriteFrames(c, S, commit), CanRestart(c), RememberStep
  PROVE  CrashInv'
<1>1. /\ conn[c].pc = "write" /\ conn[c].slot = 0 /\ nBackfill > 0 /\ hdr' = RestartedHdr(c)
      /\ salts' = salts + 1 /\ UNCHANGED <<idx, file, disk, db, txns>>
  BY DEF WriteFrames, CanRestart, files
<1>2. Only(c) /\ conn'[c].hdr = hdr' /\ conn'[c].pc = "restart" /\ SameTxn(c)
  BY ResetSets
<1>3. conn[c].hdr = hdr /\ nBackfill = hdr.mx /\ hdr.init
  BY <1>1, WritesOnNewest
<1>4. /\ hdr \in Header /\ salts \in Nat /\ hdr.mx \in Nat /\ hdr.mx > 0
  BY <1>1, <1>3, Digest DEF WalInv, WalShape, Drawn
<1>5. hdr'.mx = 0 /\ hdr'.salt = salts + 1
  BY <1>1, <1>3, <1>4 DEF RestartedHdr, Header
<1>6. /\ Writing(c) /\ ~Logs(c) /\ ~Committing(c) /\ ~Logs(c)' /\ ~Committing(c)' /\ Writing(c)'
      /\ End(c) = hdr.mx
  BY <1>1, <1>2, <1>3, <1>4, <1>5 DEF Writing, Logs, Committing, End
<1>7. store' = store
  BY <1>1, <1>2, Remembers DEF Commits
<1>8. LogsOn(c) /\ txns \in Nat
  BY DEF CrashInv
<1>9. Recorded(file.frame)' /\ Recorded(disk.frame)' /\ txns' \in Nat
  <2>1. PICK f, g : f = file.frame /\ g = disk.frame
    OBVIOUS
  <2>2. Recorded(f) /\ Recorded(g)
    BY <2>1 DEF CrashInv
  <2>3. Recorded(f)' /\ Recorded(g)'
    BY <1>1, <1>4, <1>8, <2>2, RecordedOn
  <2> QED
    BY <1>1, <1>8, <2>1, <2>3
<1>10. InFile'
  BY <1>5 DEF InFile
<1>11. NoneBelieved'
  <2>1. NoneBeyond(file.frame, file.salt, hdr.mx) \/ StillOld
    BY <1>2, <1>3, <1>6, NobodyCommits DEF CrashInv, NoneBelieved
  <2>2. Recovered(file, db) = store
    BY <1>3, <1>4, <2>1, ReadInFile DEF StillOld
  <2>3. \A d \in Conns : ~Logs(d)'
    <3>1. ASSUME NEW d \in Conns, d # c PROVE ~Logs(d)'
      <4>1. ~Writing(d) /\ conn'[d] = conn[d]
        BY <1>2, <1>6, <3>1, OthersIdle, OthersSame
      <4> QED
        BY <4>1 DEF Logs, Writing
    <3> QED
      BY <1>6, <3>1
  <2>4. StillOld'
    BY <1>1, <1>5, <1>7, <2>2, <2>3 DEF StillOld
  <2>5. ASSUME NEW i \in Frames PROVE ~Believed(file.frame, hdr'.salt, i)
    <3>1. file.frame[i].salt \in Nat /\ file.frame[i].salt <= salts
      BY DEF CrashInv, Recorded
    <3>2. file.frame[i].salt # hdr'.salt
      BY <1>4, <1>5, <3>1
    <3>3. i \in 1 .. i
      BY WalAssumption DEF Frames
    <3> QED
      BY <3>2, <3>3 DEF Believed, Sound
  <2> QED
    BY <1>1, <2>4, <2>5 DEF NoneBelieved, NoneBeyond
<1>12. LogsOn(c)'
  <2>1. conn'[c].reck = 0
    BY <1>2, <1>3, <1>4, <1>8 DEF LogsOn, SameTxn
  <2>2. \A i \in Frames : Old(file.frame, i, txns)
    <3>1. \A i \in Frames : i <= hdr.mx \/ End(c) < i
      BY <1>4, <1>6, WalAssumption DEF Frames
    <3> QED
      BY <1>1, <1>6, <1>8, <3>1 DEF LogsOn
  <2>3. conn'[c].txn = txns
    BY <1>2, <1>6, <1>8 DEF LogsOn, SameTxn
  <2> QED
    BY <1>1, <1>2, <1>6, <2>1, <2>2, <2>3 DEF LogsOn, Old
<1> QED
  BY <1>2, <1>6, <1>9, <1>10, <1>11, <1>12, OthersIdle, CrashByOne

LEMMA RecoverLogs ==
  ASSUME WalInv, WalInv', StoreInv, CrashInv, NEW c \in Conns, Recover(c)
  PROVE  CrashInv'
<1> DEFINE some == \E i \in Frames : file.frame[i] # NoFrame
<1>1. PICK n : n = CommittedUpTo(file)
  OBVIOUS
<1>2. PICK v : v = ValidUpTo(file)
  OBVIOUS
<1>3. /\ conn[c].pc = "idle" /\ ~hdr.init /\ hdr'.mx = n
      /\ hdr'.salt = IF some THEN file.salt ELSE 0
      /\ idx' = [i \in Frames |-> IF i <= v THEN file.frame[i].pg ELSE 0]
      /\ UNCHANGED <<file, disk, db, txns, salts>>
  BY <1>1, <1>2 DEF Recover, files, counts
<1>4. v \in 0 .. MaxFrame /\ n \in 0 .. v /\ MaxFrame \in Nat
  BY <1>1, <1>2, Counted, WalAssumption
<1>5. /\ \A i \in 1 .. v : Valid(file, i)
      /\ n > 0 => file.frame[n].commit
      /\ \A k \in Frames : file.frame[k].commit /\ (\A i \in 1 .. k : Valid(file, i)) => k <= n
  BY <1>1, <1>2, Recovers, Zenon
<1>6. /\ Only(c) /\ conn'[c].pc \in {"lock0", "pick"} /\ SameLook(c) /\ SameTxn(c)
  BY RecoverSets, Zenon
<1>7. ASSUME NEW d \in Conns PROVE ~Writing(d)
  <2>1. conn[d].pc = "idle"
    BY <1>3, Digest DEF SeenHeader
  <2> QED
    BY <2>1, JoinsToWrite DEF Joining, Writing
<1>8. ~Writing(c)' /\ ~Logs(c)' /\ ~Committing(c)'
  <2>1. ~conn'[c].useWal
    BY <1>6, <1>7 DEF Writing, SameLook
  <2> QED
    BY <1>6, <2>1 DEF Writing, Logs, Committing
<1>9. ASSUME NEW k \in Frames, file.frame[k].commit PROVE some
  BY <1>9 DEF NoFrame
<1>10. \A i \in 1 .. v : i \in Frames
  BY <1>4 DEF Frames
<1>11. InFile'
  <2>1. \A i \in 1 .. n : i \in 1 .. v /\ i <= v /\ i \in Frames
    BY <1>4, <1>10
  <2>2. \A i \in 1 .. n : idx'[i] = file.frame[i].pg /\ Sound(file.frame, file.salt, i)
    BY <1>3, <1>5, <2>1 DEF Sound, Valid
  <2>3. n > 0 => hdr'.salt = file.salt /\ file.frame[n].commit
    <3>1. n > 0 => n \in 1 .. n
      BY <1>4
    <3> QED
      BY <1>3, <1>5, <1>9, <2>1, <3>1
  <2> QED
    BY <1>3, <2>2, <2>3 DEF InFile
<1>12. NoneBelieved'
  <2>1. ASSUME NEW k \in Frames, n < k, NEW s \in {hdr'.salt, file.salt}, Believed(file.frame, s, k)
        PROVE  FALSE
    <3>1. file.frame[k].commit /\ s = file.salt
      BY <1>3, <1>9, <2>1 DEF Believed
    <3>2. k <= n
      BY <1>5, <2>1, <3>1 DEF Believed, Sound, Valid
    <3> QED
      BY <1>4, <2>1, <3>2, WalAssumption DEF Frames
  <2> QED
    BY <1>3, <2>1 DEF NoneBelieved, NoneBeyond
<1>13. txns' \in Nat /\ Recorded(file.frame)' /\ Recorded(disk.frame)'
  BY <1>3 DEF CrashInv, Recorded, Old
<1>14. LogsOn(c)'
  <2>1. conn'[c].reck = 0
    BY <1>6, <1>7 DEF CrashInv, LogsOn, SameTxn
  <2> QED
    BY <1>8, <2>1, <1>6 DEF LogsOn
<1> QED
  BY <1>6, <1>7, <1>11, <1>12, <1>13, <1>14, CrashByOne

(* A process that has just started.                                          *)
Restarted ==
  /\ conn = [c \in Conns |-> Resting] /\ hdr = NoHdr
  /\ txns \in Nat /\ Recorded(file.frame) /\ Recorded(disk.frame)

LEMMA NoneLogs == Restarted => CrashInv
<1> SUFFICES ASSUME Restarted PROVE CrashInv
  OBVIOUS
<1> USE DEF Restarted
<1>1. ~hdr.init
  BY DEF NoHdr
<1>2. ASSUME NEW c \in Conns PROVE LogsOn(c)
  <2>1. conn[c].pc = "idle" /\ conn[c].useWal = FALSE /\ conn[c].reck = 0
    BY DEF Resting
  <2>2. ~Writing(c) /\ ~Logs(c) /\ ~Committing(c)
    BY <2>1 DEF Writing, Logs, Committing
  <2> QED
    BY <2>1, <2>2 DEF LogsOn
<1> QED
  BY <1>1, <1>2 DEF CrashInv

LEMMA LogsAtFirst == ASSUME StoreInit PROVE CrashInv
<1>1. /\ hdr = NoHdr /\ conn = [c \in Conns |-> Resting] /\ file = NoFile /\ disk = NoFile
      /\ txns = 0 /\ salts = 0
  BY DEF StoreInit, Init
<1>2. \A i \in Frames : file.frame[i] = NoFrame
  BY <1>1 DEF NoFile
<1>3. NoFrame.val = 0 /\ NoFrame.sum = <<>> /\ NoFrame.salt = 0
  BY DEF NoFrame
<1>4. 0 \in Before(txns + 1)
  BY <1>1 DEF Before
<1>5. Recorded(file.frame)
  BY <1>1, <1>2, <1>3, <1>4 DEF Recorded, Old
<1> QED
  BY <1>1, <1>5, NoneLogs DEF Restarted

LEMMA CrashLogs ==
  ASSUME WalInv, StoreInv, CrashInv, Crash \/ PowerLoss PROVE CrashInv'
<1>1. /\ hdr' = NoHdr /\ conn' = [c \in Conns |-> Resting] /\ txns' = txns /\ salts' = salts
  BY DEF Crash, PowerLoss, Die
<1>2. Recorded(file.frame) /\ Recorded(disk.frame) /\ txns \in Nat
  BY DEF CrashInv
<1>3. Recorded(file.frame)' /\ Recorded(disk.frame)'
  <2>1. CASE Crash
    BY <1>1, <1>2, <2>1 DEF Crash, files, Recorded, Old
  <2>2. CASE PowerLoss
    <3>1. PICK f \in Left(file.frame, disk.frame) : file' = [disk EXCEPT !.frame = f]
      BY <2>2 DEF PowerLoss
    <3>2. file'.frame = f /\ disk' = file'
      BY <2>2, <3>1 DEF PowerLoss, WalInv, WalShape, DrawnFile, FileFields
    <3>3. DOMAIN file.frame = Frames
      BY DEF StoreInv, Contents, Framed
    <3>4. PICK S : f = [i \in Frames |-> IF i \in S THEN file.frame[i] ELSE disk.frame[i]]
      BY <3>1, <3>3 DEF Left, Mixed
    <3>5. \A i \in Frames : f[i] = file.frame[i] \/ f[i] = disk.frame[i]
      BY <3>4
    <3>6. Recorded(f)
      BY <1>2, <3>5 DEF Recorded, Old
    <3> QED
      BY <1>1, <3>2, <3>6 DEF Recorded, Old
  <2> QED
    BY <2>1, <2>2
<1>4. Restarted'
  BY <1>1, <1>2, <1>3 DEF Restarted
<1>5. Restarted' => CrashInv'
  BY NoneLogs, PTL
<1> QED
  BY <1>4, <1>5

LEMMA WriteHeaderLogs ==
  ASSUME WalInv, WalInv', StoreInv, CrashInv, NEW c \in Conns, WriteHeader(c), RememberStep
  PROVE  CrashInv'
<1>1. conn[c].pc = "header" /\ UNCHANGED <<hdr, idx, db, txns>>
  BY DEF WriteHeader, index
<1>2. /\ WritesOn(c) /\ LogsOn(c) /\ HeaderGrows(c) /\ hdr.init
      /\ hdr.mx \in Nat /\ conn[c].hdr.mx \in Nat /\ conn[c].hdr \in Header
      /\ salts \in Nat /\ txns \in Nat
  BY <1>1, Stands, Digest DEF CrashInv, SeenHeader, WalInv, WalShape, Drawn
<1>3. Writing(c) /\ ~Committing(c) /\ End(c) = conn[c].hdr.mx /\ conn[c].list # {}
  BY <1>1, <1>2 DEF Writing, Committing, End, WritesOn
<1>4. hdr.mx <= conn[c].hdr.mx /\ InFile /\ NoneBelieved
  BY <1>2, <1>3 DEF HeaderGrows, CrashInv
<1>5. CASE conn[c].hdr.mx # 0
  <2>1. ToFrames(c, conn[c].hdr) /\ UNCHANGED <<file, disk, salts>>
    BY <1>5, HeaderDetail
  <2>2. /\ Only(c) /\ conn'[c].hdr = conn[c].hdr /\ conn'[c].n = conn[c].hdr.mx
        /\ conn'[c].pc = "frames" /\ conn'[c].list = conn[c].list /\ SameTxn(c)
    BY <2>1, HeaderSets
  <2>3. /\ Writing(c)' /\ ~Committing(c)' /\ End(c)' = conn[c].hdr.mx /\ Logs(c)'
    BY <1>3, <2>2 DEF Writing, Committing, End, Logs
  <2>4. store' = store
    BY <1>1, <2>2, Remembers DEF Commits
  <2>5. Logs(c) \/ (hdr.mx = conn[c].hdr.mx /\ conn[c].hdr = hdr)
    BY <1>1, <1>2, <1>3, <1>4 DEF Logs, LogsOn
  <2>6. file.salt = conn[c].hdr.salt
    <3>1. CASE Logs(c)
      BY <1>2, <3>1 DEF LogsOn
    <3>2. CASE hdr.mx = conn[c].hdr.mx /\ conn[c].hdr = hdr
      BY <1>2, <1>4, <1>5, <3>2 DEF InFile
    <3> QED
      BY <2>5, <3>1, <3>2
  <2>7. /\ \A i \in hdr.mx + 1 .. conn[c].hdr.mx : idx[i] = file.frame[i].pg
        /\ \A i \in hdr.mx + 1 .. conn[c].hdr.mx : Mine(c, i)
    BY <1>2, <1>3, <2>5 DEF LogsOn
  <2>8. \A i \in hdr.mx + 1 .. conn[c].hdr.mx : Mine(c, i)'
    BY <1>1, <1>3, <2>1, <2>2, <2>7 DEF Mine, SameTxn
  <2>9. LogsOn(c)'
    <3>1. /\ conn'[c].txn = txns /\ conn'[c].reck \in Nat
          /\ \A i \in Frames : i <= hdr.mx \/ conn[c].hdr.mx < i => Old(file.frame, i, txns)
          /\ conn'[c].reck > 0 => hdr.mx < conn'[c].reck /\ conn'[c].reck <= conn[c].hdr.mx
      BY <1>1, <1>2, <1>3, <2>2 DEF LogsOn, SameTxn
    <3> QED
      BY <1>1, <1>3, <2>1, <2>2, <2>3, <2>6, <2>7, <2>8, <3>1 DEF LogsOn, Old
  <2>10. Recorded(disk.frame)'
    BY <1>1, <2>1 DEF CrashInv, Recorded, Old
  <2>11. Logs(c)' => Logs(c) \/ hdr.mx # 0
    BY <1>5, <2>5
  <2> QED
    BY <1>1, <1>2, <1>3, <2>1, <2>2, <2>4, <2>9, <2>10, <2>11, CrashQuietly
<1>6. CASE conn[c].hdr.mx = 0
  <2>1. PICK s : /\ ToFrames(c, [conn[c].hdr EXCEPT !.salt = s])
                 /\ file'.salt = s /\ file'.frame = file.frame /\ disk' = file'
                 /\ \/ s = salts + 1 /\ salts' = salts + 1
                    \/ s = conn[c].hdr.salt /\ salts' = salts
    BY <1>6, HeaderDetail
  <2>2. PICK h : h = [conn[c].hdr EXCEPT !.salt = s]
    OBVIOUS
  <2>3. h.mx = 0 /\ h.salt = s
    BY <1>2, <1>6, <2>2 DEF Header
  <2>4. /\ Only(c) /\ conn'[c].hdr = h /\ conn'[c].n = 0
        /\ conn'[c].pc = "frames" /\ conn'[c].list = conn[c].list /\ SameTxn(c)
    BY <2>1, <2>2, <2>3, HeaderSets
  <2>5. hdr.mx = 0 /\ conn[c].hdr = hdr
    BY <1>1, <1>2, <1>3, <1>4, <1>6 DEF LogsOn
  <2>6. Writing(c)' /\ ~Committing(c)' /\ End(c)' = 0 /\ Logs(c)'
    BY <1>3, <2>4 DEF Writing, Committing, End, Logs
  <2>7. NoneBeyond(file.frame, hdr.salt, 0)
    <3>1. \A d \in Conns : ~Committing(d)
      BY <1>3, OthersIdle
    <3> QED
      BY <1>4, <2>5, <3>1 DEF NoneBelieved
  <2>8. NoneBeyond(file.frame, s, 0)
    <3>1. CASE s = conn[c].hdr.salt
      BY <2>5, <2>7, <3>1
    <3>2. CASE s = salts + 1
      <4>1. ASSUME NEW i \in Frames PROVE ~Believed(file.frame, s, i)
        <5>1. file.frame[i].salt \in Nat /\ file.frame[i].salt <= salts
          BY DEF CrashInv, Recorded
        <5>2. file.frame[i].salt # s
          BY <1>2, <3>2, <5>1
        <5>3. i \in 1 .. i
          BY WalAssumption DEF Frames
        <5> QED
          BY <5>2, <5>3 DEF Believed, Sound
      <4> QED
        BY <4>1 DEF NoneBeyond
    <3> QED
      BY <2>1, <3>1, <3>2
  <2>9. InFile' /\ NoneBelieved'
    <3>1. InFile'
      BY <1>1, <2>5 DEF InFile
    <3> QED
      BY <1>1, <2>1, <2>5, <2>7, <2>8, <3>1 DEF NoneBelieved
  <2>10. txns' \in Nat /\ Recorded(file.frame)' /\ Recorded(disk.frame)'
    <3>1. PICK f : f = file.frame
      OBVIOUS
    <3>2. salts' \in Nat /\ salts <= salts' /\ txns' = txns
      BY <1>1, <1>2, <2>1
    <3>3. Recorded(f)'
      BY <1>2, <3>1, <3>2, RecordedOn DEF CrashInv
    <3> QED
      BY <1>2, <2>1, <3>1, <3>2, <3>3
  <2>11. LogsOn(c)'
    <3>1. /\ conn'[c].txn = txns /\ conn'[c].reck = 0
          /\ \A i \in Frames : Old(file.frame, i, txns)
      <4>1. /\ conn[c].txn = txns /\ conn[c].reck = 0
            /\ \A i \in Frames : i <= hdr.mx \/ 0 < i => Old(file.frame, i, txns)
        BY <1>1, <1>2, <1>3, <1>6, <2>5 DEF LogsOn
      <4>2. \A i \in Frames : 0 < i
        BY WalAssumption DEF Frames
      <4> QED
        BY <2>4, <4>1, <4>2 DEF SameTxn
    <3> QED
      BY <1>1, <1>3, <2>1, <2>3, <2>4, <2>5, <2>6, <3>1 DEF LogsOn, Old
  <2> QED
    BY <1>3, <2>4, <2>9, <2>10, <2>11, OthersIdle, CrashByOne
<1> QED
  BY <1>5, <1>6

(* A frame a is written: beyond the last frame of a writer that does not      *)
(* commit no recovery believes anything, whatever was there before.           *)
LEMMA NoneAfterwards ==
  ASSUME NEW c \in Conns, LogsOn(c)', conn'[c].pc = "frames", ~Committing(c)', hdr'.mx \in Nat,
         conn'[c].n \in Nat, hdr'.mx < conn'[c].n
  PROVE  \A s : NoneBeyond(file'.frame, s, hdr'.mx)
<1>1. PICK e : e = conn'[c].n
  OBVIOUS
<1>2. Logs(c)' /\ End(c)' = e /\ Writing(c)'
  BY <1>1 DEF Logs, End, Writing
<1>3. \A i \in hdr'.mx + 1 .. e : Mine(c, i)'
  BY <1>2 DEF LogsOn
<1>4. e \in hdr'.mx + 1 .. e
  BY <1>1
<1>5. file'.frame[e].val \notin Before(txns')
  BY <1>3, <1>4 DEF Mine, Before
<1>6. \A i \in hdr'.mx + 1 .. e : file'.frame[i].commit => file'.frame[i].sum = <<>>
  BY <1>3 DEF Mine
<1>7. \A i \in Frames : e < i => Old(file'.frame, i, txns')
  BY <1>2 DEF LogsOn, Old, Before
<1>8. PICK f, t, m : f = file'.frame /\ t = txns' /\ m = hdr'.mx
  OBVIOUS
<1>9. \A s : NoneBeyond(f, s, m)
  BY <1>1, <1>5, <1>6, <1>7, <1>8, NoneByOld
<1> QED
  BY <1>8, <1>9

PutsAt(c, g, a) ==
  /\ file'.salt = file.salt /\ file'.frame = g /\ \A i \in Frames : i # a => g[i] = file.frame[i]
  /\ a \in Frames /\ hdr.mx < a /\ a <= conn'[c].n
  /\ g[a].val = Value(c) /\ g[a].salt \in Nat /\ g[a].salt <= salts /\ Old(g, a, txns + 1)

LEMMA FramePut ==
  ASSUME WalInv, WalInv', StoreInv, CrashInv, NEW c \in Conns, Only(c),
         conn[c].pc = "frames", conn[c].list # {}, conn'[c].pc = "frames",
         UNCHANGED <<hdr, idx, disk, db, txns, salts>>,
         NEW g, NEW a, PutsAt(c, g, a), LogsOn(c)'
  PROVE  CrashInv'
<1> USE DEF PutsAt
<1>1. PICK f : f = file.frame
  OBVIOUS
<1>2. Writing(c) /\ hdr.mx \in Nat /\ a \in Nat /\ txns \in Nat /\ hdr'.mx \in Nat
      /\ conn'[c].n \in Nat
  BY Digest, WalAssumption DEF Writing, Frames, CrashInv, WalInv, WalShape
<1>3. Value(c) \in Before(txns + 1)
  BY <1>2, ItsValue
<1>4. Recorded(g)
  <2>1. Recorded(f)
    BY <1>1 DEF CrashInv
  <2>2. ASSUME NEW i \in Frames
        PROVE  /\ g[i].val \in Before(txns + 1) /\ Old(g, i, txns + 1)
               /\ g[i].salt \in Nat /\ g[i].salt <= salts
    <3>1. CASE i = a
      BY <1>3, <3>1
    <3>2. CASE i # a
      BY <1>1, <2>1, <3>2 DEF Recorded, Old
    <3> QED
      BY <3>1, <3>2
  <2> QED
    BY <2>2 DEF Recorded
<1>5. txns' \in Nat /\ Recorded(file.frame)' /\ Recorded(disk.frame)'
  <2>1. Recorded(disk.frame)
    BY DEF CrashInv
  <2> QED
    BY <1>2, <1>4, <2>1 DEF Recorded, Old
<1>6. hdr.init => InFile'
  <2>1. SUFFICES ASSUME hdr.init PROVE InFile'
    OBVIOUS
  <2>2. InFile
    BY <2>1 DEF CrashInv
  <2>3. hdr.mx <= MaxFrame /\ MaxFrame \in Nat
    BY Stands, WalAssumption DEF Contents
  <2>4. ASSUME NEW i \in 1 .. hdr.mx PROVE g[i] = f[i] /\ Sum(g, i) = Sum(f, i)
    <3>1. \A k \in 1 .. i : k \in Frames /\ k # a
      BY <1>2, <2>3 DEF Frames
    <3>2. \A k \in 1 .. i : g[k] = f[k]
      BY <1>1, <3>1
    <3>3. \A k \in 1 .. i : Payload(g, k) = Payload(f, k)
      BY <3>2 DEF Payload
    <3> QED
      BY <1>2, <3>2, <3>3, SumSame
  <2>5. hdr.mx > 0 => hdr.mx \in 1 .. hdr.mx
    BY <1>2
  <2> QED
    BY <1>1, <2>2, <2>4, <2>5 DEF InFile, Sound
<1>7. NoneBelieved'
  <2>1. SUFFICES ASSUME ~Committing(c)'
                 PROVE  \A s : NoneBeyond(file'.frame, s, hdr'.mx)
    BY DEF NoneBelieved
  <2>2. hdr'.mx < conn'[c].n
    BY <1>2
  <2> QED
    BY <1>2, <2>1, <2>2, NoneAfterwards
<1> QED
  BY <1>2, <1>5, <1>6, <1>7, OthersIdle, CrashByOne

LEMMA OverwriteLogs ==
  ASSUME WalInv, WalInv', StoreInv, CrashInv, NEW c \in Conns,
         conn[c].pc = "frames", conn[c].list # {},
         UNCHANGED <<hdr, idx, disk, db, txns, salts>>,
         NEW p, p = MinOf(conn[c].list), NEW old,
         old = FindFrame(p, conn[c].min, conn[c].hdr.mx), old > hdr.mx,
         conn[c].list # {p} \/ ~conn[c].commit,
         file' = [file EXCEPT !.frame[old].val = Value(c)],
         NEW k, k = IF conn[c].reck = 0 \/ old < conn[c].reck THEN old ELSE conn[c].reck,
         Overwrites(c, conn[c].list \ {p}, k)
  PROVE  CrashInv'
<1>1. /\ Typed(c) /\ Contents /\ HeaderGrows(c) /\ LogsOn(c)
      /\ hdr.mx \in Nat /\ conn[c].hdr.mx \in Nat /\ conn[c].n \in Nat
  BY Stands, Digest DEF CrashInv
<1>2. /\ Only(c) /\ conn'[c].list = conn[c].list \ {p} /\ conn'[c].commit = conn[c].commit
      /\ conn'[c].n = conn[c].n /\ conn'[c].pc = "frames" /\ conn'[c].hdr = conn[c].hdr
      /\ conn'[c].txn = conn[c].txn /\ conn'[c].reck = k
  BY OverwriteSets DEF SameCopy
<1>3. p \in conn[c].list
  BY <1>1, FewerNew DEF Typed
<1>4. /\ conn[c].min \in Nat \ {0} /\ MaxFrame \in Nat /\ conn[c].hdr.mx <= conn[c].n
      /\ conn[c].n <= MaxFrame /\ hdr.mx <= conn[c].hdr.mx
  BY <1>1, WalAssumption DEF Typed, HeaderGrows, Writing
<1>5. old \in conn[c].min .. conn[c].hdr.mx
  BY <1>1, <1>4, Finding
<1>6. old \in Frames /\ old \in Nat /\ hdr.mx < old /\ old <= conn[c].n
  BY <1>1, <1>4, <1>5 DEF Frames
<1> DEFINE f == file.frame
           g == [f EXCEPT ![old] = [f[old] EXCEPT !.val = Value(c)]]
<1>7. file'.frame = g /\ file'.salt = file.salt
  <2>1. file' = [file EXCEPT !.frame = g]
    BY DEF WalInv, WalShape, DrawnFile
  <2>2. file = [x \in FileFields |-> file[x]]
    BY DEF WalInv, WalShape, DrawnFile
  <2> HIDE DEF g
  <2> QED
    BY <2>1, <2>2, Zenon DEF FileFields
<1>8. /\ \A i \in Frames : i # old => g[i] = f[i]
      /\ g[old] = [f[old] EXCEPT !.val = Value(c)]
  <2>1. f = [i \in Frames |-> f[i]]
    BY <1>1 DEF Contents, Framed
  <2> QED
    BY <1>6, <2>1
<1>9. /\ g[old].pg = f[old].pg /\ g[old].val = Value(c) /\ g[old].salt = f[old].salt
      /\ g[old].commit = f[old].commit /\ g[old].sum = f[old].sum
  <2>1. f[old] = [x \in FrameFields |-> f[old][x]]
    BY <1>1, <1>6 DEF Contents, Framed
  <2>2. PICK q : q = [f[old] EXCEPT !.val = Value(c)]
    OBVIOUS
  <2>3. q.pg = f[old].pg /\ q.val = Value(c) /\ q.salt = f[old].salt
    BY <2>1, <2>2, Zenon DEF FrameFields
  <2>4. q.commit = f[old].commit /\ q.sum = f[old].sum
    BY <2>1, <2>2, Zenon DEF FrameFields
  <2>5. g[old] = q
    BY <1>8, <2>2
  <2> HIDE DEF g
  <2> QED
    BY <2>3, <2>4, <2>5, Zenon
<1> HIDE DEF g
<1>10. /\ Writing(c) /\ Logs(c) /\ ~Committing(c) /\ End(c) = conn[c].n
       /\ Writing(c)' /\ Logs(c)' /\ ~Committing(c)' /\ End(c)' = conn[c].n
  <2>1. ~(conn'[c].list = {} /\ conn'[c].commit)
    BY <1>2, <1>3
  <2> QED
    BY <1>2, <2>1 DEF Writing, Logs, Committing, End
<1>11. k \in Nat /\ hdr.mx < k /\ k <= old /\ k <= conn[c].hdr.mx
       /\ (conn[c].reck = 0 \/ k <= conn[c].reck)
  <2>1. /\ conn[c].reck \in Nat
        /\ conn[c].reck > 0 => hdr.mx < conn[c].reck /\ conn[c].reck <= conn[c].hdr.mx
    BY <1>1 DEF LogsOn
  <2> QED
    BY <1>1, <1>5, <1>6, <2>1
<1>12. \A i \in Frames : g[i].pg = f[i].pg /\ g[i].commit = f[i].commit
  BY <1>8, <1>9
<1>13. ASSUME NEW i \in hdr.mx + 1 .. conn[c].n PROVE Mine(c, i)'
  <2>1. i \in Frames /\ i \in Nat
    BY <1>1, <1>4, <1>13 DEF Frames
  <2>2. Mine(c, i)
    BY <1>1, <1>10, <1>13 DEF LogsOn
  <2>3. g[i].pg # 0 /\ ~g[i].commit
    BY <1>10, <1>12, <2>1, <2>2 DEF Mine
  <2>4. g[i].val \notin Before(txns)
    <3>1. CASE i = old
      BY <1>9, <1>10, <3>1, ItsValue
    <3>2. CASE i # old
      BY <1>8, <2>1, <2>2, <3>2 DEF Mine
    <3> QED
      BY <3>1, <3>2
  <2>5. ASSUME i < k PROVE Sound(g, file.salt, i)
    <3>1. Sound(f, file.salt, i)
      BY <1>1, <1>11, <2>1, <2>2, <2>5 DEF Mine, LogsOn
    <3>2. \A j \in 1 .. i : j \in Frames /\ j # old
      BY <1>4, <1>6, <1>11, <2>1, <2>5 DEF Frames
    <3>3. g[i] = f[i]
      BY <1>6, <1>8, <1>11, <2>1, <2>5
    <3>4. \A j \in 1 .. i : Payload(g, j) = Payload(f, j)
      BY <1>8, <3>2 DEF Payload
    <3>5. Sum(g, i) = Sum(f, i)
      BY <2>1, <3>4, SumSame
    <3> QED
      BY <3>1, <3>3, <3>5 DEF Sound
  <2>6. conn'[c].reck # 0
    BY <1>1, <1>2, <1>11
  <2> QED
    BY <1>2, <1>7, <2>3, <2>4, <2>5, <2>6 DEF Mine, Before
<1>14. LogsOn(c)'
  <2>1. file'.salt = conn'[c].hdr.salt
    BY <1>1, <1>2, <1>7, <1>10 DEF LogsOn
  <2>2. \A i \in hdr.mx + 1 .. conn[c].hdr.mx : idx'[i] = g[i].pg
    <3>1. \A i \in hdr.mx + 1 .. conn[c].hdr.mx : i \in Frames
      BY <1>1, <1>4 DEF Frames
    <3> QED
      BY <1>1, <1>10, <1>12, <3>1 DEF LogsOn
  <2>3. hdr.mx < conn[c].n
    BY <1>1, <1>6
  <2>4. \A i \in Frames : i <= hdr.mx \/ conn[c].n < i => Old(g, i, txns)
    <3>1. ASSUME NEW i \in Frames, i <= hdr.mx \/ conn[c].n < i PROVE Old(g, i, txns)
      <4>1. i # old
        BY <1>1, <1>6, <3>1
      <4>2. Old(f, i, txns)
        BY <1>1, <1>10, <3>1 DEF LogsOn
      <4> QED
        BY <1>8, <4>1, <4>2 DEF Old
    <3> QED
      BY <3>1
  <2>5. conn'[c].txn = txns'
    BY <1>1, <1>2, <1>10 DEF LogsOn
  <2>6. conn'[c].reck \in Nat /\ hdr'.mx < conn'[c].reck /\ conn'[c].reck <= conn'[c].hdr.mx
    BY <1>2, <1>11
  <2> QED
    BY <1>2, <1>7, <1>10, <1>13, <2>1, <2>2, <2>3, <2>4, <2>5, <2>6 DEF LogsOn, Old, Before
<1>15. g[old].salt \in Nat /\ g[old].salt <= salts /\ Old(g, old, txns + 1)
  BY <1>6, <1>9 DEF CrashInv, Recorded, Old
<1> HIDE DEF f
<1>16. PICK a : a = old
  OBVIOUS
<1>17. PutsAt(c, g, a)
  BY <1>2, <1>6, <1>7, <1>8, <1>9, <1>15, <1>16 DEF PutsAt, f
<1> QED
  BY <1>2, <1>14, <1>17, FramePut

LEMMA AppendLogs ==
  ASSUME WalInv, WalInv', StoreInv, CrashInv, NEW c \in Conns,
         conn[c].pc = "frames", conn[c].list # {},
         UNCHANGED <<hdr, idx, disk, db, txns, salts>>,
         NEW p, p = MinOf(conn[c].list), NEW n, NEW r, PutsAfter(c, p, n, r)
  PROVE  CrashInv'
<1> USE DEF PutsAfter
<1>0. PICK g : /\ g = [file.frame EXCEPT ![n] = r] /\ file' = [file EXCEPT !.frame = g]
               /\ conn[c].reck = 0 => r.sum = Sum(g, n)
  BY DEF WalInv, WalShape, DrawnFile
<1>1. /\ Typed(c) /\ WritesOn(c) /\ Contents /\ HeaderGrows(c) /\ LogsOn(c)
      /\ hdr.mx \in Nat /\ conn[c].hdr.mx \in Nat /\ conn[c].n \in Nat
      /\ conn[c].hdr.salt \in Nat /\ conn[c].hdr.salt <= salts /\ salts \in Nat /\ txns \in Nat
  BY Stands, Digest DEF CrashInv, WalInv, WalShape, Drawn, Header
<1>2. /\ Only(c) /\ conn'[c].list = conn[c].list \ {p} /\ conn'[c].commit = conn[c].commit
      /\ conn'[c].n = n /\ conn'[c].pc = "frames" /\ conn'[c].hdr = conn[c].hdr /\ SameTxn(c)
  BY AppendSets DEF SameCopy
<1>3. p \in conn[c].list /\ p \in Pages /\ p # 0
  <2>1. p \in conn[c].list /\ p \in Pages
    BY <1>1, FewerNew DEF Typed
  <2> QED
    BY <2>1, WalAssumption DEF Pages
<1>4. /\ MaxFrame \in Nat /\ conn[c].hdr.mx <= conn[c].n
      /\ conn[c].n <= MaxFrame /\ hdr.mx <= conn[c].hdr.mx /\ n \in Nat
  BY <1>1, WalAssumption DEF Typed, HeaderGrows, Writing
<1>5. n \in Frames /\ n <= MaxFrame /\ hdr.mx < n
  <2>1. /\ Cardinality(New(c, conn[c].list)) \in Nat
        /\ Cardinality(New(c, conn[c].list \ {p})) \in Nat
        /\ Cardinality(New(c, conn[c].list \ {p})) + 1 <= Cardinality(New(c, conn[c].list))
    BY <1>1, FewerNew DEF Typed
  <2>2. conn[c].n + Cardinality(New(c, conn[c].list)) <= MaxFrame
    BY <1>1 DEF WritesOn
  <2>3. PICK j \in Nat, k \in Nat :
          j = Cardinality(New(c, conn[c].list)) /\ k = Cardinality(New(c, conn[c].list \ {p}))
    BY <2>1
  <2>4. k + 1 <= j /\ conn[c].n + j <= MaxFrame
    BY <2>1, <2>2, <2>3, Zenon
  <2>5. n = conn[c].n + 1
    OBVIOUS
  <2> HIDE DEF PutsAfter
  <2>6. n <= MaxFrame /\ 1 <= n /\ hdr.mx < n
    BY <1>1, <1>4, <2>3, <2>4, <2>5
  <2> QED
    BY <1>4, <2>6 DEF Frames
<1>6. file'.frame = g /\ file'.salt = file.salt
  <2>1. file = [x \in FileFields |-> file[x]]
    BY DEF WalInv, WalShape, DrawnFile
  <2> QED
    BY <1>0, <2>1, Zenon DEF FileFields
<1>7. PICK f : f = file.frame
  OBVIOUS
<1>8. g[n] = r /\ \A i \in Frames : i # n => g[i] = f[i]
  <2>1. f = [i \in Frames |-> f[i]]
    BY <1>1, <1>7 DEF Contents, Framed
  <2> QED
    BY <1>0, <1>5, <1>7, <2>1
<1>9. /\ Writing(c) /\ Logs(c) /\ ~Committing(c) /\ End(c) = conn[c].n
      /\ Writing(c)' /\ Logs(c)' /\ End(c)' = n
  BY <1>2 DEF Writing, Logs, Committing, End
<1>10. conn[c].list \ {p} = {} => conn[c].list = {p}
  BY <1>3
<1>11. /\ conn[c].txn = txns /\ conn[c].reck \in Nat /\ file.salt = conn[c].hdr.salt
       /\ conn[c].reck > 0 => hdr.mx < conn[c].reck /\ conn[c].reck <= conn[c].hdr.mx
  BY <1>1, <1>9 DEF LogsOn
<1>12. ASSUME NEW i \in hdr.mx + 1 .. n PROVE Mine(c, i)'
  <2>1. i \in Frames /\ i \in Nat
    BY <1>1, <1>4, <1>5, <1>12 DEF Frames
  <2>2. CASE i = n
    <3>1. g[i].pg # 0 /\ g[i].val \notin Before(txns)
      BY <1>3, <1>8, <1>9, <2>2, ItsValue
    <3>2. ASSUME conn[c].reck = 0 \/ i < conn[c].reck PROVE Sound(g, file.salt, i)
      <4>1. conn[c].reck = 0
        BY <1>1, <1>4, <1>11, <2>2, <3>2
      <4> QED
        BY <1>0, <1>3, <1>8, <1>11, <2>2, <4>1 DEF Sound
    <3>3. ASSUME g[i].commit
          PROVE  Committing(c)' /\ i = End(c)' /\ (conn[c].reck > 0 => g[i].sum = <<>>)
      BY <1>2, <1>8, <1>9, <1>11, <2>2, <3>3 DEF Committing
    <3> QED
      BY <1>2, <1>6, <3>1, <3>2, <3>3 DEF Mine, SameTxn, Before
  <2>3. CASE i # n
    <3>1. i \in hdr.mx + 1 .. conn[c].n /\ i < n
      BY <1>1, <1>4, <2>1, <2>3
    <3>2. Mine(c, i) /\ g[i] = f[i]
      BY <1>1, <1>8, <1>9, <2>1, <2>3, <3>1 DEF LogsOn
    <3>3. Sum(g, i) = Sum(f, i)
      <4>1. \A j \in 1 .. i : j \in Frames /\ j # n
        BY <1>4, <1>5, <2>1, <3>1 DEF Frames
      <4>2. \A j \in 1 .. i : Payload(g, j) = Payload(f, j)
        BY <1>8, <4>1 DEF Payload
      <4> QED
        BY <2>1, <4>2, SumSame
    <3>4. ~g[i].commit
      BY <1>7, <1>9, <3>2 DEF Mine
    <3> QED
      BY <1>2, <1>6, <1>7, <3>2, <3>3, <3>4 DEF Mine, SameTxn, Sound, Before
  <2> QED
    BY <2>2, <2>3
<1>13. LogsOn(c)'
  <2>1. file'.salt = conn'[c].hdr.salt
    BY <1>2, <1>6, <1>11
  <2>2. \A i \in hdr.mx + 1 .. conn[c].hdr.mx : idx'[i] = g[i].pg
    <3>1. \A i \in hdr.mx + 1 .. conn[c].hdr.mx : i \in Frames /\ i # n
      BY <1>1, <1>4 DEF Frames
    <3> QED
      BY <1>1, <1>7, <1>8, <1>9, <3>1 DEF LogsOn
  <2>3. Committing(c)' => g[n].commit
    BY <1>2, <1>8, <1>10 DEF Committing
  <2>4. \A i \in Frames : i <= hdr.mx \/ n < i => Old(g, i, txns)
    <3>1. ASSUME NEW i \in Frames, i <= hdr.mx \/ n < i PROVE Old(g, i, txns)
      <4>1. i # n /\ (i <= hdr.mx \/ conn[c].n < i)
        BY <1>1, <1>4, <1>5, <3>1 DEF Frames
      <4>2. Old(f, i, txns)
        BY <1>1, <1>7, <1>9, <4>1 DEF LogsOn
      <4> QED
        BY <1>8, <4>1, <4>2 DEF Old
    <3> QED
      BY <3>1
  <2>5. /\ conn'[c].txn = txns' /\ conn'[c].reck \in Nat
        /\ conn'[c].reck > 0 => hdr'.mx < conn'[c].reck /\ conn'[c].reck <= conn'[c].hdr.mx
    BY <1>2, <1>11 DEF SameTxn
  <2> QED
    BY <1>2, <1>5, <1>6, <1>9, <1>12, <2>1, <2>2, <2>3, <2>4, <2>5 DEF LogsOn, Old, Before
<1>14. g[n].val = Value(c) /\ g[n].salt \in Nat /\ g[n].salt <= salts
  BY <1>1, <1>8
<1>15. Old(g, n, txns + 1)
  <2>1. CASE conn[c].reck # 0
    BY <1>8, <2>1 DEF Old
  <2>2. CASE conn[c].reck = 0
    <3>1. ASSUME NEW k \in 1 .. n PROVE g[k].val \in Before(txns + 1)
      <4>1. k \in Frames
        BY <1>4, <1>5 DEF Frames
      <4>2. CASE k = n
        BY <1>8, <1>9, <4>2, ItsValue
      <4>3. CASE k # n
        BY <1>7, <1>8, <4>1, <4>3 DEF CrashInv, Recorded
      <4> QED
        BY <4>2, <4>3
    <3>2. g[n].sum = Sum(g, n)
      BY <1>0, <1>8, <2>2
    <3> QED
      BY <1>4, <3>1, <3>2, OldSound
  <2> QED
    BY <2>1, <2>2
<1>16. n <= conn'[c].n
  BY <1>2, <1>4
<1>17. PutsAt(c, g, n)
  BY <1>5, <1>6, <1>7, <1>8, <1>14, <1>15, <1>16 DEF PutsAt
<1> QED
  BY <1>2, <1>13, <1>17, FramePut

LEMMA WriteFrameLogs ==
  ASSUME WalInv, WalInv', StoreInv, CrashInv, NEW c \in Conns, WriteFrame(c) PROVE CrashInv'
<1>1. /\ conn[c].pc = "frames" /\ conn[c].list # {}
      /\ UNCHANGED <<hdr, idx, disk, db, txns, salts>>
  BY DEF WriteFrame, index, counts
<1>2. PICK p : p = MinOf(conn[c].list)
  OBVIOUS
<1>3. CASE \E old : PutsOver(c, p, old)
  <2>1. PICK old : PutsOver(c, p, old)
    BY <1>3
  <2>2. PICK k : k = IF conn[c].reck = 0 \/ old < conn[c].reck THEN old ELSE conn[c].reck
    OBVIOUS
  <2> QED
    BY <1>1, <1>2, <2>1, <2>2, OverwriteLogs DEF PutsOver
<1>4. CASE \E n, r : PutsAfter(c, p, n, r)
  <2>1. PICK n, r : PutsAfter(c, p, n, r)
    BY <1>4
  <2> QED
    BY <1>1, <1>2, <2>1, AppendLogs
<1> QED
  BY <1>2, <1>3, <1>4, FramePutAs

LEMMA RewriteChecksumsLogs ==
  ASSUME WalInv, WalInv', StoreInv, CrashInv, NEW c \in Conns, RewriteChecksums(c)
  PROVE  CrashInv'
<1> DEFINE f == file.frame
           g == [i \in Frames |-> IF i \in WrongSums(c)
                                  THEN [f[i] EXCEPT !.salt = conn[c].hdr.salt, !.sum = Sum(f, i)]
                                  ELSE f[i]]
<1>1. /\ conn[c].pc = "frames" /\ conn[c].list = {} /\ conn[c].commit /\ conn[c].reck > 0
      /\ file' = [file EXCEPT !.frame = g] /\ UNCHANGED <<hdr, idx, disk, db, txns, salts>>
  BY DEF RewriteChecksums, index, counts
<1>2. /\ Only(c) /\ conn'[c].pc = "frames" /\ conn'[c].list = {} /\ conn'[c].commit = conn[c].commit
      /\ conn'[c].n = conn[c].n /\ conn'[c].hdr = conn[c].hdr
      /\ conn'[c].txn = conn[c].txn /\ conn'[c].reck = 0
  BY <1>1, RewriteSets DEF SameWork, SameCopy
<1>3. Committing(c) /\ Committing(c)' /\ Writing(c)' /\ Logs(c)' /\ End(c)' = conn[c].n
  BY <1>1, <1>2 DEF Committing, Writing, Logs, End
<1>4. /\ Writing(c) /\ Logs(c) /\ LogsOn(c) /\ InFile /\ End(c) = conn[c].n /\ hdr.mx \in Nat
      /\ conn[c].n \in Nat /\ hdr.mx < conn[c].n /\ conn[c].n <= MaxFrame /\ MaxFrame \in Nat
      /\ conn[c].n \in Frames /\ conn[c].hdr.mx \in Nat /\ conn[c].hdr.mx <= conn[c].n
      /\ conn[c].reck \in Nat
  BY <1>3, AtCommit
<1>5. /\ file.salt = conn[c].hdr.salt /\ file.frame[conn[c].n].commit /\ conn[c].txn = txns
      /\ hdr.mx < conn[c].reck
      /\ \A i \in hdr.mx + 1 .. conn[c].hdr.mx : idx[i] = file.frame[i].pg
      /\ \A i \in Frames : i <= hdr.mx \/ conn[c].n < i => Old(file.frame, i, txns)
  BY <1>1, <1>3, <1>4 DEF LogsOn
<1>6. \A i \in hdr.mx + 1 .. conn[c].n : Mine(c, i)
  BY <1>4 DEF LogsOn
<1>7. file'.frame = g /\ file'.salt = file.salt
  <2>1. file = [x \in FileFields |-> file[x]]
    BY DEF WalInv, WalShape, DrawnFile
  <2> HIDE DEF g
  <2> QED
    BY <1>1, <2>1, Zenon DEF FileFields
<1>8. \A i \in Frames : i \in WrongSums(c) <=> conn[c].reck <= i /\ i <= conn[c].n
  BY <1>4 DEF WrongSums, Frames
<1>9. ASSUME NEW i \in Frames
      PROVE  /\ g[i].pg = f[i].pg /\ g[i].val = f[i].val /\ g[i].commit = f[i].commit
             /\ i \in WrongSums(c) => g[i].salt = conn[c].hdr.salt /\ g[i].sum = Sum(f, i)
             /\ i \notin WrongSums(c) => g[i] = f[i]
  <2>1. f[i] = [x \in FrameFields |-> f[i][x]]
    BY Stands DEF Contents, Framed
  <2>2. CASE i \in WrongSums(c)
    <3>1. PICK q : q = [f[i] EXCEPT !.salt = conn[c].hdr.salt, !.sum = Sum(f, i)]
      OBVIOUS
    <3>2. q.pg = f[i].pg /\ q.val = f[i].val /\ q.commit = f[i].commit
      BY <2>1, <3>1, Zenon DEF FrameFields
    <3>3. q.salt = conn[c].hdr.salt /\ q.sum = Sum(f, i)
      BY <2>1, <3>1, Zenon DEF FrameFields
    <3>4. g[i] = q
      BY <2>2, <3>1
    <3> HIDE DEF g
    <3> QED
      BY <2>2, <3>2, <3>3, <3>4, Zenon
  <2>3. CASE i \notin WrongSums(c)
    BY <2>3
  <2> QED
    BY <2>2, <2>3
<1> HIDE DEF f, g
<1>10. ASSUME NEW i \in Frames PROVE Sum(g, i) = Sum(f, i)
  <2>1. i \in Nat /\ \A k \in 1 .. i : k \in Frames
    BY <1>4 DEF Frames
  <2>2. \A k \in 1 .. i : Payload(g, k) = Payload(f, k)
    BY <1>9, <2>1 DEF Payload
  <2> QED
    BY <2>1, <2>2, SumSame
<1>11. InFile'
  <2>1. ASSUME NEW i \in 1 .. hdr.mx
        PROVE  g[i] = f[i] /\ Sum(g, i) = Sum(f, i)
    <3>1. i \in Frames /\ ~(conn[c].reck <= i)
      BY <1>4, <1>5 DEF Frames
    <3> QED
      BY <1>8, <1>9, <1>10, <3>1
  <2>2. hdr.mx > 0 => hdr.mx \in 1 .. hdr.mx
    BY <1>4
  <2> QED
    BY <1>1, <1>4, <1>7, <2>1, <2>2 DEF InFile, Sound, f
<1>12. NoneBelieved'
  BY <1>3 DEF NoneBelieved
<1>13. txns' \in Nat /\ Recorded(file.frame)' /\ Recorded(disk.frame)'
  <2>1. Recorded(f) /\ Recorded(disk.frame) /\ txns \in Nat
    BY DEF CrashInv, f
  <2>2. conn[c].hdr.salt \in Nat /\ conn[c].hdr.salt <= salts
    BY DEF WalInv, WalShape, Drawn, Header
  <2>3. ASSUME NEW i \in Frames
        PROVE  /\ g[i].val \in Before(txns + 1) /\ Old(g, i, txns + 1)
               /\ g[i].salt \in Nat /\ g[i].salt <= salts
    <3>1. g[i].val \in Before(txns + 1)
      BY <1>9, <2>1 DEF Recorded
    <3>2. CASE i \in WrongSums(c)
      <4>1. i \in Nat /\ \A k \in 1 .. i : k \in Frames
        BY <1>4 DEF Frames
      <4>2. \A k \in 1 .. i : g[k].val \in Before(txns + 1)
        BY <1>9, <2>1, <4>1 DEF Recorded
      <4>3. g[i].sum = Sum(g, i)
        BY <1>9, <1>10, <3>2
      <4>4. Old(g, i, txns + 1)
        BY <4>1, <4>2, <4>3, OldSound
      <4> QED
        BY <1>9, <2>2, <3>1, <3>2, <4>4
    <3>3. CASE i \notin WrongSums(c)
      BY <1>9, <2>1, <3>1, <3>3 DEF Recorded, Old
    <3> QED
      BY <3>2, <3>3
  <2> QED
    BY <1>1, <1>7, <2>1, <2>3 DEF Recorded, Old
<1>14. ASSUME NEW i \in hdr.mx + 1 .. conn[c].n PROVE Mine(c, i)'
  <2>1. i \in Frames /\ i \in Nat /\ Mine(c, i)
    BY <1>4, <1>6, <1>14 DEF Frames
  <2>2. /\ g[i].pg # 0 /\ g[i].val \notin Before(txns)
        /\ g[i].commit => i = conn[c].n
    BY <1>4, <1>9, <2>1 DEF Mine, f
  <2>3. Sound(g, file.salt, i)
    <3>1. CASE i \in WrongSums(c)
      BY <1>5, <1>9, <1>10, <2>1, <2>2, <3>1 DEF Sound
    <3>2. CASE i \notin WrongSums(c)
      <4>1. i < conn[c].reck
        BY <1>4, <1>8, <1>14, <2>1, <3>2
      <4>2. Sound(f, file.salt, i)
        BY <2>1, <4>1 DEF Mine, f
      <4> QED
        BY <1>9, <1>10, <2>1, <3>2, <4>2 DEF Sound
    <3> QED
      BY <3>1, <3>2
  <2> QED
    BY <1>1, <1>2, <1>3, <1>7, <2>2, <2>3 DEF Mine, Before
<1>15. LogsOn(c)'
  <2>1. \A i \in hdr.mx + 1 .. conn[c].hdr.mx : idx'[i] = g[i].pg
    <3>1. \A i \in hdr.mx + 1 .. conn[c].hdr.mx : i \in Frames
      BY <1>4 DEF Frames
    <3> QED
      BY <1>1, <1>5, <1>9, <3>1 DEF f
  <2>2. g[conn[c].n].commit
    BY <1>4, <1>5, <1>9 DEF f
  <2>3. ASSUME NEW i \in Frames, i <= hdr.mx \/ conn[c].n < i PROVE Old(g, i, txns)
    <3>1. i \notin WrongSums(c)
      BY <1>4, <1>5, <1>8, <2>3 DEF Frames
    <3>2. g[i] = f[i] /\ Old(f, i, txns)
      BY <1>5, <1>9, <2>3, <3>1 DEF f
    <3> QED
      BY <3>2 DEF Old
  <2> QED
    BY <1>1, <1>2, <1>3, <1>4, <1>5, <1>7, <1>14, <2>1, <2>2, <2>3 DEF LogsOn, Old, Before
<1> QED
  BY <1>2, <1>4, <1>11, <1>12, <1>13, <1>15, OthersIdle, CrashByOne

-----------------------------------------------------------------------------
(* Together.                                                                 *)

LEMMA CrashStays == ASSUME CrashInv, UNCHANGED <<vars, history>> PROVE CrashInv'
<1>1. UNCHANGED <<hdr, idx, file, disk, db, conn, salts, txns, store>>
  BY DEF vars, history, index, locks, files, counts
<1>2. txns' \in Nat /\ Recorded(file.frame)' /\ Recorded(disk.frame)'
  BY <1>1 DEF CrashInv, Recorded, Old, Before
<1>3. ASSUME NEW c \in Conns PROVE LogsOn(c)'
  <2>1. LogsOn(c)
    BY DEF CrashInv
  <2>2. /\ Writing(c)' <=> Writing(c)
        /\ Logs(c)' <=> Logs(c)
        /\ Committing(c)' <=> Committing(c)
    BY <1>1 DEF Writing, Logs, Committing
  <2>3. End(c)' = End(c)
    BY <1>1 DEF End
  <2>4. \A i : Mine(c, i) => Mine(c, i)'
    BY <1>1, <2>2, <2>3 DEF Mine, Sound, Before
  <2>5. \A i, t : Old(file.frame, i, t) => Old(file.frame, i, t)'
    BY <1>1 DEF Old, Before
  <2> QED
    BY <1>1, <2>1, <2>2, <2>3, <2>4, <2>5 DEF LogsOn
<1>4. hdr'.init => InFile' /\ NoneBelieved'
  <2>1. InFile => InFile'
    BY <1>1 DEF InFile, Sound
  <2>2. NoneBelieved => NoneBelieved'
    <3>1. \A c \in Conns : (Logs(c)' <=> Logs(c)) /\ (Committing(c)' <=> Committing(c))
      BY <1>1 DEF Writing, Logs, Committing
    <3>2. StillOld => StillOld'
      BY <1>1, <3>1 DEF StillOld
    <3> QED
      BY <1>1, <3>1, <3>2 DEF NoneBelieved, NoneBeyond, Believed, Sound
  <2> QED
    BY <1>1, <2>1, <2>2 DEF CrashInv
<1> QED
  BY <1>2, <1>3, <1>4 DEF CrashInv

LEMMA CrashStep ==
  ASSUME WalInv, WalInv', StoreInv, CrashInv, NEW c \in Conns, Step(c), RememberStep
  PROVE  CrashInv'
<1>1. CASE ReadHdr(c) \/ Recover(c) \/ Lock0(c) \/ Check0(c) \/ Pick(c) \/ Raise(c)
  BY <1>1, ReadHdrLeaves, RecoverLogs, Lock0Leaves, Check0Leaves, PickLeaves, RaiseLeaves
<1>2. CASE Share(c) \/ ReadMin(c) \/ Check(c) \/ EndRead(c)
  BY <1>2, ShareLeaves, ReadMinLeaves, CheckLeaves, EndReadLeaves
<1>3. CASE BeginWrite(c) \/ Restart(c) \/ Rejoin(c) \/ EndWrite(c) \/ Undo(c)
  BY <1>3, BeginWriteLogs, RestartLeaves, RejoinLeaves, EndWriteLeaves, UndoLogs
<1>4. CASE \/ \E p \in Pages : WriteFrames(c, {p}, FALSE)
           \/ \E S \in (SUBSET Pages) \ {{}} : WriteFrames(c, S, TRUE)
  <2>1. ASSUME NEW S, NEW commit, WriteFrames(c, S, commit) PROVE CrashInv'
    BY <2>1, WriteFramesLeaves, ResetLogs
  <2> QED
    BY <1>4, <2>1
<1>5. CASE WriteHeader(c) \/ WriteFrame(c) \/ RewriteChecksums(c)
  BY <1>5, WriteHeaderLogs, WriteFrameLogs, RewriteChecksumsLogs
<1>6. CASE FinishFrames(c)
  BY <1>6, SpillLogs, CommitLogs
<1>7. CASE BeginCheckpoint(c) \/ StartCheckpoint(c) \/ TestMark(c) \/ StartBackfill(c)
  BY <1>7, BeginCheckpointLeaves, StartCheckpointLeaves, TestMarkLeaves, StartBackfillLeaves
<1>8. CASE CopyPage(c) \/ Backfilled(c) \/ EndCheckpoint(c)
  BY <1>8, CopyPageLeaves, BackfilledLeaves, EndCheckpointLeaves
<1> QED
  BY <1>1, <1>2, <1>3, <1>4, <1>5, <1>6, <1>7, <1>8 DEF Step

LEMMA CrashInvKept ==
  ASSUME WalInv, WalInv', StoreInv, CrashInv, [StoreNext]_<<vars, history>> PROVE CrashInv'
<1>1. CASE \E c \in Conns : Step(c) /\ RememberStep
  BY <1>1, CrashStep
<1>2. CASE (Crash \/ PowerLoss) /\ RememberRestart
  BY <1>2, CrashLogs
<1>3. CASE UNCHANGED <<vars, history>>
  BY <1>3, CrashStays
<1> QED
  BY <1>1, <1>2, <1>3 DEF StoreNext

LEMMA CrashInvHolds ==
  ASSUME ~IdleCheckpoints PROVE StoreSpec => [](WalInv /\ StoreInv /\ CrashInv)
<1>1. StoreInit => WalInv /\ StoreInv /\ CrashInv
  BY AtFirst, StoreAtFirst, LogsAtFirst DEF StoreInit
<1>2. WalInv /\ StoreInv /\ CrashInv /\ [StoreNext]_<<vars, history>>
        => (WalInv /\ StoreInv /\ CrashInv)'
  <2>1. [StoreNext]_<<vars, history>> => [Next]_vars
    BY DEF StoreNext, Next
  <2> QED
    BY <2>1, WalInvKept, StoreInvKept, CrashInvKept
<1> QED
  BY <1>1, <1>2, PTL DEF StoreSpec

(* Kill the process at any point of any transaction, reset or checkpoint: the *)
(* recovery of the next process (walIndexRecover, by salts and checksums)    *)
(* finds the newest commit, or the one whose frames were all written but     *)
(* whose header was not: nothing spilled, overwritten in place               *)
(* (walRewriteChecksums) or left behind by a reset is taken for a commit, as  *)
(* long as no checkpoint begins when all is backfilled.                      *)
THEOREM CrashesKeepCommits ==
  ASSUME ~IdleCheckpoints PROVE StoreSpec => []CrashKeepsCommits
BY CrashInvHolds, KeepsCommits, PTL

-----------------------------------------------------------------------------
(* What a loss of power would leave: the pages given by the frames g up to n   *)
(* over the database d; whose commit a recovery may find.                    *)

Taken(g, n, d) ==
  [p \in Pages |-> LET i == MaxOf({0} \cup {j \in 1 .. n : g[j].pg = p})
                   IN IF i = 0 THEN d[p] ELSE g[i].val]

Ready(c) == Committing(c) /\ conn[c].reck = 0
Known(s) == s \in past \/ \E c \in Conns : Ready(c) /\ s = snap[c]

(* Frames of which each is that of the file or that on storage.              *)
Mix(g) == \A i \in Frames : g[i] = file.frame[i] \/ g[i] = disk.frame[i]

(* The frames up to m, a commit, are on storage, and every page that is not   *)
(* in the database on storage as in the database has a frame among them.     *)
OnStorage(m) ==
  /\ \A i \in 1 .. m : disk.frame[i] = file.frame[i] /\ Sound(file.frame, file.salt, i)
  /\ m > 0 => file.frame[m].commit
Covered(m) == \A p \in Pages : db[p] # dbDisk[p] => \E i \in 1 .. m : file.frame[i].pg = p

(* Whatever is believed from there on is one of the commits.                 *)
Commit(g, n) == Known(Taken(g, n, db))
Lasts(m) ==
  /\ OnStorage(m) /\ Covered(m) /\ Commit(file.frame, m)
  /\ \A g : Mix(g) => \A n \in Frames : m < n /\ Believed(g, file.salt, n) => Commit(g, n)

(* No commit of this transaction is on storage that the file does not have.  *)
NoNewer ==
  \A i \in Frames :
    disk.frame[i].commit => Old(disk.frame, i, txns) \/ disk.frame[i] = file.frame[i]

PowerInv ==
  /\ store \in past /\ disk.salt = file.salt
  /\ hdr.init /\ hdr.mx <= nBackfill => db = dbDisk
  /\ NoNewer
  /\ \E m \in 0 .. MaxFrame :
       Lasts(m) /\ \A c \in Conns : conn[c].pc = "copy" => conn[c].safe <= m

-----------------------------------------------------------------------------
(* Of the frames up to n only their pages and values count.                  *)

LEMMA TakenSame ==
  ASSUME NEW n \in Nat, NEW g, NEW h, NEW d, NEW e,
         \A j \in 1 .. n : g[j].pg = h[j].pg /\ g[j].val = h[j].val,
         \A p \in Pages : d[p] = e[p] \/ \E j \in 1 .. n : g[j].pg = p
  PROVE  Taken(g, n, d) = Taken(h, n, e)
<1>1. ASSUME NEW p \in Pages
      PROVE  /\ {j \in 1 .. n : g[j].pg = p} = {j \in 1 .. n : h[j].pg = p}
             /\ (LET i == MaxOf({0} \cup {j \in 1 .. n : g[j].pg = p})
                 IN IF i = 0 THEN d[p] ELSE g[i].val)
                = (LET i == MaxOf({0} \cup {j \in 1 .. n : g[j].pg = p})
                   IN IF i = 0 THEN e[p] ELSE h[i].val)
  <2>1. {j \in 1 .. n : g[j].pg = p} = {j \in 1 .. n : h[j].pg = p}
    OBVIOUS
  <2> DEFINE S == {0} \cup {j \in 1 .. n : g[j].pg = p}
  <2>2. S \in SUBSET (0 .. n) /\ S # {}
    OBVIOUS
  <2>3. PICK i : i = MaxOf(S)
    OBVIOUS
  <2>4. i \in S /\ \A y \in S : y <= i
    BY <2>2, <2>3, Greatest
  <2>5. CASE i = 0
    <3>1. \A j \in 1 .. n : g[j].pg # p
      BY <2>4, <2>5
    <3> QED
      BY <2>1, <2>3, <2>5, <3>1
  <2>6. CASE i # 0
    <3>1. g[i].val = h[i].val
      BY <2>4, <2>6
    <3> QED
      BY <2>1, <2>3, <2>6, <3>1
  <2> QED
    BY <2>5, <2>6
<1> QED
  BY <1>1 DEF Taken

LEMMA SumOf ==
  ASSUME NEW g, NEW h, NEW n \in Nat, Sum(g, n) = Sum(h, n), NEW j \in 1 .. n
  PROVE  g[j].pg = h[j].pg /\ g[j].val = h[j].val
<1>1. Payload(g, j) = Payload(h, j)
  BY SumAt
<1> QED
  BY <1>1 DEF Payload

LEMMA BelievedSame ==
  ASSUME NEW g, NEW h, NEW n \in Frames, \A i \in 1 .. n : g[i] = h[i], NEW s, Believed(g, s, n)
  PROVE  Believed(h, s, n)
<1>1. n \in Nat /\ n \in 1 .. n
  BY WalAssumption DEF Frames
<1>2. ASSUME NEW i \in 1 .. n PROVE Sound(h, s, i)
  <2>1. Sound(g, s, i) /\ g[i] = h[i]
    BY DEF Believed
  <2>2. \A k \in 1 .. i : Payload(g, k) = Payload(h, k)
    BY <1>1 DEF Payload
  <2>3. Sum(g, i) = Sum(h, i)
    BY <2>2 DEF Sum
  <2> QED
    BY <2>1, <2>3 DEF Sound
<1> QED
  BY <1>1, <1>2 DEF Believed

(* A mixture has the frames that are on storage as in the file.              *)
LEMMA MixHas ==
  ASSUME NEW m \in 0 .. MaxFrame, OnStorage(m), NEW g, Mix(g)
  PROVE  /\ \A i \in 1 .. m : g[i] = file.frame[i]
         /\ m > 0 => Believed(g, file.salt, m) /\ Believed(file.frame, file.salt, m)
<1>1. MaxFrame \in Nat
  BY WalAssumption
<1>2. \A i \in 1 .. m : g[i] = file.frame[i]
  BY <1>1 DEF Mix, OnStorage, Frames
<1>3. ASSUME m > 0 PROVE Believed(g, file.salt, m) /\ Believed(file.frame, file.salt, m)
  <2>1. m \in Frames /\ \A i \in 1 .. m : file.frame[i] = g[i]
    BY <1>1, <1>2, <1>3 DEF Frames
  <2>2. Believed(file.frame, file.salt, m)
    BY <1>3 DEF Believed, OnStorage
  <2> QED
    BY <2>1, <2>2, BelievedSame
<1> QED
  BY <1>2, <1>3

(* Whatever mixture of pages is over a mixture of frames, a recovery that     *)
(* takes m frames at least does not see it.                                  *)
LEMMA TakenOver ==
  ASSUME NEW m \in 0 .. MaxFrame, OnStorage(m), Covered(m), NEW g, Mix(g),
         NEW n \in 0 .. MaxFrame, m <= n, NEW d, \A p \in Pages : d[p] = db[p] \/ d[p] = dbDisk[p]
  PROVE  Taken(g, n, d) = Taken(g, n, db)
<1>1. MaxFrame \in Nat /\ n \in Nat
  BY WalAssumption
<1>2. ASSUME NEW p \in Pages, d[p] # db[p] PROVE \E j \in 1 .. n : g[j].pg = p
  <2>1. PICK i \in 1 .. m : file.frame[i].pg = p
    BY <1>2 DEF Covered
  <2> QED
    BY <1>1, <2>1, MixHas
<1>3. \A p \in Pages : d[p] = db[p] \/ \E j \in 1 .. n : g[j].pg = p
  BY <1>2
<1> QED
  BY <1>1, <1>3, TakenSame

-----------------------------------------------------------------------------
(* The invariant says what is to be shown.                                   *)

LEMMA LeftMix ==
  ASSUME NEW new, NEW old, NEW D, DOMAIN new = D, NEW g \in Left(new, old)
  PROVE  \A i \in D : g[i] = new[i] \/ g[i] = old[i]
BY DEF Left, Mixed

LEMMA FrameOf ==
  ASSUME WalInv, NEW g, NEW f, f \in {file, disk}
  PROVE  [f EXCEPT !.frame = g].frame = g /\ [f EXCEPT !.frame = g].salt = f.salt
BY DEF WalInv, WalShape, DrawnFile, FileFields

LEMMA CleanAfterLoss == ASSUME WalInv, StoreInv, PowerInv PROVE PowerLossIsClean
<1> SUFFICES ASSUME NEW g \in Left(file.frame, disk.frame), NEW d \in Left(db, dbDisk)
             PROVE  Recovered([disk EXCEPT !.frame = g], d) \in past \cup Pending
  BY DEF PowerLossIsClean
<1>1. DOMAIN file.frame = Frames /\ DOMAIN db = Pages
  BY DEF StoreInv, Contents, Framed
<1>2. Mix(g) /\ \A p \in Pages : d[p] = db[p] \/ d[p] = dbDisk[p]
  BY <1>1, LeftMix DEF Mix
<1>3. PICK m \in 0 .. MaxFrame : Lasts(m)
  BY DEF PowerInv
<1>4. PICK f : f = [disk EXCEPT !.frame = g]
  OBVIOUS
<1>5. f.frame = g /\ f.salt = file.salt
  BY <1>4, FrameOf DEF PowerInv
<1>6. PICK n : n = CommittedUpTo(f)
  OBVIOUS
<1>7. /\ n \in 0 .. MaxFrame
      /\ n > 0 => Believed(g, file.salt, n)
      /\ \A k \in Frames : Believed(g, file.salt, k) => k <= n
  <2>1. MaxFrame \in Nat
    BY WalAssumption
  <2>2. \A i : Valid(f, i) <=> Sound(g, file.salt, i)
    BY <1>5 DEF Valid, Sound
  <2> QED
    BY <1>5, <1>6, <2>1, <2>2, Recovers DEF Believed
<1>8. m <= n
  <2>1. MaxFrame \in Nat
    BY WalAssumption
  <2>2. CASE m = 0
    BY <1>7, <2>2
  <2>3. CASE m > 0
    BY <1>2, <1>3, <1>7, <2>1, <2>3, MixHas DEF Lasts, Frames
  <2> QED
    BY <2>1, <2>2, <2>3
<1>9. Commit(g, n)
  <2>1. CASE n = m
    <3>1. m \in Nat /\ \A j \in 1 .. m : g[j] = file.frame[j]
      BY <1>2, <1>3, WalAssumption, MixHas DEF Lasts
    <3>2. Taken(g, m, db) = Taken(file.frame, m, db)
      BY <3>1, TakenSame
    <3> QED
      BY <1>3, <2>1, <3>2 DEF Lasts, Commit
  <2>2. CASE n # m
    <3>1. n \in Frames /\ m < n
      BY <1>7, <1>8, <2>2, WalAssumption DEF Frames
    <3> QED
      BY <1>2, <1>3, <1>7, <3>1 DEF Lasts, Frames
  <2> QED
    BY <2>1, <2>2
<1>10. Recovered(f, d) = Taken(g, n, db)
  <2>1. Recovered(f, d) = Taken(g, n, d)
    BY <1>5, <1>6 DEF Recovered, Replay, Taken
  <2> QED
    BY <1>2, <1>3, <1>7, <1>8, <2>1, TakenOver DEF Lasts
<1> QED
  BY <1>4, <1>9, <1>10 DEF Commit, Known, Ready, Pending

(* When nothing is left to sync, a recovery finds what it takes for the       *)
(* newest commit, and no other.                                              *)
Settled ==
  /\ disk = file /\ dbDisk = db /\ store = Recovered(file, db) /\ store \in past
  /\ hdr = NoHdr /\ conn = [c \in Conns |-> Resting]

LEMMA SettledIsClean == Settled => PowerInv
<1> SUFFICES ASSUME Settled PROVE PowerInv
  OBVIOUS
<1> USE DEF Settled
<1>1. PICK m : m = CommittedUpTo(file)
  OBVIOUS
<1>2. /\ m \in 0 .. MaxFrame /\ MaxFrame \in Nat
      /\ \A i \in 1 .. m : Sound(file.frame, file.salt, i)
      /\ m > 0 => file.frame[m].commit
      /\ \A k \in Frames : Believed(file.frame, file.salt, k) => k <= m
  <2>1. MaxFrame \in Nat
    BY WalAssumption
  <2>2. \A i : Valid(file, i) <=> Sound(file.frame, file.salt, i)
    BY DEF Valid, Sound
  <2> QED
    BY <1>1, <2>1, <2>2, Recovers DEF Believed
<1>3. OnStorage(m) /\ Covered(m)
  BY <1>2 DEF OnStorage, Covered
<1>4. Commit(file.frame, m)
  <2>1. Taken(file.frame, m, db) = store
    BY <1>1 DEF Recovered, Replay, Taken
  <2> QED
    BY <2>1 DEF Commit, Known
<1>5. ASSUME NEW g, Mix(g), NEW n \in Frames, m < n, Believed(g, file.salt, n) PROVE FALSE
  <2>1. \A i \in 1 .. n : g[i] = file.frame[i]
    BY <1>2, <1>5 DEF Mix, Frames
  <2>2. Believed(file.frame, file.salt, n)
    BY <1>5, <2>1, BelievedSame
  <2> QED
    BY <1>2, <1>5, <2>2 DEF Frames
<1>6. Lasts(m)
  BY <1>3, <1>4, <1>5 DEF Lasts
<1>7. NoNewer
  BY DEF NoNewer
<1>8. \A c \in Conns : conn[c].pc # "copy"
  BY DEF Resting
<1> QED
  BY <1>2, <1>6, <1>7, <1>8 DEF PowerInv

-----------------------------------------------------------------------------
(* What remains known. The steps that leave the files.                       *)

LEMMA ReadyOnly ==
  ASSUME NEW c \in Conns, Step(c), Ready(c) PROVE FinishFrames(c) /\ conn[c].commit
<1>1. /\ conn[c].pc = "frames" /\ conn[c].list = {} /\ conn[c].commit /\ conn[c].reck = 0
  BY DEF Ready, Committing
<1>2. ~(ReadHdr(c) \/ Recover(c) \/ Lock0(c) \/ Check0(c) \/ Pick(c) \/ Raise(c) \/ Share(c))
  BY <1>1 DEF ReadHdr, Recover, Lock0, Check0, Pick, Raise, Share
<1>3. ~(ReadMin(c) \/ Check(c) \/ EndRead(c) \/ BeginWrite(c) \/ \E S, commit : WriteFrames(c, S, commit))
  BY <1>1 DEF ReadMin, Check, EndRead, BeginWrite, WriteFrames
<1>4. ~(Restart(c) \/ Rejoin(c) \/ WriteHeader(c) \/ WriteFrame(c) \/ RewriteChecksums(c))
  BY <1>1 DEF Restart, Rejoin, WriteHeader, WriteFrame, RewriteChecksums
<1>5. ~(EndWrite(c) \/ Undo(c) \/ BeginCheckpoint(c) \/ StartCheckpoint(c) \/ TestMark(c))
  BY <1>1 DEF EndWrite, Undo, BeginCheckpoint, StartCheckpoint, TestMark
<1>6. ~(StartBackfill(c) \/ CopyPage(c) \/ Backfilled(c) \/ EndCheckpoint(c))
  BY <1>1 DEF StartBackfill, CopyPage, Backfilled, EndCheckpoint
<1> QED
  BY <1>1, <1>2, <1>3, <1>4, <1>5, <1>6 DEF Step

LEMMA KnownOn ==
  ASSUME WalInv, NEW c \in Conns, Step(c), RememberStep
  PROVE  store' \in past' /\ \A s : Known(s) => Known(s)'
<1>1. past' = past \cup {store'}
  BY DEF RememberStep
<1>2. ASSUME NEW d \in Conns, Ready(d), NEW s, s = snap[d] PROVE Known(s)'
  <2>1. CASE d = c
    <3>1. FinishFrames(c) /\ conn[c].commit
      BY <1>2, <2>1, ReadyOnly
    <3>2. Commits(c)
      BY <3>1, CommitSets DEF FinishFrames, Commits
    <3>3. \A e \in Conns : Commits(e) => e = c
      BY Alone DEF Commits
    <3>4. store' = snap[c]
      BY <3>2, <3>3 DEF RememberStep
    <3> QED
      BY <1>1, <1>2, <2>1, <3>4 DEF Known
  <2>2. CASE d # c
    <3>1. conn'[d] = conn[d]
      BY <2>2, Alone
    <3>2. Ready(d)'
      BY <1>2, <3>1 DEF Ready, Committing
    <3>3. ~Begins(d) /\ ~RollsBack(d) /\ ~Puts(d)
      BY <1>2, <3>1 DEF Begins, RollsBack, Puts, Ready, Committing
    <3>4. snap'[d] = snap[d]
      BY <3>3 DEF RememberStep
    <3> QED
      BY <1>2, <3>2, <3>4 DEF Known
  <2> QED
    BY <2>1, <2>2
<1>3. ASSUME NEW s, Known(s) PROVE Known(s)'
  <2>1. CASE s \in past
    BY <1>1, <2>1 DEF Known
  <2>2. CASE \E d \in Conns : Ready(d) /\ s = snap[d]
    <3>1. PICK d \in Conns : Ready(d) /\ s = snap[d]
      BY <2>2
    <3> QED
      BY <1>2, <3>1
  <2> QED
    BY <1>3, <2>1, <2>2 DEF Known
<1> QED
  BY <1>1, <1>3

LEMMA FilesStand ==
  ASSUME WalInv, CrashInv, PowerInv, NEW c \in Conns, Step(c), RememberStep,
         UNCHANGED <<file, disk, db, dbDisk>>, txns' \in {txns, txns + 1}, conn'[c].pc # "copy",
         hdr'.init /\ hdr'.mx <= nBackfill' => db = dbDisk
  PROVE  PowerInv'
<1>1. store' \in past' /\ \A s : Known(s) => Known(s)'
  BY KnownOn
<1>2. PICK m \in 0 .. MaxFrame :
        Lasts(m) /\ \A d \in Conns : conn[d].pc = "copy" => conn[d].safe <= m
  BY DEF PowerInv
<1>3. Lasts(m)'
  <2>1. OnStorage(m)' /\ Covered(m)'
    BY <1>2 DEF Lasts, OnStorage, Covered, Sound
  <2>2. ASSUME NEW g, NEW n, Commit(g, n) PROVE Commit(g, n)'
    BY <1>1, <2>2 DEF Commit, Taken
  <2>3. Commit(file.frame, m)'
    BY <1>2, <2>2 DEF Lasts
  <2>4. ASSUME NEW g, Mix(g)', NEW n \in Frames, m < n, Believed(g, file'.salt, n)
        PROVE  Commit(g, n)'
    BY <1>2, <2>2, <2>4 DEF Lasts, Mix
  <2> QED
    BY <2>1, <2>3, <2>4 DEF Lasts
<1>4. ASSUME NEW d \in Conns, conn'[d].pc = "copy" PROVE conn'[d].safe <= m
  <2>1. d # c
    BY <1>4
  <2> QED
    BY <1>2, <1>4, <2>1, Alone
<1>5. NoNewer'
  <2>1. CASE txns' = txns
    BY <2>1 DEF PowerInv, NoNewer, Old
  <2>2. CASE txns' = txns + 1
    BY <2>2 DEF CrashInv, Recorded, NoNewer, Old
  <2> QED
    BY <2>1, <2>2
<1> QED
  BY <1>1, <1>2, <1>3, <1>4, <1>5 DEF PowerInv

LEMMA LooksNoCopy ==
  ASSUME WalInv, NEW c \in Conns,
         \/ ReadHdr(c) \/ Recover(c) \/ Lock0(c) \/ Check0(c) \/ Pick(c) \/ Raise(c)
         \/ Share(c) \/ ReadMin(c) \/ Check(c) \/ EndRead(c)
  PROVE  conn'[c].pc # "copy"
<1>1. CASE ReadHdr(c) \/ Recover(c) \/ ReadMin(c)
  <2>1. \/ conn'[c].pc = (IF nBackfill = hdr.mx THEN "lock0" ELSE "pick")
        \/ conn'[c].pc = (IF CommittedUpTo(file) = 0 THEN "lock0" ELSE "pick")
        \/ conn'[c].pc = "check"
    BY <1>1, ReadHdrSets, RecoverSets, ReadMinSets
  <2> QED
    BY <2>1
<1>2. CASE \E v \in {"check0", "pick", "idle", "share", "min"} : GoesTo(c, v)
  BY <1>2, ToPlace
<1>3. CASE conn' = Abandoned(c)
  <2>1. conn'[c].pc \in {"pick", "idle"}
    BY <1>3, GivesUp
  <2> QED
    BY <2>1
<1>4. CASE \E slot, seen, v : Sees(c, slot, seen, v) /\ v \in {"raise", "share"}
  BY <1>4, SeesSets
<1>5. CASE Lock0(c) \/ Share(c)
  BY <1>2, <1>3, <1>5 DEF Lock0, Share, GoesTo
<1>6. CASE Check0(c)
  BY <1>2, <1>6, Check0Sets DEF Check0, GoesTo
<1>7. CASE Pick(c)
  <2> DEFINE mx == conn[c].hdr.mx
             fit == {i \in Marks : mark[i] <= mx}
             best == MaxOf({0} \cup {mark[i] : i \in fit})
             slot == MaxOf({0} \cup {i \in fit : mark[i] = best})
             v == IF best < mx \/ slot = 0 THEN "raise" ELSE "share"
  <2>1. Sees(c, slot, best, v)
    BY <1>7 DEF Pick, Sees
  <2>2. v \in {"raise", "share"}
    OBVIOUS
  <2> HIDE DEF best, slot, v
  <2> QED
    BY <1>4, <2>1, <2>2
<1>8. CASE Raise(c)
  <2> DEFINE free == {i \in Marks : CanOwn(i)}
  <2>1. CASE free # {}
    <3>1. Sees(c, MinOf(free), conn[c].hdr.mx, "share")
      BY <1>8, <2>1 DEF Raise, Sees
    <3> QED
      BY <1>4, <3>1
  <2>2. CASE free = {}
    BY <1>2, <1>3, <1>8, <2>2 DEF Raise, GoesTo
  <2> QED
    BY <2>1, <2>2
<1>9. CASE Check(c)
  <2>1. CASE SameIndex(c)
    <3>1. conn'[c].pc = IF conn[c].useWal THEN "header" ELSE "read"
      BY <1>9, <2>1, CheckSets
    <3> QED
      BY <3>1
  <2>2. CASE ~SameIndex(c)
    BY <1>3, <1>9, <2>2 DEF Check
  <2> QED
    BY <2>1, <2>2
<1>10. CASE EndRead(c)
  BY <1>10, EndReadSets DEF AtRest
<1> QED
  BY <1>1, <1>5, <1>6, <1>7, <1>8, <1>9, <1>10

LEMMA WorksNoCopy ==
  ASSUME WalInv, NEW c \in Conns,
         \/ BeginWrite(c) \/ Restart(c) \/ Rejoin(c) \/ FinishFrames(c) \/ EndWrite(c) \/ Undo(c)
         \/ BeginCheckpoint(c) \/ StartCheckpoint(c) \/ TestMark(c) \/ EndCheckpoint(c)
         \/ Backfilled(c) \/ \E S, commit : WriteFrames(c, S, commit)
  PROVE  conn'[c].pc # "copy"
<1>1. CASE BeginWrite(c) \/ Rejoin(c) \/ EndWrite(c) \/ Undo(c)
  BY <1>1, BeginWriteSets, RejoinSets, EndWriteSets, UndoSets
<1>2. CASE \E v \in {"rejoin", "endCkpt"} : GoesTo(c, v)
  BY <1>2, ToPlace
<1>3. CASE Restart(c) \/ Backfilled(c)
  BY <1>2, <1>3 DEF Restart, Backfilled, GoesTo
<1>4. CASE FinishFrames(c)
  BY <1>4, SpillSets, CommitSets
<1>5. CASE BeginCheckpoint(c) \/ EndCheckpoint(c)
  BY <1>5, BeginCheckpointSets, EndCheckpointSets DEF AtRest
<1>6. CASE StartCheckpoint(c)
  BY <1>2, <1>6, StartCheckpointSets DEF StartCheckpoint, GoesTo
<1>7. CASE TestMark(c)
  BY <1>7, TestMarkSets DEF TestMark
<1>8. ASSUME NEW S, NEW commit, WriteFrames(c, S, commit) PROVE conn'[c].pc # "copy"
  <2>1. CASE CanRestart(c)
    BY <1>8, <2>1, ResetSets
  <2>2. CASE ~CanRestart(c)
    <3>1. conn'[c].pc = IF conn[c].slot = 0 THEN "rejoin" ELSE "header"
      BY <1>8, <2>2, WriteFramesSets
    <3> QED
      BY <3>1
  <2> QED
    BY <2>1, <2>2
<1> QED
  BY <1>1, <1>3, <1>4, <1>5, <1>6, <1>7, <1>8

(* The steps that leave the header and nBackfill as well.                    *)
LEMMA LooksClean ==
  ASSUME WalInv, CrashInv, PowerInv, NEW c \in Conns, Step(c), RememberStep,
         \/ ReadHdr(c) \/ Lock0(c) \/ Check0(c) \/ Pick(c) \/ Raise(c)
         \/ Share(c) \/ ReadMin(c) \/ Check(c) \/ EndRead(c)
  PROVE  PowerInv'
<1>1. conn'[c].pc # "copy"
  BY LooksNoCopy
<1>2. UNCHANGED <<hdr, nBackfill, file, disk, db, dbDisk, txns>>
  <2>1. CASE ReadHdr(c) \/ Lock0(c) \/ Check0(c)
    BY <2>1 DEF ReadHdr, Lock0, Check0, index, files, counts
  <2>2. CASE Pick(c) \/ Raise(c) \/ Share(c)
    BY <2>2 DEF Pick, Raise, Share, index, files, counts
  <2>3. CASE ReadMin(c) \/ Check(c) \/ EndRead(c)
    BY <2>3 DEF ReadMin, Check, EndRead, index, files, counts
  <2> QED
    BY <2>1, <2>2, <2>3
<1>3. hdr'.init /\ hdr'.mx <= nBackfill' => db = dbDisk
  BY <1>2 DEF PowerInv
<1> QED
  BY <1>1, <1>2, <1>3, FilesStand

LEMMA WorksClean ==
  ASSUME WalInv, CrashInv, PowerInv, NEW c \in Conns, Step(c), RememberStep,
         \/ BeginWrite(c) \/ Rejoin(c) \/ EndWrite(c) \/ Undo(c)
         \/ BeginCheckpoint(c) \/ StartCheckpoint(c) \/ TestMark(c) \/ EndCheckpoint(c)
         \/ \E S, commit : WriteFrames(c, S, commit) /\ ~CanRestart(c)
  PROVE  PowerInv'
<1>1. conn'[c].pc # "copy"
  BY WorksNoCopy
<1>2. UNCHANGED <<hdr, nBackfill, file, disk, db, dbDisk>> /\ txns' \in {txns, txns + 1}
  <2>1. CASE BeginWrite(c) \/ Rejoin(c) \/ EndWrite(c) \/ Undo(c)
    BY <2>1 DEF BeginWrite, Rejoin, EndWrite, Undo, index, files, counts
  <2>2. CASE BeginCheckpoint(c) \/ StartCheckpoint(c) \/ TestMark(c) \/ EndCheckpoint(c)
    BY <2>2 DEF BeginCheckpoint, StartCheckpoint, TestMark, EndCheckpoint, index, files, counts
  <2>3. CASE \E S, commit : WriteFrames(c, S, commit) /\ ~CanRestart(c)
    BY <2>3 DEF WriteFrames, files
  <2> QED
    BY <2>1, <2>2, <2>3
<1>3. hdr'.init /\ hdr'.mx <= nBackfill' => db = dbDisk
  BY <1>2 DEF PowerInv
<1> QED
  BY <1>1, <1>2, <1>3, FilesStand

(* A reset: it was all backfilled, and synced.                               *)
LEMMA ResetClean ==
  ASSUME WalInv, CrashInv, PowerInv, NEW c \in Conns, Step(c), RememberStep,
         \/ Restart(c) \/ \E S, commit : WriteFrames(c, S, commit) /\ CanRestart(c)
  PROVE  PowerInv'
<1>1. conn'[c].pc # "copy"
  BY WorksNoCopy
<1>2. UNCHANGED <<file, disk, db, dbDisk, txns>>
  BY DEF Restart, WriteFrames, files, counts
<1>3. /\ SeenHeader(c) /\ HeaderGrows(c) /\ AllBackfilled(c) /\ hdr.mx \in Nat /\ nBackfill \in Nat
  BY DEF WalInv, WalShape, Drawn, Header
<1>4. hdr.init /\ hdr.mx <= nBackfill
  <2>1. CASE Restart(c)
    BY <1>3, <2>1 DEF Restart, SeenHeader, HeaderGrows
  <2>2. CASE \E S, commit : WriteFrames(c, S, commit) /\ CanRestart(c)
    <3>1. conn[c].pc = "write" /\ conn[c].slot = 0
      BY <2>2 DEF WriteFrames, CanRestart
    <3> QED
      BY <1>3, <3>1 DEF SeenHeader, AllBackfilled, ReadsDatabase
  <2> QED
    BY <2>1, <2>2
<1> QED
  BY <1>1, <1>2, <1>4, FilesStand DEF PowerInv

LEMMA NotBeyond ==
  ASSUME WalInv, NEW c \in Conns, Writing(c), conn[c].pc # "restart" PROVE nBackfill <= hdr.mx
<1>1. \A d \in Conns : conn[d].pc # "restart"
  BY OneAtATime DEF Writing
<1> QED
  BY <1>1, Digest DEF BackfillBound

LEMMA FinishClean ==
  ASSUME WalInv, StoreInv, CrashInv, PowerInv, NEW c \in Conns, Step(c), RememberStep, FinishFrames(c)
  PROVE  PowerInv'
<1>1. conn'[c].pc # "copy"
  BY WorksNoCopy
<1>2. UNCHANGED <<nBackfill, file, disk, db, dbDisk, txns>>
  BY DEF FinishFrames, files, counts
<1>3. hdr'.init /\ hdr'.mx <= nBackfill' => db = dbDisk
  <2>1. CASE ~conn[c].commit
    BY <1>2, <2>1 DEF FinishFrames, PowerInv
  <2>2. CASE conn[c].commit
    <3>1. Committing(c)
      BY <2>2 DEF FinishFrames, Committing
    <3>2. /\ hdr.init /\ hdr.mx \in Nat /\ conn[c].n \in Nat /\ hdr.mx < conn[c].n
      BY <3>1, AtCommit
    <3>3. hdr'.mx = conn[c].n
      BY <2>2 DEF FinishFrames, WalInv, WalShape, Drawn, Header
    <3>4. nBackfill \in Nat /\ nBackfill <= hdr.mx
      BY <2>2, Digest, NotBeyond DEF FinishFrames, Writing
    <3> QED
      BY <1>2, <3>2, <3>3, <3>4
  <2> QED
    BY <2>1, <2>2
<1> QED
  BY <1>1, <1>2, <1>3, FilesStand

(* A recovery that finds no commit: then none is on storage, and no page is   *)
(* in the database that is not there.                                        *)
LEMMA RecoverClean ==
  ASSUME WalInv, StoreInv, CrashInv, PowerInv, NEW c \in Conns, Step(c), RememberStep, Recover(c)
  PROVE  PowerInv'
<1>1. conn'[c].pc # "copy"
  BY LooksNoCopy
<1>2. UNCHANGED <<file, disk, db, dbDisk, txns>> /\ nBackfill' = 0
  BY DEF Recover, files, counts
<1>3. PICK m \in 0 .. MaxFrame : Lasts(m)
  BY DEF PowerInv
<1>4. hdr'.mx = CommittedUpTo(file)
  BY DEF Recover
<1>5. hdr'.mx \in Nat /\ m <= hdr'.mx
  <2>1. MaxFrame \in Nat
    BY WalAssumption
  <2>2. \A i : Valid(file, i) <=> Sound(file.frame, file.salt, i)
    BY DEF Valid, Sound
  <2>3. CommittedUpTo(file) \in Nat
    BY <2>1, Recovers
  <2>4. m > 0 => m \in Frames /\ file.frame[m].commit /\ \A i \in 1 .. m : Valid(file, i)
    BY <1>3, <2>1, <2>2 DEF Lasts, OnStorage, Frames
  <2> QED
    BY <1>4, <2>1, <2>3, <2>4, Recovers
<1>6. m = 0 => db = dbDisk
  <2>1. db = [p \in Pages |-> db[p]] /\ dbDisk = [p \in Pages |-> dbDisk[p]]
    BY DEF StoreInv, Contents
  <2>2. m = 0 => \A p \in Pages : db[p] = dbDisk[p]
    BY <1>3 DEF Lasts, Covered
  <2> QED
    BY <2>1, <2>2
<1>7. hdr'.init /\ hdr'.mx <= nBackfill' => db = dbDisk
  BY <1>2, <1>5, <1>6
<1> QED
  BY <1>1, <1>2, <1>7, FilesStand

-----------------------------------------------------------------------------
(* The steps that write frames. A commit that is not over older values only   *)
(* is that of the writer, all of whose frames are written; and it is what it   *)
(* read and wrote.                                                           *)

OwnCommit ==
  \A c \in Conns, n \in Frames :
    conn[c].pc = "frames" /\ file.frame[n].commit /\ ~Old(file.frame, n, txns)
      => Ready(c) /\ n = conn[c].n
ReadyIsSnap ==
  \A c \in Conns :
    Ready(c) => /\ conn[c].n \in Frames
                /\ file.frame[conn[c].n].sum = Sum(file.frame, conn[c].n)
                /\ Taken(file.frame, conn[c].n, db) = snap[c]

LEMMA OwnCommits == WalInv /\ StoreInv /\ CrashInv => OwnCommit
<1> SUFFICES ASSUME WalInv, StoreInv, CrashInv, NEW c \in Conns, NEW n \in Frames,
                    conn[c].pc = "frames", file.frame[n].commit, ~Old(file.frame, n, txns)
             PROVE  Ready(c) /\ n = conn[c].n
  BY DEF OwnCommit
<1>1. /\ Writing(c) /\ Logs(c) /\ LogsOn(c) /\ End(c) = conn[c].n
      /\ hdr.mx \in Nat /\ conn[c].n \in Nat /\ n \in Nat
  BY Digest, WalAssumption DEF Writing, Logs, End, CrashInv, Frames
<1>2. hdr.mx < n /\ n <= conn[c].n
  BY <1>1 DEF LogsOn
<1>3. Mine(c, n)
  BY <1>1, <1>2 DEF LogsOn
<1>4. conn[c].reck \in Nat /\ file.frame[n].sum # <<>>
  BY <1>1 DEF LogsOn, Old
<1> QED
  BY <1>1, <1>3, <1>4 DEF Mine, Ready

LEMMA ReadyIsWhole == WalInv /\ StoreInv /\ CrashInv => ReadyIsSnap
<1> SUFFICES ASSUME WalInv, StoreInv, CrashInv, NEW c \in Conns, Ready(c)
             PROVE  /\ conn[c].n \in Frames
                    /\ file.frame[conn[c].n].sum = Sum(file.frame, conn[c].n)
                    /\ Taken(file.frame, conn[c].n, db) = snap[c]
  BY DEF ReadyIsSnap
<1>1. Committing(c) /\ conn[c].reck = 0
  BY DEF Ready
<1>2. PICK n : n = conn[c].n
  OBVIOUS
<1>3. n \in Frames /\ n \in 1 .. n
  BY <1>1, <1>2, AtCommit DEF Frames
<1>4. Sound(file.frame, file.salt, n)
  BY <1>1, <1>2, <1>3, AllSound
<1>5. Recovered(file, db) = Taken(file.frame, n, db)
  BY <1>1, <1>2, CommitIsInFile DEF Recovered, Replay, Taken
<1> QED
  BY <1>1, <1>2, <1>3, <1>4, <1>5, CommitIsPending DEF Sound

(* Until all of its frames are written, no recovery believes any of them.    *)
LEMMA NoneYet ==
  ASSUME WalInv, StoreInv, CrashInv, NEW c \in Conns, conn[c].pc = "frames", ~Ready(c)
  PROVE  NoneBeyond(file.frame, file.salt, hdr.mx)
<1>1. CASE Committing(c)
  BY <1>1, NotYet, AtCommit DEF Ready
<1>2. CASE ~Committing(c)
  <2>1. Writing(c) /\ Logs(c) /\ hdr.init
    BY Digest DEF Writing, Logs, SeenHeader
  <2>2. \A d \in Conns : ~Committing(d)
    BY <1>2, <2>1, OthersIdle
  <2> QED
    BY <2>1, <2>2 DEF CrashInv, NoneBelieved, StillOld
<1> QED
  BY <1>1, <1>2

(* It writes the frames W, none of them committed, with its own values.      *)
LEMMA FramesWritten ==
  ASSUME WalInv, StoreInv, CrashInv, WalInv', StoreInv', CrashInv', PowerInv,
         NEW c \in Conns, Step(c), RememberStep,
         conn[c].pc = "frames", conn'[c].pc = "frames", ~Ready(c),
         UNCHANGED <<hdr, nBackfill, disk, db, dbDisk, txns>>, file'.salt = file.salt, NEW W,
         \A i \in Frames : i \notin W => file'.frame[i] = file.frame[i],
         \A i \in Frames : i \in W => hdr.mx < i /\ file'.frame[i].val \notin Before(txns)
  PROVE  PowerInv'
<1>1. store' \in past' /\ \A s : Known(s) => Known(s)'
  BY KnownOn
<1>2. PICK m \in 0 .. MaxFrame :
        Lasts(m) /\ \A d \in Conns : conn[d].pc = "copy" => conn[d].safe <= m
  BY DEF PowerInv
<1>3. /\ MaxFrame \in Nat /\ m \in Nat /\ hdr.mx \in Nat
      /\ \A i : i \in Frames <=> i \in 1 .. MaxFrame
  BY Digest, WalAssumption DEF Frames
<1>4. m <= hdr.mx
  <2>1. CASE m = 0
    BY <1>3, <2>1
  <2>2. CASE m > 0
    <3>1. m \in Frames /\ Mix(file.frame)
      BY <1>3, <2>2 DEF Mix
    <3>2. Believed(file.frame, file.salt, m)
      BY <1>2, <2>2, <3>1, MixHas DEF Lasts
    <3> QED
      BY <1>3, <3>1, <3>2, NoneYet DEF NoneBeyond
  <2> QED
    BY <1>3, <2>1, <2>2
<1>5. PICK f, h : f = file.frame /\ h = file'.frame
  OBVIOUS
<1>6. \A i \in 1 .. m : h[i] = f[i] /\ i \in Frames
  BY <1>3, <1>4, <1>5
<1>7. ASSUME NEW g, NEW n, Commit(g, n) PROVE Commit(g, n)'
  BY <1>1, <1>7 DEF Commit, Taken
<1>8. OnStorage(m)' /\ Covered(m)' /\ Commit(file.frame, m)'
  <2>1. OnStorage(m) /\ Covered(m) /\ Commit(f, m)
    BY <1>2, <1>5 DEF Lasts
  <2>2. ASSUME NEW i \in 1 .. m PROVE disk.frame[i] = h[i] /\ Sound(h, file.salt, i)
    <3>1. i \in Nat /\ \A k \in 1 .. i : h[k] = f[k]
      BY <1>3, <1>6
    <3>2. \A k \in 1 .. i : Payload(h, k) = Payload(f, k)
      BY <3>1 DEF Payload
    <3>3. Sum(h, i) = Sum(f, i)
      BY <3>1, <3>2, SumSame
    <3>4. disk.frame[i] = f[i] /\ Sound(f, file.salt, i)
      BY <1>5, <2>1 DEF OnStorage
    <3> QED
      BY <1>6, <3>3, <3>4 DEF Sound
  <2>3. m > 0 => h[m].commit
    BY <1>3, <1>5, <1>6, <2>1 DEF OnStorage
  <2>4. OnStorage(m)'
    BY <1>5, <2>2, <2>3 DEF OnStorage
  <2>5. Covered(m)'
    BY <1>5, <1>6, <2>1 DEF Covered
  <2>6. Taken(h, m, db) = Taken(f, m, db)
    BY <1>3, <1>6, TakenSame
  <2>7. Commit(f, m)'
    BY <1>7, <2>1
  <2>8. Commit(h, m)'
    BY <2>6, <2>7 DEF Commit, Taken
  <2> QED
    BY <1>5, <2>4, <2>5, <2>8
<1>9. OwnCommit /\ OwnCommit' /\ ReadyIsSnap'
  <2>1. (WalInv /\ StoreInv /\ CrashInv)' => OwnCommit' /\ ReadyIsSnap'
    BY OwnCommits, ReadyIsWhole, PTL
  <2> QED
    BY <2>1, OwnCommits
<1>10. ASSUME NEW i \in Frames, disk.frame[i].commit, disk.frame[i] = f[i]
       PROVE  Old(disk.frame, i, txns)
  <2>1. Old(f, i, txns)
    BY <1>5, <1>9, <1>10 DEF OwnCommit
  <2> QED
    BY <1>10, <2>1 DEF Old
<1>11. ASSUME NEW i \in Frames, disk.frame[i].commit PROVE Old(disk.frame, i, txns)
  BY <1>5, <1>10, <1>11 DEF PowerInv, NoNewer
<1>12. NoNewer'
  BY <1>11 DEF NoNewer, Old, Before
<1>13. ASSUME NEW g, Mix(g)', NEW n \in Frames, m < n, Believed(g, file.salt, n)
       PROVE  Commit(g, n)'
  <2>1. n \in Nat \ {0} /\ n \in 1 .. n /\ \A j \in 1 .. n : j \in Frames
    BY <1>3
  <2>2. \A i \in Frames : g[i] = h[i] \/ g[i] = disk.frame[i]
    BY <1>5, <1>13 DEF Mix
  <2>3. CASE \A j \in 1 .. n : g[j] = f[j] \/ g[j] = disk.frame[j]
    <3>1. PICK q : q = [i \in Frames |-> IF i <= n THEN g[i] ELSE f[i]]
      OBVIOUS
    <3>2. \A j \in 1 .. n : q[j] = g[j]
      BY <2>1, <3>1
    <3>3. Mix(q)
      BY <1>3, <1>5, <2>1, <2>3, <3>1 DEF Mix
    <3>4. Believed(q, file.salt, n)
      BY <1>13, <3>2, BelievedSame
    <3>5. Commit(q, n)'
      BY <1>2, <1>7, <1>13, <3>3, <3>4 DEF Lasts
    <3>6. Taken(q, n, db) = Taken(g, n, db)
      BY <2>1, <3>2, TakenSame
    <3> QED
      BY <3>5, <3>6 DEF Commit, Taken
  <2>4. ASSUME NEW j \in 1 .. n, g[j] # f[j], g[j] # disk.frame[j] PROVE Commit(g, n)'
    <3>1. g[j] = h[j] /\ h[j].val \notin Before(txns)
      BY <1>5, <2>1, <2>2, <2>4
    <3>2. g[n].commit /\ g[n].sum = Sum(g, n)
      BY <1>13, <2>1 DEF Believed, Sound
    <3>3. ~Old(g, n, txns)
      BY <2>1, <3>1, <3>2, OldUnsound
    <3>4. g[n] = h[n]
      <4>1. CASE g[n] = disk.frame[n]
        <5>1. Old(disk.frame, n, txns)
          BY <1>11, <3>2, <4>1
        <5> QED
          BY <3>3, <4>1, <5>1 DEF Old
      <4> QED
        BY <2>2, <4>1
    <3>5. ~Old(h, n, txns)
      BY <3>3, <3>4 DEF Old
    <3>6. Ready(c)' /\ n = conn'[c].n
      <4>1. h[n].commit /\ ~Old(file'.frame, n, txns')
        BY <1>5, <3>2, <3>4, <3>5 DEF Old, Before
      <4> QED
        BY <1>5, <1>9, <4>1 DEF OwnCommit
    <3>7. h[n].sum = Sum(h, n) /\ Taken(h, n, db) = snap'[c]
      <4>1. file'.frame[n].sum = Sum(file'.frame, n) /\ Taken(file'.frame, n, db') = snap'[c]
        BY <1>9, <3>6 DEF ReadyIsSnap, Taken, Sum, Payload
      <4> QED
        BY <1>5, <4>1
    <3>8. Sum(g, n) = Sum(h, n)
      BY <3>2, <3>4, <3>7
    <3>9. \A k \in 1 .. n : g[k].pg = h[k].pg /\ g[k].val = h[k].val
      BY <2>1, <3>8, SumOf
    <3>10. Taken(g, n, db) = snap'[c]
      BY <2>1, <3>7, <3>9, TakenSame
    <3>11. Taken(g, n, db)' = snap'[c]
      BY <3>10 DEF Taken
    <3> QED
      BY <3>6, <3>11 DEF Commit, Known
  <2> QED
    BY <2>3, <2>4
<1>14. Lasts(m)'
  BY <1>8, <1>13 DEF Lasts
<1>15. ASSUME NEW d \in Conns, conn'[d].pc = "copy" PROVE conn'[d].safe <= m
  <2>1. d # c
    BY <1>15
  <2> QED
    BY <1>2, <1>15, <2>1, Alone
<1> QED
  BY <1>1, <1>2, <1>12, <1>14, <1>15 DEF PowerInv

LEMMA WriteFrameClean ==
  ASSUME WalInv, StoreInv, CrashInv, WalInv', StoreInv', CrashInv', PowerInv,
         NEW c \in Conns, Step(c), RememberStep, WriteFrame(c)
  PROVE  PowerInv'
<1>1. /\ conn[c].pc = "frames" /\ conn[c].list # {} /\ ~Ready(c)
      /\ UNCHANGED <<hdr, nBackfill, idx, disk, db, dbDisk, txns>>
  BY DEF WriteFrame, Ready, Committing, index, counts
<1>2. PICK p : p = MinOf(conn[c].list)
  OBVIOUS
<1>3. /\ Typed(c) /\ WritesOn(c) /\ HeaderGrows(c) /\ hdr.mx \in Nat /\ conn[c].hdr.mx \in Nat
      /\ conn[c].n \in Nat /\ file.frame = [i \in Frames |-> file.frame[i]]
      /\ file = [x \in FileFields |-> file[x]]
  BY Stands, Digest DEF Contents, Framed, WalInv, WalShape, DrawnFile
<1>4. /\ Writing(c) /\ conn[c].min \in Nat \ {0} /\ MaxFrame \in Nat
      /\ hdr.mx <= conn[c].hdr.mx /\ conn[c].hdr.mx <= conn[c].n /\ conn[c].n <= MaxFrame
  BY <1>1, <1>3, WalAssumption DEF Typed, HeaderGrows, Writing
<1>5. Value(c) \notin Before(txns)
  BY <1>4, ItsValue
<1>6. CASE \E old : PutsOver(c, p, old)
  <2>1. PICK old : PutsOver(c, p, old)
    BY <1>6
  <2>2. conn'[c].pc = "frames"
    BY <1>1, <2>1, OverwriteSets DEF PutsOver
  <2>3. old \in conn[c].min .. conn[c].hdr.mx /\ hdr.mx < old
    BY <1>3, <1>4, <2>1, Finding DEF PutsOver
  <2>4. old \in Frames
    BY <1>3, <1>4, <2>3 DEF Frames
  <2>5. PICK g : g = [file.frame EXCEPT ![old].val = Value(c)]
    OBVIOUS
  <2>6. file'.frame = g /\ file'.salt = file.salt
    <3>1. file' = [file EXCEPT !.frame = g]
      BY <1>3, <2>1, <2>5 DEF PutsOver
    <3> QED
      BY <1>3, <3>1, Zenon DEF FileFields
  <2>7. \A i \in Frames : i # old => g[i] = file.frame[i]
    BY <1>3, <2>5
  <2>8. g[old].val = Value(c)
    <3>1. file.frame[old] = [x \in FrameFields |-> file.frame[old][x]]
      BY <2>4, Stands DEF Contents, Framed
    <3>2. g[old] = [file.frame[old] EXCEPT !.val = Value(c)]
      BY <1>3, <2>4, <2>5
    <3> QED
      BY <3>1, <3>2, Zenon DEF FrameFields
  <2>9. PICK W : W = {old}
    OBVIOUS
  <2>10. /\ \A i \in Frames : i \notin W => file'.frame[i] = file.frame[i]
         /\ \A i \in Frames : i \in W => hdr.mx < i /\ file'.frame[i].val \notin Before(txns)
    BY <1>5, <2>3, <2>6, <2>7, <2>8, <2>9
  <2> QED
    BY <1>1, <2>2, <2>6, <2>10, FramesWritten
<1>7. CASE \E n, r : PutsAfter(c, p, n, r)
  <2>1. PICK n, r : PutsAfter(c, p, n, r)
    BY <1>7
  <2>2. conn'[c].pc = "frames"
    BY <1>1, <2>1, AppendSets DEF PutsAfter
  <2>3. hdr.mx < n /\ r.val = Value(c)
    BY <1>3, <1>4, <2>1 DEF PutsAfter
  <2>4. PICK g : g = [file.frame EXCEPT ![n] = r]
    OBVIOUS
  <2>5. file'.frame = g /\ file'.salt = file.salt
    <3>1. file' = [file EXCEPT !.frame = g]
      BY <1>3, <2>1, <2>4 DEF PutsAfter
    <3> QED
      BY <1>3, <3>1, Zenon DEF FileFields
  <2>6. \A i \in Frames : g[i] = IF i = n THEN r ELSE file.frame[i]
    BY <1>3, <2>4
  <2>7. PICK W : W = {n}
    OBVIOUS
  <2>8. /\ \A i \in Frames : i \notin W => file'.frame[i] = file.frame[i]
        /\ \A i \in Frames : i \in W => hdr.mx < i /\ file'.frame[i].val \notin Before(txns)
    BY <1>5, <2>3, <2>5, <2>6, <2>7
  <2> QED
    BY <1>1, <2>2, <2>5, <2>8, FramesWritten
<1> QED
  BY <1>2, <1>6, <1>7, FramePutAs

LEMMA RewriteChecksumsClean ==
  ASSUME WalInv, StoreInv, CrashInv, WalInv', StoreInv', CrashInv', PowerInv,
         NEW c \in Conns, Step(c), RememberStep, RewriteChecksums(c)
  PROVE  PowerInv'
<1>1. /\ conn[c].pc = "frames" /\ conn'[c].pc = "frames" /\ Committing(c) /\ conn[c].reck > 0
      /\ UNCHANGED <<hdr, nBackfill, disk, db, dbDisk, txns>>
  <2>1. conn'[c].pc = conn[c].pc
    BY RewriteSets
  <2> QED
    BY <2>1 DEF RewriteChecksums, Committing, index, counts
<1>2. PICK g : g = [i \in Frames |-> IF i \in WrongSums(c)
                                     THEN [file.frame[i] EXCEPT !.salt = conn[c].hdr.salt,
                                                                !.sum = Sum(file.frame, i)]
                                     ELSE file.frame[i]]
  OBVIOUS
<1>3. file'.frame = g /\ file'.salt = file.salt
  <2>1. file = [x \in FileFields |-> file[x]] /\ file' = [file EXCEPT !.frame = g]
    BY <1>2 DEF RewriteChecksums, WalInv, WalShape, DrawnFile
  <2> QED
    BY <2>1, Zenon DEF FileFields
<1>4. /\ LogsOn(c) /\ Logs(c) /\ End(c) = conn[c].n /\ hdr.mx \in Nat /\ conn[c].n \in Nat
      /\ conn[c].reck \in Nat
  BY <1>1, AtCommit
<1>5. ASSUME NEW i \in Frames, i \in WrongSums(c)
      PROVE  hdr.mx < i /\ g[i].val \notin Before(txns)
  <2>1. hdr.mx < i /\ i <= conn[c].n /\ i \in Nat
    BY <1>1, <1>4, <1>5 DEF WrongSums, LogsOn
  <2>2. Mine(c, i)
    BY <1>4, <2>1 DEF LogsOn
  <2>3. g[i].val = file.frame[i].val
    <3>1. file.frame[i] = [x \in FrameFields |-> file.frame[i][x]]
      BY Stands DEF Contents, Framed
    <3>2. g[i] = [file.frame[i] EXCEPT !.salt = conn[c].hdr.salt, !.sum = Sum(file.frame, i)]
      BY <1>2, <1>5
    <3> QED
      BY <3>1, <3>2, Zenon DEF FrameFields
  <2> QED
    BY <2>1, <2>2, <2>3 DEF Mine
<1>6. \A i \in Frames : i \notin WrongSums(c) => g[i] = file.frame[i]
  BY <1>2
<1>7. ~Ready(c)
  BY <1>1 DEF Ready
<1>8. PICK W : W = WrongSums(c)
  OBVIOUS
<1> QED
  BY <1>1, <1>3, <1>5, <1>6, <1>7, <1>8, FramesWritten

(* The committed frames are a commit.                                        *)
LEMMA ToTheHeader ==
  ASSUME WalInv, StoreInv, CrashInv, hdr.init
  PROVE  /\ hdr.mx \in 0 .. MaxFrame /\ Taken(file.frame, hdr.mx, db) = store
         /\ \A i \in 1 .. hdr.mx : Sound(file.frame, file.salt, i)
         /\ hdr.mx > 0 => file.frame[hdr.mx].commit
<1>1. hdr.mx \in 0 .. MaxFrame /\ MaxFrame \in Nat
  BY WalAssumption DEF WalInv, WalShape, Drawn, Header, StoreInv, Contents
<1>2. InFile
  BY DEF CrashInv
<1>3. PICK m : m = hdr.mx
  OBVIOUS
<1>4. Replay(file, m, db) = store
  <2>1. store = [p \in Pages |-> store[p]] /\ Gives(idx, 1, m, file.frame, db, store)
    BY <1>3 DEF StoreInv, Contents, Newest, GivesAll
  <2>2. \A i \in 1 .. m : idx[i] = file.frame[i].pg
    BY <1>2, <1>3 DEF InFile
  <2> QED
    BY <1>1, <1>3, <2>1, <2>2, GivesReplay
<1>5. Taken(file.frame, m, db) = store
  BY <1>4 DEF Replay, Taken
<1>6. \A i \in 1 .. m : Sound(file.frame, file.salt, i)
  BY <1>1, <1>2, <1>3 DEF InFile
<1> QED
  BY <1>1, <1>2, <1>3, <1>5, <1>6 DEF InFile

(* The log's header, over an empty log: what is in the database is synced, and *)
(* no frame that the log still has is believed.                              *)
LEMMA WriteHeaderClean ==
  ASSUME WalInv, StoreInv, CrashInv, PowerInv, NEW c \in Conns, Step(c), RememberStep, WriteHeader(c)
  PROVE  PowerInv'
<1>1. conn[c].pc = "header" /\ UNCHANGED <<hdr, nBackfill, idx, db, dbDisk, txns>>
  BY DEF WriteHeader, index
<1>2. /\ WritesOn(c) /\ LogsOn(c) /\ HeaderGrows(c) /\ hdr.init /\ Newest /\ CrashInv
      /\ hdr.mx \in Nat /\ conn[c].hdr.mx \in Nat /\ conn[c].hdr \in Header
      /\ salts \in Nat /\ nBackfill \in Nat /\ store = [p \in Pages |-> store[p]]
  BY <1>1, Stands, Digest DEF CrashInv, SeenHeader, WalInv, WalShape, Drawn, StoreInv, Contents
<1>3. Writing(c) /\ ~Committing(c) /\ hdr.mx <= conn[c].hdr.mx
  BY <1>1, <1>2 DEF Writing, Committing, HeaderGrows
<1>4. conn'[c].pc # "copy"
  <2>1. PICK h : ToFrames(c, h)
    BY HeaderWritten
  <2> QED
    BY <2>1, HeaderSets
<1>5. CASE conn[c].hdr.mx # 0
  <2>1. UNCHANGED <<file, disk>>
    BY <1>5, HeaderDetail
  <2> QED
    BY <1>1, <1>4, <2>1, FilesStand DEF PowerInv
<1>6. CASE conn[c].hdr.mx = 0
  <2>1. PICK s : /\ file'.salt = s /\ file'.frame = file.frame /\ disk' = file'
                 /\ s = salts + 1 \/ s = conn[c].hdr.salt
    BY <1>6, HeaderDetail
  <2>2. hdr.mx = 0 /\ conn[c].hdr = hdr /\ db = dbDisk
    BY <1>1, <1>2, <1>3, <1>6 DEF LogsOn, PowerInv
  <2>3. \A i \in Frames : ~Believed(file.frame, s, i)
    <3>1. NoneBeyond(file.frame, hdr.salt, 0)
      BY <1>2, <1>3, <2>2, OthersIdle DEF CrashInv, NoneBelieved
    <3>2. CASE s = conn[c].hdr.salt
      BY <2>2, <3>1, <3>2, WalAssumption DEF NoneBeyond, Frames
    <3>3. CASE s = salts + 1
      <4>1. ASSUME NEW i \in Frames PROVE ~Believed(file.frame, s, i)
        <5>1. file.frame[i].salt \in Nat /\ file.frame[i].salt <= salts
          BY DEF CrashInv, Recorded
        <5>2. file.frame[i].salt # s /\ i \in 1 .. i
          BY <1>2, <3>3, <5>1, WalAssumption DEF Frames
        <5> QED
          BY <5>2 DEF Believed, Sound
      <4> QED
        BY <4>1
    <3> QED
      BY <2>1, <3>2, <3>3
  <2>4. ASSUME NEW g, Mix(g)', NEW n \in Frames, Believed(g, s, n) PROVE FALSE
    <3>1. n \in 1 .. n /\ \A j \in 1 .. n : g[j] = file.frame[j]
      BY <2>1, <2>4, WalAssumption DEF Mix, Frames
    <3>2. Believed(file.frame, s, n)
      BY <2>4, <3>1, BelievedSame
    <3> QED
      BY <2>3, <3>2
  <2>5. store' \in past' /\ \A t : Known(t) => Known(t)'
    BY KnownOn
  <2>6. Commit(file.frame, 0)'
    <3>1. PICK s0 : s0 = store
      OBVIOUS
    <3>2. Taken(file.frame, 0, db) = s0
      BY <1>2, <2>2, <3>1, ToTheHeader
    <3>3. Known(s0)
      BY <3>1 DEF PowerInv, Known
    <3>4. Known(s0)'
      BY <2>5, <3>3
    <3>5. Taken(file'.frame, 0, db') = s0
      BY <1>1, <2>1, <3>2
    <3> QED
      BY <3>4, <3>5 DEF Commit, Known, Taken
  <2>7. Lasts(0)'
    BY <1>1, <2>1, <2>2, <2>4, <2>6 DEF Lasts, OnStorage, Covered
  <2>8. ASSUME NEW d \in Conns, conn'[d].pc = "copy" PROVE FALSE
    <3>1. conn[d].pc = "copy"
      BY <1>4, <2>8, Alone
    <3> QED
      BY <2>2, <3>1, Digest DEF StillToCopy
  <2>9. NoNewer'
    BY <2>1 DEF NoNewer
  <2>10. 0 \in 0 .. MaxFrame
    BY WalAssumption
  <2> QED
    BY <1>1, <2>1, <2>2, <2>5, <2>7, <2>8, <2>9, <2>10 DEF PowerInv
<1> QED
  BY <1>5, <1>6

-----------------------------------------------------------------------------
(* The steps of a checkpoint.                                                *)

LEMMA StartBackfillClean ==
  ASSUME WalInv, StoreInv, CrashInv, PowerInv, NEW c \in Conns, Step(c), RememberStep,
         StartBackfill(c)
  PROVE  PowerInv'
<1>1. conn[c].pc = "marks" /\ UNCHANGED <<hdr, nBackfill, file, db, dbDisk, txns>>
  BY DEF StartBackfill, index, counts
<1>2. CASE ~(nBackfill < conn[c].safe /\ CanOwn(0))
  <2>1. GoesTo(c, "endCkpt") /\ disk' = disk
    BY <1>2 DEF StartBackfill, GoesTo
  <2> QED
    BY <1>1, <2>1, ToPlace, FilesStand DEF PowerInv
<1>3. CASE nBackfill < conn[c].safe /\ CanOwn(0)
  <2>1. disk' = file /\ conn'[c].pc = "copy" /\ conn'[c].safe = conn[c].safe
    BY <1>3, StartBackfillSets DEF StartBackfill, Synced
  <2>2. /\ hdr.init /\ hdr.mx \in Nat /\ conn[c].hdr.mx \in Nat /\ conn[c].safe \in Nat
        /\ conn[c].safe <= hdr.mx /\ MaxFrame \in Nat
    BY <1>1, Digest, WalAssumption DEF SeenHeader, StillToCopy
  <2>3. store' \in past' /\ \A s : Known(s) => Known(s)'
    BY KnownOn
  <2>4. PICK m \in 0 .. MaxFrame :
          Lasts(m) /\ \A d \in Conns : conn[d].pc = "copy" => conn[d].safe <= m
    BY DEF PowerInv
  <2>5. ASSUME NEW g, NEW n, Commit(g, n) PROVE Commit(g, n)'
    BY <1>1, <2>3, <2>5 DEF Commit, Taken
  <2>6. PICK k : k = IF hdr.mx <= m THEN m ELSE hdr.mx
    OBVIOUS
  <2>7. k \in 0 .. MaxFrame /\ k \in Nat /\ m <= k /\ hdr.mx <= k /\ m \in Nat
    BY <2>2, <2>6, ToTheHeader
  <2>8. /\ \A i \in 1 .. k : Sound(file.frame, file.salt, i)
        /\ k > 0 => file.frame[k].commit
        /\ Commit(file.frame, k)
    <3>1. CASE k = m
      BY <2>4, <3>1 DEF Lasts, OnStorage
    <3>2. CASE k = hdr.mx
      <4>1. Commit(file.frame, hdr.mx)
        BY <2>2, ToTheHeader DEF Commit, Known, PowerInv
      <4> QED
        BY <2>2, <3>2, <4>1, ToTheHeader
    <3> QED
      BY <2>6, <3>1, <3>2
  <2>9. OnStorage(k)' /\ Covered(k)'
    <3>1. OnStorage(k)'
      BY <1>1, <2>1, <2>8 DEF OnStorage, Sound
    <3>2. Covered(k)
      BY <2>4, <2>7 DEF Lasts, Covered
    <3> QED
      BY <1>1, <3>1, <3>2 DEF Covered
  <2>10. Commit(file.frame, k)'
    BY <1>1, <2>5, <2>8
  <2>11. ASSUME NEW g, Mix(g)', NEW n \in Frames, k < n, Believed(g, file.salt, n)
         PROVE  Commit(g, n)'
    <3>1. Mix(g)
      BY <1>1, <2>1, <2>11 DEF Mix
    <3>2. m < n
      BY <2>7, <2>11, WalAssumption DEF Frames
    <3>3. Commit(g, n)
      BY <2>4, <2>11, <3>1, <3>2 DEF Lasts
    <3> QED
      BY <2>5, <3>3
  <2>12. Lasts(k)'
    BY <1>1, <2>9, <2>10, <2>11 DEF Lasts
  <2>13. ASSUME NEW d \in Conns, conn'[d].pc = "copy" PROVE conn'[d].safe <= k
    <3>1. CASE d = c
      BY <2>1, <2>2, <2>7, <3>1
    <3>2. CASE d # c
      <4>1. conn'[d] = conn[d]
        BY <3>2, Alone
      <4>2. Checkpointing(d) /\ Checkpointing(c)
        BY <1>1, <2>13, <4>1 DEF Checkpointing
      <4> QED
        BY <3>2, <4>2, OneAtATime
    <3> QED
      BY <3>1, <3>2
  <2>14. NoNewer'
    BY <1>1, <2>1 DEF NoNewer
  <2>15. disk'.salt = file'.salt /\ (hdr'.init /\ hdr'.mx <= nBackfill' => db' = dbDisk')
    BY <1>1, <2>1 DEF PowerInv
  <2> QED
    BY <2>3, <2>7, <2>12, <2>13, <2>14, <2>15 DEF PowerInv
<1> QED
  BY <1>2, <1>3

(* The page comes from a frame that is on storage.                           *)
LEMMA CopyPageClean ==
  ASSUME WalInv, StoreInv, CrashInv, PowerInv, NEW c \in Conns, Step(c), RememberStep, CopyPage(c)
  PROVE  PowerInv'
<1> DEFINE p == MinOf({y[1] : y \in conn[c].copy})
           x == CHOOSE y \in conn[c].copy : y[1] = p
<1>1. /\ conn[c].pc = "copy" /\ conn[c].copy # {}
      /\ UNCHANGED <<hdr, nBackfill, idx, file, disk, dbDisk, txns>>
      /\ db' = [db EXCEPT ![p] = file.frame[x[2]].val] /\ Leaves(c, x)
  BY DEF CopyPage, Leaves, index, counts
<1>2. /\ Typed(c) /\ Copies(c) /\ Contents /\ StillToCopy(c) /\ hdr.init
      /\ conn[c].safe \in Nat /\ conn[c].hdr.mx \in Nat /\ hdr.mx \in Nat /\ nBackfill \in Nat
  BY <1>1, Stands, Digest DEF SeenHeader
<1>3. x \in conn[c].copy /\ x[1] = p
  <2> DEFINE T == {y[1] : y \in conn[c].copy}
  <2>1. T \in SUBSET Nat /\ T # {}
    BY <1>1, <1>2 DEF Typed, Pages
  <2>2. p \in T
    BY <2>1, Least
  <2>3. \E y \in conn[c].copy : y[1] = p
    BY <2>2
  <2> QED
    BY <2>3
<1>4. conn'[c].safe = conn[c].safe
  BY <1>1, CopySets
<1> HIDE DEF p, x
<1>5. PICK i : i = x[2]
  OBVIOUS
<1>6. p \in Pages /\ i \in Frames /\ i \in Nat \ {0}
  BY <1>2, <1>3, <1>5, WalAssumption DEF Typed, Frames
<1>7. i <= conn[c].safe /\ conn[c].safe <= hdr.mx /\ idx[i] = p /\ nBackfill < hdr.mx
  BY <1>1, <1>2, <1>3, <1>5 DEF Copies, StillToCopy, IsLast
<1>8. file.frame[i].pg = p
  BY <1>2, <1>6, <1>7 DEF CrashInv, InFile
<1>9. PICK m \in 0 .. MaxFrame :
        Lasts(m) /\ \A d \in Conns : conn[d].pc = "copy" => conn[d].safe <= m
  BY DEF PowerInv
<1>10. i \in 1 .. m /\ m \in Nat /\ MaxFrame \in Nat
  BY <1>1, <1>2, <1>6, <1>7, <1>9, WalAssumption
<1>11. \A q \in Pages : q # p => db'[q] = db[q]
  BY <1>1, <1>2 DEF Contents
<1>12. store' \in past' /\ \A s : Known(s) => Known(s)'
  BY KnownOn
<1>13. ASSUME NEW g, \A j \in 1 .. m : g[j] = file.frame[j], NEW n \in Nat, m <= n, Commit(g, n)
       PROVE  Commit(g, n)'
  <2>1. \A q \in Pages : db'[q] = db[q] \/ \E j \in 1 .. n : g[j].pg = q
    BY <1>8, <1>10, <1>11, <1>13
  <2>2. PICK e : e = db'
    OBVIOUS
  <2>3. Taken(g, n, e) = Taken(g, n, db)
    BY <2>1, <2>2, TakenSame
  <2>4. PICK s : s = Taken(g, n, db)
    OBVIOUS
  <2>5. Known(s)'
    BY <1>12, <1>13, <2>4 DEF Commit
  <2>6. Taken(g, n, db') = s
    BY <2>2, <2>3, <2>4
  <2> QED
    BY <2>5, <2>6 DEF Commit, Taken, Known
<1>14. OnStorage(m)' /\ Covered(m)'
  <2>1. OnStorage(m)'
    BY <1>1, <1>9 DEF Lasts, OnStorage, Sound
  <2>2. Covered(m)'
    BY <1>1, <1>8, <1>9, <1>10, <1>11 DEF Lasts, Covered
  <2> QED
    BY <2>1, <2>2
<1>15. Commit(file.frame, m)'
  <2>1. PICK f : f = file.frame
    OBVIOUS
  <2>2. Commit(f, m)'
    BY <1>9, <1>10, <1>13, <2>1 DEF Lasts
  <2> QED
    BY <1>1, <2>1, <2>2
<1>16. ASSUME NEW g, Mix(g)', NEW n \in Frames, m < n, Believed(g, file.salt, n)
       PROVE  Commit(g, n)'
  <2>1. Mix(g)
    BY <1>1, <1>16 DEF Mix
  <2>2. Commit(g, n) /\ \A j \in 1 .. m : g[j] = file.frame[j]
    BY <1>9, <1>16, <2>1, MixHas DEF Lasts
  <2>3. n \in Nat /\ m <= n
    BY <1>10, <1>16 DEF Frames
  <2> QED
    BY <1>13, <2>2, <2>3
<1>17. Lasts(m)'
  BY <1>1, <1>14, <1>15, <1>16 DEF Lasts
<1>18. ASSUME NEW d \in Conns, conn'[d].pc = "copy" PROVE conn'[d].safe <= m
  <2>1. conn'[d].safe = conn[d].safe /\ conn[d].pc = "copy"
    BY <1>1, <1>4, <1>18, Alone
  <2> QED
    BY <1>9, <2>1
<1>19. NoNewer'
  BY <1>1 DEF PowerInv, NoNewer, Old, Before
<1>20. ~(hdr.mx <= nBackfill)
  BY <1>2, <1>7
<1> QED
  BY <1>1, <1>9, <1>12, <1>17, <1>18, <1>19, <1>20 DEF PowerInv

(* When all was copied the database is synced.                               *)
LEMMA BackfilledClean ==
  ASSUME WalInv, StoreInv, CrashInv, PowerInv, NEW c \in Conns, Step(c), RememberStep, Backfilled(c)
  PROVE  PowerInv'
<1>1. /\ conn[c].pc = "copy" /\ UNCHANGED <<hdr, file, disk, db, txns>>
      /\ nBackfill' = conn[c].safe /\ conn'[c].pc # "copy"
      /\ dbDisk' = IF conn[c].safe = hdr.mx THEN db ELSE dbDisk
  BY WorksNoCopy DEF Backfilled, CopiedUpTo, counts
<1>2. conn[c].safe \in Nat /\ hdr.mx \in Nat /\ conn[c].hdr.mx \in Nat /\ conn[c].safe <= hdr.mx
  BY <1>1, Digest DEF StillToCopy
<1>3. store' \in past' /\ \A s : Known(s) => Known(s)'
  BY KnownOn
<1>4. PICK m \in 0 .. MaxFrame :
        Lasts(m) /\ \A d \in Conns : conn[d].pc = "copy" => conn[d].safe <= m
  BY DEF PowerInv
<1>5. ASSUME NEW g, NEW n, Commit(g, n) PROVE Commit(g, n)'
  BY <1>1, <1>3, <1>5 DEF Commit, Taken
<1>6. Lasts(m)'
  <2>1. OnStorage(m)'
    BY <1>1, <1>4 DEF Lasts, OnStorage, Sound
  <2>2. Covered(m)'
    BY <1>1, <1>4 DEF Lasts, Covered
  <2>3. Commit(file.frame, m)'
    BY <1>1, <1>4, <1>5 DEF Lasts
  <2>4. ASSUME NEW g, Mix(g)', NEW n \in Frames, m < n, Believed(g, file.salt, n)
        PROVE  Commit(g, n)'
    <3>1. Mix(g)
      BY <1>1, <2>4 DEF Mix
    <3> QED
      BY <1>4, <1>5, <2>4, <3>1 DEF Lasts
  <2> QED
    BY <1>1, <2>1, <2>2, <2>3, <2>4 DEF Lasts
<1>7. ASSUME NEW d \in Conns, conn'[d].pc = "copy" PROVE conn'[d].safe <= m
  <2>1. d # c
    BY <1>1, <1>7
  <2> QED
    BY <1>4, <1>7, <2>1, Alone
<1>8. NoNewer'
  BY <1>1 DEF PowerInv, NoNewer, Old, Before
<1>9. hdr'.mx <= nBackfill' => db' = dbDisk'
  BY <1>1, <1>2
<1> QED
  BY <1>1, <1>3, <1>4, <1>6, <1>7, <1>8, <1>9 DEF PowerInv

-----------------------------------------------------------------------------
(* A crash leaves the files; a loss of power settles what they are.           *)

LEMMA SettledAfterwards == Settled' => PowerInv'
BY SettledIsClean, PTL

LEMMA CrashClean ==
  ASSUME WalInv, StoreInv, CrashInv, PowerInv, Crash, RememberRestart PROVE PowerInv'
<1>1. /\ hdr' = NoHdr /\ conn' = [c \in Conns |-> Resting]
      /\ UNCHANGED <<file, disk, db, dbDisk, txns>>
  BY DEF Crash, Die, files
<1>2. store' = Recovered(file, db)
  <2>1. store' = Recovered(file', db')
    BY DEF RememberRestart
  <2>2. PICK f, d : f = file /\ d = db
    OBVIOUS
  <2>3. file' = f /\ db' = d
    BY <1>1, <2>2
  <2>4. store' = Recovered(f, d)
    BY <2>1, <2>3, Zenon
  <2> QED
    BY <2>2, <2>4
<1>3. CASE file = disk /\ db = dbDisk
  <2>1. store' \in past' /\ past' = {store'}
    BY <1>1, <1>3 DEF RememberRestart
  <2>2. store' = Recovered(file', db')
    BY DEF RememberRestart
  <2>3. Settled'
    BY <1>1, <1>3, <2>1, <2>2 DEF Settled, Recovered, Replay, CommittedUpTo, ValidUpTo, Valid
  <2> QED
    BY <2>3, SettledAfterwards
<1>4. CASE ~(file = disk /\ db = dbDisk)
  <2>1. past' = past \cup {store'}
    BY <1>1, <1>4 DEF RememberRestart
  <2>2. ASSUME NEW s, Known(s) PROVE s \in past'
    <3>1. ASSUME NEW c \in Conns, Ready(c), s = snap[c] PROVE s \in past'
      BY <1>2, <2>1, <3>1, CommitIsPending DEF Ready
    <3> QED
      BY <2>1, <2>2, <3>1 DEF Known
  <2>3. PICK m \in 0 .. MaxFrame : Lasts(m)
    BY DEF PowerInv
  <2>4. ASSUME NEW g, NEW n, Commit(g, n) PROVE Commit(g, n)'
    BY <1>1, <2>2, <2>4 DEF Commit, Taken, Known
  <2>5. Lasts(m)'
    <3>1. OnStorage(m)' /\ Covered(m)'
      BY <1>1, <2>3 DEF Lasts, OnStorage, Covered, Sound
    <3>2. Commit(file.frame, m)'
      BY <1>1, <2>3, <2>4 DEF Lasts
    <3>3. ASSUME NEW g, Mix(g)', NEW n \in Frames, m < n, Believed(g, file.salt, n)
          PROVE  Commit(g, n)'
      <4>1. Mix(g)
        BY <1>1, <3>3 DEF Mix
      <4> QED
        BY <2>3, <2>4, <3>3, <4>1 DEF Lasts
    <3> QED
      BY <1>1, <3>1, <3>2, <3>3 DEF Lasts
  <2>6. NoNewer'
    BY <1>1 DEF PowerInv, NoNewer, Old, Before
  <2>7. /\ store' \in past' /\ disk'.salt = file'.salt /\ ~hdr'.init
        /\ \A c \in Conns : conn'[c].pc # "copy"
    BY <1>1, <2>1 DEF PowerInv, NoHdr, Resting
  <2> QED
    BY <2>3, <2>5, <2>6, <2>7 DEF PowerInv
<1> QED
  BY <1>3, <1>4

LEMMA PowerLossClean == ASSUME PowerLoss, RememberRestart PROVE PowerInv'
<1>1. /\ hdr' = NoHdr /\ conn' = [c \in Conns |-> Resting]
      /\ disk' = file' /\ dbDisk' = db' /\ store' = Recovered(file', db') /\ store' \in past'
  BY DEF PowerLoss, Die, RememberRestart
<1>2. Settled'
  BY <1>1 DEF Settled, Recovered, Replay, CommittedUpTo, ValidUpTo, Valid
<1> QED
  BY <1>2, SettledAfterwards

(* Nothing was ever written.                                                 *)
LEMMA CleanAtFirst == ASSUME StoreInit PROVE PowerInv
<1>1. /\ hdr = NoHdr /\ conn = [c \in Conns |-> Resting]
      /\ file = NoFile /\ disk = NoFile /\ db = Empty /\ dbDisk = db
      /\ store = Empty /\ past = {Empty}
  BY DEF StoreInit, Init, Empty
<1>2. CommittedUpTo(file) = 0
  <2>1. MaxFrame \in Nat
    BY WalAssumption
  <2>2. PICK n : n = CommittedUpTo(file)
    OBVIOUS
  <2>3. n \in 0 .. MaxFrame /\ (n > 0 => file.frame[n].commit)
    BY <2>1, <2>2, Recovers
  <2>4. ASSUME n > 0 PROVE FALSE
    BY <1>1, <2>1, <2>3, <2>4 DEF NoFile, NoFrame, Frames
  <2> QED
    BY <2>1, <2>2, <2>3, <2>4
<1>3. Recovered(file, db) = Empty
  <2>1. ASSUME NEW p \in Pages
        PROVE  (LET i == MaxOf({0} \cup {j \in 1 .. 0 : file.frame[j].pg = p})
                IN IF i = 0 THEN db[p] ELSE file.frame[i].val) = 0
    <3> DEFINE S == {0} \cup {j \in 1 .. 0 : file.frame[j].pg = p}
    <3>1. S \in SUBSET (0 .. 0) /\ S # {}
      OBVIOUS
    <3>2. MaxOf(S) = 0
      BY <3>1, Greatest
    <3> QED
      BY <1>1, <3>2 DEF Empty
  <2> QED
    BY <1>2, <2>1 DEF Recovered, Replay, Empty
<1> QED
  BY <1>1, <1>3, SettledIsClean DEF Settled

LEMMA CleanStays == ASSUME PowerInv, UNCHANGED <<vars, history>> PROVE PowerInv'
<1>1. UNCHANGED <<hdr, nBackfill, file, disk, db, dbDisk, conn, txns, store, past, snap>>
  BY DEF vars, history, index, files, counts
<1>2. PICK m \in 0 .. MaxFrame :
        Lasts(m) /\ \A c \in Conns : conn[c].pc = "copy" => conn[c].safe <= m
  BY DEF PowerInv
<1>3. ASSUME NEW g, NEW n, Commit(g, n) PROVE Commit(g, n)'
  BY <1>1, <1>3 DEF Commit, Taken, Known, Ready, Committing
<1>4. Lasts(m)'
  <2>1. OnStorage(m)' /\ Covered(m)'
    BY <1>1, <1>2 DEF Lasts, OnStorage, Covered, Sound
  <2>2. Commit(file.frame, m)'
    BY <1>1, <1>2, <1>3 DEF Lasts
  <2>3. ASSUME NEW g, Mix(g)', NEW n \in Frames, m < n, Believed(g, file.salt, n)
        PROVE  Commit(g, n)'
    <3>1. Mix(g)
      BY <1>1, <2>3 DEF Mix
    <3> QED
      BY <1>2, <1>3, <2>3, <3>1 DEF Lasts
  <2> QED
    BY <1>1, <2>1, <2>2, <2>3 DEF Lasts
<1>5. NoNewer'
  BY <1>1 DEF PowerInv, NoNewer, Old, Before
<1> QED
  BY <1>1, <1>2, <1>4, <1>5 DEF PowerInv

LEMMA PowerStep ==
  ASSUME WalInv, StoreInv, CrashInv, WalInv', StoreInv', CrashInv', PowerInv,
         NEW c \in Conns, Step(c), RememberStep
  PROVE  PowerInv'
<1>1. CASE ReadHdr(c) \/ Recover(c) \/ Lock0(c) \/ Check0(c) \/ Pick(c) \/ Raise(c)
  BY <1>1, LooksClean, RecoverClean
<1>2. CASE Share(c) \/ ReadMin(c) \/ Check(c) \/ EndRead(c)
  BY <1>2, LooksClean
<1>3. CASE BeginWrite(c) \/ Restart(c) \/ Rejoin(c) \/ EndWrite(c) \/ Undo(c)
  BY <1>3, WorksClean, ResetClean
<1>4. CASE \/ \E p \in Pages : WriteFrames(c, {p}, FALSE)
           \/ \E S \in (SUBSET Pages) \ {{}} : WriteFrames(c, S, TRUE)
  <2>1. ASSUME NEW S, NEW commit, WriteFrames(c, S, commit) PROVE PowerInv'
    <3>1. CASE CanRestart(c)
      <4>1. \E T, b : WriteFrames(c, T, b) /\ CanRestart(c)
        BY <2>1, <3>1
      <4> QED
        BY <4>1, ResetClean
    <3>2. CASE ~CanRestart(c)
      <4>1. \E T, b : WriteFrames(c, T, b) /\ ~CanRestart(c)
        BY <2>1, <3>2
      <4> QED
        BY <4>1, WorksClean
    <3> QED
      BY <3>1, <3>2
  <2> QED
    BY <1>4, <2>1
<1>5. CASE WriteHeader(c) \/ WriteFrame(c) \/ RewriteChecksums(c) \/ FinishFrames(c)
  BY <1>5, WriteHeaderClean, WriteFrameClean, RewriteChecksumsClean, FinishClean
<1>6. CASE BeginCheckpoint(c) \/ StartCheckpoint(c) \/ TestMark(c) \/ StartBackfill(c)
  BY <1>6, WorksClean, StartBackfillClean
<1>7. CASE CopyPage(c) \/ Backfilled(c) \/ EndCheckpoint(c)
  BY <1>7, CopyPageClean, BackfilledClean, WorksClean
<1> QED
  BY <1>1, <1>2, <1>3, <1>4, <1>5, <1>6, <1>7 DEF Step

LEMMA PowerInvKept ==
  ASSUME WalInv, StoreInv, CrashInv, WalInv', StoreInv', CrashInv', PowerInv,
         [StoreNext]_<<vars, history>>
  PROVE  PowerInv'
<1>1. CASE \E c \in Conns : Step(c) /\ RememberStep
  BY <1>1, PowerStep
<1>2. CASE (Crash \/ PowerLoss) /\ RememberRestart
  BY <1>2, CrashClean, PowerLossClean
<1>3. CASE UNCHANGED <<vars, history>>
  BY <1>3, CleanStays
<1> QED
  BY <1>1, <1>2, <1>3 DEF StoreNext

LEMMA PowerInvHolds ==
  ASSUME ~IdleCheckpoints PROVE StoreSpec => [](WalInv /\ StoreInv /\ CrashInv /\ PowerInv)
<1>1. StoreInit => PowerInv
  BY CleanAtFirst
<1>2. WalInv /\ StoreInv /\ CrashInv /\ (WalInv /\ StoreInv /\ CrashInv)' /\ PowerInv
        /\ [StoreNext]_<<vars, history>>
        => PowerInv'
  BY PowerInvKept
<1>3. StoreSpec => [](WalInv /\ StoreInv /\ CrashInv)
  BY CrashInvHolds
<1> QED
  BY <1>1, <1>2, <1>3, PTL DEF StoreSpec

(* Lose power at any point of any transaction, reset or checkpoint, and keep  *)
(* any part of what was written and not synced, of the log as of the database: *)
(* what a recovery finds is a commit, never a part of one or a mixture. The    *)
(* checkpoint syncs the log before it copies and the database before it says  *)
(* that all was copied (walCheckpoint), a new log is begun by a synced header *)
(* (sqlite3WalFrames), and a commit's checksums are over every frame before   *)
(* it; as long as no checkpoint begins when all is backfilled.               *)
THEOREM LossOfPowerIsClean ==
  ASSUME ~IdleCheckpoints PROVE StoreSpec => []PowerLossIsClean
BY PowerInvHolds, CleanAfterLoss, PTL
=============================================================================
