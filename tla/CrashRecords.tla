---------------------------- MODULE CrashRecords ----------------------------
(***************************************************************************)
(* What can be seen of the crash log from outside: the table with its rows *)
(* in the database file, whether EyesManager is watching, and the records  *)
(* the console page lists; and what must hold of them. Module CrashLog     *)
(* says how they change.                                                   *)
(***************************************************************************)
EXTENDS Integers, Sequences

VARIABLES
  table,       (* the table CrashRecordModel exists in the file            *)
  rows,        (* its rows, in the order of insertion                      *)
  running,     (* the process lives                                        *)
  watching,    (* EyesManager.shared is a delegate of CrashEye             *)
  discarded,   (* history: this launch dropped the table or removed its file *)
  recordData   (* the rows the console page lists                          *)

(* EyesManager watches only with a table to write to: it became a delegate   *)
(* when the table had been created, and only an application that dropped the *)
(* table or removed the file can have taken it away again.                   *)
WatchedIsWritable == running /\ watching /\ ~discarded => table

(* The rows tell the story of each launch: launches in order, and of one     *)
(* thread at most an exception and then a signal, however many crash at once. *)
Later(r, s) ==
  \/ r.launch > s.launch
  \/ r.launch = s.launch /\ r.thread # s.thread
  \/ r.launch = s.launch /\ r.thread = s.thread /\ r.kind = "signal" /\ s.kind = "exception"
RowsInOrder == \A i, j \in 1..Len(rows) : i < j => Later(rows[j], rows[i])

(* The page lists the newest crash first, whatever happened to the table     *)
(* since it read it.                                                         *)
NewestFirst == \A i, j \in 1..Len(recordData) : i < j => Later(recordData[i], recordData[j])
=============================================================================
