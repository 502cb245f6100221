------------------------------ MODULE CrashLog ------------------------------
(***************************************************************************)
(* The crash log: EyesManager, which CrashEye tells of every crash and     *)
(* which writes one row for each, the database behind NNDBManager, the     *)
(* console page that lists the rows, and the launches of the application   *)
(* that only the rows outlive.                                             *)
(*                                                                         *)
(* What CrashEye does is taken from module CrashEye: a thread that throws  *)
(* is reported as an exception and then as a signal, one that faults as a  *)
(* signal, and the process dies after the report of the signal. EyesManager *)
(* is its only delegate. What closeCrashEye leaves behind are the signal    *)
(* handlers: to a fault they return, and it is executed again.             *)
(* NNDBManager's database lets one operation of another thread wait only   *)
(* for a close(onClosed:), which holds the write lock. Module CrashRecords *)
(* declares what can be seen of the log, and says what must hold of that.  *)
(***************************************************************************)
EXTENDS CrashRecords, SequencesExt

CONSTANTS
  Threads,
  Main,         (* the thread of the page and of EyesManager               *)
  Nobody,
  MaxLaunches,  (* a bound on the launches of the application              *)
  Failures      (* whether an operation of the database may fail           *)

ASSUME MainAssumption == Main \in Threads /\ Nobody \notin Threads
ASSUME LaunchesAssumption == MaxLaunches \in Nat \ {0}
ASSUME FailuresAssumption == Failures \in BOOLEAN

VARIABLES
  launch,      (* the number of this launch                                *)
  hooked,      (* this launch has given CrashEye the signals               *)
  crash,       (* how far each thread is in its crash                      *)
  closer,      (* the thread inside removeDbFile's onClosed block          *)
  page,        (* the console page                                         *)
  dataArray    (* the rows its data source read when it was made           *)

disk == <<table, rows>>
process == <<launch, running, hooked>>
recorder == <<watching, crash, closer, discarded>>
console == <<page, dataArray, recordData>>
vars == <<disk, process, recorder, console>>

Init ==
  /\ table = FALSE /\ rows = <<>>
  /\ launch = 1 /\ running = TRUE /\ hooked = FALSE
  /\ watching = FALSE /\ discarded = FALSE
  /\ crash = [t \in Threads |-> "run"]
  /\ closer = Nobody
  /\ page = "none" /\ dataArray = <<>> /\ recordData = <<>>

(* A launch knows nothing of the last one but the disk. *)
Launch ==
  /\ ~running /\ launch < MaxLaunches
  /\ launch' = launch + 1 /\ running' = TRUE /\ hooked' = FALSE
  /\ watching' = FALSE /\ discarded' = FALSE
  /\ crash' = [t \in Threads |-> "run"]
  /\ closer' = Nobody
  /\ page' = "none" /\ dataArray' = <<>> /\ recordData' = <<>>
  /\ UNCHANGED disk

(* The system or the user ends the process. *)
Terminate ==
  /\ running
  /\ running' = FALSE
  /\ UNCHANGED <<disk, launch, hooked, recorder, console>>

-----------------------------------------------------------------------------
Can(t, stage) == running /\ crash[t] = stage

(* The main thread is free to handle an event. *)
MainFree == Can(Main, "run") /\ page # "deleting" /\ closer # Main

(* An operation of the database gets its read lock. *)
Unlocked == closer = Nobody

(* try ... complete(true), or catch ... complete(false) *)
Outcomes == IF Failures THEN BOOLEAN ELSE {TRUE}

(* Mutant: createTable that watches whatever came of it. *)
CreateTableAndWatch ==
  /\ MainFree /\ Unlocked
  /\ watching' = TRUE /\ hooked' = TRUE
  /\ \E ok \in Outcomes : table' = (ok \/ table)
  /\ UNCHANGED <<rows, launch, running, crash, closer, discarded, console>>

(* EyesManager.createTable, which its init calls: add(delegate:) on success. *)
CreateTable ==
  /\ MainFree /\ Unlocked
  /\ \E ok \in Outcomes :
       IF ok
       THEN table' = TRUE /\ watching' = TRUE /\ hooked' = TRUE
       ELSE UNCHANGED <<table, watching, hooked>>
  /\ UNCHANGED <<rows, launch, running, crash, closer, discarded, console>>

CloseCrashEye ==
  /\ MainFree
  /\ watching' = FALSE
  /\ UNCHANGED <<disk, process, crash, closer, discarded, console>>

(* dropTable(table:), by the application *)
DropTable ==
  /\ MainFree /\ Unlocked /\ table
  /\ \E ok \in Outcomes :
       IF ok
       THEN table' = FALSE /\ rows' = <<>> /\ discarded' = TRUE
       ELSE UNCHANGED <<table, rows, discarded>>
  /\ UNCHANGED <<process, watching, crash, closer, console>>

(* removeDbFile: close(onClosed:) waits for the write lock, the block removes  *)
(* the files, all or none, and the lock is released whether that failed or   *)
(* not.                                                                      *)
CloseDatabase(t) ==
  /\ Can(t, "run") /\ Unlocked
  /\ t = Main => MainFree
  /\ closer' = t
  /\ UNCHANGED <<disk, process, watching, crash, discarded, console>>

(* Mutant: the write lock is not given back. *)
RemoveFilesOnly(t) ==
  /\ Can(t, "run") /\ closer = t
  /\ table' = FALSE /\ rows' = <<>> /\ discarded' = TRUE
  /\ UNCHANGED <<process, watching, crash, closer, console>>

RemoveFiles(t) ==
  /\ Can(t, "run") /\ closer = t
  /\ closer' = Nobody
  /\ \E ok \in Outcomes :
       IF ok
       THEN table' = FALSE /\ rows' = <<>> /\ discarded' = TRUE
       ELSE UNCHANGED <<table, rows, discarded>>
  /\ UNCHANGED <<process, watching, crash, console>>

-----------------------------------------------------------------------------
(* A crash.                                                                 *)

Die == running' = FALSE /\ UNCHANGED crash
Become(t, stage) == crash' = [crash EXCEPT ![t] = stage] /\ UNCHANGED running

Throw(t) ==
  /\ Can(t, "run")
  /\ IF watching THEN Become(t, "exception") ELSE Become(t, "abort")
  /\ UNCHANGED <<disk, launch, hooked, watching, closer, discarded, console>>

(* guard CrashEye.isOpen: the handlers of an earlier open() only return.     *)
Fault(t) ==
  /\ Can(t, "run")
  /\ IF watching THEN Become(t, "signal")
     ELSE IF hooked THEN Become(t, "refault") ELSE Die
  /\ UNCHANGED <<disk, launch, hooked, watching, closer, discarded, console>>

(* The fault executed again finds CrashEye open; else nothing has changed.   *)
Refault(t) ==
  /\ Can(t, "refault") /\ watching
  /\ Become(t, "signal")
  /\ UNCHANGED <<disk, launch, hooked, watching, closer, discarded, console>>

(* abort() ends the process when the handler returns.                        *)
Abort(t) ==
  /\ Can(t, "abort")
  /\ IF watching THEN Become(t, "signal") ELSE Die
  /\ UNCHANGED <<disk, launch, hooked, watching, closer, discarded, console>>

(* Mutant: the new row goes before the others. *)
InsertInFront(t, kind) ==
  /\ Can(t, kind) /\ Unlocked
  /\ \E ok \in Outcomes :
       rows' = IF ok /\ table
               THEN <<[launch |-> launch, thread |-> t, kind |-> kind]>> \o rows
               ELSE rows
  /\ Become(t, IF kind = "exception" THEN "abort" ELSE "kill")
  /\ UNCHANGED <<table, launch, hooked, watching, closer, discarded, console>>

(* crashEyeDidCatchCrash inserts a row; a failure is only logged. *)
Insert(t, kind) ==
  /\ Can(t, kind) /\ Unlocked
  /\ \E ok \in Outcomes :
       rows' = IF ok /\ table
               THEN Append(rows, [launch |-> launch, thread |-> t, kind |-> kind])
               ELSE rows
  /\ Become(t, IF kind = "exception" THEN "abort" ELSE "kill")
  /\ UNCHANGED <<table, launch, hooked, watching, closer, discarded, console>>

KillApp(t) ==
  /\ Can(t, "kill")
  /\ Die
  /\ UNCHANGED <<disk, launch, hooked, watching, closer, discarded, console>>

-----------------------------------------------------------------------------
(* The console page.                                                        *)

(* ConsoleController() makes the data source, which reads the rows once. *)
MakePage ==
  /\ MainFree /\ Unlocked /\ page = "none"
  /\ page' = "hidden"
  /\ \E ok \in Outcomes : dataArray' = IF ok /\ table THEN rows ELSE <<>>
  /\ recordData' = <<>>
  /\ UNCHANGED <<disk, process, recorder>>

(* Mutant: loadData without reversed(). *)
ViewInRowOrder ==
  /\ MainFree /\ page = "hidden"
  /\ page' = "shown"
  /\ recordData' = dataArray
  /\ UNCHANGED <<disk, process, recorder, dataArray>>

ViewWillAppear ==
  /\ MainFree /\ page = "hidden"
  /\ page' = "shown"
  /\ recordData' = Reverse(dataArray)
  /\ UNCHANGED <<disk, process, recorder, dataArray>>

ViewDisappears ==
  /\ MainFree /\ page = "shown"
  /\ page' = "hidden"
  /\ UNCHANGED <<disk, process, recorder, dataArray, recordData>>

DropPage ==
  /\ MainFree /\ page = "hidden"
  /\ page' = "none" /\ dataArray' = <<>> /\ recordData' = <<>>
  /\ UNCHANGED <<disk, process, recorder>>

(* The delete button: cleanRecord and reloadData, then the rows. *)
CleanRecord ==
  /\ MainFree /\ page = "shown"
  /\ page' = "deleting"
  /\ recordData' = <<>>
  /\ UNCHANGED <<disk, process, recorder, dataArray>>

DeleteRows ==
  /\ Can(Main, "run") /\ page = "deleting" /\ Unlocked
  /\ page' = "shown"
  /\ \E ok \in Outcomes : rows' = IF ok THEN <<>> ELSE rows
  /\ UNCHANGED <<table, process, recorder, dataArray, recordData>>

-----------------------------------------------------------------------------
Crashing(t) ==
  Abort(t) \/ Refault(t) \/ Insert(t, "exception") \/ Insert(t, "signal") \/ KillApp(t)

Next ==
  \/ Launch \/ Terminate
  \/ CreateTable \/ CloseCrashEye \/ DropTable
  \/ MakePage \/ ViewWillAppear \/ ViewDisappears \/ DropPage
  \/ CleanRecord \/ DeleteRows
  \/ \E t \in Threads :
       CloseDatabase(t) \/ RemoveFiles(t) \/ Throw(t) \/ Fault(t) \/ Crashing(t)
  \/ ~running /\ launch = MaxLaunches /\ UNCHANGED vars

Spec == Init /\ [][Next]_vars

(* A thread inside a crash, a close or a delete keeps running. *)
Fairness ==
  /\ \A t \in Threads : WF_vars(Crashing(t)) /\ WF_vars(RemoveFiles(t))
  /\ WF_vars(DeleteRows)
FairSpec == Spec /\ Fairness

-----------------------------------------------------------------------------
(* Properties, beside those of CrashRecords.                                *)

(* Once the delete button has emptied the table, the page lists none of the  *)
(* records that were in it: the database is cleared with the list.           *)
DeletedIsGone ==
  running /\ page = "shown" /\ ~discarded /\ rows = <<>> => recordData = <<>>

(* No thread closes the database for ever, or crashes while it has it closed. *)
CloseIsHarmless ==
  /\ <>[][\A t \in Threads : ~CloseDatabase(t)]_vars
  /\ [](closer # Nobody => crash[closer] = "run")

(* A crash ends its process, although its rows wait for the database to be   *)
(* reopened; but for a fault that meets the handlers of a closed CrashEye    *)
(* (CrashEye.swift:190), as long as it stays closed, and unless the thread   *)
(* that closed the database crashes with the lock.                           *)
CrashEnds ==
  CloseIsHarmless =>
    \A t \in Threads :
      crash[t] # "run" ~> ~running \/ (crash[t] = "refault" /\ ~watching)
=============================================================================
