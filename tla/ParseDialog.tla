---------------------------- MODULE ParseDialog ----------------------------
(***************************************************************************)
(* The parse dialog (lvtqtw/ct_lvtqtw_parse_codebase.cpp), its worker      *)
(* thread, and the part of the main window that hands it the database      *)
(* (desktopapp/mainwindow.cpp).                                            *)
(*                                                                         *)
(* The GUI thread runs one handler at a time: a handler is one action,     *)
(* with everything it calls, the slots its signals reach included.  A      *)
(* worker reads dialogState when it begins and sets threadSuccess when it  *)
(* ends.  QThread::finished is queued, and carries no sender; while a      *)
(* graph is loaded the window takes no input (disableWindow) but queued    *)
(* signals are delivered (processEvents), first by disableWindow itself,   *)
(* before d_graphLoadRunning is set.                                       *)
(*                                                                         *)
(* A project stands for its workspace folder: it is opened once, and the   *)
(* folder, with both its databases, is gone when it is closed.             *)
(***************************************************************************)
EXTENDS Naturals

CONSTANTS
  Projects,      \* workspace folders
  NoProject,
  NoTool, NoDb,
  MayStray,      \* whether the user leaves the beaten track, see Stray
  JsonVanishes,  \* whether compile_commands.json may be gone after validate saw it
  MaxThreads     \* bound: parse threads alive, and signals queued, at a time

ASSUME ProjectsAssumption == NoProject \notin Projects
ASSUME UserAssumption == MayStray \in BOOLEAN /\ JsonVanishes \in BOOLEAN
ASSUME ThreadsAssumption == MaxThreads \in Nat \ {0, 1}

Threads == 1..MaxThreads
NoThread == 0

RunPhysical == {"RunPhysicalOnly", "RunAllPhysical"}
Running == RunPhysical \cup {"RunAllLogical"}
State == {"Idle", "Killed"} \cup Running

(* What a tool knows, or a database holds: whose code, and how much of it; *)
(* in the CAD database the user's edits may be on top.                     *)
Pass == {"nothing", "partial", "physical", "logical"}
Tool == [of : Projects, pass : Pass, cancel : BOOLEAN]
Content == [of : Projects, pass : Pass \cup {"edited"}]
ASSUME NoneAssumption == NoTool \notin Tool /\ NoDb \notin Content

VARIABLES
  dialogState, visible,
  btnParse, btnCancel,             \* these buttons are enabled
  codebasePath,                    \* the folder the dialog was given last
  tool,                            \* tool_p
  parseThread, threadSuccess,
  thread,        \* what a thread does; "free" before it starts and after it ends
  signals,       \* QThread::finished signals not delivered yet
  cmake,         \* CMake is generating compile_commands.json
  project,       \* the open project of the main window
  past,          \* the projects that were closed
  load,          \* the graph load, see Load
  connected,     \* databaseIdle is connected to prepareForCodeDatabaseUpdate
  label,         \* the status bar's button that shows the dialog
  codeDb, cadDb, \* the two databases of the open project
  aborted,       \* why the process died, "no" while it lives
  strayed,       \* history: see Stray
  removalFailed  \* history: an old database could not be removed

buttons == <<btnParse, btnCancel>>
dialogVars == <<dialogState, visible, buttons, codebasePath>>
workerVars == <<tool, parseThread, threadSuccess, thread, signals>>
windowVars == <<project, past, load, connected, label>>
dbVars == <<codeDb, cadDb>>
history == <<strayed, removalFailed>>
vars == <<dialogVars, workerVars, cmake, windowVars, dbVars, aborted, history>>

Init ==
  /\ dialogState = "Idle" /\ visible = FALSE
  /\ btnParse = FALSE /\ btnCancel = FALSE
  /\ codebasePath = NoProject
  /\ tool = NoTool /\ parseThread = NoThread /\ threadSuccess = FALSE
  /\ thread = [t \in Threads |-> "free"] /\ signals = 0
  /\ cmake = FALSE
  /\ project = NoProject /\ past = {} /\ load = "none" /\ connected = FALSE
  /\ label = FALSE
  /\ codeDb = NoDb /\ cadDb = NoDb
  /\ aborted = "no" /\ strayed = FALSE /\ removalFailed = FALSE

Job == {"free", "started", "physical", "logical", "refused", "nothing"}

Alive == aborted = "no"

(* A parse is under way until its results were taken over. *)
Busy == cmake \/ parseThread # NoThread

(* The process dies in a handler, and its memory with it. *)
Abort(why) ==
  /\ aborted' = why
  /\ UNCHANGED <<dialogVars, workerVars, cmake, windowVars, dbVars, history>>

(***************************************************************************)
(* The main window.                                                        *)
(***************************************************************************)

(* The user leaves the beaten track: the project is changed, or the dialog *)
(* reset, under a parse, or a parse is started for a project that is gone. *)
Stray(off) == strayed' = (strayed \/ off) /\ (off => MayStray)

(* A load that was announced has disabled the window, and events are       *)
(* delivered; running is d_graphLoadRunning.                               *)
Load == {"none", "announced", "running"}

(* Nothing takes input during a graph load. *)
Input == Alive /\ load = "none"

(* The project file may hold databases of an earlier session. *)
OpenProject(p) ==
  /\ Input /\ project = NoProject /\ p \notin past
  /\ project' = p
  /\ \E db \in {NoDb, [of |-> p, pass |-> "logical"]} : codeDb' = db /\ cadDb' = db
  /\ UNCHANGED <<dialogVars, workerVars, cmake, past, load, connected, label, aborted,
                 history>>

CloseProject ==
  /\ Input /\ project # NoProject
  /\ project' = NoProject /\ past' = past \cup {project}
  /\ codeDb' = NoDb /\ cadDb' = NoDb
  /\ label' = FALSE
  /\ Stray(Busy)
  /\ UNCHANGED <<dialogVars, workerVars, cmake, load, connected, aborted, removalFailed>>

(* The user edits the model; the node storage writes it to the CAD database. *)
EditCad ==
  /\ Input /\ project # NoProject
  /\ cadDb' = [of |-> project, pass |-> "edited"]
  /\ UNCHANGED <<dialogVars, workerVars, cmake, windowVars, codeDb, aborted, history>>

(* graphLoadStarted up to the events disableWindow delivers, and after them *)
GraphLoadStarted ==
  /\ Input /\ project # NoProject
  /\ load' = "announced"
  /\ UNCHANGED <<dialogVars, workerVars, cmake, project, past, connected, label, dbVars, aborted,
                 history>>

GraphLoadMarked ==
  /\ Alive /\ load = "announced"
  /\ load' = "running"
  /\ UNCHANGED <<dialogVars, workerVars, cmake, project, past, connected, label, dbVars, aborted,
                 history>>

(* generateCodeDatabaseFinished after a run that was not killed: the CAD   *)
(* database is removed, and replaced by a copy of the code database, code, *)
(* if there is one.                                                        *)
ResetCad(code) == cadDb' = IF project = NoProject THEN cadDb ELSE code

(***************************************************************************)
(* The dialog's state machine.                                             *)
(***************************************************************************)

(* initParse_Step2 with the tool tl, NoTool to make one *)
StartThread(tl) ==
  \E t \in Threads :
    /\ thread[t] = "free"
    /\ thread' = [thread EXCEPT ![t] = "started"]
    /\ parseThread' = t
    /\ tool' = IF tl # NoTool THEN tl
               ELSE [of |-> codebasePath, pass |-> "nothing", cancel |-> FALSE]
    /\ btnParse' = FALSE
    /\ label' = TRUE

(* updateDatabase fails to remove the old database: the tool is kept. *)
RemovalFailed ==
  /\ codebasePath = project /\ codeDb # NoDb
  /\ dialogState' = "Idle" /\ parseThread' = NoThread
  /\ ResetCad(codeDb)
  /\ removalFailed' = TRUE
  /\ UNCHANGED <<visible, buttons, tool, thread, codeDb, label>>

(* Mutant: a failed physical run is followed by a logical one. *)
LastOfRunUnchecked == dialogState = "Killed" \/ dialogState # "RunAllPhysical"

(* endParse of a run that was killed, failed, or was the last one *)
LastOfRun == dialogState = "Killed" \/ ~threadSuccess \/ dialogState # "RunAllPhysical"

(* Mutant: the tool survives its parse. *)
EndLastKeepsTool(code) ==
  /\ LastOfRun
  /\ dialogState' = "Idle" /\ parseThread' = NoThread
  /\ btnParse' = TRUE
  /\ IF dialogState = "Killed" THEN UNCHANGED cadDb ELSE ResetCad(code)
  /\ visible' = (visible /\ (dialogState = "Killed" \/ ~threadSuccess))
  /\ UNCHANGED <<btnCancel, tool, thread, label>>

EndLast(code) ==
  /\ LastOfRun
  /\ dialogState' = "Idle" /\ parseThread' = NoThread /\ tool' = NoTool
  /\ btnParse' = TRUE
  /\ IF dialogState = "Killed" THEN UNCHANGED cadDb ELSE ResetCad(code)
  /\ visible' = (visible /\ (dialogState = "Killed" \/ ~threadSuccess))   \* close()
  /\ UNCHANGED <<btnCancel, thread, label>>

(* endParse after the physical run of a full parse: initParse again *)
EndPhysical(code) ==
  /\ ~LastOfRun
  /\ dialogState' = "RunAllLogical"
  /\ ResetCad(code)
  /\ btnCancel' = TRUE
  /\ StartThread(tool)
  /\ UNCHANGED visible

WriteDatabase ==
  LET code == [of |-> tool.of, pass |-> tool.pass]
  IN /\ codeDb' = code
     /\ EndLast(code) \/ EndPhysical(code)
     /\ UNCHANGED removalFailed

(* What kills the process in updateDatabase: no thread to delete, or one   *)
(* that still runs; an assertion; the exception of a database that cannot  *)
(* be created because its folder is gone; a thread left without its tool.  *)
Fatal ==
  IF parseThread = NoThread THEN "null pointer"
  ELSE IF thread[parseThread] # "free" THEN "thread destroyed"
  ELSE IF tool = NoTool \/ dialogState = "Idle" THEN "assertion"
  ELSE IF codebasePath # project THEN "exception"
  ELSE IF LastOfRun /\ \E t \in Threads : thread[t] \in {"physical", "logical", "refused"} THEN "tool destroyed"
  ELSE "no"

updateDatabase ==
  /\ Fatal = "no"
  /\ RemovalFailed \/ WriteDatabase
  /\ UNCHANGED <<codebasePath, threadSuccess, cmake, project, past, aborted, strayed>>

ConnectUpdate ==
  /\ connected' = TRUE /\ signals' = signals - 1
  /\ UNCHANGED <<dialogVars, tool, parseThread, threadSuccess, thread, cmake, project, past, load,
                 label, dbVars, aborted, history>>

(* Mutants: the signal is handled twice; the load is not asked for. *)
ReadyTwice == Alive /\ load = "running" /\ parseThread # NoThread /\ ConnectUpdate
ReadyAnyTime ==
  /\ Alive /\ signals > 0
  /\ \/ Fatal # "no" /\ Abort(Fatal)
     \/ /\ updateDatabase
        /\ connected' = FALSE /\ signals' = signals - 1 /\ UNCHANGED load

(* generateDatabaseReadyForUpdate, by the queued QThread::finished *)
ReadyForUpdate ==
  /\ Alive /\ signals > 0
  /\ \/ load = "running" /\ ConnectUpdate
     \/ /\ load # "running" /\ Fatal # "no" /\ Abort(Fatal)
     \/ /\ load # "running" /\ updateDatabase
        /\ connected' = FALSE /\ signals' = signals - 1 /\ UNCHANGED load

(* Mutant: databaseIdle is not emitted. *)
LoadFinishedSilently ==
  /\ Alive /\ load = "running" /\ load' = "none"
  /\ UNCHANGED <<dialogVars, workerVars, cmake, project, past, connected, label, dbVars, aborted,
                 history>>

(* graphLoadFinished: databaseIdle reaches the update that waits for it. *)
GraphLoadFinished ==
  /\ Alive /\ load = "running"
  /\ \/ /\ ~connected /\ load' = "none"
        /\ UNCHANGED <<dialogVars, workerVars, cmake, project, past, connected, label, dbVars,
                       aborted, history>>
     \/ /\ connected /\ Fatal # "no" /\ Abort(Fatal)
     \/ /\ connected /\ updateDatabase
        /\ connected' = FALSE /\ load' = "none" /\ UNCHANGED signals

(***************************************************************************)
(* The user at the dialog.  A show resets it unless a logical run is under *)
(* way; reset leaves the thread and the tool alone.                        *)
(***************************************************************************)

(* Mutant: a dialog that shows a logical run is reset too. *)
ShowResets ==
  /\ ~visible /\ visible' = TRUE
  /\ dialogState' = "Idle" /\ btnCancel' = FALSE /\ btnParse' \in BOOLEAN
  /\ IF dialogState = "RunAllLogical" THEN UNCHANGED strayed ELSE Stray(Busy)
  /\ UNCHANGED <<workerVars, cmake, windowVars, dbVars, aborted, removalFailed>>

Show ==
  /\ ~visible /\ visible' = TRUE
  /\ IF dialogState = "RunAllLogical" THEN UNCHANGED <<dialogState, buttons, strayed>>
     ELSE /\ dialogState' = "Idle"
          /\ btnCancel' = FALSE
          /\ btnParse' \in BOOLEAN              \* validate
          /\ Stray(Busy)
  /\ UNCHANGED <<workerVars, cmake, windowVars, dbVars, aborted, removalFailed>>

OpenDialog == Input /\ project # NoProject /\ Show /\ codebasePath' = project
ShowFromStatusBar == Input /\ label /\ Show /\ UNCHANGED codebasePath

(* The text fields can be edited at any time; each change validates them. *)
EditFields ==
  /\ Input /\ visible /\ btnParse' = ~btnParse
  /\ UNCHANGED <<dialogState, visible, btnCancel, codebasePath, workerVars, cmake,
                 windowVars, dbVars, aborted, history>>

(* The Close button, disabled during a physical run, and the Escape key, *)
(* which does the same at any time.                                      *)
Hide ==
  /\ Input /\ visible /\ visible' = FALSE
  /\ UNCHANGED <<dialogState, buttons, codebasePath, workerVars, cmake, windowVars, dbVars,
                 aborted, history>>

(* btnParse in a logical run only closes the dialog, as Hide does. *)
Parse ==
  /\ signals < MaxThreads
  /\ Input /\ visible /\ btnParse /\ dialogState = "Idle"
  /\ \E s \in RunPhysical :
       /\ dialogState' = s
       /\ btnCancel' = TRUE
       /\ \/ /\ StartThread(tool)
             /\ UNCHANGED cmake
          \/ /\ JsonVanishes /\ ~cmake /\ cmake' = TRUE /\ btnParse' = FALSE
             /\ UNCHANGED <<tool, parseThread, thread, label>>
  /\ Stray(codebasePath # project)
  /\ UNCHANGED <<visible, codebasePath, threadSuccess, signals, project, past, load, connected,
                 dbVars, aborted, removalFailed>>

(* runCMakeAndInitParse_Step2 without a cmake executable *)
ParseWithoutCMake ==
  /\ JsonVanishes
  /\ Input /\ visible /\ btnParse /\ dialogState = "Idle"
  /\ dialogState' \in RunPhysical
  /\ btnParse' = TRUE /\ btnCancel' = FALSE
  /\ UNCHANGED <<visible, codebasePath, workerVars, cmake, windowVars, dbVars, aborted,
                 history>>

(* The exit code of CMake: onFinishCMakeRun *)
CMakeFinished ==
  /\ Alive /\ cmake
  /\ \/ /\ btnParse' = TRUE /\ btnCancel' = FALSE /\ cmake' = FALSE
        /\ UNCHANGED <<dialogState, visible, codebasePath, workerVars, windowVars, dbVars,
                       aborted, history>>
     \/ /\ dialogState \in Running /\ StartThread(tool) /\ cmake' = FALSE
        /\ UNCHANGED <<dialogState, visible, btnCancel, codebasePath, threadSuccess, signals,
                       project, past, load, connected, dbVars, aborted, history>>
     \/ /\ dialogState \notin Running /\ Abort("assertion")

Cancel ==
  /\ Input /\ visible /\ btnCancel
  /\ IF parseThread # NoThread
     THEN /\ dialogState' = "Killed" /\ btnCancel' = FALSE
          /\ tool' = IF tool = NoTool THEN NoTool ELSE [tool EXCEPT !.cancel = TRUE]
          /\ UNCHANGED <<cadDb, connected>>
     ELSE /\ ResetCad(codeDb) /\ connected' = FALSE     \* parseFinished(Idle)
          /\ UNCHANGED <<dialogState, btnCancel, tool>>
  /\ UNCHANGED <<visible, btnParse, codebasePath, parseThread, threadSuccess, thread,
                 signals, cmake, project, past, load, label, codeDb, aborted, history>>

(***************************************************************************)
(* The worker thread.                                                      *)
(***************************************************************************)

(* threadFn reads the state the dialog is in when the thread gets to run. *)
BeginRun(t) ==
  /\ Alive /\ thread[t] = "started"
  /\ \/ /\ tool = NoTool /\ Abort("assertion")
     \/ /\ tool # NoTool
        /\ thread' = [thread EXCEPT ![t] = IF dialogState \notin Running THEN "nothing"
                                           ELSE IF tool.cancel THEN "refused"
                                           ELSE IF dialogState \in RunPhysical THEN "physical"
                                           ELSE "logical"]
        /\ UNCHANGED <<dialogVars, tool, parseThread, threadSuccess, signals, cmake, windowVars,
                       dbVars, aborted, history>>

(* runPhysical or runFull(true): complete, failed, or cut short by a cancel, *)
(* which is a success; a cancel that comes too late stays pending.           *)
EndRun(t) ==
  /\ Alive /\ thread[t] \in {"physical", "logical"}
  /\ \E success \in BOOLEAN, cut \in BOOLEAN :
       /\ cut => tool.cancel
       /\ threadSuccess' = success
       /\ \E p \in IF success /\ ~cut THEN {thread[t]} ELSE {tool.pass, "partial"} :
            tool' = [tool EXCEPT !.pass = p, !.cancel = @ /\ ~cut]
  /\ thread' = [thread EXCEPT ![t] = "free"] /\ signals' = signals + 1
  /\ UNCHANGED <<dialogVars, parseThread, cmake, windowVars, dbVars, aborted, history>>

(* A cancel was pending when the run began: it fails, and takes the cancel. *)
EndRefused(t) ==
  /\ Alive /\ thread[t] = "refused"
  /\ threadSuccess' = FALSE /\ tool' = [tool EXCEPT !.cancel = FALSE]
  /\ thread' = [thread EXCEPT ![t] = "free"] /\ signals' = signals + 1
  /\ UNCHANGED <<dialogVars, parseThread, cmake, windowVars, dbVars, aborted, history>>

(* Another state than these: threadFn returns, threadSuccess stays as it was. *)
EndNothing(t) ==
  /\ Alive /\ thread[t] = "nothing"
  /\ thread' = [thread EXCEPT ![t] = "free"] /\ signals' = signals + 1
  /\ UNCHANGED <<dialogVars, tool, parseThread, threadSuccess, cmake, windowVars, dbVars, aborted,
                 history>>

Worker(t) == BeginRun(t) \/ EndRun(t) \/ EndRefused(t) \/ EndNothing(t)

Next ==
  \/ \E p \in Projects : OpenProject(p)
  \/ CloseProject
  \/ EditCad
  \/ GraphLoadStarted
  \/ GraphLoadMarked
  \/ GraphLoadFinished
  \/ ReadyForUpdate
  \/ OpenDialog
  \/ ShowFromStatusBar
  \/ EditFields
  \/ Hide
  \/ Parse
  \/ ParseWithoutCMake
  \/ CMakeFinished
  \/ Cancel
  \/ \E t \in Threads : Worker(t)

Spec == Init /\ [][Next]_vars

(* The operating system runs the threads and CMake; the event loop delivers *)
(* what is queued, and disableWindow returns; a graph load ends.  The user  *)
(* owes nothing.                                                            *)
Fairness ==
  /\ \A t \in Threads : WF_vars(Worker(t))
  /\ WF_vars(ReadyForUpdate)
  /\ WF_vars(GraphLoadMarked)
  /\ WF_vars(GraphLoadFinished)
  /\ WF_vars(CMakeFinished)

FairSpec == Spec /\ Fairness
(***************************************************************************)
(* Properties.                                                             *)
(***************************************************************************)

DialogOK ==
  /\ dialogState \in State /\ visible \in BOOLEAN
  /\ btnParse \in BOOLEAN /\ btnCancel \in BOOLEAN
  /\ codebasePath \in Projects \cup {NoProject}
WorkerOK ==
  /\ tool \in Tool \cup {NoTool}
  /\ parseThread \in Threads \cup {NoThread} /\ threadSuccess \in BOOLEAN
  /\ thread \in [Threads -> Job] /\ signals \in Nat
WindowOK ==
  /\ project \in Projects \cup {NoProject} /\ past \subseteq Projects
  /\ load \in Load /\ connected \in BOOLEAN /\ label \in BOOLEAN /\ cmake \in BOOLEAN
DataOK ==
  /\ codeDb \in Content \cup {NoDb} /\ cadDb \in Content \cup {NoDb}
  /\ aborted \in {"no", "assertion", "exception", "null pointer", "thread destroyed",
                  "tool destroyed"}
  /\ strayed \in BOOLEAN /\ removalFailed \in BOOLEAN

(* Every variable has its type. *)
TypeOK == DialogOK /\ WorkerOK /\ WindowOK /\ DataOK

(* As long as the user changes neither the project nor the dialog under a  *)
(* parse, the process survives it: whatever is cancelled, fails or is      *)
(* delayed, the thread that is deleted has ended, and the tool of a thread *)
(* that runs is there.                                                     *)
SurvivesParse == ~strayed => aborted = "no"

(* Without straying, and once every removal of an old database worked, the *)
(* databases of the open project describe its own code.                    *)
OwnDatabase ==
  ~strayed /\ ~removalFailed =>
    \A db \in {codeDb, cadDb} : db = NoDb \/ db.of = project

(* The databases are not replaced under a graph load that reads them, from *)
(* graphLoadStarted's return until the load is over: the main window puts  *)
(* the dialog off.  (While graphLoadStarted delivers events they may be,   *)
(* but the scene has read nothing then.)                                   *)
ReplacedWhenIdle == [][load' = "running" => UNCHANGED dbVars]_vars

(* Without straying, a logical run works on a tool whose physical run was  *)
(* completed: it skips the physical pass (runFull(true)).                  *)
LogicalAfterPhysical ==
  [][\A t \in Threads :
       ~strayed /\ thread[t] = "started" /\ thread'[t] = "logical" => tool.pass = "physical"]_vars

(* A parse that has a thread is over at some time: the dialog is idle.     *)
ParseEnds == (dialogState # "Idle" /\ parseThread # NoThread) ~> (dialogState = "Idle" \/ ~Alive)
=============================================================================
