------------------------- MODULE ParseDialog_proofs -------------------------
(***************************************************************************)
(* Proofs about ParseDialog, for every set of projects, any number of      *)
(* threads and every user: type correctness, and that the databases are    *)
(* not replaced under a graph load that reads them; and, as long as the    *)
(* user does not stray, that the process survives its parses, that every   *)
(* database describes its own project, and that a logical run follows a    *)
(* complete physical one.                                                  *)
(***************************************************************************)
EXTENDS ParseDialog, TLAPS

Runs == {"physical", "logical", "refused"}

(* What TypeOK rests on: a run has its tool, a parse its path.             *)
Grounded ==
  /\ \A t \in Threads : thread[t] \in Runs => tool # NoTool
  /\ visible \/ label \/ cmake \/ parseThread # NoThread => codebasePath # NoProject

(* A parse is one thread, or the one signal it sent, or the connection     *)
(* that waits for the graph load.                                          *)
Single == \A t \in Threads : thread[t] # "free" => parseThread = t

Ended == parseThread # NoThread /\ thread[parseThread] = "free"
Outstanding ==
  /\ parseThread = NoThread => signals = 0 /\ ~connected
  /\ parseThread # NoThread /\ ~Ended => signals = 0 /\ ~connected
  /\ Ended => (signals = 1 /\ ~connected) \/ (signals = 0 /\ connected /\ load = "running")

(* The dialog is in a state of the parse as long as there is one.          *)
Parsing ==
  /\ parseThread # NoThread =>
       tool # NoTool /\ dialogState # "Idle" /\ codebasePath = project /\ ~cmake
  /\ cmake => dialogState \in RunPhysical /\ codebasePath = project
  /\ dialogState \in {"Killed", "RunAllLogical"} => parseThread # NoThread

(* What the thread does agrees with the state of the dialog.               *)
Agrees ==
  \A t \in Threads :
    /\ thread[t] \in {"physical", "logical"} /\ dialogState \in Running => ~tool.cancel
    /\ thread[t] = "physical" => dialogState \in RunPhysical \cup {"Killed"}
    /\ thread[t] = "logical" => dialogState \in {"RunAllLogical", "Killed"}
    /\ thread[t] = "nothing" => dialogState = "Killed"
    /\ thread[t] = "started" /\ dialogState = "RunAllLogical" => tool.pass = "physical"
Complete == Ended /\ dialogState = "RunAllPhysical" /\ threadSuccess => tool.pass = "physical"

(* Unless a removal failed, the tool goes with its parse.                  *)
Own ==
  ~removalFailed =>
    /\ tool # NoTool => parseThread # NoThread /\ tool.of = project
    /\ codeDb # NoDb => codeDb.of = project
    /\ cadDb # NoDb => cadDb.of = project

Lives == aborted = "no"
Sound == Lives /\ Single /\ Outstanding /\ Parsing /\ Agrees /\ Complete /\ Own
Safe == ~strayed => Sound

IInv == TypeOK /\ Grounded /\ Safe
USE DEF Alive, Input

(* Starting a thread keeps its part of the types.                          *)
LEMMA StartThreadType ==
  ASSUME TypeOK, Grounded, StartThread(tool), tool # NoTool \/ codebasePath # NoProject
  PROVE  /\ tool' \in Tool /\ parseThread' \in Threads /\ thread' \in [Threads -> Job]
         /\ label' = TRUE /\ btnParse' \in BOOLEAN
<1>1. PICK t \in Threads :
        /\ thread' = [thread EXCEPT ![t] = "started"] /\ parseThread' = t
        /\ tool' = IF tool # NoTool THEN tool
                   ELSE [of |-> codebasePath, pass |-> "nothing", cancel |-> FALSE]
        /\ label' = TRUE /\ btnParse' = FALSE
      BY DEF StartThread
<1>2. tool' \in Tool
      BY <1>1 DEF TypeOK, DialogOK, WorkerOK, Tool, Pass
<1> QED
    BY <1>1, <1>2 DEF TypeOK, WorkerOK, Job

(* The update keeps the types, and takes no tool from a thread that runs.  *)
LEMMA UpdateType ==
  ASSUME TypeOK, Grounded, updateDatabase
  PROVE  /\ dialogState' \in State /\ visible' \in BOOLEAN /\ (visible' => visible)
         /\ btnParse' \in BOOLEAN /\ btnCancel' \in BOOLEAN
         /\ tool' \in Tool \cup {NoTool} /\ parseThread' \in Threads \cup {NoThread}
         /\ thread' \in [Threads -> Job]
         /\ \A t \in Threads : thread'[t] \in Runs => tool' # NoTool
         /\ codeDb' \in Content \cup {NoDb} /\ cadDb' \in Content \cup {NoDb}
         /\ label' \in BOOLEAN /\ removalFailed' \in BOOLEAN
         /\ codebasePath # NoProject
<1>1. /\ parseThread \in Threads /\ tool \in Tool /\ dialogState # "Idle"
      /\ thread[parseThread] = "free" /\ codebasePath # NoProject
      /\ LastOfRun => \A t \in Threads : thread[t] \notin Runs
      BY DEF updateDatabase, Fatal, TypeOK, DialogOK, WorkerOK, Grounded, Runs, NoThread
<1>2. CASE RemovalFailed
      BY <1>1, <1>2 DEF RemovalFailed, ResetCad, TypeOK, DialogOK, WorkerOK, WindowOK, DataOK, Grounded, State, buttons
<1>3. CASE WriteDatabase
      <2> DEFINE code == [of |-> tool.of, pass |-> tool.pass]
      <2>1. code \in Content
            BY <1>1 DEF Tool, Content
      <2>2. codeDb' = code /\ removalFailed' = removalFailed /\ (EndLast(code) \/ EndPhysical(code))
            BY <1>3 DEF WriteDatabase
      <2> HIDE DEF code
      <2>3. CASE EndLast(code)
            BY <1>1, <2>1, <2>2, <2>3 DEF EndLast, ResetCad, TypeOK, DialogOK, WorkerOK, WindowOK, DataOK, State
      <2>4. CASE EndPhysical(code)
            <3>1. StartThread(tool) /\ tool # NoTool
                  BY <1>1, <2>4, NoneAssumption DEF EndPhysical
            <3>2. tool' = tool
                  BY <3>1 DEF StartThread
            <3> QED
                BY <1>1, <2>1, <2>2, <2>4, <3>1, <3>2, StartThreadType
                DEF EndPhysical, ResetCad, TypeOK, DialogOK, WorkerOK, WindowOK, DataOK, State, Running
      <2> QED
          BY <2>2, <2>3, <2>4
<1> QED
    BY <1>2, <1>3 DEF updateDatabase

LEMMA InitType == Init => TypeOK /\ Grounded
<1> SUFFICES ASSUME Init PROVE TypeOK /\ Grounded
    OBVIOUS
<1>1. DialogOK
      BY DEF Init, DialogOK, State
<1>2. WorkerOK
      BY DEF Init, WorkerOK, Job
<1>3. WindowOK
      BY DEF Init, WindowOK, Load
<1>4. DataOK
      BY DEF Init, DataOK
<1>5. Grounded
      BY DEF Init, Grounded, Runs
<1> QED
    BY <1>1, <1>2, <1>3, <1>4, <1>5 DEF TypeOK

(* Standing still, and dying, keep the types.                              *)
LEMMA StutterType ==
  ASSUME TypeOK, Grounded,
         UNCHANGED <<dialogVars, workerVars, cmake, windowVars, dbVars, history>>,
         aborted' \in {aborted, "assertion", "exception", "null pointer", "thread destroyed",
                      "tool destroyed"}
  PROVE  TypeOK' /\ Grounded'
<1> USE DEF dialogVars, buttons, windowVars, workerVars, dbVars, history
<1>1. DialogOK'
      BY DEF TypeOK, DialogOK
<1>2. WorkerOK'
      BY DEF TypeOK, WorkerOK
<1>3. WindowOK'
      BY DEF TypeOK, WindowOK
<1>4. DataOK'
      BY DEF TypeOK, DataOK
<1>5. Grounded'
      BY DEF TypeOK, Grounded
<1> QED
    BY <1>1, <1>2, <1>3, <1>4, <1>5 DEF TypeOK

(* The worker thread keeps the types.                                      *)
LEMMA WorkerType ==
  ASSUME TypeOK, Grounded, NEW t \in Threads, Worker(t)
  PROVE  TypeOK' /\ Grounded'
<1> USE DEF dialogVars, buttons, windowVars, dbVars, history
<1>1. ASSUME NEW j \in Job, j \in Runs => tool # NoTool,
             thread' = [thread EXCEPT ![t] = j], tool' \in Tool \cup {NoTool},
             tool # NoTool => tool' # NoTool,
             threadSuccess' \in BOOLEAN, signals' \in Nat,
             UNCHANGED <<dialogVars, parseThread, cmake, windowVars, dbVars, aborted, history>>
      PROVE  TypeOK' /\ Grounded'
      <2>1. DialogOK'
            BY <1>1 DEF TypeOK, DialogOK
      <2>2. WorkerOK'
            BY <1>1 DEF TypeOK, WorkerOK
      <2>3. WindowOK'
            BY <1>1 DEF TypeOK, WindowOK
      <2>4. DataOK'
            BY <1>1 DEF TypeOK, DataOK
      <2>5. Grounded'
            BY <1>1 DEF TypeOK, Grounded
      <2> QED
          BY <2>1, <2>2, <2>3, <2>4, <2>5 DEF TypeOK
<1>2. CASE BeginRun(t)
      <2>1. CASE tool = NoTool /\ Abort("assertion")
            BY <2>1, StutterType DEF Abort
      <2>2. CASE tool # NoTool
            <3> DEFINE j == IF dialogState \notin Running THEN "nothing"
                            ELSE IF tool.cancel THEN "refused"
                            ELSE IF dialogState \in RunPhysical THEN "physical"
                            ELSE "logical"
            <3>1. j \in Job
                  BY DEF Job
            <3>2. thread' = [thread EXCEPT ![t] = j]
                  BY <1>2, <2>2 DEF BeginRun
            <3>3. UNCHANGED <<dialogVars, tool, parseThread, threadSuccess, signals, cmake, windowVars,
                              dbVars, aborted, history>>
                  BY <1>2, <2>2 DEF BeginRun
            <3> HIDE DEF j
            <3> QED
                BY <1>1, <2>2, <3>1, <3>2, <3>3 DEF TypeOK, WorkerOK
      <2> QED
          BY <1>2, <2>1, <2>2 DEF BeginRun
<1>3. CASE EndRun(t)
      <2>1. tool \in Tool /\ thread[t] \in Pass
            BY <1>3 DEF EndRun, TypeOK, WorkerOK, Grounded, Runs, Pass
      <2>2. tool.pass \in Pass
            BY <2>1 DEF Tool
      <2>3. PICK success \in BOOLEAN, cut \in BOOLEAN, p \in Pass :
              /\ threadSuccess' = success
              /\ tool' = [tool EXCEPT !.pass = p, !.cancel = @ /\ ~cut]
            BY <1>3, <2>1, <2>2 DEF EndRun, Pass
      <2>4. tool' \in Tool
            BY <2>1, <2>3 DEF Tool
      <2> QED
          BY <1>1, <1>3, <2>3, <2>4, NoneAssumption DEF EndRun, Job, Runs, TypeOK, WorkerOK
<1>4. CASE EndRefused(t)
      <2>1. tool \in Tool
            BY <1>4 DEF EndRefused, TypeOK, WorkerOK, Grounded, Runs
      <2>2. tool' \in Tool
            BY <1>4, <2>1 DEF EndRefused, Tool
      <2>3. "free" \in Job /\ "free" \notin Runs /\ signals + 1 \in Nat
            BY DEF Job, Runs, TypeOK, WorkerOK
      <2> QED
          BY <1>1, <1>4, <2>2, <2>3, NoneAssumption DEF EndRefused
<1>5. CASE EndNothing(t)
      <2>1. "free" \in Job /\ "free" \notin Runs /\ signals + 1 \in Nat
            BY DEF Job, Runs, TypeOK, WorkerOK
      <2> QED
          BY <1>1, <1>5, <2>1 DEF EndNothing, TypeOK, WorkerOK
<1> QED
    BY <1>2, <1>3, <1>4, <1>5 DEF Worker

(* The main window keeps the types.                                        *)
LEMMA WindowType ==
  ASSUME TypeOK, Grounded,
         \/ \E p \in Projects : OpenProject(p)
         \/ CloseProject \/ EditCad \/ GraphLoadStarted \/ GraphLoadMarked
  PROVE  TypeOK' /\ Grounded'
<1> USE DEF dialogVars, buttons, windowVars, workerVars, dbVars, history
<1>1. ASSUME NEW p \in Projects, OpenProject(p) PROVE TypeOK' /\ Grounded'
      <2>0. [of |-> p, pass |-> "logical"] \in Content
            BY DEF Content, Pass
      <2>1. DialogOK'
            BY <1>1 DEF OpenProject, TypeOK, DialogOK
      <2>2. WorkerOK'
            BY <1>1 DEF OpenProject, TypeOK, WorkerOK
      <2>3. WindowOK'
            BY <1>1 DEF OpenProject, TypeOK, WindowOK
      <2>4. DataOK'
            BY <1>1, <2>0 DEF OpenProject, TypeOK, DataOK
      <2>5. Grounded'
            BY <1>1 DEF OpenProject, TypeOK, Grounded
      <2> QED
          BY <2>1, <2>2, <2>3, <2>4, <2>5 DEF TypeOK
<1>2. CASE CloseProject
      <2>1. DialogOK'
            BY <1>2 DEF CloseProject, Stray, TypeOK, DialogOK
      <2>2. WorkerOK'
            BY <1>2 DEF CloseProject, Stray, TypeOK, WorkerOK
      <2>3. WindowOK'
            BY <1>2 DEF CloseProject, Stray, TypeOK, WindowOK
      <2>4. DataOK'
            BY <1>2 DEF CloseProject, Stray, TypeOK, DataOK
      <2>5. Grounded'
            BY <1>2 DEF CloseProject, Stray, TypeOK, Grounded
      <2> QED
          BY <2>1, <2>2, <2>3, <2>4, <2>5 DEF TypeOK
<1>3. CASE EditCad
      <2>0. [of |-> project, pass |-> "edited"] \in Content
            BY <1>3 DEF EditCad, Content, TypeOK, WindowOK
      <2>1. DialogOK'
            BY <1>3 DEF EditCad, TypeOK, DialogOK
      <2>2. WorkerOK'
            BY <1>3 DEF EditCad, TypeOK, WorkerOK
      <2>3. WindowOK'
            BY <1>3 DEF EditCad, TypeOK, WindowOK
      <2>4. DataOK'
            BY <1>3, <2>0 DEF EditCad, TypeOK, DataOK
      <2>5. Grounded'
            BY <1>3 DEF EditCad, TypeOK, Grounded
      <2> QED
          BY <2>1, <2>2, <2>3, <2>4, <2>5 DEF TypeOK
<1>4. CASE GraphLoadStarted \/ GraphLoadMarked
      <2>1. DialogOK'
            BY <1>4 DEF GraphLoadStarted, GraphLoadMarked, TypeOK, DialogOK
      <2>2. WorkerOK'
            BY <1>4 DEF GraphLoadStarted, GraphLoadMarked, TypeOK, WorkerOK
      <2>3. WindowOK'
            BY <1>4 DEF GraphLoadStarted, GraphLoadMarked, TypeOK, WindowOK, Load
      <2>4. DataOK'
            BY <1>4 DEF GraphLoadStarted, GraphLoadMarked, TypeOK, DataOK
      <2>5. Grounded'
            BY <1>4 DEF GraphLoadStarted, GraphLoadMarked, TypeOK, Grounded
      <2> QED
          BY <2>1, <2>2, <2>3, <2>4, <2>5 DEF TypeOK
<1> QED
    BY <1>1, <1>2, <1>3, <1>4

(* The user at the dialog keeps the types.                                 *)
LEMMA UserType ==
  ASSUME TypeOK, Grounded,
         \/ OpenDialog \/ ShowFromStatusBar \/ EditFields \/ Hide
         \/ Parse \/ ParseWithoutCMake \/ Cancel
  PROVE  TypeOK' /\ Grounded'
<1> USE DEF dialogVars, buttons, windowVars, workerVars, dbVars, history
<1>1. CASE OpenDialog
      <2>1. DialogOK'
            BY <1>1, ProjectsAssumption DEF OpenDialog, Show, Stray, State, TypeOK,
               WindowOK, DialogOK
      <2>2. WorkerOK'
            BY <1>1, ProjectsAssumption DEF OpenDialog, Show, Stray, State, TypeOK,
               WorkerOK
      <2>3. WindowOK'
            BY <1>1, ProjectsAssumption DEF OpenDialog, Show, Stray, State, TypeOK,
               WindowOK
      <2>4. DataOK'
            BY <1>1, ProjectsAssumption DEF OpenDialog, Show, Stray, State, TypeOK,
               DataOK
      <2>5. Grounded'
            BY <1>1, ProjectsAssumption DEF OpenDialog, Show, Stray, State, TypeOK,
               WindowOK, Grounded
      <2> QED
          BY <2>1, <2>2, <2>3, <2>4, <2>5 DEF TypeOK
<1>2. CASE ShowFromStatusBar
      <2>1. DialogOK'
            BY <1>2 DEF ShowFromStatusBar, Show, Stray, State, TypeOK, DialogOK
      <2>2. WorkerOK'
            BY <1>2 DEF ShowFromStatusBar, Show, Stray, State, TypeOK, WorkerOK
      <2>3. WindowOK'
            BY <1>2 DEF ShowFromStatusBar, Show, Stray, State, TypeOK, WindowOK
      <2>4. DataOK'
            BY <1>2 DEF ShowFromStatusBar, Show, Stray, State, TypeOK, DataOK
      <2>5. Grounded'
            BY <1>2 DEF ShowFromStatusBar, Show, Stray, State, TypeOK, Grounded
      <2> QED
          BY <2>1, <2>2, <2>3, <2>4, <2>5 DEF TypeOK
<1>3. CASE EditFields
      <2>1. DialogOK'
            BY <1>3 DEF EditFields, TypeOK, DialogOK
      <2>2. WorkerOK'
            BY <1>3 DEF EditFields, TypeOK, WorkerOK
      <2>3. WindowOK'
            BY <1>3 DEF EditFields, TypeOK, WindowOK
      <2>4. DataOK'
            BY <1>3 DEF EditFields, TypeOK, DataOK
      <2>5. Grounded'
            BY <1>3 DEF EditFields, TypeOK, Grounded
      <2> QED
          BY <2>1, <2>2, <2>3, <2>4, <2>5 DEF TypeOK
<1>4. CASE Hide
      <2>1. DialogOK'
            BY <1>4 DEF Hide, TypeOK, DialogOK
      <2>2. WorkerOK'
            BY <1>4 DEF Hide, TypeOK, WorkerOK
      <2>3. WindowOK'
            BY <1>4 DEF Hide, TypeOK, WindowOK
      <2>4. DataOK'
            BY <1>4 DEF Hide, TypeOK, DataOK
      <2>5. Grounded'
            BY <1>4 DEF Hide, TypeOK, Grounded
      <2> QED
          BY <2>1, <2>2, <2>3, <2>4, <2>5 DEF TypeOK
<1>5. CASE Parse
      <2>a. /\ codebasePath # NoProject /\ dialogState' \in State /\ btnCancel' = TRUE
            /\ strayed' \in BOOLEAN /\ visible
            /\ UNCHANGED <<visible, codebasePath, threadSuccess, signals, project, past, load,
                           connected, dbVars, aborted, removalFailed>>
            BY <1>5 DEF Parse, Grounded, RunPhysical, State, Running, TypeOK, DataOK, Stray
      <2>b. CASE StartThread(tool) /\ UNCHANGED cmake
            <3>a. tool' \in Tool /\ tool' # NoTool /\ parseThread' \in Threads
                  /\ thread' \in [Threads -> Job] /\ label' = TRUE /\ btnParse' \in BOOLEAN
                  BY <2>a, <2>b, StartThreadType, NoneAssumption
            <3>1. DialogOK'
                  BY <2>a, <2>b, <3>a DEF TypeOK, DialogOK
            <3>2. WorkerOK'
                  BY <2>a, <2>b, <3>a DEF TypeOK, WorkerOK
            <3>3. WindowOK'
                  BY <2>a, <2>b, <3>a DEF TypeOK, WindowOK
            <3>4. DataOK'
                  BY <2>a, <2>b, <3>a DEF TypeOK, DataOK
            <3>5. Grounded'
                  BY <2>a, <2>b, <3>a DEF TypeOK, Grounded
            <3> QED
                BY <3>1, <3>2, <3>3, <3>4, <3>5 DEF TypeOK
      <2>c. CASE cmake' = TRUE /\ btnParse' = FALSE /\ UNCHANGED <<tool, parseThread, thread, label>>
            <3>1. DialogOK'
                  BY <2>a, <2>c DEF TypeOK, DialogOK
            <3>2. WorkerOK'
                  BY <2>a, <2>c DEF TypeOK, WorkerOK
            <3>3. WindowOK'
                  BY <2>a, <2>c DEF TypeOK, WindowOK
            <3>4. DataOK'
                  BY <2>a, <2>c DEF TypeOK, DataOK
            <3>5. Grounded'
                  BY <2>a, <2>c DEF TypeOK, Grounded
            <3> QED
                BY <3>1, <3>2, <3>3, <3>4, <3>5 DEF TypeOK
      <2> QED
          BY <1>5, <2>b, <2>c DEF Parse
<1>6. CASE ParseWithoutCMake
      <2>1. DialogOK'
            BY <1>6 DEF ParseWithoutCMake, RunPhysical, State, Running, TypeOK,
               DialogOK
      <2>2. WorkerOK'
            BY <1>6 DEF ParseWithoutCMake, RunPhysical, State, Running, TypeOK,
               WorkerOK
      <2>3. WindowOK'
            BY <1>6 DEF ParseWithoutCMake, RunPhysical, State, Running, TypeOK,
               WindowOK
      <2>4. DataOK'
            BY <1>6 DEF ParseWithoutCMake, RunPhysical, State, Running, TypeOK,
               DataOK
      <2>5. Grounded'
            BY <1>6 DEF ParseWithoutCMake, RunPhysical, State, Running, TypeOK,
               Grounded
      <2> QED
          BY <2>1, <2>2, <2>3, <2>4, <2>5 DEF TypeOK
<1>7. CASE Cancel
      <2>0. tool' \in Tool \cup {NoTool} /\ (tool # NoTool => tool' # NoTool)
            BY <1>7, NoneAssumption DEF Cancel, TypeOK, WorkerOK, Tool
      <2>1. DialogOK'
            BY <1>7, <2>0 DEF Cancel, ResetCad, State, TypeOK, DialogOK
      <2>2. WorkerOK'
            BY <1>7, <2>0 DEF Cancel, ResetCad, State, TypeOK, WorkerOK
      <2>3. WindowOK'
            BY <1>7, <2>0 DEF Cancel, ResetCad, State, TypeOK, WindowOK
      <2>4. DataOK'
            BY <1>7, <2>0 DEF Cancel, ResetCad, State, TypeOK, DataOK
      <2>5. Grounded'
            BY <1>7, <2>0 DEF Cancel, ResetCad, State, TypeOK, Grounded
      <2> QED
          BY <2>1, <2>2, <2>3, <2>4, <2>5 DEF TypeOK
<1> QED
    BY <1>1, <1>2, <1>3, <1>4, <1>5, <1>6, <1>7

(* The signals, CMake and the end of a graph load keep the types.          *)
LEMMA EventType ==
  ASSUME TypeOK, Grounded, ReadyForUpdate \/ GraphLoadFinished \/ CMakeFinished
  PROVE  TypeOK' /\ Grounded'
<1> USE DEF dialogVars, buttons, windowVars, workerVars, dbVars, history
<1>1. CASE \E why \in {"assertion", "exception", "null pointer", "thread destroyed",
                       "tool destroyed"} : Abort(why)
      BY <1>1, StutterType DEF Abort
<1>2. Fatal # "no" => Fatal \in {"assertion", "exception", "null pointer", "thread destroyed",
                                 "tool destroyed"}
      BY DEF Fatal
<1>3. CASE signals' \in Nat /\ load' \in Load /\ connected' \in BOOLEAN /\ updateDatabase
      <2>1. DialogOK'
            BY <1>3, UpdateType DEF updateDatabase, TypeOK, DialogOK
      <2>2. WorkerOK'
            BY <1>3, UpdateType DEF updateDatabase, TypeOK, WorkerOK
      <2>3. WindowOK'
            BY <1>3, UpdateType DEF updateDatabase, TypeOK, WindowOK
      <2>4. DataOK'
            BY <1>3, UpdateType DEF updateDatabase, TypeOK, DataOK
      <2>5. Grounded'
            BY <1>3, UpdateType DEF updateDatabase, TypeOK, Grounded
      <2> QED
          BY <2>1, <2>2, <2>3, <2>4, <2>5 DEF TypeOK
<1>4. CASE ReadyForUpdate
      <2>a. signals - 1 \in Nat
            BY <1>4 DEF ReadyForUpdate, TypeOK, WorkerOK
      <2>b. CASE ConnectUpdate
            <3>1. DialogOK'
                  BY <2>a, <2>b DEF ConnectUpdate, TypeOK, DialogOK
            <3>2. WorkerOK'
                  BY <2>a, <2>b DEF ConnectUpdate, TypeOK, WorkerOK
            <3>3. WindowOK'
                  BY <2>a, <2>b DEF ConnectUpdate, TypeOK, WindowOK
            <3>4. DataOK'
                  BY <2>a, <2>b DEF ConnectUpdate, TypeOK, DataOK
            <3>5. Grounded'
                  BY <2>a, <2>b DEF ConnectUpdate, TypeOK, Grounded
            <3> QED
                BY <3>1, <3>2, <3>3, <3>4, <3>5 DEF TypeOK
      <2> QED
          BY <1>1, <1>2, <1>3, <1>4, <2>a, <2>b DEF ReadyForUpdate, TypeOK, WindowOK, Load
<1>5. CASE GraphLoadFinished
      <2>b. CASE ~connected /\ load' = "none"
                 /\ UNCHANGED <<dialogVars, workerVars, cmake, project, past, connected, label, dbVars,
                                aborted, history>>
            <3>1. DialogOK'
                  BY <2>b DEF TypeOK, DialogOK
            <3>2. WorkerOK'
                  BY <2>b DEF TypeOK, WorkerOK
            <3>3. WindowOK'
                  BY <2>b DEF TypeOK, WindowOK, Load
            <3>4. DataOK'
                  BY <2>b DEF TypeOK, DataOK
            <3>5. Grounded'
                  BY <2>b DEF TypeOK, Grounded
            <3> QED
                BY <3>1, <3>2, <3>3, <3>4, <3>5 DEF TypeOK
      <2> QED
          BY <1>1, <1>2, <1>3, <1>5, <2>b DEF GraphLoadFinished, TypeOK, WorkerOK, Load
<1>6. CASE CMakeFinished
      <2>b. CASE /\ StartThread(tool) /\ cmake' = FALSE
                 /\ UNCHANGED <<dialogState, visible, btnCancel, codebasePath, threadSuccess, signals,
                                project, past, load, connected, dbVars, aborted, history>>
            <3>a. codebasePath # NoProject
                  BY <1>6 DEF CMakeFinished, Grounded
            <3>b. tool' \in Tool /\ tool' # NoTool /\ parseThread' \in Threads
                  /\ thread' \in [Threads -> Job] /\ label' = TRUE /\ btnParse' \in BOOLEAN
                  BY <2>b, <3>a, StartThreadType, NoneAssumption
            <3>1. DialogOK'
                  BY <2>b, <3>a, <3>b DEF TypeOK, DialogOK
            <3>2. WorkerOK'
                  BY <2>b, <3>a, <3>b DEF TypeOK, WorkerOK
            <3>3. WindowOK'
                  BY <2>b, <3>a, <3>b DEF TypeOK, WindowOK
            <3>4. DataOK'
                  BY <2>b, <3>a, <3>b DEF TypeOK, DataOK
            <3>5. Grounded'
                  BY <2>b, <3>a, <3>b DEF TypeOK, Grounded
            <3> QED
                BY <3>1, <3>2, <3>3, <3>4, <3>5 DEF TypeOK
      <2>c. CASE /\ btnParse' = TRUE /\ btnCancel' = FALSE /\ cmake' = FALSE
                 /\ UNCHANGED <<dialogState, visible, codebasePath, workerVars, windowVars, dbVars,
                                aborted, history>>
            <3>1. DialogOK'
                  BY <2>c DEF TypeOK, DialogOK
            <3>2. WorkerOK'
                  BY <2>c DEF TypeOK, WorkerOK
            <3>3. WindowOK'
                  BY <2>c DEF TypeOK, WindowOK
            <3>4. DataOK'
                  BY <2>c DEF TypeOK, DataOK
            <3>5. Grounded'
                  BY <2>c DEF TypeOK, Grounded
            <3> QED
                BY <3>1, <3>2, <3>3, <3>4, <3>5 DEF TypeOK
      <2> QED
          BY <1>1, <1>6, <2>b, <2>c DEF CMakeFinished
<1> QED
    BY <1>4, <1>5, <1>6

LEMMA NextType == TypeOK /\ Grounded /\ [Next]_vars => TypeOK' /\ Grounded'
<1>1. CASE TypeOK /\ Grounded /\ UNCHANGED vars
      BY <1>1, StutterType DEF vars
<1> QED
    BY <1>1, WorkerType, WindowType, UserType, EventType DEF Next

(* Every variable of the dialog, its worker and the main window keeps its  *)
(* type, whatever the user does.                                           *)
THEOREM TypeCorrect == Spec => []TypeOK
<1> QED
    BY InitType, NextType, PTL DEF Spec

(* The databases are not replaced while a graph load reads them, whoever   *)
(* asked for it and whatever the user does.                                *)
LEMMA IdleStep == TypeOK /\ [Next]_vars => (load' = "running" => UNCHANGED dbVars)
<1> SUFFICES ASSUME TypeOK, [Next]_vars, load' = "running" PROVE UNCHANGED dbVars
    OBVIOUS
<1> USE DEF dbVars, windowVars
<1>1. CASE UNCHANGED vars
      BY <1>1 DEF vars
<1>2. ASSUME NEW why, Abort(why) PROVE UNCHANGED dbVars
      BY <1>2 DEF Abort
<1>3. ASSUME NEW p \in Projects, OpenProject(p) PROVE UNCHANGED dbVars
      BY <1>3 DEF OpenProject
<1>4. CASE CloseProject \/ EditCad \/ GraphLoadStarted \/ GraphLoadMarked
      BY <1>4 DEF CloseProject, EditCad, GraphLoadStarted, GraphLoadMarked
<1>5. CASE OpenDialog \/ ShowFromStatusBar \/ EditFields \/ Hide
      BY <1>5 DEF OpenDialog, ShowFromStatusBar, Show, EditFields, Hide
<1>6. CASE Parse \/ ParseWithoutCMake \/ Cancel
      BY <1>6 DEF Parse, ParseWithoutCMake, Cancel
<1>7. CASE ReadyForUpdate
      BY <1>2, <1>7 DEF ReadyForUpdate, ConnectUpdate
<1>8. CASE GraphLoadFinished
      BY <1>2, <1>8 DEF GraphLoadFinished
<1>9. CASE CMakeFinished
      BY <1>2, <1>9 DEF CMakeFinished
<1>10. ASSUME NEW t \in Threads, Worker(t) PROVE UNCHANGED dbVars
      BY <1>2, <1>10 DEF Worker, BeginRun, EndRun, EndRefused, EndNothing
<1> QED
    BY <1>1, <1>3, <1>4, <1>5, <1>6, <1>7, <1>8, <1>9, <1>10 DEF Next

(* The databases are never replaced under a graph load that reads them:    *)
(* from the return of graphLoadStarted to graphLoadFinished.               *)
THEOREM DatabasesRest == Spec => ReplacedWhenIdle
<1> QED
    BY InitType, NextType, IdleStep, PTL DEF Spec, ReplacedWhenIdle

(* Once the user has strayed, it stays so.                                 *)
LEMMA StrayStep == TypeOK /\ Next /\ ~strayed' => ~strayed
<1> SUFFICES ASSUME TypeOK, Next, strayed PROVE strayed'
    BY DEF TypeOK, DataOK
<1> USE DEF history, Stray
<1>2. ASSUME NEW why, Abort(why) PROVE strayed'
      BY <1>2 DEF Abort
<1>3. ASSUME NEW p \in Projects, OpenProject(p) PROVE strayed'
      BY <1>3 DEF OpenProject
<1>4. CASE CloseProject \/ EditCad \/ GraphLoadStarted \/ GraphLoadMarked
      BY <1>4 DEF CloseProject, EditCad, GraphLoadStarted, GraphLoadMarked
<1>5. CASE OpenDialog \/ ShowFromStatusBar \/ EditFields \/ Hide
      BY <1>5 DEF OpenDialog, ShowFromStatusBar, Show, EditFields, Hide
<1>6. CASE Parse \/ ParseWithoutCMake \/ Cancel
      BY <1>6 DEF Parse, ParseWithoutCMake, Cancel
<1>7. CASE ReadyForUpdate
      BY <1>2, <1>7 DEF ReadyForUpdate, ConnectUpdate, updateDatabase
<1>8. CASE GraphLoadFinished
      BY <1>2, <1>8 DEF GraphLoadFinished, updateDatabase
<1>9. CASE CMakeFinished
      BY <1>2, <1>9 DEF CMakeFinished
<1>10. ASSUME NEW t \in Threads, Worker(t) PROVE strayed'
      BY <1>2, <1>10 DEF Worker, BeginRun, EndRun, EndRefused, EndNothing
<1> QED
    BY <1>3, <1>4, <1>5, <1>6, <1>7, <1>8, <1>9, <1>10 DEF Next

LEMMA InitSafe == Init => Safe
<1> SUFFICES ASSUME Init PROVE Sound
    BY DEF Safe
<1> USE DEF Init, NoThread
<1>1. Lives
      BY DEF Lives
<1>2. Single
      BY DEF Single
<1>3. Outstanding
      BY DEF Outstanding, Ended, Single
<1>4. Parsing
      BY DEF Parsing, Single, RunPhysical
<1>5. Agrees
      BY DEF Agrees, Single, Parsing, RunPhysical
<1>6. Complete
      BY DEF Complete, Ended
<1>7. Own
      BY DEF Own, Parsing
<1> QED
    BY <1>1, <1>2, <1>3, <1>4, <1>5, <1>6, <1>7 DEF Sound

(* Standing still is safe.                                                 *)
LEMMA StutterSafe ==
  ASSUME Sound, UNCHANGED vars
  PROVE  Sound'
<1> USE DEF vars, dialogVars, buttons, windowVars, workerVars, dbVars, history, Sound
<1>1. Lives'
      BY DEF Lives
<1>2. Single'
      BY DEF Single
<1>3. Outstanding'
      BY DEF Outstanding, Ended, Single
<1>4. Parsing'
      BY DEF Parsing, Single
<1>5. Agrees'
      BY DEF Agrees, Single, Parsing
<1>6. Complete'
      BY DEF Complete, Ended
<1>7. Own'
      BY DEF Own, Parsing
<1> QED
    BY <1>1, <1>2, <1>3, <1>4, <1>5, <1>6, <1>7 DEF Sound

(* The main window: a project is changed only when no parse is under way.  *)
LEMMA WindowSafe ==
  ASSUME TypeOK, Grounded, Sound, ~strayed',
         \/ \E p \in Projects : OpenProject(p)
         \/ CloseProject \/ EditCad \/ GraphLoadStarted \/ GraphLoadMarked
  PROVE  Sound'
<1> USE DEF dialogVars, buttons, windowVars, workerVars, dbVars, history, Sound
<1>1. ASSUME NEW p \in Projects, OpenProject(p) PROVE Sound'
      <2>0. ~cmake /\ parseThread = NoThread
            BY <1>1 DEF OpenProject, Parsing, Grounded
      <2>1. Lives'
            BY <1>1, <2>0 DEF OpenProject, Lives
      <2>2. Single'
            BY <1>1, <2>0 DEF OpenProject, Single
      <2>3. Outstanding'
            BY <1>1, <2>0 DEF OpenProject, Outstanding, Ended, Single
      <2>4. Parsing'
            BY <1>1, <2>0 DEF OpenProject, Parsing, Single
      <2>5. Agrees'
            BY <1>1, <2>0 DEF OpenProject, Agrees, Single, Parsing
      <2>6. Complete'
            BY <1>1, <2>0 DEF OpenProject, Complete, Ended
      <2>7. Own'
            BY <1>1, <2>0 DEF OpenProject, Own, Parsing
      <2> QED
          BY <2>1, <2>2, <2>3, <2>4, <2>5, <2>6, <2>7 DEF Sound
<1>2. CASE CloseProject
      <2>0. ~cmake /\ parseThread = NoThread
            BY <1>2 DEF CloseProject, Stray, Busy
      <2>1. Lives'
            BY <1>2, <2>0 DEF CloseProject, Lives
      <2>2. Single'
            BY <1>2, <2>0 DEF CloseProject, Single
      <2>3. Outstanding'
            BY <1>2, <2>0 DEF CloseProject, Outstanding, Ended, Single
      <2>4. Parsing'
            BY <1>2, <2>0 DEF CloseProject, Parsing, Single
      <2>5. Agrees'
            BY <1>2, <2>0 DEF CloseProject, Agrees, Single, Parsing
      <2>6. Complete'
            BY <1>2, <2>0 DEF CloseProject, Complete, Ended
      <2>7. Own'
            BY <1>2, <2>0 DEF CloseProject, Own, Parsing
      <2> QED
          BY <2>1, <2>2, <2>3, <2>4, <2>5, <2>6, <2>7 DEF Sound
<1>3. CASE EditCad
      <2>1. Lives'
            BY <1>3 DEF EditCad, Lives
      <2>2. Single'
            BY <1>3 DEF EditCad, Single
      <2>3. Outstanding'
            BY <1>3 DEF EditCad, Outstanding, Ended, Single
      <2>4. Parsing'
            BY <1>3 DEF EditCad, Parsing, Single
      <2>5. Agrees'
            BY <1>3 DEF EditCad, Agrees, Single, Parsing
      <2>6. Complete'
            BY <1>3 DEF EditCad, Complete, Ended
      <2>7. Own'
            BY <1>3 DEF EditCad, Own, Parsing
      <2> QED
          BY <2>1, <2>2, <2>3, <2>4, <2>5, <2>6, <2>7 DEF Sound
<1>4. CASE GraphLoadStarted \/ GraphLoadMarked
      <2>1. Lives'
            BY <1>4 DEF GraphLoadStarted, GraphLoadMarked, Lives
      <2>2. Single'
            BY <1>4 DEF GraphLoadStarted, GraphLoadMarked, Single
      <2>3. Outstanding'
            BY <1>4 DEF GraphLoadStarted, GraphLoadMarked, Outstanding, Ended, Single
      <2>4. Parsing'
            BY <1>4 DEF GraphLoadStarted, GraphLoadMarked, Parsing, Single
      <2>5. Agrees'
            BY <1>4 DEF GraphLoadStarted, GraphLoadMarked, Agrees, Single, Parsing
      <2>6. Complete'
            BY <1>4 DEF GraphLoadStarted, GraphLoadMarked, Complete, Ended
      <2>7. Own'
            BY <1>4 DEF GraphLoadStarted, GraphLoadMarked, Own, Parsing
      <2> QED
          BY <2>1, <2>2, <2>3, <2>4, <2>5, <2>6, <2>7 DEF Sound
<1> QED
    BY <1>1, <1>2, <1>3, <1>4

(* Starting a thread when there is none.                                   *)
LEMMA StartSafe ==
  ASSUME TypeOK, Grounded, Sound, parseThread = NoThread, codebasePath # NoProject,
         codebasePath = project, StartThread(tool),
         dialogState' \in RunPhysical, ~cmake',
         UNCHANGED <<codebasePath, project, signals, connected, dbVars, aborted, removalFailed>>
  PROVE  Sound'
<1> USE DEF dbVars, Sound
<1>a. PICK t \in Threads : /\ parseThread' = t /\ thread' = [thread EXCEPT ![t] = "started"]
           /\ tool' = IF tool # NoTool THEN tool
                         ELSE [of |-> codebasePath, pass |-> "nothing", cancel |-> FALSE]
      BY DEF StartThread
<1>b. /\ \A u \in Threads : thread[u] = "free"
      /\ \A u \in Threads : thread'[u] = IF u = t THEN "started" ELSE "free"
      /\ t # NoThread
      BY <1>a DEF Single, TypeOK, WorkerOK, Threads, NoThread
<1>c. tool' \in Tool /\ tool' # NoTool
      BY StartThreadType, NoneAssumption
<1>d. ~removalFailed => tool'.of = project
      BY <1>a DEF Own
<1>e. dialogState' # "Idle" /\ dialogState' \notin {"Killed", "RunAllLogical"}
      BY DEF RunPhysical
<1>1. Lives'
      BY <1>a, <1>b, <1>c, <1>d, <1>e DEF Lives
<1>2. Single'
      BY <1>a, <1>b, <1>c, <1>d, <1>e DEF Single
<1>3. Outstanding'
      BY <1>a, <1>b, <1>c, <1>d, <1>e DEF Outstanding, Ended, Single
<1>4. Parsing'
      BY <1>a, <1>b, <1>c, <1>d, <1>e DEF Parsing, Single
<1>5. Agrees'
      BY <1>a, <1>b, <1>c, <1>d, <1>e DEF Agrees, Single, Parsing
<1>6. Complete'
      BY <1>a, <1>b, <1>c, <1>d, <1>e DEF Complete, Ended
<1>7. Own'
      BY <1>a, <1>b, <1>c, <1>d, <1>e DEF Own, Parsing
<1> QED
    BY <1>1, <1>2, <1>3, <1>4, <1>5, <1>6, <1>7 DEF Sound

(* The user at the dialog, where a reset is one of an idle dialog.         *)
LEMMA UserSafe ==
  ASSUME TypeOK, Grounded, Sound, ~strayed',
         \/ OpenDialog \/ ShowFromStatusBar \/ EditFields \/ Hide
         \/ Parse \/ ParseWithoutCMake \/ Cancel
  PROVE  Sound'
<1> USE DEF dialogVars, buttons, windowVars, workerVars, dbVars, history, Sound
<1>1. CASE OpenDialog \/ ShowFromStatusBar
      <2>a. /\ codebasePath' \in {codebasePath, project}
            /\ UNCHANGED <<tool, parseThread, threadSuccess, thread, signals, cmake, project, load,
                           connected, dbVars, aborted, removalFailed>>
            BY <1>1 DEF OpenDialog, ShowFromStatusBar, Show
      <2>b. dialogState' = dialogState \/ (dialogState' = "Idle" /\ ~cmake /\ parseThread = NoThread)
            BY <1>1 DEF OpenDialog, ShowFromStatusBar, Show, Stray, Busy
      <2>c. codebasePath' = codebasePath \/ (codebasePath' = project)
            BY <2>a
      <2>d. parseThread = NoThread => \A t \in Threads : thread[t] = "free"
            BY DEF Single, TypeOK, WorkerOK, Threads, NoThread
      <2>1. Lives'
            BY <2>a, <2>b, <2>c, <2>d DEF RunPhysical, Running, Lives
      <2>2. Single'
            BY <2>a, <2>b, <2>c, <2>d DEF RunPhysical, Running, Single
      <2>3. Outstanding'
            BY <2>a, <2>b, <2>c, <2>d DEF RunPhysical, Running, Outstanding, Ended,
               Single
      <2>4. Parsing'
            BY <2>a, <2>b, <2>c, <2>d DEF RunPhysical, Running, Parsing, Single
      <2>5. Agrees'
            BY <2>a, <2>b, <2>c, <2>d DEF RunPhysical, Running, Agrees, Single,
               Parsing
      <2>6. Complete'
            BY <2>a, <2>b, <2>c, <2>d DEF RunPhysical, Running, Complete, Ended
      <2>7. Own'
            BY <2>a, <2>b, <2>c, <2>d DEF RunPhysical, Running, Own, Parsing
      <2> QED
          BY <2>1, <2>2, <2>3, <2>4, <2>5, <2>6, <2>7 DEF Sound
<1>2. CASE EditFields \/ Hide
      <2>1. Lives'
            BY <1>2 DEF EditFields, Hide, Lives
      <2>2. Single'
            BY <1>2 DEF EditFields, Hide, Single
      <2>3. Outstanding'
            BY <1>2 DEF EditFields, Hide, Outstanding, Ended, Single
      <2>4. Parsing'
            BY <1>2 DEF EditFields, Hide, Parsing, Single
      <2>5. Agrees'
            BY <1>2 DEF EditFields, Hide, Agrees, Single, Parsing
      <2>6. Complete'
            BY <1>2 DEF EditFields, Hide, Complete, Ended
      <2>7. Own'
            BY <1>2 DEF EditFields, Hide, Own, Parsing
      <2> QED
          BY <2>1, <2>2, <2>3, <2>4, <2>5, <2>6, <2>7 DEF Sound
<1>3. CASE Parse
      <2>a. /\ parseThread = NoThread /\ ~cmake /\ codebasePath = project /\ codebasePath # NoProject
            /\ dialogState' \in RunPhysical /\ dialogState = "Idle"
            BY <1>3 DEF Parse, Parsing, Stray, Grounded, RunPhysical
      <2>b. UNCHANGED <<codebasePath, project, signals, connected, load, dbVars, aborted,
                        threadSuccess, removalFailed>>
            BY <1>3 DEF Parse
      <2>c. CASE StartThread(tool) /\ UNCHANGED cmake
            BY <2>a, <2>b, <2>c, StartSafe
      <2>d. CASE cmake' = TRUE /\ UNCHANGED <<tool, parseThread, thread, label>>
            <3>a. \A t \in Threads : thread[t] = "free"
                  BY <2>a DEF Single, TypeOK, WorkerOK, Threads, NoThread
            <3>1. Lives'
                  BY <2>a, <2>b, <2>d, <3>a DEF RunPhysical, Lives
            <3>2. Single'
                  BY <2>a, <2>b, <2>d, <3>a DEF RunPhysical, Single
            <3>3. Outstanding'
                  BY <2>a, <2>b, <2>d, <3>a DEF RunPhysical, Outstanding,
                     Ended, Single
            <3>4. Parsing'
                  BY <2>a, <2>b, <2>d, <3>a DEF RunPhysical, Parsing, Single
            <3>5. Agrees'
                  BY <2>a, <2>b, <2>d, <3>a DEF RunPhysical, Agrees, Single,
                     Parsing
            <3>6. Complete'
                  BY <2>a, <2>b, <2>d, <3>a DEF RunPhysical, Complete, Ended
            <3>7. Own'
                  BY <2>a, <2>b, <2>d, <3>a DEF RunPhysical, Own, Parsing
            <3> QED
                BY <3>1, <3>2, <3>3, <3>4, <3>5, <3>6, <3>7 DEF Sound
      <2> QED
          BY <1>3, <2>c, <2>d DEF Parse
<1>4. CASE ParseWithoutCMake
      <2>a. parseThread = NoThread /\ ~cmake /\ dialogState' \in RunPhysical
            BY <1>4 DEF ParseWithoutCMake, Parsing, RunPhysical
      <2>b. \A t \in Threads : thread[t] = "free"
            BY <2>a DEF Single, TypeOK, WorkerOK, Threads, NoThread
      <2>1. Lives'
            BY <1>4, <2>a, <2>b DEF ParseWithoutCMake, RunPhysical, Lives
      <2>2. Single'
            BY <1>4, <2>a, <2>b DEF ParseWithoutCMake, RunPhysical, Single
      <2>3. Outstanding'
            BY <1>4, <2>a, <2>b DEF ParseWithoutCMake, RunPhysical, Outstanding,
               Ended, Single
      <2>4. Parsing'
            BY <1>4, <2>a, <2>b DEF ParseWithoutCMake, RunPhysical, Parsing, Single
      <2>5. Agrees'
            BY <1>4, <2>a, <2>b DEF ParseWithoutCMake, RunPhysical, Agrees, Single,
               Parsing
      <2>6. Complete'
            BY <1>4, <2>a, <2>b DEF ParseWithoutCMake, RunPhysical, Complete, Ended
      <2>7. Own'
            BY <1>4, <2>a, <2>b DEF ParseWithoutCMake, RunPhysical, Own, Parsing
      <2> QED
          BY <2>1, <2>2, <2>3, <2>4, <2>5, <2>6, <2>7 DEF Sound
<1>5. CASE Cancel /\ parseThread # NoThread
      <2>a. /\ dialogState' = "Killed" /\ tool \in Tool /\ tool' = [tool EXCEPT !.cancel = TRUE]
            /\ UNCHANGED <<codebasePath, parseThread, threadSuccess, thread, signals, cmake, project,
                           load, connected, dbVars, aborted, removalFailed>>
            BY <1>5 DEF Cancel, Parsing, TypeOK, WorkerOK
      <2>b. tool' # NoTool /\ tool'.of = tool.of /\ tool'.pass = tool.pass
            BY <2>a, NoneAssumption DEF Tool
      <2>1. Lives'
            BY <1>5, <2>a, <2>b DEF Running, RunPhysical, Lives
      <2>2. Single'
            BY <1>5, <2>a, <2>b DEF Running, RunPhysical, Single
      <2>3. Outstanding'
            BY <1>5, <2>a, <2>b DEF Running, RunPhysical, Outstanding, Ended,
               Single
      <2>4. Parsing'
            BY <1>5, <2>a, <2>b DEF Running, RunPhysical, Parsing, Single
      <2>5. Agrees'
            BY <1>5, <2>a, <2>b DEF Running, RunPhysical, Agrees, Single, Parsing
      <2>6. Complete'
            BY <1>5, <2>a, <2>b DEF Running, RunPhysical, Complete, Ended
      <2>7. Own'
            BY <1>5, <2>a, <2>b DEF Running, RunPhysical, Own, Parsing
      <2> QED
          BY <2>1, <2>2, <2>3, <2>4, <2>5, <2>6, <2>7 DEF Sound
<1>6. CASE Cancel /\ parseThread = NoThread
      <2>a. /\ connected' = FALSE /\ cadDb' \in {cadDb, codeDb}
            /\ UNCHANGED <<dialogState, codebasePath, tool, parseThread, threadSuccess, thread, signals,
                           cmake, project, load, codeDb, aborted, removalFailed>>
            BY <1>6 DEF Cancel, ResetCad
      <2>1. Lives'
            BY <1>6, <2>a DEF Lives
      <2>2. Single'
            BY <1>6, <2>a DEF Single
      <2>3. Outstanding'
            BY <1>6, <2>a DEF Outstanding, Ended, Single
      <2>4. Parsing'
            BY <1>6, <2>a DEF Parsing, Single
      <2>5. Agrees'
            BY <1>6, <2>a DEF Agrees, Single, Parsing
      <2>6. Complete'
            BY <1>6, <2>a DEF Complete, Ended
      <2>7. Own'
            BY <1>6, <2>a DEF Own, Parsing
      <2> QED
          BY <2>1, <2>2, <2>3, <2>4, <2>5, <2>6, <2>7 DEF Sound
<1> QED
    BY <1>1, <1>2, <1>3, <1>4, <1>5, <1>6

(* The worker: it is the thread of the parse, and reports to it.           *)
LEMMA WorkerSafe ==
  ASSUME TypeOK, Grounded, Sound, NEW t \in Threads, Worker(t), UNCHANGED strayed
  PROVE  Sound'
<1> USE DEF dialogVars, buttons, windowVars, dbVars, Sound
<1>a. thread[t] # "free"
      BY DEF Worker, BeginRun, EndRun, EndRefused, EndNothing
<1>b. /\ parseThread = t /\ t # NoThread
      /\ \A u \in Threads : u # t => thread[u] = "free"
      BY <1>a DEF Single, Threads, NoThread
<1>c. /\ signals = 0 /\ ~connected /\ ~cmake
      /\ tool # NoTool /\ tool \in Tool /\ dialogState \in State \ {"Idle"} /\ codebasePath = project
      BY <1>a, <1>b DEF Outstanding, Ended, Parsing, TypeOK, WorkerOK, DialogOK
<1>1. CASE BeginRun(t)
      <2> DEFINE j == IF dialogState \notin Running THEN "nothing"
                      ELSE IF tool.cancel THEN "refused"
                      ELSE IF dialogState \in RunPhysical THEN "physical"
                      ELSE "logical"
      <2>a. /\ thread' = [thread EXCEPT ![t] = j]
            /\ UNCHANGED <<dialogState, codebasePath, tool, parseThread, threadSuccess, signals, cmake,
                           project, load, connected, dbVars, aborted, removalFailed>>
            BY <1>1, <1>c DEF BeginRun, history
      <2>b. /\ j # "free" /\ j # "started"
            /\ j = "nothing" => dialogState = "Killed"
            /\ j \in {"physical", "logical"} => ~tool.cancel
            /\ j = "physical" => dialogState \in RunPhysical
            /\ j = "logical" => dialogState = "RunAllLogical"
            BY <1>c DEF State, Running
      <2> HIDE DEF j
      <2>c. \A u \in Threads : thread'[u] = IF u = t THEN j ELSE "free"
            BY <1>b, <2>a DEF TypeOK, WorkerOK
      <2>1. Lives'
            BY <1>b, <1>c, <2>a, <2>b, <2>c DEF Lives
      <2>2. Single'
            BY <1>b, <1>c, <2>a, <2>b, <2>c DEF Single
      <2>3. Outstanding'
            BY <1>b, <1>c, <2>a, <2>b, <2>c DEF Outstanding, Ended, Single
      <2>4. Parsing'
            BY <1>b, <1>c, <2>a, <2>b, <2>c DEF Parsing, Single
      <2>5. Agrees'
            BY <1>b, <1>c, <2>a, <2>b, <2>c DEF Agrees, Single, Parsing
      <2>6. Complete'
            BY <1>b, <1>c, <2>a, <2>b, <2>c DEF Complete, Ended
      <2>7. Own'
            BY <1>b, <1>c, <2>a, <2>b, <2>c DEF Own, Parsing
      <2> QED
          BY <2>1, <2>2, <2>3, <2>4, <2>5, <2>6, <2>7 DEF Sound
<1>2. ASSUME thread' = [thread EXCEPT ![t] = "free"], signals' = signals + 1,
             tool' \in Tool, tool'.of = tool.of,
             dialogState = "RunAllPhysical" /\ threadSuccess' => tool'.pass = "physical",
             UNCHANGED <<dialogState, codebasePath, parseThread, cmake, project, load, connected,
                         dbVars, aborted, removalFailed>>
      PROVE  Sound'
      <2>a. \A u \in Threads : thread'[u] = "free"
            BY <1>2, <1>b DEF TypeOK, WorkerOK
      <2>b. tool' # NoTool /\ signals' = 1
            BY <1>2, <1>c, NoneAssumption
      <2>1. Lives'
            BY <1>b, <1>c, <1>2, <2>a, <2>b DEF Lives
      <2>2. Single'
            BY <1>b, <1>c, <1>2, <2>a, <2>b DEF Single
      <2>3. Outstanding'
            BY <1>b, <1>c, <1>2, <2>a, <2>b DEF Outstanding, Ended, Single
      <2>4. Parsing'
            BY <1>b, <1>c, <1>2, <2>a, <2>b DEF Parsing, Single
      <2>5. Agrees'
            BY <1>b, <1>c, <1>2, <2>a, <2>b DEF Agrees, Single, Parsing
      <2>6. Complete'
            BY <1>b, <1>c, <1>2, <2>a, <2>b DEF Complete, Ended
      <2>7. Own'
            BY <1>b, <1>c, <1>2, <2>a, <2>b DEF Own, Parsing
      <2> QED
          BY <2>1, <2>2, <2>3, <2>4, <2>5, <2>6, <2>7 DEF Sound
<1>3. CASE EndRun(t)
      <2>a. PICK success \in BOOLEAN, cut \in BOOLEAN :
              /\ cut => tool.cancel
              /\ threadSuccess' = success
              /\ \E q \in IF success /\ ~cut THEN {thread[t]} ELSE {tool.pass, "partial"} :
                   tool' = [tool EXCEPT !.pass = q, !.cancel = @ /\ ~cut]
            BY <1>3 DEF EndRun
      <2>b. PICK q \in IF success /\ ~cut THEN {thread[t]} ELSE {tool.pass, "partial"} :
              tool' = [tool EXCEPT !.pass = q, !.cancel = @ /\ ~cut]
            BY <2>a
      <2>c. q \in Pass /\ tool' \in Tool /\ tool'.of = tool.of /\ tool'.pass = q
            BY <1>3, <1>c, <2>b DEF EndRun, Tool, Pass
      <2>d. ASSUME dialogState = "RunAllPhysical", success PROVE q = "physical"
            <3>1. ~cut /\ thread[t] = "physical"
                  BY <1>3, <2>a, <2>d DEF EndRun, Agrees, Running, RunPhysical
            <3> QED
                BY <2>b, <2>d, <3>1
      <2> QED
          BY <1>2, <1>3, <2>a, <2>c, <2>d DEF EndRun, history
<1>4. CASE EndRefused(t)
      <2>a. tool' \in Tool /\ tool'.of = tool.of
            BY <1>4, <1>c DEF EndRefused, Tool
      <2> QED
          BY <1>2, <1>4, <2>a DEF EndRefused, history
<1>5. CASE EndNothing(t)
      <2>a. dialogState # "RunAllPhysical"
            BY <1>5 DEF EndNothing, Agrees
      <2> QED
          BY <1>2, <1>5, <1>c, <2>a DEF EndNothing, history
<1> QED
    BY <1>1, <1>3, <1>4, <1>5 DEF Worker

(* The update takes the parse over: it is over, or goes on with one thread. *)
LEMMA UpdateSafe ==
  ASSUME TypeOK, Grounded, Sound, Ended, updateDatabase, signals' = 0, connected' = FALSE
  PROVE  Sound'
<1> USE DEF dbVars, Sound
<1>a. /\ \A u \in Threads : thread[u] = "free"
      /\ parseThread \in Threads /\ tool # NoTool /\ tool \in Tool /\ dialogState # "Idle"
      /\ codebasePath = project /\ ~cmake
      BY DEF Ended, Single, Parsing, TypeOK, WorkerOK
<1>b. UNCHANGED <<codebasePath, cmake, project, aborted, threadSuccess>>
      BY DEF updateDatabase
<1>1. CASE RemovalFailed
      <2>a. /\ dialogState' = "Idle" /\ parseThread' = NoThread /\ removalFailed'
            /\ UNCHANGED <<tool, thread>>
            BY <1>1 DEF RemovalFailed
      <2>1. Lives'
            BY <1>a, <1>b, <2>a DEF RunPhysical, Lives
      <2>2. Single'
            BY <1>a, <1>b, <2>a DEF RunPhysical, Single
      <2>3. Outstanding'
            BY <1>a, <1>b, <2>a DEF RunPhysical, Outstanding, Ended, Single
      <2>4. Parsing'
            BY <1>a, <1>b, <2>a DEF RunPhysical, Parsing, Single
      <2>5. Agrees'
            BY <1>a, <1>b, <2>a DEF RunPhysical, Agrees, Single, Parsing
      <2>6. Complete'
            BY <1>a, <1>b, <2>a DEF RunPhysical, Complete, Ended
      <2>7. Own'
            BY <1>a, <1>b, <2>a DEF RunPhysical, Own, Parsing
      <2> QED
          BY <2>1, <2>2, <2>3, <2>4, <2>5, <2>6, <2>7 DEF Sound
<1>2. CASE WriteDatabase
      <2> DEFINE code == [of |-> tool.of, pass |-> tool.pass]
      <2>a. codeDb' = code /\ removalFailed' = removalFailed /\ (EndLast(code) \/ EndPhysical(code))
            BY <1>2 DEF WriteDatabase
      <2>b. code.of = tool.of /\ (~removalFailed => tool.of = project)
            BY <1>a DEF Own
      <2> HIDE DEF code
      <2>c. CASE EndLast(code)
            <3>a. /\ dialogState' = "Idle" /\ parseThread' = NoThread /\ tool' = NoTool
                  /\ thread' = thread /\ cadDb' \in {cadDb, code}
                  BY <2>c DEF EndLast, ResetCad
            <3>1. Lives'
                  BY <1>a, <1>b, <2>a, <2>b, <3>a DEF RunPhysical, Lives
            <3>2. Single'
                  BY <1>a, <1>b, <2>a, <2>b, <3>a DEF RunPhysical, Single
            <3>3. Outstanding'
                  BY <1>a, <1>b, <2>a, <2>b, <3>a DEF RunPhysical,
                     Outstanding, Ended, Single
            <3>4. Parsing'
                  BY <1>a, <1>b, <2>a, <2>b, <3>a DEF RunPhysical, Parsing,
                     Single
            <3>5. Agrees'
                  BY <1>a, <1>b, <2>a, <2>b, <3>a DEF RunPhysical, Agrees,
                     Single, Parsing
            <3>6. Complete'
                  BY <1>a, <1>b, <2>a, <2>b, <3>a DEF RunPhysical, Complete,
                     Ended
            <3>7. Own'
                  BY <1>a, <1>b, <2>a, <2>b, <3>a DEF RunPhysical, Own,
                     Parsing
            <3> QED
                BY <3>1, <3>2, <3>3, <3>4, <3>5, <3>6, <3>7 DEF Sound
      <2>d. CASE EndPhysical(code)
            <3>a. PICK t \in Threads : parseThread' = t /\ thread' = [thread EXCEPT ![t] = "started"]
                  BY <2>d DEF EndPhysical, StartThread
            <3>b. /\ dialogState' = "RunAllLogical" /\ tool' = tool /\ cadDb' \in {cadDb, code}
                  BY <1>a, <2>d DEF EndPhysical, StartThread, ResetCad
            <3>c. tool.pass = "physical"
                  BY <2>d DEF EndPhysical, LastOfRun, Complete
            <3>d. /\ \A u \in Threads : thread'[u] = IF u = t THEN "started" ELSE "free"
                  /\ t # NoThread
                  BY <1>a, <3>a DEF TypeOK, WorkerOK, Threads, NoThread
            <3>1. Lives'
                  BY <1>a, <1>b, <2>a, <2>b, <3>a, <3>b, <3>c, <3>d DEF
                     RunPhysical, Lives
            <3>2. Single'
                  BY <1>a, <1>b, <2>a, <2>b, <3>a, <3>b, <3>c, <3>d DEF
                     RunPhysical, Single
            <3>3. Outstanding'
                  BY <1>a, <1>b, <2>a, <2>b, <3>a, <3>b, <3>c, <3>d DEF
                     RunPhysical, Outstanding, Ended, Single
            <3>4. Parsing'
                  BY <1>a, <1>b, <2>a, <2>b, <3>a, <3>b, <3>c, <3>d DEF
                     RunPhysical, Parsing, Single
            <3>5. Agrees'
                  BY <1>a, <1>b, <2>a, <2>b, <3>a, <3>b, <3>c, <3>d DEF
                     RunPhysical, Agrees, Single, Parsing
            <3>6. Complete'
                  BY <1>a, <1>b, <2>a, <2>b, <3>a, <3>b, <3>c, <3>d DEF
                     RunPhysical, Complete, Ended
            <3>7. Own'
                  BY <1>a, <1>b, <2>a, <2>b, <3>a, <3>b, <3>c, <3>d DEF
                     RunPhysical, Own, Parsing
            <3> QED
                BY <3>1, <3>2, <3>3, <3>4, <3>5, <3>6, <3>7 DEF Sound
      <2> QED
          BY <2>a, <2>c, <2>d
<1> QED
    BY <1>1, <1>2 DEF updateDatabase

(* The events: nothing can kill the process when it takes a parse over.    *)
LEMMA EventSafe ==
  ASSUME TypeOK, Grounded, Sound, ~strayed', ReadyForUpdate \/ GraphLoadFinished \/ CMakeFinished
  PROVE  Sound'
<1> USE DEF dialogVars, buttons, windowVars, workerVars, dbVars, history, Sound
<1>a. Ended => Fatal = "no"
      <2> SUFFICES ASSUME Ended PROVE Fatal = "no"
          OBVIOUS
      <2>1. /\ \A u \in Threads : thread[u] = "free"
            /\ parseThread # NoThread /\ tool # NoTool /\ dialogState # "Idle"
            /\ codebasePath = project
            BY DEF Ended, Single, Parsing, TypeOK, WorkerOK
      <2>2. thread[parseThread] = "free" /\ ~ \E t \in Threads : thread[t] \in {"physical", "logical", "refused"}
            BY <2>1 DEF Ended
      <2> QED
          BY <2>1, <2>2 DEF Fatal
<1>1. CASE ReadyForUpdate
      <2>a. Ended /\ signals = 1 /\ ~connected
            BY <1>1 DEF ReadyForUpdate, Outstanding, Ended, TypeOK, WorkerOK
      <2>b. CASE load = "running" /\ ConnectUpdate
            <3>1. Lives'
                  BY <2>a, <2>b DEF ConnectUpdate, Lives
            <3>2. Single'
                  BY <2>a, <2>b DEF ConnectUpdate, Single
            <3>3. Outstanding'
                  BY <2>a, <2>b DEF ConnectUpdate, Outstanding, Ended, Single
            <3>4. Parsing'
                  BY <2>a, <2>b DEF ConnectUpdate, Parsing, Single
            <3>5. Agrees'
                  BY <2>a, <2>b DEF ConnectUpdate, Agrees, Single, Parsing
            <3>6. Complete'
                  BY <2>a, <2>b DEF ConnectUpdate, Complete, Ended
            <3>7. Own'
                  BY <2>a, <2>b DEF ConnectUpdate, Own, Parsing
            <3> QED
                BY <3>1, <3>2, <3>3, <3>4, <3>5, <3>6, <3>7 DEF Sound
      <2>c. CASE updateDatabase /\ connected' = FALSE /\ signals' = signals - 1
            <3>1. Ended /\ signals' = 0 /\ connected' = FALSE
                  BY <2>a, <2>c
            <3> QED
                BY <2>c, <3>1, UpdateSafe
      <2>d. Fatal = "no"
            BY <1>a, <2>a
      <2>e. \/ load = "running" /\ ConnectUpdate
            \/ updateDatabase /\ connected' = FALSE /\ signals' = signals - 1
            BY <1>1, <2>d DEF ReadyForUpdate
      <2> QED
          BY <2>b, <2>c, <2>e
<1>2. CASE GraphLoadFinished
      <2>a. CASE connected
            BY <1>2, <1>a, <2>a, UpdateSafe DEF GraphLoadFinished, Outstanding, Ended
      <2>b. CASE ~connected
            <3>a. /\ load' = "none"
                  /\ UNCHANGED <<dialogVars, workerVars, cmake, project, past, connected, label, dbVars,
                                 aborted, history>>
                  BY <1>2, <2>b DEF GraphLoadFinished
            <3>1. Lives'
                  BY <2>b, <3>a DEF Lives
            <3>2. Single'
                  BY <2>b, <3>a DEF Single
            <3>3. Outstanding'
                  BY <2>b, <3>a DEF Outstanding, Ended, Single
            <3>4. Parsing'
                  BY <2>b, <3>a DEF Parsing, Single
            <3>5. Agrees'
                  BY <2>b, <3>a DEF Agrees, Single, Parsing
            <3>6. Complete'
                  BY <2>b, <3>a DEF Complete, Ended
            <3>7. Own'
                  BY <2>b, <3>a DEF Own, Parsing
            <3> QED
                BY <3>1, <3>2, <3>3, <3>4, <3>5, <3>6, <3>7 DEF Sound
      <2> QED
          BY <2>a, <2>b
<1>3. CASE CMakeFinished
      <2>a. /\ parseThread = NoThread /\ codebasePath = project /\ codebasePath # NoProject
            /\ dialogState \in RunPhysical
            BY <1>3 DEF CMakeFinished, Parsing, Grounded
      <2>b. CASE /\ StartThread(tool) /\ cmake' = FALSE
                 /\ UNCHANGED <<dialogState, visible, btnCancel, codebasePath, threadSuccess, signals,
                                project, past, load, connected, dbVars, aborted, history>>
            BY <2>a, <2>b, StartSafe
      <2>c. CASE /\ cmake' = FALSE
                 /\ UNCHANGED <<dialogState, visible, codebasePath, workerVars, windowVars, dbVars,
                                aborted, history>>
            <3>1. Lives'
                  BY <2>a, <2>c DEF Lives
            <3>2. Single'
                  BY <2>a, <2>c DEF Single
            <3>3. Outstanding'
                  BY <2>a, <2>c DEF Outstanding, Ended, Single
            <3>4. Parsing'
                  BY <2>a, <2>c DEF Parsing, Single
            <3>5. Agrees'
                  BY <2>a, <2>c DEF Agrees, Single, Parsing
            <3>6. Complete'
                  BY <2>a, <2>c DEF Complete, Ended
            <3>7. Own'
                  BY <2>a, <2>c DEF Own, Parsing
            <3> QED
                BY <3>1, <3>2, <3>3, <3>4, <3>5, <3>6, <3>7 DEF Sound
      <2> QED
          BY <1>3, <2>a, <2>b, <2>c DEF CMakeFinished, Running
<1> QED
    BY <1>1, <1>2, <1>3

LEMMA NextSafe == IInv /\ [Next]_vars => Safe'
<1> SUFFICES ASSUME IInv, [Next]_vars, ~strayed' PROVE Sound'
    BY DEF Safe
<1>1. CASE UNCHANGED vars
      BY <1>1, StutterSafe DEF IInv, Safe, vars, history
<1>2. CASE Next
      <2>1. TypeOK /\ Grounded /\ Sound
            BY <1>2, StrayStep DEF IInv, Safe
      <2>2. ASSUME NEW t \in Threads, Worker(t) PROVE Sound'
            <3>1. UNCHANGED strayed
                  BY <2>2 DEF Worker, BeginRun, EndRun, EndRefused, EndNothing, Abort, history
            <3> QED
                BY <2>1, <2>2, <3>1, WorkerSafe
      <2> QED
          BY <1>2, <2>1, <2>2, WindowSafe, UserSafe, EventSafe DEF Next
<1> QED
    BY <1>1, <1>2

LEMMA Invariance == Spec => []IInv
<1>1. Init => IInv
      BY InitType, InitSafe DEF IInv
<1>2. IInv /\ [Next]_vars => IInv'
      BY NextType, NextSafe DEF IInv
<1> QED
    BY <1>1, <1>2, PTL DEF Spec

(* A user who does not stray cannot kill the process with a parse.         *)
THEOREM ParseIsSurvived == Spec => []SurvivesParse
<1>1. IInv => SurvivesParse
      BY DEF IInv, Safe, Sound, Lives, SurvivesParse
<1> QED
    BY <1>1, Invariance, PTL

(* Unless a removal failed, no database ever describes another project.    *)
THEOREM DatabasesAreOwn == Spec => []OwnDatabase
<1>1. IInv => OwnDatabase
      BY DEF IInv, Safe, Sound, Own, OwnDatabase
<1> QED
    BY <1>1, Invariance, PTL

(* A logical run starts on what a complete physical run left.              *)
THEOREM LogicalRunsFollow == Spec => LogicalAfterPhysical
<1> DEFINE Follows ==
      \A t \in Threads :
        ~strayed /\ thread[t] = "started" /\ thread'[t] = "logical" => tool.pass = "physical"
<1>1. IInv /\ [Next]_vars => Follows
      <2> SUFFICES ASSUME IInv, [Next]_vars, NEW t \in Threads, ~strayed, thread[t] = "started",
                          thread'[t] = "logical"
                   PROVE  tool.pass = "physical"
          OBVIOUS
      <2>1. TypeOK /\ Grounded /\ Sound
            BY DEF IInv, Safe
      <2>2. dialogState = "RunAllLogical"
            <3>1. thread' # thread /\ Next
                  BY DEF vars, workerVars
            <3>2. ASSUME NEW u \in Threads, BeginRun(u) PROVE dialogState = "RunAllLogical"
                  <4>1. UNCHANGED <<dialogState, thread>> \/
                        thread' = [thread EXCEPT ![u] = IF dialogState \notin Running THEN "nothing"
                                                        ELSE IF tool.cancel THEN "refused"
                                                        ELSE IF dialogState \in RunPhysical THEN "physical"
                                                        ELSE "logical"]
                        BY <3>2 DEF BeginRun, Abort, workerVars
                  <4>2. thread \in [Threads -> Job]
                        BY <2>1 DEF TypeOK, WorkerOK
                  <4> QED
                      BY <3>1, <4>1, <4>2 DEF Running
            <3>3. ASSUME NEW tl, StartThread(tl) PROVE FALSE
                  BY <2>1, <3>3 DEF StartThread, TypeOK, WorkerOK
            <3>4. ASSUME NEW u \in Threads, EndRun(u) \/ EndRefused(u) \/ EndNothing(u) PROVE FALSE
                  BY <2>1, <3>4 DEF EndRun, EndRefused, EndNothing, TypeOK, WorkerOK
            <3>5. ASSUME updateDatabase PROVE FALSE
                  BY <3>1, <3>3, <3>5 DEF updateDatabase, RemovalFailed, WriteDatabase, EndLast, EndPhysical
            <3>6. ~ ReadyForUpdate /\ ~ GraphLoadFinished
                  BY <3>1, <3>5 DEF ReadyForUpdate, GraphLoadFinished, ConnectUpdate, Abort, workerVars
            <3>7. ~ Parse /\ ~ CMakeFinished
                  BY <3>1, <3>3 DEF Parse, CMakeFinished, Abort, workerVars
            <3>8. ~ (\E p \in Projects : OpenProject(p)) /\ ~ CloseProject /\ ~ EditCad
                  /\ ~ GraphLoadStarted /\ ~ GraphLoadMarked /\ ~ OpenDialog /\ ~ ShowFromStatusBar /\ ~ EditFields
                  /\ ~ Hide /\ ~ ParseWithoutCMake /\ ~ Cancel
                  BY <3>1 DEF OpenProject, CloseProject, EditCad, GraphLoadStarted, GraphLoadMarked, OpenDialog,
                     ShowFromStatusBar, Show, EditFields, Hide, ParseWithoutCMake, Cancel, workerVars
            <3> QED
                BY <3>1, <3>2, <3>4, <3>6, <3>7, <3>8 DEF Next, Worker
      <2> QED
          BY <2>1, <2>2 DEF Sound, Agrees
<1> QED
    BY <1>1, Invariance, PTL DEF Spec, LogicalAfterPhysical
=============================================================================
