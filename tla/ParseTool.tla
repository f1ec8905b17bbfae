----------------------------- MODULE ParseTool -----------------------------
(***************************************************************************)
(* The parse tool of lvtclp: class Tool (ct_lvtclp_tool.cpp), the thread   *)
(* pool it hands translation units to (ToolExecutor), the file system      *)
(* scanner that computes the incremental to-do list (FilesystemScanner),   *)
(* and the part of the in-memory database those touch (lvtmdb::            *)
(* ObjectStore): which files it knows, at which content, and which of them *)
(* have been read by a physical and by a logical parse.                    *)
(*                                                                         *)
(* Three kinds of threads interleave: the parse thread inside              *)
(* findPhysicalEntities / runPhysical / runFull (pc is its program         *)
(* counter), the pool's workers, and any other thread that calls           *)
(* cancelRun.  A fourth party, the user's editor, changes files on disk at *)
(* any moment.                                                             *)
(*                                                                         *)
(* Contents are abstracted to time stamps: every write to the disk advances*)
(* `clock', disk[f] is the stamp of f's current content, hash[f] the stamp *)
(* of the content whose MD5 the store holds, phys[f] the time of the last  *)
(* physical parse that visited f, logi[s] that of the last logical parse of*)
(* source s.  0 means absent.                                              *)
(***************************************************************************)
EXTENDS Naturals, FiniteSets

CONSTANTS
  Sources,           \* the translation units of compile_commands.json
  Headers,           \* the header files of the code base
  ComponentHeaders,  \* headers named after a source: all that scanHeader finds
  Includes,          \* Includes[f]: the headers f names in #include lines
  NumThreads,        \* Tool::numThreads, the size of the pool
  MaxClock           \* bound: how many writes to the disk are considered

Files == Sources \cup Headers

ASSUME SourcesAssumption == IsFiniteSet(Sources)
ASSUME HeadersAssumption == IsFiniteSet(Headers) /\ Sources \cap Headers = {}
ASSUME ComponentHeadersAssumption == ComponentHeaders \subseteq Headers
ASSUME IncludesAssumption == Includes \in [Files -> SUBSET Headers]
ASSUME NumThreadsAssumption == NumThreads \in Nat \ {0}
ASSUME MaxClockAssumption == MaxClock \in Nat

VARIABLES
  disk, clock,               \* the file system
  hash, phys, logi,          \* lvtmdb::ObjectStore: its files,
  dangling,                  \*   those with a freed reverseIncludes entry,
  state,                     \*   and its State
  compilationDb,             \* Tool::Private::compilationDb has a value
  incrementalCdb,            \* the files SubsetCompilationDatabase lists
  toolExecutor,              \* Tool::Private::toolExecutor is not null
  executorCancelled,
  toStart, queue, active,    \* ToolExecutor::execute and its QThreadPool,
  done, err,                 \*   runnables that ended, errorMsg is not empty
  pc, job,                   \* the parse thread: where it is, its locals
  result,                    \* what the last call returned
  trusted                    \* history: see PhysicalUpToDate

diskVars  == <<disk, clock>>
storeVars == <<hash, phys, logi, dangling>>
poolVars  == <<toStart, queue, active, done, err>>
vars == <<diskVars, storeVars, state, compilationDb, incrementalCdb, toolExecutor,
          executorCancelled, poolVars, pc, job, result, trusted>>

States == {"Error", "ManuallyStopped", "NoneReady", "PhysicalReady",
           "PhysicalError", "AllReady", "LogicalError"}

(* States in which a physical parse has completed before.                   *)
PhysicallyParsed == {"PhysicalReady", "AllReady", "LogicalError"}

NoChanges == [new |-> {}, modified |-> {}, deleted |-> {}]

(* The arguments and locals of the call in progress.                        *)
Job(fn, incremental, skip) ==
  [fn |-> fn, doIncremental |-> incremental, skipPhysical |-> skip,
   oldState |-> "NoneReady", dbErrorState |-> FALSE, res |-> NoChanges,
   lastRunMadeChanges |-> FALSE, cancelled |-> FALSE]

NoJob == Job("none", FALSE, FALSE)

OnDisk == {f \in Files : disk[f] # 0}
Stored == {f \in Files : hash[f] # 0}

(* The files the preprocessor enters for source s: the least set that holds *)
(* s and is closed under #include.                                          *)
TranslationUnit(s) ==
  {g \in Files : \A T \in SUBSET Files :
     (s \in T /\ \A f \in T : Includes[f] \subseteq T) => g \in T}

(* ObjectStore::removeFile follows reverseIncludes recursively: the least   *)
(* set that holds S and every stored file with a recorded #include of one   *)
(* of its members.  A file's #includes are recorded once it has been parsed.*)
\* Mutant: one level of includers only.
DirectIncluders(S) == (S \cap Stored) \cup
  {f \in Stored : phys[f] # 0 /\ Includes[f] \cap S \cap Stored # {}}
Includers(S) ==
  {g \in Stored : \A T \in SUBSET Stored :
     (S \subseteq T /\ \A f \in Stored :
        (phys[f] # 0 /\ Includes[f] \cap T # {}) => f \in T) => g \in T}

-----------------------------------------------------------------------------
Init ==
  /\ disk = [f \in Files |-> 1] /\ clock = 1
  /\ hash = [f \in Files |-> 0]
  /\ phys = [f \in Files |-> 0]
  /\ logi = [s \in Sources |-> 0]
  /\ dangling = {}
  /\ state = "NoneReady"
  /\ compilationDb = FALSE /\ incrementalCdb = {}
  /\ toolExecutor = FALSE /\ executorCancelled = FALSE
  /\ toStart = {} /\ queue = {} /\ active = {} /\ done = {} /\ err = FALSE
  /\ pc = "idle" /\ job = NoJob
  /\ result = "none"
  /\ trusted = TRUE

(* A call returns: its locals go out of scope.  incrementalCdb is replaced  *)
(* by the next call before it is read, so its value is dropped as well.     *)
Return(b) ==
  /\ pc' = "idle" /\ job' = NoJob /\ result' = b
  /\ incrementalCdb' = {} /\ done' = {} /\ err' = FALSE

(* Calling a run function.  ensureSetup fails only while no compilation     *)
(* database has been read yet.                                              *)
Call(c) ==
  /\ pc = "idle"
  /\ \/ /\ ~compilationDb
        /\ result' = "false"
        /\ UNCHANGED <<compilationDb, pc, job>>
     \/ /\ compilationDb' = TRUE
        /\ job' = c
        /\ result' = "none"
        /\ pc' = IF c.fn = "findPhysicalEntities" THEN "find" ELSE "entry"
  /\ UNCHANGED <<diskVars, storeVars, state, incrementalCdb, toolExecutor,
                 executorCancelled, poolVars, trusted>>

FindPhysicalEntities(b) == Call(Job("findPhysicalEntities", b, FALSE))
RunPhysical == Call(Job("runPhysical", TRUE, FALSE))
RunFull(skip) == Call(Job("runFull", state = "AllReady", skip))

(* One `if (executorCancelled) { reset; return false; }' under              *)
(* executorMutex.  What the scan has recorded by then stays recorded.       *)
CheckCancelled(here, next) ==
  /\ pc = here
  /\ \/ /\ executorCancelled
        /\ executorCancelled' = FALSE
        /\ Return("false")
        /\ trusted' = (trusted /\ here \notin {"scanned", "updated"})
     \/ /\ ~executorCancelled
        /\ pc' = next
        /\ UNCHANGED <<executorCancelled, incrementalCdb, done, err, job, result, trusted>>
  /\ UNCHANGED <<diskVars, storeVars, state, compilationDb, toolExecutor,
                 toStart, queue, active>>

EntryCheck == CheckCancelled("entry", "find")
ScanCheck == CheckCancelled("toScan", "scan")
ScannedCheck == CheckCancelled("scanned", "setup")
UpdatedCheck == CheckCancelled("updated", "mark")
PhysicalEntryCheck == CheckCancelled("physicalEntry", "physical")

(* The head of findPhysicalEntities: is an incremental update possible?     *)
Find ==
  /\ pc = "find"
  /\ job' = [job EXCEPT !.oldState = state,
                        !.dbErrorState = state \in {"Error", "PhysicalError"},
                        !.doIncremental = @ /\ state \in PhysicallyParsed]
  /\ pc' = "toScan"
  /\ UNCHANGED <<diskVars, storeVars, state, compilationDb, incrementalCdb,
                 toolExecutor, executorCancelled, poolVars, result, trusted>>

(* FilesystemScanner::scanCompilationDb: the sources and the headers named  *)
(* after them are looked up on disk; addToDatabase stores the new ones and  *)
(* refreshes the hash of the modified ones, before anything is re-parsed.   *)
Scan ==
  LET watched == Sources \cup ComponentHeaders
      found == watched \cap OnDisk
  IN /\ pc = "scan"
     /\ job' = [job EXCEPT !.res =
                 [new |-> found \ Stored,
                  modified |-> {f \in found \cap Stored : hash[f] # disk[f]},
                  deleted |-> (watched \cap Stored) \ OnDisk]]
     /\ hash' = [f \in Files |-> IF f \in found THEN disk[f] ELSE hash[f]]
     /\ pc' = "scanned"
     /\ UNCHANGED <<diskVars, phys, logi, dangling, state, compilationDb,
                    incrementalCdb, toolExecutor, executorCancelled, poolVars,
                    result, trusted>>

(* The partial compilation database lists the changed and removed files the *)
(* full one has a command for.                                              *)
\* Mutant: headers are handed to the compiler too.
ToParseWithHeaders(res, removed) == (removed \ res.deleted) \cup res.new \cup res.modified
ToParse(res, removed) ==
  ((removed \ res.deleted) \cup res.new \cup res.modified) \cap Sources

(* Tool::setupIncrementalUpdate: forget what changed together with all that *)
(* includes it, and list the sources to parse again.  A removed includer    *)
(* stays, freed, in the reverseIncludes of the headers that are kept; when a*)
(* later update removes such a header the freed object is read, and the     *)
(* process may or may not survive that.                                     *)
SetupIncrementalUpdate ==
  LET res == job.res
      removed == Includers(res.modified \cup res.deleted)
      forget(v) == [f \in DOMAIN v |-> IF f \in removed THEN 0 ELSE v[f]]
  IN /\ pc = "setup"
     /\ job' = [job EXCEPT !.lastRunMadeChanges = res # NoChanges, !.res = NoChanges]
     /\ incrementalCdb' = IF job.doIncremental THEN ToParse(res, removed) ELSE Sources
     /\ hash' = forget(hash) /\ phys' = forget(phys) /\ logi' = forget(logi)
     /\ dangling' = (dangling \cup {h \in Stored : \E f \in removed :
                         phys[f] # 0 /\ h \in Includes[f]}) \ removed
     /\ \/ pc' = "updated"
        \/ removed \cap dangling # {} /\ pc' = "crashed"
     /\ UNCHANGED <<diskVars, state, compilationDb, toolExecutor,
                    executorCancelled, poolVars, result, trusted>>

(* A database that changed, or that a failed run left, is not ready.        *)
\* Mutant: a changed database stays ready.
StateIfError == IF job.dbErrorState THEN "NoneReady" ELSE state
StateAfterScan ==
  IF job.lastRunMadeChanges \/ job.dbErrorState THEN "NoneReady" ELSE state

(* The tail of findPhysicalEntities and the dispatch of its caller.         *)
MarkNoneReady ==
  /\ pc = "mark"
  /\ state' = StateAfterScan
  /\ \/ job.fn = "findPhysicalEntities" /\ Return("true")
     \/ /\ job.fn # "findPhysicalEntities"
        /\ pc' = IF job.fn = "runPhysical" THEN "physical"
                 ELSE IF job.skipPhysical THEN "logical" ELSE "physicalEntry"
        /\ UNCHANGED <<incrementalCdb, done, err, job, result>>
  /\ trusted' = (trusted /\ (job.skipPhysical => state' \in PhysicallyParsed))
  /\ UNCHANGED <<diskVars, storeVars, compilationDb, toolExecutor,
                 executorCancelled, toStart, queue, active>>

-----------------------------------------------------------------------------
(* A pass of the executor over incrementalCdb.  The pointer is assigned     *)
(* without executorMutex.                                                   *)
NewExecutor(here, files, next) ==
  /\ pc = here
  /\ incrementalCdb' = files
  /\ toolExecutor' = TRUE
  /\ toStart' = files /\ queue' = {} /\ active' = {} /\ done' = {} /\ err' = FALSE
  /\ pc' = next
  /\ UNCHANGED <<diskVars, storeVars, state, compilationDb, executorCancelled,
                 job, result, trusted>>

StartPhysical == NewExecutor("physical", incrementalCdb, "physicalPass")

(* The logical pass may be partial only if the last one was finished.       *)
LogicalCdb == IF job.oldState = "AllReady" THEN incrementalCdb ELSE Sources
StartLogical == NewExecutor("logical", LogicalCdb, "logicalPass")

Executing == pc \in {"physicalPass", "logicalPass"}

(* QThreadPool::start: run at once if a thread is free, else enqueue.       *)
StartRunnable(f) ==
  /\ Executing /\ f \in toStart
  /\ toStart' = toStart \ {f}
  /\ \/ /\ Cardinality(active) < NumThreads
        /\ active' = active \cup {f} /\ UNCHANGED queue
     \/ /\ Cardinality(active) >= NumThreads
        /\ queue' = queue \cup {f} /\ UNCHANGED active
  /\ UNCHANGED <<diskVars, storeVars, state, compilationDb, incrementalCdb,
                 toolExecutor, executorCancelled, done, err, pc, job, result, trusted>>

(* A free pool thread takes a queued runnable.                              *)
TakeRunnable(f) ==
  /\ f \in queue /\ Cardinality(active) < NumThreads
  /\ queue' = queue \ {f} /\ active' = active \cup {f}
  /\ UNCHANGED <<diskVars, storeVars, state, compilationDb, incrementalCdb,
                 toolExecutor, executorCancelled, toStart, done, err, pc, job,
                 result, trusted>>

(* RunnableThread::run on f ends after it visited the files of `visited',   *)
(* each of them f or included by another one: every one is stored if it was *)
(* not (with the hash it has now) and its information recorded.  A parse    *)
(* that misses a file, or of code that does not compile, stops early and    *)
(* appends to errorMsg.                                                     *)
RunRunnable(f, visited, ok) ==
  /\ f \in active
  /\ visited \subseteq OnDisk
  /\ \A g \in visited : g = f \/ \E p \in visited : g \in Includes[p]
  /\ f \in OnDisk => f \in visited
  /\ ok => visited = TranslationUnit(f)
  /\ active' = active \ {f} /\ done' = done \cup {f}
  /\ err' = (err \/ ~ok)
  /\ hash' = [g \in Files |-> IF g \in visited /\ hash[g] = 0 THEN disk[g] ELSE hash[g]]
  /\ LET parsed(v) == [g \in DOMAIN v |-> IF g \in visited THEN clock ELSE v[g]]
     IN \/ pc = "physicalPass" /\ phys' = parsed(phys) /\ UNCHANGED <<logi, trusted>>
        \/ /\ pc = "logicalPass" /\ logi' = parsed(logi) /\ UNCHANGED phys
           /\ trusted' = (trusted /\ visited \subseteq Stored)
  /\ UNCHANGED <<diskVars, dangling, state, compilationDb, incrementalCdb,
                 toolExecutor, executorCancelled, toStart, queue, pc, job, result>>

(* execute() has handed out every file and QThreadPool::waitForDone returns.*)
\* Mutant: does not wait for what is running.
QueueIsEmpty == toStart = {} /\ queue = {}
\* Mutant: waits for what a cancel has dropped.
EveryFileHasEnded == done = incrementalCdb
WaitForDone == toStart = {} /\ queue = {} /\ active = {}

(* The executor is deleted under executorMutex.                             *)
DeleteExecutor(here, next) ==
  /\ pc = here
  /\ WaitForDone
  /\ toolExecutor' = FALSE
  /\ job' = [job EXCEPT !.cancelled = executorCancelled]
  /\ executorCancelled' = FALSE
  /\ pc' = next
  /\ UNCHANGED <<diskVars, storeVars, state, compilationDb, incrementalCdb,
                 poolVars, result, trusted>>

EndPhysicalPass == DeleteExecutor("physicalPass", "physicalEnd")
EndLogicalPass == DeleteExecutor("logicalPass", "logicalEnd")

(* The tail of runPhysical.  The error has been handled by the time the     *)
(* function returns !err, and `state != AllReady || state != LogicalError'  *)
(* is true whatever the state.                                              *)
FinishPhysical ==
  /\ pc = "physicalEnd"
  /\ state' = IF err THEN "PhysicalError"
              ELSE IF job.cancelled THEN "NoneReady" ELSE "PhysicalReady"
  /\ \/ job.fn = "runPhysical" /\ Return("true")
     \/ /\ job.fn # "runPhysical"
        /\ pc' = "logical"
        /\ UNCHANGED <<incrementalCdb, done, err, job, result>>
  /\ trusted' = (~err /\ ~job.cancelled /\ (trusted \/ ~job.doIncremental))
  /\ UNCHANGED <<diskVars, storeVars, compilationDb, toolExecutor,
                 executorCancelled, toStart, queue, active>>

(* A cancelled logical pass leaves the state as it is.                      *)
StateAfterLogical ==
  IF err THEN "LogicalError" ELSE IF job.cancelled THEN state ELSE "AllReady"

(* The tail of runFull; LogicalPostProcessUtil::postprocess always succeeds.*)
FinishLogical ==
  /\ pc = "logicalEnd"
  /\ state' = StateAfterLogical
  /\ Return("true")
  /\ UNCHANGED <<diskVars, storeVars, compilationDb, toolExecutor,
                 executorCancelled, toStart, queue, active, trusted>>

-----------------------------------------------------------------------------
(* Tool::cancelRun, from any thread: flag and queue change under one lock.  *)
\* Mutant: clears the pool without saying so.
CancelRunUnflagged ==
  /\ executorCancelled' = (executorCancelled \/ ~toolExecutor)
  /\ queue' = IF toolExecutor THEN {} ELSE queue
  /\ UNCHANGED <<diskVars, storeVars, state, compilationDb, incrementalCdb,
                 toolExecutor, toStart, active, done, err, pc, job, result, trusted>>
CancelRun ==
  /\ executorCancelled' = TRUE
  /\ queue' = IF toolExecutor THEN {} ELSE queue
  /\ UNCHANGED <<diskVars, storeVars, state, compilationDb, incrementalCdb,
                 toolExecutor, toStart, active, done, err, pc, job, result, trusted>>

(* The user writes (or creates) a file, or deletes one.                     *)
Touch(f, stamp) ==
  /\ clock < MaxClock
  /\ clock' = clock + 1
  /\ disk' = [disk EXCEPT ![f] = stamp]
  /\ UNCHANGED <<storeVars, state, compilationDb, incrementalCdb, toolExecutor,
                 executorCancelled, poolVars, pc, job, result, trusted>>

WriteFile(f) == Touch(f, clock + 1)
DeleteFile(f) == disk[f] # 0 /\ Touch(f, 0)

-----------------------------------------------------------------------------
Caller ==
  \/ \E b \in BOOLEAN : FindPhysicalEntities(b) \/ RunFull(b)
  \/ RunPhysical

ParseThread ==
  \/ EntryCheck \/ Find \/ ScanCheck \/ Scan \/ ScannedCheck
  \/ SetupIncrementalUpdate \/ UpdatedCheck \/ MarkNoneReady
  \/ PhysicalEntryCheck \/ StartPhysical \/ StartLogical
  \/ \E f \in Sources : StartRunnable(f)
  \/ EndPhysicalPass \/ FinishPhysical \/ EndLogicalPass \/ FinishLogical

Take == \E f \in Sources : TakeRunnable(f)
Run(f) == \E visited \in SUBSET Files, ok \in BOOLEAN : RunRunnable(f, visited, ok)

User == \E f \in Files : WriteFile(f) \/ DeleteFile(f)

Next ==
  \/ Caller \/ ParseThread \/ CancelRun \/ User
  \/ Take \/ \E f \in Sources : Run(f)

Spec == Init /\ [][Next]_vars

(* The operating system schedules the parse thread and the pool's threads;  *)
(* nobody has to call, cancel or edit.                                      *)
Fairness == WF_vars(ParseThread) /\ WF_vars(Take) /\ \A f \in Sources : WF_vars(Run(f))

FairSpec == Spec /\ Fairness

-----------------------------------------------------------------------------
PCs == {"idle", "entry", "find", "toScan", "scan", "scanned", "setup", "updated",
        "mark", "physicalEntry", "physical", "physicalPass", "physicalEnd",
        "logical", "logicalPass", "logicalEnd", "crashed"}

Jobs == [fn : {"none", "findPhysicalEntities", "runPhysical", "runFull"},
         doIncremental : BOOLEAN, skipPhysical : BOOLEAN, oldState : States,
         dbErrorState : BOOLEAN, lastRunMadeChanges : BOOLEAN, cancelled : BOOLEAN,
         res : [new : SUBSET Files, modified : SUBSET Files, deleted : SUBSET Files]]

(* Every variable holds a value the code can put there.                     *)
TypeOK ==
  /\ clock \in Nat
  /\ disk \in [Files -> Nat] /\ hash \in [Files -> Nat]
  /\ phys \in [Files -> Nat] /\ logi \in [Sources -> Nat]
  /\ dangling \subseteq Files
  /\ state \in States
  /\ compilationDb \in BOOLEAN
  /\ incrementalCdb \subseteq Sources
  /\ toolExecutor \in BOOLEAN /\ executorCancelled \in BOOLEAN
  /\ toStart \subseteq Sources /\ queue \subseteq Sources
  /\ active \subseteq Sources /\ done \subseteq Sources
  /\ err \in BOOLEAN
  /\ pc \in PCs /\ job \in Jobs
  /\ result \in {"none", "true", "false"}
  /\ trusted \in BOOLEAN

(* A runnable holds a raw pointer to its ToolExecutor and references to the *)
(* locals of execute(): none may be queued or running once the executor is  *)
(* deleted, whatever cancelRun does meanwhile.  The pool never exceeds its  *)
(* thread count.                                                            *)
RunnablesWithinExecutor ==
  /\ queue \cup active # {} => toolExecutor /\ Executing
  /\ Cardinality(active) <= NumThreads

(* cancelRun drops queued runnables, so a pass that does not report itself  *)
(* cancelled has run every file it was given: the verdicts PhysicalReady and*)
(* AllReady are never drawn from a pass with a hole in it.                  *)
UncancelledPassIsComplete ==
  pc \in {"physicalEnd", "logicalEnd"} /\ ~job.cancelled => done = incrementalCdb

(* The inductive form of the two: a pass accounts for every file it was     *)
(* given, queued, running or ended, until somebody cancels; no runnable is  *)
(* left when the pass is over.                                              *)
PoolInv ==
  /\ toolExecutor <=> Executing
  /\ ~Executing => toStart = {} /\ queue = {} /\ active = {}
  /\ Cardinality(active) <= NumThreads
  /\ Executing /\ ~executorCancelled
       => incrementalCdb = toStart \cup queue \cup active \cup done
  /\ UncancelledPassIsComplete

(* The incremental update loses nothing.  Between calls, if the store says  *)
(* that physical information is ready, then every stored source has been    *)
(* parsed since the recorded content of each file of its translation unit   *)
(* was written; AllReady says the same of the logical parse.  `trusted'     *)
(* withholds the claim after a call that was cancelled half-way, that failed*)
(* or that skipped a physical parse that was due, and after a logical pass  *)
(* that stored a file which appeared once the physical one was over, until a*)
(* physical pass over all sources succeeds.                                 *)
ParsedSince(info) ==
  \A s \in Sources \cap Stored : \A f \in TranslationUnit(s) : info[s] >= hash[f]

PhysicalUpToDate ==
  pc = "idle" /\ trusted /\ state \in PhysicallyParsed
    => ParsedSince(phys)

LogicalUpToDate ==
  pc = "idle" /\ trusted /\ state = "AllReady" => ParsedSince(logi)

(* Every call ends, unless the process dies of a freed includer.            *)
CallsEnd == (pc # "idle") ~> (pc \in {"idle", "crashed"})
=============================================================================
