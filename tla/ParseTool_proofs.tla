-------------------------- MODULE ParseTool_proofs --------------------------
(***************************************************************************)
(* Proofs about ParseTool, for every set of sources and headers, every     *)
(* include graph and every number of threads: type correctness, that a pass*)
(* of the executor neither leaks a runnable nor is taken for complete when *)
(* cancelRun punched a hole in it, and that an update which parses only    *)
(* what changed leaves no file behind: whatever is edited, cancelled or    *)
(* fails on the way, a successful run ends with a store that agrees with   *)
(* the disk as of the scan.                                                *)
(***************************************************************************)
EXTENDS ParseTool, FiniteSetTheorems, TLAPS

(* A call record built by Job is well typed.                                *)
LEMMA JobType ==
  ASSUME NEW fn \in {"none", "findPhysicalEntities", "runPhysical", "runFull"},
         NEW b \in BOOLEAN, NEW skip \in BOOLEAN
  PROVE  Job(fn, b, skip) \in Jobs
BY DEF Job, Jobs, NoChanges, States

LEMMA InitType == Init => TypeOK
<1> SUFFICES ASSUME Init PROVE TypeOK
    OBVIOUS
<1>1. job \in Jobs
      BY JobType DEF Init, NoJob
<1> QED
    BY <1>1 DEF Init, TypeOK, States, PCs

(* Starting a call.                                                         *)
LEMMA CallerType == TypeOK /\ Caller => TypeOK'
<1> SUFFICES ASSUME TypeOK, Caller PROVE TypeOK'
    OBVIOUS
<1>1. ASSUME NEW c \in Jobs, Call(c) PROVE TypeOK'
      BY <1>1 DEF TypeOK, Call, PCs, diskVars, storeVars, poolVars
<1>2. CASE RunPhysical
      <2>1. Job("runPhysical", TRUE, FALSE) \in Jobs
            BY JobType
      <2> QED
          BY <1>1, <1>2, <2>1 DEF RunPhysical
<1>3. ASSUME NEW b \in BOOLEAN, FindPhysicalEntities(b) PROVE TypeOK'
      <2>1. Job("findPhysicalEntities", b, FALSE) \in Jobs
            BY JobType
      <2> QED
          BY <1>1, <1>3, <2>1 DEF FindPhysicalEntities
<1>4. ASSUME NEW skip \in BOOLEAN, RunFull(skip) PROVE TypeOK'
      <2>1. Job("runFull", state = "AllReady", skip) \in Jobs
            BY JobType
      <2> QED
          BY <1>1, <1>4, <2>1 DEF RunFull
<1> QED
    BY <1>2, <1>3, <1>4 DEF Caller

(* findPhysicalEntities and the checks for a pending cancellation.          *)
LEMMA ScanType ==
  ASSUME TypeOK,
         EntryCheck \/ Find \/ ScanCheck \/ Scan \/ ScannedCheck
           \/ SetupIncrementalUpdate \/ UpdatedCheck \/ MarkNoneReady \/ PhysicalEntryCheck
  PROVE  TypeOK'
<1>1. ASSUME NEW here \in PCs, NEW next \in PCs, CheckCancelled(here, next)
      PROVE  TypeOK'
      <2>1. NoJob \in Jobs
            BY JobType DEF NoJob
      <2>2. UNCHANGED <<diskVars, storeVars, state, compilationDb, toolExecutor, toStart, queue, active>>
            BY <1>1 DEF CheckCancelled
      <2>3. CASE executorCancelled
            BY <1>1, <2>1, <2>2, <2>3 DEF TypeOK, CheckCancelled, Return, PCs, diskVars, storeVars
      <2>4. CASE ~ executorCancelled
            BY <1>1, <2>2, <2>4 DEF TypeOK, CheckCancelled, diskVars, storeVars
      <2> QED
          BY <2>3, <2>4
<1>2. CASE EntryCheck \/ ScanCheck \/ ScannedCheck \/ UpdatedCheck \/ PhysicalEntryCheck
      BY <1>1, <1>2 DEF EntryCheck, ScanCheck, ScannedCheck, UpdatedCheck,
                        PhysicalEntryCheck, PCs
<1>3. CASE Find
      <2>1. job' \in Jobs
            <3> DEFINE incremental == job.doIncremental /\ state \in PhysicallyParsed
                       broken == state \in {"Error", "PhysicalError"}
            <3>1. job' = [job EXCEPT !.oldState = state, !.dbErrorState = broken,
                                     !.doIncremental = incremental]
                  BY <1>3 DEF Find
            <3>2. incremental \in BOOLEAN /\ broken \in BOOLEAN
                  OBVIOUS
            <3> HIDE DEF incremental, broken
            <3> QED
                BY <3>1, <3>2 DEF TypeOK, Jobs
      <2> QED
          BY <1>3, <2>1 DEF Find, TypeOK, PCs, diskVars, storeVars, poolVars
<1>4. CASE Scan
      <2>1. job' \in Jobs
            <3>1. /\ OnDisk \subseteq Files /\ Stored \subseteq Files
                  BY DEF OnDisk, Stored
            <3> QED
                BY <1>4, <3>1 DEF Scan, TypeOK, Jobs
      <2>2. hash' \in [Files -> Nat]
            BY <1>4 DEF Scan, TypeOK
      <2> QED
          BY <1>4, <2>1, <2>2 DEF Scan, TypeOK, PCs, diskVars, storeVars, poolVars
<1>5. CASE SetupIncrementalUpdate
      <2>1. job' \in Jobs
            BY <1>5 DEF SetupIncrementalUpdate, TypeOK, Jobs, NoChanges
      <2>2. /\ hash' \in [Files -> Nat] /\ phys' \in [Files -> Nat]
            /\ logi' \in [Sources -> Nat]
            BY <1>5 DEF SetupIncrementalUpdate, TypeOK
      <2>3. dangling' \subseteq Files /\ incrementalCdb' \subseteq Sources
            BY <1>5 DEF SetupIncrementalUpdate, ToParse, TypeOK, Stored
      <2> QED
          BY <1>5, <2>1, <2>2, <2>3 DEF SetupIncrementalUpdate, TypeOK, PCs, diskVars, poolVars
<1>6. CASE MarkNoneReady
      <2>1. NoJob \in Jobs
            BY JobType DEF NoJob
      <2> QED
          BY <1>6, <2>1 DEF MarkNoneReady, StateAfterScan, Return, TypeOK, PCs, States, PhysicallyParsed,
                            diskVars, storeVars
<1> QED
    BY <1>2, <1>3, <1>4, <1>5, <1>6

(* A pass of the executor, as the parse thread sees it.                     *)
LEMMA PassType ==
  ASSUME TypeOK,
         \/ StartPhysical \/ StartLogical
         \/ \E f \in Sources : StartRunnable(f)
         \/ EndPhysicalPass \/ FinishPhysical \/ EndLogicalPass \/ FinishLogical
  PROVE  TypeOK'
<1>1. ASSUME NEW here, NEW files \in SUBSET Sources, NEW next \in PCs,
             NewExecutor(here, files, next)
      PROVE  TypeOK'
      BY <1>1 DEF TypeOK, NewExecutor, diskVars, storeVars
<1>2. CASE StartPhysical \/ StartLogical
      BY <1>1, <1>2 DEF StartPhysical, StartLogical, LogicalCdb, PCs, TypeOK
<1>3. ASSUME NEW f \in Sources, StartRunnable(f) PROVE TypeOK'
      BY <1>3 DEF TypeOK, StartRunnable, diskVars, storeVars
<1>4. ASSUME NEW here, NEW next \in PCs, DeleteExecutor(here, next) PROVE TypeOK'
      <2>1. job' \in Jobs
            BY <1>4 DEF DeleteExecutor, TypeOK, Jobs
      <2> QED
          BY <1>4, <2>1 DEF TypeOK, DeleteExecutor, diskVars, storeVars, poolVars
<1>5. CASE EndPhysicalPass \/ EndLogicalPass
      BY <1>4, <1>5 DEF EndPhysicalPass, EndLogicalPass, PCs
<1>6. NoJob \in Jobs
      BY JobType DEF NoJob
<1>7. CASE FinishPhysical
      BY <1>6, <1>7 DEF FinishPhysical, Return, TypeOK, PCs, States, diskVars, storeVars
<1>8. CASE FinishLogical
      BY <1>6, <1>8 DEF FinishLogical, StateAfterLogical, Return, TypeOK, PCs, States, diskVars, storeVars
<1> QED
    BY <1>2, <1>3, <1>5, <1>7, <1>8

(* The pool's threads, cancelRun and the user.                              *)
LEMMA OthersType ==
  ASSUME TypeOK, Take \/ (\E f \in Sources : Run(f)) \/ CancelRun \/ User
  PROVE  TypeOK'
<1>1. ASSUME NEW f \in Sources, TakeRunnable(f) PROVE TypeOK'
      BY <1>1 DEF TypeOK, TakeRunnable, diskVars, storeVars
<1>2. ASSUME NEW f \in Sources, NEW visited \in SUBSET Files, NEW ok \in BOOLEAN,
             RunRunnable(f, visited, ok)
      PROVE  TypeOK'
      <2>1. hash' \in [Files -> Nat] /\ phys' \in [Files -> Nat] /\ logi' \in [Sources -> Nat]
            BY <1>2 DEF RunRunnable, TypeOK
      <2>2. trusted' \in BOOLEAN /\ err' \in BOOLEAN
            BY <1>2 DEF RunRunnable, TypeOK
      <2> QED
          BY <1>2, <2>1, <2>2 DEF TypeOK, RunRunnable, diskVars
<1>3. CASE CancelRun
      BY <1>3 DEF TypeOK, CancelRun, diskVars, storeVars
<1>4. ASSUME NEW f \in Files, WriteFile(f) \/ DeleteFile(f) PROVE TypeOK'
      <2>1. ASSUME NEW stamp \in Nat, Touch(f, stamp) PROVE TypeOK'
            BY <2>1 DEF TypeOK, Touch, storeVars, poolVars
      <2>2. clock + 1 \in Nat
            BY DEF TypeOK
      <2> QED
          BY <1>4, <2>1, <2>2 DEF WriteFile, DeleteFile
<1> QED
    BY <1>1, <1>2, <1>3, <1>4 DEF Take, Run, User

(* Every variable of the tool keeps its type in every reachable state, for  *)
(* every code base, thread count and interleaving.                          *)
THEOREM TypeCorrect == Spec => []TypeOK
<1>1. TypeOK /\ [Next]_vars => TypeOK'
      <2>1. CASE Next
            BY <2>1, CallerType, ScanType, PassType, OthersType DEF Next, ParseThread
      <2>2. CASE UNCHANGED vars
            BY <2>2 DEF TypeOK, vars, diskVars, storeVars, poolVars
      <2> QED
          BY <2>1, <2>2
<1> QED
    BY InitType, <1>1, PTL DEF Spec

-----------------------------------------------------------------------------
(* The set of running runnables is finite: it is a set of sources.          *)
LEMMA ActiveFinite == TypeOK => IsFiniteSet(active)
BY SourcesAssumption, FS_Subset DEF TypeOK

LEMMA InitPool == Init => PoolInv
<1> SUFFICES ASSUME Init PROVE PoolInv
    OBVIOUS
<1>1. Cardinality(active) = 0
      BY FS_EmptySet DEF Init
<1> QED
    BY <1>1, NumThreadsAssumption
    DEF Init, PoolInv, Executing, UncancelledPassIsComplete

(* Starting one runnable keeps the pool within its thread count.            *)
LEMMA OneMoreActive ==
  ASSUME TypeOK, NEW f, Cardinality(active) < NumThreads
  PROVE  Cardinality(active \cup {f}) <= NumThreads
<1>1. IsFiniteSet(active)
      BY ActiveFinite
<1>2. Cardinality(active) \in Nat
      BY <1>1, FS_CardinalityType
<1>3. CASE f \in active
      <2>1. active \cup {f} = active
            BY <1>3
      <2> QED
          BY <2>1, <1>2, NumThreadsAssumption
<1>4. CASE f \notin active
      <2>1. Cardinality(active \cup {f}) = Cardinality(active) + 1
            BY <1>1, <1>4, FS_AddElement
      <2> QED
          BY <2>1, <1>2, NumThreadsAssumption
<1> QED
    BY <1>3, <1>4

(* Outside a pass the parse thread touches no pool variable.                *)
LEMMA OutsidePassPool ==
  ASSUME PoolInv,
         Caller \/ EntryCheck \/ Find \/ ScanCheck \/ Scan \/ ScannedCheck
           \/ SetupIncrementalUpdate \/ UpdatedCheck \/ MarkNoneReady
           \/ PhysicalEntryCheck \/ FinishPhysical \/ FinishLogical
  PROVE  PoolInv'
<1> USE DEF PoolInv, Executing, UncancelledPassIsComplete, poolVars
<1>1. ASSUME NEW c, Call(c) PROVE PoolInv'
      BY <1>1 DEF Call
<1>2. CASE Caller
      BY <1>2, <1>1 DEF Caller, FindPhysicalEntities, RunPhysical, RunFull
<1>3. ASSUME NEW here \in {"entry", "toScan", "scanned", "updated", "physicalEntry"},
             NEW next \in {"find", "scan", "setup", "mark", "physical"},
             CheckCancelled(here, next)
      PROVE  PoolInv'
      BY <1>3 DEF CheckCancelled, Return
<1>4. CASE EntryCheck \/ ScanCheck \/ ScannedCheck \/ UpdatedCheck \/ PhysicalEntryCheck
      BY <1>3, <1>4 DEF EntryCheck, ScanCheck, ScannedCheck, UpdatedCheck, PhysicalEntryCheck
<1>5. CASE Find
      BY <1>5 DEF Find
<1>6. CASE Scan
      BY <1>6 DEF Scan
<1>7. CASE SetupIncrementalUpdate
      BY <1>7 DEF SetupIncrementalUpdate
<1>8. CASE MarkNoneReady
      BY <1>8 DEF MarkNoneReady, Return
<1>9. CASE FinishPhysical
      BY <1>9 DEF FinishPhysical, Return
<1>10. CASE FinishLogical
      BY <1>10 DEF FinishLogical, Return
<1> QED
    BY <1>2, <1>4, <1>5, <1>6, <1>7, <1>8, <1>9, <1>10

(* Inside a pass: runnables are started, taken, run and waited for.         *)
LEMMA PassPool ==
  ASSUME TypeOK, PoolInv,
         \/ StartPhysical \/ StartLogical
         \/ \E f \in Sources : StartRunnable(f)
         \/ Take \/ \E f \in Sources : Run(f)
         \/ EndPhysicalPass \/ EndLogicalPass
  PROVE  PoolInv'
<1> USE DEF PoolInv, Executing, UncancelledPassIsComplete
<1>1. ASSUME NEW here \in {"physical", "logical"}, NEW files,
             NEW next \in {"physicalPass", "logicalPass"}, NewExecutor(here, files, next)
      PROVE  PoolInv'
      <2>1. Cardinality(active') = 0
            BY <1>1, FS_EmptySet DEF NewExecutor
      <2>2. incrementalCdb' = (toStart \cup queue \cup active \cup done)'
            BY <1>1 DEF NewExecutor
      <2> QED
          BY <1>1, <2>1, <2>2, NumThreadsAssumption DEF NewExecutor
<1>2. CASE StartPhysical \/ StartLogical
      BY <1>1, <1>2 DEF StartPhysical, StartLogical
<1>3. ASSUME NEW f \in Sources, StartRunnable(f) PROVE PoolInv'
      <2>1. Cardinality(active') <= NumThreads
            BY <1>3, OneMoreActive DEF StartRunnable
      <2>2. (toStart \cup queue \cup active \cup done)' = toStart \cup queue \cup active \cup done
            BY <1>3 DEF StartRunnable
      <2> QED
          BY <1>3, <2>1, <2>2 DEF StartRunnable
<1>4. ASSUME NEW f \in Sources, TakeRunnable(f) PROVE PoolInv'
      <2>1. Cardinality(active') <= NumThreads
            BY <1>4, OneMoreActive DEF TakeRunnable
      <2>2. (toStart \cup queue \cup active \cup done)' = toStart \cup queue \cup active \cup done
            BY <1>4 DEF TakeRunnable
      <2> QED
          BY <1>4, <2>1, <2>2 DEF TakeRunnable
<1>5. ASSUME NEW f \in Sources, NEW visited, NEW ok, RunRunnable(f, visited, ok)
      PROVE  PoolInv'
      <2>1. Cardinality(active') <= NumThreads
            <3>1. active' \subseteq active
                  BY <1>5 DEF RunRunnable
            <3>2. /\ Cardinality(active') <= Cardinality(active)
                  /\ Cardinality(active') \in Nat /\ Cardinality(active) \in Nat
                  BY <3>1, ActiveFinite, FS_Subset, FS_CardinalityType
            <3> QED
                BY <3>2, NumThreadsAssumption
      <2>2. (toStart \cup queue \cup active \cup done)' = toStart \cup queue \cup active \cup done
            BY <1>5 DEF RunRunnable
      <2> QED
          BY <1>5, <2>1, <2>2 DEF RunRunnable
<1>6. ASSUME NEW here \in {"physicalPass", "logicalPass"},
             NEW next \in {"physicalEnd", "logicalEnd"}, DeleteExecutor(here, next)
      PROVE  PoolInv'
      <2>1. ~executorCancelled => incrementalCdb = done
            BY <1>6 DEF DeleteExecutor, WaitForDone
      <2>2. job'.cancelled = executorCancelled
            BY <1>6 DEF DeleteExecutor, TypeOK, Jobs
      <2> QED
          BY <1>6, <2>1, <2>2 DEF DeleteExecutor, WaitForDone, poolVars
<1>7. CASE EndPhysicalPass \/ EndLogicalPass
      BY <1>6, <1>7 DEF EndPhysicalPass, EndLogicalPass
<1> QED
    BY <1>2, <1>3, <1>4, <1>5, <1>7 DEF Take, Run

(* cancelRun from another thread, and the user's editor.                    *)
LEMMA InterferencePool == PoolInv /\ (CancelRun \/ User) => PoolInv'
<1> USE DEF PoolInv, Executing, UncancelledPassIsComplete
<1>1. CancelRun /\ PoolInv => PoolInv'
      BY DEF CancelRun
<1>2. ASSUME PoolInv, NEW f \in Files, NEW stamp, Touch(f, stamp) PROVE PoolInv'
      BY <1>2 DEF Touch, poolVars
<1> QED
    BY <1>1, <1>2 DEF User, WriteFile, DeleteFile

(* PoolInv holds in every reachable state.                                  *)
LEMMA PoolInvariant == Spec => []PoolInv
<1>1. TypeOK /\ PoolInv /\ [Next]_vars => PoolInv'
      <2>1. CASE Next
            BY <2>1, OutsidePassPool, PassPool, InterferencePool DEF Next, ParseThread
      <2>2. CASE UNCHANGED vars
            BY <2>2 DEF PoolInv, Executing, UncancelledPassIsComplete, vars, poolVars
      <2> QED
          BY <2>1, <2>2
<1> QED
    BY InitPool, TypeCorrect, <1>1, PTL DEF Spec

(* No runnable outlives its executor and the pool never exceeds its thread  *)
(* count, whatever cancelRun does and for any number of threads.            *)
THEOREM NoStrayRunnable == Spec => []RunnablesWithinExecutor
<1>1. PoolInv => RunnablesWithinExecutor
      BY DEF PoolInv, RunnablesWithinExecutor
<1> QED
    BY PoolInvariant, <1>1, PTL

(* A pass that reports itself uncancelled has run every file it was given.  *)
THEOREM CompleteUnlessCancelled == Spec => []UncancelledPassIsComplete
<1>1. PoolInv => UncancelledPassIsComplete
      BY DEF PoolInv
<1> QED
    BY PoolInvariant, <1>1, PTL

-----------------------------------------------------------------------------
(* The incremental update loses nothing.                                   *)

(* The time stamps run on with the clock.                                  *)
Stamped == clock > 0 /\ \A f \in Files : disk[f] <= clock /\ hash[f] <= clock

(* The call in progress.                                                   *)
BeforeMark == {"toScan", "scan", "scanned", "setup", "updated", "mark"}
BeforeLogical == BeforeMark \cup {"physicalEntry", "physical", "physicalPass", "physicalEnd"}
InLogical == {"logical", "logicalPass", "logicalEnd"}

CallInv ==
  /\ pc \notin {"idle", "crashed"} => job.fn # "none"
  /\ pc \in {"physicalEntry", "physical", "physicalPass", "physicalEnd"} \cup InLogical
       => job.fn # "findPhysicalEntities"
  /\ pc \in {"entry", "find"} /\ job.fn = "runFull" => job.doIncremental = (state = "AllReady")
  /\ pc \in BeforeLogical /\ job.fn = "runFull"
       => job.doIncremental = (job.oldState = "AllReady")
  /\ pc \in BeforeMark => job.oldState = state /\ (job.doIncremental => state \in PhysicallyParsed)
  /\ pc \in (BeforeLogical \ {"toScan", "scan", "scanned", "setup"}) /\ ~ job.doIncremental
       => incrementalCdb = Sources
  /\ Executing => toStart \cup queue \cup active \cup done \subseteq incrementalCdb

(* A source is good if each file of its translation unit is stored, has    *)
(* been parsed, and is not newer than the source's last parse.             *)
Good(info, s) ==
  \A f \in TranslationUnit(s) : hash[f] # 0 /\ phys[f] # 0 /\ info[s] >= hash[f]

(* The stored sources that are not.                                        *)
Due(info) == {s \in Sources \cap Stored : ~ Good(info, s)}

(* ... and, once the scan has recorded what is on disk, good but for the   *)
(* files found modified.                                                   *)
GoodButModified(info) ==
  \A s \in (Sources \cap Stored) \ job.res.new : \A f \in TranslationUnit(s) :
    hash[f] # 0 /\ phys[f] # 0 /\ (f \in job.res.modified \/ info[s] >= hash[f])

ScanInv ==
  pc \in {"scanned", "setup"} =>
    /\ job.res.modified \cup job.res.deleted \subseteq Stored
    /\ trusted /\ state \in PhysicallyParsed => GoodButModified(phys)
    /\ trusted /\ state = "AllReady" => GoodButModified(logi)

Unfinished == {"scanned", "setup", "updated", "mark", "physicalPass", "physicalEnd", "crashed"}

PhysicalInv ==
  /\ pc \notin Unfinished /\ trusted /\ state \in PhysicallyParsed => Due(phys) = {}
  /\ pc \in {"updated", "mark"} /\ trusted /\ state \in PhysicallyParsed
       => Due(phys) \subseteq IF job.lastRunMadeChanges THEN incrementalCdb ELSE {}
  /\ pc \in {"physicalEntry", "physical"} /\ trusted /\ job.doIncremental
       => Due(phys) \subseteq incrementalCdb
  /\ pc = "physicalPass" /\ (trusted \/ ~ job.doIncremental) /\ ~ err
       => Due(phys) \subseteq (incrementalCdb \ done)
  /\ pc = "physicalEnd" /\ (trusted \/ ~ job.doIncremental) /\ ~ err /\ ~ job.cancelled
       => Due(phys) = {}
  /\ pc \in InLogical /\ trusted => state \in PhysicallyParsed

LogicalInv ==
  /\ pc \notin Unfinished /\ trusted /\ state = "AllReady" => Due(logi) = {}
  /\ pc \in {"updated", "mark"} /\ trusted /\ state = "AllReady"
       => Due(logi) \subseteq IF job.lastRunMadeChanges THEN incrementalCdb ELSE {}
  /\ pc \in {"physicalEntry", "physical", "physicalPass", "physicalEnd", "logical"} /\ trusted
     /\ job.oldState = "AllReady"
       => Due(logi) \subseteq incrementalCdb
  /\ pc = "logicalPass" /\ trusted /\ ~ err => Due(logi) \subseteq (incrementalCdb \ done)
  /\ pc = "logicalEnd" /\ trusted /\ ~ err /\ ~ job.cancelled => Due(logi) = {}

UpdateInv == Stamped /\ CallInv /\ ScanInv /\ PhysicalInv /\ LogicalInv

(* The files of a translation unit.                                        *)
LEMMA UnitIsClosed ==
  ASSUME NEW s \in Files
  PROVE  /\ s \in TranslationUnit(s) /\ TranslationUnit(s) \subseteq Files
         /\ \A g \in TranslationUnit(s) : Includes[g] \subseteq TranslationUnit(s)
<1>1. \A g \in Files : Includes[g] \subseteq Files
      BY IncludesAssumption DEF Files
<1> QED
    BY <1>1 DEF TranslationUnit

LEMMA UnitIsLeast ==
  ASSUME NEW s \in Files, NEW T \in SUBSET Files, s \in T, \A f \in T : Includes[f] \subseteq T
  PROVE  TranslationUnit(s) \subseteq T
BY DEF TranslationUnit

(* The files removeFile reaches.                                           *)
LEMMA IncludersClosed ==
  ASSUME NEW S \in SUBSET Stored
  PROVE  /\ S \subseteq Includers(S) /\ Includers(S) \subseteq Stored
         /\ \A f \in Stored : phys[f] # 0 /\ Includes[f] \cap Includers(S) # {} => f \in Includers(S)
<1>1. S \subseteq Includers(S) /\ Includers(S) \subseteq Stored
      BY DEF Includers
<1>2. ASSUME NEW f \in Stored, phys[f] # 0, NEW h \in Includes[f], h \in Includers(S)
      PROVE  f \in Includers(S)
      <2> SUFFICES ASSUME NEW T \in SUBSET Stored, S \subseteq T,
                          \A g \in Stored : (phys[g] # 0 /\ Includes[g] \cap T # {}) => g \in T
                   PROVE  f \in T
          BY DEF Includers
      <2>1. h \in T
            BY <1>2 DEF Includers
      <2> QED
          BY <1>2, <2>1
<1> QED
    BY <1>1, <1>2

(* A source whose unit was stored and parsed stays with all of its unit,   *)
(* unless it is removed itself.                                            *)
LEMMA RemovedWithIncluders ==
  ASSUME NEW S \in SUBSET Stored, NEW s \in Files, s \notin Includers(S),
         \A f \in TranslationUnit(s) : hash[f] # 0 /\ phys[f] # 0
  PROVE  TranslationUnit(s) \cap Includers(S) = {}
<1> DEFINE T == TranslationUnit(s) \ Includers(S)
<1>1. T \subseteq Files /\ s \in T
      BY UnitIsClosed
<1>2. ASSUME NEW f \in T PROVE Includes[f] \subseteq T
      <2>1. f \in Stored /\ phys[f] # 0 /\ Includes[f] \subseteq TranslationUnit(s)
            BY <1>1, UnitIsClosed DEF Stored
      <2>2. Includes[f] \cap Includers(S) = {}
            BY <2>1, IncludersClosed
      <2> QED
          BY <2>1, <2>2
<1>3. TranslationUnit(s) \subseteq T
      BY <1>1, <1>2, UnitIsLeast
<1> QED
    BY <1>3

-----------------------------------------------------------------------------
(* The call in progress.                                                   *)

LEMMA CallStep ==
  ASSUME TypeOK, CallInv, Next
  PROVE  CallInv'
<1> USE DEF CallInv, BeforeLogical, BeforeMark, InLogical, Executing, PhysicallyParsed
<1>j. job \in Jobs
      BY DEF TypeOK
<1>1. CASE Caller
      <2>1. CASE RunPhysical
            BY <2>1 DEF RunPhysical, Call, Job, NoChanges
      <2>2. ASSUME NEW b \in BOOLEAN, FindPhysicalEntities(b) PROVE CallInv'
            BY <2>2 DEF FindPhysicalEntities, Call, Job, NoChanges
      <2>3. ASSUME NEW b \in BOOLEAN, RunFull(b) PROVE CallInv'
            BY <2>3 DEF RunFull, Call, Job, NoChanges
      <2> QED
          BY <1>1, <2>1, <2>2, <2>3 DEF Caller
<1>2. CASE EntryCheck \/ ScanCheck \/ ScannedCheck \/ UpdatedCheck \/ PhysicalEntryCheck
      BY <1>2 DEF EntryCheck, ScanCheck, ScannedCheck, UpdatedCheck, PhysicalEntryCheck,
                  CheckCancelled, Return
<1>3. CASE Find
      BY <1>j, <1>3 DEF Find, Jobs, poolVars
<1>4. CASE Scan
      BY <1>j, <1>4 DEF Scan, Jobs, poolVars
<1>5. CASE SetupIncrementalUpdate
      BY <1>j, <1>5 DEF SetupIncrementalUpdate, Jobs, poolVars
<1>6. CASE MarkNoneReady
      BY <1>j, <1>6 DEF MarkNoneReady, Return, Jobs
<1>7. CASE StartPhysical \/ StartLogical
      BY <1>7 DEF StartPhysical, StartLogical, NewExecutor
<1>8. ASSUME NEW f \in Sources, StartRunnable(f) \/ TakeRunnable(f) PROVE CallInv'
      BY <1>8 DEF StartRunnable, TakeRunnable
<1>9. CASE EndPhysicalPass \/ EndLogicalPass
      BY <1>j, <1>9 DEF EndPhysicalPass, EndLogicalPass, DeleteExecutor, Jobs, poolVars
<1>10. CASE FinishPhysical \/ FinishLogical
      BY <1>j, <1>10 DEF FinishPhysical, FinishLogical, Return, Jobs
<1>11. ASSUME NEW f \in Sources, NEW visited, NEW ok, RunRunnable(f, visited, ok) PROVE CallInv'
      BY <1>11 DEF RunRunnable
<1>12. CASE CancelRun
      BY <1>12 DEF CancelRun
<1>13. CASE User
      BY <1>13 DEF User, WriteFile, DeleteFile, Touch, poolVars
<1> QED
    BY <1>1, <1>2, <1>3, <1>4, <1>5, <1>6, <1>7, <1>8, <1>9, <1>10, <1>11, <1>12, <1>13
    DEF Next, ParseThread, Take, Run

LEMMA StampedStep ==
  ASSUME TypeOK, Stamped, Next
  PROVE  Stamped'
<1> USE DEF Stamped, TypeOK
<1>1. ASSUME NEW f \in Files, WriteFile(f) \/ DeleteFile(f) PROVE Stamped'
      BY <1>1 DEF WriteFile, DeleteFile, Touch, storeVars
<1>2. CASE Scan
      BY <1>2 DEF Scan, diskVars
<1>3. CASE SetupIncrementalUpdate
      BY <1>3 DEF SetupIncrementalUpdate, diskVars
<1>4. ASSUME NEW f \in Sources, NEW visited, NEW ok, RunRunnable(f, visited, ok) PROVE Stamped'
      BY <1>4 DEF RunRunnable, diskVars
<1>5. CASE UNCHANGED <<diskVars, hash>>
      BY <1>5 DEF diskVars
<1>6. CASE Caller \/ CancelRun
      BY <1>5, <1>6 DEF Caller, RunPhysical, FindPhysicalEntities, RunFull, Call, CancelRun, storeVars
<1>7. CASE EntryCheck \/ ScanCheck \/ ScannedCheck \/ UpdatedCheck \/ PhysicalEntryCheck
           \/ Find \/ MarkNoneReady
      BY <1>5, <1>7 DEF EntryCheck, ScanCheck, ScannedCheck, UpdatedCheck, PhysicalEntryCheck,
                  CheckCancelled, Find, MarkNoneReady, storeVars
<1>8. CASE StartPhysical \/ StartLogical \/ EndPhysicalPass \/ EndLogicalPass \/ FinishPhysical
           \/ FinishLogical \/ \E f \in Sources : StartRunnable(f) \/ TakeRunnable(f)
      BY <1>5, <1>8 DEF StartPhysical, StartLogical, NewExecutor, EndPhysicalPass, EndLogicalPass,
                  DeleteExecutor, FinishPhysical, FinishLogical, StartRunnable, TakeRunnable, storeVars
<1> QED
    BY <1>1, <1>2, <1>3, <1>4, <1>6, <1>7, <1>8 DEF Next, ParseThread, Take, Run, User

-----------------------------------------------------------------------------
(* Steps that leave the store alone.                                       *)

LEMMA SameStore ==
  ASSUME UNCHANGED <<hash, phys, logi>>
  PROVE  Due(phys)' = Due(phys) /\ Due(logi)' = Due(logi)
BY DEF Due, Stored, Good

(* ... and where the parse thread is, or what concerns it.                 *)
LEMMA NothingHappens ==
  ASSUME ScanInv, PhysicalInv, LogicalInv, UNCHANGED <<hash, phys, logi>>,
         UNCHANGED <<pc, job, state, trusted, incrementalCdb, done, err>>
  PROVE  ScanInv' /\ PhysicalInv' /\ LogicalInv'
<1>1. Due(phys)' = Due(phys) /\ Due(logi)' = Due(logi)
      BY SameStore
<1>2. ScanInv'
      BY DEF ScanInv, GoodButModified, Stored
<1>3. PhysicalInv'
      BY <1>1 DEF PhysicalInv
<1>4. LogicalInv'
      BY <1>1 DEF LogicalInv
<1> QED
    BY <1>2, <1>3, <1>4

LEMMA ThreadAloneStep ==
  ASSUME TypeOK, PoolInv, UpdateInv,
         \/ Caller \/ EntryCheck \/ Find \/ ScanCheck \/ ScannedCheck \/ UpdatedCheck
         \/ MarkNoneReady \/ PhysicalEntryCheck \/ StartPhysical \/ StartLogical
         \/ EndPhysicalPass \/ FinishPhysical \/ EndLogicalPass \/ FinishLogical
  PROVE  ScanInv' /\ PhysicalInv' /\ LogicalInv'
<1> USE DEF ScanInv, PhysicalInv, LogicalInv, Unfinished, InLogical
<1>j. job \in Jobs /\ trusted \in BOOLEAN /\ err \in BOOLEAN
      BY DEF TypeOK
<1>s. UNCHANGED <<hash, phys, logi>> => Due(phys)' = Due(phys) /\ Due(logi)' = Due(logi)
      BY SameStore
<1>i. CallInv /\ ScanInv /\ PhysicalInv /\ LogicalInv
      BY DEF UpdateInv
<1>r. "NoneReady" \notin PhysicallyParsed /\ "AllReady" \in PhysicallyParsed
      /\ "PhysicalReady" \in PhysicallyParsed /\ "PhysicalError" \notin PhysicallyParsed
      BY DEF PhysicallyParsed
<1>1. ASSUME NEW here \in {"idle", "entry", "find", "toScan", "physicalEntry"},
             NEW next \in {"idle", "entry", "find", "toScan", "scan"},
             pc = here, pc' = next, UNCHANGED <<hash, phys, logi, state, trusted>>
      PROVE  ScanInv' /\ PhysicalInv' /\ LogicalInv'
      <2>1. Due(phys)' = Due(phys) /\ Due(logi)' = Due(logi)
            BY <1>s, <1>1
      <2> QED
          BY <1>i, <1>1, <2>1
<1>2. CASE Caller
      <2>1. ASSUME NEW c, Call(c) PROVE ScanInv' /\ PhysicalInv' /\ LogicalInv'
            <3>1. pc = "idle" /\ pc' \in {"idle", "entry", "find"} /\ UNCHANGED <<hash, phys, logi, state, trusted>>
                  BY <2>1 DEF Call, storeVars
            <3> QED
                BY <1>1, <3>1
      <2> QED
          BY <1>2, <2>1 DEF Caller, RunPhysical, FindPhysicalEntities, RunFull
<1>3. CASE EntryCheck \/ ScanCheck \/ Find
      <2>1. /\ pc \in {"entry", "find", "toScan"} /\ pc' \in {"idle", "find", "toScan", "scan"}
            /\ UNCHANGED <<hash, phys, logi, state, trusted>>
            BY <1>3, <1>j DEF EntryCheck, ScanCheck, CheckCancelled, Return, Find, storeVars
      <2> QED
          BY <1>1, <2>1
<1>4. CASE ScannedCheck
      <2>1. pc = "scanned" /\ UNCHANGED <<hash, phys, logi, state>>
            BY <1>4 DEF ScannedCheck, CheckCancelled, storeVars
      <2>2. CASE pc' = "setup" /\ UNCHANGED <<job, trusted>>
            <3>1. /\ Stored' = Stored
                  /\ GoodButModified(phys)' <=> GoodButModified(phys)
                  /\ GoodButModified(logi)' <=> GoodButModified(logi)
                  BY <2>1, <2>2 DEF GoodButModified, Stored
            <3> QED
                BY <1>i, <2>1, <2>2, <3>1
      <2>3. CASE pc' = "idle" /\ ~ trusted'
            BY <2>3
      <2> QED
          BY <1>4, <2>2, <2>3 DEF ScannedCheck, CheckCancelled, Return
<1>5. CASE UpdatedCheck
      <2>1. pc = "updated" /\ Due(phys)' = Due(phys) /\ Due(logi)' = Due(logi) /\ state' = state
            BY <1>s, <1>5 DEF UpdatedCheck, CheckCancelled, storeVars
      <2>2. CASE pc' = "mark" /\ UNCHANGED <<job, incrementalCdb, trusted>>
            BY <1>i, <2>1, <2>2
      <2>3. CASE pc' = "idle" /\ ~ trusted'
            BY <2>3
      <2> QED
          BY <1>5, <2>2, <2>3 DEF UpdatedCheck, CheckCancelled, Return
<1>6. CASE PhysicalEntryCheck
      <2>1. pc = "physicalEntry" /\ UNCHANGED <<hash, phys, logi, state, trusted>>
            BY <1>6, <1>j DEF PhysicalEntryCheck, CheckCancelled, storeVars
      <2>2. CASE pc' = "physical" /\ UNCHANGED <<job, incrementalCdb>>
            <3>1. Due(phys)' = Due(phys) /\ Due(logi)' = Due(logi)
                  BY <1>s, <2>1
            <3> QED
                BY <1>i, <2>1, <2>2, <3>1
      <2>3. CASE pc' = "idle"
            BY <1>1, <2>1, <2>3
      <2> QED
          BY <1>6, <2>2, <2>3 DEF PhysicalEntryCheck, CheckCancelled, Return
<1>7. CASE MarkNoneReady
      <2>1. /\ pc = "mark" /\ Due(phys)' = Due(phys) /\ Due(logi)' = Due(logi)
            /\ trusted' => trusted /\ (job.skipPhysical => state' \in PhysicallyParsed)
            /\ state' = IF job.lastRunMadeChanges \/ job.dbErrorState THEN "NoneReady" ELSE state
            BY <1>s, <1>7 DEF MarkNoneReady, StateAfterScan, storeVars
      <2>2. job.oldState = state /\ (job.doIncremental => state \in PhysicallyParsed)
            BY <1>i, <2>1 DEF CallInv, BeforeMark
      <2>3. /\ trusted /\ state \in PhysicallyParsed => Due(phys) \subseteq incrementalCdb
            /\ trusted /\ state = "AllReady" => Due(logi) \subseteq incrementalCdb
            BY <1>i, <1>r, <2>1
      <2>4. /\ trusted /\ state' \in PhysicallyParsed => Due(phys) = {} /\ state' = state
            /\ trusted /\ state' = "AllReady" => Due(logi) = {}
            BY <1>i, <1>r, <2>1
      <2>5. CASE pc' = "idle"
            BY <2>1, <2>4, <2>5
      <2>6. CASE /\ pc' \in {"physical", "physicalEntry"} \/ (pc' = "logical" /\ job.skipPhysical)
                 /\ UNCHANGED <<incrementalCdb, job>>
            BY <2>1, <2>2, <2>3, <2>4, <2>6
      <2> QED
          BY <1>7, <2>5, <2>6 DEF MarkNoneReady, Return
<1>8. CASE StartPhysical
      <2>1. ~ job.doIncremental => incrementalCdb = Sources
            BY <1>i, <1>8 DEF StartPhysical, NewExecutor, CallInv, BeforeLogical, BeforeMark
      <2>2. /\ pc = "physical" /\ pc' = "physicalPass" /\ done' = {}
            /\ Due(phys)' = Due(phys) /\ Due(logi)' = Due(logi)
            /\ UNCHANGED <<incrementalCdb, job, trusted>>
            BY <1>s, <1>8 DEF StartPhysical, NewExecutor, storeVars
      <2>3. Due(phys) \subseteq Sources
            BY DEF Due
      <2> QED
          BY <1>i, <2>1, <2>2, <2>3
<1>9. CASE StartLogical
      <2>1. /\ pc = "logical" /\ pc' = "logicalPass" /\ done' = {}
            /\ Due(phys)' = Due(phys) /\ Due(logi)' = Due(logi)
            /\ UNCHANGED <<job, trusted, state>>
            /\ incrementalCdb' = IF job.oldState = "AllReady" THEN incrementalCdb ELSE Sources
            BY <1>s, <1>9 DEF StartLogical, NewExecutor, LogicalCdb, storeVars
      <2>2. Due(logi) \subseteq Sources
            BY DEF Due
      <2> QED
          BY <1>i, <2>1, <2>2
<1>10. CASE EndPhysicalPass \/ EndLogicalPass
      <2>1. /\ <<pc, pc'>> \in {<<"physicalPass", "physicalEnd">>, <<"logicalPass", "logicalEnd">>}
            /\ UNCHANGED <<hash, phys, logi, state, trusted, incrementalCdb, done, err>>
            /\ ~ executorCancelled => incrementalCdb = done
            BY <1>10 DEF EndPhysicalPass, EndLogicalPass, DeleteExecutor, WaitForDone, PoolInv,
                         Executing, storeVars, poolVars
      <2>2. /\ job'.cancelled = executorCancelled /\ job'.doIncremental = job.doIncremental
            /\ job'.oldState = job.oldState
            BY <1>j, <1>10 DEF EndPhysicalPass, EndLogicalPass, DeleteExecutor, Jobs
      <2>3. Due(phys)' = Due(phys) /\ Due(logi)' = Due(logi)
            BY <1>s, <2>1
      <2> QED
          BY <1>i, <2>1, <2>2, <2>3
<1>11. CASE FinishPhysical
      <2>1. /\ pc = "physicalEnd" /\ Due(phys)' = Due(phys) /\ Due(logi)' = Due(logi)
            /\ trusted' = (~ err /\ ~ job.cancelled /\ (trusted \/ ~ job.doIncremental))
            /\ trusted' => state' = "PhysicalReady"
            BY <1>s, <1>11 DEF FinishPhysical, storeVars
      <2>2. /\ job.fn \in {"runPhysical", "runFull"}
            /\ job.fn = "runFull" => job.doIncremental = (job.oldState = "AllReady")
            BY <1>i, <1>j, <2>1 DEF CallInv, BeforeLogical, BeforeMark, Jobs
      <2>3. trusted' => Due(phys) = {}
            BY <1>i, <2>1
      <2>4. CASE pc' = "idle"
            BY <1>r, <2>1, <2>3, <2>4
      <2>5. CASE pc' = "logical" /\ UNCHANGED <<incrementalCdb, job>> /\ job.fn # "runPhysical"
            <3>1. trusted' /\ job.oldState = "AllReady" => trusted
                  BY <2>1, <2>2, <2>5
            <3> QED
                BY <1>i, <1>r, <2>1, <2>3, <2>5, <3>1
      <2> QED
          BY <1>11, <2>4, <2>5 DEF FinishPhysical, Return
<1>12. CASE FinishLogical
      <2>1. /\ pc = "logicalEnd" /\ pc' = "idle" /\ Due(phys)' = Due(phys) /\ Due(logi)' = Due(logi)
            /\ trusted' = trusted
            /\ state' = IF err THEN "LogicalError" ELSE IF job.cancelled THEN state ELSE "AllReady"
            BY <1>s, <1>12 DEF FinishLogical, StateAfterLogical, Return, storeVars
      <2>2. trusted => Due(phys) = {}
            BY <1>i, <2>1
      <2>3. trusted /\ state' = "AllReady" => Due(logi) = {}
            BY <1>i, <2>1
      <2> QED
          BY <2>1, <2>2, <2>3
<1> QED
    BY <1>2, <1>3, <1>4, <1>5, <1>6, <1>7, <1>8, <1>9, <1>10, <1>11, <1>12

(* The scan refreshes the hash of what it found, and says of what.         *)
LEMMA ScanStep ==
  ASSUME TypeOK, UpdateInv, Scan
  PROVE  ScanInv' /\ PhysicalInv' /\ LogicalInv'
<1> DEFINE found == (Sources \cup ComponentHeaders) \cap OnDisk
           modified == {f \in found \cap Stored : hash[f] # disk[f]}
           deleted == ((Sources \cup ComponentHeaders) \cap Stored) \ OnDisk
<1>1. /\ pc = "scan" /\ pc' = "scanned" /\ UNCHANGED <<phys, logi, state, trusted>>
      /\ hash' = [f \in Files |-> IF f \in found THEN disk[f] ELSE hash[f]]
      BY DEF Scan
<1>2. job'.res.new = found \ Stored /\ job'.res.modified = modified /\ job'.res.deleted = deleted
      BY DEF Scan, TypeOK, Jobs
<1>3. found \subseteq Files /\ \A f \in found : disk[f] # 0
      BY DEF OnDisk
<1>4. Stored' = Stored \cup found /\ Stored \subseteq Files
      BY <1>1, <1>3 DEF Stored
<1>5. modified \cup deleted \subseteq Stored'
      BY <1>4
<1>6. ASSUME NEW s \in (Sources \cap Stored') \ (found \ Stored), NEW f \in TranslationUnit(s)
      PROVE  /\ Good(phys, s) => hash'[f] # 0 /\ phys[f] # 0 /\ (f \in modified \/ phys[s] >= hash'[f])
             /\ Good(logi, s) => hash'[f] # 0 /\ phys[f] # 0 /\ (f \in modified \/ logi[s] >= hash'[f])
      <2>1. f \in Files
            BY UnitIsClosed DEF Files
      <2>2. CASE hash[f] # 0
            BY <1>1, <1>3, <2>1, <2>2 DEF Good, Stored
      <2>3. CASE hash[f] = 0
            BY <2>3 DEF Good
      <2> QED
          BY <2>2, <2>3
<1>7. \A s \in (Sources \cap Stored') \ (found \ Stored) : s \in Sources \cap Stored
      BY <1>4
<1> HIDE DEF found, modified, deleted
<1>8. /\ trusted /\ state \in PhysicallyParsed => GoodButModified(phys)'
      /\ trusted /\ state = "AllReady" => GoodButModified(logi)'
      <2>1. /\ trusted /\ state \in PhysicallyParsed => \A s \in Sources \cap Stored : Good(phys, s)
            /\ trusted /\ state = "AllReady" => \A s \in Sources \cap Stored : Good(logi, s)
            BY <1>1 DEF UpdateInv, PhysicalInv, LogicalInv, Due, Unfinished
      <2> QED
          BY <1>1, <1>2, <1>6, <1>7, <2>1 DEF GoodButModified
<1>9. ScanInv'
      BY <1>1, <1>2, <1>5, <1>8 DEF ScanInv
<1> QED
    BY <1>1, <1>9 DEF PhysicalInv, LogicalInv, Unfinished, InLogical

(* Whatever is not good is removed, and listed to be parsed again.         *)
LEMMA SetupStep ==
  ASSUME TypeOK, UpdateInv, SetupIncrementalUpdate
  PROVE  ScanInv' /\ PhysicalInv' /\ LogicalInv'
<1> DEFINE res == job.res
           gone == Includers(res.modified \cup res.deleted)
<1>1. /\ pc = "setup" /\ pc' \in {"updated", "crashed"} /\ UNCHANGED <<state, trusted>>
      /\ incrementalCdb' = IF job.doIncremental THEN ToParse(res, gone) ELSE Sources
      BY DEF SetupIncrementalUpdate
<1>2. /\ hash' = [f \in Files |-> IF f \in gone THEN 0 ELSE hash[f]]
      /\ phys' = [f \in Files |-> IF f \in gone THEN 0 ELSE phys[f]]
      /\ logi' = [s \in Sources |-> IF s \in gone THEN 0 ELSE logi[s]]
      BY DEF SetupIncrementalUpdate, TypeOK
<1>3. job'.lastRunMadeChanges = (res # NoChanges)
      BY DEF SetupIncrementalUpdate, TypeOK, Jobs
<1>4. res \in [new : SUBSET Files, modified : SUBSET Files, deleted : SUBSET Files]
      BY DEF TypeOK, Jobs
<1>5. res.modified \cup res.deleted \in SUBSET Stored
      BY <1>1 DEF UpdateInv, ScanInv
<1>6. res.modified \subseteq gone /\ gone \subseteq Stored
      BY <1>5, IncludersClosed
<1>7. Stored' = Stored \ gone
      BY <1>2 DEF Stored
<1>8. ASSUME NEW s \in Sources \cap Stored', s \notin res.new
      PROVE  /\ GoodButModified(phys) => Good(phys, s)'
             /\ GoodButModified(logi) => Good(logi, s)'
      <2>1. s \in Sources \cap Stored /\ s \notin gone /\ s \in Files
            BY <1>7 DEF Files
      <2>2. GoodButModified(phys) \/ GoodButModified(logi) =>
              \A f \in TranslationUnit(s) : hash[f] # 0 /\ phys[f] # 0
            BY <1>8, <2>1 DEF GoodButModified
      <2>3. GoodButModified(phys) \/ GoodButModified(logi) => TranslationUnit(s) \cap gone = {}
            BY <1>5, <2>1, <2>2, RemovedWithIncluders
      <2>4. TranslationUnit(s) \subseteq Files
            BY <2>1, UnitIsClosed
      <2>5. phys'[s] = phys[s] /\ logi'[s] = logi[s]
            BY <1>2, <2>1
      <2> HIDE DEF gone
      <2>6. \A f \in TranslationUnit(s) : f \notin gone => hash'[f] = hash[f] /\ phys'[f] = phys[f]
            BY <1>2, <2>4
      <2> QED
          BY <1>6, <1>8, <2>1, <2>3, <2>5, <2>6 DEF GoodButModified, Good
<1>9. \A s \in Sources \cap Stored' : s \in res.new => s \in incrementalCdb'
      BY <1>1 DEF ToParse
<1>10. res = NoChanges => res.new = {}
      BY DEF NoChanges
<1> HIDE DEF res, gone
<1>11. /\ GoodButModified(phys) => (Due(phys) \subseteq IF job.lastRunMadeChanges THEN incrementalCdb ELSE {})'
       /\ GoodButModified(logi) => (Due(logi) \subseteq IF job.lastRunMadeChanges THEN incrementalCdb ELSE {})'
      BY <1>3, <1>8, <1>9, <1>10 DEF Due
<1> QED
    BY <1>1, <1>11 DEF UpdateInv, ScanInv, PhysicalInv, LogicalInv, Unfinished, InLogical

(* A runnable stores what it visits, at the time it visits it.             *)
LEMMA RunStep ==
  ASSUME TypeOK, PoolInv, UpdateInv, NEW f \in Sources, NEW visited \in SUBSET Files,
         NEW ok \in BOOLEAN, RunRunnable(f, visited, ok)
  PROVE  ScanInv' /\ PhysicalInv' /\ LogicalInv'
<1>1. /\ UNCHANGED <<pc, job, state, incrementalCdb, clock>>
      /\ done' = done \cup {f} /\ err' = (err \/ ~ ok) /\ f \in active
      /\ hash' = [g \in Files |-> IF g \in visited /\ hash[g] = 0 THEN disk[g] ELSE hash[g]]
      /\ ok => visited = TranslationUnit(f)
      BY DEF RunRunnable, diskVars
<1>2. f \in incrementalCdb /\ pc \in {"physicalPass", "logicalPass"}
      BY <1>1 DEF UpdateInv, CallInv, PoolInv, Executing, RunRunnable
<1>3. \A g \in visited : disk[g] # 0 /\ disk[g] <= clock /\ hash[g] <= clock
      BY DEF RunRunnable, OnDisk, UpdateInv, Stamped
<1>4. /\ \A g \in visited : hash'[g] # 0 /\ hash'[g] <= clock
      /\ \A g \in Files : hash[g] # 0 => hash'[g] = hash[g]
      /\ \A g \in Files \ visited : hash'[g] = hash[g]
      BY <1>1, <1>3
<1>5. visited \cap Sources \subseteq {f}
      BY HeadersAssumption, IncludesAssumption DEF RunRunnable, Files
<1>6. /\ Sources \cap Stored' \subseteq (Sources \cap Stored) \cup {f}
      /\ Stored \subseteq Stored'
      BY <1>4, <1>5 DEF Stored, Files
<1>7. clock \in Nat /\ clock # 0 /\ hash \in [Files -> Nat] /\ phys \in [Files -> Nat]
      /\ logi \in [Sources -> Nat] /\ hash' \in [Files -> Nat] /\ Sources \subseteq Files
      BY <1>1 DEF UpdateInv, Stamped, TypeOK, Files
<1>8. \A s \in Sources : TranslationUnit(s) \subseteq Files /\ s \in TranslationUnit(s)
      BY <1>7, UnitIsClosed
<1>9. CASE pc = "physicalPass"
      <2>1. /\ phys' = [g \in Files |-> IF g \in visited THEN clock ELSE phys[g]]
            /\ logi' = logi /\ trusted' = trusted
            BY <1>9 DEF RunRunnable, TypeOK
      <2>2. ASSUME NEW s \in Sources, Good(phys, s) PROVE Good(phys, s)'
            <3>1. phys'[s] = phys[s] \/ (s \in visited /\ phys'[s] = clock)
                  BY <1>7, <2>1
            <3>2. ASSUME NEW g \in TranslationUnit(s)
                  PROVE  hash'[g] = hash[g] /\ hash'[g] # 0 /\ hash[g] <= clock /\ phys'[g] # 0
                         /\ phys[s] >= hash[g]
                  BY <1>4, <1>7, <1>8, <2>1, <2>2 DEF Good, UpdateInv, Stamped
            <3>3. ASSUME NEW g \in TranslationUnit(s) PROVE phys'[s] >= hash'[g]
                  BY <1>7, <1>8, <3>1, <3>2
            <3> QED
                BY <3>2, <3>3 DEF Good
      <2>3. ASSUME NEW s \in Sources, Good(logi, s) PROVE Good(logi, s)'
            BY <1>4, <1>7, <1>8, <2>1, <2>3 DEF Good
      <2>4. ok => Good(phys, f)'
            BY <1>1, <1>4, <1>7, <1>8, <2>1 DEF Good
      <2>5. Due(phys)' \subseteq Due(phys) \cup {f} /\ Due(logi)' \subseteq Due(logi) \cup {f}
            BY <1>6, <2>2, <2>3 DEF Due
      <2>6. ok => f \notin Due(phys)'
            BY <2>4 DEF Due
      <2>7. PhysicalInv'
            <3>1. (trusted \/ ~ job.doIncremental) /\ ~ err => Due(phys) \subseteq (incrementalCdb \ done)
                  BY <1>9 DEF UpdateInv, PhysicalInv
            <3>2. (trusted \/ ~ job.doIncremental) /\ ~ err'
                    => Due(phys)' \subseteq (incrementalCdb \ (done \cup {f}))
                  BY <1>1, <2>5, <2>6, <3>1
            <3> QED
                BY <1>1, <1>9, <2>1, <3>2 DEF PhysicalInv, Unfinished, InLogical
      <2>8. LogicalInv'
            BY <1>1, <1>2, <1>9, <2>1, <2>5 DEF UpdateInv, LogicalInv, Unfinished
      <2> QED
          BY <1>1, <1>9, <2>7, <2>8 DEF ScanInv
<1>10. CASE pc = "logicalPass"
      <2>1. /\ logi' = [s \in Sources |-> IF s \in visited THEN clock ELSE logi[s]]
            /\ phys' = phys /\ trusted' = (trusted /\ visited \subseteq Stored)
            BY <1>10 DEF RunRunnable, TypeOK
      <2>2. CASE ~ trusted'
            BY <1>1, <1>10, <2>2 DEF ScanInv, PhysicalInv, LogicalInv, Unfinished
      <2>3. CASE trusted'
            <3>1. trusted /\ visited \subseteq Stored
                  BY <2>1, <2>3
            <3>2. hash' = hash
                  BY <1>1, <1>7, <3>1 DEF Stored
            <3>3. Due(phys)' = Due(phys)
                  BY <2>1, <3>2 DEF Due, Good, Stored
            <3>4. state \in PhysicallyParsed /\ Due(phys) = {}
                  BY <1>10, <3>1 DEF UpdateInv, PhysicalInv, InLogical, Unfinished
            <3>5. ASSUME NEW s \in Sources, Good(logi, s) PROVE Good(logi, s)'
                  <4>1. logi'[s] = logi[s] \/ logi'[s] = clock
                        BY <2>1
                  <4>2. \A g \in TranslationUnit(s) : hash[g] <= clock
                        BY <1>8 DEF UpdateInv, Stamped
                  <4> QED
                      BY <1>7, <2>1, <3>2, <3>5, <4>1, <4>2 DEF Good
            <3>6. ASSUME ok PROVE f \notin Due(logi)'
                  <4>1. f \in Stored /\ Good(phys, f)
                        BY <1>1, <1>8, <3>1, <3>4, <3>6 DEF Due
                  <4>2. logi'[f] = clock
                        BY <1>1, <1>8, <2>1, <3>6
                  <4>3. \A g \in TranslationUnit(f) : hash[g] <= clock
                        BY <1>8 DEF UpdateInv, Stamped
                  <4>4. Good(logi, f)'
                        BY <1>7, <2>1, <3>2, <4>1, <4>2, <4>3 DEF Good
                  <4> QED
                      BY <4>4 DEF Due
            <3>7. Due(logi)' \subseteq Due(logi)
                  BY <3>2, <3>5 DEF Due, Stored
            <3>8. PhysicalInv'
                  BY <1>1, <1>10, <3>3, <3>4 DEF PhysicalInv, Unfinished, InLogical
            <3>9. ~ err => Due(logi) \subseteq (incrementalCdb \ done)
                  BY <1>10, <3>1 DEF UpdateInv, LogicalInv
            <3>10. ~ err' => Due(logi)' \subseteq (incrementalCdb \ (done \cup {f}))
                  BY <1>1, <3>6, <3>7, <3>9
            <3>11. state = "AllReady" => Due(logi)' = {}
                  BY <1>10, <3>1, <3>7 DEF UpdateInv, LogicalInv, Unfinished
            <3>12. LogicalInv'
                  BY <1>1, <1>10, <3>10, <3>11 DEF LogicalInv, Unfinished
            <3> QED
                BY <1>1, <1>10, <3>8, <3>12 DEF ScanInv
      <2> QED
          BY <2>2, <2>3
<1> QED
    BY <1>2, <1>9, <1>10

(* The pool's queue, cancelRun and the user.                               *)
LEMMA OthersStep ==
  ASSUME ScanInv, PhysicalInv, LogicalInv,
         \/ \E f \in Sources : StartRunnable(f) \/ TakeRunnable(f)
         \/ CancelRun \/ User
  PROVE  ScanInv' /\ PhysicalInv' /\ LogicalInv'
<1>1. UNCHANGED <<hash, phys, logi>> /\ UNCHANGED <<pc, job, state, trusted, incrementalCdb, done, err>>
      BY DEF StartRunnable, TakeRunnable, CancelRun, User, WriteFile, DeleteFile, Touch, storeVars, poolVars
<1> QED
    BY <1>1, NothingHappens

LEMMA UpdateInvariant == Spec => []UpdateInv
<1>1. Init => UpdateInv
      <2> SUFFICES ASSUME Init PROVE UpdateInv
          OBVIOUS
      <2>1. pc = "idle" /\ state = "NoneReady" /\ clock = 1 /\ \A f \in Files : disk[f] = 1 /\ hash[f] = 0
            BY DEF Init
      <2> QED
          BY <2>1 DEF UpdateInv, Stamped, CallInv, ScanInv, PhysicalInv, LogicalInv, Unfinished, InLogical,
             BeforeLogical, BeforeMark, Executing, PhysicallyParsed
<1>2. TypeOK /\ PoolInv /\ UpdateInv /\ [Next]_vars => UpdateInv'
      <2> SUFFICES ASSUME TypeOK, PoolInv, UpdateInv, [Next]_vars PROVE UpdateInv'
          OBVIOUS
      <2>1. CASE Next
            <3>1. Stamped' /\ CallInv'
                  BY <2>1, StampedStep, CallStep DEF UpdateInv
            <3>2. ASSUME NEW f \in Sources, Run(f) PROVE ScanInv' /\ PhysicalInv' /\ LogicalInv'
                  BY <3>2, RunStep DEF Run
            <3>3. ScanInv' /\ PhysicalInv' /\ LogicalInv'
                  BY <2>1, <3>2, ThreadAloneStep, ScanStep, SetupStep, OthersStep
                  DEF Next, ParseThread, Take, UpdateInv
            <3> QED
                BY <3>1, <3>3 DEF UpdateInv
      <2>2. CASE UNCHANGED vars
            <3>1. ScanInv' /\ PhysicalInv' /\ LogicalInv'
                  BY <2>2, NothingHappens DEF UpdateInv, vars, storeVars, poolVars
            <3>2. Stamped' /\ CallInv'
                  BY <2>2 DEF UpdateInv, Stamped, CallInv, Executing, vars, diskVars, storeVars, poolVars
            <3> QED
                BY <3>1, <3>2 DEF UpdateInv
      <2> QED
          BY <2>1, <2>2
<1> QED
    BY <1>1, <1>2, TypeCorrect, PoolInvariant, PTL DEF Spec

(* What is not due has been parsed since its files were recorded.          *)
LEMMA NothingDue ==
  ASSUME NEW info, \A s \in Sources \cap Stored : Good(info, s)
  PROVE  ParsedSince(info)
BY DEF ParsedSince, Good

(* An incremental update loses nothing (setupIncrementalUpdate, runPhysical*)
(* and runFull): for any code base, any edits meanwhile and any            *)
(* cancellations, a state that says physically parsed can be believed.     *)
THEOREM PhysicalUpdateLosesNothing == Spec => []PhysicalUpToDate
<1>1. UpdateInv => PhysicalUpToDate
      <2> SUFFICES ASSUME UpdateInv, pc = "idle", trusted, state \in PhysicallyParsed
                   PROVE  ParsedSince(phys)
          BY DEF PhysicalUpToDate
      <2>1. Due(phys) = {}
            BY DEF UpdateInv, PhysicalInv, Unfinished
      <2> QED
          BY <2>1, NothingDue DEF Due
<1> QED
    BY <1>1, UpdateInvariant, PTL

(* ... and so can one that says the logical parse is done (runFull).       *)
THEOREM LogicalUpdateLosesNothing == Spec => []LogicalUpToDate
<1>1. UpdateInv => LogicalUpToDate
      <2> SUFFICES ASSUME UpdateInv, pc = "idle", trusted, state = "AllReady"
                   PROVE  ParsedSince(logi)
          BY DEF LogicalUpToDate
      <2>1. Due(logi) = {}
            BY DEF UpdateInv, LogicalInv, Unfinished
      <2> QED
          BY <2>1, NothingDue DEF Due
<1> QED
    BY <1>1, UpdateInvariant, PTL
=============================================================================
