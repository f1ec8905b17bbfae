# CodeVis: a TLA+ model of its core

CodeVis parses a C++ code base with clang, keeps what it found in an in-memory
database, writes that to SQLite, and shows it as diagrams inside a project that
is saved as one compressed file.  This directory holds TLA+ modules of the parts
where interleavings, errors and restarts make the code hard to get right, the
TLC configurations that check them, and proofs that TLAPS checks.

## The system

| Component | State it keeps | Operations | What is hard about it |
|---|---|---|---|
| Parse tool: `lvtclp::Tool`, `ToolExecutor`, `FilesystemScanner` | the compilation database, the list of files to parse, the running executor, the cancel flag | `findPhysicalEntities`, `runPhysical`, `runFull`, `cancelRun` | a pool of threads, cancellation from the GUI thread, files edited during a run, errors and cancels half-way through an incremental update |
| In-memory database: `lvtmdb::ObjectStore` and its objects | files, components, packages, types and their relations, a `State` | `getOrAdd*`, `remove*`, `setState`, `readFromDatabase`, `writeToDatabase` | removal must follow relations in both directions; every object has its own lock |
| Locking and peer relations: `lvtmdb::Lockable`, `DatabaseObject` | a shared mutex per object, lists of peers | `roLock`, `rwLock`, `rwLockTwo`, `addPeerRelationship` | lock order; check under one lock, act under another |
| Project file: `lvtprj::ProjectFile`, project actions of `MainWindow` | workspace folder, project file, backup file, dirty flag, auto-save timer | `createEmpty`, `open`, `save`, `saveAs`, `saveBackup`, `close`, `requestAutosave` | I/O errors at every step, crashes, an auto-save that shares `saveAs` with the user |
| Parse dialog: `lvtqtw::ParseCodebaseDialog` | dialog state, parse and CMake threads, the tool | `initParse`, `cancel`, `reset`, `updateDatabase`, `endParse` | two threads, a dialog that can be hidden and shown again, the hand-over of the database to the main window |
| Node storage: `lvtldr::NodeStorage`, `*Node` | the CAD database and one cached node per entity | `addPackage`, `addComponent`, `addPhysicalDependency`, `reparentEntity`, `remove*` | rules about dependencies of parents and children; caches that must follow the database |
| Clang visitors | none of their own | `LogicalDepVisitor`, `HeaderCallbacks`, `LogicalPostProcessUtil` | depend on clang's AST |
| File-scope functions: `lvtclp::StaticFnHandler` | for one translation unit: which function uses which types and functions, which class uses which functions | `addFnUses`, `addUdtUses`, `writeOutToDb` | a recursive walk over hash tables that the walk itself may extend |
| Undo: `lvtqtc::UndoManager`, its commands, the editing tools | a stack of commands and an index | `addUndoCommand`, `undo`, `redo` | commands find their entities again by name or by address, after any number of other edits |
| Graphics, tree models, code generation, plugins, command line tools | views of the node storage | | sequential user interface code |

The parse dialog starts a tool on a thread of its own; the tool's runnables write
to the in-memory database; the dialog writes that database to the project's
workspace and tells the main window, which closes and reopens the node storage on
it.  The node storage signals every change, and the main window answers by
requesting an auto-save of the project.

What makes each component correct:

- *Parse tool*: no runnable outlives its executor; a verdict is only drawn from a
  complete pass; an incremental update parses again everything a change reaches;
  every call returns.
- *In-memory database*: removing an object leaves no relation to it; two threads
  that record the same relation record it once.
- *Project file*: no error or crash loses what was saved; edits are backed up.
- *Parse dialog*: at most one parse thread; the database is replaced only while
  nobody reads it; the dialog comes back to idle.
- *Node storage*: packages depend on each other as their components do; a node's
  caches say what the database says.
- *File-scope functions*: a class gets the relations its functions imply, and no others.
- *Undo*: at each place of the stack the project looks as it did there before.

## Modules

| Module | What it is |
|---|---|
| `ParseTool.tla` | the parse tool, its thread pool, its incremental update |
| `MCParseTool.tla` | code bases for TLC |
| `ParseTool_proofs.tla` | type correctness, two safety invariants of the pool, and that incremental updates lose nothing |
| `ProjectFile.tla` | the project file and the main window's project actions |
| `MCProjectFile.tla` | paths and faults for TLC |
| `ProjectFile_proofs.tla` | type correctness and the survival of saved files |
| `DependencyGraph.tla` | what the node storage promises: packages, components and dependencies as a graph without caches |
| `NodeStorage.tla` | the CAD database, the package and component nodes and their caches; implements `DependencyGraph` |
| `MCNodeStorage.tla` | two hierarchies of packages and components for TLC |
| `NodeStorage_proofs.tla` | type correctness, agreement of caches and database, and the implementation as theorems |
| `ParseDialog.tla` | the parse dialog, its worker thread, and the hand-over of the databases to the main window |
| `MCParseDialog.tla` | two projects for TLC |
| `ParseDialog_proofs.tla` | type correctness and four safety properties of the hand-over |
| `ObjectStore.tla` | the in-memory database as objects and plain pointers, through the recursive removal and repeated updates |
| `MCObjectStore.tla` | code bases, components, packages, a namespace and a type for TLC |
| `ObjectStore_proofs.tla` | termination and safety of the removal cascade, and what any number of updates keeps true of a physical run's store |
| `PeerRelations.tla` | the threads of a physical pass, lock by lock |
| `RelationSet.tla` | what the pass promises: it adds relations until it has those the includes imply |
| `MCPeerRelations.tla` | three translation units over shared headers for TLC |
| `PeerRelations_proofs.tla` | mirrored lists, lock order, absence of deadlock, and the safety half of the refinement |
| `StaticFunctions.tla` | the handler of a translation unit's own functions |
| `MCStaticFunctions.tla` | three functions, a class and a type for TLC |
| `StaticFunctions_proofs.tla` | type correctness, soundness of the walk, and its completeness without circles |
| `Undo.tla` | the undo stack, its commands, and the tools that push them |
| `MCUndo.tla` | two small projects for TLC |
| `Undo_proofs.tla` | type correctness for every user, and that a careful user's commands undo and redo what they did |

The modules meet where the components do, each taking the other side for what it
promises.  `ParseTool` takes `removeFile` as one step that reaches every includer; that
it does is `SurvivorsIncludeNoRemoved` of `ObjectStore`.  `ParseTool` takes what a
runnable adds as one step; `PeerRelations` takes it apart.  `ParseDialog` keeps of a
tool how complete its last pass was; of the node storage's edits `ProjectFile` and
`ParseDialog` see only that there was one (`Edit`, `EditCad`).  `Undo` edits the graph
that `NodeStorage` is proved to implement (`DependencyGraph`).

### ParseTool

The parse thread is a program counter `pc` that walks through
`findPhysicalEntities`, `runPhysical` and `runFull`; `job` holds the locals of the
call.  `toStart`, `queue` and `active` are the loop of `ToolExecutor::execute`
over the files and its `QThreadPool`; `executorCancelled` and `toolExecutor` are
the members that `cancelRun` shares with the parse thread.  One action is one
critical section of `executorMutex`, one step of the loop, or one run of a
runnable.  `CancelRun` may happen between any two of them, and so may the user's
`WriteFile` and `DeleteFile`.

Contents are time stamps: `disk[f]` is the stamp of the file's content, `hash[f]`
of the content whose hash the store holds, `phys[f]` and `logi[s]` the times of the
last parses.  An incremental update is right if a parse is never older than the
content that the store believes it has seen.  The store's `removeFile` is the set
`Includers`: the least set of stored files closed under recorded inclusions.  A
runnable visits any part of the translation unit that a parse can reach before it
stops at an error, and the whole of it if it succeeds.

`dangling` is the set of headers whose `reverseIncludes` still hold a file that was
freed: `removeFile` does not unlink a file from the headers it included, and a later
removal of such a header follows the pointer.  The model then lets the process die
(`pc = "crashed"`) or go on.

### ProjectFile

A content is a number, new with every edit and every project.  `archive[p]` is the
project file at path p, `bpk[p]` the copy that `saveAs` keeps; `work` is what the
workspace folder holds.  `saveAs` is five actions, `Rename`, `Dump`, `Compress`,
`Written`, `Discard`, so that an error or a crash can come between any two;
everything else runs to its end in one action of the GUI thread.  `timer`,
`connected` and `initialised` are the auto-save timer, whether the timer that
belongs to the current `Private` is connected, and the function-local static that
makes `requestAutosave` connect only once.

### NodeStorage

The database is `rows` (`source_package`, `source_component`), `home` (their parent
columns), `concrete` (`dependencies` and `component_relation`), `allowed`
(`allowed_relationships`) and `used`, the record numbers SQLite has given out.  A node
is `parent`, `children`, `providers`, `clients` (`LakosianNode::Private`) and `fields`,
its copy of the row (`d_fields`).  A list is `Unloaded` until somebody asks for it.

Loading is the heart of the model.  `providers()` of a package group reads its own
row, asks each of its packages for *their* providers, which loads those in turn, and
adds the parents of what they name (`ProvidersOf`, `Loading`, `ProvidersAfter`); a
component takes its clients from `fields` without reading the row again.  Of the fields
the model keeps what is looked at without refreshing it: the dependencies of a package,
for the check for duplicates, and the clients of a component.  So every
call that decides on a list may be the one that loads it, and the model says for every
call which lists it loads (`Reads`, `ReadsChildren`).  An edit invalidates the lists of
its two ends and of nothing above them.

- A call that the code refuses leaves at most loaded lists behind, as the actions
  `ReadProviders`, `ReadClients` and `ReadChildren` do; it is no action of its own.
- `crashed` stands for what follows a database row or a cached edge that leads to a
  node which is gone: the assertion in `LakosianEdge`, or a null or freed pointer.
- Removing a dependency leaves its source in the clients of the target's fields
  (`WithoutField`), as the code searches them for the target.  `CachesAgree` allows a
  component clients it no longer has, and no package.
- The children of a component are types, which are left out.  The first call of its
  `children()` refreshes the fields; in the model this may happen at any time.
- The parent is loaded with the node; `setDatabaseSourcePath` is `Reopen`.
- `Places[e]` says where a user may put entity e, `Types` which dependency types he
  knows.  `LevelsAssumption` limits the packages to the two levels of Lakos's
  hierarchy; `addPackage` does not refuse a third.
- A group as source is accepted by its own level, or by a target that is a standalone
  package (`isStandalone`, by the first part of its qualified name): `Standalones` are these.
- Names, renames, notes, repositories and types (UDTs) are left out.

`DependencyGraph` keeps only `rows`, `home`, `concrete` and `allowed`.  Its `Add` takes a
number that nothing names, its `Remove` an entity that is empty, uses nothing and is
used by nobody, its `Connect` two entities of one kind whose packages are related.
The refinement mapping is the identity on these variables: what has to be shown is that
decisions on cached lists are those the graph would make.

### ParseDialog

The GUI thread runs one handler at a time, so a handler is one action, with every slot
its signals reach directly: `updateDatabase` includes `endParse`, which may start the
next run, and `generateCodeDatabaseFinished` of the main window (`ResetCad`).  Two
things come in between: the worker thread (`BeginRun`, which reads `dialogState` when
it gets to run, `EndRun` and its variants) and `QThread::finished`, which is queued and
carries no sender (`signals`).  While a graph is loaded the window takes no input but
queued signals are delivered; the update is then put off until `databaseIdle`
(`connected`).  A load begins in two steps, since `graphLoadStarted` delivers events
(`disableWindow`, line 941) before it sets `d_graphLoadRunning` (946): between
`GraphLoadStarted` (`load = "announced"`) and `GraphLoadMarked` (`"running"`) a parse that
has ended still replaces the databases at once.  The scene reads nothing before the
signal returns, so `ReplacedWhenIdle` speaks of the load from then on.

- A project stands for its workspace folder: opened once, and gone with both databases
  when it is closed.  A failed close is `ProjectFile`'s subject.
- Escape hides the dialog at any time, so the Close button needs no action of its own.
- The build has assertions.  `aborted` says which one, or what else, ended the process.
- `strayed` remembers that the user changed the project or reset the dialog under a
  parse; with `MayStray = FALSE` he never does.  `JsonVanishes` says whether
  `compile_commands.json` may be gone when the parse begins, which is when CMake runs.

### ObjectStore

Objects are owned by maps of the store and lead to each other by plain pointers.  A
pointer is a name with a generation; it is live as long as the store holds that
generation (`Live`).  `edges` has all of an object's lists and members.  `removeFile`
is the recursion it is in the code, a `Frame` per call with the copies it made before
it recurses; what it deletes on the way (types, namespaces, components, packages) and
in which order is as in the code, and `fault` remembers who dereferenced a freed
object, waits for a lock it holds, or fails an assertion about one.  `Builds` says
whether the build has assertions; both are looked at.  After the removal the translation
units that `setupIncrementalUpdate` lists are parsed (`ParseUnit`), and the store may be
written (`Export`).

### PeerRelations

A thread works through its `#include` directives.  For each, `writeSourceFile` looks
the header up and adds it if need be, under the lock of the store and then that of a
component and of a package; then `addPeerRelationship` is called for each relation the
include implies, between files, between components, between packages and between
groups: the check under a shared lock, then both ends locked in the order of their
addresses, then one list and the other.  An exclusive lock is a step of its own.  A
shared lock is held for one reading and nothing else is asked for under it, so the
reading is one step that needs the lock to be free of writers.

`RelationSet` knows a set of relations, to which relations are added, and which becomes
and stays complete.  The mapping forgets the locks, the lists' lengths and the threads.

### StaticFunctions

The three maps, `visited`, and a stack for the recursion of `flattenFn`.  The order of
a hash table is any order.  A look-up with `operator[]` that makes a key may let the
table grow under the loop of `writeOutToDb`; the loop then goes on with any part of
the keys it had left (`KeysLeft`, `rehashed`).  `text` is a ghost: what the visitor has
told the handler, from which the properties compute what a relation should be.

### Undo

A command is a sequence of parts; `Perform` does one part as the code does it: look the
entities up by qualified name (or use the address, for a move), call the storage, and
fail where the code dereferences null (`"null"`), a freed node (`"freed"`) or throws at
`.expect` (`"refused"`).  The prefix of a qualified name is fixed when the node is
made.  A node's name is also in its row (`row`).  Renaming a package writes both, while a
component writes back the fields it was loaded with: the row keeps the old name, by which
`Find` finds it when no node has that name, and which it has again when the project is
reopened (`Loaded`).  `Reverted` is what `undo` does instead of `redo`.  A tool performs its call and
then pushes a command, which drops what was undone and, beyond `Limit`, the oldest.
`views` is a ghost: how the project looked at each index.  `TypeOK` says of the graph what
no command may break, however careless the user: every component has a home that exists.

`UndoReturns` does not hold for every user.  `Careless` lists what he may do, each
alone enough to break it:

| Habit | What goes wrong |
|---|---|
| `names` | two entities get one qualified name by renaming or moving, and a command finds either |
| `moves` | a moved entity, or one of its packages, is removed and comes back as a new node; the older command follows the freed one (`undo_reparent_entity.cpp:33`) |
| `parents` | a dependency that others rest on is removed, or a component moved away from it: adding those back is refused (`undo_add_edge.cpp:119`) |
| `twice` | a dependency of components is added that is there: undoing the second removes the first |
| `allowedEdges` | an edge that is only allowed is removed: nothing is, but undo adds a concrete one |
| `renamed` | a component is removed whose row has another name: it comes back with the new name in its row, where that name stays when the renaming is undone, and no other component can have it (`undo_add_component.cpp:84`; the run `undo_renamed`) |
| `allowedTargets` | the target of an allowed dependency is removed; it comes back with another number, the dependency does not |

Packages hold no packages here; the commands on classes and their relations are built
like those on components; those on notes, and those that only move or fold drawings,
are left out.  The storage is taken to accept what the graph allows; that it may refuse
to remove a component whose dependency was removed (see `nodes_gone` below) is left out
here.  A finished parse leaves the stack alone (`ParseFinished`); the property
is stated until then, and no edits are explored after it.

## What is checked

| Run | Instance | Shows |
|---|---|---|
| `parse_pool` | 3 sources, no headers, 2 threads, 1 time stamp, cancels at any moment | `RunnablesWithinExecutor`, `UncancelledPassIsComplete`, `CallsEnd` |
| `parse_chain` | a source, its header and a header that one includes, 3 time stamps | `TypeOK`, `PhysicalUpToDate`, `LogicalUpToDate` |
| `project` | 2 user paths, 2 projects, 2 contents, 1 crash, every fault | `TypeOK`, `LastSaveSurvives`, `EditIsBackedUp` |
| `nodes_packages` | 2 groups with a package each, both dependency types | `CachesAgree`, `Implements` |
| `nodes_components` | 1 group, 2 packages, 2 components, which can be moved | `TypeOK`, `CachesAgree`, `Implements` |
| `nodes_gone` | the same | the expected violation of `EdgesHaveNodes` |
| `dialog` | 2 projects, 2 threads, a user who does not stray, CMake | `TypeOK`, `SurvivesParse`, `OwnDatabase`, `ReplacedWhenIdle`, `LogicalAfterPhysical`, `ParseEnds` |
| `store_update` | 2 components of 2 files in 2 packages, a group, 29 code bases, 2 updates | `TypeOK`, `CascadeUsesNoFreed`, `NeverReentered`, `SurvivorsIncludeNoRemoved`, `UpdateIsComplete`, `OwnersFollowFiles` |
| `static_flatten` | 3 functions, a class, a type, growing tables | `TypeOK`, `NothingInvented`, `NoFunctionInsideItself`, `AcyclicIsComplete`, `FlatteningEnds` |
| `peer_pool` | 3 threads, 5 files, 3 components, 3 packages | `TypeOK`, `Mirrored`, `FoundIsListed`, `LocksInOrder`, `OncePerThread`, `SomeThreadGoesOn`, `Implements` |
| `undo` | 2 packages with a component each, or one of each and room for more; 4 edits, a limit of 3, no careless habit | `TypeOK`, `UndoReturns` |
| `undo_renamed` | the same, with the habit `renamed` | the expected violation of `AddedAgain` |

*Bounds.*  Three sources on two threads are the least for which a runnable is
queued while others run and one is still to be started.  The chain is the least that
tells transitive from direct inclusion, and with three time stamps a second update
starts from the state the first one left.  Two translation units that share a header
are in no run: with the chain they take 3.4 million states at two time stamps, in which
the same properties hold, too many to check every time.  Two user paths suffice to
move a project away from a path and come back; two contents are the least for an old copy
and a new one (734,760 states; a third takes more than five minutes, and
`SavedFilesSurvive` is proved for any number); one crash leaves one torn file.  Every counter that
only exists to bound the instance (`clock`, `version`, `projects`, `crashes`) is
named in the constants.

Two groups with a package each are the least in which
one group's providers follow from its package, two components in two packages of a
group the least in which a component's dependency needs one of its package and
its group.  In the passing runs no package is
standalone: with one they take more than five minutes; `nodes_gone` has one, and the
proofs allow any.  Nothing bounds the node storage but its entities: a number is given
out once, so every behaviour ends in edits of what is left (121,102 and 232,384
states).  What may be put in the same places is interchangeable, and the runs use that
symmetry; their properties are all of safety.

Two threads and two projects let one parse be followed by another that meets its
leftovers, or another project's (390,700 states).  In the store one component has a
namespace, a function and a class, the other is plain; headers may include each other,
and every change between any two of the code bases is an update (136,047 states).  The
second update is the first that removes files; in the third, a header that was modified
leads to a file that an earlier removal has freed, which is the stale reverse include
described below.  Three functions are the least for a chain with a shortcut and for a
circle with an entry (1,139,116 states).  Of the three threads two include each other's
headers, for opposite relations, and the third needs the locks of the store (40,686
states).  Four edits with a limit of three let the oldest command drop, and a push
cut off what was undone; in the second project packages come and go as well, which in
the first are held by a dependency that stays allowed (912,124 states).

*Fairness.*  `parse_pool` assumes that the operating system schedules the parse
thread and the pool's threads: nothing in them waits for the user.  Nobody has to
cancel, to call or to edit.  `project` assumes that the GUI thread finishes the
`saveAs` it is in and that its event loop delivers an expired timer.  `dialog` assumes
that worker threads and CMake run, that queued signals are delivered and that a graph
load ends; the user owes nothing.  `static_flatten` assumes that the one thread of a
unit goes on, `peer_pool` that every thread of the pool is scheduled (weak fairness per
thread: a lock need not be fair, since a pass asks for it finitely often).

*Deadlock* is checked for the node storage and for the threads of `peer_pool`, whose
idle pool is an action.  Tool, project, dialog and undo may rest forever, and a process
may die of a freed object; store and handler stop when there is nothing left to do.

*What `trusted` does.*  `PhysicalUpToDate` and `LogicalUpToDate` hold only between
calls that were not cut short.  The history variable `trusted` is cleared by a call
that a cancel ended after the scan, by a failed or cancelled physical pass, by a full
run told to skip a physical pass that was due, and by a logical pass that stores a
file the physical one never saw; a physical pass over all sources that succeeds sets
it again.  The exceptions
are real: the tool answers "true", or `AllReady`, after them (see below).

### Where the code and its documents disagree

The run `nodes_gone` refutes an assertion of the code, `assert(other)` in
`lakosianedge.cpp:27`: an edge has a node.  `removeConcreteDependency` means to take the
source off the clients of the target, but searches them for the target's own number
(`componentnode.cpp:83`, `packagenode.cpp:136`).  Let component B depend on A, remove
the dependency, remove B, and ask A for its clients: they still name B, and there is no
node for it.  While B exists, A cannot be removed.  Loading A's providers, or reopening
the project, puts A's fields right, and packages read their row before they answer.

The run `undo_renamed` refutes another, `assert(!result.has_error())` in
`undo_add_component.cpp:84`: what was removed can be added again.  The storage answers the
renaming of any node by writing back its fields (`nodestorage.cpp:817`), but only
`PackageNode::setName` has put the new name into them (`packagenode.cpp:236`); a component
keeps its old name in its row, and `findByQualifiedName` goes by the row when no node has
the name.  Add component `a/b`, remove it, rename `a/a` to `b`, remove it, and undo three
times: the component that came back as `a/b` is called `a/a` again, its row still `a/b`,
and `addComponent` takes that for the `a/b` it is asked to make.  Reopening a project
brings back the names in the rows.

The models show these as well; they have no run of their own, and the properties of
the passing runs are stated around them:

- `undo_add_edge.cpp:119` re-adds a dependency with `.expect("Unexpected undo/redo
  action")`, but connect two packages, then a component of the one with a component of
  the other, remove the first dependency, then the second: Ctrl+Z asks the storage for a
  dependency of components whose packages have none, which it refuses (the habit
  `parents` of *Undo* above).
- `tool.cpp:739`: the scan stores the hash of a changed file before the file is parsed;
  a cancel in between hides the change from the next run.  `trusted` excludes it.
- A full run goes on to its logical pass, and ends in `AllReady`, when the physical pass
  failed.  `cancelRun` with no run in progress aborts the next one; `runPhysical` and
  `runFull` return true after parse errors.
- `projectfile.cpp:331`: after an auto-save `location` is the backup path, so the next
  save writes that file and then removes it as the backup.
- `projectfile.cpp:183`: the timer of every project of a process but the first is
  connected to nothing, and its edits are not backed up; `EditIsBackedUp` speaks of a
  connected timer.  `isDirty` ignores changes of the database; a crash followed by a second
  save to the same path puts the torn file over the good `.bpk`; a new project after a
  close that failed keeps the old location.
- `nodestorage.cpp:161`: `removePackage` takes a package that others are *allowed* to
  depend on for unused; the row in `allowed_relationships` stays and leads to no node.
  A group's cached providers hold what its packages once implied.
- `parse_codebase.cpp:553`: shown again under a physical run the dialog is reset to
  `Idle`, and the end of the run meets the assertion of line 764.  After a parse Cancel
  stays enabled (line 286); pressed then, it replaces the CAD database and the user's
  edits with it.
- `objectstore.cpp:605`: `removeComponent` leaves the component in the dependencies of
  others, and `writeToDatabase` follows the freed pointer.  A removed file stays in the
  reverse includes of what it included.  `removePackage` may free a group before its
  packages.
- `objectstore.cpp:549`: `removeNamespace` empties a namespace under a shared lock.
  `removeType` waits for that lock for ever.  `removeFunction` and `removeVariable`, and
  `removeChild` of the parent (line 567, "no lock here as the recursion will lock it",
  which it does not), assert an exclusive one (`namespaceobject.cpp:83`, 119, 131): in a
  build with assertions (CMake's default build type) the process stops, in one without
  it goes on.  `LeaveNamespace` has all of these, and the properties of `store_update`
  speak of updates that meet none.
- `staticfnhandler.cpp:163`: a function in a circle of calls is copied from before it is
  complete, and a class may miss a relation.
- `databaseobject.h:93`: threads that look for a relation at the same time each add it;
  `OncePerThread` is the bound that remains.  `FileObject::removeIncludeRelation`
  (`fileobject.cpp:122`), which nothing calls, adds the relation it should remove.
- `logicalpostprocessutil.cpp:108` takes two locks in the order opposite to line 61.
- The careless habits of the table above; undoing a removal loses the notes.

## What is proved

Every safety property of the passing runs is also a theorem, for every value of the
constants that the named assumptions allow; the theorems about the store and about undo
have a hypothesis, given with them.

`ParseTool_proofs`, for every finite set of sources, every inclusion relation and any
number of threads:

- `TypeCorrect`: `Spec => []TypeOK`.
- `NoStrayRunnable`, `CompleteUnlessCancelled`: from the inductive invariant
  `PoolInv`, which says what the two properties leave open: while a pass runs and
  nobody has cancelled, the files it was given are exactly those still to be started,
  queued, running or ended; outside a pass all of those but the last are empty; and
  `toolExecutor` is set exactly during a pass.  A cancel removes queued files from
  the account but raises the flag in the same critical section, which is why the
  account need only hold while the flag is down.
- `PhysicalUpdateLosesNothing`, `LogicalUpdateLosesNothing`: from `UpdateInv`, for any
  depth of inclusion and any edits, cancellations and errors.  A source is `Due` if some
  file of its translation unit is not stored or is newer than the source's last parse.
  What the two properties say of the idle tool (nothing is due) is carried through a
  call: after the scan, only what the modified files reach may be due (`ScanInv`); after
  the removal that is among the files to parse; during a pass, among those not done
  (`PhysicalInv`, `LogicalInv`); and `CallInv` says which call the program counter is in.
  The step that needs an argument is the removal (`RemovedWithIncluders`): the store's
  `removeFile` takes every recorded includer, so a source that stays keeps all of its
  translation unit, however deep the inclusions are.

`ProjectFile_proofs`, for every set of paths, every combination of faults and any
number of edits, projects and crashes:

- `TypeCorrect`, in four parts, one per group of variables.
- `SavedFilesSurvive`: `Spec => []LastSaveSurvives`, from the inductive invariant
  `SaveInv`: a file is absent, or complete, or torn by a write in progress or an
  earlier crash; `saveAs` writes only where it has just moved the old file away; and
  until it is done that old file, at `.bpk`, is the one to rely on.

`NodeStorage_proofs`, for every set of packages and components, every two-level
arrangement, every choice of standalone packages and every order of reads, edits and
reopening:

- `Invariant`: `Spec => []Inv`, with one lemma per action.  `CachesAgree` alone is not
  inductive.  `DatabaseOK` adds that a dependency joins what exists, except that the
  target of an allowed one may be gone (see above) but has been given
  out, so a new entity finds nothing that names it.  `LevelsOK` adds that what a group
  depends on are groups, `NodesOK` that a number without a row has no caches, and
  `GroupsOK` that what a group believes to provide was a group once.  A component that is
  moved is therefore in no group's list, and the stale lists of groups do no more than
  let packages of two groups depend on each other that no longer may.
- `TypeCorrect` and `CachesCorrect` follow.
- `Implementation`: `Spec => Graph!Spec`.  The step that needs an argument is
  `addPhysicalDependency` (`ParentsRelated`): the code accepts a dependency of two
  components if the one package is on the list of the other, which by `CachesAgree` is
  the database, or if it is on the list of that package's group, and then by
  `GroupsOK` it is a group itself, about which the graph promises nothing.

`ParseDialog_proofs`, for any projects and any number of threads, signals and graph
loads:

- `TypeCorrect` and `DatabasesRest` hold for every user, the latter for loads that are
  `running`: nothing keeps the databases while a load is only announced.
- `ParseIsSurvived`, `DatabasesAreOwn` and `LogicalRunsFollow` follow from `IInv`, which
  says of a user who has not strayed: at most one thread is alive, and `parseThread` is
  it (`Single`); there is one signal, or one put-off update, exactly when it has ended
  and was not taken over (`Outstanding`); while it is there the dialog is not idle and
  the tool is (`Parsing`); what the worker has read of `dialogState` still agrees with
  it or a kill (`Agrees`); a logical run finds a complete physical one (`Complete`); and
  tool, databases and dialog are of one project (`Own`).

`ObjectStore_proofs`, for any code bases, components, packages and includes and any
number of updates, but for the store that a physical run fills: the hypothesis
`Physical` says that no namespaces, types and functions are recorded, as
`Tool::runPhysical` records none.  `store_update` gives one of its two components such
content as well.

- `TypeCorrect`, and `CascadeTerminates`: `removedFiles` grows with each call that is
  entered, so no file is entered twice.
- `CascadeIsSafe`, up to the first update that removes files.  `IInv` adds that every
  call's copies are live or already removed (`CallsOK`) and that the lists between stored
  objects are whole (`Whole`).  Afterwards removed files stay in reverse lists, and the
  property is false: see the finding on `objectstore.cpp:605` above.
- `CascadeReachesIncluders`, `ComponentsFollowFiles` and `UpdateBringsEverything`, as long
  as no freed object was met, from a second invariant, `Maintained`.  `Shape` says that
  every file is listed by its component and points back to it, that every component has a
  file, and that an include between two components is a dependency of the components.
  At rest (`AtRest`) a file's recorded includes are those of the code, and a source that
  will not be parsed has a recorded translation unit.  While files are removed
  (`Underway`) this holds of what is not doomed: each call on the stack will still reach
  every includer it has not reached (`StackCovers`), and the sources that will not be
  parsed lie in a set of files that is closed under inclusion and keeps its records
  (`Spares`).  That set is what makes the invariant inductive: a file is removed with
  everything that includes it, so a source that is spared has lost nothing.

`StaticFunctions_proofs`, for any number of functions, types and classes, circles and
growing tables included:

- `TypeCorrect`.
- `WrittenIsImplied` (`Recorded`, `Sound`): a type in a function's set is used by a
  function it reaches.
- `RecursionIsFlat` (`Nested`): a function on the stack is visited.
- `CompleteWithoutCircles` (`Flattened`, `Kept`, `KeysAhead`): in an acyclic call graph a
  visited function that is not on the stack has all types of what it reaches, because
  what it calls was visited before it returned.

`PeerRelations_proofs`, for any number of threads, any code base and any layout of the
objects in memory:

- `TypeCorrect`, `BothEndsAgree`, `LookedUpIsListed` and `OneLockOrder`, from an invariant
  that says which locks a thread has at each place (`Owners`), that only the thread at
  "reverse" has written one list alone (`Counts`), and where an added file is not yet
  listed (`Listed`).
- `NoDeadlock`: of the threads that wait, take one that waits for a lock after which no
  other waits; its holder waits for none.  There is one, because there are finitely many
  threads and locks are taken in one order.
- `AtMostOncePerThread`: a relation's count and the threads about to add it are together
  no more than the threads whose files imply it (`Once`).
- `PoolImplementsRelationSet`: each step adds one wanted relation or none (`OnlyWanted`).
  That the relations become complete is liveness and is left to TLC.

`Undo_proofs`, for any names, projects and number of entities and edits and any limit of
the stack:

- `TypeCorrect` holds for every user, with every habit.
- `UndoWorks`: `CarefulUser => (Spec => []UndoReturns)`.  A careful user has no habit of
  the table above, and his projects are in good order when they are opened
  (`WellKept`: no name is two entities', be it that of the node or of the row, and
  dependencies have what they need; TLC evaluates it for the projects of the run).
  `UndoReturns` says nothing of what the commands on the stack will do, and a node that is
  made again has another number, so the graph at one index is never twice the same.  `UndoInv` keeps a history beside the stack, a graph for each
  index over numbers that never change: the graph of the database is a copy of the one at
  `index` (`Iso`), and each command leads from one graph of the history to the next
  (`Chain`).  A command that names its entities acts alike on copies (`Performed`), and
  its inverse leads back (`Undoes`); a move follows addresses, which are good for
  entities that are there at every index (`Always`).  An edit keeps that true because a
  careful user moves nothing while an addition can be undone (`NothingAdded`) and removes
  nothing that a command moves (`NoMoveOf`) and no component whose row has another name;
  the rest is that his edits leave a graph in
  good order (the lemmas `Tidy...`).

Assumptions on the constants are the named `ASSUME`s of the modules: the sources are
finite, sources and headers are disjoint, the kinds of paths are disjoint, the markers
for absent files, projects, groups, tools, threads and homes are none of the things they
stand in for, packages are put into packages or nowhere and components into packages,
packages form two levels, and the projects to undo in are graphs.

Only model-checked: what holds under fairness, which is out of the prover's reach
(`CallsEnd`, `EditIsBackedUp`, `ParseEnds`, `FlatteningEnds` and the liveness half of the
`Implements` of `peer_pool`), and stores with namespaces, types and functions, where the
removal takes further calls.

## What is not modelled

- Types in the node storage (`TypeNode`, `addLogicalRelation`): their dependencies follow
  the same pattern of lists and fields as those of components, one level further down.
- Repositories, errors, fields and methods of the in-memory database, and the ignore
  lists of the parse tool.
- The bookmarks, tab histories and metadata of a project beyond the dirty flag they set;
  an auto-save interval of 0.
- Commands on classes, notes and drawings in the undo stack.
- The clang visitors beyond what is said above (their behaviour is clang's AST), SQLite
  serialisation, drawing and layout, tree models, plugins, code generation and command
  line parsing, which are sequential and share no state with the parts above.
