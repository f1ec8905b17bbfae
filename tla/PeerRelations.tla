--------------------------- MODULE PeerRelations ---------------------------
(***************************************************************************)
(* The threads of a physical pass as they write to the in-memory database: *)
(* HeaderCallbacks (FileChanged, InclusionDirective) calls                 *)
(* ClpUtil::writeSourceFile for each file the preprocessor opens and       *)
(* DatabaseObject::addPeerRelationship for what an include implies for     *)
(* files, components and packages, under the locks of lvtmdb::Lockable.    *)
(*                                                                         *)
(* A lock is a shared mutex.  A thread that holds one shared never asks    *)
(* for another meanwhile, so reading under it is one step that waits for   *)
(* no writer; who holds a lock exclusively is `holder'.  Two exclusive     *)
(* locks are held together in two places: the store's with that of a       *)
(* component or a package (writeSourceFile), and those of the two ends of  *)
(* a relation, taken by address (rwLockTwo).                               *)
(***************************************************************************)
EXTENDS Naturals, Sequences, FiniteSets

CONSTANTS
  Threads,      \* runnables of the pool, each for one translation unit
  Files, Components, Packages,
  Known,        \* files the scan of the file system has added before
  Unit,         \* thread -> its source
  Directives,   \* thread -> its #include directives, in order: <<file, header>>
  CompOf,       \* file -> component
  PkgOf,        \* component -> package
  GroupOf,      \* package -> the group it is in, or NoGroup
  NoGroup,
  Address,      \* where the objects lie in memory
  MemDb,        \* the store itself, as an object with a lock
  NoThread

Objects == Files \cup Components \cup Packages
Locks == Objects \cup {MemDb}

ASSUME Placed ==
  /\ CompOf \in [Files -> Components]
  /\ PkgOf \in [Components -> Packages]
  /\ GroupOf \in [Packages -> Packages \cup {NoGroup}]
  /\ Known \subseteq Files
ASSUME Work ==
  /\ Unit \in [Threads -> Files]
  /\ Directives \in [Threads -> Seq(Files \X Files)]
ASSUME Memory ==
  /\ Address \in [Objects -> Nat]
  /\ \A a, b \in Objects : Address[a] = Address[b] => a = b
  /\ MemDb \notin Objects
ASSUME Pool == IsFiniteSet(Threads)
ASSUME NoSuch == NoThread \notin Threads

VARIABLES
  pc,          \* thread -> where it stands
  at,          \* thread -> the directive it is in; 0: its own source
  ahead,       \* thread -> relations of the directive still to add
  holder,      \* lock -> thread that has it exclusively
  inStore,     \* files of the store
  filed,       \* files listed by their components
  packaged,    \* components listed by their packages
  fwd, rev     \* relation <<a, b>> -> how often a lists b, and b lists a

vars == <<pc, at, ahead, holder, inStore, filed, packaged, fwd, rev>>

Pairs == (Files \X Files) \cup (Components \X Components) \cup (Packages \X Packages)

Init ==
  /\ pc = [t \in Threads |-> "lookup"]
  /\ at = [t \in Threads |-> 0]
  /\ ahead = [t \in Threads |-> <<>>]
  /\ holder = [o \in Locks |-> NoThread]
  /\ inStore = Known /\ filed = Known
  /\ packaged = {CompOf[f] : f \in Known}
  /\ fwd = [p \in Pairs |-> 0]
  /\ rev = [p \in Pairs |-> 0]

-----------------------------------------------------------------------------
(* What an include of g by f implies.  No object is its own peer.          *)

Between(a, b) == IF a = b THEN <<>> ELSE <<<<a, b>>>>

ForParents(p, q) == IF p = q THEN <<>> ELSE <<<<GroupOf[p], GroupOf[q]>>>>

(* A package of a group has a dependency on, or of, a package that stands  *)
(* alone also for the group.                                               *)
ForGroups(p, q) ==
  IF p = q THEN <<>>
  ELSE CASE GroupOf[p] = NoGroup /\ GroupOf[q] # NoGroup -> Between(p, GroupOf[q])
         [] GroupOf[p] # NoGroup /\ GroupOf[q] = NoGroup -> Between(GroupOf[p], q)
         [] OTHER -> <<>>

Package(f) == PkgOf[CompOf[f]]

RelationsOf(f, g) ==
  IF f = g THEN <<>>
  ELSE <<<<f, g>>>> \o Between(CompOf[f], CompOf[g]) \o Between(Package(f), Package(g))
         \o ForGroups(Package(f), Package(g))

Wanted ==
  UNION {{RelationsOf(d[1], d[2])[i] : i \in 1..Len(RelationsOf(d[1], d[2]))} :
           d \in UNION {{Directives[t][n] : n \in 1..Len(Directives[t])} : t \in Threads}}

-----------------------------------------------------------------------------
Free(o) == holder[o] = NoThread

Goto(t, place) == pc' = [pc EXCEPT ![t] = place]

CurrentFile(t) == IF at[t] = 0 THEN Unit[t] ELSE Directives[t][at[t]][2]

(* The file is there: on to the relations of the directive.                *)
Written(t) ==
  /\ Goto(t, "check")
  /\ ahead' = [ahead EXCEPT ![t] =
                 IF at[t] = 0 THEN <<>> ELSE RelationsOf(Directives[t][at[t]][1], Directives[t][at[t]][2])]

(* writeSourceFile looks the file up under the shared lock of the store.   *)
Lookup(t) ==
  /\ pc[t] = "lookup"
  /\ Free(MemDb)
  /\ IF CurrentFile(t) \in inStore
       THEN Written(t)
       ELSE Goto(t, "create") /\ UNCHANGED ahead
  /\ UNCHANGED <<at, holder, inStore, filed, packaged, fwd, rev>>

(* ... and takes it exclusively to add the file, if it was not there.      *)
LockStore(t) ==
  /\ pc[t] = "create"
  /\ Free(MemDb)
  /\ holder' = [holder EXCEPT ![MemDb] = t]
  /\ Goto(t, "file")
  /\ UNCHANGED <<at, ahead, inStore, filed, packaged, fwd, rev>>

AddFileAndUnlock(t) ==
  /\ pc[t] = "file"
  /\ Free(Package(CurrentFile(t)))
  /\ inStore' = inStore \cup {CurrentFile(t)}
  /\ holder' = [holder EXCEPT ![MemDb] = NoThread]
  /\ Goto(t, "component")
  /\ UNCHANGED <<at, ahead, filed, packaged, fwd, rev>>

(* addComponent reads the package's name; getOrAddFile.                    *)
AddFile(t) ==
  /\ pc[t] = "file"
  /\ Free(Package(CurrentFile(t)))
  /\ inStore' = inStore \cup {CurrentFile(t)}
  /\ Goto(t, "component")
  /\ UNCHANGED <<at, ahead, holder, filed, packaged, fwd, rev>>

ListFile(t) ==
  /\ pc[t] = "component"
  /\ Free(CompOf[CurrentFile(t)])
  /\ filed' = filed \cup {CurrentFile(t)}
  /\ Goto(t, "package")
  /\ UNCHANGED <<at, ahead, holder, inStore, packaged, fwd, rev>>

(* The lock of the store is released on return.                            *)
ListComponent(t) ==
  /\ pc[t] = "package"
  /\ Free(Package(CurrentFile(t)))
  /\ packaged' = packaged \cup {CompOf[CurrentFile(t)]}
  /\ holder' = [holder EXCEPT ![MemDb] = NoThread]
  /\ Written(t)
  /\ UNCHANGED <<at, inStore, filed, fwd, rev>>

-----------------------------------------------------------------------------
(* addPeerRelationship for the first of the relations ahead.               *)

Relation(t) == Head(ahead[t])

NeverPresent(p) == fwd[p] < 0
PresentEitherWay(p) == p \in Pairs /\ (fwd[p] > 0 \/ fwd[<<p[2], p[1]>>] > 0)

(* The relation is looked for under the shared lock of its source.         *)
Present(p) == fwd[p] > 0

Check(t) ==
  /\ pc[t] = "check"
  /\ ahead[t] # <<>>
  /\ Free(Relation(t)[1])
  /\ IF Present(Relation(t))
       THEN ahead' = [ahead EXCEPT ![t] = Tail(@)] /\ UNCHANGED pc
       ELSE Goto(t, "lower") /\ UNCHANGED ahead
  /\ UNCHANGED <<at, holder, inStore, filed, packaged, fwd, rev>>

LowerAsGiven(p) == p[1]

(* rwLockTwo: the lower address first.                                     *)
Lower(p) == IF Address[p[1]] < Address[p[2]] THEN p[1] ELSE p[2]
Upper(p) == IF Lower(p) = p[1] THEN p[2] ELSE p[1]

LockLower(t) ==
  /\ pc[t] = "lower"
  /\ Free(Lower(Relation(t)))
  /\ holder' = [holder EXCEPT ![Lower(Relation(t))] = t]
  /\ Goto(t, "upper")
  /\ UNCHANGED <<at, ahead, inStore, filed, packaged, fwd, rev>>

LockOnlyLower(t) ==
  /\ pc[t] = "upper"
  /\ Free(Upper(Relation(t)))
  /\ Goto(t, "forward")
  /\ UNCHANGED <<at, ahead, holder, inStore, filed, packaged, fwd, rev>>

LockUpper(t) ==
  /\ pc[t] = "upper"
  /\ Free(Upper(Relation(t)))
  /\ holder' = [holder EXCEPT ![Upper(Relation(t))] = t]
  /\ Goto(t, "forward")
  /\ UNCHANGED <<at, ahead, inStore, filed, packaged, fwd, rev>>

PushForward(t) ==
  /\ pc[t] = "forward"
  /\ fwd' = [fwd EXCEPT ![Relation(t)] = @ + 1]
  /\ Goto(t, "reverse")
  /\ UNCHANGED <<at, ahead, holder, inStore, filed, packaged, rev>>

(* Both locks are released on return.                                      *)
PushReverse(t) ==
  /\ pc[t] = "reverse"
  /\ rev' = [rev EXCEPT ![Relation(t)] = @ + 1]
  /\ holder' = [holder EXCEPT ![Relation(t)[1]] = NoThread, ![Relation(t)[2]] = NoThread]
  /\ ahead' = [ahead EXCEPT ![t] = Tail(@)]
  /\ Goto(t, "check")
  /\ UNCHANGED <<at, inStore, filed, packaged, fwd>>

(* The next directive, or the end of the unit.                             *)
Proceed(t) ==
  /\ pc[t] = "check"
  /\ ahead[t] = <<>>
  /\ IF at[t] < Len(Directives[t])
       THEN Goto(t, "lookup") /\ at' = [at EXCEPT ![t] = @ + 1]
       ELSE Goto(t, "done") /\ UNCHANGED at
  /\ UNCHANGED <<ahead, holder, inStore, filed, packaged, fwd, rev>>

ThreadStep(t) ==
  \/ Lookup(t)
  \/ LockStore(t)
  \/ AddFile(t)
  \/ ListFile(t)
  \/ ListComponent(t)
  \/ Check(t)
  \/ LockLower(t)
  \/ LockUpper(t)
  \/ PushForward(t)
  \/ PushReverse(t)
  \/ Proceed(t)

(* All threads are done: the pool is idle.                                 *)
Idle == (\A t \in Threads : pc[t] = "done") /\ UNCHANGED vars

Next == (\E t \in Threads : ThreadStep(t)) \/ Idle

Spec == Init /\ [][Next]_vars

(* The system runs every thread of the pool.  It may hand a free lock to   *)
(* any of those that wait; a pass asks for each lock finitely often.       *)
FairSpec == Spec /\ \A t \in Threads : WF_vars(ThreadStep(t))

-----------------------------------------------------------------------------
Places == {"lookup", "create", "file", "component", "package",
           "check", "lower", "upper", "forward", "reverse", "done"}

TypeOK ==
  /\ pc \in [Threads -> Places]
  /\ at \in [Threads -> Nat]
  /\ ahead \in [Threads -> Seq(Pairs)]
  /\ holder \in [Locks -> Threads \cup {NoThread}]
  /\ inStore \in SUBSET Files /\ filed \in SUBSET Files
  /\ packaged \in SUBSET Components
  /\ fwd \in [Pairs -> Nat] /\ rev \in [Pairs -> Nat]

(* Whoever can lock both ends of a relation finds it in both lists or in   *)
(* neither, as often in the one as in the other.                           *)
Mirrored == \A p \in Pairs : Free(p[1]) \/ Free(p[2]) => fwd[p] = rev[p]

(* Whoever can look a file up finds it listed by its component, and its    *)
(* component by its package.                                               *)
FoundIsListed ==
  Free(MemDb) => \A f \in inStore : f \in filed /\ CompOf[f] \in packaged

(* The lock a thread waits for, and those it has.                          *)
WaitsFor(t, o) ==
  \/ pc[t] \in {"lookup", "create"} /\ o = MemDb
  \/ pc[t] \in {"file", "package"} /\ o = Package(CurrentFile(t))
  \/ pc[t] = "component" /\ o = CompOf[CurrentFile(t)]
  \/ pc[t] = "check" /\ ahead[t] # <<>> /\ o = Relation(t)[1]
  \/ pc[t] = "lower" /\ o = Lower(Relation(t))
  \/ pc[t] = "upper" /\ o = Upper(Relation(t))

Before(a, b) == b # MemDb /\ (a = MemDb \/ Address[a] < Address[b])

(* "When locking two objects, the DbObject with the lowest address should  *)
(* be locked first": a thread waits only for locks that come after all it  *)
(* has, so no threads wait for each other in a circle.                     *)
LocksInOrder ==
  \A t \in Threads : \A o, q \in Locks : holder[o] = t /\ WaitsFor(t, q) => Before(o, q)

(* Unless all threads are done, one of them can go on: every lock it waits *)
(* for is free.                                                            *)
Blocked(t) == \E o \in Locks : WaitsFor(t, o) /\ ~ Free(o)

SomeThreadGoesOn ==
  (\E t \in Threads : pc[t] # "done") => \E t \in Threads : pc[t] # "done" /\ ~ Blocked(t)

(* A relation stands in the lists more than once only if several threads   *)
(* looked for it at the same time (addPeerRelationship does not look again *)
(* once it has the locks): at most once for each thread that implies it.   *)
Implying(p) ==
  {t \in Threads : \E n \in 1..Len(Directives[t]) :
     LET r == RelationsOf(Directives[t][n][1], Directives[t][n][2]) IN \E i \in 1..Len(r) : r[i] = p}

OncePerThread == \A p \in Pairs : fwd[p] <= Cardinality(Implying(p))

(* The pass adds the relations the code base implies, and all of them: no  *)
(* thread waits for ever, and none skips what another only asked about.    *)
Abstract == INSTANCE RelationSet WITH pairs <- {p \in Pairs : fwd[p] > 0}
Implements == Abstract!Spec
=============================================================================
