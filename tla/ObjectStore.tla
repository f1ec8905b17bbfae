---------------------------- MODULE ObjectStore ----------------------------
(***************************************************************************)
(* The in-memory database of lvtmdb (ct_lvtmdb_objectstore.cpp) with the   *)
(* pointers between its objects, over repeated updates of one lvtclp::Tool:*)
(* the scan registers what is new, Tool::setupIncrementalUpdate removes    *)
(* what was changed or deleted, and the visitors fill the gaps again.      *)
(*                                                                         *)
(* An object is owned by one map of the store, by name, and everything     *)
(* else reaches it by a plain pointer.  A pointer is <<name, generation>>, *)
(* gen[n] counting the objects that were made under the name n: once the   *)
(* map drops the object, every copy of the pointer points to freed memory. *)
(* edges holds the object's vectors and pointer members as triples <<field,*)
(* owner, target>>; the order inside a vector is left open.                *)
(*                                                                         *)
(* ParseTool takes removeFile as one step that reaches every includer.     *)
(* Here it is the recursion it is in the code, `stack' being the call      *)
(* stack, with every object it dereferences and every lock it waits for.   *)
(***************************************************************************)
EXTENDS Naturals, Sequences, FiniteSets

CONSTANTS
  Sources, Headers,    \* the files, each next to a source of the compile commands
  CodeBases,           \* the code bases the disk may hold: functions from the
                       \*   files that exist to the headers they #include
  CompOf, PkgOf,       \* the component of a file, the package of a component
  GroupOf,             \* the package group of a package, or NoGroup
  Spaces, SpaceOf,     \* the namespaces a file opens, the namespace of a type
  Outer,               \* the namespace around a namespace, the class around
                       \*   a class, or NoOuter
  Types, Functions,    \* the types, and the functions and variables, it defines
  NoGroup, NoOuter,
  Builds,              \* of the builds looked at, whether their objects check
                       \*   that they are locked (LVTMDB_LOCK_DEBUGGING)
  MaxUpdates           \* bound: how many updates one Tool runs

Files      == Sources \cup Headers
Components == {CompOf[f] : f \in Files}
Packages   == {PkgOf[c] : c \in Components}
Groups     == {GroupOf[p] : p \in Packages} \ {NoGroup}
Namespaces == UNION {Spaces[f] : f \in Files}
AllTypes   == UNION {Types[f] : f \in Files}
Names      == Files \cup Components \cup Packages \cup Groups \cup Namespaces \cup AllTypes
              \cup UNION {Functions[f] : f \in Files}

ASSUME FilesAssumption == Sources \cap Headers = {}
ASSUME NamesAssumption ==
  /\ Files \cap (Components \cup Packages \cup Groups \cup Namespaces \cup AllTypes) = {}
  /\ Components \cap (Packages \cup Groups) = {}
ASSUME CodeBasesAssumption ==
  \A code \in CodeBases :
    DOMAIN code \subseteq Files /\ \A f \in DOMAIN code : code[f] \subseteq DOMAIN code \cap Headers
ASSUME MaxUpdatesAssumption == MaxUpdates \in Nat
ASSUME BuildsAssumption == Builds \subseteq BOOLEAN /\ Builds # {}
ASSUME NoGroupAssumption == NoGroup \notin Components \cup Packages \cup Groups

VARIABLES
  code,                     \* the code base on disk
  stored, gen, edges,       \* the store
  phase, updates, complete, \* the Tool: where it is, how many updates it has
                            \*   begun, whether the last parse went through
  pending, stack,           \* files to remove, removeFile's call stack
  removed, removedFiles,    \* removedPtrs and removedFiles
  deletedPkgs, toParse,     \* packages to remove, translation units to parse
  fault                     \* who dereferenced a freed object; "lock" for a
                            \*   thread that waits for a lock it holds itself,
                            \*   "assertion" for a process an assertion stops

present == DOMAIN code
store == <<stored, gen, edges>>
calls == <<pending, stack, removed, removedFiles, deletedPkgs>>
vars  == <<code, store, phase, updates, complete, calls, toParse, fault>>

Ptr(n)  == <<n, gen[n]>>
Live(p) == p[1] \in stored /\ p[2] = gen[p[1]]
Out(field, p) == {e[3] : e \in {d \in edges : d[1] = field /\ d[2] = p}}

NamesOf(S) == {p[1] : p \in S}

(* What a file and the objects above it record of each other when they are  *)
(* registered: constructors, addFile, addComponent, addChild.               *)
Registered(f, ptr) ==
  LET c == CompOf[f]
      p == PkgOf[c]
      g == GroupOf[p]
  IN  {<<"component", ptr[f], ptr[c]>>, <<"files", ptr[c], ptr[f]>>,
       <<"package", ptr[c], ptr[p]>>, <<"components", ptr[p], ptr[c]>>}
      \cup IF g = NoGroup THEN {}
           ELSE {<<"parent", ptr[p], ptr[g]>>, <<"children", ptr[g], ptr[p]>>}

Above(F) == LET C == {CompOf[f] : f \in F}
                P == {PkgOf[c] : c \in C}
            IN  F \cup C \cup P \cup ({GroupOf[p] : p \in P} \ {NoGroup})

(* getOrAdd of every name in N: a stored object is returned as it is.       *)
NewGen(N) == [n \in Names |-> IF n \in N \ stored THEN gen[n] + 1 ELSE gen[n]]

-----------------------------------------------------------------------------
Init ==
  /\ code = [f \in {} |-> {}]
  /\ stored = {} /\ gen = [n \in Names |-> 0] /\ edges = {}
  /\ phase = "idle" /\ updates = 0 /\ complete = FALSE
  /\ pending = <<{}, {}>> /\ stack = <<>> /\ removed = {} /\ removedFiles = {}
  /\ deletedPkgs = {} /\ toParse = {}
  /\ fault = "none"

(* The code base has become `next'; the files in `touched' differ in more   *)
(* than their #includes.  FilesystemScanner::addToDatabase registers the new*)
(* files and reports what was modified and deleted.                         *)
Update(next, touched) ==
  LET here     == DOMAIN next
      new      == here \ stored
      modified == {f \in here \cap stored : f \in touched \/ next[f] # code[f]}
      deleted  == (stored \cap Files) \ here
      found    == Above(here)
      g        == NewGen(Above(new))
  IN  /\ phase = "idle" /\ updates < MaxUpdates /\ fault = "none"
      /\ new \cup modified \cup deleted # {}
      /\ code' = next
      /\ gen' = g
      /\ stored' = stored \cup Above(new)
      /\ edges' = edges \cup UNION {Registered(f, [n \in Names |-> <<n, g[n]>>]) : f \in new}
      /\ updates' = updates + 1
      /\ phase' = "files"
      /\ pending' = <<modified, deleted>>
      /\ removed' = {} /\ removedFiles' = {} /\ stack' = <<>>
      /\ deletedPkgs' = (stored \cap (Packages \cup Groups)) \ found
      /\ \E incremental \in {FALSE, complete} :
           toParse' = IF incremental THEN Sources \cap (new \cup modified)
                      ELSE Sources \cap here
      /\ complete' = FALSE
      /\ UNCHANGED fault

(* removeFile(p) up to its loops: the copies of namespaces, types and       *)
(* includers it takes under the file's lock.                                *)
\* Mutant: the files it includes.
FrameOfIncluded(p) == [file |-> p, namespaces |-> Out("namespaces", p),
                       types |-> Out("types", p), files |-> Out("forwardIncludes", p)]
Frame(p) == [file |-> p, namespaces |-> Out("namespaces", p),
             types |-> Out("types", p), files |-> Out("reverseIncludes", p)]

(* removedPtrs: what removeFile has been called for is skipped, and the set  *)
(* is the same for all calls of an update.                                  *)
\* Mutants: the set is not looked at; a set for each call, as removePackage gets.
SkipNothing(p) == FALSE
Skip(p) == p \in removed
InsertIntoNew(p) == {p}
Insert(p) == removed \cup {p}

(* The lambda deleteFile: the modified files first, then the deleted ones.  *)
DeleteFile(f) ==
  /\ phase = "files" /\ stack = <<>> /\ fault = "none"
  /\ f \in IF pending[1] # {} THEN pending[1] ELSE pending[2]
  /\ pending' = <<pending[1] \ {f}, IF pending[1] # {} THEN pending[2] ELSE pending[2] \ {f}>>
  /\ IF f \in removedFiles \/ f \notin stored \/ Skip(Ptr(f))
     THEN UNCHANGED <<stack, removed>>
     ELSE stack' = <<Frame(Ptr(f))>> /\ removed' = Insert(Ptr(f))
  /\ UNCHANGED <<code, store, phase, updates, complete, removedFiles, deletedPkgs, toParse,
                 fault>>

-----------------------------------------------------------------------------
(* Steps of the removeFile call on top of the stack.                        *)
Top == stack[Len(stack)]
SetTop(frame) == [stack EXCEPT ![Len(stack)] = frame]
InRemoveFile == phase = "files" /\ stack # <<>> /\ fault = "none"

(* The deletion of the objects S, once the lists in `cut' have been edited. *)
Erase(S, cut) ==
  /\ stored' = stored \ NamesOf(S)
  /\ edges' = {e \in edges \ cut : e[2] \notin S}
  /\ UNCHANGED gen

(* A type and the classes nested in it, which removeType descends to.       *)
Nested(t) ==
  LET T == {t} \cup {e[3] : e \in {d \in edges : d[1] = "nested"}}
  IN  {p \in T : \A S \in SUBSET T :
         (t \in S /\ \A q \in S : Out("nested", q) \subseteq S) => p \in S}

(* removeType(t) dereferences those, their namespaces and their packages,   *)
(* and takes them off the lists of the latter two.                          *)
ReadByRemoveType(t) == Nested(t) \cup
  UNION {Out("parentNamespace", p) \cup Out("package", p) : p \in Nested(t)}
CutByRemoveType(t) ==
  {e \in edges : e[1] \in {"typeChildren", "pkgTypes"} /\ e[3] \in Nested(t)}

(* The loop over the file's namespaces: NamespaceObject::removeFile, then   *)
(* removeNamespace if that was its last file.  removeNamespace holds the    *)
(* namespace's read lock while removeType asks for its write lock, and while*)
(* removeFunction and removeVariable have it write; the parent's removeChild*)
(* is called with no lock.  A build with assertions stops there.  One that  *)
(* has none goes on: its loop over the functions (and the one over the      *)
(* variables) erases from the vector it runs over, which leaves the first   *)
(* two entries right: the third it reads is the stale slot of one it has    *)
(* deleted.                                                                 *)
LeaveNamespace(n) ==
  LET last   == Out("files", n) \subseteq {Top.file}
      funs   == Out("functions", n)
      around == Out("parent", n)
  IN  /\ InRemoveFile /\ n \in Top.namespaces
      /\ stack' = SetTop([Top EXCEPT !.namespaces = @ \ {n}])
      /\ \E debugging \in Builds :
           fault' = CASE ~Live(n) -> "cascade"
                      [] ~last -> "none"
                      [] Out("typeChildren", n) # {} -> "lock"
                      [] debugging /\ funs # {} -> "assertion"
                      [] Cardinality(funs) > 2 \/ \E p \in around : ~Live(p) -> "cascade"
                      [] debugging /\ around # {} -> "assertion"
                      [] OTHER -> "none"
      /\ IF last THEN Erase({n} \cup funs, {})
         ELSE edges' = edges \ {<<"files", n, Top.file>>} /\ UNCHANGED <<stored, gen>>
      /\ UNCHANGED <<code, phase, updates, complete, pending, removed, removedFiles,
                     deletedPkgs, toParse>>

(* The loop over its types: TypeObject::removeFile, then removeType.        *)
LeaveType(t) ==
  LET last == Out("files", t) \subseteq {Top.file}
  IN  /\ InRemoveFile /\ Top.namespaces = {} /\ t \in Top.types
      /\ stack' = SetTop([Top EXCEPT !.types = @ \ {t}])
      /\ fault' = IF ~Live(t) \/ (last /\ \E p \in ReadByRemoveType(t) : ~Live(p))
                      THEN "cascade" ELSE "none"
      /\ IF last THEN Erase(Nested(t), CutByRemoveType(t))
         ELSE edges' = edges \ {<<"files", t, Top.file>>} /\ UNCHANGED <<stored, gen>>
      /\ UNCHANGED <<code, phase, updates, complete, pending, removed, removedFiles,
                     deletedPkgs, toParse>>

(* The loop over its includers: the recursive call.                         *)
RemoveIncluder(p) ==
  /\ InRemoveFile /\ Top.namespaces = {} /\ Top.types = {} /\ p \in Top.files
  /\ LET rest == SetTop([Top EXCEPT !.files = @ \ {p}])
     IN  IF Skip(p)
         THEN stack' = rest /\ UNCHANGED <<removed, fault>>
         ELSE /\ stack' = Append(rest, Frame(p))
              /\ removed' = Insert(p)
              /\ fault' = IF Live(p) THEN fault ELSE "cascade"
  /\ UNCHANGED <<code, store, phase, updates, complete, pending, removedFiles,
                 deletedPkgs, toParse>>

(* The components of which `file' is the last file.                         *)
\* Mutant: components are never removed.
NoneEmptied(file) == {}
Emptied(file) ==
  {c \in Out("component", file) : Out("files", c) \subseteq {file}}

(* Past the loops: the component loses the file, and goes with its last one *)
(* (removeComponent; dependencies on it stay listed).  The file is deleted. *)
FinishRemoveFile ==
  LET file  == Top.file
      comps == Out("component", file)
      dead  == Emptied(file)
      pkgs  == UNION {Out("package", c) : c \in dead}
  IN  /\ InRemoveFile /\ Top.namespaces = {} /\ Top.types = {} /\ Top.files = {}
      /\ fault' = IF \E p \in comps \cup pkgs : ~Live(p) THEN "cascade" ELSE "none"
      /\ Erase(dead \cup {file}, {<<"files", c, file>> : c \in comps}
                                 \cup ({"components"} \X pkgs \X dead))
      /\ stack' = SubSeq(stack, 1, Len(stack) - 1)
      /\ removedFiles' = removedFiles \cup {file[1]}
      /\ UNCHANGED <<code, phase, updates, complete, pending, removed, deletedPkgs, toParse>>

-----------------------------------------------------------------------------
(* The loop over deletedPkgs: removePackage, which goes on to the parent    *)
(* when it has no other child.  The packages come in no particular order.   *)
RemovePackage(n) ==
  LET p       == Ptr(n)
      parents == Out("parent", p)
      dead    == {g \in parents : Out("children", g) \subseteq {p}}
  IN  /\ phase = "files" /\ stack = <<>> /\ pending = <<{}, {}>>
      /\ fault = "none"
      /\ n \in deletedPkgs
      /\ deletedPkgs' = deletedPkgs \ {n}
      /\ IF n \notin stored
         THEN UNCHANGED <<store, fault>>
         ELSE /\ fault' = IF \E g \in parents : ~Live(g) THEN "packages" ELSE "none"
              /\ Erase({p} \cup dead, {e \in edges : e[1] = "children" /\ e[3] = p})
      /\ UNCHANGED <<code, phase, updates, complete, pending, stack, removed, removedFiles,
                     toParse>>

(* The to-do list of the parse: what the removal propagated to is added.    *)
\* Mutants: only what the scan found; headers as well.
NotPropagated == {}
HeadersPropagated == removedFiles \cap present
Propagated == Sources \cap removedFiles \cap present
StartParse ==
  /\ phase = "files" /\ stack = <<>> /\ pending = <<{}, {}>> /\ deletedPkgs = {}
  /\ fault = "none"
  /\ phase' = "parse"
  /\ toParse' = toParse \cup Propagated
  /\ UNCHANGED <<code, store, updates, complete, calls, fault>>

(* The files the preprocessor enters for s, as in ParseTool.                *)
TranslationUnit(s) ==
  {f \in present : \A F \in SUBSET present :
     (s \in F /\ \A h \in F : code[h] \subseteq F) => f \in F}

(* HeaderCallbacks::InclusionDirective: file, component, package.           *)
Including(f, h, ptr) ==
  LET c == CompOf[f]  d == CompOf[h]
      p == PkgOf[c]   q == PkgOf[d]
      Depends(a, b) == IF a = b \/ NoGroup \in {a, b} THEN {}
                       ELSE {<<"forwardDeps", ptr[a], ptr[b]>>, <<"reverseDeps", ptr[b], ptr[a]>>}
  IN  (IF f = h THEN {} ELSE {<<"forwardIncludes", ptr[f], ptr[h]>>, <<"reverseIncludes", ptr[h], ptr[f]>>})
      \cup Depends(c, d) \cup Depends(p, q)
      \cup (IF p # q /\ GroupOf[p] = NoGroup THEN Depends(p, GroupOf[q]) ELSE {})
      \cup (IF p # q /\ GroupOf[q] = NoGroup THEN Depends(GroupOf[p], q) ELSE {})

(* LogicalDepVisitor: VisitNamespaceDecl, addUDT and addUDTSourceFile, the  *)
(* functions and variables.                                                 *)
Defining(f, ptr) ==
  {<<"namespaces", ptr[f], ptr[n]>> : n \in Spaces[f]} \cup {<<"files", ptr[n], ptr[f]>> : n \in Spaces[f]}
  \cup {<<"parent", ptr[n], ptr[Outer[n]]>> : n \in {m \in Spaces[f] : Outer[m] # NoOuter}}
  \cup {<<"types", ptr[f], ptr[t]>> : t \in Types[f]} \cup {<<"files", ptr[t], ptr[f]>> : t \in Types[f]}
  \cup {<<"package", ptr[t], ptr[PkgOf[CompOf[f]]]>> : t \in Types[f]}
  \cup {<<"udtComponents", ptr[t], ptr[CompOf[f]]>> : t \in Types[f]}
  \cup {<<"pkgTypes", ptr[PkgOf[CompOf[f]]], ptr[t]>> : t \in Types[f]}
  \cup {<<"parentNamespace", ptr[t], ptr[SpaceOf[t]]>> : t \in {u \in Types[f] : SpaceOf[u] # NoOuter}}
  \cup {<<"typeChildren", ptr[SpaceOf[t]], ptr[t]>> : t \in {u \in Types[f] : SpaceOf[u] # NoOuter}}
  \cup {<<"nested", ptr[Outer[t]], ptr[t]>> : t \in {u \in Types[f] : Outer[u] # NoOuter}}
  \cup {<<"functions", ptr[SpaceOf[u]], ptr[u]>> : u \in Functions[f]}

(* One translation unit is visited: what it finds is looked up or added.    *)
ParseUnit(s) ==
  LET unit == TranslationUnit(s)
      all  == Above(unit) \cup UNION {Spaces[f] \cup Types[f] \cup Functions[f] : f \in unit}
      g    == NewGen(all)
      ptr  == [n \in Names |-> <<n, g[n]>>]
  IN  /\ phase = "parse" /\ s \in toParse
      /\ toParse' = toParse \ {s}
      /\ gen' = g /\ stored' = stored \cup all
      /\ edges' = edges \cup UNION {Registered(f, ptr) \cup Defining(f, ptr)
                    \cup UNION {Including(f, h, ptr) : h \in code[f]} : f \in unit}
      /\ UNCHANGED <<code, phase, updates, complete, calls, fault>>

(* The parse ends: all units visited, or cancelled or failed before that.   *)
EndParse ==
  /\ phase = "parse"
  /\ phase' = "idle" /\ toParse' = {} /\ complete' = (toParse = {})
  /\ UNCHANGED <<code, store, updates, calls, fault>>

(* SociWriter::writeFrom looks up, by its qualified name, what every object *)
(* of the store points to in these members.                                 *)
Exported(e) ==
  \/ e[1] \in {"forwardIncludes", "namespaces", "forwardDeps", "component", "package",
               "parent", "parentNamespace", "udtComponents"}
  \/ e[1] = "files" /\ e[2][1] \in AllTypes
Export ==
  /\ phase = "idle" /\ complete /\ fault = "none"
  /\ fault' = IF \E e \in edges : Exported(e) /\ ~Live(e[3]) THEN "export" ELSE "none"
  /\ UNCHANGED <<code, store, phase, updates, complete, calls, toParse>>

Next ==
  \/ \E next \in CodeBases : \E touched \in SUBSET (DOMAIN next \cap stored) : Update(next, touched)
  \/ \E f \in Files : DeleteFile(f)
  \/ InRemoveFile /\ \E n \in Top.namespaces : LeaveNamespace(n)
  \/ InRemoveFile /\ \E t \in Top.types : LeaveType(t)
  \/ InRemoveFile /\ \E p \in Top.files : RemoveIncluder(p)
  \/ FinishRemoveFile
  \/ \E n \in Packages \cup Groups : RemovePackage(n)
  \/ StartParse
  \/ \E s \in Sources : ParseUnit(s)
  \/ EndParse
  \/ Export

Spec == Init /\ [][Next]_vars

-----------------------------------------------------------------------------
(* The type invariant.                                                      *)
TypeOK ==
  /\ stored \subseteq Names /\ gen \in [Names -> Nat]
  /\ phase \in {"idle", "files", "parse"}
  /\ updates \in 0..MaxUpdates /\ complete \in BOOLEAN
  /\ removedFiles \subseteq Files /\ toParse \subseteq Sources
  /\ fault \in {"none", "cascade", "packages", "export", "lock", "assertion"}

(* removeFile dereferences no object that has been deleted: not the includer*)
(* it recurses into, nor a type, a namespace, a component or a package it   *)
(* still finds listed.  Many files are removed one after the other and each *)
(* takes its includers along, so that most files are reached several times. *)
CascadeUsesNoFreed == fault # "cascade"

(* A file being removed is not entered again, however the includes run: the *)
(* code asserts it of the direct caller only.                               *)
NeverReentered ==
  \A i, j \in 1..Len(stack) : i # j => stack[i].file # stack[j].file

(* Once the removal is over no file is left that #includes a file which is  *)
(* gone: it is through the reverse lists that the includers are found, but  *)
(* the #includes of the survivors are what the parse relies on.             *)
SurvivorsIncludeNoRemoved ==
  phase = "parse" => \A e \in edges : e[1] = "forwardIncludes" => Live(e[3])

(* An update that went through leaves every file with the #includes it has  *)
(* on disk, and the dependencies between components these stand for, though *)
(* only some of the translation units were parsed again.                    *)
UpdateIsComplete ==
  (phase = "idle" /\ complete) =>
    \A s \in Sources \cap present : \A f \in TranslationUnit(s) :
      /\ NamesOf({p \in Out("forwardIncludes", Ptr(f)) : Live(p)}) = code[f] \ {f}
      /\ \A h \in code[f] : CompOf[f] # CompOf[h] =>
           <<"forwardDeps", Ptr(CompOf[f]), Ptr(CompOf[h])>> \in edges

(* A component, a namespace and a type go with their last file and not      *)
(* before it.                                                               *)
OwnersFollowFiles ==
  (stack = <<>> /\ fault = "none") =>
    /\ \A f \in stored \cap Files : <<"files", Ptr(CompOf[f]), Ptr(f)>> \in edges
    /\ \A o \in stored \cap (Components \cup Namespaces \cup AllTypes) :
         \E f \in stored \cap Files : <<"files", Ptr(o), Ptr(f)>> \in edges
=============================================================================
