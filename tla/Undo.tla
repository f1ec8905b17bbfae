------------------------------- MODULE Undo -------------------------------
(***************************************************************************)
(* lvtqtc::UndoManager and the commands the graphics scene and its tools   *)
(* push: what Ctrl+Z does to the packages, components and dependencies of  *)
(* a project.                                                              *)
(*                                                                         *)
(* A command does not remember the graph: it finds its entities again by   *)
(* qualified name, or, when an entity was moved, by the address of its     *)
(* node.  A node whose removal is undone is a new node.  The numbers of    *)
(* nodes stand for records and addresses alike.                            *)
(*                                                                         *)
(* A node has its name twice, in memory and in its row of the database.    *)
(* Renaming a package writes both, renaming a component only the former,   *)
(* and what finds no node of a name looks for a row of that name.          *)
(*                                                                         *)
(* The node storage is the graph it promises to be (DependencyGraph); its  *)
(* packages hold components and no packages.                               *)
(***************************************************************************)
EXTENDS Naturals, FiniteSets, SequencesExt

CONSTANTS
  Names,
  Projects,       \* the graphs of the projects on disk
  Limit,          \* setUndoLimit
  MaxEntities,    \* a bound on the entities at a time
  MaxEdits,       \* a bound on the edits of a session
  Careless,       \* what the user does without care: a subset of Habits
  None

Habits == {"names", "moves", "parents", "twice", "allowedEdges", "allowedTargets", "renamed"}
ASSUME CarelessAssumption == Careless \subseteq Habits
ASSUME LimitAssumption == Limit \in Nat \ {0}
ASSUME BoundAssumption == MaxEdits \in Nat

VARIABLES
  graph,          \* [nodes, concrete, allowed]
  stack, index,   \* QUndoStack: the commands, and how many of them are done
  fault,          \* what an undo or redo ran into
  views,          \* ghost: how the graph looked at each index of the stack
  edits,          \* ghost: how many edits there have been
  replaced        \* ghost: the stack is that of another database

vars == <<graph, stack, index, fault, views, edits, replaced>>

----------------------------------------------------------------------------
(* The graph.  nodes[i] is [kind, prefix, name, row, home]: row is the     *)
(* name in the database; the prefix of the qualified name is that of the   *)
(* parent when the node was made, and stays.                               *)

Kinds == {"package", "component"}
QNames == [kind : Kinds, prefix : Names \cup {None}, name : Names]
ASSUME NoneAssumption == None \notin Nat \cup QNames

Live(g) == DOMAIN g.nodes
QName(g, i) == [kind |-> g.nodes[i].kind, prefix |-> g.nodes[i].prefix, name |-> g.nodes[i].name]
RowName(g, i) == [kind |-> g.nodes[i].kind, prefix |-> g.nodes[i].prefix, name |-> g.nodes[i].row]
NamesOf(g, i) == {QName(g, i), RowName(g, i)}
Named(g, q) == {i \in Live(g) : QName(g, i) = q}
Rowed(g, q) == {i \in Live(g) : RowName(g, i) = q}
\* findByQualifiedName: the first that a hash map of the nodes yields, or the
\* node of the first row.
Found(g, q) == IF Named(g, q) # {} THEN Named(g, q) ELSE Rowed(g, q)
Find(g, q) == CHOOSE i \in Found(g, q) : TRUE
Absent(g, q) == Found(g, q) = {}

IsPackage(g, i) == g.nodes[i].kind = "package"
Home(g, i) == g.nodes[i].home
HasProvider(g, s, t) == <<s, t>> \in g.concrete \cup g.allowed
\* Components of one package, or of packages that know each other.
Supported(g, s, t) ==
  IsPackage(g, s) \/ Home(g, s) = Home(g, t) \/ HasProvider(g, Home(g, s), Home(g, t))

Removable(g, i) ==
  /\ \A x \in Live(g) : Home(g, x) # i
  /\ ~\E e \in g.concrete : i \in {e[1], e[2]}
  /\ ~\E e \in g.allowed : e[1] = i

\* How the user sees it: no records, no addresses.
View(g) ==
  LET named(edges) == {<<QName(g, e[1]), QName(g, e[2])>> : e \in {x \in edges : {x[1], x[2]} \subseteq Live(g)}}
  IN  [entities |-> {<<QName(g, i), IF IsPackage(g, i) THEN None ELSE QName(g, Home(g, i))>> : i \in Live(g)},
       concrete |-> named(g.concrete), allowed |-> named(g.allowed)]

----------------------------------------------------------------------------
(* What a command does.  A part of a command is performed, or its inverse. *)

\* Numbers that a command on the stack or a row still names are not reused.
Addresses(commands) ==
  UNION {UNION {IF part.op = "move" THEN {part.node, part.from, part.to} ELSE {} : part \in Range(c)}
           : c \in Range(commands)}
Fresh(g, commands) ==
  LET taken == Live(g) \cup {e[2] : e \in g.allowed} \cup Addresses(commands)
  IN  CHOOSE i \in 1..Cardinality(taken) + 1 : i \notin taken

Added(g, i, q, p) ==
  [g EXCEPT !.nodes = [x \in Live(g) \cup {i} |->
      IF x = i THEN [kind |-> q.kind, prefix |-> q.prefix, name |-> q.name, row |-> q.name, home |-> p]
               ELSE g.nodes[x]]]
Removed(g, i) == [g EXCEPT !.nodes = [x \in Live(g) \ {i} |-> g.nodes[x]]]
Connected(g, s, t, type) ==
  IF type = "concrete" THEN [g EXCEPT !.concrete = @ \cup {<<s, t>>}]
                       ELSE [g EXCEPT !.allowed = @ \cup {<<s, t>>}]
Disconnected(g, s, t, type) ==
  IF type = "concrete" THEN [g EXCEPT !.concrete = @ \ {<<s, t>>}]
                       ELSE [g EXCEPT !.allowed = @ \ {<<s, t>>}]
\* A component writes the fields it was loaded with to its row.
Renamed(g, i, name) ==
  LET row == IF IsPackage(g, i) THEN name ELSE g.nodes[i].row
  IN  [g EXCEPT !.nodes[i] = [@ EXCEPT !.name = name, !.row = row]]
Moved(g, i, p, name) == [g EXCEPT !.nodes[i] = [@ EXCEPT !.home = p, !.name = name]]

Done(g) == [graph |-> g, fault |-> "none"]
Failed(g, why) == [graph |-> g, fault |-> why]
\* A result that is an error: expect() throws, an assertion fails.
Expect(holds, g, new) == IF holds THEN Done(new) ELSE Failed(g, "refused")

AddEntity(g, part, commands) ==
  LET q == part.entity
      p == IF part.home = None THEN None ELSE Find(g, part.home)
  IN  Expect(Absent(g, q) /\ (part.home # None => ~Absent(g, part.home)), g,
             Added(g, Fresh(g, commands), q, p))

RemoveEntity(g, part) ==
  LET i == Find(g, part.entity)
  IN  IF Absent(g, part.entity) THEN Failed(g, "null") ELSE Expect(Removable(g, i), g, Removed(g, i))

\* addPhysicalDependency asks whether it is there already of packages only.
CanConnect(g, s, t, type) ==
  /\ s # t
  /\ IsPackage(g, s) => <<s, t>> \notin (IF type = "concrete" THEN g.concrete ELSE g.allowed)
  /\ Supported(g, s, t)
AddRelationship(g, part) ==
  LET s == Find(g, part.from)
      t == Find(g, part.to)
  IN  IF Absent(g, part.from) \/ Absent(g, part.to) THEN Failed(g, "null")
      ELSE Expect(CanConnect(g, s, t, part.type), g, Connected(g, s, t, part.type))
RemoveRelationship(g, part) ==
  LET s == Find(g, part.from)
      t == Find(g, part.to)
  IN  IF Absent(g, part.from) \/ Absent(g, part.to) THEN Failed(g, "null")
      ELSE Expect(HasProvider(g, s, t), g, Disconnected(g, s, t, part.type))

RenameEntity(g, part) ==
  IF Absent(g, part.was) THEN Failed(g, "null")
  ELSE Done(Renamed(g, Find(g, part.was), part.now.name))

ReparentEntity(g, part) ==
  IF {part.node, part.to} \subseteq Live(g) THEN Done(Moved(g, part.node, part.to, part.now))
  ELSE Failed(g, "freed")

Perform(g, part, commands) ==
  CASE part.op = "add" -> AddEntity(g, part, commands)
    [] part.op = "remove" -> RemoveEntity(g, part)
    [] part.op = "connect" -> AddRelationship(g, part)
    [] part.op = "disconnect" -> RemoveRelationship(g, part)
    [] part.op = "rename" -> RenameEntity(g, part)
    [] part.op = "move" -> ReparentEntity(g, part)

Opposite(op) ==
  CASE op = "add" -> "remove" [] op = "remove" -> "add"
    [] op = "connect" -> "disconnect" [] op = "disconnect" -> "connect"
\* Mutant: the entity is looked up by the name it had before.
RevertedByOldName(part) ==
  CASE part.op = "move" ->
         [part EXCEPT !.from = part.to, !.to = part.from, !.was = part.now, !.now = part.was]
    [] part.op = "rename" -> [part EXCEPT !.now = part.was]
    [] OTHER -> [part EXCEPT !.op = Opposite(@)]
Reverted(part) ==
  CASE part.op = "move" ->
         [part EXCEPT !.from = part.to, !.to = part.from, !.was = part.now, !.now = part.was]
    [] part.op = "rename" -> [part EXCEPT !.was = part.now, !.now = part.was]
    [] OTHER -> [part EXCEPT !.op = Opposite(@)]

\* A command is one part, or three; the first that fails ends the program.
Then(r, part, commands) == IF r.fault = "none" THEN Perform(r.graph, part, commands) ELSE r
Outcome(g, parts, commands) ==
  LET first == Perform(g, parts[1], commands)
  IN  IF Len(parts) = 1 THEN first ELSE Then(Then(first, parts[2], commands), parts[3], commands)
Run(parts) ==
  LET end == Outcome(graph, parts, stack)
  IN  graph' = end.graph /\ fault' = end.fault

Undone(parts) == Reverse([i \in DOMAIN parts |-> Reverted(parts[i])])

undo ==
  /\ index > 0
  /\ Run(Undone(stack[index]))
  /\ index' = index - 1
  /\ UNCHANGED <<stack, views, edits, replaced>>

redo ==
  /\ index < Len(stack)
  /\ Run(stack[index + 1])
  /\ index' = index + 1
  /\ UNCHANGED <<stack, views, edits, replaced>>

----------------------------------------------------------------------------
(* What the user edits: the call has been made when the command is pushed, *)
(* which drops what was undone and the oldest beyond the limit.            *)

Past == SubSeq(stack, 1, index)
\* Mutant: one command more than the limit is kept.
LatestOverLimit(seq, n) == IF Len(seq) > n + 1 THEN Tail(seq) ELSE seq
Latest(seq, n) == IF Len(seq) > n THEN Tail(seq) ELSE seq
Push(parts, g) ==
  /\ edits < MaxEdits
  /\ edits' = edits + 1
  /\ graph' = g
  /\ stack' = Latest(Append(Past, parts), Limit)
  /\ index' = Len(stack')
  /\ views' = Latest(Append(SubSeq(views, 1, index + 1), View(g)), Limit + 1)
  /\ UNCHANGED <<fault, replaced>>

Careful(habit, holds) == habit \in Careless \/ holds
Parts == UNION {Range(c) : c \in Range(Past)}
NoMoveOf(i) == ~\E part \in Parts : part.op = "move" /\ i \in {part.node, part.from, part.to}
NothingAdded == ~\E part \in Parts : part.op = "add"
FreeName(g, i) == \A j \in Live(g) : QName(g, i) \in NamesOf(g, j) => j = i
AllSupported(g) == \A e \in g.concrete : Supported(g, e[1], e[2])

\* What the storage holds of a project.
IsGraph(g) ==
  /\ g = [nodes |-> g.nodes, concrete |-> g.concrete, allowed |-> g.allowed]
  /\ Live(g) \subseteq Nat /\ IsFiniteSet(Live(g))
  /\ \A i \in Live(g) : g.nodes[i] \in [kind : Kinds, prefix : Names \cup {None}, name : Names,
                                       row : Names, home : Nat \cup {None}]
  /\ \A i \in Live(g) : IsPackage(g, i) \/ Home(g, i) \in Live(g)
  /\ g.concrete \subseteq Nat \X Nat
  /\ g.allowed \subseteq Nat \X Nat /\ IsFiniteSet(g.allowed)
\* As a storage loads it: every node has the name in its row.
Loaded(g) == [g EXCEPT !.nodes = [i \in Live(g) |-> [@[i] EXCEPT !.name = g.nodes[i].row]]]
ASSUME ProjectsAssumption == \A g \in Projects : IsGraph(g) /\ Loaded(g) = g

\* A project of a careful user: every name is one entity's, components are in
\* packages and packages are not, and what a dependency needs is there.
WellKept(g) ==
  /\ \A i, j \in Live(g) : i # j => NamesOf(g, i) \cap NamesOf(g, j) = {}
  /\ \A i \in Live(g) : IF IsPackage(g, i) THEN Home(g, i) = None ELSE IsPackage(g, Home(g, i))
  /\ \A e \in g.concrete \cup g.allowed :
       /\ e[1] # e[2] /\ {e[1], e[2]} \subseteq Live(g)
       /\ IsPackage(g, e[1]) <=> IsPackage(g, e[2])
  /\ AllSupported(g)

Add(q, home) ==
  /\ Cardinality(Live(graph)) < MaxEntities
  /\ LET part == [op |-> "add", entity |-> q, home |-> home]
         end == AddEntity(graph, part, Past)
     IN  end.fault = "none" /\ Push(<<part>>, end.graph)
addPackage(name) == Add([kind |-> "package", prefix |-> None, name |-> name], None)
addComponent(name, p) ==
  /\ IsPackage(graph, p)
  /\ Add([kind |-> "component", prefix |-> graph.nodes[p].name, name |-> name], QName(graph, p))

removeEntity(i) ==
  /\ Removable(graph, i)
  /\ Careful("moves", NoMoveOf(i))
  /\ Careful("renamed", RowName(graph, i) = QName(graph, i))
  /\ Careful("allowedTargets", \A e \in graph.allowed : e[2] # i)
  /\ Push(<<[op |-> "remove", entity |-> QName(graph, i),
             home |-> IF IsPackage(graph, i) THEN None ELSE QName(graph, Home(graph, i))]>>,
          Removed(graph, i))

Edge(op, s, t, type) ==
  [op |-> op, from |-> QName(graph, s), to |-> QName(graph, t), type |-> type]

addDependency(s, t) ==
  /\ IsPackage(graph, s) <=> IsPackage(graph, t)
  /\ CanConnect(graph, s, t, "concrete")
  /\ Careful("twice", <<s, t>> \notin graph.concrete)
  /\ Push(<<Edge("connect", s, t, "concrete")>>, Connected(graph, s, t, "concrete"))

\* The packages are not connected, and the user lets the tool do so.
addDependencyOfParents(s, t) ==
  /\ ~IsPackage(graph, s) /\ ~IsPackage(graph, t)
  /\ ~Supported(graph, s, t)
  /\ Careful("twice", <<s, t>> \notin graph.concrete)
  /\ LET p == Home(graph, s)
         q == Home(graph, t)
         allowed == Connected(graph, p, q, "allowed")
     IN  Push(<<Edge("connect", p, q, "allowed"), Edge("connect", s, t, "concrete"),
                Edge("connect", p, q, "concrete")>>,
              Connected(Connected(allowed, s, t, "concrete"), p, q, "concrete"))

\* An edge of the scene may stand for an allowed dependency alone: there is
\* nothing to remove then, and the command is pushed all the same.
removeDependency(s, t) ==
  /\ HasProvider(graph, s, t)
  /\ Careful("allowedEdges", <<s, t>> \in graph.concrete)
  /\ LET g == Disconnected(graph, s, t, "concrete")
     IN  /\ Careful("parents", AllSupported(g))
         /\ Push(<<Edge("disconnect", s, t, "concrete")>>, g)

rename(i, name) ==
  LET g == Renamed(graph, i, name)
  IN  /\ Careful("names", FreeName(g, i))
      /\ Push(<<[op |-> "rename", was |-> QName(graph, i), now |-> QName(g, i)]>>, g)

reparent(c, p, name) ==
  /\ ~IsPackage(graph, c) /\ IsPackage(graph, p) /\ p # Home(graph, c)
  /\ LET g == Moved(graph, c, p, name)
     IN  /\ Careful("moves", NothingAdded)
         /\ Careful("names", FreeName(g, c))
         /\ Careful("parents", AllSupported(g))
         /\ Push(<<[op |-> "move", node |-> c, from |-> Home(graph, c), to |-> p,
                    was |-> graph.nodes[c].name, now |-> name]>>, g)

Edit ==
  \/ \E name \in Names : addPackage(name)
  \/ \E name \in Names : \E p \in Live(graph) : addComponent(name, p)
  \/ \E i \in Live(graph) : removeEntity(i)
  \/ \E s, t \in Live(graph) :
       addDependency(s, t) \/ addDependencyOfParents(s, t) \/ removeDependency(s, t)
  \/ \E i \in Live(graph) : \E name \in Names : rename(i, name)
  \/ \E c, p \in Live(graph) : \E name \in Names : reparent(c, p, name)

----------------------------------------------------------------------------

\* Another project, or this one again as it was saved.
OpenProject(g) ==
  /\ graph' = g
  /\ stack' = <<>> /\ index' = 0
  /\ views' = <<View(g)>>
  /\ replaced' = FALSE
  /\ UNCHANGED <<fault, edits>>

\* generateCodeDatabaseFinished: the database is replaced, the stack is not.
ParseFinished ==
  /\ graph' \in Projects
  /\ replaced' = TRUE
  /\ UNCHANGED <<stack, index, fault, views, edits>>

Init ==
  /\ graph \in Projects
  /\ stack = <<>> /\ index = 0
  /\ fault = "none"
  /\ views = <<View(graph)>>
  /\ edits = 0
  /\ replaced = FALSE

Next ==
  /\ fault = "none"
  /\ \/ undo \/ redo \/ (~replaced /\ Edit) \/ (~replaced /\ ParseFinished)
     \/ \E g \in Projects : OpenProject(g)
     \/ ~replaced /\ OpenProject(Loaded(graph))

Spec == Init /\ [][Next]_vars

----------------------------------------------------------------------------
(* Properties.                                                             *)

PartSet ==
  {part \in [op : {"add", "remove"}, entity : QNames, home : QNames \cup {None}] :
     part.entity.kind = "package" <=> part.home = None}
  \cup [op : {"connect", "disconnect"}, from : QNames, to : QNames, type : {"concrete", "allowed"}]
  \cup [op : {"rename"}, was : QNames, now : QNames]
  \cup [op : {"move"}, node : Nat, from : Nat, to : Nat, was : Names, now : Names]
Commands == {c \in Seq(PartSet) : Len(c) \in {1, 3}}
Views ==
  [entities : SUBSET (QNames \X (QNames \cup {None})),
   concrete : SUBSET (QNames \X QNames), allowed : SUBSET (QNames \X QNames)]

(***************************************************************************)
(* The type invariant: the graph is one that a database can hold, and the  *)
(* commands, no more than the limit, are of one part or of three.          *)
(***************************************************************************)
TypeOK ==
  /\ IsGraph(graph)
  /\ stack \in Seq(Commands) /\ Len(stack) <= Limit
  /\ index \in 0..Len(stack)
  /\ fault \in {"none", "null", "freed", "refused"}
  /\ views \in Seq(Views) /\ Len(views) = Len(stack) + 1
  /\ edits \in 0..MaxEdits
  /\ replaced \in BOOLEAN

(***************************************************************************)
(* However the user edits, undoes and redoes: every command finds its      *)
(* entities, none is refused, and at each index of the stack the project   *)
(* looks as it did when the stack was there before.  It holds as long as   *)
(* the user avoids what the commands get wrong (Careless = {}), and until  *)
(* a parse replaces the database.                                          *)
(***************************************************************************)
UndoReturns == ~replaced => fault = "none" /\ View(graph) = views[index + 1]

(***************************************************************************)
(* assert(!result.has_error()) of UndoAddComponent::addEntity, and the     *)
(* expect() of the other commands: nothing that an undo or a redo asks of  *)
(* the storage is refused, and what was removed can be added again.  It    *)
(* does not hold for components that were renamed (Careless = {"renamed"}):*)
(* the name a component had is taken by its row.                           *)
(***************************************************************************)
AddedAgain == ~replaced => fault # "refused"
=============================================================================
