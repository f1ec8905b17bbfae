---------------------------- MODULE Undo_proofs ----------------------------
(***************************************************************************)
(* Proofs about Undo, for every project, every limit of the stack and any  *)
(* number of edits: the graph stays one that a database can hold, and,     *)
(* when the user is careful, each command undoes and redoes what it did.   *)
(*                                                                         *)
(* A node that a command makes again has another number each time, so the  *)
(* graphs of two visits to the same index differ.  The second proof keeps  *)
(* a history beside the stack: for each index one graph over numbers that  *)
(* never change, of which the graph of the database is a copy.  Names lead *)
(* to the same place in both; addresses do so too, as long as the node     *)
(* has never been removed since a command took its address.                *)
(***************************************************************************)
EXTENDS Undo, SequenceTheorems, FiniteSetTheorems, TLAPS

USE DEF Live, Home, IsPackage

----------------------------------------------------------------------------
(* The graph, and what a command makes of any graph and any command.       *)

LEMMA Unused ==
  ASSUME NEW S, IsFiniteSet(S)
  PROVE  \E i \in 1..Cardinality(S) + 1 : i \notin S
<1> DEFINE n == Cardinality(S)
<1>1. n \in Nat
  BY FS_CardinalityType
<1>2. SUFFICES ASSUME 1..n + 1 \subseteq S PROVE FALSE
  OBVIOUS
<1>3. Cardinality(1..n + 1) <= n
  BY <1>2, FS_Subset
<1>4. Cardinality(1..n + 1) = n + 1
  BY <1>1, FS_Interval
<1> QED
  BY <1>1, <1>3, <1>4

\* The numbers that a new node cannot have.
Taken(g, commands) == Live(g) \cup {e[2] : e \in g.allowed} \cup Addresses(commands)

LEMMA FreshIsNew ==
  ASSUME NEW g, NEW cs, IsGraph(g), IsFiniteSet(Addresses(cs))
  PROVE  Fresh(g, cs) \in Nat /\ Fresh(g, cs) \notin Taken(g, cs)
<1> DEFINE T == Taken(g, cs)
<1>1. IsFiniteSet({e[2] : e \in g.allowed})
  <2> DEFINE f == [e \in g.allowed |-> e[2]]
  <2>1. f \in Surjection(g.allowed, {e[2] : e \in g.allowed})
    BY DEF Surjection
  <2> QED
    BY <2>1, FS_Surjection DEF IsGraph
<1>2. IsFiniteSet(T)
  BY <1>1, FS_Union DEF IsGraph, Taken
<1>3. PICK i \in 1..Cardinality(T) + 1 : i \notin T
  BY <1>2, Unused
<1>4. Cardinality(T) \in Nat
  BY <1>2, FS_CardinalityType
<1>5. Fresh(g, cs) = CHOOSE j \in 1..Cardinality(T) + 1 : j \notin T
  BY DEF Fresh, Taken
<1> HIDE DEF T
<1>6. Fresh(g, cs) \in 1..Cardinality(T) + 1 /\ Fresh(g, cs) \notin T
  BY <1>3, <1>5
<1> QED
  BY <1>4, <1>6 DEF T

Node == [kind : Kinds, prefix : Names \cup {None}, name : Names, row : Names, home : Nat \cup {None}]

\* Each change of a graph leaves a graph.
LEMMA GraphAdded ==
  ASSUME NEW g, IsGraph(g), NEW i \in Nat, NEW q \in QNames, NEW p \in Nat \cup {None},
         q.kind = "package" \/ p \in Live(g)
  PROVE  IsGraph(Added(g, i, q, p))
<1> DEFINE h == Added(g, i, q, p)
<1>1. Live(h) = Live(g) \cup {i} /\ h.concrete = g.concrete /\ h.allowed = g.allowed
  BY DEF Added, IsGraph
<1>2. h = [nodes |-> h.nodes, concrete |-> h.concrete, allowed |-> h.allowed]
  BY DEF Added, IsGraph
<1>3. \A x \in Live(h) : h.nodes[x] = IF x = i THEN [kind |-> q.kind, prefix |-> q.prefix, name |-> q.name, row |-> q.name, home |-> p] ELSE g.nodes[x]
  BY DEF Added, IsGraph
<1>4. \A x \in Live(h) : h.nodes[x] \in Node
  BY <1>1, <1>3 DEF IsGraph, Node, QNames
<1>5. \A x \in Live(h) : IsPackage(h, x) \/ Home(h, x) \in Live(h)
  BY <1>1, <1>3 DEF IsGraph
<1> HIDE DEF h
<1>6. IsFiniteSet(Live(h))
  <2>1. IsFiniteSet(Live(g))
    BY DEF IsGraph
  <2>2. IsFiniteSet(Live(g) \cup {i})
    BY <2>1, FS_AddElement
  <2> QED
    BY <1>1, <2>2
<1>7. IsGraph(h)
  BY <1>1, <1>2, <1>4, <1>5, <1>6 DEF IsGraph, Node
<1> QED
  BY <1>7 DEF h

LEMMA GraphRemoved ==
  ASSUME NEW g, IsGraph(g), NEW i \in Live(g), Removable(g, i)
  PROVE  IsGraph(Removed(g, i))
<1> DEFINE h == Removed(g, i)
<1>1. Live(h) = Live(g) \ {i} /\ h.concrete = g.concrete /\ h.allowed = g.allowed
  BY DEF Removed, IsGraph
<1>2. h = [nodes |-> h.nodes, concrete |-> h.concrete, allowed |-> h.allowed]
  BY DEF Removed, IsGraph
<1>3. \A x \in Live(h) : h.nodes[x] = g.nodes[x]
  BY DEF Removed, IsGraph
<1>4. IsFiniteSet(Live(h))
  BY <1>1, FS_RemoveElement DEF IsGraph
<1>5. \A x \in Live(h) : IsPackage(h, x) \/ Home(h, x) \in Live(h)
  BY <1>1, <1>3 DEF IsGraph, Removable
<1> HIDE DEF h
<1>6. IsGraph(h)
  BY <1>1, <1>2, <1>3, <1>4, <1>5 DEF IsGraph
<1> QED
  BY <1>6 DEF h

LEMMA GraphConnected ==
  ASSUME NEW g, IsGraph(g), NEW s \in Live(g), NEW t \in Live(g), NEW type
  PROVE  IsGraph(Connected(g, s, t, type)) /\ IsGraph(Disconnected(g, s, t, type))
<1>1. IsFiniteSet(g.allowed \cup {<<s, t>>}) /\ IsFiniteSet(g.allowed \ {<<s, t>>})
  BY FS_AddElement, FS_RemoveElement DEF IsGraph
<1>2. CASE type = "concrete"
  <2> DEFINE c == Connected(g, s, t, type)
             d == Disconnected(g, s, t, type)
  <2>1. /\ c.nodes = g.nodes /\ c.concrete = g.concrete \cup {<<s, t>>} /\ c.allowed = g.allowed
        /\ c = [nodes |-> c.nodes, concrete |-> c.concrete, allowed |-> c.allowed]
        /\ d.nodes = g.nodes /\ d.concrete = g.concrete \ {<<s, t>>} /\ d.allowed = g.allowed
        /\ d = [nodes |-> d.nodes, concrete |-> d.concrete, allowed |-> d.allowed]
    BY <1>2 DEF Connected, Disconnected, IsGraph
  <2> HIDE DEF c, d
  <2>2. IsGraph(c) /\ IsGraph(d)
    BY <2>1 DEF IsGraph
  <2> QED
    BY <2>2 DEF c, d
<1>3. CASE type # "concrete"
  <2> DEFINE c == Connected(g, s, t, type)
             d == Disconnected(g, s, t, type)
  <2>1. /\ c.nodes = g.nodes /\ c.concrete = g.concrete /\ c.allowed = g.allowed \cup {<<s, t>>}
        /\ c = [nodes |-> c.nodes, concrete |-> c.concrete, allowed |-> c.allowed]
        /\ d.nodes = g.nodes /\ d.concrete = g.concrete /\ d.allowed = g.allowed \ {<<s, t>>}
        /\ d = [nodes |-> d.nodes, concrete |-> d.concrete, allowed |-> d.allowed]
    BY <1>3 DEF Connected, Disconnected, IsGraph
  <2> HIDE DEF c, d
  <2>2. IsGraph(c) /\ IsGraph(d)
    BY <1>1, <2>1 DEF IsGraph
  <2> QED
    BY <2>2 DEF c, d
<1> QED
  BY <1>2, <1>3

LEMMA GraphMoved ==
  ASSUME NEW g, IsGraph(g), NEW i \in Live(g), NEW p \in Live(g), NEW n \in Names
  PROVE  IsGraph(Renamed(g, i, n)) /\ IsGraph(Moved(g, i, p, n))
<1> DEFINE row == IF IsPackage(g, i) THEN n ELSE g.nodes[i].row
           r == [g EXCEPT !.nodes[i] = [@ EXCEPT !.name = n, !.row = row]]
           m == Moved(g, i, p, n)
<1>1. g.nodes[i] \in Node
  BY DEF IsGraph, Node
<1>2. row \in Names /\ r = Renamed(g, i, n)
  BY <1>1 DEF Node, Renamed
<1> HIDE DEF row
<1>3. /\ Live(r) = Live(g) /\ r.concrete = g.concrete /\ r.allowed = g.allowed
      /\ r = [nodes |-> r.nodes, concrete |-> r.concrete, allowed |-> r.allowed]
      /\ \A x \in Live(g) : r.nodes[x] = IF x = i THEN [g.nodes[i] EXCEPT !.name = n, !.row = row]
                                                   ELSE g.nodes[x]
  BY <1>1 DEF IsGraph, Node
<1>4. /\ Live(m) = Live(g) /\ m.concrete = g.concrete /\ m.allowed = g.allowed
      /\ m = [nodes |-> m.nodes, concrete |-> m.concrete, allowed |-> m.allowed]
      /\ \A x \in Live(g) : m.nodes[x] = IF x = i THEN [g.nodes[i] EXCEPT !.home = p, !.name = n] ELSE g.nodes[x]
  BY <1>1 DEF Moved, IsGraph, Node
<1> HIDE DEF r, m
<1>5. \A x \in Live(r) : r.nodes[x] \in Node
  <2>1. [g.nodes[i] EXCEPT !.name = n, !.row = row] \in Node
    BY <1>1, <1>2 DEF Node
  <2> QED
    BY <1>3, <2>1 DEF IsGraph, Node
<1>6. \A x \in Live(r) : IsPackage(r, x) \/ Home(r, x) \in Live(r)
  <2>1. r.nodes[i].kind = g.nodes[i].kind /\ r.nodes[i].home = g.nodes[i].home
    BY <1>1, <1>3 DEF Node
  <2> QED
    BY <1>3, <2>1 DEF IsGraph
<1>7. IsGraph(r)
  BY <1>3, <1>5, <1>6 DEF IsGraph, Node
<1>8. \A x \in Live(m) : m.nodes[x] \in Node
  <2>1. [g.nodes[i] EXCEPT !.home = p, !.name = n] \in Node
    BY <1>1 DEF Node, IsGraph
  <2> QED
    BY <1>4, <2>1 DEF IsGraph, Node
<1>9. \A x \in Live(m) : IsPackage(m, x) \/ Home(m, x) \in Live(m)
  <2>1. \A x \in Live(g) \ {i} : IsPackage(g, x) \/ Home(g, x) \in Live(g)
    BY DEF IsGraph
  <2>2. m.nodes[i].home = p
    BY <1>1, <1>4 DEF Node
  <2> QED
    BY <1>4, <2>1, <2>2
<1>10. IsGraph(m)
  BY <1>4, <1>8, <1>9 DEF IsGraph, Node
<1> QED
  BY <1>2, <1>7, <1>10 DEF m

\* So does loading it again.
LEMMA GraphLoaded ==
  ASSUME NEW g, IsGraph(g)
  PROVE  LET l == Loaded(g)
         IN  /\ IsGraph(l) /\ Live(l) = Live(g) /\ l.concrete = g.concrete /\ l.allowed = g.allowed
             /\ \A x \in Live(g) :
                  /\ l.nodes[x].kind = g.nodes[x].kind /\ l.nodes[x].prefix = g.nodes[x].prefix
                  /\ l.nodes[x].home = g.nodes[x].home
                  /\ l.nodes[x].name = g.nodes[x].row /\ l.nodes[x].row = g.nodes[x].row
<1> DEFINE l == Loaded(g)
<1>1. \A x \in Live(g) : g.nodes[x] \in Node
  BY DEF IsGraph, Node
<1>2. /\ Live(l) = Live(g) /\ l.concrete = g.concrete /\ l.allowed = g.allowed
      /\ l = [nodes |-> l.nodes, concrete |-> l.concrete, allowed |-> l.allowed]
      /\ \A x \in Live(g) : l.nodes[x] = [g.nodes[x] EXCEPT !.name = g.nodes[x].row]
  BY DEF Loaded, IsGraph
<1> HIDE DEF l
<1>3. \A x \in Live(g) :
        /\ l.nodes[x] \in Node
        /\ l.nodes[x].kind = g.nodes[x].kind /\ l.nodes[x].prefix = g.nodes[x].prefix
        /\ l.nodes[x].home = g.nodes[x].home
        /\ l.nodes[x].name = g.nodes[x].row /\ l.nodes[x].row = g.nodes[x].row
  <2> TAKE x \in Live(g)
  <2> DEFINE n == g.nodes[x]
  <2>1. n \in Node /\ l.nodes[x] = [n EXCEPT !.name = n.row]
    BY <1>1, <1>2
  <2> HIDE DEF n
  <2>2. /\ [n EXCEPT !.name = n.row] \in Node
        /\ [n EXCEPT !.name = n.row].kind = n.kind /\ [n EXCEPT !.name = n.row].prefix = n.prefix
        /\ [n EXCEPT !.name = n.row].home = n.home
        /\ [n EXCEPT !.name = n.row].name = n.row /\ [n EXCEPT !.name = n.row].row = n.row
    BY <2>1 DEF Node
  <2> QED
    BY <2>1, <2>2 DEF n
<1>4. IsGraph(l)
  BY <1>2, <1>3 DEF IsGraph, Node
<1> QED
  BY <1>2, <1>3, <1>4 DEF l

Faults == {"none", "null", "freed", "refused"}
\* Whatever its graph, a command leaves a graph.
Sound(r) == IsGraph(r.graph) /\ r.fault \in Faults

LEMMA FindIsLive ==
  ASSUME NEW g, NEW q, ~Absent(g, q)
  PROVE  Find(g, q) \in Live(g)
BY DEF Absent, Find, Found, Named, Rowed

LEMMA FailedIsSound ==
  ASSUME NEW g, IsGraph(g), NEW why \in Faults
  PROVE  Sound(Failed(g, why))
BY DEF Sound, Failed

LEMMA DoneIsSound ==
  ASSUME NEW g, IsGraph(g)
  PROVE  Sound(Done(g))
BY DEF Sound, Done, Faults

LEMMA ExpectIsSound ==
  ASSUME NEW g, NEW new, IsGraph(g), NEW holds \in BOOLEAN, holds => IsGraph(new)
  PROVE  Sound(Expect(holds, g, new))
BY FailedIsSound, DoneIsSound DEF Expect, Faults

LEMMA PartIsOfOneKind ==
  ASSUME NEW part \in PartSet
  PROVE  /\ part.op \in {"add", "remove", "connect", "disconnect", "rename", "move"}
         /\ part.op \in {"add", "remove"} => part.entity \in QNames /\ part.home \in QNames \cup {None}
               /\ (part.entity.kind = "package" <=> part.home = None)
         /\ part.op \in {"connect", "disconnect"} =>
               part.from \in QNames /\ part.to \in QNames /\ part.type \in {"concrete", "allowed"}
         /\ part.op = "rename" => part.was \in QNames /\ part.now \in QNames
         /\ part.op = "move" =>
               /\ part.node \in Nat /\ part.from \in Nat /\ part.to \in Nat
               /\ part.was \in Names /\ part.now \in Names
BY DEF PartSet

LEMMA PerformedIsGraph ==
  ASSUME NEW g, NEW cs, IsGraph(g), IsFiniteSet(Addresses(cs)), NEW part \in PartSet
  PROVE  Sound(Perform(g, part, cs))
<1>1. CASE part.op = "add"
  <2> DEFINE p == IF part.home = None THEN None ELSE Find(g, part.home)
             i == Fresh(g, cs)
             ok == Absent(g, part.entity) /\ (part.home # None => ~Absent(g, part.home))
  <2>1. i \in Nat
    BY FreshIsNew
  <2>2. ok => IsGraph(Added(g, i, part.entity, p))
    <3> SUFFICES ASSUME ok PROVE IsGraph(Added(g, i, part.entity, p))
      OBVIOUS
    <3>1. p \in Nat \cup {None} /\ (part.entity.kind = "package" \/ p \in Live(g))
      BY <1>1, FindIsLive, PartIsOfOneKind DEF IsGraph
    <3>2. part.entity \in QNames
      BY <1>1, PartIsOfOneKind
    <3> HIDE DEF p, i
    <3> QED
      BY <2>1, <3>1, <3>2, GraphAdded
  <2>3. ok \in BOOLEAN
    OBVIOUS
  <2>4. Perform(g, part, cs) = Expect(ok, g, Added(g, i, part.entity, p))
    BY <1>1 DEF Perform, AddEntity
  <2> HIDE DEF ok, p, i
  <2> QED
    BY <2>2, <2>3, <2>4, ExpectIsSound
<1>2. CASE part.op = "remove"
  <2> DEFINE i == Find(g, part.entity)
  <2>1. Perform(g, part, cs) = IF Absent(g, part.entity) THEN Failed(g, "null")
                               ELSE Expect(Removable(g, i), g, Removed(g, i))
    BY <1>2 DEF Perform, RemoveEntity
  <2>2. CASE Absent(g, part.entity)
    BY <2>1, <2>2, FailedIsSound DEF Faults
  <2>3. CASE ~Absent(g, part.entity)
    <3>1. i \in Live(g)
      BY <2>3, FindIsLive
    <3>2. Removable(g, i) \in BOOLEAN
      BY DEF Removable
    <3> HIDE DEF i
    <3>3. Removable(g, i) => IsGraph(Removed(g, i))
      BY <3>1, GraphRemoved
    <3> QED
      BY <2>1, <2>3, <3>2, <3>3, ExpectIsSound
  <2> QED
    BY <2>2, <2>3
<1>3. CASE part.op \in {"connect", "disconnect"}
  <2> DEFINE s == Find(g, part.from)
             t == Find(g, part.to)
             absent == Absent(g, part.from) \/ Absent(g, part.to)
             r == IF part.op = "connect"
                  THEN Expect(CanConnect(g, s, t, part.type), g, Connected(g, s, t, part.type))
                  ELSE Expect(HasProvider(g, s, t), g, Disconnected(g, s, t, part.type))
  <2>1. Perform(g, part, cs) = IF absent THEN Failed(g, "null") ELSE r
    BY <1>3 DEF Perform, AddRelationship, RemoveRelationship
  <2>2. CASE absent
    BY <2>1, <2>2, FailedIsSound DEF Faults
  <2>3. CASE ~absent
    <3>1. s \in Live(g) /\ t \in Live(g)
      BY <2>3, FindIsLive
    <3> HIDE DEF s, t
    <3>2. IsGraph(Connected(g, s, t, part.type)) /\ IsGraph(Disconnected(g, s, t, part.type))
      BY <3>1, GraphConnected
    <3>3. CanConnect(g, s, t, part.type) \in BOOLEAN /\ HasProvider(g, s, t) \in BOOLEAN
      BY DEF CanConnect, HasProvider
    <3> QED
      BY <2>1, <2>3, <3>2, <3>3, ExpectIsSound
  <2> QED
    BY <2>2, <2>3
<1>4. CASE part.op = "rename"
  <2> DEFINE i == Find(g, part.was)
  <2>1. Perform(g, part, cs) = IF Absent(g, part.was) THEN Failed(g, "null")
                               ELSE Done(Renamed(g, i, part.now.name))
    BY <1>4 DEF Perform, RenameEntity
  <2>2. CASE Absent(g, part.was)
    BY <2>1, <2>2, FailedIsSound DEF Faults
  <2>3. CASE ~Absent(g, part.was)
    <3>1. i \in Live(g)
      BY <2>3, FindIsLive
    <3>2. part.now.name \in Names
      BY <1>4, PartIsOfOneKind DEF QNames
    <3> HIDE DEF i
    <3> QED
      BY <2>1, <2>3, <3>1, <3>2, GraphMoved, DoneIsSound
  <2> QED
    BY <2>2, <2>3
<1>5. CASE part.op = "move"
  <2>1. Perform(g, part, cs) = ReparentEntity(g, part)
    BY <1>5 DEF Perform
  <2>2. part.now \in Names
    BY <1>5, PartIsOfOneKind
  <2>3. CASE {part.node, part.to} \subseteq Live(g)
    BY <2>1, <2>2, <2>3, GraphMoved, DoneIsSound DEF ReparentEntity
  <2>4. CASE ~({part.node, part.to} \subseteq Live(g))
    BY <2>1, <2>4, FailedIsSound DEF ReparentEntity, Faults
  <2> QED
    BY <2>3, <2>4
<1> QED
  BY <1>1, <1>2, <1>3, <1>4, <1>5, PartIsOfOneKind

LEMMA RevertedIsPart ==
  ASSUME NEW part \in PartSet
  PROVE  Reverted(part) \in PartSet
<1>1. CASE part.op \in {"add", "remove"}
  BY <1>1 DEF PartSet, Reverted, Opposite
<1>2. CASE part.op \in {"connect", "disconnect"}
  BY <1>2 DEF PartSet, Reverted, Opposite
<1>3. CASE part.op = "rename"
  BY <1>3 DEF PartSet, Reverted
<1>4. CASE part.op = "move"
  BY <1>4 DEF PartSet, Reverted
<1> QED
  BY <1>1, <1>2, <1>3, <1>4, PartIsOfOneKind

LEMMA UndoneIsCommand ==
  ASSUME NEW c \in Commands
  PROVE  /\ Undone(c) \in Commands /\ Len(Undone(c)) = Len(c)
         /\ \A n \in 1..Len(c) : Undone(c)[n] = Reverted(c[Len(c) - n + 1])
<1> DEFINE r == [i \in DOMAIN c |-> Reverted(c[i])]
<1>1. c \in Seq(PartSet) /\ Len(c) \in {1, 3}
  BY DEF Commands
<1>2. r \in Seq(PartSet) /\ Len(r) = Len(c)
  BY <1>1, RevertedIsPart
<1>3. Undone(c) = [n \in 1..Len(c) |-> r[Len(c) - n + 1]]
  BY <1>2 DEF Undone, Reverse
<1>4. \A n \in 1..Len(c) : r[Len(c) - n + 1] = Reverted(c[Len(c) - n + 1]) /\ r[Len(c) - n + 1] \in PartSet
  BY <1>1, <1>2
<1> HIDE DEF r
<1>5. Undone(c) \in Seq(PartSet) /\ Len(Undone(c)) = Len(c)
  BY <1>1, <1>3, <1>4
<1> QED
  BY <1>1, <1>3, <1>4, <1>5 DEF Commands

LEMMA OutcomeIsGraph ==
  ASSUME NEW g, NEW cs, IsGraph(g), IsFiniteSet(Addresses(cs)), NEW c \in Commands
  PROVE  Sound(Outcome(g, c, cs))
<1> DEFINE r1 == Perform(g, c[1], cs)
           r2 == Then(r1, c[2], cs)
           r3 == Then(r2, c[3], cs)
<1>1. Len(c) \in {1, 3} /\ \A n \in 1..Len(c) : c[n] \in PartSet
  BY DEF Commands
<1>2. Sound(r1)
  BY <1>1, PerformedIsGraph
<1>3. Outcome(g, c, cs) = IF Len(c) = 1 THEN r1 ELSE r3
  BY DEF Outcome
<1>4. CASE Len(c) = 3
  <2>0. c[2] \in PartSet /\ c[3] \in PartSet
    BY <1>1, <1>4
  <2>1. ASSUME NEW r, Sound(r), NEW part \in PartSet PROVE Sound(Then(r, part, cs))
    <3>1. r.fault = "none" => Sound(Perform(r.graph, part, cs))
      BY <2>1, PerformedIsGraph DEF Sound
    <3> QED
      BY <2>1, <3>1 DEF Then
  <2> HIDE DEF r1
  <2>2. Sound(r3)
    BY <1>2, <2>0, <2>1
  <2> QED
    BY <1>3, <1>4, <2>2
<1> QED
  BY <1>1, <1>2, <1>3, <1>4

LEMMA QNameIsName ==
  ASSUME NEW g, IsGraph(g), NEW i \in Live(g)
  PROVE  QName(g, i) \in QNames
BY DEF IsGraph, QName, QNames

LEMMA ViewIsView ==
  ASSUME NEW g, IsGraph(g)
  PROVE  View(g) \in Views
<1> DEFINE named(edges) == {<<QName(g, e[1]), QName(g, e[2])>> : e \in {x \in edges : {x[1], x[2]} \subseteq Live(g)}}
           entities == {<<QName(g, i), IF IsPackage(g, i) THEN None ELSE QName(g, Home(g, i))>> : i \in Live(g)}
<1>1. View(g) = [entities |-> entities, concrete |-> named(g.concrete), allowed |-> named(g.allowed)]
  BY DEF View
<1>2. \A edges : named(edges) \subseteq QNames \X QNames
  BY QNameIsName
<1>3. \A i \in Live(g) : IsPackage(g, i) \/ Home(g, i) \in Live(g)
  BY DEF IsGraph
<1>4. entities \subseteq QNames \X (QNames \cup {None})
  BY <1>3, QNameIsName
<1> HIDE DEF named, entities
<1> QED
  BY <1>1, <1>2, <1>4 DEF Views

\* What a push does to the stack and the views: the oldest is dropped (d = 1)
\* or nothing is.
LEMMA PushedSequences ==
  ASSUME TypeOK, NEW parts \in Commands, NEW g, IsGraph(g), Push(parts, g)
  PROVE  /\ stack' \in Seq(Commands) /\ views' \in Seq(Views)
         /\ Len(stack') \in 1..Limit /\ index' = Len(stack') /\ Len(views') = Len(stack') + 1
         /\ \E d \in {0, 1} :
              /\ Len(stack') = index + 1 - d
              /\ \A k \in 1..Len(stack') : stack'[k] = IF k + d <= index THEN stack[k + d] ELSE parts
              /\ \A k \in 1..Len(stack') + 1 :
                   views'[k] = IF k + d <= index + 1 THEN views[k + d] ELSE View(g)
<1> DEFINE p == SubSeq(stack, 1, index)
           s == Append(p, parts)
           w == SubSeq(views, 1, index + 1)
           v == Append(w, View(g))
<1>1. /\ stack \in Seq(Commands) /\ index \in Nat /\ index <= Len(stack) /\ Len(stack) <= Limit
      /\ Limit \in Nat \ {0}
      /\ views \in Seq(Views) /\ Len(views) = Len(stack) + 1 /\ Len(stack) \in Nat
  BY LimitAssumption DEF TypeOK
<1>2. p \in Seq(Commands) /\ Len(p) = index /\ \A k \in 1..index : p[k] = stack[k]
  BY <1>1
<1>3. w \in Seq(Views) /\ Len(w) = index + 1 /\ \A k \in 1..index + 1 : w[k] = views[k]
  BY <1>1
<1>4. View(g) \in Views
  BY ViewIsView
<1> HIDE DEF p, w
<1>5. s \in Seq(Commands) /\ Len(s) = index + 1
      /\ \A k \in 1..index + 1 : s[k] = IF k <= index THEN stack[k] ELSE parts
  BY <1>1, <1>2
<1>6. v \in Seq(Views) /\ Len(v) = index + 2
      /\ \A k \in 1..index + 2 : v[k] = IF k <= index + 1 THEN views[k] ELSE View(g)
  BY <1>1, <1>3, <1>4
<1>7. stack' = IF Len(s) > Limit THEN Tail(s) ELSE s
  BY DEF Push, Latest, Past, p
<1>8. views' = IF Len(v) > Limit + 1 THEN Tail(v) ELSE v
  BY DEF Push, Latest, w
<1>9. index' = Len(stack')
  BY DEF Push
<1> HIDE DEF s, v
<1>10. CASE index + 1 > Limit
  <2>1. stack' = Tail(s) /\ views' = Tail(v)
    BY <1>1, <1>5, <1>6, <1>7, <1>8, <1>10
  <2>2. stack' \in Seq(Commands) /\ Len(stack') = index /\ \A k \in 1..index : stack'[k] = s[k + 1]
    BY <2>1, <1>5, <1>1, <1>10
  <2>3. views' \in Seq(Views) /\ Len(views') = index + 1 /\ \A k \in 1..index + 1 : views'[k] = v[k + 1]
    BY <2>1, <1>6, <1>1, <1>10
  <2>4. \A k \in 1..index : stack'[k] = IF k + 1 <= index THEN stack[k + 1] ELSE parts
    BY <2>2, <1>5, <1>1
  <2>5. \A k \in 1..index + 1 : views'[k] = IF k + 1 <= index + 1 THEN views[k + 1] ELSE View(g)
    BY <2>3, <1>6, <1>1
  <2>6. index \in 1..Limit
    BY <1>1, <1>10
  <2>7. Len(stack') = index + 1 - 1 /\ Len(stack') + 1 = index + 1
    BY <2>2, <1>1
  <2> QED
    BY <2>2, <2>3, <2>4, <2>5, <2>6, <2>7, <1>9
<1>11. CASE index + 1 <= Limit
  <2>1. stack' = s /\ views' = v
    BY <1>1, <1>5, <1>6, <1>7, <1>8, <1>11
  <2>4. \A k \in 1..index + 1 : stack'[k] = IF k + 0 <= index THEN stack[k + 0] ELSE parts
    BY <2>1, <1>5, <1>1
  <2>5. \A k \in 1..index + 2 : views'[k] = IF k + 0 <= index + 1 THEN views[k + 0] ELSE View(g)
    BY <2>1, <1>6, <1>1
  <2>6. index + 1 \in 1..Limit
    BY <1>1, <1>11
  <2>7. /\ Len(stack') = index + 1 - 0 /\ Len(stack') = index + 1 /\ Len(stack') + 1 = index + 2
        /\ Len(views') = index + 2 /\ stack' \in Seq(Commands) /\ views' \in Seq(Views)
    BY <2>1, <1>1, <1>5, <1>6
  <2> QED
    BY <2>4, <2>5, <2>6, <2>7, <1>9
<1>12. index + 1 > Limit \/ index + 1 <= Limit
  BY <1>1
<1> QED
  BY <1>10, <1>11, <1>12, Zenon

\* The stack names finitely many addresses: there always is a new number.
PartAddresses(part) == IF part.op = "move" THEN {part.node, part.from, part.to} ELSE {}

LEMMA AddressesOfParts ==
  ASSUME NEW cs, NEW x
  PROVE  x \in Addresses(cs) <=>
           \E k \in DOMAIN cs : \E j \in DOMAIN cs[k] : x \in PartAddresses(cs[k][j])
BY DEF Addresses, Range, PartAddresses

LEMMA CommandHasFewAddresses ==
  ASSUME NEW c \in Commands
  PROVE  IsFiniteSet(Addresses(<<c>>))
<1> DEFINE one == PartAddresses(c[1])
           two == PartAddresses(c[2])
           three == PartAddresses(c[3])
<1>1. \A part : IsFiniteSet(PartAddresses(part))
  <2> TAKE part
  <2>1. IsFiniteSet({}) /\ IsFiniteSet({part.node}) /\ IsFiniteSet({part.from}) /\ IsFiniteSet({part.to})
    BY FS_EmptySet, FS_Singleton
  <2>2. IsFiniteSet({part.node} \cup {part.from})
    BY <2>1, FS_Union
  <2>3. IsFiniteSet({part.node} \cup {part.from} \cup {part.to})
    BY <2>1, <2>2, FS_Union
  <2>4. {part.node} \cup {part.from} \cup {part.to} = {part.node, part.from, part.to}
    OBVIOUS
  <2> QED
    BY <2>1, <2>3, <2>4 DEF PartAddresses
<1>2. IsFiniteSet(one) /\ IsFiniteSet(two) /\ IsFiniteSet(three)
  BY <1>1
<1>3. c \in Seq(PartSet) /\ Len(c) \in {1, 3}
  BY DEF Commands
<1>4. DOMAIN <<c>> = {1} /\ <<c>>[1] = c /\ DOMAIN c \subseteq {1, 2, 3}
  BY <1>3
<1>5. Addresses(<<c>>) \subseteq one \cup two \cup three
  <2> SUFFICES ASSUME NEW x \in Addresses(<<c>>) PROVE x \in one \cup two \cup three
    OBVIOUS
  <2>1. PICK k \in DOMAIN <<c>> : \E j \in DOMAIN <<c>>[k] : x \in PartAddresses(<<c>>[k][j])
    BY AddressesOfParts
  <2>2. PICK j \in DOMAIN c : x \in PartAddresses(c[j])
    BY <2>1, <1>4
  <2> QED
    BY <2>2, <1>4
<1> HIDE DEF one, two, three
<1>6. IsFiniteSet(one \cup two \cup three)
  BY <1>2, FS_Union
<1> QED
  BY <1>5, <1>6, FS_Subset

LEMMA PastHasFewAddresses ==
  ASSUME TypeOK, IsFiniteSet(Addresses(stack))
  PROVE  IsFiniteSet(Addresses(Past))
<1>1. stack \in Seq(Commands) /\ index \in Nat /\ index <= Len(stack)
  BY DEF TypeOK
<1>2. DOMAIN Past \subseteq DOMAIN stack /\ \A k \in DOMAIN Past : Past[k] = stack[k]
  BY <1>1 DEF Past
<1>3. Addresses(Past) \subseteq Addresses(stack)
  BY <1>2, AddressesOfParts
<1> QED
  BY <1>3, FS_Subset

\* The inductive invariant of the first theorem.
TypeInv == TypeOK /\ IsFiniteSet(Addresses(stack))

LEMMA PushIsTyped ==
  ASSUME TypeInv, NEW parts \in Commands, NEW g, IsGraph(g), Push(parts, g)
  PROVE  TypeInv'
<1>1. PICK d \in {0, 1} :
        /\ stack' \in Seq(Commands) /\ views' \in Seq(Views)
        /\ Len(stack') \in 1..Limit /\ index' = Len(stack') /\ Len(views') = Len(stack') + 1
        /\ Len(stack') = index + 1 - d
        /\ \A k \in 1..Len(stack') : stack'[k] = IF k + d <= index THEN stack[k + d] ELSE parts
  BY PushedSequences, Zenon DEF TypeInv
<1>2. /\ graph' = g /\ fault' = fault /\ replaced' = replaced /\ edits < MaxEdits /\ edits' = edits + 1
  BY DEF Push
<1>3. stack \in Seq(Commands) /\ index \in Nat /\ index <= Len(stack)
  BY DEF TypeInv, TypeOK
<1>4. Addresses(stack') \subseteq Addresses(stack) \cup Addresses(<<parts>>)
  <2> SUFFICES ASSUME NEW x \in Addresses(stack') PROVE x \in Addresses(stack) \cup Addresses(<<parts>>)
    OBVIOUS
  <2>1. PICK k \in DOMAIN stack' : \E j \in DOMAIN stack'[k] : x \in PartAddresses(stack'[k][j])
    BY AddressesOfParts
  <2>2. k \in 1..Len(stack')
    BY <1>1
  <2>3. CASE k + d <= index
    <3>1. stack'[k] = stack[k + d]
      BY <1>1, <2>2, <2>3
    <3>2. k + d \in 1..Len(stack)
      BY <1>1, <1>3, <2>2, <2>3
    <3>3. k + d \in DOMAIN stack
      BY <1>3, <3>2
    <3> QED
      BY <2>1, <3>1, <3>3, AddressesOfParts
  <2>4. CASE ~(k + d <= index)
    <3>1. stack'[k] = parts /\ DOMAIN <<parts>> = {1} /\ <<parts>>[1] = parts
      BY <1>1, <2>2, <2>4
    <3> QED
      BY <2>1, <3>1, AddressesOfParts
  <2> QED
    BY <2>3, <2>4
<1>5. IsFiniteSet(Addresses(stack'))
  BY <1>4, CommandHasFewAddresses, FS_Union, FS_Subset DEF TypeInv
<1>6. edits' \in 0..MaxEdits
  BY <1>2, BoundAssumption DEF TypeInv, TypeOK
<1>7. index' \in 0..Len(stack') /\ Len(stack') <= Limit
  BY <1>1, LimitAssumption
<1> QED
  BY <1>1, <1>2, <1>5, <1>6, <1>7 DEF TypeInv, TypeOK

LEMMA OnePartIsCommand ==
  ASSUME NEW part \in PartSet
  PROVE  <<part>> \in Commands
BY DEF Commands

LEMMA EdgeEffect ==
  ASSUME NEW g, IsGraph(g), NEW s, NEW t
  PROVE  /\ \A type \in {"concrete", "allowed"} :
              Connected(g, s, t, type).nodes = g.nodes /\ Disconnected(g, s, t, type).nodes = g.nodes
         /\ Connected(g, s, t, "concrete").concrete = g.concrete \cup {<<s, t>>}
         /\ Connected(g, s, t, "concrete").allowed = g.allowed
         /\ Disconnected(g, s, t, "concrete").concrete = g.concrete \ {<<s, t>>}
         /\ Disconnected(g, s, t, "concrete").allowed = g.allowed
         /\ Connected(g, s, t, "allowed").concrete = g.concrete
         /\ Connected(g, s, t, "allowed").allowed = g.allowed \cup {<<s, t>>}
         /\ Disconnected(g, s, t, "allowed").concrete = g.concrete
         /\ Disconnected(g, s, t, "allowed").allowed = g.allowed \ {<<s, t>>}
BY DEF Connected, Disconnected, IsGraph

LEMMA RenameEffect ==
  ASSUME NEW g, IsGraph(g), NEW i \in Live(g), NEW n
  PROVE  LET r == Renamed(g, i, n)
         IN  /\ Live(r) = Live(g) /\ r.concrete = g.concrete /\ r.allowed = g.allowed
             /\ \A x \in Live(g) : x # i => r.nodes[x] = g.nodes[x]
             /\ r.nodes[i].kind = g.nodes[i].kind /\ r.nodes[i].prefix = g.nodes[i].prefix
             /\ r.nodes[i].home = g.nodes[i].home /\ r.nodes[i].name = n
             /\ r.nodes[i].row = IF IsPackage(g, i) THEN n ELSE g.nodes[i].row
<1> DEFINE row == IF IsPackage(g, i) THEN n ELSE g.nodes[i].row
<1>1. g.nodes[i] \in Node
  BY DEF IsGraph, Node
<1>2. Renamed(g, i, n) = [g EXCEPT !.nodes[i] = [@ EXCEPT !.name = n, !.row = row]]
  BY DEF Renamed
<1>3. row = IF IsPackage(g, i) THEN n ELSE g.nodes[i].row
  OBVIOUS
<1> HIDE DEF row
<1> QED
  BY <1>1, <1>2, <1>3 DEF IsGraph, Node

LEMMA MoveEffect ==
  ASSUME NEW g, IsGraph(g), NEW i \in Live(g), NEW p, NEW n
  PROVE  LET m == Moved(g, i, p, n)
         IN  /\ Live(m) = Live(g) /\ m.concrete = g.concrete /\ m.allowed = g.allowed
             /\ \A x \in Live(g) : x # i => m.nodes[x] = g.nodes[x]
             /\ m.nodes[i].kind = g.nodes[i].kind /\ m.nodes[i].prefix = g.nodes[i].prefix
             /\ m.nodes[i].home = p /\ m.nodes[i].name = n /\ m.nodes[i].row = g.nodes[i].row
<1>1. g.nodes[i] \in Node
  BY DEF IsGraph, Node
<1> QED
  BY <1>1 DEF Moved, IsGraph, Node

\* Every edit is the push of a command, with a graph as its outcome.
Pushes == \E parts \in Commands : \E g : IsGraph(g) /\ Push(parts, g)

LEMMA AddPushes ==
  ASSUME TypeInv, NEW q \in QNames, NEW home \in QNames \cup {None},
         q.kind = "package" <=> home = None, Add(q, home)
  PROVE  Pushes
<1> DEFINE part == [op |-> "add", entity |-> q, home |-> home]
           end == AddEntity(graph, part, Past)
<1>1. part \in PartSet
  BY DEF PartSet
<1>2. Perform(graph, part, Past) = end
  BY DEF Perform
<1>3. IsGraph(end.graph)
  BY <1>1, <1>2, PerformedIsGraph, PastHasFewAddresses DEF Sound, TypeInv, TypeOK
<1>4. Push(<<part>>, end.graph)
  BY DEF Add
<1> QED
  BY <1>1, <1>3, <1>4, OnePartIsCommand DEF Pushes

LEMMA EdgeIsPart ==
  ASSUME IsGraph(graph), NEW s \in Live(graph), NEW t \in Live(graph),
         NEW type \in {"concrete", "allowed"}, NEW op \in {"connect", "disconnect"}
  PROVE  Edge(op, s, t, type) \in PartSet
BY QNameIsName DEF PartSet, Edge

LEMMA EditPushes ==
  ASSUME TypeInv, Edit
  PROVE  Pushes
<1>0. IsGraph(graph)
  BY DEF TypeInv, TypeOK
<1>1. ASSUME NEW name \in Names, addPackage(name) PROVE Pushes
  <2> DEFINE q == [kind |-> "package", prefix |-> None, name |-> name]
  <2>1. q \in QNames /\ q.kind = "package"
    BY DEF QNames, Kinds
  <2>2. Add(q, None)
    BY <1>1 DEF addPackage
  <2> QED
    BY <2>1, <2>2, AddPushes
<1>2. ASSUME NEW name \in Names, NEW p \in Live(graph), addComponent(name, p) PROVE Pushes
  <2> DEFINE q == [kind |-> "component", prefix |-> graph.nodes[p].name, name |-> name]
  <2>1. q \in QNames /\ q.kind # "package" /\ QName(graph, p) \in QNames
    BY <1>0, QNameIsName DEF QNames, Kinds, IsGraph
  <2>2. Add(q, QName(graph, p))
    BY <1>2 DEF addComponent
  <2>3. QName(graph, p) # None
    BY <2>1, NoneAssumption
  <2> QED
    BY <2>1, <2>2, <2>3, AddPushes
<1>3. ASSUME NEW i \in Live(graph), removeEntity(i) PROVE Pushes
  <2> DEFINE part == [op |-> "remove", entity |-> QName(graph, i),
                      home |-> IF IsPackage(graph, i) THEN None ELSE QName(graph, Home(graph, i))]
  <2>1. QName(graph, i) \in QNames /\ QName(graph, i).kind = graph.nodes[i].kind
    BY <1>0, QNameIsName DEF QName
  <2>2. ~IsPackage(graph, i) => QName(graph, Home(graph, i)) \in QNames /\ QName(graph, Home(graph, i)) # None
    BY <1>0, QNameIsName, NoneAssumption DEF IsGraph
  <2>3. part \in PartSet
    BY <2>1, <2>2 DEF PartSet
  <2>4. IsGraph(Removed(graph, i))
    BY <1>0, <1>3, GraphRemoved DEF removeEntity
  <2>5. Push(<<part>>, Removed(graph, i))
    BY <1>3 DEF removeEntity
  <2> QED
    BY <2>3, <2>4, <2>5, OnePartIsCommand DEF Pushes
<1>4. ASSUME NEW s \in Live(graph), NEW t \in Live(graph), addDependency(s, t) PROVE Pushes
  <2>1. Push(<<Edge("connect", s, t, "concrete")>>, Connected(graph, s, t, "concrete"))
    BY <1>4 DEF addDependency
  <2> QED
    BY <1>0, <2>1, EdgeIsPart, GraphConnected, OnePartIsCommand DEF Pushes
<1>5. ASSUME NEW s \in Live(graph), NEW t \in Live(graph), addDependencyOfParents(s, t) PROVE Pushes
  <2> DEFINE p == Home(graph, s)
             q == Home(graph, t)
             c == <<Edge("connect", p, q, "allowed"), Edge("connect", s, t, "concrete"),
                    Edge("connect", p, q, "concrete")>>
             g1 == Connected(graph, p, q, "allowed")
             g2 == Connected(g1, s, t, "concrete")
             g3 == Connected(g2, p, q, "concrete")
  <2>1. p \in Live(graph) /\ q \in Live(graph)
    BY <1>0, <1>5 DEF addDependencyOfParents, IsGraph
  <2>2. Push(c, g3)
    BY <1>5 DEF addDependencyOfParents
  <2>3. c \in Seq(PartSet) /\ Len(c) = 3
    BY <1>0, <2>1, EdgeIsPart
  <2>4. IsGraph(g1) /\ Live(g1) = Live(graph)
    BY <1>0, <2>1, GraphConnected, EdgeEffect
  <2> HIDE DEF g1
  <2>5. IsGraph(g2) /\ Live(g2) = Live(graph)
    BY <2>4, GraphConnected, EdgeEffect
  <2> HIDE DEF g2
  <2>6. IsGraph(g3)
    BY <2>1, <2>5, GraphConnected
  <2> HIDE DEF g3, c
  <2> QED
    BY <2>2, <2>3, <2>6 DEF Pushes, Commands
<1>6. ASSUME NEW s \in Live(graph), NEW t \in Live(graph), removeDependency(s, t) PROVE Pushes
  <2>1. Push(<<Edge("disconnect", s, t, "concrete")>>, Disconnected(graph, s, t, "concrete"))
    BY <1>6 DEF removeDependency
  <2> QED
    BY <1>0, <2>1, EdgeIsPart, GraphConnected, OnePartIsCommand DEF Pushes
<1>7. ASSUME NEW i \in Live(graph), NEW name \in Names, rename(i, name) PROVE Pushes
  <2> DEFINE g == Renamed(graph, i, name)
             part == [op |-> "rename", was |-> QName(graph, i), now |-> QName(g, i)]
  <2>1. IsGraph(g) /\ i \in Live(g)
    BY <1>0, GraphMoved, RenameEffect
  <2>2. Push(<<part>>, g)
    BY <1>7 DEF rename
  <2>3. part \in PartSet
    BY <1>0, <2>1, QNameIsName DEF PartSet
  <2> HIDE DEF g
  <2> QED
    BY <2>1, <2>2, <2>3, OnePartIsCommand DEF Pushes
<1>8. ASSUME NEW c \in Live(graph), NEW p \in Live(graph), NEW name \in Names, reparent(c, p, name) PROVE Pushes
  <2> DEFINE g == Moved(graph, c, p, name)
             part == [op |-> "move", node |-> c, from |-> Home(graph, c), to |-> p,
                      was |-> graph.nodes[c].name, now |-> name]
  <2>1. IsGraph(g)
    BY <1>0, GraphMoved
  <2>2. Push(<<part>>, g)
    BY <1>8 DEF reparent
  <2>3. part \in PartSet
    BY <1>0, <1>8 DEF PartSet, IsGraph, reparent
  <2> HIDE DEF g
  <2> QED
    BY <2>1, <2>2, <2>3, OnePartIsCommand DEF Pushes
<1> QED
  BY <1>1, <1>2, <1>3, <1>4, <1>5, <1>6, <1>7, <1>8 DEF Edit

LEMMA TypeInvariant == Spec => []TypeInv
<1>1. Init => TypeInv
  <2> SUFFICES ASSUME Init PROVE TypeInv
    OBVIOUS
  <2>1. Addresses(<<>>) = {}
    BY AddressesOfParts
  <2>2. View(graph) \in Views /\ IsGraph(graph)
    BY ViewIsView, ProjectsAssumption DEF Init
  <2>3. stack = <<>> /\ index = 0 /\ fault = "none" /\ views = <<View(graph)>> /\ edits = 0 /\ replaced = FALSE
    BY DEF Init
  <2>4. stack \in Seq(Commands) /\ Len(stack) = 0 /\ views \in Seq(Views) /\ Len(views) = 1
    BY <2>2, <2>3
  <2>5. IsFiniteSet(Addresses(stack))
    BY <2>1, <2>3, FS_EmptySet
  <2>6. replaced \in BOOLEAN /\ fault \in {"none", "null", "freed", "refused"}
    BY <2>3
  <2>7. Len(stack) <= Limit /\ index \in 0..Len(stack) /\ edits \in 0..MaxEdits /\ Len(views) = Len(stack) + 1
    BY <2>3, <2>4, LimitAssumption, BoundAssumption
  <2> QED
    BY <2>2, <2>4, <2>5, <2>6, <2>7 DEF TypeInv, TypeOK
<1>2. TypeInv /\ [Next]_vars => TypeInv'
  <2> SUFFICES ASSUME TypeInv, [Next]_vars PROVE TypeInv'
    OBVIOUS
  <2>0. /\ stack \in Seq(Commands) /\ index \in 0..Len(stack) /\ IsGraph(graph) /\ Len(stack) \in Nat
        /\ IsFiniteSet(Addresses(stack))
    BY DEF TypeInv, TypeOK
  <2>1. ASSUME NEW c \in Commands, Run(c), UNCHANGED <<stack, views, edits, replaced>>, index' \in 0..Len(stack)
        PROVE  TypeInv'
    <3>1. IsGraph(graph') /\ fault' \in Faults
      BY <2>0, <2>1, OutcomeIsGraph DEF Run, Sound
    <3> QED
      BY <2>1, <3>1 DEF TypeInv, TypeOK, Faults
  <2>2. CASE undo
    <3>1. stack[index] \in Commands /\ index - 1 \in 0..Len(stack)
      BY <2>0, <2>2 DEF undo
    <3> QED
      BY <2>1, <2>2, <3>1, UndoneIsCommand DEF undo
  <2>3. CASE redo
    <3>1. stack[index + 1] \in Commands /\ index + 1 \in 0..Len(stack)
      BY <2>0, <2>3 DEF redo
    <3> QED
      BY <2>1, <2>3, <3>1 DEF redo
  <2>4. CASE Edit
    BY <2>4, EditPushes, PushIsTyped DEF Pushes
  <2>5. CASE ParseFinished
    BY <2>5, ProjectsAssumption DEF ParseFinished, TypeInv, TypeOK
  <2>6. ASSUME NEW g, IsGraph(g), OpenProject(g) PROVE TypeInv'
    <3>1. Addresses(<<>>) = {} /\ View(g) \in Views
      BY <2>6, AddressesOfParts, ViewIsView
    <3>2. /\ stack' = <<>> /\ index' = 0 /\ fault' = fault /\ views' = <<View(g)>> /\ edits' = edits
          /\ replaced' = FALSE /\ graph' = g
      BY <2>6 DEF OpenProject
    <3>3. stack' \in Seq(Commands) /\ Len(stack') = 0 /\ views' \in Seq(Views) /\ Len(views') = 1
      BY <3>1, <3>2
    <3>4. IsFiniteSet(Addresses(stack'))
      BY <3>1, <3>2, FS_EmptySet
    <3>5. replaced' \in BOOLEAN /\ fault' \in {"none", "null", "freed", "refused"}
      BY <3>2 DEF TypeInv, TypeOK
    <3>6. Len(stack') <= Limit /\ index' \in 0..Len(stack') /\ edits' \in 0..MaxEdits /\ Len(views') = Len(stack') + 1
      BY <3>2, <3>3, LimitAssumption DEF TypeInv, TypeOK
    <3>7. IsGraph(graph')
      BY <2>6, <3>2
    <3> QED
      BY <3>3, <3>4, <3>5, <3>6, <3>7 DEF TypeInv, TypeOK
  <2>7. CASE UNCHANGED vars
    BY <2>7 DEF vars, TypeInv, TypeOK
  <2> QED
    BY <2>0, <2>2, <2>3, <2>4, <2>5, <2>6, <2>7, ProjectsAssumption, GraphLoaded DEF Next
<1> QED
  BY <1>1, <1>2, PTL DEF Spec

(***************************************************************************)
(* However carelessly the user edits, undoes and redoes: the graph is one  *)
(* that a database can hold - every component has a home - the stack is    *)
(* within its limit, and there is a view for each of its indices.          *)
(***************************************************************************)
THEOREM TypeCorrect == Spec => []TypeOK
<1>1. TypeInv => TypeOK
  BY DEF TypeInv
<1> QED
  BY <1>1, TypeInvariant, PTL

----------------------------------------------------------------------------
(* The graph of the database and its copy with numbers that do not change. *)

\* at[x] is the node of the database that stands for x.
Iso(g, a, at) ==
  /\ at \in [Live(a) -> Live(g)]
  /\ \A x, y \in Live(a) : at[x] = at[y] => x = y
  /\ \A i \in Live(g) : \E x \in Live(a) : at[x] = i
  /\ \A x \in Live(a) :
       /\ QName(g, at[x]) = QName(a, x) /\ RowName(g, at[x]) = RowName(a, x)
       /\ Home(g, at[x]) = IF IsPackage(a, x) THEN None ELSE at[Home(a, x)]
  /\ \A x, y \in Live(a) :
       /\ <<x, y>> \in a.concrete <=> <<at[x], at[y]>> \in g.concrete
       /\ <<x, y>> \in a.allowed <=> <<at[x], at[y]>> \in g.allowed

\* No dependency has lost its end.
Proper(g) ==
  /\ IsGraph(g)
  /\ g.concrete \subseteq Live(g) \X Live(g) /\ g.allowed \subseteq Live(g) \X Live(g)

\* What a careful user's graph is: WellKept, as the history has it.
Tidy(a) ==
  /\ IsGraph(a)
  /\ \A x, y \in Live(a) : x # y => NamesOf(a, x) \cap NamesOf(a, y) = {}
  /\ \A x \in Live(a) : IsPackage(a, x) => a.nodes[x].row = a.nodes[x].name
  /\ \A x \in Live(a) :
       IF IsPackage(a, x) THEN Home(a, x) = None
       ELSE Home(a, x) \in Live(a) /\ IsPackage(a, Home(a, x))
  /\ a.concrete \subseteq Live(a) \X Live(a) /\ a.allowed \subseteq Live(a) \X Live(a)
  /\ \A x, y \in Live(a) :
       <<x, y>> \in a.concrete \cup a.allowed => x # y /\ (IsPackage(a, x) <=> IsPackage(a, y))

\* A name leads to the same entity in both, and both look the same.
LEMMA IsoNames ==
  ASSUME NEW g, NEW a, NEW at, Iso(g, a, at), NEW x \in Live(a)
  PROVE  /\ at[x] \in Live(g) /\ QName(g, at[x]) = QName(a, x) /\ RowName(g, at[x]) = RowName(a, x)
         /\ NamesOf(g, at[x]) = NamesOf(a, x)
         /\ g.nodes[at[x]].kind = a.nodes[x].kind /\ g.nodes[at[x]].prefix = a.nodes[x].prefix
         /\ g.nodes[at[x]].name = a.nodes[x].name /\ g.nodes[at[x]].row = a.nodes[x].row
         /\ IsPackage(g, at[x]) <=> IsPackage(a, x)
         /\ Home(g, at[x]) = IF IsPackage(a, x) THEN None ELSE at[Home(a, x)]
BY DEF Iso, QName, RowName, NamesOf

LEMMA IsoFinds ==
  ASSUME NEW g, NEW a, NEW at, Iso(g, a, at), Tidy(a), NEW x \in Live(a)
  PROVE  /\ Named(g, QName(a, x)) = {at[x]} /\ ~Absent(g, QName(a, x))
         /\ Find(g, QName(a, x)) = at[x]
<1>1. \A i \in Named(g, QName(a, x)) : i = at[x]
  <2> TAKE i \in Named(g, QName(a, x))
  <2>1. PICK y \in Live(a) : at[y] = i
    BY DEF Iso, Named
  <2>2. QName(a, y) = QName(a, x)
    BY <2>1, IsoNames DEF Named
  <2> QED
    BY <2>1, <2>2 DEF Tidy, NamesOf
<1>2. at[x] \in Named(g, QName(a, x))
  BY IsoNames DEF Named
<1>3. Named(g, QName(a, x)) = {at[x]}
  BY <1>1, <1>2
<1> QED
  BY <1>3 DEF Absent, Find, Found

LEMMA IsoMisses ==
  ASSUME NEW g, NEW a, NEW at, Iso(g, a, at), NEW q, \A x \in Live(a) : q \notin NamesOf(a, x)
  PROVE  Absent(g, q)
BY IsoNames DEF Iso, Absent, Found, Named, Rowed, NamesOf

LEMMA IsoView ==
  ASSUME NEW g, NEW a, NEW at, Iso(g, a, at), Proper(g), Tidy(a)
  PROVE  View(g) = View(a)
<1> DEFINE named(h, edges) == {<<QName(h, e[1]), QName(h, e[2])>> : e \in {x \in edges : {x[1], x[2]} \subseteq Live(h)}}
           pair(h, i) == <<QName(h, i), IF IsPackage(h, i) THEN None ELSE QName(h, Home(h, i))>>
           entities(h) == {pair(h, i) : i \in Live(h)}
<1>1. \A h : View(h) = [entities |-> entities(h), concrete |-> named(h, h.concrete), allowed |-> named(h, h.allowed)]
  BY DEF View
<1>2. \A x \in Live(a) : pair(g, at[x]) = pair(a, x)
  <2> TAKE x \in Live(a)
  <2>1. ~IsPackage(a, x) => QName(g, at[Home(a, x)]) = QName(a, Home(a, x))
    BY IsoNames DEF Tidy
  <2> QED
    BY <2>1, IsoNames
<1>3. entities(g) = entities(a)
  <2> HIDE DEF pair
  <2>1. \A v : v \in entities(g) <=> v \in entities(a)
    BY <1>2 DEF Iso
  <2> QED
    BY <2>1
<1>4. ASSUME NEW edges, edges \subseteq Nat \X Nat, NEW those, those \subseteq Live(a) \X Live(a),
             \A x, y \in Live(a) : <<x, y>> \in those <=> <<at[x], at[y]>> \in edges
      PROVE  named(g, edges) = named(a, those)
  <2>1. ASSUME NEW v \in named(g, edges) PROVE v \in named(a, those)
    <3>1. PICK e \in edges : {e[1], e[2]} \subseteq Live(g) /\ v = <<QName(g, e[1]), QName(g, e[2])>>
      BY <2>1
    <3>2. e = <<e[1], e[2]>>
      BY <1>4
    <3>3. PICK x, y \in Live(a) : at[x] = e[1] /\ at[y] = e[2]
      BY <3>1 DEF Iso
    <3>4. <<x, y>> \in those /\ v = <<QName(a, x), QName(a, y)>>
      BY <1>4, <3>1, <3>2, <3>3, IsoNames
    <3> QED
      BY <3>4
  <2>2. ASSUME NEW v \in named(a, those) PROVE v \in named(g, edges)
    <3>1. PICK e \in those : v = <<QName(a, e[1]), QName(a, e[2])>>
      BY <2>2
    <3>2. e = <<e[1], e[2]>> /\ e[1] \in Live(a) /\ e[2] \in Live(a)
      BY <1>4
    <3>3. <<at[e[1]], at[e[2]]>> \in edges /\ v = <<QName(g, at[e[1]]), QName(g, at[e[2]])>>
          /\ at[e[1]] \in Live(g) /\ at[e[2]] \in Live(g)
      BY <1>4, <3>1, <3>2, IsoNames
    <3> QED
      BY <3>3
  <2> HIDE DEF named
  <2> QED
    BY <2>1, <2>2
<1>5. named(g, g.concrete) = named(a, a.concrete)
  <2> HIDE DEF named
  <2> QED
    BY <1>4 DEF Proper, IsGraph, Tidy, Iso
<1>6. named(g, g.allowed) = named(a, a.allowed)
  <2> HIDE DEF named
  <2> QED
    BY <1>4 DEF Proper, IsGraph, Tidy, Iso
<1> HIDE DEF named, entities
<1> QED
  BY <1>1, <1>3, <1>5, <1>6

----------------------------------------------------------------------------
(* One step of a command: b is what the step makes of a.  The lemmas say   *)
(* that the database takes the same step, and is then a copy of b.         *)

AddsNode(a, b, i, q, h) ==
  /\ i \notin Live(a) /\ Live(b) = Live(a) \cup {i}
  /\ \A x \in Live(a) : b.nodes[x] = a.nodes[x]
  /\ QName(b, i) = q /\ RowName(b, i) = q
  /\ q.kind = "package" <=> h = None
  /\ h # None => Home(b, i) \in Live(a) /\ QName(a, Home(b, i)) = h
  /\ b.concrete = a.concrete /\ b.allowed = a.allowed

AddsEdge(a, b, s, t, type) ==
  /\ s \in Live(a) /\ t \in Live(a) /\ s # t
  /\ Supported(a, s, t)
  /\ b.nodes = a.nodes
  /\ IF type = "concrete"
     THEN <<s, t>> \notin a.concrete /\ b.concrete = a.concrete \cup {<<s, t>>} /\ b.allowed = a.allowed
     ELSE <<s, t>> \notin a.allowed /\ b.allowed = a.allowed \cup {<<s, t>>} /\ b.concrete = a.concrete

ChangesNode(a, b, i) ==
  /\ i \in Live(a) /\ Live(b) = Live(a)
  /\ \A x \in Live(a) : x # i => b.nodes[x] = a.nodes[x]
  /\ b.nodes[i].kind = a.nodes[i].kind /\ b.nodes[i].prefix = a.nodes[i].prefix
  /\ IF IsPackage(a, i) THEN \A g \in {a, b} : g.nodes[i].row = g.nodes[i].name
                        ELSE b.nodes[i].row = a.nodes[i].row
  /\ b.concrete = a.concrete /\ b.allowed = a.allowed

\* h is a copy of b, and what a and b have in common has kept its place.
Becomes(h, b, a, at) ==
  /\ Proper(h)
  /\ \E to : Iso(h, b, to) /\ \A x \in Live(a) \cap Live(b) : to[x] = at[x]

LEMMA SameNodeSameName ==
  ASSUME NEW a, NEW b, NEW x, b.nodes[x] = a.nodes[x]
  PROVE  /\ QName(b, x) = QName(a, x) /\ RowName(b, x) = RowName(a, x) /\ NamesOf(b, x) = NamesOf(a, x)
         /\ (IsPackage(b, x) <=> IsPackage(a, x)) /\ Home(b, x) = Home(a, x)
BY DEF QName, RowName, NamesOf

LEMMA AddedBecomes ==
  ASSUME NEW g, NEW a, NEW b, NEW at, Proper(g), Iso(g, a, at), Tidy(a), Tidy(b),
         NEW i, NEW q \in QNames, NEW h, AddsNode(a, b, i, q, h),
         NEW n \in Nat, n \notin Live(g)
  PROVE  Becomes(Added(g, n, q, IF h = None THEN None ELSE at[Home(b, i)]), b, a, at)
<1> DEFINE p == IF h = None THEN None ELSE at[Home(b, i)]
           k == Added(g, n, q, p)
           to == [x \in Live(b) |-> IF x = i THEN n ELSE at[x]]
<1>1. p \in Nat \cup {None} /\ (q.kind = "package" \/ p \in Live(g))
  BY IsoNames DEF AddsNode, Proper, IsGraph
<1>2. /\ Live(k) = Live(g) \cup {n} /\ k.concrete = g.concrete /\ k.allowed = g.allowed
      /\ \A x \in Live(g) : k.nodes[x] = g.nodes[x]
      /\ QName(k, n) = q /\ RowName(k, n) = q /\ Home(k, n) = p
  BY DEF Added, Proper, IsGraph, QName, RowName, QNames
<1>3. IsGraph(k)
  BY <1>1, GraphAdded DEF Proper
<1> HIDE DEF k
<1>4. Proper(k)
  BY <1>2, <1>3 DEF Proper
<1>5. /\ to \in [Live(b) -> Live(k)] /\ to[i] = n /\ i \in Live(b)
      /\ \A x \in Live(a) : to[x] = at[x] /\ x \in Live(b) /\ x # i /\ at[x] \in Live(g) /\ at[x] # n
  BY <1>2 DEF AddsNode, Iso
<1>6. \A x \in Live(b) : x = i \/ x \in Live(a)
  BY DEF AddsNode
<1> HIDE DEF to
<1>7. \A x, y \in Live(b) : to[x] = to[y] => x = y
  BY <1>5, <1>6 DEF Iso
<1>8. \A j \in Live(k) : \E x \in Live(b) : to[x] = j
  BY <1>2, <1>5 DEF Iso
<1>9. ASSUME NEW x \in Live(b)
      PROVE  QName(k, to[x]) = QName(b, x) /\ RowName(k, to[x]) = RowName(b, x)
             /\ Home(k, to[x]) = IF IsPackage(b, x) THEN None ELSE to[Home(b, x)]
  <2>1. CASE x = i
    <3>1. QName(k, to[x]) = QName(b, x) /\ RowName(k, to[x]) = RowName(b, x) /\ Home(k, to[x]) = p
      BY <1>2, <1>5, <2>1 DEF AddsNode
    <3>2. b.nodes[i].kind = q.kind
      BY DEF AddsNode, QName
    <3>3. h # None => to[Home(b, i)] = at[Home(b, i)]
      BY <1>5 DEF AddsNode
    <3> QED
      BY <2>1, <3>1, <3>2, <3>3 DEF AddsNode
  <2>2. CASE x \in Live(a)
    <3>1. QName(k, at[x]) = QName(g, at[x]) /\ RowName(k, at[x]) = RowName(g, at[x])
          /\ Home(k, at[x]) = Home(g, at[x])
      BY <1>2, <1>5, <2>2, SameNodeSameName
    <3>2. QName(b, x) = QName(a, x) /\ RowName(b, x) = RowName(a, x)
          /\ (IsPackage(b, x) <=> IsPackage(a, x)) /\ Home(b, x) = Home(a, x)
      BY <2>2, SameNodeSameName DEF AddsNode
    <3>3. ~IsPackage(a, x) => to[Home(a, x)] = at[Home(a, x)]
      BY <1>5, <2>2 DEF Tidy
    <3> QED
      BY <1>5, <2>2, <3>1, <3>2, <3>3, IsoNames
  <2> QED
    BY <1>6, <2>1, <2>2
<1>10. ASSUME NEW x \in Live(b), NEW y \in Live(b)
       PROVE  /\ <<x, y>> \in b.concrete <=> <<to[x], to[y]>> \in k.concrete
              /\ <<x, y>> \in b.allowed <=> <<to[x], to[y]>> \in k.allowed
  <2>0. b.concrete = a.concrete /\ b.allowed = a.allowed /\ i \notin Live(a)
    BY DEF AddsNode
  <2>1. CASE x \in Live(a) /\ y \in Live(a)
    BY <2>0, <2>1, <1>2, <1>5 DEF Iso
  <2>2. CASE x = i \/ y = i
    <3>1. <<x, y>> \notin b.concrete /\ <<x, y>> \notin b.allowed
      BY <2>0, <2>2 DEF Tidy
    <3>2. n \notin Live(g) /\ (to[x] = n \/ to[y] = n)
      BY <2>2, <1>5
    <3>3. <<to[x], to[y]>> \notin k.concrete /\ <<to[x], to[y]>> \notin k.allowed
      BY <3>2, <1>2 DEF Proper
    <3> QED
      BY <3>1, <3>3
  <2> QED
    BY <1>6, <2>1, <2>2
<1>11. Iso(k, b, to)
  BY <1>5, <1>7, <1>8, <1>9, <1>10 DEF Iso
<1>12. Becomes(k, b, a, at)
  BY <1>4, <1>5, <1>11 DEF Becomes
<1> QED
  BY <1>12 DEF k

LEMMA RemovedBecomes ==
  ASSUME NEW g, NEW a, NEW b, NEW at, Proper(g), Iso(g, a, at), Tidy(a), Tidy(b),
         NEW i, NEW q, NEW h, AddsNode(b, a, i, q, h)
  PROVE  Removable(g, at[i]) /\ Becomes(Removed(g, at[i]), b, a, at)
<1> DEFINE n == at[i]
           k == Removed(g, n)
           to == [x \in Live(b) |-> at[x]]
<1>0. i \in Live(a) /\ n \in Live(g) /\ i \notin Live(b) /\ \A x \in Live(b) : x \in Live(a) /\ at[x] # n
  BY IsoNames DEF AddsNode, Iso
<1>1. ASSUME NEW e \in g.concrete \cup g.allowed PROVE e \in (Live(g) \ {n}) \X (Live(g) \ {n})
  <2>1. e = <<e[1], e[2]>> /\ e[1] \in Live(g) /\ e[2] \in Live(g)
    BY DEF Proper
  <2>2. PICK x, y \in Live(a) : at[x] = e[1] /\ at[y] = e[2]
    BY <2>1 DEF Iso
  <2>3. <<x, y>> \in a.concrete \cup a.allowed
    BY <2>1, <2>2 DEF Iso
  <2>4. x # i /\ y # i
    BY <2>3, <1>0 DEF AddsNode, Tidy
  <2>5. e[1] # n /\ e[2] # n
    BY <2>2, <2>4, <1>0 DEF Iso
  <2> QED
    BY <2>1, <2>5
<1>2. Removable(g, n)
  <2>1. ASSUME NEW j \in Live(g), Home(g, j) = n PROVE FALSE
    <3>1. PICK x \in Live(a) : at[x] = j
      BY DEF Iso
    <3>2. n # None
      BY <1>0, NoneAssumption DEF Proper, IsGraph
    <3>3. ~IsPackage(a, x) /\ at[Home(a, x)] = n
      BY <3>1, <3>2, <2>1, IsoNames
    <3>4. Home(a, x) = i /\ x # i
      BY <3>3, <1>0 DEF Iso, Tidy
    <3>5. x \in Live(b) /\ b.nodes[x] = a.nodes[x]
      BY <3>4 DEF AddsNode
    <3> QED
      BY <3>3, <3>4, <3>5, <1>0, SameNodeSameName DEF Tidy
  <2>2. ASSUME NEW e \in g.concrete \cup g.allowed PROVE n \notin {e[1], e[2]}
    BY <1>1
  <2> QED
    BY <2>1, <2>2 DEF Removable
<1>3. /\ Live(k) = Live(g) \ {n} /\ k.concrete = g.concrete /\ k.allowed = g.allowed
      /\ \A x \in Live(k) : k.nodes[x] = g.nodes[x]
  BY DEF Removed, Proper, IsGraph
<1>4. IsGraph(k)
  BY <1>0, <1>2, GraphRemoved DEF Proper
<1> HIDE DEF k
<1>5. Proper(k)
  BY <1>3, <1>4, <1>1 DEF Proper
<1>6. /\ to \in [Live(b) -> Live(k)]
      /\ \A x \in Live(b) : to[x] = at[x] /\ x \in Live(a) /\ at[x] \in Live(k)
  BY <1>0, <1>3 DEF Iso
<1> HIDE DEF to
<1>7. \A j \in Live(k) : \E x \in Live(b) : to[x] = j
  <2> TAKE j \in Live(k)
  <2>1. PICK x \in Live(a) : at[x] = j
    BY <1>3 DEF Iso
  <2>2. x # i
    BY <2>1, <1>3
  <2> QED
    BY <2>1, <2>2, <1>6 DEF AddsNode
<1>8. ASSUME NEW x \in Live(b)
      PROVE  QName(k, to[x]) = QName(b, x) /\ RowName(k, to[x]) = RowName(b, x)
             /\ Home(k, to[x]) = IF IsPackage(b, x) THEN None ELSE to[Home(b, x)]
  <2>1. QName(k, at[x]) = QName(g, at[x]) /\ RowName(k, at[x]) = RowName(g, at[x])
        /\ Home(k, at[x]) = Home(g, at[x])
    BY <1>3, <1>6, SameNodeSameName
  <2>2. QName(b, x) = QName(a, x) /\ RowName(b, x) = RowName(a, x)
        /\ (IsPackage(b, x) <=> IsPackage(a, x)) /\ Home(b, x) = Home(a, x)
    BY SameNodeSameName DEF AddsNode
  <2>3. ~IsPackage(b, x) => to[Home(b, x)] = at[Home(b, x)]
    BY <1>6 DEF Tidy
  <2> QED
    BY <1>6, <2>1, <2>2, <2>3, IsoNames
<1>9. \A x, y \in Live(b) : to[x] = to[y] => x = y
  BY <1>6 DEF Iso
<1>10. \A x, y \in Live(b) :
        /\ <<x, y>> \in b.concrete <=> <<to[x], to[y]>> \in k.concrete
        /\ <<x, y>> \in b.allowed <=> <<to[x], to[y]>> \in k.allowed
  BY <1>3, <1>6 DEF Iso, AddsNode
<1>11. Iso(k, b, to)
  BY <1>6, <1>7, <1>8, <1>9, <1>10 DEF Iso
<1>12. Becomes(k, b, a, at)
  BY <1>5, <1>6, <1>11 DEF Becomes
<1> QED
  BY <1>2, <1>12 DEF k

\* What a dependency needs is there in both, or in neither.
LEMMA IsoHasProvider ==
  ASSUME NEW g, NEW a, NEW at, Iso(g, a, at), NEW s \in Live(a), NEW t \in Live(a)
  PROVE  HasProvider(g, at[s], at[t]) <=> HasProvider(a, s, t)
BY DEF Iso, HasProvider

LEMMA IsoSupported ==
  ASSUME NEW g, NEW a, NEW at, Iso(g, a, at), Tidy(a), NEW s \in Live(a), NEW t \in Live(a),
         IsPackage(a, s) <=> IsPackage(a, t)
  PROVE  Supported(g, at[s], at[t]) <=> Supported(a, s, t)
<1>1. CASE IsPackage(a, s)
  BY <1>1, IsoNames DEF Supported
<1>2. CASE ~IsPackage(a, s)
  <2>1. Home(a, s) \in Live(a) /\ Home(a, t) \in Live(a)
    BY <1>2 DEF Tidy
  <2>2. /\ Home(g, at[s]) = at[Home(a, s)] /\ Home(g, at[t]) = at[Home(a, t)]
        /\ ~IsPackage(g, at[s])
    BY <1>2, IsoNames
  <2>3. Home(g, at[s]) = Home(g, at[t]) <=> Home(a, s) = Home(a, t)
    BY <2>1, <2>2 DEF Iso
  <2>4. HasProvider(g, Home(g, at[s]), Home(g, at[t])) <=> HasProvider(a, Home(a, s), Home(a, t))
    BY <2>1, <2>2, IsoHasProvider
  <2> QED
    BY <1>2, <2>2, <2>3, <2>4 DEF Supported
<1> QED
  BY <1>1, <1>2

\* A step that leaves the numbers alone.
LEMMA SameNumbersBecome ==
  ASSUME NEW g, NEW a, NEW b, NEW at, NEW k, Iso(g, a, at), Proper(k),
         Live(k) = Live(g), Live(b) = Live(a),
         \A x \in Live(a) :
           /\ QName(k, at[x]) = QName(b, x) /\ RowName(k, at[x]) = RowName(b, x)
           /\ Home(k, at[x]) = IF IsPackage(b, x) THEN None ELSE at[Home(b, x)],
         \A x, y \in Live(a) :
           /\ <<x, y>> \in b.concrete <=> <<at[x], at[y]>> \in k.concrete
           /\ <<x, y>> \in b.allowed <=> <<at[x], at[y]>> \in k.allowed
  PROVE  Becomes(k, b, a, at)
<1>1. Iso(k, b, at)
  BY DEF Iso
<1> QED
  BY <1>1 DEF Becomes

LEMMA ConnectedBecomes ==
  ASSUME NEW g, NEW a, NEW b, NEW at, Proper(g), Iso(g, a, at), Tidy(a), Tidy(b),
         NEW s, NEW t, NEW type \in {"concrete", "allowed"}, AddsEdge(a, b, s, t, type)
  PROVE  /\ CanConnect(g, at[s], at[t], type)
         /\ Becomes(Connected(g, at[s], at[t], type), b, a, at)
<1> DEFINE k == Connected(g, at[s], at[t], type)
<1>1. /\ s \in Live(a) /\ t \in Live(a) /\ s # t /\ Live(b) = Live(a) /\ b.nodes = a.nodes
      /\ <<s, t>> \in b.concrete \cup b.allowed
  BY DEF AddsEdge
<1>2. at[s] \in Live(g) /\ at[t] \in Live(g) /\ at[s] # at[t]
  BY <1>1 DEF Iso
<1>3. IsPackage(a, s) <=> IsPackage(a, t)
  BY <1>1 DEF Tidy
<1>4. Supported(g, at[s], at[t])
  BY <1>1, <1>3, IsoSupported DEF AddsEdge
<1>5. <<at[s], at[t]>> \notin (IF type = "concrete" THEN g.concrete ELSE g.allowed)
  BY <1>1 DEF AddsEdge, Iso
<1>6. CanConnect(g, at[s], at[t], type)
  BY <1>2, <1>4, <1>5 DEF CanConnect
<1>7. /\ k.nodes = g.nodes
      /\ k.concrete = IF type = "concrete" THEN g.concrete \cup {<<at[s], at[t]>>} ELSE g.concrete
      /\ k.allowed = IF type = "allowed" THEN g.allowed \cup {<<at[s], at[t]>>} ELSE g.allowed
  <2>1. IsGraph(g)
    BY DEF Proper
  <2>2. CASE type = "concrete"
    BY <2>1, <2>2, EdgeEffect
  <2>3. CASE type = "allowed"
    BY <2>1, <2>3, EdgeEffect
  <2> QED
    BY <2>2, <2>3
<1>8. IsGraph(k)
  BY <1>2, GraphConnected DEF Proper
<1> HIDE DEF k
<1>9. Proper(k) /\ Live(k) = Live(g)
  BY <1>2, <1>7, <1>8 DEF Proper
<1>10. \A x, y \in Live(a) : <<at[x], at[y]>> = <<at[s], at[t]>> <=> <<x, y>> = <<s, t>>
  BY <1>1 DEF Iso
<1>11. ASSUME NEW x \in Live(a), NEW y \in Live(a)
       PROVE  /\ <<x, y>> \in b.concrete <=> <<at[x], at[y]>> \in k.concrete
              /\ <<x, y>> \in b.allowed <=> <<at[x], at[y]>> \in k.allowed
  <2>1. CASE type = "concrete"
    BY <2>1, <1>7, <1>10 DEF AddsEdge, Iso
  <2>2. CASE type = "allowed"
    BY <2>2, <1>7, <1>10 DEF AddsEdge, Iso
  <2> QED
    BY <2>1, <2>2
<1>12. \A x \in Live(a) :
         /\ QName(k, at[x]) = QName(b, x) /\ RowName(k, at[x]) = RowName(b, x)
         /\ Home(k, at[x]) = IF IsPackage(b, x) THEN None ELSE at[Home(b, x)]
  <2> TAKE x \in Live(a)
  <2>1. b.nodes[x] = a.nodes[x] /\ k.nodes[at[x]] = g.nodes[at[x]]
    BY <1>1, <1>7
  <2>2. /\ QName(b, x) = QName(a, x) /\ RowName(b, x) = RowName(a, x)
        /\ (IsPackage(b, x) <=> IsPackage(a, x)) /\ Home(b, x) = Home(a, x)
    BY <2>1, SameNodeSameName
  <2>3. /\ QName(k, at[x]) = QName(g, at[x]) /\ RowName(k, at[x]) = RowName(g, at[x])
        /\ Home(k, at[x]) = Home(g, at[x])
    BY <2>1, SameNodeSameName
  <2> QED
    BY <2>2, <2>3, IsoNames
<1>13. Becomes(k, b, a, at)
  BY <1>1, <1>9, <1>11, <1>12, SameNumbersBecome
<1> QED
  BY <1>6, <1>13 DEF k

LEMMA DisconnectedBecomes ==
  ASSUME NEW g, NEW a, NEW b, NEW at, Proper(g), Iso(g, a, at), Tidy(a), Tidy(b),
         NEW s, NEW t, NEW type \in {"concrete", "allowed"}, AddsEdge(b, a, s, t, type)
  PROVE  /\ HasProvider(g, at[s], at[t])
         /\ Becomes(Disconnected(g, at[s], at[t], type), b, a, at)
<1> DEFINE k == Disconnected(g, at[s], at[t], type)
<1>1. /\ s \in Live(a) /\ t \in Live(a) /\ s # t /\ Live(b) = Live(a) /\ b.nodes = a.nodes
      /\ <<s, t>> \in a.concrete \cup a.allowed
  BY DEF AddsEdge
<1>2. at[s] \in Live(g) /\ at[t] \in Live(g)
  BY <1>1 DEF Iso
<1>6. HasProvider(g, at[s], at[t])
  BY <1>1, IsoHasProvider DEF HasProvider
<1>7. /\ k.nodes = g.nodes
      /\ k.concrete = IF type = "concrete" THEN g.concrete \ {<<at[s], at[t]>>} ELSE g.concrete
      /\ k.allowed = IF type = "allowed" THEN g.allowed \ {<<at[s], at[t]>>} ELSE g.allowed
  <2>1. IsGraph(g)
    BY DEF Proper
  <2>2. CASE type = "concrete"
    BY <2>1, <2>2, EdgeEffect
  <2>3. CASE type = "allowed"
    BY <2>1, <2>3, EdgeEffect
  <2> QED
    BY <2>2, <2>3
<1>8. IsGraph(k)
  BY <1>2, GraphConnected DEF Proper
<1> HIDE DEF k
<1>9. Proper(k) /\ Live(k) = Live(g)
  BY <1>2, <1>7, <1>8 DEF Proper
<1>10. \A x, y \in Live(a) : <<at[x], at[y]>> = <<at[s], at[t]>> <=> <<x, y>> = <<s, t>>
  BY <1>1 DEF Iso
<1>11. ASSUME NEW x \in Live(a), NEW y \in Live(a)
       PROVE  /\ <<x, y>> \in b.concrete <=> <<at[x], at[y]>> \in k.concrete
              /\ <<x, y>> \in b.allowed <=> <<at[x], at[y]>> \in k.allowed
  <2>1. CASE type = "concrete"
    BY <2>1, <1>7, <1>10 DEF AddsEdge, Iso
  <2>2. CASE type = "allowed"
    BY <2>2, <1>7, <1>10 DEF AddsEdge, Iso
  <2> QED
    BY <2>1, <2>2
<1>12. \A x \in Live(a) :
         /\ QName(k, at[x]) = QName(b, x) /\ RowName(k, at[x]) = RowName(b, x)
         /\ Home(k, at[x]) = IF IsPackage(b, x) THEN None ELSE at[Home(b, x)]
  <2> TAKE x \in Live(a)
  <2>1. b.nodes[x] = a.nodes[x] /\ k.nodes[at[x]] = g.nodes[at[x]]
    BY <1>1, <1>7
  <2>2. /\ QName(b, x) = QName(a, x) /\ RowName(b, x) = RowName(a, x)
        /\ (IsPackage(b, x) <=> IsPackage(a, x)) /\ Home(b, x) = Home(a, x)
    BY <2>1, SameNodeSameName
  <2>3. /\ QName(k, at[x]) = QName(g, at[x]) /\ RowName(k, at[x]) = RowName(g, at[x])
        /\ Home(k, at[x]) = Home(g, at[x])
    BY <2>1, SameNodeSameName
  <2> QED
    BY <2>2, <2>3, IsoNames
<1>13. Becomes(k, b, a, at)
  BY <1>1, <1>9, <1>11, <1>12, SameNumbersBecome
<1> QED
  BY <1>6, <1>13 DEF k

LEMMA RenamedBecomes ==
  ASSUME NEW g, NEW a, NEW b, NEW at, Proper(g), Iso(g, a, at), Tidy(a),
         NEW i, ChangesNode(a, b, i), Home(b, i) = Home(a, i), b.nodes[i].name \in Names
  PROVE  Becomes(Renamed(g, at[i], b.nodes[i].name), b, a, at)
<1> DEFINE k == Renamed(g, at[i], b.nodes[i].name)
<1>1. i \in Live(a) /\ at[i] \in Live(g) /\ Live(b) = Live(a)
  BY DEF ChangesNode, Iso
<1>2. /\ Live(k) = Live(g) /\ k.concrete = g.concrete /\ k.allowed = g.allowed
      /\ \A j \in Live(g) : j # at[i] => k.nodes[j] = g.nodes[j]
      /\ k.nodes[at[i]].kind = g.nodes[at[i]].kind /\ k.nodes[at[i]].prefix = g.nodes[at[i]].prefix
      /\ k.nodes[at[i]].home = g.nodes[at[i]].home /\ k.nodes[at[i]].name = b.nodes[i].name
      /\ k.nodes[at[i]].row = IF IsPackage(g, at[i]) THEN b.nodes[i].name ELSE g.nodes[at[i]].row
  BY <1>1, RenameEffect DEF Proper
<1>3. Proper(k)
  BY <1>1, <1>2, GraphMoved DEF Proper
<1> HIDE DEF k
<1>4. ASSUME NEW x \in Live(a)
      PROVE  /\ QName(k, at[x]) = QName(b, x) /\ RowName(k, at[x]) = RowName(b, x)
             /\ Home(k, at[x]) = IF IsPackage(b, x) THEN None ELSE at[Home(b, x)]
  <2>1. CASE x = i
    <3>1. QName(k, at[i]) = QName(b, i) /\ RowName(k, at[i]) = RowName(b, i)
          /\ (IsPackage(b, i) <=> IsPackage(a, i))
      <4>1. /\ g.nodes[at[i]].kind = a.nodes[i].kind /\ g.nodes[at[i]].prefix = a.nodes[i].prefix
            /\ g.nodes[at[i]].row = a.nodes[i].row
        BY <1>1, IsoNames
      <4>2. b.nodes[i].kind = a.nodes[i].kind /\ b.nodes[i].prefix = a.nodes[i].prefix
        BY DEF ChangesNode
      <4>3. k.nodes[at[i]].row = b.nodes[i].row
        BY <4>1, <1>2 DEF ChangesNode
      <4> QED
        BY <4>1, <4>2, <4>3, <1>2, Zenon DEF QName, RowName
    <3>2. Home(g, at[i]) = IF IsPackage(a, i) THEN None ELSE at[Home(a, i)]
      BY <1>1, IsoNames
    <3> QED
      BY <2>1, <3>1, <3>2, <1>2
  <2>2. CASE x # i
    <3>1. at[x] # at[i] /\ at[x] \in Live(g)
      BY <2>2, <1>1 DEF Iso
    <3>2. k.nodes[at[x]] = g.nodes[at[x]] /\ b.nodes[x] = a.nodes[x]
      BY <2>2, <3>1, <1>2 DEF ChangesNode
    <3>3. /\ QName(b, x) = QName(a, x) /\ RowName(b, x) = RowName(a, x)
          /\ (IsPackage(b, x) <=> IsPackage(a, x)) /\ Home(b, x) = Home(a, x)
      BY <3>2, SameNodeSameName
    <3>4. /\ QName(k, at[x]) = QName(g, at[x]) /\ RowName(k, at[x]) = RowName(g, at[x])
          /\ Home(k, at[x]) = Home(g, at[x])
      BY <3>2, SameNodeSameName
    <3> QED
      BY <3>3, <3>4, IsoNames
  <2> QED
    BY <2>1, <2>2
<1>5. Becomes(k, b, a, at)
  BY <1>1, <1>2, <1>3, <1>4, SameNumbersBecome DEF Iso, ChangesNode
<1> QED
  BY <1>5 DEF k

LEMMA MovedBecomes ==
  ASSUME NEW g, NEW a, NEW b, NEW at, Proper(g), Iso(g, a, at), Tidy(a),
         NEW i, ChangesNode(a, b, i), ~IsPackage(a, i), b.nodes[i].name \in Names,
         Home(b, i) \in Live(a)
  PROVE  Becomes(Moved(g, at[i], at[Home(b, i)], b.nodes[i].name), b, a, at)
<1> DEFINE p == at[Home(b, i)]
           k == Moved(g, at[i], p, b.nodes[i].name)
<1>1. i \in Live(a) /\ at[i] \in Live(g) /\ Live(b) = Live(a) /\ p \in Live(g)
  BY DEF ChangesNode, Iso
<1>2. /\ Live(k) = Live(g) /\ k.concrete = g.concrete /\ k.allowed = g.allowed
      /\ \A j \in Live(g) : j # at[i] => k.nodes[j] = g.nodes[j]
      /\ k.nodes[at[i]].kind = g.nodes[at[i]].kind /\ k.nodes[at[i]].prefix = g.nodes[at[i]].prefix
      /\ k.nodes[at[i]].home = p /\ k.nodes[at[i]].name = b.nodes[i].name
      /\ k.nodes[at[i]].row = g.nodes[at[i]].row
  <2>1. PICK n : n = b.nodes[i].name
    OBVIOUS
  <2>2. IsGraph(g) /\ k = Moved(g, at[i], p, n)
    BY <2>1 DEF Proper
  <2> HIDE DEF k, p
  <2> QED
    BY <1>1, <2>1, <2>2, MoveEffect
<1>3. Proper(k)
  BY <1>1, <1>2, GraphMoved DEF Proper
<1> HIDE DEF k
<1>4. ASSUME NEW x \in Live(a)
      PROVE  /\ QName(k, at[x]) = QName(b, x) /\ RowName(k, at[x]) = RowName(b, x)
             /\ Home(k, at[x]) = IF IsPackage(b, x) THEN None ELSE at[Home(b, x)]
  <2>1. CASE x = i
    <3>1. QName(k, at[i]) = QName(b, i) /\ RowName(k, at[i]) = RowName(b, i)
          /\ (IsPackage(b, i) <=> IsPackage(a, i))
      <4>1. /\ g.nodes[at[i]].kind = a.nodes[i].kind /\ g.nodes[at[i]].prefix = a.nodes[i].prefix
            /\ g.nodes[at[i]].row = a.nodes[i].row
        BY <1>1, IsoNames
      <4>2. b.nodes[i].kind = a.nodes[i].kind /\ b.nodes[i].prefix = a.nodes[i].prefix
        BY DEF ChangesNode
      <4>3. k.nodes[at[i]].row = b.nodes[i].row
        BY <4>1, <1>2 DEF ChangesNode
      <4> QED
        BY <4>1, <4>2, <4>3, <1>2, Zenon DEF QName, RowName
    <3>2. Home(g, at[i]) = IF IsPackage(a, i) THEN None ELSE at[Home(a, i)]
      BY <1>1, IsoNames
    <3> QED
      BY <2>1, <3>1, <3>2, <1>2
  <2>2. CASE x # i
    <3>1. at[x] # at[i] /\ at[x] \in Live(g)
      BY <2>2, <1>1 DEF Iso
    <3>2. k.nodes[at[x]] = g.nodes[at[x]] /\ b.nodes[x] = a.nodes[x]
      BY <2>2, <3>1, <1>2 DEF ChangesNode
    <3>3. /\ QName(b, x) = QName(a, x) /\ RowName(b, x) = RowName(a, x)
          /\ (IsPackage(b, x) <=> IsPackage(a, x)) /\ Home(b, x) = Home(a, x)
      BY <3>2, SameNodeSameName
    <3>4. /\ QName(k, at[x]) = QName(g, at[x]) /\ RowName(k, at[x]) = RowName(g, at[x])
          /\ Home(k, at[x]) = Home(g, at[x])
      BY <3>2, SameNodeSameName
    <3> QED
      BY <3>3, <3>4, IsoNames
  <2> QED
    BY <2>1, <2>2
<1>5. Becomes(k, b, a, at)
  BY <1>1, <1>2, <1>3, <1>4, SameNumbersBecome DEF Iso, ChangesNode
<1> QED
  BY <1>5 DEF k

\* The parts of commands that change one node or one edge.  A move follows
\* addresses: P is where those may be trusted.
RenamesNode(a, b, was, now) ==
  \E i : ChangesNode(a, b, i) /\ Home(b, i) = Home(a, i) /\ QName(a, i) = was /\ QName(b, i) = now

MovesNode(a, b, part, at, P) ==
  \E i, p, t \in P :
    /\ ChangesNode(a, b, i) /\ ~IsPackage(a, i)
    /\ Home(a, i) = p /\ Home(b, i) = t
    /\ a.nodes[i].name = part.was /\ b.nodes[i].name = part.now
    /\ at[i] = part.node /\ at[p] = part.from /\ at[t] = part.to

JoinsNodes(a, b, part) ==
  \E s, t : AddsEdge(a, b, s, t, part.type) /\ QName(a, s) = part.from /\ QName(a, t) = part.to

\* What a part makes of a graph, and its inverse.
Does(a, part, b, at, P) ==
  \/ part.op = "add" /\ \E i : AddsNode(a, b, i, part.entity, part.home)
  \/ part.op = "remove" /\ \E i : AddsNode(b, a, i, part.entity, part.home)
  \/ part.op = "connect" /\ JoinsNodes(a, b, part)
  \/ part.op = "disconnect" /\ JoinsNodes(b, a, part)
  \/ part.op = "rename" /\ RenamesNode(a, b, part.was, part.now)
  \/ part.op = "move" /\ MovesNode(a, b, part, at, P)

LEMMA Undoes ==
  ASSUME NEW a, NEW b, NEW at, NEW P, NEW part \in PartSet, Does(a, part, b, at, P)
  PROVE  Does(b, Reverted(part), a, at, P)
<1>1. CASE part.op \in {"add", "remove"}
  <2>1. /\ Reverted(part).op = IF part.op = "add" THEN "remove" ELSE "add"
        /\ Reverted(part).entity = part.entity /\ Reverted(part).home = part.home
    BY <1>1 DEF Reverted, Opposite, PartSet
  <2> QED
    BY <1>1, <2>1 DEF Does
<1>2. CASE part.op \in {"connect", "disconnect"}
  <2>1. /\ Reverted(part).op = IF part.op = "connect" THEN "disconnect" ELSE "connect"
        /\ Reverted(part).from = part.from /\ Reverted(part).to = part.to /\ Reverted(part).type = part.type
    BY <1>2 DEF Reverted, Opposite, PartSet
  <2> QED
    BY <1>2, <2>1 DEF Does, JoinsNodes
<1>3. CASE part.op = "rename"
  <2>1. Reverted(part).op = "rename" /\ Reverted(part).was = part.now /\ Reverted(part).now = part.was
    BY <1>3 DEF Reverted, PartSet
  <2>2. PICK i : ChangesNode(a, b, i) /\ Home(b, i) = Home(a, i) /\ QName(a, i) = part.was /\ QName(b, i) = part.now
    BY <1>3 DEF Does, RenamesNode
  <2>3. ChangesNode(b, a, i)
    BY <2>2 DEF ChangesNode
  <2>4. RenamesNode(b, a, part.now, part.was)
    BY <2>2, <2>3 DEF RenamesNode
  <2> QED
    BY <2>1, <2>4 DEF Does
<1>4. CASE part.op = "move"
  <2>1. /\ Reverted(part).op = "move" /\ Reverted(part).was = part.now /\ Reverted(part).now = part.was
        /\ Reverted(part).node = part.node /\ Reverted(part).from = part.to /\ Reverted(part).to = part.from
    BY <1>4 DEF Reverted, PartSet
  <2>2. PICK i, p, t \in P :
          /\ ChangesNode(a, b, i) /\ ~IsPackage(a, i)
          /\ Home(a, i) = p /\ Home(b, i) = t
          /\ a.nodes[i].name = part.was /\ b.nodes[i].name = part.now
          /\ at[i] = part.node /\ at[p] = part.from /\ at[t] = part.to
    BY <1>4 DEF Does, MovesNode
  <2>3. ChangesNode(b, a, i) /\ ~IsPackage(b, i)
    BY <2>2 DEF ChangesNode
  <2>4. MovesNode(b, a, Reverted(part), at, P)
    BY <2>1, <2>2, <2>3 DEF MovesNode
  <2> QED
    BY <2>1, <2>4 DEF Does
<1> QED
  BY <1>1, <1>2, <1>3, <1>4, PartIsOfOneKind

LEMMA Performed ==
  ASSUME NEW g, NEW a, NEW b, NEW at, Proper(g), Iso(g, a, at), Tidy(a), Tidy(b),
         NEW P, P \subseteq Live(a), NEW part \in PartSet, Does(a, part, b, at, P),
         NEW cs, IsFiniteSet(Addresses(cs))
  PROVE  /\ Perform(g, part, cs).fault = "none"
         /\ Becomes(Perform(g, part, cs).graph, b, a, at)
<1>0. IsGraph(g)
  BY DEF Proper
<1>1. CASE part.op = "add"
  <2>1. PICK i : AddsNode(a, b, i, part.entity, part.home)
    BY <1>1 DEF Does
  <2> DEFINE n == Fresh(g, cs)
             h == Home(b, i)
             p == IF part.home = None THEN None ELSE at[h]
             new == Added(g, n, part.entity, p)
  <2>2. n \in Nat /\ n \notin Live(g)
    BY <1>0, FreshIsNew DEF Taken
  <2>3. part.entity \in QNames
    BY <1>1, PartIsOfOneKind
  <2>4. Absent(g, part.entity)
    <3>1. ASSUME NEW x \in Live(a) PROVE part.entity \notin NamesOf(a, x)
      <4>1. x \in Live(b) /\ i \in Live(b) /\ x # i /\ NamesOf(b, x) = NamesOf(a, x) /\ part.entity \in NamesOf(b, i)
        BY <2>1, SameNodeSameName DEF AddsNode, NamesOf
      <4> QED
        BY <4>1 DEF Tidy
    <3> QED
      BY <3>1, IsoMisses
  <2>5. part.home # None => ~Absent(g, part.home) /\ Find(g, part.home) = at[h]
    BY <2>1, IsoFinds DEF AddsNode
  <2>6. Perform(g, part, cs) = Done(new)
    BY <1>1, <2>4, <2>5 DEF Perform, AddEntity, Expect
  <2>7. Becomes(new, b, a, at)
    BY <2>1, <2>2, <2>3, AddedBecomes
  <2> QED
    BY <2>6, <2>7 DEF Done
<1>2. CASE part.op = "remove"
  <2>1. PICK i : AddsNode(b, a, i, part.entity, part.home)
    BY <1>2 DEF Does
  <2>2. i \in Live(a) /\ QName(a, i) = part.entity
    BY <2>1 DEF AddsNode
  <2>3. Find(g, part.entity) = at[i] /\ ~Absent(g, part.entity)
    BY <2>2, IsoFinds
  <2>4. Removable(g, at[i]) /\ Becomes(Removed(g, at[i]), b, a, at)
    BY <2>1, RemovedBecomes
  <2>5. Perform(g, part, cs) = Done(Removed(g, at[i]))
    BY <1>2, <2>3, <2>4 DEF Perform, RemoveEntity, Expect
  <2> QED
    BY <2>4, <2>5 DEF Done
<1>3. CASE part.op = "connect"
  <2>1. PICK s, t : AddsEdge(a, b, s, t, part.type) /\ QName(a, s) = part.from /\ QName(a, t) = part.to
    BY <1>3 DEF Does, JoinsNodes
  <2>2. part.type \in {"concrete", "allowed"}
    BY <1>3, PartIsOfOneKind
  <2>3. s \in Live(a) /\ t \in Live(a)
    BY <2>1 DEF AddsEdge
  <2>4. /\ Find(g, part.from) = at[s] /\ Find(g, part.to) = at[t]
        /\ ~Absent(g, part.from) /\ ~Absent(g, part.to)
    BY <2>1, <2>3, IsoFinds
  <2>5. /\ CanConnect(g, at[s], at[t], part.type)
        /\ Becomes(Connected(g, at[s], at[t], part.type), b, a, at)
    BY <2>1, <2>2, ConnectedBecomes
  <2>6. Perform(g, part, cs) = Done(Connected(g, at[s], at[t], part.type))
    BY <1>3, <2>4, <2>5 DEF Perform, AddRelationship, Expect
  <2> QED
    BY <2>5, <2>6 DEF Done
<1>4. CASE part.op = "disconnect"
  <2>1. PICK s, t : AddsEdge(b, a, s, t, part.type) /\ QName(b, s) = part.from /\ QName(b, t) = part.to
    BY <1>4 DEF Does, JoinsNodes
  <2>2. part.type \in {"concrete", "allowed"}
    BY <1>4, PartIsOfOneKind
  <2>3. s \in Live(a) /\ t \in Live(a) /\ QName(a, s) = part.from /\ QName(a, t) = part.to
    BY <2>1 DEF AddsEdge, QName
  <2>4. /\ Find(g, part.from) = at[s] /\ Find(g, part.to) = at[t]
        /\ ~Absent(g, part.from) /\ ~Absent(g, part.to)
    BY <2>3, IsoFinds
  <2>5. /\ HasProvider(g, at[s], at[t])
        /\ Becomes(Disconnected(g, at[s], at[t], part.type), b, a, at)
    BY <2>1, <2>2, DisconnectedBecomes
  <2>6. Perform(g, part, cs) = Done(Disconnected(g, at[s], at[t], part.type))
    BY <1>4, <2>4, <2>5 DEF Perform, RemoveRelationship, Expect
  <2> QED
    BY <2>5, <2>6 DEF Done
<1>5. CASE part.op = "rename"
  <2>1. PICK i : ChangesNode(a, b, i) /\ Home(b, i) = Home(a, i) /\ QName(a, i) = part.was /\ QName(b, i) = part.now
    BY <1>5 DEF Does, RenamesNode
  <2>2. i \in Live(a) /\ b.nodes[i].name = part.now.name
    BY <2>1 DEF ChangesNode, QName
  <2>3. part.now.name \in Names
    BY <1>5, PartIsOfOneKind DEF QNames
  <2>4. Find(g, part.was) = at[i] /\ ~Absent(g, part.was)
    BY <2>1, <2>2, IsoFinds
  <2>5. Becomes(Renamed(g, at[i], part.now.name), b, a, at)
    BY <2>1, <2>2, <2>3, RenamedBecomes
  <2>6. Perform(g, part, cs) = Done(Renamed(g, at[i], part.now.name))
    BY <1>5, <2>4 DEF Perform, RenameEntity
  <2> QED
    BY <2>5, <2>6 DEF Done
<1>6. CASE part.op = "move"
  <2>1. PICK i, p, t \in P :
          /\ ChangesNode(a, b, i) /\ ~IsPackage(a, i)
          /\ Home(a, i) = p /\ Home(b, i) = t
          /\ a.nodes[i].name = part.was /\ b.nodes[i].name = part.now
          /\ at[i] = part.node /\ at[p] = part.from /\ at[t] = part.to
    BY <1>6 DEF Does, MovesNode
  <2>2. part.now \in Names
    BY <1>6, PartIsOfOneKind
  <2>3. Home(b, i) \in Live(a) /\ part.node \in Live(g) /\ part.to \in Live(g)
    BY <2>1 DEF Iso
  <2>4. Becomes(Moved(g, part.node, part.to, part.now), b, a, at)
    BY <2>1, <2>2, <2>3, MovedBecomes
  <2>5. Perform(g, part, cs) = Done(Moved(g, part.node, part.to, part.now))
    BY <1>6, <2>3 DEF Perform, ReparentEntity
  <2> QED
    BY <2>4, <2>5 DEF Done
<1> QED
  BY <1>1, <1>2, <1>3, <1>4, <1>5, <1>6 DEF Does

----------------------------------------------------------------------------
(* A whole command, and the history beside the stack.                      *)

\* The three parts of a command are dependencies: they leave the nodes alone.
Chain(a, c, b, at, P) ==
  \/ Len(c) = 1 /\ Does(a, c[1], b, at, P)
  \/ /\ Len(c) = 3
     /\ \A n \in 1..3 : c[n].op \in {"connect", "disconnect"}
     /\ \E a1, a2 :
          /\ Tidy(a1) /\ Tidy(a2)
          /\ Does(a, c[1], a1, at, P) /\ Does(a1, c[2], a2, at, P) /\ Does(a2, c[3], b, at, P)

LEMMA EdgePartKeepsNodes ==
  ASSUME NEW a, NEW b, NEW at, NEW P, NEW part, part.op \in {"connect", "disconnect"}, Does(a, part, b, at, P)
  PROVE  /\ b.nodes = a.nodes
         /\ \A to, Q : Does(a, part, b, to, Q)
BY DEF Does, JoinsNodes, AddsEdge

LEMMA ChainUndoes ==
  ASSUME NEW a, NEW b, NEW at, NEW P, NEW c \in Commands, Chain(a, c, b, at, P)
  PROVE  Chain(b, Undone(c), a, at, P)
<1>0. Len(c) \in {1, 3} /\ \A n \in 1..Len(c) : c[n] \in PartSet
  BY DEF Commands
<1>1. Len(Undone(c)) = Len(c) /\ \A n \in 1..Len(c) : Undone(c)[n] = Reverted(c[Len(c) - n + 1])
  BY UndoneIsCommand
<1>2. CASE Len(c) = 1
  <2>1. Does(a, c[1], b, at, P) /\ Undone(c)[1] = Reverted(c[1]) /\ c[1] \in PartSet
    BY <1>0, <1>1, <1>2 DEF Chain
  <2> QED
    BY <1>1, <1>2, <2>1, Undoes DEF Chain
<1>3. CASE Len(c) = 3
  <2>1. \A n \in 1..3 : c[n].op \in {"connect", "disconnect"} /\ c[n] \in PartSet
    BY <1>0, <1>3 DEF Chain
  <2>2. PICK a1, a2 : /\ Tidy(a1) /\ Tidy(a2)
                      /\ Does(a, c[1], a1, at, P) /\ Does(a1, c[2], a2, at, P) /\ Does(a2, c[3], b, at, P)
    BY <1>3 DEF Chain
  <2>3. /\ Does(b, Reverted(c[3]), a2, at, P) /\ Does(a2, Reverted(c[2]), a1, at, P)
        /\ Does(a1, Reverted(c[1]), a, at, P)
    BY <2>1, <2>2, Undoes
  <2>4. Undone(c)[1] = Reverted(c[3]) /\ Undone(c)[2] = Reverted(c[2]) /\ Undone(c)[3] = Reverted(c[1])
    BY <1>1, <1>3
  <2>5. \A n \in 1..3 : Reverted(c[n]).op \in {"connect", "disconnect"}
    BY <2>1 DEF Reverted, Opposite, PartSet
  <2>6. \A n \in 1..3 : Undone(c)[n].op \in {"connect", "disconnect"}
    BY <2>4, <2>5
  <2> QED
    BY <1>1, <1>3, <2>2, <2>3, <2>4, <2>6 DEF Chain
<1> QED
  BY <1>0, <1>2, <1>3

LEMMA ChainKept ==
  ASSUME NEW a, NEW b, NEW at, NEW P, NEW c, Chain(a, c, b, at, P),
         NEW to, NEW Q, P \subseteq Q, \A x \in P : to[x] = at[x]
  PROVE  Chain(a, c, b, to, Q)
<1>1. ASSUME NEW h, NEW k, NEW part, Does(h, part, k, at, P) PROVE Does(h, part, k, to, Q)
  <2>1. MovesNode(h, k, part, at, P) => MovesNode(h, k, part, to, Q)
    BY DEF MovesNode
  <2> QED
    BY <1>1, <2>1 DEF Does
<1> QED
  BY <1>1 DEF Chain

LEMMA ChainOutcome ==
  ASSUME NEW g, NEW a, NEW b, NEW at, Proper(g), Iso(g, a, at), Tidy(a), Tidy(b),
         NEW P, P \subseteq Live(a), NEW c \in Commands, Chain(a, c, b, at, P),
         NEW cs, IsFiniteSet(Addresses(cs))
  PROVE  /\ Outcome(g, c, cs).fault = "none"
         /\ Becomes(Outcome(g, c, cs).graph, b, a, at)
<1>0. Len(c) \in {1, 3} /\ \A n \in 1..Len(c) : c[n] \in PartSet
  BY DEF Commands
<1>1. CASE Len(c) = 1
  <2>1. Does(a, c[1], b, at, P) /\ c[1] \in PartSet /\ Outcome(g, c, cs) = Perform(g, c[1], cs)
    BY <1>0, <1>1 DEF Chain, Outcome
  <2> QED
    BY <2>1, Performed
<1>2. CASE Len(c) = 3
  <2> DEFINE r1 == Perform(g, c[1], cs)
             r2 == Perform(r1.graph, c[2], cs)
             r3 == Perform(r2.graph, c[3], cs)
  <2>1. \A n \in 1..3 : c[n].op \in {"connect", "disconnect"} /\ c[n] \in PartSet
    BY <1>0, <1>2 DEF Chain
  <2>2. PICK a1, a2 : /\ Tidy(a1) /\ Tidy(a2)
                      /\ Does(a, c[1], a1, at, P) /\ Does(a1, c[2], a2, at, P) /\ Does(a2, c[3], b, at, P)
    BY <1>2 DEF Chain
  <2>3. Live(a1) = Live(a) /\ Live(a2) = Live(a) /\ Live(b) = Live(a)
    BY <2>1, <2>2, EdgePartKeepsNodes
  <2>4. r1.fault = "none" /\ Becomes(r1.graph, a1, a, at)
    BY <2>1, <2>2, Performed
  <2>5. PICK to1 : Iso(r1.graph, a1, to1) /\ \A x \in Live(a) : to1[x] = at[x]
    BY <2>3, <2>4 DEF Becomes
  <2>6. Does(a1, c[2], a2, to1, P)
    BY <2>1, <2>2, EdgePartKeepsNodes
  <2>7. r2.fault = "none" /\ Becomes(r2.graph, a2, a1, to1)
    <3>1. Proper(r1.graph)
      BY <2>4 DEF Becomes
    <3> HIDE DEF r1
    <3> QED
      BY <2>1, <2>2, <2>3, <2>5, <2>6, <3>1, Performed
  <2>8. PICK to2 : Iso(r2.graph, a2, to2) /\ \A x \in Live(a) : to2[x] = at[x]
    BY <2>3, <2>5, <2>7 DEF Becomes
  <2>9. Does(a2, c[3], b, to2, P)
    BY <2>1, <2>2, EdgePartKeepsNodes
  <2>10. r3.fault = "none" /\ Becomes(r3.graph, b, a2, to2)
    <3>1. Proper(r2.graph)
      BY <2>7 DEF Becomes
    <3> HIDE DEF r2
    <3> QED
      BY <2>1, <2>2, <2>3, <2>8, <2>9, <3>1, Performed
  <2>11. Outcome(g, c, cs) = r3
    BY <1>2, <2>4, <2>7 DEF Outcome, Then
  <2> HIDE DEF r3
  <2>12. Becomes(r3.graph, b, a, at)
    BY <2>3, <2>8, <2>10 DEF Becomes
  <2> QED
    BY <2>10, <2>11, <2>12
<1> QED
  BY <1>0, <1>1, <1>2

\* A stretch of the stack that adds nothing only loses entities: a component
\* that is there at its end was never made anew within it.
NothingNew(c) == \A n \in 1..Len(c) : c[n].op # "add"

\* The nodes that are there at every index: their addresses stay theirs.
Always(A) == {x \in Live(A[1]) : \A k \in DOMAIN A : x \in Live(A[k])}

\* A[k + 1] is the graph when k commands of the stack are done.
Told(A, at) ==
  /\ DOMAIN A = 1..Len(stack) + 1
  /\ \A k \in 1..Len(stack) + 1 : Tidy(A[k]) /\ AllSupported(A[k]) /\ views[k] = View(A[k])
  /\ Iso(graph, A[index + 1], at)
  /\ \A k \in 1..Len(stack) : Chain(A[k], stack[k], A[k + 1], at, Always(A))
  /\ \A k, m \in 1..Len(stack) + 1 :
       k <= m /\ (\A j \in k..m - 1 : NothingNew(stack[j])) => Live(A[m]) \subseteq Live(A[k])

\* The inductive invariant of the second theorem.
UndoInv == ~replaced => fault = "none" /\ Proper(graph) /\ \E A, at : Told(A, at)

\* The user has none of the Habits, and begins with projects in good order.
CarefulUser == Careless = {} /\ \A g \in Projects : WellKept(g)

----------------------------------------------------------------------------
(* Undo and redo: from one index to the next.                              *)

LEMMA StepBetween ==
  ASSUME TypeInv, NEW A, NEW at, Told(A, at), Proper(graph), NEW n \in 1..Len(stack) + 1,
         NEW c \in Commands, Chain(A[index + 1], c, A[n], at, Always(A)),
         Run(c), index' = n - 1, UNCHANGED <<stack, views, edits, replaced>>
  PROVE  fault' = "none" /\ Proper(graph') /\ \E to : Told(A, to)'
<1>0. index + 1 \in 1..Len(stack) + 1 /\ Len(stack) \in Nat /\ IsFiniteSet(Addresses(stack))
  BY DEF TypeInv, TypeOK
<1>1. Tidy(A[index + 1]) /\ Tidy(A[n]) /\ Iso(graph, A[index + 1], at) /\ DOMAIN A = 1..Len(stack) + 1
  BY <1>0 DEF Told
<1>2. Always(A) \subseteq Live(A[index + 1]) /\ Always(A) \subseteq Live(A[n])
  BY <1>0, <1>1 DEF Always
<1>3. fault' = "none" /\ Becomes(graph', A[n], A[index + 1], at)
  BY <1>0, <1>1, <1>2, ChainOutcome DEF Run
<1>4. PICK to : Iso(graph', A[n], to) /\ \A x \in Live(A[index + 1]) \cap Live(A[n]) : to[x] = at[x]
  BY <1>3 DEF Becomes
<1>5. \A x \in Always(A) : to[x] = at[x]
  BY <1>2, <1>4
<1>6. \A k \in 1..Len(stack) : Chain(A[k], stack[k], A[k + 1], to, Always(A))
  BY <1>5, ChainKept DEF Told
<1>7. index' + 1 = n
  OBVIOUS
<1>8. Told(A, to)'
  BY <1>4, <1>6, <1>7 DEF Told
<1> QED
  BY <1>3, <1>8 DEF Becomes

LEMMA UndoReturnsThere ==
  ASSUME TypeInv, UndoInv, undo
  PROVE  UndoInv'
<1> SUFFICES ASSUME ~replaced PROVE UndoInv'
  BY DEF undo, UndoInv
<1>1. PICK A, at : Told(A, at)
  BY DEF UndoInv
<1>2. index \in 1..Len(stack) /\ stack[index] \in Commands /\ Len(stack) \in Nat
  BY DEF undo, TypeInv, TypeOK
<1>3. Chain(A[index], stack[index], A[index + 1], at, Always(A))
  BY <1>1, <1>2 DEF Told
<1>4. Chain(A[index + 1], Undone(stack[index]), A[index], at, Always(A)) /\ Undone(stack[index]) \in Commands
  BY <1>2, <1>3, ChainUndoes, UndoneIsCommand
<1>5. Run(Undone(stack[index])) /\ index' = index - 1 /\ UNCHANGED <<stack, views, edits, replaced>>
  BY DEF undo
<1>6. index \in 1..Len(stack) + 1
  BY <1>2
<1>7. Proper(graph)
  BY DEF UndoInv
<1>8. fault' = "none" /\ Proper(graph') /\ \E to : Told(A, to)'
  BY <1>1, <1>4, <1>5, <1>6, <1>7, StepBetween
<1> QED
  BY <1>8 DEF UndoInv

LEMMA RedoReturnsThere ==
  ASSUME TypeInv, UndoInv, redo
  PROVE  UndoInv'
<1> SUFFICES ASSUME ~replaced PROVE UndoInv'
  BY DEF redo, UndoInv
<1>1. PICK A, at : Told(A, at)
  BY DEF UndoInv
<1>2. index + 1 \in 1..Len(stack) /\ stack[index + 1] \in Commands /\ Len(stack) \in Nat /\ index \in Nat
  BY DEF redo, TypeInv, TypeOK
<1>3. Chain(A[index + 1], stack[index + 1], A[index + 2], at, Always(A))
  <2>1. index + 1 + 1 = index + 2
    BY <1>2
  <2> QED
    BY <1>1, <1>2, <2>1 DEF Told
<1>4. Run(stack[index + 1]) /\ index' = (index + 2) - 1 /\ UNCHANGED <<stack, views, edits, replaced>>
  BY <1>2 DEF redo
<1>5. index + 2 \in 1..Len(stack) + 1
  BY <1>2
<1>6. Proper(graph)
  BY DEF UndoInv
<1>7. fault' = "none" /\ Proper(graph') /\ \E to : Told(A, to)'
  BY <1>1, <1>2, <1>3, <1>4, <1>5, <1>6, StepBetween
<1> QED
  BY <1>7 DEF UndoInv

----------------------------------------------------------------------------
(* Edits: the history goes on with b, after what was undone is dropped.    *)

\* What is there at every index up to this one, and after the edit.
Kept(A, b) == {x \in Live(b) : \A k \in 1..index + 1 : x \in Live(A[k])}

\* What an edit that is pushed has to be for the history to go on.
GoesOn(A, at, parts, g, b) ==
  /\ Tidy(b) /\ AllSupported(b) /\ Becomes(g, b, A[index + 1], at)
  /\ Chain(A[index + 1], parts, b, at, Kept(A, b))
  /\ \A k \in 1..index : Chain(A[k], stack[k], A[k + 1], at, Kept(A, b))
  /\ NothingNew(parts) => Live(b) \subseteq Live(A[index + 1])

LEMMA PushGoesOn ==
  ASSUME TypeInv, UndoInv, ~replaced, NEW A, NEW at, Told(A, at),
         NEW parts \in Commands, NEW g, IsGraph(g), Push(parts, g), NEW b, GoesOn(A, at, parts, g, b)
  PROVE  UndoInv'
<1>1. PICK d \in {0, 1} :
        /\ stack' \in Seq(Commands) /\ Len(stack') \in 1..Limit /\ index' = Len(stack')
        /\ Len(stack') = index + 1 - d
        /\ \A k \in 1..Len(stack') : stack'[k] = IF k + d <= index THEN stack[k + d] ELSE parts
        /\ \A k \in 1..Len(stack') + 1 :
             views'[k] = IF k + d <= index + 1 THEN views[k + d] ELSE View(g)
  <2>1. TypeOK
    BY DEF TypeInv
  <2>2. stack' \in Seq(Commands) /\ Len(stack') \in 1..Limit /\ index' = Len(stack')
    BY <2>1, PushedSequences, Zenon
  <2>3. \E d \in {0, 1} :
          /\ Len(stack') = index + 1 - d
          /\ \A k \in 1..Len(stack') : stack'[k] = IF k + d <= index THEN stack[k + d] ELSE parts
          /\ \A k \in 1..Len(stack') + 1 :
               views'[k] = IF k + d <= index + 1 THEN views[k + d] ELSE View(g)
    BY <2>1, PushedSequences, Zenon
  <2> QED
    BY <2>2, <2>3, Zenon
<1>2. index \in 0..Len(stack) /\ Len(stack) \in Nat /\ Limit \in Nat \ {0} /\ index + 1 - d \in Nat \ {0}
      /\ index \in Nat
  BY <1>1, LimitAssumption DEF TypeInv, TypeOK
<1>3. PICK n \in Nat \ {0} : n = index + 1 - d
  BY <1>2
<1>4. PICK B : B = [k \in 1..n + 1 |-> IF k + d <= index + 1 THEN A[k + d] ELSE b]
  OBVIOUS
<1>5. d \in Int /\ n + d = index + 1 /\ Len(stack') = n
  BY <1>1, <1>2, <1>3
<1>6. PICK to : Iso(g, b, to) /\ \A x \in Live(A[index + 1]) \cap Live(b) : to[x] = at[x]
  BY DEF GoesOn, Becomes
<1>7. View(g) = View(b) /\ Proper(g) /\ Tidy(b)
  BY <1>6, IsoView DEF GoesOn, Becomes
<1>8. B[n + 1] = b /\ B[n] = A[index + 1] /\ \A k \in 1..n : k + d \in 1..index + 1 /\ B[k] = A[k + d]
  BY <1>2, <1>4, <1>5
<1>9. \A k \in 1..n + 1 : k = n + 1 \/ k \in 1..n
  OBVIOUS
<1>10. DOMAIN B = 1..n + 1
  BY <1>4
<1>11. Kept(A, b) \subseteq Always(B)
  <2> SUFFICES ASSUME NEW x \in Kept(A, b) PROVE x \in Always(B)
    OBVIOUS
  <2>1. x \in Live(b) /\ \A k \in 1..index + 1 : x \in Live(A[k])
    BY DEF Kept
  <2>2. \A k \in 1..n + 1 : x \in Live(B[k])
    BY <2>1, <1>8, <1>9
  <2>3. 1 \in 1..n + 1
    BY <1>2
  <2> QED
    BY <2>2, <2>3, <1>10 DEF Always
<1>12. \A x \in Kept(A, b) : to[x] = at[x]
  BY <1>2, <1>6 DEF Kept
<1>13. ASSUME NEW k \in 1..n PROVE Chain(B[k], stack'[k], B[k + 1], to, Always(B))
  <2>1. CASE k + d <= index
    <3>0. k + d \in 1..index /\ k + 1 \in 1..n /\ (k + 1) + d = (k + d) + 1
      <4>1. k + d \in 1..index + 1
        BY <1>8
      <4>2. k + 1 <= n
        BY <1>2, <1>5, <2>1
      <4> QED
        BY <1>2, <1>5, <2>1, <4>1, <4>2
    <3>1. stack'[k] = stack[k + d] /\ B[k] = A[k + d]
      BY <1>1, <1>8, <1>5, <2>1
    <3>2. B[k + 1] = A[(k + d) + 1]
      BY <1>8, <3>0
    <3>3. Chain(A[k + d], stack[k + d], A[(k + d) + 1], at, Kept(A, b))
      BY <3>0 DEF GoesOn
    <3> QED
      BY <1>11, <1>12, <3>1, <3>2, <3>3, ChainKept
  <2>2. CASE ~(k + d <= index)
    <3>1. k = n /\ stack'[k] = parts
      BY <1>1, <1>2, <1>5, <2>2
    <3>2. B[k] = A[index + 1] /\ B[k + 1] = b
      BY <1>8, <3>1
    <3>3. Chain(A[index + 1], parts, b, at, Kept(A, b))
      BY DEF GoesOn
    <3> QED
      BY <1>11, <1>12, <3>1, <3>2, <3>3, ChainKept
  <2> QED
    BY <2>1, <2>2
<1>14. ASSUME NEW k \in 1..n + 1 PROVE Tidy(B[k]) /\ AllSupported(B[k]) /\ views'[k] = View(B[k])
  <2>1. CASE k = n + 1
    <3>1. ~(k + d <= index + 1) /\ k \in 1..Len(stack') + 1
      BY <1>2, <1>5, <2>1
    <3>2. views'[k] = View(g)
      BY <1>1, <3>1
    <3> QED
      BY <1>7, <1>8, <2>1, <3>2 DEF GoesOn
  <2>2. CASE k \in 1..n
    <3>1. k + d \in 1..index + 1 /\ k \in 1..Len(stack') + 1 /\ B[k] = A[k + d]
      BY <1>5, <1>8, <2>2
    <3>2. k + d \in 1..Len(stack) + 1 /\ k + d <= index + 1
      BY <1>2, <3>1
    <3>3. views'[k] = views[k + d]
      BY <1>1, <3>1, <3>2
    <3> QED
      BY <3>1, <3>2, <3>3 DEF Told
  <2> QED
    BY <1>9, <2>1, <2>2
<1>15. ASSUME NEW k \in 1..n + 1, NEW m \in 1..n + 1, k <= m, \A j \in k..m - 1 : NothingNew(stack'[j])
       PROVE  Live(B[m]) \subseteq Live(B[k])
  <2>1. ASSUME NEW l \in 1..n, k <= l, \A j \in k..l - 1 : NothingNew(stack'[j])
        PROVE  Live(B[l]) \subseteq Live(B[k])
    <3>0. k \in 1..n /\ k + d <= l + d
      BY <1>5, <2>1
    <3>1. /\ B[l] = A[l + d] /\ B[k] = A[k + d]
          /\ k + d \in 1..Len(stack) + 1 /\ l + d \in 1..Len(stack) + 1
      <4>1. B[l] = A[l + d] /\ B[k] = A[k + d] /\ k + d \in 1..index + 1 /\ l + d \in 1..index + 1
        BY <1>8, <3>0
      <4> QED
        BY <1>2, <4>1
    <3>2. \A j \in (k + d)..(l + d) - 1 : NothingNew(stack[j])
      <4> TAKE j \in (k + d)..(l + d) - 1
      <4>1. j - d \in k..l - 1 /\ (j - d) + d = j /\ j <= index /\ j - d \in 1..n
        BY <1>2, <1>5, <2>1
      <4>2. stack'[j - d] = stack[j]
        BY <1>1, <1>5, <4>1
      <4> QED
        BY <2>1, <4>1, <4>2
    <3> QED
      BY <3>0, <3>1, <3>2 DEF Told
  <2>2. CASE m \in 1..n
    BY <1>15, <2>1, <2>2
  <2>3. CASE m = n + 1
    <3>1. CASE k = m
      BY <3>1
    <3>2. CASE k # m
      <4>1. n \in k..m - 1 /\ k <= n /\ n \in 1..n /\ \A j \in k..n - 1 : j \in k..m - 1
        BY <1>2, <2>3, <3>2, <1>15
      <4>2. NothingNew(stack'[n]) /\ stack'[n] = parts
        BY <1>1, <1>2, <1>5, <1>15, <4>1
      <4>3. Live(b) \subseteq Live(A[index + 1])
        BY <4>2 DEF GoesOn
      <4>4. Live(B[n]) \subseteq Live(B[k])
        BY <2>1, <1>15, <4>1
      <4> QED
        BY <1>8, <2>3, <4>3, <4>4
    <3> QED
      BY <3>1, <3>2
  <2> QED
    BY <1>9, <2>2, <2>3
<1>16. graph' = g /\ fault' = fault /\ replaced' = replaced /\ index' + 1 = n + 1 /\ Len(stack') = n
  BY <1>1, <1>5 DEF Push
<1>17. Told(B, to)'
  <2>1. Iso(graph', B[index' + 1], to)
    BY <1>6, <1>8, <1>16
  <2> QED
    BY <1>10, <1>13, <1>14, <1>15, <1>16, <2>1 DEF Told
<1> QED
  BY <1>7, <1>16, <1>17 DEF UndoInv

\* A careful user's edit leaves a graph in good order.
LEMMA TidyAdded ==
  ASSUME NEW a, Tidy(a), AllSupported(a), NEW n \in Nat, n \notin Live(a),
         NEW q \in QNames, \A x \in Live(a) : q \notin NamesOf(a, x),
         NEW p, IF q.kind = "package" THEN p = None ELSE p \in Live(a) /\ IsPackage(a, p)
  PROVE  LET b == Added(a, n, q, p)
             h == IF q.kind = "package" THEN None ELSE QName(a, p)
         IN  Tidy(b) /\ AllSupported(b) /\ AddsNode(a, b, n, q, h)
<1> DEFINE b == Added(a, n, q, p)
           h == IF q.kind = "package" THEN None ELSE QName(a, p)
<1>0. IsGraph(a) /\ p \in Nat \cup {None} /\ (q.kind = "package" \/ p \in Live(a))
  BY DEF Tidy, IsGraph
<1>1. /\ Live(b) = Live(a) \cup {n} /\ b.concrete = a.concrete /\ b.allowed = a.allowed
      /\ \A x \in Live(a) : b.nodes[x] = a.nodes[x]
      /\ QName(b, n) = q /\ RowName(b, n) = q /\ Home(b, n) = p /\ b.nodes[n].row = b.nodes[n].name
  BY <1>0 DEF Added, IsGraph, QName, RowName, QNames
<1>2. IsGraph(b)
  BY <1>0, GraphAdded
<1> HIDE DEF b
<1>3. \A x \in Live(a) : /\ QName(b, x) = QName(a, x) /\ NamesOf(b, x) = NamesOf(a, x)
                           /\ (IsPackage(b, x) <=> IsPackage(a, x)) /\ Home(b, x) = Home(a, x)
  <2> TAKE x \in Live(a)
  <2>1. b.nodes[x] = a.nodes[x]
    BY <1>1
  <2> QED
    BY <2>1, SameNodeSameName
<1>4. IsPackage(b, n) <=> q.kind = "package"
  BY <1>1 DEF QName
<1>5. h # None => p \in Live(a) /\ QName(a, p) = h
  OBVIOUS
<1>6. q.kind = "package" <=> h = None
  BY <1>0, QNameIsName, NoneAssumption
<1>7. AddsNode(a, b, n, q, h)
  BY <1>1, <1>5, <1>6 DEF AddsNode
<1>8. Tidy(b)
  <2>1. \A x, y \in Live(b) : x # y => NamesOf(b, x) \cap NamesOf(b, y) = {}
    BY <1>1, <1>3 DEF Tidy, NamesOf
  <2>2. \A x \in Live(b) : IsPackage(b, x) => b.nodes[x].row = b.nodes[x].name
    BY <1>1 DEF Tidy
  <2> QED
    BY <1>1, <1>2, <1>3, <1>4, <2>1, <2>2 DEF Tidy
<1>9. AllSupported(b)
  <2> SUFFICES ASSUME NEW e \in b.concrete PROVE Supported(b, e[1], e[2])
    BY DEF AllSupported
  <2>1. e \in a.concrete /\ e[1] \in Live(a) /\ e[2] \in Live(a) /\ Supported(a, e[1], e[2])
    BY <1>1 DEF Tidy, AllSupported
  <2> QED
    BY <2>1, <1>1, <1>3 DEF Supported, HasProvider
<1> QED
  BY <1>7, <1>8, <1>9 DEF b

LEMMA TidyRemoved ==
  ASSUME NEW a, Tidy(a), AllSupported(a), NEW x \in Live(a), Removable(a, x), \A e \in a.allowed : e[2] # x,
         RowName(a, x) = QName(a, x)
  PROVE  LET b == Removed(a, x)
             h == IF IsPackage(a, x) THEN None ELSE QName(a, Home(a, x))
         IN  Tidy(b) /\ AllSupported(b) /\ AddsNode(b, a, x, QName(a, x), h)
<1> DEFINE b == Removed(a, x)
           h == IF IsPackage(a, x) THEN None ELSE QName(a, Home(a, x))
<1>0. IsGraph(a)
  BY DEF Tidy
<1>1. /\ Live(b) = Live(a) \ {x} /\ b.concrete = a.concrete /\ b.allowed = a.allowed
      /\ \A y \in Live(b) : b.nodes[y] = a.nodes[y]
  BY <1>0 DEF Removed, IsGraph
<1>2. IsGraph(b)
  BY <1>0, GraphRemoved
<1> HIDE DEF b
<1>3. \A y \in Live(b) : QName(b, y) = QName(a, y) /\ NamesOf(b, y) = NamesOf(a, y)
                         /\ (IsPackage(b, y) <=> IsPackage(a, y)) /\ Home(b, y) = Home(a, y)
  BY <1>1, SameNodeSameName
<1>4. \A e \in a.concrete \cup a.allowed : e \in Live(b) \X Live(b)
  BY <1>1 DEF Tidy, Removable
<1>5. \A y \in Live(b) : ~IsPackage(a, y) => Home(a, y) \in Live(b)
  BY <1>1 DEF Tidy, Removable
<1>6. QName(a, x).kind = "package" <=> h = None
  <2>1. ~IsPackage(a, x) => Home(a, x) \in Live(a)
    BY DEF Tidy
  <2>2. ~IsPackage(a, x) => QName(a, Home(a, x)) # None
    BY <1>0, <2>1, QNameIsName, NoneAssumption
  <2>3. QName(a, x).kind = a.nodes[x].kind
    BY DEF QName
  <2> QED
    BY <2>2, <2>3
<1>7. h # None => Home(a, x) \in Live(b) /\ QName(b, Home(a, x)) = h
  <2>1. ~IsPackage(a, x) => Home(a, x) \in Live(a) /\ Home(a, x) # x
    BY DEF Tidy
  <2> QED
    BY <2>1, <1>1, <1>3
<1>8. AddsNode(b, a, x, QName(a, x), h)
  BY <1>1, <1>6, <1>7 DEF AddsNode
<1>9. Tidy(b)
  BY <1>1, <1>2, <1>3, <1>4, <1>5 DEF Tidy
<1>10. AllSupported(b)
  <2> SUFFICES ASSUME NEW e \in b.concrete PROVE Supported(b, e[1], e[2])
    BY DEF AllSupported
  <2>1. e \in a.concrete /\ e[1] \in Live(b) /\ e[2] \in Live(b) /\ Supported(a, e[1], e[2])
    BY <1>1, <1>4 DEF AllSupported
  <2> QED
    BY <2>1, <1>1, <1>3 DEF Supported, HasProvider
<1> QED
  BY <1>8, <1>9, <1>10 DEF b

LEMMA TidyConnected ==
  ASSUME NEW a, Tidy(a), AllSupported(a), NEW s \in Live(a), NEW t \in Live(a), s # t,
         IsPackage(a, s) <=> IsPackage(a, t), Supported(a, s, t),
         NEW type \in {"concrete", "allowed"},
         <<s, t>> \notin (IF type = "concrete" THEN a.concrete ELSE a.allowed)
  PROVE  LET b == Connected(a, s, t, type)
         IN  Tidy(b) /\ AllSupported(b) /\ AddsEdge(a, b, s, t, type)
<1> DEFINE b == Connected(a, s, t, type)
<1>0. IsGraph(a)
  BY DEF Tidy
<1>1. /\ b.nodes = a.nodes
      /\ b.concrete = IF type = "concrete" THEN a.concrete \cup {<<s, t>>} ELSE a.concrete
      /\ b.allowed = IF type = "allowed" THEN a.allowed \cup {<<s, t>>} ELSE a.allowed
  <2>1. CASE type = "concrete"
    BY <1>0, <2>1, EdgeEffect
  <2>2. CASE type = "allowed"
    BY <1>0, <2>2, EdgeEffect
  <2> QED
    BY <2>1, <2>2
<1>2. IsGraph(b)
  BY <1>0, GraphConnected
<1> HIDE DEF b
<1>3. AddsEdge(a, b, s, t, type)
  BY <1>1 DEF AddsEdge
<1>4. Live(b) = Live(a) /\ \A x : QName(b, x) = QName(a, x) /\ NamesOf(b, x) = NamesOf(a, x)
  BY <1>1 DEF QName, RowName, NamesOf
<1>5. Tidy(b)
  BY <1>1, <1>2, <1>4 DEF Tidy
<1>6. AllSupported(b)
  <2>1. \A x, y : Supported(a, x, y) => Supported(b, x, y)
    BY <1>1 DEF Supported, HasProvider
  <2> QED
    BY <1>1, <2>1 DEF AllSupported
<1> QED
  BY <1>3, <1>5, <1>6 DEF b

LEMMA TidyDisconnected ==
  ASSUME NEW a, Tidy(a), AllSupported(a), NEW s \in Live(a), NEW t \in Live(a), <<s, t>> \in a.concrete
  PROVE  LET b == Disconnected(a, s, t, "concrete")
         IN  Tidy(b) /\ AddsEdge(b, a, s, t, "concrete")
<1> DEFINE b == Disconnected(a, s, t, "concrete")
<1>0. IsGraph(a)
  BY DEF Tidy
<1>1. /\ b.nodes = a.nodes /\ b.concrete = a.concrete \ {<<s, t>>} /\ b.allowed = a.allowed
  BY <1>0, EdgeEffect
<1>2. IsGraph(b)
  BY <1>0, GraphConnected
<1> HIDE DEF b
<1>3. Live(b) = Live(a) /\ \A x : QName(b, x) = QName(a, x) /\ NamesOf(b, x) = NamesOf(a, x)
  BY <1>1 DEF QName, RowName, NamesOf
<1>4. Tidy(b)
  BY <1>1, <1>2, <1>3 DEF Tidy
<1>5. Supported(a, s, t) /\ s # t /\ (IsPackage(a, s) <=> IsPackage(a, t))
  <2>1. <<s, t>>[1] = s /\ <<s, t>>[2] = t
    OBVIOUS
  <2> QED
    BY <2>1 DEF AllSupported, Tidy
<1>6. Supported(b, s, t)
  <2>1. ~IsPackage(a, s) => <<Home(a, s), Home(a, t)>> # <<s, t>>
    BY <1>5 DEF Tidy
  <2> QED
    BY <2>1, <1>1, <1>5 DEF Supported, HasProvider
<1>7. a.concrete = b.concrete \cup {<<s, t>>} /\ <<s, t>> \notin b.concrete
  BY <1>1
<1>8. AddsEdge(b, a, s, t, "concrete")
  BY <1>1, <1>5, <1>6, <1>7 DEF AddsEdge
<1> QED
  BY <1>4, <1>8 DEF b

LEMMA ChangedIsTidy ==
  ASSUME NEW a, Tidy(a), NEW b, IsGraph(b), NEW i, ChangesNode(a, b, i),
         IF IsPackage(a, i) THEN Home(b, i) = None ELSE Home(b, i) \in Live(a) /\ IsPackage(a, Home(b, i)),
         \A x \in Live(b) : QName(b, i) \in NamesOf(b, x) => x = i
  PROVE  Tidy(b)
<1>1. /\ i \in Live(a) /\ Live(b) = Live(a) /\ b.concrete = a.concrete /\ b.allowed = a.allowed
      /\ \A x \in Live(a) : IsPackage(b, x) <=> IsPackage(a, x)
  BY DEF ChangesNode
<1>2. \A x \in Live(a) : x # i => NamesOf(b, x) = NamesOf(a, x) /\ Home(b, x) = Home(a, x)
  <2> SUFFICES ASSUME NEW x \in Live(a), x # i PROVE NamesOf(b, x) = NamesOf(a, x) /\ Home(b, x) = Home(a, x)
    OBVIOUS
  <2>1. b.nodes[x] = a.nodes[x]
    BY DEF ChangesNode
  <2> QED
    BY <2>1, SameNodeSameName
<1>3. \A x, y \in Live(b) : x # y => NamesOf(b, x) \cap NamesOf(b, y) = {}
  <2>1. ASSUME NEW x \in Live(b), x # i PROVE NamesOf(b, x) \cap NamesOf(b, i) = {}
    <3>1. QName(b, i) \notin NamesOf(b, x)
      BY <2>1
    <3>2. CASE IsPackage(a, i)
      BY <3>1, <3>2 DEF ChangesNode, NamesOf, QName, RowName
    <3>3. CASE ~IsPackage(a, i)
      <4>1. RowName(b, i) = RowName(a, i)
        BY <3>3 DEF ChangesNode, RowName
      <4>2. RowName(b, i) \notin NamesOf(b, x)
        BY <1>1, <1>2, <2>1, <4>1 DEF Tidy, NamesOf
      <4> QED
        BY <3>1, <4>2 DEF NamesOf
    <3> QED
      BY <3>2, <3>3
  <2>2. ASSUME NEW x \in Live(b), NEW y \in Live(b), x # y, x # i, y # i
        PROVE  NamesOf(b, x) \cap NamesOf(b, y) = {}
    BY <1>1, <1>2, <2>2 DEF Tidy
  <2> QED
    BY <2>1, <2>2
<1>4. \A x \in Live(b) : IsPackage(b, x) => b.nodes[x].row = b.nodes[x].name
  BY <1>1 DEF Tidy, ChangesNode
<1>5. \A x \in Live(b) :
        IF IsPackage(b, x) THEN Home(b, x) = None ELSE Home(b, x) \in Live(b) /\ IsPackage(b, Home(b, x))
  BY <1>1, <1>2 DEF Tidy
<1> QED
  BY <1>1, <1>3, <1>5, <1>4 DEF Tidy

\* What the user sees to in the database holds in the history.
LEMMA IsoAllSupported ==
  ASSUME NEW g, NEW a, NEW at, Iso(g, a, at), Tidy(a), AllSupported(g)
  PROVE  AllSupported(a)
<1> SUFFICES ASSUME NEW e \in a.concrete PROVE Supported(a, e[1], e[2])
  BY DEF AllSupported
<1>1. e = <<e[1], e[2]>> /\ e[1] \in Live(a) /\ e[2] \in Live(a) /\ (IsPackage(a, e[1]) <=> IsPackage(a, e[2]))
  BY DEF Tidy
<1>2. <<at[e[1]], at[e[2]]>> \in g.concrete
  BY <1>1 DEF Iso
<1>3. Supported(g, at[e[1]], at[e[2]])
  BY <1>2 DEF AllSupported
<1> QED
  BY <1>1, <1>3, IsoSupported

Editing(A, at) == TypeInv /\ UndoInv /\ ~replaced /\ Careless = {} /\ Told(A, at)

LEMMA WhileEditing ==
  ASSUME NEW A, NEW at, Editing(A, at)
  PROVE  /\ Tidy(A[index + 1]) /\ AllSupported(A[index + 1]) /\ Iso(graph, A[index + 1], at)
         /\ Proper(graph) /\ IsGraph(graph) /\ IsFiniteSet(Addresses(Past))
         /\ index + 1 \in 1..Len(stack) + 1 /\ index \in Nat /\ index <= Len(stack) /\ Len(stack) \in Nat
         /\ \A i \in Live(graph) : \E x \in Live(A[index + 1]) : at[x] = i
BY PastHasFewAddresses DEF Editing, TypeInv, TypeOK, UndoInv, Told, Iso, Proper

\* An edit that removes no entity leaves what older commands rest on.
LEMMA NothingRemovedGoesOn ==
  ASSUME NEW A, NEW at, Editing(A, at), NEW parts, NEW g, NEW b,
         Tidy(b), AllSupported(b), Becomes(g, b, A[index + 1], at),
         Live(A[index + 1]) \subseteq Live(b),
         Chain(A[index + 1], parts, b, at, Kept(A, b)),
         NothingNew(parts) => Live(b) \subseteq Live(A[index + 1])
  PROVE  GoesOn(A, at, parts, g, b)
<1>0. index + 1 \in 1..Len(stack) + 1 /\ index \in Nat /\ index <= Len(stack) /\ Len(stack) \in Nat
      /\ DOMAIN A = 1..Len(stack) + 1
  BY WhileEditing DEF Editing, Told
<1>1. Always(A) \subseteq Kept(A, b)
  <2> SUFFICES ASSUME NEW x \in Always(A) PROVE x \in Kept(A, b)
    OBVIOUS
  <2>1. \A k \in 1..Len(stack) + 1 : x \in Live(A[k])
    BY <1>0 DEF Always
  <2>2. \A k \in 1..index + 1 : x \in Live(A[k])
    BY <2>1, <1>0
  <2>3. x \in Live(b)
    BY <2>1, <1>0
  <2> QED
    BY <2>2, <2>3 DEF Kept
<1>2. \A k \in 1..index : Chain(A[k], stack[k], A[k + 1], at, Kept(A, b))
  <2> TAKE k \in 1..index
  <2>1. Chain(A[k], stack[k], A[k + 1], at, Always(A))
    BY <1>0 DEF Editing, Told
  <2> QED
    BY <2>1, <1>1, ChainKept
<1> QED
  BY <1>2 DEF GoesOn

LEMMA OnePartChain ==
  ASSUME NEW a, NEW b, NEW at, NEW P, NEW part, Does(a, part, b, at, P)
  PROVE  Chain(a, <<part>>, b, at, P) /\ (NothingNew(<<part>>) <=> part.op # "add")
<1>1. Len(<<part>>) = 1 /\ <<part>>[1] = part
  OBVIOUS
<1> QED
  BY <1>1 DEF Chain, NothingNew

----------------------------------------------------------------------------
(* The edits of a careful user, one by one.                                *)

LEMMA AddGoesOn ==
  ASSUME NEW A, NEW at, Editing(A, at), NEW q \in QNames, NEW home, Add(q, home),
         IF q.kind = "package" THEN home = None
         ELSE \E p \in Live(graph) : IsPackage(graph, p) /\ home = QName(graph, p)
  PROVE  UndoInv'
<1> DEFINE a == A[index + 1]
           part == [op |-> "add", entity |-> q, home |-> home]
           r == Perform(graph, part, Past)
<1>0. /\ Tidy(a) /\ AllSupported(a) /\ Iso(graph, a, at) /\ Proper(graph) /\ IsGraph(graph)
      /\ IsFiniteSet(Addresses(Past)) /\ \A i \in Live(graph) : \E x \in Live(a) : at[x] = i
  BY WhileEditing
<1>1. r = AddEntity(graph, part, Past)
  BY DEF Perform
<1>2. r.fault = "none" /\ Push(<<part>>, r.graph)
  BY <1>1 DEF Add
<1>3. Absent(graph, q)
  BY <1>1, <1>2 DEF AddEntity, Expect, Failed
<1> HIDE DEF a, r
<1>4. \A x \in Live(a) : q \notin NamesOf(a, x)
  BY <1>0, <1>3, IsoNames DEF Absent, Found, Named, Rowed, NamesOf
<1>5. PICK n \in Nat : n \notin Live(a)
  <2>1. IsFiniteSet(Live(a)) /\ Cardinality(Live(a)) \in Nat
    BY <1>0, FS_CardinalityType DEF Tidy, IsGraph
  <2> QED
    BY <2>1, Unused
<1>6. PICK p : IF q.kind = "package" THEN p = None /\ home = None
               ELSE p \in Live(a) /\ IsPackage(a, p) /\ home = QName(a, p)
  BY <1>0, IsoNames
<1> DEFINE b == Added(a, n, q, p)
<1>7. Tidy(b) /\ AllSupported(b) /\ AddsNode(a, b, n, q, home)
  BY <1>0, <1>4, <1>5, <1>6, TidyAdded
<1> HIDE DEF b
<1>8. \A P : Does(a, part, b, at, P)
  BY <1>7 DEF Does
<1>9. part \in PartSet
  <2>1. home # None => home \in QNames
    BY <1>0, <1>6, QNameIsName DEF Tidy
  <2>2. q.kind = "package" <=> home = None
    BY <1>7 DEF AddsNode
  <2> QED
    BY <2>1, <2>2 DEF PartSet
<1>10. Becomes(r.graph, b, a, at)
  <2>1. Does(a, part, b, at, {}) /\ {} \subseteq Live(a)
    BY <1>8
  <2> HIDE DEF part
  <2> QED
    BY <1>0, <1>7, <1>9, <2>1, Performed DEF r
<1>11. Live(a) \subseteq Live(b)
  BY <1>7 DEF AddsNode
<1>12. Chain(a, <<part>>, b, at, Kept(A, b)) /\ ~NothingNew(<<part>>)
  <2>1. part.op = "add"
    OBVIOUS
  <2> HIDE DEF part
  <2> QED
    BY <1>8, <2>1, OnePartChain
<1>13. GoesOn(A, at, <<part>>, r.graph, b)
  <2> HIDE DEF part
  <2> QED
    BY <1>7, <1>10, <1>11, <1>12, NothingRemovedGoesOn DEF a
<1>14. <<part>> \in Commands /\ IsGraph(r.graph)
  BY <1>9, <1>10, OnePartIsCommand DEF Becomes, Proper
<1> HIDE DEF part
<1> QED
  BY <1>2, <1>13, <1>14, PushGoesOn DEF Editing

LEMMA RemoveGoesOn ==
  ASSUME NEW A, NEW at, Editing(A, at), NEW i \in Live(graph), removeEntity(i)
  PROVE  UndoInv'
<1> DEFINE a == A[index + 1]
           part == [op |-> "remove", entity |-> QName(graph, i),
                    home |-> IF IsPackage(graph, i) THEN None ELSE QName(graph, Home(graph, i))]
           g == Removed(graph, i)
<1>0. /\ Tidy(a) /\ AllSupported(a) /\ Iso(graph, a, at) /\ Proper(graph) /\ IsGraph(graph)
      /\ index \in Nat /\ index <= Len(stack) /\ Len(stack) \in Nat
      /\ \A j \in Live(graph) : \E x \in Live(a) : at[x] = j
  BY WhileEditing
<1>1. /\ Removable(graph, i) /\ NoMoveOf(i) /\ \A e \in graph.allowed : e[2] # i
      /\ RowName(graph, i) = QName(graph, i)
      /\ Push(<<part>>, g)
  BY DEF removeEntity, Careful, Editing
<1> HIDE DEF a, g
<1>2. PICK x \in Live(a) : at[x] = i
  BY <1>0
<1>3. \A y \in Live(a) : ~IsPackage(a, y) => Home(a, y) \in Live(a) /\ Home(graph, at[y]) = at[Home(a, y)]
  BY <1>0, IsoNames DEF Tidy
<1>4. Removable(a, x) /\ \A e \in a.allowed : e[2] # x
  <2>1. ASSUME NEW y \in Live(a), Home(a, y) = x PROVE FALSE
    <3>1. ~IsPackage(a, y)
      BY <1>0, <2>1, NoneAssumption DEF Tidy, IsGraph
    <3> QED
      BY <1>0, <1>1, <1>2, <1>3, <2>1, <3>1, IsoNames DEF Removable
  <2>2. ASSUME NEW e \in a.concrete \cup a.allowed PROVE x \notin {e[1], e[2]}
    <3>1. e = <<e[1], e[2]>> /\ e[1] \in Live(a) /\ e[2] \in Live(a)
      BY <1>0 DEF Tidy
    <3>2. \/ <<at[e[1]], at[e[2]]>> \in graph.concrete
          \/ <<at[e[1]], at[e[2]]>> \in graph.allowed
      BY <1>0, <3>1 DEF Iso
    <3>3. <<at[e[1]], at[e[2]]>>[1] = at[e[1]] /\ <<at[e[1]], at[e[2]]>>[2] = at[e[2]]
      OBVIOUS
    <3>4. at[e[1]] # i /\ at[e[2]] # i
      BY <1>1, <3>2, <3>3 DEF Removable
    <3> QED
      BY <1>2, <3>4
  <2> QED
    BY <2>1, <2>2 DEF Removable
<1> DEFINE b == Removed(a, x)
           h == IF IsPackage(a, x) THEN None ELSE QName(a, Home(a, x))
<1>5. Tidy(b) /\ AllSupported(b) /\ AddsNode(b, a, x, QName(a, x), h)
  <2>1. RowName(a, x) = QName(a, x)
    BY <1>0, <1>1, <1>2, IsoNames
  <2> QED
    BY <1>0, <1>4, <2>1, TidyRemoved
<1>6. part.op = "remove" /\ part.entity = QName(a, x) /\ part.home = h
  BY <1>0, <1>2, <1>3, IsoNames
<1>7. Becomes(g, b, a, at)
  <2> HIDE DEF b, h
  <2> QED
    BY <1>0, <1>2, <1>5, RemovedBecomes DEF g
<1>8. Live(b) = Live(a) \ {x}
  BY <1>0 DEF Removed, Tidy, IsGraph
<1>9. part \in PartSet
  <2>1. QName(graph, i) \in QNames /\ QName(graph, i).kind = graph.nodes[i].kind
    BY <1>0, QNameIsName DEF QName
  <2>2. ~IsPackage(graph, i) => QName(graph, Home(graph, i)) \in QNames /\ QName(graph, Home(graph, i)) # None
    BY <1>0, QNameIsName, NoneAssumption DEF IsGraph
  <2> QED
    BY <2>1, <2>2 DEF PartSet
<1> HIDE DEF b, h, part
<1>10. \A P : Does(a, part, b, at, P)
  BY <1>5, <1>6 DEF Does
<1>11. Chain(a, <<part>>, b, at, Kept(A, b)) /\ (NothingNew(<<part>>) => Live(b) \subseteq Live(a))
  BY <1>8, <1>10, OnePartChain
<1>12. ASSUME NEW k \in 1..index PROVE Chain(A[k], stack[k], A[k + 1], at, Kept(A, b))
  <2>1. Chain(A[k], stack[k], A[k + 1], at, Always(A)) /\ stack[k] \in Commands
    BY <1>0 DEF Editing, Told, TypeInv, TypeOK
  <2>2. CASE Len(stack[k]) = 3
    BY <2>1, <2>2, EdgePartKeepsNodes DEF Chain
  <2>3. CASE Len(stack[k]) = 1
    <3> DEFINE old == stack[k][1]
    <3>1. Does(A[k], old, A[k + 1], at, Always(A))
      BY <2>1, <2>3 DEF Chain
    <3>2. CASE old.op # "move"
      <4>1. Does(A[k], old, A[k + 1], at, Kept(A, b))
        BY <3>1, <3>2 DEF Does
      <4> QED
        BY <2>3, <4>1 DEF Chain
    <3>3. CASE old.op = "move"
      <4>1. PICK c, p, t \in Always(A) :
              /\ ChangesNode(A[k], A[k + 1], c) /\ ~IsPackage(A[k], c)
              /\ Home(A[k], c) = p /\ Home(A[k + 1], c) = t
              /\ A[k].nodes[c].name = old.was /\ A[k + 1].nodes[c].name = old.now
              /\ at[c] = old.node /\ at[p] = old.from /\ at[t] = old.to
        BY <3>1, <3>3 DEF Does, MovesNode
      <4>2. old \in Parts
        <5>1. stack \in Seq(Commands) /\ stack[k] \in Seq(PartSet)
          BY <2>1 DEF Editing, TypeInv, TypeOK, Commands
        <5>2. k \in DOMAIN Past /\ Past[k] = stack[k] /\ 1 \in DOMAIN stack[k]
          BY <1>0, <2>3, <5>1 DEF Past
        <5> QED
          BY <5>2 DEF Parts, Range
      <4>3. i \notin {old.node, old.from, old.to}
        BY <1>1, <3>3, <4>2 DEF NoMoveOf
      <4>4. c # x /\ p # x /\ t # x
        BY <1>2, <4>1, <4>3
      <4>5. \A y \in Always(A) : y # x => y \in Kept(A, b)
        <5> TAKE y \in Always(A)
        <5>1. \A m \in 1..Len(stack) + 1 : y \in Live(A[m])
          BY DEF Always, Editing, Told
        <5>2. (\A m \in 1..index + 1 : y \in Live(A[m])) /\ y \in Live(a)
          BY <1>0, <5>1 DEF a
        <5> QED
          BY <1>8, <5>2 DEF Kept
      <4>6. c \in Kept(A, b) /\ p \in Kept(A, b) /\ t \in Kept(A, b)
        BY <4>4, <4>5
      <4>7. Does(A[k], old, A[k + 1], at, Kept(A, b))
        BY <3>3, <4>1, <4>6 DEF Does, MovesNode
      <4> QED
        BY <2>3, <4>7 DEF Chain
    <3> QED
      BY <3>2, <3>3
  <2> QED
    BY <2>1, <2>2, <2>3 DEF Commands
<1>13. GoesOn(A, at, <<part>>, g, b)
  BY <1>5, <1>7, <1>11, <1>12 DEF GoesOn, a
<1>14. <<part>> \in Commands /\ IsGraph(g) /\ Push(<<part>>, g)
  BY <1>1, <1>7, <1>9, OnePartIsCommand DEF Becomes, Proper, part
<1> QED
  BY <1>13, <1>14, PushGoesOn DEF Editing

LEMMA ConnectGoesOn ==
  ASSUME NEW A, NEW at, Editing(A, at), NEW i \in Live(graph), NEW j \in Live(graph), addDependency(i, j)
  PROVE  UndoInv'
<1> DEFINE a == A[index + 1]
           part == Edge("connect", i, j, "concrete")
           g == Connected(graph, i, j, "concrete")
<1>0. /\ Tidy(a) /\ AllSupported(a) /\ Iso(graph, a, at) /\ Proper(graph) /\ IsGraph(graph)
      /\ \A k \in Live(graph) : \E x \in Live(a) : at[x] = k
  BY WhileEditing
<1>1. /\ IsPackage(graph, i) <=> IsPackage(graph, j)
      /\ CanConnect(graph, i, j, "concrete") /\ <<i, j>> \notin graph.concrete
      /\ Push(<<part>>, g)
  BY DEF addDependency, Careful, Editing
<1>2. part \in PartSet
  BY <1>0, EdgeIsPart
<1> HIDE DEF a
<1>3. PICK s, t \in Live(a) : at[s] = i /\ at[t] = j
  BY <1>0
<1>4. s # t /\ (IsPackage(a, s) <=> IsPackage(a, t)) /\ <<s, t>> \notin a.concrete
  <2>1. i # j
    BY <1>1 DEF CanConnect
  <2>2. /\ IsPackage(a, s) <=> IsPackage(graph, i)
        /\ IsPackage(a, t) <=> IsPackage(graph, j)
    BY <1>0, <1>3, IsoNames
  <2>3. <<at[s], at[t]>> \notin graph.concrete
    BY <1>1, <1>3
  <2>4. <<s, t>> \notin a.concrete
    BY <1>0, <2>3 DEF Iso
  <2> QED
    BY <1>1, <1>3, <2>1, <2>2, <2>4
<1>5. Supported(a, s, t)
  BY <1>0, <1>1, <1>3, <1>4, IsoSupported DEF CanConnect
<1> DEFINE b == Connected(a, s, t, "concrete")
<1>6. Tidy(b) /\ AllSupported(b) /\ AddsEdge(a, b, s, t, "concrete")
  BY <1>0, <1>4, <1>5, TidyConnected
<1> HIDE DEF b
<1>7. Becomes(g, b, a, at)
  BY <1>0, <1>3, <1>6, ConnectedBecomes
<1>8. part.op = "connect" /\ part.from = QName(a, s) /\ part.to = QName(a, t) /\ part.type = "concrete"
  BY <1>0, <1>3, IsoNames DEF Edge
<1> HIDE DEF part, g
<1>9. Does(a, part, b, at, Kept(A, b))
  BY <1>6, <1>8 DEF Does, JoinsNodes
<1>10. Live(b) = Live(a)
  BY <1>6 DEF AddsEdge
<1>11. GoesOn(A, at, <<part>>, g, b)
  BY <1>6, <1>7, <1>9, <1>10, OnePartChain, NothingRemovedGoesOn DEF a
<1>12. <<part>> \in Commands /\ IsGraph(g)
  BY <1>2, <1>7, OnePartIsCommand DEF Becomes, Proper
<1> QED
  BY <1>1, <1>11, <1>12, PushGoesOn DEF Editing

LEMMA ConnectParentsGoesOn ==
  ASSUME NEW A, NEW at, Editing(A, at), NEW i \in Live(graph), NEW j \in Live(graph),
         addDependencyOfParents(i, j)
  PROVE  UndoInv'
<1> DEFINE a == A[index + 1]
           u == Home(graph, i)
           v == Home(graph, j)
           p1 == Edge("connect", u, v, "allowed")
           p2 == Edge("connect", i, j, "concrete")
           p3 == Edge("connect", u, v, "concrete")
           c == <<p1, p2, p3>>
           g1 == Connected(graph, u, v, "allowed")
           g2 == Connected(g1, i, j, "concrete")
           g == Connected(g2, u, v, "concrete")
<1>0. /\ Tidy(a) /\ AllSupported(a) /\ Iso(graph, a, at) /\ Proper(graph) /\ IsGraph(graph)
      /\ \A k \in Live(graph) : \E x \in Live(a) : at[x] = k
  BY WhileEditing
<1>1. /\ ~IsPackage(graph, i) /\ ~IsPackage(graph, j) /\ ~Supported(graph, i, j)
      /\ <<i, j>> \notin graph.concrete /\ Push(c, g)
  BY DEF addDependencyOfParents, Careful, Editing
<1> HIDE DEF a
<1>2. PICK s, t \in Live(a) : at[s] = i /\ at[t] = j
  BY <1>0
<1>3. PICK p, q : p = Home(a, s) /\ q = Home(a, t)
  OBVIOUS
<1>4. /\ ~IsPackage(a, s) /\ ~IsPackage(a, t)
      /\ p \in Live(a) /\ q \in Live(a) /\ IsPackage(a, p) /\ IsPackage(a, q)
      /\ at[p] = u /\ at[q] = v /\ u \in Live(graph) /\ v \in Live(graph)
  <2>1. ~IsPackage(a, s) /\ ~IsPackage(a, t) /\ u = at[Home(a, s)] /\ v = at[Home(a, t)]
    BY <1>0, <1>1, <1>2, IsoNames
  <2>2. p \in Live(a) /\ q \in Live(a) /\ IsPackage(a, p) /\ IsPackage(a, q)
    BY <1>0, <1>3, <2>1 DEF Tidy
  <2> QED
    BY <1>0, <1>3, <2>1, <2>2 DEF Iso
<1>5. ~Supported(a, s, t)
  BY <1>0, <1>1, <1>2, <1>4, IsoSupported
<1>6. /\ p # q /\ s # t /\ <<p, q>> \notin a.concrete /\ <<p, q>> \notin a.allowed /\ <<s, t>> \notin a.concrete
      /\ s # p /\ t # q
  BY <1>0, <1>1, <1>2, <1>3, <1>4, <1>5 DEF Supported, HasProvider, Iso
<1>7. /\ p1 \in PartSet /\ p2 \in PartSet /\ p3 \in PartSet
  BY <1>0, <1>4, EdgeIsPart
<1>8. /\ p1.op = "connect" /\ p1.from = QName(a, p) /\ p1.to = QName(a, q) /\ p1.type = "allowed"
      /\ p2.op = "connect" /\ p2.from = QName(a, s) /\ p2.to = QName(a, t) /\ p2.type = "concrete"
      /\ p3.op = "connect" /\ p3.from = QName(a, p) /\ p3.to = QName(a, q) /\ p3.type = "concrete"
  BY <1>0, <1>2, <1>4, IsoNames DEF Edge
<1> DEFINE a1 == Connected(a, p, q, "allowed")
           a2 == Connected(a1, s, t, "concrete")
           b == Connected(a2, p, q, "concrete")
<1>9. Tidy(a1) /\ AllSupported(a1) /\ AddsEdge(a, a1, p, q, "allowed")
  <2>1. Supported(a, p, q)
    BY <1>4 DEF Supported
  <2> QED
    BY <1>0, <1>4, <1>6, <2>1, TidyConnected
<1> HIDE DEF a1
<1>10. a1.nodes = a.nodes /\ a1.concrete = a.concrete /\ a1.allowed = a.allowed \cup {<<p, q>>}
  BY <1>9 DEF AddsEdge
<1>11. Tidy(a2) /\ AllSupported(a2) /\ AddsEdge(a1, a2, s, t, "concrete")
  <2>1. Supported(a1, s, t)
    BY <1>3, <1>10 DEF Supported, HasProvider
  <2> QED
    BY <1>2, <1>4, <1>6, <1>9, <1>10, <2>1, TidyConnected
<1> HIDE DEF a2
<1>12. a2.nodes = a.nodes /\ a2.concrete = a.concrete \cup {<<s, t>>}
  BY <1>10, <1>11 DEF AddsEdge
<1>13. Tidy(b) /\ AllSupported(b) /\ AddsEdge(a2, b, p, q, "concrete")
  <2>1. Supported(a2, p, q)
    BY <1>4, <1>12 DEF Supported
  <2>2. <<p, q>> \notin a2.concrete
    BY <1>6, <1>12
  <2> QED
    BY <1>4, <1>6, <1>11, <1>12, <2>1, <2>2, TidyConnected
<1> HIDE DEF b
<1>14. b.nodes = a.nodes
  BY <1>12, <1>13 DEF AddsEdge
<1>15. \A x : QName(a1, x) = QName(a, x) /\ QName(a2, x) = QName(a, x)
  BY <1>10, <1>12 DEF QName
<1> HIDE DEF p1, p2, p3
<1>16. \A P : Does(a, p1, a1, at, P) /\ Does(a1, p2, a2, at, P) /\ Does(a2, p3, b, at, P)
  BY <1>8, <1>9, <1>11, <1>13, <1>15 DEF Does, JoinsNodes
<1>17. Len(c) = 3 /\ c[1] = p1 /\ c[2] = p2 /\ c[3] = p3 /\ c \in Seq(PartSet)
  BY <1>7
<1> HIDE DEF c
<1>18. c \in Commands
  BY <1>17 DEF Commands
<1>19. Chain(a, c, b, at, Kept(A, b))
  <2>1. \A n \in 1..3 : c[n].op \in {"connect", "disconnect"}
    BY <1>8, <1>17
  <2> QED
    BY <1>9, <1>11, <1>16, <1>17, <2>1 DEF Chain
<1>20. Becomes(g, b, a, at)
  <2> HIDE DEF u, v
  <2>1. Becomes(g1, a1, a, at)
    BY <1>0, <1>4, <1>9, ConnectedBecomes
  <2> HIDE DEF g1
  <2>2. PICK to1 : Iso(g1, a1, to1) /\ \A x \in Live(a) : to1[x] = at[x]
    BY <1>10, <2>1 DEF Becomes
  <2>3. to1[s] = i /\ to1[t] = j /\ Proper(g1)
    BY <1>2, <2>1, <2>2 DEF Becomes
  <2>4. Becomes(g2, a2, a1, to1)
    BY <1>9, <1>11, <2>2, <2>3, ConnectedBecomes
  <2> HIDE DEF g2
  <2>5. PICK to2 : Iso(g2, a2, to2) /\ \A x \in Live(a) : to2[x] = at[x]
    BY <1>10, <1>12, <2>2, <2>4 DEF Becomes
  <2>6. to2[p] = u /\ to2[q] = v /\ Proper(g2)
    BY <1>4, <2>4, <2>5 DEF Becomes
  <2>7. Becomes(g, b, a2, to2)
    BY <1>11, <1>13, <2>5, <2>6, ConnectedBecomes
  <2> HIDE DEF g
  <2> QED
    BY <1>12, <1>14, <2>5, <2>7 DEF Becomes
<1> HIDE DEF g
<1>21. GoesOn(A, at, c, g, b)
  BY <1>13, <1>14, <1>19, <1>20, NothingRemovedGoesOn DEF a
<1> QED
  BY <1>1, <1>18, <1>20, <1>21, PushGoesOn DEF Editing, Becomes, Proper

LEMMA DisconnectGoesOn ==
  ASSUME NEW A, NEW at, Editing(A, at), NEW i \in Live(graph), NEW j \in Live(graph), removeDependency(i, j)
  PROVE  UndoInv'
<1> DEFINE a == A[index + 1]
           part == Edge("disconnect", i, j, "concrete")
           g == Disconnected(graph, i, j, "concrete")
<1>0. /\ Tidy(a) /\ AllSupported(a) /\ Iso(graph, a, at) /\ Proper(graph) /\ IsGraph(graph)
      /\ \A k \in Live(graph) : \E x \in Live(a) : at[x] = k
  BY WhileEditing
<1>1. <<i, j>> \in graph.concrete /\ AllSupported(g) /\ Push(<<part>>, g)
  BY DEF removeDependency, Careful, Editing
<1>2. part \in PartSet
  BY <1>0, EdgeIsPart
<1> HIDE DEF a
<1>3. PICK s, t \in Live(a) : at[s] = i /\ at[t] = j
  BY <1>0
<1>4. <<s, t>> \in a.concrete
  BY <1>0, <1>1, <1>3 DEF Iso
<1> DEFINE b == Disconnected(a, s, t, "concrete")
<1>5. Tidy(b) /\ AddsEdge(b, a, s, t, "concrete")
  BY <1>0, <1>4, TidyDisconnected
<1> HIDE DEF b
<1>6. Becomes(g, b, a, at)
  BY <1>0, <1>3, <1>5, DisconnectedBecomes
<1>7. AllSupported(b)
  <2> HIDE DEF g
  <2> QED
    BY <1>1, <1>5, <1>6, IsoAllSupported DEF Becomes
<1>8. part.op = "disconnect" /\ part.from = QName(b, s) /\ part.to = QName(b, t) /\ part.type = "concrete"
  <2>1. QName(b, s) = QName(a, s) /\ QName(b, t) = QName(a, t)
    BY <1>5 DEF AddsEdge, QName
  <2> QED
    BY <1>0, <1>3, <2>1, IsoNames DEF Edge
<1> HIDE DEF part, g
<1>9. Does(a, part, b, at, Kept(A, b))
  BY <1>5, <1>8 DEF Does, JoinsNodes
<1>10. Live(b) = Live(a)
  BY <1>5 DEF AddsEdge
<1>11. GoesOn(A, at, <<part>>, g, b)
  BY <1>5, <1>6, <1>7, <1>9, <1>10, OnePartChain, NothingRemovedGoesOn DEF a
<1>12. <<part>> \in Commands /\ IsGraph(g)
  BY <1>2, <1>6, OnePartIsCommand DEF Becomes, Proper
<1> QED
  BY <1>1, <1>11, <1>12, PushGoesOn DEF Editing

\* The name is free in the database: in the history it is one entity's.
LEMMA FreeNameIsUnique ==
  ASSUME NEW g, NEW b, NEW at, Iso(g, b, at), NEW x \in Live(b), FreeName(g, at[x])
  PROVE  \A y \in Live(b) : QName(b, x) \in NamesOf(b, y) => y = x
<1> SUFFICES ASSUME NEW y \in Live(b), QName(b, x) \in NamesOf(b, y) PROVE y = x
  OBVIOUS
<1>1. at[y] \in Live(g) /\ QName(g, at[x]) \in NamesOf(g, at[y])
  BY IsoNames
<1> QED
  BY <1>1 DEF FreeName, Iso

LEMMA RenameGoesOn ==
  ASSUME NEW A, NEW at, Editing(A, at), NEW i \in Live(graph), NEW name \in Names, rename(i, name)
  PROVE  UndoInv'
<1> DEFINE a == A[index + 1]
           g == Renamed(graph, i, name)
           part == [op |-> "rename", was |-> QName(graph, i), now |-> QName(g, i)]
<1>0. /\ Tidy(a) /\ AllSupported(a) /\ Iso(graph, a, at) /\ Proper(graph) /\ IsGraph(graph) /\ IsGraph(a)
      /\ \A k \in Live(graph) : \E x \in Live(a) : at[x] = k
  <2>1. Tidy(a)
    BY WhileEditing
  <2>2. IsGraph(a)
    BY <2>1 DEF Tidy
  <2> QED
    BY <2>1, <2>2, WhileEditing
<1>1. FreeName(g, i) /\ Push(<<part>>, g)
  BY DEF rename, Careful, Editing
<1> HIDE DEF a
<1>2. PICK x \in Live(a) : at[x] = i
  BY <1>0
<1> DEFINE b == Renamed(a, x, name)
<1>3. ChangesNode(a, b, x) /\ Home(b, x) = Home(a, x) /\ b.nodes[x].name = name
  BY <1>0, RenameEffect DEF ChangesNode, Tidy
<1>4. IsGraph(b)
  <2>1. IF IsPackage(a, x) THEN Home(a, x) = None ELSE Home(a, x) \in Live(a)
    BY <1>0 DEF Tidy
  <2> QED
    BY <1>0, GraphMoved
<1> HIDE DEF b
<1>5. Becomes(g, b, a, at)
  BY <1>0, <1>2, <1>3, RenamedBecomes
<1>6. PICK to : Iso(g, b, to) /\ to[x] = i /\ x \in Live(b)
  BY <1>2, <1>3, <1>5 DEF Becomes, ChangesNode
<1>7. QName(g, i) = QName(b, x) /\ QName(graph, i) = QName(a, x) /\ i \in Live(g) /\ IsGraph(g)
  BY <1>0, <1>2, <1>5, <1>6, IsoNames DEF Becomes, Proper
<1> HIDE DEF g
<1>8. Tidy(b)
  <2>1. \A y \in Live(b) : QName(b, x) \in NamesOf(b, y) => y = x
    BY <1>1, <1>6, FreeNameIsUnique
  <2>2. IF IsPackage(a, x) THEN Home(b, x) = None
        ELSE Home(b, x) \in Live(a) /\ IsPackage(a, Home(b, x))
    BY <1>0, <1>3 DEF Tidy
  <2> QED
    BY <1>0, <1>3, <1>4, <2>1, <2>2, ChangedIsTidy
<1>9. AllSupported(b)
  <2>1. \A y \in Live(a) : Home(b, y) = Home(a, y) /\ (IsPackage(b, y) <=> IsPackage(a, y))
    BY <1>3 DEF ChangesNode
  <2>2. b.concrete = a.concrete /\ b.allowed = a.allowed
    BY <1>3 DEF ChangesNode
  <2> SUFFICES ASSUME NEW e \in b.concrete PROVE Supported(b, e[1], e[2])
    BY DEF AllSupported
  <2>3. e[1] \in Live(a) /\ e[2] \in Live(a) /\ Supported(a, e[1], e[2])
    BY <1>0, <2>2 DEF Tidy, AllSupported
  <2> QED
    BY <2>1, <2>2, <2>3 DEF Supported, HasProvider
<1>10. part \in PartSet
  BY <1>0, <1>7, QNameIsName DEF PartSet
<1>11. part.op = "rename" /\ part.was = QName(a, x) /\ part.now = QName(b, x)
  BY <1>7
<1> HIDE DEF part
<1>12. Does(a, part, b, at, Kept(A, b))
  BY <1>3, <1>11 DEF Does, RenamesNode
<1>13. Live(b) = Live(a)
  BY <1>3 DEF ChangesNode
<1>14. GoesOn(A, at, <<part>>, g, b)
  BY <1>5, <1>8, <1>9, <1>12, <1>13, OnePartChain, NothingRemovedGoesOn DEF a
<1>15. <<part>> \in Commands
  BY <1>10, OnePartIsCommand
<1> QED
  BY <1>1, <1>7, <1>14, <1>15, PushGoesOn DEF Editing

LEMMA MoveGoesOn ==
  ASSUME NEW A, NEW at, Editing(A, at), NEW i \in Live(graph), NEW j \in Live(graph), NEW name \in Names,
         reparent(i, j, name)
  PROVE  UndoInv'
<1> DEFINE a == A[index + 1]
           g == Moved(graph, i, j, name)
           part == [op |-> "move", node |-> i, from |-> Home(graph, i), to |-> j,
                    was |-> graph.nodes[i].name, now |-> name]
<1>0. /\ Tidy(a) /\ AllSupported(a) /\ Iso(graph, a, at) /\ Proper(graph) /\ IsGraph(graph) /\ IsGraph(a)
      /\ \A k \in Live(graph) : \E x \in Live(a) : at[x] = k
      /\ index \in Nat /\ index <= Len(stack) /\ Len(stack) \in Nat
  <2>1. Tidy(a)
    BY WhileEditing
  <2>2. IsGraph(a)
    BY <2>1 DEF Tidy
  <2> QED
    BY <2>1, <2>2, WhileEditing
<1>1. /\ ~IsPackage(graph, i) /\ IsPackage(graph, j) /\ NothingAdded /\ FreeName(g, i) /\ AllSupported(g)
      /\ Push(<<part>>, g)
  BY DEF reparent, Careful, Editing
<1>2. part \in PartSet
  BY <1>0, <1>1 DEF PartSet, IsGraph
<1> HIDE DEF a
<1>3. PICK x, t \in Live(a) : at[x] = i /\ at[t] = j
  BY <1>0
<1>4. PICK p \in Live(a) : p = Home(a, x) /\ at[p] = Home(graph, i)
  <2>1. ~IsPackage(a, x) /\ Home(graph, i) = at[Home(a, x)]
    BY <1>0, <1>1, <1>3, IsoNames
  <2>2. Home(a, x) \in Live(a)
    BY <1>0, <2>1 DEF Tidy
  <2> QED
    BY <2>1, <2>2
<1> DEFINE b == Moved(a, x, t, name)
<1>5. ~IsPackage(a, x) /\ IsPackage(a, t) /\ a.nodes[x].name = graph.nodes[i].name
  BY <1>0, <1>1, <1>3, IsoNames
<1>6. ChangesNode(a, b, x) /\ Home(b, x) = t /\ b.nodes[x].name = name
  BY <1>0, <1>5, MoveEffect DEF ChangesNode
<1>7. IsGraph(b)
  BY <1>0, GraphMoved
<1> HIDE DEF b
<1>8. Becomes(g, b, a, at)
  BY <1>0, <1>3, <1>6, <1>5, MovedBecomes
<1>9. PICK to : Iso(g, b, to) /\ to[x] = i /\ x \in Live(b)
  BY <1>3, <1>6, <1>8 DEF Becomes, ChangesNode
<1> HIDE DEF g
<1>10. Tidy(b)
  BY <1>0, <1>1, <1>6, <1>7, <1>5, <1>9, FreeNameIsUnique, ChangedIsTidy
<1>11. AllSupported(b)
  BY <1>1, <1>9, <1>10, IsoAllSupported
<1>12. Live(b) = Live(a)
  BY <1>6 DEF ChangesNode
<1>13. \A k \in 1..index + 1 : Live(a) \subseteq Live(A[k])
  <2> TAKE k \in 1..index + 1
  <2>1. \A l \in k..(index + 1) - 1 : NothingNew(stack[l])
    <3> SUFFICES ASSUME NEW l \in k..(index + 1) - 1, NEW n \in 1..Len(stack[l]), stack[l][n].op = "add" PROVE FALSE
      BY DEF NothingNew
    <3>1. stack \in Seq(Commands) /\ l \in 1..index /\ l \in 1..Len(stack)
      BY <1>0 DEF Editing, TypeInv, TypeOK
    <3>2. stack[l] \in Seq(PartSet)
      BY <3>1 DEF Commands
    <3>3. l \in DOMAIN Past /\ Past[l] = stack[l] /\ n \in DOMAIN stack[l]
      BY <1>0, <3>1, <3>2 DEF Past
    <3>4. stack[l][n] \in Parts
      BY <3>3 DEF Parts, Range
    <3> QED
      BY <1>1, <3>4 DEF NothingAdded
  <2>2. k \in 1..Len(stack) + 1 /\ index + 1 \in 1..Len(stack) + 1 /\ k <= index + 1
    BY <1>0
  <2> QED
    BY <2>1, <2>2 DEF Editing, Told, a
<1>14. x \in Kept(A, b) /\ p \in Kept(A, b) /\ t \in Kept(A, b)
  BY <1>12, <1>13 DEF Kept
<1>15. /\ part.op = "move" /\ part.node = i /\ part.from = Home(graph, i) /\ part.to = j
       /\ part.was = graph.nodes[i].name /\ part.now = name
  OBVIOUS
<1> HIDE DEF part
<1>16. Does(a, part, b, at, Kept(A, b))
  <2>1. MovesNode(a, b, part, at, Kept(A, b))
    BY <1>3, <1>4, <1>6, <1>5, <1>14, <1>15 DEF MovesNode
  <2> QED
    BY <2>1, <1>15 DEF Does
<1>17. GoesOn(A, at, <<part>>, g, b)
  BY <1>8, <1>10, <1>11, <1>12, <1>16, OnePartChain, NothingRemovedGoesOn DEF a
<1>18. <<part>> \in Commands /\ IsGraph(g)
  BY <1>2, <1>8, OnePartIsCommand DEF Becomes, Proper
<1> QED
  BY <1>1, <1>17, <1>18, PushGoesOn DEF Editing

----------------------------------------------------------------------------
(* All steps together.                                                     *)

LEMMA EditGoesOn ==
  ASSUME TypeInv, UndoInv, ~replaced, Careless = {}, Edit
  PROVE  UndoInv'
<1>1. PICK A, at : Told(A, at)
  BY DEF UndoInv
<1>2. Editing(A, at)
  BY <1>1 DEF Editing
<1>3. IsGraph(graph)
  BY <1>2, WhileEditing
<1>4. ASSUME NEW name \in Names, addPackage(name) PROVE UndoInv'
  <2> DEFINE q == [kind |-> "package", prefix |-> None, name |-> name]
  <2>1. q \in QNames /\ q.kind = "package"
    BY DEF QNames, Kinds
  <2>2. Add(q, None)
    BY <1>4 DEF addPackage
  <2> HIDE DEF q
  <2> QED
    BY <1>2, <2>1, <2>2, AddGoesOn
<1>5. ASSUME NEW name \in Names, NEW p \in Live(graph), addComponent(name, p) PROVE UndoInv'
  <2> DEFINE q == [kind |-> "component", prefix |-> graph.nodes[p].name, name |-> name]
             home == QName(graph, p)
  <2>1. q \in QNames /\ q.kind # "package"
    BY <1>3 DEF QNames, Kinds, IsGraph
  <2>2. Add(q, home) /\ IsPackage(graph, p)
    BY <1>5 DEF addComponent
  <2>3. \E i \in Live(graph) : IsPackage(graph, i) /\ home = QName(graph, i)
    BY <2>2
  <2> HIDE DEF q, home
  <2> QED
    BY <1>2, <2>1, <2>2, <2>3, AddGoesOn
<1>6. ASSUME NEW i \in Live(graph), removeEntity(i) PROVE UndoInv'
  BY <1>2, <1>6, RemoveGoesOn
<1>7. ASSUME NEW s \in Live(graph), NEW t \in Live(graph),
             addDependency(s, t) \/ addDependencyOfParents(s, t) \/ removeDependency(s, t)
      PROVE  UndoInv'
  BY <1>2, <1>7, ConnectGoesOn, ConnectParentsGoesOn, DisconnectGoesOn
<1>8. ASSUME NEW i \in Live(graph), NEW name \in Names, rename(i, name) PROVE UndoInv'
  BY <1>2, <1>8, RenameGoesOn
<1>9. ASSUME NEW c \in Live(graph), NEW p \in Live(graph), NEW name \in Names, reparent(c, p, name)
      PROVE  UndoInv'
  BY <1>2, <1>9, MoveGoesOn
<1> QED
  BY <1>4, <1>5, <1>6, <1>7, <1>8, <1>9 DEF Edit

\* A history of one graph, that of a project that was opened.
LEMMA OneGraphHistory ==
  ASSUME NEW a, NEW at, NEW g, Tidy(a), AllSupported(a), Iso(g, a, at), Proper(g)
  PROVE  /\ graph = g /\ stack = <<>> /\ index = 0 /\ fault = "none" /\ views = <<View(g)>> => UndoInv
         /\ graph' = g /\ stack' = <<>> /\ index' = 0 /\ fault' = "none" /\ views' = <<View(g)>> => UndoInv'
<1>1. PICK A : A = [k \in {1} |-> a]
  OBVIOUS
<1>2. View(g) = View(a)
  BY IsoView DEF Proper
<1>3. \A k \in 1..1 : k = 1
  OBVIOUS
<1>4. A[1] = a /\ DOMAIN A = 1..1
  BY <1>1
<1>5. ASSUME graph = g, stack = <<>>, index = 0, fault = "none", views = <<View(g)>> PROVE UndoInv
  <2>1. Len(stack) = 0 /\ index + 1 = 1 /\ Len(stack) + 1 = 1 /\ 1..Len(stack) = {} /\ views[1] = View(a)
    BY <1>2, <1>5
  <2>2. Told(A, at)
    BY <1>3, <1>4, <1>5, <2>1 DEF Told
  <2> QED
    BY <1>5, <2>2 DEF UndoInv
<1>6. ASSUME graph' = g, stack' = <<>>, index' = 0, fault' = "none", views' = <<View(g)>> PROVE UndoInv'
  <2>1. Len(stack') = 0 /\ index' + 1 = 1 /\ Len(stack') + 1 = 1 /\ 1..Len(stack') = {} /\ views'[1] = View(a)
    BY <1>2, <1>6
  <2>2. Told(A, at)'
    BY <1>3, <1>4, <1>6, <2>1 DEF Told
  <2> QED
    BY <1>6, <2>2 DEF UndoInv
<1> QED
  BY <1>5, <1>6

LEMMA WellKeptIsTidy ==
  ASSUME NEW g, IsGraph(g), Loaded(g) = g, WellKept(g)
  PROVE  Tidy(g) /\ AllSupported(g) /\ Proper(g) /\ \E at : Iso(g, g, at)
<1>1. /\ \A x \in Live(g) : IF IsPackage(g, x) THEN Home(g, x) = None
                            ELSE Home(g, x) \in Live(g) /\ IsPackage(g, Home(g, x))
      /\ g.concrete \subseteq Live(g) \X Live(g) /\ g.allowed \subseteq Live(g) \X Live(g)
      /\ \A x, y \in Live(g) :
           <<x, y>> \in g.concrete \cup g.allowed => x # y /\ (IsPackage(g, x) <=> IsPackage(g, y))
  <2>1. \A x \in Live(g) : IF IsPackage(g, x) THEN Home(g, x) = None
                            ELSE Home(g, x) \in Live(g) /\ IsPackage(g, Home(g, x))
    BY DEF WellKept, IsGraph
  <2>2. \A e \in g.concrete \cup g.allowed : e \in Nat \X Nat /\ e[1] \in Live(g) /\ e[2] \in Live(g)
    BY DEF WellKept, IsGraph
  <2>3. \A x, y \in Live(g) :
           <<x, y>> \in g.concrete \cup g.allowed => x # y /\ (IsPackage(g, x) <=> IsPackage(g, y))
    BY DEF WellKept
  <2> QED
    BY <2>1, <2>2, <2>3
<1>2. Tidy(g) /\ AllSupported(g) /\ Proper(g)
  <2>1. \A x \in Live(g) : g.nodes[x].row = g.nodes[x].name
    BY GraphLoaded
  <2> QED
    BY <1>1, <2>1 DEF WellKept, Tidy, Proper
<1>3. Iso(g, g, [x \in Live(g) |-> x])
  BY <1>1 DEF Iso
<1> QED
  BY <1>2, <1>3

\* A project that is loaded again is in order, whatever its rows say.
LEMMA LoadedIsTidy ==
  ASSUME NEW g, NEW a, NEW at, Iso(g, a, at), Proper(g), Tidy(a), AllSupported(a)
  PROVE  /\ Tidy(Loaded(a)) /\ AllSupported(Loaded(a)) /\ Proper(Loaded(g))
         /\ Iso(Loaded(g), Loaded(a), at)
<1> DEFINE b == Loaded(a)
           h == Loaded(g)
<1>0. IsGraph(g) /\ IsGraph(a)
  BY DEF Proper, Tidy
<1>1. /\ IsGraph(b) /\ Live(b) = Live(a) /\ b.concrete = a.concrete /\ b.allowed = a.allowed
      /\ \A x \in Live(a) : /\ b.nodes[x].kind = a.nodes[x].kind /\ b.nodes[x].prefix = a.nodes[x].prefix
                            /\ b.nodes[x].home = a.nodes[x].home
                            /\ b.nodes[x].name = a.nodes[x].row /\ b.nodes[x].row = a.nodes[x].row
  BY <1>0, GraphLoaded
<1>2. /\ IsGraph(h) /\ Live(h) = Live(g) /\ h.concrete = g.concrete /\ h.allowed = g.allowed
      /\ \A x \in Live(g) : /\ h.nodes[x].kind = g.nodes[x].kind /\ h.nodes[x].prefix = g.nodes[x].prefix
                            /\ h.nodes[x].home = g.nodes[x].home
                            /\ h.nodes[x].name = g.nodes[x].row /\ h.nodes[x].row = g.nodes[x].row
  BY <1>0, GraphLoaded
<1> HIDE DEF b, h
<1>3. \A x \in Live(a) : QName(b, x) = RowName(a, x) /\ RowName(b, x) = RowName(a, x)
  BY <1>1 DEF QName, RowName
<1>4. \A i \in Live(g) : QName(h, i) = RowName(g, i) /\ RowName(h, i) = RowName(g, i)
  BY <1>2 DEF QName, RowName
<1>5. Tidy(b)
  <2>1. \A x, y \in Live(b) : x # y => NamesOf(b, x) \cap NamesOf(b, y) = {}
    BY <1>1, <1>3 DEF Tidy, NamesOf
  <2> QED
    BY <1>1, <2>1 DEF Tidy
<1>6. AllSupported(b)
  <2> SUFFICES ASSUME NEW e \in b.concrete PROVE Supported(b, e[1], e[2])
    BY DEF AllSupported
  <2>1. e[1] \in Live(a) /\ e[2] \in Live(a) /\ Supported(a, e[1], e[2])
    BY <1>1 DEF Tidy, AllSupported
  <2> QED
    BY <2>1, <1>1 DEF Supported, HasProvider
<1>7. Proper(h)
  BY <1>2 DEF Proper
<1>8. \A x \in Live(a) :
        /\ QName(h, at[x]) = QName(b, x) /\ RowName(h, at[x]) = RowName(b, x)
        /\ Home(h, at[x]) = IF IsPackage(b, x) THEN None ELSE at[Home(b, x)]
  BY <1>1, <1>2, <1>3, <1>4, IsoNames
<1>9. Iso(h, b, at)
  BY <1>1, <1>2, <1>8 DEF Iso
<1> QED
  BY <1>5, <1>6, <1>7, <1>9 DEF b, h

(***************************************************************************)
(* A careful user, however edits, undos, redos and openings of projects    *)
(* follow each other: every command finds its entities and is accepted,    *)
(* and at each index the project looks as it did when the stack was there  *)
(* before - until a parse replaces the database.  Any number of names,     *)
(* entities and edits, and any limit of the stack.                         *)
(***************************************************************************)
THEOREM UndoWorks == CarefulUser => (Spec => []UndoReturns)
<1> SUFFICES ASSUME CarefulUser PROVE Spec => []UndoReturns
  OBVIOUS
<1>0. \A g \in Projects : Tidy(g) /\ AllSupported(g) /\ Proper(g) /\ \E at : Iso(g, g, at)
  BY WellKeptIsTidy, ProjectsAssumption DEF CarefulUser
<1>1. Init => UndoInv
  BY <1>0, OneGraphHistory DEF Init
<1>2. TypeInv /\ UndoInv /\ [Next]_vars => UndoInv'
  <2> SUFFICES ASSUME TypeInv, UndoInv, [Next]_vars PROVE UndoInv'
    OBVIOUS
  <2>1. CASE undo
    BY <2>1, UndoReturnsThere
  <2>2. CASE redo
    BY <2>2, RedoReturnsThere
  <2>3. CASE ~replaced /\ Edit
    BY <2>3, EditGoesOn DEF CarefulUser
  <2>4. CASE ParseFinished
    BY <2>4 DEF ParseFinished, UndoInv
  <2>5. ASSUME NEW g \in Projects, OpenProject(g), fault = "none" PROVE UndoInv'
    <3>1. fault' = "none"
      BY <2>5 DEF OpenProject
    <3> QED
      BY <1>0, <2>5, <3>1, OneGraphHistory DEF OpenProject
  <2>6. CASE ~replaced /\ OpenProject(Loaded(graph)) /\ fault = "none"
    <3>1. PICK A, at : Told(A, at)
      BY <2>6 DEF UndoInv
    <3>2. Tidy(A[index + 1]) /\ AllSupported(A[index + 1]) /\ Iso(graph, A[index + 1], at) /\ Proper(graph)
      BY <2>6, <3>1 DEF UndoInv, Told, TypeInv, TypeOK
    <3>3. /\ graph' = Loaded(graph) /\ stack' = <<>> /\ index' = 0 /\ fault' = "none"
          /\ views' = <<View(Loaded(graph))>>
      BY <2>6 DEF OpenProject
    <3>4. /\ Tidy(Loaded(A[index + 1])) /\ AllSupported(Loaded(A[index + 1]))
          /\ Iso(Loaded(graph), Loaded(A[index + 1]), at) /\ Proper(Loaded(graph))
      BY <3>2, LoadedIsTidy
    <3> QED
      BY <3>3, <3>4, OneGraphHistory
  <2>7. CASE UNCHANGED vars
    BY <2>7 DEF vars, UndoInv, Told
  <2> QED
    BY <2>1, <2>2, <2>3, <2>4, <2>5, <2>6, <2>7 DEF Next
<1>3. TypeInv /\ UndoInv => UndoReturns
  <2> SUFFICES ASSUME TypeInv, UndoInv, ~replaced PROVE fault = "none" /\ View(graph) = views[index + 1]
    BY DEF UndoReturns
  <2>1. PICK A, at : Told(A, at)
    BY DEF UndoInv
  <2>2. index + 1 \in 1..Len(stack) + 1
    BY DEF TypeInv, TypeOK
  <2>3. Iso(graph, A[index + 1], at) /\ Tidy(A[index + 1]) /\ views[index + 1] = View(A[index + 1])
    BY <2>1, <2>2 DEF Told
  <2> QED
    BY <2>3, IsoView DEF UndoInv, Proper
<1> QED
  BY <1>1, <1>2, <1>3, TypeInvariant, PTL DEF Spec
=============================================================================
