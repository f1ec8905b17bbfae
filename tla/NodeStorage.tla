---------------------------- MODULE NodeStorage ----------------------------
(***************************************************************************)
(* lvtldr::NodeStorage and its package and component nodes: the entities   *)
(* of a CAD database, each with one cached node, and the editing calls     *)
(* that must keep database and caches in step.                             *)
(*                                                                         *)
(* An entity is its record number; a number is given out once.  A node is  *)
(* in memory for every row: opening a database loads all packages and      *)
(* components.  A node caches three lists, each read from the database     *)
(* when it is first asked for: children, providers, clients.  Beside them  *)
(* it keeps `fields', its copy of the row.                                 *)
(*                                                                         *)
(* All calls come from the GUI thread.  A call that is refused does no     *)
(* more than its reads, which the three Read actions are.                  *)
(***************************************************************************)
CONSTANTS
  Packages, Components,   \* record numbers
  Places,                 \* Places[e]: where the user may put e
  Standalones,            \* the packages whose qualified name begins with
                          \*   "standalones"
  Types,                  \* the dependency types the user knows
  NoParent, Unloaded

Entities == Packages \cup Components

ASSUME EntitiesAssumption ==
  /\ Packages \cap Components = {}
  /\ NoParent \notin Entities
  /\ \A X \in SUBSET Entities : X # Unloaded
ASSUME ChoicesAssumption ==
  /\ Places \in [Entities -> SUBSET (Packages \cup {NoParent})]
  /\ \A c \in Components : NoParent \notin Places[c]
  /\ Standalones \subseteq Packages
  /\ Types \subseteq {"concrete", "allowed"}
\* Groups hold packages, and packages hold none: Lakos's two levels, which the
\* user keeps; addPackage does not refuse a third.
ASSUME LevelsAssumption ==
  \A e \in Packages : \A p \in Places[e] \ {NoParent} : Places[p] = {NoParent}

VARIABLES
  rows, home,             \* source_package and source_component, and their parents
  concrete,               \* tables dependencies and component_relation
  allowed,                \* table allowed_relationships
  used,                   \* record numbers given out so far
  fields,                 \* d_fields of every node: its copy of the dependencies
  parent, children, providers, clients,   \* LakosianNode::Private
  crashed

database == <<rows, home, concrete, allowed, used>>
caches == <<fields, parent, children, providers, clients>>
vars == <<database, caches, crashed>>

----------------------------------------------------------------------------
(* The database.                                                           *)

Content(e) == {x \in rows : home[x] = e}
Inner(e) == Content(e) \cap Packages
Providers(e) == {t \in Entities : <<e, t>> \in concrete}
Clients(e) == {s \in Entities : <<s, e>> \in concrete}
Allowed(e) == {t \in Entities : <<e, t>> \in allowed}
Direct(e) == Providers(e) \cup Allowed(e)

(***************************************************************************)
(* get*FieldsById, of which the model keeps what is looked at later: the   *)
(* dependencies of a package and the clients of a component.  All other    *)
(* readers refresh the fields first.                                       *)
(***************************************************************************)
Row(e) ==
  [providerIds |-> IF e \in Packages THEN Providers(e) ELSE {},
   clientIds |-> IF e \in Components THEN Clients(e) ELSE {},
   allowedIds |-> Allowed(e)]
NoFields == [providerIds |-> {}, clientIds |-> {}, allowedIds |-> {}]

----------------------------------------------------------------------------
(* Loading on demand.                                                      *)

IsGroup(e) == e \in Packages /\ parent[e] = NoParent
Below(e) == IF IsGroup(e) THEN Inner(e) ELSE {}
Above(X, e) == {parent[x] : x \in X} \ {e, NoParent}

(***************************************************************************)
(* The groups of what its packages use count as a group's providers.       *)
(* loadProviders asks each package for its own, loading them; so the call  *)
(* loads the set Loading(e).                                               *)
(***************************************************************************)
Own(e) == IF providers[e] = Unloaded THEN Direct(e) ELSE providers[e]
ProvidersOf(e) ==
  IF providers[e] # Unloaded THEN providers[e]
  ELSE Direct(e) \cup Above(UNION {Own(p) : p \in Below(e)}, e)
Loading(e) ==
  IF providers[e] # Unloaded THEN {} ELSE {x \in {e} \cup Below(e) : providers[x] = Unloaded}

\* A row or a cached edge that leads to a node which is gone: the assertion of
\* LakosianEdge fails, or its next reader follows a null or freed pointer.
Readable(e) ==
  providers[e] # Unloaded \/ UNION {Own(x) : x \in {e} \cup Below(e)} \subseteq rows

\* A component's clients come from its fields, a package's from the database.
OwnClients(e) ==
  IF clients[e] # Unloaded THEN clients[e]
  ELSE IF e \in Components THEN fields[e].clientIds ELSE Clients(e)
ReadableClients(e) == clients[e] # Unloaded \/ OwnClients(e) \subseteq rows
ClientsOf(e) ==
  IF clients[e] # Unloaded THEN clients[e]
  ELSE OwnClients(e) \cup Above(UNION {OwnClients(p) : p \in Below(e)}, e)
LoadingClients(e) ==
  IF clients[e] # Unloaded THEN {} ELSE {x \in {e} \cup Below(e) : clients[x] = Unloaded}

ChildrenOf(e) == IF children[e] = Unloaded THEN Content(e) ELSE children[e]

\* What the caches are once the providers of all of X have been read ...
ProvidersAfter(X) ==
  LET loaded == UNION {Loading(x) : x \in X}
  IN  [e \in Entities |-> IF e \in loaded THEN ProvidersOf(e) ELSE providers[e]]
\* ... and the children of all of Y: every load refreshes the fields.
ChildrenAfter(Y) == [e \in Entities |-> IF e \in Y THEN ChildrenOf(e) ELSE children[e]]
FieldsAfter(X, Y) ==
  LET loaded == UNION {Loading(x) : x \in X}
  IN  [e \in Entities |->
        IF e \in loaded \/ (e \in Y /\ children[e] = Unloaded) THEN Row(e) ELSE fields[e]]

ReadProviders(e) ==
  /\ providers[e] = Unloaded
  /\ \/ /\ Readable(e)
        /\ providers' = ProvidersAfter({e})
        /\ fields' = FieldsAfter({e}, {})
        /\ UNCHANGED <<database, parent, children, clients, crashed>>
     \/ /\ ~Readable(e)
        /\ crashed' = TRUE
        /\ UNCHANGED <<database, caches>>

ReadClients(e) ==
  /\ clients[e] = Unloaded
  /\ \/ /\ ReadableClients(e)
        /\ clients' = [x \in Entities |-> IF x \in LoadingClients(e) THEN ClientsOf(x) ELSE clients[x]]
        /\ fields' = [x \in Entities |->
                        IF x \in LoadingClients(e) \cap Packages THEN Row(x) ELSE fields[x]]
        /\ UNCHANGED <<database, parent, children, providers, crashed>>
     \/ /\ ~ReadableClients(e)
        /\ crashed' = TRUE
        /\ UNCHANGED <<database, caches>>

\* children() reads the row if it must, isPackageGroup() of a package always.
\* A component's are its types, which are left out: it may refresh at any time.
ReadChildren(e) ==
  /\ \/ e \in Packages /\ children' = [children EXCEPT ![e] = Content(e)]
     \/ e \in Components /\ UNCHANGED children
  /\ fields' = [fields EXCEPT ![e] = Row(e)]
  /\ UNCHANGED <<database, parent, providers, clients, crashed>>

\* LakosianNode::invalidateProviders, -Clients and -Children.
\* Mutant: the list stays.
Kept(lists, e) == lists
Invalidated(lists, e) == [lists EXCEPT ![e] = Unloaded]

----------------------------------------------------------------------------
(* Adding and removing entities.                                           *)

\* A new row and its node; addPackage and addComponent share it.
\* Mutant: the number is not used up.
NewNodeUncounted(e, p) ==
  /\ e \notin rows
  /\ rows' = rows \cup {e}
  /\ home' = [home EXCEPT ![e] = p]
  /\ parent' = [parent EXCEPT ![e] = p]
  /\ UNCHANGED <<concrete, allowed, used, providers, clients, crashed>>
NewNode(e, p) ==
  /\ e \notin used
  /\ used' = used \cup {e}
  /\ rows' = rows \cup {e}
  /\ home' = [home EXCEPT ![e] = p]
  /\ parent' = [parent EXCEPT ![e] = p]
  /\ UNCHANGED <<concrete, allowed, providers, clients, crashed>>

addPackage(e, p) ==
  /\ e \in Packages
  /\ NewNode(e, p)
  /\ \/ /\ p = NoParent
        /\ UNCHANGED <<fields, children>>
     \/ /\ p \in rows
        /\ ChildrenOf(p) = {} \/ ChildrenOf(p) \cap Packages # {}
        /\ children' = [children EXCEPT ![p] = ChildrenOf(p) \cup {e}, ![e] = {}]
        /\ fields' = FieldsAfter({}, {p})

addComponent(e, p) ==
  /\ e \in Components
  /\ NewNode(e, p)
  /\ p \in rows
  /\ Inner(p) = {}
  /\ children' = [children EXCEPT ![p] = Content(p) \cup {e}]
  /\ fields' = [fields EXCEPT ![p] = Row(p)]

\* The node goes with its row; the caches of other nodes may still name it.
Erase(e) ==
  /\ rows' = rows \ {e}
  /\ home' = [home EXCEPT ![e] = NoParent]
  /\ parent' = [parent EXCEPT ![e] = NoParent]
  /\ fields' = [fields EXCEPT ![e] = NoFields]
  /\ providers' = [providers EXCEPT ![e] = Unloaded]
  /\ clients' = [clients EXCEPT ![e] = Unloaded]
  /\ children' = [x \in Entities |-> IF x \in {e, parent[e]} THEN Unloaded ELSE children[x]]
  /\ UNCHANGED <<concrete, allowed, used, crashed>>

\* Mutant: does not ask who uses it.
WithoutProviders(e) == Readable(e) /\ ProvidersOf(e) = {}
\* To load the providers is to refresh the fields, and with them a component's
\* clients.
Unused(e) ==
  /\ Readable(e) /\ ProvidersOf(e) = {}
  /\ \/ ClientsOf(e) = {}
     \/ e \in Components /\ clients[e] = Unloaded /\ e \in Loading(e) /\ Clients(e) = {}

removePackage(e) ==
  /\ e \in Packages
  /\ Unused(e)
  /\ ChildrenOf(e) = {}
  /\ Erase(e)

removeComponent(e) ==
  /\ e \in Components
  /\ Unused(e)
  /\ Erase(e)

----------------------------------------------------------------------------
(* Dependencies.                                                           *)

HasField(s, t, type) ==
  t \in (IF type = "concrete" THEN fields[s].providerIds ELSE fields[s].allowedIds)

(***************************************************************************)
(* The rules of addPhysicalDependency, and whose providers and children    *)
(* they read: those of the source's package, and of its group if the       *)
(* target's package holds no packages.  A package without a parent counts  *)
(* as a group; a group may also use one that is standalone by its name.    *)
(***************************************************************************)
IsStandalonePackage(e) == ChildrenOf(e) \cap Packages = {}

Reads(s, t) ==
  LET p == parent[s]
      group == {r \in {parent[p]} : s \in Components /\ IsGroup(r) /\ IsStandalonePackage(parent[t])}
  IN  IF IsGroup(s) \/ p = parent[t] THEN {} ELSE {p} \cup group
ReadsChildren(s, t) ==
  IF s \in Components /\ parent[s] # parent[t] /\ IsGroup(parent[parent[s]])
  THEN {parent[t]} ELSE {}

LevelsMatch(s, t) ==
  \/ {s, t} \subseteq Packages /\ (IsGroup(s) <=> IsGroup(t))
  \/ IsGroup(s) /\ t \in Standalones
  \/ {s, t} \subseteq Components
\* Mutant: the dependency may run the other way.
ParentsDependBack(s, t) ==
  \/ IsGroup(s)
  \/ parent[s] = parent[t]
  \/ Readable(parent[t]) /\ parent[s] \in ProvidersOf(parent[t])
ParentsDepend(s, t) ==
  \/ IsGroup(s)
  \/ parent[s] = parent[t]
  \/ \E x \in Reads(s, t) : parent[t] \in ProvidersOf(x)

\* One of the add*Dependency of the nodes: fields and table together.
Record(s, t, type) ==
  \/ /\ type = "concrete"
     /\ concrete' = concrete \cup {<<s, t>>}
     /\ UNCHANGED allowed
  \/ /\ type = "allowed"
     /\ allowed' = allowed \cup {<<s, t>>}
     /\ UNCHANGED concrete
WithField(f, s, t, type) ==
  LET added(list, x, here) == IF here THEN list \cup {x} ELSE list
  IN  [e \in Entities |->
        [providerIds |-> added(f[e].providerIds, t, e = s /\ s \in Packages /\ type = "concrete"),
         clientIds |-> added(f[e].clientIds, s, e = t /\ t \in Components),
         allowedIds |-> added(f[e].allowedIds, t, e = s /\ type = "allowed")]]

addPhysicalDependency(s, t, type) ==
  /\ s # t
  /\ type = "allowed" => {s, t} \subseteq Packages
  /\ s \in Packages => ~HasField(s, t, type)
  /\ LevelsMatch(s, t)
  /\ \A x \in Reads(s, t) : Readable(x)
  /\ ParentsDepend(s, t)
  /\ Record(s, t, type)
  /\ fields' = WithField(FieldsAfter(Reads(s, t), ReadsChildren(s, t)), s, t, type)
  /\ children' = ChildrenAfter(ReadsChildren(s, t))
  /\ providers' = Invalidated(ProvidersAfter(Reads(s, t)), s)
  /\ clients' = Invalidated(clients, t)
  /\ UNCHANGED <<rows, home, used, parent, crashed>>

\* A component's dependencies are concrete, whatever type is given.
TypeOf(s, type) == IF s \in Components THEN "concrete" ELSE type

(***************************************************************************)
(* removeConcreteDependency and removeAllowedDependency search the clients *)
(* of the target for the target, not for the source: the source stays.     *)
(* removeAllowedDependency takes the target off the providers as well.     *)
(***************************************************************************)
WithoutField(f, s, t, type) ==
  LET removed(list, x, here) == IF here THEN list \ {x} ELSE list
  IN  [e \in Entities |->
        [providerIds |-> removed(f[e].providerIds, t, e = s),
         clientIds |-> removed(f[e].clientIds, t, e = t),
         allowedIds |-> removed(f[e].allowedIds, t, e = s /\ type = "allowed")]]

Erased(s, t, type) ==
  \/ /\ type = "concrete"
     /\ concrete' = concrete \ {<<s, t>>}
     /\ UNCHANGED allowed
  \/ /\ type = "allowed"
     /\ allowed' = allowed \ {<<s, t>>}
     /\ UNCHANGED concrete

removePhysicalDependency(s, t, type) ==
  /\ t \in ProvidersOf(s) /\ Readable(s)
  /\ Erased(s, t, TypeOf(s, type))
  /\ fields' = WithoutField(FieldsAfter({s}, {}), s, t, TypeOf(s, type))
  /\ providers' = Invalidated(ProvidersAfter({s}), s)
  /\ clients' = Invalidated(clients, t)
  /\ UNCHANGED <<rows, home, used, parent, children, crashed>>

\* No look at the dependencies, nor at what the package already holds.
reparentEntity(c, p) ==
  /\ c \in Components /\ p \in Packages
  /\ home' = [home EXCEPT ![c] = p]
  /\ parent' = [parent EXCEPT ![c] = p]
  /\ children' = Invalidated(Invalidated(children, parent[c]), p)
  /\ UNCHANGED <<rows, concrete, allowed, used, fields, providers, clients, crashed>>

----------------------------------------------------------------------------

\* setDatabaseSourcePath on the same database, in this process or a new one.
Reopen ==
  /\ parent' = home
  /\ children' = [e \in Entities |-> IF e \in rows \cap Packages THEN Content(e) ELSE Unloaded]
  /\ fields' = [e \in Entities |-> IF e \in rows THEN Row(e) ELSE NoFields]
  /\ providers' = [e \in Entities |-> Unloaded]
  /\ clients' = [e \in Entities |-> Unloaded]
  /\ crashed' = FALSE
  /\ UNCHANGED database

Init ==
  /\ rows = {} /\ used = {} /\ concrete = {} /\ allowed = {}
  /\ home = [e \in Entities |-> NoParent]
  /\ fields = [e \in Entities |-> NoFields]
  /\ parent = home
  /\ children = [e \in Entities |-> Unloaded]
  /\ providers = children /\ clients = children
  /\ crashed = FALSE

Read == \E e \in rows : ReadProviders(e) \/ ReadClients(e) \/ ReadChildren(e)
Edit ==
  \/ \E e \in Entities : \E p \in Places[e] : addPackage(e, p) \/ addComponent(e, p)
  \/ \E e \in rows : removePackage(e) \/ removeComponent(e)
  \/ \E s, t \in rows : \E type \in Types :
       addPhysicalDependency(s, t, type) \/ removePhysicalDependency(s, t, type)
  \/ \E c, p \in rows : p \in Places[c] /\ reparentEntity(c, p)

Next == Reopen \/ (~crashed /\ (Read \/ Edit))
Spec == Init /\ [][Next]_vars

----------------------------------------------------------------------------
(* Properties.                                                             *)

Lists == {Unloaded} \cup SUBSET Entities
Fields == [providerIds : SUBSET Entities, clientIds : SUBSET Entities,
           allowedIds : SUBSET Entities]

DatabaseTypeOK ==
  /\ rows \subseteq used /\ used \subseteq Entities
  /\ home \in [Entities -> Packages \cup {NoParent}]
  /\ concrete \subseteq Entities \X Entities
  /\ allowed \subseteq Packages \X Packages
NodesTypeOK ==
  /\ parent \in [Entities -> Packages \cup {NoParent}]
  /\ fields \in [Entities -> Fields]
  /\ children \in [Entities -> Lists]
  /\ providers \in [Entities -> Lists]
  /\ clients \in [Entities -> Lists]
  /\ crashed \in BOOLEAN
\* Every row's number has been given out, and every cache is unloaded or a list
\* of entities.
TypeOK == DatabaseTypeOK /\ NodesTypeOK

(***************************************************************************)
(* What a node has in memory agrees with the database whatever was edited  *)
(* since it was loaded: parent and children, its own dependencies and the  *)
(* clients of a package.  The exceptions are those the code makes: a       *)
(* removal leaves the source in the clients that the target's fields name, *)
(* which a component then shows as its clients; removeAllowedDependency    *)
(* takes a provider off the fields that the table still has; and a group's *)
(* lists may hold what its packages once implied.                          *)
(***************************************************************************)
FieldsAgree(f, e) ==
  /\ e \in Components => Clients(e) \subseteq f.clientIds
  /\ f.allowedIds = Allowed(e)
  /\ f.providerIds \subseteq Providers(e)
ListAgrees(list, direct, more) ==
  list = Unloaded \/ (direct \subseteq list /\ (more \/ list = direct))
CachesAgree ==
  \A e \in rows :
    /\ parent[e] = home[e]
    /\ children[e] \in {Unloaded, Content(e)}
    /\ FieldsAgree(fields[e], e)
    /\ ListAgrees(providers[e], Direct(e), IsGroup(e))
    /\ ListAgrees(clients[e], Clients(e), IsGroup(e) \/ e \in Components)

\* Following the dependencies of a node never meets one that is gone: an edge
\* has a node, as LakosianEdge asserts.
EdgesHaveNodes == ~crashed

(***************************************************************************)
(* Seen through the database, the storage is the graph of DependencyGraph: *)
(* what its calls decide on cached lists is what the graph allows.         *)
(***************************************************************************)
Graph == INSTANCE DependencyGraph WITH
  rows <- rows, home <- home, concrete <- concrete, allowed <- allowed
Implements == Graph!Spec
=============================================================================
