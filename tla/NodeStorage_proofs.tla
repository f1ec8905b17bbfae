------------------------ MODULE NodeStorage_proofs ------------------------
(***************************************************************************)
(* What NodeStorage keeps for every set of packages and components: its    *)
(* types, the agreement of caches and database, and the implementation of  *)
(* DependencyGraph.                                                        *)
(***************************************************************************)
EXTENDS NodeStorage, TLAPS

(***************************************************************************)
(* The database: a dependency joins what exists, except that the target of *)
(* an allowed one may be gone; whatever is gone has no parent.             *)
(***************************************************************************)
DatabaseOK ==
  /\ concrete \subseteq rows \X rows
  /\ allowed \subseteq (rows \cap Packages) \X used
  /\ \A e \in Entities : <<e, e>> \notin concrete
  /\ \A e \in rows : home[e] \in Places[e] /\ home[e] \in rows \cup {NoParent}
  /\ \A e \in Entities \ rows : home[e] = NoParent

\* A package that a group may depend on.
AsGroup(e) == home[e] = NoParent \/ e \in Standalones

\* What a group depends on are groups, or standalone packages.
LevelsOK ==
  \A s \in Packages, t \in Entities :
    <<s, t>> \in concrete \cup allowed => t \in Packages /\ (home[s] = NoParent => AsGroup(t))

\* The nodes: a number with no row has no caches, a component no children.
NodesOK ==
  /\ parent = home
  /\ \A e \in Entities \ rows :
       providers[e] = Unloaded /\ clients[e] = Unloaded /\ fields[e] = NoFields
  /\ \A e \in Entities : children[e] # Unloaded => e \in rows \cap Packages

\* The providers of a group are groups or standalone, or were, and will not become anything else.
GroupsOK ==
  \A e \in rows : IsGroup(e) /\ providers[e] # Unloaded =>
    \A x \in providers[e] : x \in used /\ AsGroup(x)

Inv == TypeOK /\ DatabaseOK /\ LevelsOK /\ NodesOK /\ GroupsOK /\ CachesAgree

USE DEF Entities, AsGroup

-----------------------------------------------------------------------------
(* What the lists that are read in a state with Inv hold.                  *)

LEMMA RowsType == Inv => rows \subseteq Entities /\ rows \subseteq used
  BY DEF Inv, TypeOK, DatabaseTypeOK

\* A group's packages are rows, are no groups, and no packages of another one.
LEMMA BelowType ==
  ASSUME Inv, NEW e \in rows
  PROVE  /\ Below(e) \subseteq rows \cap Packages
         /\ \A x \in Below(e) : home[x] = e /\ ~IsGroup(x) /\ Below(x) = {}
  BY RowsType, EntitiesAssumption DEF Inv, NodesOK, Below, Inner, Content, IsGroup

\* The direct dependencies of a row, seen from either end, are entities.
LEMMA DirectType ==
  ASSUME Inv, NEW e \in Entities
  PROVE  /\ Providers(e) \in SUBSET Entities /\ Clients(e) \in SUBSET Entities
         /\ Allowed(e) \in SUBSET Entities /\ Direct(e) \in SUBSET Entities
         /\ Row(e) \in Fields /\ FieldsAgree(Row(e), e)
  BY DEF Providers, Clients, Allowed, Direct, Row, Fields, FieldsAgree

\* A list that is loaded is a set of entities.
LEMMA ListsType ==
  ASSUME Inv, NEW e \in Entities
  PROVE  /\ providers[e] # Unloaded => providers[e] \in SUBSET Entities
         /\ clients[e] # Unloaded => clients[e] \in SUBSET Entities
         /\ children[e] # Unloaded => children[e] \in SUBSET Entities
  BY DEF Inv, TypeOK, NodesTypeOK, Lists

\* The parents of a set of entities are packages.
LEMMA AboveType ==
  ASSUME Inv, NEW X \in SUBSET Entities, NEW e \in Entities
  PROVE  Above(X, e) \in SUBSET Packages
  BY DEF Inv, TypeOK, NodesTypeOK, Above

\* providers() returns at least what the database names, and no more unless the
\* node is a group.
LEMMA ProvidersOfAgrees ==
  ASSUME Inv, NEW e \in rows
  PROVE  /\ Own(e) \in SUBSET Entities
         /\ ProvidersOf(e) \in SUBSET Entities
         /\ ListAgrees(Own(e), Direct(e), IsGroup(e))
         /\ ListAgrees(ProvidersOf(e), Direct(e), IsGroup(e))
<1>1. e \in Entities
  BY RowsType
<1>2. \A x \in rows : Own(x) \in SUBSET Entities
  BY RowsType, DirectType, ListsType DEF Own
<1>3. UNION {Own(x) : x \in Below(e)} \in SUBSET Entities
  BY <1>2, BelowType
<1>4. Above(UNION {Own(x) : x \in Below(e)}, e) \in SUBSET Entities
  BY <1>1, <1>3, AboveType
<1>5. ProvidersOf(e) \in SUBSET Entities
  BY <1>1, <1>4, DirectType, ListsType DEF ProvidersOf
<1>6. ListAgrees(providers[e], Direct(e), IsGroup(e))
  BY DEF Inv, CachesAgree
<1>7. ListAgrees(Own(e), Direct(e), IsGroup(e))
  BY <1>6 DEF Own, ListAgrees
<1>8. ListAgrees(ProvidersOf(e), Direct(e), IsGroup(e))
  <2>1. CASE providers[e] # Unloaded
    BY <1>6, <2>1 DEF ProvidersOf
  <2>2. CASE providers[e] = Unloaded /\ IsGroup(e)
    BY <2>2 DEF ProvidersOf, ListAgrees
  <2>3. CASE providers[e] = Unloaded /\ ~IsGroup(e)
    <3>1. Above(UNION {Own(x) : x \in Below(e)}, e) = {}
      BY <2>3 DEF Above, Below
    <3>2. QED
      BY <2>3, <3>1 DEF ProvidersOf, ListAgrees
  <2>4. QED
    BY <2>1, <2>2, <2>3
<1>9. QED
  BY <1>1, <1>2, <1>5, <1>7, <1>8

\* The same of clients().
LEMMA ClientsOfAgrees ==
  ASSUME Inv, NEW e \in rows
  PROVE  /\ ClientsOf(e) \in SUBSET Entities
         /\ ListAgrees(ClientsOf(e), Clients(e), IsGroup(e) \/ e \in Components)
<1>1. e \in Entities
  BY RowsType
<1>2. /\ \A x \in rows : OwnClients(x) \in SUBSET Entities
      /\ clients[e] = Unloaded => Clients(e) \subseteq OwnClients(e)
      /\ clients[e] = Unloaded /\ e \notin Components => OwnClients(e) = Clients(e)
  BY RowsType, DirectType, ListsType DEF OwnClients, Inv, CachesAgree, FieldsAgree, TypeOK, NodesTypeOK, Fields
<1>3. UNION {OwnClients(x) : x \in Below(e)} \in SUBSET Entities
  BY <1>2, BelowType
<1>4. Above(UNION {OwnClients(x) : x \in Below(e)}, e) \in SUBSET Entities
  BY <1>1, <1>3, AboveType
<1>5. ClientsOf(e) \in SUBSET Entities
  BY <1>1, <1>2, <1>4, ListsType DEF ClientsOf
<1>6. ListAgrees(clients[e], Clients(e), IsGroup(e) \/ e \in Components)
  BY DEF Inv, CachesAgree
<1>7. ListAgrees(ClientsOf(e), Clients(e), IsGroup(e) \/ e \in Components)
  <2>1. CASE clients[e] # Unloaded
    BY <1>6, <2>1 DEF ClientsOf
  <2>2. CASE clients[e] = Unloaded /\ IsGroup(e)
    BY <1>2, <2>2 DEF ClientsOf, ListAgrees
  <2>3. CASE clients[e] = Unloaded /\ ~IsGroup(e)
    <3>1. Above(UNION {OwnClients(x) : x \in Below(e)}, e) = {}
      BY <2>3 DEF Above, Below
    <3>2. QED
      BY <1>2, <2>3, <3>1 DEF ClientsOf, ListAgrees
  <2>4. QED
    BY <2>1, <2>2, <2>3
<1>8. QED
  BY <1>5, <1>7

\* children() returns what the database holds.
LEMMA ChildrenOfAgrees ==
  ASSUME Inv, NEW e \in rows
  PROVE  ChildrenOf(e) = Content(e) /\ Content(e) \in SUBSET Entities
  BY RowsType DEF Inv, CachesAgree, ChildrenOf, Content

\* What a group is told by its packages are groups or standalone packages.
LEMMA GroupProviders ==
  ASSUME Inv, NEW e \in rows, IsGroup(e), Readable(e)
  PROVE  \A x \in ProvidersOf(e) : x \in used /\ AsGroup(x)
<1>1. CASE providers[e] # Unloaded
  BY <1>1 DEF Inv, GroupsOK, ProvidersOf
<1>2. CASE providers[e] = Unloaded
  <2>1. e \in Packages /\ home[e] = NoParent
    BY DEF IsGroup, Inv, NodesOK
  <2>2. \A x \in Direct(e) : x \in used /\ AsGroup(x)
    BY <2>1, RowsType DEF Direct, Providers, Allowed, Inv, DatabaseOK, LevelsOK
  <2>3. ASSUME NEW x \in Below(e), NEW z \in Own(x), parent[z] # NoParent
        PROVE  parent[z] \in used /\ AsGroup(parent[z])
    <3>1. x \in rows \cap Packages /\ ~IsGroup(x)
      BY BelowType
    <3>2. z \in rows
      BY <1>2 DEF Readable
    <3>3. z \in Direct(x)
      BY <3>1, ProvidersOfAgrees, EntitiesAssumption, RowsType DEF ListAgrees
    <3>4. z \in Packages
      BY <3>1, <3>3, RowsType DEF Direct, Providers, Allowed, Inv, LevelsOK
    <3>5. parent[z] \in Places[z] /\ parent[z] \in rows
      BY <2>3, <3>2 DEF Inv, NodesOK, DatabaseOK
    <3>6. Places[parent[z]] = {NoParent}
      BY <2>3, <3>4, <3>5, LevelsAssumption
    <3>7. QED
      BY <3>5, <3>6, RowsType DEF Inv, DatabaseOK
  <2>4. QED
    BY <1>2, <2>2, <2>3 DEF ProvidersOf, Above
<1>3. QED
  BY <1>1, <1>2
-----------------------------------------------------------------------------
(* The caches after a read.                                                *)

\* A call to providers() loads rows; only the one it was called on is a group.
LEMMA LoadingType ==
  ASSUME Inv, NEW e \in rows
  PROVE  /\ Loading(e) \subseteq rows
         /\ \A x \in Loading(e) : x = e \/ ~IsGroup(x)
         /\ LoadingClients(e) \subseteq rows
  BY BelowType DEF Loading, LoadingClients

LEMMA ProvidersAfterOK ==
  ASSUME Inv, NEW X \in SUBSET rows, \A x \in X : Readable(x)
  PROVE  /\ ProvidersAfter(X) \in [Entities -> Lists]
         /\ \A e \in Entities \ rows : ProvidersAfter(X)[e] = Unloaded
         /\ \A e \in rows : ListAgrees(ProvidersAfter(X)[e], Direct(e), IsGroup(e))
         /\ \A e \in rows : IsGroup(e) /\ ProvidersAfter(X)[e] # Unloaded =>
              \A x \in ProvidersAfter(X)[e] : x \in used /\ AsGroup(x)
<1> DEFINE loaded == UNION {Loading(x) : x \in X}
<1>1. loaded \subseteq rows /\ \A e \in loaded : IsGroup(e) => Readable(e)
  BY LoadingType
<1>2. /\ ProvidersAfter(X) = [e \in Entities |-> IF e \in loaded THEN ProvidersOf(e) ELSE providers[e]]
      /\ \A e \in Entities : ProvidersAfter(X)[e] = IF e \in loaded THEN ProvidersOf(e) ELSE providers[e]
  BY DEF ProvidersAfter
<1> HIDE DEF loaded
<1>3. ProvidersAfter(X) \in [Entities -> Lists]
  <2>1. \A e \in loaded : ProvidersOf(e) \in Lists
    BY <1>1, ProvidersOfAgrees DEF Lists
  <2>2. \A e \in Entities : providers[e] \in Lists
    BY DEF Inv, TypeOK, NodesTypeOK
  <2>3. QED
    BY <1>2, <2>1, <2>2
<1>4. \A e \in Entities \ rows : ProvidersAfter(X)[e] = Unloaded
  BY <1>1, <1>2 DEF Inv, NodesOK
<1>5. \A e \in rows : ListAgrees(ProvidersAfter(X)[e], Direct(e), IsGroup(e))
  BY <1>2, ProvidersOfAgrees, RowsType DEF Inv, CachesAgree
<1>6. \A e \in rows : IsGroup(e) /\ ProvidersAfter(X)[e] # Unloaded =>
        \A x \in ProvidersAfter(X)[e] : x \in used /\ AsGroup(x)
  BY <1>1, <1>2, GroupProviders, RowsType DEF Inv, GroupsOK
<1>7. QED
  BY <1>3, <1>4, <1>5, <1>6

LEMMA FieldsAfterOK ==
  ASSUME Inv, NEW X \in SUBSET rows, NEW Y \in SUBSET rows
  PROVE  /\ FieldsAfter(X, Y) \in [Entities -> Fields]
         /\ \A e \in Entities \ rows : FieldsAfter(X, Y)[e] = NoFields
         /\ \A e \in rows : FieldsAgree(FieldsAfter(X, Y)[e], e)
<1> DEFINE loaded(e) == e \in UNION {Loading(x) : x \in X} \/ (e \in Y /\ children[e] = Unloaded)
<1>1. \A e \in Entities : loaded(e) => e \in rows
  BY LoadingType
<1>2. FieldsAfter(X, Y) = [e \in Entities |-> IF loaded(e) THEN Row(e) ELSE fields[e]]
  BY DEF FieldsAfter
<1> HIDE DEF loaded
<1>3. FieldsAfter(X, Y) \in [Entities -> Fields]
  BY <1>2, DirectType DEF Inv, TypeOK, NodesTypeOK
<1>4. \A e \in Entities \ rows : FieldsAfter(X, Y)[e] = NoFields
  BY <1>1, <1>2 DEF Inv, NodesOK
<1>5. \A e \in rows : FieldsAgree(FieldsAfter(X, Y)[e], e)
  BY <1>2, DirectType, RowsType DEF Inv, CachesAgree
<1>6. QED
  BY <1>3, <1>4, <1>5

LEMMA ChildrenAfterOK ==
  ASSUME Inv, NEW Y \in SUBSET (rows \cap Packages)
  PROVE  /\ ChildrenAfter(Y) \in [Entities -> Lists]
         /\ \A e \in Entities : ChildrenAfter(Y)[e] # Unloaded =>
              e \in rows \cap Packages /\ ChildrenAfter(Y)[e] = Content(e)
<1>1. \A y \in Y : ChildrenOf(y) = Content(y) /\ Content(y) \in SUBSET Entities
  BY ChildrenOfAgrees
<1>2. ChildrenAfter(Y) = [e \in Entities |-> IF e \in Y THEN ChildrenOf(e) ELSE children[e]]
  BY DEF ChildrenAfter
<1>3. ChildrenAfter(Y) \in [Entities -> Lists]
  BY <1>1, <1>2 DEF Lists, Inv, TypeOK, NodesTypeOK
<1>4. \A e \in Entities : children[e] # Unloaded => e \in rows \cap Packages /\ children[e] = Content(e)
  BY DEF Inv, NodesOK, CachesAgree
<1>5. QED
  BY <1>1, <1>2, <1>3, <1>4

(***************************************************************************)
(* A step that leaves the database alone keeps Inv if the caches it leaves *)
(* agree with that database.                                               *)
(***************************************************************************)
LEMMA ReadKeepsInv ==
  ASSUME Inv, UNCHANGED <<database, parent>>, NodesTypeOK',
         \A e \in Entities \ rows :
           providers'[e] = Unloaded /\ clients'[e] = Unloaded /\ fields'[e] = NoFields,
         \A e \in Entities : children'[e] # Unloaded =>
           e \in rows \cap Packages /\ children'[e] = Content(e),
         \A e \in rows : /\ FieldsAgree(fields'[e], e)
                         /\ ListAgrees(providers'[e], Direct(e), IsGroup(e))
                         /\ ListAgrees(clients'[e], Clients(e), IsGroup(e) \/ e \in Components),
         \A e \in rows : IsGroup(e) /\ providers'[e] # Unloaded =>
           \A x \in providers'[e] : x \in used /\ AsGroup(x)
  PROVE  Inv'
<1>1. TypeOK' /\ DatabaseOK' /\ LevelsOK'
  BY DEF Inv, TypeOK, DatabaseTypeOK, DatabaseOK, LevelsOK, database
<1>2. NodesOK' /\ GroupsOK'
  BY DEF Inv, NodesOK, GroupsOK, IsGroup, NoFields, database
<1>3. CachesAgree'
  BY RowsType DEF Inv, NodesOK, CachesAgree, FieldsAgree, ListAgrees, Content, Direct, Providers, Clients,
                  Allowed, IsGroup, database
<1>4. QED
  BY <1>1, <1>2, <1>3 DEF Inv

\* What the caches of rows and of other numbers hold now, in the form above.
LEMMA CachesNow ==
  ASSUME Inv
  PROVE  /\ \A e \in Entities \ rows :
              providers[e] = Unloaded /\ clients[e] = Unloaded /\ fields[e] = NoFields
         /\ \A e \in Entities : children[e] # Unloaded =>
              e \in rows \cap Packages /\ children[e] = Content(e)
         /\ \A e \in rows : /\ FieldsAgree(fields[e], e)
                            /\ ListAgrees(providers[e], Direct(e), IsGroup(e))
                            /\ ListAgrees(clients[e], Clients(e), IsGroup(e) \/ e \in Components)
         /\ \A e \in rows : IsGroup(e) /\ providers[e] # Unloaded =>
              \A x \in providers[e] : x \in used /\ AsGroup(x)
  BY DEF Inv, NodesOK, GroupsOK, CachesAgree

\* A node that is gone ends the program, and changes nothing.
LEMMA CrashKeepsInv ==
  ASSUME Inv, crashed' = TRUE, UNCHANGED <<database, caches>>
  PROVE  Inv'
<1>1. NodesTypeOK'
  BY DEF Inv, TypeOK, NodesTypeOK, caches
<1>2. QED
  BY <1>1, CachesNow, ReadKeepsInv DEF caches

LEMMA ReadProvidersKeepsInv ==
  ASSUME Inv, NEW e \in rows, ReadProviders(e)
  PROVE  Inv'
<1>1. CASE Readable(e)
  <2>1. /\ providers' = ProvidersAfter({e}) /\ fields' = FieldsAfter({e}, {})
        /\ UNCHANGED <<database, parent, children, clients, crashed>>
    BY <1>1 DEF ReadProviders
  <2>2. NodesTypeOK'
    BY <1>1, <2>1, ProvidersAfterOK, FieldsAfterOK DEF Inv, TypeOK, NodesTypeOK
  <2>3. /\ \A x \in Entities \ rows : providers'[x] = Unloaded
        /\ \A x \in rows : ListAgrees(providers'[x], Direct(x), IsGroup(x))
        /\ \A x \in rows : IsGroup(x) /\ providers'[x] # Unloaded =>
             \A y \in providers'[x] : y \in used /\ AsGroup(y)
    BY <1>1, <2>1, ProvidersAfterOK
  <2>4. /\ \A x \in Entities \ rows : fields'[x] = NoFields
        /\ \A x \in rows : FieldsAgree(fields'[x], x)
    BY <2>1, FieldsAfterOK
  <2>5. QED
    BY <2>1, <2>2, <2>3, <2>4, CachesNow, ReadKeepsInv
<1>2. CASE ~Readable(e)
  BY <1>2, CrashKeepsInv DEF ReadProviders
<1>3. QED
  BY <1>1, <1>2

LEMMA ReadClientsKeepsInv ==
  ASSUME Inv, NEW e \in rows, ReadClients(e)
  PROVE  Inv'
<1>1. CASE ReadableClients(e)
  <2>1. LoadingClients(e) \subseteq rows
    BY LoadingType
  <2>2. /\ clients' = [x \in Entities |-> IF x \in LoadingClients(e) THEN ClientsOf(x) ELSE clients[x]]
        /\ fields' = [x \in Entities |->
                        IF x \in LoadingClients(e) \cap Packages THEN Row(x) ELSE fields[x]]
        /\ UNCHANGED <<database, parent, children, providers, crashed>>
    BY <1>1 DEF ReadClients
  <2>3. NodesTypeOK'
    <3>1. clients' \in [Entities -> Lists]
      BY <2>1, <2>2, ClientsOfAgrees DEF Lists, Inv, TypeOK, NodesTypeOK
    <3>2. fields' \in [Entities -> Fields]
      BY <2>2, DirectType DEF Inv, TypeOK, NodesTypeOK
    <3>3. QED
      BY <2>2, <3>1, <3>2 DEF Inv, TypeOK, NodesTypeOK
  <2>4. \A x \in rows : /\ FieldsAgree(fields'[x], x)
                        /\ ListAgrees(clients'[x], Clients(x), IsGroup(x) \/ x \in Components)
    BY <2>2, ClientsOfAgrees, DirectType, RowsType, CachesNow
  <2>5. \A x \in Entities \ rows : clients'[x] = Unloaded /\ fields'[x] = NoFields
    BY <2>1, <2>2, CachesNow
  <2>6. QED
    BY <2>2, <2>3, <2>4, <2>5, CachesNow, ReadKeepsInv
<1>2. CASE ~ReadableClients(e)
  BY <1>2, CrashKeepsInv DEF ReadClients
<1>3. QED
  BY <1>1, <1>2

LEMMA ReadChildrenKeepsInv ==
  ASSUME Inv, NEW e \in rows, ReadChildren(e)
  PROVE  Inv'
<1>1. /\ e \in Entities
      /\ fields' = [fields EXCEPT ![e] = Row(e)]
      /\ UNCHANGED <<database, parent, providers, clients, crashed>>
  BY RowsType DEF ReadChildren
<1>2. /\ children' \in [Entities -> Lists]
      /\ \A x \in Entities : children'[x] # Unloaded => x \in rows \cap Packages /\ children'[x] = Content(x)
  <2>1. CASE e \in Packages /\ children' = [children EXCEPT ![e] = Content(e)]
    <3>1. children' \in [Entities -> Lists]
      BY <1>1, <2>1, ChildrenOfAgrees DEF Inv, TypeOK, NodesTypeOK, Lists
    <3>2. \A x \in Entities : children'[x] = IF x = e THEN Content(e) ELSE children[x]
      BY <2>1 DEF Inv, TypeOK, NodesTypeOK
    <3>3. QED
      BY <2>1, <3>1, <3>2, CachesNow
  <2>2. CASE UNCHANGED children
    BY <2>2, CachesNow DEF Inv, TypeOK, NodesTypeOK
  <2>3. QED
    BY <2>1, <2>2 DEF ReadChildren
<1>3. NodesTypeOK'
  BY <1>1, <1>2, DirectType DEF Inv, TypeOK, NodesTypeOK
<1>4. \A x \in Entities : fields'[x] = IF x = e THEN Row(e) ELSE fields[x]
  BY <1>1 DEF Inv, TypeOK, NodesTypeOK
<1>5. \A x \in rows : FieldsAgree(fields'[x], x)
  BY <1>4, DirectType, RowsType, CachesNow
<1>6. QED
  BY <1>1, <1>2, <1>3, <1>4, <1>5, CachesNow, ReadKeepsInv

LEMMA ReopenKeepsInv ==
  ASSUME Inv, Reopen
  PROVE  Inv'
<1>1. UNCHANGED <<database, parent>>
  BY DEF Reopen, Inv, NodesOK
<1>2. /\ \A e \in Entities : children'[e] = IF e \in rows \cap Packages THEN Content(e) ELSE Unloaded
      /\ \A e \in Entities : fields'[e] = IF e \in rows THEN Row(e) ELSE NoFields
      /\ \A e \in Entities : providers'[e] = Unloaded /\ clients'[e] = Unloaded
  BY DEF Reopen
<1>3. NoFields \in Fields
  BY DEF NoFields, Fields
<1>4. NodesTypeOK'
  BY <1>1, <1>3, DirectType, ChildrenOfAgrees DEF Reopen, Inv, TypeOK, NodesTypeOK, Lists
<1>5. \A e \in rows : FieldsAgree(fields'[e], e)
  BY <1>2, DirectType, RowsType
<1>6. QED
  BY <1>1, <1>2, <1>4, <1>5, RowsType, ReadKeepsInv DEF ListAgrees
-----------------------------------------------------------------------------
(* Adding and removing entities.                                           *)

\* The parent a row is given is a row, a package, or none.
LEMMA HomeType ==
  ASSUME Inv, NEW e \in rows
  PROVE  /\ home[e] = NoParent \/ home[e] \in rows \cap Packages
         /\ e \in Components => home[e] \in rows \cap Packages
         /\ parent[e] = home[e]
  BY RowsType, ChoicesAssumption, EntitiesAssumption DEF Inv, DatabaseOK, NodesOK

LEMMA NewNodeKeepsInv ==
  ASSUME Inv, NEW e \in Entities, NEW p \in Places[e], NewNode(e, p), p = NoParent \/ p \in rows,
         NodesTypeOK',
         \A x \in rows : x # p => children'[x] = children[x],
         p \in rows => children'[p] = Content(p) \cup {e},
         children'[e] \in {Unloaded, {}}, e \in Components => children'[e] = Unloaded,
         \A x \in Entities \ rows : x # e => children'[x] = Unloaded,
         \A x \in rows : FieldsAgree(fields'[x], x),
         \A x \in Entities \ rows : fields'[x] = NoFields
  PROVE  Inv'
<1>1. /\ e \notin used /\ e \notin rows
      /\ used' = used \cup {e} /\ rows' = rows \cup {e}
      /\ home' = [home EXCEPT ![e] = p] /\ parent' = [parent EXCEPT ![e] = p]
      /\ UNCHANGED <<concrete, allowed, providers, clients, crashed>>
  BY RowsType DEF NewNode
<1>2. p = NoParent \/ p \in rows \cap Packages
  BY ChoicesAssumption
<1>3. DatabaseTypeOK'
  BY <1>1, <1>2 DEF Inv, TypeOK, DatabaseTypeOK
<1>4. /\ \A x \in Entities : home'[x] = IF x = e THEN p ELSE home[x]
      /\ parent' = home'
  BY <1>1 DEF Inv, TypeOK, DatabaseTypeOK, NodesOK
<1>5. DatabaseOK'
  BY <1>1, <1>2, <1>4, RowsType DEF Inv, DatabaseOK
<1>6. LevelsOK'
  BY <1>1, <1>4, RowsType DEF Inv, DatabaseOK, LevelsOK
<1>7. NodesOK'
  BY <1>1, <1>2, <1>4, RowsType, EntitiesAssumption DEF Inv, NodesOK, NoFields
<1>8. \A x \in Entities : x # e => (IsGroup(x)' <=> IsGroup(x))
  BY <1>4 DEF IsGroup, Inv, NodesOK
<1>9. GroupsOK'
  BY <1>1, <1>4, <1>8, RowsType DEF Inv, NodesOK, GroupsOK
<1>10. /\ \A x \in rows : Content(x)' = IF x = p THEN Content(x) \cup {e} ELSE Content(x)
       /\ Content(e)' = {}
  <2>1. \A x : Content(x)' = {y \in rows \cup {e} : (IF y = e THEN p ELSE home[y]) = x}
    BY <1>1, <1>4, RowsType DEF Content
  <2>2. \A y \in rows : y # e /\ home[y] # e
    BY <1>1, EntitiesAssumption DEF Inv, DatabaseOK
  <2>3. p # e
    BY <1>1, <1>2, EntitiesAssumption
  <2>4. QED
    BY <2>1, <2>2, <2>3 DEF Content
<1>11. \A x \in Entities :
         Providers(x)' = Providers(x) /\ Clients(x)' = Clients(x) /\ Allowed(x)' = Allowed(x)
  BY <1>1 DEF Providers, Clients, Allowed
<1>12. Providers(e) = {} /\ Clients(e) = {} /\ Allowed(e) = {}
  BY <1>1 DEF Providers, Clients, Allowed, Inv, DatabaseOK
<1>13. CachesAgree'
  <2> SUFFICES ASSUME NEW x \in rows'
               PROVE  /\ parent'[x] = home'[x]
                      /\ children'[x] \in {Unloaded, Content(x)'}
                      /\ FieldsAgree(fields[x], x)'
                      /\ ListAgrees(providers[x], Direct(x), IsGroup(x))'
                      /\ ListAgrees(clients[x], Clients(x), IsGroup(x) \/ x \in Components)'
    BY DEF CachesAgree
  <2>1. CASE x \in rows
    <3>1. children'[x] \in {Unloaded, Content(x)'}
      BY <1>10, <2>1, RowsType DEF Inv, CachesAgree
    <3>2. FieldsAgree(fields[x], x)'
      BY <1>11, <2>1, RowsType DEF FieldsAgree
    <3>3. ListAgrees(providers[x], Direct(x), IsGroup(x))' /\ ListAgrees(clients[x], Clients(x), IsGroup(x) \/ x \in Components)'
      BY <1>1, <1>8, <1>11, <2>1, RowsType, CachesNow DEF ListAgrees, Direct
    <3>4. QED
      BY <1>4, <3>1, <3>2, <3>3
  <2>2. CASE x = e
    <3>1. fields'[x] = NoFields /\ providers'[x] = Unloaded /\ clients'[x] = Unloaded
      BY <1>1, <2>2 DEF Inv, NodesOK
    <3>2. FieldsAgree(fields[x], x)'
      BY <1>11, <1>12, <2>2, <3>1 DEF FieldsAgree, NoFields
    <3>3. QED
      BY <1>4, <1>10, <2>2, <3>1, <3>2 DEF ListAgrees
  <2>3. QED
    BY <1>1, <2>1, <2>2
<1>14. QED
  BY <1>3, <1>5, <1>6, <1>7, <1>9, <1>13 DEF Inv, TypeOK

LEMMA AddPackageKeepsInv ==
  ASSUME Inv, NEW e \in Entities, NEW p \in Places[e], addPackage(e, p)
  PROVE  Inv'
<1>1. e \in Packages /\ NewNode(e, p) /\ e \notin rows
  BY RowsType DEF addPackage, NewNode
<1>2. CASE p = NoParent /\ UNCHANGED <<fields, children>>
  <2>1. NodesTypeOK'
    BY <1>1, <1>2 DEF NewNode, Inv, TypeOK, NodesTypeOK
  <2>2. p \notin rows
    BY <1>2, RowsType, EntitiesAssumption
  <2>3. QED
    BY <1>1, <1>2, <2>1, <2>2, RowsType, EntitiesAssumption, CachesNow, NewNodeKeepsInv
<1>3. CASE /\ p \in rows
           /\ children' = [children EXCEPT ![p] = ChildrenOf(p) \cup {e}, ![e] = {}]
           /\ fields' = FieldsAfter({}, {p})
  <2>1. p \in Packages /\ p # e /\ ChildrenOf(p) = Content(p) /\ Content(p) \in SUBSET Entities
    BY <1>1, <1>3, ChoicesAssumption, ChildrenOfAgrees, RowsType, EntitiesAssumption
  <2>2. /\ FieldsAfter({}, {p}) \in [Entities -> Fields]
        /\ \A x \in Entities \ rows : FieldsAfter({}, {p})[x] = NoFields
        /\ \A x \in rows : FieldsAgree(FieldsAfter({}, {p})[x], x)
    BY <1>3, FieldsAfterOK
  <2>3. children' \in [Entities -> Lists] /\ parent' \in [Entities -> Packages \cup {NoParent}]
    BY <1>1, <1>3, <2>1 DEF NewNode, Inv, TypeOK, NodesTypeOK, Lists
  <2>4. NodesTypeOK'
    BY <1>1, <1>3, <2>2, <2>3 DEF NewNode, Inv, TypeOK, NodesTypeOK
  <2>5. \A x \in Entities : children'[x] = IF x = e THEN {} ELSE IF x = p THEN Content(p) \cup {e} ELSE children[x]
    BY <1>3, <2>1 DEF Inv, TypeOK, NodesTypeOK
  <2>6. /\ \A x \in rows : x # p => children'[x] = children[x]
        /\ children'[p] = Content(p) \cup {e} /\ children'[e] = {}
        /\ \A x \in Entities \ rows : x # e => children'[x] = Unloaded
    BY <1>1, <1>3, <2>1, <2>5, RowsType, CachesNow
  <2>7. e \notin Components
    BY <1>1, EntitiesAssumption
  <2>8. QED
    BY <1>1, <1>3, <2>2, <2>4, <2>6, <2>7, NewNodeKeepsInv
<1>4. QED
  BY <1>2, <1>3 DEF addPackage

LEMMA AddComponentKeepsInv ==
  ASSUME Inv, NEW e \in Entities, NEW p \in Places[e], addComponent(e, p)
  PROVE  Inv'
<1>1. /\ e \in Components /\ NewNode(e, p) /\ e \notin rows /\ p \in rows
      /\ children' = [children EXCEPT ![p] = Content(p) \cup {e}]
      /\ fields' = [fields EXCEPT ![p] = Row(p)]
  BY RowsType DEF addComponent, NewNode
<1>2. p \in Packages /\ p # e /\ Content(p) \in SUBSET Entities
  BY <1>1, ChoicesAssumption, ChildrenOfAgrees, RowsType, EntitiesAssumption
<1>3. children' \in [Entities -> Lists] /\ parent' \in [Entities -> Packages \cup {NoParent}]
  BY <1>1, <1>2 DEF NewNode, Inv, TypeOK, NodesTypeOK, Lists
<1>4. NodesTypeOK'
  BY <1>1, <1>3, DirectType, RowsType DEF NewNode, Inv, TypeOK, NodesTypeOK
<1>5. \A x \in Entities : /\ children'[x] = IF x = p THEN Content(p) \cup {e} ELSE children[x]
                          /\ fields'[x] = IF x = p THEN Row(p) ELSE fields[x]
  BY <1>1 DEF Inv, TypeOK, NodesTypeOK
<1>6. \A x \in rows : FieldsAgree(fields'[x], x)
  BY <1>5, DirectType, RowsType, CachesNow
<1>7. QED
  BY <1>1, <1>2, <1>4, <1>5, <1>6, RowsType, EntitiesAssumption, CachesNow, NewNodeKeepsInv

\* What nobody uses and uses nothing has no dependency in the database, but for
\* those that are allowed to use it.
LEMMA UnusedIsFree ==
  ASSUME Inv, NEW e \in rows, Unused(e)
  PROVE  Clients(e) = {} /\ Direct(e) = {}
  BY ProvidersOfAgrees, ClientsOfAgrees, EntitiesAssumption DEF Unused, ListAgrees

\* The node goes, and its parent forgets its children.
LEMMA EraseKeepsInv ==
  ASSUME Inv, NEW e \in rows, Erase(e), Content(e) = {}, Unused(e)
  PROVE  Inv'
<1> NodesTypeOK'
  <2>1. NoFields \in Fields
    BY DEF NoFields, Fields
  <2>2. QED
    BY <2>1 DEF Erase, Inv, TypeOK, NodesTypeOK, Lists
<1> /\ Clients(e) = {} /\ Direct(e) = {}
    /\ \A x \in Entities : children'[x] = IF x \in {e, home[e]} THEN Unloaded ELSE children[x]
  BY UnusedIsFree, HomeType DEF Erase
<1>1. /\ rows' = rows \ {e} /\ UNCHANGED <<concrete, allowed, used, crashed>>
      /\ home' = [home EXCEPT ![e] = NoParent] /\ parent' = [parent EXCEPT ![e] = NoParent]
      /\ fields' = [fields EXCEPT ![e] = NoFields]
      /\ providers' = [providers EXCEPT ![e] = Unloaded]
      /\ clients' = [clients EXCEPT ![e] = Unloaded]
  BY DEF Erase
<1>2. /\ \A x \in Entities : home'[x] = IF x = e THEN NoParent ELSE home[x]
      /\ parent' = home'
  BY <1>1 DEF Inv, TypeOK, DatabaseTypeOK, NodesOK
<1>3. \A x \in Entities :
        /\ fields'[x] = IF x = e THEN NoFields ELSE fields[x]
        /\ providers'[x] = IF x = e THEN Unloaded ELSE providers[x]
        /\ clients'[x] = IF x = e THEN Unloaded ELSE clients[x]
  BY <1>1 DEF Inv, TypeOK, NodesTypeOK
<1>4. DatabaseTypeOK'
  BY <1>1 DEF Inv, TypeOK, DatabaseTypeOK
<1>5. \A x \in Entities : /\ <<e, x>> \notin concrete /\ <<x, e>> \notin concrete
                          /\ <<e, x>> \notin allowed
  BY DEF Clients, Direct, Providers, Allowed
<1>6. \A x \in rows : home[x] # e
  BY DEF Content
<1>7. DatabaseOK'
  <2>1. concrete' \subseteq rows' \X rows' /\ allowed' \subseteq (rows' \cap Packages) \X used'
    <3>1. concrete \subseteq rows \X rows /\ allowed \subseteq (rows \cap Packages) \X used
      BY DEF Inv, DatabaseOK
    <3>2. ASSUME NEW r \in concrete
          PROVE  r \in rows' \X rows'
      <4>1. PICK s \in rows, t \in rows : r = <<s, t>>
        BY <3>1
      <4>2. s # e /\ t # e
        BY <1>5, <4>1, RowsType
      <4>3. QED
        BY <1>1, <4>1, <4>2
    <3>3. ASSUME NEW r \in allowed
          PROVE  r \in (rows' \cap Packages) \X used'
      <4>1. PICK s \in rows \cap Packages, t \in used : r = <<s, t>>
        BY <3>1
      <4>2. s # e
        BY <1>5, <4>1 DEF Inv, TypeOK, DatabaseTypeOK
      <4>3. QED
        BY <1>1, <4>1, <4>2
    <3>4. QED
      BY <1>1, <3>2, <3>3
  <2>2. \A x \in Entities : <<x, x>> \notin concrete'
    BY <1>1 DEF Inv, DatabaseOK
  <2>3. \A x \in rows' : home'[x] \in Places[x] /\ home'[x] \in rows' \cup {NoParent}
    BY <1>1, <1>2, <1>6, RowsType DEF Inv, DatabaseOK
  <2>4. \A x \in Entities \ rows' : home'[x] = NoParent
    BY <1>1, <1>2 DEF Inv, DatabaseOK
  <2>5. QED
    BY <2>1, <2>2, <2>3, <2>4 DEF DatabaseOK
<1>8. LevelsOK'
  <2> SUFFICES ASSUME NEW s \in Packages, NEW t \in Entities, <<s, t>> \in concrete \cup allowed,
                      s # e
               PROVE  t \in Packages /\ (home'[s] = NoParent => AsGroup(t)')
    BY <1>1, <1>5 DEF LevelsOK
  <2>1. t \in Packages /\ (home[s] = NoParent => AsGroup(t))
    BY DEF Inv, LevelsOK
  <2>2. QED
    BY <1>2, <2>1
<1>9. NodesOK'
  BY <1>1, <1>2, <1>3 DEF Inv, NodesOK, NoFields
<1>10. \A x \in Entities : x # e => (IsGroup(x)' <=> IsGroup(x))
  BY <1>2 DEF IsGroup, Inv, NodesOK
<1>11. GroupsOK'
  <2> SUFFICES ASSUME NEW x \in rows', IsGroup(x)', providers'[x] # Unloaded, NEW y \in providers'[x]
               PROVE  y \in used' /\ AsGroup(y)'
    BY DEF GroupsOK
  <2>1. x \in rows /\ x # e /\ IsGroup(x) /\ providers'[x] = providers[x]
    BY <1>1, <1>3, <1>10, RowsType
  <2>2. y \in used /\ AsGroup(y)
    BY <2>1 DEF Inv, GroupsOK
  <2>3. QED
    BY <1>1, <1>2, <2>2 DEF Inv, TypeOK, DatabaseTypeOK
<1>12. \A x \in rows' : x # home[e] => Content(x)' = Content(x)
  BY <1>1, <1>2, RowsType DEF Content
<1>13. \A x \in Entities :
         Providers(x)' = Providers(x) /\ Clients(x)' = Clients(x) /\ Allowed(x)' = Allowed(x)
  BY <1>1 DEF Providers, Clients, Allowed
<1>14. CachesAgree'
  <2> SUFFICES ASSUME NEW x \in rows'
               PROVE  /\ parent'[x] = home'[x]
                      /\ children'[x] \in {Unloaded, Content(x)'}
                      /\ FieldsAgree(fields[x], x)'
                      /\ ListAgrees(providers[x], Direct(x), IsGroup(x))'
                      /\ ListAgrees(clients[x], Clients(x), IsGroup(x) \/ x \in Components)'
    BY DEF CachesAgree
  <2>1. x \in rows /\ x # e /\ x \in Entities
    BY <1>1, RowsType
  <2>2. children'[x] \in {Unloaded, Content(x)'}
    BY <1>1, <1>12, <2>1 DEF Inv, CachesAgree
  <2>3. FieldsAgree(fields[x], x)'
    BY <1>3, <1>13, <2>1, CachesNow DEF FieldsAgree
  <2>4. ListAgrees(providers[x], Direct(x), IsGroup(x))' /\ ListAgrees(clients[x], Clients(x), IsGroup(x) \/ x \in Components)'
    BY <1>3, <1>10, <1>13, <2>1, CachesNow DEF ListAgrees, Direct
  <2>5. QED
    BY <1>2, <2>2, <2>3, <2>4
<1>15. QED
  BY <1>4, <1>7, <1>8, <1>9, <1>11, <1>14 DEF Inv, TypeOK

LEMMA RemovePackageKeepsInv ==
  ASSUME Inv, NEW e \in rows, removePackage(e)
  PROVE  Inv'
BY ChildrenOfAgrees, EraseKeepsInv DEF removePackage

LEMMA RemoveComponentKeepsInv ==
  ASSUME Inv, NEW e \in rows, removeComponent(e)
  PROVE  Inv'
<1>1. Content(e) = {}
  BY HomeType, EntitiesAssumption DEF removeComponent, Content
<1>2. QED
  BY <1>1, EraseKeepsInv DEF removeComponent
-----------------------------------------------------------------------------
(* Dependencies.                                                           *)

\* Whose lists addPhysicalDependency reads: packages that exist.
LEMMA ReadsType ==
  ASSUME Inv, NEW s \in rows, NEW t \in rows, LevelsMatch(s, t)
  PROVE  Reads(s, t) \subseteq rows \cap Packages /\ ReadsChildren(s, t) \subseteq rows \cap Packages
<1>1. ReadsChildren(s, t) \subseteq rows \cap Packages
  BY HomeType, EntitiesAssumption, ChoicesAssumption DEF ReadsChildren, LevelsMatch, IsGroup
<1>2. CASE IsGroup(s)
  BY <1>1, <1>2 DEF Reads
<1>3. CASE ~IsGroup(s)
  <2>1. parent[s] \in rows \cap Packages
    BY <1>3, HomeType, RowsType DEF IsGroup
  <2>2. IsGroup(parent[parent[s]]) => parent[parent[s]] \in rows \cap Packages
    BY <2>1, HomeType, EntitiesAssumption DEF IsGroup
  <2>3. QED
    BY <1>1, <2>1, <2>2 DEF Reads
<1>4. QED
  BY <1>2, <1>3

(***************************************************************************)
(* A step that changes the dependencies of s on t alone keeps Inv, if the  *)
(* database keeps to its rules, the fields follow, and the two lists the   *)
(* change shows in are given up.                                           *)
(***************************************************************************)
LEMMA DependencyKeepsInv ==
  ASSUME Inv, NEW s \in rows, NEW t \in rows,
         UNCHANGED <<rows, home, used, parent, crashed>>,
         concrete' \subseteq rows \X rows, allowed' \subseteq (rows \cap Packages) \X (used \cap Packages),
         \A e \in Entities : <<e, e>> \notin concrete', LevelsOK',
         \A x \in Entities : x # s => Providers(x)' = Providers(x) /\ Allowed(x)' = Allowed(x),
         \A x \in Entities : x # t => Clients(x)' = Clients(x),
         NEW ps, ps \in [Entities -> Lists], providers' = [ps EXCEPT ![s] = Unloaded],
         \A e \in Entities \ rows : ps[e] = Unloaded,
         \A e \in rows : ListAgrees(ps[e], Direct(e), IsGroup(e)),
         \A e \in rows : IsGroup(e) /\ ps[e] # Unloaded => \A x \in ps[e] : x \in used /\ AsGroup(x),
         clients' = [clients EXCEPT ![t] = Unloaded],
         children' \in [Entities -> Lists],
         \A e \in Entities : children'[e] # Unloaded => e \in rows \cap Packages /\ children'[e] = Content(e),
         fields' \in [Entities -> Fields],
         \A e \in Entities \ rows : fields'[e] = NoFields,
         \A e \in rows : FieldsAgree(fields[e], e)'
  PROVE  Inv'
<1>1. \A x \in Entities : /\ providers'[x] = IF x = s THEN Unloaded ELSE ps[x]
                          /\ clients'[x] = IF x = t THEN Unloaded ELSE clients[x]
  BY RowsType DEF Inv, TypeOK, NodesTypeOK
<1>2. providers' \in [Entities -> Lists] /\ clients' \in [Entities -> Lists]
  BY DEF Inv, TypeOK, NodesTypeOK, Lists
<1>3. TypeOK'
  <2>1. DatabaseTypeOK'
    BY RowsType DEF Inv, TypeOK, DatabaseTypeOK
  <2>2. NodesTypeOK'
    BY <1>2 DEF Inv, TypeOK, NodesTypeOK
  <2>3. QED
    BY <2>1, <2>2 DEF TypeOK
<1>4. DatabaseOK'
  <2>1. concrete' \subseteq rows' \X rows' /\ allowed' \subseteq (rows' \cap Packages) \X used'
    OBVIOUS
  <2>2. /\ \A e \in rows' : home'[e] \in Places[e] /\ home'[e] \in rows' \cup {NoParent}
        /\ \A e \in Entities \ rows' : home'[e] = NoParent
    BY DEF Inv, DatabaseOK
  <2>3. QED
    BY <2>1, <2>2 DEF DatabaseOK
<1>5. \A x : Content(x)' = Content(x) /\ (IsGroup(x)' <=> IsGroup(x))
  BY DEF Content, IsGroup
<1>6. NodesOK'
  <2>1. parent' = home'
    BY DEF Inv, NodesOK
  <2>2. \A e \in Entities \ rows : providers'[e] = Unloaded /\ clients'[e] = Unloaded /\ fields'[e] = NoFields
    BY <1>1, CachesNow
  <2>3. QED
    BY <2>1, <2>2 DEF NodesOK, NoFields
<1>7. GroupsOK'
  BY <1>1, <1>5, RowsType DEF GroupsOK
<1>8. CachesAgree'
  <2> SUFFICES ASSUME NEW x \in rows
               PROVE  /\ parent'[x] = home'[x]
                      /\ children'[x] \in {Unloaded, Content(x)'}
                      /\ FieldsAgree(fields[x], x)'
                      /\ ListAgrees(providers[x], Direct(x), IsGroup(x))'
                      /\ ListAgrees(clients[x], Clients(x), IsGroup(x) \/ x \in Components)'
    BY DEF CachesAgree
  <2>1. ListAgrees(providers[x], Direct(x), IsGroup(x))'
    <3>1. CASE x = s
      BY <1>1, <3>1, RowsType DEF ListAgrees
    <3>2. CASE x # s
      <4>1. Direct(x)' = Direct(x)
        BY <3>2, RowsType DEF Direct
      <4>2. ListAgrees(ps[x], Direct(x), IsGroup(x))
        OBVIOUS
      <4>3. QED
        BY <1>1, <1>5, <3>2, <4>1, <4>2, RowsType DEF ListAgrees
    <3>3. QED
      BY <3>1, <3>2
  <2>2. ListAgrees(clients[x], Clients(x), IsGroup(x) \/ x \in Components)'
    <3>1. ListAgrees(clients[x], Clients(x), IsGroup(x) \/ x \in Components)
      BY CachesNow
    <3>2. QED
      BY <1>1, <1>5, <3>1, RowsType DEF ListAgrees
  <2>3. children'[x] \in {Unloaded, Content(x)'}
    BY <1>5, RowsType
  <2>4. parent'[x] = home'[x]
    BY HomeType
  <2>5. QED
    BY <2>1, <2>2, <2>3, <2>4
<1>9. QED
  BY <1>3, <1>4, <1>6, <1>7, <1>8 DEF Inv

\* The fields stay lists of entities, those of other nodes empty if they were.
LEMMA WithFieldType ==
  ASSUME NEW f \in [Entities -> Fields], NEW s \in Entities, NEW t \in Entities, NEW type
  PROVE  /\ WithField(f, s, t, type) \in [Entities -> Fields]
         /\ \A e \in Entities :
              e \notin {s, t} /\ f[e] = NoFields => WithField(f, s, t, type)[e] = NoFields
<1>1. \A e \in Entities : /\ f[e].providerIds \in SUBSET Entities /\ f[e].clientIds \in SUBSET Entities
                          /\ f[e].allowedIds \in SUBSET Entities
  BY DEF Fields
<1>2. WithField(f, s, t, type) \in [Entities -> Fields]
  BY <1>1 DEF WithField, Fields
<1>3. \A e \in Entities :
        e \notin {s, t} /\ f[e] = NoFields => WithField(f, s, t, type)[e] = NoFields
  BY DEF WithField, NoFields
<1>4. QED
  BY <1>2, <1>3

LEMMA WithoutFieldType ==
  ASSUME NEW f \in [Entities -> Fields], NEW s \in Entities, NEW t \in Entities, NEW type
  PROVE  /\ WithoutField(f, s, t, type) \in [Entities -> Fields]
         /\ \A e \in Entities :
              e \notin {s, t} /\ f[e] = NoFields => WithoutField(f, s, t, type)[e] = NoFields
<1>1. \A e \in Entities : /\ f[e].providerIds \in SUBSET Entities /\ f[e].clientIds \in SUBSET Entities
                          /\ f[e].allowedIds \in SUBSET Entities
  BY DEF Fields
<1>2. WithoutField(f, s, t, type) \in [Entities -> Fields]
  BY <1>1 DEF WithoutField, Fields
<1>3. \A e \in Entities :
        e \notin {s, t} /\ f[e] = NoFields => WithoutField(f, s, t, type)[e] = NoFields
  BY DEF WithoutField, NoFields
<1>4. QED
  BY <1>2, <1>3

LEMMA AddDependencyKeepsInv ==
  ASSUME Inv, NEW s \in rows, NEW t \in rows, NEW type \in Types, addPhysicalDependency(s, t, type)
  PROVE  Inv'
<1> DEFINE F == FieldsAfter(Reads(s, t), ReadsChildren(s, t))
           ps == ProvidersAfter(Reads(s, t))
<1>1. /\ s # t /\ type \in {"concrete", "allowed"} /\ (type = "allowed" => {s, t} \subseteq Packages)
      /\ LevelsMatch(s, t) /\ Record(s, t, type)
      /\ \A x \in Reads(s, t) : Readable(x)
      /\ fields' = WithField(F, s, t, type)
      /\ children' = ChildrenAfter(ReadsChildren(s, t))
      /\ providers' = [ps EXCEPT ![s] = Unloaded]
      /\ clients' = [clients EXCEPT ![t] = Unloaded]
      /\ UNCHANGED <<rows, home, used, parent, crashed>>
  BY ChoicesAssumption DEF addPhysicalDependency, Invalidated
<1>2. Reads(s, t) \in SUBSET rows /\ ReadsChildren(s, t) \in SUBSET (rows \cap Packages)
  BY <1>1, ReadsType
<1>3. s \in Entities /\ t \in Entities /\ s \in used /\ t \in used
  BY RowsType
<1>4. /\ F \in [Entities -> Fields]
      /\ \A e \in Entities \ rows : F[e] = NoFields
      /\ \A e \in rows : FieldsAgree(F[e], e)
  BY <1>2, FieldsAfterOK
<1>5. /\ ps \in [Entities -> Lists]
      /\ \A e \in Entities \ rows : ps[e] = Unloaded
      /\ \A e \in rows : ListAgrees(ps[e], Direct(e), IsGroup(e))
      /\ \A e \in rows : IsGroup(e) /\ ps[e] # Unloaded => \A x \in ps[e] : x \in used /\ AsGroup(x)
  BY <1>1, <1>2, ProvidersAfterOK
<1>6. /\ children' \in [Entities -> Lists]
      /\ \A e \in Entities : children'[e] # Unloaded => e \in rows \cap Packages /\ children'[e] = Content(e)
  BY <1>1, <1>2, ChildrenAfterOK
<1> HIDE DEF F, ps
<1>7. /\ concrete' = IF type = "concrete" THEN concrete \cup {<<s, t>>} ELSE concrete
      /\ allowed' = IF type = "allowed" THEN allowed \cup {<<s, t>>} ELSE allowed
  BY <1>1 DEF Record
<1>8. /\ concrete' \subseteq rows \X rows
      /\ allowed' \subseteq (rows \cap Packages) \X (used \cap Packages)
      /\ \A e \in Entities : <<e, e>> \notin concrete'
  <2>1. allowed \subseteq (rows \cap Packages) \X (used \cap Packages)
    BY DEF Inv, DatabaseOK, TypeOK, DatabaseTypeOK
  <2>2. QED
    BY <1>1, <1>3, <1>7, <2>1 DEF Inv, DatabaseOK
<1>9. LevelsOK'
  <2>1. s \in Packages => t \in Packages /\ (home[s] = NoParent => AsGroup(t))
    BY <1>1, HomeType, EntitiesAssumption, ChoicesAssumption DEF LevelsMatch, IsGroup
  <2>2. QED
    BY <1>1, <1>7, <2>1 DEF Inv, LevelsOK
<1>10. \A x \in Entities :
         /\ Providers(x)' = IF x = s /\ type = "concrete" THEN Providers(x) \cup {t} ELSE Providers(x)
         /\ Allowed(x)' = IF x = s /\ type = "allowed" THEN Allowed(x) \cup {t} ELSE Allowed(x)
         /\ Clients(x)' = IF x = t /\ type = "concrete" THEN Clients(x) \cup {s} ELSE Clients(x)
  BY <1>3, <1>7 DEF Providers, Allowed, Clients
<1>11. fields' \in [Entities -> Fields]
  BY <1>1, <1>3, <1>4, WithFieldType
<1>12. \A e \in Entities \ rows : fields'[e] = NoFields
  BY <1>1, <1>3, <1>4, WithFieldType
<1>13. ASSUME NEW e \in rows
       PROVE  FieldsAgree(fields[e], e)'
  <2>1. FieldsAgree(F[e], e) /\ F[e] \in Fields /\ e \in Entities
    BY <1>4, RowsType
  <2>2. /\ fields'[e].providerIds = IF e = s /\ s \in Packages /\ type = "concrete"
                                     THEN F[e].providerIds \cup {t} ELSE F[e].providerIds
        /\ fields'[e].allowedIds = IF e = s /\ type = "allowed" THEN F[e].allowedIds \cup {t} ELSE F[e].allowedIds
        /\ fields'[e].clientIds = IF e = t /\ t \in Components THEN F[e].clientIds \cup {s} ELSE F[e].clientIds
    BY <1>1, <2>1 DEF WithField
  <2>3. QED
    BY <1>10, <2>1, <2>2 DEF FieldsAgree
<1>14. /\ \A x \in Entities : x # s => Providers(x)' = Providers(x) /\ Allowed(x)' = Allowed(x)
       /\ \A x \in Entities : x # t => Clients(x)' = Clients(x)
  BY <1>10
<1>15. QED
  BY <1>1, <1>5, <1>6, <1>8, <1>9, <1>11, <1>12, <1>13, <1>14, DependencyKeepsInv

LEMMA RemoveDependencyKeepsInv ==
  ASSUME Inv, NEW s \in rows, NEW t \in rows, NEW type \in Types, removePhysicalDependency(s, t, type)
  PROVE  Inv'
<1> DEFINE F == FieldsAfter({s}, {})
           ps == ProvidersAfter({s})
           ty == TypeOf(s, type)
<1>1. /\ ty \in {"concrete", "allowed"}
      /\ Readable(s) /\ Erased(s, t, ty)
      /\ fields' = WithoutField(F, s, t, ty)
      /\ providers' = [ps EXCEPT ![s] = Unloaded]
      /\ clients' = [clients EXCEPT ![t] = Unloaded]
      /\ UNCHANGED <<rows, home, used, parent, children, crashed>>
  BY ChoicesAssumption DEF removePhysicalDependency, Invalidated, TypeOf
<1>2. s \in Entities /\ t \in Entities
  BY RowsType
<1>3. /\ F \in [Entities -> Fields]
      /\ \A e \in Entities \ rows : F[e] = NoFields
      /\ \A e \in rows : FieldsAgree(F[e], e)
  BY FieldsAfterOK
<1>4. /\ ps \in [Entities -> Lists]
      /\ \A e \in Entities \ rows : ps[e] = Unloaded
      /\ \A e \in rows : ListAgrees(ps[e], Direct(e), IsGroup(e))
      /\ \A e \in rows : IsGroup(e) /\ ps[e] # Unloaded => \A x \in ps[e] : x \in used /\ AsGroup(x)
  BY <1>1, ProvidersAfterOK
<1>5. /\ children' \in [Entities -> Lists]
      /\ \A e \in Entities : children'[e] # Unloaded => e \in rows \cap Packages /\ children'[e] = Content(e)
  BY <1>1, CachesNow DEF Inv, TypeOK, NodesTypeOK
<1> HIDE DEF F, ps, ty
<1>6. /\ concrete' = IF ty = "concrete" THEN concrete \ {<<s, t>>} ELSE concrete
      /\ allowed' = IF ty = "allowed" THEN allowed \ {<<s, t>>} ELSE allowed
  BY <1>1 DEF Erased
<1>7. /\ concrete' \subseteq rows \X rows
      /\ allowed' \subseteq (rows \cap Packages) \X (used \cap Packages)
      /\ \A e \in Entities : <<e, e>> \notin concrete'
  BY <1>6 DEF Inv, DatabaseOK, TypeOK, DatabaseTypeOK
<1>8. LevelsOK'
  BY <1>1, <1>6 DEF Inv, LevelsOK
<1>9. \A x \in Entities :
        /\ Providers(x)' = IF x = s /\ ty = "concrete" THEN Providers(x) \ {t} ELSE Providers(x)
        /\ Allowed(x)' = IF x = s /\ ty = "allowed" THEN Allowed(x) \ {t} ELSE Allowed(x)
        /\ Clients(x)' = IF x = t /\ ty = "concrete" THEN Clients(x) \ {s} ELSE Clients(x)
  BY <1>2, <1>6 DEF Providers, Allowed, Clients
<1>10. fields' \in [Entities -> Fields]
  BY <1>1, <1>2, <1>3, WithoutFieldType
<1>11. \A e \in Entities \ rows : fields'[e] = NoFields
  BY <1>1, <1>2, <1>3, WithoutFieldType
<1>12. ASSUME NEW e \in rows
       PROVE  FieldsAgree(fields[e], e)'
  <2>1. FieldsAgree(F[e], e) /\ F[e] \in Fields /\ e \in Entities
    BY <1>3, RowsType
  <2>2. e \notin Clients(e)
    BY <2>1 DEF Clients, Inv, DatabaseOK
  <2>3. /\ fields'[e].providerIds = IF e = s THEN F[e].providerIds \ {t} ELSE F[e].providerIds
        /\ fields'[e].allowedIds = IF e = s /\ ty = "allowed" THEN F[e].allowedIds \ {t} ELSE F[e].allowedIds
        /\ fields'[e].clientIds = IF e = t THEN F[e].clientIds \ {t} ELSE F[e].clientIds
    BY <1>1, <2>1 DEF WithoutField
  <2>4. e \in Components => Clients(e)' \subseteq fields'[e].clientIds
    BY <1>9, <2>1, <2>2, <2>3 DEF FieldsAgree
  <2>5. fields'[e].allowedIds = Allowed(e)' /\ fields'[e].providerIds \subseteq Providers(e)'
    BY <1>9, <2>1, <2>3 DEF FieldsAgree
  <2>6. QED
    BY <2>4, <2>5 DEF FieldsAgree
<1>13. /\ \A x \in Entities : x # s => Providers(x)' = Providers(x) /\ Allowed(x)' = Allowed(x)
       /\ \A x \in Entities : x # t => Clients(x)' = Clients(x)
  BY <1>9
<1>14. QED
  BY <1>1, <1>4, <1>5, <1>7, <1>8, <1>10, <1>11, <1>12, <1>13, DependencyKeepsInv

LEMMA ReparentKeepsInv ==
  ASSUME Inv, NEW c \in rows, NEW p \in rows, p \in Places[c], reparentEntity(c, p)
  PROVE  Inv'
<1>1. /\ c \in Components /\ p \in Packages /\ c \in Entities /\ c \notin Packages
      /\ home' = [home EXCEPT ![c] = p] /\ parent' = [parent EXCEPT ![c] = p]
      /\ children' = [[children EXCEPT ![parent[c]] = Unloaded] EXCEPT ![p] = Unloaded]
      /\ UNCHANGED <<rows, concrete, allowed, used, fields, providers, clients, crashed>>
  BY RowsType, EntitiesAssumption DEF reparentEntity, Invalidated
<1>2. parent[c] = home[c] /\ home[c] \in rows \cap Packages
  BY <1>1, HomeType
<1>3. /\ \A x \in Entities : home'[x] = IF x = c THEN p ELSE home[x]
      /\ parent' = home'
  BY <1>1 DEF Inv, TypeOK, DatabaseTypeOK, NodesOK
<1>4. \A x \in Entities : children'[x] = IF x \in {home[c], p} THEN Unloaded ELSE children[x]
  BY <1>1, <1>2 DEF Inv, TypeOK, NodesTypeOK
<1>5. TypeOK'
  <2>1. DatabaseTypeOK'
    BY <1>1 DEF Inv, TypeOK, DatabaseTypeOK
  <2>2. children' \in [Entities -> Lists] /\ parent' \in [Entities -> Packages \cup {NoParent}]
    BY <1>1 DEF Inv, TypeOK, NodesTypeOK, Lists
  <2>3. NodesTypeOK'
    BY <1>1, <2>2 DEF Inv, TypeOK, NodesTypeOK
  <2>4. QED
    BY <2>1, <2>3 DEF TypeOK
<1>6. DatabaseOK'
  BY <1>1, <1>3, RowsType DEF Inv, DatabaseOK
<1>7. LevelsOK'
  <2> SUFFICES ASSUME NEW s \in Packages, NEW t \in Entities, <<s, t>> \in concrete \cup allowed
               PROVE  t \in Packages /\ (home'[s] = NoParent => AsGroup(t)')
    BY <1>1 DEF LevelsOK
  <2>1. t \in Packages /\ (home[s] = NoParent => AsGroup(t))
    BY DEF Inv, LevelsOK
  <2>2. QED
    BY <1>1, <1>3, <2>1
<1>8. \A x \in Entities : IsGroup(x)' <=> IsGroup(x)
  BY <1>1, <1>3 DEF IsGroup, Inv, NodesOK
<1>9. NodesOK'
  BY <1>1, <1>3, <1>4 DEF Inv, NodesOK, NoFields
<1>10. GroupsOK'
  <2> SUFFICES ASSUME NEW x \in rows, IsGroup(x), providers[x] # Unloaded, NEW y \in providers[x]
               PROVE  y \in used /\ AsGroup(y)'
    BY <1>1, <1>8, RowsType DEF GroupsOK
  <2>1. y \in used /\ AsGroup(y)
    BY DEF Inv, GroupsOK
  <2>2. y \in Entities
    BY <2>1 DEF Inv, TypeOK, DatabaseTypeOK
  <2>3. c \notin Standalones /\ home[c] # NoParent
    BY <1>1, <1>2, EntitiesAssumption, ChoicesAssumption
  <2>4. QED
    BY <1>3, <2>1, <2>2, <2>3
<1>11. \A x : x \notin {home[c], p} => Content(x)' = Content(x)
  BY <1>1, <1>3, RowsType DEF Content
<1>12. \A x \in Entities :
         Providers(x)' = Providers(x) /\ Clients(x)' = Clients(x) /\ Allowed(x)' = Allowed(x)
  BY <1>1 DEF Providers, Clients, Allowed
<1>13. CachesAgree'
  <2> SUFFICES ASSUME NEW x \in rows
               PROVE  /\ parent'[x] = home'[x]
                      /\ children'[x] \in {Unloaded, Content(x)'}
                      /\ FieldsAgree(fields[x], x)'
                      /\ ListAgrees(providers[x], Direct(x), IsGroup(x))'
                      /\ ListAgrees(clients[x], Clients(x), IsGroup(x) \/ x \in Components)'
    BY <1>1 DEF CachesAgree
  <2>1. children'[x] \in {Unloaded, Content(x)'}
    BY <1>4, <1>11, RowsType DEF Inv, CachesAgree
  <2>2. FieldsAgree(fields[x], x)'
    BY <1>1, <1>12, RowsType, CachesNow DEF FieldsAgree
  <2>3. ListAgrees(providers[x], Direct(x), IsGroup(x))' /\ ListAgrees(clients[x], Clients(x), IsGroup(x) \/ x \in Components)'
    BY <1>1, <1>8, <1>12, RowsType, CachesNow DEF ListAgrees, Direct
  <2>4. QED
    BY <1>3, <2>1, <2>2, <2>3
<1>14. QED
  BY <1>5, <1>6, <1>7, <1>9, <1>10, <1>13 DEF Inv
-----------------------------------------------------------------------------
(* The invariant, and what follows from it.                                *)

LEMMA InitInv == Init => Inv
<1> SUFFICES ASSUME Init PROVE Inv
  OBVIOUS
<1>1. NoFields \in Fields
  BY DEF NoFields, Fields
<1>2. TypeOK
  BY <1>1 DEF Init, TypeOK, DatabaseTypeOK, NodesTypeOK, Lists
<1>3. DatabaseOK /\ LevelsOK
  BY DEF Init, DatabaseOK, LevelsOK
<1>4. NodesOK /\ GroupsOK /\ CachesAgree
  BY DEF Init, NodesOK, GroupsOK, CachesAgree
<1>5. QED
  BY <1>2, <1>3, <1>4 DEF Inv

LEMMA NextInv == Inv /\ [Next]_vars => Inv'
<1> SUFFICES ASSUME Inv, [Next]_vars PROVE Inv'
  OBVIOUS
<1>1. CASE Reopen
  BY <1>1, ReopenKeepsInv
<1>2. CASE Read
  BY <1>2, ReadProvidersKeepsInv, ReadClientsKeepsInv, ReadChildrenKeepsInv DEF Read
<1>3. CASE Edit
  <2>1. ASSUME NEW e \in Entities, NEW p \in Places[e], addPackage(e, p) \/ addComponent(e, p)
        PROVE  Inv'
    BY <2>1, AddPackageKeepsInv, AddComponentKeepsInv
  <2>2. ASSUME NEW e \in rows, removePackage(e) \/ removeComponent(e)
        PROVE  Inv'
    BY <2>2, RemovePackageKeepsInv, RemoveComponentKeepsInv
  <2>3. ASSUME NEW s \in rows, NEW t \in rows, NEW type \in Types,
               addPhysicalDependency(s, t, type) \/ removePhysicalDependency(s, t, type)
        PROVE  Inv'
    BY <2>3, AddDependencyKeepsInv, RemoveDependencyKeepsInv
  <2>4. ASSUME NEW c \in rows, NEW p \in rows, p \in Places[c], reparentEntity(c, p)
        PROVE  Inv'
    BY <2>4, ReparentKeepsInv
  <2>5. QED
    BY <1>3, <2>1, <2>2, <2>3, <2>4 DEF Edit
<1>4. CASE UNCHANGED vars
  <2>1. UNCHANGED <<database, caches, crashed>>
    BY <1>4 DEF vars
  <2>2. NodesTypeOK'
    BY <2>1 DEF Inv, TypeOK, NodesTypeOK, caches
  <2>3. QED
    BY <2>1, <2>2, CachesNow, ReadKeepsInv DEF caches
<1>5. QED
  BY <1>1, <1>2, <1>3, <1>4 DEF Next

\* Inv holds in every state that calls on the storage can lead to.
THEOREM Invariant == Spec => []Inv
<1>1. QED
  BY InitInv, NextInv, PTL DEF Spec

\* Every number in the database has been given out, and every list in memory is
\* unloaded or a set of entities.
THEOREM TypeCorrect == Spec => []TypeOK
<1>1. Inv => TypeOK
  BY DEF Inv
<1>2. QED
  BY <1>1, Invariant, PTL

\* However nodes are read and edited, what they have in memory agrees with the
\* database, but for what CachesAgree excepts.
THEOREM CachesCorrect == Spec => []CachesAgree
<1>1. Inv => CachesAgree
  BY DEF Inv
<1>2. QED
  BY <1>1, Invariant, PTL
-----------------------------------------------------------------------------
(* The storage implements the graph: every call is a step of it or none.   *)

USE DEF Graph!Entities

LEMMA AddImplements ==
  ASSUME Inv, NEW e \in Entities, NEW p \in Places[e], addPackage(e, p) \/ addComponent(e, p)
  PROVE  Graph!Add(e, p)
<1>1. /\ NewNode(e, p) /\ e \notin used /\ e \notin rows
      /\ p \in rows \/ (p = NoParent /\ e \in Packages)
  BY RowsType DEF addPackage, addComponent, NewNode
<1>2. p \in rows \cap Packages \/ (p = NoParent /\ e \in Packages)
  BY <1>1, RowsType, ChoicesAssumption, EntitiesAssumption
<1>3. \A x \in Entities : ~Graph!Uses(e, x) /\ ~Graph!Uses(x, e)
  BY <1>1 DEF Graph!Uses, Inv, DatabaseOK
<1>4. QED
  BY <1>1, <1>2, <1>3 DEF Graph!Add, NewNode

LEMMA RemoveImplements ==
  ASSUME Inv, NEW e \in rows, removePackage(e) \/ removeComponent(e)
  PROVE  Graph!Remove(e)
<1>1. Unused(e) /\ Erase(e)
  BY DEF removePackage, removeComponent
<1>2. Clients(e) = {} /\ Direct(e) = {}
  BY <1>1, UnusedIsFree
<1>3. Content(e) = {}
  <2>1. CASE removePackage(e)
    BY <2>1, ChildrenOfAgrees DEF removePackage
  <2>2. CASE removeComponent(e)
    BY <2>2, HomeType, EntitiesAssumption DEF removeComponent, Content
  <2>3. QED
    BY <2>1, <2>2
<1>4. \A x \in Entities : <<x, e>> \notin concrete /\ ~Graph!Uses(e, x)
  BY <1>2 DEF Clients, Direct, Providers, Allowed, Graph!Uses
<1>5. \A x \in rows : home[x] # e
  BY <1>3 DEF Content
<1>6. QED
  BY <1>1, <1>4, <1>5 DEF Graph!Remove, Erase

(***************************************************************************)
(* addPhysicalDependency asks for a dependency between the parents where   *)
(* the graph does: what a package is told it provides is in the database,  *)
(* and where a group is asked, the target's parent is a group itself.      *)
(***************************************************************************)
LEMMA ParentsRelated ==
  ASSUME Inv, NEW s \in rows \cap Components, NEW t \in rows \cap Components,
         \A x \in Reads(s, t) : Readable(x), LevelsMatch(s, t), ParentsDepend(s, t)
  PROVE  Graph!Related(s, t)
<1>1. /\ parent[s] = home[s] /\ parent[t] = home[t]
      /\ home[s] \in rows \cap Packages /\ home[t] \in rows \cap Packages
  BY HomeType
<1>2. ~IsGroup(s)
  BY EntitiesAssumption DEF IsGroup
<1>3. CASE parent[s] = parent[t]
  BY <1>1, <1>3 DEF Graph!Related
<1>4. CASE \E x \in Reads(s, t) : parent[t] \in ProvidersOf(x)
  <2>1. PICK x \in Reads(s, t) : parent[t] \in ProvidersOf(x)
    BY <1>4
  <2>2. x \in rows \cap Packages /\ Readable(x)
    BY <2>1, ReadsType
  <2>3. CASE IsGroup(x)
    BY <1>1, <2>1, <2>2, <2>3, GroupProviders DEF Graph!Related
  <2>4. CASE ~IsGroup(x)
    <3>1. x = home[s]
      BY <1>1, <2>1, <2>4 DEF Reads
    <3>2. home[t] \in Direct(x)
      BY <1>1, <2>1, <2>2, <2>4, ProvidersOfAgrees, EntitiesAssumption DEF ListAgrees
    <3>3. QED
      BY <3>1, <3>2 DEF Direct, Providers, Allowed, Graph!Related, Graph!Uses
  <2>5. QED
    BY <2>3, <2>4
<1>5. QED
  BY <1>2, <1>3, <1>4 DEF ParentsDepend

LEMMA AddDependencyImplements ==
  ASSUME Inv, NEW s \in rows, NEW t \in rows, NEW type \in Types, addPhysicalDependency(s, t, type)
  PROVE  Graph!Connect(s, t) \/ Graph!Allow(s, t)
<1>1. /\ s # t /\ (type = "allowed" => {s, t} \subseteq Packages)
      /\ LevelsMatch(s, t) /\ ParentsDepend(s, t) /\ \A x \in Reads(s, t) : Readable(x)
      /\ Record(s, t, type) /\ UNCHANGED <<rows, home>>
  BY DEF addPhysicalDependency
<1>2. Graph!SameLevel(s, t)
  <2>1. CASE {s, t} \subseteq Packages
    BY <1>1, <2>1, HomeType, EntitiesAssumption, ChoicesAssumption DEF LevelsMatch, IsGroup, Graph!SameLevel
  <2>2. CASE {s, t} \subseteq Components
    BY <1>1, <2>2, ParentsRelated DEF Graph!SameLevel
  <2>3. QED
    BY <1>1, <2>1, <2>2, HomeType, EntitiesAssumption, ChoicesAssumption DEF LevelsMatch, IsGroup
<1>3. CASE type = "concrete"
  BY <1>1, <1>2, <1>3 DEF Record, Graph!Connect
<1>4. CASE type = "allowed"
  BY <1>1, <1>2, <1>4 DEF Record, Graph!Allow
<1>5. QED
  BY <1>1, <1>3, <1>4 DEF Record

LEMMA NextImplements ==
  ASSUME Inv, [Next]_vars
  PROVE  [Graph!Next]_(Graph!gvars)
<1>1. CASE UNCHANGED database
  BY <1>1 DEF database, Graph!gvars
<1>2. CASE Reopen
  BY <1>1, <1>2 DEF Reopen
<1>3. CASE Read
  BY <1>1, <1>3 DEF Read, ReadProviders, ReadClients, ReadChildren, database
<1>4. CASE Edit
  <2>1. ASSUME NEW e \in Entities, NEW p \in Places[e], addPackage(e, p) \/ addComponent(e, p)
        PROVE  Graph!Next
    <3>1. Graph!Add(e, p)
      BY <2>1, AddImplements
    <3>2. e \notin rows /\ p \in rows \cup {NoParent}
      BY <3>1 DEF Graph!Add
    <3>3. QED
      BY <3>1, <3>2 DEF Graph!Next
  <2>2. ASSUME NEW e \in rows, removePackage(e) \/ removeComponent(e)
        PROVE  Graph!Next
    BY <2>2, RemoveImplements, RowsType DEF Graph!Next
  <2>3. ASSUME NEW s \in rows, NEW t \in rows, NEW type \in Types, addPhysicalDependency(s, t, type)
        PROVE  Graph!Next
    BY <2>3, AddDependencyImplements DEF Graph!Next
  <2>4. ASSUME NEW s \in rows, NEW t \in rows, NEW type \in Types, removePhysicalDependency(s, t, type)
        PROVE  Graph!Next
    BY <2>4 DEF removePhysicalDependency, Erased, Graph!Disconnect, Graph!Disallow, Graph!Next
  <2>5. ASSUME NEW c \in rows, NEW p \in rows, reparentEntity(c, p)
        PROVE  Graph!Next
    BY <2>5 DEF reparentEntity, Graph!Move, Graph!Next
  <2>6. QED
    BY <1>4, <2>1, <2>2, <2>3, <2>4, <2>5 DEF Edit
<1>5. QED
  BY <1>1, <1>2, <1>3, <1>4 DEF Next, vars

\* Seen through the database, the storage is the graph: what its calls decide
\* on cached lists is what the graph allows.
THEOREM Implementation == Spec => Implements
<1>1. Init => Graph!Init
  BY DEF Init, Graph!Init
<1>2. Inv /\ [Next]_vars => [Graph!Next]_(Graph!gvars)
  BY NextImplements
<1>3. QED
  BY <1>1, <1>2, Invariant, PTL DEF Spec, Implements, Graph!Spec
=============================================================================
