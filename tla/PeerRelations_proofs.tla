------------------------ MODULE PeerRelations_proofs ------------------------
(***************************************************************************)
(* Proofs about PeerRelations, for every pool of threads, every code base  *)
(* and every place of the objects in memory: locks are taken in one order, *)
(* both ends of a relation agree, what can be looked up is listed, and     *)
(* each step adds one relation the code base implies or none.              *)
(***************************************************************************)
EXTENDS PeerRelations, SequenceTheorems, FiniteSetTheorems,
        WellFoundedInduction, TLAPS

(* The threads hold the locks their places call for, and no other.         *)
Owns(t, o) ==
  \/ pc[t] \in {"file", "component", "package"} /\ o = MemDb
  \/ pc[t] = "upper" /\ o = Lower(Relation(t))
  \/ pc[t] \in {"forward", "reverse"} /\ (o = Relation(t)[1] \/ o = Relation(t)[2])

Owners == \A o \in Locks : \A t \in Threads : holder[o] = t <=> Owns(t, o)

Peer(p) == p \in Pairs /\ p \in Wanted /\ p[1] # p[2]

Relations ==
  \A t \in Threads :
    /\ \A i \in 1..Len(ahead[t]) : Peer(ahead[t][i])
    /\ pc[t] \in {"lower", "upper", "forward", "reverse"} => ahead[t] # <<>>

InUnit == \A t \in Threads : at[t] \in 0..Len(Directives[t])

(* A relation is in one list only while a thread is between the two.       *)
HalfWay(p) == \E t \in Threads : pc[t] = "reverse" /\ Relation(t) = p

Counts == \A p \in Pairs : fwd[p] = rev[p] + IF HalfWay(p) THEN 1 ELSE 0

OnlyWanted == \A p \in Pairs : fwd[p] > 0 => p \in Wanted

Listing(f, places) == \E t \in Threads : pc[t] \in places /\ CurrentFile(t) = f

Listed ==
  \A f \in inStore :
    /\ f \in filed \/ Listing(f, {"component"})
    /\ CompOf[f] \in packaged \/ Listing(f, {"component", "package"})

IInv == TypeOK /\ InUnit /\ Relations /\ Owners /\ Counts /\ OnlyWanted /\ Listed

-----------------------------------------------------------------------------
(* The relations of a directive.                                           *)

LEMMA ConcatOf ==
  ASSUME NEW S, NEW a \in Seq(S), NEW b \in Seq(S)
  PROVE  a \o b \in Seq(S)
  BY ConcatProperties

LEMMA BetweenType ==
  ASSUME NEW S, NEW a, NEW b, a # b => <<a, b>> \in S
  PROVE  /\ Between(a, b) \in Seq(S)
         /\ \A i \in 1..Len(Between(a, b)) : Between(a, b)[i] = <<a, b>> /\ a # b
  <1>1. CASE a = b
    BY <1>1 DEF Between
  <1>2. CASE a # b
    BY <1>2 DEF Between
  <1> QED
    BY <1>1, <1>2

(* Peers: sequences of relations of different objects.                     *)
Peers == {p \in Pairs : p[1] # p[2]}

LEMMA PackagePeers ==
  ASSUME NEW a \in Packages, NEW b \in Packages
  PROVE  Between(a, b) \in Seq(Peers)
  BY BetweenType DEF Peers, Pairs

LEMMA RelationsOfType ==
  ASSUME NEW f \in Files, NEW g \in Files
  PROVE  RelationsOf(f, g) \in Seq(Peers)
  <1> DEFINE p == Package(f)
             q == Package(g)
  <1>1. CompOf[f] \in Components /\ CompOf[g] \in Components /\ p \in Packages /\ q \in Packages
    BY Placed DEF Package
  <1>2. GroupOf[p] \in Packages \cup {NoGroup} /\ GroupOf[q] \in Packages \cup {NoGroup}
    BY <1>1, Placed
  <1>3. Between(CompOf[f], CompOf[g]) \in Seq(Peers)
    BY <1>1, BetweenType DEF Peers, Pairs
  <1>4. Between(p, q) \in Seq(Peers)
    BY <1>1, PackagePeers
  <1>5. ForGroups(p, q) \in Seq(Peers)
    <2>1. CASE p # q /\ GroupOf[p] = NoGroup /\ GroupOf[q] # NoGroup
      <3>1. ForGroups(p, q) = Between(p, GroupOf[q])
        BY <2>1 DEF ForGroups
      <3>2. GroupOf[q] \in Packages
        BY <1>2, <2>1
      <3> HIDE DEF p, q
      <3> QED
        BY <1>1, <3>1, <3>2, PackagePeers
    <2>2. CASE p # q /\ GroupOf[p] # NoGroup /\ GroupOf[q] = NoGroup
      <3>1. ForGroups(p, q) = Between(GroupOf[p], q)
        BY <2>2 DEF ForGroups
      <3>2. GroupOf[p] \in Packages
        BY <1>2, <2>2
      <3> HIDE DEF p, q
      <3> QED
        BY <1>1, <3>1, <3>2, PackagePeers
    <2>3. CASE p = q
      BY <2>3 DEF ForGroups
    <2>4. CASE p # q /\ ~ (GroupOf[p] = NoGroup /\ GroupOf[q] # NoGroup)
                     /\ ~ (GroupOf[p] # NoGroup /\ GroupOf[q] = NoGroup)
      <3>1. ForGroups(p, q) = <<>>
        BY <2>4 DEF ForGroups
      <3> QED
        BY <3>1
    <2> QED
      BY <2>1, <2>2, <2>3, <2>4
  <1>6. CASE f = g
    BY <1>6 DEF RelationsOf
  <1>7. CASE f # g
    <2>1. <<<<f, g>>>> \in Seq(Peers)
      BY <1>7 DEF Peers, Pairs
    <2>2. RelationsOf(f, g) =
            <<<<f, g>>>> \o Between(CompOf[f], CompOf[g]) \o Between(p, q) \o ForGroups(p, q)
      BY <1>7 DEF RelationsOf
    <2> HIDE DEF p, q
    <2>3. <<<<f, g>>>> \o Between(CompOf[f], CompOf[g]) \in Seq(Peers)
      BY <2>1, <1>3, ConcatOf
    <2>4. <<<<f, g>>>> \o Between(CompOf[f], CompOf[g]) \o Between(p, q) \in Seq(Peers)
      BY <2>3, <1>4, ConcatOf
    <2> QED
      BY <2>2, <2>4, <1>5, ConcatOf
  <1> QED
    BY <1>6, <1>7

LEMMA DirectiveWanted ==
  ASSUME NEW t \in Threads, NEW n \in 1..Len(Directives[t])
  PROVE  LET d == Directives[t][n]
         IN  /\ d[1] \in Files /\ d[2] \in Files
             /\ RelationsOf(d[1], d[2]) \in Seq(Pairs)
             /\ \A i \in 1..Len(RelationsOf(d[1], d[2])) : Peer(RelationsOf(d[1], d[2])[i])
  <1> DEFINE d == Directives[t][n]
             R == RelationsOf(d[1], d[2])
  <1>1. d \in Files \X Files
    BY Work, ElementOfSeq
  <1>2. d[1] \in Files /\ d[2] \in Files
    BY <1>1
  <1>3. R \in Seq(Peers)
    BY <1>2, RelationsOfType
  <1>4. R \in Seq(Pairs)
    BY <1>3, SeqDef DEF Peers
  <1>5. ASSUME NEW i \in 1..Len(R) PROVE Peer(R[i])
    <2>1. R[i] \in Peers
      BY <1>3, ElementOfSeq
    <2>2. R[i] \in Wanted
      BY DEF Wanted
    <2> QED
      BY <2>1, <2>2 DEF Peers, Peer
  <1> QED
    BY <1>2, <1>4, <1>5

LEMMA CurrentFileType ==
  ASSUME TypeOK, InUnit, NEW t \in Threads
  PROVE  CurrentFile(t) \in Files
  <1>1. CASE at[t] = 0
    BY <1>1, Work DEF CurrentFile
  <1>2. CASE at[t] # 0
    <2>1. at[t] \in 1..Len(Directives[t])
      BY <1>2, Work DEF InUnit, TypeOK
    <2> QED
      BY <1>2, <2>1, DirectiveWanted DEF CurrentFile
  <1> QED
    BY <1>1, <1>2

LEMMA ObjectsOfFile ==
  ASSUME NEW f \in Files
  PROVE  CompOf[f] \in Components /\ Package(f) \in Packages
  BY Placed DEF Package

LEMMA PeerType ==
  ASSUME NEW p, Peer(p)
  PROVE  /\ p[1] \in Objects /\ p[2] \in Objects /\ p[1] # p[2]
         /\ Lower(p) \in {p[1], p[2]} /\ Upper(p) \in {p[1], p[2]} /\ Lower(p) # Upper(p)
         /\ Lower(p) \in Locks /\ Upper(p) \in Locks
         /\ Address[Lower(p)] < Address[Upper(p)]
  <1>1. p[1] \in Objects /\ p[2] \in Objects /\ p[1] # p[2]
    BY DEF Peer, Pairs, Objects
  <1>2. Address[p[1]] \in Nat /\ Address[p[2]] \in Nat /\ Address[p[1]] # Address[p[2]]
    BY <1>1, Memory
  <1> QED
    BY <1>1, <1>2 DEF Lower, Upper, Locks

LEMMA RelationPeer ==
  ASSUME TypeOK, Relations, NEW t \in Threads, ahead[t] # <<>>
  PROVE  Peer(Relation(t)) /\ Relation(t) \in Pairs
  <1>1. ahead[t] \in Seq(Pairs)
    BY DEF TypeOK
  <1>2. Len(ahead[t]) \in Nat \ {0}
    BY <1>1
  <1>3. Relation(t) = ahead[t][1]
    BY <1>1 DEF Relation
  <1> QED
    BY <1>2, <1>3 DEF Relations, Peer

-----------------------------------------------------------------------------
(* What a step leaves alone.                                               *)

(* A thread's place, directive and relations are the business of its own   *)
(* steps.                                                                  *)
LEMMA OthersStay ==
  ASSUME TypeOK, NEW t \in Threads, NEW u \in Threads, u # t, ThreadStep(t)
  PROVE  pc'[u] = pc[u] /\ at'[u] = at[u] /\ ahead'[u] = ahead[u]
  BY DEF ThreadStep, Lookup, LockStore, AddFile, ListFile, ListComponent, Check, LockLower,
         LockUpper, PushForward, PushReverse, Proceed, Goto, Written, TypeOK

(* ... so what only depends on these stays for the others.                 *)
LEMMA OthersRelation ==
  ASSUME NEW u \in Threads, pc'[u] = pc[u], at'[u] = at[u], ahead'[u] = ahead[u]
  PROVE  /\ Relation(u)' = Relation(u)
         /\ CurrentFile(u)' = CurrentFile(u)
         /\ \A o : Owns(u, o)' <=> Owns(u, o)
  <1>1. Relation(u)' = Relation(u) /\ CurrentFile(u)' = CurrentFile(u)
    BY DEF Relation, CurrentFile
  <1>2. Lower(Relation(u))' = Lower(Relation(u))
    BY <1>1 DEF Lower
  <1> QED
    BY <1>1, <1>2 DEF Owns

-----------------------------------------------------------------------------
(* Types, and the relations a thread is to add.                            *)

Shape == TypeOK /\ InUnit /\ Relations

LEMMA WrittenShape ==
  ASSUME Shape, NEW t \in Threads, Written(t)
  PROVE  /\ pc' \in [Threads -> Places] /\ ahead' \in [Threads -> Seq(Pairs)]
         /\ Relations'
  <1> DEFINE R == IF at[t] = 0 THEN <<>>
                  ELSE RelationsOf(Directives[t][at[t]][1], Directives[t][at[t]][2])
  <1>1. R \in Seq(Pairs) /\ \A i \in 1..Len(R) : Peer(R[i])
    <2>1. CASE at[t] = 0
      BY <2>1
    <2>2. CASE at[t] # 0
      <3>1. at[t] \in 1..Len(Directives[t])
        BY <2>2, Work DEF Shape, InUnit, TypeOK
      <3> QED
        BY <2>2, <3>1, DirectiveWanted
    <2> QED
      BY <2>1, <2>2
  <1>2. ahead' = [ahead EXCEPT ![t] = R] /\ pc' = [pc EXCEPT ![t] = "check"]
    BY DEF Written, Goto
  <1> HIDE DEF R
  <1>3. pc' \in [Threads -> Places] /\ ahead' \in [Threads -> Seq(Pairs)]
    BY <1>1, <1>2 DEF Shape, TypeOK, Places
  <1>4. ASSUME NEW u \in Threads
        PROVE  /\ \A i \in 1..Len(ahead'[u]) : Peer(ahead'[u][i])
               /\ pc'[u] \in {"lower", "upper", "forward", "reverse"} => ahead'[u] # <<>>
    <2>1. CASE u = t
      BY <1>1, <1>2, <2>1 DEF Shape, TypeOK
    <2>2. CASE u # t
      BY <1>2, <2>2 DEF Shape, TypeOK, Relations
    <2> QED
      BY <2>1, <2>2
  <1> QED
    BY <1>3, <1>4 DEF Relations, Peer

(* A step that leaves the relations ahead alone, and the place too, or     *)
(* goes to a place where they matter only if there are any.                *)
LEMMA SameAhead ==
  ASSUME Shape, NEW t \in Threads, ahead' = ahead, NEW place \in Places, Goto(t, place),
         place \in {"lower", "upper", "forward", "reverse"} => ahead[t] # <<>>
  PROVE  pc' \in [Threads -> Places] /\ Relations'
  <1>1. pc' = [pc EXCEPT ![t] = place]
    BY DEF Goto
  <1> QED
    BY <1>1 DEF Shape, TypeOK, Relations, Peer

(* One relation less.                                                      *)
LEMMA OneLess ==
  ASSUME Shape, NEW t \in Threads, ahead[t] # <<>>, ahead' = [ahead EXCEPT ![t] = Tail(@)],
         NEW place \in {"check"}, pc' = [pc EXCEPT ![t] = place]
  PROVE  ahead' \in [Threads -> Seq(Pairs)] /\ Relations'
  <1>1. ahead[t] \in Seq(Pairs)
    BY DEF Shape, TypeOK
  <1>2. /\ Tail(ahead[t]) \in Seq(Pairs)
        /\ Len(ahead[t]) \in Nat /\ Len(Tail(ahead[t])) = Len(ahead[t]) - 1
        /\ \A i \in 1..Len(Tail(ahead[t])) : Tail(ahead[t])[i] = ahead[t][i + 1]
    BY <1>1, HeadTailProperties
  <1>3. \A i \in 1..Len(Tail(ahead[t])) : Peer(Tail(ahead[t])[i])
    BY <1>2 DEF Shape, Relations
  <1>4. ahead' \in [Threads -> Seq(Pairs)]
    BY <1>2 DEF Shape, TypeOK
  <1>5. ASSUME NEW u \in Threads
        PROVE  /\ \A i \in 1..Len(ahead'[u]) : Peer(ahead'[u][i])
               /\ pc'[u] \in {"lower", "upper", "forward", "reverse"} => ahead'[u] # <<>>
    <2>1. CASE u = t
      BY <1>3, <2>1 DEF Shape, TypeOK
    <2>2. CASE u # t
      BY <2>2 DEF Shape, TypeOK, Relations
    <2> QED
      BY <2>1, <2>2
  <1> QED
    BY <1>4, <1>5 DEF Relations, Peer

LEMMA ShapeStep ==
  ASSUME Shape, NEW t \in Threads, ThreadStep(t)
  PROVE  Shape'
  <1> USE DEF Shape
  <1>f. CurrentFile(t) \in Files /\ CompOf[CurrentFile(t)] \in Components
    BY CurrentFileType, ObjectsOfFile
  <1>p. ASSUME ahead[t] # <<>>
        PROVE  /\ Relation(t) \in Pairs /\ Relation(t)[1] \in Locks /\ Relation(t)[2] \in Locks
               /\ Lower(Relation(t)) \in Locks /\ Upper(Relation(t)) \in Locks
    BY <1>p, RelationPeer, PeerType DEF Locks
  <1>1. CASE Lookup(t)
    <2>1. CASE Written(t)
      BY <1>1, <2>1, WrittenShape DEF Lookup, TypeOK, InUnit
    <2>2. CASE Goto(t, "create") /\ UNCHANGED ahead
      BY <1>1, <2>2, SameAhead DEF Lookup, TypeOK, InUnit, Places
    <2> QED
      BY <1>1, <2>1, <2>2 DEF Lookup
  <1>2. CASE LockStore(t)
    BY <1>2, SameAhead DEF LockStore, TypeOK, InUnit, Places, Locks
  <1>3. CASE AddFile(t)
    BY <1>3, <1>f, SameAhead DEF AddFile, TypeOK, InUnit, Places
  <1>4. CASE ListFile(t)
    BY <1>4, <1>f, SameAhead DEF ListFile, TypeOK, InUnit, Places
  <1>5. CASE ListComponent(t)
    BY <1>5, <1>f, WrittenShape DEF ListComponent, TypeOK, InUnit, Locks
  <1>6. CASE Check(t)
    <2>1. CASE ahead' = [ahead EXCEPT ![t] = Tail(@)] /\ UNCHANGED pc
      <3>1. pc' = [pc EXCEPT ![t] = "check"]
        BY <1>6, <2>1 DEF Check, TypeOK
      <3> QED
        BY <1>6, <2>1, <3>1, OneLess DEF Check, TypeOK, InUnit
    <2>2. CASE Goto(t, "lower") /\ UNCHANGED ahead
      BY <1>6, <2>2, SameAhead DEF Check, TypeOK, InUnit, Places
    <2> QED
      BY <1>6, <2>1, <2>2 DEF Check
  <1>7. CASE LockLower(t)
    <2>1. ahead[t] # <<>>
      BY <1>7 DEF LockLower, Relations
    <2> QED
      BY <1>7, <1>p, <2>1, SameAhead DEF LockLower, TypeOK, InUnit, Places
  <1>8. CASE LockUpper(t)
    <2>1. ahead[t] # <<>>
      BY <1>8 DEF LockUpper, Relations
    <2> QED
      BY <1>8, <1>p, <2>1, SameAhead DEF LockUpper, TypeOK, InUnit, Places
  <1>9. CASE PushForward(t)
    <2>1. ahead[t] # <<>>
      BY <1>9 DEF PushForward, Relations
    <2>2. Relations' /\ pc' \in [Threads -> Places]
      BY <1>9, <2>1, SameAhead DEF PushForward, Places
    <2>3. fwd' \in [Pairs -> Nat]
      BY <1>9, <1>p, <2>1 DEF PushForward, TypeOK
    <2> QED
      BY <1>9, <2>2, <2>3 DEF PushForward, TypeOK, InUnit
  <1>10. CASE PushReverse(t)
    <2>1. ahead[t] # <<>>
      BY <1>10 DEF PushReverse, Relations
    <2>2. pc' = [pc EXCEPT ![t] = "check"]
      BY <1>10 DEF PushReverse, Goto
    <2>3. Relations' /\ ahead' \in [Threads -> Seq(Pairs)]
      BY <1>10, <2>1, <2>2, OneLess DEF PushReverse
    <2>4. rev' \in [Pairs -> Nat]
      BY <1>10, <1>p, <2>1 DEF PushReverse, TypeOK
    <2>5. holder' \in [Locks -> Threads \cup {NoThread}]
      BY <1>10 DEF PushReverse, TypeOK
    <2> QED
      BY <1>10, <2>2, <2>3, <2>4, <2>5 DEF PushReverse, TypeOK, InUnit, Places
  <1>11. CASE Proceed(t)
    <2>1. CASE at[t] < Len(Directives[t]) /\ Goto(t, "lookup") /\ at' = [at EXCEPT ![t] = @ + 1]
      <3>1. Len(Directives[t]) \in Nat /\ at[t] + 1 \in 0..Len(Directives[t])
        BY <2>1, Work DEF TypeOK, InUnit
      <3> QED
        BY <1>11, <2>1, <3>1, SameAhead DEF Proceed, TypeOK, InUnit, Places
    <2>2. CASE Goto(t, "done") /\ UNCHANGED at
      BY <1>11, <2>2, SameAhead DEF Proceed, TypeOK, InUnit, Places
    <2> QED
      BY <1>11, <2>1, <2>2 DEF Proceed
  <1> QED
    BY <1>1, <1>2, <1>3, <1>4, <1>5, <1>6, <1>7, <1>8, <1>9, <1>10, <1>11 DEF ThreadStep

-----------------------------------------------------------------------------
(* Who holds which lock.                                                   *)

LEMMA OwnersFor ==
  ASSUME Shape, Owners, NEW t \in Threads, ThreadStep(t),
         \A o \in Locks : holder[o] # holder'[o] =>
            holder[o] \in {t, NoThread} /\ holder'[o] \in {t, NoThread},
         \A o \in Locks : holder'[o] = t <=> Owns(t, o)'
  PROVE  Owners'
  <1> SUFFICES ASSUME NEW o \in Locks, NEW u \in Threads
               PROVE  (holder[o] = u <=> Owns(u, o))'
    BY DEF Owners
  <1>1. CASE u = t
    BY <1>1
  <1>2. CASE u # t
    <2>1. Owns(u, o)' <=> Owns(u, o)
      BY <1>2, OthersStay, OthersRelation DEF Shape
    <2>2. holder[o] = u <=> holder'[o] = u
      BY <1>2, NoSuch
    <2> QED
      BY <2>1, <2>2 DEF Owners
  <1> QED
    BY <1>1, <1>2

LEMMA OwnersStep ==
  ASSUME Shape, Owners, NEW t \in Threads, ThreadStep(t)
  PROVE  Owners'
  <1>a. \A o \in Locks : holder[o] = t <=> Owns(t, o)
    BY DEF Owners
  <1>p. pc \in [Threads -> Places] /\ holder \in [Locks -> Threads \cup {NoThread}]
    BY DEF Shape, TypeOK
  <1>s. \A place \in Places : Goto(t, place) => pc'[t] = place
    BY <1>p DEF Goto
  <1>w. Written(t) => pc'[t] = "check"
    BY <1>p DEF Written, Goto
  <1>n. ahead[t] # <<>> =>
          /\ Relation(t)[1] \in Locks /\ Relation(t)[2] \in Locks
          /\ Relation(t)[1] # Relation(t)[2]
          /\ \/ Lower(Relation(t)) = Relation(t)[1] /\ Upper(Relation(t)) = Relation(t)[2]
             \/ Lower(Relation(t)) = Relation(t)[2] /\ Upper(Relation(t)) = Relation(t)[1]
    BY RelationPeer, PeerType DEF Shape, Locks, Lower, Upper
  <1>1. CASE Lookup(t) \/ Check(t) \/ Proceed(t)
    <2>1. holder' = holder /\ pc[t] \in {"lookup", "check"}
      BY <1>1 DEF Lookup, Check, Proceed
    <2>2. pc'[t] \in {"create", "check", "lower", "lookup", "done"}
      BY <1>1, <1>s, <1>w, <2>1 DEF Lookup, Check, Proceed, Places
    <2>3. \A o \in Locks : ~ Owns(t, o) /\ ~ Owns(t, o)'
      BY <2>1, <2>2 DEF Owns
    <2> QED
      BY <1>a, <2>1, <2>3, OwnersFor
  <1>2. CASE LockStore(t)
    <2>1. pc[t] = "create" /\ pc'[t] = "file"
      BY <1>2, <1>s DEF LockStore, Places
    <2>2. \A o \in Locks : ~ Owns(t, o) /\ (Owns(t, o)' <=> o = MemDb)
      BY <2>1 DEF Owns
    <2>3. holder[MemDb] = NoThread /\ holder' = [holder EXCEPT ![MemDb] = t]
      BY <1>2 DEF LockStore, Free
    <2> QED
      BY <1>a, <1>p, <2>2, <2>3, OwnersFor
  <1>3. CASE AddFile(t) \/ ListFile(t)
    <2>1. pc[t] \in {"file", "component"} /\ pc'[t] \in {"component", "package"} /\ holder' = holder
      BY <1>3, <1>s DEF AddFile, ListFile, Places
    <2>2. \A o \in Locks : (Owns(t, o) <=> o = MemDb) /\ (Owns(t, o)' <=> o = MemDb)
      BY <2>1 DEF Owns
    <2> QED
      BY <1>a, <2>1, <2>2, OwnersFor
  <1>4. CASE ListComponent(t)
    <2>1. pc[t] = "package" /\ pc'[t] = "check" /\ holder' = [holder EXCEPT ![MemDb] = NoThread]
      BY <1>4, <1>w DEF ListComponent
    <2>2. \A o \in Locks : (Owns(t, o) <=> o = MemDb) /\ ~ Owns(t, o)'
      BY <2>1 DEF Owns
    <2> QED
      BY <1>a, <1>p, <2>1, <2>2, NoSuch, OwnersFor DEF Locks
  <1>5. CASE LockLower(t)
    <2>1. pc[t] = "lower" /\ pc'[t] = "upper" /\ ahead' = ahead
      BY <1>5, <1>s DEF LockLower, Places
    <2>2. ahead[t] # <<>>
      BY <2>1 DEF Shape, Relations
    <2>3. Relation(t)' = Relation(t)
      BY <2>1 DEF Relation
    <2>4. Lower(Relation(t))' = Lower(Relation(t))
      BY <2>3 DEF Lower
    <2>5. \A o \in Locks : ~ Owns(t, o) /\ (Owns(t, o)' <=> o = Lower(Relation(t)))
      BY <2>1, <2>4 DEF Owns
    <2>6. holder[Lower(Relation(t))] = NoThread /\ holder' = [holder EXCEPT ![Lower(Relation(t))] = t]
      BY <1>5 DEF LockLower, Free
    <2> QED
      BY <1>a, <1>p, <1>n, <2>2, <2>5, <2>6, OwnersFor
  <1>6. CASE LockUpper(t)
    <2>1. pc[t] = "upper" /\ pc'[t] = "forward" /\ ahead' = ahead
      BY <1>6, <1>s DEF LockUpper, Places
    <2>2. ahead[t] # <<>>
      BY <2>1 DEF Shape, Relations
    <2>3. Relation(t)' = Relation(t)
      BY <2>1 DEF Relation
    <2>5. \A o \in Locks :
            /\ Owns(t, o) <=> o = Lower(Relation(t))
            /\ Owns(t, o)' <=> o \in {Lower(Relation(t)), Upper(Relation(t))}
      BY <1>n, <2>1, <2>2, <2>3 DEF Owns
    <2>6. holder[Upper(Relation(t))] = NoThread /\ holder' = [holder EXCEPT ![Upper(Relation(t))] = t]
      BY <1>6 DEF LockUpper, Free
    <2> QED
      BY <1>a, <1>p, <1>n, <2>2, <2>5, <2>6, OwnersFor
  <1>7. CASE PushForward(t)
    <2>1. pc[t] = "forward" /\ pc'[t] = "reverse" /\ ahead' = ahead /\ holder' = holder
      BY <1>7, <1>s DEF PushForward, Places
    <2>3. Relation(t)' = Relation(t)
      BY <2>1 DEF Relation
    <2>4. \A o \in Locks : Owns(t, o)' <=> Owns(t, o)
      BY <2>1, <2>3 DEF Owns
    <2> QED
      BY <1>a, <2>1, <2>4, OwnersFor
  <1>8. CASE PushReverse(t)
    <2>1. pc[t] = "reverse" /\ pc'[t] = "check"
      BY <1>8, <1>s DEF PushReverse, Places
    <2>2. ahead[t] # <<>>
      BY <2>1 DEF Shape, Relations
    <2>3. \A o \in Locks :
            /\ Owns(t, o) <=> o \in {Relation(t)[1], Relation(t)[2]}
            /\ ~ Owns(t, o)'
      BY <2>1 DEF Owns
    <2>4. holder' = [holder EXCEPT ![Relation(t)[1]] = NoThread, ![Relation(t)[2]] = NoThread]
      BY <1>8 DEF PushReverse
    <2> QED
      BY <1>a, <1>p, <1>n, <2>2, <2>3, <2>4, NoSuch, OwnersFor
  <1> QED
    BY <1>1, <1>2, <1>3, <1>4, <1>5, <1>6, <1>7, <1>8 DEF ThreadStep

-----------------------------------------------------------------------------
(* The two lists of a relation.                                            *)

(* Only one thread is between the two lists of a relation, and no other    *)
(* has its locks.                                                          *)
LEMMA OneHalfWay ==
  ASSUME Shape, Owners, NEW t \in Threads, NEW u \in Threads, NEW p,
         pc[t] \in {"forward", "reverse"}, pc[u] = "reverse", Relation(t) = p, Relation(u) = p
  PROVE  t = u
  <1>1. ahead[t] # <<>>
    BY DEF Shape, Relations
  <1>2. p[1] \in Locks
    BY <1>1, RelationPeer, PeerType DEF Shape, Locks
  <1>3. holder[p[1]] = t /\ holder[p[1]] = u
    BY <1>2 DEF Owners, Owns
  <1> QED
    BY <1>3

LEMMA CountsStep ==
  ASSUME Shape, Owners, Counts, OnlyWanted, NEW t \in Threads, ThreadStep(t)
  PROVE  Counts' /\ OnlyWanted'
  <1>o. \A u \in Threads : u # t => pc'[u] = pc[u] /\ Relation(u)' = Relation(u)
    BY OthersStay, OthersRelation DEF Shape
  <1>s. pc \in [Threads -> Places] /\ fwd \in [Pairs -> Nat] /\ rev \in [Pairs -> Nat]
    BY DEF Shape, TypeOK
  <1>1. CASE PushForward(t)
    <2>1. pc[t] = "forward" /\ pc'[t] = "reverse" /\ Relation(t)' = Relation(t)
      BY <1>1, <1>s DEF PushForward, Goto, Relation
    <2>2. Peer(Relation(t)) /\ Relation(t) \in Pairs
      BY <2>1, RelationPeer DEF Shape, Relations
    <2>3. fwd' = [fwd EXCEPT ![Relation(t)] = @ + 1] /\ rev' = rev
      BY <1>1 DEF PushForward
    <2>4. ~ HalfWay(Relation(t)) /\ HalfWay(Relation(t))'
      <3>1. ~ HalfWay(Relation(t))
        BY <2>1, OneHalfWay DEF HalfWay
      <3>2. pc'[t] = "reverse" /\ Relation(t)' = Relation(t)
        BY <2>1
      <3> QED
        BY <3>1, <3>2 DEF HalfWay
    <2>5. ASSUME NEW p \in Pairs, p # Relation(t)
          PROVE  HalfWay(p)' <=> HalfWay(p)
      BY <1>o, <2>1, <2>5 DEF HalfWay
    <2>6. Counts'
      <3> SUFFICES ASSUME NEW p \in Pairs
                   PROVE  fwd'[p] = rev'[p] + IF HalfWay(p)' THEN 1 ELSE 0
        BY DEF Counts
      <3>1. CASE p = Relation(t)
        <4>1. PICK r : r = Relation(t)
          OBVIOUS
        <4>2. fwd'[r] = fwd[r] + 1 /\ fwd[r] = rev[r] + 0
          BY <1>s, <2>2, <2>3, <2>4, <4>1 DEF Counts
        <4>3. HalfWay(p)'
          BY <2>1, <3>1 DEF HalfWay
        <4> QED
          BY <1>s, <2>3, <3>1, <4>1, <4>2, <4>3
      <3>2. CASE p # Relation(t)
        BY <1>s, <2>2, <2>3, <2>5, <3>2 DEF Counts
      <3> QED
        BY <3>1, <3>2
    <2>7. OnlyWanted'
      BY <1>s, <2>2, <2>3 DEF OnlyWanted, Peer
    <2> QED
      BY <2>6, <2>7
  <1>2. CASE PushReverse(t)
    <2>1. pc[t] = "reverse" /\ pc'[t] = "check"
      BY <1>2, <1>s DEF PushReverse, Goto
    <2>2. Relation(t) \in Pairs
      BY <2>1, RelationPeer DEF Shape, Relations
    <2>3. rev' = [rev EXCEPT ![Relation(t)] = @ + 1] /\ fwd' = fwd
      BY <1>2 DEF PushReverse
    <2>4. ASSUME NEW p \in Pairs, p # Relation(t)
          PROVE  HalfWay(p)' <=> HalfWay(p)
      BY <1>o, <2>1, <2>4 DEF HalfWay
    <2>5. ASSUME NEW p \in Pairs, p = Relation(t)
          PROVE  HalfWay(p) /\ ~ HalfWay(p)'
      <3>1. HalfWay(p)
        BY <2>1, <2>5 DEF HalfWay
      <3>2. ASSUME NEW u \in Threads, pc'[u] = "reverse" /\ Relation(u)' = p
            PROVE  FALSE
        <4>1. u # t
          BY <2>1, <3>2
        <4>2. pc[u] = "reverse" /\ Relation(u) = p
          BY <1>o, <3>2, <4>1
        <4> QED
          BY <2>1, <2>5, <4>1, <4>2, OneHalfWay
      <3> QED
        BY <3>1, <3>2 DEF HalfWay
    <2>6. Counts'
      <3> SUFFICES ASSUME NEW p \in Pairs
                   PROVE  fwd'[p] = rev'[p] + IF HalfWay(p)' THEN 1 ELSE 0
        BY DEF Counts
      <3>1. CASE p = Relation(t)
        <4>1. fwd[p] = rev[p] + 1 /\ rev'[p] = rev[p] + 1
          BY <1>s, <2>3, <2>5, <3>1 DEF Counts
        <4> QED
          BY <1>s, <2>3, <2>5, <3>1, <4>1
      <3>2. CASE p # Relation(t)
        BY <1>s, <2>2, <2>3, <2>4, <3>2 DEF Counts
      <3> QED
        BY <3>1, <3>2
    <2>7. OnlyWanted'
      BY <2>3 DEF OnlyWanted
    <2> QED
      BY <2>6, <2>7
  <1>3. CASE ~ PushForward(t) /\ ~ PushReverse(t)
    <2>1. fwd' = fwd /\ rev' = rev
      BY <1>3 DEF ThreadStep, Lookup, LockStore, AddFile, ListFile, ListComponent, Check, LockLower,
                  LockUpper, Proceed
    <2>2. pc[t] # "reverse" /\ pc'[t] # "reverse"
      BY <1>3, <1>s DEF ThreadStep, Lookup, LockStore, AddFile, ListFile, ListComponent, Check,
                  LockLower, LockUpper, Proceed, Goto, Written
    <2>3. \A p \in Pairs : HalfWay(p)' <=> HalfWay(p)
      BY <1>o, <2>2 DEF HalfWay
    <2> QED
      BY <2>1, <2>3 DEF Counts, OnlyWanted
  <1> QED
    BY <1>1, <1>2, <1>3

-----------------------------------------------------------------------------
(* Files of the store and the lists of their components and packages.      *)

LEMMA ListingStays ==
  ASSUME Shape, NEW t \in Threads, ThreadStep(t), NEW f, NEW places,
         pc[t] \in places => CurrentFile(t) # f \/ (pc'[t] \in places /\ CurrentFile(t)' = CurrentFile(t)),
         Listing(f, places)
  PROVE  Listing(f, places)'
  <1>1. PICK u \in Threads : pc[u] \in places /\ CurrentFile(u) = f
    BY DEF Listing
  <1>2. CASE u = t
    BY <1>1, <1>2 DEF Listing
  <1>3. CASE u # t
    <2>1. pc'[u] = pc[u] /\ CurrentFile(u)' = CurrentFile(u)
      BY <1>3, OthersStay, OthersRelation DEF Shape
    <2>2. pc'[u] \in places /\ CurrentFile(u)' = f
      BY <1>1, <2>1
    <2> QED
      BY <2>2 DEF Listing
  <1> QED
    BY <1>2, <1>3

LEMMA ListedStep ==
  ASSUME Shape, Listed, NEW t \in Threads, ThreadStep(t)
  PROVE  Listed'
  <1>s. pc \in [Threads -> Places] /\ at \in [Threads -> Nat]
    BY DEF Shape, TypeOK
  <1>c. ~ Proceed(t) => CurrentFile(t)' = CurrentFile(t)
    <2>1. ~ Proceed(t) => at' = at
      BY DEF ThreadStep, Lookup, LockStore, AddFile, ListFile, ListComponent, Check, LockLower,
             LockUpper, PushForward, PushReverse
    <2> QED
      BY <2>1 DEF CurrentFile
  <1>1. CASE AddFile(t)
    <2>1. pc[t] = "file" /\ pc'[t] = "component" /\ filed' = filed /\ packaged' = packaged
          /\ inStore' = inStore \cup {CurrentFile(t)}
      BY <1>1, <1>s DEF AddFile, Goto
    <2>2. CurrentFile(t)' = CurrentFile(t)
      BY <1>c, <2>1 DEF Proceed
    <2>3. ASSUME NEW f \in inStore'
          PROVE  /\ f \in filed' \/ Listing(f, {"component"})'
                 /\ CompOf[f] \in packaged' \/ Listing(f, {"component", "package"})'
      <3>1. CASE f = CurrentFile(t)
        BY <2>1, <2>2, <3>1 DEF Listing
      <3>2. CASE f \in inStore
        BY <2>1, <2>2, <3>2, ListingStays DEF Listed
      <3> QED
        BY <2>1, <3>1, <3>2
    <2> QED
      BY <2>3 DEF Listed
  <1>2. CASE ListFile(t)
    <2>1. pc[t] = "component" /\ pc'[t] = "package" /\ inStore' = inStore /\ packaged' = packaged
          /\ filed' = filed \cup {CurrentFile(t)}
      BY <1>2, <1>s DEF ListFile, Goto
    <2>2. CurrentFile(t)' = CurrentFile(t)
      BY <1>c, <2>1 DEF Proceed
    <2>3. ASSUME NEW f \in inStore
          PROVE  /\ f \in filed' \/ Listing(f, {"component"})'
                 /\ CompOf[f] \in packaged' \/ Listing(f, {"component", "package"})'
      <3>1. f \in filed' \/ Listing(f, {"component"})'
        <4>1. CASE f = CurrentFile(t)
          BY <2>1, <4>1
        <4>2. CASE f # CurrentFile(t)
          BY <2>1, <4>2, ListingStays DEF Listed
        <4> QED
          BY <4>1, <4>2
      <3>2. CompOf[f] \in packaged' \/ Listing(f, {"component", "package"})'
        BY <2>1, <2>2, ListingStays DEF Listed
      <3> QED
        BY <3>1, <3>2
    <2> QED
      BY <2>1, <2>3 DEF Listed
  <1>3. CASE ListComponent(t)
    <2>1. pc[t] = "package" /\ inStore' = inStore /\ filed' = filed
          /\ packaged' = packaged \cup {CompOf[CurrentFile(t)]}
      BY <1>3 DEF ListComponent
    <2>2. ASSUME NEW f \in inStore
          PROVE  /\ f \in filed' \/ Listing(f, {"component"})'
                 /\ CompOf[f] \in packaged' \/ Listing(f, {"component", "package"})'
      <3>1. f \in filed' \/ Listing(f, {"component"})'
        BY <2>1, ListingStays DEF Listed
      <3>2. CompOf[f] \in packaged' \/ Listing(f, {"component", "package"})'
        <4>1. CASE f = CurrentFile(t)
          BY <2>1, <4>1
        <4>2. CASE f # CurrentFile(t)
          BY <2>1, <4>2, ListingStays DEF Listed
        <4> QED
          BY <4>1, <4>2
      <3> QED
        BY <3>1, <3>2
    <2> QED
      BY <2>1, <2>2 DEF Listed
  <1>4. CASE ~ AddFile(t) /\ ~ ListFile(t) /\ ~ ListComponent(t)
    <2>1. pc[t] \notin {"component", "package"}
      BY <1>4 DEF ThreadStep, Lookup, LockStore, Check, LockLower, LockUpper, PushForward,
                  PushReverse, Proceed
    <2>2. inStore' = inStore /\ filed' = filed /\ packaged' = packaged
      BY <1>4 DEF ThreadStep, Lookup, LockStore, Check, LockLower, LockUpper, PushForward,
                  PushReverse, Proceed
    <2>3. ASSUME NEW f \in inStore
          PROVE  /\ f \in filed \/ Listing(f, {"component"})'
                 /\ CompOf[f] \in packaged \/ Listing(f, {"component", "package"})'
      BY <2>1, ListingStays DEF Listed
    <2> QED
      BY <2>2, <2>3 DEF Listed
  <1> QED
    BY <1>1, <1>2, <1>3, <1>4

-----------------------------------------------------------------------------
(* The invariant.                                                          *)

LEMMA InitInv == Init => IInv
  <1> SUFFICES ASSUME Init PROVE IInv
    OBVIOUS
  <1>1. TypeOK
    <2>1. packaged \in SUBSET Components
      BY Placed DEF Init
    <2> QED
      BY <2>1, Placed DEF Init, TypeOK, Places
  <1>2. InUnit
    BY Work DEF Init, InUnit
  <1>3. Relations
    BY DEF Init, Relations
  <1>4. Owners
    BY NoSuch DEF Init, Owners, Owns
  <1>5. Counts /\ OnlyWanted
    BY DEF Init, Counts, OnlyWanted, HalfWay
  <1>6. Listed
    BY DEF Init, Listed
  <1> QED
    BY <1>1, <1>2, <1>3, <1>4, <1>5, <1>6 DEF IInv

LEMMA NextInv == IInv /\ [Next]_vars => IInv'
  <1> SUFFICES ASSUME IInv, [Next]_vars PROVE IInv'
    OBVIOUS
  <1>1. ASSUME NEW t \in Threads, ThreadStep(t)
        PROVE  IInv'
    BY <1>1, ShapeStep, OwnersStep, CountsStep, ListedStep DEF IInv, Shape
  <1>2. CASE UNCHANGED vars
    <2>1. \A u \in Threads : /\ Relation(u)' = Relation(u) /\ CurrentFile(u)' = CurrentFile(u)
                             /\ \A o : Owns(u, o)' <=> Owns(u, o)
      BY <1>2, OthersRelation DEF vars
    <2>2. TypeOK' /\ InUnit'
      BY <1>2 DEF IInv, TypeOK, InUnit, vars
    <2>3. Relations'
      BY <1>2 DEF IInv, Relations, Peer, vars
    <2>4. Owners'
      BY <1>2, <2>1 DEF IInv, Owners, vars
    <2>5. \A p \in Pairs : HalfWay(p)' <=> HalfWay(p)
      BY <1>2, <2>1 DEF HalfWay, vars
    <2>6. Counts' /\ OnlyWanted'
      BY <1>2, <2>5 DEF IInv, Counts, OnlyWanted, vars
    <2>7. \A f, places : Listing(f, places)' <=> Listing(f, places)
      BY <1>2, <2>1 DEF Listing, vars
    <2>8. Listed'
      BY <1>2, <2>7 DEF IInv, Listed, vars
    <2> QED
      BY <2>2, <2>3, <2>4, <2>6, <2>8 DEF IInv
  <1> QED
    BY <1>1, <1>2 DEF Next, Idle

LEMMA MirroredFollows == IInv => Mirrored
  <1> SUFFICES ASSUME IInv, NEW p \in Pairs, Free(p[1]) \/ Free(p[2]), HalfWay(p) PROVE FALSE
    BY DEF IInv, TypeOK, Counts, Mirrored
  <1>1. PICK t \in Threads : pc[t] = "reverse" /\ Relation(t) = p
    BY DEF HalfWay
  <1>2. p[1] \in Locks /\ p[2] \in Locks
    BY DEF Pairs, Locks, Objects
  <1>3. holder[p[1]] = t /\ holder[p[2]] = t
    BY <1>1, <1>2 DEF IInv, Owners, Owns
  <1> QED
    BY <1>3, NoSuch DEF Free

LEMMA FoundIsListedFollows == IInv => FoundIsListed
  <1> SUFFICES ASSUME IInv, Free(MemDb), NEW f \in inStore
               PROVE  f \in filed /\ CompOf[f] \in packaged
    BY DEF FoundIsListed
  <1>1. \A t \in Threads : pc[t] \notin {"component", "package"}
    <2> SUFFICES ASSUME NEW t \in Threads, pc[t] \in {"component", "package"} PROVE FALSE
      OBVIOUS
    <2>1. holder[MemDb] = t
      BY DEF IInv, Owners, Owns, Locks
    <2> QED
      BY <2>1, NoSuch DEF Free
  <1> QED
    BY <1>1 DEF IInv, Listed, Listing

LEMMA LocksInOrderFollows == IInv => LocksInOrder
  <1> SUFFICES ASSUME IInv, NEW t \in Threads, NEW o \in Locks, NEW q \in Locks,
                      holder[o] = t, WaitsFor(t, q)
               PROVE  Before(o, q)
    BY DEF LocksInOrder
  <1>1. Owns(t, o)
    BY DEF IInv, Owners
  <1>2. CASE pc[t] \in {"file", "component", "package"}
    <2>1. CurrentFile(t) \in Files
      BY CurrentFileType DEF IInv
    <2>2. q \in Objects
      BY <1>2, <2>1, ObjectsOfFile DEF WaitsFor, Objects
    <2> QED
      BY <1>1, <1>2, <2>2, Memory DEF Owns, Before
  <1>3. CASE pc[t] = "upper"
    <2>1. ahead[t] # <<>>
      BY <1>3 DEF IInv, Relations
    <2>2. Peer(Relation(t))
      BY <2>1, RelationPeer DEF IInv
    <2>3. o = Lower(Relation(t)) /\ q = Upper(Relation(t))
      BY <1>1, <1>3 DEF Owns, WaitsFor
    <2>4. q \in Objects
      BY <2>2, <2>3, PeerType
    <2> QED
      BY <2>2, <2>3, <2>4, PeerType, Memory DEF Before
  <1> QED
    BY <1>1, <1>2, <1>3 DEF Owns, WaitsFor

(* The properties of the runs hold for any number of threads, any code     *)
(* base and any place in memory (lockable.cpp, databaseobject.h,           *)
(* clputil.cpp): the invariant behind them.                                *)
THEOREM Invariant == Spec => []IInv
  <1>1. Init => IInv
    BY InitInv
  <1>2. IInv /\ [Next]_vars => IInv'
    BY NextInv
  <1> QED
    BY <1>1, <1>2, PTL DEF Spec

(* Every variable of the pool keeps its type.                              *)
THEOREM TypeCorrect == Spec => []TypeOK
  <1>1. IInv => TypeOK
    BY DEF IInv
  <1> QED
    BY <1>1, Invariant, PTL

(* A reader that can lock either end of a relation finds it in both lists, *)
(* or in neither (addPeerRelationship).                                    *)
THEOREM BothEndsAgree == Spec => []Mirrored
  BY MirroredFollows, Invariant, PTL

(* A file that can be looked up is listed by its component and its package *)
(* (writeSourceFile).                                                      *)
THEOREM LookedUpIsListed == Spec => []FoundIsListed
  BY FoundIsListedFollows, Invariant, PTL

(* Locks are taken in one order (rwLockTwo and the lock of the store), so  *)
(* no threads wait for each other in a circle.                             *)
THEOREM OneLockOrder == Spec => []LocksInOrder
  BY LocksInOrderFollows, Invariant, PTL

-----------------------------------------------------------------------------
(* No deadlock: of the threads that wait, the one whose lock comes last    *)
(* waits for a thread that does not wait.                                  *)

LEMMA BeforeIsAnOrder ==
  ASSUME NEW a \in Locks, NEW b \in Locks, NEW c \in Locks
  PROVE  /\ ~ Before(a, a)
         /\ Before(a, b) /\ Before(b, c) => Before(a, c)
  <1>1. \A o \in Locks : o # MemDb => Address[o] \in Nat
    BY Memory DEF Locks
  <1> QED
    BY <1>1 DEF Before

LEMMA SomeThreadGoesOnFollows == IInv => SomeThreadGoesOn
  <1> SUFFICES ASSUME IInv, NEW s \in Threads, pc[s] # "done",
                      \A t \in Threads : pc[t] # "done" => Blocked(t)
               PROVE  FALSE
    BY DEF SomeThreadGoesOn
  <1> DEFINE Active == {t \in Threads : pc[t] # "done"}
             For(t) == CHOOSE q \in Locks : WaitsFor(t, q) /\ ~ Free(q)
             Later(t) == {u \in Active : Before(For(t), For(u))}
             Laters == {Later(t) : t \in Active}
  <1>1. ASSUME NEW t \in Active
        PROVE  For(t) \in Locks /\ WaitsFor(t, For(t)) /\ ~ Free(For(t))
    BY DEF Blocked
  <1>2. ASSUME NEW t \in Active
        PROVE  \E u \in Active : holder[For(t)] = u /\ Before(For(t), For(u))
    <2>1. PICK u \in Threads : holder[For(t)] = u
      BY <1>1 DEF IInv, TypeOK, Free
    <2>2. u \in Active
      BY <1>1, <2>1 DEF IInv, Owners, Owns
    <2>3. LocksInOrder
      BY LocksInOrderFollows
    <2>4. Before(For(t), For(u))
      BY <1>1, <2>1, <2>2, <2>3 DEF LocksInOrder
    <2> QED
      BY <2>1, <2>2, <2>4
  <1> HIDE DEF For
  <1>3. PICK L \in Laters : \A M \in Laters : ~ (<<M, L>> \in StrictSubsetOrdering(Threads))
    <2>1. Laters \in SUBSET FiniteSubsetsOf(Threads) /\ Laters # {}
      <3>1. FiniteSubsetsOf(Threads) = SUBSET Threads
        BY Pool, FS_FiniteSubsetsOfFinite
      <3>2. \A t \in Active : Later(t) \in SUBSET Threads
        OBVIOUS
      <3>3. s \in Active
        OBVIOUS
      <3> HIDE DEF Active, Later
      <3> QED
        BY <3>1, <3>2, <3>3
    <2> QED
      BY <2>1, FS_StrictSubsetOrderingWellFounded, WFMin
  <1>4. PICK t \in Active : L = Later(t)
    BY <1>3
  <1>5. PICK u \in Active : holder[For(t)] = u /\ Before(For(t), For(u))
    BY <1>2
  <1>6. u \in Later(t) /\ u \notin Later(u)
    BY <1>1, <1>5, BeforeIsAnOrder
  <1>7. Later(u) \subseteq Later(t)
    BY <1>1, <1>5, BeforeIsAnOrder
  <1>8. <<Later(u), L>> \in StrictSubsetOrdering(Threads)
    BY <1>4, <1>6, <1>7 DEF StrictSubsetOrdering
  <1> QED
    BY <1>3, <1>8

(* The pool never comes to a halt before its threads are done (rwLockTwo,  *)
(* writeSourceFile, addPeerRelationship).                                  *)
THEOREM NoDeadlock == Spec => []SomeThreadGoesOn
  BY SomeThreadGoesOnFollows, Invariant, PTL

-----------------------------------------------------------------------------
(* How often a relation stands in the lists.  A thread that is about to    *)
(* add it has found it missing; once it is there no further thread joins.  *)

Adding(p) == {t \in Threads : pc[t] \in {"lower", "upper", "forward"} /\ Relation(t) = p}

Implied == \A t \in Threads : \A i \in 1..Len(ahead[t]) : t \in Implying(ahead[t][i])

Once == \A p \in Pairs : fwd[p] + Cardinality(Adding(p)) <= Cardinality(Implying(p))

LEMMA ThreadSets ==
  ASSUME NEW S \in SUBSET Threads
  PROVE  IsFiniteSet(S) /\ Cardinality(S) \in Nat
  BY Pool, FS_Subset, FS_CardinalityType

LEMMA SmallerSet ==
  ASSUME NEW S \in SUBSET Threads, NEW R \in SUBSET S
  PROVE  Cardinality(R) <= Cardinality(S)
  BY ThreadSets, FS_Subset

LEMMA ImplyingThreads ==
  ASSUME NEW p
  PROVE  Implying(p) \in SUBSET Threads
  BY DEF Implying

LEMMA WrittenImplied ==
  ASSUME Shape, Implied, NEW t \in Threads, Written(t)
  PROVE  Implied'
  <1> DEFINE R == IF at[t] = 0 THEN <<>>
                  ELSE RelationsOf(Directives[t][at[t]][1], Directives[t][at[t]][2])
  <1>1. ASSUME NEW i \in 1..Len(R) PROVE t \in Implying(R[i])
    <2>1. CASE at[t] = 0
      BY <2>1
    <2>2. CASE at[t] # 0
      <3>1. at[t] \in 1..Len(Directives[t])
        BY <2>2, Work DEF Shape, InUnit, TypeOK
      <3> QED
        BY <2>2, <3>1 DEF Implying
    <2> QED
      BY <2>1, <2>2
  <1>2. ahead' = [ahead EXCEPT ![t] = R] /\ ahead \in [Threads -> Seq(Pairs)]
    BY DEF Written, Shape, TypeOK
  <1> HIDE DEF R
  <1> SUFFICES ASSUME NEW u \in Threads, NEW i \in 1..Len(ahead'[u])
               PROVE  u \in Implying(ahead'[u][i])
    BY DEF Implied, Implying
  <1>3. CASE u = t
    BY <1>1, <1>2, <1>3
  <1>4. CASE u # t
    BY <1>2, <1>4 DEF Implied
  <1> QED
    BY <1>3, <1>4

LEMMA ImpliedStep ==
  ASSUME Shape, Implied, NEW t \in Threads, ThreadStep(t)
  PROVE  Implied'
  <1>1. CASE Written(t)
    BY <1>1, WrittenImplied
  <1>2. CASE ahead' = ahead
    BY <1>2 DEF Implied, Implying
  <1>3. CASE ahead[t] # <<>> /\ ahead' = [ahead EXCEPT ![t] = Tail(@)]
    <2>1. ahead \in [Threads -> Seq(Pairs)]
      BY DEF Shape, TypeOK
    <2>2. /\ Len(ahead[t]) \in Nat /\ Len(Tail(ahead[t])) = Len(ahead[t]) - 1
          /\ \A i \in 1..Len(Tail(ahead[t])) : Tail(ahead[t])[i] = ahead[t][i + 1]
      BY <1>3, <2>1, HeadTailProperties
    <2> SUFFICES ASSUME NEW u \in Threads, NEW i \in 1..Len(ahead'[u])
                 PROVE  u \in Implying(ahead'[u][i])
      BY DEF Implied, Implying
    <2>3. CASE u = t
      <3>1. ahead'[u] = Tail(ahead[t])
        BY <1>3, <2>1, <2>3
      <3>2. i + 1 \in 1..Len(ahead[t]) /\ ahead'[u][i] = ahead[t][i + 1]
        BY <2>2, <3>1
      <3> QED
        BY <2>3, <3>2 DEF Implied
    <2>4. CASE u # t
      <3>1. ahead'[u] = ahead[u]
        BY <1>3, <2>1, <2>4
      <3> QED
        BY <3>1 DEF Implied
    <2> QED
      BY <2>3, <2>4
  <1>4. CASE Check(t)
    BY <1>2, <1>3, <1>4 DEF Check
  <1>5. CASE PushReverse(t)
    BY <1>3, <1>5 DEF PushReverse, Shape, Relations
  <1>6. CASE Lookup(t)
    BY <1>1, <1>2, <1>6 DEF Lookup
  <1>7. CASE ListComponent(t)
    BY <1>1, <1>7 DEF ListComponent
  <1> QED
    BY <1>2, <1>4, <1>5, <1>6, <1>7 DEF ThreadStep, LockStore, AddFile, ListFile, LockLower, LockUpper,
       PushForward, Proceed

LEMMA OnceStep ==
  ASSUME Shape, Shape', Implied', Once, NEW t \in Threads, ThreadStep(t)
  PROVE  Once'
  <1>t. /\ fwd \in [Pairs -> Nat] /\ pc \in [Threads -> Places]
        /\ \A place \in Places : Goto(t, place) => pc'[t] = place
    BY DEF Shape, TypeOK, Goto
  <1>c. \A p : /\ Adding(p) \in SUBSET Threads /\ Adding(p)' \in SUBSET Threads
               /\ Implying(p) \in SUBSET Threads /\ Implying(p)' = Implying(p)
    BY DEF Adding, Implying
  <1>n. \A p : /\ IsFiniteSet(Adding(p)) /\ Cardinality(Adding(p)) \in Nat
               /\ Cardinality(Adding(p)') \in Nat /\ Cardinality(Implying(p)) \in Nat
    BY <1>c, ThreadSets
  <1>o. \A u \in Threads : u # t => pc'[u] = pc[u] /\ Relation(u)' = Relation(u)
    BY OthersStay, OthersRelation DEF Shape
  <1> SUFFICES ASSUME NEW p \in Pairs
               PROVE  fwd'[p] + Cardinality(Adding(p)') <= Cardinality(Implying(p))
    BY <1>c DEF Once
  <1>b. fwd[p] + Cardinality(Adding(p)) <= Cardinality(Implying(p)) /\ fwd[p] \in Nat
    BY <1>t DEF Once
  (* No thread joins those that add p.                                     *)
  <1>1. CASE fwd' = fwd /\ Adding(p)' \in SUBSET Adding(p)
    <2>1. Cardinality(Adding(p)') <= Cardinality(Adding(p))
      BY <1>1, <1>c, SmallerSet
    <2> QED
      BY <1>1, <1>b, <1>n, <2>1
  <1>2. CASE Check(t)
    <2>1. fwd' = fwd /\ pc[t] = "check"
      BY <1>2 DEF Check
    <2>2. CASE Relation(t) = p /\ fwd[p] = 0
      (* p is not there yet; whoever is about to add it implies it.        *)
      <3>1. Adding(p)' \in SUBSET Implying(p)'
        <4> SUFFICES ASSUME NEW u \in Threads, u \in Adding(p)'
                     PROVE  u \in Implying(p)'
          BY <1>c
        <4>1. Relation(u)' = p /\ ahead'[u] # <<>>
          BY DEF Adding, Shape, Relations
        <4>2. ahead'[u] \in Seq(Pairs)
          BY DEF Shape, TypeOK
        <4>3. 1 \in 1..Len(ahead'[u]) /\ Relation(u)' = ahead'[u][1]
          BY <4>1, <4>2 DEF Relation
        <4> QED
          BY <4>1, <4>3 DEF Implied
      <3>2. Cardinality(Adding(p)') <= Cardinality(Implying(p))
        BY <3>1, <1>c, SmallerSet
      <3> QED
        BY <2>1, <2>2, <3>2, <1>n
    <2>3. CASE Relation(t) = p /\ fwd[p] # 0
      <3>1. Present(Relation(t))
        BY <2>3, <1>b DEF Present
      <3>2. pc' = pc
        BY <1>2, <3>1 DEF Check
      <3>3. Adding(p)' \in SUBSET Adding(p)
        BY <1>o, <2>1, <3>2 DEF Adding
      <3> QED
        BY <1>1, <2>1, <3>3
    <2>4. CASE Relation(t) # p
      <3>1. pc' = pc \/ ahead' = ahead
        BY <1>2 DEF Check
      <3>2. t \notin Adding(p)'
        BY <2>1, <2>4, <3>1 DEF Adding, Relation
      <3>3. Adding(p)' \in SUBSET Adding(p)
        BY <1>o, <3>2 DEF Adding
      <3> QED
        BY <1>1, <2>1, <3>3
    <2> QED
      BY <2>2, <2>3, <2>4
  <1>3. CASE PushForward(t)
    <2>1. pc[t] = "forward" /\ pc'[t] = "reverse" /\ Relation(t) \in Pairs
      <3>1. pc[t] = "forward" /\ pc'[t] = "reverse"
        BY <1>3, <1>t DEF PushForward, Places
      <3> QED
        BY <3>1, RelationPeer DEF Shape, Relations
    <2>2. t \notin Adding(p)' /\ Adding(p)' \in SUBSET Adding(p)
      BY <1>o, <2>1 DEF Adding
    <2>3. CASE Relation(t) = p
      <3>1. fwd'[p] = fwd[p] + 1
        BY <1>3, <1>t, <2>3 DEF PushForward
      <3>2. t \in Adding(p)
        BY <2>1, <2>3 DEF Adding
      <3>3. Cardinality(Adding(p) \ {t}) = Cardinality(Adding(p)) - 1
        BY <3>2, <1>n, FS_RemoveElement
      <3>4. Adding(p)' \in SUBSET (Adding(p) \ {t}) /\ Adding(p) \ {t} \in SUBSET Threads
        BY <2>2, <1>c
      <3>5. Cardinality(Adding(p)') <= Cardinality(Adding(p) \ {t})
        BY <3>4, SmallerSet
      <3> QED
        BY <3>1, <3>3, <3>5, <1>b, <1>n
    <2>4. CASE Relation(t) # p
      <3>1. fwd'[p] = fwd[p]
        BY <1>3, <1>t, <2>1, <2>4 DEF PushForward
      <3>2. Cardinality(Adding(p)') <= Cardinality(Adding(p))
        BY <2>2, <1>c, SmallerSet
      <3> QED
        BY <3>1, <3>2, <1>b, <1>n
    <2> QED
      BY <2>3, <2>4
  <1>4. CASE LockLower(t) \/ LockUpper(t)
    <2>1. fwd' = fwd /\ ahead' = ahead /\ pc[t] \in {"lower", "upper"}
      BY <1>4 DEF LockLower, LockUpper
    <2>2. Relation(t)' = Relation(t)
      BY <2>1 DEF Relation
    <2>3. Adding(p)' \in SUBSET Adding(p)
      BY <1>o, <2>1, <2>2 DEF Adding
    <2> QED
      BY <1>1, <2>1, <2>3
  <1>5. CASE ~ Check(t) /\ ~ PushForward(t) /\ ~ LockLower(t) /\ ~ LockUpper(t)
    <2>1. fwd' = fwd
      BY <1>5 DEF ThreadStep, Lookup, LockStore, AddFile, ListFile, ListComponent, PushReverse, Proceed
    <2>2. pc'[t] \notin {"lower", "upper", "forward"}
      BY <1>5, <1>t DEF ThreadStep, Lookup, LockStore, AddFile, ListFile, ListComponent, PushReverse,
         Proceed, Goto, Written
    <2>3. Adding(p)' \in SUBSET Adding(p)
      BY <1>o, <2>2 DEF Adding
    <2> QED
      BY <1>1, <2>1, <2>3
  <1> QED
    BY <1>2, <1>3, <1>4, <1>5

(* Threads that look for a relation at the same time may each add it, but  *)
(* none of them adds it twice, and nobody else does (addPeerRelationship). *)
THEOREM AtMostOncePerThread == Spec => []OncePerThread
  <1>1. Init => Implied /\ Once
    <2> SUFFICES ASSUME Init PROVE Implied /\ Once
      OBVIOUS
    <2>1. Implied
      BY DEF Init, Implied
    <2>2. ASSUME NEW p \in Pairs PROVE fwd[p] + Cardinality(Adding(p)) <= Cardinality(Implying(p))
      <3>1. Adding(p) = {} /\ fwd[p] = 0
        BY DEF Init, Adding
      <3>2. Cardinality(Implying(p)) \in Nat /\ Cardinality({}) = 0
        BY ImplyingThreads, ThreadSets, FS_EmptySet
      <3> QED
        BY <3>1, <3>2
    <2> QED
      BY <2>1, <2>2 DEF Once
  <1>2. IInv /\ IInv' /\ Implied /\ Once /\ [Next]_vars => Implied' /\ Once'
    <2> SUFFICES ASSUME IInv, IInv', Implied, Once, [Next]_vars PROVE Implied' /\ Once'
      OBVIOUS
    <2>1. CASE \E t \in Threads : ThreadStep(t)
      BY <2>1, ImpliedStep, OnceStep DEF IInv, Shape
    <2>2. CASE UNCHANGED vars
      <3>1. Implied'
        BY <2>2 DEF Implied, Implying, vars
      <3>2. \A p : Adding(p)' = Adding(p) /\ Implying(p)' = Implying(p)
        BY <2>2 DEF Adding, Implying, Relation, vars
      <3> QED
        BY <2>2, <3>1, <3>2 DEF Once, vars
    <2> QED
      BY <2>1, <2>2 DEF Next, Idle
  <1>3. IInv /\ Once => OncePerThread
    <2> SUFFICES ASSUME IInv, Once, NEW p \in Pairs PROVE fwd[p] <= Cardinality(Implying(p))
      BY DEF OncePerThread
    <2>1. Cardinality(Adding(p)) \in Nat /\ Cardinality(Implying(p)) \in Nat /\ fwd[p] \in Nat
      BY ImplyingThreads, ThreadSets DEF Adding, IInv, TypeOK
    <2> QED
      BY <2>1 DEF Once
  <1> QED
    BY <1>1, <1>2, <1>3, Invariant, PTL DEF Spec

-----------------------------------------------------------------------------
(* The pool implements RelationSet, but for its liveness.                  *)

Found == {p \in Pairs : fwd[p] > 0}

LEMMA StepRefines ==
  ASSUME IInv, [Next]_vars
  PROVE  [Abstract!Next]_Found
  <1>1. ASSUME NEW t \in Threads, PushForward(t)
        PROVE  [Abstract!Next]_Found
    <2>1. Peer(Relation(t)) /\ Relation(t) \in Pairs
      BY <1>1, RelationPeer DEF PushForward, IInv, Relations
    <2>2. PICK r \in Pairs : r = Relation(t)
      BY <2>1
    <2>3. fwd \in [Pairs -> Nat] /\ fwd' = [fwd EXCEPT ![r] = @ + 1]
      BY <1>1, <2>2 DEF PushForward, IInv, TypeOK
    <2>4. Found' = Found \cup {r}
      BY <2>3 DEF Found
    <2>5. r \in Wanted
      BY <2>1, <2>2 DEF Peer
    <2>6. CASE r \in Found
      BY <2>4, <2>6
    <2>7. CASE r \notin Found
      <3>1. Abstract!Add(r)
        BY <2>4, <2>7 DEF Abstract!Add, Found
      <3> QED
        BY <2>5, <3>1 DEF Abstract!Next
    <2> QED
      BY <2>6, <2>7
  <1>2. CASE fwd' = fwd
    BY <1>2 DEF Found
  <1>3. CASE \E t \in Threads : ThreadStep(t) /\ ~ PushForward(t)
    BY <1>2, <1>3 DEF ThreadStep, Lookup, LockStore, AddFile, ListFile, ListComponent, Check, LockLower,
                  LockUpper, PushReverse, Proceed
  <1> QED
    BY <1>1, <1>2, <1>3 DEF Next, Idle, vars

(* Whatever the order of the threads, a step of the pool adds one relation *)
(* that an include implies, or none (HeaderCallbacks::InclusionDirective). *)
THEOREM PoolImplementsRelationSet == Spec => Abstract!Init /\ [][Abstract!Next]_Found
  <1>1. Init => Abstract!Init
    BY DEF Init, Abstract!Init
  <1>2. IInv /\ [Next]_vars => [Abstract!Next]_Found
    BY StepRefines
  <1> QED
    BY <1>1, <1>2, Invariant, PTL DEF Spec

=============================================================================
