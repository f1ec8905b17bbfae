------------------------- MODULE ObjectStore_proofs -------------------------
(***************************************************************************)
(* Proofs about ObjectStore, for every code base, every number of updates  *)
(* and every order of removal, of the store that a physical run fills.     *)
(* IInv carries that no removal enters a file twice and that, up to the    *)
(* first update that removes something, none uses a freed object.          *)
(* Maintained, in the second part, is about what updates leave behind: as  *)
(* long as they meet no freed object, any number of them keep the includes,*)
(* the dependencies and the components what the code base says.            *)
(***************************************************************************)
EXTENDS ObjectStore, SequenceTheorems, TLAPS

(* A physical run records no namespaces, types or functions.                *)
Physical == \A f \in Files : Spaces[f] = {} /\ Types[f] = {} /\ Functions[f] = {}

(* The members a physical run fills.                                        *)
Fields == {"component", "files", "package", "components", "parent", "children",
           "forwardIncludes", "reverseIncludes", "forwardDeps", "reverseDeps"}

Ptrs      == Names \X Nat
FilePtrs  == Files \X Nat
CompPtrs  == Components \X Nat
PkgPtrs   == Packages \X Nat
GroupPtrs == Groups \X Nat
Frames    == [file : FilePtrs, namespaces : {{}}, types : {{}}, files : SUBSET FilePtrs]

(* Which kinds of objects a field relates.                                  *)
Kind(e) ==
  /\ e[1] \in {"forwardIncludes", "reverseIncludes"} => e[2] \in FilePtrs /\ e[3] \in FilePtrs
  /\ e[1] = "component" => e[2] \in FilePtrs /\ e[3] \in CompPtrs
  /\ e[1] = "package" => e[2] \in CompPtrs /\ e[3] \in PkgPtrs
  /\ e[1] = "parent" => e[3] \in GroupPtrs
Kinds == \A e \in edges : e \in Fields \X Ptrs \X Ptrs /\ Kind(e)

CallTypes ==
  /\ removed \in SUBSET FilePtrs
  /\ stack \in Seq(Frames)
  /\ pending \in (SUBSET Files) \X (SUBSET Files)
  /\ deletedPkgs \subseteq Packages \cup Groups
CodeTypes == code \in CodeBases \/ DOMAIN code = {}
Typed == TypeOK /\ Kinds /\ CallTypes /\ CodeTypes

(* Members belong to objects that exist; a file is listed by its component, *)
(* and by every file it includes that exists; generations only grow.        *)
Owned    == \A e \in edges : Live(e[2])
Mirrored == \A p, q \in FilePtrs :
              <<"forwardIncludes", p, q>> \in edges /\ Live(q) => <<"reverseIncludes", q, p>> \in edges
Listed   == \A p \in FilePtrs, c \in CompPtrs :
              <<"component", p, c>> \in edges => <<"files", c, p>> \in edges
Bounded  == \A e \in edges : e[3][2] <= gen[e[3][1]]
StoreOK  == Owned /\ Mirrored /\ Listed /\ Bounded

(* removeFile's call stack.                                                 *)
Entered == \A i \in 1..Len(stack) : stack[i].file \in removed
Resting == phase # "files" => stack = <<>>
Sound   == phase = "parse" => fault = "none"
CallsOK == Entered /\ NeverReentered /\ Resting /\ Sound

(* Before the first removal every pointer is good.                          *)
AllLive == \A e \in edges : Live(e[3])
First ==
  /\ updates = 0 => stored = {} /\ phase = "idle"
  /\ updates <= 1 => /\ pending = <<{}, {}>> /\ stack = <<>> /\ deletedPkgs = {}
                     /\ AllLive

(* During it, a freed file is one removeFile has been called for; an        *)
(* includer of a file on the stack has been called for or will be.          *)
RevKnown == \A p, q \in FilePtrs :
              <<"reverseIncludes", p, q>> \in edges => Live(q) \/ q \in removed
PkgsLive == pending # <<{}, {}>> \/ stack # <<>> =>
              \A c \in CompPtrs, p \in PkgPtrs : <<"package", c, p>> \in edges => Live(p)
FrameOK(frame) ==
  /\ Live(frame.file)
  /\ \A q \in frame.files : Live(q) \/ q \in removed
  /\ \A q \in FilePtrs : <<"reverseIncludes", frame.file, q>> \in edges
                             => q \in frame.files \/ q \in removed
FramesOK    == \A i \in 1..Len(stack) : FrameOK(stack[i])
GoneOrGoing == \A p \in removed : ~Live(p) \/ \E i \in 1..Len(stack) : stack[i].file = p
FwdKnown    == \A p, q \in FilePtrs :
                 <<"forwardIncludes", p, q>> \in edges => Live(q) \/ p \in removed
Cascade == phase = "files" => RevKnown /\ PkgsLive /\ FramesOK /\ GoneOrGoing /\ FwdKnown

Whole == StoreOK /\ First /\ Cascade /\ SurvivorsIncludeNoRemoved

IInv ==
  /\ Typed /\ CallsOK
  /\ updates <= 2 => CascadeUsesNoFreed
  /\ updates <= 2 /\ fault = "none" => Whole

-----------------------------------------------------------------------------
(* Names of objects above a file.                                           *)
LEMMA AboveFile ==
  ASSUME NEW f \in Files
  PROVE  /\ CompOf[f] \in Components /\ PkgOf[CompOf[f]] \in Packages
         /\ GroupOf[PkgOf[CompOf[f]]] \in Groups \cup {NoGroup}
BY DEF Components, Packages, Groups

LEMMA AboveNames ==
  ASSUME NEW F \in SUBSET Files
  PROVE  /\ Above(F) \subseteq Names
         /\ \A f \in F : /\ f \in Above(F) /\ CompOf[f] \in Above(F) /\ PkgOf[CompOf[f]] \in Above(F)
                         /\ GroupOf[PkgOf[CompOf[f]]] # NoGroup => GroupOf[PkgOf[CompOf[f]]] \in Above(F)
<1>1. \A f \in F : CompOf[f] \in Components /\ PkgOf[CompOf[f]] \in Packages
         /\ GroupOf[PkgOf[CompOf[f]]] \in Groups \cup {NoGroup}
      BY AboveFile
<1> QED
    BY <1>1 DEF Above, Names

-----------------------------------------------------------------------------
(* Edges added to the store point from existing objects to existing ones.   *)
PtrOf(g) == [n \in Names |-> <<n, g[n]>>]
Here(p, g, S) == p \in Ptrs /\ p[1] \in S /\ p[2] = g[p[1]]
EdgeFits(e, g, S) ==
  e \in Fields \X Ptrs \X Ptrs /\ Here(e[2], g, S) /\ Here(e[3], g, S) /\ Kind(e)
Fits(E, g, S) ==
  /\ \A e \in E : EdgeFits(e, g, S)
  /\ \A p, q \in FilePtrs : <<"forwardIncludes", p, q>> \in E => <<"reverseIncludes", q, p>> \in E
  /\ \A p \in FilePtrs, c \in CompPtrs : <<"component", p, c>> \in E => <<"files", c, p>> \in E

LEMMA FitsUnion ==
  ASSUME NEW g, NEW S, NEW C, \A E \in C : Fits(E, g, S)
  PROVE  Fits(UNION C, g, S)
BY DEF Fits

LEMMA FitsPair ==
  ASSUME NEW g, NEW S, NEW D, NEW E, Fits(D, g, S), Fits(E, g, S)
  PROVE  Fits(D \cup E, g, S)
BY DEF Fits

LEMMA FitsEmpty ==
  ASSUME NEW g, NEW S
  PROVE  Fits({}, g, S)
BY DEF Fits

LEMMA EdgeHere ==
  ASSUME NEW g, NEW S, NEW s \in Fields, NEW x, NEW y, Here(x, g, S), Here(y, g, S),
         Kind(<<s, x, y>>)
  PROVE  EdgeFits(<<s, x, y>>, g, S)
<1> HIDE DEF Kind
<1> QED
    BY DEF EdgeFits, Here

(* Members of which no field is constrained.                                *)
LEMMA FitsPlain ==
  ASSUME NEW g, NEW S, NEW s \in Fields, NEW x, NEW y, Here(x, g, S), Here(y, g, S),
         s \notin {"forwardIncludes", "reverseIncludes", "component",
                   "package", "parent"}
  PROVE  Fits({<<s, x, y>>}, g, S)
<1>1. Kind(<<s, x, y>>)
      BY DEF Kind
<1>2. EdgeFits(<<s, x, y>>, g, S)
      BY <1>1, EdgeHere
<1> QED
    BY <1>2 DEF Fits

LEMMA FitsPackage ==
  ASSUME NEW g, NEW S, NEW x \in CompPtrs, NEW y \in PkgPtrs, Here(x, g, S), Here(y, g, S)
  PROVE  Fits({<<"package", x, y>>}, g, S)
<1>0. "package" \in Fields
      BY DEF Fields
<1>1. Kind(<<"package", x, y>>)
      BY DEF Kind
<1>2. EdgeFits(<<"package", x, y>>, g, S)
      BY <1>0, <1>1, EdgeHere
<1> QED
    BY <1>2 DEF Fits

LEMMA FitsParent ==
  ASSUME NEW g, NEW S, NEW x, NEW y \in GroupPtrs, Here(x, g, S), Here(y, g, S)
  PROVE  Fits({<<"parent", x, y>>}, g, S)
<1>0. "parent" \in Fields
      BY DEF Fields
<1>1. Kind(<<"parent", x, y>>)
      BY DEF Kind
<1>2. EdgeFits(<<"parent", x, y>>, g, S)
      BY <1>0, <1>1, EdgeHere
<1> QED
    BY <1>2 DEF Fits

LEMMA FitsComponent ==
  ASSUME NEW g, NEW S, NEW x \in FilePtrs, NEW y \in CompPtrs, Here(x, g, S), Here(y, g, S)
  PROVE  Fits({<<"component", x, y>>, <<"files", y, x>>}, g, S)
<1>0. "component" \in Fields /\ "files" \in Fields
      BY DEF Fields
<1>1. Kind(<<"component", x, y>>) /\ Kind(<<"files", y, x>>)
      BY DEF Kind
<1>2. EdgeFits(<<"component", x, y>>, g, S) /\ EdgeFits(<<"files", y, x>>, g, S)
      BY <1>0, <1>1, EdgeHere
<1> QED
    BY <1>2 DEF Fits

LEMMA FitsInclude ==
  ASSUME NEW g, NEW S, NEW x \in FilePtrs, NEW y \in FilePtrs, Here(x, g, S), Here(y, g, S)
  PROVE  Fits({<<"forwardIncludes", x, y>>, <<"reverseIncludes", y, x>>}, g, S)
<1>0. "forwardIncludes" \in Fields /\ "reverseIncludes" \in Fields
      BY DEF Fields
<1>1. Kind(<<"forwardIncludes", x, y>>) /\ Kind(<<"reverseIncludes", y, x>>)
      BY DEF Kind
<1>2. EdgeFits(<<"forwardIncludes", x, y>>, g, S) /\ EdgeFits(<<"reverseIncludes", y, x>>, g, S)
      BY <1>0, <1>1, EdgeHere
<1> QED
    BY <1>2 DEF Fits

LEMMA PtrHere ==
  ASSUME NEW g \in [Names -> Nat], NEW S, NEW n \in Names, n \in S
  PROVE  Here(PtrOf(g)[n], g, S) /\ PtrOf(g)[n] = <<n, g[n]>> /\ g[n] \in Nat
BY DEF PtrOf, Here, Ptrs

(* The objects above one file, and the pointers to them.                    *)
LEMMA PtrsAbove ==
  ASSUME NEW g \in [Names -> Nat], NEW S, NEW F \in SUBSET Files, Above(F) \subseteq S, NEW f \in F
  PROVE  LET c == CompOf[f]
             p == PkgOf[c]
             r == GroupOf[p]
             ptr == PtrOf(g)
         IN  /\ Here(ptr[f], g, S) /\ ptr[f] \in FilePtrs
             /\ Here(ptr[c], g, S) /\ ptr[c] \in CompPtrs
             /\ Here(ptr[p], g, S) /\ ptr[p] \in PkgPtrs
             /\ r # NoGroup => Here(ptr[r], g, S) /\ ptr[r] \in GroupPtrs
<1> DEFINE c == CompOf[f]
           p == PkgOf[c]
           r == GroupOf[p]
           ptr == PtrOf(g)
<1>1. c \in Components /\ p \in Packages /\ r \in Groups \cup {NoGroup}
      BY AboveFile
<1>2. f \in Names /\ c \in Names /\ p \in Names /\ (r # NoGroup => r \in Names)
      BY <1>1 DEF Names
<1>3. f \in S /\ c \in S /\ p \in S /\ (r # NoGroup => r \in S)
      BY AboveNames
<1>4. /\ Here(ptr[f], g, S) /\ ptr[f] = <<f, g[f]>> /\ g[f] \in Nat
      /\ Here(ptr[c], g, S) /\ ptr[c] = <<c, g[c]>> /\ g[c] \in Nat
      /\ Here(ptr[p], g, S) /\ ptr[p] = <<p, g[p]>> /\ g[p] \in Nat
      /\ r # NoGroup => Here(ptr[r], g, S) /\ ptr[r] = <<r, g[r]>> /\ g[r] \in Nat
      BY <1>2, <1>3, PtrHere
<1> HIDE DEF ptr, c, p, r
<1>5. /\ ptr[f] \in FilePtrs /\ ptr[c] \in CompPtrs /\ ptr[p] \in PkgPtrs
      /\ r # NoGroup => ptr[r] \in GroupPtrs
      BY <1>1, <1>4 DEF FilePtrs, CompPtrs, PkgPtrs, GroupPtrs
<1> QED
    BY <1>4, <1>5 DEF ptr, c, p, r

LEMMA RegisteredFits ==
  ASSUME NEW g \in [Names -> Nat], NEW S, NEW F \in SUBSET Files, Above(F) \subseteq S, NEW f \in F
  PROVE  Fits(Registered(f, PtrOf(g)), g, S)
<1> DEFINE c == CompOf[f]
           p == PkgOf[c]
           r == GroupOf[p]
           ptr == PtrOf(g)
           one   == {<<"component", ptr[f], ptr[c]>>, <<"files", ptr[c], ptr[f]>>}
           two   == {<<"package", ptr[c], ptr[p]>>}
           three == {<<"components", ptr[p], ptr[c]>>}
           four  == {<<"parent", ptr[p], ptr[r]>>}
           five  == {<<"children", ptr[r], ptr[p]>>}
<1>1. /\ Here(ptr[f], g, S) /\ ptr[f] \in FilePtrs
      /\ Here(ptr[c], g, S) /\ ptr[c] \in CompPtrs
      /\ Here(ptr[p], g, S) /\ ptr[p] \in PkgPtrs
      /\ r # NoGroup => Here(ptr[r], g, S) /\ ptr[r] \in GroupPtrs
      BY PtrsAbove
<1>2. Registered(f, ptr) = (one \cup (two \cup three))
                           \cup IF r = NoGroup THEN {} ELSE four \cup five
      BY DEF Registered
<1> HIDE DEF ptr, c, p, r
<1>3. Fits(one, g, S) /\ Fits(two, g, S)
      BY <1>1, FitsComponent, FitsPackage
<1>0. "components" \in Fields /\ "children" \in Fields
      BY DEF Fields
<1>8. Fits(three, g, S)
      BY <1>0, <1>1, FitsPlain
<1>9. r # NoGroup => Fits(four, g, S)
      BY <1>1, FitsParent
<1>10. r # NoGroup => Fits(five, g, S)
      BY <1>0, <1>1, FitsPlain
<1>4. r # NoGroup => Fits(four, g, S) /\ Fits(five, g, S)
      BY <1>9, <1>10
<1> HIDE DEF one, two, three, four, five
<1>5. Fits(one \cup (two \cup three), g, S)
      BY <1>3, <1>8, FitsPair
<1>6. Fits(IF r = NoGroup THEN {} ELSE four \cup five, g, S)
  <2>1. CASE r = NoGroup
        BY <2>1, FitsEmpty
  <2>2. CASE r # NoGroup
        BY <2>2, <1>4, FitsPair
  <2> QED
      BY <2>1, <2>2
<1>7. Fits(Registered(f, ptr), g, S)
      BY <1>2, <1>5, <1>6, FitsPair
<1> QED
    BY <1>7 DEF ptr

LEMMA FitsDepends ==
  ASSUME NEW g, NEW S, NEW x, NEW y, Here(x, g, S), Here(y, g, S)
  PROVE  Fits({<<"forwardDeps", x, y>>, <<"reverseDeps", y, x>>}, g, S)
<1>1. "forwardDeps" \in Fields /\ "reverseDeps" \in Fields
      BY DEF Fields
<1>2. Fits({<<"forwardDeps", x, y>>}, g, S)
      BY <1>1, FitsPlain
<1>3. Fits({<<"reverseDeps", y, x>>}, g, S)
      BY <1>1, FitsPlain
<1>4. {<<"forwardDeps", x, y>>, <<"reverseDeps", y, x>>}
        = {<<"forwardDeps", x, y>>} \cup {<<"reverseDeps", y, x>>}
      OBVIOUS
<1> QED
    BY <1>2, <1>3, <1>4, FitsPair

LEMMA IncludingFits ==
  ASSUME NEW g \in [Names -> Nat], NEW S, NEW F \in SUBSET Files, Above(F) \subseteq S,
         NEW f \in F, NEW h \in F
  PROVE  Fits(Including(f, h, PtrOf(g)), g, S)
<1> DEFINE c == CompOf[f]
           d == CompOf[h]
           p == PkgOf[c]
           q == PkgOf[d]
           r == GroupOf[p]
           t == GroupOf[q]
           ptr == PtrOf(g)
           Depends(a, b) == IF a = b \/ NoGroup \in {a, b} THEN {}
                            ELSE {<<"forwardDeps", ptr[a], ptr[b]>>, <<"reverseDeps", ptr[b], ptr[a]>>}
           files == IF f = h THEN {}
                    ELSE {<<"forwardIncludes", ptr[f], ptr[h]>>, <<"reverseIncludes", ptr[h], ptr[f]>>}
           three == IF p # q /\ r = NoGroup THEN Depends(p, t) ELSE {}
           four  == IF p # q /\ t = NoGroup THEN Depends(r, q) ELSE {}
<1>1. /\ Here(ptr[f], g, S) /\ ptr[f] \in FilePtrs
      /\ Here(ptr[c], g, S) /\ Here(ptr[p], g, S)
      /\ r # NoGroup => Here(ptr[r], g, S)
      BY PtrsAbove
<1>2. /\ Here(ptr[h], g, S) /\ ptr[h] \in FilePtrs
      /\ Here(ptr[d], g, S) /\ Here(ptr[q], g, S)
      /\ t # NoGroup => Here(ptr[t], g, S)
      BY PtrsAbove
<1>3. Including(f, h, ptr) = ((files \cup Depends(c, d)) \cup Depends(p, q)) \cup three \cup four
      BY DEF Including
<1> HIDE DEF ptr, c, p, r, d, q, t
<1>4. ASSUME NEW a, NEW b, a # NoGroup => Here(ptr[a], g, S), b # NoGroup => Here(ptr[b], g, S)
      PROVE  Fits(Depends(a, b), g, S)
  <2>1. CASE a = b \/ NoGroup \in {a, b}
        BY <2>1, FitsEmpty
  <2>2. CASE ~(a = b \/ NoGroup \in {a, b})
    <3>1. Here(ptr[a], g, S) /\ Here(ptr[b], g, S)
          BY <1>4, <2>2
    <3>2. Fits({<<"forwardDeps", ptr[a], ptr[b]>>, <<"reverseDeps", ptr[b], ptr[a]>>}, g, S)
          BY <3>1, FitsDepends
    <3> QED
        BY <2>2, <3>2
  <2> QED
      BY <2>1, <2>2
<1>5. Fits(files, g, S)
  <2>1. CASE f = h
        BY <2>1, FitsEmpty
  <2>2. CASE f # h
        BY <2>2, <1>1, <1>2, FitsInclude
  <2> QED
      BY <2>1, <2>2
<1> HIDE DEF Depends, files
<1>6. Fits(Depends(c, d), g, S)
      BY <1>1, <1>2, <1>4
<1>7. Fits(Depends(p, q), g, S)
      BY <1>1, <1>2, <1>4
<1>8. Fits(Depends(p, t), g, S)
      BY <1>1, <1>2, <1>4
<1>9. Fits(Depends(r, q), g, S)
      BY <1>1, <1>2, <1>4
<1>10. Fits(three, g, S) /\ Fits(four, g, S)
       BY <1>8, <1>9, FitsEmpty
<1> HIDE DEF three, four
<1>11. Fits(((files \cup Depends(c, d)) \cup Depends(p, q)) \cup three \cup four, g, S)
  <2>1. Fits(files \cup Depends(c, d), g, S)
        BY <1>5, <1>6, FitsPair
  <2>2. Fits((files \cup Depends(c, d)) \cup Depends(p, q), g, S)
        BY <2>1, <1>7, FitsPair
  <2>3. Fits(((files \cup Depends(c, d)) \cup Depends(p, q)) \cup three, g, S)
        BY <2>2, <1>10, FitsPair
  <2> QED
      BY <2>3, <1>10, FitsPair
<1> QED
    BY <1>3, <1>11 DEF ptr

(* In a physical run a file brings no namespaces, types or functions.       *)
LEMMA DefiningNothing ==
  ASSUME Physical, NEW f \in Files, NEW ptr
  PROVE  Defining(f, ptr) = {}
<1>1. Spaces[f] = {} /\ Types[f] = {} /\ Functions[f] = {}
      BY DEF Physical
<1> QED
    BY <1>1 DEF Defining

-----------------------------------------------------------------------------
(* What getOrAdd of the names N and the members E keeps.                    *)
Adds(N, E) ==
  /\ gen' = NewGen(N) /\ stored' = stored \cup N /\ edges' = edges \cup E

LEMMA NewGenType ==
  ASSUME gen \in [Names -> Nat], NEW N
  PROVE  NewGen(N) \in [Names -> Nat]
BY DEF NewGen

LEMMA AddsPtrs ==
  ASSUME gen \in [Names -> Nat], stored \subseteq Names, NEW N \in SUBSET Names, NEW E, Adds(N, E)
  PROVE  /\ \A p : Live(p) => Live(p)'
         /\ \A p \in Ptrs : p[2] <= gen[p[1]] => p[2] <= gen'[p[1]]
         /\ \A p \in Ptrs : p[2] <= gen[p[1]] /\ Live(p)' => Live(p)
<1>1. \A n \in Names : gen'[n] = IF n \in N \ stored THEN gen[n] + 1 ELSE gen[n]
      BY DEF Adds, NewGen
<1>2. \A n \in Names : gen[n] \in Nat
      OBVIOUS
<1>3. stored' = stored \cup N
      BY DEF Adds
<1>4. \A p : Live(p) => Live(p)'
      BY <1>1, <1>3 DEF Live
<1>5. \A p \in Ptrs : p[1] \in Names /\ p[2] \in Nat
      BY DEF Ptrs
<1>6. \A p \in Ptrs : p[2] <= gen[p[1]] => p[2] <= gen'[p[1]]
      BY <1>1, <1>2, <1>5
<1>7. \A p \in Ptrs : p[2] <= gen[p[1]] /\ Live(p)' => Live(p)
  <2> SUFFICES ASSUME NEW p \in Ptrs, p[2] <= gen[p[1]], Live(p)'
               PROVE  Live(p)
      OBVIOUS
  <2>1. p[1] \in Names /\ p[2] \in Nat /\ gen[p[1]] \in Nat
        BY <1>2, <1>5
  <2>2. p[1] \in stored' /\ p[2] = gen'[p[1]]
        BY DEF Live
  <2>3. gen'[p[1]] = IF p[1] \in N \ stored THEN gen[p[1]] + 1 ELSE gen[p[1]]
        BY <1>1, <2>1
  <2>4. p[1] \notin N \ stored
        BY <2>1, <2>2, <2>3
  <2> QED
      BY <2>2, <2>3, <2>4, <1>3 DEF Live
<1> QED
    BY <1>4, <1>6, <1>7

LEMMA AddsStore ==
  ASSUME gen \in [Names -> Nat], stored \subseteq Names, Kinds, StoreOK,
         NEW N \in SUBSET Names, NEW E, Fits(E, NewGen(N), stored \cup N), Adds(N, E)
  PROVE  StoreOK' /\ \A e \in E : Live(e[3])'
<1>1. /\ \A p : Live(p) => Live(p)'
      /\ \A p \in Ptrs : p[2] <= gen[p[1]] => p[2] <= gen'[p[1]]
      /\ \A p \in Ptrs : p[2] <= gen[p[1]] /\ Live(p)' => Live(p)
      BY AddsPtrs
<1>2. \A e \in E : e[2] \in Ptrs /\ e[3] \in Ptrs /\ Live(e[2])' /\ Live(e[3])' /\ e[3][2] = gen'[e[3][1]]
  <2> SUFFICES ASSUME NEW e \in E
               PROVE  e[2] \in Ptrs /\ e[3] \in Ptrs /\ Live(e[2])' /\ Live(e[3])' /\ e[3][2] = gen'[e[3][1]]
      OBVIOUS
  <2>1. Here(e[2], NewGen(N), stored \cup N) /\ Here(e[3], NewGen(N), stored \cup N)
        BY DEF Fits, EdgeFits
  <2> QED
      BY <2>1 DEF Here, Adds, Live
<1>3. edges' = edges \cup E
      BY DEF Adds
<1>4. \A e \in edges : e[2] \in Ptrs /\ e[3] \in Ptrs
      BY DEF Kinds
<1>5. Owned'
      BY <1>1, <1>2, <1>3 DEF StoreOK, Owned
<1>6. Bounded'
  <2> SUFFICES ASSUME NEW e \in edges'
               PROVE  e[3][2] <= gen'[e[3][1]]
      BY DEF Bounded
  <2>1. CASE e \in edges
        BY <2>1, <1>1, <1>4 DEF StoreOK, Bounded
  <2>2. CASE e \in E
    <3>1. e[3] \in Ptrs /\ e[3][2] = gen'[e[3][1]]
          BY <2>2, <1>2
    <3>2. e[3][2] \in Nat
          BY <3>1 DEF Ptrs
    <3> QED
        BY <3>1, <3>2
  <2> QED
      BY <2>1, <2>2, <1>3
<1>7. Mirrored'
  <2> SUFFICES ASSUME NEW p \in FilePtrs, NEW q \in FilePtrs,
                      <<"forwardIncludes", p, q>> \in edges', Live(q)'
               PROVE  <<"reverseIncludes", q, p>> \in edges'
      BY DEF Mirrored
  <2>1. CASE <<"forwardIncludes", p, q>> \in edges
    <3>1. q \in Ptrs
          BY DEF FilePtrs, Ptrs, Names
    <3>2. q[2] <= gen[q[1]]
          BY <2>1 DEF StoreOK, Bounded
    <3>3. Live(q)
          BY <3>1, <3>2, <1>1
    <3> QED
        BY <2>1, <3>3, <1>3 DEF StoreOK, Mirrored
  <2>2. CASE <<"forwardIncludes", p, q>> \in E
        BY <2>2, <1>3 DEF Fits
  <2> QED
      BY <2>1, <2>2, <1>3
<1>8. Listed'
      BY <1>3 DEF StoreOK, Listed, Fits
<1> QED
    BY <1>2, <1>5, <1>6, <1>7, <1>8 DEF StoreOK

LEMMA AddsKinds ==
  ASSUME Kinds, NEW N, NEW E, NEW g, NEW S, Fits(E, g, S), Adds(N, E)
  PROVE  Kinds'
<1>1. edges' = edges \cup E
      BY DEF Adds
<1>2. \A e \in E : e \in Fields \X Ptrs \X Ptrs /\ Kind(e)
      BY DEF Fits, EdgeFits
<1> QED
    BY <1>1, <1>2 DEF Kinds

-----------------------------------------------------------------------------
(* What the deletion of existing objects keeps.                             *)
LEMMA ErasesPtrs ==
  ASSUME NEW S \in SUBSET Ptrs, \A p \in S : Live(p), NEW cut, Erase(S, cut)
  PROVE  /\ \A p : Live(p)' => Live(p)
         /\ \A p \in Ptrs : Live(p) /\ p \notin S => Live(p)'
         /\ \A p \in S : ~Live(p)'
<1>1. gen' = gen /\ stored' = stored \ NamesOf(S)
      BY DEF Erase
<1>2. \A p \in Ptrs : p = <<p[1], p[2]>>
      BY DEF Ptrs
<1>3. \A p \in Ptrs : Live(p) /\ p \notin S => p[1] \notin NamesOf(S)
  <2> SUFFICES ASSUME NEW p \in Ptrs, Live(p), p \notin S, p[1] \in NamesOf(S)
               PROVE  FALSE
      OBVIOUS
  <2>1. PICK q \in S : q[1] = p[1]
        BY DEF NamesOf
  <2>2. q[2] = p[2]
        BY <2>1 DEF Live
  <2> QED
      BY <2>1, <2>2, <1>2
<1> QED
    BY <1>1, <1>3 DEF Live, NamesOf

LEMMA ErasesStore ==
  ASSUME Kinds, StoreOK, NEW S \in SUBSET Ptrs, \A p \in S : Live(p), NEW cut, Erase(S, cut),
         \A e \in cut : e[1] # "reverseIncludes",
         \A p, c : <<"files", c, p>> \in cut => p \in S,
         \A p, c : c \in S /\ <<"files", c, p>> \in edges /\ <<"component", p, c>> \in edges => p \in S
  PROVE  StoreOK'
<1>1. /\ \A p : Live(p)' => Live(p)
      /\ \A p \in Ptrs : Live(p) /\ p \notin S => Live(p)'
      /\ \A p \in S : ~Live(p)'
      BY ErasesPtrs
<1>2. gen' = gen /\ edges' = {e \in edges \ cut : e[2] \notin S}
      BY DEF Erase
<1>3. \A e \in edges : e[2] \in Ptrs
      BY DEF Kinds
<1>4. Owned'
      BY <1>1, <1>2, <1>3 DEF StoreOK, Owned
<1>5. Bounded'
      BY <1>2 DEF StoreOK, Bounded
<1>6. Mirrored'
  <2> SUFFICES ASSUME NEW p \in FilePtrs, NEW q \in FilePtrs,
                      <<"forwardIncludes", p, q>> \in edges', Live(q)'
               PROVE  <<"reverseIncludes", q, p>> \in edges'
      BY DEF Mirrored
  <2>1. <<"forwardIncludes", p, q>> \in edges /\ Live(q) /\ q \notin S
        BY <1>1, <1>2
  <2>2. <<"reverseIncludes", q, p>> \in edges
        BY <2>1 DEF StoreOK, Mirrored
  <2>3. <<"reverseIncludes", q, p>> \notin cut
        OBVIOUS
  <2> QED
      BY <2>1, <2>2, <2>3, <1>2
<1>7. Listed'
  <2> SUFFICES ASSUME NEW p \in FilePtrs, NEW c \in CompPtrs, <<"component", p, c>> \in edges'
               PROVE  <<"files", c, p>> \in edges'
      BY DEF Listed
  <2>1. <<"component", p, c>> \in edges /\ p \notin S
        BY <1>2
  <2>2. <<"files", c, p>> \in edges
        BY <2>1 DEF StoreOK, Listed
  <2>3. c \notin S /\ <<"files", c, p>> \notin cut
        BY <2>1, <2>2
  <2> QED
      BY <2>2, <2>3, <1>2
<1> QED
    BY <1>4, <1>5, <1>6, <1>7 DEF StoreOK

LEMMA ErasesKinds ==
  ASSUME Kinds, NEW S, NEW cut, Erase(S, cut)
  PROVE  Kinds'
<1>1. edges' \subseteq edges
      BY DEF Erase
<1> QED
    BY <1>1 DEF Kinds

-----------------------------------------------------------------------------
(* The members of an object, and the frame of a call.                       *)
LEMMA OutIn ==
  ASSUME Kinds, NEW field, NEW q, NEW p
  PROVE  p \in Out(field, q) <=> <<field, q, p>> \in edges
<1>1. \A e \in edges : e = <<e[1], e[2], e[3]>>
      BY DEF Kinds
<1> QED
    BY <1>1 DEF Out

LEMMA FileNames ==
  ASSUME NEW p \in FilePtrs
  PROVE  p \in Ptrs /\ p = <<p[1], p[2]>> /\ p[1] \in Files
BY DEF FilePtrs, Ptrs, Names

LEMMA FrameType ==
  ASSUME Kinds, NEW p \in FilePtrs
  PROVE  /\ Frame(p) \in Frames /\ Frame(p).file = p
         /\ \A q : q \in Frame(p).files <=> <<"reverseIncludes", p, q>> \in edges
<1>1. \A e \in edges : e[1] # "namespaces" /\ e[1] # "types"
      BY DEF Kinds, Fields
<1>2. Out("namespaces", p) = {} /\ Out("types", p) = {}
      BY <1>1 DEF Out
<1>3. \A q : q \in Out("reverseIncludes", p) <=> <<"reverseIncludes", p, q>> \in edges
      BY OutIn
<1>4. \A q \in Out("reverseIncludes", p) : q \in FilePtrs
  <2> TAKE q \in Out("reverseIncludes", p)
  <2>1. <<"reverseIncludes", p, q>> \in edges
        BY <1>3
  <2> QED
      BY <2>1 DEF Kinds, Kind
<1> QED
    BY <1>2, <1>3, <1>4 DEF Frame, Frames

LEMMA TopFrame ==
  ASSUME stack \in Seq(Frames), stack # <<>>
  PROVE  /\ Len(stack) \in 1..Len(stack) /\ Len(stack) \in Nat \ {0}
         /\ Top \in Frames /\ Top = stack[Len(stack)]
         /\ Top.file \in FilePtrs /\ Top.files \subseteq FilePtrs
         /\ Top.namespaces = {} /\ Top.types = {}
<1>1. Len(stack) \in Nat \ {0}
      OBVIOUS
<1>2. Top \in Frames /\ Top = stack[Len(stack)]
      BY <1>1 DEF Top
<1> QED
    BY <1>1, <1>2 DEF Frames

LEMMA FrameFields ==
  ASSUME stack \in Seq(Frames), NEW i \in 1..Len(stack)
  PROVE  /\ stack[i] \in Frames /\ stack[i].file \in FilePtrs
         /\ stack[i].files \subseteq FilePtrs
<1>1. stack[i] \in Frames
      BY ElementOfSeq
<1> QED
    BY <1>1 DEF Frames

LEMMA Popped ==
  ASSUME stack \in Seq(Frames), stack # <<>>
  PROVE  LET s == SubSeq(stack, 1, Len(stack) - 1)
         IN  /\ s \in Seq(Frames) /\ Len(s) = Len(stack) - 1
             /\ \A i \in 1..Len(s) : s[i] = stack[i] /\ i \in 1..Len(stack) /\ i # Len(stack)
<1> DEFINE n == Len(stack) - 1
           s == SubSeq(stack, 1, n)
<1>1. Len(stack) \in Nat \ {0}
      OBVIOUS
<1>2. \A i \in 1..n : stack[i] \in Frames
      BY <1>1, ElementOfSeq
<1>3. n \in Int /\ 1 \in Int /\ n - 1 + 1 = n /\ (IF 1 <= n THEN n - 1 + 1 ELSE 0) = n
  <2>1. n \in Nat
        BY <1>1
  <2> HIDE DEF n
  <2>2. n - 1 + 1 = n
        BY <2>1
  <2>3. 1 <= n \/ n = 0
        BY <2>1
  <2> QED
      BY <2>1, <2>2, <2>3
<1> HIDE DEF n
<1>4. /\ s \in Seq(Frames) /\ Len(s) = IF 1 <= n THEN n - 1 + 1 ELSE 0
      /\ \A i \in 1..n - 1 + 1 : s[i] = stack[1 + i - 1]
      BY <1>2, <1>3, SubSeqProperties
<1>5. Len(s) = n /\ \A i \in 1..n : s[i] = stack[i]
  <2>1. \A i \in 1..n : i \in Int /\ 1 + i - 1 = i
        BY <1>3
  <2> QED
      BY <1>3, <1>4, <2>1
<1>6. \A i \in 1..n : i \in 1..Len(stack) /\ i # Len(stack)
      BY <1>1 DEF n
<1> QED
    BY <1>4, <1>5, <1>6 DEF n

LEMMA Rested ==
  ASSUME stack \in Seq(Frames), stack # <<>>, NEW p
  PROVE  LET s == SetTop([Top EXCEPT !.files = @ \ {p}])
         IN  /\ s \in Seq(Frames) /\ Len(s) = Len(stack)
             /\ \A i \in 1..Len(stack) :
                  /\ s[i].file = stack[i].file
                  /\ s[i].files \subseteq stack[i].files
                  /\ stack[i].files \subseteq s[i].files \cup {p}
<1> DEFINE new == [Top EXCEPT !.files = @ \ {p}]
           s == SetTop(new)
<1>1. Top \in Frames /\ Top = stack[Len(stack)] /\ Len(stack) \in 1..Len(stack)
      BY TopFrame
<1>2. new \in Frames /\ new.file = Top.file /\ new.files = Top.files \ {p}
      BY <1>1 DEF Frames
<1> HIDE DEF new
<1>3. s \in Seq(Frames) /\ Len(s) = Len(stack)
      BY <1>1, <1>2 DEF SetTop
<1>4. \A i \in 1..Len(stack) : s[i] = IF i = Len(stack) THEN new ELSE stack[i]
      BY <1>1 DEF SetTop
<1>5. \A i \in 1..Len(stack) :
        /\ s[i].file = stack[i].file
        /\ s[i].files \subseteq stack[i].files
        /\ stack[i].files \subseteq s[i].files \cup {p}
      BY <1>1, <1>2, <1>4
<1> QED
    BY <1>3, <1>5 DEF new

-----------------------------------------------------------------------------
(* Every step keeps the invariant.                                          *)
LEMMA Start ==
  ASSUME Physical, Init
  PROVE  IInv
<1>1. Typed
  <2>1. TypeOK
    <3>1. gen \in [Names -> Nat] /\ updates \in 0..MaxUpdates
          BY MaxUpdatesAssumption DEF Init
    <3> QED
        BY <3>1 DEF Init, TypeOK
  <2>2. CallTypes
    <3>1. stack \in Seq(Frames)
          BY DEF Init
    <3>2. pending = <<{}, {}>> /\ {} \in SUBSET Files
          BY DEF Init
    <3>3. pending \in (SUBSET Files) \X (SUBSET Files)
          BY <3>2
    <3> QED
        BY <3>1, <3>3 DEF Init, CallTypes
  <2> QED
      BY <2>1, <2>2 DEF Init, Typed, Kinds, CodeTypes
<1>2. CallsOK
      BY DEF Init, CallsOK, Entered, NeverReentered, Resting, Sound
<1>3. Whole
  <2>1. StoreOK
        BY DEF Init, StoreOK, Owned, Mirrored, Listed, Bounded
  <2>2. First
        BY DEF Init, First, AllLive
  <2> QED
      BY <2>1, <2>2 DEF Init, Whole, Cascade, SurvivorsIncludeNoRemoved
<1>4. CascadeUsesNoFreed
      BY DEF Init, CascadeUsesNoFreed
<1> QED
    BY <1>1, <1>2, <1>3, <1>4 DEF IInv

(* With every pointer good, the removal can begin.                          *)
LEMMA CascadeStarts ==
  ASSUME AllLive', stack' = <<>>, removed' = {}
  PROVE  Cascade'
<1>1. \A f, p, q : <<f, p, q>> \in edges' => Live(q)'
      BY DEF AllLive
<1>2. RevKnown' /\ FwdKnown'
      BY <1>1 DEF RevKnown, FwdKnown
<1>3. PkgsLive'
      BY <1>1 DEF PkgsLive
<1>4. FramesOK' /\ GoneOrGoing'
      BY DEF FramesOK, GoneOrGoing
<1> QED
    BY <1>2, <1>3, <1>4 DEF Cascade

LEMMA UpdateKeeps ==
  ASSUME IInv, NEW next \in CodeBases, NEW touched \in SUBSET (DOMAIN next \cap stored),
         Update(next, touched)
  PROVE  IInv'
<1> DEFINE here == DOMAIN next
           new  == here \ stored
           modified == {f \in here \cap stored : f \in touched \/ next[f] # code[f]}
           deleted  == (stored \cap Files) \ here
           N    == Above(new)
           g    == NewGen(N)
           E    == UNION {Registered(f, PtrOf(g)) : f \in new}
<1>1. Typed /\ CallsOK /\ TypeOK /\ Kinds /\ CallTypes
      BY DEF IInv, Typed
<1>2. stored \subseteq Names /\ gen \in [Names -> Nat] /\ updates \in 0..MaxUpdates
      BY <1>1 DEF TypeOK
<1>3. here \subseteq Files /\ new \in SUBSET Files
      BY CodeBasesAssumption
<1>4. N \in SUBSET Names /\ g \in [Names -> Nat]
      BY <1>2, <1>3, AboveNames, NewGenType
<1>5. /\ phase = "idle" /\ updates < MaxUpdates /\ fault = "none"
      /\ code' = next /\ updates' = updates + 1 /\ phase' = "files"
      /\ pending' = <<modified, deleted>>
      /\ removed' = {} /\ removedFiles' = {} /\ stack' = <<>>
      /\ deletedPkgs' = (stored \cap (Packages \cup Groups)) \ Above(here)
      /\ toParse' \subseteq Sources /\ complete' = FALSE /\ fault' = fault
      BY DEF Update
<1>6. Adds(N, E)
      BY DEF Update, Adds, PtrOf
<1> HIDE DEF N, g, E
<1>7. Fits(E, g, stored \cup N)
  <2>1. \A f \in new : Fits(Registered(f, PtrOf(g)), g, stored \cup N)
        BY <1>3, <1>4, RegisteredFits DEF N
  <2> QED
      BY <2>1, FitsUnion DEF E
<1>8. Typed'
  <2>1. stored' \subseteq Names /\ gen' \in [Names -> Nat]
        BY <1>2, <1>4, <1>6 DEF Adds, g
  <2>2. updates' \in 0..MaxUpdates
        BY <1>2, <1>5, MaxUpdatesAssumption
  <2>3. TypeOK'
        BY <2>1, <2>2, <1>5 DEF TypeOK
  <2>4. Kinds'
        BY <1>1, <1>6, <1>7, AddsKinds
  <2>5. CallTypes'
    <3>1. modified \subseteq Files /\ deleted \subseteq Files
          BY <1>3
    <3>2. pending' \in (SUBSET Files) \X (SUBSET Files)
      <4> HIDE DEF modified, deleted
      <4> QED
          BY <1>5, <3>1
    <3>3. stack' \in Seq(Frames)
          BY <1>5
    <3> QED
        BY <1>5, <3>2, <3>3 DEF CallTypes
  <2>6. CodeTypes'
        BY <1>5 DEF CodeTypes
  <2> QED
      BY <2>3, <2>4, <2>5, <2>6 DEF Typed
<1>9. CallsOK'
      BY <1>5 DEF CallsOK, Entered, NeverReentered, Resting, Sound
<1>10. ASSUME updates' <= 2
       PROVE  Whole'
  <2>1. updates <= 1 /\ updates <= 2 /\ updates \in Nat
        BY <1>2, <1>5, <1>10
  <2>2. Whole /\ First /\ StoreOK /\ AllLive
        BY <2>1, <1>5 DEF IInv, Whole, First
  <2>3. StoreOK' /\ \A e \in E : Live(e[3])'
        BY <1>1, <1>2, <1>4, <1>6, <1>7, <2>2, AddsStore DEF g
  <2>4. \A p : Live(p) => Live(p)'
        BY <1>2, <1>4, <1>6, AddsPtrs
  <2>5. AllLive'
        BY <2>2, <2>3, <2>4, <1>6 DEF AllLive, Adds
  <2>6. First'
    <3>1. updates' # 0
          BY <1>5, <2>1
    <3>2. updates' <= 1 => stored = {}
          BY <1>5, <2>1, <2>2 DEF First
    <3>3. updates' <= 1 => pending' = <<{}, {}>> /\ stack' = <<>> /\ deletedPkgs' = {}
          BY <1>5, <3>2
    <3> QED
        BY <3>1, <3>3, <2>5 DEF First
  <2>7. Cascade'
        BY <1>5, <2>5, CascadeStarts
  <2>8. SurvivorsIncludeNoRemoved'
        BY <1>5 DEF SurvivorsIncludeNoRemoved
  <2> QED
      BY <2>3, <2>6, <2>7, <2>8 DEF Whole
<1>11. CascadeUsesNoFreed'
       BY <1>5 DEF CascadeUsesNoFreed
<1> QED
    BY <1>8, <1>9, <1>10, <1>11 DEF IInv

(* A call pushed on the stack: p has not been called for before.            *)
LEMMA PushKeeps ==
  ASSUME Kinds, StoreOK, NEW p \in FilePtrs, NEW rest \in Seq(Frames), UNCHANGED store,
         stack' = Append(rest, Frame(p)), removed' = removed \cup {p}, Live(p),
         RevKnown, GoneOrGoing, FwdKnown,
         \A i \in 1..Len(rest) : FrameOK(rest[i])',
         \A q \in removed : ~Live(q) \/ \E i \in 1..Len(rest) : rest[i].file = q,
         \A c \in CompPtrs, r \in PkgPtrs : <<"package", c, r>> \in edges => Live(r)
  PROVE  RevKnown' /\ PkgsLive' /\ FramesOK' /\ GoneOrGoing' /\ FwdKnown'
<1>1. edges' = edges /\ \A x : Live(x)' <=> Live(x)
      BY DEF store, Live
<1>2. Frame(p) \in Frames /\ Frame(p).file = p
      /\ \A q : q \in Frame(p).files <=> <<"reverseIncludes", p, q>> \in edges
      BY FrameType
<1>3. /\ Len(stack') = Len(rest) + 1 /\ stack'[Len(rest) + 1] = Frame(p)
      /\ \A i \in 1..Len(rest) : stack'[i] = rest[i]
      BY <1>2, AppendProperties
<1>4. RevKnown' /\ FwdKnown'
      BY <1>1 DEF RevKnown, FwdKnown
<1>5. PkgsLive'
      BY <1>1 DEF PkgsLive
<1>6. Len(rest) \in Nat
      OBVIOUS
<1>7. \A q \in Frame(p).files : q \in FilePtrs
      BY <1>2 DEF Frames
<1>8. FrameOK(Frame(p))'
  <2>1. \A q \in Frame(p).files : Live(q) \/ q \in removed
        BY <1>2, <1>7 DEF RevKnown
  <2>2. Frame(p)' = Frame(p)
        BY <1>1 DEF Frame, Out
  <2> HIDE DEF Frame
  <2> QED
      BY <2>1, <2>2, <1>1, <1>2 DEF FrameOK
<1>9. FramesOK'
  <2> SUFFICES ASSUME NEW i \in 1..Len(stack')
               PROVE  FrameOK(stack[i])'
      BY DEF FramesOK
  <2>1. CASE i \in 1..Len(rest)
    <3>1. stack'[i] = rest[i]
          BY <2>1, <1>3
    <3>2. FrameOK(rest[i])'
          BY <2>1
    <3> QED
        BY <3>1, <3>2 DEF FrameOK
  <2>2. CASE i = Len(rest) + 1
    <3>1. stack'[i] = Frame(p) /\ Frame(p)' = Frame(p)
          BY <2>2, <1>1, <1>3 DEF Frame, Out
    <3> HIDE DEF Frame
    <3> QED
        BY <3>1, <1>8 DEF FrameOK
  <2> QED
      BY <2>1, <2>2, <1>3, <1>6
<1>10. GoneOrGoing'
  <2> SUFFICES ASSUME NEW q \in removed', Live(q)
               PROVE  \E i \in 1..Len(stack') : stack'[i].file = q
      BY <1>1 DEF GoneOrGoing
  <2>1. CASE q = p
    <3>1. Len(rest) + 1 \in 1..Len(stack')
          BY <1>3, <1>6
    <3> QED
        BY <2>1, <3>1, <1>2, <1>3
  <2>2. CASE q \in removed
    <3>1. PICK i \in 1..Len(rest) : rest[i].file = q
          BY <2>2
    <3>2. i \in 1..Len(stack')
          BY <1>3, <1>6
    <3> QED
        BY <3>1, <3>2, <1>3
  <2> QED
      BY <2>1, <2>2
<1> QED
    BY <1>4, <1>5, <1>9, <1>10

LEMMA PushTypes ==
  ASSUME Kinds, NEW p \in FilePtrs, NEW rest \in Seq(Frames), stack' = Append(rest, Frame(p))
  PROVE  stack' \in Seq(Frames)
BY FrameType, AppendProperties

(* Before the first removal there is nothing to remove.                     *)
LEMMA Removing ==
  ASSUME IInv, fault = "none", updates <= 2,
         pending # <<{}, {}>> \/ stack # <<>> \/ deletedPkgs # {}
  PROVE  updates = 2
<1>1. updates \in Nat
      BY DEF IInv, Typed, TypeOK
<1>2. ~(updates <= 1)
      BY DEF IInv, Whole, First
<1> QED
    BY <1>1, <1>2

LEMMA DeleteFileKeeps ==
  ASSUME IInv, NEW f \in Files, DeleteFile(f)
  PROVE  IInv'
<1> DEFINE p == Ptr(f)
<1>1. Typed /\ CallsOK /\ TypeOK /\ Kinds /\ CallTypes
      BY DEF IInv, Typed
<1>2. /\ phase = "files" /\ stack = <<>> /\ fault = "none"
      /\ pending' = <<pending[1] \ {f}, IF pending[1] # {} THEN pending[2] ELSE pending[2] \ {f}>>
      /\ f \in IF pending[1] # {} THEN pending[1] ELSE pending[2]
      /\ UNCHANGED <<code, store, phase, updates, complete, removedFiles, deletedPkgs, toParse, fault>>
      BY DEF DeleteFile
<1>3. pending # <<{}, {}>>
      BY <1>2
<1>4. pending' \in (SUBSET Files) \X (SUBSET Files)
  <2>1. pending[1] \subseteq Files /\ pending[2] \subseteq Files
        BY <1>1 DEF CallTypes
  <2> DEFINE a == pending[1] \ {f}
             b == IF pending[1] # {} THEN pending[2] ELSE pending[2] \ {f}
  <2>2. a \in SUBSET Files /\ b \in SUBSET Files /\ pending' = <<a, b>>
        BY <2>1, <1>2
  <2> HIDE DEF a, b
  <2> QED
      BY <2>2
<1>5. TypeOK' /\ Kinds' /\ CodeTypes'
  <2>1. CodeTypes
        BY DEF IInv, Typed
  <2> QED
      BY <2>1, <1>1, <1>2 DEF TypeOK, Kinds, CodeTypes, store
<1>6. p \in FilePtrs
  <2>1. gen \in [Names -> Nat] /\ f \in Names
        BY <1>1 DEF TypeOK, Names
  <2> QED
      BY <2>1 DEF Ptr, FilePtrs
<1>7. CASE UNCHANGED <<stack, removed>>
  <2>1. Typed'
        BY <1>1, <1>2, <1>4, <1>5, <1>7 DEF Typed, CallTypes
  <2>2. CallsOK'
        BY <1>1, <1>2, <1>7 DEF CallsOK, Entered, NeverReentered, Resting, Sound
  <2>3. ASSUME updates' <= 2
        PROVE  Whole'
    <3>1. updates <= 2 /\ updates = 2 /\ Whole
          BY <2>3, <1>2, <1>3, Removing DEF IInv
    <3>2. edges' = edges /\ gen' = gen /\ stored' = stored
          BY <1>2 DEF store
    <3>3. StoreOK'
          BY <3>1, <3>2 DEF Whole, StoreOK, Owned, Mirrored, Listed, Bounded, Live
    <3>4. First'
          BY <3>1, <1>2 DEF First
    <3>5. RevKnown /\ PkgsLive /\ FramesOK /\ GoneOrGoing /\ FwdKnown
          BY <3>1, <1>2 DEF Whole, Cascade
    <3>6. RevKnown' /\ PkgsLive' /\ FramesOK' /\ GoneOrGoing' /\ FwdKnown'
          BY <3>2, <3>5, <1>3, <1>7, <1>2 DEF RevKnown, PkgsLive, FramesOK, GoneOrGoing, FwdKnown, FrameOK, Live
    <3> QED
        BY <3>3, <3>4, <3>6, <1>2 DEF Whole, Cascade, SurvivorsIncludeNoRemoved
  <2> QED
      BY <2>1, <2>2, <2>3, <1>2 DEF IInv, CascadeUsesNoFreed
<1>8. CASE f \in stored /\ p \notin removed /\ stack' = <<Frame(p)>> /\ removed' = removed \cup {p}
  <2>1. stack' = Append(<<>>, Frame(p)) /\ <<>> \in Seq(Frames) /\ Len(<<>>) = 0
        BY <1>8
  <2>2. stack' \in Seq(Frames)
        BY <2>1, <1>1, <1>6, PushTypes
  <2>3. Typed'
    <3>1. CallTypes'
          BY <2>2, <1>1, <1>2, <1>4, <1>6, <1>8 DEF CallTypes
    <3> QED
        BY <3>1, <1>5 DEF Typed
  <2>4. Len(stack') = 1 /\ stack'[1] = Frame(p) /\ Frame(p).file = p
        BY <1>8, <1>1, <1>6, FrameType
  <2>5. CallsOK'
    <3>1. \A i \in 1..Len(stack') : i = 1
          BY <2>4
    <3>2. Entered' /\ NeverReentered'
          BY <2>4, <3>1, <1>8 DEF Entered, NeverReentered
    <3> QED
        BY <3>2, <1>2 DEF CallsOK, Resting, Sound
  <2>6. ASSUME updates' <= 2
        PROVE  Whole'
    <3>1. updates <= 2 /\ updates = 2 /\ Whole
          BY <2>6, <1>2, <1>3, Removing DEF IInv
    <3>2. edges' = edges /\ gen' = gen /\ stored' = stored /\ UNCHANGED store
          BY <1>2 DEF store
    <3>3. StoreOK /\ StoreOK'
          BY <3>1, <3>2 DEF Whole, StoreOK, Owned, Mirrored, Listed, Bounded, Live
    <3>4. First'
          BY <3>1, <1>2 DEF First
    <3>5. RevKnown /\ PkgsLive /\ FramesOK /\ GoneOrGoing /\ FwdKnown
          BY <3>1, <1>2 DEF Whole, Cascade
    <3>6. Live(p)
          BY <1>8 DEF Live, Ptr
    <3>7. \A q \in removed : ~Live(q)
          BY <3>5, <1>2 DEF GoneOrGoing
    <3>8. \A c \in CompPtrs, r \in PkgPtrs : <<"package", c, r>> \in edges => Live(r)
          BY <3>5, <1>3 DEF PkgsLive
    <3>9. \A i \in 1..Len(<<>>) : FrameOK(<<>>[i])'
          BY <2>1
    <3> HIDE DEF p
    <3>10. RevKnown' /\ PkgsLive' /\ FramesOK' /\ GoneOrGoing' /\ FwdKnown'
          BY <3>2, <3>3, <3>5, <3>6, <3>7, <3>8, <3>9, <1>1, <1>6, <1>8, <2>1, PushKeeps
    <3> QED
        BY <3>3, <3>4, <3>10, <1>2 DEF Whole, Cascade, SurvivorsIncludeNoRemoved
  <2> QED
      BY <2>3, <2>5, <2>6, <1>2 DEF IInv, CascadeUsesNoFreed
<1> QED
    BY <1>7, <1>8 DEF DeleteFile, Skip, Insert

LEMMA RemoveIncluderKeeps ==
  ASSUME IInv, InRemoveFile, NEW p \in Top.files, RemoveIncluder(p)
  PROVE  IInv'
<1>1. Typed /\ CallsOK /\ TypeOK /\ Kinds /\ CallTypes /\ CodeTypes /\ stack \in Seq(Frames)
      BY DEF IInv, Typed, CallTypes
<1>2. /\ phase = "files" /\ stack # <<>> /\ fault = "none"
      /\ UNCHANGED <<code, store, phase, updates, complete, pending, removedFiles, deletedPkgs, toParse>>
      BY DEF RemoveIncluder, InRemoveFile
<1>3. /\ Len(stack) \in 1..Len(stack) /\ Top.files \subseteq FilePtrs /\ Top = stack[Len(stack)]
      /\ p \in FilePtrs
      BY <1>1, <1>2, TopFrame
<1>4. PICK rest \in Seq(Frames) :
      /\ rest = SetTop([Top EXCEPT !.files = @ \ {p}]) /\ Len(rest) = Len(stack)
      /\ \A i \in 1..Len(stack) :
           /\ rest[i].file = stack[i].file
           /\ rest[i].files \subseteq stack[i].files
           /\ stack[i].files \subseteq rest[i].files \cup {p}
      BY <1>1, <1>2, Rested
<1>5. \/ p \in removed /\ stack' = rest /\ removed' = removed /\ fault' = fault
      \/ /\ p \notin removed /\ stack' = Append(rest, Frame(p)) /\ removed' = removed \cup {p}
         /\ fault' = IF Live(p) THEN fault ELSE "cascade"
      BY <1>4 DEF RemoveIncluder, Skip, Insert
<1>6. removed' = removed \cup {p}
      BY <1>5
<1>7. edges' = edges /\ gen' = gen /\ stored' = stored /\ UNCHANGED store
      BY <1>2 DEF store
<1>8. stack' \in Seq(Frames)
      BY <1>1, <1>3, <1>4, <1>5, PushTypes
<1>9. Typed'
  <2>1. TypeOK'
        BY <1>1, <1>2, <1>5, <1>7 DEF TypeOK
  <2>2. Kinds' /\ CodeTypes'
        BY <1>1, <1>2, <1>7 DEF Kinds, CodeTypes
  <2>3. CallTypes'
        BY <1>1, <1>2, <1>3, <1>6, <1>8 DEF CallTypes
  <2> QED
      BY <2>1, <2>2, <2>3 DEF Typed
<1>10. Frame(p) \in Frames /\ Frame(p).file = p
       BY <1>1, <1>3, FrameType
<1>11. p \notin removed =>
         /\ Len(stack') = Len(rest) + 1 /\ stack'[Len(rest) + 1] = Frame(p)
         /\ \A i \in 1..Len(rest) : stack'[i] = rest[i]
  <2> SUFFICES ASSUME p \notin removed
               PROVE  /\ Len(stack') = Len(rest) + 1 /\ stack'[Len(rest) + 1] = Frame(p)
                      /\ \A i \in 1..Len(rest) : stack'[i] = rest[i]
      OBVIOUS
  <2>1. stack' = Append(rest, Frame(p))
        BY <1>5
  <2> QED
      BY <2>1, <1>10, AppendProperties
<1>12. CallsOK'
  <2>1. \A i \in 1..Len(stack) : stack[i].file \in removed
        BY <1>1 DEF CallsOK, Entered
  <2>2. \A i, j \in 1..Len(stack) : i # j => stack[i].file # stack[j].file
        BY <1>1 DEF CallsOK, NeverReentered
  <2>3. Len(stack) \in Nat
        BY <1>1
  <2>4. CASE p \in removed
    <3>1. stack' = rest
          BY <1>5, <2>4
    <3>3. Len(stack') = Len(stack) /\ \A i \in 1..Len(stack) : stack'[i].file = stack[i].file
          BY <3>1, <1>4
    <3>2. Entered' /\ NeverReentered'
          BY <3>3, <2>1, <2>2, <1>6 DEF Entered, NeverReentered
    <3> QED
        BY <3>2, <1>2 DEF CallsOK, Resting, Sound
  <2>5. CASE p \notin removed
    <3>1. \A i \in 1..Len(stack') : i \in 1..Len(stack) \/ i = Len(stack) + 1
          BY <2>5, <2>3, <1>4, <1>11
    <3>2. \A i \in 1..Len(stack) : stack'[i].file = stack[i].file
          BY <2>5, <1>4, <1>11
    <3>3. stack'[Len(stack) + 1].file = p
          BY <2>5, <1>4, <1>10, <1>11
    <3>4. Entered'
          BY <3>1, <3>2, <3>3, <2>1, <1>6 DEF Entered
    <3>5. NeverReentered'
          BY <3>1, <3>2, <3>3, <2>1, <2>2, <2>5 DEF NeverReentered
    <3> QED
        BY <3>4, <3>5, <1>2 DEF CallsOK, Resting, Sound
  <2> QED
      BY <2>4, <2>5
<1>13. ASSUME updates' <= 2
       PROVE  Whole' /\ fault' = "none"
  <2>1. updates <= 2 /\ updates = 2 /\ Whole
        BY <1>13, <1>2, Removing DEF IInv
  <2>2. StoreOK /\ StoreOK'
        BY <2>1, <1>7 DEF Whole, StoreOK, Owned, Mirrored, Listed, Bounded, Live
  <2>3. First'
        BY <2>1, <1>2 DEF First
  <2>4. RevKnown /\ PkgsLive /\ FramesOK /\ GoneOrGoing /\ FwdKnown
        BY <2>1, <1>2 DEF Whole, Cascade
  <2>5. \A x : Live(x)' <=> Live(x)
        BY <1>7 DEF Live
  <2>6. Live(p) \/ p \in removed
        BY <2>4, <1>3 DEF FramesOK, FrameOK
  <2>7. \A i \in 1..Len(rest) : FrameOK(rest[i])'
    <3> TAKE i \in 1..Len(rest)
    <3>1. FrameOK(stack[i]) /\ stack[i].files \subseteq FilePtrs
          BY <2>4, <1>1, <1>4, FrameFields DEF FramesOK
    <3>2. /\ rest[i].file = stack[i].file
          /\ rest[i].files \subseteq stack[i].files
          /\ stack[i].files \subseteq rest[i].files \cup {p}
          BY <1>4
    <3>3. Live(rest[i].file)'
          BY <3>1, <3>2, <2>5 DEF FrameOK
    <3>4. \A q \in rest[i].files : Live(q)' \/ q \in removed'
          BY <3>1, <3>2, <2>5, <1>6 DEF FrameOK
    <3>5. \A q \in FilePtrs : <<"reverseIncludes", rest[i].file, q>> \in edges'
                                => q \in rest[i].files \/ q \in removed'
          BY <3>1, <3>2, <1>6, <1>7 DEF FrameOK
    <3> QED
        BY <3>3, <3>4, <3>5 DEF FrameOK
  <2>8. \A q \in removed : ~Live(q) \/ \E i \in 1..Len(rest) : rest[i].file = q
        BY <2>4, <1>4 DEF GoneOrGoing
  <2>9. \A c \in CompPtrs, r \in PkgPtrs : <<"package", c, r>> \in edges => Live(r)
        BY <2>4, <1>2 DEF PkgsLive
  <2>10. CASE p \in removed
    <3>1. stack' = rest /\ fault' = "none"
          BY <1>2, <1>5, <2>10
    <3>2. RevKnown' /\ PkgsLive' /\ FwdKnown'
          BY <2>4, <2>5, <2>9, <1>6, <1>7 DEF RevKnown, PkgsLive, FwdKnown
    <3>3. FramesOK'
          BY <3>1, <2>7 DEF FramesOK, FrameOK
    <3>4. GoneOrGoing'
          BY <3>1, <2>5, <2>8, <2>10, <1>6 DEF GoneOrGoing
    <3> QED
        BY <3>1, <3>2, <3>3, <3>4, <2>2, <2>3, <1>2 DEF Whole, Cascade, SurvivorsIncludeNoRemoved
  <2>11. CASE p \notin removed
    <3>1. stack' = Append(rest, Frame(p)) /\ Live(p) /\ fault' = "none"
          BY <1>2, <1>5, <2>6, <2>11
    <3>2. RevKnown' /\ PkgsLive' /\ FramesOK' /\ GoneOrGoing' /\ FwdKnown'
      <4>1. UNCHANGED store /\ removed' = removed \cup {p} /\ rest \in Seq(Frames) /\ p \in FilePtrs
            BY <1>1, <1>3, <1>4, <1>6, <1>7
      <4> QED
          BY <4>1, <3>1, <2>2, <2>4, <2>7, <2>8, <2>9, <1>1, PushKeeps
    <3> QED
        BY <3>1, <3>2, <2>2, <2>3, <1>2 DEF Whole, Cascade, SurvivorsIncludeNoRemoved
  <2> QED
      BY <2>10, <2>11
<1> QED
    BY <1>9, <1>12, <1>13 DEF IInv, CascadeUsesNoFreed

(* The end of removeFile: the file goes, and its component with it if it was*)
(* the last one.                                                            *)
LEMMA FinishKeeps ==
  ASSUME IInv, FinishRemoveFile
  PROVE  IInv'
<1> DEFINE file  == Top.file
           comps == Out("component", file)
           dead  == Emptied(file)
           pkgs  == UNION {Out("package", c) : c \in dead}
           S     == dead \cup {file}
           cut   == {<<"files", c, file>> : c \in comps} \cup ({"components"} \X pkgs \X dead)
<1>1. Typed /\ CallsOK /\ TypeOK /\ Kinds /\ CallTypes /\ CodeTypes /\ stack \in Seq(Frames)
      BY DEF IInv, Typed, CallTypes
<1>2. /\ phase = "files" /\ stack # <<>> /\ fault = "none" /\ Top.files = {}
      /\ fault' = IF \E p \in comps \cup pkgs : ~Live(p) THEN "cascade" ELSE "none"
      /\ Erase(S, cut)
      /\ stack' = SubSeq(stack, 1, Len(stack) - 1)
      /\ removedFiles' = removedFiles \cup {file[1]}
      /\ UNCHANGED <<code, phase, updates, complete, pending, removed, deletedPkgs, toParse>>
      BY DEF FinishRemoveFile, InRemoveFile
<1>3. /\ Len(stack) \in 1..Len(stack) /\ Top = stack[Len(stack)] /\ file \in FilePtrs
      BY <1>1, <1>2, TopFrame
<1>4. file \in Ptrs /\ file[1] \in Files
      BY <1>3, FileNames
<1>5. /\ \A c : c \in comps <=> <<"component", file, c>> \in edges
      /\ \A c, p : p \in Out("files", c) <=> <<"files", c, p>> \in edges
      /\ \A c, p : p \in Out("package", c) <=> <<"package", c, p>> \in edges
      BY <1>1, OutIn
<1>6. \A c \in comps : c \in CompPtrs /\ c \in Ptrs
  <2> SUFFICES ASSUME NEW c, <<"component", file, c>> \in edges
               PROVE  c \in CompPtrs /\ c \in Ptrs
      BY <1>5
  <2>1. c \in CompPtrs
        BY <1>1 DEF Kinds, Kind
  <2> QED
      BY <2>1 DEF CompPtrs, Ptrs, Names
<1>7. dead \subseteq comps /\ \A c \in dead : Out("files", c) \subseteq {file}
      BY DEF Emptied
<1>8. /\ stack' \in Seq(Frames) /\ Len(stack') = Len(stack) - 1
      /\ \A i \in 1..Len(stack') : stack'[i] = stack[i] /\ i \in 1..Len(stack) /\ i # Len(stack)
      BY <1>1, <1>2, Popped
<1> HIDE DEF file, comps, dead, pkgs
<1>9. S \in SUBSET Ptrs
      BY <1>4, <1>6, <1>7
<1> HIDE DEF cut
<1>10. /\ stored' = stored \ NamesOf(S) /\ gen' = gen
       /\ edges' = {e \in edges \ cut : e[2] \notin S}
       BY <1>2 DEF Erase
<1>11. Typed'
  <2>1. TypeOK'
        BY <1>1, <1>2, <1>4, <1>10 DEF TypeOK
  <2>2. Kinds' /\ CodeTypes'
        BY <1>1, <1>2, ErasesKinds DEF CodeTypes
  <2>3. CallTypes'
        BY <1>1, <1>2, <1>8 DEF CallTypes
  <2> QED
      BY <2>1, <2>2, <2>3 DEF Typed
<1>12. \A i, j \in 1..Len(stack) : i # j => stack[i].file # stack[j].file
       BY <1>1 DEF CallsOK, NeverReentered
<1>13. CallsOK'
  <2>1. Entered'
        BY <1>1, <1>2, <1>8 DEF CallsOK, Entered
  <2>2. NeverReentered'
        BY <1>8, <1>12 DEF NeverReentered
  <2> QED
      BY <2>1, <2>2, <1>2 DEF CallsOK, Resting, Sound
<1>14. ASSUME updates' <= 2
       PROVE  Whole' /\ fault' = "none"
  <2>1. updates <= 2 /\ updates = 2 /\ Whole /\ StoreOK
        BY <1>14, <1>2, Removing DEF IInv, Whole
  <2>2. RevKnown /\ PkgsLive /\ FramesOK /\ GoneOrGoing /\ FwdKnown
        BY <2>1, <1>2 DEF Whole, Cascade
  <2>3. /\ Live(file) /\ file \in removed
        /\ \A q \in FilePtrs : <<"reverseIncludes", file, q>> \in edges => q \in removed
        BY <2>2, <1>1, <1>2, <1>3 DEF FramesOK, FrameOK, CallsOK, Entered, file
  <2>4. \A c \in comps : Live(c)
    <3> TAKE c \in comps
    <3>1. <<"files", c, file>> \in edges
          BY <2>1, <1>3, <1>5, <1>6 DEF StoreOK, Listed
    <3> QED
        BY <2>1, <3>1 DEF StoreOK, Owned
  <2>5. \A p \in pkgs : p \in PkgPtrs /\ Live(p)
    <3> TAKE p \in pkgs
    <3>1. PICK c \in dead : <<"package", c, p>> \in edges
          BY <1>5 DEF pkgs
    <3>2. c \in CompPtrs /\ p \in PkgPtrs
          BY <3>1, <1>1 DEF Kinds, Kind
    <3> QED
        BY <2>2, <3>1, <3>2, <1>2 DEF PkgsLive
  <2>6. fault' = "none"
        BY <1>2, <2>4, <2>5
  <2>7. \A p \in S : Live(p)
        BY <2>3, <2>4, <1>7
  <2>8. /\ \A p : Live(p)' => Live(p)
        /\ \A p \in Ptrs : Live(p) /\ p \notin S => Live(p)'
        /\ \A p \in S : ~Live(p)'
        BY <2>7, <1>2, <1>9, ErasesPtrs
  <2>9. StoreOK'
    <3>1. \A e \in cut : e[1] # "reverseIncludes"
          BY DEF cut
    <3>2. \A p, c : <<"files", c, p>> \in cut => p \in S
          BY DEF cut
    <3>3. \A p, c : c \in S /\ <<"files", c, p>> \in edges /\ <<"component", p, c>> \in edges => p \in S
      <4> SUFFICES ASSUME NEW p, NEW c, c \in S, <<"files", c, p>> \in edges,
                          <<"component", p, c>> \in edges
                   PROVE  p \in S
          OBVIOUS
      <4>1. c \in CompPtrs
            BY <1>1 DEF Kinds, Kind
      <4>2. c # file
        <5>1. c[1] \in Components
              BY <4>1 DEF CompPtrs
        <5> QED
            BY <5>1, <1>4, NamesAssumption
      <4>3. p \in Out("files", c)
            BY <1>5
      <4> QED
          BY <4>2, <4>3, <1>7
    <3> HIDE DEF S
    <3> QED
        BY <2>1, <2>7, <3>1, <3>2, <3>3, <1>1, <1>2, <1>9, ErasesStore
  <2>10. \A p \in FilePtrs : Live(p) /\ p # file => Live(p)'
    <3> SUFFICES ASSUME NEW p \in FilePtrs, Live(p), p # file
                 PROVE  Live(p)'
        OBVIOUS
    <3>1. p \in Ptrs /\ p[1] \in Files
          BY FileNames
    <3>2. p \notin dead
      <4>1. \A c \in dead : c[1] \in Components
            BY <1>6, <1>7 DEF CompPtrs
      <4> QED
          BY <3>1, <4>1, NamesAssumption
    <3> QED
        BY <3>1, <3>2, <2>8
  <2>11. RevKnown'
    <3> SUFFICES ASSUME NEW p \in FilePtrs, NEW q \in FilePtrs, <<"reverseIncludes", p, q>> \in edges'
                 PROVE  Live(q)' \/ q \in removed'
        BY DEF RevKnown
    <3>1. Live(q) \/ q \in removed
          BY <2>2, <1>10 DEF RevKnown
    <3> QED
        BY <3>1, <2>3, <2>10, <1>2
  <2>12. PkgsLive'
    <3> SUFFICES ASSUME NEW c \in CompPtrs, NEW p \in PkgPtrs, <<"package", c, p>> \in edges'
                 PROVE  Live(p)'
        BY DEF PkgsLive
    <3>1. Live(p)
          BY <2>2, <1>2, <1>10 DEF PkgsLive
    <3>2. p \in Ptrs /\ p[1] \in Packages
          BY DEF PkgPtrs, Ptrs, Names
    <3>3. p # file
          BY <3>2, <1>4, NamesAssumption
    <3>4. p \notin dead
      <4>1. \A d \in dead : d[1] \in Components
            BY <1>6, <1>7 DEF CompPtrs
      <4> QED
          BY <3>2, <4>1, NamesAssumption
    <3> QED
        BY <3>1, <3>2, <3>3, <3>4, <2>8
  <2>13. FramesOK'
    <3> SUFFICES ASSUME NEW i \in 1..Len(stack')
                 PROVE  FrameOK(stack[i])'
        BY DEF FramesOK
    <3>1. stack'[i] = stack[i] /\ i \in 1..Len(stack) /\ stack[i].file # file
          BY <1>3, <1>8, <1>12 DEF file
    <3>2. FrameOK(stack[i]) /\ stack[i].file \in FilePtrs /\ stack[i].files \subseteq FilePtrs
          BY <3>1, <2>2, <1>1, FrameFields DEF FramesOK
    <3>3. PICK fr : fr = stack[i]
          OBVIOUS
    <3>4. Live(fr.file)'
          BY <3>1, <3>2, <3>3, <2>10 DEF FrameOK
    <3>5. \A q \in fr.files : Live(q)' \/ q \in removed'
          BY <3>1, <3>2, <3>3, <2>3, <2>10, <1>2 DEF FrameOK
    <3>6. \A q \in FilePtrs : <<"reverseIncludes", fr.file, q>> \in edges'
                                => q \in fr.files \/ q \in removed'
          BY <3>1, <3>2, <3>3, <1>2, <1>10 DEF FrameOK
    <3> QED
        BY <3>1, <3>3, <3>4, <3>5, <3>6 DEF FrameOK
  <2>14. GoneOrGoing'
    <3> SUFFICES ASSUME NEW p \in removed, Live(p)'
                 PROVE  \E i \in 1..Len(stack') : stack'[i].file = p
        BY <1>2 DEF GoneOrGoing
    <3>1. Live(p) /\ p # file
          BY <2>8
    <3>2. PICK i \in 1..Len(stack) : stack[i].file = p
          BY <3>1, <2>2 DEF GoneOrGoing
    <3>3. i # Len(stack)
          BY <3>1, <3>2, <1>3 DEF file
    <3>4. i \in 1..Len(stack')
          BY <3>3, <1>3, <1>8
    <3> QED
        BY <3>2, <3>4, <1>8
  <2>15. FwdKnown'
    <3> SUFFICES ASSUME NEW p \in FilePtrs, NEW q \in FilePtrs, <<"forwardIncludes", p, q>> \in edges'
                 PROVE  Live(q)' \/ p \in removed'
        BY DEF FwdKnown
    <3>1. <<"forwardIncludes", p, q>> \in edges
          BY <1>10
    <3>2. CASE q = file
      <4>1. <<"reverseIncludes", file, p>> \in edges
            BY <3>1, <3>2, <2>1, <2>3 DEF StoreOK, Mirrored
      <4> QED
          BY <4>1, <2>3, <1>2
    <3>3. CASE q # file
          BY <3>1, <3>3, <2>2, <2>10, <1>2 DEF FwdKnown
    <3> QED
        BY <3>2, <3>3
  <2>16. First' /\ SurvivorsIncludeNoRemoved'
    <3>1. updates' = 2 /\ phase' = "files"
          BY <2>1, <1>2
    <3> QED
        BY <3>1 DEF First, SurvivorsIncludeNoRemoved
  <2> QED
      BY <2>6, <2>9, <2>11, <2>12, <2>13, <2>14, <2>15, <2>16 DEF Whole, Cascade
<1> QED
    BY <1>11, <1>13, <1>14 DEF IInv, CascadeUsesNoFreed

LEMMA RemovePackageKeeps ==
  ASSUME IInv, NEW n \in Packages \cup Groups, RemovePackage(n)
  PROVE  IInv'
<1> DEFINE p       == Ptr(n)
           parents == Out("parent", p)
           dead    == {g \in parents : Out("children", g) \subseteq {p}}
           S       == {p} \cup dead
           cut     == {e \in edges : e[1] = "children" /\ e[3] = p}
<1>1. Typed /\ CallsOK /\ TypeOK /\ Kinds /\ CallTypes /\ CodeTypes
      BY DEF IInv, Typed
<1>2. /\ phase = "files" /\ stack = <<>> /\ pending = <<{}, {}>> /\ fault = "none"
      /\ n \in deletedPkgs /\ deletedPkgs' = deletedPkgs \ {n}
      /\ UNCHANGED <<code, phase, updates, complete, pending, stack, removed, removedFiles, toParse>>
      BY DEF RemovePackage
<1>3. \/ UNCHANGED <<store, fault>>
      \/ /\ n \in stored /\ Erase(S, cut)
         /\ fault' = IF \E g \in parents : ~Live(g) THEN "packages" ELSE "none"
      BY DEF RemovePackage
<1>4. p \in Ptrs /\ p[1] = n /\ n \in Names
  <2>1. gen \in [Names -> Nat] /\ n \in Names
        BY <1>1 DEF TypeOK, Names
  <2> QED
      BY <2>1 DEF Ptr, Ptrs
<1>5. \A g \in parents : g \in GroupPtrs /\ g \in Ptrs
  <2> SUFFICES ASSUME NEW g, <<"parent", p, g>> \in edges
               PROVE  g \in GroupPtrs /\ g \in Ptrs
      BY <1>1, OutIn
  <2>1. g \in GroupPtrs
        BY <1>1 DEF Kinds, Kind
  <2> QED
      BY <2>1 DEF GroupPtrs, Ptrs, Names
<1>6. n \in stored => Live(p)
      BY DEF Live, Ptr
<1>7. \A e \in cut : e[1] = "children"
      OBVIOUS
<1> HIDE DEF p, parents, cut
<1>8. S \in SUBSET Ptrs /\ dead \subseteq parents
      BY <1>4, <1>5
<1>9. \A x \in S : x[1] \notin Files /\ x[1] \notin Components
  <2>1. \A g \in parents : g[1] \in Groups
        BY <1>5 DEF GroupPtrs
  <2> QED
      BY <2>1, <1>4, <1>8, NamesAssumption
<1> HIDE DEF S, dead
<1>10. CASE UNCHANGED <<store, fault>>
  <2>1. edges' = edges /\ gen' = gen /\ stored' = stored /\ fault' = fault
        BY <1>10 DEF store
  <2>2. Typed'
        BY <2>1, <1>1, <1>2 DEF Typed, TypeOK, Kinds, CallTypes, CodeTypes
  <2>3. CallsOK'
        BY <2>1, <1>1, <1>2 DEF CallsOK, Entered, NeverReentered, Resting, Sound
  <2>4. ASSUME updates' <= 2
        PROVE  Whole'
    <3>1. updates <= 2 /\ updates = 2 /\ Whole
          BY <2>4, <1>2, Removing DEF IInv
    <3>2. StoreOK'
          BY <3>1, <2>1 DEF Whole, StoreOK, Owned, Mirrored, Listed, Bounded, Live
    <3>3. First' /\ SurvivorsIncludeNoRemoved'
          BY <3>1, <1>2 DEF First, SurvivorsIncludeNoRemoved
    <3>4. RevKnown /\ PkgsLive /\ FramesOK /\ GoneOrGoing /\ FwdKnown
          BY <3>1, <1>2 DEF Whole, Cascade
    <3>5. RevKnown' /\ PkgsLive' /\ FramesOK' /\ GoneOrGoing' /\ FwdKnown'
          BY <3>4, <2>1, <1>2 DEF RevKnown, PkgsLive, FramesOK, GoneOrGoing, FwdKnown, FrameOK, Live
    <3> QED
        BY <3>2, <3>3, <3>5 DEF Whole, Cascade
  <2> QED
      BY <2>1, <2>2, <2>3, <2>4, <1>2 DEF IInv, CascadeUsesNoFreed
<1>11. CASE /\ n \in stored /\ Erase(S, cut)
            /\ fault' = IF \E g \in parents : ~Live(g) THEN "packages" ELSE "none"
  <2>1. /\ stored' = stored \ NamesOf(S) /\ gen' = gen
        /\ edges' = {e \in edges \ cut : e[2] \notin S}
        BY <1>11 DEF Erase
  <2>2. Typed'
    <3>1. TypeOK'
          BY <2>1, <1>1, <1>2, <1>11 DEF TypeOK
    <3>2. Kinds' /\ CodeTypes'
          BY <1>1, <1>2, <1>11, ErasesKinds DEF CodeTypes
    <3>3. CallTypes'
          BY <1>1, <1>2 DEF CallTypes
    <3> QED
        BY <3>1, <3>2, <3>3 DEF Typed
  <2>3. CallsOK'
        BY <1>1, <1>2 DEF CallsOK, Entered, NeverReentered, Resting, Sound
  <2>4. ASSUME updates' <= 2, fault' = "none"
        PROVE  Whole'
    <3>1. updates <= 2 /\ updates = 2 /\ Whole /\ StoreOK
          BY <2>4, <1>2, Removing DEF IInv, Whole
    <3>2. \A g \in parents : Live(g)
          BY <2>4, <1>11
    <3>3. \A x \in S : Live(x)
          BY <3>2, <1>6, <1>8, <1>11 DEF S
    <3>4. /\ \A x : Live(x)' => Live(x)
          /\ \A x \in Ptrs : Live(x) /\ x \notin S => Live(x)'
          BY <3>3, <1>8, <1>11, ErasesPtrs
    <3>5. StoreOK'
      <4>1. \A e \in cut : e[1] # "reverseIncludes"
            BY <1>7
      <4>2. \A x, c : <<"files", c, x>> \in cut => x \in S
            BY <1>7
      <4>3. \A x, c : c \in S /\ <<"files", c, x>> \in edges /\ <<"component", x, c>> \in edges => x \in S
        <5> SUFFICES ASSUME NEW x, NEW c, c \in S, <<"component", x, c>> \in edges
                     PROVE  FALSE
            OBVIOUS
        <5>1. c \in CompPtrs
              BY <1>1 DEF Kinds, Kind
        <5> QED
            BY <5>1, <1>9 DEF CompPtrs
      <4> QED
          BY <3>1, <3>3, <4>1, <4>2, <4>3, <1>1, <1>8, <1>11, ErasesStore
    <3>6. \A x \in FilePtrs : Live(x) => Live(x)'
      <4> TAKE x \in FilePtrs
      <4>1. x \in Ptrs /\ x \notin S
            BY <1>9, FileNames
      <4> QED
          BY <4>1, <3>4
    <3>7. First' /\ SurvivorsIncludeNoRemoved'
          BY <3>1, <1>2 DEF First, SurvivorsIncludeNoRemoved
    <3>8. RevKnown /\ FramesOK /\ GoneOrGoing /\ FwdKnown
          BY <3>1, <1>2 DEF Whole, Cascade
    <3>9. RevKnown' /\ FwdKnown'
          BY <2>1, <3>6, <3>8, <1>2 DEF RevKnown, FwdKnown
    <3>10. PkgsLive' /\ FramesOK'
          BY <1>2 DEF PkgsLive, FramesOK
    <3>11. GoneOrGoing'
          BY <3>4, <3>8, <1>2 DEF GoneOrGoing
    <3> QED
        BY <3>5, <3>7, <3>9, <3>10, <3>11 DEF Whole, Cascade
  <2> QED
      BY <2>2, <2>3, <2>4, <1>11 DEF IInv, CascadeUsesNoFreed
<1> QED
    BY <1>3, <1>10, <1>11

(* The files of a translation unit include files of the unit.               *)
LEMMA UnitClosed ==
  ASSUME CodeTypes, NEW s
  PROVE  /\ TranslationUnit(s) \in SUBSET Files
         /\ \A f \in TranslationUnit(s) : \A h \in code[f] : h \in TranslationUnit(s)
<1>1. present \subseteq Files /\ \A f \in present : code[f] \subseteq present
      BY CodeBasesAssumption DEF CodeTypes, present
<1>2. TranslationUnit(s) \subseteq present
      BY DEF TranslationUnit
<1>3. ASSUME NEW f \in TranslationUnit(s), NEW h \in code[f]
      PROVE  h \in TranslationUnit(s)
  <2>1. h \in present
        BY <1>1, <1>2
  <2>2. ASSUME NEW F \in SUBSET present, s \in F, \A x \in F : code[x] \subseteq F
        PROVE  h \in F
        BY <2>2 DEF TranslationUnit
  <2> QED
      BY <2>1, <2>2 DEF TranslationUnit
<1> QED
    BY <1>1, <1>2, <1>3

LEMMA ParseUnitKeeps ==
  ASSUME Physical, IInv, NEW s \in Sources, ParseUnit(s)
  PROVE  IInv'
<1> DEFINE unit == TranslationUnit(s)
           all  == Above(unit) \cup UNION {Spaces[f] \cup Types[f] \cup Functions[f] : f \in unit}
           g    == NewGen(all)
           ptr  == PtrOf(g)
           Of(f) == Registered(f, ptr) \cup Defining(f, ptr) \cup UNION {Including(f, h, ptr) : h \in code[f]}
           E    == UNION {Of(f) : f \in unit}
<1>1. Typed /\ CallsOK /\ TypeOK /\ Kinds /\ CallTypes /\ CodeTypes
      BY DEF IInv, Typed
<1>2. /\ phase = "parse" /\ toParse' = toParse \ {s}
      /\ UNCHANGED <<code, phase, updates, complete, pending, stack, removed, removedFiles,
                     deletedPkgs, fault>>
      BY DEF ParseUnit, calls
<1>3. fault = "none" /\ updates \in Nat
      BY <1>1, <1>2 DEF CallsOK, Sound, TypeOK
<1>4. unit \in SUBSET Files /\ \A f \in unit : \A h \in code[f] : h \in unit
      BY <1>1, UnitClosed
<1>5. Adds(all, E)
      BY DEF ParseUnit, Adds, PtrOf
<1> HIDE DEF unit
<1>6. all = Above(unit)
  <2>1. \A f \in unit : Spaces[f] = {} /\ Types[f] = {} /\ Functions[f] = {}
        BY <1>4 DEF Physical
  <2> QED
      BY <2>1
<1>7. all \in SUBSET Names /\ Above(unit) \subseteq stored \cup all
      BY <1>4, <1>6, AboveNames
<1>8. stored \subseteq Names /\ gen \in [Names -> Nat]
      BY <1>1 DEF TypeOK
<1> HIDE DEF all
<1>9. g \in [Names -> Nat]
      BY <1>7, <1>8, NewGenType
<1> HIDE DEF g
<1>10. \A f \in unit : Fits(Of(f), g, stored \cup all)
  <2> TAKE f \in unit
  <2>1. Fits(Registered(f, ptr), g, stored \cup all)
        BY <1>4, <1>7, <1>9, RegisteredFits
  <2>2. Defining(f, ptr) = {}
        BY <1>4, DefiningNothing
  <2>3. \A h \in code[f] : Fits(Including(f, h, ptr), g, stored \cup all)
        BY <1>4, <1>7, <1>9, IncludingFits
  <2> DEFINE inc == UNION {Including(f, h, ptr) : h \in code[f]}
  <2>4. Fits(inc, g, stored \cup all)
        BY <2>3, FitsUnion
  <2>5. Of(f) = Registered(f, ptr) \cup inc
        BY <2>2
  <2> HIDE DEF inc, Of, ptr
  <2> QED
      BY <2>1, <2>4, <2>5, FitsPair
<1> HIDE DEF Of
<1>11. Fits(E, g, stored \cup all)
       BY <1>10, FitsUnion
<1> HIDE DEF E
<1>12. /\ gen' = g /\ stored' = stored \cup all /\ edges' = edges \cup E
       BY <1>5 DEF Adds, g
<1>13. Typed'
  <2>1. TypeOK'
        BY <1>1, <1>2, <1>7, <1>8, <1>9, <1>12 DEF TypeOK
  <2>2. Kinds'
        BY <1>1, <1>5, <1>11, AddsKinds
  <2> QED
      BY <2>1, <2>2, <1>1, <1>2 DEF Typed, CallTypes, CodeTypes
<1>14. CallsOK'
       BY <1>1, <1>2 DEF CallsOK, Entered, NeverReentered, Resting, Sound
<1>15. ASSUME updates' <= 2
       PROVE  Whole'
  <2>1. updates <= 2 /\ Whole /\ StoreOK
        BY <1>15, <1>2, <1>3 DEF IInv, Whole
  <2>2. StoreOK' /\ \A e \in E : Live(e[3])'
        BY <2>1, <1>1, <1>5, <1>7, <1>8, <1>11, AddsStore DEF g
  <2>3. \A x : Live(x) => Live(x)'
        BY <1>5, <1>7, <1>8, AddsPtrs
  <2>4. First'
    <3>1. AllLive => AllLive'
          BY <2>2, <2>3, <1>12 DEF AllLive
    <3> QED
        BY <2>1, <3>1, <1>2 DEF Whole, First
  <2>5. SurvivorsIncludeNoRemoved'
        BY <2>1, <2>2, <2>3, <1>2, <1>12 DEF Whole, SurvivorsIncludeNoRemoved
  <2>6. Cascade'
        BY <1>2 DEF Cascade
  <2> QED
      BY <2>2, <2>4, <2>5, <2>6 DEF Whole
<1> QED
    BY <1>2, <1>13, <1>14, <1>15, <1>3 DEF IInv, CascadeUsesNoFreed

(* Once no call is on the stack and no file is left to remove, an includer  *)
(* of a freed file has been freed itself.                                   *)
LEMMA StartParseKeeps ==
  ASSUME IInv, StartParse
  PROVE  IInv'
<1>1. Typed /\ CallsOK /\ TypeOK /\ Kinds /\ CallTypes /\ CodeTypes
      BY DEF IInv, Typed
<1>2. /\ phase = "files" /\ stack = <<>> /\ fault = "none" /\ phase' = "parse"
      /\ toParse' = toParse \cup Propagated
      /\ edges' = edges /\ gen' = gen /\ stored' = stored
      /\ UNCHANGED <<code, updates, complete, pending, stack, removed, removedFiles, deletedPkgs, fault>>
      BY DEF StartParse, store, calls
<1>3. Typed'
  <2>1. TypeOK'
        BY <1>1, <1>2 DEF TypeOK, Propagated
  <2> QED
      BY <2>1, <1>1, <1>2 DEF Typed, Kinds, CallTypes, CodeTypes
<1>4. CallsOK'
      BY <1>1, <1>2 DEF CallsOK, Entered, NeverReentered, Resting, Sound
<1>5. ASSUME updates' <= 2
      PROVE  Whole'
  <2>1. Whole
        BY <1>2, <1>5 DEF IInv
  <2>2. StoreOK' /\ First' /\ Cascade'
        BY <2>1, <1>2 DEF Whole, StoreOK, Owned, Mirrored, Listed, Bounded, First, AllLive, Live, Cascade
  <2>3. SurvivorsIncludeNoRemoved'
    <3> SUFFICES ASSUME NEW e \in edges, e[1] = "forwardIncludes"
                 PROVE  Live(e[3])
        BY <1>2 DEF SurvivorsIncludeNoRemoved, Live
    <3>1. e = <<"forwardIncludes", e[2], e[3]>> /\ e[2] \in FilePtrs /\ e[3] \in FilePtrs
          BY <1>1 DEF Kinds, Kind
    <3>2. Live(e[3]) \/ e[2] \in removed
          BY <2>1, <3>1, <1>2 DEF Whole, Cascade, FwdKnown
    <3>3. Live(e[2])
          BY <2>1 DEF Whole, StoreOK, Owned
    <3>4. \A q \in removed : ~Live(q)
          BY <2>1, <1>2 DEF Whole, Cascade, GoneOrGoing
    <3> QED
        BY <3>2, <3>3, <3>4
  <2> QED
      BY <2>2, <2>3 DEF Whole
<1> QED
    BY <1>2, <1>3, <1>4, <1>5 DEF IInv, CascadeUsesNoFreed

(* The steps that leave the store as it is, in and after the parse.         *)
LEMMA RestKeeps ==
  ASSUME IInv, EndParse \/ Export \/ UNCHANGED vars
  PROVE  IInv'
<1>1. Typed /\ CallsOK /\ TypeOK /\ Kinds /\ CallTypes /\ CodeTypes
      BY DEF IInv, Typed
<1>2. /\ edges' = edges /\ gen' = gen /\ stored' = stored
      /\ UNCHANGED <<code, updates, pending, stack, removed, removedFiles, deletedPkgs>>
      BY DEF EndParse, Export, vars, store, calls
<1>3. \/ phase' = phase /\ toParse' = toParse /\ complete' = complete
      \/ phase = "parse" /\ phase' = "idle" /\ toParse' = {} /\ complete' \in BOOLEAN
      BY DEF EndParse, Export, vars
<1>4. \/ fault' = fault
      \/ phase = "idle" /\ phase' = phase /\ fault = "none" /\ fault' \in {"export", "none"}
      BY DEF EndParse, Export, vars
<1>5. Typed'
  <2>1. TypeOK'
        BY <1>1, <1>2, <1>3, <1>4 DEF TypeOK
  <2> QED
      BY <2>1, <1>1, <1>2 DEF Typed, Kinds, CallTypes, CodeTypes
<1>6. CallsOK'
      BY <1>1, <1>2, <1>3, <1>4 DEF CallsOK, Entered, NeverReentered, Resting, Sound
<1>7. ASSUME updates' <= 2, fault' = "none"
      PROVE  Whole'
  <2>1. Whole
        BY <1>2, <1>4, <1>7 DEF IInv
  <2>2. StoreOK' /\ First'
        BY <2>1, <1>2, <1>3 DEF Whole, StoreOK, Owned, Mirrored, Listed, Bounded, First, AllLive, Live
  <2>3. Cascade'
    <3>1. phase' = "files" => RevKnown /\ PkgsLive /\ FramesOK /\ GoneOrGoing /\ FwdKnown
          BY <2>1, <1>3 DEF Whole, Cascade
    <3> QED
        BY <3>1, <1>2 DEF Cascade, RevKnown, PkgsLive, FramesOK, GoneOrGoing, FwdKnown, FrameOK, Live
  <2>4. SurvivorsIncludeNoRemoved'
        BY <2>1, <1>2, <1>3 DEF Whole, SurvivorsIncludeNoRemoved, Live
  <2> QED
      BY <2>2, <2>3, <2>4 DEF Whole
<1> QED
    BY <1>2, <1>4, <1>5, <1>6, <1>7 DEF IInv, CascadeUsesNoFreed

LEMMA StepKeeps ==
  ASSUME Physical, IInv, [Next]_vars
  PROVE  IInv'
<1>1. InRemoveFile => Top.namespaces = {} /\ Top.types = {}
  <2>1. stack \in Seq(Frames)
        BY DEF IInv, Typed, CallTypes
  <2> QED
      BY <2>1, TopFrame DEF InRemoveFile
<1>2. CASE \E next \in CodeBases : \E touched \in SUBSET (DOMAIN next \cap stored) : Update(next, touched)
      BY <1>2, UpdateKeeps
<1>3. CASE \E f \in Files : DeleteFile(f)
      BY <1>3, DeleteFileKeeps
<1>4. CASE InRemoveFile /\ \E n \in Top.namespaces : LeaveNamespace(n)
      BY <1>1, <1>4
<1>5. CASE InRemoveFile /\ \E t \in Top.types : LeaveType(t)
      BY <1>1, <1>5
<1>6. CASE InRemoveFile /\ \E p \in Top.files : RemoveIncluder(p)
      BY <1>6, RemoveIncluderKeeps
<1>7. CASE FinishRemoveFile
      BY <1>7, FinishKeeps
<1>8. CASE \E n \in Packages \cup Groups : RemovePackage(n)
      BY <1>8, RemovePackageKeeps
<1>9. CASE StartParse
      BY <1>9, StartParseKeeps
<1>10. CASE \E s \in Sources : ParseUnit(s)
       BY <1>10, ParseUnitKeeps
<1>11. CASE EndParse \/ Export \/ UNCHANGED vars
       BY <1>11, RestKeeps
<1> QED
    BY <1>2, <1>3, <1>4, <1>5, <1>6, <1>7, <1>8, <1>9, <1>10, <1>11 DEF Next

-----------------------------------------------------------------------------
(* The inductive invariant.                                                 *)
THEOREM Invariant ==
  ASSUME Physical
  PROVE  Spec => []IInv
<1>1. Init => IInv
      BY Start
<1>2. IInv /\ [Next]_vars => IInv'
      BY StepKeeps
<1> QED
    BY <1>1, <1>2, PTL DEF Spec

(* Every variable of store and Tool keeps its type, the edges of the store  *)
(* and the call stack of removeFile among them.                             *)
THEOREM TypeCorrect ==
  ASSUME Physical
  PROVE  Spec => []TypeOK
<1>1. IInv => TypeOK
      BY DEF IInv, Typed
<1> QED
    BY <1>1, Invariant, PTL

(* However often the code base changes and however its files include each   *)
(* other, removeFile is never entered for a file it is already removing.    *)
THEOREM CascadeTerminates ==
  ASSUME Physical
  PROVE  Spec => []NeverReentered
<1>1. IInv => NeverReentered
      BY DEF IInv, CallsOK
<1> QED
    BY <1>1, Invariant, PTL

(* Up to the first update that removes files, the removal dereferences no   *)
(* deleted object, whatever the includes and the order of removal.          *)
THEOREM CascadeIsSafe ==
  ASSUME Physical
  PROVE  Spec => [](updates <= 2 => CascadeUsesNoFreed)
<1>1. IInv => (updates <= 2 => CascadeUsesNoFreed)
      BY DEF IInv
<1> QED
    BY <1>1, Invariant, PTL

-----------------------------------------------------------------------------
(* The store that a physical run keeps up to date, for any number of        *)
(* updates that meet no freed object.  First its shape: a file is listed by *)
(* its component, a component has a file, what a component lists points     *)
(* back to it, and an include stands for a dependency of the components.    *)
Housed    == \A f \in stored \cap Files : <<"files", Ptr(CompOf[f]), Ptr(f)>> \in edges
Inhabited == \A c \in stored \cap Components :
               \E f \in stored \cap Files : <<"files", Ptr(c), Ptr(f)>> \in edges
Backed    == \A e \in edges : e[1] = "files" =>
               e[3] \in FilePtrs /\ Live(e[3]) /\ <<"component", e[3], e[2]>> \in edges
Depending == \A f, h \in stored \cap Files :
               <<"forwardIncludes", Ptr(f), Ptr(h)>> \in edges /\ CompOf[f] # CompOf[h] =>
                 <<"forwardDeps", Ptr(CompOf[f]), Ptr(CompOf[h])>> \in edges
Shape == StoreOK /\ Housed /\ Inhabited /\ Backed /\ Depending

(* What the store records a file to include, against the code base: nothing *)
(* else, and everything.                                                    *)
Includes(f) == NamesOf(Out("forwardIncludes", Ptr(f)))
Faithful(f) == f \in present /\ Includes(f) \subseteq code[f] \ {f}
Visited(f)  == f \in present /\ code[f] \ {f} \subseteq Includes(f)
Covered(s)  == \A f \in TranslationUnit(s) : f \in stored /\ Visited(f)

(* During the removal: a frame holds a stored file, and its includers are in*)
(* it or have been called for; every file is right unless it is still to be *)
(* removed; and the sources that will not be parsed lie in a set of files   *)
(* that is closed under the #includes, visited but for what is removed.     *)
FrameCovers(frame) ==
  /\ Live(frame.file)
  /\ \A q \in FilePtrs : <<"reverseIncludes", frame.file, q>> \in edges
                             => q \in frame.files \/ q \in removed
StackCovers == \A i \in 1..Len(stack) : FrameCovers(stack[i])
Doomed   == {f \in Files : f \in pending[1] \/ f \in pending[2] \/ Ptr(f) \in removed}
Settled  == \A f \in stored \cap Files : f \in Doomed \/ Faithful(f)
Spares(V) ==
  /\ \A s \in Sources \cap present : s \in toParse \/ s \in removedFiles \/ s \in V
  /\ \A f \in V : f \in stored \/ f \in removedFiles
  /\ \A f \in V \cap stored : Includes(f) \subseteq V /\ (f \in Doomed \/ Visited(f))
Gone     == removedFiles \cap stored = {}
Underway ==
  /\ StackCovers /\ GoneOrGoing /\ FwdKnown
  /\ Gone /\ Settled /\ \E V \in SUBSET Files : Spares(V)

(* At all other times every file is right, and every source has been visited*)
(* with its translation unit, or will be if nothing is cancelled.           *)
FwdLive == \A e \in edges : e[1] = "forwardIncludes" => Live(e[3])
AtRest ==
  /\ FwdLive
  /\ \A f \in stored \cap Files : Faithful(f)
  /\ phase = "parse" => \A s \in Sources \cap present : s \in toParse \/ Covered(s)
  /\ phase = "idle" /\ complete => \A s \in Sources \cap present : Covered(s)

Maintained ==
  /\ phase # "files" => fault \in {"none", "export"}
  /\ fault \in {"none", "export"} =>
       /\ Shape
       /\ phase = "files" => Underway
       /\ phase # "files" => AtRest

-----------------------------------------------------------------------------
(* The members added for the files F, when the visitors have seen I[f] of a *)
(* file f.                                                                  *)
Filing(F, I, ptr) == UNION {Registered(f, ptr) \cup UNION {Including(f, h, ptr) : h \in I[f]} : f \in F}

Describes(E, F, I, ptr) ==
  /\ \A f \in F : /\ <<"files", ptr[CompOf[f]], ptr[f]>> \in E
                  /\ <<"component", ptr[f], ptr[CompOf[f]]>> \in E
  /\ \A f \in F : \A h \in I[f] :
       /\ f # h => <<"forwardIncludes", ptr[f], ptr[h]>> \in E
       /\ CompOf[f] # CompOf[h] => <<"forwardDeps", ptr[CompOf[f]], ptr[CompOf[h]]>> \in E
  /\ \A e \in E : e[1] = "files" => \E f \in F : e = <<"files", ptr[CompOf[f]], ptr[f]>>
  /\ \A e \in E : e[1] = "forwardIncludes" =>
       \E f \in F : \E h \in I[f] : f # h /\ e = <<"forwardIncludes", ptr[f], ptr[h]>>

LEMMA FilingDescribes ==
  ASSUME NEW F \in SUBSET Files, NEW I, NEW ptr, \A f \in F : I[f] \subseteq Files
  PROVE  Describes(Filing(F, I, ptr), F, I, ptr)
<1> DEFINE E == Filing(F, I, ptr)
<1>1. ASSUME NEW f \in F
      PROVE  /\ <<"files", ptr[CompOf[f]], ptr[f]>> \in E
             /\ <<"component", ptr[f], ptr[CompOf[f]]>> \in E
  <2>1. Registered(f, ptr) \subseteq E
        BY DEF Filing
  <2>2. /\ <<"files", ptr[CompOf[f]], ptr[f]>> \in Registered(f, ptr)
        /\ <<"component", ptr[f], ptr[CompOf[f]]>> \in Registered(f, ptr)
        BY DEF Registered
  <2> HIDE DEF E
  <2> QED
      BY <2>1, <2>2
<1>2. ASSUME NEW f \in F, NEW h \in I[f]
      PROVE  /\ f # h => <<"forwardIncludes", ptr[f], ptr[h]>> \in E
             /\ CompOf[f] # CompOf[h] => <<"forwardDeps", ptr[CompOf[f]], ptr[CompOf[h]]>> \in E
  <2>1. Including(f, h, ptr) \subseteq E
        BY DEF Filing
  <2>2. f # h => <<"forwardIncludes", ptr[f], ptr[h]>> \in Including(f, h, ptr)
        BY DEF Including
  <2>3. CompOf[f] \in Components /\ CompOf[h] \in Components
        BY DEF Components
  <2>4. CompOf[f] # NoGroup /\ CompOf[h] # NoGroup
        BY <2>3, NoGroupAssumption
  <2>5. CompOf[f] # CompOf[h] =>
          <<"forwardDeps", ptr[CompOf[f]], ptr[CompOf[h]]>> \in Including(f, h, ptr)
        BY <2>4 DEF Including
  <2> HIDE DEF E
  <2> QED
      BY <2>1, <2>2, <2>5
<1>3. ASSUME NEW e \in E
      PROVE  \E f \in F : e \in Registered(f, ptr) \/ \E h \in I[f] : e \in Including(f, h, ptr)
      BY <1>3 DEF Filing
<1>4. ASSUME NEW f, NEW e \in Registered(f, ptr)
      PROVE  /\ e[1] = "files" => e = <<"files", ptr[CompOf[f]], ptr[f]>>
             /\ e[1] # "forwardIncludes"
      BY <1>4 DEF Registered
<1>5. ASSUME NEW f, NEW h, NEW e \in Including(f, h, ptr)
      PROVE  /\ e[1] # "files"
             /\ e[1] = "forwardIncludes" => f # h /\ e = <<"forwardIncludes", ptr[f], ptr[h]>>
      BY <1>5 DEF Including
<1> HIDE DEF E
<1>6. \A e \in E : e[1] = "files" => \E f \in F : e = <<"files", ptr[CompOf[f]], ptr[f]>>
      BY <1>3, <1>4, <1>5
<1>7. \A e \in E : e[1] = "forwardIncludes" =>
       \E f \in F : \E h \in I[f] : f # h /\ e = <<"forwardIncludes", ptr[f], ptr[h]>>
      BY <1>3, <1>4, <1>5
<1> QED
    BY <1>1, <1>2, <1>6, <1>7 DEF E, Describes

-----------------------------------------------------------------------------
(* Pointers to what is stored, before and after members are added.          *)
LEMMA PtrType ==
  ASSUME gen \in [Names -> Nat], NEW f \in Files
  PROVE  /\ Ptr(f) \in FilePtrs /\ Ptr(f) \in Ptrs /\ Ptr(f) = <<f, gen[f]>>
         /\ Ptr(CompOf[f]) \in CompPtrs /\ Ptr(CompOf[f]) \in Ptrs
         /\ Live(Ptr(f)) <=> f \in stored
         /\ Live(Ptr(CompOf[f])) <=> CompOf[f] \in stored
<1>1. CompOf[f] \in Components
      BY DEF Components
<1>2. f \in Names /\ CompOf[f] \in Names
      BY <1>1 DEF Names
<1>3. gen[f] \in Nat /\ gen[CompOf[f]] \in Nat
      BY <1>2
<1> QED
    BY <1>1, <1>2, <1>3 DEF Ptr, FilePtrs, CompPtrs, Ptrs, Live

LEMMA IncludesIn ==
  ASSUME Kinds, NEW f
  PROVE  \A h : h \in Includes(f) <=>
           \E k \in Nat : h \in Files /\ <<"forwardIncludes", Ptr(f), <<h, k>>>> \in edges
<1> DEFINE T == Out("forwardIncludes", Ptr(f))
<1>1. \A q : q \in T <=> <<"forwardIncludes", Ptr(f), q>> \in edges
      BY OutIn
<1>2. \A q \in T : q \in FilePtrs
  <2> SUFFICES ASSUME NEW q, <<"forwardIncludes", Ptr(f), q>> \in edges
               PROVE  q \in FilePtrs
      BY <1>1
  <2> QED
      BY DEF Kinds, Kind
<1>3. \A q \in T : q = <<q[1], q[2]>> /\ q[1] \in Files /\ q[2] \in Nat
      BY <1>2 DEF FilePtrs
<1>4. Includes(f) = {q[1] : q \in T}
      BY DEF Includes, NamesOf
<1> HIDE DEF T
<1>5. ASSUME NEW h \in Includes(f)
      PROVE  \E k \in Nat : h \in Files /\ <<"forwardIncludes", Ptr(f), <<h, k>>>> \in edges
  <2>1. PICK q \in T : h = q[1]
        BY <1>4, <1>5
  <2>2. q = <<h, q[2]>> /\ q[2] \in Nat /\ h \in Files
        BY <1>3, <2>1
  <2>3. <<"forwardIncludes", Ptr(f), <<h, q[2]>>>> \in edges
        BY <1>1, <2>1, <2>2
  <2> QED
      BY <2>2, <2>3
<1>6. ASSUME NEW h, NEW k \in Nat, <<"forwardIncludes", Ptr(f), <<h, k>>>> \in edges
      PROVE  h \in Includes(f)
  <2>1. <<h, k>> \in T /\ <<h, k>>[1] = h
        BY <1>1, <1>6
  <2> QED
      BY <1>4, <2>1
<1> QED
    BY <1>5, <1>6

LEMMA AboveFiles ==
  ASSUME NEW F \in SUBSET Files
  PROVE  /\ Above(F) \cap Files = F
         /\ \A c \in Above(F) \cap Components : \E f \in F : c = CompOf[f]
<1>1. \A f \in F : CompOf[f] \in Components /\ PkgOf[CompOf[f]] \in Packages
      BY AboveFile
<1>2. \A f \in F : GroupOf[PkgOf[CompOf[f]]] # NoGroup => GroupOf[PkgOf[CompOf[f]]] \in Groups
      BY <1>1 DEF Groups
<1>3. Files \cap Components = {} /\ Files \cap Packages = {} /\ Files \cap Groups = {}
      /\ Components \cap Packages = {} /\ Components \cap Groups = {}
      BY NamesAssumption
<1> QED
    BY <1>1, <1>2, <1>3 DEF Above

(* What the addition of members does to pointers, one by one.               *)
LEMMA AddsSteady ==
  ASSUME gen \in [Names -> Nat], stored \subseteq Names, NEW F \in SUBSET Files, NEW E,
         Adds(Above(F), E)
  PROVE  /\ \A f \in stored : f \in stored' /\ Ptr(f)' = Ptr(f)
         /\ gen' \in [Names -> Nat] /\ stored' \subseteq Names
         /\ \A n \in Names : PtrOf(NewGen(Above(F)))[n] = Ptr(n)'
         /\ stored' \cap Files = (stored \cap Files) \cup F
<1>1. Above(F) \subseteq Names
      BY AboveNames
<1>2. gen' = NewGen(Above(F)) /\ stored' = stored \cup Above(F)
      BY DEF Adds
<1>3. \A n \in Names : gen'[n] = IF n \in Above(F) \ stored THEN gen[n] + 1 ELSE gen[n]
      BY <1>2 DEF NewGen
<1>4. gen' \in [Names -> Nat]
      BY <1>2, NewGenType
<1>5. \A n \in Names : PtrOf(NewGen(Above(F)))[n] = <<n, gen'[n]>>
      BY <1>2 DEF PtrOf
<1> QED
    BY <1>1, <1>2, <1>3, <1>4, <1>5, AboveFiles DEF Ptr

LEMMA AddsShape ==
  ASSUME gen \in [Names -> Nat], stored \subseteq Names, Kinds, Shape,
         NEW F \in SUBSET Files, NEW I, NEW E,
         \A f \in F : I[f] \subseteq F,
         Fits(E, NewGen(Above(F)), stored \cup Above(F)), Adds(Above(F), E),
         Describes(E, F, I, PtrOf(NewGen(Above(F))))
  PROVE  Shape'
<1> DEFINE g == NewGen(Above(F))
           ptr == PtrOf(g)
<1>1. Above(F) \in SUBSET Names
      BY AboveNames
<1>2. StoreOK /\ Housed /\ Inhabited /\ Backed /\ Depending
      BY DEF Shape
<1>3. StoreOK' /\ \A e \in E : Live(e[3])'
      BY <1>1, <1>2, AddsStore
<1>4. /\ \A p : Live(p) => Live(p)'
      /\ \A p \in Ptrs : p[2] <= gen[p[1]] /\ Live(p)' => Live(p)
      BY <1>1, AddsPtrs
<1>5. /\ \A f \in stored : f \in stored' /\ Ptr(f)' = Ptr(f)
      /\ gen' \in [Names -> Nat] /\ stored' \subseteq Names
      /\ \A n \in Names : ptr[n] = Ptr(n)'
      /\ stored' \cap Files = (stored \cap Files) \cup F
      BY AddsSteady
<1>6. edges' = edges \cup E /\ stored' = stored \cup Above(F)
      BY DEF Adds
<1>7. \A f \in Files : f \in Names /\ CompOf[f] \in Names /\ CompOf[f] \in Components
      BY DEF Names, Components
<1>8. /\ \A f \in F : /\ <<"files", Ptr(CompOf[f])', Ptr(f)'>> \in E
                      /\ <<"component", Ptr(f)', Ptr(CompOf[f])'>> \in E
      /\ \A f \in F : \A h \in I[f] : CompOf[f] # CompOf[h] =>
           <<"forwardDeps", Ptr(CompOf[f])', Ptr(CompOf[h])'>> \in E
      /\ \A e \in E : e[1] = "files" => \E f \in F : e = <<"files", Ptr(CompOf[f])', Ptr(f)'>>
      /\ \A e \in E : e[1] = "forwardIncludes" =>
           \E f \in F : \E h \in I[f] : e = <<"forwardIncludes", Ptr(f)', Ptr(h)'>>
  <2>1. Describes(E, F, I, ptr)
        OBVIOUS
  <2>2. \A f \in F : ptr[f] = Ptr(f)' /\ ptr[CompOf[f]] = Ptr(CompOf[f])'
        BY <1>5, <1>7
  <2>3. \A f \in F : \A h \in I[f] : ptr[h] = Ptr(h)' /\ ptr[CompOf[h]] = Ptr(CompOf[h])'
        BY <2>2
  <2> HIDE DEF ptr
  <2>4. \A f \in F : /\ <<"files", Ptr(CompOf[f])', Ptr(f)'>> \in E
                     /\ <<"component", Ptr(f)', Ptr(CompOf[f])'>> \in E
        BY <2>1, <2>2 DEF Describes
  <2>5. ASSUME NEW f \in F, NEW h \in I[f], CompOf[f] # CompOf[h]
        PROVE  <<"forwardDeps", Ptr(CompOf[f])', Ptr(CompOf[h])'>> \in E
    <3>1. <<"forwardDeps", ptr[CompOf[f]], ptr[CompOf[h]]>> \in E
          BY <2>1, <2>5 DEF Describes
    <3> QED
        BY <3>1, <2>2, <2>3
  <2>6. ASSUME NEW e \in E, e[1] = "files"
        PROVE  \E f \in F : e = <<"files", Ptr(CompOf[f])', Ptr(f)'>>
    <3>1. PICK f \in F : e = <<"files", ptr[CompOf[f]], ptr[f]>>
          BY <2>1, <2>6 DEF Describes
    <3> QED
        BY <3>1, <2>2
  <2>7. ASSUME NEW e \in E, e[1] = "forwardIncludes"
        PROVE  \E f \in F : \E h \in I[f] : e = <<"forwardIncludes", Ptr(f)', Ptr(h)'>>
    <3>1. \E f \in F : \E h \in I[f] : f # h /\ e = <<"forwardIncludes", ptr[f], ptr[h]>>
          BY <2>1, <2>7 DEF Describes
    <3>2. PICK f \in F : \E h \in I[f] : e = <<"forwardIncludes", ptr[f], ptr[h]>>
          BY <3>1
    <3>3. PICK h \in I[f] : e = <<"forwardIncludes", ptr[f], ptr[h]>>
          BY <3>2
    <3>4. e = <<"forwardIncludes", Ptr(f)', Ptr(h)'>>
          BY <3>3, <2>2, <2>3
    <3> QED
        BY <3>4
  <2> QED
      BY <2>4, <2>5, <2>6, <2>7
<1> HIDE DEF ptr, g
<1>9. \A f \in stored \cap Files : CompOf[f] \in stored
  <2> TAKE f \in stored \cap Files
  <2>1. <<"files", Ptr(CompOf[f]), Ptr(f)>> \in edges
        BY <1>2 DEF Housed
  <2>2. Live(Ptr(CompOf[f]))
        BY <2>1, <1>2 DEF StoreOK, Owned
  <2> QED
      BY <2>2, PtrType
<1>10. Housed'
  <2> SUFFICES ASSUME NEW f \in Files, f \in stored'
               PROVE  <<"files", Ptr(CompOf[f])', Ptr(f)'>> \in edges'
      BY DEF Housed
  <2>1. CASE f \in stored
        BY <2>1, <1>2, <1>5, <1>6, <1>9 DEF Housed
  <2>2. CASE f \in F
        BY <2>2, <1>6, <1>8
  <2> QED
      BY <2>1, <2>2, <1>5
<1>11. Inhabited'
  <2> SUFFICES ASSUME NEW c \in Components, c \in stored'
               PROVE  \E f \in stored' \cap Files : <<"files", Ptr(c)', Ptr(f)'>> \in edges'
      BY DEF Inhabited
  <2>1. CASE c \in stored
    <3>1. PICK f \in stored \cap Files : <<"files", Ptr(c), Ptr(f)>> \in edges
          BY <2>1, <1>2 DEF Inhabited
    <3> QED
        BY <3>1, <2>1, <1>5, <1>6
  <2>2. CASE c \in Above(F)
    <3>1. PICK f \in F : c = CompOf[f]
          BY <2>2, AboveFiles
    <3> QED
        BY <3>1, <1>5, <1>6, <1>8
  <2> QED
      BY <2>1, <2>2, <1>6
<1>12. Backed'
  <2> SUFFICES ASSUME NEW e \in edges', e[1] = "files"
               PROVE  e[3] \in FilePtrs /\ Live(e[3])' /\ <<"component", e[3], e[2]>> \in edges'
      BY DEF Backed
  <2>1. CASE e \in edges
        BY <2>1, <1>2, <1>4, <1>6 DEF Backed
  <2>2. CASE e \in E
    <3>1. PICK f \in F : e = <<"files", Ptr(CompOf[f])', Ptr(f)'>>
          BY <2>2, <1>8
    <3>2. <<"component", Ptr(f)', Ptr(CompOf[f])'>> \in E
          BY <1>8
    <3>3. Ptr(f)' \in FilePtrs
      <4>1. f \in Names /\ Ptr(f)' = <<f, gen'[f]>>
            BY <1>7 DEF Ptr
      <4> QED
          BY <4>1, <1>5 DEF FilePtrs
    <3> QED
        BY <3>1, <3>2, <3>3, <2>2, <1>3, <1>6
  <2> QED
      BY <2>1, <2>2, <1>6
<1>13. Depending'
  <2> SUFFICES ASSUME NEW f \in Files, NEW h \in Files, f \in stored', h \in stored',
                      <<"forwardIncludes", Ptr(f)', Ptr(h)'>> \in edges', CompOf[f] # CompOf[h]
               PROVE  <<"forwardDeps", Ptr(CompOf[f])', Ptr(CompOf[h])'>> \in edges'
      BY DEF Depending
  <2> DEFINE e == <<"forwardIncludes", Ptr(f)', Ptr(h)'>>
  <2>1. CASE e \in edges
    <3>1. Live(Ptr(f)')
          BY <2>1, <1>2 DEF StoreOK, Owned
    <3>2. Ptr(h)' \in Ptrs
          BY <2>1 DEF Kinds
    <3>3. Ptr(h)'[2] <= gen[Ptr(h)'[1]]
          BY <2>1, <1>2 DEF StoreOK, Bounded
    <3>4. h \in stored' /\ gen'[h] = gen'[h] /\ Ptr(h)' = <<h, gen'[h]>> /\ Ptr(f)' = <<f, gen'[f]>>
          BY DEF Ptr
    <3>5. h \in stored' /\ <<h, gen'[h]>>[1] \in stored' /\ <<h, gen'[h]>>[2] = gen'[<<h, gen'[h]>>[1]]
          BY <3>4
    <3>6. \A p : p[1] \in stored' /\ p[2] = gen'[p[1]] /\ p \in Ptrs /\ p[2] <= gen[p[1]] => Live(p)
          BY <1>4 DEF Live
    <3>7. Live(Ptr(h)')
      <4>1. <<h, gen'[h]>> \in Ptrs /\ <<h, gen'[h]>>[2] <= gen[<<h, gen'[h]>>[1]]
            BY <3>2, <3>3, <3>4
      <4>2. Live(<<h, gen'[h]>>)
            BY <4>1, <3>5, <3>6
      <4> QED
          BY <4>2, <3>4
    <3>8. f \in stored /\ h \in stored
          BY <3>1, <3>4, <3>7 DEF Live
    <3>9. Ptr(f)' = Ptr(f) /\ Ptr(h)' = Ptr(h)
          BY <3>8, <1>5
    <3>10. <<"forwardDeps", Ptr(CompOf[f]), Ptr(CompOf[h])>> \in edges
          BY <3>8, <3>9, <2>1, <1>2 DEF Depending
    <3>11. Ptr(CompOf[f])' = Ptr(CompOf[f]) /\ Ptr(CompOf[h])' = Ptr(CompOf[h])
          BY <3>8, <1>5, <1>9
    <3> QED
        BY <3>10, <3>11, <1>6
  <2>2. CASE e \in E
    <3>1. PICK x \in F : \E y \in I[x] : e = <<"forwardIncludes", Ptr(x)', Ptr(y)'>>
          BY <2>2, <1>8
    <3>2. PICK y \in I[x] : e = <<"forwardIncludes", Ptr(x)', Ptr(y)'>>
          BY <3>1
    <3>3. x = f /\ y = h
          BY <3>2 DEF Ptr
    <3> QED
        BY <3>3, <1>6, <1>8
  <2> QED
      BY <2>1, <2>2, <1>6
<1> QED
    BY <1>3, <1>10, <1>11, <1>12, <1>13 DEF Shape

(* What the files include, as far as the store knows, when members are      *)
(* added.                                                                   *)
LEMMA AddsIncludes ==
  ASSUME gen \in [Names -> Nat], stored \subseteq Names, Kinds, Kinds', StoreOK,
         NEW F \in SUBSET Files, NEW I, NEW E,
         \A f \in F : I[f] \subseteq F,
         Adds(Above(F), E), Describes(E, F, I, PtrOf(NewGen(Above(F))))
  PROVE  /\ \A f \in stored \cap Files : Includes(f) \subseteq Includes(f)'
         /\ \A f \in (stored \cap Files) \ F : Includes(f)' = Includes(f)
         /\ \A f \in F : I[f] \ {f} \subseteq Includes(f)'
         /\ \A f \in F \cap stored : Includes(f)' \subseteq Includes(f) \cup (I[f] \ {f})
         /\ \A f \in F \ stored : Includes(f)' \subseteq I[f] \ {f}
<1> DEFINE ptr == PtrOf(NewGen(Above(F)))
<1>1. /\ \A f \in stored : f \in stored' /\ Ptr(f)' = Ptr(f)
      /\ gen' \in [Names -> Nat] /\ stored' \subseteq Names
      /\ \A n \in Names : ptr[n] = Ptr(n)'
      /\ stored' \cap Files = (stored \cap Files) \cup F
      BY AddsSteady
<1>2. edges' = edges \cup E
      BY DEF Adds
<1>3. \A f \in Files : f \in Names
      BY DEF Names
<1>4. /\ \A f \in F : \A h \in I[f] : f # h => <<"forwardIncludes", Ptr(f)', Ptr(h)'>> \in E
      /\ \A e \in E : e[1] = "forwardIncludes" =>
           \E f \in F : \E h \in I[f] : f # h /\ e = <<"forwardIncludes", Ptr(f)', Ptr(h)'>>
  <2>1. Describes(E, F, I, ptr)
        OBVIOUS
  <2>2. \A f \in F : ptr[f] = Ptr(f)' /\ \A h \in I[f] : ptr[h] = Ptr(h)'
        BY <1>1, <1>3
  <2> HIDE DEF ptr
  <2>3. ASSUME NEW f \in F, NEW h \in I[f], f # h
        PROVE  <<"forwardIncludes", Ptr(f)', Ptr(h)'>> \in E
    <3>1. <<"forwardIncludes", ptr[f], ptr[h]>> \in E
          BY <2>1, <2>3 DEF Describes
    <3> QED
        BY <3>1, <2>2
  <2>4. ASSUME NEW e \in E, e[1] = "forwardIncludes"
        PROVE  \E f \in F : \E h \in I[f] : f # h /\ e = <<"forwardIncludes", Ptr(f)', Ptr(h)'>>
    <3>1. PICK f \in F : \E h \in I[f] : f # h /\ e = <<"forwardIncludes", ptr[f], ptr[h]>>
          BY <2>1, <2>4 DEF Describes
    <3>2. PICK h \in I[f] : f # h /\ e = <<"forwardIncludes", ptr[f], ptr[h]>>
          BY <3>1
    <3>3. e = <<"forwardIncludes", Ptr(f)', Ptr(h)'>>
          BY <3>2, <2>2
    <3> QED
        BY <3>2, <3>3
  <2> QED
      BY <2>3, <2>4
<1> HIDE DEF ptr
<1>5. /\ \A n : Ptr(n) = <<n, gen[n]>>
      /\ \A n : Ptr(n)' = <<n, gen'[n]>>
      BY DEF Ptr
<1>6. \A f, h : h \in Includes(f) <=>
           \E k \in Nat : h \in Files /\ <<"forwardIncludes", Ptr(f), <<h, k>>>> \in edges
      BY IncludesIn
<1>7. \A f, h : h \in Includes(f)' <=>
           \E k \in Nat : h \in Files /\ <<"forwardIncludes", Ptr(f)', <<h, k>>>> \in edges'
  <2> TAKE f, h
  <2> DEFINE T == {e[3] : e \in {d \in edges' : d[1] = "forwardIncludes" /\ d[2] = Ptr(f)'}}
  <2>1. Includes(f)' = {q[1] : q \in T}
        BY DEF Includes, NamesOf, Out
  <2>2. \A e \in edges' : /\ e = <<e[1], e[2], e[3]>>
                          /\ e[1] = "forwardIncludes" =>
                               e[3][1] \in Files /\ e[3][2] \in Nat /\ e[3] = <<e[3][1], e[3][2]>>
        BY DEF Kinds, Kind, FilePtrs
  <2>3. ASSUME h \in Includes(f)'
        PROVE  \E k \in Nat : h \in Files /\ <<"forwardIncludes", Ptr(f)', <<h, k>>>> \in edges'
    <3>1. PICK q \in T : h = q[1]
          BY <2>1, <2>3
    <3>2. PICK e \in edges' : e[1] = "forwardIncludes" /\ e[2] = Ptr(f)' /\ e[3] = q
          BY <3>1
    <3> HIDE DEF T
    <3>3. e = <<"forwardIncludes", Ptr(f)', <<h, q[2]>>>> /\ q[2] \in Nat /\ h \in Files
          BY <2>2, <3>1, <3>2
    <3> QED
        BY <3>2, <3>3
  <2>4. ASSUME NEW k \in Nat, <<"forwardIncludes", Ptr(f)', <<h, k>>>> \in edges'
        PROVE  h \in Includes(f)'
    <3>1. <<h, k>> \in T /\ <<h, k>>[1] = h
          BY <2>4
    <3> QED
        BY <2>1, <3>1
  <2> QED
      BY <2>3, <2>4
<1> HIDE DEF Includes
<1>8. ASSUME NEW f \in stored \cap Files
      PROVE  Includes(f) \subseteq Includes(f)'
      BY <1>1, <1>2, <1>6, <1>7
<1>9. ASSUME NEW f \in Files, NEW h \in Includes(f)'
      PROVE  (f \in stored /\ h \in Includes(f)) \/ (f \in F /\ h \in I[f] /\ h # f)
  <2>1. PICK k \in Nat : h \in Files /\ <<"forwardIncludes", Ptr(f)', <<h, k>>>> \in edges'
        BY <1>7, <1>9
  <2>2. CASE <<"forwardIncludes", Ptr(f)', <<h, k>>>> \in edges
    <3>1. Live(Ptr(f)')
          BY <2>2 DEF StoreOK, Owned
    <3>2. f \in stored
          BY <3>1, <1>5 DEF Live
    <3> QED
        BY <3>2, <2>1, <2>2, <1>1, <1>6
  <2>3. CASE <<"forwardIncludes", Ptr(f)', <<h, k>>>> \in E
    <3>1. PICK x \in F : \E y \in I[x] : /\ x # y
             /\ <<"forwardIncludes", Ptr(f)', <<h, k>>>> = <<"forwardIncludes", Ptr(x)', Ptr(y)'>>
          BY <2>3, <1>4
    <3>2. PICK y \in I[x] : /\ x # y
             /\ <<"forwardIncludes", Ptr(f)', <<h, k>>>> = <<"forwardIncludes", Ptr(x)', Ptr(y)'>>
          BY <3>1
    <3>3. x = f /\ y = h
          BY <3>2, <1>5
    <3> QED
        BY <3>2, <3>3
  <2> QED
      BY <2>1, <2>2, <2>3, <1>2
<1>10. ASSUME NEW f \in F, NEW h \in I[f], h # f
       PROVE  h \in Includes(f)'
  <2>1. h \in Files /\ h \in Names
        BY <1>3
  <2>2. <<"forwardIncludes", Ptr(f)', Ptr(h)'>> \in edges' /\ Ptr(h)' = <<h, gen'[h]>> /\ gen'[h] \in Nat
        BY <1>10, <2>1, <1>1, <1>2, <1>4, <1>5
  <2> QED
      BY <2>1, <2>2, <1>7
<1>11. \A f \in (stored \cap Files) \ F : Includes(f)' = Includes(f)
       BY <1>8, <1>9
<1>12. \A f \in F \cap stored : Includes(f)' \subseteq Includes(f) \cup (I[f] \ {f})
       BY <1>9
<1>13. \A f \in F \ stored : Includes(f)' \subseteq I[f] \ {f}
       BY <1>9
<1> QED
    BY <1>8, <1>10, <1>11, <1>12, <1>13

-----------------------------------------------------------------------------
(* The deletion of objects: no list of a component is cut but for a file    *)
(* that goes, and what stays has what it needs.                             *)
Tidy(S, cut) ==
  /\ \A e \in cut : e[1] \in {"files", "components", "children"}
  /\ \A p, c : <<"files", c, p>> \in cut => p \in S
  /\ \A p, c : c \in S /\ <<"files", c, p>> \in edges => p \in S
  /\ \A p, c : p \in S /\ <<"files", c, p>> \in edges => c \in S \/ <<"files", c, p>> \in cut
  /\ \A c \in CompPtrs : Live(c) /\ c \notin S =>
       \E p \in FilePtrs : p \notin S /\ <<"files", c, p>> \in edges

LEMMA ErasesShape ==
  ASSUME gen \in [Names -> Nat], stored \subseteq Names, Kinds, Shape,
         NEW S \in SUBSET Ptrs, \A p \in S : Live(p), NEW cut, Erase(S, cut), Tidy(S, cut)
  PROVE  Shape'
<1>1. StoreOK /\ Housed /\ Inhabited /\ Backed /\ Depending
      BY DEF Shape
<1>2. StoreOK'
  <2>1. \A e \in cut : e[1] # "reverseIncludes"
        BY DEF Tidy
  <2>2. \A p, c : <<"files", c, p>> \in cut => p \in S
        BY DEF Tidy
  <2>3. \A p, c : c \in S /\ <<"files", c, p>> \in edges /\ <<"component", p, c>> \in edges => p \in S
        BY DEF Tidy
  <2> QED
      BY <1>1, <2>1, <2>2, <2>3, ErasesStore
<1>3. /\ \A p : Live(p)' => Live(p)
      /\ \A p \in Ptrs : Live(p) /\ p \notin S => Live(p)'
      /\ \A p \in S : ~Live(p)'
      BY ErasesPtrs
<1>4. gen' = gen /\ edges' = {e \in edges \ cut : e[2] \notin S} /\ stored' \subseteq stored
      /\ \A n : Ptr(n)' = Ptr(n) /\ Ptr(n) = <<n, gen[n]>>
      BY DEF Erase, Ptr
<1>5. \A f \in Files : /\ Ptr(f) \in FilePtrs /\ Ptr(f) \in Ptrs /\ (Live(Ptr(f)) <=> f \in stored)
                       /\ Ptr(CompOf[f]) \in CompPtrs
      BY PtrType
<1>6. \A f \in Files : f \in stored' => Ptr(f) \notin S /\ f \in stored
  <2> TAKE f \in Files
  <2>1. f \in stored' => Live(Ptr(f))'
        BY <1>4 DEF Live
  <2> QED
      BY <2>1, <1>3, <1>4
<1>7. Housed'
  <2> SUFFICES ASSUME NEW f \in Files, f \in stored'
               PROVE  <<"files", Ptr(CompOf[f]), Ptr(f)>> \in edges'
      BY <1>4 DEF Housed
  <2>1. f \in stored /\ Ptr(f) \notin S
        BY <1>6
  <2>2. <<"files", Ptr(CompOf[f]), Ptr(f)>> \in edges
        BY <2>1, <1>1 DEF Housed
  <2>3. <<"files", Ptr(CompOf[f]), Ptr(f)>> \notin cut /\ Ptr(CompOf[f]) \notin S
        BY <2>1, <2>2 DEF Tidy
  <2> QED
      BY <2>2, <2>3, <1>4
<1>8. Inhabited'
  <2> SUFFICES ASSUME NEW c \in Components, c \in stored'
               PROVE  \E f \in stored' \cap Files : <<"files", Ptr(c), Ptr(f)>> \in edges'
      BY <1>4 DEF Inhabited
  <2>1. c \in Names
        BY DEF Names
  <2>2. Ptr(c) \in CompPtrs /\ Live(Ptr(c)) /\ Live(Ptr(c))'
        BY <2>1, <1>4 DEF Live, CompPtrs
  <2>3. Ptr(c) \notin S
        BY <2>1, <1>3, <1>4 DEF Live
  <2>4. PICK p \in FilePtrs : p \notin S /\ <<"files", Ptr(c), p>> \in edges
        BY <2>2, <2>3 DEF Tidy
  <2>5. Live(p)
        BY <2>4, <1>1 DEF Backed
  <2>6. p \in Ptrs /\ p = <<p[1], p[2]>> /\ p[1] \in Files
        BY FileNames
  <2>7. Live(p)'
        BY <2>4, <2>5, <2>6, <1>3
  <2>8. p[1] \in stored' /\ p = Ptr(p[1])
        BY <2>6, <2>7, <1>4 DEF Live
  <2>9. <<"files", Ptr(c), p>> \in edges'
        BY <2>3, <2>4, <1>4 DEF Tidy
  <2> QED
      BY <2>6, <2>8, <2>9
<1>9. Backed'
  <2> SUFFICES ASSUME NEW e \in edges', e[1] = "files"
               PROVE  e[3] \in FilePtrs /\ Live(e[3])' /\ <<"component", e[3], e[2]>> \in edges'
      BY DEF Backed
  <2>1. e \in edges /\ e \notin cut /\ e[2] \notin S
        BY <1>4
  <2>2. e[3] \in FilePtrs /\ Live(e[3]) /\ <<"component", e[3], e[2]>> \in edges
        BY <2>1, <1>1 DEF Backed
  <2>3. e = <<"files", e[2], e[3]>>
        BY <2>1 DEF Kinds
  <2>4. e[3] \notin S
        BY <2>1, <2>3 DEF Tidy
  <2>5. Live(e[3])'
        BY <2>2, <2>4, <1>3, FileNames
  <2>6. <<"component", e[3], e[2]>> \notin cut
        BY DEF Tidy
  <2> QED
      BY <2>2, <2>4, <2>5, <2>6, <1>4
<1>10. Depending'
  <2> SUFFICES ASSUME NEW f \in Files, NEW h \in Files, f \in stored', h \in stored',
                      <<"forwardIncludes", Ptr(f), Ptr(h)>> \in edges', CompOf[f] # CompOf[h]
               PROVE  <<"forwardDeps", Ptr(CompOf[f]), Ptr(CompOf[h])>> \in edges'
      BY <1>4 DEF Depending
  <2>1. <<"forwardDeps", Ptr(CompOf[f]), Ptr(CompOf[h])>> \in edges
        BY <1>1, <1>4 DEF Depending
  <2>2. <<"files", Ptr(CompOf[f]), Ptr(f)>> \in edges'
        BY <1>4, <1>7 DEF Housed
  <2>3. Ptr(CompOf[f]) \notin S
        BY <2>2, <1>4
  <2>4. <<"forwardDeps", Ptr(CompOf[f]), Ptr(CompOf[h])>> \notin cut
        BY DEF Tidy
  <2> QED
      BY <2>1, <2>3, <2>4, <1>4
<1> QED
    BY <1>2, <1>7, <1>8, <1>9, <1>10 DEF Shape

(* A file that stays keeps its #includes.                                   *)
LEMMA ErasesIncludes ==
  ASSUME Kinds, NEW S, NEW cut, Erase(S, cut), Tidy(S, cut), NEW f, Ptr(f) \notin S
  PROVE  Includes(f)' = Includes(f)
<1>1. gen' = gen /\ edges' = {e \in edges \ cut : e[2] \notin S} /\ Ptr(f)' = Ptr(f)
      BY DEF Erase, Ptr
<1>2. \A e \in cut : e[1] # "forwardIncludes"
      BY DEF Tidy
<1>3. {d \in edges' : d[1] = "forwardIncludes" /\ d[2] = Ptr(f)}
        = {d \in edges : d[1] = "forwardIncludes" /\ d[2] = Ptr(f)}
      BY <1>1, <1>2
<1>4. Out("forwardIncludes", Ptr(f))' = Out("forwardIncludes", Ptr(f))
      BY <1>1, <1>3 DEF Out
<1> QED
    BY <1>4 DEF Includes, NamesOf

-----------------------------------------------------------------------------
(* What the steps of the removal keep.  More files may be called for, ...   *)
LEMMA CallsMore ==
  ASSUME Settled, \E V \in SUBSET Files : Spares(V), Gone,
         UNCHANGED <<store, code, toParse, removedFiles>>,
         Doomed \cap stored \subseteq Doomed'
  PROVE  Gone' /\ Settled' /\ \E V \in SUBSET Files : Spares(V)'
<1>1. stored' = stored /\ gen' = gen /\ edges' = edges
      BY DEF store
<1>2. /\ \A f : Includes(f)' = Includes(f)
      /\ \A f : Faithful(f)' <=> Faithful(f)
      /\ \A f : Visited(f)' <=> Visited(f)
      /\ present' = present
      BY <1>1 DEF Includes, Faithful, Visited, Out, NamesOf, Ptr, present
<1>3. Gone'
      BY <1>1 DEF Gone
<1>4. Settled'
      BY <1>1, <1>2 DEF Settled
<1>5. PICK V \in SUBSET Files : Spares(V)
      OBVIOUS
<1>6. Spares(V)'
  <2>1. /\ \A s \in Sources \cap present' : s \in toParse' \/ s \in removedFiles' \/ s \in V
        /\ \A f \in V : f \in stored' \/ f \in removedFiles'
        BY <1>1, <1>2, <1>5 DEF Spares
  <2>2. \A f \in V \cap stored' : Includes(f)' \subseteq V /\ (f \in Doomed' \/ Visited(f)')
        BY <1>1, <1>2, <1>5 DEF Spares
  <2> QED
      BY <2>1, <2>2 DEF Spares
<1> QED
    BY <1>3, <1>4, <1>6

(* ... and what was called for goes.                                        *)
LEMMA ErasesMore ==
  ASSUME gen \in [Names -> Nat], Kinds, Settled, \E V \in SUBSET Files : Spares(V), Gone,
         NEW S \in SUBSET Ptrs, \A p \in S : Live(p), NEW cut, Erase(S, cut), Tidy(S, cut),
         UNCHANGED <<code, toParse, pending, removed>>,
         removedFiles' = removedFiles \cup (NamesOf(S) \cap Files)
  PROVE  Gone' /\ Settled' /\ \E V \in SUBSET Files : Spares(V)'
<1>1. stored' = stored \ NamesOf(S) /\ gen' = gen /\ \A n : Ptr(n)' = Ptr(n)
      BY DEF Erase, Ptr
<1>2. \A f \in stored' \cap Files : f \in stored /\ Ptr(f) \notin S
      BY <1>1 DEF NamesOf, Ptr
<1>3. present' = present /\ Doomed' = Doomed
      BY <1>1 DEF present, Doomed
<1>4. \A f \in stored' \cap Files : Includes(f)' = Includes(f)
      BY <1>2, ErasesIncludes
<1>5. \A f \in stored' \cap Files : (Faithful(f)' <=> Faithful(f)) /\ (Visited(f)' <=> Visited(f))
      BY <1>3, <1>4 DEF Faithful, Visited
<1>6. Gone'
      BY <1>1 DEF Gone
<1>7. Settled'
      BY <1>2, <1>3, <1>5 DEF Settled
<1>8. PICK V \in SUBSET Files : Spares(V)
      OBVIOUS
<1>9. Spares(V)'
  <2>1. \A s \in Sources \cap present' : s \in toParse' \/ s \in removedFiles' \/ s \in V
        BY <1>3, <1>8 DEF Spares
  <2>2. \A f \in V : f \in stored' \/ f \in removedFiles'
        BY <1>1, <1>8 DEF Spares
  <2>3. \A f \in V \cap stored' : Includes(f)' \subseteq V /\ (f \in Doomed' \/ Visited(f)')
        BY <1>2, <1>3, <1>4, <1>5, <1>8 DEF Spares
  <2> QED
      BY <2>1, <2>2, <2>3 DEF Spares
<1> QED
    BY <1>6, <1>7, <1>9

(* A call pushed on the stack.                                              *)
LEMMA PushCovers ==
  ASSUME Kinds, NEW p \in FilePtrs, NEW rest \in Seq(Frames), UNCHANGED store,
         stack' = Append(rest, Frame(p)), removed' = removed \cup {p}, Live(p),
         FwdKnown,
         \A i \in 1..Len(rest) : FrameCovers(rest[i])',
         \A q \in removed : ~Live(q) \/ \E i \in 1..Len(rest) : rest[i].file = q
  PROVE  StackCovers' /\ GoneOrGoing' /\ FwdKnown'
<1>1. edges' = edges /\ \A x : Live(x)' <=> Live(x)
      BY DEF store, Live
<1>2. Frame(p) \in Frames /\ Frame(p).file = p
      /\ \A q : q \in Frame(p).files <=> <<"reverseIncludes", p, q>> \in edges
      BY FrameType
<1>3. /\ Len(stack') = Len(rest) + 1 /\ stack'[Len(rest) + 1] = Frame(p)
      /\ \A i \in 1..Len(rest) : stack'[i] = rest[i]
      BY <1>2, AppendProperties
<1>4. FwdKnown'
      BY <1>1 DEF FwdKnown
<1>5. Len(rest) \in Nat
      OBVIOUS
<1>6. Frame(p)' = Frame(p)
      BY <1>1 DEF Frame, Out
<1> HIDE DEF Frame
<1>7. FrameCovers(Frame(p))'
      BY <1>1, <1>2, <1>6 DEF FrameCovers
<1>8. StackCovers'
  <2> SUFFICES ASSUME NEW i \in 1..Len(stack')
               PROVE  FrameCovers(stack[i])'
      BY DEF StackCovers
  <2>1. CASE i \in 1..Len(rest)
        BY <2>1, <1>3 DEF FrameCovers
  <2>2. CASE i = Len(rest) + 1
        BY <2>2, <1>3, <1>6, <1>7 DEF FrameCovers
  <2> QED
      BY <2>1, <2>2, <1>3, <1>5
<1>9. GoneOrGoing'
  <2> SUFFICES ASSUME NEW q \in removed', Live(q)
               PROVE  \E i \in 1..Len(stack') : stack'[i].file = q
      BY <1>1 DEF GoneOrGoing
  <2>1. CASE q = p
    <3>1. Len(rest) + 1 \in 1..Len(stack')
          BY <1>3, <1>5
    <3> QED
        BY <2>1, <3>1, <1>2, <1>3
  <2>2. CASE q \in removed
    <3>1. PICK i \in 1..Len(rest) : rest[i].file = q
          BY <2>2
    <3>2. i \in 1..Len(stack')
          BY <1>3, <1>5
    <3> QED
        BY <3>1, <3>2, <1>3
  <2> QED
      BY <2>1, <2>2
<1> QED
    BY <1>4, <1>8, <1>9

(* A step that leaves the store alone leaves its shape.                     *)
LEMMA SameShape ==
  ASSUME Shape, UNCHANGED store
  PROVE  Shape'
<1>1. edges' = edges /\ gen' = gen /\ stored' = stored
      BY DEF store
<1>2. StoreOK'
      BY <1>1 DEF Shape, StoreOK, Owned, Mirrored, Listed, Bounded, Live
<1>3. Housed' /\ Inhabited' /\ Backed' /\ Depending'
      BY <1>1 DEF Shape, Housed, Inhabited, Backed, Depending, Live, Ptr
<1> QED
    BY <1>2, <1>3 DEF Shape

-----------------------------------------------------------------------------
(* Every step keeps the store up to date, or meets a freed object.          *)
LEMMA MaintainedStart ==
  ASSUME Init
  PROVE  Maintained
<1>1. StoreOK
      BY DEF Init, StoreOK, Owned, Mirrored, Listed, Bounded
<1>2. Shape
      BY <1>1 DEF Init, Shape, Housed, Inhabited, Backed, Depending
<1>3. AtRest
      BY DEF Init, AtRest, FwdLive
<1> QED
    BY <1>2, <1>3 DEF Init, Maintained

LEMMA DeleteFileMaintains ==
  ASSUME IInv, Maintained, NEW f \in Files, DeleteFile(f)
  PROVE  Maintained'
<1> DEFINE p == Ptr(f)
<1>1. Kinds /\ gen \in [Names -> Nat]
      BY DEF IInv, Typed, TypeOK
<1>2. /\ phase = "files" /\ stack = <<>> /\ fault = "none"
      /\ pending' = <<pending[1] \ {f}, IF pending[1] # {} THEN pending[2] ELSE pending[2] \ {f}>>
      /\ UNCHANGED <<code, store, phase, updates, complete, removedFiles, deletedPkgs, toParse, fault>>
      BY DEF DeleteFile
<1>3. Shape /\ Underway
      BY <1>2 DEF Maintained
<1>4. StackCovers /\ GoneOrGoing /\ FwdKnown /\ Gone /\ Settled /\ \E V \in SUBSET Files : Spares(V)
      BY <1>3 DEF Underway
<1>5. Shape'
      BY <1>2, <1>3, SameShape
<1>6. stored' = stored /\ gen' = gen /\ edges' = edges /\ \A n : Ptr(n)' = Ptr(n)
      BY <1>2 DEF store, Ptr
<1>7. \A h \in Files : h # f => (h \in pending'[1] <=> h \in pending[1])
                            /\ (h \in pending'[2] <=> h \in pending[2])
      BY <1>2
<1>8. \/ f \in removedFiles \/ f \notin stored \/ p \in removed'
      BY DEF DeleteFile, Skip, Insert
<1>9. removed \subseteq removed'
      BY DEF DeleteFile, Skip, Insert
<1>10. Doomed \cap stored \subseteq Doomed'
  <2> SUFFICES ASSUME NEW h \in Doomed, h \in stored
               PROVE  h \in Doomed'
      OBVIOUS
  <2>1. h \in Files
        BY DEF Doomed
  <2>2. CASE h = f
    <3>1. p \in removed'
          BY <1>4, <1>8, <2>2 DEF Gone
    <3> QED
        BY <3>1, <2>2, <1>6 DEF Doomed
  <2>3. CASE h # f
        BY <2>1, <2>3, <1>6, <1>7, <1>9 DEF Doomed
  <2> QED
      BY <2>2, <2>3
<1>11. Gone' /\ Settled' /\ \E V \in SUBSET Files : Spares(V)'
       BY <1>2, <1>4, <1>10, CallsMore
<1>12. StackCovers' /\ GoneOrGoing' /\ FwdKnown'
  <2>1. CASE UNCHANGED <<stack, removed>>
        BY <2>1, <1>4, <1>6 DEF StackCovers, FrameCovers, GoneOrGoing, FwdKnown, Live
  <2>2. CASE f \in stored /\ stack' = <<Frame(p)>> /\ removed' = removed \cup {p}
    <3>1. stack' = Append(<<>>, Frame(p)) /\ <<>> \in Seq(Frames) /\ Len(<<>>) = 0
          BY <2>2
    <3>2. p \in FilePtrs /\ Live(p)
          BY <2>2, <1>1, PtrType
    <3>3. \A q \in removed : ~Live(q)
          BY <1>2, <1>4 DEF GoneOrGoing
    <3>4. \A i \in 1..Len(<<>>) : FrameCovers(<<>>[i])'
          BY <3>1
    <3> HIDE DEF p
    <3> QED
        BY <3>1, <3>2, <3>3, <3>4, <2>2, <1>1, <1>2, <1>4, PushCovers
  <2> QED
      BY <2>1, <2>2 DEF DeleteFile, Skip, Insert
<1>13. Underway'
       BY <1>11, <1>12 DEF Underway
<1> QED
    BY <1>2, <1>5, <1>13 DEF Maintained

LEMMA RemoveIncluderMaintains ==
  ASSUME IInv, Maintained, InRemoveFile, NEW p \in Top.files, RemoveIncluder(p)
  PROVE  Maintained'
<1>1. Kinds /\ gen \in [Names -> Nat] /\ stack \in Seq(Frames)
      BY DEF IInv, Typed, TypeOK, CallTypes
<1>2. /\ phase = "files" /\ stack # <<>> /\ fault = "none"
      /\ UNCHANGED <<code, store, phase, updates, complete, pending, removedFiles, deletedPkgs, toParse>>
      BY DEF RemoveIncluder, InRemoveFile
<1>3. /\ Len(stack) \in 1..Len(stack) /\ Top.files \subseteq FilePtrs /\ Top = stack[Len(stack)]
      /\ p \in FilePtrs
      BY <1>1, <1>2, TopFrame
<1>4. PICK rest \in Seq(Frames) :
      /\ rest = SetTop([Top EXCEPT !.files = @ \ {p}]) /\ Len(rest) = Len(stack)
      /\ \A i \in 1..Len(stack) :
           /\ rest[i].file = stack[i].file
           /\ rest[i].files \subseteq stack[i].files
           /\ stack[i].files \subseteq rest[i].files \cup {p}
      BY <1>1, <1>2, Rested
<1>5. \/ p \in removed /\ stack' = rest /\ removed' = removed /\ fault' = fault
      \/ /\ p \notin removed /\ stack' = Append(rest, Frame(p)) /\ removed' = removed \cup {p}
         /\ fault' = IF Live(p) THEN fault ELSE "cascade"
      BY <1>4 DEF RemoveIncluder, Skip, Insert
<1>6. removed' = removed \cup {p}
      BY <1>5
<1>7. Shape /\ StackCovers /\ GoneOrGoing /\ FwdKnown /\ Gone /\ Settled
      /\ \E V \in SUBSET Files : Spares(V)
      BY <1>2 DEF Maintained, Underway
<1>8. Shape'
      BY <1>2, <1>7, SameShape
<1>9. stored' = stored /\ gen' = gen /\ edges' = edges /\ (\A n : Ptr(n)' = Ptr(n))
      /\ \A x : Live(x)' <=> Live(x)
      BY <1>2 DEF store, Ptr, Live
<1>10. Doomed \subseteq Doomed'
       BY <1>2, <1>6, <1>9 DEF Doomed
<1>11. Gone' /\ Settled' /\ \E V \in SUBSET Files : Spares(V)'
       BY <1>2, <1>7, <1>10, CallsMore
<1>12. \A i \in 1..Len(rest) : FrameCovers(rest[i])'
  <2> TAKE i \in 1..Len(rest)
  <2>1. FrameCovers(stack[i])
        BY <1>4, <1>7 DEF StackCovers
  <2>2. /\ rest[i].file = stack[i].file
        /\ stack[i].files \subseteq rest[i].files \cup {p}
        BY <1>4
  <2> QED
      BY <2>1, <2>2, <1>6, <1>9 DEF FrameCovers
<1>13. \A q \in removed : ~Live(q) \/ \E i \in 1..Len(rest) : rest[i].file = q
       BY <1>4, <1>7 DEF GoneOrGoing
<1>14. ASSUME fault' = "none"
       PROVE  StackCovers' /\ GoneOrGoing' /\ FwdKnown'
  <2>1. CASE p \in removed
    <3>1. stack' = rest /\ removed' = removed
          BY <1>5, <2>1
    <3>2. StackCovers'
          BY <3>1, <1>12 DEF StackCovers, FrameCovers
    <3>3. GoneOrGoing' /\ FwdKnown'
          BY <3>1, <1>7, <1>9, <1>13 DEF GoneOrGoing, FwdKnown
    <3> QED
        BY <3>2, <3>3
  <2>2. CASE p \notin removed
    <3>1. stack' = Append(rest, Frame(p)) /\ Live(p)
          BY <1>5, <1>14, <2>2
    <3> QED
        BY <3>1, <1>1, <1>2, <1>3, <1>4, <1>6, <1>7, <1>12, <1>13, PushCovers
  <2> QED
      BY <2>1, <2>2
<1>15. fault' \in {"none", "cascade"}
       BY <1>2, <1>5
<1> QED
    BY <1>2, <1>8, <1>11, <1>14, <1>15 DEF Maintained, Underway

LEMMA FinishMaintains ==
  ASSUME IInv, Maintained, FinishRemoveFile
  PROVE  Maintained'
<1> DEFINE file  == Top.file
           comps == Out("component", file)
           dead  == Emptied(file)
           pkgs  == UNION {Out("package", c) : c \in dead}
           S     == dead \cup {file}
           cut   == {<<"files", c, file>> : c \in comps} \cup ({"components"} \X pkgs \X dead)
<1>1. Kinds /\ gen \in [Names -> Nat] /\ stored \subseteq Names /\ CallsOK /\ stack \in Seq(Frames)
      BY DEF IInv, Typed, TypeOK, CallTypes
<1>2. /\ phase = "files" /\ stack # <<>> /\ fault = "none" /\ Top.files = {}
      /\ fault' = IF \E p \in comps \cup pkgs : ~Live(p) THEN "cascade" ELSE "none"
      /\ Erase(S, cut)
      /\ stack' = SubSeq(stack, 1, Len(stack) - 1)
      /\ removedFiles' = removedFiles \cup {file[1]}
      /\ UNCHANGED <<code, phase, updates, complete, pending, removed, deletedPkgs, toParse>>
      BY DEF FinishRemoveFile, InRemoveFile
<1>3. /\ Len(stack) \in 1..Len(stack) /\ Top = stack[Len(stack)] /\ file \in FilePtrs
      BY <1>1, <1>2, TopFrame
<1>4. file \in Ptrs /\ file[1] \in Files
      BY <1>3, FileNames
<1>5. /\ \A c : c \in comps <=> <<"component", file, c>> \in edges
      /\ \A c, p : p \in Out("files", c) <=> <<"files", c, p>> \in edges
      BY <1>1, OutIn
<1>6. \A c \in comps : c \in CompPtrs /\ c \in Ptrs /\ c \notin FilePtrs /\ c[1] \notin Files
  <2> SUFFICES ASSUME NEW c, <<"component", file, c>> \in edges
               PROVE  c \in CompPtrs /\ c \in Ptrs /\ c \notin FilePtrs /\ c[1] \notin Files
      BY <1>5
  <2>1. c \in CompPtrs
        BY <1>1 DEF Kinds, Kind
  <2> QED
      BY <2>1, NamesAssumption DEF CompPtrs, FilePtrs, Ptrs, Names
<1>7. /\ dead \subseteq comps /\ \A c \in dead : Out("files", c) \subseteq {file}
      /\ \A c \in comps : c \notin dead => ~(Out("files", c) \subseteq {file})
      BY DEF Emptied
<1>8. /\ stack' \in Seq(Frames) /\ Len(stack') = Len(stack) - 1
      /\ \A i \in 1..Len(stack') : stack'[i] = stack[i] /\ i \in 1..Len(stack) /\ i # Len(stack)
      BY <1>1, <1>2, Popped
<1>9. Shape /\ StackCovers /\ GoneOrGoing /\ FwdKnown /\ Gone /\ Settled
      /\ \E V \in SUBSET Files : Spares(V)
      BY <1>2 DEF Maintained, Underway
<1>10. StoreOK /\ Inhabited /\ Backed
       BY <1>9 DEF Shape
<1>11. /\ Live(file)
       /\ \A q \in FilePtrs : <<"reverseIncludes", file, q>> \in edges => q \in removed
       BY <1>2, <1>3, <1>9 DEF StackCovers, FrameCovers
<1> HIDE DEF file, comps, dead, pkgs
<1>12. \A c \in comps : Live(c)
  <2> TAKE c \in comps
  <2>1. <<"files", c, file>> \in edges
        BY <1>3, <1>5, <1>6, <1>10 DEF StoreOK, Listed
  <2> QED
      BY <2>1, <1>10 DEF StoreOK, Owned
<1>13. S \in SUBSET Ptrs /\ \A p \in S : Live(p)
       BY <1>4, <1>6, <1>7, <1>11, <1>12
<1>14. Tidy(S, cut)
  <2>1. \A e \in cut : \/ \E c \in comps : e = <<"files", c, file>>
                       \/ e[1] = "components"
        OBVIOUS
  <2>2. \A c \in comps : <<"files", c, file>> \in cut
        OBVIOUS
  <2>3. \A e \in cut : e[1] \in {"files", "components", "children"}
        BY <2>1
  <2>4. \A p, c : <<"files", c, p>> \in cut => p \in S
        BY <2>1
  <2>5. \A p, c : c \in S /\ <<"files", c, p>> \in edges => p \in S
    <3> SUFFICES ASSUME NEW p, NEW c \in S, <<"files", c, p>> \in edges
                 PROVE  p \in S
        OBVIOUS
    <3>1. <<"component", p, c>> \in edges
          BY <1>10 DEF Backed
    <3>2. c \in CompPtrs
          BY <3>1, <1>1 DEF Kinds, Kind
    <3>3. c \in dead
          BY <3>2, <1>3, NamesAssumption DEF CompPtrs, FilePtrs
    <3>4. p = file
          BY <3>3, <1>5, <1>7
    <3> QED
        BY <3>4
  <2>6. \A p, c : p \in S /\ <<"files", c, p>> \in edges => c \in S \/ <<"files", c, p>> \in cut
    <3> SUFFICES ASSUME NEW p \in S, NEW c, <<"files", c, p>> \in edges
                 PROVE  <<"files", c, p>> \in cut
        OBVIOUS
    <3>1. p \in FilePtrs /\ <<"component", p, c>> \in edges
          BY <1>10 DEF Backed
    <3>2. p = file
          BY <3>1, <1>6, <1>7
    <3> QED
        BY <3>1, <3>2, <2>2, <1>5
  <2>7. \A c \in CompPtrs : Live(c) /\ c \notin S =>
          \E p \in FilePtrs : p \notin S /\ <<"files", c, p>> \in edges
    <3> SUFFICES ASSUME NEW c \in CompPtrs, Live(c), c \notin S
                 PROVE  \E p \in FilePtrs : p \notin S /\ <<"files", c, p>> \in edges
        OBVIOUS
    <3>1. c[1] \in stored \cap Components /\ c = Ptr(c[1])
          BY DEF CompPtrs, Live, Ptr
    <3>2. PICK f \in stored \cap Files : <<"files", c, Ptr(f)>> \in edges
          BY <3>1, <1>10 DEF Inhabited
    <3>3. CASE Ptr(f) # file
      <4>1. Ptr(f) \in FilePtrs
            BY <1>1, PtrType
      <4>2. Ptr(f) \notin S
            BY <4>1, <3>3, <1>6, <1>7
      <4> QED
          BY <4>1, <4>2, <3>2
    <3>4. CASE Ptr(f) = file
      <4>1. <<"component", file, c>> \in edges
            BY <3>2, <3>4, <1>10 DEF Backed
      <4>2. c \in comps /\ c \notin dead
            BY <4>1, <1>5
      <4>3. PICK p : p \in Out("files", c) /\ p # file
            BY <4>2, <1>7
      <4>4. <<"files", c, p>> \in edges
            BY <4>3, <1>5
      <4>5. p \in FilePtrs
            BY <4>4, <1>10 DEF Backed
      <4>6. p \notin S
            BY <4>3, <4>5, <1>6, <1>7
      <4> QED
          BY <4>4, <4>5, <4>6
    <3> QED
        BY <3>3, <3>4
  <2> HIDE DEF S, cut
  <2> QED
      BY <2>3, <2>4, <2>5, <2>6, <2>7 DEF Tidy
<1>15. NamesOf(S) \cap Files = {file[1]}
  <2>1. \A p \in S : p = file \/ p[1] \notin Files
        BY <1>6, <1>7
  <2>2. file \in S
        OBVIOUS
  <2> HIDE DEF S
  <2> QED
      BY <2>1, <2>2, <1>4 DEF NamesOf
<1>16. \A p \in FilePtrs : p # file => p \notin S
       BY <1>6, <1>7
<1>17. file \in S
       OBVIOUS
<1> HIDE DEF S, cut
<1>18. Shape'
       BY <1>1, <1>2, <1>9, <1>13, <1>14, ErasesShape
<1>19. Gone' /\ Settled' /\ \E V \in SUBSET Files : Spares(V)'
       BY <1>1, <1>2, <1>9, <1>13, <1>14, <1>15, ErasesMore
<1>20. /\ \A p : Live(p)' => Live(p)
       /\ \A p \in Ptrs : Live(p) /\ p \notin S => Live(p)'
       /\ \A p \in S : ~Live(p)'
       BY <1>2, <1>13, ErasesPtrs
<1>21. edges' \subseteq edges
       BY <1>2 DEF Erase
<1>22. \A p \in FilePtrs : p # file /\ Live(p) => Live(p)'
       BY <1>16, <1>20, FileNames
<1>23. FwdKnown'
  <2> SUFFICES ASSUME NEW p \in FilePtrs, NEW q \in FilePtrs, <<"forwardIncludes", p, q>> \in edges'
               PROVE  Live(q)' \/ p \in removed
      BY <1>2 DEF FwdKnown
  <2>1. <<"forwardIncludes", p, q>> \in edges
        BY <1>21
  <2>2. Live(q) \/ p \in removed
        BY <2>1, <1>9 DEF FwdKnown
  <2>3. ASSUME q = file
        PROVE  p \in removed
    <3>1. <<"reverseIncludes", file, p>> \in edges
          BY <2>1, <2>3, <1>10, <1>11 DEF StoreOK, Mirrored
    <3> QED
        BY <3>1, <1>11
  <2> QED
      BY <2>2, <2>3, <1>22
<1>24. \A i \in 1..Len(stack) : i # Len(stack) => stack[i].file # file
  <2>1. \A i, j \in 1..Len(stack) : i # j => stack[i].file # stack[j].file
        BY <1>1 DEF CallsOK, NeverReentered
  <2> QED
      BY <2>1, <1>3 DEF file
<1>25. GoneOrGoing'
  <2> SUFFICES ASSUME NEW p \in removed, Live(p)'
               PROVE  \E i \in 1..Len(stack') : stack'[i].file = p
      BY <1>2 DEF GoneOrGoing
  <2>1. Live(p) /\ p # file
        BY <1>17, <1>20
  <2>2. PICK i \in 1..Len(stack) : stack[i].file = p
        BY <2>1, <1>9 DEF GoneOrGoing
  <2>3. i # Len(stack)
        BY <2>1, <2>2, <1>3 DEF file
  <2>4. i \in 1..Len(stack')
        BY <2>3, <1>1, <1>8
  <2> QED
      BY <2>2, <2>4, <1>8
<1>26. StackCovers'
  <2> SUFFICES ASSUME NEW i \in 1..Len(stack')
               PROVE  FrameCovers(stack[i])'
      BY DEF StackCovers
  <2>1. stack'[i] = stack[i] /\ i \in 1..Len(stack) /\ i # Len(stack)
        BY <1>8
  <2>2. FrameCovers(stack[i]) /\ stack[i].file # file /\ stack[i].file \in FilePtrs
        BY <2>1, <1>1, <1>9, <1>24, FrameFields DEF StackCovers
  <2>3. Live(stack[i].file)'
        BY <2>1, <2>2, <1>22 DEF FrameCovers, Live
  <2>4. \A q \in FilePtrs : <<"reverseIncludes", stack[i].file, q>> \in edges'
                              => q \in stack[i].files \/ q \in removed
        BY <2>2, <1>21 DEF FrameCovers
  <2>5. Live(stack[i].file)' /\ stack'[i].file = stack[i].file /\ stack'[i].files = stack[i].files
        BY <2>1, <2>3
  <2> QED
      BY <2>1, <2>2, <2>4, <1>2, <1>22 DEF FrameCovers, Live
<1>27. Underway'
       BY <1>19, <1>23, <1>25, <1>26 DEF Underway
<1> QED
    BY <1>2, <1>18, <1>27 DEF Maintained

LEMMA RemovePackageMaintains ==
  ASSUME IInv, Maintained, NEW n \in Packages \cup Groups, RemovePackage(n)
  PROVE  Maintained'
<1> DEFINE p       == Ptr(n)
           parents == Out("parent", p)
           dead    == {g \in parents : Out("children", g) \subseteq {p}}
           S       == {p} \cup dead
           cut     == {e \in edges : e[1] = "children" /\ e[3] = p}
<1>1. Kinds /\ gen \in [Names -> Nat] /\ stored \subseteq Names
      BY DEF IInv, Typed, TypeOK
<1>2. /\ phase = "files" /\ stack = <<>> /\ pending = <<{}, {}>> /\ fault = "none"
      /\ UNCHANGED <<code, phase, updates, complete, pending, stack, removed, removedFiles, toParse>>
      BY DEF RemovePackage
<1>3. \/ UNCHANGED <<store, fault>>
      \/ /\ n \in stored /\ Erase(S, cut)
         /\ fault' = IF \E g \in parents : ~Live(g) THEN "packages" ELSE "none"
      BY DEF RemovePackage
<1>4. p \in Ptrs /\ p[1] = n
  <2>1. n \in Names
        BY DEF Names
  <2> QED
      BY <2>1, <1>1 DEF Ptr, Ptrs
<1>5. \A g \in parents : g \in GroupPtrs /\ g \in Ptrs
  <2> SUFFICES ASSUME NEW g, <<"parent", p, g>> \in edges
               PROVE  g \in GroupPtrs /\ g \in Ptrs
      BY <1>1, OutIn
  <2>1. g \in GroupPtrs
        BY <1>1 DEF Kinds, Kind
  <2> QED
      BY <2>1 DEF GroupPtrs, Ptrs, Names
<1>6. n \in stored => Live(p)
      BY DEF Live, Ptr
<1>7. \A e \in cut : e[1] = "children"
      OBVIOUS
<1> HIDE DEF p, parents, cut
<1>8. S \in SUBSET Ptrs /\ dead \subseteq parents
      BY <1>4, <1>5
<1>9. \A x \in S : x[1] \notin Files /\ x[1] \notin Components
  <2>1. \A g \in parents : g[1] \in Groups
        BY <1>5 DEF GroupPtrs
  <2> QED
      BY <2>1, <1>4, <1>8, NamesAssumption
<1>10. (\A g \in parents : Live(g)) /\ n \in stored => \A x \in S : Live(x)
       BY <1>6, <1>8
<1> HIDE DEF S, dead
<1>11. Shape /\ StackCovers /\ GoneOrGoing /\ FwdKnown /\ Gone /\ Settled
       /\ \E V \in SUBSET Files : Spares(V)
       BY <1>2 DEF Maintained, Underway
<1>12. StackCovers'
       BY <1>2 DEF StackCovers
<1>13. CASE UNCHANGED <<store, fault>>
  <2>1. edges' = edges /\ gen' = gen /\ stored' = stored /\ \A m : Ptr(m)' = Ptr(m)
        BY <1>13 DEF store, Ptr
  <2>2. Shape'
        BY <1>11, <1>13, SameShape
  <2>3. Doomed \cap stored \subseteq Doomed'
        BY <2>1, <1>2 DEF Doomed
  <2>4. Gone' /\ Settled' /\ \E V \in SUBSET Files : Spares(V)'
        BY <2>3, <1>2, <1>11, <1>13, CallsMore
  <2>5. GoneOrGoing' /\ FwdKnown'
        BY <2>1, <1>2, <1>11 DEF GoneOrGoing, FwdKnown, Live
  <2>6. Underway'
        BY <2>4, <2>5, <1>12 DEF Underway
  <2>7. phase' = "files"
        BY <1>2
  <2> QED
      BY <2>2, <2>6, <2>7 DEF Maintained
<1>14. CASE /\ n \in stored /\ Erase(S, cut)
            /\ fault' = IF \E g \in parents : ~Live(g) THEN "packages" ELSE "none"
  <2> SUFFICES ASSUME fault' = "none"
               PROVE  Maintained'
      BY <1>2, <1>14 DEF Maintained
  <2>1. \A x \in S : Live(x)
        BY <1>10, <1>14
  <2>2. Tidy(S, cut)
    <3>1. \A e \in cut : e[1] \in {"files", "components", "children"} /\ e[1] # "files"
          BY <1>7
    <3>2. \A x, c : <<"files", c, x>> \notin cut
          BY <3>1
    <3>3. \A x, c : <<"files", c, x>> \in edges => x \notin S /\ c \notin S
      <4> SUFFICES ASSUME NEW x, NEW c, <<"files", c, x>> \in edges
                   PROVE  x \notin S /\ c \notin S
          OBVIOUS
      <4>1. x \in FilePtrs /\ <<"component", x, c>> \in edges
            BY <1>11 DEF Shape, Backed
      <4>2. c \in CompPtrs
            BY <4>1, <1>1 DEF Kinds, Kind
      <4> QED
          BY <4>1, <4>2, <1>9 DEF FilePtrs, CompPtrs
    <3>4. \A c \in CompPtrs : Live(c) => \E x \in FilePtrs : <<"files", c, x>> \in edges
      <4> SUFFICES ASSUME NEW c \in CompPtrs, Live(c)
                   PROVE  \E x \in FilePtrs : <<"files", c, x>> \in edges
          OBVIOUS
      <4>1. c[1] \in stored \cap Components /\ c = Ptr(c[1])
            BY DEF CompPtrs, Live, Ptr
      <4>2. PICK f \in stored \cap Files : <<"files", c, Ptr(f)>> \in edges
            BY <4>1, <1>11 DEF Shape, Inhabited
      <4>3. Ptr(f) \in FilePtrs
            BY <1>1, PtrType
      <4> QED
          BY <4>2, <4>3
    <3> QED
        BY <3>1, <3>2, <3>3, <3>4 DEF Tidy
  <2>3. Shape'
        BY <2>1, <2>2, <1>1, <1>8, <1>11, <1>14, ErasesShape
  <2>4. NamesOf(S) \cap Files = {}
        BY <1>9 DEF NamesOf
  <2>5. Gone' /\ Settled' /\ \E V \in SUBSET Files : Spares(V)'
        BY <2>1, <2>2, <2>4, <1>1, <1>2, <1>8, <1>11, <1>14, ErasesMore
  <2>6. /\ \A x : Live(x)' => Live(x)
        /\ \A x \in Ptrs : Live(x) /\ x \notin S => Live(x)'
        BY <2>1, <1>8, <1>14, ErasesPtrs
  <2>7. \A x \in FilePtrs : Live(x) => Live(x)'
        BY <2>6, <1>9, FileNames
  <2>8. edges' \subseteq edges
        BY <1>14 DEF Erase
  <2>9. GoneOrGoing' /\ FwdKnown'
        BY <2>6, <2>7, <2>8, <1>2, <1>11 DEF GoneOrGoing, FwdKnown
  <2>10. Underway'
         BY <2>5, <2>9, <1>12 DEF Underway
  <2> QED
      BY <2>3, <2>10, <1>2 DEF Maintained
<1> QED
    BY <1>3, <1>13, <1>14

(* A closed set holds the translation units of its sources.                 *)
LEMMA UnitLeast ==
  ASSUME NEW s, NEW K \in SUBSET present, s \in K, \A f \in K : code[f] \subseteq K
  PROVE  TranslationUnit(s) \subseteq K
BY DEF TranslationUnit

(* Once the removal is over, no file that stays includes one that is gone,  *)
(* and a source that will not be parsed has its unit left as it was.        *)
LEMMA StartParseMaintains ==
  ASSUME IInv, Maintained, StartParse
  PROVE  Maintained'
<1>1. Kinds /\ gen \in [Names -> Nat] /\ CodeTypes
      BY DEF IInv, Typed, TypeOK
<1>2. /\ phase = "files" /\ stack = <<>> /\ fault = "none" /\ phase' = "parse"
      /\ pending = <<{}, {}>> /\ toParse' = toParse \cup Propagated
      /\ UNCHANGED <<code, store, updates, complete, pending, stack, removed, removedFiles, deletedPkgs, fault>>
      BY DEF StartParse, calls
<1>3. stored' = stored /\ gen' = gen /\ edges' = edges
      BY <1>2 DEF store
<1>4. Shape /\ GoneOrGoing /\ FwdKnown /\ Gone /\ Settled /\ \E V \in SUBSET Files : Spares(V)
      BY <1>2 DEF Maintained, Underway
<1>5. StoreOK
      BY <1>4 DEF Shape
<1>6. \A q \in removed : ~Live(q)
      BY <1>2, <1>4 DEF GoneOrGoing
<1>7. FwdLive
  <2> SUFFICES ASSUME NEW e \in edges, e[1] = "forwardIncludes"
               PROVE  Live(e[3])
      BY DEF FwdLive
  <2>1. e = <<"forwardIncludes", e[2], e[3]>> /\ e[2] \in FilePtrs /\ e[3] \in FilePtrs
        BY <1>1 DEF Kinds, Kind
  <2>2. Live(e[3]) \/ e[2] \in removed
        BY <2>1, <1>4 DEF FwdKnown
  <2>3. Live(e[2])
        BY <1>5 DEF StoreOK, Owned
  <2> QED
      BY <2>2, <2>3, <1>6
<1>8. \A f \in stored \cap Files : f \notin Doomed
  <2> TAKE f \in stored \cap Files
  <2>1. Live(Ptr(f))
        BY <1>1, PtrType
  <2> QED
      BY <2>1, <1>2, <1>6 DEF Doomed
<1>9. \A f \in stored \cap Files : Faithful(f)
      BY <1>4, <1>8 DEF Settled
<1>10. \A s \in Sources \cap present : s \in toParse' \/ Covered(s)
  <2> SUFFICES ASSUME NEW s \in Sources, s \in present, s \notin toParse'
               PROVE  Covered(s)
      OBVIOUS
  <2>1. s \notin toParse /\ s \notin removedFiles
        BY <1>2 DEF Propagated
  <2>2. PICK V \in SUBSET Files : Spares(V)
        BY <1>4
  <2>3. s \in V /\ s \in stored
        BY <2>1, <2>2 DEF Spares
  <2> DEFINE K == V \cap stored
  <2>4. \A f \in K : f \in Files /\ Visited(f) /\ Includes(f) \subseteq V
        BY <2>2, <1>8 DEF Spares
  <2>5. \A f \in Files : Includes(f) \subseteq stored
    <3> SUFFICES ASSUME NEW f \in Files, NEW h \in Includes(f)
                 PROVE  h \in stored
        OBVIOUS
    <3>1. PICK k \in Nat : <<"forwardIncludes", Ptr(f), <<h, k>>>> \in edges
          BY <1>1, IncludesIn
    <3>2. Live(<<h, k>>)
          BY <3>1, <1>7 DEF FwdLive
    <3> QED
        BY <3>2 DEF Live
  <2>6. K \subseteq present
        BY <2>4 DEF Visited
  <2>7. \A f \in K : code[f] \subseteq K
    <3> SUFFICES ASSUME NEW f \in K, NEW h \in code[f], h # f
                 PROVE  h \in K
        OBVIOUS
    <3>1. h \in Includes(f)
          BY <2>4 DEF Visited
    <3> QED
        BY <3>1, <2>4, <2>5
  <2>8. TranslationUnit(s) \subseteq K
    <3> HIDE DEF K
    <3>1. s \in K
          BY <2>3 DEF K
    <3> QED
        BY <3>1, <2>6, <2>7, UnitLeast
  <2> QED
      BY <2>4, <2>8 DEF Covered
<1>11. /\ FwdLive' /\ present' = present
       /\ \A f : Faithful(f)' <=> Faithful(f)
       /\ \A f : Visited(f)' <=> Visited(f)
       /\ \A s : TranslationUnit(s)' = TranslationUnit(s)
       BY <1>2, <1>3, <1>7 DEF FwdLive, Live, Includes, Faithful, Visited, Out, NamesOf, Ptr,
                               present, TranslationUnit
<1>12. \A s : Covered(s)' <=> Covered(s)
       BY <1>3, <1>11 DEF Covered
<1>13. AtRest'
       BY <1>2, <1>3, <1>9, <1>10, <1>11, <1>12 DEF AtRest
<1>14. Shape'
       BY <1>2, <1>4, SameShape
<1> QED
    BY <1>2, <1>13, <1>14 DEF Maintained

LEMMA FilingFits ==
  ASSUME NEW g \in [Names -> Nat], NEW S, NEW F \in SUBSET Files, Above(F) \subseteq S,
         NEW I, \A f \in F : I[f] \subseteq F
  PROVE  Fits(Filing(F, I, PtrOf(g)), g, S)
<1> DEFINE ptr    == PtrOf(g)
           Inc(f) == UNION {Including(f, h, ptr) : h \in I[f]}
           Of(f)  == Registered(f, ptr) \cup Inc(f)
<1>1. \A f \in F : Fits(Of(f), g, S)
  <2> TAKE f \in F
  <2>1. Fits(Registered(f, ptr), g, S)
        BY RegisteredFits
  <2>2. \A h \in I[f] : Fits(Including(f, h, ptr), g, S)
        BY IncludingFits
  <2>3. Fits(Inc(f), g, S)
        BY <2>2, FitsUnion
  <2> HIDE DEF Inc, ptr
  <2> QED
      BY <2>1, <2>3, FitsPair
<1>2. Filing(F, I, ptr) = UNION {Of(f) : f \in F}
      BY DEF Filing
<1> HIDE DEF Of
<1>3. Fits(UNION {Of(f) : f \in F}, g, S)
      BY <1>1, FitsUnion
<1> QED
    BY <1>2, <1>3

LEMMA ParseUnitMaintains ==
  ASSUME Physical, IInv, IInv', Maintained, NEW s \in Sources, ParseUnit(s)
  PROVE  Maintained'
<1> DEFINE unit == TranslationUnit(s)
           all  == Above(unit) \cup UNION {Spaces[f] \cup Types[f] \cup Functions[f] : f \in unit}
           ptr  == PtrOf(NewGen(Above(unit)))
           E    == Filing(unit, code, ptr)
<1>1. Kinds /\ Kinds' /\ gen \in [Names -> Nat] /\ stored \subseteq Names /\ CallsOK /\ CodeTypes
      BY DEF IInv, Typed, TypeOK
<1>2. /\ phase = "parse" /\ toParse' = toParse \ {s}
      /\ UNCHANGED <<code, phase, updates, complete, fault>>
      BY DEF ParseUnit, calls
<1>3. fault = "none"
      BY <1>1, <1>2 DEF CallsOK, Sound
<1>4. unit \in SUBSET Files /\ (\A f \in unit : \A h \in code[f] : h \in unit) /\ unit \subseteq present
      BY <1>1, UnitClosed DEF TranslationUnit
<1>5. Adds(Above(unit), E)
  <2>1. \A f \in unit : Spaces[f] = {} /\ Types[f] = {} /\ Functions[f] = {}
        BY <1>4 DEF Physical
  <2>2. all = Above(unit)
        BY <2>1
  <2>3. \A f \in unit : Defining(f, ptr) = {}
        BY <1>4, DefiningNothing
  <2>4. /\ gen' = NewGen(all) /\ stored' = stored \cup all
        /\ edges' = edges \cup UNION {Registered(f, PtrOf(NewGen(all))) \cup Defining(f, PtrOf(NewGen(all)))
                     \cup UNION {Including(f, h, PtrOf(NewGen(all))) : h \in code[f]} : f \in unit}
        BY DEF ParseUnit, PtrOf
  <2> HIDE DEF all
  <2>5. edges' = edges \cup UNION {Registered(f, ptr) \cup Defining(f, ptr)
                     \cup UNION {Including(f, h, ptr) : h \in code[f]} : f \in unit}
        BY <2>2, <2>4
  <2> DEFINE A(f) == Registered(f, ptr) \cup Defining(f, ptr) \cup UNION {Including(f, h, ptr) : h \in code[f]}
             B(f) == Registered(f, ptr) \cup UNION {Including(f, h, ptr) : h \in code[f]}
  <2>6. \A f \in unit : A(f) = B(f)
        BY <2>3
  <2>7. UNION {A(f) : f \in unit} = UNION {B(f) : f \in unit}
    <3> HIDE DEF A, B, unit
    <3> QED
        BY <2>6
  <2>8. edges' = edges \cup E
        BY <2>5, <2>7 DEF Filing
  <2> QED
      BY <2>2, <2>4, <2>8 DEF Adds
<1>6. Above(unit) \in SUBSET Names
      BY <1>4, AboveNames
<1>7. Fits(E, NewGen(Above(unit)), stored \cup Above(unit))
  <2>1. NewGen(Above(unit)) \in [Names -> Nat]
        BY <1>1, NewGenType
  <2> QED
      BY <2>1, <1>4, FilingFits
<1>8. Describes(E, unit, code, ptr)
      BY <1>4, FilingDescribes
<1> HIDE DEF unit, E
<1>9. \A f \in unit : code[f] \subseteq unit
      BY <1>4
<1>10. Shape /\ StoreOK /\ AtRest
       BY <1>2, <1>3 DEF Maintained, Shape
<1>11. Shape'
       BY <1>1, <1>4, <1>5, <1>7, <1>8, <1>9, <1>10, AddsShape
<1>12. StoreOK' /\ \A e \in E : Live(e[3])'
       BY <1>1, <1>5, <1>6, <1>7, <1>10, AddsStore
<1>13. \A x : Live(x) => Live(x)'
       BY <1>1, <1>5, <1>6, AddsPtrs
<1>14. edges' = edges \cup E /\ stored' = stored \cup Above(unit)
       BY <1>5 DEF Adds
<1>15. stored' \cap Files = (stored \cap Files) \cup unit
       BY <1>1, <1>4, <1>5, AddsSteady
<1>16. /\ \A f \in stored \cap Files : Includes(f) \subseteq Includes(f)'
       /\ \A f \in (stored \cap Files) \ unit : Includes(f)' = Includes(f)
       /\ \A f \in unit : code[f] \ {f} \subseteq Includes(f)'
       /\ \A f \in unit \cap stored : Includes(f)' \subseteq Includes(f) \cup (code[f] \ {f})
       /\ \A f \in unit \ stored : Includes(f)' \subseteq code[f] \ {f}
       BY <1>1, <1>4, <1>5, <1>8, <1>9, <1>10, AddsIncludes
<1>17. present' = present /\ \A x : TranslationUnit(x)' = TranslationUnit(x)
       BY <1>2 DEF present, TranslationUnit
<1>18. FwdLive'
       BY <1>10, <1>12, <1>13, <1>14 DEF AtRest, FwdLive
<1>19. \A f \in stored' \cap Files : Faithful(f)'
  <2> SUFFICES ASSUME NEW f \in Files, f \in stored'
               PROVE  f \in present /\ Includes(f)' \subseteq code[f] \ {f}
      BY <1>2, <1>17 DEF Faithful
  <2>1. f \in stored => f \in present /\ Includes(f) \subseteq code[f] \ {f}
        BY <1>10 DEF AtRest, Faithful
  <2>2. f \in stored \/ f \in unit
        BY <1>15
  <2> QED
      BY <2>1, <2>2, <1>4, <1>16
<1>20. \A f \in stored \cap Files : Visited(f) => Visited(f)'
       BY <1>2, <1>16, <1>17 DEF Visited
<1>21. \A f \in unit : Visited(f)' /\ f \in stored'
       BY <1>2, <1>4, <1>15, <1>16, <1>17 DEF Visited
<1>22. \A x \in Sources \cap present' : x \in toParse' \/ Covered(x)'
  <2> SUFFICES ASSUME NEW x \in Sources, x \in present, x \notin toParse'
               PROVE  Covered(x)'
      BY <1>17
  <2>1. CASE x = s
    <3>1. TranslationUnit(x)' = unit
          BY <2>1, <1>17 DEF unit
    <3> QED
        BY <3>1, <1>21 DEF Covered
  <2>2. CASE x # s
    <3>1. Covered(x)
          BY <2>2, <1>2, <1>10 DEF AtRest
    <3>2. TranslationUnit(x) \in SUBSET Files
          BY <1>1, UnitClosed
    <3> QED
        BY <3>1, <3>2, <1>14, <1>17, <1>20 DEF Covered
  <2> QED
      BY <2>1, <2>2
<1>23. AtRest'
       BY <1>2, <1>18, <1>19, <1>22 DEF AtRest
<1> QED
    BY <1>2, <1>11, <1>23 DEF Maintained

(* The scan: what it registers is still to be parsed, what it reports is    *)
(* still to be removed, and everything else is as the last parse left it.   *)
LEMMA UpdateMaintains ==
  ASSUME IInv, IInv', Maintained,
         NEW next \in CodeBases, NEW touched \in SUBSET (DOMAIN next \cap stored),
         Update(next, touched)
  PROVE  Maintained'
<1> DEFINE here     == DOMAIN next
           new      == here \ stored
           modified == {f \in here \cap stored : f \in touched \/ next[f] # code[f]}
           deleted  == (stored \cap Files) \ here
           I        == [f \in new |-> {}]
           ptr      == PtrOf(NewGen(Above(new)))
           E        == Filing(new, I, ptr)
<1>1. Kinds /\ Kinds' /\ gen \in [Names -> Nat] /\ stored \subseteq Names /\ CodeTypes
      BY DEF IInv, Typed, TypeOK
<1>2. here \subseteq Files /\ new \in SUBSET Files
      BY CodeBasesAssumption
<1>3. /\ phase = "idle" /\ fault = "none" /\ fault' = fault
      /\ code' = next /\ present' = here /\ phase' = "files"
      /\ pending' = <<modified, deleted>> /\ pending'[1] = modified /\ pending'[2] = deleted
      /\ removed' = {} /\ removedFiles' = {} /\ stack' = <<>>
      /\ \E incremental \in {FALSE, complete} :
           toParse' = IF incremental THEN Sources \cap (new \cup modified) ELSE Sources \cap here
      BY DEF Update, present
<1>4. Adds(Above(new), E)
  <2>1. \A f \in new : I[f] = {}
        OBVIOUS
  <2>2. /\ gen' = NewGen(Above(new)) /\ stored' = stored \cup Above(new)
        /\ edges' = edges \cup UNION {Registered(f, ptr) : f \in new}
        BY DEF Update, PtrOf
  <2>3. \A f \in new : Registered(f, ptr) \cup UNION {Including(f, h, ptr) : h \in I[f]} = Registered(f, ptr)
        BY <2>1
  <2> DEFINE A(f) == Registered(f, ptr) \cup UNION {Including(f, h, ptr) : h \in I[f]}
             B(f) == Registered(f, ptr)
  <2>4. \A f \in new : A(f) = B(f)
        BY <2>3
  <2>5. UNION {A(f) : f \in new} = UNION {B(f) : f \in new}
    <3> HIDE DEF A, B, new
    <3> QED
        BY <2>4
  <2>6. edges' = edges \cup E
        BY <2>2, <2>5 DEF Filing
  <2> QED
      BY <2>2, <2>6 DEF Adds
<1>5. \A f \in new : I[f] = {} /\ I[f] \subseteq new /\ I[f] \subseteq Files
      OBVIOUS
<1> HIDE DEF I
<1>6. Fits(E, NewGen(Above(new)), stored \cup Above(new))
  <2>1. NewGen(Above(new)) \in [Names -> Nat]
        BY <1>1, NewGenType
  <2> HIDE DEF new
  <2> QED
      BY <2>1, <1>2, <1>5, FilingFits
<1>7. Describes(E, new, I, ptr)
  <2> HIDE DEF new
  <2> QED
      BY <1>2, <1>5, FilingDescribes
<1>8. \A f \in new : f \in here /\ f \notin stored
      OBVIOUS
<1>9. \A f \in here : f \in stored \/ f \in new
      OBVIOUS
<1> HIDE DEF new, E
<1>10. Shape /\ StoreOK /\ AtRest
       BY <1>3 DEF Maintained, Shape
<1>11. Shape'
       BY <1>1, <1>2, <1>4, <1>5, <1>6, <1>7, <1>10, AddsShape
<1>12. StoreOK' /\ \A e \in E : Live(e[3])'
  <2>1. Above(new) \in SUBSET Names
        BY <1>2, AboveNames
  <2> QED
      BY <2>1, <1>1, <1>4, <1>6, <1>10, AddsStore
<1>13. \A x : Live(x) => Live(x)'
  <2>1. Above(new) \in SUBSET Names
        BY <1>2, AboveNames
  <2> QED
      BY <2>1, <1>1, <1>4, AddsPtrs
<1>14. edges' = edges \cup E
       BY <1>4 DEF Adds
<1>15. stored' \cap Files = (stored \cap Files) \cup new /\ \A f \in stored : f \in stored'
       BY <1>1, <1>2, <1>4, AddsSteady
<1>16. /\ \A f \in stored \cap Files : Includes(f)' = Includes(f)
       /\ \A f \in new : Includes(f)' = {}
  <2>1. /\ \A f \in (stored \cap Files) \ new : Includes(f)' = Includes(f)
        /\ \A f \in new \ stored : Includes(f)' \subseteq I[f] \ {f}
        BY <1>1, <1>2, <1>4, <1>5, <1>7, <1>10, AddsIncludes
  <2> QED
      BY <2>1, <1>5, <1>8
<1>17. FwdLive'
       BY <1>10, <1>12, <1>13, <1>14 DEF AtRest, FwdLive
<1>18. FwdKnown' /\ StackCovers' /\ GoneOrGoing' /\ Gone'
  <2>1. FwdKnown'
        BY <1>17 DEF FwdLive, FwdKnown
  <2> QED
      BY <2>1, <1>3 DEF StackCovers, GoneOrGoing, Gone
<1>19. Doomed' = modified \cup deleted
       BY <1>2, <1>3 DEF Doomed
<1>20. \A f \in stored \cap Files : f \in Doomed' \/ (f \in here /\ next[f] = code[f])
       BY <1>19
<1>21. Settled'
  <2> SUFFICES ASSUME NEW f \in Files, f \in stored', f \notin Doomed'
               PROVE  f \in here /\ Includes(f)' \subseteq next[f] \ {f}
      BY <1>3 DEF Settled, Faithful
  <2>1. CASE f \in stored
    <3>1. f \in here /\ next[f] = code[f]
          BY <2>1, <1>20
    <3>2. Includes(f) \subseteq code[f] \ {f}
          BY <2>1, <1>10 DEF AtRest, Faithful
    <3> QED
        BY <3>1, <3>2, <2>1, <1>16
  <2>2. CASE f \in new
        BY <2>2, <1>8, <1>16
  <2> QED
      BY <2>1, <2>2, <1>15
<1>22. \E V \in SUBSET Files : Spares(V)'
  <2>1. CASE toParse' = Sources \cap here
    <3>1. Spares({})'
          BY <2>1, <1>3 DEF Spares
    <3> QED
        BY <3>1
  <2>2. CASE complete /\ toParse' = Sources \cap (new \cup modified)
    <3> PICK V : V = UNION {TranslationUnit(s) : s \in Sources \cap present}
        OBVIOUS
    <3>1. \A s \in Sources \cap present : Covered(s) /\ TranslationUnit(s) \subseteq V
          BY <2>2, <1>3, <1>10 DEF AtRest
    <3>2. \A s : /\ TranslationUnit(s) \in SUBSET Files
                 /\ \A f \in TranslationUnit(s) : \A h \in code[f] : h \in TranslationUnit(s)
          BY <1>1, UnitClosed
    <3>3. \A f \in V : \E s \in Sources \cap present : f \in TranslationUnit(s)
          OBVIOUS
    <3>4. V \in SUBSET Files
          BY <3>2, <3>3
    <3>5. \A f \in V : f \in stored /\ f \in Files /\ Visited(f) /\ code[f] \subseteq V
      <4> TAKE f \in V
      <4>1. PICK s \in Sources \cap present : f \in TranslationUnit(s)
            BY <3>3
      <4> QED
          BY <4>1, <3>1, <3>2 DEF Covered
    <3>6. \A s \in Sources \cap here : s \in toParse' \/ s \in V
      <4> SUFFICES ASSUME NEW s \in Sources, s \in here, s \notin new, s \notin modified
                   PROVE  s \in V
          BY <2>2
      <4>1. s \in stored \cap Files
            BY <1>2, <1>9
      <4>2. s \in present
            BY <4>1, <1>10 DEF AtRest, Faithful
      <4>3. s \in TranslationUnit(s)
            BY <4>2 DEF TranslationUnit
      <4> QED
          BY <4>2, <4>3, <3>1
    <3>7. \A f \in V \cap stored' : Includes(f)' \subseteq V /\ (f \in Doomed' \/ Visited(f)')
      <4> TAKE f \in V \cap stored'
      <4>1. f \in stored \cap Files /\ Visited(f) /\ code[f] \subseteq V /\ Includes(f)' = Includes(f)
            BY <3>5, <1>16
      <4>2. Includes(f) \subseteq code[f]
            BY <4>1, <1>10 DEF AtRest, Faithful
      <4>3. f \notin Doomed' => Visited(f)'
        <5> SUFFICES ASSUME f \notin Doomed'
                     PROVE  f \in here /\ next[f] \ {f} \subseteq Includes(f)'
            BY <1>3 DEF Visited
        <5>1. f \in here /\ next[f] = code[f]
              BY <4>1, <1>20
        <5> QED
            BY <5>1, <4>1 DEF Visited
      <4> QED
          BY <4>1, <4>2, <4>3
    <3>8. \A f \in V : f \in stored'
          BY <3>5, <1>15
    <3>9. Spares(V)'
          BY <3>6, <3>7, <3>8, <1>3 DEF Spares
    <3> QED
        BY <3>4, <3>9
  <2>3. complete \in BOOLEAN
        BY DEF IInv, Typed, TypeOK
  <2>4. PICK incremental \in {FALSE, complete} :
          toParse' = IF incremental THEN Sources \cap (new \cup modified) ELSE Sources \cap here
        BY <1>3
  <2> HIDE DEF modified, here
  <2>5. \/ toParse' = Sources \cap here
        \/ complete /\ toParse' = Sources \cap (new \cup modified)
    <3>1. CASE incremental
      <4>1. complete
            BY <3>1
      <4> QED
          BY <3>1, <4>1, <2>4
    <3>2. CASE ~incremental
          BY <3>2, <2>4
    <3> QED
        BY <3>1, <3>2
  <2> QED
      BY <2>1, <2>2, <2>5
<1>23. Underway'
       BY <1>18, <1>21, <1>22 DEF Underway
<1> QED
    BY <1>3, <1>11, <1>23 DEF Maintained

LEMMA RestMaintains ==
  ASSUME IInv, Maintained, EndParse \/ Export \/ UNCHANGED vars
  PROVE  Maintained'
<1>1. /\ edges' = edges /\ gen' = gen /\ stored' = stored /\ UNCHANGED store
      /\ UNCHANGED <<code, pending, stack, removed, removedFiles>>
      BY DEF EndParse, Export, vars, store, calls
<1>2. \/ UNCHANGED vars
      \/ /\ phase = "parse" /\ phase' = "idle" /\ complete' = (toParse = {}) /\ toParse' = {}
         /\ fault' = fault
      \/ /\ phase = "idle" /\ phase' = phase /\ complete' = complete /\ toParse' = toParse
         /\ fault = "none" /\ fault' \in {"none", "export"}
      BY DEF EndParse, Export
<1>3. /\ present' = present /\ Doomed' = Doomed
      /\ \A f : Includes(f)' = Includes(f)
      /\ \A f : TranslationUnit(f)' = TranslationUnit(f)
      BY <1>1 DEF present, Doomed, Includes, Out, NamesOf, Ptr, TranslationUnit
<1>4. \A f : (Faithful(f)' <=> Faithful(f)) /\ (Visited(f)' <=> Visited(f))
      BY <1>1, <1>3 DEF Faithful, Visited
<1>5. \A s : Covered(s)' <=> Covered(s)
      BY <1>1, <1>3, <1>4 DEF Covered
<1>6. CASE UNCHANGED vars
  <2>1. phase' = phase /\ complete' = complete /\ toParse' = toParse /\ fault' = fault
        BY <1>6 DEF vars
  <2>2. Shape => Shape'
        BY <1>1, SameShape
  <2>3. Underway => Underway'
    <3> SUFFICES ASSUME Underway
                 PROVE  Underway'
        OBVIOUS
    <3>1. Doomed \cap stored \subseteq Doomed'
          BY <1>3
    <3>2. Gone' /\ Settled' /\ \E V \in SUBSET Files : Spares(V)'
          BY <3>1, <2>1, <1>1, CallsMore DEF Underway
    <3>3. StackCovers' /\ GoneOrGoing' /\ FwdKnown'
          BY <1>1 DEF Underway, StackCovers, FrameCovers, GoneOrGoing, FwdKnown, Live
    <3> QED
        BY <3>2, <3>3 DEF Underway
  <2>4. AtRest => AtRest'
        BY <2>1, <1>1, <1>3, <1>4, <1>5 DEF AtRest, FwdLive, Live
  <2> QED
      BY <2>1, <2>2, <2>3, <2>4 DEF Maintained
<1>7. CASE phase # "files" /\ phase' # "files" /\ fault \in {"none", "export"}
           /\ fault' \in {"none", "export"}
           /\ (phase' = "parse" => UNCHANGED <<phase, toParse>>)
           /\ (phase' = "idle" /\ complete' => \/ phase = "parse" /\ toParse = {}
                                               \/ phase = "idle" /\ complete)
  <2>1. Shape /\ AtRest
        BY <1>7 DEF Maintained
  <2>2. Shape'
        BY <2>1, <1>1, SameShape
  <2>3. FwdLive' /\ \A f \in stored' \cap Files : Faithful(f)'
        BY <2>1, <1>1, <1>4 DEF AtRest, FwdLive, Live
  <2>4. phase' = "parse" => \A s \in Sources \cap present' : s \in toParse' \/ Covered(s)'
        BY <2>1, <1>3, <1>5, <1>7 DEF AtRest
  <2>5. phase' = "idle" /\ complete' => \A s \in Sources \cap present' : Covered(s)'
        BY <2>1, <1>3, <1>5, <1>7 DEF AtRest
  <2> QED
      BY <2>2, <2>3, <2>4, <2>5, <1>7 DEF Maintained, AtRest
<1>8. phase = "parse" => fault = "none"
      BY DEF IInv, CallsOK, Sound
<1>9. \/ UNCHANGED vars
      \/ /\ phase # "files" /\ phase' # "files" /\ fault \in {"none", "export"}
         /\ fault' \in {"none", "export"}
         /\ (phase' = "parse" => UNCHANGED <<phase, toParse>>)
         /\ (phase' = "idle" /\ complete' => \/ phase = "parse" /\ toParse = {}
                                             \/ phase = "idle" /\ complete)
      BY <1>2, <1>8
<1> QED
    BY <1>6, <1>7, <1>9

LEMMA StepMaintains ==
  ASSUME Physical, IInv, IInv', Maintained, [Next]_vars
  PROVE  Maintained'
<1>1. InRemoveFile => Top.namespaces = {} /\ Top.types = {}
  <2>1. stack \in Seq(Frames)
        BY DEF IInv, Typed, CallTypes
  <2> QED
      BY <2>1, TopFrame DEF InRemoveFile
<1>2. CASE \E next \in CodeBases : \E touched \in SUBSET (DOMAIN next \cap stored) : Update(next, touched)
      BY <1>2, UpdateMaintains
<1>3. CASE \E f \in Files : DeleteFile(f)
      BY <1>3, DeleteFileMaintains
<1>4. CASE InRemoveFile /\ \E n \in Top.namespaces : LeaveNamespace(n)
      BY <1>1, <1>4
<1>5. CASE InRemoveFile /\ \E t \in Top.types : LeaveType(t)
      BY <1>1, <1>5
<1>6. CASE InRemoveFile /\ \E p \in Top.files : RemoveIncluder(p)
      BY <1>6, RemoveIncluderMaintains
<1>7. CASE FinishRemoveFile
      BY <1>7, FinishMaintains
<1>8. CASE \E n \in Packages \cup Groups : RemovePackage(n)
      BY <1>8, RemovePackageMaintains
<1>9. CASE StartParse
      BY <1>9, StartParseMaintains
<1>10. CASE \E s \in Sources : ParseUnit(s)
       BY <1>10, ParseUnitMaintains
<1>11. CASE EndParse \/ Export \/ UNCHANGED vars
       BY <1>11, RestMaintains
<1> QED
    BY <1>2, <1>3, <1>4, <1>5, <1>6, <1>7, <1>8, <1>9, <1>10, <1>11 DEF Next

(* The second inductive invariant.                                         *)
THEOREM StoreIsMaintained ==
  ASSUME Physical
  PROVE  Spec => []Maintained
<1>1. Init => Maintained
      BY MaintainedStart
<1>2. IInv /\ IInv' /\ Maintained /\ [Next]_vars => Maintained'
      BY StepMaintains
<1> QED
    BY <1>1, <1>2, Invariant, PTL DEF Spec

(* Whatever is edited, over any number of updates: a removal that meets no  *)
(* freed object leaves no file that #includes one it removed.               *)
THEOREM CascadeReachesIncluders ==
  ASSUME Physical
  PROVE  Spec => []SurvivorsIncludeNoRemoved
<1>1. IInv /\ Maintained => SurvivorsIncludeNoRemoved
      BY DEF IInv, CallsOK, Sound, Maintained, AtRest, FwdLive, SurvivorsIncludeNoRemoved
<1> QED
    BY <1>1, Invariant, StoreIsMaintained, PTL

(* A component goes with its last file and not before it.                   *)
THEOREM ComponentsFollowFiles ==
  ASSUME Physical
  PROVE  Spec => []OwnersFollowFiles
<1>1. Namespaces = {} /\ AllTypes = {}
      BY DEF Physical, Namespaces, AllTypes
<1>2. Maintained => OwnersFollowFiles
      BY <1>1 DEF Maintained, Shape, Housed, Inhabited, OwnersFollowFiles
<1> QED
    BY <1>2, StoreIsMaintained, PTL

(* An update that goes through leaves every file of every source's          *)
(* translation unit with the #includes it has on disk and the dependencies  *)
(* these stand for, though it parses only what changed.                     *)
THEOREM UpdateBringsEverything ==
  ASSUME Physical
  PROVE  Spec => []UpdateIsComplete
<1>1. ASSUME IInv, Maintained
      PROVE  UpdateIsComplete
  <2> SUFFICES ASSUME phase = "idle", complete, NEW s \in Sources \cap present,
                      NEW f \in TranslationUnit(s)
               PROVE  /\ NamesOf({p \in Out("forwardIncludes", Ptr(f)) : Live(p)}) = code[f] \ {f}
                      /\ \A h \in code[f] : CompOf[f] # CompOf[h] =>
                           <<"forwardDeps", Ptr(CompOf[f]), Ptr(CompOf[h])>> \in edges
      BY DEF UpdateIsComplete
  <2>1. Kinds /\ CodeTypes /\ gen \in [Names -> Nat] /\ Shape /\ AtRest
        BY <1>1 DEF IInv, Typed, TypeOK, Maintained
  <2>2. /\ f \in stored /\ f \in Files /\ Visited(f) /\ Faithful(f)
        /\ code[f] \subseteq Files
    <3>1. /\ TranslationUnit(s) \in SUBSET Files
          /\ \A x \in TranslationUnit(s) : \A h \in code[x] : h \in TranslationUnit(s)
          BY <2>1, UnitClosed
    <3> QED
        BY <3>1, <2>1 DEF AtRest, Covered
  <2>3. Includes(f) = code[f] \ {f}
        BY <2>2 DEF Visited, Faithful
  <2>4. \A e \in edges : e[1] = "forwardIncludes" => Live(e[3])
        BY <2>1 DEF AtRest, FwdLive
  <2>5. \A p \in Out("forwardIncludes", Ptr(f)) : Live(p)
        BY <2>4 DEF Out
  <2>6. {p \in Out("forwardIncludes", Ptr(f)) : Live(p)} = Out("forwardIncludes", Ptr(f))
        BY <2>5
  <2>7. ASSUME NEW h \in code[f], CompOf[f] # CompOf[h]
        PROVE  <<"forwardDeps", Ptr(CompOf[f]), Ptr(CompOf[h])>> \in edges
    <3>1. h # f /\ h \in Includes(f)
          BY <2>3, <2>7
    <3>2. PICK k \in Nat : <<"forwardIncludes", Ptr(f), <<h, k>>>> \in edges
          BY <3>1, <2>1, IncludesIn
    <3>3. Live(<<h, k>>)
          BY <3>2, <2>4
    <3>4. h \in stored /\ <<h, k>> = Ptr(h) /\ h \in Files
          BY <3>3, <2>2 DEF Live, Ptr
    <3> QED
        BY <3>2, <3>4, <2>1, <2>2, <2>7 DEF Shape, Depending
  <2> QED
      BY <2>3, <2>6, <2>7 DEF Includes
<1> QED
    BY <1>1, Invariant, StoreIsMaintained, PTL
=============================================================================
