----------------------- MODULE StaticFunctions_proofs -----------------------
(***************************************************************************)
(* Proofs about StaticFunctions: what is written is implied by the text of *)
(* the translation unit, no function is flattened inside its own           *)
(* flattening, and where calls do not go round in circles everything       *)
(* implied is written.                                                     *)
(***************************************************************************)
EXTENDS StaticFunctions, SequenceTheorems, TLAPS

Frames == [fn : Fns, rest : SUBSET Fns]

(* The maps hold what the visitor said until flattenFn adds to one of them.*)
Recorded ==
  /\ phase = "record" => fnDepUdt = text.uses /\ stack = <<>> /\ visited = {} /\ ~rehashed
  /\ phase # "done" => fnDepFn = text.calls /\ udtDepFn = text.users /\ usesInImpl = {}
  /\ phase = "done" => stack = <<>>

(* A function is given no type it does not reach, and loses none.          *)
Sound == phase # "done" => \A f \in Fns : fnDepUdt[f] \subseteq UsedBy(f)
Kept == phase # "done" => \A f \in Fns : text.uses[f] \subseteq fnDepUdt[f]

(* Each call of flattenFn is for a function its callers reach.             *)
Nested ==
  /\ \A i \in 1..Len(stack) : stack[i].fn \in visited /\ stack[i].rest \subseteq text.calls[stack[i].fn]
  /\ \A i, j \in 1..Len(stack) : i < j => stack[j].fn \in Reachable(stack[i].fn)

OnStack(f) == \E i \in 1..Len(stack) : stack[i].fn = f

(* The flattening of f has yet to copy the types of g.                     *)
Pending(f, g) ==
  \E i \in 1..Len(stack) :
    /\ stack[i].fn = f
    /\ g \in stack[i].rest \/ (i < Len(stack) /\ stack[i + 1].fn = g)

Copying(f, g) == g \in visited /\ ~OnStack(g) /\ fnDepUdt[g] \subseteq fnDepUdt[f]

(* Without circles a visited function has the types of each callee it is   *)
(* past, and that callee will get no more.                                 *)
Flattened ==
  phase = "flatten" /\ Acyclic =>
    \A f \in visited : \A g \in text.calls[f] : Pending(f, g) \/ Copying(f, g)

KeysAhead ==
  phase = "flatten" /\ ~rehashed => \A f \in Fns : text.calls[f] # {} => f \in visited \cup todo

IInv ==
  /\ TypeOK
  /\ Recorded
  /\ Sound
  /\ Kept
  /\ Nested
  /\ NoFunctionInsideItself
  /\ Flattened
  /\ KeysAhead
  /\ NothingInvented
  /\ AcyclicIsComplete

-----------------------------------------------------------------------------
(* Reachability.                                                           *)

LEMMA ReachesItself == ASSUME NEW f \in Fns PROVE f \in Reachable(f)
  BY DEF Reachable

LEMMA ReachesCallee ==
  ASSUME TypeOK, NEW f \in Fns, NEW g \in Reachable(f), NEW h \in text.calls[g]
  PROVE  h \in Reachable(f)
<1>1. g \in Fns /\ h \in Fns
  BY DEF TypeOK, Reachable
<1>2. ASSUME NEW S \in SUBSET Fns, f \in S, Closed(S)
      PROVE  h \in S
  <2>1. g \in S
    BY <1>2 DEF Reachable
  <2>2. QED
    BY <2>1, <1>2 DEF Closed
<1>3. QED
  BY <1>1, <1>2 DEF Reachable

LEMMA CalleeReachesLess ==
  ASSUME TypeOK, NEW f \in Fns, NEW g \in text.calls[f]
  PROVE  Reachable(g) \subseteq Reachable(f)
<1> SUFFICES ASSUME NEW h \in Reachable(g), NEW S \in SUBSET Fns, f \in S, Closed(S)
             PROVE  h \in S
  BY DEF Reachable
<1>1. g \in S
  BY DEF Closed
<1>2. QED
  BY <1>1 DEF Reachable

LEMMA ReachableWithin ==
  ASSUME NEW f \in Fns, NEW S \in SUBSET Fns, f \in S, Closed(S)
  PROVE  Reachable(f) \subseteq S
  BY DEF Reachable

LEMMA UsedByCallee ==
  ASSUME TypeOK, NEW f \in Fns, NEW g \in text.calls[f]
  PROVE  UsedBy(g) \subseteq UsedBy(f)
  BY CalleeReachesLess DEF UsedBy

LEMMA ReachesReachable ==
  ASSUME TypeOK, NEW f \in Fns, NEW g \in Reachable(f)
  PROVE  UsedBy(g) \subseteq UsedBy(f)
<1>1. Reachable(g) \subseteq Reachable(f)
  BY DEF Reachable
<1>2. QED
  BY <1>1 DEF UsedBy

LEMMA UsesItsOwn ==
  ASSUME NEW f \in Fns PROVE text.uses[f] \subseteq UsedBy(f)
  BY ReachesItself DEF UsedBy

(* What the text says does not change once the unit ends.                  *)
LEMMA SameText ==
  ASSUME text' = text
  PROVE  /\ \A f : Reachable(f)' = Reachable(f)
         /\ \A f : UsedBy(f)' = UsedBy(f)
         /\ Acyclic' = Acyclic
         /\ Implied' = Implied
<1>1. \A f : Reachable(f)' = Reachable(f)
  BY DEF Reachable, Closed
<1>2. \A f : UsedBy(f)' = UsedBy(f)
  BY <1>1 DEF UsedBy
<1>3. Acyclic' = Acyclic
  BY <1>1 DEF Acyclic
<1>4. Implied' = Implied
  BY <1>2 DEF Implied
<1>5. QED
  BY <1>1, <1>2, <1>3, <1>4

-----------------------------------------------------------------------------
LEMMA Initially == Init => IInv
<1> SUFFICES ASSUME Init PROVE IInv
  OBVIOUS
<1> USE DEF Init, NoCalls, NoUses, NoUsers
<1>1. TypeOK
  <2>1. stack \in Seq(Frames)
    BY DEF Frames
  <2>2. QED
    BY <2>1 DEF TypeOK, Frames
<1>2. Recorded /\ Kept /\ Flattened /\ KeysAhead /\ NothingInvented /\ AcyclicIsComplete
  BY DEF Recorded, Kept, Flattened, KeysAhead, NothingInvented, AcyclicIsComplete
<1>3. Sound
  BY DEF Sound
<1>4. Nested /\ NoFunctionInsideItself
  BY DEF Nested, NoFunctionInsideItself
<1>5. QED
  BY <1>1, <1>2, <1>3, <1>4 DEF IInv

(* The visitor speaks: only the maps and the text change.                  *)
LEMMA RecordingStep ==
  ASSUME IInv, Recording, TypeOK',
         fnDepUdt' = text'.uses, fnDepFn' = text'.calls, udtDepFn' = text'.users
  PROVE  IInv'
<1> USE DEF Recording
<1>1. Recorded'
  BY DEF IInv, Recorded
<1>2. Sound' /\ Kept'
  <2>1. \A f \in Fns : text'.uses[f] \subseteq UsedBy(f)'
    BY DEF UsedBy, Reachable
  <2>2. QED
    BY <2>1 DEF Sound, Kept
<1>3. stack' = <<>> /\ usesInImpl' = {}
  BY DEF IInv, Recorded
<1>4. Nested' /\ NoFunctionInsideItself'
  BY <1>3 DEF Nested, NoFunctionInsideItself
<1>5. Flattened' /\ KeysAhead' /\ NothingInvented' /\ AcyclicIsComplete'
  BY <1>3 DEF Flattened, KeysAhead, NothingInvented, AcyclicIsComplete
<1>6. QED
  BY <1>1, <1>2, <1>4, <1>5 DEF IInv

LEMMA AddFnUsesTypeKeeps ==
  ASSUME IInv, NEW f \in Fns, NEW t \in Types, AddFnUsesType(f, t) PROVE IInv'
<1>1. TypeOK /\ Recorded
  BY DEF IInv
<1>2. TypeOK'
  BY <1>1 DEF TypeOK, AddFnUsesType, Recording
<1>3. fnDepUdt' = text'.uses /\ fnDepFn' = text'.calls /\ udtDepFn' = text'.users
  BY <1>1 DEF TypeOK, Recorded, AddFnUsesType, Recording
<1>4. QED
  BY <1>2, <1>3, RecordingStep DEF AddFnUsesType

LEMMA AddFnUsesFnKeeps ==
  ASSUME IInv, NEW f \in Fns, NEW g \in Fns, AddFnUsesFn(f, g) PROVE IInv'
<1>1. TypeOK /\ Recorded
  BY DEF IInv
<1>2. TypeOK'
  BY <1>1 DEF TypeOK, AddFnUsesFn, Recording
<1>3. fnDepUdt' = text'.uses /\ fnDepFn' = text'.calls /\ udtDepFn' = text'.users
  BY <1>1 DEF TypeOK, Recorded, AddFnUsesFn, Recording
<1>4. QED
  BY <1>2, <1>3, RecordingStep DEF AddFnUsesFn

LEMMA AddUdtUsesKeeps ==
  ASSUME IInv, NEW c \in Classes, NEW f \in Fns, AddUdtUses(c, f) PROVE IInv'
<1>1. TypeOK /\ Recorded
  BY DEF IInv
<1>2. TypeOK'
  BY <1>1 DEF TypeOK, AddUdtUses, Recording
<1>3. fnDepUdt' = text'.uses /\ fnDepFn' = text'.calls /\ udtDepFn' = text'.users
  BY <1>1 DEF TypeOK, Recorded, AddUdtUses, Recording
<1>4. QED
  BY <1>2, <1>3, RecordingStep DEF AddUdtUses

LEMMA WriteOutToDbKeeps ==
  ASSUME IInv, WriteOutToDb PROVE IInv'
<1> USE DEF WriteOutToDb
<1>1. TypeOK /\ Recorded /\ Sound /\ Kept
  BY DEF IInv
<1>2. TypeOK' /\ Recorded'
  BY <1>1 DEF TypeOK, Recorded
<1>3. Sound' /\ Kept'
  BY <1>1, SameText DEF Sound, Kept
<1>4. Nested' /\ NoFunctionInsideItself' /\ Flattened' /\ KeysAhead'
  BY <1>1 DEF Recorded, Nested, NoFunctionInsideItself, Flattened, KeysAhead
<1>5. NothingInvented' /\ AcyclicIsComplete'
  BY <1>1 DEF Recorded, NothingInvented, AcyclicIsComplete
<1>6. QED
  BY <1>2, <1>3, <1>4, <1>5 DEF IInv

LEMMA ResetKeeps ==
  ASSUME IInv, Reset, UNCHANGED <<stack, todo, rehashed, text>>, stack = <<>>,
         usesInImpl' \in SUBSET (Classes \X Types), NothingInvented', AcyclicIsComplete'
  PROVE  IInv'
<1> USE DEF Reset, NoCalls, NoUses, NoUsers
<1>1. TypeOK'
  BY DEF IInv, TypeOK
<1>2. Recorded' /\ Sound' /\ Kept' /\ Nested' /\ NoFunctionInsideItself' /\ Flattened' /\ KeysAhead'
  BY DEF Recorded, Sound, Kept, Nested, NoFunctionInsideItself, Flattened, KeysAhead
<1>3. QED
  BY <1>1, <1>2 DEF IInv

LEMMA EndUnitEarlyKeeps ==
  ASSUME IInv, EndUnitEarly PROVE IInv'
<1> USE DEF EndUnitEarly
<1>1. TypeOK /\ Recorded
  BY DEF IInv
<1>2. usesInImpl' = {} /\ stack = <<>>
  BY <1>1 DEF Recorded
<1>3. Implied = {}
  <2>1. text.users = NoUsers \/ text.uses = NoUses
    BY <1>1 DEF Recorded, NothingToWrite
  <2>2. CASE text.users = NoUsers
    BY <2>2 DEF Implied, NoUsers
  <2>3. CASE text.uses = NoUses
    <3>1. \A f \in Fns : UsedBy(f) = {}
      BY <2>3 DEF UsedBy, NoUses, Reachable
    <3>2. \A c \in Classes : text.users[c] \subseteq Fns
      BY <1>1 DEF TypeOK
    <3>3. QED
      BY <3>1, <3>2 DEF Implied
  <2>4. QED
    BY <2>1, <2>2, <2>3
<1>4. NothingInvented' /\ AcyclicIsComplete'
  BY <1>2, <1>3, SameText DEF NothingInvented, AcyclicIsComplete
<1>5. QED
  BY <1>2, <1>4, ResetKeeps

(* The loops are through: the maps are closed under calls, so they hold    *)
(* all that is implied.                                                    *)
LEMMA EndUnitKeeps ==
  ASSUME IInv, EndUnit PROVE IInv'
<1> USE DEF EndUnit
<1>1. TypeOK /\ Recorded /\ Sound /\ Kept /\ Flattened /\ KeysAhead
  BY DEF IInv
<1>2. usesInImpl' = Relations /\ udtDepFn = text.users
  BY <1>1 DEF Recorded
<1>3. \A c \in Classes : text.users[c] \subseteq Fns
  BY <1>1 DEF TypeOK
<1>4. NothingInvented'
  <2>1. Relations \subseteq Implied
    BY <1>1, <1>2, <1>3 DEF Relations, Implied, Sound
  <2>2. QED
    BY <2>1, <1>2, SameText DEF NothingInvented
<1>5. ASSUME Acyclic, ~rehashed
      PROVE  Implied \subseteq Relations
  <2>1. \A h \in Fns : \A k \in text.calls[h] : k \in Fns /\ fnDepUdt[k] \subseteq fnDepUdt[h]
    <3>1. ASSUME NEW h \in Fns, NEW k \in text.calls[h]
          PROVE  k \in Fns /\ fnDepUdt[k] \subseteq fnDepUdt[h]
      <4>1. h \in visited
        BY <1>1, <1>5 DEF KeysAhead
      <4>2. Pending(h, k) \/ Copying(h, k)
        BY <1>1, <1>5, <4>1 DEF Flattened
      <4>3. ~Pending(h, k)
        BY DEF Pending
      <4>4. QED
        BY <4>2, <4>3, <1>1 DEF Copying, TypeOK
    <3>2. QED
      BY <3>1
  <2>2. ASSUME NEW f \in Fns
        PROVE  UsedBy(f) \subseteq fnDepUdt[f]
    <3> DEFINE S == {h \in Fns : fnDepUdt[h] \subseteq fnDepUdt[f]}
    <3>1. Closed(S)
      BY <2>1 DEF Closed
    <3>2. Reachable(f) \subseteq S
      BY <3>1, ReachableWithin
    <3>3. \A h \in S : text.uses[h] \subseteq fnDepUdt[f]
      BY <1>1 DEF Kept
    <3>4. QED
      BY <3>2, <3>3 DEF UsedBy
  <2>3. QED
    BY <2>2, <1>2, <1>3 DEF Implied, Relations
<1>6. AcyclicIsComplete'
  BY <1>5, <1>2, SameText DEF AcyclicIsComplete
<1>7. usesInImpl' \in SUBSET (Classes \X Types)
  BY <1>2 DEF Relations
<1>8. QED
  BY <1>4, <1>6, <1>7, ResetKeeps

-----------------------------------------------------------------------------
(* The stack.                                                              *)

LEMMA BelowProperties ==
  ASSUME NEW s \in Seq(Frames), s # <<>>
  PROVE  LET b == SubSeq(s, 1, Len(s) - 1)
         IN  /\ b \in Seq(Frames)
             /\ Len(b) = Len(s) - 1
             /\ \A i \in 1..Len(s) - 1 : b[i] = s[i]
             /\ Len(s) \in Nat /\ Len(s) > 0
             /\ s[Len(s)] \in Frames
<1> DEFINE n == Len(s)
           b == SubSeq(s, 1, n - 1)
<1>1. n \in Nat /\ n > 0
  BY EmptySeq, LenProperties
<1>2. s[n] \in Frames
  BY <1>1, ElementOfSeq
<1>3. \A i \in 1..n - 1 : s[i] \in Frames
  BY <1>1, ElementOfSeq
<1>4. b = [i \in 1..n - 1 |-> s[i]]
  BY <1>1
<1>5. b \in Seq(Frames) /\ Len(b) = n - 1
  <2>1. n - 1 \in Nat /\ b \in [1..n - 1 -> Frames]
    <3>1. n - 1 \in Nat
      BY <1>1
    <3> HIDE DEF b, n
    <3>2. b \in [1..n - 1 -> Frames]
      BY <1>3, <1>4
    <3>3. QED
      BY <3>1, <3>2
  <2>2. b \in Seq(Frames)
    BY <2>1, SeqDef
  <2> HIDE DEF b
  <2>3. Len(b) \in Nat /\ 1..Len(b) = 1..n - 1
    BY <2>1, <2>2, LenProperties
  <2>4. QED
    BY <2>1, <2>2, <2>3
<1>6. QED
  BY <1>1, <1>2, <1>4, <1>5

LEMMA ReplacedProperties ==
  ASSUME NEW s \in Seq(Frames), s # <<>>, NEW x \in Frames
  PROVE  LET r == Append(SubSeq(s, 1, Len(s) - 1), x)
         IN  /\ r \in Seq(Frames)
             /\ Len(r) = Len(s)
             /\ \A i \in 1..Len(s) - 1 : r[i] = s[i]
             /\ r[Len(s)] = x
<1> DEFINE b == SubSeq(s, 1, Len(s) - 1)
<1>1. /\ b \in Seq(Frames) /\ Len(b) = Len(s) - 1
      /\ \A i \in 1..Len(s) - 1 : b[i] = s[i]
      /\ Len(s) \in Nat /\ Len(s) > 0
  BY BelowProperties
<1> HIDE DEF b
<1>2. /\ Append(b, x) \in Seq(Frames)
      /\ Len(Append(b, x)) = Len(b) + 1
      /\ \A i \in 1..Len(b) : Append(b, x)[i] = b[i]
      /\ Append(b, x)[Len(b) + 1] = x
  BY <1>1, AppendProperties
<1>3. QED
  BY <1>1, <1>2 DEF b

(* Without circles no callee of the innermost function is being flattened. *)
LEMMA CalleeNotOnStack ==
  ASSUME TypeOK, Nested, Acyclic, stack # <<>>, NEW g \in text.calls[Top.fn]
  PROVE  ~OnStack(g)
<1>1. Len(stack) \in Nat /\ Len(stack) > 0 /\ Top \in Frames
  BY BelowProperties DEF TypeOK, Frames, Top
<1>2. Top.fn \in Fns
  BY <1>1 DEF Frames
<1>3. ASSUME NEW i \in 1..Len(stack), stack[i].fn = g
      PROVE  Top.fn \in Reachable(g)
  <2>1. CASE i = Len(stack)
    BY <2>1, <1>2, <1>3, ReachesItself DEF Top
  <2>2. CASE i < Len(stack)
    BY <2>2, <1>1, <1>3 DEF Nested, Top
  <2>3. QED
    BY <2>1, <2>2, <1>1
<1>4. QED
  BY <1>2, <1>3 DEF OnStack, Acyclic

LEMMA FlattenNextKeeps ==
  ASSUME IInv, NEW f \in Fns, FlattenNext(f) PROVE IInv'
<1> USE DEF FlattenNext
<1>1. TypeOK /\ Recorded /\ Sound /\ Kept /\ Flattened /\ KeysAhead
  BY DEF IInv
<1>2. Recorded' /\ Sound' /\ Kept' /\ NothingInvented' /\ AcyclicIsComplete'
  <2>1. NothingInvented' /\ AcyclicIsComplete'
    BY <1>1 DEF Recorded, NothingInvented, AcyclicIsComplete
  <2>2. QED
    BY <1>1, <2>1, SameText DEF Recorded, Sound, Kept
<1>3. CASE Entered(f)
  <2>1. TypeOK' /\ KeysAhead'
    BY <1>1, <1>3 DEF TypeOK, KeysAhead, Entered
  <2>2. Nested' /\ NoFunctionInsideItself'
    BY <1>3 DEF Nested, NoFunctionInsideItself
  <2>3. \A h, k : (Pending(h, k)' <=> Pending(h, k)) /\ (Copying(h, k)' <=> Copying(h, k))
    BY <1>3 DEF Pending, Copying, OnStack
  <2>4. Flattened'
    BY <1>1, <1>3, <2>3, SameText DEF Flattened
  <2>5. QED
    BY <1>2, <2>1, <2>2, <2>4 DEF IInv
<1>4. CASE ~Entered(f)
  <2>1. stack' = <<Frame(f)>> /\ visited' = visited \cup {f} /\ f \notin visited
    BY <1>4 DEF Entered
  <2>2. Frame(f) \in Frames /\ Frame(f).fn = f /\ Frame(f).rest = text.calls[f]
    BY <1>1 DEF TypeOK, Frame, Frames, Recorded
  <2>3. stack' \in Seq(Frames) /\ Len(stack') = 1 /\ stack'[1] = Frame(f)
    BY <2>1, <2>2
  <2>4. TypeOK' /\ KeysAhead'
    BY <1>1, <2>1, <2>3 DEF TypeOK, KeysAhead, Frames
  <2>5. Nested' /\ NoFunctionInsideItself'
    BY <2>1, <2>2, <2>3 DEF Nested, NoFunctionInsideItself
  <2>6. Flattened'
    <3> SUFFICES ASSUME Acyclic, NEW h \in visited', NEW k \in text.calls[h]
                 PROVE  Pending(h, k)' \/ Copying(h, k)'
      BY SameText DEF Flattened
    <3>1. CASE h = f
      BY <3>1, <2>2, <2>3 DEF Pending
    <3>2. CASE h # f
      <4>1. Copying(h, k)
        BY <3>2, <1>1, <2>1 DEF Flattened, Pending
      <4>2. QED
        BY <4>1, <2>1, <2>2, <2>3 DEF Copying, OnStack
    <3>3. QED
      BY <3>1, <3>2
  <2>7. QED
    BY <1>2, <2>4, <2>5, <2>6 DEF IInv
<1>5. QED
  BY <1>3, <1>4

(* A caller copies the types of a callee: what it has stays implied.       *)
LEMMA CopyIsSound ==
  ASSUME TypeOK, Sound, Kept, phase = "flatten", phase' = phase, text' = text,
         NEW f \in Fns, NEW g \in text.calls[f], fnDepUdt' = Copied(f, g)
  PROVE  /\ Sound' /\ Kept'
         /\ fnDepUdt' \in [Fns -> SUBSET Types]
         /\ fnDepUdt'[f] = fnDepUdt[f] \cup fnDepUdt[g]
         /\ \A h \in Fns \ {f} : fnDepUdt'[h] = fnDepUdt[h]
<1>1. g \in Fns
  BY DEF TypeOK
<1>2. /\ fnDepUdt' \in [Fns -> SUBSET Types]
      /\ fnDepUdt'[f] = fnDepUdt[f] \cup fnDepUdt[g]
      /\ \A h \in Fns \ {f} : fnDepUdt'[h] = fnDepUdt[h]
  BY <1>1 DEF TypeOK, Copied
<1>3. \A h \in Fns : fnDepUdt'[h] \subseteq UsedBy(h)
  BY <1>1, <1>2, UsedByCallee DEF Sound
<1>4. Sound' /\ Kept'
  BY <1>2, <1>3, SameText DEF Sound, Kept
<1>5. QED
  BY <1>2, <1>4

LEMMA CopyVisitedKeeps ==
  ASSUME IInv, NEW g \in Fns, CopyVisited(g) PROVE IInv'
<1> USE DEF CopyVisited
<1>1. TypeOK /\ Recorded /\ Sound /\ Kept /\ Nested /\ NoFunctionInsideItself /\ Flattened /\ KeysAhead
  BY DEF IInv
<1> DEFINE n == Len(stack)
           top == [Top EXCEPT !.rest = @ \ {g}]
<1>2. stack \in Seq(Frames) /\ stack # <<>> /\ n \in Nat /\ n > 0 /\ Top \in Frames /\ Top = stack[n]
  BY <1>1, BelowProperties DEF TypeOK, Frames, Top
<1>3. top \in Frames /\ top.fn = Top.fn /\ top.rest = Top.rest \ {g} /\ Top.fn \in Fns
  BY <1>2 DEF Frames
<1>4. /\ stack' \in Seq(Frames) /\ Len(stack') = n
      /\ \A i \in 1..n - 1 : stack'[i] = stack[i]
      /\ stack'[n] = top
  BY <1>2, <1>3, ReplacedProperties DEF Below
<1> HIDE DEF top
<1>5. \A i \in 1..n : stack'[i].fn = stack[i].fn /\ stack'[i].rest \subseteq stack[i].rest
  BY <1>2, <1>3, <1>4
<1>6. g \in text.calls[Top.fn]
  BY <1>1, <1>2 DEF Nested
<1>7. /\ Sound' /\ Kept'
      /\ fnDepUdt' \in [Fns -> SUBSET Types]
      /\ fnDepUdt'[Top.fn] = fnDepUdt[Top.fn] \cup fnDepUdt[g]
      /\ \A h \in Fns \ {Top.fn} : fnDepUdt'[h] = fnDepUdt[h]
  BY <1>1, <1>3, <1>6, CopyIsSound
<1>8. TypeOK' /\ Recorded' /\ KeysAhead' /\ NothingInvented' /\ AcyclicIsComplete'
  <2>1. TypeOK'
    BY <1>1, <1>4, <1>7 DEF TypeOK, Frames
  <2>2. Recorded' /\ KeysAhead'
    BY <1>1 DEF Recorded, KeysAhead
  <2>3. NothingInvented' /\ AcyclicIsComplete'
    BY <1>1 DEF Recorded, NothingInvented, AcyclicIsComplete
  <2>4. QED
    BY <2>1, <2>2, <2>3
<1>9. Nested' /\ NoFunctionInsideItself'
  <2>1. \A h : Reachable(h)' = Reachable(h)
    BY SameText
  <2>2. QED
    BY <1>1, <1>4, <1>5, <2>1 DEF Nested, NoFunctionInsideItself
<1>10. Flattened'
  <2> SUFFICES ASSUME Acyclic, NEW h \in visited, NEW k \in text.calls[h]
               PROVE  Pending(h, k)' \/ Copying(h, k)'
    BY SameText DEF Flattened
  <2>1. \A x : OnStack(x)' <=> OnStack(x)
    BY <1>4, <1>5 DEF OnStack
  <2>2. h \in Fns /\ k \in Fns
    BY <1>1 DEF TypeOK
  <2>3. CASE h = Top.fn /\ k = g
    <3>1. ~OnStack(g)
      BY <1>1, <1>6, CalleeNotOnStack
    <3>2. QED
      BY <2>1, <2>3, <3>1, <1>3, <1>7 DEF Copying, Entered
  <2>4. CASE ~(h = Top.fn /\ k = g) /\ Pending(h, k)
    <3>1. PICK i \in 1..n : stack[i].fn = h /\ (k \in stack[i].rest \/ (i < n /\ stack[i + 1].fn = k))
      BY <2>4 DEF Pending
    <3>2. i < n => i \in 1..n - 1 /\ i + 1 \in 1..n
      BY <1>2
    <3>3. k \in stack[i].rest => k \in stack'[i].rest
      BY <3>1, <3>2, <2>4, <1>2, <1>3, <1>4
    <3>4. QED
      BY <3>1, <3>2, <3>3, <1>4, <1>5 DEF Pending
  <2>5. CASE Copying(h, k)
    <3>1. k # Top.fn
      BY <2>5, <1>2 DEF Copying, OnStack
    <3>2. QED
      BY <3>1, <2>1, <2>2, <2>5, <1>7 DEF Copying
  <2>6. QED
    BY <2>3, <2>4, <2>5, <1>1 DEF Flattened
<1>11. QED
  BY <1>7, <1>8, <1>9, <1>10 DEF IInv

LEMMA DescendKeeps ==
  ASSUME IInv, NEW g \in Fns, Descend(g) PROVE IInv'
<1> USE DEF Descend
<1>1. TypeOK /\ Recorded /\ Sound /\ Kept /\ Nested /\ NoFunctionInsideItself /\ Flattened /\ KeysAhead
  BY DEF IInv
<1> DEFINE n == Len(stack)
           top == [Top EXCEPT !.rest = @ \ {g}]
           mid == Append(Below, top)
<1>2. stack \in Seq(Frames) /\ stack # <<>> /\ n \in Nat /\ n > 0 /\ Top \in Frames /\ Top = stack[n]
  BY <1>1, BelowProperties DEF TypeOK, Frames, Top
<1>3. top \in Frames /\ top.fn = Top.fn /\ top.rest = Top.rest \ {g} /\ Top.fn \in Fns
  BY <1>2 DEF Frames
<1>4. /\ mid \in Seq(Frames) /\ Len(mid) = n
      /\ \A i \in 1..n - 1 : mid[i] = stack[i]
      /\ mid[n] = top
  BY <1>2, <1>3, ReplacedProperties DEF Below
<1>5. Frame(g) \in Frames /\ Frame(g).fn = g /\ Frame(g).rest = text.calls[g]
  BY <1>1 DEF TypeOK, Frame, Frames, Recorded
<1>6. stack' = Append(mid, Frame(g))
  OBVIOUS
<1> HIDE DEF top, mid
<1>7. /\ stack' \in Seq(Frames) /\ Len(stack') = n + 1
      /\ \A i \in 1..n : stack'[i] = mid[i]
      /\ stack'[n + 1] = Frame(g)
  <2> DEFINE new == Append(mid, Frame(g))
  <2>1. /\ new \in Seq(Frames) /\ Len(new) = Len(mid) + 1
        /\ \A i \in 1..Len(mid) : new[i] = mid[i]
        /\ new[Len(mid) + 1] = Frame(g)
    BY <1>4, <1>5, AppendProperties
  <2>2. stack' = new
    BY <1>6
  <2> HIDE DEF new
  <2>3. QED
    BY <2>1, <2>2, <1>4
<1>8. \A i \in 1..n : stack'[i].fn = stack[i].fn /\ stack'[i].rest \subseteq stack[i].rest
  BY <1>2, <1>3, <1>4, <1>7
<1>9. g \in text.calls[Top.fn] /\ g \notin visited
  BY <1>1, <1>2 DEF Nested, Entered
<1>10. Sound' /\ Kept' /\ NothingInvented' /\ AcyclicIsComplete'
  <2>1. NothingInvented' /\ AcyclicIsComplete'
    BY <1>1 DEF Recorded, NothingInvented, AcyclicIsComplete
  <2>2. QED
    BY <1>1, <2>1, SameText DEF Sound, Kept
<1>11. TypeOK' /\ Recorded' /\ KeysAhead'
  <2>1. todo' \in SUBSET Fns /\ rehashed' \in BOOLEAN /\ (~rehashed' => todo' = todo /\ ~rehashed)
    BY <1>1 DEF TypeOK, KeysLeft
  <2>2. TypeOK'
    BY <1>1, <1>7, <2>1 DEF TypeOK, Frames
  <2>3. Recorded' /\ KeysAhead'
    BY <1>1, <2>1 DEF Recorded, KeysAhead
  <2>4. QED
    BY <2>2, <2>3
<1>12. \A i \in 1..n : stack[i].fn \in visited /\ stack[i].fn # g
  BY <1>1, <1>9 DEF Nested
<1>13. Nested'
  <2>1. \A i \in 1..n + 1 : stack'[i].fn \in visited' /\ stack'[i].rest \subseteq text.calls[stack'[i].fn]
    <3>1. ASSUME NEW i \in 1..n
          PROVE  stack'[i].fn \in visited' /\ stack'[i].rest \subseteq text.calls[stack'[i].fn]
      BY <1>1, <1>8 DEF Nested
    <3>2. \A i \in 1..n + 1 : i \in 1..n \/ i = n + 1
      BY <1>2
    <3>3. QED
      BY <3>1, <3>2, <1>5, <1>7
  <2>2. \A i \in 1..n : g \in Reachable(stack[i].fn)
    <3>1. ASSUME NEW i \in 1..n
          PROVE  g \in Reachable(stack[i].fn)
      <4>1. stack[i].fn \in Fns
        BY <1>12, <1>1 DEF TypeOK
      <4>2. Top.fn \in Reachable(stack[i].fn)
        <5>1. CASE i = n
          BY <5>1, <1>2, <1>3, ReachesItself
        <5>2. CASE i < n
          BY <5>2, <1>1, <1>2 DEF Nested
        <5>3. QED
          BY <5>1, <5>2, <1>2
      <4>3. QED
        BY <4>1, <4>2, <1>1, <1>9, ReachesCallee
    <3>2. QED
      BY <3>1
  <2>3. ASSUME NEW i \in 1..n + 1, NEW j \in 1..n + 1, i < j
        PROVE  stack'[j].fn \in Reachable(stack'[i].fn)
    <3>1. i \in 1..n
      BY <2>3, <1>2
    <3>2. CASE j = n + 1
      BY <3>1, <3>2, <2>2, <1>5, <1>7, <1>8
    <3>3. CASE j \in 1..n
      <4>1. stack[j].fn \in Reachable(stack[i].fn)
        BY <3>1, <3>3, <2>3, <1>1 DEF Nested
      <4>2. QED
        BY <4>1, <3>1, <3>3, <1>8
    <3>4. j = n + 1 \/ j \in 1..n
      BY <1>2
    <3>5. QED
      BY <3>2, <3>3, <3>4
  <2>4. \A h : Reachable(h)' = Reachable(h)
    BY SameText
  <2>5. QED
    BY <2>1, <2>3, <2>4, <1>7 DEF Nested
<1>14. NoFunctionInsideItself'
  <2> SUFFICES ASSUME NEW i \in 1..n + 1, NEW j \in 1..n + 1, stack'[i].fn = stack'[j].fn
               PROVE  i = j
    BY <1>7 DEF NoFunctionInsideItself
  <2>1. CASE i \in 1..n /\ j \in 1..n
    BY <2>1, <1>1, <1>8 DEF NoFunctionInsideItself
  <2>2. (i = n + 1 \/ i \in 1..n) /\ (j = n + 1 \/ j \in 1..n)
    BY <1>2
  <2>3. QED
    BY <2>1, <2>2, <1>5, <1>7, <1>8, <1>12
<1>15. Flattened'
  <2> SUFFICES ASSUME Acyclic, NEW h \in visited', NEW k \in text.calls[h]
               PROVE  Pending(h, k)' \/ Copying(h, k)'
    BY SameText DEF Flattened
  <2>1. CASE h = g
    <3>1. n + 1 \in 1..Len(stack')
      BY <1>2, <1>7
    <3>2. stack'[n + 1].fn = h /\ k \in stack'[n + 1].rest
      BY <2>1, <1>5, <1>7
    <3>3. QED
      BY <3>1, <3>2 DEF Pending
  <2>2. CASE h # g /\ Pending(h, k)
    <3>1. PICK i \in 1..n : stack[i].fn = h /\ (k \in stack[i].rest \/ (i < n /\ stack[i + 1].fn = k))
      BY <2>2 DEF Pending
    <3>2. i \in 1..n + 1 /\ i + 1 \in 1..n + 1 /\ i < n + 1 /\ (i < n => i \in 1..n - 1 /\ i + 1 \in 1..n) /\ (i = n \/ i < n)
      BY <1>2
    <3>3. CASE i < n
      <4>1. i \in 1..n - 1 /\ i + 1 \in 1..n
        BY <3>2, <3>3
      <4>2. stack'[i] = stack[i] /\ stack'[i + 1].fn = stack[i + 1].fn
        BY <4>1, <3>2, <1>4, <1>7, <1>8
      <4>3. QED
        BY <3>1, <3>2, <4>2, <1>7 DEF Pending
    <3>4. CASE i = n
      <4>1. k \in stack[n].rest
        BY <3>1, <3>4, <1>2
      <4>2. k = g \/ k \in stack'[n].rest
        BY <4>1, <1>2, <1>3, <1>4, <1>7
      <4>3. QED
        BY <3>1, <3>2, <3>4, <4>2, <1>5, <1>7, <1>8 DEF Pending
    <3>5. QED
      BY <3>2, <3>3, <3>4
  <2>3. CASE Copying(h, k)
    <3>1. k # g
      BY <2>3, <1>9 DEF Copying
    <3>2. ASSUME NEW i \in 1..n + 1
          PROVE  stack'[i].fn # k
      <4>1. i = n + 1 \/ i \in 1..n
        BY <1>2
      <4>2. QED
        BY <4>1, <3>1, <2>3, <1>5, <1>7, <1>8 DEF Copying, OnStack
    <3>3. QED
      BY <3>2, <2>3, <1>7 DEF Copying, OnStack
  <2>4. QED
    BY <2>1, <2>2, <2>3, <1>1 DEF Flattened
<1>16. QED
  BY <1>10, <1>11, <1>13, <1>14, <1>15 DEF IInv

LEMMA ReturnKeeps ==
  ASSUME IInv, Return PROVE IInv'
<1> USE DEF Return
<1>1. TypeOK /\ Recorded /\ Sound /\ Kept /\ Nested /\ NoFunctionInsideItself /\ Flattened /\ KeysAhead
  BY DEF IInv
<1> DEFINE n == Len(stack)
<1>2. stack \in Seq(Frames) /\ stack # <<>> /\ n \in Nat /\ n > 0 /\ Top \in Frames /\ Top = stack[n]
  BY <1>1, BelowProperties DEF TypeOK, Frames, Top
<1>3. /\ stack' \in Seq(Frames) /\ Len(stack') = n - 1
      /\ \A i \in 1..n - 1 : stack'[i] = stack[i]
  BY <1>2, BelowProperties DEF Below
<1>4. n - 1 \in Nat /\ \A i \in 1..n - 1 : i \in 1..n /\ i # n
  BY <1>2
<1>5. NothingInvented' /\ AcyclicIsComplete' /\ Recorded' /\ KeysAhead'
  BY <1>1 DEF Recorded, NothingInvented, AcyclicIsComplete, KeysAhead
<1>6. Nested' /\ NoFunctionInsideItself'
  <2>1. \A h : Reachable(h)' = Reachable(h)
    BY SameText
  <2>2. Nested'
    BY <1>1, <1>3, <1>4, <2>1 DEF Nested
  <2>3. NoFunctionInsideItself'
    BY <1>1, <1>3, <1>4 DEF NoFunctionInsideItself
  <2>4. QED
    BY <2>2, <2>3
<1>7. n \in 1..n
  BY <1>2
<1>8. PICK f : f = Top.fn
  OBVIOUS
<1>9. f \in visited /\ visited \subseteq Fns /\ stack[n].fn = f
  BY <1>1, <1>2, <1>7, <1>8 DEF Nested, TypeOK
<1>10. \A x : OnStack(x)' => OnStack(x) /\ x # f
  <2> SUFFICES ASSUME NEW x, NEW i \in 1..n - 1, stack'[i].fn = x
               PROVE  OnStack(x) /\ x # f
    BY <1>3 DEF OnStack
  <2>1. i \in 1..n /\ i # n /\ stack[i].fn = x
    BY <1>3, <1>4
  <2>2. x # f
    BY <2>1, <1>1, <1>7, <1>9 DEF NoFunctionInsideItself
  <2>3. QED
    BY <2>1, <2>2 DEF OnStack
<1>11. ASSUME Acyclic, NEW h \in visited, NEW k \in text.calls[h], Pending(h, k)
       PROVE  Pending(h, k)' \/ (n > 1 /\ h = stack[n - 1].fn /\ k = f)
  <2>1. PICK i \in 1..n : stack[i].fn = h /\ (k \in stack[i].rest \/ (i < n /\ stack[i + 1].fn = k))
    BY <1>11 DEF Pending
  <2>2. i # n
    BY <2>1, <1>2
  <2>3. i \in 1..n - 1 /\ (i = n - 1 \/ (i < n - 1 /\ i + 1 \in 1..n - 1))
    BY <2>2, <1>2
  <2>4. CASE k \in stack[i].rest \/ i < n - 1
    <3>1. stack'[i] = stack[i] /\ Len(stack') = n - 1
      BY <2>3, <1>3
    <3>2. CASE k \in stack[i].rest
      BY <2>1, <2>3, <3>1, <3>2 DEF Pending
    <3>3. CASE i < n - 1 /\ k \notin stack[i].rest
      <4>1. stack'[i + 1] = stack[i + 1]
        BY <2>3, <3>3, <1>3
      <4>2. QED
        BY <2>1, <2>3, <3>1, <3>3, <4>1 DEF Pending
    <3>4. QED
      BY <2>4, <3>2, <3>3
  <2>5. CASE i = n - 1 /\ k \notin stack[i].rest
    BY <2>1, <2>3, <2>5, <1>2, <1>9
  <2>6. QED
    BY <2>3, <2>4, <2>5
<1>12. CASE n = 1
  <2>1. fnDepUdt' = fnDepUdt
    BY <1>12
  <2>2. TypeOK' /\ Sound' /\ Kept'
    BY <1>1, <1>3, <2>1, SameText DEF TypeOK, Sound, Kept, Frames
  <2>3. Flattened'
    <3> SUFFICES ASSUME Acyclic, NEW h \in visited, NEW k \in text.calls[h]
                 PROVE  Pending(h, k)' \/ Copying(h, k)'
      BY SameText DEF Flattened
    <3>1. CASE Pending(h, k)
      BY <3>1, <1>11, <1>12
    <3>2. CASE Copying(h, k)
      BY <3>2, <2>1, <1>10 DEF Copying
    <3>3. QED
      BY <3>1, <3>2, <1>1 DEF Flattened
  <2>4. QED
    BY <2>2, <2>3, <1>5, <1>6 DEF IInv
<1>13. CASE n # 1
  <2> DEFINE caller == stack[n - 1].fn
  <2>1. n - 1 \in 1..n /\ n - 1 \in 1..n - 1 /\ n - 1 < n /\ n \in 1..n /\ n > 1
    <3>1. \A m \in Nat : m > 0 /\ m # 1 => m - 1 \in 1..m /\ m - 1 \in 1..m - 1 /\ m - 1 < m /\ m \in 1..m /\ m > 1
      OBVIOUS
    <3>2. QED
      BY <3>1, <1>2, <1>13
  <2>2. caller \in visited /\ caller \in Fns /\ caller # f
    BY <2>1, <1>1, <1>2, <1>9 DEF Nested, NoFunctionInsideItself
  <2>3. fnDepUdt' = Copied(caller, f)
    BY <1>13, <1>8
  <2>4. /\ fnDepUdt' \in [Fns -> SUBSET Types]
        /\ fnDepUdt'[caller] = fnDepUdt[caller] \cup fnDepUdt[f]
        /\ \A h \in Fns \ {caller} : fnDepUdt'[h] = fnDepUdt[h]
    BY <2>2, <2>3, <1>1, <1>9 DEF Copied, TypeOK
  <2>5. Sound' /\ Kept'
    <3>1. f \in Reachable(caller)
      BY <2>1, <1>1, <1>9 DEF Nested
    <3>2. UsedBy(f) \subseteq UsedBy(caller)
      BY <3>1, <2>2, <1>1, ReachesReachable
    <3>3. \A h \in Fns : fnDepUdt'[h] \subseteq UsedBy(h)
      BY <3>2, <2>2, <2>4, <1>1, <1>9 DEF Sound
    <3>4. QED
      BY <3>3, <2>2, <2>4, <1>1, SameText DEF Sound, Kept
  <2>6. TypeOK'
    BY <1>1, <1>3, <2>4 DEF TypeOK, Frames
  <2>7. Flattened'
    <3> SUFFICES ASSUME Acyclic, NEW h \in visited, NEW k \in text.calls[h]
                 PROVE  Pending(h, k)' \/ Copying(h, k)'
      BY SameText DEF Flattened
    <3>1. h \in Fns /\ k \in Fns
      BY <1>1 DEF TypeOK
    <3>2. CASE h = caller /\ k = f
      BY <3>2, <2>2, <2>4, <1>10, <1>9 DEF Copying
    <3>3. CASE Pending(h, k) /\ ~(h = caller /\ k = f)
      BY <3>3, <1>11
    <3>4. CASE Copying(h, k)
      <4>1. k # caller
        BY <3>4, <2>1 DEF Copying, OnStack
      <4>2. fnDepUdt'[k] \subseteq fnDepUdt'[h]
        BY <3>1, <3>4, <4>1, <2>2, <2>4 DEF Copying
      <4>3. QED
        BY <3>4, <4>2, <1>10 DEF Copying
    <3>5. QED
      BY <3>2, <3>3, <3>4, <1>1 DEF Flattened
  <2>8. QED
    BY <2>5, <2>6, <2>7, <1>5, <1>6 DEF IInv
<1>14. QED
  BY <1>12, <1>13

-----------------------------------------------------------------------------
(* In every reachable state the maps hold what the text implies and no     *)
(* more, and the calls under way lead from one function to the next.       *)
THEOREM Invariant == Spec => []IInv
<1>1. Init => IInv
  BY Initially
<1>2. IInv /\ [Next]_vars => IInv'
  <2> SUFFICES ASSUME IInv, [Next]_vars PROVE IInv'
    OBVIOUS
  <2>1. CASE UNCHANGED vars
    <3> USE <2>1 DEF vars
    <3>1. TypeOK' /\ Recorded' /\ NoFunctionInsideItself'
      BY DEF IInv, TypeOK, Recorded, NoFunctionInsideItself
    <3>2. Sound' /\ Kept' /\ Nested' /\ KeysAhead' /\ NothingInvented' /\ AcyclicIsComplete'
      BY SameText DEF IInv, Sound, Kept, Nested, KeysAhead, NothingInvented, AcyclicIsComplete
    <3>3. \A f, g : (Pending(f, g)' <=> Pending(f, g)) /\ (Copying(f, g)' <=> Copying(f, g))
      BY DEF Pending, Copying, OnStack
    <3>4. Flattened'
      BY <3>3, SameText DEF IInv, Flattened
    <3>5. QED
      BY <3>1, <3>2, <3>4 DEF IInv
  <2>2. CASE Next
    BY <2>2, AddFnUsesTypeKeeps, AddFnUsesFnKeeps, AddUdtUsesKeeps, EndUnitEarlyKeeps, WriteOutToDbKeeps,
       FlattenNextKeeps, CopyVisitedKeeps, DescendKeeps, ReturnKeeps, EndUnitKeeps DEF Next
  <2>3. QED
    BY <2>1, <2>2
<1>3. QED
  BY <1>1, <1>2, PTL DEF Spec

(* Every variable of the handler keeps its type, the recursion of the      *)
(* flattening over partly rewritten tables included.                       *)
THEOREM TypeCorrect == Spec => []TypeOK
<1>1. IInv => TypeOK
  BY DEF IInv
<1>2. QED
  BY <1>1, Invariant, PTL

(* For every set of functions and types, and every order the maps are      *)
(* walked through: what is written to the database is implied.             *)
THEOREM WrittenIsImplied == Spec => []NothingInvented
<1>1. IInv => NothingInvented
  BY DEF IInv
<1>2. QED
  BY <1>1, Invariant, PTL

(* The recursion is never deeper than there are functions: none is in the  *)
(* stack twice.                                                            *)
THEOREM RecursionIsFlat == Spec => []NoFunctionInsideItself
<1>1. IInv => NoFunctionInsideItself
  BY DEF IInv
<1>2. QED
  BY <1>1, Invariant, PTL

(* Without circular calls, and unless a table grows under the loop, the    *)
(* classes get all they use.                                               *)
THEOREM CompleteWithoutCircles == Spec => []AcyclicIsComplete
<1>1. IInv => AcyclicIsComplete
  BY DEF IInv
<1>2. QED
  BY <1>1, Invariant, PTL
=============================================================================
