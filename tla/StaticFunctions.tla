-------------------------- MODULE StaticFunctions --------------------------
(***************************************************************************)
(* What a class uses through functions of file scope:                      *)
(* lvtclp::StaticFnHandler.  Such functions are not kept in the database,  *)
(* so the visitor of a translation unit records who calls them and what    *)
(* they use, and at the end of the unit writes to the database that a      *)
(* class uses whatever the functions it calls use, directly or through     *)
(* other functions.                                                        *)
(*                                                                         *)
(* The maps of the handler have their names from the code.  flattenFn is   *)
(* recursive: `stack' holds its calls, innermost last, each with the       *)
(* callees its loop has not come to.  The maps and sets are unordered, so  *)
(* every loop takes their elements in any order.  The loop of writeOutToDb *)
(* runs over the keys of fnDepFn while flattenFn adds keys to it: if the   *)
(* hash table grows on that occasion, the loop goes on in a table that was *)
(* put together anew and may miss any of the keys it had before it.        *)
(***************************************************************************)
EXTENDS Sequences, Naturals

CONSTANTS
  Fns,        \* functions of file scope
  Types,      \* types of the database
  Classes,    \* those of them whose methods the translation unit defines
  MayRehash   \* whether a table may grow while it is walked through

ASSUME ClassesAreTypes == Classes \subseteq Types
ASSUME RehashIsBoolean == MayRehash \in BOOLEAN

VARIABLES
  phase,      \* "record", "flatten" or "done"
  fnDepFn,    \* function -> functions it calls
  fnDepUdt,   \* function -> types it uses
  udtDepFn,   \* class -> functions its methods call
  visited,    \* functions flattenFn was called with
  stack,      \* calls of flattenFn under way
  todo,       \* keys of fnDepFn the loop of writeOutToDb still comes to
  rehashed,   \* a table grew under the loop
  usesInImpl, \* the relations written to the database
  text        \* what the visitor told the handler; no variable of the code

vars == <<phase, fnDepFn, fnDepUdt, udtDepFn, visited, stack, todo, rehashed, usesInImpl, text>>

NoCalls == [f \in Fns |-> {}]
NoUses  == [f \in Fns |-> {}]
NoUsers == [c \in Classes |-> {}]

Init ==
  /\ phase = "record"
  /\ fnDepFn = NoCalls /\ fnDepUdt = NoUses /\ udtDepFn = NoUsers
  /\ visited = {} /\ stack = <<>> /\ todo = {} /\ rehashed = FALSE
  /\ usesInImpl = {}
  /\ text = [calls |-> NoCalls, uses |-> NoUses, users |-> NoUsers]

-----------------------------------------------------------------------------
(* The visitor.                                                            *)

Recording == phase = "record" /\ UNCHANGED <<phase, visited, stack, todo, rehashed, usesInImpl>>

AddFnUsesType(f, t) ==
  /\ Recording
  /\ fnDepUdt' = [fnDepUdt EXCEPT ![f] = @ \cup {t}]
  /\ text' = [text EXCEPT !.uses[f] = @ \cup {t}]
  /\ UNCHANGED <<fnDepFn, udtDepFn>>

AddFnUsesFn(f, g) ==
  /\ Recording
  /\ f # g
  /\ fnDepFn' = [fnDepFn EXCEPT ![f] = @ \cup {g}]
  /\ text' = [text EXCEPT !.calls[f] = @ \cup {g}]
  /\ UNCHANGED <<fnDepUdt, udtDepFn>>

AddUdtUses(c, f) ==
  /\ Recording
  /\ udtDepFn' = [udtDepFn EXCEPT ![c] = @ \cup {f}]
  /\ text' = [text EXCEPT !.users[c] = @ \cup {f}]
  /\ UNCHANGED <<fnDepFn, fnDepUdt>>

-----------------------------------------------------------------------------
(* The end of the translation unit.                                        *)

NothingToWrite == udtDepFn = NoUsers \/ fnDepUdt = NoUses

Reset ==
  /\ phase' = "done"
  /\ fnDepFn' = NoCalls /\ fnDepUdt' = NoUses /\ udtDepFn' = NoUsers
  /\ visited' = {}

EndUnitEarly ==
  /\ phase = "record"
  /\ NothingToWrite
  /\ Reset
  /\ UNCHANGED <<stack, todo, rehashed, usesInImpl, text>>

WriteOutToDb ==
  /\ phase = "record"
  /\ ~NothingToWrite
  /\ phase' = "flatten"
  /\ todo' = {f \in Fns : fnDepFn[f] # {}}
  /\ UNCHANGED <<fnDepFn, fnDepUdt, udtDepFn, visited, stack, rehashed, usesInImpl, text>>

(* Mutation: no function counts as visited.                                *)
NeverEntered(f) == FALSE

(* The call flattenFn(f): at once back if f was visited.                   *)
Entered(f) == f \in visited

Frame(f) == [fn |-> f, rest |-> fnDepFn[f]]

(* Mutation: the loop over the keys begins again.                          *)
LoopBeginsAgain(f) ==
  /\ phase = "flatten" /\ stack = <<>>
  /\ f \in todo
  /\ visited' = visited \cup {f}
  /\ stack' = IF Entered(f) THEN stack ELSE <<Frame(f)>>
  /\ UNCHANGED <<phase, fnDepFn, fnDepUdt, udtDepFn, todo, rehashed, usesInImpl, text>>

FlattenNext(f) ==
  /\ phase = "flatten"
  /\ stack = <<>>
  /\ f \in todo
  /\ todo' = todo \ {f}
  /\ IF Entered(f)
       THEN UNCHANGED <<visited, stack>>
       ELSE /\ visited' = visited \cup {f}
            /\ stack' = <<Frame(f)>>
  /\ UNCHANGED <<phase, fnDepFn, fnDepUdt, udtDepFn, rehashed, usesInImpl, text>>

Top == stack[Len(stack)]
Below == SubSeq(stack, 1, Len(stack) - 1)

(* Mutations: the callee gets the types; the functions are copied.         *)
CopiedBack(f, g) == [fnDepUdt EXCEPT ![g] = @ \cup fnDepUdt[f]]
CopiedFns(f, g) == [fnDepUdt EXCEPT ![f] = @ \cup fnDepFn[g]]

(* f gets the types of its callee g.                                       *)
Copied(f, g) == [fnDepUdt EXCEPT ![f] = @ \cup fnDepUdt[g]]

(* Mutation: a callee that was visited is passed over.                     *)
PassOver(g) ==
  /\ phase = "flatten" /\ stack # <<>>
  /\ g \in Top.rest
  /\ Entered(g)
  /\ stack' = Append(Below, [Top EXCEPT !.rest = @ \ {g}])
  /\ UNCHANGED <<phase, fnDepFn, fnDepUdt, udtDepFn, visited, todo, rehashed, usesInImpl, text>>

(* The loop of the innermost call comes to a callee that was visited.      *)
CopyVisited(g) ==
  /\ phase = "flatten" /\ stack # <<>>
  /\ g \in Top.rest
  /\ Entered(g)
  /\ stack' = Append(Below, [Top EXCEPT !.rest = @ \ {g}])
  /\ fnDepUdt' = Copied(Top.fn, g)
  /\ UNCHANGED <<phase, fnDepFn, udtDepFn, visited, todo, rehashed, usesInImpl, text>>

(* fnDepFn[g] makes the key g if there is none, and the table may grow:    *)
(* the loop over the keys then misses any of those it had before it.       *)
KeysLeft(g) ==
  \/ UNCHANGED <<todo, rehashed>>
  \/ /\ MayRehash /\ fnDepFn[g] = {}
     /\ todo' \in SUBSET todo
     /\ rehashed' = TRUE

(* ... or to one that was not.                                             *)
Descend(g) ==
  /\ phase = "flatten" /\ stack # <<>>
  /\ g \in Top.rest
  /\ ~Entered(g)
  /\ visited' = visited \cup {g}
  /\ stack' = Append(Append(Below, [Top EXCEPT !.rest = @ \ {g}]), Frame(g))
  /\ KeysLeft(g)
  /\ UNCHANGED <<phase, fnDepFn, fnDepUdt, udtDepFn, usesInImpl, text>>

(* The innermost call returns: its caller, if any, copies the types.       *)
Return ==
  /\ phase = "flatten" /\ stack # <<>>
  /\ Top.rest = {}
  /\ stack' = Below
  /\ fnDepUdt' = IF Len(stack) = 1 THEN fnDepUdt ELSE Copied(stack[Len(stack) - 1].fn, Top.fn)
  /\ UNCHANGED <<phase, fnDepFn, udtDepFn, visited, todo, rehashed, usesInImpl, text>>

Relations == {p \in Classes \X Types : p[1] # p[2] /\ \E f \in udtDepFn[p[1]] : p[2] \in fnDepUdt[f]}

EndUnit ==
  /\ phase = "flatten" /\ stack = <<>> /\ todo = {}
  /\ usesInImpl' = usesInImpl \cup Relations
  /\ Reset
  /\ UNCHANGED <<stack, todo, rehashed, text>>

Next ==
  \/ \E f \in Fns, t \in Types : AddFnUsesType(f, t)
  \/ \E f \in Fns, g \in Fns : AddFnUsesFn(f, g)
  \/ \E c \in Classes, f \in Fns : AddUdtUses(c, f)
  \/ EndUnitEarly
  \/ WriteOutToDb
  \/ \E f \in Fns : FlattenNext(f)
  \/ \E g \in Fns : CopyVisited(g)
  \/ \E g \in Fns : Descend(g)
  \/ Return
  \/ EndUnit

Spec == Init /\ [][Next]_vars

(* One thread runs the handler of a unit: once it walks its maps, it goes  *)
(* on.                                                                     *)
FairSpec == Spec /\ WF_vars(phase = "flatten" /\ Next)

-----------------------------------------------------------------------------
(* What the text of the translation unit implies.                          *)

Closed(S) == \A f \in S : text.calls[f] \subseteq S

Reachable(f) == {g \in Fns : \A S \in SUBSET Fns : f \in S /\ Closed(S) => g \in S}

UsedBy(f) == UNION {text.uses[g] : g \in Reachable(f)}

Implied == {p \in Classes \X Types : p[1] # p[2] /\ \E f \in text.users[p[1]] : p[2] \in UsedBy(f)}

Acyclic == \A f \in Fns : \A g \in text.calls[f] : f \notin Reachable(g)

-----------------------------------------------------------------------------
TypeOK ==
  /\ phase \in {"record", "flatten", "done"}
  /\ fnDepFn \in [Fns -> SUBSET Fns]
  /\ fnDepUdt \in [Fns -> SUBSET Types]
  /\ udtDepFn \in [Classes -> SUBSET Fns]
  /\ visited \in SUBSET Fns
  /\ stack \in Seq([fn : Fns, rest : SUBSET Fns])
  /\ todo \in SUBSET Fns
  /\ rehashed \in BOOLEAN
  /\ usesInImpl \in SUBSET (Classes \X Types)
  /\ text \in [calls : [Fns -> SUBSET Fns], uses : [Fns -> SUBSET Types], users : [Classes -> SUBSET Fns]]

(* No class is said to use a type that none of the functions it calls      *)
(* reaches, in whatever order the maps are walked through.                 *)
NothingInvented == usesInImpl \subseteq Implied

(* "don't recurse forever for circular function dependencies": no function *)
(* is flattened inside its own flattening.                                 *)
NoFunctionInsideItself ==
  \A i, j \in 1..Len(stack) : stack[i].fn = stack[j].fn => i = j

(* Where no function calls itself through others, and no table grows under *)
(* the loop, every relation the unit implies is written.                   *)
AcyclicIsComplete == phase = "done" /\ Acyclic /\ ~rehashed => Implied \subseteq usesInImpl

(* The walk over the maps ends, also when calls go round in circles.       *)
FlatteningEnds == (phase = "flatten") ~> (phase = "done")
=============================================================================
