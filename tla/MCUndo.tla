------------------------------ MODULE MCUndo ------------------------------
(* Instances of Undo.                                                        *)
EXTENDS Undo, TLC

CONSTANTS a, b

\* Two packages, a component in each.  The one component uses the other, and
\* the tool has connected their packages; nothing yet leads the other way.
OneWay ==
  [nodes |-> 1 :> [kind |-> "package", prefix |-> None, name |-> a, row |-> a, home |-> None]
          @@ 2 :> [kind |-> "package", prefix |-> None, name |-> b, row |-> b, home |-> None]
          @@ 3 :> [kind |-> "component", prefix |-> a, name |-> a, row |-> a, home |-> 1]
          @@ 4 :> [kind |-> "component", prefix |-> b, name |-> a, row |-> a, home |-> 2],
   concrete |-> {<<1, 2>>, <<3, 4>>}, allowed |-> {<<1, 2>>}]
\* A package with a component, to which packages can be added.
Small ==
  [nodes |-> 1 :> [kind |-> "package", prefix |-> None, name |-> a, row |-> a, home |-> None]
          @@ 2 :> [kind |-> "component", prefix |-> a, name |-> a, row |-> a, home |-> 1],
   concrete |-> {}, allowed |-> {}]
TwoProjects == {OneWay, Small}
ASSUME ProjectsAreWellKept == \A g \in TwoProjects : WellKept(g)
=============================================================================
