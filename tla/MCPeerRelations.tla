-------------------------- MODULE MCPeerRelations --------------------------
(* Instances of PeerRelations: components A and C in a package of their    *)
(* own, B in a package of a group; A and B include each other's headers.   *)
EXTENDS PeerRelations, TLC

CONSTANTS
  aCpp, bCpp, cCpp, aH, bH, compA, compB, compC, packA, packB, group, one, two, three

InComponents == aCpp :> compA @@ aH :> compA @@ bCpp :> compB @@ bH :> compB @@ cCpp :> compC
InPackages   == compA :> packA @@ compC :> packA @@ compB :> packB
InGroups     == packA :> NoGroup @@ packB :> group @@ group :> NoGroup

InMemory ==
  bH :> 1 @@ aCpp :> 2 @@ compB :> 3 @@ aH :> 4 @@ packB :> 5 @@ compA :> 6 @@ group :> 7
  @@ packA :> 8 @@ bCpp :> 9 @@ cCpp :> 10 @@ compC :> 11

Sources == [t \in Threads |-> CASE t = one -> aCpp [] t = two -> bCpp [] t = three -> cCpp]
Texts ==
  [t \in Threads |->
     CASE t = one -> <<<<aCpp, aH>>, <<aH, bH>>, <<aCpp, bH>>>>
       [] t = two -> <<<<bCpp, aH>>>>
       [] t = three -> <<<<cCpp, bH>>>>]
=============================================================================
