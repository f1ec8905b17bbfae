--------------------------- MODULE MCObjectStore ---------------------------
(* Instances of ObjectStore: two components of a header and a source each,  *)
(* in two packages of which one belongs to a group.                         *)
EXTENDS ObjectStore, TLC

CONSTANTS aCpp, bCpp, aH, bH, compA, compB, packA, packB, group, space, typeA, funA

InComponents == aCpp :> compA @@ aH :> compA @@ bCpp :> compB @@ bH :> compB
InPackages   == compA :> packA @@ compB :> packB
InGroups     == packA :> NoGroup @@ packB :> group

(* A source includes its own header, the other header or both; the headers  *)
(* may include each other.                                                  *)
Texts == aCpp :> {{aH}, {aH, bH}} @@ aH :> {{}, {bH}} @@ bCpp :> {{bH}} @@ bH :> {{}, {aH}}
AllCode ==
  UNION {{c \in [F -> SUBSET Headers] : \A f \in F : c[f] \in Texts[f] /\ c[f] \subseteq F} :
           F \in SUBSET Files}

(* Component A alone with a namespace that holds a function, and a class    *)
(* outside of it.                                                           *)
OpenSpaces   == aCpp :> {space} @@ aH :> {space} @@ bCpp :> {} @@ bH :> {}
SpacesOf     == funA :> space @@ typeA :> NoOuter
OuterOf      == space :> NoOuter @@ typeA :> NoOuter
DefineTypes  == aCpp :> {typeA} @@ aH :> {typeA} @@ bCpp :> {} @@ bH :> {}
DefineFuns   == aCpp :> {funA} @@ aH :> {} @@ bCpp :> {} @@ bH :> {}
=============================================================================
