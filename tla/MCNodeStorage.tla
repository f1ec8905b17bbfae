--------------------------- MODULE MCNodeStorage ---------------------------
(* Instances of NodeStorage.  TwoGroups: two package groups with a package  *)
(* each, the ground for allowed dependencies and for what a group inherits  *)
(* from its packages.  OneGroup: a group with two packages, and two         *)
(* components that can be moved from the one to the other.                  *)
EXTENDS NodeStorage, TLC

CONSTANTS groupA, groupB, packA, packB, compA, compB

TwoGroups ==
  groupA :> {NoParent} @@ groupB :> {NoParent} @@ packA :> {groupA} @@ packB :> {groupB}
OneGroup ==
  groupA :> {NoParent} @@ packA :> {groupA} @@ packB :> {groupA}
  @@ compA :> {packA, packB} @@ compB :> {packA, packB}

(* What the user may put in the same places is interchangeable.             *)
Symmetry ==
  {f \in Permutations(Entities) :
     \A e, p \in Entities : /\ e \in Packages <=> f[e] \in Packages
                            /\ e \in Standalones <=> f[e] \in Standalones
                            /\ p \in Places[e] <=> f[p] \in Places[f[e]]}
=============================================================================
