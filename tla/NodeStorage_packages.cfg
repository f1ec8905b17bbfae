SPECIFICATION Spec
CONSTANTS
  groupA = groupA
  groupB = groupB
  packA = packA
  packB = packB
  compA = compA
  compB = compB
  Packages = {groupA, groupB, packA, packB}
  Components = {}
  Places <- TwoGroups
  Standalones = {}
  Types = {"concrete", "allowed"}
  NoParent = NoParent
  Unloaded = Unloaded
SYMMETRY Symmetry
INVARIANTS
  CachesAgree
PROPERTIES
  Implements
