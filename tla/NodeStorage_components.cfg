SPECIFICATION Spec
CONSTANTS
  groupA = groupA
  groupB = groupB
  packA = packA
  packB = packB
  compA = compA
  compB = compB
  Packages = {groupA, packA, packB}
  Components = {compA, compB}
  Places <- OneGroup
  Standalones = {}
  Types = {"concrete"}
  NoParent = NoParent
  Unloaded = Unloaded
SYMMETRY Symmetry
INVARIANTS
  TypeOK
  CachesAgree
PROPERTIES
  Implements
