SPECIFICATION FairSpec
CONSTANTS
  aCpp = aCpp
  bCpp = bCpp
  cCpp = cCpp
  aH = aH
  bH = bH
  compA = compA
  compB = compB
  compC = compC
  packA = packA
  packB = packB
  group = group
  one = one
  two = two
  three = three
  Threads = {one, two, three}
  Files = {aCpp, bCpp, cCpp, aH, bH}
  Components = {compA, compB, compC}
  Packages = {packA, packB, group}
  Known = {aCpp, bCpp, cCpp}
  Unit <- Sources
  Directives <- Texts
  CompOf <- InComponents
  PkgOf <- InPackages
  GroupOf <- InGroups
  NoGroup = NoGroup
  Address <- InMemory
  MemDb = MemDb
  NoThread = NoThread
INVARIANTS
  TypeOK
  Mirrored
  FoundIsListed
  LocksInOrder
  OncePerThread
  SomeThreadGoesOn
PROPERTIES
  Implements
