SPECIFICATION Spec
CONSTANTS
  aCpp = aCpp
  bCpp = bCpp
  aH = aH
  bH = bH
  compA = compA
  compB = compB
  packA = packA
  packB = packB
  group = group
  space = space
  typeA = typeA
  funA = funA
  NoGroup = NoGroup
  NoOuter = NoOuter
  Sources = {aCpp, bCpp}
  Headers = {aH, bH}
  CodeBases <- AllCode
  CompOf <- InComponents
  PkgOf <- InPackages
  GroupOf <- InGroups
  SpaceOf <- SpacesOf
  Outer <- OuterOf
  Spaces <- OpenSpaces
  Types <- DefineTypes
  Functions <- DefineFuns
  Builds = {TRUE, FALSE}
  MaxUpdates = 2
INVARIANTS
  TypeOK
  CascadeUsesNoFreed
  NeverReentered
  SurvivorsIncludeNoRemoved
  UpdateIsComplete
  OwnersFollowFiles
CHECK_DEADLOCK FALSE
