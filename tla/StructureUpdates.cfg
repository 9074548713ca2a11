SPECIFICATION FairSpec
CONSTANTS
  k1 = k1  k2 = k2  k3 = k3  l1 = l1  t1 = t1
  Keys = {k1, k2, k3}
  Leaves = {l1}
  NoKey = NoKey
  Types = {t1}
  TypeOf <- OneType
  ForeignKeys = TRUE
  SelfContained = TRUE
  KeepsRoots = TRUE
  Startup <- StartPair
  Overwrites = TRUE
  MaxUuid = 2
  MaxCrashes = 1
INVARIANT EveryNodeIsFound
PROPERTY ImplementsVirtualStructure
PROPERTY PrepopulationRecovers
