SPECIFICATION Spec
CONSTANTS
  w1 = w1  w2 = w2  w3 = w3  w4 = w4
  c1 = c1  c2 = c2
  o1 = o1  o2 = o2  o3 = o3  o4 = o4
  Workflows = {w1, w2, w3}
  Components = {c1}
  OpIds = {o1, o2, o3, o4}
  Placements <- ChainPlacements
  ImportEdges <- NoImports
  PostStates = {"DRAFT"}
  ImportStates = {"DRAFT", "RELEASED", "DISABLED"}
  PutStates = {"DRAFT", "RELEASED", "DISABLED"}
  OverwriteFlags = {FALSE}
  IgnoreStateFlags = {FALSE}
  StaleClients = TRUE
  MaxDepth = 3
INVARIANTS
  NoDraftOperatorOutsideDrafts
  UndeprecatedReleasedIsExecutable
  OperatorTargetsExist
PROPERTIES
  ImplementsLifecycle
