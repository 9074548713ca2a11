SPECIFICATION Spec
CONSTANTS
  w1 = w1  w2 = w2  w3 = w3  w4 = w4
  c1 = c1  c2 = c2
  o1 = o1  o2 = o2  o3 = o3  o4 = o4
  Workflows = {w1, w2, w3, w4}
  Components = {}
  OpIds = {o1, o2, o3, o4}
  Placements <- RingPlacements
  ImportEdges <- NoImports
  PostStates = {"DRAFT"}
  ImportStates = {"DRAFT"}
  PutStates = {"DRAFT"}
  OverwriteFlags = {FALSE}
  IgnoreStateFlags = {FALSE}
  StaleClients = FALSE
  MaxDepth = 5
INVARIANTS
  ContentIsAcyclic
