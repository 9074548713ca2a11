SPECIFICATION FairSpec
CONSTANTS
  c1 = c1  c2 = c2  w1 = w1  w2 = w2
  Components = {c1, c2}
  Workflows = {w1, w2}
  GroupOf <- Groups
  ReleasedAt <- Timestamps
  Orders <- BothWays
  WithImports = TRUE
  Options <- Requests
INVARIANT SelectionsAreComplete
INVARIANT StoreIsClosed
INVARIANT DeletionIsNotRefused
PROPERTY RepeatedImportsComplete
