SPECIFICATION Spec
CONSTANTS
  a = a  b = b  w = w
  Components = {a, b}
  Workflows = {w}
  Contents <- Editions
  Caching = TRUE
  Deprecatable = {w}
INVARIANT NodesRunFreshCode
INVARIANT ReleasedExecutionsSucceed
INVARIANT ReleasedRunsReleased
PROPERTY ExecutionsEnd
