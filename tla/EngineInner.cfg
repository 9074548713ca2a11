SPECIFICATION FairSpec
CONSTANTS
  root = root  v = v  a = a  b = b  p = p
  Root = root
  Operators = {a, b, p}
  SubWorkflows = {v}
  Parent <- InnerParent
  PlotOnly = {b}
  MayLackInput = {a}
  RunPlots = FALSE
  MaxStack = 6
INVARIANT OutcomeIsTrue
INVARIANT LinkCheckSuffices
PROPERTY RunsOnceAfterInputs
PROPERTY Ends
\* An execution that has ended stays as it is.
CHECK_DEADLOCK FALSE
