SPECIFICATION FairSpec
CONSTANTS
  MaxMessages = 2
  MaxFaults = 2
  Configs <- AllConfigs
INVARIANT AtMostOnce
INVARIANT CommittedWereHandled
PROPERTY EveryMessageArrives
\* With every message consumed the loop waits for more: no step is enabled.
CHECK_DEADLOCK FALSE
