SPECIFICATION RequestsSpec
CONSTANTS
  h = h  Consumer = consumer
  Http = {h}
  Callers = {h, consumer}
  AccessLife = 3
  FreshFor = 2
  RefreshLife = 5
  RefreshMargin = 1
  Timeout = 2
  Messages = 2
  MaxEnds = 1
PROPERTY HandedOutTokensAreValid
PROPERTY EveryExecutionEnds
