SPECIFICATION Spec
CONSTANTS
  MaxTime = 6
  Ranges <- SmallRanges
  Frequencies = {2, 3}
  Factors = {1, 2}
  MinPoints = 2
  Externals <- SmallExternals
CHECK_DEADLOCK FALSE
INVARIANT ReportedIsWhatWasFound
INVARIANT ReplacementCompletesRhythm
