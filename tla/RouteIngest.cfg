SPECIFICATION Spec
CONSTANTS
  d = d
  h = h
  Short = Short
  Modulus = 32
  MaxFed = 3
  Segments <- MCSegments
  NanosPerMilli = 2
  NanosFrom = 2
  Minute = 3
  ZeroTime <- MCZeroTime
  TypeOf <- MCTypeOf
  Base <- MCBase
  Trees <- MCTrees
CHECK_DEADLOCK FALSE
INVARIANTS SegmentArraysAligned SegmentTimesExact StartIsFirstSegments EndIsLastFinalSegments ListedTimesExact PlaylistMatchesListing
