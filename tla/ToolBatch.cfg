\* Two files, nine calls, three calls in all, slices of two lines.
CONSTANTS
  a = a
  b = b
  Paths <- ThePaths
  Calls <- TheCalls
  MaxParallel = 3
  ChunkLines = 2
  WindowSize = 4
  MaxCalls = 3
  MayCancel = TRUE
SPECIFICATION Spec
INVARIANTS CallsSeeTheirOrder AffectedIsWhatChanged RefusedReadsAskNothingNew
CHECK_DEADLOCK FALSE
