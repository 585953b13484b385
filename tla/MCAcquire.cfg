SPECIFICATION AcquireSpec
CONSTANTS
  Total = 5
  Connections = 4
  Attempts = 2
  RangesOffered = {TRUE, FALSE}
  DigestKnown = TRUE
  MaxInvocations = 3
INVARIANT AssemblyIsWhole
PROPERTIES CompletedSegmentsSurvive InvocationEnds
CHECK_DEADLOCK FALSE
