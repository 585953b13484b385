SPECIFICATION AcquireSpec
CONSTANTS
  Total = 3
  Connections = 2
  Attempts = 1
  RangesOffered = {TRUE}
  DigestKnown = TRUE
  MaxInvocations = 2
INVARIANT ResumesAfterInterruption
CHECK_DEADLOCK FALSE
