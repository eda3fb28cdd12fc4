CONSTANTS
  RetryInterval = 2
  ClockMod = 5
  PollGap = 2
  MaxCalls = 1
SPECIFICATION Spec
INVARIANT TypeOK
INVARIANT RetrySpacing
INVARIANT RetryWithinInterval
INVARIANT ForcedAttemptIsDue
INVARIANT EdgeIsReal
