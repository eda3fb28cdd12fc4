CONSTANTS
  Datagram = FALSE
  FrameTypes = {"3E"}
  PrefixUnits <- OnePrefix
  Kinds = {"Read"}
  RequestUnits = {2}
  BodyUnits = {1, 2}
  BodyClasses = {"fits", "misfit"}
  Faults = {"subheader", "length"}
  RxCapacity = 3
  Timeouts = {1, 2}
  SerialMod = 2
  ByteMod = 3
  ClockMod = 3
  MaxRequests = 2
  MaxInbound = 1
  OverlappingCalls = TRUE
SPECIFICATION FairSpec
INVARIANT FramesInStep
PROPERTY TrafficCountsWholeFrames
PROPERTY RequestEnds
