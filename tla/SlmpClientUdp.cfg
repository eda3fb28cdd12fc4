CONSTANTS
  Datagram = TRUE
  FrameTypes = {"4E"}
  PrefixUnits <- OnePrefix
  Kinds = {"Read", "RemoteReset"}
  RequestUnits = {2}
  BodyUnits = {1, 2}
  BodyClasses = {"fits", "misfit"}
  Faults = {"truncated", "trailing"}
  RxCapacity = 3
  Timeouts = {2}
  SerialMod = 2
  ByteMod = 1
  ClockMod = 4
  MaxRequests = 2
  MaxInbound = 1
  OverlappingCalls = FALSE
SPECIFICATION Spec
INVARIANT FramesInStep
PROPERTY ImplementsExchange
