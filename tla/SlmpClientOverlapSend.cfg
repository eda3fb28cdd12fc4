CONSTANTS
  Datagram = FALSE
  FrameTypes = {"4E"}
  PrefixUnits <- OnePrefix
  Kinds = {"Read"}
  RequestUnits = {2}
  BodyUnits = {1, 2}
  BodyClasses = {"fits", "endCode", "misfit", "overflow"}
  Faults = {"subheader", "length"}
  RxCapacity = 4
  Timeouts = {2}
  SerialMod = 2
  ByteMod = 1
  ClockMod = 4
  MaxRequests = 2
  MaxInbound = 1
  OverlappingCalls = TRUE
SPECIFICATION Spec
INVARIANT WireIsOnePrefix
