CONSTANTS
  Datagram = FALSE
  FrameTypes = {"3E", "4E"}
  PrefixUnits <- TwoPrefixes
  Kinds = {"Read", "Labels", "RemoteReset"}
  RequestUnits = {2}
  BodyUnits = {1, 2}
  BodyClasses = {"fits", "endCode", "misfit", "overflow"}
  Faults = {"subheader", "length"}
  RxCapacity = 4
  Timeouts = {2}
  SerialMod = 2
  ByteMod = 1
  ClockMod = 4
  MaxRequests = 2
  MaxInbound = 1
  OverlappingCalls = FALSE
SPECIFICATION Spec
INVARIANT TypeOK
INVARIANT WireIsOnePrefix
INVARIANT RequestCountExact
PROPERTY OnlyOwnResponseDecides
PROPERTY ImplementsExchange
