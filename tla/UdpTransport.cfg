CONSTANTS
  Peers <- MCPeers
  Datagrams <- MCDatagrams
  Lengths = {1, 2, 4}
  DiscardSize = 2
  MaxWaiting = 2
SPECIFICATION FairSpec
INVARIANT TypeOK
INVARIANT RemainingIsTrue
PROPERTY CallsEnd
PROPERTY ImplementsChannel
