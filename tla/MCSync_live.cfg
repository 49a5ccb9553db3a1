\* Two peers, reliable FIFO channels, no restarts, blooms that always report hash 1; the peers may stop once both are silent.
CONSTANTS
  Peer = {"p1", "p2"}
  Actor = {1, 2}
  ActorOf <- TwoPeers
  Hash = {1, 2}
  Key = {"k"}
  Mutation <- MutPutOne
  MaxQueue = 4
  MaxLog = 3
  MaxChan = 2
  FalsePositive = {1}
  Lossy = FALSE
  Restarts = FALSE
SPECIFICATION Spec
PROPERTY
  ExchangeSpec
CHECK_DEADLOCK FALSE
