\* Two peers over a transport that may lose messages, with sync state restarts and blooms that always report hash 1.
CONSTANTS
  Peer = {"p1", "p2"}
  Actor = {1, 2}
  ActorOf <- TwoPeers
  Hash = {1, 2}
  Key = {"k"}
  Mutation <- MutPutOne
  MaxQueue = 4
  MaxLog = 3
  MaxChan = 1
  FalsePositive = {1}
  Lossy = TRUE
  Restarts = TRUE
SPECIFICATION Spec
INVARIANTS
  SharedHeadsCommon
PROPERTY
  ExchangeSafety
