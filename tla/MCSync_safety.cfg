\* Two peers, reliable FIFO channels, sync state restarts, blooms that always report hash 1.
CONSTANTS
  Peer = {"p1", "p2"}
  Actor = {1, 2}
  ActorOf <- TwoPeers
  Hash = {1, 2}
  Key = {"k"}
  Mutation <- MutPutOne
  MaxQueue = 4
  MaxLog = 3
  MaxChan = 1
  FalsePositive = {1}
  Lossy = FALSE
  Restarts = TRUE
SPECIFICATION Spec
INVARIANTS
  TypeOK
  QuietMeansSynced
