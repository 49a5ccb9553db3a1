\* Two peers over a transport that may lose messages, no restarts.
CONSTANTS
  Peer = {"p1", "p2"}
  Actor = {1, 2}
  ActorOf <- TwoPeers
  Hash = {1, 2}
  Key = {"k"}
  Mutation <- MutPutOne
  MaxQueue = 4
  MaxLog = 3
  MaxChan = 2
  FalsePositive = {}
  Lossy = TRUE
  Restarts = FALSE
SPECIFICATION Spec
INVARIANTS
  QuietMeansSynced
