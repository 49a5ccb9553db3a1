\* Two AutoCommit documents exchanging changes with SaveAfter and LoadIncremental.
CONSTANTS
  Replica = {"r1", "r2"}
  Actor = {1, 2}
  ActorOf <- TwoActors
  Hash = {1, 2}
  Key = {"k"}
  Mutation <- MutPutDelSmall
  MaxMuts = 1
  MaxBatch = 2
  MaxQueue = 2
  MaxLog = 3
SPECIFICATION SpecAuto
INVARIANTS
  IncrementalLoadComplete
