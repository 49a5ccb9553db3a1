\* Two documents share a list and insert different values at its head concurrently.
CONSTANTS
  Replica = {"r1", "r2"}
  Actor = {1, 2}
  ActorOf <- TwoActors
  Hash = {1, 2, 3}
  Key = {"k"}
  Mutation <- MutList
  MaxMuts = 1
  MaxBatch = 2
  MaxQueue = 2
  MaxLog = 3
SPECIFICATION Spec
INVARIANT ListConvergence
