\* Two documents put different strings at one key concurrently and exchange the changes.
CONSTANTS
  Replica = {"r1", "r2"}
  Actor = {1, 2}
  ActorOf <- TwoActors
  Hash = {1, 2}
  Key = {"k"}
  Mutation <- MutPut
  MaxMuts = 1
  MaxBatch = 2
  MaxQueue = 2
  MaxLog = 3
SPECIFICATION Spec
INVARIANT Convergence

