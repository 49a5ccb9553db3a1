\* AutoCommit documents with a counter, its increment and a string put, saved and reloaded.
CONSTANTS
  Replica = {"r1", "r2"}
  Actor = {1, 2}
  ActorOf <- TwoActors
  Hash = {1, 2, 3}
  Key = {"k"}
  Mutation <- MutCounter
  MaxMuts = 1
  MaxBatch = 2
  MaxQueue = 2
  MaxLog = 3
SPECIFICATION SpecAuto
INVARIANTS
  LoadRestoresSave
