\* Two AutoCommit documents with distinct actors that create a text, splice it, exchange, merge, save and diff from their cursors.
CONSTANTS
  Replica = {"r1", "r2"}
  Actor = {1, 2}
  ActorOf <- TwoActors
  Hash = {1, 2}
  Key = {"k"}
  Mutation <- MutText
  MaxMuts = 1
  MaxBatch = 2
  MaxQueue = 2
  MaxLog = 3
SPECIFICATION SpecPatch
INVARIANTS
  SaveCacheFresh
  LoadRestoresSave
  LogMatchesGraph
  
  ViewMatchesCursor
