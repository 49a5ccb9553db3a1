\* Two documents with distinct actors, Put and DeleteMap on one key.
CONSTANTS
  Replica = {"r1", "r2"}
  Actor = {1, 2}
  ActorOf <- TwoActors
  Hash = {1, 2}
  Key = {"k"}
  Mutation <- MutPutDelSmall
  MaxMuts = 1
  MaxBatch = 2
  MaxQueue = 2
  MaxLog = 3
SPECIFICATION Spec
INVARIANTS
  TypeOK
  LogMatchesGraph
  ReadAtHeadsMatchesCurrent
  QueueSettled
  NoLostChange
  IngestNeverFails
