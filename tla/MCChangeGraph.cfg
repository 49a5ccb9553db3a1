CONSTANTS
  Hash = {1, 2, 3}
  Actor = {1, 2}
  MaxSeq = 2
  MaxOpBound = 2
SPECIFICATION Spec
INVARIANTS
  TypeOK
  GraphValid
  ClosureDependencyFirst
