\* Three threads with two nodes each.
SPECIFICATION FairSpec
CONSTANTS
  num_threads = 3
  num_nodes = 2
  NULL = NULL
INVARIANTS
  TypeOK
  OwnNodesInOrder
  CheckedWhenDone
PROPERTIES
  Termination
