\* One context more than the pool has blocks.
SPECIFICATION FairSpec
CONSTANTS
  Contexts = {c1, c2}
  HAZPTR_POOL_BLOCKS = 1
  Lengths = {1}
  Pools = {p1, p2}
  NULL = NULL
PROPERTIES
  LockFree
