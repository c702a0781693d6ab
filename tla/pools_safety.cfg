\* Three contexts of two block lengths, pools of two blocks: full pools, pools
\* of the wrong length, concurrent creation of pools.
SPECIFICATION Spec
CONSTANTS
  Contexts = {c1, c2, c3}
  HAZPTR_POOL_BLOCKS = 2
  Lengths = {1, 2}
  Pools = {p1, p2, p3}
  NULL = NULL
SYMMETRY PoolsSymmetry
INVARIANTS
  TypeOK
  BlockExclusive
  BitmapExact
  AssertsHold
PROPERTIES
  PoolsGrow
