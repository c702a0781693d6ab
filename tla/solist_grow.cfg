\* Two accessors insert concurrently, race to initialise the buckets and expand
\* the table, up to the abort of the process.
SPECIFICATION Spec
CONSTANTS
  Accessors = {t1, t2}
  HashBits = 4
  reverse_hasht_bits <- MCReverse
  Size = 2
  max_bucket_length = 1
  Ops = {"insert"}
  Hashes = {1, 3}
  Copies = 3
  NULL = NULL
  NONE = NONE
SYMMETRY AccessorSymmetry
INVARIANTS
  Ascending
  ItemsFindable
  PrivateNodes
PROPERTIES
  SlotNotReplaced
CHECK_DEADLOCK FALSE
