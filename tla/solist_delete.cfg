\* Two accessors insert and delete concurrently in one bucket, up to the
\* abort of the process on an access to freed memory.
SPECIFICATION Spec
CONSTANTS
  Accessors = {t1, t2}
  HashBits = 3
  reverse_hasht_bits <- MCReverse
  Size = 1
  max_bucket_length = 4
  Ops = {"insert", "delete"}
  Hashes = {1, 2}
  Copies = 3
  NULL = NULL
  NONE = NONE
SYMMETRY AccessorSymmetry
INVARIANTS
  Ascending
  CountExact
PROPERTIES
  MarkedFrozen
CHECK_DEADLOCK FALSE
