\* The node of a published bucket is freed by the thread that lost a race.
SPECIFICATION Spec
CONSTANTS
  Accessors = {t1, t2}
  HashBits = 3
  reverse_hasht_bits <- MCReverse
  Size = 2
  max_bucket_length = 4
  Ops = {"insert", "find"}
  Hashes = {1, 2}
  Copies = 3
  NULL = NULL
  NONE = NONE
INVARIANTS
  BucketsIndexed
CHECK_DEADLOCK FALSE
