\* A node that was marked and could not be unlinked at once.
SPECIFICATION FairSpec
CONSTANTS
  Accessors = {t1, t2}
  HashBits = 3
  reverse_hasht_bits <- MCReverse
  Size = 1
  max_bucket_length = 4
  Ops = {"insert", "delete"}
  Hashes = {1, 2}
  Copies = 3
  NULL = NULL
  NONE = NONE
PROPERTIES
  LockFree
CHECK_DEADLOCK FALSE
