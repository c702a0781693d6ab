\* Two accessors insert and look up concurrently in one bucket.
SPECIFICATION FairSpec
CONSTANTS
  Accessors = {t1, t2}
  HashBits = 3
  reverse_hasht_bits <- MCReverse
  Size = 1
  max_bucket_length = 4
  Ops = {"insert", "find"}
  Hashes = {1, 2, 3}
  Copies = 3
  NULL = NULL
  NONE = NONE
INVARIANTS
  NoFault
  NoLeak
PROPERTIES
  ImplementsSet
  CallReturns
