\* One accessor, every operation: two expansions, bucket splits, deletes.
SPECIFICATION FairSpec
CONSTANTS
  Accessors = {t1}
  HashBits = 5
  reverse_hasht_bits <- MCReverse
  Size = 2
  max_bucket_length = 2
  Ops = {"insert", "delete", "find", "init"}
  Hashes = {0, 1, 5, 9, 13}
  Copies = 2
  NULL = NULL
  NONE = NONE
INVARIANTS
  TypeOK
  BucketsIndexed
  ItemsFindable
  NoFault
  CountExact
  NoLeak
PROPERTIES
  SlotStable
  ImplementsSet
  CallReturns
