SPECIFICATION Spec
CONSTANTS
  Items = {1, 2, 3, 4, 5}
  KeyOf <- MCKeyOf
  Rank <- MCRank
  HashValues = {0, 1, 8}
  NULL = NULL
  Wild = Wild
  HASH_INITIAL_NUM_BUCKETS_LOG2 = 0
  HASH_BKT_CAPACITY_THRESH = 1
  MaxBuckets = 16
CONSTRAINT FirstAtZero
INVARIANTS TypeOK FindsAll HashIntact ChainsBounded SelectedIntact
PROPERTY ImplementsOrderedDict
CHECK_DEADLOCK FALSE
