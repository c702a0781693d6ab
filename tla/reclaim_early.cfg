\* A client calls reclaim() while its array of deletes is not full.
SPECIFICATION SpecReclaim
CONSTANTS
  N = 2
  S <- MCS
  First <- MCFirst
  NSlots = 3
  R <- MCR
  HpCounts = {1, 2}
  Objects = {o1, o2, o3}
  Exchanges = 3
  Mark <- MCMark
  NULL = NULL
SYMMETRY ObjectSymmetry
INVARIANTS
  ReclaimsDeleted
