\* Two contexts protect, replace and delete objects, and come and go.
SPECIFICATION Spec
CONSTANTS
  N = 2
  S <- MCS
  First <- MCFirst
  NSlots = 3
  R <- MCR
  HpCounts = {2}
  Objects = {o1, o2, o3}
  Exchanges = 4
  Mark <- MCMark
  NULL = NULL
SYMMETRY ObjectSymmetry
INVARIANTS
  TypeOK
  SafeAccess
  Accounted
  DeletedExact
  NotForgotten
  DomainClean
PROPERTIES
  CollectKept
  ImplementsReclamation
