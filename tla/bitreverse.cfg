\* The bit reversal on words with at most three bits set or clear.
SPECIFICATION Spec
CONSTANTS
  Inputs <- MCInputs
INVARIANTS
  ReversesBits
  ClassicAgrees
