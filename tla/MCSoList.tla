------------------------------ MODULE MCSoList ------------------------------
(***************************************************************************)
(* Small instances of the split-ordered list.                              *)
(***************************************************************************)
EXTENDS SoListRefinement, TLC

(* The bit reversal at the width HashBits. *)
MCReverse ==
  [x \in 0 .. 2 ^ HashBits - 1 |->
     LET rev[i \in 0 .. HashBits] ==
           IF i = 0 THEN 0 ELSE 2 * rev[i - 1] + ((x \div 2 ^ (i - 1)) % 2)
     IN  rev[HashBits]]

(* The accessors are interchangeable (safety runs only). *)
AccessorSymmetry == Permutations(Accessors)

=============================================================================
