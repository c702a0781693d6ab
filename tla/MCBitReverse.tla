---------------------------- MODULE MCBitReverse ----------------------------
(***************************************************************************)
(* The words with at most three bits set, and their complements.           *)
(***************************************************************************)
EXTENDS BitReverse

FewOnes == {{}} \cup {{i, j, k} : i, j, k \in Bits}
MCInputs == FewOnes \cup {Not(a) : a \in FewOnes}

=============================================================================
