-------------------------- MODULE MCHazptrReclaim --------------------------
(***************************************************************************)
(* Small instances of the hazard pointer contexts and the delete list.     *)
(***************************************************************************)
EXTENDS HazptrReclaim, Snapshot, TLC

(* One context that passes every delete to the domain, one that keeps two. *)
MCR == [c \in Contexts |-> IF c = 0 THEN 0 ELSE 2]

(* It also has two hazard pointers, after the only one of the first. *)
MCS == [c \in Contexts |-> c + 1]
MCFirst == [c \in Contexts |-> c]

(* and its client protects marked pointers. *)
MCMark == [c \in Contexts |-> c = 1]

(* The compaction of deleted moves the used entries to the front and       *)
(* neither loses nor repeats one, whichever entries of a longer array are  *)
(* unused.                                                                 *)
Occurrences(d, p) == Cardinality({x \in DOMAIN d : d[x] = p})
ASSUME CompactionAssumption ==
  \A n \in 1 .. 5 : \A d \in [0 .. n - 1 -> Pointer] :
    /\ \A p \in Pointer : Occurrences(Compact(d, n), p) = Occurrences(d, p)
    /\ \A x \in 0 .. n - 1 : Compact(d, n)[x] # NULL <=> x < n - Occurrences(d, NULL)

(* The binary search of a snapshot finds exactly the values it holds,      *)
(* although the array was sorted before the marks were masked off.         *)
ASSUME SearchAssumption ==
  \A n \in 0 .. 3 : \A a, b \in [0 .. n - 1 -> 0 .. 4] : Sorts(a, b, n) =>
    \A v \in 0 .. 5 :
      search(Masked(b, n), n, v) <=> \E i \in 0 .. n - 1 : MaskOff(a[i]) = v

(* Addresses are interchangeable. *)
ObjectSymmetry == Permutations(Objects)

============================================================================
