------------------------------ MODULE MarkPtr ------------------------------
(***************************************************************************)
(* mark_ptr_type<T>: one machine word that holds a pointer and, in its     *)
(* least significant bit, the "logically deleted" mark of Harris' list.    *)
(* A word is a record; pointers are aligned, so masking a bit on or off    *)
(* never touches the other field.  Every operation below is one atomic     *)
(* access of the word.                                                     *)
(***************************************************************************)

Word(p, m) == [ptr |-> p, mark |-> m]

(* The words over a set P of pointers. *)
WordOver(P) == [ptr : P, mark : BOOLEAN]

(* operator()(): the pointer with the mark masked off. *)
get(w) == w.ptr

(* operator=(T* p): a new pointer, the mark of the old word kept. *)
assign(w, p) == Word(p, w.mark)

(* A comparison of the pointer alone, as if the mark had been masked off.  *)
CASMatchesIgnoringMark(w, expected) == w.ptr = expected

(* A store in place of the compare and exchange. *)
CASMatchesAlways(w, expected) == TRUE

(* Does CAS(expected, desired[, mark]) succeed?  The expected value is an  *)
(* unmarked pointer and the comparison is of the whole word, so a marked   *)
(* word never matches.                                                     *)
CASMatches(w, expected) == w = Word(expected, FALSE)

(* The desired word stored whether or not the comparison succeeds. *)
CASStores(w, expected, desired, mark) == Word(desired, mark)

(* The word after CAS(expected, desired, mark); CAS(expected, desired) is  *)
(* the case mark = FALSE.                                                  *)
CAS(w, expected, desired, mark) ==
  IF CASMatches(w, expected) THEN Word(desired, mark) ELSE w

============================================================================
