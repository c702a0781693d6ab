------------------------------ MODULE Snapshot ------------------------------
(***************************************************************************)
(* hazptrs_snapshot as the code builds and searches it: an array of n      *)
(* words, numbers whose lowest bit is the mark, sorted with the marks on,  *)
(* then masked, then searched by halving.                                  *)
(***************************************************************************)
EXTENDS Integers, MarkPtr

(* std::sort leaves the values of the array a, in order, in the array b. *)
Sorted(b, n) == \A i, j \in 0 .. n - 1 : i <= j => b[i] <= b[j]
Sorts(a, b, n) ==
  /\ Sorted(b, n)
  /\ {b[i] : i \in 0 .. n - 1} = {a[i] : i \in 0 .. n - 1}

(* The lowest bit masked off, in one word and in the whole array. *)
MaskOff(v) == 2 * (v \div 2)
Masked(b, n) == [i \in 0 .. n - 1 |-> MaskOff(b[i])]

(* std::binary_search: the first position whose value is not below v,      *)
(* found by halving len positions from first, within n halvings.           *)
Halve(b, v, s) ==
  LET half == s.len \div 2 IN
  IF b[s.first + half] < v THEN [first |-> s.first + half + 1, len |-> s.len - half - 1]
  ELSE [first |-> s.first, len |-> half]

LowerBound(b, n, v) ==
  LET loop[k \in 0 .. n] ==
        IF k = 0 THEN [first |-> 0, len |-> n]
        ELSE IF loop[k - 1].len = 0 THEN loop[k - 1] ELSE Halve(b, v, loop[k - 1])
  IN  loop[n].first

search(b, n, v) ==
  LET x == LowerBound(b, n, v) IN x < n /\ ~(v < b[x])

(* The number of a word w, for pointers p at the even addresses addr[p]. *)
Number(addr, w) == addr[get(w)] + (IF w.mark THEN 1 ELSE 0)

============================================================================
