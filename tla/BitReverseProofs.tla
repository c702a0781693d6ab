-------------------------- MODULE BitReverseProofs --------------------------
(***************************************************************************)
(* Proofs that brev_knuth and brev_classic reverse every 32-bit word.      *)
(* Each operation of the algorithms moves bits: bit i of the result is the *)
(* bit of the argument at some other place, and the places add up to the   *)
(* reversal.                                                               *)
(***************************************************************************)
EXTENDS BitReverse, ListLemmas

Words == SUBSET Bits

(* The bits of a shifted word. *)
LEMMA Shifts ==
  ASSUME NEW a \in Words, NEW n \in Nat
  PROVE  /\ \A i \in Bits : i \in Shl(a, n) <=> i - n \in a
         /\ \A i \in Bits : i \in Shr(a, n) <=> i + n \in a
         /\ Shl(a, n) \in Words /\ Shr(a, n) \in Words
<1>1. ASSUME NEW i \in Bits PROVE i \in Shl(a, n) <=> i - n \in a
  <2>1. i \in Shl(a, n) <=> \E j \in a : i = j + n
    BY DEF Shl
  <2>2. \A j \in a : j \in Int
    BY DEF Words, Bits, Width
  <2> QED BY <2>1, <2>2 DEF Bits, Width
<1>2. ASSUME NEW i \in Bits PROVE i \in Shr(a, n) <=> i + n \in a
  <2>1. i \in Shr(a, n) <=> \E j \in a : i = j - n
    BY DEF Shr
  <2>2. \A j \in a : j \in Int
    BY DEF Words, Bits, Width
  <2> QED BY <2>1, <2>2 DEF Bits, Width
<1>3. Shl(a, n) \in Words /\ Shr(a, n) \in Words
  BY DEF Shl, Shr, Words
<1> QED BY <1>1, <1>2, <1>3

(* Words without a common bit are added without a carry. *)
LEMMA AddDisjoint ==
  ASSUME NEW a \in Words, NEW b \in Words, a \cap b = {}
  PROVE  Add(a, b) = a \cup b
<1> DEFINE E(c) == [i \in 0 .. Width |->
                      /\ i > 0
                      /\ LET j == i - 1 IN
                         \/ j \in a /\ j \in b
                         \/ (j \in a \/ j \in b) /\ c[j]]
           none == [i \in 0 .. Width |-> FALSE]
           carry == CHOOSE c : c = E(c)
<1>1. none = E(none)
  <2>1. ASSUME NEW i \in 0 .. Width
        PROVE  ~(/\ i > 0
                 /\ LET j == i - 1 IN
                    \/ j \in a /\ j \in b
                    \/ (j \in a \/ j \in b) /\ none[j])
    <3>1. i > 0 => i - 1 \in 0 .. Width
      BY DEF Width
    <3>2. i > 0 => none[i - 1] = FALSE
      BY <3>1
    <3> QED BY <3>2
  <2> QED BY <2>1
<1>2. carry = E(carry)
  BY <1>1
<1>3. \A i \in Nat : i \in 0 .. Width => ~carry[i]
  <2> DEFINE T == {i \in Nat : i \in 0 .. Width => ~carry[i]}
  <2>1. 0 \in T
    <3>1. 0 \in 0 .. Width
      BY DEF Width
    <3>2. carry[0] = E(carry)[0]
      BY <1>2
    <3>3. ~E(carry)[0]
      BY <3>1
    <3> QED BY <3>2, <3>3
  <2>2. ASSUME NEW n \in Nat, n \in T PROVE n + 1 \in T
    <3> SUFFICES ASSUME n + 1 \in 0 .. Width PROVE ~carry[n + 1]
      OBVIOUS
    <3>1. n \in 0 .. Width /\ (n + 1) - 1 = n
      BY DEF Width
    <3>2. ~carry[n]
      BY <2>2, <3>1
    <3>3. carry[n + 1] = E(carry)[n + 1]
      BY <1>2
    <3>4. E(carry)[n + 1] <=> (n \in a /\ n \in b) \/ ((n \in a \/ n \in b) /\ carry[n])
      BY <3>1
    <3> QED BY <3>2, <3>3, <3>4
  <2> HIDE DEF T
  <2>3. \A i \in Nat : i \in T
    BY <2>1, <2>2, SetInduction
  <2> QED BY <2>3 DEF T
<1>4. Add(a, b) = {i \in Bits : (i \in a) # ((i \in b) # carry[i])}
  BY DEF Add
<1>5. ASSUME NEW i \in Bits PROVE (i \in a) # ((i \in b) # carry[i]) <=> i \in a \cup b
  <2>1. carry[i] \in BOOLEAN /\ ~carry[i]
    <3>1. i \in Nat /\ i \in 0 .. Width
      BY DEF Bits, Width
    <3>2. carry[i] = E(carry)[i]
      BY <1>2
    <3> QED BY <1>3, <3>1, <3>2
  <2> QED BY <2>1
<1> QED BY <1>4, <1>5 DEF Words

(* The place from which a step of Knuth's algorithm takes bit i. *)
Source(i, n, mask) ==
  IF i \in mask THEN i + n ELSE IF i - n \in mask THEN i - n ELSE i

(* KnuthSwap exchanges the bits under the mask with those n places higher: *)
(* its addition has no carry when no place is reached from two sides.      *)
LEMMA SwapBits ==
  ASSUME NEW a \in Words, NEW n \in Nat, NEW mask \in Words,
         \A i \in mask : i + n \in Bits /\ i + n \notin mask
  PROVE  /\ KnuthSwap(a, n, mask) \in Words
         /\ \A i \in Bits : /\ Source(i, n, mask) \in Bits
                            /\ i \in KnuthSwap(a, n, mask) <=> Source(i, n, mask) \in a
<1> DEFINE t == Xor(a, Shr(a, n)) \cap mask
           u == Shl(t, n)
<1>0. \A i \in Bits : i \in Int
  BY DEF Bits, Width
<1>1. t \in Words /\ u \in Words
  <2>1. t \in Words
    BY DEF Words
  <2> HIDE DEF t
  <2> QED BY <2>1, Shifts
<1>2. \A i \in Bits : i \in t <=> i \in mask /\ ((i \in a) # (i + n \in a))
  <2>1. \A i \in Bits : i \in Shr(a, n) <=> i + n \in a
    BY Shifts
  <2> QED BY <2>1 DEF Xor
<1> HIDE DEF t
<1>3. \A i \in Bits : i \in u <=> i - n \in t
  BY <1>1, Shifts
<1> HIDE DEF u
<1>4. \A i \in Bits : i \in u <=> i - n \in mask /\ ((i - n \in a) # (i \in a))
  <2> SUFFICES ASSUME NEW i \in Bits
               PROVE  i \in u <=> i - n \in mask /\ ((i - n \in a) # (i \in a))
    OBVIOUS
  <2>1. (i - n) + n = i
    BY <1>0
  <2>2. i - n \in mask => i - n \in Bits
    BY DEF Words
  <2>3. i - n \in t => i - n \in Bits
    BY <1>1 DEF Words
  <2> QED BY <1>2, <1>3, <2>1, <2>2, <2>3
<1>5. t \cap u = {}
  <2> SUFFICES ASSUME NEW i \in Bits, i \in mask, i - n \in mask PROVE FALSE
    BY <1>1, <1>2, <1>4 DEF Words
  <2>1. (i - n) + n = i
    BY <1>0
  <2> QED BY <2>1
<1>6. KnuthSwap(a, n, mask) = Xor(t \cup u, a)
  BY <1>1, <1>5, AddDisjoint DEF KnuthSwap, t, u
<1>7. KnuthSwap(a, n, mask) \in Words
  BY <1>1, <1>6 DEF Xor, Words
<1>8. ASSUME NEW i \in Bits
      PROVE  /\ Source(i, n, mask) \in Bits
             /\ i \in KnuthSwap(a, n, mask) <=> Source(i, n, mask) \in a
  <2>1. (i - n) + n = i
    BY <1>0
  <2>2. i \in KnuthSwap(a, n, mask) <=> (i \in a) # (i \in t \/ i \in u)
    BY <1>6 DEF Xor
  <2>3. CASE i \in mask
    <3>1. i - n \notin mask
      BY <2>1, <2>3
    <3> QED BY <1>2, <1>4, <2>2, <2>3, <3>1 DEF Source
  <2>4. CASE i \notin mask /\ i - n \in mask
    <3>1. i - n \in Bits
      BY <2>4 DEF Words
    <3> QED BY <1>2, <1>4, <2>2, <2>4, <3>1 DEF Source
  <2>5. CASE i \notin mask /\ i - n \notin mask
    BY <1>2, <1>4, <2>2, <2>5 DEF Source
  <2> QED BY <2>3, <2>4, <2>5
<1> QED BY <1>7, <1>8

(* The masks of brev_knuth, and where the rotation takes bit i from. *)
Mask10 == 0 .. 4 \cup 15 .. 21
Mask4 == {0, 5, 10, 15, 16, 17, 25, 26, 27}
Mask2 == {1, 6, 11, 15, 19, 22, 25, 29}
Rotated(i) == IF i < 15 THEN i + 17 ELSE i - 15

(* The three swaps and the rotation add up to the reversal. *)
LEMMA KnuthPlaces ==
  ASSUME NEW i \in Bits
  PROVE  Rotated(Source(Source(Source(i, 2, Mask2), 4, Mask4), 10, Mask10)) = Width - 1 - i
BY DEF Bits, Width, Rotated, Source, Mask2, Mask4, Mask10

(* brev_knuth reverses every word. *)
LEMMA KnuthReverses ==
  ASSUME NEW a \in Words
  PROVE  /\ brev_knuth(a) \in Words
         /\ \A i \in Bits : i \in brev_knuth(a) <=> Width - 1 - i \in a
<1> DEFINE r == Shl(a, 15) \cup Shr(a, 17)
           s == KnuthSwap(r, 10, Mask10)
           u == KnuthSwap(s, 4, Mask4)
           v == KnuthSwap(u, 2, Mask2)
<1>1. /\ Mask10 \in Words /\ \A i \in Mask10 : i + 10 \in Bits /\ i + 10 \notin Mask10
      /\ Mask4 \in Words /\ \A i \in Mask4 : i + 4 \in Bits /\ i + 4 \notin Mask4
      /\ Mask2 \in Words /\ \A i \in Mask2 : i + 2 \in Bits /\ i + 2 \notin Mask2
  BY DEF Mask10, Mask4, Mask2, Words, Bits, Width
<1>2. r \in Words /\ \A i \in Bits : i \in r <=> Rotated(i) \in a
  <2>1. /\ \A i \in Bits : i \in Shl(a, 15) <=> i - 15 \in a
        /\ \A i \in Bits : i \in Shr(a, 17) <=> i + 17 \in a
        /\ Shl(a, 15) \in Words /\ Shr(a, 17) \in Words
    BY Shifts
  <2>2. \A i \in Bits : i < 15 => i - 15 \notin a
    BY DEF Words, Bits, Width
  <2>3. \A i \in Bits : ~(i < 15) => i + 17 \notin a
    BY DEF Words, Bits, Width
  <2> QED BY <2>1, <2>2, <2>3 DEF Rotated, Words
<1> HIDE DEF r
<1>3. /\ s \in Words
      /\ \A i \in Bits : /\ Source(i, 10, Mask10) \in Bits
                         /\ i \in s <=> Source(i, 10, Mask10) \in r
  BY <1>1, <1>2, SwapBits
<1> HIDE DEF s
<1>4. /\ u \in Words
      /\ \A i \in Bits : /\ Source(i, 4, Mask4) \in Bits
                         /\ i \in u <=> Source(i, 4, Mask4) \in s
  BY <1>1, <1>3, SwapBits
<1> HIDE DEF u
<1>5. /\ v \in Words
      /\ \A i \in Bits : /\ Source(i, 2, Mask2) \in Bits
                         /\ i \in v <=> Source(i, 2, Mask2) \in u
  BY <1>1, <1>4, SwapBits
<1>6. brev_knuth(a) = v
  BY DEF brev_knuth, v, u, s, r, Mask10, Mask4, Mask2
<1> HIDE DEF v
<1>7. ASSUME NEW i \in Bits
      PROVE  i \in v <=> Rotated(Source(Source(Source(i, 2, Mask2), 4, Mask4), 10, Mask10)) \in a
  <2> DEFINE j == Source(i, 2, Mask2)
             k == Source(j, 4, Mask4)
             l == Source(k, 10, Mask10)
  <2>1. j \in Bits /\ (i \in v <=> j \in u)
    BY <1>5
  <2> HIDE DEF j
  <2>2. k \in Bits /\ (j \in u <=> k \in s)
    BY <1>4, <2>1
  <2> HIDE DEF k
  <2>3. l \in Bits /\ (k \in s <=> l \in r)
    BY <1>3, <2>2
  <2> HIDE DEF l
  <2>4. l \in r <=> Rotated(l) \in a
    BY <1>2, <2>3
  <2>5. i \in v <=> Rotated(l) \in a
    BY <2>1, <2>2, <2>3, <2>4
  <2> QED BY <2>5 DEF j, k, l
<1> QED BY <1>5, <1>6, <1>7, KnuthPlaces

(* A step of the classic algorithm takes bit i from n places above or      *)
(* below.                                                                  *)
LEMMA GroupBits ==
  ASSUME NEW a \in Words, NEW n \in Nat, NEW m
  PROVE  /\ SwapGroups(a, n, m) \in Words
         /\ \A i \in Bits : i \in SwapGroups(a, n, m)
                             <=> IF i \in m THEN i + n \in a ELSE i - n \in a
<1>1. /\ \A i \in Bits : i \in Shl(a, n) <=> i - n \in a
      /\ \A i \in Bits : i \in Shr(a, n) <=> i + n \in a
      /\ Shl(a, n) \in Words /\ Shr(a, n) \in Words
  BY Shifts
<1> QED BY <1>1 DEF SwapGroups, Not, Words

(* The masks of brev_classic. *)
Low(n) == {i \in Bits : i % (2 * n) < n}

(* The classic algorithm derives each mask from the one before it. *)
LEMMA ClassicMasks ==
  /\ Xor(Low(8), Shl(Low(8), 4)) = Low(4)
  /\ Xor(Low(4), Shl(Low(4), 2)) = Low(2)
  /\ Xor(Low(2), Shl(Low(2), 1)) = Low(1)
<1>0. /\ Low(8) \in Words /\ Low(4) \in Words /\ Low(2) \in Words /\ Low(1) \in Words
  BY DEF Low, Words
<1>1. ASSUME NEW i \in Bits
      PROVE  /\ (i \in Low(8)) # (i - 4 \in Low(8)) <=> i \in Low(4)
             /\ (i \in Low(4)) # (i - 2 \in Low(4)) <=> i \in Low(2)
             /\ (i \in Low(2)) # (i - 1 \in Low(2)) <=> i \in Low(1)
  BY DEF Low, Bits, Width
<1>2. /\ \A i \in Bits : i \in Shl(Low(8), 4) <=> i - 4 \in Low(8)
      /\ \A i \in Bits : i \in Shl(Low(4), 2) <=> i - 2 \in Low(4)
      /\ \A i \in Bits : i \in Shl(Low(2), 1) <=> i - 1 \in Low(2)
      /\ Shl(Low(8), 4) \in Words /\ Shl(Low(4), 2) \in Words /\ Shl(Low(2), 1) \in Words
  BY <1>0, Shifts
<1> QED BY <1>0, <1>1, <1>2 DEF Xor, Words

(* The place from which a step of the classic algorithm takes bit i. *)
Across(i, n) == IF i \in Low(n) THEN i + n ELSE i - n

(* The five exchanges add up to the reversal. *)
LEMMA ClassicPlaces ==
  ASSUME NEW i \in Bits
  PROVE  /\ Across(i, 1) \in Bits
         /\ Across(Across(i, 1), 2) \in Bits
         /\ Across(Across(Across(i, 1), 2), 4) \in Bits
         /\ Across(Across(Across(Across(i, 1), 2), 4), 8) \in Bits
         /\ Across(Across(Across(Across(Across(i, 1), 2), 4), 8), 16) = Width - 1 - i
BY DEF Bits, Width, Across, Low

(* brev_classic reverses every word. *)
LEMMA ClassicReverses ==
  ASSUME NEW a \in Words
  PROVE  /\ brev_classic(a) \in Words
         /\ \A i \in Bits : i \in brev_classic(a) <=> Width - 1 - i \in a
<1> DEFINE r == Shr(a, 16) \cup Shl(a, 16)
           s == SwapGroups(r, 8, Low(8))
           u == SwapGroups(s, 4, Low(4))
           v == SwapGroups(u, 2, Low(2))
           w == SwapGroups(v, 1, Low(1))
<1>1. r \in Words /\ \A i \in Bits : i \in r <=> Across(i, 16) \in a
  <2>1. /\ \A i \in Bits : i \in Shl(a, 16) <=> i - 16 \in a
        /\ \A i \in Bits : i \in Shr(a, 16) <=> i + 16 \in a
        /\ Shl(a, 16) \in Words /\ Shr(a, 16) \in Words
    BY Shifts
  <2>2. \A i \in Bits : i < 16 => i - 16 \notin a /\ i \in Low(16)
    BY DEF Words, Bits, Width, Low
  <2>3. \A i \in Bits : ~(i < 16) => i + 16 \notin a /\ i \notin Low(16)
    BY DEF Words, Bits, Width, Low
  <2> QED BY <2>1, <2>2, <2>3 DEF Across, Words
<1> HIDE DEF r
<1>2. s \in Words /\ \A i \in Bits : i \in s <=> Across(i, 8) \in r
  BY <1>1, GroupBits DEF Across
<1> HIDE DEF s
<1>3. u \in Words /\ \A i \in Bits : i \in u <=> Across(i, 4) \in s
  BY <1>2, GroupBits DEF Across
<1> HIDE DEF u
<1>4. v \in Words /\ \A i \in Bits : i \in v <=> Across(i, 2) \in u
  BY <1>3, GroupBits DEF Across
<1> HIDE DEF v
<1>5. w \in Words /\ \A i \in Bits : i \in w <=> Across(i, 1) \in v
  BY <1>4, GroupBits DEF Across
<1>6. brev_classic(a) = w
  <2>1. Low(8) = {i \in Bits : i % 16 < 8}
    BY DEF Low
  <2> QED BY <2>1, ClassicMasks DEF brev_classic, w, v, u, s, r
<1> HIDE DEF w
<1>7. ASSUME NEW i \in Bits
      PROVE  i \in w <=> Across(Across(Across(Across(Across(i, 1), 2), 4), 8), 16) \in a
  BY <1>1, <1>2, <1>3, <1>4, <1>5, ClassicPlaces
<1> QED BY <1>5, <1>6, <1>7, ClassicPlaces

(* Words with the same bits are equal, and the reversal of a word is one. *)
LEMMA ReversedWord ==
  ASSUME NEW a \in Words, NEW b \in Words,
         \A i \in Bits : i \in b <=> Width - 1 - i \in a
  PROVE  b = Reversed(a)
<1>1. \A i \in Bits : i \in Int /\ Width - 1 - i \in Bits /\ Width - 1 - (Width - 1 - i) = i
  BY DEF Bits, Width
<1>2. ASSUME NEW i \in b PROVE i \in Reversed(a)
  BY <1>1 DEF Reversed, Words
<1>3. ASSUME NEW i \in Reversed(a) PROVE i \in b
  <2>1. PICK j \in a : i = Width - 1 - j
    BY DEF Reversed
  <2>2. j \in Bits
    BY DEF Words
  <2> QED BY <1>1, <2>1, <2>2
<1> QED BY <1>2, <1>3

(* Both algorithms compute the reversal of every 32-bit word. *)
THEOREM AlgorithmsReverse ==
  \A a \in Words : /\ reverse_hasht_bits(a) = Reversed(a)
                   /\ brev_classic(a) = Reversed(a)
<1> SUFFICES ASSUME NEW a \in Words
             PROVE  reverse_hasht_bits(a) = Reversed(a) /\ brev_classic(a) = Reversed(a)
  OBVIOUS
<1>1. reverse_hasht_bits(a) = Reversed(a)
  BY KnuthReverses, ReversedWord DEF reverse_hasht_bits
<1>2. brev_classic(a) = Reversed(a)
  BY ClassicReverses, ReversedWord
<1> QED BY <1>1, <1>2

(* The word of a run is one of its inputs. *)
LEMMA WordOfRun == Spec => [](word \in Words)
<1>1. Init => word \in Words
  BY InputsAssumption DEF Init, Words
<1>2. word \in Words /\ [Next]_word => (word \in Words)'
  BY DEF Next
<1> QED BY <1>1, <1>2, PTL DEF Spec

(* brev_knuth, the algorithm behind the split order, reverses the bits.    *)
THEOREM ReversesBitsHolds == Spec => []ReversesBits
<1>1. word \in Words => ReversesBits
  BY AlgorithmsReverse DEF ReversesBits
<1> QED BY <1>1, WordOfRun, PTL

(* brev_classic, the alternative of the same file, agrees with it.         *)
THEOREM ClassicAgreesHolds == Spec => []ClassicAgrees
<1>1. word \in Words => ClassicAgrees
  BY AlgorithmsReverse DEF ClassicAgrees
<1> QED BY <1>1, WordOfRun, PTL

=============================================================================
