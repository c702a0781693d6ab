----------------------------- MODULE BitReverse -----------------------------
(***************************************************************************)
(* reverse_hasht_bits of solist.cpp, the bit reversal behind the split     *)
(* order, and the two algorithms there that compute it.  A uint32_t is the *)
(* set of the positions of its bits that are 1, so that | is union, & is   *)
(* intersection, and a shift drops what leaves the word.                   *)
(***************************************************************************)
EXTENDS Integers, FiniteSets

CONSTANT Inputs  \* the words on which the algorithms are run

Width == 32
Bits == 0 .. Width - 1

ASSUME InputsAssumption == Inputs \subseteq SUBSET Bits

Xor(a, b) == (a \ b) \cup (b \ a)
Not(a) == Bits \ a
Shl(a, n) == {i + n : i \in a} \cap Bits
Shr(a, n) == {i - n : i \in a} \cap Bits

(* a + b modulo 2^32, by ripple carry. *)
Add(a, b) ==
  LET carry[i \in 0 .. Width] ==
        /\ i > 0
        /\ LET j == i - 1 IN
           \/ j \in a /\ j \in b
           \/ (j \in a \/ j \in b) /\ carry[j]
  IN  {i \in Bits : (i \in a) # ((i \in b) # carry[i])}

(* One step "t = (a ^ (a >> n)) & mask; a = (t + (t << n)) ^ a" of Knuth's *)
(* algorithm: it swaps the bits under mask with those n places higher.     *)
KnuthSwap(a, n, mask) ==
  LET t == Xor(a, Shr(a, n)) \cap mask IN Xor(Add(t, Shl(t, n)), a)

(* The rotation taken by 16 and 16. *)
brev_knuth_rotated16(a) ==
  LET r == Shl(a, 16) \cup Shr(a, 16)
      s == KnuthSwap(r, 10, 0 .. 4 \cup 15 .. 21)
      u == KnuthSwap(s, 4, {0, 5, 10, 15, 16, 17, 25, 26, 27})
  IN  KnuthSwap(u, 2, {1, 6, 11, 15, 19, 22, 25, 29})

(* The masks are 0x003f801f, 0x0e038421 and 0x22488842. *)
brev_knuth(a) ==
  LET r == Shl(a, 15) \cup Shr(a, 17)
      s == KnuthSwap(r, 10, 0 .. 4 \cup 15 .. 21)
      u == KnuthSwap(s, 4, {0, 5, 10, 15, 16, 17, 25, 26, 27})
  IN  KnuthSwap(u, 2, {1, 6, 11, 15, 19, 22, 25, 29})

(* "((a >> n) & m) | ((a << n) & ~m)": adjacent groups of n bits swapped. *)
SwapGroups(a, n, m) == (Shr(a, n) \cap m) \cup (Shl(a, n) \cap Not(m))

(* The mask of one step not refined for the next. *)
brev_classic_same_mask(a) ==
  LET m8 == {i \in Bits : i % 16 < 8}
      m4 == Xor(m8, Shl(m8, 4))
      halves == Shr(a, 16) \cup Shl(a, 16)
      nibbles == SwapGroups(SwapGroups(halves, 8, m8), 4, m4)
  IN  SwapGroups(SwapGroups(nibbles, 2, m4), 1, m4)

(* The first mask is 0x00ff00ff, each next one is m ^ (m << n). *)
brev_classic(a) ==
  LET m8 == {i \in Bits : i % 16 < 8}
      m4 == Xor(m8, Shl(m8, 4))
      m2 == Xor(m4, Shl(m4, 2))
      m1 == Xor(m2, Shl(m2, 1))
      halves == Shr(a, 16) \cup Shl(a, 16)
      nibbles == SwapGroups(SwapGroups(halves, 8, m8), 4, m4)
  IN  SwapGroups(SwapGroups(nibbles, 2, m2), 1, m1)

reverse_hasht_bits(hashv) == brev_knuth(hashv)

(* The definition of a reversal, independent of the algorithms. *)
Reversed(a) == {Width - 1 - i : i \in a}

VARIABLE word

Init == word \in Inputs
Next == UNCHANGED word
Spec == Init /\ [][Next]_word

(* The rotation, the three masked swaps and the additions of brev_knuth,   *)
(* which must not carry, reverse the word: what the split order assumes of *)
(* reverse_hasht_bits (solist.hpp:45, 51, 319).                            *)
ReversesBits == reverse_hasht_bits(word) = Reversed(word)

(* The alternative brev_classic of the same file computes the same value.  *)
ClassicAgrees == brev_classic(word) = reverse_hasht_bits(word)

=============================================================================
