----------------------------- MODULE OrderWord -----------------------------
(***************************************************************************)
(* The order word of include/aparajita/node.hpp: the sorted order of a     *)
(* node's slots packed into one machine word, RankBits bits per rank (4 in *)
(* the code, so sixteen ranks in 64 bits).  The bits of a rank hold its    *)
(* slot + 1; 0 means that the rank is unused.  Ranks and slots count from  *)
(* 0, as in the code.                                                      *)
(***************************************************************************)
EXTENDS Integers

CONSTANT RankBits

ASSUME RankBitsAssumption == RankBits \in Nat /\ RankBits >= 1

\* A shift to the left by n places multiplies by it, one to the right divides.
Pow2[n \in Nat] == IF n = 0 THEN 1 ELSE 2 * Pow2[n - 1]

NodeKeys == Pow2[RankBits]
NodeCapacity == NodeKeys - 1
PadSlot == NodeKeys - 1
WordBits == RankBits * NodeKeys
Lanes == 0..(NodeKeys - 1)

\* The subtraction borrows from an unused rank and lands on PadSlot.
OrderSlot(o, rank) == ((o \div Pow2[RankBits * rank]) - 1) % NodeKeys

\* WordBits - countl_zero(o).
BitLength(o) == CHOOSE n \in 0..WordBits : o < Pow2[n] /\ (n > 0 => o >= Pow2[n - 1])

OrderCount(o) == (BitLength(o) + RankBits - 1) \div RankBits

OrderIdentity(n) ==
  LET word[i \in 0..n] ==
        IF i = 0 THEN 0 ELSE word[i - 1] + i * Pow2[RankBits * (i - 1)]
  IN  word[n]

\* Slip: the ranks above are moved by a bit too few.
OrderInsertShiftShort(o, rank, slot) ==
  LET bit == RankBits * rank
      above == ((o \div Pow2[bit]) * Pow2[bit + RankBits - 1]) % Pow2[WordBits]
  IN  (o % Pow2[bit]) + above + (slot + 1) * Pow2[bit]

\* Slip: the rank spliced in replaces the one that was there.
OrderInsertOver(o, rank, slot) ==
  LET bit == RankBits * rank
      above == ((o \div Pow2[bit + RankBits]) * Pow2[bit + RankBits]) % Pow2[WordBits]
  IN  (o % Pow2[bit]) + above + (slot + 1) * Pow2[bit]

\* The three parts share no bit, so the code's | is +.  A shift to the left
\* loses what passes the end of the word.
OrderInsert(o, rank, slot) ==
  LET bit == RankBits * rank
      above == ((o \div Pow2[bit]) * Pow2[bit + RankBits]) % Pow2[WordBits]
  IN  (o % Pow2[bit]) + above + (slot + 1) * Pow2[bit]
=============================================================================
