------------------------------ MODULE Rounding ------------------------------
(* Sizes and addresses rounded up to a multiple of an alignment.  The code *)
(* does it with masks, (x + align - 1) & ~(align - 1), for alignments that *)
(* are powers of two.                                                      *)
EXTENDS Integers

RoundUp(x, align) == ((x + align - 1) \div align) * align
=============================================================================
