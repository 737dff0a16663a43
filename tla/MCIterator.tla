----------------------------- MODULE MCIterator -----------------------------
(* Small instances of Iterator: constants the configurations choose from.  *)
EXTENDS Iterator

FourKeys == 1..4
SixKeys == 1..6
PreloadTwo == <<2, 4>>
PreloadThree == <<2, 4, 6>>

\* A gap between two nodes wide enough for a target and a key above it.
GapKeys == {1, 2, 4, 5, 6, 8}
PreloadGap == <<2, 6, 8>>

PairHint == [k \in Key |-> k \div 2]
=============================================================================
