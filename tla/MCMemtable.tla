----------------------------- MODULE MCMemtable -----------------------------
(* Small instances of Memtable: constants the configurations choose from.  *)
EXTENDS TowerInvariant

SevenKeys == 1..7

\* A full node; four more keys split it, and then either half may fill and split.
PreloadThree == <<2, 3, 5>>

\* Hints that agree with the order of keys, with ties.
PairHint == [k \in Key |-> k \div 2]
=============================================================================
