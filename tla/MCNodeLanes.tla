---------------------------- MODULE MCNodeLanes ----------------------------
(* Small instances of NodeLanes.                                           *)
EXTENDS NodeLanes

TenKeys == 1..10

\* In the order of their bytes: the empty one, prefixes of one another, a tie (as
\* of two entries that differ in sequence number only), the bytes of the sentinel.
Strings == <<<<>>, <<0>>, <<1>>, <<1, 0>>, <<1, 1, 0>>, <<1, 1, 0>>, <<1, 1, 2>>,
             <<1, 2, 1>>, <<2>>, <<2, 2, 2>>>>

StringOf == [k \in Key |-> Strings[k]]

\* The same under a reverse comparator.
ReverseStringOf == [k \in Key |-> Strings[11 - k]]

Orders == {StringOf, ReverseStringOf}
=============================================================================
