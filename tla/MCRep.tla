------------------------------- MODULE MCRep -------------------------------
(* Small instances of Rep: constants the configurations choose from.       *)
EXTENDS Rep

FiveKeys == 1..5

\* Three versions of one user key and two of another.
UserOf == <<1, 1, 1, 2, 2>>
Operands == {1, 2, 4}

PreloadTwo == <<2, 4>>

BytewiseHint == [k \in Key |-> User[k]]

\* As the bytes have it when the comparator reverses them.
ReverseHint == [k \in Key |-> 4 - User[k]]
=============================================================================
