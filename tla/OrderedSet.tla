----------------------------- MODULE OrderedSet -----------------------------
(***************************************************************************)
(* What insert_entry promises its callers: a set of keys that only grows,  *)
(* and an insert that adds its key at one instant after it is called and   *)
(* before it returns, or that throws and adds nothing.                     *)
(***************************************************************************)
CONSTANTS Writer, Key, Null, Preload, MayThrow

VARIABLES
  contents,  \* the keys inserted so far
  status,    \* status[w]: how far the insert of w has come
  arg        \* arg[w]: the key w is inserting

vars == <<contents, status, arg>>

Init ==
  /\ contents = {Preload[i] : i \in DOMAIN Preload}
  /\ status = [w \in Writer |-> "idle"]
  /\ arg = [w \in Writer |-> Null]

Call(w, k) ==
  /\ status[w] \in {"idle", "threw"}
  /\ status' = [status EXCEPT ![w] = "called"]
  /\ arg' = [arg EXCEPT ![w] = k]
  /\ UNCHANGED contents

Commit(w) ==
  /\ status[w] = "called"
  /\ status' = [status EXCEPT ![w] = "committed"]
  /\ contents' = contents \union {arg[w]}
  /\ UNCHANGED arg

Throw(w) ==
  /\ MayThrow
  /\ status[w] = "called"
  /\ status' = [status EXCEPT ![w] = "threw"]
  /\ UNCHANGED <<contents, arg>>

Return(w) ==
  /\ status[w] = "committed"
  /\ status' = [status EXCEPT ![w] = "idle"]
  /\ arg' = [arg EXCEPT ![w] = Null]
  /\ UNCHANGED contents

Next == \E w \in Writer : Commit(w) \/ Throw(w) \/ Return(w) \/ \E k \in Key : Call(w, k)

Spec == Init /\ [][Next]_vars
=============================================================================
