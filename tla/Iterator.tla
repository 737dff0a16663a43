------------------------------ MODULE Iterator ------------------------------
(***************************************************************************)
(* Readers beside the writers of Memtable: contains_target and             *)
(* BasicMemTable::Iterator.  A reader takes no lock and writes nothing     *)
(* shared.  It walks from node to node one load at a time, then loads the  *)
(* payload of the node it stopped at and snapshots its order word, and     *)
(* answers from that snapshot until it moves to another node.              *)
(*                                                                         *)
(* One action is one load of memory a writer may change, with the private  *)
(* computation that follows it.                                            *)
(***************************************************************************)
EXTENDS Memtable

CONSTANT
  Reader  \* threads, each with one iterator

VARIABLES
  it,     \* it[r]: the iterator of r and the locals of the call it is in
  seen,   \* seen[r]: history, the contents when the iterator loaded its payload
  base,   \* base[r]: history, the contents the call in progress must respect
  mark    \* mark[r]: history, the key the iterator was on when the call began

readerVars == <<it, seen, base, mark>>

\* it[r].op    the public operation under way, or the last one
\*      .pc    "idle", "walk" to a node, "load" its data, "snap" its order
\*      .rule  which nodes the walk may enter: those that start "atOrBelow" the
\*             target, or "below" the iterator's own first key, or "any"
\*      .aim   what to do with the snapshot: "find" the target in it, or take
\*             its "front" or its "back"
\*      .cur, .lv         the walk
\*      .node, .d, .snap  node_, data_ and order_
\*      .pos              pos_ + 1
\*      .found            the answer of contains_target
Fresh == [op |-> "none", pc |-> "idle", rule |-> "any", aim |-> "front",
          target |-> Null, cur |-> Null, lv |-> 0,
          node |-> Null, d |-> Null, snap |-> <<>>, pos |-> 0, found |-> FALSE]

Valid(i) == i.d # Null /\ i.pos \in DOMAIN i.snap
KeyOf(i) == KeyAt(i.d, i.snap, i.pos)

Walking(i, rule, aim) ==
  [i EXCEPT !.pc = "walk", !.rule = rule, !.aim = aim,
            !.cur = HeadNode, !.lv = MaxHeight - 1]
Adopting(i, n, aim) == [i EXCEPT !.pc = "load", !.cur = n, !.aim = aim]
Ended(i) == [i EXCEPT !.pc = "idle", !.d = Null]

\* Slip: the last key of a node is taken for its end.
SkipForwardEarly(i) ==
  IF i.pos < Len(i.snap) THEN [i EXCEPT !.pc = "idle"]
  ELSE IF next[i.d] = Null THEN Ended(i)
  ELSE Adopting(i, next[i.d], "front")

\* skip_forward: keep the position if there is a key, else go to the next node.
SkipForward(i) ==
  IF i.pos <= Len(i.snap) THEN [i EXCEPT !.pc = "idle"]
  ELSE IF next[i.d] = Null THEN Ended(i)
  ELSE Adopting(i, next[i.d], "front")

\* skip_backward: pred_node is null for the head and for an empty node.
SkipBackward(i) ==
  IF i.node = HeadNode \/ i.snap = <<>> THEN Ended(i) ELSE Walking(i, "below", "back")

Prev(i) ==
  IF i.pos > 1 THEN [i EXCEPT !.pc = "idle", !.pos = @ - 1] ELSE SkipBackward(i)

\* seek_for_prev, once its seek has come to rest.
AfterSeek(i) ==
  IF i.op # "seekForPrev" \/ i.pc # "idle" THEN i
  ELSE IF ~Valid(i) THEN Walking(i, "any", "back")
  ELSE IF KeyOf(i) > i.target THEN Prev(i)
  ELSE i

-----------------------------------------------------------------------------
(* Calls.                                                                  *)

Begin(r, i, contents) ==
  /\ it' = [it EXCEPT ![r] = i]
  /\ base' = [base EXCEPT ![r] = contents]
  /\ mark' = [mark EXCEPT ![r] = IF Valid(it[r]) THEN KeyOf(it[r]) ELSE Null]
  /\ UNCHANGED <<vars, seen>>

Ready(r) == it[r].pc = "idle"

Lookup(r, op, k) ==
  /\ Ready(r)
  /\ Begin(r, Walking([Fresh EXCEPT !.op = op, !.target = k], "atOrBelow", "find"), Contents)

ContainsTarget(r) == \E k \in Key : Lookup(r, "contains", k)
Seek(r) == \E k \in Key : Lookup(r, "seek", k)
SeekForPrev(r) == \E k \in Key : Lookup(r, "seekForPrev", k)

SeekToFirst(r) ==
  /\ Ready(r)
  /\ Begin(r, Adopting([Fresh EXCEPT !.op = "seekToFirst"], HeadNode, "front"), Contents)

SeekToLast(r) ==
  /\ Ready(r)
  /\ Begin(r, Walking([Fresh EXCEPT !.op = "seekToLast"], "any", "back"), Contents)

\* A step to the next key promises nothing of what was inserted after the
\* iterator took its snapshot.
NextKey(r) ==
  /\ Ready(r) /\ Valid(it[r])
  /\ Begin(r, SkipForward([it[r] EXCEPT !.op = "next", !.pos = @ + 1]), seen[r])

PrevKey(r) ==
  /\ Ready(r) /\ Valid(it[r])
  /\ Begin(r, Prev([it[r] EXCEPT !.op = "prev"]), seen[r])

-----------------------------------------------------------------------------
(* Steps of a call.                                                        *)

\* Slip: hints that tie count as not below.
StartsBelowByHint(n, k) ==
  IF HintOrdering THEN hint[n] < Hint[k] ELSE order[data[n]] # <<>> /\ FirstKey(n) < k

\* starts_strictly_below, asked of the key pred_node descends on.
StartsStrictlyBelow(n, k) ==
  IF HintOrdering /\ hint[n] # Hint[k]
  THEN hint[n] < Hint[k]
  ELSE order[data[n]] # <<>> /\ FirstKey(n) < k

\* Slip: pred_node descends as descend does.
MayEnterOwn(i, nx) ==
  /\ nx # Null
  /\ i.rule = "atOrBelow" => StartsAtOrBelow(nx, i.target)
  /\ i.rule = "below" => StartsAtOrBelow(nx, KeyAt(i.d, i.snap, 1))

MayEnter(i, nx) ==
  /\ nx # Null
  /\ i.rule = "atOrBelow" => StartsAtOrBelow(nx, i.target)
  /\ i.rule = "below" => nx # i.node /\ StartsStrictlyBelow(nx, KeyAt(i.d, i.snap, 1))

Becomes(r, i) == it' = [it EXCEPT ![r] = i]

WalkHop(r) ==
  LET nx == LinkOf(it[r].cur, it[r].lv)
  IN  /\ it[r].pc = "walk"
      /\ MayEnter(it[r], nx)
      /\ Becomes(r, [it[r] EXCEPT !.cur = nx])
      /\ UNCHANGED <<vars, seen, base, mark>>

WalkDown(r) ==
  /\ it[r].pc = "walk"
  /\ ~MayEnter(it[r], LinkOf(it[r].cur, it[r].lv))
  /\ it[r].lv > 0
  /\ Becomes(r, [it[r] EXCEPT !.lv = @ - 1])
  /\ UNCHANGED <<vars, seen, base, mark>>

WalkArrive(r) ==
  /\ it[r].pc = "walk"
  /\ ~MayEnter(it[r], LinkOf(it[r].cur, it[r].lv))
  /\ it[r].lv = 0
  /\ Becomes(r, [it[r] EXCEPT !.pc = "load"])
  /\ UNCHANGED <<vars, seen, base, mark>>

\* Slip: a reader waits for the writer of the node.
LoadUnlocked(r) ==
  /\ it[r].pc = "load"
  /\ lock[it[r].cur] = NoWriter
  /\ Becomes(r, [it[r] EXCEPT !.pc = "snap", !.node = it[r].cur, !.d = data[it[r].cur]])
  /\ seen' = [seen EXCEPT ![r] = Contents]
  /\ UNCHANGED <<vars, base, mark>>

\* adopt, and the loads of contains_target: the payload, a second time when a
\* walk came before.
Load(r) ==
  /\ it[r].pc = "load"
  /\ Becomes(r, [it[r] EXCEPT !.pc = "snap", !.node = it[r].cur, !.d = data[it[r].cur]])
  /\ seen' = [seen EXCEPT ![r] = Contents]
  /\ UNCHANGED <<vars, base, mark>>

\* adopt: one snapshot of the order word; whatever is computed from it follows.
Snap(r) ==
  LET o == order[it[r].d]
      i == [it[r] EXCEPT !.snap = o]
      p == SortedPosition(i.d, o, i.target) + 1
  IN  /\ it[r].pc = "snap"
      /\ \/ /\ i.aim = "find" /\ i.op = "contains"
            /\ Becomes(r, [Ended(i) EXCEPT !.found = p <= Len(o) /\ KeyAt(i.d, o, p) = i.target])
         \/ /\ i.aim = "find" /\ i.op # "contains"
            /\ Becomes(r, AfterSeek(SkipForward([i EXCEPT !.pos = p])))
         \/ /\ i.aim = "front"
            /\ Becomes(r, AfterSeek(SkipForward([i EXCEPT !.pos = 1])))
         \/ /\ i.aim = "back" /\ o # <<>>
            /\ Becomes(r, [i EXCEPT !.pc = "idle", !.pos = Len(o)])
         \/ /\ i.aim = "back" /\ o = <<>>
            /\ Becomes(r, SkipBackward([i EXCEPT !.pos = 0]))
      /\ UNCHANGED <<vars, seen, base, mark>>

Call(r) ==
  \/ ContainsTarget(r) \/ Seek(r) \/ SeekForPrev(r) \/ SeekToFirst(r) \/ SeekToLast(r)
  \/ NextKey(r) \/ PrevKey(r)

ReadStep(r) == WalkHop(r) \/ WalkDown(r) \/ WalkArrive(r) \/ Load(r) \/ Snap(r)

InitReader ==
  /\ Init
  /\ it = [r \in Reader |-> Fresh]
  /\ seen = [r \in Reader |-> {}]
  /\ base = [r \in Reader |-> {}]
  /\ mark = [r \in Reader |-> Null]

NextReader ==
  \/ Next /\ UNCHANGED readerVars
  \/ \E r \in Reader : Call(r) \/ ReadStep(r)

allVars == <<vars, readerVars>>
SpecReader == InitReader /\ [][NextReader]_allVars

\* Only the readers are sure to run: a writer may stop for good anywhere, with
\* a lock held, a payload half built or a sibling not yet indexed.
FairReader == SpecReader /\ \A r \in Reader : WF_allVars(ReadStep(r))

-----------------------------------------------------------------------------
(* Properties that hold.                                                   *)

Done(r, ops) == it[r].pc = "idle" /\ it[r].op \in ops

\* The iterator of r came to rest at the first key of S, if S has one.
AtLeast(r, S) ==
  IF S = {} THEN ~Valid(it[r]) ELSE Valid(it[r]) /\ KeyOf(it[r]) = Min(S)

AtGreatest(r, S) ==
  IF S = {} THEN ~Valid(it[r]) ELSE Valid(it[r]) /\ KeyOf(it[r]) = Max(S)

\* No reader ever sees a slot before its key: a key it reports has been
\* inserted, and so has one it says is present.
NoPhantoms ==
  \A r \in Reader : it[r].pc = "idle" =>
    /\ Valid(it[r]) => KeyOf(it[r]) \in Contents \ {Null}
    /\ it[r].found => it[r].target \in Contents

\* When no insert took effect during a call, and for next and prev since the
\* iterator came to its node, the answer is exact, whatever linking and half
\* done inserts it met.
ExactWhenQuiet ==
  \A r \in Reader : Contents = base[r] =>
    /\ Done(r, {"contains"}) => it[r].found = (it[r].target \in Contents)
    /\ Done(r, {"seek"}) => AtLeast(r, {k \in Contents : k >= it[r].target})
    /\ Done(r, {"seekForPrev"}) => AtGreatest(r, {k \in Contents : k <= it[r].target})
    /\ Done(r, {"seekToFirst"}) => AtLeast(r, Contents)
    /\ Done(r, {"seekToLast"}) => AtGreatest(r, Contents)
    /\ Done(r, {"next"}) => AtLeast(r, {k \in Contents : k > mark[r]})
    /\ Done(r, {"prev"}) => AtGreatest(r, {k \in Contents : k < mark[r]})

\* The lower end of what a forward step passed over.
Passed(r, k) ==
  CASE it[r].op = "next" -> k > mark[r]
    [] it[r].op = "seek" -> k >= it[r].target
    [] OTHER -> TRUE

\* Moving forward never leaves a key out, also while nodes split under the
\* reader: nothing that was there in time lies between where the step began and
\* the key it reports, or the end if it reports none.
ForwardSkipsNothing ==
  \A r \in Reader : Done(r, {"next", "seek", "seekToFirst"}) =>
    \A k \in base[r] : Passed(r, k) => Valid(it[r]) /\ KeyOf(it[r]) <= k

\* next only moves up, prev only down, and prev runs off the front only when
\* nothing is below.
StepsAreMonotone ==
  \A r \in Reader :
    /\ Done(r, {"next"}) /\ Valid(it[r]) => KeyOf(it[r]) > mark[r]
    /\ Done(r, {"prev"}) =>
         IF Valid(it[r]) THEN KeyOf(it[r]) < mark[r] ELSE \A k \in base[r] : k >= mark[r]

\* "A writer adding a key to this node cannot move a key out from under a walk
\* in progress": the key of a resting iterator changes only by its own calls.
RestingKeyIsStable ==
  [][\A r \in Reader :
        it[r].pc = "idle" /\ Valid(it[r]) /\ it'[r] = it[r] => KeyOf(it[r])' = KeyOf(it[r])]_allVars

\* Readers never wait for a writer: every call returns, whatever writers stop
\* in the middle of.
ReadersFinish == \A r \in Reader : it[r].pc # "idle" ~> it[r].pc = "idle"

-----------------------------------------------------------------------------
(* Properties the comments of the source state, and that the reload of     *)
(* cur->data after a walk breaks: the node may split in between.           *)

\* "A reader sees either the old full node or the new half-node pointing at a
\* fresh sibling, and never a state where a key is duplicated across both or
\* missing from both": a key that was there when contains_target was called is
\* found.
LookupFindsPresent ==
  \A r \in Reader : Done(r, {"contains"}) /\ it[r].target \in base[r] => it[r].found

\* "Last entry <= target": seek_for_prev never comes to rest above its target.
SeekForPrevLandsAtOrBelow ==
  \A r \in Reader :
    Done(r, {"seekForPrev"}) /\ Valid(it[r]) => KeyOf(it[r]) <= it[r].target

\* A step back skips no key that was there when the iterator came to its node.
PrevSkipsNothing ==
  \A r \in Reader : Done(r, {"prev"}) /\ Valid(it[r]) =>
    \A k \in base[r] : ~(KeyOf(it[r]) < k /\ k < mark[r])

=============================================================================
