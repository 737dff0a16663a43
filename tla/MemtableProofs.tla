--------------------------- MODULE MemtableProofs ---------------------------
(***************************************************************************)
(* For every number of writers, every set of keys and every capacity and   *)
(* height: Memtable keeps its types, a writer works only on the payload    *)
(* its locked node has, and no snapshot a reader took is ever revised.     *)
(***************************************************************************)
EXTENDS Memtable, FiniteSetTheorems, SequenceTheorems, TLAPS

-----------------------------------------------------------------------------
(* Sequences and sorted positions.                                         *)

\* InsertAt(s, i, e) is s with e at place i and the rest moved up.
LEMMA InsertAtProperties ==
  ASSUME NEW S, NEW s \in Seq(S), NEW i \in 1..(Len(s) + 1), NEW e \in S
  PROVE  /\ InsertAt(s, i, e) \in Seq(S) /\ Len(InsertAt(s, i, e)) = Len(s) + 1
         /\ \A j \in 1..(i - 1) : InsertAt(s, i, e)[j] = s[j]
         /\ InsertAt(s, i, e)[i] = e
         /\ \A j \in i..Len(s) : InsertAt(s, i, e)[j + 1] = s[j]
<1> SUFFICES ASSUME NEW new, new = InsertAt(s, i, e)
             PROVE  /\ new \in Seq(S) /\ Len(new) = Len(s) + 1
                    /\ \A j \in 1..(i - 1) : new[j] = s[j]
                    /\ new[i] = e
                    /\ \A j \in i..Len(s) : new[j + 1] = s[j]
  OBVIOUS
<1> DEFINE left == SubSeq(s, 1, i - 1)
           mid == <<e>>
           right == SubSeq(s, i, Len(s))
<1>1. Len(s) \in Nat /\ \A j \in 1..Len(s) : s[j] \in S
  BY LenProperties
<1>2. /\ left \in Seq(S) /\ Len(left) = i - 1
      /\ \A j \in 1..(i - 1) : left[j] = s[j]
  BY <1>1, SubSeqProperties
<1>3. /\ right \in Seq(S) /\ Len(right) = Len(s) - i + 1
      /\ \A j \in 1..(Len(s) - i + 1) : right[j] = s[i + j - 1]
  BY <1>1, SubSeqProperties
<1>4. mid \in Seq(S) /\ Len(mid) = 1 /\ mid[1] = e
  OBVIOUS
<1>5. InsertAt(s, i, e) = (left \o mid) \o right
  BY DEF InsertAt
<1> HIDE DEF left, mid, right
<1> DEFINE start == left \o mid
<1>6. /\ start \in Seq(S) /\ Len(start) = Len(left) + Len(mid)
      /\ \A j \in 1..(Len(left) + Len(mid)) :
           start[j] = IF j <= Len(left) THEN left[j] ELSE mid[j - Len(left)]
  BY <1>2, <1>4, ConcatProperties, Zenon
<1> HIDE DEF start
<1>a. start \in Seq(S) /\ right \in Seq(S)
  BY <1>3, <1>6
<1>7. /\ start \o right \in Seq(S)
      /\ Len(start \o right) = Len(start) + Len(right)
      /\ \A j \in 1..(Len(start) + Len(right)) :
           (start \o right)[j] = IF j <= Len(start) THEN start[j] ELSE right[j - Len(start)]
  BY <1>a, ConcatProperties, Zenon
<1>8. Len(start) = i /\ \A j \in 1..i : start[j] = IF j < i THEN s[j] ELSE e
  <2>1. Len(start) = i
    BY <1>2, <1>4, <1>6
  <2>2. ASSUME NEW j \in 1..i PROVE start[j] = IF j < i THEN s[j] ELSE e
    <3>1. j \in 1..(Len(left) + Len(mid))
      BY <1>2, <1>4
    <3>2. CASE j < i
      BY <3>1, <3>2, <1>2, <1>6
    <3>3. CASE j = i
      <4>1. j - Len(left) = 1 /\ ~(j <= Len(left))
        BY <1>2, <3>3
      <4> QED
        BY <3>1, <3>3, <4>1, <1>4, <1>6
    <3> QED
      BY <3>2, <3>3
  <2> QED
    BY <2>1, <2>2
<1>9. InsertAt(s, i, e) = start \o right
  BY <1>5 DEF start
<1> DEFINE whole == start \o right
<1>10. /\ whole \in Seq(S) /\ Len(whole) = Len(start) + Len(right)
       /\ \A j \in 1..(Len(start) + Len(right)) :
            whole[j] = IF j <= Len(start) THEN start[j] ELSE right[j - Len(start)]
  BY <1>7
<1> HIDE DEF whole
<1>11. new = whole
  BY <1>9 DEF whole
<1>12. Len(whole) = Len(s) + 1
  BY <1>1, <1>3, <1>8, <1>10
<1>13. ASSUME NEW j \in 1..(Len(s) + 1)
       PROVE  whole[j] = IF j < i THEN s[j] ELSE IF j = i THEN e ELSE s[j - 1]
  <2>1. whole[j] = IF j <= i THEN start[j] ELSE right[j - i]
    BY <1>1, <1>3, <1>8, <1>10
  <2>2. CASE j <= i
    BY <2>1, <2>2, <1>8
  <2>3. CASE j > i
    <3>1. j - i \in 1..(Len(s) - i + 1) /\ i + (j - i) - 1 = j - 1
      BY <1>1, <2>3
    <3>2. right[j - i] = s[j - 1]
      BY <3>1, <1>3
    <3> QED
      BY <2>1, <2>3, <3>2
  <2> QED
    BY <2>2, <2>3
<1>14. \A j \in 1..(i - 1) : whole[j] = s[j]
  BY <1>1, <1>13
<1>15. whole[i] = e
  BY <1>1, <1>13
<1>16. \A j \in i..Len(s) : whole[j + 1] = s[j]
  <2>1. ASSUME NEW j \in i..Len(s) PROVE whole[j + 1] = s[j]
    <3>1. j + 1 \in 1..(Len(s) + 1) /\ ~(j + 1 < i) /\ j + 1 # i /\ (j + 1) - 1 = j
      BY <1>1
    <3> QED
      BY <3>1, <1>13
  <2> QED
    BY <2>1
<1> QED
  BY <1>10, <1>11, <1>12, <1>14, <1>15, <1>16

\* sorted_position returns a rank of the payload, or the one past the last.
LEMMA PositionRange ==
  ASSUME NEW p, NEW o, NEW k, Len(o) \in Nat, DOMAIN o = 1..Len(o)
  PROVE  SortedPosition(p, o, k) \in 0..Len(o)
<1> DEFINE ranks == 1..Len(o)
           below == {r \in ranks : KeyAt(p, o, r) < k}
<1>1. /\ IsFiniteSet(ranks)
      /\ Cardinality(ranks) = IF 1 > Len(o) THEN 0 ELSE Len(o) - 1 + 1
  BY FS_Interval, 1 \in Int, Len(o) \in Int, Zenon
<1>2. below \in SUBSET ranks
  OBVIOUS
<1>3. SortedPosition(p, o, k) = Cardinality(below)
  BY DEF SortedPosition
<1> HIDE DEF below, ranks
<1>4. IsFiniteSet(below) /\ Cardinality(below) <= Cardinality(ranks)
  BY <1>1, <1>2, FS_Subset, Zenon
<1>5. Cardinality(below) \in Nat
  BY <1>4, FS_CardinalityType, Zenon
<1> QED
  BY <1>1, <1>3, <1>4, <1>5

-----------------------------------------------------------------------------
(* The runs of keys a split builds.                                        *)

\* The sizes, and where a full payload with one more key is cut: both halves
\* have a key, and both fit.
LEMMA SizeFacts ==
  /\ Capacity \in Nat /\ Capacity >= 1
  /\ MaxHeight \in Nat /\ MaxHeight >= 1
  /\ MaxTries \in Nat /\ MaxTries >= 1
  /\ Mid \in 1..Capacity /\ Capacity + 1 - Mid \in 1..Capacity
  /\ Key \subseteq Nat /\ Null \notin Key
BY SizeAssumption DEF Mid, Null

\* merge of a payload and a new key yields one key more than the payload has.
LEMMA MergedRun ==
  ASSUME TypeOK, PointersOK, SlotsOK, NEW p \in Payload, NEW k \in Key
  PROVE  Merged(p, k) \in Seq(Key) /\ Len(Merged(p, k)) = Len(order[p]) + 1
<1> DEFINE run == [r \in DOMAIN order[p] |-> KeyAt(p, order[p], r)]
           at == SortedPosition(p, order[p], k) + 1
<1>1. order[p] \in Seq(Slot)
  BY DEF TypeOK, Payload
<1>2. Len(order[p]) \in Nat /\ DOMAIN order[p] = 1..Len(order[p])
  BY <1>1
<1>3. \A r \in DOMAIN order[p] : KeyAt(p, order[p], r) \in Key
  BY DEF SlotsOK
<1>4. run \in Seq(Key) /\ Len(run) = Len(order[p])
  BY <1>2, <1>3
<1>5. at \in 1..(Len(run) + 1)
  BY <1>2, <1>4, PositionRange
<1> HIDE DEF run, at
<1>6. InsertAt(run, at, k) \in Seq(Key) /\ Len(InsertAt(run, at, k)) = Len(run) + 1
  BY <1>4, <1>5, InsertAtProperties
<1>7. Merged(p, k) = InsertAt(run, at, k)
  BY DEF Merged, run, at
<1> QED
  BY <1>4, <1>6, <1>7

\* Neither half of a split is empty, and neither overflows a payload.
LEMMA Halves ==
  ASSUME Ownership, NEW w \in Writer, pc[w] = "split"
  PROVE  /\ LeftRun(w) \in Seq(Key) /\ Len(LeftRun(w)) \in 1..Capacity
         /\ RightRun(w) \in Seq(Key) /\ Len(RightRun(w)) \in 1..Capacity
<1> DEFINE run == Merged(loc[w].d, loc[w].key)
<1>1. loc[w].d \in Payload /\ loc[w].key \in Key /\ Len(order[loc[w].d]) = Capacity
  BY DEF Ownership, PointersOK, LocalOK, LockOK, PendingOK, Working
<1>2. run \in Seq(Key) /\ Len(run) = Capacity + 1
  BY <1>1, MergedRun DEF Ownership
<1> HIDE DEF run
<1>3. \A j \in 1..(Capacity + 1) : run[j] \in Key
  BY <1>2, SizeFacts
<1>4. SubSeq(run, 1, Mid) \in Seq(Key) /\ Len(SubSeq(run, 1, Mid)) = Mid
  BY <1>3, SizeFacts, SubSeqProperties
<1>5. /\ SubSeq(run, Mid + 1, Capacity + 1) \in Seq(Key)
      /\ Len(SubSeq(run, Mid + 1, Capacity + 1)) = Capacity + 1 - Mid
  BY <1>3, SizeFacts, SubSeqProperties
<1> QED
  BY <1>4, <1>5, SizeFacts DEF LeftRun, RightRun, run

\* fill writes the run it is given, slot by slot, and an order word that names it.
LEMMA FilledPayload ==
  ASSUME NEW run \in Seq(Key), Len(run) \in 0..Capacity
  PROVE  /\ FilledKeys(run) \in [Slot -> Key \union {Null}]
         /\ FilledOrder(run) \in Seq(Slot) /\ Len(FilledOrder(run)) = Len(run)
         /\ \A r \in 1..Len(run) : FilledOrder(run)[r] = r /\ FilledKeys(run)[r] = run[r]
BY SizeFacts DEF FilledKeys, FilledOrder, Slot

-----------------------------------------------------------------------------
(* Ownership is inductive.                                                 *)

\* The head alone, with what was inserted before, is in order.
LEMMA OwnershipInit == Init => Ownership
<1> SUFFICES ASSUME Init PROVE Ownership
  OBVIOUS
<1> USE SizeFacts
<1>1. Preload \in Seq(Key) /\ Len(Preload) \in 0..Capacity
  BY PreloadAssumption
<1>2. TypeOK
  <2>1. hint \in Seq(Nat)
    BY <1>1, HintAssumption DEF Init
  <2>2. started \in SUBSET Key
    BY <1>1 DEF Init, ToSet
  <2>3. Idle \in Local
    BY DEF Idle, Local, Null
  <2>4. keys \in Seq([Slot -> Key \union {Null}]) /\ order \in Seq(Seq(Slot))
    BY <1>1, FilledPayload DEF Init
  <2>5. tower \in Seq([Level -> Nat])
    BY DEF Init, Null
  <2> QED
    BY <2>1, <2>2, <2>3, <2>4, <2>5, WriterAssumption DEF Init, TypeOK, Label, Null
<1>3. PointersOK
  BY DEF Init, PointersOK, Node, Payload, HeadNode, Null, Level
<1>4. \A w \in Writer : LocalOK(w) /\ LockOK(w) /\ PendingOK(w)
  BY DEF Init, LocalOK, LockOK, PendingOK, Holding, Working, Linking, Splitting,
         Building, Appending
<1>5. PayloadsOK
  BY DEF Init, PayloadsOK, Node, Building
<1>6. SlotsOK
  <2> DEFINE o == FilledOrder(Preload)
             ks == FilledKeys(Preload)
  <2>1. Payload = {1} /\ order[1] = o /\ keys[1] = ks
    BY DEF Init, Payload
  <2>2. /\ o \in Seq(Slot) /\ Len(o) = Len(Preload)
        /\ \A r \in 1..Len(Preload) : o[r] = r /\ ks[r] = Preload[r]
    BY <1>1, FilledPayload
  <2> HIDE DEF o, ks
  <2>3. \A r \in DOMAIN o : o[r] <= Len(o) /\ ks[o[r]] \in Key
    BY <1>1, <2>2
  <2> QED
    BY <1>1, <2>1, <2>2, <2>3 DEF SlotsOK, KeyAt
<1> QED
  BY <1>2, <1>3, <1>4, <1>5, <1>6 DEF Ownership

\* The other writers stay where they are.
LEMMA Frame ==
  ASSUME TypeOK, NEW w \in Writer, NEW l, NEW x,
         pc' = [pc EXCEPT ![w] = l], loc' = [loc EXCEPT ![w] = x]
  PROVE  /\ pc'[w] = l /\ loc'[w] = x
         /\ \A v \in Writer \ {w} : pc'[v] = pc[v] /\ loc'[v] = loc[v]
         /\ l \in Label => pc' \in [Writer -> Label]
         /\ x \in Local => loc' \in [Writer -> Local]
BY DEF TypeOK

\* A step that writes only the locals of one writer, and builds nothing.
LEMMA PrivateStep ==
  ASSUME Ownership, NEW w \in Writer, NEW l \in Label \ Building, NEW x \in Local,
         UNCHANGED <<payloadVars, nodeVars>>, started' \in SUBSET Key,
         pc' = [pc EXCEPT ![w] = l], loc' = [loc EXCEPT ![w] = x],
         LocalOK(w)', LockOK(w)', PendingOK(w)'
  PROVE  Ownership'
<1>1. /\ pc'[w] = l /\ \A v \in Writer \ {w} : pc'[v] = pc[v] /\ loc'[v] = loc[v]
      /\ pc' \in [Writer -> Label] /\ loc' \in [Writer -> Local]
  BY Frame DEF Ownership
<1>2. TypeOK'
  BY <1>1 DEF Ownership, TypeOK, payloadVars, nodeVars, Slot, Level
<1>3. PointersOK' /\ SlotsOK'
  BY DEF Ownership, PointersOK, SlotsOK, payloadVars, nodeVars, Node, Payload, KeyAt, Level
<1>4. PayloadsOK'
  BY <1>1 DEF Ownership, PayloadsOK, nodeVars, Node
<1>5. \A v \in Writer \ {w} : LocalOK(v)' /\ LockOK(v)' /\ PendingOK(v)'
  BY <1>1 DEF Ownership, LocalOK, LockOK, PendingOK, payloadVars, nodeVars, Node, Payload,
              Level, FreeSlot
<1> QED
  BY <1>2, <1>3, <1>4, <1>5 DEF Ownership

\* Updating some of a writer's locals leaves the others.
LEMMA UpdateCur ==
  ASSUME NEW l \in Local, NEW n \in Nat, NEW x, x = [l EXCEPT !.cur = n]
  PROVE  x \in Local /\ x.cur = n /\ x.key = l.key /\ x.lv = l.lv
BY DEF Local

\* The same, for another of them.
LEMMA UpdateLv ==
  ASSUME NEW l \in Local, NEW n \in 0..(MaxHeight - 1), NEW x, x = [l EXCEPT !.lv = n]
  PROVE  /\ x \in Local /\ x.lv = n /\ x.cur = l.cur /\ x.key = l.key /\ x.d = l.d
         /\ x.left = l.left /\ x.right = l.right /\ x.sib = l.sib
         /\ x.pred = l.pred /\ x.goal = l.goal
BY DEF Local

\* The same, for another of them.
LEMMA UpdateD ==
  ASSUME NEW l \in Local, NEW n \in Nat, NEW x, x = [l EXCEPT !.d = n]
  PROVE  x \in Local /\ x.d = n /\ x.cur = l.cur /\ x.key = l.key
BY DEF Local

\* The same, for another of them.
LEMMA UpdatePred ==
  ASSUME NEW l \in Local, NEW n \in Nat, NEW x, x = [l EXCEPT !.pred = n]
  PROVE  /\ x \in Local /\ x.pred = n /\ x.cur = l.cur /\ x.key = l.key
         /\ x.left = l.left /\ x.right = l.right /\ x.sib = l.sib
         /\ x.lv = l.lv /\ x.goal = l.goal
BY DEF Local

\* The same, for another of them.
LEMMA UpdateNx ==
  ASSUME NEW l \in Local, NEW n \in Nat, NEW x, x = [l EXCEPT !.nx = n]
  PROVE  /\ x \in Local /\ x.nx = n /\ x.cur = l.cur /\ x.key = l.key
         /\ x.left = l.left /\ x.right = l.right /\ x.sib = l.sib
         /\ x.pred = l.pred /\ x.goal = l.goal /\ x.lv = l.lv
BY DEF Local

\* A search for a predecessor starts at the head, at the top.
LEMMA FindingIsLocal ==
  ASSUME NEW l \in Local, NEW goal \in Level, NEW attempt \in 0..MaxTries, NEW x,
         x = Finding(l, goal, attempt)
  PROVE  /\ x \in Local /\ x.pred = HeadNode /\ x.goal = goal
         /\ x.lv \in Level /\ x.lv = MaxHeight - 1
         /\ x.cur = l.cur /\ x.key = l.key
         /\ x.left = l.left /\ x.right = l.right /\ x.sib = l.sib
<1> USE SizeFacts
<1>1. HeadNode \in Nat /\ MaxHeight - 1 \in Level /\ Level \subseteq 0..(MaxHeight - 1)
  BY DEF HeadNode, Level
<1>2. x = [l EXCEPT !.pred = HeadNode, !.lv = MaxHeight - 1, !.goal = goal, !.tries = attempt]
  BY DEF Finding
<1>3. MaxHeight - 1 \in 0..(MaxHeight - 1) /\ goal \in 0..(MaxHeight - 1)
  BY <1>1
<1>4. x \in Local
  BY <1>2, <1>1, <1>3 DEF Local
<1>5. x.pred = HeadNode /\ x.lv = MaxHeight - 1
  BY <1>2 DEF Local
<1>6. x.goal = goal
  BY <1>2 DEF Local
<1>7. x.cur = l.cur /\ x.key = l.key
  BY <1>2 DEF Local
<1>8. x.left = l.left /\ x.right = l.right /\ x.sib = l.sib
  BY <1>2 DEF Local
<1> QED
  BY <1>1, <1>4, <1>5, <1>6, <1>7, <1>8

\* So does a descent.
LEMMA DescendingIsLocal ==
  ASSUME NEW k \in Key
  PROVE  Descending(k) \in Local /\ Descending(k).cur = HeadNode /\ Descending(k).key = k
<1> USE SizeFacts DEF Local, HeadNode, Null
<1>1. Idle \in Local
  BY DEF Idle
<1>2. Descending(k) = [Idle EXCEPT !.key = k, !.cur = HeadNode, !.lv = MaxHeight - 1]
  BY DEF Descending
<1>3. ASSUME NEW l \in Local, NEW x,
             x = [l EXCEPT !.key = k, !.cur = HeadNode, !.lv = MaxHeight - 1]
      PROVE  x \in Local /\ x.cur = HeadNode /\ x.key = k
  <2>1. k \in Key \union {Null} /\ HeadNode \in Nat /\ MaxHeight - 1 \in 0..(MaxHeight - 1)
    OBVIOUS
  <2>2. x \in Local
    BY <1>3, <2>1
  <2>3. x.cur = HeadNode
    BY <1>3
  <2>4. x.key = k
    BY <1>3
  <2> QED
    BY <2>2, <2>3, <2>4
<1> QED
  BY <1>1, <1>2, <1>3

-----------------------------------------------------------------------------
(* The steps that write only the locals of their writer.                   *)

\* A call begins: nothing shared changes.
LEMMA InsertKeeps ==
  ASSUME Ownership, NEW w \in Writer, NEW k \in Key, Insert(w, k)
  PROVE  Ownership'
<1>1. Descending(k) \in Local /\ Descending(k).cur = HeadNode /\ Descending(k).key = k
  BY DescendingIsLocal
<1>2. /\ "descend" \in Label \ Building
      /\ pc' = [pc EXCEPT ![w] = "descend"] /\ loc' = [loc EXCEPT ![w] = Descending(k)]
      /\ UNCHANGED <<payloadVars, nodeVars>> /\ started' \in SUBSET Key
  BY DEF Insert, Goto, Label, Building, Ownership, TypeOK
<1>3. pc'[w] = "descend" /\ loc'[w] = Descending(k)
  BY <1>2 DEF Ownership, TypeOK
<1>4. HeadNode \in Node'
  BY <1>2 DEF Ownership, PointersOK, Node, nodeVars
<1>5. LocalOK(w)' /\ LockOK(w)' /\ PendingOK(w)'
  BY <1>1, <1>3, <1>4 DEF LocalOK, LockOK, PendingOK, Working, Linking, Splitting, Holding,
     Building, Appending
<1> QED
  BY <1>1, <1>2, <1>5, PrivateStep

\* A descent follows a link to a node that exists.
LEMMA HopForwardKeeps ==
  ASSUME Ownership, NEW w \in Writer, HopForward(w)
  PROVE  Ownership'
<1> DEFINE nx == LinkOf(loc[w].cur, loc[w].lv)
           x == [loc[w] EXCEPT !.cur = nx]
<1>1. loc[w] \in Local /\ pc[w] = "descend" /\ nx # Null
      /\ loc[w].cur \in Node /\ loc[w].key \in Key /\ loc[w].lv \in 0..(MaxHeight - 1)
  BY DEF Ownership, TypeOK, LocalOK, HopForward, MayHop, Local
<1>2. nx \in Node
  BY <1>1, SizeFacts DEF Ownership, PointersOK, LinkOf, Level
<1>3. x \in Local /\ x.cur = nx /\ x.key = loc[w].key
  <2> HIDE DEF nx
  <2>1. nx \in Nat
    BY <1>2 DEF Node
  <2> QED
    BY <1>1, <2>1, UpdateCur
<1>4. /\ pc' = [pc EXCEPT ![w] = "descend"] /\ loc' = [loc EXCEPT ![w] = x]
      /\ "descend" \in Label \ Building
      /\ UNCHANGED <<payloadVars, nodeVars>> /\ started' \in SUBSET Key
  BY <1>1 DEF HopForward, Label, Building, Ownership, TypeOK
<1> HIDE DEF x, nx
<1>5. pc'[w] = "descend" /\ loc'[w] = x /\ nx \in Node'
  BY <1>2, <1>4 DEF Ownership, TypeOK, Node, nodeVars
<1>6. LocalOK(w)' /\ LockOK(w)' /\ PendingOK(w)'
  BY <1>1, <1>3, <1>5 DEF LocalOK, LockOK, PendingOK, Working, Linking, Splitting, Holding,
     Building, Appending
<1> QED
  BY <1>3, <1>4, <1>6, PrivateStep

\* A descent drops a level.
LEMMA HopDownKeeps ==
  ASSUME Ownership, NEW w \in Writer, HopDown(w)
  PROVE  Ownership'
<1> DEFINE x == [loc[w] EXCEPT !.lv = loc[w].lv - 1]
<1>1. loc[w] \in Local /\ pc[w] = "descend" /\ loc[w].lv - 1 \in 0..(MaxHeight - 1)
      /\ loc[w].cur \in Node /\ loc[w].key \in Key
  <2>1. loc[w] \in Local /\ pc[w] = "descend" /\ loc[w].lv > 0
        /\ loc[w].cur \in Node /\ loc[w].key \in Key
    BY DEF Ownership, TypeOK, LocalOK, HopDown
  <2>2. loc[w].lv \in 0..(MaxHeight - 1)
    BY <2>1 DEF Local
  <2> QED
    BY <2>1, <2>2, SizeFacts
<1>2. x \in Local /\ x.cur = loc[w].cur /\ x.key = loc[w].key
  BY <1>1, UpdateLv
<1>3. /\ pc' = [pc EXCEPT ![w] = "descend"] /\ loc' = [loc EXCEPT ![w] = x]
      /\ "descend" \in Label \ Building
      /\ UNCHANGED <<payloadVars, nodeVars>> /\ started' \in SUBSET Key
  BY <1>1 DEF HopDown, Label, Building, Ownership, TypeOK
<1> HIDE DEF x
<1>4. pc'[w] = "descend" /\ loc'[w] = x /\ x.cur \in Node'
  BY <1>1, <1>2, <1>3 DEF Ownership, TypeOK, Node, nodeVars
<1>5. LocalOK(w)' /\ LockOK(w)' /\ PendingOK(w)'
  BY <1>1, <1>2, <1>4 DEF LocalOK, LockOK, PendingOK, Working, Linking, Splitting, Holding,
     Building, Appending
<1> QED
  BY <1>2, <1>3, <1>5, PrivateStep

\* A descent ends at level 0.
LEMMA ArriveKeeps ==
  ASSUME Ownership, NEW w \in Writer, Arrive(w)
  PROVE  Ownership'
<1>1. loc[w] \in Local /\ pc[w] = "descend" /\ loc[w].cur \in Node /\ loc[w].key \in Key
  BY DEF Ownership, TypeOK, LocalOK, Arrive
<1>2. /\ pc' = [pc EXCEPT ![w] = "lock"] /\ loc' = [loc EXCEPT ![w] = loc[w]]
      /\ "lock" \in Label \ Building
      /\ UNCHANGED <<payloadVars, nodeVars>> /\ started' \in SUBSET Key
  BY DEF Arrive, Goto, Label, Building, Ownership, TypeOK
<1>3. pc'[w] = "lock" /\ loc'[w] = loc[w] /\ loc[w].cur \in Node'
  BY <1>1, <1>2 DEF Ownership, TypeOK, Node, nodeVars
<1>4. LocalOK(w)' /\ LockOK(w)' /\ PendingOK(w)'
  BY <1>1, <1>3 DEF LocalOK, LockOK, PendingOK, Working, Linking, Splitting, Holding,
     Building, Appending
<1> QED
  BY <1>1, <1>2, <1>4, PrivateStep

\* An exception leaves the writer in no call, and everything as it was.
LEMMA AllocationThrowsKeeps ==
  ASSUME Ownership, NEW w \in Writer, AllocationThrows(w)
  PROVE  Ownership'
<1>1. loc[w] \in Local /\ pc[w] = "split" /\ loc[w].cur \in Node /\ loc[w].key \in Key
  BY DEF Ownership, TypeOK, LocalOK, AllocationThrows
<1>2. /\ pc' = [pc EXCEPT ![w] = "threw"] /\ loc' = [loc EXCEPT ![w] = loc[w]]
      /\ "threw" \in Label \ Building
      /\ UNCHANGED <<payloadVars, nodeVars>> /\ started' \in SUBSET Key
  BY DEF AllocationThrows, Goto, Label, Building, Ownership, TypeOK
<1>3. pc'[w] = "threw" /\ loc'[w] = loc[w] /\ loc[w].cur \in Node'
  BY <1>1, <1>2 DEF Ownership, TypeOK, Node, nodeVars
<1>4. LocalOK(w)' /\ LockOK(w)' /\ PendingOK(w)'
  BY <1>1, <1>3 DEF LocalOK, LockOK, PendingOK, Working, Linking, Splitting, Holding,
     Building, Appending
<1> QED
  BY <1>1, <1>2, <1>4, PrivateStep

\* The writer that holds the lock reads the payload and finds it the right one.
LEMMA AdmitKeeps ==
  ASSUME Ownership, NEW w \in Writer, Admit(w)
  PROVE  Ownership'
<1> DEFINE d == data[loc[w].cur]
           l == IF HasRoom(d) THEN "slot" ELSE "split"
           x == [loc[w] EXCEPT !.d = d]
<1>1. /\ loc[w] \in Local /\ pc[w] = "check" /\ loc[w].cur \in Node /\ loc[w].key \in Key
      /\ lock[loc[w].cur] = w
  BY DEF Ownership, TypeOK, LocalOK, LockOK, Admit, Holding
<1>2. d \in Payload /\ Len(order[d]) \in Nat /\ Len(order[d]) <= Capacity
  BY <1>1 DEF Ownership, TypeOK, PointersOK, SlotsOK, Payload
<1>3. x \in Local /\ x.d = d /\ x.cur = loc[w].cur /\ x.key = loc[w].key
  <2>1. d \in Nat
    BY <1>2 DEF Payload
  <2> HIDE DEF d
  <2> QED
    BY <1>1, <2>1, UpdateD
<1>4. /\ pc' = [pc EXCEPT ![w] = l] /\ loc' = [loc EXCEPT ![w] = x]
      /\ l \in Label \ Building
      /\ UNCHANGED <<payloadVars, nodeVars>> /\ started' \in SUBSET Key
  BY DEF Admit, Goto, HasRoom, Label, Building, Ownership, TypeOK
<1>5. /\ l = "slot" => Len(order[d]) < Capacity
      /\ l = "split" => Len(order[d]) = Capacity
      /\ l \in {"slot", "split"}
  BY <1>2, SizeFacts DEF HasRoom
<1>6. data' = data /\ order' = order /\ lock' = lock /\ data[x.cur] = d
  BY <1>3, <1>4 DEF payloadVars, nodeVars
<1> HIDE DEF x, d, l
<1>7. pc'[w] = l /\ loc'[w] = x /\ x.cur \in Node'
  BY <1>1, <1>3, <1>4, <1>6 DEF Ownership, TypeOK, Node
<1>8. LocalOK(w)' /\ LockOK(w)' /\ PendingOK(w)'
  BY <1>1, <1>3, <1>5, <1>6, <1>7 DEF LocalOK, LockOK, PendingOK, Working, Linking,
     Splitting, Holding, Building, Appending
<1> QED
  BY <1>3, <1>4, <1>8, PrivateStep

\* The search for a predecessor follows a link to a node that exists.
LEMMA FindHopKeeps ==
  ASSUME Ownership, NEW w \in Writer, FindHop(w)
  PROVE  Ownership'
<1> DEFINE nx == tower[loc[w].pred][loc[w].lv]
           x == [loc[w] EXCEPT !.pred = nx]
<1>1. /\ loc[w] \in Local /\ pc[w] = "find" /\ nx # Null
      /\ loc[w].cur \in Node /\ loc[w].key \in Key
      /\ loc[w].sib \in Node /\ loc[w].left \in Payload /\ loc[w].right \in Payload
      /\ loc[w].pred \in Node /\ loc[w].lv \in Level /\ loc[w].goal \in Level
      /\ lock[loc[w].cur] = w
  BY DEF Ownership, TypeOK, LocalOK, LockOK, FindHop, MayFind, Splitting, Linking, Holding
<1>2. nx \in Node
  BY <1>1 DEF Ownership, PointersOK
<1>3. /\ x \in Local /\ x.pred = nx /\ x.cur = loc[w].cur /\ x.key = loc[w].key
      /\ x.left = loc[w].left /\ x.right = loc[w].right /\ x.sib = loc[w].sib
      /\ x.lv = loc[w].lv /\ x.goal = loc[w].goal
  <2>1. nx \in Nat
    BY <1>2 DEF Node
  <2> HIDE DEF nx
  <2> QED
    BY <1>1, <2>1, UpdatePred
<1>4. /\ pc' = [pc EXCEPT ![w] = "find"] /\ loc' = [loc EXCEPT ![w] = x]
      /\ "find" \in Label \ Building
      /\ UNCHANGED <<payloadVars, nodeVars>> /\ started' \in SUBSET Key
  BY <1>1 DEF FindHop, Label, Building, Ownership, TypeOK
<1> HIDE DEF x, nx
<1>5. pc'[w] = "find" /\ loc'[w] = x
  BY <1>4 DEF Ownership, TypeOK
<1>6. Node' = Node /\ Payload' = Payload /\ lock' = lock
  BY <1>4 DEF Node, Payload, nodeVars, payloadVars
<1>7. LocalOK(w)'
  BY <1>1, <1>2, <1>3, <1>5, <1>6 DEF LocalOK, Linking, Splitting
<1>8. LockOK(w)' /\ PendingOK(w)'
  BY <1>1, <1>3, <1>5, <1>6 DEF LockOK, PendingOK, Holding, Working, Appending, Building
<1> QED
  BY <1>3, <1>4, <1>7, <1>8, PrivateStep

\* The search drops a level, and stays at level 1 or above.
LEMMA FindDownKeeps ==
  ASSUME Ownership, NEW w \in Writer, FindDown(w)
  PROVE  Ownership'
<1> DEFINE x == [loc[w] EXCEPT !.lv = loc[w].lv - 1]
<1>1. /\ loc[w] \in Local /\ pc[w] = "find" /\ loc[w].lv > loc[w].goal
      /\ loc[w].cur \in Node /\ loc[w].key \in Key
      /\ loc[w].sib \in Node /\ loc[w].left \in Payload /\ loc[w].right \in Payload
      /\ loc[w].pred \in Node /\ loc[w].lv \in Level /\ loc[w].goal \in Level
      /\ lock[loc[w].cur] = w
  BY DEF Ownership, TypeOK, LocalOK, LockOK, FindDown, Splitting, Linking, Holding
<1>2. loc[w].lv - 1 \in Level /\ loc[w].lv - 1 \in 0..(MaxHeight - 1)
  BY <1>1, SizeFacts DEF Level
<1>3. /\ x \in Local /\ x.lv \in Level /\ x.cur = loc[w].cur /\ x.key = loc[w].key
      /\ x.left = loc[w].left /\ x.right = loc[w].right /\ x.sib = loc[w].sib
      /\ x.pred = loc[w].pred /\ x.goal = loc[w].goal
  BY <1>1, <1>2, UpdateLv
<1>4. /\ pc' = [pc EXCEPT ![w] = "find"] /\ loc' = [loc EXCEPT ![w] = x]
      /\ "find" \in Label \ Building
      /\ UNCHANGED <<payloadVars, nodeVars>> /\ started' \in SUBSET Key
  BY <1>1 DEF FindDown, Label, Building, Ownership, TypeOK
<1> HIDE DEF x
<1>5. pc'[w] = "find" /\ loc'[w] = x
  BY <1>4 DEF Ownership, TypeOK
<1>6. Node' = Node /\ Payload' = Payload /\ lock' = lock
  BY <1>4 DEF Node, Payload, nodeVars, payloadVars
<1>7. LocalOK(w)'
  BY <1>1, <1>3, <1>5, <1>6 DEF LocalOK, Linking, Splitting
<1>8. LockOK(w)' /\ PendingOK(w)'
  BY <1>1, <1>3, <1>5, <1>6 DEF LockOK, PendingOK, Holding, Working, Appending, Building
<1> QED
  BY <1>3, <1>4, <1>7, <1>8, PrivateStep

\* The search ends at the level to link.
LEMMA FindArriveKeeps ==
  ASSUME Ownership, NEW w \in Writer, FindArrive(w)
  PROVE  Ownership'
<1>1. /\ loc[w] \in Local /\ pc[w] = "find"
      /\ loc[w].cur \in Node /\ loc[w].key \in Key
      /\ loc[w].sib \in Node /\ loc[w].left \in Payload /\ loc[w].right \in Payload
      /\ loc[w].pred \in Node /\ loc[w].goal \in Level
      /\ lock[loc[w].cur] = w
  BY DEF Ownership, TypeOK, LocalOK, LockOK, FindArrive, Splitting, Linking, Holding
<1>2. /\ pc' = [pc EXCEPT ![w] = "link"] /\ loc' = [loc EXCEPT ![w] = loc[w]]
      /\ "link" \in Label \ Building
      /\ UNCHANGED <<payloadVars, nodeVars>> /\ started' \in SUBSET Key
  BY <1>1 DEF FindArrive, Goto, Label, Building, Ownership, TypeOK
<1>3. pc'[w] = "link" /\ loc'[w] = loc[w]
  BY <1>2 DEF Ownership, TypeOK
<1>4. Node' = Node /\ Payload' = Payload /\ lock' = lock
  BY <1>2 DEF Node, Payload, nodeVars, payloadVars
<1>5. LocalOK(w)'
  BY <1>1, <1>3, <1>4 DEF LocalOK, Linking, Splitting
<1>6. LockOK(w)' /\ PendingOK(w)'
  BY <1>1, <1>3, <1>4 DEF LockOK, PendingOK, Holding, Working, Appending, Building
<1> QED
  BY <1>1, <1>2, <1>5, <1>6, PrivateStep

\* A level is done with: the search for a predecessor at the next one begins, or
\* the call goes on to unlock.
LEMMA LevelDone ==
  ASSUME Ownership, NEW w \in Writer, pc[w] \in {"link", "cas"}, NextLevel(w)
  PROVE  \E l \in {"find", "unlock"}, x \in Local :
           /\ pc' = [pc EXCEPT ![w] = l] /\ loc' = [loc EXCEPT ![w] = x]
           /\ x.cur = loc[w].cur /\ x.key = loc[w].key
           /\ x.left = loc[w].left /\ x.right = loc[w].right /\ x.sib = loc[w].sib
           /\ l = "find" => /\ x.pred = HeadNode /\ x.lv = MaxHeight - 1 /\ x.lv \in Level
                            /\ x.goal \in Level /\ x.goal = loc[w].goal + 1
                            /\ x.goal < height[loc[w].sib]
<1>1. /\ loc[w] \in Local /\ pc \in [Writer -> Label] /\ loc \in [Writer -> Local]
      /\ loc[w].sib \in Node /\ loc[w].goal \in Level /\ height[loc[w].sib] \in 1..MaxHeight
  <2>1. /\ loc[w] \in Local /\ pc \in [Writer -> Label] /\ loc \in [Writer -> Local]
        /\ loc[w].sib \in Node /\ loc[w].goal \in Level
    BY DEF Ownership, TypeOK, LocalOK, Splitting, Linking
  <2>2. height \in Seq(1..MaxHeight)
    BY DEF Ownership, TypeOK
  <2>3. Len(height) = Len(data)
    BY DEF Ownership, PointersOK
  <2>4. \A n \in Node : height[n] \in 1..MaxHeight
    BY <2>2, <2>3, SizeFacts, ElementOfSeq DEF Node
  <2> QED
    BY <2>1, <2>4
<1>2. CASE loc[w].goal + 1 < height[loc[w].sib]
  <2> DEFINE x == Finding(loc[w], loc[w].goal + 1, 1)
  <2>1. loc[w].goal + 1 \in Level /\ 1 \in 0..MaxTries
    BY <1>1, <1>2, SizeFacts DEF Level
  <2>2. pc' = [pc EXCEPT ![w] = "find"] /\ loc' = [loc EXCEPT ![w] = x]
    BY <1>2 DEF NextLevel, Goto
  <2>3. /\ x \in Local /\ x.pred = HeadNode /\ x.lv \in Level /\ x.lv = MaxHeight - 1
        /\ x.goal = loc[w].goal + 1
        /\ x.cur = loc[w].cur /\ x.key = loc[w].key
        /\ x.left = loc[w].left /\ x.right = loc[w].right /\ x.sib = loc[w].sib
    BY <1>1, <2>1, FindingIsLocal
  <2> HIDE DEF x
  <2> QED
    BY <1>2, <2>1, <2>2, <2>3
<1>3. CASE ~(loc[w].goal + 1 < height[loc[w].sib])
  <2>1. pc' = [pc EXCEPT ![w] = "unlock"] /\ loc' = [loc EXCEPT ![w] = loc[w]]
    BY <1>1, <1>3 DEF NextLevel, Goto
  <2> QED
    BY <1>1, <2>1
<1> QED
  BY <1>2, <1>3

\* An attempt is done with: the search begins again, or the level is given up.
LEMMA AttemptDone ==
  ASSUME Ownership, NEW w \in Writer, pc[w] \in {"link", "cas"}, NextLevel(w) \/ Retry(w)
  PROVE  \E l \in {"find", "unlock"}, x \in Local :
           /\ pc' = [pc EXCEPT ![w] = l] /\ loc' = [loc EXCEPT ![w] = x]
           /\ x.cur = loc[w].cur /\ x.key = loc[w].key
           /\ x.left = loc[w].left /\ x.right = loc[w].right /\ x.sib = loc[w].sib
           /\ l = "find" => /\ x.pred = HeadNode /\ x.lv = MaxHeight - 1 /\ x.lv \in Level
                            /\ x.goal \in Level
                            /\ \/ x.goal = loc[w].goal
                               \/ x.goal = loc[w].goal + 1 /\ x.goal < height[loc[w].sib]
<1>1. CASE Retry(w) /\ loc[w].tries < MaxTries
  <2> DEFINE x == Finding(loc[w], loc[w].goal, loc[w].tries + 1)
  <2>1. loc[w] \in Local /\ loc[w].tries \in 0..MaxTries /\ loc[w].goal \in Level
    BY DEF Ownership, TypeOK, LocalOK, Linking, Local
  <2>2. loc[w].tries + 1 \in 0..MaxTries
    BY <1>1, <2>1, SizeFacts
  <2>3. pc' = [pc EXCEPT ![w] = "find"] /\ loc' = [loc EXCEPT ![w] = x]
    BY <1>1 DEF Retry, Goto
  <2>4. /\ x \in Local /\ x.pred = HeadNode /\ x.lv \in Level /\ x.lv = MaxHeight - 1
        /\ x.goal = loc[w].goal
        /\ x.cur = loc[w].cur /\ x.key = loc[w].key
        /\ x.left = loc[w].left /\ x.right = loc[w].right /\ x.sib = loc[w].sib
    <3>1. PICK g, a, y, z : g = loc[w].goal /\ a = loc[w].tries + 1 /\ y = loc[w] /\ z = x
      OBVIOUS
    <3>2. z = Finding(y, g, a) /\ y \in Local /\ g \in Level /\ a \in 0..MaxTries
      BY <2>1, <2>2, <3>1
    <3> HIDE DEF x
    <3>3. /\ z \in Local /\ z.pred = HeadNode /\ z.lv \in Level /\ z.lv = MaxHeight - 1
          /\ z.goal = g /\ z.cur = y.cur /\ z.key = y.key
          /\ z.left = y.left /\ z.right = y.right /\ z.sib = y.sib
      BY <3>2, FindingIsLocal
    <3> QED
      BY <3>1, <3>3
  <2> HIDE DEF x
  <2> QED
    BY <2>1, <2>3, <2>4
<1>2. CASE NextLevel(w)
  BY <1>2, LevelDone
<1> QED
  BY <1>1, <1>2 DEF Retry

\* An attempt to link fails: nothing shared changes.
LEMMA FailedAttemptKeeps ==
  ASSUME Ownership, NEW w \in Writer, LinkBehind(w) \/ LinkCasFails(w)
  PROVE  Ownership'
<1>1. /\ pc[w] \in {"link", "cas"} /\ Retry(w)
      /\ UNCHANGED <<payloadVars, nodeVars>> /\ started' \in SUBSET Key
  BY DEF LinkBehind, LinkCasFails, Ownership, TypeOK
<1>2. PICK l \in {"find", "unlock"}, x \in Local :
           /\ pc' = [pc EXCEPT ![w] = l] /\ loc' = [loc EXCEPT ![w] = x]
           /\ x.cur = loc[w].cur /\ x.key = loc[w].key
           /\ x.left = loc[w].left /\ x.right = loc[w].right /\ x.sib = loc[w].sib
           /\ l = "find" => x.pred = HeadNode /\ x.goal \in Level /\ x.lv \in Level
  BY <1>1, AttemptDone
<1>3. pc'[w] = l /\ loc'[w] = x /\ l \in Label \ Building
  BY <1>2 DEF Ownership, TypeOK, Label, Building
<1>4. /\ Node' = Node /\ Payload' = Payload /\ lock' = lock /\ HeadNode \in Node
      /\ loc[w].cur \in Node /\ loc[w].key \in Key /\ lock[loc[w].cur] = w
      /\ loc[w].sib \in Node /\ loc[w].left \in Payload /\ loc[w].right \in Payload
  BY <1>1 DEF Node, Payload, nodeVars, payloadVars, Ownership, PointersOK, LocalOK, LockOK,
     Splitting, Linking, Holding
<1>5. LocalOK(w)'
  BY <1>2, <1>3, <1>4 DEF LocalOK, Linking, Splitting
<1>6. LockOK(w)' /\ PendingOK(w)'
  BY <1>2, <1>3, <1>4 DEF LockOK, PendingOK, Holding, Working, Appending, Building
<1> QED
  BY <1>1, <1>2, <1>3, <1>5, <1>6, PrivateStep

-----------------------------------------------------------------------------
(* The steps other threads can see.                                        *)

\* Two writers at work have different nodes and different payloads.
LEMMA Apart ==
  ASSUME Ownership, NEW w \in Writer, NEW v \in Writer, v # w, pc[w] \in Working
  PROVE  /\ pc[v] \in Holding => loc[v].cur # loc[w].cur
         /\ pc[v] \in Working => loc[v].d # loc[w].d
         /\ pc[v] \in Building => loc[v].left # loc[w].d
<1>1. /\ loc[w].cur \in Node /\ lock[loc[w].cur] = w /\ data[loc[w].cur] = loc[w].d
  BY DEF Ownership, LocalOK, LockOK, Holding, Working
<1>2. pc[v] \in Holding => loc[v].cur \in Node /\ lock[loc[v].cur] = v
  BY DEF Ownership, LocalOK, LockOK, Holding, Working, Linking
<1>3. pc[v] \in Working => pc[v] \in Holding /\ data[loc[v].cur] = loc[v].d
  BY DEF Ownership, LockOK, Holding
<1> QED
  BY <1>1, <1>2, <1>3 DEF Ownership, PayloadsOK

\* What a step must leave alone for another writer to stay in order.
LEMMA OthersKeep ==
  ASSUME Ownership, NEW v \in Writer,
         pc'[v] = pc[v], loc'[v] = loc[v], Node \subseteq Node', Payload \subseteq Payload',
         pc[v] \in Holding => lock'[loc[v].cur] = lock[loc[v].cur],
         pc[v] \in Working => /\ data'[loc[v].cur] = data[loc[v].cur]
                              /\ order'[loc[v].d] = order[loc[v].d],
         pc[v] \in {"hint", "order"} => keys'[loc[v].d] = keys[loc[v].d],
         pc[v] \in Building => keys'[loc[v].left] = keys[loc[v].left]
  PROVE  LocalOK(v)' /\ LockOK(v)' /\ PendingOK(v)'
<1>1. LocalOK(v)'
  BY DEF Ownership, LocalOK
<1>2. LockOK(v)'
  BY DEF Ownership, LockOK
<1>3. PendingOK(v)'
  BY DEF Ownership, PendingOK, Appending, Working, Building, FreeSlot
<1> QED
  BY <1>1, <1>2, <1>3

\* A lock is taken when it is free, or given back by its holder.
LEMMA LockStep ==
  ASSUME Ownership, NEW w \in Writer, NEW l \in Label \ Building, NEW x \in Local,
         NEW holder \in Writer \union {NoWriter},
         loc[w].cur \in Node, lock[loc[w].cur] \in {w, NoWriter},
         lock' = [lock EXCEPT ![loc[w].cur] = holder],
         UNCHANGED <<payloadVars, data, hint, height, tower, started>>,
         pc' = [pc EXCEPT ![w] = l], loc' = [loc EXCEPT ![w] = x],
         LocalOK(w)', LockOK(w)', PendingOK(w)'
  PROVE  Ownership'
<1>1. /\ pc'[w] = l /\ \A v \in Writer \ {w} : pc'[v] = pc[v] /\ loc'[v] = loc[v]
      /\ pc' \in [Writer -> Label] /\ loc' \in [Writer -> Local]
  BY Frame DEF Ownership
<1>2. lock' \in Seq(Writer \union {NoWriter}) /\ Len(lock') = Len(lock)
  BY DEF Ownership, TypeOK, PointersOK, Node
<1>3. TypeOK'
  BY <1>1, <1>2 DEF Ownership, TypeOK, payloadVars, Slot, Level
<1>4. PointersOK' /\ SlotsOK'
  BY <1>2 DEF Ownership, PointersOK, SlotsOK, payloadVars, Node, Payload, KeyAt, Level
<1>5. PayloadsOK'
  BY <1>1 DEF Ownership, PayloadsOK, Node
<1>6. ASSUME NEW v \in Writer \ {w} PROVE LocalOK(v)' /\ LockOK(v)' /\ PendingOK(v)'
  <2>1. pc[v] \in Holding => lock[loc[v].cur] = v /\ loc[v].cur \in Node
    BY DEF Ownership, LockOK, LocalOK, Holding, Working, Linking
  <2>2. pc[v] \in Holding => lock'[loc[v].cur] = lock[loc[v].cur]
    BY <2>1, <1>2, WriterAssumption DEF Ownership, TypeOK
  <2> QED
    BY <1>1, <2>2, OthersKeep DEF payloadVars, Node, Payload
<1> QED
  BY <1>3, <1>4, <1>5, <1>6 DEF Ownership

\* A free lock is taken.
LEMMA AcquireKeeps ==
  ASSUME Ownership, NEW w \in Writer, Acquire(w)
  PROVE  Ownership'
<1>1. /\ loc[w] \in Local /\ pc[w] = "lock" /\ loc[w].cur \in Node /\ loc[w].key \in Key
      /\ lock[loc[w].cur] = NoWriter
  BY DEF Ownership, TypeOK, LocalOK, Acquire
<1>2. /\ pc' = [pc EXCEPT ![w] = "check"] /\ loc' = [loc EXCEPT ![w] = loc[w]]
      /\ "check" \in Label \ Building
      /\ lock' = [lock EXCEPT ![loc[w].cur] = w]
      /\ UNCHANGED <<payloadVars, data, hint, height, tower, started>>
  BY DEF Acquire, Goto, Label, Building, Ownership, TypeOK
<1>3. pc'[w] = "check" /\ loc'[w] = loc[w] /\ loc[w].cur \in Node'
  BY <1>1, <1>2 DEF Ownership, TypeOK, Node
<1>4. lock'[loc[w].cur] = w
  BY <1>1, <1>2 DEF Ownership, TypeOK, PointersOK, Node
<1>5. LocalOK(w)' /\ LockOK(w)' /\ PendingOK(w)'
  BY <1>1, <1>3, <1>4 DEF LocalOK, LockOK, PendingOK, Working, Linking, Splitting, Holding,
     Building, Appending
<1> QED
  BY <1>1, <1>2, <1>5, LockStep

\* The lock is given back without having written.
LEMMA BackoutKeeps ==
  ASSUME Ownership, NEW w \in Writer, Backout(w)
  PROVE  Ownership'
<1> DEFINE x == Descending(loc[w].key)
<1>1. /\ pc[w] = "check" /\ loc[w].cur \in Node /\ loc[w].key \in Key
      /\ lock[loc[w].cur] = w
  BY DEF Ownership, LocalOK, LockOK, Holding, Backout
<1>2. x \in Local /\ x.cur = HeadNode /\ x.key = loc[w].key
  BY <1>1, DescendingIsLocal
<1>3. /\ pc' = [pc EXCEPT ![w] = "descend"] /\ loc' = [loc EXCEPT ![w] = x]
      /\ "descend" \in Label \ Building
      /\ lock' = [lock EXCEPT ![loc[w].cur] = NoWriter]
      /\ UNCHANGED <<payloadVars, data, hint, height, tower, started>>
  BY DEF Backout, Release, Goto, Label, Building
<1> HIDE DEF x
<1>4. pc'[w] = "descend" /\ loc'[w] = x /\ HeadNode \in Node'
  BY <1>3 DEF Ownership, TypeOK, PointersOK, Node
<1>5. LocalOK(w)' /\ LockOK(w)' /\ PendingOK(w)'
  BY <1>1, <1>2, <1>4 DEF LocalOK, LockOK, PendingOK, Working, Linking, Splitting, Holding,
     Building, Appending
<1> QED
  BY <1>1, <1>2, <1>3, <1>5, LockStep

\* The lock is given back at the end of the call.
LEMMA UnlockKeeps ==
  ASSUME Ownership, NEW w \in Writer, Unlock(w)
  PROVE  Ownership'
<1>1. pc[w] = "unlock" /\ loc[w].cur \in Node /\ lock[loc[w].cur] = w
  BY DEF Ownership, LocalOK, LockOK, Holding, Unlock
<1>2. Idle \in Local
  BY SizeFacts DEF Idle, Local, Null
<1>3. /\ pc' = [pc EXCEPT ![w] = "idle"] /\ loc' = [loc EXCEPT ![w] = Idle]
      /\ "idle" \in Label \ Building
      /\ lock' = [lock EXCEPT ![loc[w].cur] = NoWriter]
      /\ UNCHANGED <<payloadVars, data, hint, height, tower, started>>
  BY DEF Unlock, Release, Goto, Label, Building
<1>4. pc'[w] = "idle"
  BY <1>3 DEF Ownership, TypeOK
<1>5. LocalOK(w)' /\ LockOK(w)' /\ PendingOK(w)'
  BY <1>4 DEF LocalOK, LockOK, PendingOK, Working, Linking, Splitting, Holding, Building,
     Appending
<1> QED
  BY <1>1, <1>2, <1>3, <1>5, LockStep

\* The key goes to a slot no order word names: other payloads, and what this
\* one holds, stay.
LEMMA AppendSlotKeeps ==
  ASSUME Ownership, NEW w \in Writer, AppendSlot(w)
  PROVE  Ownership'
<1> DEFINE d == loc[w].d
           slot == Len(order[d]) + 1
           l == IF IsFirst(w) THEN "hint" ELSE "order"
<1>1. /\ loc[w] \in Local /\ pc[w] = "slot" /\ loc[w].cur \in Node /\ loc[w].key \in Key
      /\ lock[loc[w].cur] = w /\ data[loc[w].cur] = d /\ Len(order[d]) < Capacity
  BY DEF Ownership, TypeOK, LocalOK, LockOK, PendingOK, Holding, Working, Appending, AppendSlot
<1>2. d \in Payload /\ order[d] \in Seq(Slot) /\ keys[d] \in [Slot -> Key \union {Null}]
  <2>1. d \in Payload
    BY <1>1 DEF Ownership, PointersOK
  <2> QED
    BY <2>1 DEF Ownership, TypeOK, PointersOK, Payload
<1>3. slot \in Slot
  BY <1>1, <1>2, SizeFacts DEF Slot
<1>4. /\ keys' = [keys EXCEPT ![d][slot] = loc[w].key]
      /\ UNCHANGED <<order, next, nodeVars, started>>
      /\ pc' = [pc EXCEPT ![w] = l] /\ loc' = [loc EXCEPT ![w] = loc[w]]
      /\ l \in Label
  BY DEF AppendSlot, FreeSlot, Goto, Label, Ownership, TypeOK
<1>5. l \in {"hint", "order"}
  OBVIOUS
<1> HIDE DEF l
<1>6. /\ pc'[w] = l /\ loc'[w] = loc[w]
      /\ \A v \in Writer \ {w} : pc'[v] = pc[v] /\ loc'[v] = loc[v]
      /\ pc' \in [Writer -> Label] /\ loc' \in [Writer -> Local]
  BY <1>1, <1>4, Frame DEF Ownership
<1>7. /\ keys' \in Seq([Slot -> Key \union {Null}]) /\ Len(keys') = Len(keys)
      /\ keys'[d][slot] = loc[w].key
      /\ \A p \in Payload : p # d => keys'[p] = keys[p]
      /\ \A s \in Slot : s # slot => keys'[d][s] = keys[d][s]
  <2> DEFINE new == [keys[d] EXCEPT ![slot] = loc[w].key]
  <2>1. keys' = [keys EXCEPT ![d] = new]
    BY <1>4
  <2>2. /\ new \in [Slot -> Key \union {Null}] /\ new[slot] = loc[w].key
        /\ \A s \in Slot : s # slot => new[s] = keys[d][s]
    BY <1>1, <1>2, <1>3
  <2> HIDE DEF new, d, slot
  <2>3. keys \in Seq([Slot -> Key \union {Null}]) /\ d \in 1..Len(keys)
    BY <1>2 DEF Ownership, TypeOK, PointersOK, Payload
  <2>4. /\ keys' \in Seq([Slot -> Key \union {Null}]) /\ Len(keys') = Len(keys)
        /\ keys'[d] = new /\ \A p \in 1..Len(keys) : p # d => keys'[p] = keys[p]
    BY <2>1, <2>2, <2>3, ExceptSeq
  <2> QED
    BY <2>2, <2>4 DEF Ownership, PointersOK, Payload
<1>8. TypeOK'
  BY <1>4, <1>6, <1>7 DEF Ownership, TypeOK, nodeVars, Slot, Level
<1>9. PointersOK'
  BY <1>4, <1>7 DEF Ownership, PointersOK, nodeVars, Node, Payload, Level
<1>10. SlotsOK'
  <2>1. ASSUME NEW p \in Payload, NEW r \in DOMAIN order[p]
        PROVE  order[p][r] <= Len(order[p]) /\ keys'[p][order[p][r]] \in Key
    <3>1. order[p][r] \in Slot /\ order[p][r] <= Len(order[p]) /\ keys[p][order[p][r]] \in Key
      BY <2>1 DEF Ownership, SlotsOK, KeyAt, TypeOK, Payload
    <3>2. CASE p = d
      BY <1>2, <1>7, <3>1, <3>2
    <3>3. CASE p # d
      BY <1>7, <3>1, <3>3
    <3> QED
      BY <3>2, <3>3
  <2> QED
    BY <1>4, <2>1 DEF Ownership, SlotsOK, KeyAt, Payload
<1>11. PayloadsOK'
  BY <1>4, <1>5, <1>6 DEF Ownership, PayloadsOK, nodeVars, Node, Building
<1>12. LocalOK(w)' /\ LockOK(w)' /\ PendingOK(w)'
  BY <1>1, <1>4, <1>5, <1>6, <1>7 DEF LocalOK, LockOK, PendingOK, Working, Linking,
     Splitting, Holding, Building, Appending, FreeSlot, Node, nodeVars
<1>13. ASSUME NEW v \in Writer \ {w} PROVE LocalOK(v)' /\ LockOK(v)' /\ PendingOK(v)'
  <2>1. /\ pc[v] \in Working => loc[v].d # d
        /\ pc[v] \in Building => loc[v].left # d
    BY <1>1, Apart DEF Working
  <2>2. pc[v] \in {"hint", "order"} => loc[v].d \in Payload
    BY DEF Ownership, LockOK, LocalOK, PointersOK, Working
  <2>3. pc[v] \in Building => loc[v].left \in Payload
    BY DEF Ownership, LocalOK, Building, Splitting
  <2> QED
    BY <1>4, <1>6, <1>7, <2>1, <2>2, <2>3, OthersKeep DEF nodeVars, Node, Payload, Working
<1> QED
  BY <1>8, <1>9, <1>10, <1>11, <1>12, <1>13 DEF Ownership

\* A free slot put at its rank: what the order word then names is written.
LEMMA OneMoreSlot ==
  ASSUME NEW s \in Seq(Slot), NEW i \in 1..(Len(s) + 1), NEW e \in Slot, NEW ks,
         Len(s) < Capacity, e = Len(s) + 1, ks[e] \in Key,
         \A j \in DOMAIN s : s[j] <= Len(s) /\ ks[s[j]] \in Key,
         NEW new, new = InsertAt(s, i, e)
  PROVE  /\ new \in Seq(Slot) /\ Len(new) <= Capacity
         /\ \A j \in DOMAIN new : new[j] <= Len(new) /\ ks[new[j]] \in Key
<1>1. /\ new \in Seq(Slot) /\ Len(new) = Len(s) + 1
      /\ \A j \in 1..(i - 1) : new[j] = s[j]
      /\ new[i] = e
      /\ \A j \in i..Len(s) : new[j + 1] = s[j]
  <2>1. new \in Seq(Slot) /\ Len(new) = Len(s) + 1
    BY InsertAtProperties
  <2>2. new[i] = e
    BY InsertAtProperties
  <2>3. \A j \in 1..(i - 1) : new[j] = s[j]
    BY InsertAtProperties
  <2>4. \A j \in i..Len(s) : new[j + 1] = s[j]
    BY InsertAtProperties
  <2> QED
    BY <2>1, <2>2, <2>3, <2>4
<1>2. /\ Len(s) \in Nat /\ DOMAIN s = 1..Len(s) /\ DOMAIN new = 1..(Len(s) + 1)
      /\ \A j \in 1..Len(s) : s[j] \in Nat
  <2>1. Len(s) \in Nat /\ DOMAIN s = 1..Len(s) /\ DOMAIN new = 1..(Len(s) + 1)
    BY <1>1, LenProperties
  <2>2. \A j \in 1..Len(s) : s[j] \in Slot
    BY ElementOfSeq
  <2> QED
    BY <2>1, <2>2, SizeFacts DEF Slot
<1>3. Len(new) <= Capacity
  BY <1>1, <1>2, SizeFacts
<1>4. ASSUME NEW j \in 1..(Len(s) + 1) PROVE new[j] <= Len(new) /\ ks[new[j]] \in Key
  <2>1. CASE j < i
    <3>1. new[j] = s[j] /\ j \in 1..Len(s)
      BY <1>1, <1>2, <2>1
    <3> QED
      BY <1>1, <1>2, <3>1
  <2>2. CASE j = i
    <3>1. new[j] = e
      BY <1>1, <2>2
    <3> QED
      BY <1>1, <1>2, <3>1
  <2>3. CASE j > i
    <3>1. j - 1 \in i..Len(s) /\ (j - 1) + 1 = j
      BY <1>2, <2>3
    <3>2. new[j] = s[j - 1] /\ j - 1 \in DOMAIN s
      BY <1>1, <1>2, <3>1
    <3>3. s[j - 1] <= Len(s) /\ ks[s[j - 1]] \in Key
      BY <3>2
    <3>4. s[j - 1] \in Nat
      BY <1>2, <3>2
    <3>5. new[j] <= Len(new)
      BY <1>1, <1>2, <3>2, <3>3, <3>4
    <3> QED
      BY <3>2, <3>3, <3>5
  <2> QED
    BY <1>2, <2>1, <2>2, <2>3
<1> QED
  BY <1>1, <1>2, <1>3, <1>4

\* An insertion loses nothing.
LEMMA InsertAtKeeps ==
  ASSUME NEW S, NEW s \in Seq(S), NEW i \in 1..(Len(s) + 1), NEW e \in S,
         NEW new, new = InsertAt(s, i, e)
  PROVE  ToSet(s) \subseteq ToSet(new)
<1>1. /\ new \in Seq(S) /\ Len(new) = Len(s) + 1
      /\ \A j \in 1..(i - 1) : new[j] = s[j]
      /\ \A j \in i..Len(s) : new[j + 1] = s[j]
  <2>1. new \in Seq(S)
    BY InsertAtProperties
  <2>2. Len(new) = Len(s) + 1
    BY InsertAtProperties
  <2>3. \A j \in 1..(i - 1) : new[j] = s[j]
    BY InsertAtProperties
  <2>4. \A j \in i..Len(s) : new[j + 1] = s[j]
    BY InsertAtProperties
  <2> QED
    BY <2>1, <2>2, <2>3, <2>4
<1>2. Len(s) \in Nat /\ DOMAIN s = 1..Len(s) /\ DOMAIN new = 1..(Len(s) + 1)
  BY <1>1, LenProperties
<1>3. ASSUME NEW j \in 1..Len(s) PROVE \E m \in 1..(Len(s) + 1) : new[m] = s[j]
  <2>1. CASE j < i
    <3>1. j \in 1..(i - 1) /\ j \in 1..(Len(s) + 1)
      BY <1>2, <2>1
    <3>2. new[j] = s[j]
      BY <1>1, <3>1
    <3> QED
      BY <3>1, <3>2
  <2>2. CASE j >= i
    <3>1. j + 1 \in 1..(Len(s) + 1) /\ j \in i..Len(s)
      BY <1>2, <2>2
    <3>2. new[j + 1] = s[j]
      BY <1>1, <3>1
    <3> QED
      BY <3>1, <3>2
  <2> QED
    BY <1>2, <2>1, <2>2
<1> QED
  BY <1>2, <1>3 DEF ToSet

\* The order word gains one slot, whose key is written.
LEMMA AppendOrderKeeps ==
  ASSUME Ownership, NEW w \in Writer, AppendOrder(w)
  PROVE  Ownership'
<1> DEFINE d == loc[w].d
           slot == Len(order[d]) + 1
           new == InsertAt(order[d], Rank(w), slot)
<1>1. /\ loc[w] \in Local /\ pc[w] = "order" /\ loc[w].cur \in Node /\ loc[w].key \in Key
      /\ lock[loc[w].cur] = w /\ data[loc[w].cur] = d /\ Len(order[d]) < Capacity
      /\ keys[d][slot] = loc[w].key
  BY DEF Ownership, TypeOK, LocalOK, LockOK, PendingOK, Holding, Working, Appending, AppendOrder,
         FreeSlot
<1>2. d \in Payload /\ order[d] \in Seq(Slot)
  <2>1. d \in Payload
    BY <1>1 DEF Ownership, PointersOK
  <2> QED
    BY <2>1 DEF Ownership, TypeOK, PointersOK, Payload
<1>3. slot \in Slot /\ Rank(w) \in 1..(Len(order[d]) + 1)
  <2>1. slot \in Slot
    BY <1>1, <1>2, SizeFacts DEF Slot
  <2>2. SortedPosition(d, order[d], loc[w].key) \in 0..Len(order[d])
    BY <1>2, PositionRange
  <2> QED
    BY <1>2, <2>1, <2>2 DEF Rank
<1>4. /\ new \in Seq(Slot) /\ Len(new) <= Capacity
      /\ \A r \in DOMAIN new : new[r] <= Len(new) /\ keys[d][new[r]] \in Key
  <2>1. \A r \in DOMAIN order[d] :
          order[d][r] <= Len(order[d]) /\ keys[d][order[d][r]] \in Key
    BY <1>2 DEF Ownership, SlotsOK, KeyAt
  <2>2. slot = Len(order[d]) + 1 /\ keys[d][slot] \in Key /\ Len(order[d]) < Capacity
        /\ new = InsertAt(order[d], Rank(w), slot)
    BY <1>1
  <2> HIDE DEF new, slot, d
  <2> QED
    BY <1>2, <1>3, <2>1, <2>2, OneMoreSlot, Zenon
<1>5. /\ order' = [order EXCEPT ![d] = new]
      /\ UNCHANGED <<keys, next, nodeVars, started>>
      /\ pc' = [pc EXCEPT ![w] = "unlock"] /\ loc' = [loc EXCEPT ![w] = loc[w]]
      /\ "unlock" \in Label
  BY DEF AppendOrder, FreeSlot, Goto, Label, Ownership, TypeOK
<1> HIDE DEF new
<1>6. /\ pc'[w] = "unlock" /\ loc'[w] = loc[w]
      /\ \A v \in Writer \ {w} : pc'[v] = pc[v] /\ loc'[v] = loc[v]
      /\ pc' \in [Writer -> Label] /\ loc' \in [Writer -> Local]
  BY <1>1, <1>5, Frame DEF Ownership
<1>7. /\ order' \in Seq(Seq(Slot)) /\ Len(order') = Len(order) /\ order'[d] = new
      /\ \A p \in Payload : p # d => order'[p] = order[p]
  BY <1>2, <1>4, <1>5 DEF Ownership, TypeOK, Payload
<1>8. TypeOK'
  BY <1>5, <1>6, <1>7 DEF Ownership, TypeOK, nodeVars, Slot, Level
<1>9. PointersOK'
  BY <1>5, <1>7 DEF Ownership, PointersOK, nodeVars, Node, Payload, Level
<1>10. SlotsOK'
  <2>1. ASSUME NEW p \in Payload, p # d
        PROVE  /\ Len(order'[p]) <= Capacity
               /\ \A r \in DOMAIN order'[p] :
                    order'[p][r] <= Len(order'[p]) /\ keys[p][order'[p][r]] \in Key
    BY <1>7, <2>1 DEF Ownership, SlotsOK, KeyAt
  <2> QED
    BY <1>4, <1>5, <1>7, <2>1 DEF SlotsOK, KeyAt, Payload
<1>11. PayloadsOK'
  BY <1>5, <1>6 DEF Ownership, PayloadsOK, nodeVars, Node, Building
<1>12. LocalOK(w)' /\ LockOK(w)' /\ PendingOK(w)'
  BY <1>1, <1>5, <1>6 DEF LocalOK, LockOK, PendingOK, Working, Linking,
     Splitting, Holding, Building, Appending, Node, nodeVars
<1>13. ASSUME NEW v \in Writer \ {w} PROVE LocalOK(v)' /\ LockOK(v)' /\ PendingOK(v)'
  <2>1. pc[v] \in Working => loc[v].d # d
    BY <1>1, Apart DEF Working
  <2>2. pc[v] \in Working => loc[v].d \in Payload
    BY DEF Ownership, LockOK, LocalOK, PointersOK, Working
  <2> QED
    BY <1>5, <1>6, <1>7, <2>1, <2>2, OthersKeep DEF nodeVars, Node, Payload
<1> QED
  BY <1>8, <1>9, <1>10, <1>11, <1>12, <1>13 DEF Ownership

\* A step that writes only hints and tower links.
LEMMA IndexStep ==
  ASSUME Ownership, NEW w \in Writer, NEW l \in Label, NEW x \in Local,
         UNCHANGED <<payloadVars, data, lock, height, started>>,
         hint' \in Seq(Nat), Len(hint') = Len(hint),
         tower' \in Seq([Level -> Nat]), Len(tower') = Len(tower),
         \A n \in Node, k \in Level : tower'[n][k] \in Node \union {Null},
         pc' = [pc EXCEPT ![w] = l], loc' = [loc EXCEPT ![w] = x],
         l \in Building => pc[w] \in Building /\ x.left = loc[w].left,
         LocalOK(w)', LockOK(w)', PendingOK(w)'
  PROVE  Ownership'
<1>1. /\ pc'[w] = l /\ loc'[w] = x
      /\ \A v \in Writer \ {w} : pc'[v] = pc[v] /\ loc'[v] = loc[v]
      /\ pc' \in [Writer -> Label] /\ loc' \in [Writer -> Local]
  BY Frame DEF Ownership
<1>2. TypeOK'
  BY <1>1 DEF Ownership, TypeOK, payloadVars, Slot, Level
<1>3. PointersOK' /\ SlotsOK'
  BY DEF Ownership, PointersOK, SlotsOK, payloadVars, Node, Payload, KeyAt, Level
<1>4. PayloadsOK'
  BY <1>1 DEF Ownership, PayloadsOK, Node
<1>5. ASSUME NEW v \in Writer \ {w} PROVE LocalOK(v)' /\ LockOK(v)' /\ PendingOK(v)'
  BY <1>1, OthersKeep DEF payloadVars, Node, Payload
<1> QED
  BY <1>2, <1>3, <1>4, <1>5 DEF Ownership

\* A hint is overwritten by the hint of a key.
LEMMA HintWrite ==
  ASSUME TypeOK, PointersOK, NEW n \in Node, NEW k \in Key,
         hint' = [hint EXCEPT ![n] = Hint[k]]
  PROVE  hint' \in Seq(Nat) /\ Len(hint') = Len(hint)
<1>1. Hint[k] \in Nat /\ hint \in Seq(Nat) /\ n \in 1..Len(hint)
  BY HintAssumption DEF TypeOK, PointersOK, Node
<1> QED
  BY <1>1, ExceptSeq

\* Links that are not written stay in order.
LEMMA TowerUntouched ==
  ASSUME TypeOK, PointersOK, UNCHANGED tower
  PROVE  /\ tower' \in Seq([Level -> Nat]) /\ Len(tower') = Len(tower)
         /\ \A n \in Node, k \in Level : tower'[n][k] \in Node \union {Null}
BY DEF TypeOK, PointersOK

\* One link is overwritten by another that names a node.
LEMMA TowerWrite ==
  ASSUME TypeOK, PointersOK, NEW n \in Node, NEW k \in Level, NEW m \in Node \union {Null},
         tower' = [tower EXCEPT ![n][k] = m]
  PROVE  /\ tower' \in Seq([Level -> Nat]) /\ Len(tower') = Len(tower)
         /\ \A a \in Node, b \in Level : tower'[a][b] \in Node \union {Null}
<1> DEFINE links == [tower[n] EXCEPT ![k] = m]
<1>1. tower \in Seq([Level -> Nat]) /\ n \in 1..Len(tower) /\ m \in Nat
  BY DEF TypeOK, PointersOK, Node, Null
<1>2. tower[n] \in [Level -> Nat]
  BY <1>1, ElementOfSeq
<1>3. links \in [Level -> Nat] /\ \A b \in Level : links[b] = IF b = k THEN m ELSE tower[n][b]
  BY <1>1, <1>2
<1>4. tower' = [tower EXCEPT ![n] = links]
  OBVIOUS
<1> HIDE DEF links
<1>5. /\ tower' \in Seq([Level -> Nat]) /\ Len(tower') = Len(tower)
      /\ tower'[n] = links /\ \A a \in 1..Len(tower) : a # n => tower'[a] = tower[a]
  BY <1>1, <1>3, <1>4, ExceptSeq
<1>6. ASSUME NEW a \in Node, NEW b \in Level PROVE tower'[a][b] \in Node \union {Null}
  <2>1. tower[a][b] \in Node \union {Null} /\ a \in 1..Len(tower)
    BY DEF PointersOK, Node
  <2> QED
    BY <2>1, <1>3, <1>5
<1> QED
  BY <1>5, <1>6

\* The hint of the node follows its new first key.
LEMMA AppendHintKeeps ==
  ASSUME Ownership, NEW w \in Writer, AppendHint(w)
  PROVE  Ownership'
<1>1. /\ loc[w] \in Local /\ pc[w] = "hint" /\ loc[w].cur \in Node /\ loc[w].key \in Key
      /\ lock[loc[w].cur] = w /\ data[loc[w].cur] = loc[w].d
      /\ Len(order[loc[w].d]) < Capacity /\ keys[loc[w].d][FreeSlot(w)] = loc[w].key
  BY DEF Ownership, TypeOK, LocalOK, LockOK, PendingOK, Holding, Working, Appending, AppendHint
<1>2. /\ pc' = [pc EXCEPT ![w] = "order"] /\ loc' = [loc EXCEPT ![w] = loc[w]]
      /\ "order" \in Label \ Building
      /\ hint' = [hint EXCEPT ![loc[w].cur] = Hint[loc[w].key]]
      /\ UNCHANGED <<payloadVars, data, lock, height, tower, started>>
  BY DEF AppendHint, Goto, Label, Building, Ownership, TypeOK
<1>3. hint' \in Seq(Nat) /\ Len(hint') = Len(hint)
  BY <1>1, <1>2, HintWrite DEF Ownership
<1>4. pc'[w] = "order" /\ loc'[w] = loc[w]
  BY <1>1, <1>2 DEF Ownership, TypeOK
<1>5. LocalOK(w)' /\ LockOK(w)' /\ PendingOK(w)'
  BY <1>1, <1>2, <1>4 DEF LocalOK, LockOK, PendingOK, Working, Linking, Splitting, Holding,
     Building, Appending, FreeSlot, payloadVars, Node
<1>6. /\ tower' \in Seq([Level -> Nat]) /\ Len(tower') = Len(tower)
      /\ \A n \in Node, k \in Level : tower'[n][k] \in Node \union {Null}
  BY <1>2, TowerUntouched DEF Ownership
<1> QED
  BY <1>1, <1>2, <1>3, <1>5, <1>6, IndexStep

\* The hint of the node that splits is set to that of its left half.
LEMMA SplitHintKeeps ==
  ASSUME Ownership, NEW w \in Writer, SplitHint(w)
  PROVE  Ownership'
<1>1. /\ loc[w] \in Local /\ pc[w] = "splitHint" /\ loc[w].cur \in Node /\ loc[w].key \in Key
      /\ lock[loc[w].cur] = w /\ data[loc[w].cur] = loc[w].d
      /\ loc[w].sib \in Node /\ loc[w].left \in Payload /\ loc[w].right \in Payload
      /\ keys[loc[w].left][1] \in Key
  BY DEF Ownership, TypeOK, LocalOK, LockOK, PendingOK, Holding, Working, Splitting, Building,
         SplitHint
<1>2. /\ pc' = [pc EXCEPT ![w] = "splitData"] /\ loc' = [loc EXCEPT ![w] = loc[w]]
      /\ "splitData" \in Label
      /\ hint' = [hint EXCEPT ![loc[w].cur] = Hint[keys[loc[w].left][1]]]
      /\ UNCHANGED <<payloadVars, data, lock, height, tower, started>>
  BY DEF SplitHint, Goto, Label, Ownership, TypeOK
<1>3. hint' \in Seq(Nat) /\ Len(hint') = Len(hint)
  BY <1>1, <1>2, HintWrite DEF Ownership
<1>4. pc'[w] = "splitData" /\ loc'[w] = loc[w] /\ pc[w] \in Building
  BY <1>1, <1>2 DEF Ownership, TypeOK, Building
<1>5. LocalOK(w)' /\ LockOK(w)' /\ PendingOK(w)'
  BY <1>1, <1>2, <1>4 DEF LocalOK, LockOK, PendingOK, Working, Linking, Splitting, Holding,
     Building, Appending, payloadVars, Node, Payload
<1>6. /\ tower' \in Seq([Level -> Nat]) /\ Len(tower') = Len(tower)
      /\ \A n \in Node, k \in Level : tower'[n][k] \in Node \union {Null}
  BY <1>2, TowerUntouched DEF Ownership
<1> QED
  BY <1>1, <1>2, <1>3, <1>4, <1>5, <1>6, IndexStep

\* The sibling takes over the link of its predecessor.
LEMMA LinkLoadKeeps ==
  ASSUME Ownership, NEW w \in Writer, LinkLoad(w)
  PROVE  Ownership'
<1> DEFINE nx == tower[loc[w].pred][loc[w].goal]
           x == [loc[w] EXCEPT !.nx = nx]
<1>1. /\ loc[w] \in Local /\ pc[w] = "link" /\ loc[w].cur \in Node /\ loc[w].key \in Key
      /\ lock[loc[w].cur] = w
      /\ loc[w].sib \in Node /\ loc[w].left \in Payload /\ loc[w].right \in Payload
      /\ loc[w].pred \in Node /\ loc[w].goal \in Level
  BY DEF Ownership, TypeOK, LocalOK, LockOK, Holding, Splitting, Linking, LinkLoad
<1>2. nx \in Node \union {Null} /\ nx \in Nat
  BY <1>1 DEF Ownership, PointersOK, Node, Null
<1>3. /\ x \in Local /\ x.nx = nx /\ x.cur = loc[w].cur /\ x.key = loc[w].key
      /\ x.left = loc[w].left /\ x.right = loc[w].right /\ x.sib = loc[w].sib
      /\ x.pred = loc[w].pred /\ x.goal = loc[w].goal
  BY <1>1, <1>2, UpdateNx
<1>4. /\ pc' = [pc EXCEPT ![w] = "cas"] /\ loc' = [loc EXCEPT ![w] = x]
      /\ "cas" \in Label \ Building
      /\ tower' = [tower EXCEPT ![loc[w].sib][loc[w].goal] = nx]
      /\ UNCHANGED <<payloadVars, data, hint, lock, height, started>>
  BY DEF LinkLoad, Goto, Label, Building
<1> HIDE DEF x, nx
<1>5. /\ tower' \in Seq([Level -> Nat]) /\ Len(tower') = Len(tower)
      /\ \A n \in Node, k \in Level : tower'[n][k] \in Node \union {Null}
  BY <1>1, <1>2, <1>4, TowerWrite DEF Ownership
<1>6. pc'[w] = "cas" /\ loc'[w] = x
  BY <1>4 DEF Ownership, TypeOK
<1>7. LocalOK(w)' /\ LockOK(w)' /\ PendingOK(w)'
  BY <1>1, <1>2, <1>3, <1>4, <1>6 DEF LocalOK, LockOK, PendingOK, Working, Linking, Splitting,
     Holding, Building, Appending, payloadVars, Node, Payload
<1>8. hint' \in Seq(Nat) /\ Len(hint') = Len(hint)
  BY <1>4 DEF Ownership, TypeOK
<1> QED
  BY <1>3, <1>4, <1>5, <1>7, <1>8, IndexStep

\* The predecessor is linked to the sibling.
LEMMA LinkCasKeeps ==
  ASSUME Ownership, NEW w \in Writer, LinkCas(w)
  PROVE  Ownership'
<1>1. /\ pc[w] = "cas" /\ loc[w].cur \in Node /\ loc[w].key \in Key
      /\ lock[loc[w].cur] = w
      /\ loc[w].sib \in Node /\ loc[w].left \in Payload /\ loc[w].right \in Payload
      /\ loc[w].pred \in Node /\ loc[w].goal \in Level /\ HeadNode \in Node
  BY DEF Ownership, PointersOK, LocalOK, LockOK, Holding, Splitting, Linking, LinkCas
<1>2. /\ NextLevel(w) /\ pc[w] \in {"link", "cas"}
      /\ tower' = [tower EXCEPT ![loc[w].pred][loc[w].goal] = loc[w].sib]
      /\ UNCHANGED <<payloadVars, data, hint, lock, height, started>>
  BY DEF LinkCas
<1>3. PICK l \in {"find", "unlock"}, x \in Local :
           /\ pc' = [pc EXCEPT ![w] = l] /\ loc' = [loc EXCEPT ![w] = x]
           /\ x.cur = loc[w].cur /\ x.key = loc[w].key
           /\ x.left = loc[w].left /\ x.right = loc[w].right /\ x.sib = loc[w].sib
           /\ l = "find" => x.pred = HeadNode /\ x.goal \in Level /\ x.lv \in Level
  BY <1>2, AttemptDone
<1>4. pc'[w] = l /\ loc'[w] = x /\ l \in Label \ Building
  BY <1>3 DEF Ownership, TypeOK, Label, Building
<1>5. /\ tower' \in Seq([Level -> Nat]) /\ Len(tower') = Len(tower)
      /\ \A n \in Node, k \in Level : tower'[n][k] \in Node \union {Null}
  BY <1>1, <1>2, TowerWrite DEF Ownership
<1>6. Node' = Node /\ Payload' = Payload /\ lock' = lock
  BY <1>2 DEF Node, Payload, payloadVars
<1>7. LocalOK(w)'
  BY <1>1, <1>3, <1>4, <1>6 DEF LocalOK, Linking, Splitting
<1>8. LockOK(w)' /\ PendingOK(w)'
  BY <1>1, <1>3, <1>4, <1>6 DEF LockOK, PendingOK, Holding, Working, Appending, Building
<1>9. hint' \in Seq(Nat) /\ Len(hint') = Len(hint)
  BY <1>2 DEF Ownership, TypeOK
<1> QED
  BY <1>2, <1>3, <1>4, <1>5, <1>7, <1>8, <1>9, IndexStep

\* The node gets its left half: no other node or writer has that payload.
LEMMA SplitDataKeeps ==
  ASSUME Ownership, NEW w \in Writer, SplitData(w)
  PROVE  Ownership'
<1> DEFINE cur == loc[w].cur
           left == loc[w].left
<1>1. /\ loc[w] \in Local /\ pc[w] = "splitData" /\ cur \in Node /\ loc[w].key \in Key
      /\ lock[cur] = w /\ data[cur] = loc[w].d
      /\ loc[w].sib \in Node /\ left \in Payload /\ loc[w].right \in Payload
  BY DEF Ownership, TypeOK, LocalOK, LockOK, Holding, Working, Splitting, Building, SplitData
<1>2. /\ data' = [data EXCEPT ![cur] = left]
      /\ UNCHANGED <<payloadVars, hint, lock, height, tower, started>>
  BY DEF SplitData
<1>3. PICK l \in {"find", "unlock"}, x \in Local :
           /\ pc' = [pc EXCEPT ![w] = l] /\ loc' = [loc EXCEPT ![w] = x]
           /\ x.cur = cur /\ x.key = loc[w].key
           /\ x.left = left /\ x.right = loc[w].right /\ x.sib = loc[w].sib
           /\ l = "find" => x.pred = HeadNode /\ x.goal \in Level /\ x.lv \in Level
  <2>1. CASE height[loc[w].sib] > 1
    <3> DEFINE x == Finding(loc[w], 1, 1)
    <3>1. height[loc[w].sib] \in 1..MaxHeight
      <4>1. height \in Seq(1..MaxHeight) /\ loc[w].sib \in 1..Len(height)
        BY <1>1 DEF Ownership, TypeOK, PointersOK, Node
      <4> QED
        BY <4>1, ElementOfSeq
    <3>2. 1 \in Level /\ 1 \in 0..MaxTries
      BY <2>1, <3>1, SizeFacts DEF Level
    <3>3. pc' = [pc EXCEPT ![w] = "find"] /\ loc' = [loc EXCEPT ![w] = x]
      BY <2>1 DEF SplitData, Goto
    <3>4. /\ x \in Local /\ x.pred = HeadNode /\ x.lv \in Level /\ x.goal \in Level
          /\ x.cur = cur /\ x.key = loc[w].key
          /\ x.left = left /\ x.right = loc[w].right /\ x.sib = loc[w].sib
      BY <1>1, <3>2, FindingIsLocal
    <3> HIDE DEF x
    <3> QED
      BY <3>3, <3>4
  <2>2. CASE ~(height[loc[w].sib] > 1)
    <3>1. pc' = [pc EXCEPT ![w] = "unlock"] /\ loc' = [loc EXCEPT ![w] = loc[w]]
      BY <2>2 DEF SplitData, Goto, Ownership, TypeOK
    <3> QED
      BY <1>1, <3>1
  <2> QED
    BY <2>1, <2>2
<1>4. /\ pc'[w] = l /\ loc'[w] = x /\ l \in Label
      /\ \A v \in Writer \ {w} : pc'[v] = pc[v] /\ loc'[v] = loc[v]
      /\ pc' \in [Writer -> Label] /\ loc' \in [Writer -> Local]
  BY <1>3, Frame DEF Ownership, Label
<1>5. /\ data' \in Seq(Nat) /\ Len(data') = Len(data) /\ data'[cur] = left
      /\ \A n \in Node : n # cur => data'[n] = data[n]
  <2>1. data \in Seq(Nat) /\ cur \in 1..Len(data) /\ left \in Nat
    BY <1>1 DEF Ownership, TypeOK, Node, Payload
  <2> HIDE DEF cur, left
  <2> QED
    BY <1>2, <2>1, ExceptSeq DEF Node
<1>6. Node' = Node /\ Payload' = Payload /\ HeadNode \in Node
  BY <1>2, <1>5 DEF Node, Payload, payloadVars, Ownership, PointersOK
<1> HIDE DEF cur, left
<1>7. TypeOK'
  BY <1>2, <1>4, <1>5 DEF Ownership, TypeOK, payloadVars, Slot, Level
<1>8. PointersOK'
  BY <1>1, <1>2, <1>5, <1>6 DEF Ownership, PointersOK, payloadVars, Level
<1>9. SlotsOK'
  BY <1>2 DEF Ownership, SlotsOK, payloadVars, Payload, KeyAt
<1>10. PayloadsOK'
  <2>1. \A n \in Node : data[n] # left
    BY <1>1 DEF Ownership, PayloadsOK, Building, left
  <2>2. \A m, n \in Node : data'[m] = data'[n] => m = n
    BY <1>1, <1>5, <2>1 DEF Ownership, PayloadsOK
  <2>3. ASSUME NEW v \in Writer, pc'[v] \in Building
        PROVE  v # w /\ pc[v] \in Building /\ loc'[v] = loc[v] /\ loc[v].left # left
    <3>1. v # w
      BY <1>3, <1>4, <2>3 DEF Building
    <3>2. pc[v] \in Building /\ loc'[v] = loc[v]
      BY <1>4, <2>3, <3>1
    <3>3. loc[v].left # left
      BY <1>1, <3>1, <3>2 DEF Ownership, PayloadsOK, Building, left
    <3> QED
      BY <3>1, <3>2, <3>3
  <2>4. \A v \in Writer : pc'[v] \in Building =>
          /\ \A n \in Node : data'[n] # loc'[v].left
          /\ \A u \in Writer : pc'[u] \in Building /\ loc'[u].left = loc'[v].left => u = v
    BY <1>5, <2>3 DEF Ownership, PayloadsOK
  <2> QED
    BY <1>6, <2>2, <2>4 DEF PayloadsOK, Building
<1>11. LocalOK(w)'
  BY <1>1, <1>3, <1>4, <1>6 DEF LocalOK, Linking, Splitting, left
<1>12. LockOK(w)' /\ PendingOK(w)'
  BY <1>1, <1>2, <1>3, <1>4 DEF LockOK, PendingOK, Holding, Working, Appending, Building
<1>13. ASSUME NEW v \in Writer \ {w} PROVE LocalOK(v)' /\ LockOK(v)' /\ PendingOK(v)'
  <2>1. pc[v] \in Working => loc[v].cur # cur /\ loc[v].cur \in Node
    BY <1>1, Apart DEF Working, Holding, cur, Ownership, LocalOK
  <2> QED
    BY <1>2, <1>4, <1>5, <1>6, <2>1, OthersKeep DEF payloadVars
<1> QED
  BY <1>7, <1>8, <1>9, <1>10, <1>11, <1>12, <1>13 DEF Ownership

\* Two more elements at the end of a sequence.
LEMMA TwoMore ==
  ASSUME NEW S, NEW s \in Seq(S), NEW a \in S, NEW b \in S, NEW t, t = s \o <<a, b>>
  PROVE  /\ t \in Seq(S) /\ Len(t) = Len(s) + 2
         /\ \A j \in 1..Len(s) : t[j] = s[j]
         /\ t[Len(s) + 1] = a /\ t[Len(s) + 2] = b
OBVIOUS

\* One more element at the end of a sequence.
LEMMA OneMore ==
  ASSUME NEW S, NEW s \in Seq(S), NEW a \in S, NEW t, t = Append(s, a)
  PROVE  /\ t \in Seq(S) /\ Len(t) = Len(s) + 1
         /\ \A j \in 1..Len(s) : t[j] = s[j]
         /\ t[Len(s) + 1] = a
OBVIOUS

\* Both halves and the sibling are allocated: new payloads, that no node other
\* than the sibling has, and a free lock.
LEMMA SplitBuildMemory ==
  ASSUME Ownership, NEW w \in Writer, NEW h \in 1..MaxHeight, SplitBuild(w, h)
  PROVE  LET right == Len(order) + 1
             left == Len(order) + 2
             sib == Len(data) + 1
         IN  /\ pc[w] = "split" /\ loc[w].cur \in Node /\ loc[w].key \in Key
             /\ lock[loc[w].cur] = w /\ data[loc[w].cur] = loc[w].d /\ loc[w].d \in Payload
             /\ Len(keys) = Len(order) /\ Len(next) = Len(order)
             /\ pc'[w] = "splitHint"
             /\ loc'[w].left = left /\ loc'[w].right = right /\ loc'[w].sib = sib
             /\ loc'[w].cur = loc[w].cur /\ loc'[w].key = loc[w].key /\ loc'[w].d = loc[w].d
             /\ \A v \in Writer \ {w} : pc'[v] = pc[v] /\ loc'[v] = loc[v]
             /\ pc' \in [Writer -> Label] /\ loc' \in [Writer -> Local]
             /\ keys' \in Seq([Slot -> Key \union {Null}]) /\ Len(keys') = Len(keys) + 2
             /\ \A p \in Payload : keys'[p] = keys[p]
             /\ keys'[right] = FilledKeys(RightRun(w)) /\ keys'[left] = FilledKeys(LeftRun(w))
             /\ order' \in Seq(Seq(Slot)) /\ Len(order') = Len(order) + 2
             /\ \A p \in Payload : order'[p] = order[p]
             /\ order'[right] = FilledOrder(RightRun(w))
             /\ order'[left] = FilledOrder(LeftRun(w))
             /\ next' \in Seq(Nat) /\ Len(next') = Len(next) + 2
             /\ \A p \in Payload : next'[p] = next[p]
             /\ next'[right] = next[loc[w].d] /\ next'[left] = sib
             /\ data' \in Seq(Nat) /\ Len(data') = sib
             /\ \A n \in Node : data'[n] = data[n]
             /\ data'[sib] = right
             /\ hint' \in Seq(Nat) /\ Len(hint') = sib
             /\ \A n \in Node : hint'[n] = hint[n]
             /\ hint'[sib] = SiblingHint(w)
             /\ lock' \in Seq(Writer \union {NoWriter}) /\ Len(lock') = sib
             /\ \A n \in Node : lock'[n] = lock[n]
             /\ height' \in Seq(1..MaxHeight) /\ Len(height') = sib
             /\ \A n \in Node : height'[n] = height[n]
             /\ height'[sib] = h
             /\ tower' \in Seq([Level -> Nat]) /\ Len(tower') = sib
             /\ \A n \in Node : tower'[n] = tower[n]
             /\ tower'[sib] = [l \in Level |-> Null]
             /\ Node' = Node \union {sib} /\ Payload' = Payload \union {right, left}
             /\ sib \notin Node /\ right \notin Payload /\ left \notin Payload /\ left # right
             /\ started' = started
<1> DEFINE right == Len(order) + 1
           left == Len(order) + 2
           sib == Len(data) + 1
           x == [loc[w] EXCEPT !.left = left, !.right = right, !.sib = sib]
<1>1. /\ loc[w] \in Local /\ pc[w] = "split" /\ loc[w].cur \in Node /\ loc[w].key \in Key
      /\ lock[loc[w].cur] = w /\ data[loc[w].cur] = loc[w].d /\ loc[w].d \in Payload
  BY DEF Ownership, TypeOK, PointersOK, LocalOK, LockOK, Holding, Working, SplitBuild
<1>2. /\ LeftRun(w) \in Seq(Key) /\ Len(LeftRun(w)) \in 1..Capacity
      /\ RightRun(w) \in Seq(Key) /\ Len(RightRun(w)) \in 1..Capacity
  BY <1>1, Halves
<1>3. Len(order) \in Nat /\ Len(data) \in Nat
  BY DEF Ownership, TypeOK
<1>4. /\ x \in Local /\ x.left = left /\ x.right = right /\ x.sib = sib
      /\ x.cur = loc[w].cur /\ x.key = loc[w].key /\ x.d = loc[w].d
  <2>1. left \in Nat /\ right \in Nat /\ sib \in Nat
    BY <1>3
  <2>2. x = [loc[w] EXCEPT !.left = left, !.right = right, !.sib = sib]
    OBVIOUS
  <2> HIDE DEF x, left, right, sib
  <2>3. x \in Local
    BY <1>1, <2>1, <2>2 DEF Local
  <2>4. x.left = left /\ x.right = right /\ x.sib = sib
    BY <1>1, <2>2 DEF Local
  <2>5. x.cur = loc[w].cur /\ x.key = loc[w].key /\ x.d = loc[w].d
    BY <1>1, <2>2 DEF Local
  <2> QED
    BY <2>3, <2>4, <2>5
<1>5. pc' = [pc EXCEPT ![w] = "splitHint"] /\ loc' = [loc EXCEPT ![w] = x]
      /\ "splitHint" \in Label
  BY DEF SplitBuild, Goto, Label
<1> HIDE DEF x
<1>6. /\ pc'[w] = "splitHint" /\ loc'[w] = x
      /\ \A v \in Writer \ {w} : pc'[v] = pc[v] /\ loc'[v] = loc[v]
      /\ pc' \in [Writer -> Label] /\ loc' \in [Writer -> Local]
  BY <1>4, <1>5, Frame DEF Ownership
<1>7. /\ keys' \in Seq([Slot -> Key \union {Null}]) /\ Len(keys') = Len(keys) + 2
      /\ \A p \in Payload : keys'[p] = keys[p]
      /\ keys'[right] = FilledKeys(RightRun(w)) /\ keys'[left] = FilledKeys(LeftRun(w))
  <2>1. keys \in Seq([Slot -> Key \union {Null}]) /\ Len(keys) = Len(order)
    BY DEF Ownership, TypeOK, PointersOK
  <2>2. /\ FilledKeys(RightRun(w)) \in [Slot -> Key \union {Null}]
        /\ FilledKeys(LeftRun(w)) \in [Slot -> Key \union {Null}]
    BY <1>2, FilledPayload
  <2>3. keys' = keys \o <<FilledKeys(RightRun(w)), FilledKeys(LeftRun(w))>>
    BY DEF SplitBuild
  <2>4. /\ keys' \in Seq([Slot -> Key \union {Null}]) /\ Len(keys') = Len(keys) + 2
        /\ \A j \in 1..Len(keys) : keys'[j] = keys[j]
        /\ keys'[Len(keys) + 1] = FilledKeys(RightRun(w))
        /\ keys'[Len(keys) + 2] = FilledKeys(LeftRun(w))
    BY <2>1, <2>2, <2>3, TwoMore
  <2> QED
    BY <2>1, <2>4 DEF Payload
<1>8. /\ order' \in Seq(Seq(Slot)) /\ Len(order') = Len(order) + 2
      /\ \A p \in Payload : order'[p] = order[p]
      /\ order'[right] = FilledOrder(RightRun(w)) /\ order'[left] = FilledOrder(LeftRun(w))
  <2>1. order \in Seq(Seq(Slot))
    BY DEF Ownership, TypeOK
  <2>2. FilledOrder(RightRun(w)) \in Seq(Slot) /\ FilledOrder(LeftRun(w)) \in Seq(Slot)
    BY <1>2, FilledPayload
  <2>3. order' = order \o <<FilledOrder(RightRun(w)), FilledOrder(LeftRun(w))>>
    BY DEF SplitBuild
  <2>4. /\ order' \in Seq(Seq(Slot)) /\ Len(order') = Len(order) + 2
        /\ \A j \in 1..Len(order) : order'[j] = order[j]
        /\ order'[Len(order) + 1] = FilledOrder(RightRun(w))
        /\ order'[Len(order) + 2] = FilledOrder(LeftRun(w))
    BY <2>1, <2>2, <2>3, TwoMore
  <2> QED
    BY <2>1, <2>4 DEF Payload
<1>9. /\ next' \in Seq(Nat) /\ Len(next') = Len(next) + 2
      /\ \A p \in Payload : next'[p] = next[p]
      /\ next'[right] = next[loc[w].d] /\ next'[left] = sib
  <2>1. next \in Seq(Nat) /\ Len(next) = Len(order) /\ next[loc[w].d] \in Nat /\ sib \in Nat
    <3>1. next \in Seq(Nat) /\ Len(next) = Len(order) /\ sib \in Nat
      BY <1>3 DEF Ownership, TypeOK, PointersOK
    <3> QED
      BY <1>1, <3>1, ElementOfSeq DEF Payload
  <2>2. next' = next \o <<next[loc[w].d], sib>>
    BY DEF SplitBuild, LeftNext
  <2> HIDE DEF sib
  <2>4. /\ next' \in Seq(Nat) /\ Len(next') = Len(next) + 2
        /\ \A j \in 1..Len(next) : next'[j] = next[j]
        /\ next'[Len(next) + 1] = next[loc[w].d]
        /\ next'[Len(next) + 2] = sib
    BY <2>1, <2>2, TwoMore
  <2> QED
    BY <2>1, <2>4 DEF Payload
<1>10. /\ data' \in Seq(Nat) /\ Len(data') = sib
       /\ \A n \in Node : data'[n] = data[n]
       /\ data'[sib] = right
  <2>1. data \in Seq(Nat) /\ right \in Nat /\ data' = Append(data, right)
    BY <1>3 DEF Ownership, TypeOK, SplitBuild
  <2> HIDE DEF right
  <2>4. /\ data' \in Seq(Nat) /\ Len(data') = Len(data) + 1
        /\ \A j \in 1..Len(data) : data'[j] = data[j]
        /\ data'[Len(data) + 1] = right
    BY <2>1, OneMore
  <2> QED
    BY <2>1, <2>4 DEF Node, sib
<1>11. /\ hint' \in Seq(Nat) /\ Len(hint') = sib
       /\ \A n \in Node : hint'[n] = hint[n]
       /\ hint'[sib] = SiblingHint(w)
  <2>1. RightRun(w)[1] \in Key
    BY <1>2, SizeFacts, ElementOfSeq
  <2>2. SiblingHint(w) \in Nat
    BY <2>1, HintAssumption DEF SiblingHint
  <2>3. hint \in Seq(Nat) /\ Len(hint) = Len(data) /\ hint' = Append(hint, SiblingHint(w))
    BY DEF Ownership, TypeOK, PointersOK, SplitBuild
  <2> QED
    BY <2>2, <2>3, OneMore DEF Node
<1>12. /\ lock' \in Seq(Writer \union {NoWriter}) /\ Len(lock') = sib
       /\ \A n \in Node : lock'[n] = lock[n]
  <2>1. /\ lock \in Seq(Writer \union {NoWriter}) /\ Len(lock) = Len(data)
        /\ lock' = Append(lock, NoWriter)
    BY DEF Ownership, TypeOK, PointersOK, SplitBuild
  <2> QED
    BY <2>1, OneMore DEF Node
<1>13. /\ height' \in Seq(1..MaxHeight) /\ Len(height') = sib
       /\ \A n \in Node : height'[n] = height[n]
       /\ height'[sib] = h
  <2>1. height \in Seq(1..MaxHeight) /\ Len(height) = Len(data) /\ height' = Append(height, h)
    BY DEF Ownership, TypeOK, PointersOK, SplitBuild
  <2> QED
    BY <2>1, OneMore DEF Node
<1>14. /\ tower' \in Seq([Level -> Nat]) /\ Len(tower') = sib
       /\ \A n \in Node : tower'[n] = tower[n]
       /\ tower'[sib] = [l \in Level |-> Null]
  <2>1. /\ tower \in Seq([Level -> Nat]) /\ Len(tower) = Len(data)
        /\ tower' = Append(tower, [l \in Level |-> Null])
        /\ [l \in Level |-> Null] \in [Level -> Nat]
    BY DEF Ownership, TypeOK, PointersOK, SplitBuild, Null
  <2>4. /\ tower' \in Seq([Level -> Nat]) /\ Len(tower') = Len(tower) + 1
        /\ \A j \in 1..Len(tower) : tower'[j] = tower[j]
        /\ tower'[Len(tower) + 1] = [l \in Level |-> Null]
    BY <2>1, OneMore
  <2> QED
    BY <2>1, <2>4 DEF Node
<1>15. /\ Node' = Node \union {sib}
       /\ Payload' = Payload \union {right, left}
       /\ sib \notin Node /\ right \notin Payload /\ left \notin Payload /\ left # right
  <2>1. Len(order') = Len(order) + 2 /\ Len(data') = sib
    BY <1>8, <1>10
  <2>2. Node' = 1..sib /\ Payload' = 1..(Len(order) + 2)
    BY <2>1 DEF Node, Payload
  <2>3. 1..sib = Node \union {sib} /\ sib \notin Node
    BY <1>3 DEF Node
  <2>4. 1..(Len(order) + 2) = Payload \union {right, left}
    BY <1>3 DEF Payload
  <2>5. right \notin Payload /\ left \notin Payload /\ left # right
    BY <1>3 DEF Payload
  <2> QED
    BY <2>2, <2>3, <2>4, <2>5
<1>16. started' = started
  BY DEF SplitBuild
<1>17. Len(keys) = Len(order) /\ Len(next) = Len(order)
  BY DEF Ownership, PointersOK
<1> QED
  BY <1>1, <1>4, <1>6, <1>7, <1>8, <1>9, <1>10, <1>11, <1>12, <1>13, <1>14, <1>15, <1>16, <1>17

\* The writer that built them owns them, and nobody else is affected.
LEMMA SplitBuildKeeps ==
  ASSUME Ownership, NEW w \in Writer, NEW h \in 1..MaxHeight, SplitBuild(w, h)
  PROVE  Ownership'
<1> DEFINE right == Len(order) + 1
           left == Len(order) + 2
           sib == Len(data) + 1
<1>1. /\ pc[w] = "split" /\ loc[w].cur \in Node /\ loc[w].key \in Key
      /\ lock[loc[w].cur] = w /\ data[loc[w].cur] = loc[w].d /\ loc[w].d \in Payload
  BY SplitBuildMemory
<1>2. /\ LeftRun(w) \in Seq(Key) /\ Len(LeftRun(w)) \in 1..Capacity
      /\ RightRun(w) \in Seq(Key) /\ Len(RightRun(w)) \in 1..Capacity
  BY <1>1, Halves
<1>4. /\ loc'[w].left = left /\ loc'[w].right = right /\ loc'[w].sib = sib
      /\ loc'[w].cur = loc[w].cur /\ loc'[w].key = loc[w].key /\ loc'[w].d = loc[w].d
  BY SplitBuildMemory
<1>6. /\ pc'[w] = "splitHint"
      /\ \A v \in Writer \ {w} : pc'[v] = pc[v] /\ loc'[v] = loc[v]
      /\ pc' \in [Writer -> Label] /\ loc' \in [Writer -> Local]
  BY SplitBuildMemory
<1>7. /\ keys' \in Seq([Slot -> Key \union {Null}]) /\ Len(keys') = Len(keys) + 2
      /\ \A p \in Payload : keys'[p] = keys[p]
      /\ keys'[right] = FilledKeys(RightRun(w)) /\ keys'[left] = FilledKeys(LeftRun(w))
  BY SplitBuildMemory
<1>8. /\ order' \in Seq(Seq(Slot)) /\ Len(order') = Len(order) + 2
      /\ \A p \in Payload : order'[p] = order[p]
      /\ order'[right] = FilledOrder(RightRun(w)) /\ order'[left] = FilledOrder(LeftRun(w))
  BY SplitBuildMemory
<1>9. /\ next' \in Seq(Nat) /\ Len(next') = Len(next) + 2
      /\ \A p \in Payload : next'[p] = next[p]
      /\ next'[right] = next[loc[w].d] /\ next'[left] = sib
  BY SplitBuildMemory
<1>10. /\ data' \in Seq(Nat) /\ Len(data') = sib
       /\ \A n \in Node : data'[n] = data[n]
       /\ data'[sib] = right
  BY SplitBuildMemory
<1>11. /\ hint' \in Seq(Nat) /\ Len(hint') = sib
       /\ lock' \in Seq(Writer \union {NoWriter}) /\ Len(lock') = sib
       /\ \A n \in Node : lock'[n] = lock[n]
       /\ height' \in Seq(1..MaxHeight) /\ Len(height') = sib
  BY SplitBuildMemory
<1>12. /\ tower' \in Seq([Level -> Nat]) /\ Len(tower') = sib
       /\ \A n \in Node : tower'[n] = tower[n]
       /\ tower'[sib] = [l \in Level |-> Null]
  BY SplitBuildMemory
<1>15. /\ Node' = Node \union {sib} /\ Payload' = Payload \union {right, left}
       /\ sib \notin Node /\ right \notin Payload /\ left \notin Payload /\ left # right
  BY SplitBuildMemory
<1>16. started' = started
  BY SplitBuildMemory
<1>a. next[loc[w].d] \in Node \union {Null}
  BY <1>1 DEF Ownership, PointersOK
<1>b. Len(keys) = Len(order) /\ Len(next) = Len(order)
  BY DEF Ownership, PointersOK
<1>c. FilledKeys(LeftRun(w))[1] \in Key
  BY <1>2, FilledPayload, ElementOfSeq, SizeFacts
<1>17. SlotsOK'
  <2>1. ASSUME NEW p \in Payload
        PROVE  /\ Len(order[p]) <= Capacity
               /\ \A r \in DOMAIN order[p] :
                    order[p][r] <= Len(order[p]) /\ keys[p][order[p][r]] \in Key
    BY DEF Ownership, SlotsOK, KeyAt
  <2>2. ASSUME NEW run \in Seq(Key), Len(run) \in 1..Capacity,
               NEW o, o = FilledOrder(run), NEW ks, ks = FilledKeys(run)
        PROVE  /\ Len(o) <= Capacity
               /\ \A r \in DOMAIN o : o[r] <= Len(o) /\ ks[o[r]] \in Key
    <3>1. /\ o \in Seq(Slot) /\ Len(o) = Len(run)
          /\ \A r \in 1..Len(run) : o[r] = r /\ ks[r] = run[r]
      BY <2>2, SizeFacts, FilledPayload
    <3>2. DOMAIN o = 1..Len(run) /\ Len(run) \in Nat
      BY <2>2, <3>1
    <3>3. \A r \in 1..Len(run) : run[r] \in Key
      BY ElementOfSeq
    <3> QED
      BY <2>2, <3>1, <3>2, <3>3, SizeFacts
  <2>3. ASSUME NEW p \in Payload'
        PROVE  /\ Len(order'[p]) <= Capacity
               /\ \A r \in DOMAIN order'[p] :
                    order'[p][r] <= Len(order'[p]) /\ keys'[p][order'[p][r]] \in Key
    <3>1. CASE p \in Payload
      BY <1>7, <1>8, <2>1, <3>1
    <3>2. CASE p = right
      BY <1>2, <1>7, <1>8, <2>2, <3>2
    <3>3. CASE p = left
      BY <1>2, <1>7, <1>8, <2>2, <3>3
    <3> QED
      BY <1>15, <3>1, <3>2, <3>3
  <2> QED
    BY <2>3 DEF SlotsOK, KeyAt
<1> HIDE DEF right, left, sib
<1>18. TypeOK'
  BY <1>6, <1>7, <1>8, <1>9, <1>10, <1>11, <1>12, <1>16
     DEF Ownership, TypeOK, Slot, Level
<1>19. PointersOK'
  <2>1. /\ (Len(keys) = Len(order) /\ Len(next) = Len(order))'
        /\ (Len(hint) = Len(data) /\ Len(lock) = Len(data))'
        /\ (Len(height) = Len(data) /\ Len(tower) = Len(data))'
    BY <1>7, <1>8, <1>9, <1>10, <1>11, <1>12, <1>b
  <2>2. HeadNode \in Node'
    BY <1>15 DEF Ownership, PointersOK
  <2>3. \A n \in Node' : data'[n] \in Payload'
    BY <1>10, <1>15 DEF Ownership, PointersOK
  <2>4. \A n \in Node', l \in Level : tower'[n][l] \in Node' \union {Null}
    <3>1. ASSUME NEW n \in Node', NEW l \in Level
          PROVE  tower'[n][l] \in Node \union {Null}
      <4>1. CASE n \in Node
        BY <1>12, <4>1 DEF Ownership, PointersOK
      <4>2. CASE n = sib
        BY <1>12, <4>2
      <4> QED
        BY <1>15, <4>1, <4>2
    <3> QED
      BY <1>15, <3>1
  <2>5. \A p \in Payload' : next'[p] \in Node' \union {Null}
    BY <1>9, <1>15, <1>a DEF Ownership, PointersOK
  <2> QED
    BY <2>1, <2>2, <2>3, <2>4, <2>5 DEF PointersOK, Level
<1>20. PayloadsOK'
  <2>1. \A n \in Node : data[n] \in Payload
    BY DEF Ownership, PointersOK
  <2>2. \A m, n \in Node' : data'[m] = data'[n] => m = n
    BY <1>10, <1>15, <2>1 DEF Ownership, PayloadsOK
  <2>3. \A n \in Node' : data'[n] # left
    BY <1>10, <1>15, <2>1
  <2>4. ASSUME NEW v \in Writer, v # w, pc[v] \in Building
        PROVE  loc[v].left \in Payload /\ \A n \in Node' : data'[n] # loc[v].left
    <3>1. loc[v].left \in Payload
      BY <2>4 DEF Ownership, LocalOK, Splitting, Building
    <3>2. \A n \in Node : data[n] # loc[v].left
      BY <2>4 DEF Ownership, PayloadsOK
    <3> QED
      BY <1>10, <1>15, <3>1, <3>2
  <2>5. \A v \in Writer : pc'[v] \in Building => \A n \in Node' : data'[n] # loc'[v].left
    BY <1>4, <1>6, <2>3, <2>4
  <2>6. ASSUME NEW v \in Writer, NEW u \in Writer, pc'[v] \in Building, pc'[u] \in Building,
               loc'[u].left = loc'[v].left
        PROVE  u = v
    <3>1. v = w /\ u # w => FALSE
      BY <1>4, <1>6, <1>15, <2>4, <2>6
    <3>2. u = w /\ v # w => FALSE
      BY <1>4, <1>6, <1>15, <2>4, <2>6
    <3>3. u # w /\ v # w => u = v
      BY <1>6, <2>6 DEF Ownership, PayloadsOK
    <3> QED
      BY <3>1, <3>2, <3>3
  <2> QED
    BY <2>2, <2>5, <2>6 DEF PayloadsOK, Building
<1>21. LocalOK(w)'
  BY <1>1, <1>4, <1>6, <1>15 DEF LocalOK, Linking, Splitting
<1>22. LockOK(w)'
  BY <1>1, <1>4, <1>6, <1>10, <1>11 DEF LockOK, Holding, Working
<1>23. PendingOK(w)'
  BY <1>4, <1>6, <1>7, <1>c DEF PendingOK, Appending, Building
<1>24. ASSUME NEW v \in Writer \ {w} PROVE LocalOK(v)' /\ LockOK(v)' /\ PendingOK(v)'
  <2>1. pc[v] \in Holding => loc[v].cur \in Node
    BY DEF Ownership, LocalOK, Holding, Working, Linking
  <2>2. pc[v] \in Working => pc[v] \in Holding /\ loc[v].d \in Payload
    BY DEF Ownership, LockOK, LocalOK, PointersOK, Working, Holding
  <2>3. pc[v] \in Building => loc[v].left \in Payload
    BY DEF Ownership, LocalOK, Splitting, Building
  <2>4. pc[v] \in {"hint", "order"} => pc[v] \in Working
    BY DEF Working
  <2>5. Node \subseteq Node' /\ Payload \subseteq Payload'
    BY <1>15
  <2> QED
    BY <1>6, <1>7, <1>8, <1>10, <1>11, <2>1, <2>2, <2>3, <2>4, <2>5, OthersKeep
<1> QED
  BY <1>17, <1>18, <1>19, <1>20, <1>21, <1>22, <1>23, <1>24 DEF Ownership

\* No step of any thread breaks ownership.
LEMMA OwnershipStep ==
  ASSUME Ownership, [Next]_vars
  PROVE  Ownership'
<1>1. CASE UNCHANGED vars
  <2>1. UNCHANGED <<keys, order, next, data, hint, lock, height, tower, started, pc, loc>>
    BY <1>1 DEF vars, payloadVars, nodeVars, threadVars
  <2>2. TypeOK' /\ PointersOK' /\ SlotsOK' /\ PayloadsOK'
    BY <2>1 DEF Ownership, TypeOK, PointersOK, SlotsOK, PayloadsOK, Node, Payload, KeyAt,
       Slot, Level
  <2>3. \A w \in Writer : LocalOK(w)' /\ LockOK(w)' /\ PendingOK(w)'
    BY <2>1 DEF Ownership, LocalOK, LockOK, PendingOK, Node, Payload, Level, FreeSlot
  <2> QED
    BY <2>2, <2>3 DEF Ownership
<1>2. ASSUME NEW w \in Writer, Step(w) PROVE Ownership'
  <2>1. CASE HopForward(w) \/ HopDown(w) \/ Arrive(w)
    BY <2>1, HopForwardKeeps, HopDownKeeps, ArriveKeeps
  <2>2. CASE Acquire(w) \/ Backout(w) \/ Admit(w) \/ Unlock(w)
    BY <2>2, AcquireKeeps, BackoutKeeps, AdmitKeeps, UnlockKeeps
  <2>3. CASE AppendSlot(w) \/ AppendHint(w) \/ AppendOrder(w)
    BY <2>3, AppendSlotKeeps, AppendHintKeeps, AppendOrderKeeps
  <2>4. CASE \E h \in 1..MaxHeight : SplitBuild(w, h)
    BY <2>4, SplitBuildKeeps
  <2>5. CASE SplitHint(w) \/ SplitData(w)
    BY <2>5, SplitHintKeeps, SplitDataKeeps
  <2>6. CASE FindHop(w) \/ FindDown(w) \/ FindArrive(w)
    BY <2>6, FindHopKeeps, FindDownKeeps, FindArriveKeeps
  <2>7. CASE LinkBehind(w) \/ LinkLoad(w) \/ LinkCas(w) \/ LinkCasFails(w)
    BY <2>7, FailedAttemptKeeps, LinkLoadKeeps, LinkCasKeeps
  <2> QED
    BY <1>2, <2>1, <2>2, <2>3, <2>4, <2>5, <2>6, <2>7 DEF Step
<1>3. ASSUME NEW w \in Writer, NEW k \in Key, Insert(w, k) PROVE Ownership'
  BY <1>3, InsertKeeps
<1>4. ASSUME NEW w \in Writer, AllocationThrows(w) PROVE Ownership'
  BY <1>4, AllocationThrowsKeeps
<1> QED
  BY <1>1, <1>2, <1>3, <1>4 DEF Next, Finished

\* Between a writer's lock and its publishing, the payload it writes to or copies
\* is the one its node has, and the lock is its own: for any number of writers,
\* keys, capacity and height.
THEOREM OwnershipHolds == Spec => []Ownership
<1>1. Init => Ownership
  BY OwnershipInit
<1>2. Ownership /\ [Next]_vars => Ownership'
  BY OwnershipStep
<1> QED
  BY <1>1, <1>2, PTL DEF Spec

\* Every variable keeps its type: in particular no order word ever names a slot
\* beyond kNodeCapacity.
THEOREM TypeCorrect == Spec => []TypeOK
<1>1. Ownership => TypeOK
  BY DEF Ownership
<1> QED
  BY <1>1, OwnershipHolds, PTL

\* What insert_entry does under a spinlock it does to the payload of the node
\* that lock guards.
THEOREM PayloadOwned == Spec => []OwnsPayload
<1>1. Ownership => OwnsPayload
  BY DEF Ownership, LockOK, OwnsPayload, Holding
<1> QED
  BY <1>1, OwnershipHolds, PTL

-----------------------------------------------------------------------------
(* What a reader has loaded stays true.                                    *)

\* Every step but these three leaves all payloads alone.
LEMMA PayloadWriters ==
  ASSUME [Next]_vars
  PROVE  \/ UNCHANGED payloadVars
         \/ \E w \in Writer : \/ AppendSlot(w) \/ AppendOrder(w)
                              \/ \E h \in 1..MaxHeight : SplitBuild(w, h)
<1>1. ASSUME NEW w \in Writer, Step(w)
      PROVE  \/ UNCHANGED payloadVars
             \/ AppendSlot(w) \/ AppendOrder(w)
             \/ \E h \in 1..MaxHeight : SplitBuild(w, h)
  BY <1>1 DEF Step, HopForward, HopDown, Arrive, Acquire, Backout, Admit, AppendHint, SplitHint,
     SplitData, FindHop, FindDown, FindArrive, LinkBehind, LinkLoad, LinkCas, LinkCasFails, Unlock,
     payloadVars
<1>2. ASSUME NEW w \in Writer, NEW k \in Key, Insert(w, k) PROVE UNCHANGED payloadVars
  BY <1>2 DEF Insert, payloadVars
<1>3. UNCHANGED vars => UNCHANGED payloadVars
  BY DEF vars
<1>4. ASSUME NEW w \in Writer, AllocationThrows(w) PROVE UNCHANGED payloadVars
  BY <1>4 DEF AllocationThrows, payloadVars
<1> QED
  BY <1>1, <1>2, <1>3, <1>4 DEF Next, Finished

\* The free slot of an append is one that no order word names yet.
LEMMA AppendSlotFreezes ==
  ASSUME Ownership, NEW w \in Writer, AppendSlot(w), NEW p \in Payload, NEW r \in DOMAIN order[p]
  PROVE  keys'[p][order[p][r]] = keys[p][order[p][r]]
<1> DEFINE d == loc[w].d
           slot == Len(order[d]) + 1
<1>1. pc[w] = "slot" /\ d \in Payload /\ keys' = [keys EXCEPT ![d][slot] = loc[w].key]
  BY DEF Ownership, PointersOK, LocalOK, LockOK, Working, AppendSlot, FreeSlot
<1>2. p \in 1..Len(keys) /\ d \in 1..Len(keys) /\ order[p] \in Seq(Slot)
  BY <1>1 DEF Ownership, TypeOK, PointersOK, Payload
<1>3. order[p][r] \in Nat /\ order[p][r] <= Len(order[p]) /\ Len(order[p]) \in Nat
  <2>1. Len(order[p]) \in Nat /\ r \in 1..Len(order[p])
    BY <1>2
  <2>2. order[p][r] \in Slot
    BY <1>2, <2>1, ElementOfSeq
  <2>3. order[p][r] <= Len(order[p])
    BY DEF Ownership, SlotsOK
  <2> QED
    BY <2>1, <2>2, <2>3 DEF Slot
<1>4. p = d => order[p][r] # slot
  BY <1>3
<1> HIDE DEF slot, d
<1>5. keys \in Seq([Slot -> Key \union {Null}])
  BY DEF Ownership, TypeOK
<1> QED
  BY <1>1, <1>2, <1>4, <1>5

\* An append keeps every slot the order word had.
LEMMA AppendOrderFreezes ==
  ASSUME Ownership, NEW w \in Writer, AppendOrder(w), NEW p \in Payload
  PROVE  ToSet(order[p]) \subseteq ToSet(order'[p])
<1> DEFINE d == loc[w].d
           slot == Len(order[d]) + 1
           new == InsertAt(order[d], Rank(w), slot)
<1>1. d \in Payload /\ order[d] \in Seq(Slot) /\ slot \in Slot
  <2>1. d \in Payload /\ Len(order[d]) < Capacity
    BY DEF Ownership, PointersOK, LocalOK, LockOK, PendingOK, Working, Appending, AppendOrder
  <2>2. order[d] \in Seq(Slot)
    BY <2>1 DEF Ownership, TypeOK, Payload
  <2> QED
    BY <2>1, <2>2, SizeFacts DEF Slot
<1>2. Rank(w) \in 1..(Len(order[d]) + 1)
  <2>1. SortedPosition(d, order[d], loc[w].key) \in 0..Len(order[d])
    BY <1>1, PositionRange
  <2> QED
    BY <1>1, <2>1 DEF Rank
<1>3. order \in Seq(Seq(Slot)) /\ order' = [order EXCEPT ![d] = new]
  BY DEF Ownership, TypeOK, AppendOrder, FreeSlot
<1>4. ToSet(order[d]) \subseteq ToSet(new)
  <2>1. new = InsertAt(order[d], Rank(w), slot)
    OBVIOUS
  <2> HIDE DEF new, slot, d
  <2> QED
    BY <1>1, <1>2, <2>1, InsertAtKeeps
<1> HIDE DEF new
<1>5. CASE p = d
  <2>1. order'[p] = new
    BY <1>1, <1>3, <1>5 DEF Payload
  <2> HIDE DEF d
  <2> QED
    BY <1>4, <1>5, <2>1
<1>6. CASE p # d
  <2>1. order'[p] = order[p]
    BY <1>1, <1>3, <1>6 DEF Payload
  <2> QED
    BY <2>1
<1> QED
  BY <1>5, <1>6

\* A split builds payloads beyond the ones there are.
LEMMA SplitBuildFreezes ==
  ASSUME Ownership, NEW w \in Writer, NEW h \in 1..MaxHeight, SplitBuild(w, h), NEW p \in Payload
  PROVE  keys'[p] = keys[p] /\ order'[p] = order[p] /\ next'[p] = next[p]
<1>1. /\ keys' = keys \o <<FilledKeys(RightRun(w)), FilledKeys(LeftRun(w))>>
      /\ order' = order \o <<FilledOrder(RightRun(w)), FilledOrder(LeftRun(w))>>
      /\ next' = next \o <<next[loc[w].d], LeftNext(w)>>
  BY DEF SplitBuild
<1>2. /\ p \in 1..Len(keys) /\ p \in 1..Len(order) /\ p \in 1..Len(next)
      /\ Len(keys) \in Nat /\ Len(order) \in Nat /\ Len(next) \in Nat
  BY DEF Ownership, TypeOK, PointersOK, Payload
<1> QED
  BY <1>1, <1>2

\* What no step does to a payload.
Frozen(p) ==
  /\ \A r \in DOMAIN order[p] : keys'[p][order[p][r]] = keys[p][order[p][r]]
  /\ ToSet(order[p]) \subseteq ToSet(order'[p])
  /\ next'[p] = next[p]

\* Every step keeps to it.
LEMMA SnapshotStep ==
  ASSUME Ownership, [Next]_vars, NEW p \in Payload
  PROVE  Frozen(p)
<1> USE DEF Frozen
<1>1. CASE UNCHANGED payloadVars
  BY <1>1 DEF payloadVars
<1>2. ASSUME NEW w \in Writer, AppendSlot(w) PROVE Frozen(p)
  <2>1. UNCHANGED <<order, next>>
    BY <1>2 DEF AppendSlot
  <2> QED
    BY <1>2, <2>1, AppendSlotFreezes
<1>3. ASSUME NEW w \in Writer, AppendOrder(w) PROVE Frozen(p)
  <2>1. UNCHANGED <<keys, next>>
    BY <1>3 DEF AppendOrder
  <2> QED
    BY <1>3, <2>1, AppendOrderFreezes
<1>4. ASSUME NEW w \in Writer, NEW h \in 1..MaxHeight, SplitBuild(w, h) PROVE Frozen(p)
  BY <1>4, SplitBuildFreezes
<1> QED
  BY <1>1, <1>2, <1>3, <1>4, PayloadWriters

\* A slot some order word names is never written again, no slot is taken back,
\* and the link of a payload never changes: a reader that walks an order word it
\* snapshot sees the same keys however long it takes.
THEOREM SnapshotsStay == Spec => SlotsFrozen
<1>1. Ownership /\ [Next]_vars => [\A p \in Payload : Frozen(p)]_vars
  BY SnapshotStep
<1> QED
  BY <1>1, OwnershipHolds, PTL DEF Spec, SlotsFrozen, Frozen

=============================================================================
