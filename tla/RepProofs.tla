----------------------------- MODULE RepProofs -----------------------------
(***************************************************************************)
(* What whole scans over Rep yield beside writers, for any number of both: *)
(* the inductive invariant ScanSound and what follows from it.             *)
(***************************************************************************)
EXTENDS Rep, IteratorProofs

-----------------------------------------------------------------------------
(* The inductive invariant of scans.  A scan is as good as its iterator's  *)
(* steps, each of which starts from the last entry given and must respect  *)
(* what was there when the scan began.                                     *)

Ascending(f) == \A a, b \in DOMAIN f : a < b => f[a] < f[b]

LookingUp(r) == scan[r] \in {"get", "got"}

\* Key k was there when the scan of r began, it is one to be yielded, and has not
\* been.
Owed(r, k) == k \in born[r] /\ From(r) <= k /\ k \notin ToSet(fed[r])

\* The entries given ascend and are in the table, and what is owed is above them.
FedSound(r) ==
  /\ fed[r] \in Seq(Key) /\ Ascending(fed[r]) /\ ToSet(fed[r]) \subseteq Contents
  /\ born[r] \subseteq Contents
  /\ \A k \in born[r] : Owed(r, k) => fed[r] = <<>> \/ Last(fed[r]) < k

\* The call a scan under way is in: its first, or a step on from the last entry
\* given.  It respects what there was when the scan began.
CallOfScan(r) ==
  /\ born[r] \subseteq base[r]
  /\ \/ fed[r] = <<>> /\ scan[r] = "get" /\ it[r].op = "seek"
     \/ fed[r] = <<>> /\ scan[r] = "size" /\ it[r].op = "seekToFirst"
     \/ fed[r] # <<>> /\ it[r].op = "next" /\ mark[r] = Last(fed[r])

\* Nothing is owed once a scan has run out, and only what is above the entry it
\* stopped at otherwise.
EndOfScan(r) ==
  /\ it[r].pc = "idle"
  /\ \A k \in born[r] : Owed(r, k) => Valid(it[r]) /\ KeyOf(it[r]) < k

\* RocksDB asks on after merge operands of the user key only.
AskedOn(r, k) == User[k] = User[it[r].target] /\ k \in Operand

\* What a lookup is given of its user key, it may see; and it ends where the
\* callback has enough.
GetSound(r) ==
  /\ it[r].target \in Key
  /\ \A a \in DOMAIN fed[r] : scan[r] = "get" \/ a < Len(fed[r]) => AskedOn(r, fed[r][a])
  /\ Versions(ToSet(fed[r]), it[r].target) \subseteq born[r]
  /\ scan[r] = "get" => Versions(started, it[r].target) \subseteq born[r]
  /\ scan[r] = "got" /\ Valid(it[r]) =>
       fed[r] # <<>> /\ Last(fed[r]) = KeyOf(it[r]) /\ ~AskedOn(r, KeyOf(it[r]))

ScanSoundOf(r) ==
  /\ scan[r] \in {"none", "get", "size", "got", "sized"}
  /\ scan[r] = "none" => it[r].pc = "idle"
  /\ scan[r] # "none" => FedSound(r)
  /\ Scanning(r) => CallOfScan(r)
  /\ ScanEnded(r) => EndOfScan(r)
  /\ LookingUp(r) => GetSound(r)

\* The inductive invariant of scans, on top of that of readers.
ScanSound ==
  /\ ReadSound
  /\ DOMAIN scan = Reader /\ DOMAIN fed = Reader /\ DOMAIN born = Reader
  /\ \A r \in Reader : ScanSoundOf(r)


-----------------------------------------------------------------------------
(* Lists of entries.                                                       *)

LEMMA AppendAscends ==
  ASSUME NEW f \in Seq(Key), NEW x \in Key, Ascending(f), f = <<>> \/ Last(f) < x,
         NEW g, g = Append(f, x)
  PROVE  /\ g \in Seq(Key) /\ g # <<>> /\ Len(g) = Len(f) + 1 /\ Last(g) = x
         /\ \A a \in DOMAIN f : g[a] = f[a]
         /\ ToSet(g) = ToSet(f) \union {x} /\ Ascending(g)
<1>1. /\ g \in Seq(Key) /\ Len(g) = Len(f) + 1 /\ g[Len(f) + 1] = x
      /\ \A a \in 1..Len(f) : g[a] = f[a]
  OBVIOUS
<1>2. DOMAIN g = 1..(Len(f) + 1) /\ DOMAIN f = 1..Len(f) /\ Len(f) \in Nat
  BY <1>1
<1>3. g # <<>> /\ Last(g) = x
  BY <1>1 DEF Last
<1>4. ToSet(g) = ToSet(f) \union {x}
  BY <1>1, <1>2 DEF ToSet
<1>6. x \in Nat /\ \A a \in DOMAIN f : f[a] \in Nat
  <2>1. \A a \in DOMAIN f : f[a] \in Key
    OBVIOUS
  <2> QED
    BY <2>1, SizeFacts
<1>5. ASSUME NEW a \in DOMAIN g, NEW b \in DOMAIN g, a < b PROVE g[a] < g[b]
  <2>1. CASE b \in DOMAIN f
    <3>1. a \in DOMAIN f
      BY <1>2, <1>5, <2>1
    <3> QED
      BY <1>1, <1>2, <1>5, <2>1, <3>1 DEF Ascending
  <2>2. CASE b = Len(f) + 1
    <3>1. a \in 1..Len(f) /\ f # <<>> /\ g[b] = x /\ g[a] = f[a]
      BY <1>1, <1>2, <1>5, <2>2
    <3>2. f[Len(f)] < x
      BY <3>1 DEF Last
    <3>3. f[a] <= f[Len(f)]
      <4>1. Len(f) \in DOMAIN f /\ a \in DOMAIN f
        BY <1>2, <3>1
      <4>2. f[a] \in Nat /\ f[Len(f)] \in Nat
        BY <1>6, <4>1
      <4> QED
        BY <1>2, <3>1, <4>1, <4>2 DEF Ascending
    <3>4. f[a] \in Nat /\ f[Len(f)] \in Nat /\ x \in Nat
      BY <1>2, <1>6, <3>1
    <3> QED
      BY <3>1, <3>2, <3>3, <3>4
  <2> QED
    BY <1>2, <2>1, <2>2
<1> QED
  BY <1>1, <1>2, <1>3, <1>4, <1>5 DEF Ascending

\* The last entry of a list is the greatest.
LEMMA LastIsGreatest ==
  ASSUME NEW f \in Seq(Key), Ascending(f), NEW k \in ToSet(f)
  PROVE  f # <<>> /\ Last(f) \in Key /\ k \in Key /\ k <= Last(f)
<1>1. PICK a \in DOMAIN f : k = f[a]
  BY DEF ToSet
<1>2. f # <<>> /\ Len(f) \in DOMAIN f /\ a \in 1..Len(f)
  BY <1>1
<1>3. f[a] \in Nat /\ f[Len(f)] \in Nat /\ f[a] \in Key /\ f[Len(f)] \in Key
  <2>1. f[a] \in Key /\ f[Len(f)] \in Key
    BY <1>2
  <2> QED
    BY <2>1, SizeFacts
<1>4. f[a] <= f[Len(f)]
  BY <1>2, <1>3 DEF Ascending
<1> QED
  BY <1>1, <1>2, <1>3, <1>4 DEF Last

-----------------------------------------------------------------------------
(* A scan beside its iterator.                                             *)

LEMMA RepIsReader == [NextRep]_repVars => [NextReader]_allVars
<1> SUFFICES ASSUME [NextRep]_repVars PROVE [NextReader]_allVars
  OBVIOUS
<1>1. ASSUME NEW r \in Reader, ScanStep(r) \/ Size(r) \/ \E k \in Key : Get(r, k)
      PROVE  Call(r) \/ ReadStep(r) \/ UNCHANGED allVars
  BY <1>1, Zenon DEF ScanStep, FeedOn, FeedLast, RunOut, Size, Get, Call, Seek
<1> QED
  BY <1>1 DEF NextRep, NextReader, repVars, allVars

\* What a step of a call leaves alone, unless it is one of seek_for_prev.
LEMMA CallGoesOn ==
  ASSUME NEW i \in ReaderState, NEW p, i.op # "seekForPrev"
  PROVE  /\ SameCallOf(i, AfterSeek(SkipForward(Placed(i, p))))
         /\ SameCallOf(i, SkipBackward(Placed(i, p)))
         /\ SameCallOf(i, Resting(i, p)) /\ SameCallOf(i, Answered(i, p))
<1>1. SameCallOf(i, SkipForward(Placed(i, p))) /\ SameCallOf(i, SkipBackward(Placed(i, p)))
  BY DEF SkipForward, SkipBackward, Placed, Adopting, Walking, Ended, SameCallOf, ReaderState
<1>2. SameCallOf(i, Resting(i, p)) /\ SameCallOf(i, Answered(i, p))
  BY DEF Resting, Answered, Ended, SameCallOf, ReaderState
<1>3. AfterSeek(SkipForward(Placed(i, p))) = SkipForward(Placed(i, p))
  BY <1>1 DEF AfterSeek, SameCallOf
<1> QED
  BY <1>1, <1>2, <1>3

LEMMA StepsOfCall ==
  ASSUME ReadSound, NEW r \in Reader, ReadStep(r), it[r].op # "seekForPrev"
  PROVE  SameCallOf(it[r], it'[r]) /\ base'[r] = base[r] /\ mark'[r] = mark[r]
<1>1. DOMAIN it = Reader /\ it[r] \in ReaderState
  BY DEF ReadSound, ReaderSound, UseSound
<1>2. base'[r] = base[r] /\ mark'[r] = mark[r]
  BY DEF ReadStep, WalkHop, WalkDown, WalkArrive, Load, Snap
<1>3. PICK i : i = it[r]
  OBVIOUS
<1> SUFFICES SameCallOf(i, it'[r])
  BY <1>2, <1>3
<1>4. ASSUME NEW g, it' = [it EXCEPT ![r] = g] PROVE it'[r] = g
  BY <1>1, <1>4
<1>5. CASE WalkHop(r) \/ WalkDown(r) \/ WalkArrive(r)
  <2>1. \/ \E n : it' = [it EXCEPT ![r] = [i EXCEPT !.cur = n]]
        \/ \E l : it' = [it EXCEPT ![r] = [i EXCEPT !.lv = l]]
        \/ it' = [it EXCEPT ![r] = [i EXCEPT !.pc = "load"]]
    BY <1>3, <1>5, Zenon DEF WalkHop, WalkDown, WalkArrive, Becomes
  <2>2. \/ \E n : it'[r] = [i EXCEPT !.cur = n]
        \/ \E l : it'[r] = [i EXCEPT !.lv = l]
        \/ it'[r] = [i EXCEPT !.pc = "load"]
    BY <1>4, <2>1
  <2>3. ASSUME NEW x PROVE /\ SameCallOf(i, [i EXCEPT !.cur = x])
                           /\ SameCallOf(i, [i EXCEPT !.lv = x])
                           /\ SameCallOf(i, [i EXCEPT !.pc = x])
    BY <1>1, <1>3 DEF SameCallOf, ReaderState
  <2> QED
    BY <2>2, <2>3
<1>6. CASE Load(r)
  <2>1. it' = [it EXCEPT ![r] = [i EXCEPT !.pc = "snap", !.node = i.cur, !.d = data[i.cur]]]
    BY <1>3, <1>6 DEF Load, Becomes
  <2>2. it'[r] = [i EXCEPT !.pc = "snap", !.node = i.cur, !.d = data[i.cur]]
    BY <1>4, <2>1
  <2> QED
    BY <1>1, <1>3, <2>2 DEF SameCallOf, ReaderState
<1>7. CASE Snap(r)
  <2>1. PICK o, j : o = order[i.d] /\ j = Shot(i, o)
    OBVIOUS
  <2>2. j \in ReaderState /\ SameCallOf(i, j)
    <3>1. i.pc = "snap" /\ IndexSound /\ ReaderSound(i, seen[r], base[r], mark[r])
      BY <1>3, <1>7 DEF Snap, ReadSound
    <3> QED
      BY <2>1, <3>1, ShotShoots DEF Shoots
  <2>3. PICK p : p = SortedPosition(j.d, o, j.target) + 1
    OBVIOUS
  <2>4. \/ \E f : it' = [it EXCEPT ![r] = Answered(j, f)]
        \/ it' = [it EXCEPT ![r] = AfterSeek(SkipForward(Placed(j, p)))]
        \/ it' = [it EXCEPT ![r] = AfterSeek(SkipForward(Placed(j, 1)))]
        \/ it' = [it EXCEPT ![r] = Resting(j, Len(o))]
        \/ it' = [it EXCEPT ![r] = SkipBackward(Placed(j, 0))]
    BY <1>3, <1>7, <2>1, <2>3, Zenon DEF Snap, Becomes, Shot, Placed, Resting, Answered
  <2>5. \E q : it'[r] \in {Answered(j, q), AfterSeek(SkipForward(Placed(j, q))),
                          Resting(j, q), SkipBackward(Placed(j, q))}
    BY <1>4, <2>4
  <2>6. j.op # "seekForPrev" /\ j.op = i.op /\ j.target = i.target
    BY <1>3, <2>2 DEF SameCallOf
  <2>7. SameCallOf(j, it'[r])
    BY <2>2, <2>5, <2>6, CallGoesOn
  <2> QED
    BY <2>6, <2>7 DEF SameCallOf
<1> QED
  BY <1>5, <1>6, <1>7 DEF ReadStep
LEMMA TableGrows ==
  ASSUME ReadSound, [NextReader]_allVars
  PROVE  Contents \subseteq Contents'
<1>1. IndexSound /\ [Next]_vars /\ IndexSound'
  BY NextIsNext, TowerStep DEF ReadSound
<1> QED
  BY <1>1, ContentsGrow DEF IndexSound, ListSound

\* Whose turn it is.
Unmoved(r) ==
  /\ scan'[r] = scan[r] /\ fed'[r] = fed[r] /\ born'[r] = born[r]
  /\ it'[r] = it[r] /\ base'[r] = base[r] /\ mark'[r] = mark[r]

\* Nobody else disturbs a scan, as long as writes are newer than it may see.
LEMMA ScanKeeps ==
  ASSUME ScanSound, [NextReader]_allVars, NEW r \in Reader, Unmoved(r),
         scan[r] = "get" => Versions(started', it[r].target) \subseteq Versions(started, it[r].target)
  PROVE  ScanSoundOf(r)'
<1>1. ScanSoundOf(r) /\ ReadSound
  BY DEF ScanSound
<1>2. Contents \subseteq Contents'
  BY <1>1, TableGrows
<1>3. /\ Valid(it[r])' <=> Valid(it[r])
      /\ it[r].pc = "idle" /\ Valid(it[r]) => KeyOf(it[r])' = KeyOf(it[r])
  <2>1. Valid(it[r])' <=> Valid(it[r])
    BY DEF Unmoved, Valid
  <2> QED
    BY <1>1, <2>1, KeyRests DEF Unmoved
<1>4. \A k : Owed(r, k)' <=> Owed(r, k)
  BY DEF Owed, From, Unmoved
<1>5. FedSound(r) => FedSound(r)'
  BY <1>2, <1>4 DEF FedSound, Unmoved
<1>6. CallOfScan(r) => CallOfScan(r)'
  BY DEF CallOfScan, Unmoved
<1>7. EndOfScan(r) => EndOfScan(r)'
  BY <1>3, <1>4 DEF EndOfScan, Unmoved
<1>8. ASSUME GetSound(r), EndOfScan(r) \/ scan[r] = "get" PROVE GetSound(r)'
  <2>1. \A k : AskedOn(r, k)' <=> AskedOn(r, k)
    BY DEF AskedOn, Unmoved
  <2>2. scan[r] = "get" => Versions(started', it[r].target) \subseteq born[r]
    BY <1>8 DEF GetSound
  <2>3. scan[r] = "got" /\ Valid(it[r]) => KeyOf(it[r])' = KeyOf(it[r])
    BY <1>3, <1>8 DEF EndOfScan
  <2>4. /\ it'[r].target \in Key
        /\ \A a \in DOMAIN fed'[r] :
             scan'[r] = "get" \/ a < Len(fed'[r]) => AskedOn(r, fed[r][a])'
        /\ Versions(ToSet(fed'[r]), it'[r].target) \subseteq born'[r]
        /\ scan'[r] = "get" => Versions(started', it'[r].target) \subseteq born'[r]
    BY <1>8, <2>1, <2>2 DEF GetSound, Unmoved
  <2>5. scan'[r] = "got" /\ Valid(it[r])' =>
          fed'[r] # <<>> /\ Last(fed'[r]) = KeyOf(it[r])' /\ ~AskedOn(r, KeyOf(it[r]))'
    BY <1>3, <1>8, <2>1, <2>3 DEF GetSound, Unmoved
  <2> QED
    BY <2>4, <2>5 DEF GetSound
<1>9. /\ scan'[r] \in {"none", "get", "size", "got", "sized"}
      /\ scan'[r] = "none" => it'[r].pc = "idle"
      /\ scan'[r] # "none" => FedSound(r)'
      /\ Scanning(r)' => CallOfScan(r)'
      /\ ScanEnded(r)' => EndOfScan(r)'
      /\ LookingUp(r)' => GetSound(r)'
  BY <1>1, <1>5, <1>6, <1>7, <1>8
     DEF ScanSoundOf, Scanning, ScanEnded, LookingUp, Unmoved
<1> QED
  BY <1>9 DEF ScanSoundOf

\* Where a call of a scan under way has come to.
LEMMA ComesToRest ==
  ASSUME ScanSound, NEW r \in Reader, Scanning(r), it[r].pc = "idle"
  PROVE  /\ Valid(it[r]) => /\ KeyOf(it[r]) \in Contents /\ KeyOf(it[r]) \in Key
                            /\ fed[r] = <<>> \/ Last(fed[r]) < KeyOf(it[r])
         /\ \A k \in born[r] : Owed(r, k) => Valid(it[r]) /\ KeyOf(it[r]) <= k
<1>1. ScanSoundOf(r) /\ ReadSound /\ AnswerSound(it[r], base[r], mark[r])
  BY DEF ScanSound, ReadSound, ReaderSound
<1>2. CallOfScan(r) /\ FedSound(r)
  BY <1>1 DEF ScanSoundOf, Scanning
<1>3. Valid(it[r]) => KeyOf(it[r]) \in Contents
  BY <1>1, AtRestSeen DEF NoPhantoms
<1>4. Contents \subseteq Key
  BY <1>1, ContentsAreKeys DEF ReadSound
<1>5. Valid(it[r]) => fed[r] = <<>> \/ Last(fed[r]) < KeyOf(it[r])
  BY <1>1, <1>2 DEF CallOfScan, AnswerSound
<1>6. ASSUME NEW k \in born[r], Owed(r, k) PROVE Valid(it[r]) /\ KeyOf(it[r]) <= k
  <2>1. it[r].op \in {"next", "seek", "seekToFirst"} /\ k \in base[r]
    BY <1>2 DEF CallOfScan
  <2>2. Wanted(it[r], mark[r], k)
    BY <1>2, <1>6 DEF CallOfScan, FedSound, Owed, From, Wanted
  <2> QED
    BY <1>1, <2>1, <2>2 DEF AnswerSound
<1> QED
  BY <1>3, <1>4, <1>5, <1>6

LEMMA TableStarted ==
  ASSUME IndexSound
  PROVE  Contents \subseteq started /\ started \subseteq Key
<1>1. Ownership /\ KeysFresh /\ TypeOK
  BY DEF IndexSound, ListSound, ListOrder, Ownership
<1>2. \A n \in Linked : data[n] \in Payload
  BY <1>1, NodeFacts DEF Linked, IndexSound, ListSound
<1>3. Contents \subseteq started
  BY <1>1, <1>2, ContentsHeld DEF KeysFresh
<1> QED
  BY <1>1, <1>3 DEF TypeOK

-----------------------------------------------------------------------------
(* An entry is given.                                                      *)

\* The callback is given the entry the iterator rests on.
Gives(r) ==
  /\ Scanning(r) /\ it[r].pc = "idle" /\ Valid(it[r])
  /\ fed'[r] = Append(fed[r], KeyOf(it[r])) /\ born'[r] = born[r]
  /\ it'[r].target = it[r].target
  /\ UNCHANGED vars

LEMMA GivenAscends ==
  ASSUME ScanSound, NEW r \in Reader, Gives(r), From(r)' = From(r)
  PROVE  /\ FedSound(r)' /\ fed'[r] # <<>> /\ Last(fed'[r]) = KeyOf(it[r])
         /\ \A k \in born[r] : Owed(r, k)' => KeyOf(it[r]) < k
<1>1. ScanSoundOf(r) /\ FedSound(r) /\ Scanning(r)
  BY DEF ScanSound, ScanSoundOf, Gives, Scanning
<1>2. PICK f, x, g : f = fed[r] /\ x = KeyOf(it[r]) /\ g = Append(f, x)
  OBVIOUS
<1>3. /\ x \in Contents /\ x \in Key /\ (f = <<>> \/ Last(f) < x)
      /\ \A k \in born[r] : Owed(r, k) => x <= k
  BY <1>1, <1>2, ComesToRest DEF Gives
<1>4. f \in Seq(Key) /\ Ascending(f)
  BY <1>1, <1>2 DEF FedSound
<1>5. /\ g \in Seq(Key) /\ g # <<>> /\ Last(g) = x
      /\ ToSet(g) = ToSet(f) \union {x} /\ Ascending(g)
  BY <1>2, <1>3, <1>4, AppendAscends
<1>6. fed'[r] = g /\ born'[r] = born[r] /\ Contents' = Contents
  <2>1. Contents' = Contents
    BY DEF Gives, vars, payloadVars, nodeVars, threadVars, Contents, Linked, Node, KeysOf, KeyAt
  <2> QED
    BY <1>2, <2>1 DEF Gives
<1>7. \A k \in born[r] : Owed(r, k)' => x < k
  <2> SUFFICES ASSUME NEW k \in born[r], Owed(r, k)' PROVE x < k
    OBVIOUS
  <2>1. Owed(r, k) /\ k # x
    BY <1>2, <1>5, <1>6 DEF Owed
  <2>2. k \in Nat /\ x \in Nat
    BY <1>1, <1>3, ContentsAreKeys, SizeFacts DEF FedSound, ScanSound, ReadSound
  <2> QED
    BY <1>3, <2>1, <2>2
<1>8. FedSound(r)'
  BY <1>1, <1>2, <1>3, <1>5, <1>6, <1>7 DEF FedSound
<1> QED
  BY <1>2, <1>5, <1>6, <1>7, <1>8

LEMMA GivenIsSeen ==
  ASSUME ScanSound, NEW r \in Reader, Gives(r), scan[r] = "get",
         scan'[r] = "get" => AskedOn(r, KeyOf(it[r])),
         scan'[r] = "got" => /\ it'[r] = it[r] /\ KeyOf(it[r])' = KeyOf(it[r])
                             /\ ~AskedOn(r, KeyOf(it[r])),
         scan'[r] \in {"get", "got"}
  PROVE  GetSound(r)'
<1>1. ScanSoundOf(r) /\ FedSound(r) /\ GetSound(r) /\ Scanning(r) /\ IndexSound
  BY DEF ScanSound, ScanSoundOf, Gives, Scanning, LookingUp, ReadSound
<1>2. PICK f, x, g, t : f = fed[r] /\ x = KeyOf(it[r]) /\ g = Append(f, x) /\ t = it[r].target
  OBVIOUS
<1>3. x \in Contents /\ x \in Key /\ (f = <<>> \/ Last(f) < x)
  BY <1>1, <1>2, ComesToRest DEF Gives
<1>4. f \in Seq(Key) /\ Ascending(f)
  BY <1>1, <1>2 DEF FedSound
<1>5. /\ g # <<>> /\ Len(g) = Len(f) + 1 /\ Last(g) = x /\ ToSet(g) = ToSet(f) \union {x}
      /\ \A a \in DOMAIN f : g[a] = f[a]
      /\ g \in Seq(Key)
  <2>1. PICK h : h = Append(f, x)
    OBVIOUS
  <2>2. /\ h # <<>> /\ Len(h) = Len(f) + 1 /\ Last(h) = x /\ ToSet(h) = ToSet(f) \union {x}
        /\ \A a \in DOMAIN f : h[a] = f[a]
        /\ h \in Seq(Key)
    BY <1>3, <1>4, <2>1, AppendAscends
  <2> QED
    BY <1>2, <2>1, <2>2
<1>6. /\ fed'[r] = g /\ born'[r] = born[r] /\ it'[r].target = t /\ started' = started
  BY <1>2 DEF Gives, vars, threadVars
<1>7. \A k : AskedOn(r, k)' <=> AskedOn(r, k)
  BY <1>2, <1>6 DEF AskedOn
<1>8. Versions(started, t) \subseteq born[r] /\ Versions(ToSet(f), t) \subseteq born[r] /\ t \in Key
  BY <1>1, <1>2 DEF GetSound
<1>9. Versions(ToSet(g), t) \subseteq born[r]
  BY <1>1, <1>3, <1>5, <1>8, TableStarted DEF Versions
<1>10. ASSUME NEW a \in DOMAIN g, scan'[r] = "get" \/ a < Len(g) PROVE AskedOn(r, g[a])
  <2>1. CASE a \in DOMAIN f
    BY <1>1, <1>2, <1>5, <2>1 DEF GetSound
  <2>2. CASE a \notin DOMAIN f
    <3>1. a = Len(g) /\ g[a] = x
      BY <1>2, <1>3, <1>4, <1>5, <2>2 DEF Last
    <3>2. scan'[r] = "get"
      BY <1>5, <1>10, <3>1
    <3> QED
      BY <1>2, <3>1, <3>2
  <2> QED
    BY <2>1, <2>2
<1>11. scan'[r] = "got" /\ Valid(it[r])' => Last(g) = KeyOf(it[r])' /\ ~AskedOn(r, KeyOf(it[r]))'
  BY <1>2, <1>5, <1>7
<1> QED
  BY <1>5, <1>6, <1>7, <1>8, <1>9, <1>10, <1>11 DEF GetSound

-----------------------------------------------------------------------------
(* The steps of a scan.                                                    *)

LEMMA StepsOn ==
  ASSUME ScanSound, NEW r \in Reader, ReadStep(r), UNCHANGED scanVars
  PROVE  ScanSoundOf(r)'
<1>1. ScanSoundOf(r) /\ ReadSound
  BY DEF ScanSound
<1>2. it[r].pc # "idle"
  BY DEF ReadStep, WalkHop, WalkDown, WalkArrive, Load, Snap
<1>3. Scanning(r) /\ CallOfScan(r) /\ FedSound(r)
  BY <1>1, <1>2 DEF ScanSoundOf, Scanning, ScanEnded, EndOfScan
<1>4. /\ it'[r].op = it[r].op /\ it'[r].target = it[r].target
      /\ base'[r] = base[r] /\ mark'[r] = mark[r]
  <2>1. it[r].op # "seekForPrev"
    BY <1>3 DEF CallOfScan
  <2> QED
    BY <1>1, <2>1, StepsOfCall DEF SameCallOf
<1>5. Contents' = Contents /\ started' = started
  <2>1. UNCHANGED vars
    BY <1>1, OwnAffair
  <2> QED
    BY <2>1 DEF vars, payloadVars, nodeVars, threadVars, Contents, Linked, Node, KeysOf, KeyAt
<1>6. scan' = scan /\ fed' = fed /\ born' = born
  BY DEF scanVars
<1>7. From(r)' = From(r) /\ (Scanning(r)' <=> Scanning(r))
  BY <1>4, <1>6 DEF From, Scanning
<1>8. FedSound(r)' /\ CallOfScan(r)'
  BY <1>3, <1>4, <1>5, <1>6, <1>7 DEF FedSound, CallOfScan, Owed
<1>9. scan[r] = "get" => GetSound(r)'
  <2> SUFFICES ASSUME scan[r] = "get" PROVE GetSound(r)'
    OBVIOUS
  <2>1. GetSound(r)
    BY <1>1 DEF ScanSoundOf, LookingUp
  <2> QED
    BY <2>1, <1>4, <1>5, <1>6 DEF GetSound, AskedOn
<1> QED
  BY <1>3, <1>6, <1>7, <1>8, <1>9 DEF ScanSoundOf, Scanning, ScanEnded, LookingUp

LEMMA FeedsOn ==
  ASSUME ScanSound, NEW r \in Reader, FeedOn(r)
  PROVE  ScanSoundOf(r)'
<1>1. /\ ScanSoundOf(r) /\ ReadSound /\ ReaderSound(it[r], seen[r], base[r], mark[r])
      /\ DOMAIN it = Reader /\ DOMAIN base = Reader /\ DOMAIN mark = Reader /\ DOMAIN fed = Reader
  BY DEF ScanSound, ReadSound
<1>2. /\ Scanning(r) /\ it[r].pc = "idle" /\ Valid(it[r]) /\ Wants(r, KeyOf(it[r]))
      /\ fed' = [fed EXCEPT ![r] = Append(fed[r], KeyOf(it[r]))]
      /\ scan' = scan /\ born' = born
  BY DEF FeedOn, Ready
<1>3. PICK i, j : i = it[r] /\ j = SkipForward(Stepping(i, "next", i.pos + 1))
  OBVIOUS
<1>4. /\ it' = [it EXCEPT ![r] = j] /\ base' = [base EXCEPT ![r] = seen[r]]
      /\ mark' = [mark EXCEPT ![r] = KeyOf(it[r])] /\ UNCHANGED vars
  BY <1>2, <1>3 DEF FeedOn, NextKey, Begin, Stepping
<1>5. /\ it'[r] = j /\ base'[r] = seen[r] /\ mark'[r] = KeyOf(it[r])
      /\ fed'[r] = Append(fed[r], KeyOf(it[r]))
  BY <1>1, <1>2, <1>4
<1>6. j.op = "next" /\ j.target = i.target
  <2>1. i \in ReaderState
    BY <1>1, <1>3 DEF ReaderSound, UseSound
  <2> QED
    BY <1>3, <2>1 DEF SkipForward, Stepping, Adopting, Ended, ReaderState
<1>7. Gives(r)
  BY <1>2, <1>3, <1>4, <1>5, <1>6 DEF Gives
<1>8. From(r)' = From(r)
  BY <1>2, <1>3, <1>5, <1>6 DEF From
<1>9. FedSound(r)' /\ fed'[r] # <<>> /\ Last(fed'[r]) = KeyOf(it[r])
  BY <1>7, <1>8, GivenAscends
<1>10. CallOfScan(r)'
  <2>1. born[r] \subseteq base[r]
    BY <1>1, <1>2 DEF ScanSoundOf, CallOfScan
  <2>2. base[r] \subseteq seen[r]
    BY <1>1, <1>2 DEF ReaderSound, HandSound, Valid
  <2> QED
    BY <1>2, <1>5, <1>6, <1>9, <2>1, <2>2 DEF CallOfScan
<1>11. scan[r] = "get" => GetSound(r)'
  <2> SUFFICES ASSUME scan[r] = "get" PROVE GetSound(r)'
    OBVIOUS
  <2>1. AskedOn(r, KeyOf(it[r])) /\ scan'[r] = "get"
    BY <1>2 DEF Wants, AskedOn
  <2> QED
    BY <1>7, <2>1, GivenIsSeen
<1> QED
  BY <1>2, <1>9, <1>10, <1>11 DEF ScanSoundOf, Scanning, ScanEnded, LookingUp

\* Memory stays, and so does every key.
LEMMA Standstill ==
  ASSUME UNCHANGED allVars
  PROVE  /\ UNCHANGED <<vars, it, seen, base, mark, started>>
         /\ Contents' = Contents
         /\ \A r \in Reader : KeyOf(it[r])' = KeyOf(it[r]) /\ (Valid(it[r])' <=> Valid(it[r]))
BY DEF allVars, readerVars, vars, payloadVars, nodeVars, threadVars,
       Contents, Linked, Node, KeysOf, KeyAt, KeyOf, Valid

LEMMA FeedsLast ==
  ASSUME ScanSound, NEW r \in Reader, FeedLast(r)
  PROVE  ScanSoundOf(r)'
<1>1. ScanSoundOf(r) /\ DOMAIN scan = Reader /\ DOMAIN fed = Reader
  BY DEF ScanSound
<1>2. /\ Scanning(r) /\ it[r].pc = "idle" /\ Valid(it[r]) /\ ~Wants(r, KeyOf(it[r]))
      /\ fed' = [fed EXCEPT ![r] = Append(fed[r], KeyOf(it[r]))]
      /\ scan' = ScanOver(r) /\ UNCHANGED allVars /\ born' = born
  BY DEF FeedLast, Ready
<1>3. scan[r] = "get" /\ ~AskedOn(r, KeyOf(it[r]))
  BY <1>2 DEF Wants, AskedOn
<1>4. fed'[r] = Append(fed[r], KeyOf(it[r])) /\ scan'[r] = "got"
  BY <1>1, <1>2, <1>3 DEF ScanOver
<1>5. /\ UNCHANGED <<vars, it>>
      /\ KeyOf(it[r])' = KeyOf(it[r]) /\ Valid(it[r])'
  BY <1>2, Standstill
<1>6. Gives(r) /\ From(r)' = From(r)
  BY <1>2, <1>3, <1>4, <1>5 DEF Gives, From
<1>7. FedSound(r)' /\ \A k \in born[r] : Owed(r, k)' => KeyOf(it[r]) < k
  BY <1>6, GivenAscends
<1>8. EndOfScan(r)'
  BY <1>2, <1>5, <1>7 DEF EndOfScan
<1>9. GetSound(r)'
  BY <1>3, <1>4, <1>5, <1>6, GivenIsSeen
<1> QED
  BY <1>4, <1>7, <1>8, <1>9 DEF ScanSoundOf, Scanning, ScanEnded, LookingUp

LEMMA RunsOut ==
  ASSUME ScanSound, NEW r \in Reader, RunOut(r)
  PROVE  ScanSoundOf(r)'
<1>1. ScanSoundOf(r) /\ DOMAIN scan = Reader
  BY DEF ScanSound
<1>2. /\ Scanning(r) /\ it[r].pc = "idle" /\ ~Valid(it[r])
      /\ scan' = ScanOver(r) /\ UNCHANGED allVars /\ fed' = fed /\ born' = born
  BY DEF RunOut, Ready
<1>3. /\ scan[r] = "get" => scan'[r] = "got"
      /\ scan[r] = "size" => scan'[r] = "sized"
      /\ scan[r] \in {"get", "size"}
  BY <1>1, <1>2 DEF ScanOver, Scanning
<1>4. it' = it /\ Contents' = Contents /\ started' = started /\ ~Valid(it[r])'
  BY <1>2, Standstill
<1>5. From(r)' = From(r)
  BY <1>3, <1>4 DEF From
<1>6. FedSound(r)
  BY <1>1, <1>2 DEF ScanSoundOf, Scanning
<1>7. \A k \in born[r] : ~Owed(r, k)
  BY <1>2, ComesToRest
<1>8. FedSound(r)' /\ EndOfScan(r)'
  BY <1>2, <1>4, <1>5, <1>6, <1>7 DEF FedSound, EndOfScan, Owed
<1>9. scan[r] = "get" => GetSound(r)'
  <2> SUFFICES ASSUME scan[r] = "get" PROVE GetSound(r)'
    OBVIOUS
  <2>1. GetSound(r) /\ scan'[r] = "got"
    BY <1>1, <1>3 DEF ScanSoundOf, LookingUp
  <2> QED
    BY <2>1, <1>2, <1>4 DEF GetSound, AskedOn
<1> QED
  BY <1>3, <1>8, <1>9 DEF ScanSoundOf, Scanning, ScanEnded, LookingUp

\* A scan begins with nothing given, and owes what there is.
LEMMA ScanOpens ==
  ASSUME ScanSound, NEW r \in Reader, NEW kind \in {"get", "size"}, Opens(r, kind),
         UNCHANGED vars, base' = [base EXCEPT ![r] = Contents],
         it'[r].op = (IF kind = "get" THEN "seek" ELSE "seekToFirst"),
         kind = "get" => it'[r].target \in Key /\ Versions(started, it'[r].target) \subseteq Contents
  PROVE  ScanSoundOf(r)'
<1>1. /\ DOMAIN scan = Reader /\ DOMAIN fed = Reader /\ DOMAIN born = Reader /\ DOMAIN base = Reader
  BY DEF ScanSound, ReadSound
<1>2. /\ scan'[r] = kind /\ fed'[r] = <<>> /\ born'[r] = Contents /\ base'[r] = Contents
  BY <1>1 DEF Opens
<1>3. Contents' = Contents /\ started' = started
  BY DEF vars, payloadVars, nodeVars, threadVars, Contents, Linked, Node, KeysOf, KeyAt
<1>4. FedSound(r)'
  <2>1. <<>> \in Seq(Key) /\ Ascending(<<>>) /\ ToSet(<<>>) = {}
    BY DEF Ascending, ToSet
  <2> QED
    BY <1>2, <1>3, <2>1 DEF FedSound
<1>5. CallOfScan(r)'
  BY <1>2 DEF CallOfScan
<1>6. kind = "get" => GetSound(r)'
  <2>1. ToSet(<<>>) = {} /\ DOMAIN <<>> = {}
    BY DEF ToSet
  <2>2. Versions({}, it'[r].target) = {}
    BY DEF Versions
  <2> QED
    BY <1>2, <1>3, <2>1, <2>2 DEF GetSound
<1> QED
  BY <1>2, <1>4, <1>5, <1>6 DEF ScanSoundOf, Scanning, ScanEnded, LookingUp

LEMMA Gets ==
  ASSUME ScanSound, NEW r \in Reader, NEW k \in Key, Get(r, k)
  PROVE  ScanSoundOf(r)'
<1>1. PICK j : j = Walking(Asking("seek", k), "atOrBelow", "find")
  OBVIOUS
<1>2. /\ it' = [it EXCEPT ![r] = j] /\ base' = [base EXCEPT ![r] = Contents] /\ UNCHANGED vars
      /\ Opens(r, "get") /\ Versions(started, k) \subseteq Contents
  BY <1>1 DEF Get, Lookup, Begin, Asking
<1>3. DOMAIN it = Reader
  BY DEF ScanSound, ReadSound
<1>4. it'[r] = j
  BY <1>2, <1>3
<1>5. j.op = "seek" /\ j.target = k
  BY <1>1 DEF Walking, Asking, Fresh
<1> QED
  BY <1>2, <1>4, <1>5, ScanOpens

LEMMA Sizes ==
  ASSUME ScanSound, NEW r \in Reader, Size(r)
  PROVE  ScanSoundOf(r)'
<1>1. PICK j : j = Adopting(Turning("seekToFirst"), HeadNode, "front")
  OBVIOUS
<1>2. /\ it' = [it EXCEPT ![r] = j] /\ base' = [base EXCEPT ![r] = Contents] /\ UNCHANGED vars
      /\ Opens(r, "size")
  BY <1>1 DEF Size, SeekToFirst, Begin, Turning
<1>3. DOMAIN it = Reader
  BY DEF ScanSound, ReadSound
<1>4. it'[r] = j
  BY <1>2, <1>3
<1>5. j.op = "seekToFirst"
  BY <1>1 DEF Adopting, Turning, Fresh
<1> QED
  BY <1>2, <1>4, <1>5, ScanOpens

-----------------------------------------------------------------------------
(* Every step.                                                             *)

Turn(r) == ScanStep(r) \/ Size(r) \/ \E k \in Key : Get(r, k)

LEMMA TurnSound ==
  ASSUME ScanSound, NEW r \in Reader, Turn(r)
  PROVE  ScanSoundOf(r)'
BY StepsOn, FeedsOn, FeedsLast, RunsOut, Gets, Sizes, Zenon DEF Turn, ScanStep

\* A step of a scan is one of its own reader.
LEMMA TurnIsOwn ==
  ASSUME ScanSound, NEW r \in Reader, Turn(r)
  PROVE  /\ UNCHANGED vars
         /\ DOMAIN scan' = Reader /\ DOMAIN fed' = Reader /\ DOMAIN born' = Reader
         /\ \A q \in Reader \ {r} : Unmoved(q)
<1>1. /\ DOMAIN scan = Reader /\ DOMAIN fed = Reader /\ DOMAIN born = Reader /\ ReadSound
  BY DEF ScanSound
<1>2. Call(r) \/ ReadStep(r) \/ UNCHANGED allVars
  BY Zenon DEF Turn, ScanStep, FeedOn, FeedLast, RunOut, Size, Get, Call, Seek
<1>3. /\ UNCHANGED vars
      /\ \A q \in Reader \ {r} : it'[q] = it[q] /\ base'[q] = base[q] /\ mark'[q] = mark[q]
  <2>1. CASE Call(r) \/ ReadStep(r)
    BY <1>1, <2>1, OwnAffair
  <2>2. CASE UNCHANGED allVars
    BY <2>2 DEF allVars, readerVars
  <2> QED
    BY <1>2, <2>1, <2>2
<1>4. /\ scan' = scan \/ \E x : scan' = [scan EXCEPT ![r] = x]
      /\ fed' = fed \/ \E x : fed' = [fed EXCEPT ![r] = x]
      /\ born' = born \/ \E x : born' = [born EXCEPT ![r] = x]
  <2>1. CASE FeedOn(r)
    BY <2>1 DEF FeedOn
  <2>2. CASE FeedLast(r) \/ RunOut(r)
    BY <2>2 DEF FeedLast, RunOut, ScanOver
  <2>3. CASE UNCHANGED scanVars
    BY <2>3 DEF scanVars
  <2>4. CASE \E kind : Opens(r, kind)
    BY <2>4 DEF Opens
  <2> QED
    BY <2>1, <2>2, <2>3, <2>4, Zenon DEF Turn, ScanStep, Size, Get
<1> QED
  BY <1>1, <1>3, <1>4 DEF Unmoved

LEMMA ScanStays ==
  ASSUME ScanSound, [NextRep]_repVars
  PROVE  ScanSound'
<1>1. ReadSound /\ [NextReader]_allVars /\ ReadSound'
  BY RepIsReader, ReadStays DEF ScanSound
<1>2. ASSUME NEW r \in Reader, Turn(r) PROVE ScanSound'
  <2>1. ScanSoundOf(r)'
    BY <1>2, TurnSound
  <2>2. /\ UNCHANGED vars
        /\ DOMAIN scan' = Reader /\ DOMAIN fed' = Reader /\ DOMAIN born' = Reader
        /\ \A q \in Reader \ {r} : Unmoved(q)
    BY <1>2, TurnIsOwn
  <2>3. started' = started
    BY <2>2 DEF vars, threadVars
  <2>4. ASSUME NEW q \in Reader \ {r} PROVE ScanSoundOf(q)'
    BY <1>1, <2>2, <2>3, <2>4, ScanKeeps
  <2> QED
    BY <1>1, <2>1, <2>2, <2>4 DEF ScanSound
<1>3. ASSUME UNCHANGED <<readerVars, scanVars>>, WritesAreNewer \/ UNCHANGED started
      PROVE  ScanSound'
  <2>1. UNCHANGED <<it, seen, base, mark, scan, fed, born>>
    BY <1>3 DEF readerVars, scanVars
  <2>2. ASSUME NEW q \in Reader PROVE ScanSoundOf(q)'
    <3>1. Unmoved(q)
      BY <2>1 DEF Unmoved
    <3>2. scan[q] = "get" =>
            Versions(started', it[q].target) \subseteq Versions(started, it[q].target)
      <4> SUFFICES ASSUME scan[q] = "get", NEW k \in Versions(started', it[q].target)
                   PROVE  k \in started
        BY DEF Versions
      <4>1. k \in started' /\ k >= it[q].target /\ User[k] = User[it[q].target]
        BY DEF Versions
      <4>2. k \in Nat /\ it[q].target \in Nat
        <5>1. it[q].target \in Key
          BY DEF ScanSound, ScanSoundOf, LookingUp, GetSound
        <5>2. TypeOK'
          BY <1>1 DEF ReadSound, IndexSound, ListSound, Ownership
        <5>3. k \in Key
          BY <4>1, <5>2 DEF TypeOK
        <5> QED
          BY <5>1, <5>3, SizeFacts
      <4> QED
        BY <1>3, <4>1, <4>2 DEF WritesAreNewer
    <3> QED
      BY <1>1, <3>1, <3>2, ScanKeeps
  <2>3. DOMAIN scan' = Reader /\ DOMAIN fed' = Reader /\ DOMAIN born' = Reader
    BY <2>1 DEF ScanSound
  <2> QED
    BY <1>1, <2>2, <2>3 DEF ScanSound
<1>4. UNCHANGED repVars => UNCHANGED <<readerVars, scanVars>> /\ UNCHANGED started
  BY DEF repVars, allVars, vars, threadVars
<1> QED
  BY <1>2, <1>3, <1>4 DEF NextRep, Turn

LEMMA ScanInit == InitRep => ScanSound
<1> SUFFICES ASSUME InitRep PROVE ScanSound
  OBVIOUS
<1>1. ReadSound
  BY ReadInit DEF InitRep
<1>2. ASSUME NEW r \in Reader PROVE ScanSoundOf(r)
  <2>1. scan[r] = "none" /\ it[r].pc = "idle"
    BY DEF InitRep, InitReader, Fresh
  <2> QED
    BY <2>1 DEF ScanSoundOf, Scanning, ScanEnded, LookingUp
<1> QED
  BY <1>1, <1>2 DEF ScanSound, InitRep

\* Every scan is sound, whatever writers and other scans do: the entries given
\* ascend, and what is owed of the table as it was is above them.
THEOREM ScanSoundHolds == SpecRep => []ScanSound
<1>1. InitRep => ScanSound
  BY ScanInit
<1>2. ScanSound /\ [NextRep]_repVars => ScanSound'
  BY ScanStays
<1> QED
  BY <1>1, <1>2, PTL DEF SpecRep

\* Scans ascend, give what is there, and leave nothing out that was there when
\* they began, however the nodes under them split.
THEOREM ScansLeaveNothingOut == SpecRep => []ScansAreGapless
<1>1. ScanSound => ScansAreGapless
  <2> SUFFICES ASSUME ScanSound, NEW r \in Reader, scan[r] # "none"
               PROVE  /\ \A i, j \in DOMAIN fed[r] : i < j => fed[r][i] < fed[r][j]
                      /\ ToSet(fed[r]) \subseteq Contents
                      /\ \A k \in born[r] : From(r) <= k /\ k \notin ToSet(fed[r]) =>
                           IF ScanEnded(r) THEN Valid(it[r]) /\ KeyOf(it[r]) < k
                           ELSE fed[r] = <<>> \/ Last(fed[r]) < k
    BY DEF ScansAreGapless
  <2>1. FedSound(r) /\ (ScanEnded(r) => EndOfScan(r))
    BY DEF ScanSound, ScanSoundOf
  <2> QED
    BY <2>1 DEF FedSound, EndOfScan, Ascending, Owed
<1> QED
  BY <1>1, ScanSoundHolds, PTL

\* The versions of one user key follow each other.
LEMMA VersionsBetween ==
  ASSUME NEW i \in Key, NEW j \in Key, NEW k \in Key, i <= j, j < k, User[i] = User[k]
  PROVE  User[j] = User[i]
<1>1. i \in Nat /\ j \in Nat /\ k \in Nat
  BY SizeFacts
<1> QED
  BY <1>1, RepAssumption

\* What a finished lookup was given from its lookup key on was there when it
\* began, and is all the callback wants of that.
LEMMA FinishedLookup ==
  ASSUME ScanSound, NEW r \in Reader, scan[r] = "got",
         fed[r] # <<>> => Head(fed[r]) >= it[r].target
  PROVE  GetIsRight(r)
<1>1. FedSound(r) /\ EndOfScan(r) /\ GetSound(r) /\ IndexSound
  BY DEF ScanSound, ScanSoundOf, ScanEnded, LookingUp, ReadSound
<1>2. PICK f, t, S : f = fed[r] /\ t = it[r].target /\ S = born[r]
  OBVIOUS
<1>3. /\ f \in Seq(Key) /\ Ascending(f) /\ S \subseteq Key /\ t \in Key
      /\ Versions(ToSet(f), t) \subseteq S
      /\ \A a \in DOMAIN f : a < Len(f) => AskedOn(r, f[a])
  BY <1>1, <1>2, ContentsAreKeys DEF FedSound, GetSound
<1>4. \A k \in ToSet(f) : k >= t /\ k \in Key
  <2> SUFFICES ASSUME NEW k \in ToSet(f) PROVE k >= t /\ k \in Key
    OBVIOUS
  <2>1. PICK a \in DOMAIN f : k = f[a]
    BY DEF ToSet
  <2>2. f # <<>> /\ 1 \in DOMAIN f /\ a \in 1..Len(f) /\ Head(f) = f[1]
    BY <1>3, <2>1
  <2>3. f[1] \in Key /\ f[a] \in Key
    BY <1>3, <2>1, <2>2
  <2>4. f[1] \in Nat /\ f[a] \in Nat /\ t \in Nat
    BY <1>3, <2>3, SizeFacts
  <2>5. f[1] <= f[a]
    BY <1>3, <2>2, <2>4 DEF Ascending
  <2>6. f[1] >= t
    BY <1>2, <2>2
  <2> QED
    BY <2>1, <2>3, <2>4, <2>5, <2>6
<1>5. Given(r) = Versions(ToSet(f), t)
  BY <1>2, <1>4 DEF Given, Versions
<1>6. ASSUME NEW k \in S, k >= t, k \notin ToSet(f)
      PROVE  /\ f # <<>> /\ Last(f) \in ToSet(f) /\ Last(f) < k
             /\ ~AskedOn(r, Last(f))
  <2>1. Owed(r, k)
    BY <1>2, <1>3, <1>6, SizeFacts DEF Owed, From
  <2>2. Valid(it[r]) /\ KeyOf(it[r]) < k
    BY <1>1, <1>2, <2>1 DEF EndOfScan
  <2>3. f # <<>> /\ Last(f) = KeyOf(it[r]) /\ ~AskedOn(r, KeyOf(it[r]))
    BY <1>1, <1>2, <2>2 DEF GetSound
  <2>4. Last(f) \in ToSet(f)
    BY <1>3, <2>3 DEF Last, ToSet
  <2> QED
    BY <2>2, <2>3, <2>4
<1>7. ASSUME NEW j \in Given(r) PROVE j \in Answer(S, t)
  <2>1. j \in ToSet(f) /\ j \in Versions(S, t) /\ j \in Key
    BY <1>3, <1>4, <1>5 DEF Versions
  <2>2. j <= Last(f)
    BY <1>3, <2>1, LastIsGreatest
  <2>3. ASSUME NEW i \in Versions(S, t), i < j PROVE i \in Operand
    <3>1. i \in S /\ i >= t /\ i \in Key
      BY <1>3 DEF Versions
    <3>2. i \in Nat /\ j \in Nat
      BY <2>1, <3>1, SizeFacts
    <3>3. i \in ToSet(f)
      <4> SUFFICES ASSUME i \notin ToSet(f) PROVE FALSE
        OBVIOUS
      <4>1. Last(f) < i /\ Last(f) \in Nat
        BY <1>4, <1>6, <3>1, SizeFacts
      <4> QED
        BY <2>2, <2>3, <3>2, <4>1
    <3>4. PICK a \in DOMAIN f : i = f[a]
      BY <3>3 DEF ToSet
    <3>5. a # Len(f)
      BY <2>2, <2>3, <3>2, <3>4 DEF Last
    <3>6. a < Len(f)
      BY <1>3, <3>4, <3>5
    <3> QED
      BY <1>3, <3>4, <3>6 DEF AskedOn
  <2> QED
    BY <2>1, <2>3 DEF Answer
<1>8. ASSUME NEW j \in Answer(S, t) PROVE j \in Given(r)
  <2>1. /\ j \in S /\ j >= t /\ User[j] = User[t] /\ j \in Key
        /\ \A i \in Versions(S, t) : i < j => i \in Operand
    BY <1>3 DEF Answer, Versions
  <2>2. ASSUME j \notin ToSet(f) PROVE FALSE
    <3>1. PICK x : x = Last(f)
      OBVIOUS
    <3>2. x \in ToSet(f) /\ x < j /\ ~AskedOn(r, x) /\ x \in Key /\ t <= x
      BY <1>4, <1>6, <2>1, <2>2, <3>1, SizeFacts
    <3>3. User[x] = User[t]
      BY <1>3, <2>1, <3>2, VersionsBetween
    <3>4. x \in Versions(S, t)
      BY <1>3, <1>4, <3>2, <3>3 DEF Versions
    <3> QED
      BY <1>2, <2>1, <3>2, <3>3, <3>4 DEF AskedOn
  <2> QED
    BY <1>5, <2>1, <2>2 DEF Versions
<1> QED
  BY <1>2, <1>7, <1>8 DEF GetIsRight

\* A Get is given exactly the versions it may see, as far as it asks for them,
\* across nodes and whatever is inserted meanwhile, provided its seek did not
\* come to rest below the lookup key.
THEOREM GetsGiveWhatTheyMay == SpecRep => []GetsAreExact
<1>1. ScanSound => GetsAreExact
  BY FinishedLookup DEF GetsAreExact
<1> QED
  BY <1>1, ScanSoundHolds, PTL

=============================================================================
