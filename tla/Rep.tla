-------------------------------- MODULE Rep --------------------------------
(***************************************************************************)
(* Whole scans over BasicMemTable, beside its writers: AparajitaRep::Get   *)
(* of plugin/aparajita/aparajita_memtable.cc, which seeks and feeds        *)
(* entries to a callback of RocksDB's until that has enough, and size(),   *)
(* which counts a walk from the first entry to the end.                    *)
(*                                                                         *)
(* An entry is an internal key: a user key and a sequence number, the      *)
(* newest first among those of one user key.  As everywhere it is its      *)
(* rank; a lookup key is the rank of the newest version it may see.        *)
(***************************************************************************)
EXTENDS Iterator

CONSTANTS
  User,           \* User[k]: the user key of entry k
  Operand,        \* entries that are merge operands
  Rtti,           \* whether RocksDB is built with USE_RTTI
  UserComparator  \* "bytewise", or any other comparator RocksDB may be given

\* Whether a descent may trust the hints.
AparajitaHintOrdering(comparator) == Rtti /\ comparator = "bytewise"

\* Hints are taken of the user key: order_bytes leaves the tag out.
ASSUME RepAssumption ==
  /\ User \in [Key -> Nat]
  /\ \A i, j, k \in Key : i < j /\ j < k /\ User[i] = User[k] => User[j] = User[i]
  /\ Operand \subseteq Key
  /\ Rtti \in BOOLEAN
  /\ \A j, k \in Key : User[j] = User[k] => Hint[j] = Hint[k]
  /\ HintOrdering = AparajitaHintOrdering(UserComparator)

VARIABLES
  scan,  \* scan[r]: "none", under way ("get", "size"), or ended ("got", "sized")
  fed,   \* fed[r]: the entries the callback was given, or size counted
  born   \* born[r]: history, the contents when the scan began

scanVars == <<scan, fed, born>>

Scanning(r) == scan[r] \in {"get", "size"}

Opens(r, kind) ==
  /\ scan[r] = "none"  \* bound: each reader makes one scan
  /\ scan' = [scan EXCEPT ![r] = kind]
  /\ fed' = [fed EXCEPT ![r] = <<>>]
  /\ born' = [born EXCEPT ![r] = Contents]

Versions(S, k) == {j \in S : j >= k /\ User[j] = User[k]}

\* RocksDB gives a sequence number to readers once every write up to it is in.
Get(r, k) ==
  /\ Versions(started, k) \subseteq Contents
  /\ Opens(r, "get")
  /\ Lookup(r, "seek", k)

Size(r) == Opens(r, "size") /\ SeekToFirst(r)

\* RocksDB's callback: an entry of another user key ends the lookup, and so does
\* a value; after a merge operand it asks for the version below.
Wants(r, k) ==
  scan[r] = "get" => User[k] = User[it[r].target] /\ k \in Operand

ScanOver(r) == [scan EXCEPT ![r] = IF @ = "get" THEN "got" ELSE "sized"]

\* The callback is given the entry the iterator rests on, and wants another.
FeedOn(r) ==
  /\ Scanning(r) /\ Ready(r) /\ Valid(it[r])
  /\ Wants(r, KeyOf(it[r]))
  /\ fed' = [fed EXCEPT ![r] = Append(@, KeyOf(it[r]))]
  /\ NextKey(r)
  /\ UNCHANGED <<scan, born>>

\* It is given one, and has enough.
FeedLast(r) ==
  /\ Scanning(r) /\ Ready(r) /\ Valid(it[r])
  /\ ~Wants(r, KeyOf(it[r]))
  /\ fed' = [fed EXCEPT ![r] = Append(@, KeyOf(it[r]))]
  /\ scan' = ScanOver(r)
  /\ UNCHANGED <<allVars, born>>

RunOut(r) ==
  /\ Scanning(r) /\ Ready(r) /\ ~Valid(it[r])
  /\ scan' = ScanOver(r)
  /\ UNCHANGED <<allVars, fed, born>>

\* What RocksDB inserts during a lookup is newer than the lookup may see.
WritesAreNewer ==
  \A r \in Reader : scan[r] = "get" =>
    \A k \in started' \ started : User[k] = User[it[r].target] => k < it[r].target

ScanStep(r) ==
  \/ FeedOn(r) \/ FeedLast(r) \/ RunOut(r)
  \/ ReadStep(r) /\ UNCHANGED scanVars

InitRep ==
  /\ InitReader
  /\ scan = [r \in Reader |-> "none"]
  /\ fed = [r \in Reader |-> <<>>]
  /\ born = [r \in Reader |-> {}]

NextRep ==
  \/ Next /\ WritesAreNewer /\ UNCHANGED <<readerVars, scanVars>>
  \/ \E r \in Reader : ScanStep(r) \/ Size(r) \/ \E k \in Key : Get(r, k)

repVars == <<allVars, scanVars>>
SpecRep == InitRep /\ [][NextRep]_repVars

\* Readers get their turn; writers may stop for good, as in FairReader.
FairRep == SpecRep /\ \A r \in Reader : WF_repVars(ScanStep(r))

-----------------------------------------------------------------------------
(* Properties.                                                             *)

From(r) == IF scan[r] \in {"get", "got"} THEN it[r].target ELSE 0
ScanEnded(r) == scan[r] \in {"got", "sized"}

\* A scan yields entries in ascending order, each once, and leaves none out that
\* was there when it began: however the nodes under it split, up to the last entry
\* it yielded, or to the end if the table ran out.  So size() counts no entry
\* twice and none that is not there, and misses none that was there throughout.
ScansAreGapless ==
  \A r \in Reader : scan[r] # "none" =>
    /\ \A i, j \in DOMAIN fed[r] : i < j => fed[r][i] < fed[r][j]
    /\ ToSet(fed[r]) \subseteq Contents
    /\ \A k \in born[r] : From(r) <= k /\ k \notin ToSet(fed[r]) =>
         IF ScanEnded(r) THEN Valid(it[r]) /\ KeyOf(it[r]) < k
         ELSE fed[r] = <<>> \/ Last(fed[r]) < k

\* What a lookup of k should be given of its user key, in a table that holds S:
\* the newest version and, while these are operands, the ones below.
Answer(S, k) ==
  {j \in Versions(S, k) : \A i \in Versions(S, k) : i < j => i \in Operand}

Given(r) == {k \in ToSet(fed[r]) : User[k] = User[it[r].target]}

GetIsRight(r) == Given(r) = Answer(born[r], it[r].target)

\* A Get is given exactly the versions it may see, as far as it asks for them,
\* across nodes and whatever is inserted meanwhile, provided its seek did not
\* come to rest below the lookup key.
GetsAreExact ==
  \A r \in Reader :
    scan[r] = "got" /\ (fed[r] # <<>> => Head(fed[r]) >= it[r].target) => GetIsRight(r)

\* A scan ends, whatever writers stop in the middle of.
ScansFinish == \A r \in Reader : Scanning(r) ~> ~Scanning(r)

\* "Forward, backward, every Get, Seek and SeekForPrev agree, under concurrent
\* writes": what a sorted list would answer, so does Get.
GetsAgree == \A r \in Reader : scan[r] = "got" => GetIsRight(r)
=============================================================================
