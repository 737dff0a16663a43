----------------------------- MODULE RepSample -----------------------------
(***************************************************************************)
(* AparajitaRep::UniqueRandomSample of the RocksDB plugin: a reservoir     *)
(* filled in one forward pass over a memtable that a flush reads and       *)
(* nobody writes any more.  The generator is any sequence of draws.        *)
(***************************************************************************)
EXTENDS Integers, FiniteSets, FiniteSetsExt, Sequences, SequencesExt

CONSTANTS
  Entry,     \* entries of the memtable
  MaxTarget  \* bound: the largest sample asked for

ASSUME SampleAssumption == IsFiniteSet(Entry) /\ MaxTarget \in Nat

VARIABLES
  table,      \* what a forward pass yields
  target,     \* target_sample_size
  seen,       \* entries the pass has gone over
  reservoir,  \* the sample so far
  entries,    \* the caller's set
  done

sampleVars == <<table, target, seen, reservoir, entries, done>>

\* The caller's set is not empty to begin with: it is cleared.
SampleInit ==
  /\ \E S \in SUBSET Entry : table \in SetToSeqs(S)
  /\ target \in 0..MaxTarget
  /\ seen = 0
  /\ reservoir = <<>>
  /\ entries \in {{}, Entry}
  /\ done = FALSE

\* num_entries is RocksDB's count of the table.
NothingToDo == target = 0 \/ table = <<>>

\* Slip: what the caller left in its set stays.
ClearedNot == entries

\* entries->clear().
Cleared == {}

ReturnEarly ==
  /\ ~done /\ NothingToDo
  /\ entries' = Cleared
  /\ done' = TRUE
  /\ UNCHANGED <<table, target, seen, reservoir>>

Replace(j, e) == [reservoir EXCEPT ![j + 1] = e]

\* One entry of the pass: kept while the reservoir has room, afterwards in the
\* place drawn, if the draw is one.
Visit ==
  /\ ~done /\ ~NothingToDo
  /\ seen < Len(table)
  /\ LET e == table[seen + 1]
     IN  IF Len(reservoir) < target
         THEN reservoir' = Append(reservoir, e)
         ELSE \E j \in 0..seen :
                reservoir' = IF j < target THEN Replace(j, e) ELSE reservoir
  /\ seen' = seen + 1
  /\ UNCHANGED <<table, target, entries, done>>

Return ==
  /\ ~done /\ ~NothingToDo
  /\ seen = Len(table)
  /\ entries' = Cleared \union ToSet(reservoir)
  /\ done' = TRUE
  /\ UNCHANGED <<table, target, seen, reservoir>>

SampleNext == ReturnEarly \/ Visit \/ Return

SampleSpec == SampleInit /\ [][SampleNext]_sampleVars

-----------------------------------------------------------------------------
(* Properties.                                                             *)

\* Whatever is drawn, the sample has exactly as many different entries of the
\* table as were asked for, or all of them: it "cannot return fewer samples than
\* asked for when unlucky".
SampleIsExact ==
  done => /\ entries \subseteq ToSet(table)
          /\ Cardinality(entries) = Min({target, Len(table)})
=============================================================================
