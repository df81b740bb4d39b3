-------------------------- MODULE BatchAccumulator --------------------------
(* settlement/batchAccumulator.ts.  The queue is the set of its entries,   *)
(* which are its seenIds; getBatch empties both.                           *)
EXTENDS Integers, FiniteSets

CONSTANTS BatchSize, Capacity

ASSUME AccumulatorAssumption == {BatchSize, Capacity} \subseteq Nat \ {0}

\* Mutant of Added: maxCapacity is not looked at.
AddedUnbounded(queue, S) == {queue \cup S}

\* addMatches: what the queue may be with S added.  Entries it holds are
\* skipped; the rest of the list is dropped at maxCapacity, whatever its order.
Added(queue, S) ==
    {Q \in SUBSET (queue \cup S) :
        /\ queue \subseteq Q
        /\ Q = queue \cup S \/ Cardinality(Q) = Capacity
        /\ Cardinality(Q) <= Capacity}

NeedsMoreMatches(queue) == Cardinality(queue) < BatchSize

\* due: batchIntervalMs has passed since the last getBatch.
ShouldProcess(queue, due) == ~NeedsMoreMatches(queue) \/ (due /\ queue # {})
=============================================================================
