-------------------------- MODULE EventWriters_proofs -------------------------
(***************************************************************************)
(* The event writers, for any transactions, events, rows and flags, both   *)
(* readings of the stamp check, and any number of failures and changes of  *)
(* mind: no event is added to its row twice, none the indexer has handled  *)
(* is missing, and no flag a user wants is lost.                           *)
(***************************************************************************)
EXTENDS EventWriters, FiniteSetTheorems, WellFoundedInduction, TLAPS

-----------------------------------------------------------------------------
(* Events.                                                                 *)

\* What a shorter prefix leaves out makes it smaller, so some event is first.
LEMMA FirstEvent ==
    ASSUME NEW S \in SUBSET Events, S # {}
    PROVE  \E n \in S : \A k \in S : n <= k
<1> DEFINE upTo(n) == {k \in S : k <= n}
           F == {upTo(n) : n \in S}
<1>1. IsFiniteSet(Events)
  BY TransactionsAssumption, FS_Interval DEF Events
<1>2. F \subseteq FiniteSubsetsOf(Events) /\ F # {}
  <2>1. \A n \in S : IsFiniteSet(upTo(n)) /\ upTo(n) \in SUBSET Events
    BY <1>1, FS_Subset
  <2> QED
    BY <2>1 DEF FiniteSubsetsOf
<1>3. IsWellFoundedOn(StrictSubsetOrdering(Events), FiniteSubsetsOf(Events))
  BY <1>1, FS_StrictSubsetOrderingWellFounded
<1>4. PICK T \in F : \A U \in F : ~ (<<U, T>> \in StrictSubsetOrdering(Events))
  BY <1>2, <1>3, WFMin
<1>5. PICK n \in S : T = upTo(n)
  OBVIOUS
<1>6. ASSUME NEW k \in S, k < n
      PROVE  FALSE
  <2>1. S \subseteq Int
    BY TransactionsAssumption DEF Events
  <2>2. n <= n /\ ~ (n <= k) /\ \A j \in S : j <= k => j <= n
    <3> HIDE DEF F
    <3> QED
      BY <1>6, <2>1
  <2>3. upTo(k) \subseteq T /\ n \in T /\ n \notin upTo(k)
    BY <1>5, <2>2
  <2>4. <<upTo(k), T>> \in StrictSubsetOrdering(Events)
    BY <2>3, <1>5 DEF StrictSubsetOrdering
  <2> QED
    BY <1>4, <2>4
<1> QED
  BY <1>6, TransactionsAssumption DEF Events

\* Min picks it.
LEMMA MinIsFirst ==
    ASSUME NEW S \in SUBSET Events, S # {}
    PROVE  Min(S) \in S /\ \A k \in S : Min(S) <= k
BY FirstEvent DEF Min

\* The engine's next event is one of those it has left.
LEMMA NextOfType ==
    ASSUME NEW S \in SUBSET Events, S # {}
    PROVE  NextOf(S) \in S
<1>1. CASE S \cap Lends # {}
  <2>1. Min(S \cap Lends) \in S \cap Lends
    BY <1>1, MinIsFirst
  <2> QED
    BY <1>1, <2>1 DEF NextOf
<1>2. CASE S \cap Lends = {}
  BY <1>2, MinIsFirst DEF NextOf
<1> QED
  BY <1>1, <1>2

-----------------------------------------------------------------------------
(* The inductive invariant.                                                *)

\* What an engine has left are events of its own transaction, and it gets to
\* them only once the transaction is mined.
JobsInOrder ==
    \A t \in Txs :
        /\ todo[t] \subseteq EventsOf(t)
        /\ job[t] = "batch" => t \notin mined \cup reverted
        /\ job[t] \in {"apply", "flags", "done"} => t \in mined

\* The stamp of a row is that of an event of this row, which was added to it.
StampsTell ==
    \A e \in Events :
        stamp[key[e]] # 0 => /\ key[stamp[key[e]]] = key[e]
                             /\ count[stamp[key[e]]] > 0

\* Where NotAppliedTwice is claimed, a row's stamp covers what was added to it.
StampsCover ==
    check = "covering" \/ OneEventPerRow =>
        \A e \in Events : /\ count[e] <= 1
                          /\ count[e] > 0 => stamp[key[e]] >= e

\* The safety part of EventsArrive: where it is claimed, an event the indexer
\* is done with is in its row, added by the indexer or by an engine.
SeenIsApplied ==
    check = "matching" \/ OneEventPerRow => \A e \in seen : count[e] > 0

\* A flag that a mined transaction carried was set, and is unless its user has
\* unset it.
CarriedIsSet == \A t \in mined : encoded[t] \subseteq set \cup unset

TablesInv == StampsTell /\ StampsCover /\ SeenIsApplied
FlagsInv == CarriedIsSet /\ WantedIsKept
WritersInv == TypeOK /\ JobsInOrder /\ TablesInv /\ FlagsInv

\* Steps that leave the position tables alone.
LEMMA TablesUnchanged ==
    ASSUME TablesInv, UNCHANGED <<fixed, tableVars, seen>>
    PROVE  TablesInv'
BY DEF TablesInv, StampsTell, StampsCover, SeenIsApplied, OneEventPerRow,
       fixed, tableVars

\* applyOnChainEffect, by whomever it is run.
LEMMA ApplyKeeps ==
    ASSUME TypeOK, TablesInv, NEW e \in Events, Apply(e), UNCHANGED fixed
    PROVE  /\ stamp' \in [{key[f] : f \in Events} -> 0..N]
           /\ count' \in [Events -> Nat]
           /\ \A f \in Events : count'[f] >= count[f]
           /\ \A f \in Events : f # e => count'[f] = count[f]
           /\ StampsTell' /\ StampsCover'
           /\ check = "matching" \/ OneEventPerRow => count'[e] > 0
<1> USE DEF Events
<1>1. /\ stamp \in [{key[f] : f \in Events} -> 0..N]
      /\ count \in [Events -> Nat]
      /\ N \in Nat /\ check \in {"matching", "covering"}
      /\ \A f \in Events : key[f] \in {key[g] : g \in Events}
  BY TransactionsAssumption, WritersAssumption DEF TypeOK
<1>2. key' = key /\ check' = check
  BY DEF fixed
<1>3. CASE AlreadyApplied(e)
  <2>1. stamp' = stamp /\ count' = count
    BY <1>3 DEF Apply, tableVars
  <2>2. StampsTell' /\ StampsCover'
    BY <1>2, <2>1 DEF TablesInv, StampsTell, StampsCover, OneEventPerRow
  <2>3. ASSUME check = "matching" \/ OneEventPerRow
        PROVE  count[e] > 0
    <3>1. stamp[key[e]] # 0 /\ stamp[key[e]] \in Events
      BY <1>1, <1>3 DEF AlreadyApplied
    <3>2. stamp[key[e]] = e
      BY <1>1, <1>3, <2>3, <3>1
         DEF AlreadyApplied, OneEventPerRow, TablesInv, StampsTell
    <3> QED
      BY <3>1, <3>2 DEF TablesInv, StampsTell
  <2> QED
    BY <1>1, <2>1, <2>2, <2>3
<1>4. CASE ~ AlreadyApplied(e)
  <2>1. /\ stamp' = [stamp EXCEPT ![key[e]] = e]
        /\ count' = [count EXCEPT ![e] = @ + 1]
    BY <1>4 DEF Apply
  <2>2. /\ stamp'[key[e]] = e /\ count'[e] = count[e] + 1
        /\ \A f \in Events : key[f] # key[e] => stamp'[key[f]] = stamp[key[f]]
        /\ \A f \in Events : f # e => count'[f] = count[f]
        /\ \A f \in Events : count[f] \in Nat /\ stamp[key[f]] \in 0..N
    BY <1>1, <2>1
  <2>3. /\ stamp' \in [{key[f] : f \in Events} -> 0..N]
        /\ count' \in [Events -> Nat]
    BY <1>1, <2>1
  <2>4. StampsTell'
    BY <1>2, <2>2 DEF TablesInv, StampsTell
  <2>5. ASSUME check = "covering" \/ OneEventPerRow, NEW f \in Events
        PROVE  count'[f] <= 1 /\ (count'[f] > 0 => stamp'[key[f]] >= f)
    <3>1. count[f] <= 1 /\ (count[f] > 0 => stamp[key[f]] >= f)
      BY <2>5 DEF TablesInv, StampsCover
    <3>2. CASE f = e
      <4>1. ASSUME count[e] > 0
            PROVE  FALSE
        <5>1. stamp[key[e]] >= e /\ stamp[key[e]] # e
          BY <1>4, <3>1, <3>2, <4>1 DEF AlreadyApplied
        <5>2. OneEventPerRow
          BY <1>4, <2>2, <2>5, <5>1 DEF AlreadyApplied
        <5>3. stamp[key[e]] \in Events /\ stamp[key[e]] # 0
          BY <2>2, <5>1
        <5> QED
          BY <5>1, <5>2, <5>3 DEF OneEventPerRow, TablesInv, StampsTell
      <4> QED
        BY <2>2, <3>2, <4>1
    <3>3. CASE f # e /\ key[f] # key[e]
      BY <2>2, <3>1, <3>3
    <3>4. CASE f # e /\ key[f] = key[e]
      <4>1. check = "covering"
        BY <2>5, <3>4 DEF OneEventPerRow
      <4>2. stamp[key[e]] < e
        BY <1>4, <2>2, <4>1 DEF AlreadyApplied
      <4> QED
        BY <2>2, <3>1, <3>4, <4>2
    <3> QED
      BY <3>2, <3>3, <3>4
  <2>6. StampsCover'
    BY <1>2, <2>5 DEF StampsCover, OneEventPerRow
  <2> QED
    BY <2>2, <2>3, <2>4, <2>6
<1> QED
  BY <1>3, <1>4

-----------------------------------------------------------------------------
(* One lemma per action.                                                   *)

LEMMA InitSafe == Init => WritersInv
<1> SUFFICES ASSUME Init PROVE WritersInv
  OBVIOUS
<1>1. TypeOK
  BY WritersAssumption, TransactionsAssumption DEF Init, TypeOK, Jobs, Events
<1>2. JobsInOrder /\ FlagsInv
  BY DEF Init, JobsInOrder, FlagsInv, CarriedIsSet, WantedIsKept
<1>3. TablesInv
  BY DEF Init, TablesInv, StampsTell, StampsCover, SeenIsApplied
<1> QED
  BY <1>1, <1>2, <1>3 DEF WritersInv

LEMMA SubmitSafe ==
    ASSUME WritersInv, NEW t \in Txs, Submit(t)
    PROVE  WritersInv'
<1> USE DEF WritersInv
<1>1. TypeOK'
  BY FlagsAssumption, WritersAssumption
     DEF TypeOK, Submit, Fault, Go, Jobs, fixed, chainVars, tableVars, flagVars
<1>2. JobsInOrder'
  BY DEF TypeOK, JobsInOrder, EventsOf, Submit, Fault, Go, chainVars
<1>3. TablesInv'
  BY TablesUnchanged DEF Submit
<1>4. FlagsInv'
  BY DEF TypeOK, JobsInOrder, FlagsInv, CarriedIsSet, WantedIsKept, Submit,
         chainVars, flagVars
<1> QED
  BY <1>1, <1>2, <1>3, <1>4

LEMMA ReceiveSafe ==
    ASSUME WritersInv, NEW t \in Txs, Receive(t)
    PROVE  WritersInv'
<1> USE DEF WritersInv
<1>1. TypeOK'
  BY DEF TypeOK, Receive, Go, Jobs, EventsOf, fixed, chainVars, tableVars,
         flagVars
<1>2. JobsInOrder'
  BY DEF TypeOK, JobsInOrder, EventsOf, Receive, Go, chainVars
<1>3. TablesInv'
  BY TablesUnchanged DEF Receive
<1>4. FlagsInv'
  BY DEF FlagsInv, CarriedIsSet, WantedIsKept, Receive, chainVars, flagVars
<1> QED
  BY <1>1, <1>2, <1>3, <1>4

LEMMA ApplyNextSafe ==
    ASSUME WritersInv, NEW t \in Txs, ApplyNext(t)
    PROVE  WritersInv'
<1> USE DEF WritersInv
<1> DEFINE e == NextOf(todo[t])
<1>1. e \in todo[t] /\ e \in Events /\ TxOf[e] = t /\ t \in mined
  <2>1. todo[t] \in SUBSET Events /\ todo[t] # {}
    BY DEF TypeOK, ApplyNext
  <2>2. e \in todo[t]
    BY <2>1, NextOfType
  <2> QED
    BY <2>1, <2>2 DEF JobsInOrder, EventsOf, ApplyNext
<1>2. /\ \/ Apply(e) /\ UNCHANGED faults
         \/ Fault /\ UNCHANGED tableVars
      /\ todo' = [todo EXCEPT ![t] = @ \ {e}]
      /\ job' = [job EXCEPT ![t] = IF todo[t] = {e} THEN "flags" ELSE "apply"]
      /\ job[t] = "apply"
      /\ UNCHANGED <<fixed, encoded, chainVars, seen, swept, flagVars>>
  BY DEF ApplyNext, Go
<1> HIDE DEF e
<1>3. /\ stamp' \in [{key[f] : f \in Events} -> 0..N]
      /\ count' \in [Events -> Nat]
      /\ \A f \in Events : count'[f] > 0 => TxOf[f] \in mined
      /\ TablesInv'
  <2>1. CASE Apply(e)
    <3>1. /\ stamp' \in [{key[f] : f \in Events} -> 0..N]
          /\ count' \in [Events -> Nat]
          /\ \A f \in Events : count'[f] >= count[f]
          /\ \A f \in Events : f # e => count'[f] = count[f]
          /\ StampsTell' /\ StampsCover'
      BY <1>1, <1>2, <2>1, ApplyKeeps
    <3>2. SeenIsApplied'
      <4>1. seen' \subseteq Events /\ \A f \in Events : count[f] \in Nat
        BY <1>2 DEF TypeOK
      <4> QED
        BY <1>2, <3>1, <4>1
           DEF TablesInv, SeenIsApplied, OneEventPerRow, fixed
    <3> QED
      BY <1>1, <3>1, <3>2 DEF TypeOK, TablesInv
  <2>2. CASE UNCHANGED tableVars
    BY <1>2, <2>2, TablesUnchanged DEF TypeOK, tableVars
  <2> QED
    BY <1>2, <2>1, <2>2
<1>4. TypeOK'
  <2>1. faults' \in 0..MaxFaults
    BY <1>2, WritersAssumption DEF TypeOK, Fault
  <2>2. /\ job' \in [Txs -> Jobs] /\ todo' \in [Txs -> SUBSET Events]
        /\ \A u \in Txs : job'[u] = "apply" <=> todo'[u] # {}
    BY <1>1, <1>2 DEF TypeOK, Jobs
  <2> QED
    BY <1>2, <1>3, <2>1, <2>2 DEF TypeOK, fixed, chainVars, flagVars
<1>5. JobsInOrder'
  BY <1>1, <1>2 DEF TypeOK, JobsInOrder, EventsOf, chainVars
<1>6. FlagsInv'
  BY <1>2 DEF FlagsInv, CarriedIsSet, WantedIsKept, chainVars, flagVars
<1> QED
  BY <1>3, <1>4, <1>5, <1>6

LEMMA ClearFlagsSafe ==
    ASSUME WritersInv, NEW t \in Txs, ClearFlags(t)
    PROVE  WritersInv'
<1> USE DEF WritersInv
<1>1. TypeOK'
  BY DEF TypeOK, ClearFlags, Go, Jobs, fixed, chainVars, tableVars
<1>2. JobsInOrder'
  BY DEF TypeOK, JobsInOrder, EventsOf, ClearFlags, Go, chainVars
<1>3. TablesInv'
  BY TablesUnchanged DEF ClearFlags
<1>4. FlagsInv'
  BY DEF JobsInOrder, FlagsInv, CarriedIsSet, WantedIsKept, ClearFlags,
         chainVars
<1> QED
  BY <1>1, <1>2, <1>3, <1>4

LEMMA LoseSafe ==
    ASSUME WritersInv, NEW t \in Txs, Lose(t)
    PROVE  WritersInv'
<1> USE DEF WritersInv
<1>1. TypeOK'
  BY WritersAssumption
     DEF TypeOK, Lose, Fault, Go, Jobs, fixed, chainVars, tableVars, flagVars
<1>2. JobsInOrder'
  BY DEF TypeOK, JobsInOrder, EventsOf, Lose, Go, chainVars
<1>3. TablesInv'
  BY TablesUnchanged DEF Lose
<1>4. FlagsInv'
  BY DEF FlagsInv, CarriedIsSet, WantedIsKept, Lose, chainVars, flagVars
<1> QED
  BY <1>1, <1>2, <1>3, <1>4

LEMMA MineSafe ==
    ASSUME WritersInv, NEW t \in Txs, Mine(t)
    PROVE  WritersInv'
<1> USE DEF WritersInv
<1>1. TypeOK'
  BY DEF TypeOK, Mine, fixed, tableVars
<1>2. JobsInOrder'
  BY DEF TypeOK, JobsInOrder, EventsOf, Mine
<1>3. TablesInv'
  BY TablesUnchanged DEF Mine
<1>4. FlagsInv'
  BY DEF FlagsInv, CarriedIsSet, WantedIsKept, Mine
<1> QED
  BY <1>1, <1>2, <1>3, <1>4

LEMMA FollowSafe ==
    ASSUME WritersInv, Follow
    PROVE  WritersInv'
<1> USE DEF WritersInv
<1> DEFINE new == {f \in Events : TxOf[f] \in mined} \ seen
           e == Min(new)
<1>1. e \in Events /\ TxOf[e] \in mined
  <2>1. new \in SUBSET Events /\ new # {}
    BY DEF Follow
  <2>2. e \in new
    BY <2>1, MinIsFirst
  <2> QED
    BY <2>2
<1>2. /\ Apply(e) /\ seen' = seen \cup {e}
      /\ UNCHANGED <<fixed, job, todo, encoded, chainVars, swept, flagVars,
                     faults>>
  BY DEF Follow
<1> HIDE DEF e, new
<1>3. /\ stamp' \in [{key[f] : f \in Events} -> 0..N]
      /\ count' \in [Events -> Nat]
      /\ \A f \in Events : count'[f] >= count[f]
      /\ \A f \in Events : f # e => count'[f] = count[f]
      /\ StampsTell' /\ StampsCover'
      /\ check = "matching" \/ OneEventPerRow => count'[e] > 0
  BY <1>1, <1>2, ApplyKeeps
<1>4. SeenIsApplied'
  <2>1. seen \subseteq Events /\ \A f \in Events : count[f] \in Nat
    BY DEF TypeOK
  <2> QED
    BY <1>2, <1>3, <2>1 DEF TablesInv, SeenIsApplied, OneEventPerRow, fixed
<1>5. TypeOK'
  BY <1>1, <1>2, <1>3 DEF TypeOK, fixed, chainVars, flagVars
<1>6. JobsInOrder' /\ FlagsInv'
  BY <1>2 DEF JobsInOrder, EventsOf, FlagsInv, CarriedIsSet, WantedIsKept,
              chainVars, flagVars
<1> QED
  BY <1>3, <1>4, <1>5, <1>6 DEF TablesInv

LEMMA FollowFlagsSafe ==
    ASSUME WritersInv, NEW t \in Txs, FollowFlags(t)
    PROVE  WritersInv'
<1> USE DEF WritersInv
<1>1. TypeOK'
  BY DEF TypeOK, FollowFlags, fixed, chainVars, tableVars
<1>2. JobsInOrder'
  BY DEF JobsInOrder, EventsOf, FollowFlags, chainVars
<1>3. TablesInv'
  BY TablesUnchanged DEF FollowFlags
<1>4. FlagsInv'
  BY DEF FlagsInv, CarriedIsSet, WantedIsKept, FollowFlags, chainVars
<1> QED
  BY <1>1, <1>2, <1>3, <1>4

LEMMA ChangeSafe ==
    ASSUME WritersInv, NEW f \in Flags, Change(f)
    PROVE  WritersInv'
<1> USE DEF WritersInv
<1>1. TypeOK'
  BY WritersAssumption DEF TypeOK, Change, fixed, chainVars, tableVars
<1>2. JobsInOrder'
  BY DEF JobsInOrder, EventsOf, Change, chainVars
<1>3. TablesInv'
  BY TablesUnchanged DEF Change
<1>4. FlagsInv'
  BY DEF FlagsInv, CarriedIsSet, WantedIsKept, Change, chainVars
<1> QED
  BY <1>1, <1>2, <1>3, <1>4

LEMMA StutterSafe ==
    ASSUME WritersInv, UNCHANGED vars
    PROVE  WritersInv'
<1> USE DEF WritersInv, vars
<1>1. TypeOK'
  BY DEF TypeOK, fixed, chainVars, tableVars, flagVars
<1>2. JobsInOrder' /\ FlagsInv'
  BY DEF JobsInOrder, EventsOf, FlagsInv, CarriedIsSet, WantedIsKept,
         chainVars, flagVars
<1>3. TablesInv'
  BY TablesUnchanged
<1> QED
  BY <1>1, <1>2, <1>3

LEMMA NextSafe == WritersInv /\ [Next]_vars => WritersInv'
<1> SUFFICES ASSUME WritersInv, [Next]_vars PROVE WritersInv'
  OBVIOUS
<1>1. ASSUME NEW t \in Txs, Engine(t)
      PROVE  WritersInv'
  BY <1>1, SubmitSafe, ReceiveSafe, ApplyNextSafe, ClearFlagsSafe DEF Engine
<1> QED
  BY <1>1, LoseSafe, MineSafe, FollowFlagsSafe, FollowSafe, ChangeSafe,
     StutterSafe
     DEF Next, Finished

-----------------------------------------------------------------------------
(* The theorems.                                                           *)

\* The invariant holds throughout, whoever fails or is lost (Lose), and
\* whichever of the engines and the indexer is faster.
THEOREM WritersInvariance == Spec => []WritersInv
<1>1. Init => WritersInv
  BY InitSafe
<1>2. WritersInv /\ [Next]_vars => WritersInv'
  BY NextSafe
<1> QED
  BY <1>1, <1>2, PTL DEF Spec

\* Every variable of the writers, the chain and the users keeps its type.
THEOREM WritersTypeCorrect == Spec => []TypeOK
<1>1. WritersInv => TypeOK
  BY DEF WritersInv
<1> QED
  BY <1>1, WritersInvariance, PTL

\* isAlreadyStamped makes engine, retry and indexer add an event once.
THEOREM NoEventTwice == Spec => []NotAppliedTwice
<1>1. WritersInv => NotAppliedTwice
  BY DEF WritersInv, TablesInv, StampsCover, NotAppliedTwice
<1> QED
  BY <1>1, WritersInvariance, PTL

\* What the indexer is done with is in its row: with the indexer's fairness
\* this is EventsArrive.
THEOREM NoEventMissing == Spec => []SeenIsApplied
<1>1. WritersInv => SeenIsApplied
  BY DEF WritersInv, TablesInv
<1> QED
  BY <1>1, WritersInvariance, PTL

\* The order of Step 0.5, the transaction and the two deletions of the rows
\* loses no flag.
THEOREM FlagsAreKept == Spec => []WantedIsKept
<1>1. WritersInv => WantedIsKept
  BY DEF WritersInv, FlagsInv
<1> QED
  BY <1>1, WritersInvariance, PTL
===============================================================================
