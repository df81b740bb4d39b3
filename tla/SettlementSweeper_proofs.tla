---------------------- MODULE SettlementSweeper_proofs ----------------------
(***************************************************************************)
(* The engine with its sweeper: what the pipeline alone keeps, the two     *)
(* keep together.  A remediation is one more PENDING-gated transaction, so *)
(* the arguments for a step of the pipeline carry over; that a match the   *)
(* sweeper failed stays failed follows from the ledger.                    *)
(***************************************************************************)
EXTENDS SettlementSweeper, SettlementRefinement_proofs,
        SettlementConservation_proofs

\* A step of the sweeper runs at most one remediation.
LEMMA SweepIsStoreStep ==
    ASSUME SweeperTypeOK, SweepNext
    PROVE  /\ \/ UNCHANGED storeVars
              \/ \E m \in Matches : FailPending(m)
           /\ UNCHANGED <<acked, onchain, orphans, kind, flips, workVars,
                          applied, cleaned>>
<1>1. \A s \in Sweepers : unsettled[s] \subseteq Matches
  BY DEF SweeperTypeOK
<1> QED
  BY <1>1
     DEF SweepNext, SweepStep, SweepFind, SweepCheck, SweepRemediate,
         SweepAbort, Age, vars, pipeVars, storeVars, chainVars

\* It spends at most one failure of the budget.
LEMMA SweepFaults ==
    ASSUME TypeOK, SweepNext
    PROVE  faults' \in 0..MaxFaults
BY FaultType
   DEF TypeOK, SharedTypeOK, SweepNext, SweepStep, SweepFind, SweepCheck,
       SweepRemediate, SweepAbort, Age, vars, pipeVars

\* The pipeline's invariant survives it.
LEMMA SweepKeepsIInv ==
    ASSUME IInv, SweeperTypeOK,
           SweepNext
    PROVE  IInv'
<1>1. faults' \in 0..MaxFaults
  BY SweepFaults DEF IInv
<1>2. UNCHANGED <<acked, onchain, orphans, kind, flips, workVars, applied,
                  cleaned>>
  BY SweepIsStoreStep
<1>3. StoreTypeOK'
  BY SweepIsStoreStep, FailPendingType, StoreUnchangedType DEF IInv, TypeOK
<1>4. TypeOK'
  BY <1>1, <1>2, <1>3
     DEF IInv, TypeOK, SharedTypeOK, WorkersTypeOK, workVars
<1>5. /\ Forward
      /\ SettledOnlyIfOnChain' /\ ReleasedExactlyOnce' /\ AckedIsResolved'
  <2>1. CASE UNCHANGED storeVars
    BY <1>2, <2>1, StoreUnchangedSafe DEF Forward, storeVars
  <2>2. CASE \E m \in Matches : FailPending(m)
    BY <1>2, <2>2, FailPendingKeeps
  <2> QED
    BY <2>1, <2>2, SweepIsStoreStep
<1>6. KnowledgeIsCurrent'
  BY <1>2, <1>5, OthersKnow DEF IInv, KnowledgeIsCurrent, workVars
<1> QED
  BY <1>4, <1>5, <1>6 DEF IInv

\* The query returns a row if there is one: the oldest is within the LIMIT.
LEMMA OldestNonempty ==
    ASSUME NEW S \in SUBSET Matches, S # {}
    PROVE  Oldest(S) # {}
<1> DEFINE T == {CreatedAt[m] : m \in S}
<1>1. T \subseteq Nat /\ T # {}
  BY CreatedAtAssumption
<1>2. PICK n \in T : \A k \in T : n <= k
  <2> HIDE DEF T
  <2> QED
    BY <1>1, LeastNat
<1>3. PICK m \in S : n = CreatedAt[m]
  OBVIOUS
<1>4. {x \in S : CreatedAt[x] < CreatedAt[m]} = {}
  BY <1>1, <1>2, <1>3
<1>5. Cardinality({x \in S : CreatedAt[x] < CreatedAt[m]}) < SweepLimit
  BY <1>4, FS_EmptySet, SweepLimitAssumption
<1> QED
  BY <1>5 DEF Oldest

\* The types of the sweep are kept by its steps.
LEMMA SweepType ==
    ASSUME SweeperTypeOK, SweepNext
    PROVE  SweeperTypeOK'
<1>1. ASSUME NEW s \in Sweepers, SweepFind(s)
      PROVE  SweeperTypeOK'
  <2>1. Stuck \subseteq aged /\ Stuck \in SUBSET Matches /\ Stuck # {}
    BY <1>1 DEF SweepFind, Stuck, SweeperTypeOK
  <2>2. Oldest(Stuck) # {} /\ Oldest(Stuck) \subseteq aged
    BY <2>1, OldestNonempty DEF Oldest
  <2> QED
    BY <1>1, <2>2 DEF SweepFind, SweeperTypeOK
<1>2. ASSUME NEW s \in Sweepers, SweepCheck(s)
      PROVE  SweeperTypeOK'
  <2>1. PICK rest \in SUBSET candidates[s] : Checked(s, rest)
    BY <1>2 DEF SweepCheck
  <2> QED
    BY <1>2, <2>1 DEF SweepCheck, Checked, SweeperTypeOK
<1>3. ASSUME NEW s \in Sweepers, SweepRemediate(s)
      PROVE  SweeperTypeOK'
  <2>1. PICK m \in unsettled[s] :
           /\ swept' \subseteq swept \cup {m}
           /\ unsettled' = [unsettled EXCEPT ![s] = @ \ {m}]
           /\ sweepPc' = [sweepPc EXCEPT ![s] = IF unsettled[s] = {m}
                                                  THEN "idle" ELSE @]
    BY <1>3 DEF SweepRemediate
  <2> QED
    BY <1>3, <2>1 DEF SweepRemediate, SweeperTypeOK
<1>4. ASSUME NEW s \in Sweepers, SweepAbort(s)
      PROVE  SweeperTypeOK'
  BY <1>4 DEF SweepAbort, SweeperTypeOK
<1>5. ASSUME NEW m \in Matches, Age(m)
      PROVE  SweeperTypeOK'
  BY <1>5 DEF Age, SweeperTypeOK
<1> QED
  BY <1>1, <1>2, <1>3, <1>4, <1>5 DEF SweepNext, SweepStep

\* FAILED is final but for the cleanup: a ledger step undoes no failure.
LEMMA FailedIsFinal ==
    ASSUME StoreTypeOK, LedgerStep, NEW m \in Matches, m \notin cleaned',
           status[m] = "FAILED"
    PROVE  status'[m] = "FAILED"
<1>1. CASE Ledger!Next
  <2>1. cleaned \subseteq cleaned'
    BY <1>1 DEF Ledger!Next, Ledger!Book, Ledger!Fail, Ledger!Leave,
                Ledger!Close, Ledger!Settle, Ledger!GiveUp, Ledger!Unlock,
                Ledger!Record
  <2>2. status \in [Matches -> Statuses]
    BY DEF StoreTypeOK
  <2> QED
    BY <1>1, <2>1, <2>2
       DEF Ledger!Next, Ledger!Book, Ledger!Fail, Ledger!Leave, Ledger!Close,
           Ledger!Settle, Ledger!GiveUp, Ledger!Unlock, Ledger!Record
<1>2. CASE UNCHANGED Ledger!ledgerVars
  BY <1>2 DEF Ledger!ledgerVars
<1> QED
  BY <1>1, <1>2 DEF LedgerStep

\* A sweep's step is a step of the ledger.
LEMMA SweepIsLedgerStep ==
    ASSUME IInv, SweeperTypeOK,
           SweepNext
    PROVE  LedgerStep
<1>1. UNCHANGED <<acked, onchain, cleaned>>
  BY SweepIsStoreStep
<1>2. CASE UNCHANGED storeVars
  BY <1>1, <1>2, StutterStep DEF storeVars
<1>3. CASE \E m \in Matches : FailPending(m)
  BY <1>1, <1>3, FailPendingIsFail DEF IInv, TypeOK
<1> QED
  BY <1>2, <1>3, SweepIsStoreStep

-----------------------------------------------------------------------------
(* The composition.                                                        *)

SInv == IInv /\ SweeperTypeOK /\ SweptReleasedOnce

\* A step of the composition is one of the pipeline, which leaves the sweep
\* alone, or one of the sweep.
LEMMA SweptNextSplit ==
    ASSUME [SweptNext]_sweptVars
    PROVE  \/ [Next]_vars /\ UNCHANGED sweepVars
           \/ SweepNext
BY DEF SweptNext, sweptVars

\* It is a step of the ledger, or none.
LEMMA SweptNextIsLedgerStep ==
    ASSUME SInv, [SweptNext]_sweptVars
    PROVE  LedgerStep
BY SweptNextSplit, NextIsLedgerStep, SweepIsLedgerStep DEF SInv

\* It keeps the invariant.
LEMMA SweptNextSafe ==
    ASSUME SInv, [SweptNext]_sweptVars
    PROVE  SInv'
<1>1. IInv'
  BY SweptNextSplit, NextSafe, SweepKeepsIInv DEF SInv
<1>2. SweeperTypeOK'
  <2>1. CASE UNCHANGED sweepVars
    BY <2>1 DEF SInv, SweeperTypeOK, sweepVars
  <2> QED
    BY <2>1, SweptNextSplit, SweepType DEF SInv
<1>3. SweptReleasedOnce'
  <2>1. SUFFICES ASSUME NEW m \in swept', m \notin cleaned'
                 PROVE  status'[m] = "FAILED" /\ released'[m] = 1
    BY DEF SweptReleasedOnce
  <2>2. m \in Matches
    BY <1>2 DEF SweeperTypeOK
  <2>3. cleaned \subseteq cleaned'
    BY SweptNextSplit, SweepIsStoreStep, NextIsStoreStep DEF SInv
  <2>4. status'[m] = "FAILED"
    <3>1. CASE m \in swept
      <4>1. status[m] = "FAILED"
        BY <2>1, <2>3, <3>1 DEF SInv, SweptReleasedOnce
      <4> QED
        BY <2>1, <2>2, <4>1, SweptNextIsLedgerStep, FailedIsFinal
           DEF SInv, IInv, TypeOK
    <3>2. CASE m \notin swept
      <4>1. PICK s \in Sweepers : SweepRemediate(s)
        BY <2>1, <3>2, SweptNextSplit
           DEF sweepVars, SweepNext, SweepStep, SweepFind, SweepCheck,
               SweepAbort, Age
      <4>2. FailPending(m) /\ status[m] = "PENDING"
        BY <2>1, <3>2, <4>1 DEF SweepRemediate
      <4> QED
        BY <2>2, <4>2 DEF FailPending, SInv, IInv, TypeOK, StoreTypeOK
    <3> QED
      BY <3>1, <3>2
  <2>5. released'[m] = 1
    BY <1>1, <2>1, <2>2, <2>4 DEF IInv, ReleasedExactlyOnce
  <2> QED
    BY <2>4, <2>5
<1> QED
  BY <1>1, <1>2, <1>3 DEF SInv

\* SInv is an inductive invariant of the engine with its sweeper.
THEOREM SweptInvariance == SweptSpec => []SInv
<1>1. SweptInit => SInv
  BY InitSafe DEF SweptInit, SInv, SweeperTypeOK, SweptReleasedOnce
<1>2. SInv /\ [SweptNext]_sweptVars => SInv'
  BY SweptNextSafe
<1> QED
  BY <1>1, <1>2, PTL DEF SweptSpec

\* Only matches past the threshold are swept, and a sweep leaves nothing over.
THEOREM SweeperTypeCorrect == SweptSpec => []SweeperTypeOK
<1>1. SInv => SweeperTypeOK
  BY DEF SInv
<1> QED
  BY <1>1, SweptInvariance, PTL

\* What the sweeper failed stays FAILED and was released once, whatever the
\* workers did to the match before, at the same time or since.
THEOREM SweptIsReleasedOnce == SweptSpec => []SweptReleasedOnce
<1>1. SInv => SweptReleasedOnce
  BY DEF SInv
<1> QED
  BY <1>1, SweptInvariance, PTL

\* The engine with its sweeper implements the ledger.
THEOREM SweptImplementsLedger == SweptSpec => ImplementsLedger
<1>1. SweptInit => Ledger!Init
  BY DEF SweptInit, Init, StoreInit, PipeInit, Ledger!Init, MatchesIn
<1>2. SInv /\ [SweptNext]_sweptVars => [Ledger!Next]_(Ledger!ledgerVars)
  BY SweptNextIsLedgerStep DEF LedgerStep
<1> QED
  BY <1>1, <1>2, SweptInvariance, PTL
     DEF SweptSpec, ImplementsLedger, Ledger!Spec

\* A sweep reads and ACKs no entry.
LEMMA SweptNextIsDeliveryStep ==
    ASSUME SInv, SInv', CarriesInv, [SweptNext]_sweptVars
    PROVE  DeliveryStep /\ CarriesInv'
<1>1. CASE [Next]_vars
  BY <1>1, NextIsDeliveryStep DEF SInv, IInv
<1>2. CASE SweepNext
  <2>1. UNCHANGED <<acked, workVars>>
    BY <1>2, SweepIsStoreStep DEF SInv
  <2> QED
    BY <2>1
    DEF DeliveryStep, Delivery!deliveryVars, workVars, CarriesInv, Carries
<1> QED
  BY <1>1, <1>2, SweptNextSplit

\* The engine with its sweeper takes and ACKs entries as the engine alone.
THEOREM SweptImplementsDelivery == SweptSpec => ImplementsDelivery
<1>1. SweptInit => Delivery!Init /\ CarriesInv
  BY DEF SweptInit, Init, PipeInit, Delivery!Init, CarriesInv, Carries
<1>2. SInv /\ SInv' /\ CarriesInv /\ [SweptNext]_sweptVars
        => [Delivery!Next]_(Delivery!deliveryVars) /\ CarriesInv'
  BY SweptNextIsDeliveryStep DEF DeliveryStep
<1> QED
  BY <1>1, <1>2, SweptInvariance, PTL
     DEF SweptSpec, ImplementsDelivery, Delivery!Spec

\* A sweep beside the workers leaks and over-releases nothing, and the orders
\* it restores stay the sum of their matches.
THEOREM SweptConserves == SweptSpec => [](LocksConserved /\ OrdersConserved)
<1> DEFINE Conserved == LocksConserved /\ OrdersConserved
<1>1. SweptInit => Conserved
  BY InitConserved DEF SweptInit
<1>2. SInv /\ Conserved /\ [SweptNext]_sweptVars => Conserved'
  <2>1. SInv /\ [SweptNext]_sweptVars => StoreStep /\ cleaned \subseteq cleaned'
    BY SweptNextSplit, SweepIsStoreStep, NextIsStoreStep DEF SInv, StoreStep
  <2> QED
    BY <2>1, LocksKept, OrdersKept DEF SInv, IInv, TypeOK
<1> QED
  BY <1>1, <1>2, SweptInvariance, PTL DEF SweptSpec
=============================================================================
