-------------------- MODULE SettlementRefinement_proofs ---------------------
(***************************************************************************)
(* The pipeline implements MatchLedger, for every set of matches, entries  *)
(* and workers and every bound: each step of a worker, of a failure or of  *)
(* the chain is one step of the ledger or none.  IInv supplies what the    *)
(* ledger's guards ask for: a writeback's match is on the chain, an ACKed  *)
(* entry's match is resolved, the cleanup acts on what it was given.       *)
(*                                                                         *)
(* It also implements EntryDelivery: CarriesInv says that what a worker    *)
(* loops over, and so ACKs, is of its batch, and that an idle one has none. *)
(***************************************************************************)
EXTENDS SettlementPipeline_proofs

LedgerStep == [Ledger!Next]_(Ledger!ledgerVars)

\* A step that changes no row, no ACK and nothing on the chain is a stutter.
LEMMA StutterStep ==
    ASSUME UNCHANGED <<status, released, onchain, acked, cleaned>>
    PROVE  LedgerStep
BY DEF LedgerStep, Ledger!ledgerVars, MatchesIn

\* A writeback of a settled match is Book, or nothing if the match has left
\* PENDING.
LEMMA WritebackIsBook ==
    ASSUME NEW m \in Matches, m \in onchain, StoreTypeOK,
           Writeback(m) \/ UNCHANGED storeVars,
           UNCHANGED <<acked, onchain, cleaned>>
    PROVE  LedgerStep
<1>1. CASE UNCHANGED storeVars \/ status[m] # "PENDING"
  BY <1>1, StutterStep DEF Writeback, storeVars
<1>2. CASE Writeback(m) /\ status[m] = "PENDING"
  <2>1. Ledger!Book(m)
    BY <1>2 DEF Writeback, ReleaseLock, storeVars, Ledger!Book, Ledger!Leave,
                MatchesIn
  <2> QED
    BY <2>1 DEF LedgerStep, Ledger!Next
<1> QED
  BY <1>1, <1>2

\* A quarantine or a remediation is Fail, or nothing.
LEMMA FailPendingIsFail ==
    ASSUME NEW m \in Matches, StoreTypeOK,
           FailPending(m) \/ UNCHANGED storeVars,
           UNCHANGED <<acked, onchain, cleaned>>
    PROVE  LedgerStep
<1>1. CASE UNCHANGED storeVars \/ status[m] # "PENDING"
  BY <1>1, StutterStep DEF FailPending, storeVars
<1>2. CASE FailPending(m) /\ status[m] = "PENDING"
  <2>1. Ledger!Fail(m)
    BY <1>2 DEF FailPending, ReleaseLock, storeVars, Ledger!Fail,
                Ledger!Leave, MatchesIn
  <2> QED
    BY <2>1 DEF LedgerStep, Ledger!Next
<1> QED
  BY <1>1, <1>2

\* An ACK closes a resolved match.
LEMMA AckIsClose ==
    ASSUME NEW e \in Entries, Ledger!Resolved(MatchOf[e]),
           acked' = acked \cup {e},
           UNCHANGED <<status, released, onchain, cleaned>>
    PROVE  LedgerStep
<1>1. MatchOf[e] \in Matches
  BY MatchOfAssumption
<1>2. MatchesIn(acked)' = MatchesIn(acked) \cup {MatchOf[e]}
  BY DEF MatchesIn
<1>3. Ledger!Close(MatchOf[e])
  BY <1>2 DEF Ledger!Close
<1> QED
  BY <1>1, <1>3 DEF LedgerStep, Ledger!Next

\* Handing a batch to the cleanup is GiveUp, with or without an ACK.
LEMMA CleanupIsGiveUp ==
    ASSUME NEW S \in SUBSET Entries, cleaned' = cleaned \cup MatchesIn(S),
           \/ UNCHANGED acked
           \/ \E e \in Entries : /\ Ledger!Resolved(MatchOf[e])
                                 /\ acked' = acked \cup {e},
           UNCHANGED <<status, released, onchain>>
    PROVE  LedgerStep
<1>1. MatchesIn(S) \subseteq Matches
  BY MatchesInType
<1>2. \/ UNCHANGED MatchesIn(acked)
      \/ \E m \in Matches : /\ Ledger!Resolved(m)
                            /\ MatchesIn(acked)' = MatchesIn(acked) \cup {m}
  <2>1. CASE UNCHANGED acked
    BY <2>1 DEF MatchesIn
  <2>2. CASE \E e \in Entries : /\ Ledger!Resolved(MatchOf[e])
                                /\ acked' = acked \cup {e}
    <3>1. PICK e \in Entries : /\ Ledger!Resolved(MatchOf[e])
                               /\ acked' = acked \cup {e}
      BY <2>2
    <3>2. MatchesIn(acked)' = MatchesIn(acked) \cup {MatchOf[e]}
      BY <3>1 DEF MatchesIn
    <3>3. MatchOf[e] \in Matches
      BY MatchOfAssumption
    <3> QED
      BY <3>1, <3>2, <3>3
  <2> QED
    BY <2>1, <2>2
<1>3. Ledger!GiveUp(MatchesIn(S))
  BY <1>2 DEF Ledger!GiveUp
<1> QED
  BY <1>1, <1>3 DEF LedgerStep, Ledger!Next

-----------------------------------------------------------------------------
(* Each step of the pipeline.                                              *)

\* Whatever a worker ACKs, at any of the four places, is resolved.
LEMMA AckedEntryIsResolved ==
    ASSUME IInv, NEW w \in Workers, NEW e \in todo[w],
           pc[w] \in {"ghostack", "poisonack", "ack", "cleanack"}
    PROVE  e \in Entries /\ Ledger!Resolved(MatchOf[e])
<1>1. e \in Entries /\ MatchOf[e] \in Matches
  BY MatchOfAssumption DEF IInv, TypeOK, WorkersTypeOK
<1>2. WorkerKnows(w)
  BY DEF IInv, KnowledgeIsCurrent
<1>3. CASE pc[w] \in {"ghostack", "ack"}
  BY <1>1, <1>2, <1>3 DEF WorkerKnows, MatchesIn, Ledger!Resolved
<1>4. CASE pc[w] = "cleanack"
  BY <1>1, <1>2, <1>4 DEF WorkerKnows, MatchesIn, Ledger!Resolved
<1>5. CASE pc[w] = "poisonack"
  <2>1. status[MatchOf[e]] # "PENDING"
    BY <1>2, <1>5 DEF WorkerKnows
  <2>2. status[MatchOf[e]] \in Statuses
    BY <1>1 DEF IInv, TypeOK, StoreTypeOK
  <2> QED
    BY <1>1, <2>1, <2>2 DEF IInv, SettledOnlyIfOnChain, Statuses,
                            Ledger!Resolved
<1> QED
  BY <1>1, <1>3, <1>4, <1>5

\* Steps that only move a worker, its queue or the faults are stutters.
LEMMA QuietIsStutter ==
    ASSUME NEW w \in Workers,
           \/ StartBatch(w) \/ Filter(w) \/ Simulate(w) \/ SimulateUnknown(w)
           \/ Probe(w) \/ ProbeUnknown(w) \/ ResimulateUnknown(w)
           \/ Submit(w) \/ SubmitUnknown(w) \/ Receipt(w)
           \/ ReceiptReverted(w) \/ Apply(w) \/ ReceiptLost(w)
           \/ RpcFailure(w) \/ DbFailure(w) \/ Crash(w)
           \/ \E e \in Entries : Deliver(w, e)
    PROVE  LedgerStep
BY StutterStep
   DEF StartBatch, Filter, Simulate, SimulateUnknown, Probe, ProbeUnknown,
       ResimulateUnknown, Submit, SubmitUnknown, Receipt, ReceiptReverted,
       Apply, ReceiptLost, RpcFailure, DbFailure, Crash, Deliver, Retry,
       GiveUp, storeVars, chainVars

\* The two writebacks.
LEMMA WritebackStep ==
    ASSUME IInv, NEW w \in Workers, GhostWriteback(w) \/ WritebackSettled(w)
    PROVE  LedgerStep
<1>1. PICK e \in todo[w] : WritebackOrSwallow(MatchOf[e])
  BY DEF GhostWriteback, WritebackSettled
<1>2. e \in Entries /\ MatchOf[e] \in Matches /\ StoreTypeOK
  BY MatchOfAssumption DEF IInv, TypeOK, WorkersTypeOK
<1>3. MatchOf[e] \in onchain
  <2>1. WorkerKnows(w)
    BY DEF IInv, KnowledgeIsCurrent
  <2> QED
    BY <1>2, <2>1 DEF GhostWriteback, WritebackSettled, WorkerKnows, MatchesIn
<1>4. UNCHANGED <<acked, onchain, cleaned>>
  BY DEF GhostWriteback, WritebackSettled, chainVars
<1> QED
  BY <1>1, <1>2, <1>3, <1>4, WritebackIsBook DEF WritebackOrSwallow

\* The quarantine.
LEMMA QuarantineStep ==
    ASSUME IInv, NEW w \in Workers, Quarantine(w)
    PROVE  LedgerStep
<1>1. PICK e \in todo[w] : FailPending(MatchOf[e])
  BY DEF Quarantine
<1>2. MatchOf[e] \in Matches /\ StoreTypeOK
  BY MatchOfAssumption DEF IInv, TypeOK, WorkersTypeOK
<1>3. UNCHANGED <<acked, onchain, cleaned>>
  BY DEF Quarantine, chainVars
<1> QED
  BY <1>1, <1>2, <1>3, FailPendingIsFail

\* The ACKs, with or without a Redis failure.
LEMMA AckStep ==
    ASSUME IInv, NEW w \in Workers,
           GhostAck(w) \/ Ack(w) \/ CleanupAck(w) \/ RedisFailure(w)
    PROVE  LedgerStep
<1>1. /\ UNCHANGED <<status, released, onchain, cleaned>>
      /\ pc[w] \in {"ghostack", "poisonack", "ack", "cleanack"}
  BY DEF GhostAck, Ack, CleanupAck, RedisFailure, GiveUp, storeVars, chainVars
<1>2. UNCHANGED acked \/ \E e \in todo[w] : acked' = acked \cup {e}
  BY DEF GhostAck, Ack, CleanupAck, RedisFailure
<1>3. CASE UNCHANGED acked
  BY <1>1, <1>3, StutterStep
<1>4. CASE \E e \in todo[w] : acked' = acked \cup {e}
  BY <1>1, <1>4, AckedEntryIsResolved, AckIsClose
<1> QED
  BY <1>2, <1>3, <1>4

\* The steps that may hand the batch to the cleanup.
LEMMA HandOverStep ==
    ASSUME IInv, NEW w \in Workers,
           Resimulate(w) \/ SubmitFatal(w) \/ PoisonAck(w)
    PROVE  LedgerStep
<1>1. batch[w] \in SUBSET Entries
  BY DEF IInv, TypeOK, WorkersTypeOK
<1>2. UNCHANGED <<status, released, onchain>>
  BY DEF Resimulate, SubmitFatal, PoisonAck, storeVars, chainVars
<1>3. UNCHANGED cleaned \/ cleaned' = cleaned \cup MatchesIn(batch[w])
  BY DEF Resimulate, SubmitFatal, PoisonAck, StartCleanup
<1>4. \/ UNCHANGED acked
      \/ \E e \in Entries : /\ Ledger!Resolved(MatchOf[e])
                            /\ acked' = acked \cup {e}
  <2>1. CASE Resimulate(w) \/ SubmitFatal(w)
    BY <2>1 DEF Resimulate, SubmitFatal
  <2>2. CASE PoisonAck(w)
    <3>1. PICK e \in todo[w] : acked' = acked \cup {e}
      BY <2>2 DEF PoisonAck
    <3>2. pc[w] = "poisonack"
      BY <2>2 DEF PoisonAck
    <3> QED
      BY <3>1, <3>2, AckedEntryIsResolved
  <2> QED
    BY <2>1, <2>2
<1>5. CASE cleaned' = cleaned \cup MatchesIn(batch[w])
  BY <1>1, <1>2, <1>4, <1>5, CleanupIsGiveUp
<1>6. CASE UNCHANGED cleaned
  BY <1>2, <1>4, <1>6, AckIsClose, StutterStep
<1> QED
  BY <1>3, <1>5, <1>6

\* The batch unlock releases each match of the batch at least once.
LEMMA CopiesPositive ==
    ASSUME NEW S \in SUBSET Entries, NEW m \in MatchesIn(S)
    PROVE  Copies(S, m) \in Nat \ {0}
<1>1. MatchesIn(S) \subseteq Matches
  BY MatchesInType
<1>2. Copies(S, m) \in Nat
  BY <1>1, CopiesType
<1>3. {e \in S : MatchOf[e] = m} # {}
  BY DEF MatchesIn
<1>4. IsFiniteSet({e \in S : MatchOf[e] = m})
  <2>1. {e \in S : MatchOf[e] = m} \subseteq Entries
    OBVIOUS
  <2> QED
    BY <2>1, EntriesAssumption, FS_Subset
<1> QED
  BY <1>2, <1>3, <1>4, FS_EmptySet DEF Copies

\* The three cleanup transactions touch what was given up.
LEMMA CleanupStep ==
    ASSUME IInv, NEW w \in Workers, Unlock(w) \/ Record(w) \/ Restore(w)
    PROVE  LedgerStep
<1>1. /\ batch[w] \in SUBSET Entries
      /\ status \in [Matches -> Statuses]
      /\ released \in [Matches -> Nat]
  BY DEF IInv, TypeOK, StoreTypeOK, WorkersTypeOK
<1> DEFINE S == MatchesIn(batch[w])
<1>2. S \subseteq cleaned
  BY DEF IInv, KnowledgeIsCurrent, WorkerKnows, Unlock, Record, Restore
<1>3. S \subseteq Matches
  BY <1>1, MatchesInType
<1>4. UNCHANGED <<acked, onchain, cleaned, MatchesIn(acked)>>
  BY DEF Unlock, Record, Restore, chainVars, MatchesIn
<1>5. \/ UnlockFailed(batch[w]) \/ RecordFailed(batch[w])
      \/ RestoreFailed(batch[w]) \/ UNCHANGED storeVars
  BY DEF Unlock, Record, Restore, Swallow
<1>6. CASE UnlockFailed(batch[w])
  <2>1. \A m \in Matches : Copies(batch[w], m) \in Nat
    BY <1>1, CopiesType
  <2>2. \A m \in S : Copies(batch[w], m) > 0
    BY <1>1, CopiesPositive
  <2>3. released' = [m \in Matches |-> IF m \in S
                                         THEN released[m] + Copies(batch[w], m)
                                         ELSE released[m]]
    BY <1>6 DEF UnlockFailed
  <2>4. released' \in [Matches -> Nat]
    BY <1>1, <2>1, <2>3
  <2>5. \A m \in Matches : IF m \in S THEN released'[m] > released[m]
                                      ELSE released'[m] = released[m]
    BY <1>1, <2>1, <2>2, <2>3
  <2>6. UNCHANGED status
    BY <1>6 DEF UnlockFailed
  <2>7. Ledger!Unlock(S)
    BY <1>2, <1>4, <2>4, <2>5, <2>6 DEF Ledger!Unlock
  <2> QED
    BY <1>3, <2>7 DEF LedgerStep, Ledger!Next
<1>7. CASE RecordFailed(batch[w])
  <2>1. Ledger!Record(S)
    BY <1>2, <1>4, <1>7 DEF RecordFailed, Ledger!Record
  <2> QED
    BY <1>3, <2>1 DEF LedgerStep, Ledger!Next
<1>8. CASE RestoreFailed(batch[w]) \/ UNCHANGED storeVars
  BY <1>4, <1>8, StutterStep DEF RestoreFailed, storeVars
<1> QED
  BY <1>5, <1>6, <1>7, <1>8

\* A transaction that is mined settles matches that were not settled.
LEMMA ChainStep ==
    ASSUME IInv,
           \/ \E w \in Workers : Mine(w)
           \/ ResolveOrphan
           \/ \E m \in Matches : Flip(m)
    PROVE  LedgerStep
<1>1. UNCHANGED <<status, released, acked, cleaned, MatchesIn(acked)>>
  BY DEF Mine, ResolveOrphan, Flip, storeVars, MatchesIn
<1>2. CASE UNCHANGED onchain
  BY <1>1, <1>2, StutterStep
<1>3. ASSUME NEW S \in SUBSET Matches, S \cap onchain = {},
             onchain' = onchain \cup S
      PROVE  LedgerStep
  <2>1. CASE S = {}
    BY <1>2, <1>3, <2>1
  <2>2. CASE S # {}
    <3>1. Ledger!Settle(S)
      BY <1>1, <1>3, <2>2 DEF Ledger!Settle
    <3> QED
      BY <3>1 DEF LedgerStep, Ledger!Next
  <2> QED
    BY <2>1, <2>2
<1>4. CASE \E w \in Workers : Mine(w)
  <2>1. PICK w \in Workers : Mine(w)
    BY <1>4
  <2>2. MatchesIn(live[w]) \subseteq Matches
    BY MatchesInType DEF IInv, TypeOK, WorkersTypeOK
  <2>3. CASE Settles(live[w])
    <3>1. MatchesIn(live[w]) \cap onchain = {}
      BY <2>2, <2>3 DEF Settles, Errors
    <3> QED
      BY <1>3, <2>1, <2>2, <2>3, <3>1 DEF Mine
  <2>4. CASE ~Settles(live[w])
    BY <1>2, <2>1, <2>4 DEF Mine
  <2> QED
    BY <2>3, <2>4
<1>5. CASE ResolveOrphan
  <2>1. PICK T \in orphans :
           \/ /\ \A m \in T : m \notin onchain
              /\ onchain' = onchain \cup T
           \/ UNCHANGED onchain
    BY <1>5 DEF ResolveOrphan
  <2>2. T \in SUBSET Matches
    BY DEF IInv, TypeOK, SharedTypeOK
  <2> QED
    BY <1>2, <1>3, <2>1, <2>2
<1>6. CASE \E m \in Matches : Flip(m)
  BY <1>2, <1>6 DEF Flip
<1> QED
  BY <1>4, <1>5, <1>6

\* Every step of the pipeline is a step of the ledger, or none.
LEMMA NextIsLedgerStep ==
    ASSUME IInv, [Next]_vars
    PROVE  LedgerStep
<1>1. CASE UNCHANGED vars \/ Quiet
  BY <1>1, StutterStep DEF Quiet, vars, pipeVars, storeVars, chainVars
<1>2. ASSUME NEW w \in Workers, WorkerStep(w) \/ Failure(w)
      PROVE  LedgerStep
  BY <1>2, QuietIsStutter, WritebackStep, QuarantineStep, AckStep,
     HandOverStep, CleanupStep DEF WorkerStep, Failure
<1>3. ASSUME NEW w \in Workers, NEW e \in Entries, Deliver(w, e)
      PROVE  LedgerStep
  BY <1>3, QuietIsStutter
<1>4. CASE \/ \E w \in Workers : Mine(w)
           \/ ResolveOrphan
           \/ \E m \in Matches : Flip(m)
  BY <1>4, ChainStep
<1> QED
  BY <1>1, <1>2, <1>3, <1>4 DEF Next

\* However workers interleave, crash, retry and abandon transactions, each
\* match lives the life MatchLedger describes.
THEOREM PipelineImplementsLedger == Spec => ImplementsLedger
<1>1. Init => Ledger!Init
  BY DEF Init, StoreInit, PipeInit, Ledger!Init, MatchesIn
<1>2. IInv /\ [Next]_vars => [Ledger!Next]_(Ledger!ledgerVars)
  BY NextIsLedgerStep DEF LedgerStep
<1>3. Spec => []IInv
  BY Invariance
<1> QED
  BY <1>1, <1>2, <1>3, PTL DEF Spec, ImplementsLedger, Ledger!Spec
-----------------------------------------------------------------------------
(* The pipeline implements EntryDelivery.                                  *)

DeliveryStep == [Delivery!Next]_(Delivery!deliveryVars)

\* All that a worker goes through is of its batch, and an idle one has none.
Carries(w) ==
    /\ pc[w] = "idle" => batch[w] = {}
    /\ live[w] \cup todo[w] \cup poison[w] \subseteq batch[w]

CarriesInv == \A w \in Workers : Carries(w)

\* w moves on with its batch, and nobody else moves.
MovesOn(w) ==
    /\ \A v \in Workers \ {w} :
          /\ pc'[v] = pc[v] /\ batch'[v] = batch[v] /\ live'[v] = live[v]
          /\ todo'[v] = todo[v] /\ poison'[v] = poison[v]
    /\ Carries(w)'

\* Then what every worker goes through is still of its batch.
LEMMA OthersCarry ==
    ASSUME CarriesInv, NEW w \in Workers, MovesOn(w)
    PROVE  CarriesInv'
BY DEF CarriesInv, Carries, MovesOn

\* A worker that forgets its batch carries nothing.
LEMMA ForgetCarries ==
    ASSUME TypeOK, NEW w \in Workers, Forget(w)
    PROVE  MovesOn(w) /\ batch' = [batch EXCEPT ![w] = {}]
BY DEF Forget, Go, TypeOK, WorkersTypeOK, MovesOn, Carries

\* Going round a loop carries no more than before and what comes next.
LEMMA ContinueCarries ==
    ASSUME TypeOK, NEW w \in Workers, Carries(w), pc[w] # "idle",
           NEW e \in todo[w], NEW next, next # "idle",
           NEW more \in SUBSET batch[w], Continue(w, e, next, more),
           UNCHANGED <<batch, live>>,
           \/ UNCHANGED poison
           \/ poison' = [poison EXCEPT ![w] = @ \cup {e}]
    PROVE  MovesOn(w)
<1>1. /\ pc'[w] # "idle"
      /\ todo'[w] \subseteq todo[w] \cup more
      /\ poison'[w] \subseteq poison[w] \cup {e}
      /\ batch'[w] = batch[w] /\ live'[w] = live[w]
  BY DEF Continue, Go, TypeOK, WorkersTypeOK
<1>2. Carries(w)'
  BY <1>1 DEF Carries
<1>3. \A v \in Workers \ {w} :
          /\ pc'[v] = pc[v] /\ batch'[v] = batch[v] /\ live'[v] = live[v]
          /\ todo'[v] = todo[v] /\ poison'[v] = poison[v]
  BY DEF Continue, Go, TypeOK, WorkersTypeOK
<1> QED BY <1>2, <1>3 DEF MovesOn

\* What a step does to the ACKs when it only goes on with the batch.
Settling(w) ==
    /\ MovesOn(w)
    /\ UNCHANGED queue
    /\ \/ UNCHANGED acked
       \/ \E e \in todo[w] : acked' = acked \cup {e}
    /\ batch' \in {batch, [batch EXCEPT ![w] = {}]}

\* The loops.
LEMMA LoopsSettle ==
    ASSUME TypeOK, NEW w \in Workers, Carries(w),
           \/ GhostWriteback(w) \/ GhostAck(w) \/ Probe(w) \/ Quarantine(w)
           \/ Apply(w) \/ WritebackSettled(w) \/ Ack(w) \/ CleanupAck(w)
    PROVE  Settling(w)
<1>1. CASE GhostWriteback(w)
  <2>1. \E e \in todo[w] : Continue(w, e, "ghostack", batch[w] \ live[w])
    BY <1>1 DEF GhostWriteback
  <2>2. pc[w] = "ghostwb" /\ UNCHANGED <<acked, queue, batch, live, poison>>
    BY <1>1 DEF GhostWriteback
  <2> QED BY <2>1, <2>2, ContinueCarries DEF Settling
<1>2. CASE GhostAck(w)
  <2>1. /\ pc[w] = "ghostack" /\ UNCHANGED queue
        /\ \E e \in todo[w] : acked' = acked \cup {e}
    BY <1>2 DEF GhostAck
  <2>2. CASE Forget(w)
    BY <2>1, <2>2, ForgetCarries DEF Settling
  <2>3. CASE /\ \E e \in todo[w] : Continue(w, e, "simulate", {})
             /\ UNCHANGED <<batch, live, poison>>
    BY <2>1, <2>3, ContinueCarries DEF Settling
  <2> QED BY <1>2, <2>2, <2>3 DEF GhostAck
<1>3. CASE Probe(w)
  <2>1. PICK e \in todo[w] :
           /\ \/ UNCHANGED poison
              \/ poison' = [poison EXCEPT ![w] = @ \cup {e}]
           /\ \/ Continue(w, e, "quarantine", poison'[w])
              \/ Continue(w, e, "resimulate", {})
    BY <1>3 DEF Probe
  <2>2. pc[w] = "isolate" /\ UNCHANGED <<acked, queue, batch, live>>
    BY <1>3 DEF Probe, chainVars
  <2>3. poison'[w] \in SUBSET batch[w]
    BY <2>1 DEF Carries, TypeOK, WorkersTypeOK
  <2> QED BY <2>1, <2>2, <2>3, ContinueCarries DEF Settling
<1>4. CASE Quarantine(w)
  <2>1. \E e \in todo[w] : Continue(w, e, "poisonack", poison[w])
    BY <1>4 DEF Quarantine
  <2>2. pc[w] = "quarantine" /\ UNCHANGED <<acked, queue, batch, live, poison>>
    BY <1>4 DEF Quarantine
  <2>3. poison[w] \in SUBSET batch[w]
    BY DEF Carries
  <2> QED BY <2>1, <2>2, <2>3, ContinueCarries DEF Settling
<1>5. CASE Apply(w)
  <2>1. \E e \in todo[w] : Continue(w, e, "writeback", live[w])
    BY <1>5 DEF Apply
  <2>2. pc[w] = "apply" /\ UNCHANGED <<acked, queue, batch, live, poison>>
    BY <1>5 DEF Apply
  <2>3. live[w] \in SUBSET batch[w]
    BY DEF Carries
  <2> QED BY <2>1, <2>2, <2>3, ContinueCarries DEF Settling
<1>6. CASE WritebackSettled(w)
  <2>1. \E e \in todo[w] : Continue(w, e, "ack", live[w])
    BY <1>6 DEF WritebackSettled
  <2>2. pc[w] = "writeback" /\ UNCHANGED <<acked, queue, batch, live, poison>>
    BY <1>6 DEF WritebackSettled
  <2>3. live[w] \in SUBSET batch[w]
    BY DEF Carries
  <2> QED BY <2>1, <2>2, <2>3, ContinueCarries DEF Settling
<1>7. CASE Ack(w) \/ CleanupAck(w)
  <2>1. /\ pc[w] \in {"ack", "cleanack"} /\ UNCHANGED queue
        /\ \E e \in todo[w] : acked' = acked \cup {e}
    BY <1>7 DEF Ack, CleanupAck
  <2>2. CASE Forget(w)
    BY <2>1, <2>2, ForgetCarries DEF Settling
  <2>3. CASE /\ \E e \in todo[w] : /\ todo[w] # {e}
                                   /\ Continue(w, e, "idle", {})
             /\ UNCHANGED <<batch, live, poison>>
    <3>1. Carries(w)'
      BY <2>1, <2>3 DEF Continue, Go, TypeOK, WorkersTypeOK, Carries
    <3>2. MovesOn(w)
      BY <2>3, <3>1 DEF Continue, Go, TypeOK, WorkersTypeOK, MovesOn
    <3> QED BY <2>1, <2>3, <3>2 DEF Settling
  <2> QED BY <1>7, <2>2, <2>3 DEF Ack, CleanupAck
<1> QED
  BY <1>1, <1>2, <1>3, <1>4, <1>5, <1>6, <1>7

\* The other awaits of a batch.
LEMMA AwaitsSettle ==
    ASSUME TypeOK, NEW w \in Workers, Carries(w),
           \/ Filter(w) \/ Simulate(w) \/ Resimulate(w) \/ PoisonAck(w)
           \/ Submit(w) \/ SubmitFatal(w) \/ Receipt(w)
           \/ Unlock(w) \/ Record(w) \/ Restore(w)
    PROVE  Settling(w)
<1> USE DEF Carries, MovesOn, Go, TypeOK, WorkersTypeOK, Settling, chainVars
<1>1. CASE Filter(w) BY <1>1 DEF Filter, SettledIn
<1>2. CASE Simulate(w) BY <1>2 DEF Simulate
<1>3. CASE Resimulate(w) BY <1>3 DEF Resimulate
<1>4. CASE PoisonAck(w)
  <2>1. /\ pc[w] = "poisonack" /\ UNCHANGED queue
        /\ \E e \in todo[w] : acked' = acked \cup {e}
    BY <1>4 DEF PoisonAck
  <2>2. CASE Forget(w)
    BY <2>1, <2>2, ForgetCarries
  <2>3. CASE ~Forget(w)
    <3>1. UNCHANGED <<batch, poison>>
      BY <1>4, <2>3 DEF PoisonAck, StartCleanup
    <3>2. /\ pc'[w] # "idle"
          /\ live'[w] \subseteq live[w] /\ todo'[w] \subseteq todo[w]
      BY <1>4, <2>3 DEF PoisonAck, StartCleanup, Survivors
    <3>3. \A v \in Workers \ {w} :
             pc'[v] = pc[v] /\ live'[v] = live[v] /\ todo'[v] = todo[v]
      BY <1>4, <2>3 DEF PoisonAck, StartCleanup
    <3> QED BY <2>1, <3>1, <3>2, <3>3
  <2> QED BY <2>2, <2>3
<1>5. CASE Submit(w) BY <1>5 DEF Submit
<1>6. CASE SubmitFatal(w) BY <1>6 DEF SubmitFatal, StartCleanup
<1>7. CASE Receipt(w) BY <1>7 DEF Receipt
<1>8. CASE Unlock(w) BY <1>8 DEF Unlock
<1>9. CASE Record(w) BY <1>9 DEF Record
<1>10. CASE Restore(w) BY <1>10 DEF Restore
<1> QED
  BY <1>1, <1>2, <1>3, <1>4, <1>5, <1>6, <1>7, <1>8, <1>9, <1>10

\* A batch that is retried later, or whose XACK failed, done or not.
LEMMA RetriesSettle ==
    ASSUME TypeOK, NEW w \in Workers,
           \/ SimulateUnknown(w) \/ ProbeUnknown(w) \/ ResimulateUnknown(w)
           \/ SubmitUnknown(w) \/ ReceiptReverted(w) \/ ReceiptLost(w)
           \/ RpcFailure(w) \/ DbFailure(w) \/ RedisFailure(w)
    PROVE  Settling(w)
<1>1. Forget(w) /\ UNCHANGED queue
  BY DEF SimulateUnknown, ProbeUnknown, ResimulateUnknown, SubmitUnknown,
         ReceiptReverted, ReceiptLost, RpcFailure, DbFailure, RedisFailure,
         Retry, GiveUp
<1>2. UNCHANGED acked \/ \E e \in todo[w] : acked' = acked \cup {e}
  BY DEF SimulateUnknown, ProbeUnknown, ResimulateUnknown, SubmitUnknown,
         ReceiptReverted, ReceiptLost, RpcFailure, DbFailure, RedisFailure,
         Retry
<1> QED BY <1>1, <1>2, ForgetCarries DEF Settling

\* Going on with a batch is Ack, of an entry or of none.
LEMMA SettlingIsAck ==
    ASSUME TypeOK, TypeOK', NEW w \in Workers, Carries(w), Settling(w)
    PROVE  DeliveryStep
<1>1. Delivery!TypeOK'
  BY DEF TypeOK, SharedTypeOK, WorkersTypeOK, Delivery!TypeOK
<1>2. acked \subseteq acked' /\ acked' \ acked \subseteq batch[w]
  BY DEF Settling, Carries
<1>3. batch'[w] \in {batch[w], {}} /\ queue'[w] = queue[w]
  BY DEF Settling, TypeOK, WorkersTypeOK
<1>4. Delivery!OnlyOf(w)
  BY DEF Settling, MovesOn, Delivery!OnlyOf
<1>5. Delivery!Ack(w)
  BY <1>2, <1>3 DEF Delivery!Ack
<1> QED BY <1>1, <1>4, <1>5 DEF DeliveryStep, Delivery!Next

\* Delivery, the start of a batch and the death of a process.
LEMMA ComingAndGoing ==
    ASSUME TypeOK, TypeOK', CarriesInv, NEW w \in Workers,
           \/ \E e \in Entries : Deliver(w, e)
           \/ StartBatch(w)
           \/ Crash(w)
    PROVE  DeliveryStep /\ MovesOn(w)
<1>0. Delivery!TypeOK' /\ Carries(w)
  BY DEF TypeOK, SharedTypeOK, WorkersTypeOK, Delivery!TypeOK, CarriesInv
<1>1. CASE \E e \in Entries : Deliver(w, e)
  <2>1. PICK e \in Entries : Deliver(w, e)
    BY <1>1
  <2>2. /\ queue'[w] = queue[w] \cup {e} /\ e \notin acked
        /\ UNCHANGED <<acked, pc, batch, live, todo, poison>>
        /\ \A v \in Workers \ {w} : queue'[v] = queue[v]
    BY <2>1 DEF Deliver, TypeOK, WorkersTypeOK
  <2>3. Delivery!Read(w) /\ Delivery!OnlyOf(w)
    BY <2>2 DEF Delivery!Read, Delivery!OnlyOf
  <2>4. MovesOn(w)
    BY <1>0, <2>2 DEF MovesOn, Carries
  <2> QED BY <1>0, <2>3, <2>4 DEF DeliveryStep, Delivery!Next
<1>2. CASE StartBatch(w)
  <2>1. PICK B \in SUBSET queue[w] :
           /\ B # {}
           /\ batch' = [batch EXCEPT ![w] = B]
           /\ queue' = [queue EXCEPT ![w] = @ \ B]
    BY <1>2 DEF StartBatch
  <2>2. /\ pc[w] = "idle" /\ pc' = [pc EXCEPT ![w] = "filter"]
        /\ UNCHANGED <<acked, live, todo, poison>>
    BY <1>2 DEF StartBatch, Go
  <2>3. /\ batch'[w] = B /\ B # {} /\ B \subseteq queue[w]
        /\ queue'[w] = queue[w] \ B /\ batch[w] = {} /\ pc'[w] = "filter"
        /\ \A v \in Workers \ {w} :
              queue'[v] = queue[v] /\ batch'[v] = batch[v] /\ pc'[v] = pc[v]
    <3>1. batch[w] = {}
      BY <1>0, <2>2 DEF Carries
    <3>2. /\ pc \in [Workers -> PCs] /\ queue \in [Workers -> SUBSET Entries]
          /\ batch \in [Workers -> SUBSET Entries]
      BY DEF TypeOK, WorkersTypeOK
    <3>3. B # {} /\ B \subseteq queue[w]
      BY <2>1
    <3>4. /\ batch'[w] = B
          /\ \A v \in Workers \ {w} : batch'[v] = batch[v]
      BY <2>1, <3>2
    <3>5. /\ queue'[w] = queue[w] \ B
          /\ \A v \in Workers \ {w} : queue'[v] = queue[v]
      BY <2>1, <3>2
    <3>6. /\ pc'[w] = "filter"
          /\ \A v \in Workers \ {w} : pc'[v] = pc[v]
      BY <2>2, <3>2
    <3> QED BY <3>1, <3>3, <3>4, <3>5, <3>6
  <2>4. Delivery!Start(w) /\ Delivery!OnlyOf(w)
    BY <2>2, <2>3 DEF Delivery!Start, Delivery!OnlyOf
  <2>5. MovesOn(w)
    BY <1>0, <2>2, <2>3 DEF MovesOn, Carries
  <2> QED BY <1>0, <2>4, <2>5 DEF DeliveryStep, Delivery!Next
<1>3. CASE Crash(w)
  <2>1. Forget(w) /\ UNCHANGED acked /\ queue' = [queue EXCEPT ![w] = {}]
    BY <1>3 DEF Crash
  <2>2. MovesOn(w) /\ batch' = [batch EXCEPT ![w] = {}]
    BY <2>1, ForgetCarries
  <2>3. Delivery!Die(w) /\ Delivery!OnlyOf(w)
    BY <2>1, <2>2 DEF Delivery!Die, Delivery!OnlyOf, TypeOK, WorkersTypeOK
  <2> QED BY <1>0, <2>2, <2>3 DEF DeliveryStep, Delivery!Next
<1> QED BY <1>1, <1>2, <1>3

\* Every step of the pipeline is a step of the delivery, or none.
LEMMA NextIsDeliveryStep ==
    ASSUME TypeOK, TypeOK', CarriesInv, [Next]_vars
    PROVE  DeliveryStep /\ CarriesInv'
<1>1. CASE \/ UNCHANGED vars \/ Quiet \/ ResolveOrphan
           \/ \E w \in Workers : Mine(w)
           \/ \E m \in Matches : Flip(m)
  <2>1. UNCHANGED <<acked, pc, queue, batch, live, todo, poison>>
    BY <1>1 DEF Quiet, ResolveOrphan, Mine, Flip, vars, pipeVars, workVars
  <2> QED
    BY <2>1 DEF DeliveryStep, Delivery!deliveryVars, CarriesInv, Carries
<1>2. ASSUME NEW w \in Workers,
             \/ \E e \in Entries : Deliver(w, e)
             \/ StartBatch(w)
             \/ Crash(w)
      PROVE  DeliveryStep /\ CarriesInv'
  BY <1>2, ComingAndGoing, OthersCarry
<1>3. ASSUME NEW w \in Workers, WorkerStep(w) \/ Failure(w),
             ~StartBatch(w), ~Crash(w)
      PROVE  DeliveryStep /\ CarriesInv'
  <2>1. Carries(w)
    BY DEF CarriesInv
  <2>2. Settling(w)
    BY <1>3, <2>1, LoopsSettle, AwaitsSettle, RetriesSettle
    DEF WorkerStep, Failure
  <2>3. MovesOn(w)
    BY <2>2 DEF Settling
  <2> QED BY <2>1, <2>2, <2>3, SettlingIsAck, OthersCarry
<1> QED
  BY <1>1, <1>2, <1>3 DEF Next

\* What the pipeline takes and ACKs is in order with EntryDelivery, for every
\* number of workers and whatever fails: with ConsumerImplementsDelivery, what
\* one of the two modules leaves out of the other is the same.
THEOREM PipelineImplementsDelivery == Spec => ImplementsDelivery
<1>1. Init => Delivery!Init /\ CarriesInv
  BY DEF Init, PipeInit, Delivery!Init, CarriesInv, Carries
<1>2. TypeOK /\ TypeOK' /\ CarriesInv /\ [Next]_vars
        => [Delivery!Next]_(Delivery!deliveryVars) /\ CarriesInv'
  BY NextIsDeliveryStep DEF DeliveryStep
<1>3. Spec => []TypeOK
  BY TypeCorrect
<1> QED
  BY <1>1, <1>2, <1>3, PTL DEF Spec, ImplementsDelivery, Delivery!Spec
=============================================================================
