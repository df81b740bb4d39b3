----------------------- MODULE SettlementPipeline_proofs -----------------------
(***************************************************************************)
(* Safety of the settlement pipeline, for every set of matches, entries    *)
(* and workers, every payload and every bound on failures and flips.       *)
(*                                                                         *)
(* The inductive invariant is IInv: the types, the three safety            *)
(* properties, and KnowledgeIsCurrent, which says that what a worker read  *)
(* or did before its last await still holds.  It is what makes the         *)
(* properties inductive: a writeback is sound because the isSettled read   *)
(* or the receipt it rests on cannot have become untrue since.             *)
(***************************************************************************)
EXTENDS SettlementPipeline, FiniteSetTheorems, TLAPS

IInv ==
    /\ TypeOK
    /\ SettledOnlyIfOnChain
    /\ ReleasedExactlyOnce
    /\ AckedIsResolved
    /\ KnowledgeIsCurrent

-----------------------------------------------------------------------------
(* Types.                                                                  *)

\* A number of copies in a batch is a number: the stream is finite.
LEMMA CopiesType ==
    ASSUME NEW S \in SUBSET Entries, NEW m \in Matches
    PROVE  Copies(S, m) \in Nat
<1>1. {e \in S : MatchOf[e] = m} \subseteq Entries
  OBVIOUS
<1>2. IsFiniteSet({e \in S : MatchOf[e] = m})
  BY <1>1, EntriesAssumption, FS_Subset
<1> QED
  BY <1>2, FS_CardinalityType DEF Copies

\* The matches of a set of entries are matches.
LEMMA MatchesInType ==
    ASSUME NEW S \in SUBSET Entries
    PROVE  MatchesIn(S) \subseteq Matches
BY MatchOfAssumption DEF MatchesIn

\* Each database transaction keeps the types of the store.
LEMMA WritebackType ==
    ASSUME StoreTypeOK, NEW m \in Matches, Writeback(m)
    PROVE  StoreTypeOK'
BY DEF StoreTypeOK, Writeback, ReleaseLock, Clamp, Statuses, storeVars

\* A quarantine or remediation transaction keeps the types of the store.
LEMMA FailPendingType ==
    ASSUME StoreTypeOK, NEW m \in Matches, FailPending(m)
    PROVE  StoreTypeOK'
BY DEF StoreTypeOK, FailPending, ReleaseLock, RestoreOrders, RestoredStatus,
       Clamp, Statuses, OrderStatuses, storeVars

\* So does the batch unlock,
LEMMA UnlockFailedType ==
    ASSUME StoreTypeOK, NEW S \in SUBSET Entries, UnlockFailed(S)
    PROVE  StoreTypeOK'
BY CopiesType DEF StoreTypeOK, UnlockFailed, Clamp

\* the batch record of the failures,
LEMMA RecordFailedType ==
    ASSUME StoreTypeOK, NEW S \in SUBSET Entries, RecordFailed(S)
    PROVE  StoreTypeOK'
BY DEF StoreTypeOK, RecordFailed, Statuses

\* and the batch restore of the orders.
LEMMA RestoreFailedType ==
    ASSUME StoreTypeOK, NEW S \in SUBSET Entries, RestoreFailed(S)
    PROVE  StoreTypeOK'
BY DEF StoreTypeOK, RestoreFailed, RestoredStatus, Clamp, OrderStatuses

\* A step that leaves the store alone keeps its types.
LEMMA StoreUnchangedType ==
    ASSUME StoreTypeOK, UNCHANGED storeVars
    PROVE  StoreTypeOK'
BY DEF StoreTypeOK, storeVars

\* Ending a batch keeps the types of the workers.
LEMMA ForgetType ==
    ASSUME WorkersTypeOK, NEW w \in Workers, Forget(w),
           queue' \in [Workers -> SUBSET Entries]
    PROVE  WorkersTypeOK'
BY DEF WorkersTypeOK, Forget, Go, PCs

\* A batch that is thrown back to the PEL keeps all types.
LEMMA RetryType ==
    ASSUME TypeOK, NEW w \in Workers, GiveUp(w), acked' \subseteq Entries,
           faults' \in 0..MaxFaults
    PROVE  TypeOK'
<1>1. WorkersTypeOK'
  BY ForgetType DEF TypeOK, GiveUp, WorkersTypeOK
<1>2. MatchesIn(live[w]) \subseteq Matches
  BY MatchesInType DEF TypeOK, WorkersTypeOK
<1>3. SharedTypeOK'
  BY <1>2 DEF TypeOK, SharedTypeOK, GiveUp, Abandon
<1> QED
  BY <1>1, <1>3, StoreUnchangedType DEF TypeOK, GiveUp

\* The failure budget is respected.
LEMMA FaultType ==
    ASSUME TypeOK, NEW k, Fault(k)
    PROVE  faults' \in 0..MaxFaults
BY FaultsAssumption DEF TypeOK, SharedTypeOK, Fault

-----------------------------------------------------------------------------
(* Each step keeps TypeOK.                                                 *)

\* Delivery of an entry keeps the types.
LEMMA DeliverType ==
    ASSUME TypeOK, NEW w \in Workers, NEW e \in Entries, Deliver(w, e)
    PROVE  TypeOK'
BY StoreUnchangedType
   DEF TypeOK, SharedTypeOK, WorkersTypeOK, Deliver, chainVars

\* Taking the accumulator as the batch keeps the types.
LEMMA StartBatchType ==
    ASSUME TypeOK, NEW w \in Workers, StartBatch(w)
    PROVE  TypeOK'
BY StoreUnchangedType
   DEF TypeOK, SharedTypeOK, WorkersTypeOK, StartBatch, chainVars, Go, PCs

\* The already-settled filter keeps the types.
LEMMA FilterType ==
    ASSUME TypeOK, NEW w \in Workers, Filter(w)
    PROVE  TypeOK'
<1>1. PICK already \in SUBSET SettledIn(batch[w]) :
         /\ UNCHANGED faults \/ Fault("read")
         /\ live' = [live EXCEPT ![w] = batch[w] \ already]
         /\ Go(w, IF already # {} THEN "ghostwb" ELSE "simulate")
         /\ todo' = [todo EXCEPT ![w] = already]
  BY DEF Filter
<1>2. faults' \in 0..MaxFaults
  BY <1>1, FaultType DEF TypeOK, SharedTypeOK
<1> QED
  BY <1>1, <1>2, StoreUnchangedType
     DEF TypeOK, SharedTypeOK, WorkersTypeOK, Filter, chainVars, Go, PCs,
         SettledIn

\* The writeback of an already settled match keeps the types.
LEMMA GhostWritebackType ==
    ASSUME TypeOK, NEW w \in Workers, GhostWriteback(w)
    PROVE  TypeOK'
BY WritebackType, StoreUnchangedType, FaultType, MatchOfAssumption
   DEF TypeOK, SharedTypeOK, WorkersTypeOK, GhostWriteback,
       WritebackOrSwallow, Continue, chainVars, Go, PCs

\* The ACK of an already settled match keeps the types.
LEMMA GhostAckType ==
    ASSUME TypeOK, NEW w \in Workers, GhostAck(w)
    PROVE  TypeOK'
<1>1. PICK e \in todo[w] :
         /\ acked' = acked \cup {e}
         /\ \/ Forget(w)
            \/ /\ Continue(w, e, "simulate", {})
               /\ UNCHANGED <<batch, live, poison, clean, tx>>
  BY DEF GhostAck
<1>2. WorkersTypeOK'
  <2>1. CASE Forget(w)
    BY <2>1, ForgetType DEF TypeOK, WorkersTypeOK, GhostAck
  <2>2. CASE /\ Continue(w, e, "simulate", {})
             /\ UNCHANGED <<batch, live, poison, clean, tx>>
    BY <2>2 DEF TypeOK, WorkersTypeOK, GhostAck, Continue, Go, PCs
  <2> QED
    BY <1>1, <2>1, <2>2
<1> QED
  BY <1>1, <1>2, StoreUnchangedType
     DEF TypeOK, SharedTypeOK, WorkersTypeOK, GhostAck, chainVars

\* The ACKs after a settlement and after a cleanup keep the types.
LEMMA AckType ==
    ASSUME TypeOK, NEW w \in Workers, Ack(w) \/ CleanupAck(w)
    PROVE  TypeOK'
<1>1. PICK e \in todo[w] :
         /\ acked' = acked \cup {e}
         /\ \/ Forget(w)
            \/ /\ Continue(w, e, "idle", {})
               /\ UNCHANGED <<batch, live, poison, clean, tx>>
  BY DEF Ack, CleanupAck
<1>2. UNCHANGED <<storeVars, chainVars, faults, queue, applied, cleaned>>
  BY DEF Ack, CleanupAck
<1>3. WorkersTypeOK'
  <2>1. CASE Forget(w)
    BY <1>2, <2>1, ForgetType DEF TypeOK, WorkersTypeOK
  <2>2. CASE /\ Continue(w, e, "idle", {})
             /\ UNCHANGED <<batch, live, poison, clean, tx>>
    BY <1>2, <2>2 DEF TypeOK, WorkersTypeOK, Continue, Go, PCs
  <2> QED
    BY <1>1, <2>1, <2>2
<1> QED
  BY <1>1, <1>2, <1>3, StoreUnchangedType
     DEF TypeOK, SharedTypeOK, WorkersTypeOK, chainVars

\* The dry-run of the batch keeps the types.
LEMMA SimulateType ==
    ASSUME TypeOK, NEW w \in Workers, Simulate(w)
    PROVE  TypeOK'
BY StoreUnchangedType
   DEF TypeOK, SharedTypeOK, WorkersTypeOK, Simulate, chainVars, Go, PCs

\* The dry-run of one match keeps the types.
LEMMA ProbeType ==
    ASSUME TypeOK, NEW w \in Workers, Probe(w)
    PROVE  TypeOK'
BY StoreUnchangedType
   DEF TypeOK, SharedTypeOK, WorkersTypeOK, Probe, Continue, chainVars, Go,
       PCs

\* The dry-run of the survivors keeps the types.
LEMMA ResimulateType ==
    ASSUME TypeOK, NEW w \in Workers, Resimulate(w)
    PROVE  TypeOK'
<1>1. MatchesIn(batch[w]) \subseteq Matches
  BY MatchesInType DEF TypeOK, WorkersTypeOK
<1>2. SharedTypeOK'
  BY <1>1 DEF TypeOK, SharedTypeOK, Resimulate, chainVars
<1>3. WorkersTypeOK'
  BY DEF TypeOK, WorkersTypeOK, Resimulate, Go, PCs
<1> QED
  BY <1>2, <1>3, StoreUnchangedType DEF TypeOK, Resimulate

\* The quarantine of a poison match keeps the types.
LEMMA QuarantineType ==
    ASSUME TypeOK, NEW w \in Workers, Quarantine(w)
    PROVE  TypeOK'
BY FailPendingType, MatchOfAssumption
   DEF TypeOK, SharedTypeOK, WorkersTypeOK, Quarantine, Continue, chainVars,
       Go, PCs

\* The ACK of a poison match keeps the types.
LEMMA PoisonAckType ==
    ASSUME TypeOK, NEW w \in Workers, PoisonAck(w)
    PROVE  TypeOK'
<1>1. MatchesIn(batch[w]) \subseteq Matches
  BY MatchesInType DEF TypeOK, WorkersTypeOK
<1>2. SharedTypeOK'
  BY <1>1 DEF TypeOK, SharedTypeOK, WorkersTypeOK, PoisonAck, StartCleanup,
              chainVars
<1>3. PICK e \in todo[w] :
         \/ /\ todo' = [todo EXCEPT ![w] = @ \ {e}]
            /\ UNCHANGED <<pc, batch, live, poison, clean, tx>>
         \/ Go(w, "unlock") /\ UNCHANGED <<batch, live, todo, poison, clean, tx>>
         \/ Forget(w)
         \/ /\ Go(w, "submit")
            /\ live' = [live EXCEPT ![w] = Survivors(w)]
            /\ todo' = [todo EXCEPT ![w] = {}]
            /\ UNCHANGED <<batch, poison, clean, tx>>
  BY DEF PoisonAck, StartCleanup
<1>4. CASE Forget(w)
  <2>1. WorkersTypeOK'
    BY <1>4, ForgetType DEF TypeOK, WorkersTypeOK, PoisonAck
  <2> QED
    BY <1>2, <2>1, StoreUnchangedType DEF TypeOK, PoisonAck
<1>5. CASE ~Forget(w)
  <2>1. WorkersTypeOK'
    BY <1>3, <1>5 DEF TypeOK, WorkersTypeOK, PoisonAck, Go, PCs, Survivors
  <2> QED
    BY <1>2, <2>1, StoreUnchangedType DEF TypeOK, PoisonAck
<1> QED
  BY <1>4, <1>5

\* The broadcast keeps the types.
LEMMA SubmitType ==
    ASSUME TypeOK, NEW w \in Workers, Submit(w)
    PROVE  TypeOK'
BY StoreUnchangedType
   DEF TypeOK, SharedTypeOK, WorkersTypeOK, Submit, chainVars, Go, PCs

\* A refused broadcast that starts the cleanup keeps the types.
LEMMA SubmitFatalType ==
    ASSUME TypeOK, NEW w \in Workers, SubmitFatal(w)
    PROVE  TypeOK'
<1>1. MatchesIn(batch[w]) \subseteq Matches
  BY MatchesInType DEF TypeOK, WorkersTypeOK
<1> QED
  BY <1>1, StoreUnchangedType, FaultType
     DEF TypeOK, SharedTypeOK, WorkersTypeOK, SubmitFatal, StartCleanup,
         chainVars, Go, PCs

\* A receipt keeps the types.
LEMMA ReceiptType ==
    ASSUME TypeOK, NEW w \in Workers, Receipt(w)
    PROVE  TypeOK'
BY StoreUnchangedType
   DEF TypeOK, SharedTypeOK, WorkersTypeOK, Receipt, chainVars, Go, PCs

\* Applying the events of a match keeps the types.
LEMMA ApplyType ==
    ASSUME TypeOK, NEW w \in Workers, Apply(w)
    PROVE  TypeOK'
BY StoreUnchangedType, MatchOfAssumption
   DEF TypeOK, SharedTypeOK, WorkersTypeOK, Apply, Continue, chainVars, Go,
       PCs

\* The writeback of a settled match keeps the types.
LEMMA WritebackSettledType ==
    ASSUME TypeOK, NEW w \in Workers, WritebackSettled(w)
    PROVE  TypeOK'
BY WritebackType, StoreUnchangedType, FaultType, MatchOfAssumption
   DEF TypeOK, SharedTypeOK, WorkersTypeOK, WritebackSettled,
       WritebackOrSwallow, Continue, chainVars, Go, PCs

\* The three cleanup transactions.
LEMMA CleanupType ==
    ASSUME TypeOK, NEW w \in Workers, Unlock(w) \/ Record(w) \/ Restore(w)
    PROVE  TypeOK'
<1>1. batch[w] \in SUBSET Entries
  BY DEF TypeOK, WorkersTypeOK
<1>2. faults' \in 0..MaxFaults
  BY FaultType
     DEF Unlock, Record, Restore, Swallow, TypeOK, SharedTypeOK
<1>3. StoreTypeOK'
  BY <1>1, UnlockFailedType, RecordFailedType, RestoreFailedType,
     StoreUnchangedType DEF TypeOK, Unlock, Record, Restore, Swallow
<1>4. SharedTypeOK'
  BY <1>2 DEF TypeOK, SharedTypeOK, Unlock, Record, Restore, chainVars
<1>5. WorkersTypeOK'
  BY DEF TypeOK, WorkersTypeOK, Unlock, Record, Restore, Go, PCs
<1> QED
  BY <1>3, <1>4, <1>5 DEF TypeOK

\* A crash keeps the types.
LEMMA CrashType ==
    ASSUME TypeOK, NEW w \in Workers, Crash(w)
    PROVE  TypeOK'
<1>1. WorkersTypeOK'
  BY ForgetType DEF TypeOK, Crash, WorkersTypeOK
<1>2. MatchesIn(live[w]) \subseteq Matches
  BY MatchesInType DEF TypeOK, WorkersTypeOK
<1>3. SharedTypeOK'
  BY <1>2, FaultType DEF TypeOK, SharedTypeOK, Crash, Abandon
<1> QED
  BY <1>1, <1>3, StoreUnchangedType DEF TypeOK, Crash

\* A mined or reverted transaction keeps the types.
LEMMA MineType ==
    ASSUME TypeOK, NEW w \in Workers, Mine(w)
    PROVE  TypeOK'
<1>1. MatchesIn(live[w]) \subseteq Matches
  BY MatchesInType DEF TypeOK, WorkersTypeOK
<1>2. SharedTypeOK'
  BY <1>1 DEF TypeOK, SharedTypeOK, Mine
<1>3. WorkersTypeOK'
  BY DEF TypeOK, WorkersTypeOK, Mine
<1> QED
  BY <1>2, <1>3, StoreUnchangedType DEF TypeOK, Mine

\* The fate of orphans and changes of validity keep the types.
LEMMA EnvironmentType ==
    ASSUME TypeOK, ResolveOrphan \/ \E m \in Matches : Flip(m)
    PROVE  TypeOK'
<1>1. CASE ResolveOrphan
  BY <1>1, StoreUnchangedType
     DEF TypeOK, SharedTypeOK, WorkersTypeOK, ResolveOrphan, workVars
<1>2. CASE \E m \in Matches : Flip(m)
  <2>1. PICK m \in Matches : Flip(m)
    BY <1>2
  <2> QED
    BY <2>1, KindsAssumption, StoreUnchangedType
       DEF TypeOK, SharedTypeOK, WorkersTypeOK, Flip, workVars
<1> QED
  BY <1>1, <1>2

\* Everything that ends a batch with a retry.
Retrying(w) ==
    \/ SimulateUnknown(w) \/ ProbeUnknown(w) \/ ResimulateUnknown(w)
    \/ SubmitUnknown(w) \/ ReceiptReverted(w) \/ ReceiptLost(w)
    \/ RpcFailure(w) \/ DbFailure(w)

\* Every action that gives the batch up keeps the types.
LEMMA RetryingType ==
    ASSUME TypeOK, NEW w \in Workers, Retrying(w) \/ RedisFailure(w)
    PROVE  TypeOK'
<1>1. /\ GiveUp(w)
      /\ acked' = acked \/ \E e \in todo[w] : acked' = acked \cup {e}
  BY DEF Retrying, SimulateUnknown, ProbeUnknown, ResimulateUnknown,
         SubmitUnknown, ReceiptReverted, ReceiptLost, RpcFailure, DbFailure,
         RedisFailure, Retry
<1>2. acked' \subseteq Entries
  BY <1>1 DEF TypeOK, SharedTypeOK, WorkersTypeOK
<1>3. faults' = faults \/ \E k \in AllFaults : Fault(k)
  BY DEF Retrying, SimulateUnknown, ProbeUnknown, ResimulateUnknown,
         SubmitUnknown, ReceiptReverted, ReceiptLost, RpcFailure, DbFailure,
         RedisFailure, AllFaults
<1>4. faults' \in 0..MaxFaults
  BY <1>3, FaultType DEF TypeOK, SharedTypeOK
<1> QED
  BY <1>1, <1>2, <1>4, RetryType

\* Every step keeps the types.
LEMMA NextType ==
    ASSUME TypeOK, [Next]_vars
    PROVE  TypeOK'
<1>1. CASE UNCHANGED vars
  BY <1>1, StoreUnchangedType
     DEF TypeOK, SharedTypeOK, WorkersTypeOK, vars, pipeVars, chainVars,
         workVars
<1>2. ASSUME NEW w \in Workers, WorkerStep(w)
      PROVE  TypeOK'
  BY <1>2, StartBatchType, FilterType, GhostWritebackType, GhostAckType,
     SimulateType, ProbeType, ResimulateType, QuarantineType, PoisonAckType,
     SubmitType, SubmitFatalType, ReceiptType, ApplyType,
     WritebackSettledType, AckType, CleanupType, RetryingType
     DEF WorkerStep, Retrying
<1>3. ASSUME NEW w \in Workers, Failure(w)
      PROVE  TypeOK'
  BY <1>3, CrashType, RetryingType DEF Failure, Retrying
<1>4. ASSUME NEW w \in Workers, Mine(w)
      PROVE  TypeOK'
  BY <1>4, MineType
<1>5. ASSUME NEW w \in Workers, NEW e \in Entries, Deliver(w, e)
      PROVE  TypeOK'
  BY <1>5, DeliverType
<1>6. ASSUME ResolveOrphan \/ \E m \in Matches : Flip(m)
      PROVE  TypeOK'
  BY <1>6, EnvironmentType
<1> QED
  BY <1>1, <1>2, <1>3, <1>4, <1>5, <1>6 DEF Next, Quiet

\* The initial state is well typed.
LEMMA InitType ==
    ASSUME Init
    PROVE  TypeOK
<1>1. StoreTypeOK
  BY DEF Init, StoreInit, StoreTypeOK, Clamp, Statuses, OrderStatuses
<1>2. SharedTypeOK /\ WorkersTypeOK
  BY FaultsAssumption, KindsAssumption
     DEF Init, PipeInit, SharedTypeOK, WorkersTypeOK, PCs
<1> QED
  BY <1>1, <1>2 DEF TypeOK

\* Every reachable state of the pipeline is well typed, for every instance.
THEOREM TypeCorrect == Spec => []TypeOK
<1>1. Init => TypeOK
  BY InitType
<1>2. TypeOK /\ [Next]_vars => TypeOK'
  BY NextType
<1> QED
  BY <1>1, <1>2, PTL DEF Spec

-----------------------------------------------------------------------------
(* Safety.  Nothing a worker knows is ever undone.                         *)

\* Settled stays settled, resolved stays resolved, cleaned stays cleaned.
Forward ==
    /\ onchain \subseteq onchain'
    /\ cleaned \subseteq cleaned'
    /\ \A m \in Matches : status[m] # "PENDING" => status'[m] # "PENDING"

\* What a worker knows survives the steps of everybody else.
LEMMA OthersKnow ==
    ASSUME TypeOK, Forward, NEW w \in Workers, WorkerKnows(w),
           pc'[w] = pc[w], batch'[w] = batch[w], live'[w] = live[w],
           todo'[w] = todo[w], poison'[w] = poison[w], tx'[w] = tx[w]
    PROVE  WorkerKnows(w)'
<1>1. \A e \in Entries : MatchOf[e] \in Matches
  BY MatchOfAssumption
<1>2. poison[w] \subseteq Entries
  BY DEF TypeOK, WorkersTypeOK
<1> QED
  BY <1>1, <1>2 DEF WorkerKnows, Forward, MatchesIn

\* A step that leaves the store and the ACKs alone keeps the three safety
\* properties.
LEMMA StoreUnchangedSafe ==
    ASSUME IInv, Forward, UNCHANGED <<storeVars, acked>>
    PROVE  /\ SettledOnlyIfOnChain'
           /\ ReleasedExactlyOnce'
           /\ AckedIsResolved'
BY DEF IInv, Forward, SettledOnlyIfOnChain, ReleasedExactlyOnce,
       AckedIsResolved, storeVars

\* ... and so it is enough to look at the worker that takes it.
LEMMA QuietStep ==
    ASSUME IInv, TypeOK', Forward, UNCHANGED <<storeVars, acked>>,
           NEW w \in Workers, WorkerKnows(w)',
           \A v \in Workers \ {w} :
              /\ pc'[v] = pc[v] /\ batch'[v] = batch[v]
              /\ live'[v] = live[v] /\ todo'[v] = todo[v]
              /\ poison'[v] = poison[v] /\ tx'[v] = tx[v]
    PROVE  IInv'
<1>1. \A v \in Workers \ {w} : WorkerKnows(v)'
  BY OthersKnow DEF IInv, KnowledgeIsCurrent
<1>2. KnowledgeIsCurrent'
  BY <1>1 DEF KnowledgeIsCurrent
<1> QED
  BY <1>2, StoreUnchangedSafe DEF IInv

\* A worker that starts a batch claims nothing about it yet.
LEMMA StartBatchSafe ==
    ASSUME IInv, TypeOK', NEW w \in Workers, StartBatch(w)
    PROVE  IInv'
<1>1. Forward /\ UNCHANGED <<storeVars, acked>>
  BY DEF Forward, StartBatch, Go, PCs, chainVars, storeVars
<1>2. WorkerKnows(w)
  BY DEF IInv, KnowledgeIsCurrent
<1>3. WorkerKnows(w)'
  BY <1>2, MatchOfAssumption
     DEF IInv, TypeOK, WorkersTypeOK, SharedTypeOK, WorkerKnows, StartBatch, Go, PCs, 
         chainVars, storeVars, MatchesIn
<1>4. \A v \in Workers \ {w} :
         /\ pc'[v] = pc[v] /\ batch'[v] = batch[v]
         /\ live'[v] = live[v] /\ todo'[v] = todo[v]
         /\ poison'[v] = poison[v] /\ tx'[v] = tx[v]
  BY DEF IInv, TypeOK, WorkersTypeOK, StartBatch, Go, PCs
<1> QED
  BY <1>1, <1>3, <1>4, QuietStep

\* The dry-run of the batch keeps the invariant.
LEMMA SimulateSafe ==
    ASSUME IInv, TypeOK', NEW w \in Workers, Simulate(w)
    PROVE  IInv'
<1>1. Forward /\ UNCHANGED <<storeVars, acked>>
  BY DEF Forward, Simulate, Go, chainVars, storeVars
<1>2. WorkerKnows(w)
  BY DEF IInv, KnowledgeIsCurrent
<1>3. WorkerKnows(w)'
  BY <1>2, MatchOfAssumption
     DEF IInv, TypeOK, WorkersTypeOK, SharedTypeOK, WorkerKnows, Simulate, Go, 
         chainVars, storeVars, MatchesIn
<1>4. \A v \in Workers \ {w} :
         /\ pc'[v] = pc[v] /\ batch'[v] = batch[v]
         /\ live'[v] = live[v] /\ todo'[v] = todo[v]
         /\ poison'[v] = poison[v] /\ tx'[v] = tx[v]
  BY DEF IInv, TypeOK, WorkersTypeOK, Simulate, Go
<1> QED
  BY <1>1, <1>3, <1>4, QuietStep

\* The dry-run of one match keeps the invariant.
LEMMA ProbeSafe ==
    ASSUME IInv, TypeOK', NEW w \in Workers, Probe(w)
    PROVE  IInv'
<1>1. Forward /\ UNCHANGED <<storeVars, acked>>
  BY DEF Forward, Probe, Go, Continue, chainVars, storeVars
<1>2. WorkerKnows(w)
  BY DEF IInv, KnowledgeIsCurrent
<1>3. WorkerKnows(w)'
  BY <1>2, MatchOfAssumption
     DEF IInv, TypeOK, WorkersTypeOK, SharedTypeOK, WorkerKnows, Probe, Go, Continue, 
         chainVars, storeVars, MatchesIn
<1>4. \A v \in Workers \ {w} :
         /\ pc'[v] = pc[v] /\ batch'[v] = batch[v]
         /\ live'[v] = live[v] /\ todo'[v] = todo[v]
         /\ poison'[v] = poison[v] /\ tx'[v] = tx[v]
  BY DEF IInv, TypeOK, WorkersTypeOK, Probe, Go, Continue
<1> QED
  BY <1>1, <1>3, <1>4, QuietStep

\* The dry-run of the survivors keeps the invariant: what goes to the cleanup
\* is recorded in cleaned.
LEMMA ResimulateSafe ==
    ASSUME IInv, TypeOK', NEW w \in Workers, Resimulate(w)
    PROVE  IInv'
<1>1. Forward /\ UNCHANGED <<storeVars, acked>>
  BY DEF Forward, Resimulate, Go, chainVars, storeVars
<1>2. WorkerKnows(w)
  BY DEF IInv, KnowledgeIsCurrent
<1>3. WorkerKnows(w)'
  BY <1>2, MatchOfAssumption
     DEF IInv, TypeOK, WorkersTypeOK, SharedTypeOK, WorkerKnows, Resimulate, Go, 
         chainVars, storeVars, MatchesIn
<1>4. \A v \in Workers \ {w} :
         /\ pc'[v] = pc[v] /\ batch'[v] = batch[v]
         /\ live'[v] = live[v] /\ todo'[v] = todo[v]
         /\ poison'[v] = poison[v] /\ tx'[v] = tx[v]
  BY DEF IInv, TypeOK, WorkersTypeOK, Resimulate, Go
<1> QED
  BY <1>1, <1>3, <1>4, QuietStep

\* The broadcast keeps the invariant.
LEMMA SubmitSafe ==
    ASSUME IInv, TypeOK', NEW w \in Workers, Submit(w)
    PROVE  IInv'
<1>1. Forward /\ UNCHANGED <<storeVars, acked>>
  BY DEF Forward, Submit, Go, chainVars, storeVars
<1>2. WorkerKnows(w)
  BY DEF IInv, KnowledgeIsCurrent
<1>3. WorkerKnows(w)'
  BY <1>2, MatchOfAssumption
     DEF IInv, TypeOK, WorkersTypeOK, SharedTypeOK, WorkerKnows, Submit, Go, 
         chainVars, storeVars, MatchesIn
<1>4. \A v \in Workers \ {w} :
         /\ pc'[v] = pc[v] /\ batch'[v] = batch[v]
         /\ live'[v] = live[v] /\ todo'[v] = todo[v]
         /\ poison'[v] = poison[v] /\ tx'[v] = tx[v]
  BY DEF IInv, TypeOK, WorkersTypeOK, Submit, Go
<1> QED
  BY <1>1, <1>3, <1>4, QuietStep

\* A refused broadcast hands the whole batch to the cleanup.
LEMMA SubmitFatalSafe ==
    ASSUME IInv, TypeOK', NEW w \in Workers, SubmitFatal(w)
    PROVE  IInv'
<1>1. Forward /\ UNCHANGED <<storeVars, acked>>
  BY DEF Forward, SubmitFatal, Go, StartCleanup, chainVars, storeVars
<1>2. WorkerKnows(w)
  BY DEF IInv, KnowledgeIsCurrent
<1>3. WorkerKnows(w)'
  BY <1>2, MatchOfAssumption
     DEF IInv, TypeOK, WorkersTypeOK, SharedTypeOK, WorkerKnows, SubmitFatal, Go, StartCleanup, 
         chainVars, storeVars, MatchesIn
<1>4. \A v \in Workers \ {w} :
         /\ pc'[v] = pc[v] /\ batch'[v] = batch[v]
         /\ live'[v] = live[v] /\ todo'[v] = todo[v]
         /\ poison'[v] = poison[v] /\ tx'[v] = tx[v]
  BY DEF IInv, TypeOK, WorkersTypeOK, SubmitFatal, Go, StartCleanup
<1> QED
  BY <1>1, <1>3, <1>4, QuietStep

\* A receipt tells the worker that its matches are on-chain.
LEMMA ReceiptSafe ==
    ASSUME IInv, TypeOK', NEW w \in Workers, Receipt(w)
    PROVE  IInv'
<1>1. Forward /\ UNCHANGED <<storeVars, acked>>
  BY DEF Forward, Receipt, Go, chainVars, storeVars
<1>2. WorkerKnows(w)
  BY DEF IInv, KnowledgeIsCurrent
<1>3. WorkerKnows(w)'
  BY <1>2, MatchOfAssumption
     DEF IInv, TypeOK, WorkersTypeOK, SharedTypeOK, WorkerKnows, Receipt, Go, 
         chainVars, storeVars, MatchesIn
<1>4. \A v \in Workers \ {w} :
         /\ pc'[v] = pc[v] /\ batch'[v] = batch[v]
         /\ live'[v] = live[v] /\ todo'[v] = todo[v]
         /\ poison'[v] = poison[v] /\ tx'[v] = tx[v]
  BY DEF IInv, TypeOK, WorkersTypeOK, Receipt, Go
<1> QED
  BY <1>1, <1>3, <1>4, QuietStep

\* Applying events keeps the invariant.
LEMMA ApplySafe ==
    ASSUME IInv, TypeOK', NEW w \in Workers, Apply(w)
    PROVE  IInv'
<1>1. Forward /\ UNCHANGED <<storeVars, acked>>
  BY DEF Forward, Apply, Go, Continue, chainVars, storeVars
<1>2. WorkerKnows(w)
  BY DEF IInv, KnowledgeIsCurrent
<1>3. WorkerKnows(w)'
  BY <1>2, MatchOfAssumption
     DEF IInv, TypeOK, WorkersTypeOK, SharedTypeOK, WorkerKnows, Apply, Go, Continue, 
         chainVars, storeVars, MatchesIn
<1>4. \A v \in Workers \ {w} :
         /\ pc'[v] = pc[v] /\ batch'[v] = batch[v]
         /\ live'[v] = live[v] /\ todo'[v] = todo[v]
         /\ poison'[v] = poison[v] /\ tx'[v] = tx[v]
  BY DEF IInv, TypeOK, WorkersTypeOK, Apply, Go, Continue
<1> QED
  BY <1>1, <1>3, <1>4, QuietStep

\* A successful isSettled read tells the worker that a match is on-chain.
LEMMA FilterSafe ==
    ASSUME IInv, TypeOK', NEW w \in Workers, Filter(w)
    PROVE  IInv'
<1>1. Forward /\ UNCHANGED <<storeVars, acked>>
  BY DEF Forward, Filter, Go, SettledIn, chainVars, storeVars
<1>2. WorkerKnows(w)
  BY DEF IInv, KnowledgeIsCurrent
<1>3. WorkerKnows(w)'
  BY <1>2, MatchOfAssumption
     DEF IInv, TypeOK, WorkersTypeOK, SharedTypeOK, WorkerKnows, Filter, Go, SettledIn, 
         chainVars, storeVars, MatchesIn
<1>4. \A v \in Workers \ {w} :
         /\ pc'[v] = pc[v] /\ batch'[v] = batch[v]
         /\ live'[v] = live[v] /\ todo'[v] = todo[v]
         /\ poison'[v] = poison[v] /\ tx'[v] = tx[v]
  BY DEF IInv, TypeOK, WorkersTypeOK, Filter, Go, SettledIn
<1> QED
  BY <1>1, <1>3, <1>4, QuietStep

\* A mined transaction puts the matches of the worker on-chain.
LEMMA MineSafe ==
    ASSUME IInv, TypeOK', NEW w \in Workers, Mine(w)
    PROVE  IInv'
<1>1. Forward /\ UNCHANGED <<storeVars, acked>>
  BY DEF Forward, Mine, chainVars, storeVars
<1>2. WorkerKnows(w)
  BY DEF IInv, KnowledgeIsCurrent
<1>3. WorkerKnows(w)'
  BY <1>2, MatchOfAssumption
     DEF IInv, TypeOK, WorkersTypeOK, SharedTypeOK, WorkerKnows, Mine, 
         chainVars, storeVars, MatchesIn
<1>4. \A v \in Workers \ {w} :
         /\ pc'[v] = pc[v] /\ batch'[v] = batch[v]
         /\ live'[v] = live[v] /\ todo'[v] = todo[v]
         /\ poison'[v] = poison[v] /\ tx'[v] = tx[v]
  BY DEF IInv, TypeOK, WorkersTypeOK, Mine, chainVars
<1> QED
  BY <1>1, <1>3, <1>4, QuietStep

\* A crash forgets claims and makes none.
LEMMA CrashSafe ==
    ASSUME IInv, TypeOK', NEW w \in Workers, Crash(w)
    PROVE  IInv'
<1>1. Forward /\ UNCHANGED <<storeVars, acked>>
  BY DEF Forward, Crash, Forget, Go, Abandon, chainVars, storeVars
<1>2. WorkerKnows(w)
  BY DEF IInv, KnowledgeIsCurrent
<1>3. WorkerKnows(w)'
  BY <1>2, MatchOfAssumption
     DEF IInv, TypeOK, WorkersTypeOK, SharedTypeOK, WorkerKnows, Crash, Forget, Go, Abandon, 
         chainVars, storeVars, MatchesIn
<1>4. \A v \in Workers \ {w} :
         /\ pc'[v] = pc[v] /\ batch'[v] = batch[v]
         /\ live'[v] = live[v] /\ todo'[v] = todo[v]
         /\ poison'[v] = poison[v] /\ tx'[v] = tx[v]
  BY DEF IInv, TypeOK, WorkersTypeOK, Crash, Forget, Go, Abandon
<1> QED
  BY <1>1, <1>3, <1>4, QuietStep

\* So does a retry.
LEMMA RetrySafe ==
    ASSUME IInv, TypeOK', NEW w \in Workers, Retry(w)
    PROVE  IInv'
<1>1. Forward /\ UNCHANGED <<storeVars, acked>>
  BY DEF Forward, Retry, GiveUp, Forget, Go, Abandon, chainVars, storeVars
<1>2. WorkerKnows(w)
  BY DEF IInv, KnowledgeIsCurrent
<1>3. WorkerKnows(w)'
  BY <1>2, MatchOfAssumption
     DEF IInv, TypeOK, WorkersTypeOK, SharedTypeOK, WorkerKnows, Retry, GiveUp, Forget, Go, Abandon, 
         chainVars, storeVars, MatchesIn
<1>4. \A v \in Workers \ {w} :
         /\ pc'[v] = pc[v] /\ batch'[v] = batch[v]
         /\ live'[v] = live[v] /\ todo'[v] = todo[v]
         /\ poison'[v] = poison[v] /\ tx'[v] = tx[v]
  BY DEF IInv, TypeOK, WorkersTypeOK, Retry, GiveUp, Forget, Go, Abandon
<1> QED
  BY <1>1, <1>3, <1>4, QuietStep

\* Every action that ends in a retry keeps the invariant.
LEMMA RetryingSafe ==
    ASSUME IInv, TypeOK', NEW w \in Workers, Retrying(w)
    PROVE  IInv'
<1>1. Retry(w)
  BY DEF Retrying, SimulateUnknown, ProbeUnknown, ResimulateUnknown,
         SubmitUnknown, ReceiptReverted, ReceiptLost, RpcFailure, DbFailure
<1> QED
  BY <1>1, RetrySafe

\* Delivery touches nothing a worker relies on.
LEMMA DeliverSafe ==
    ASSUME IInv, TypeOK', NEW w \in Workers, NEW e \in Entries, Deliver(w, e)
    PROVE  IInv'
<1>1. Forward /\ UNCHANGED <<storeVars, acked>>
  BY DEF Forward, Deliver, chainVars, storeVars
<1>2. KnowledgeIsCurrent'
  BY <1>1, OthersKnow DEF IInv, KnowledgeIsCurrent, Deliver
<1> QED
  BY <1>1, <1>2, StoreUnchangedSafe DEF IInv

\* The chain only moves forward.
LEMMA EnvironmentSafe ==
    ASSUME IInv, TypeOK', ResolveOrphan \/ \E m \in Matches : Flip(m)
    PROVE  IInv'
<1>1. Forward /\ UNCHANGED <<storeVars, acked, workVars>>
  BY DEF Forward, ResolveOrphan, Flip, storeVars
<1>2. KnowledgeIsCurrent'
  BY <1>1, OthersKnow DEF IInv, KnowledgeIsCurrent, workVars
<1> QED
  BY <1>1, <1>2, StoreUnchangedSafe DEF IInv

-----------------------------------------------------------------------------
(* Steps that write to the database.                                       *)

\* A writeback of a match that is on-chain keeps the three properties.
LEMMA WritebackKeeps ==
    ASSUME IInv, NEW m \in Matches, m \in onchain,
           Writeback(m) \/ UNCHANGED storeVars,
           UNCHANGED <<acked, onchain, cleaned>>
    PROVE  /\ Forward
           /\ SettledOnlyIfOnChain'
           /\ ReleasedExactlyOnce'
           /\ AckedIsResolved'
<1>1. status \in [Matches -> Statuses] /\ released \in [Matches -> Nat]
  BY DEF IInv, TypeOK, StoreTypeOK
<1>2. CASE UNCHANGED storeVars
  BY <1>2, StoreUnchangedSafe DEF Forward, storeVars
<1>3. CASE Writeback(m)
  <2>1. Forward
    BY <1>1, <1>3 DEF Forward, Writeback, storeVars
  <2>2. SettledOnlyIfOnChain'
    BY <1>1, <1>3 DEF IInv, SettledOnlyIfOnChain, Writeback, storeVars
  <2>3. ReleasedExactlyOnce'
    BY <1>1, <1>3
       DEF IInv, ReleasedExactlyOnce, Writeback, ReleaseLock, storeVars
  <2>4. AckedIsResolved'
    BY <1>1, <1>3, MatchOfAssumption
       DEF IInv, TypeOK, SharedTypeOK, AckedIsResolved, Writeback, storeVars
  <2> QED
    BY <2>1, <2>2, <2>3, <2>4
<1> QED
  BY <1>2, <1>3

\* A PENDING-gated failure keeps them for any match, and resolves the match.
LEMMA FailPendingKeeps ==
    ASSUME IInv, NEW m \in Matches, FailPending(m),
           UNCHANGED <<acked, onchain, cleaned>>
    PROVE  /\ Forward
           /\ SettledOnlyIfOnChain'
           /\ ReleasedExactlyOnce'
           /\ AckedIsResolved'
           /\ status'[m] # "PENDING"
<1>1. status \in [Matches -> Statuses] /\ released \in [Matches -> Nat]
  BY DEF IInv, TypeOK, StoreTypeOK
<1>2. Forward /\ status'[m] # "PENDING"
  BY <1>1 DEF Forward, FailPending, storeVars
<1>3. SettledOnlyIfOnChain'
  BY <1>1 DEF IInv, SettledOnlyIfOnChain, FailPending, storeVars
<1>4. ReleasedExactlyOnce'
  BY <1>1 DEF IInv, ReleasedExactlyOnce, FailPending, ReleaseLock, storeVars
<1>5. AckedIsResolved'
  BY <1>1, MatchOfAssumption
     DEF IInv, TypeOK, SharedTypeOK, AckedIsResolved, FailPending, storeVars
<1> QED
  BY <1>2, <1>3, <1>4, <1>5

\* The ungated transactions keep them for matches handed to the cleanup.
LEMMA CleanupKeeps ==
    ASSUME IInv, NEW S \in SUBSET Entries, MatchesIn(S) \subseteq cleaned,
           \/ UnlockFailed(S) \/ RecordFailed(S) \/ RestoreFailed(S)
           \/ UNCHANGED storeVars,
           UNCHANGED <<acked, onchain, cleaned>>
    PROVE  /\ Forward
           /\ SettledOnlyIfOnChain'
           /\ ReleasedExactlyOnce'
           /\ AckedIsResolved'
<1>1. /\ status \in [Matches -> Statuses]
      /\ released \in [Matches -> Nat]
      /\ acked \subseteq Entries
  BY DEF IInv, TypeOK, StoreTypeOK, SharedTypeOK
<1>2. CASE UnlockFailed(S)
  BY <1>1, <1>2
     DEF IInv, Forward, SettledOnlyIfOnChain, ReleasedExactlyOnce,
         AckedIsResolved, UnlockFailed
<1>3. CASE RecordFailed(S)
  BY <1>1, <1>3, MatchOfAssumption
     DEF IInv, Forward, SettledOnlyIfOnChain, ReleasedExactlyOnce,
         AckedIsResolved, RecordFailed
<1>4. CASE RestoreFailed(S)
  BY <1>1, <1>4
     DEF IInv, Forward, SettledOnlyIfOnChain, ReleasedExactlyOnce,
         AckedIsResolved, RestoreFailed
<1>5. CASE UNCHANGED storeVars
  BY <1>5, StoreUnchangedSafe DEF Forward, storeVars
<1> QED
  BY <1>2, <1>3, <1>4, <1>5

\* The writeback of the already-settled path rests on an isSettled read.
LEMMA GhostWritebackSafe ==
    ASSUME IInv, TypeOK', NEW w \in Workers, GhostWriteback(w)
    PROVE  IInv'
<1>1. WorkerKnows(w)
  BY DEF IInv, KnowledgeIsCurrent
<1>2. PICK e \in todo[w] :
         /\ Writeback(MatchOf[e]) \/ UNCHANGED storeVars
         /\ Continue(w, e, "ghostack", batch[w] \ live[w])
  BY DEF GhostWriteback, WritebackOrSwallow
<1>3. MatchOf[e] \in Matches /\ MatchOf[e] \in onchain
  BY <1>1, MatchOfAssumption
     DEF GhostWriteback, WorkerKnows, MatchesIn, IInv, TypeOK, WorkersTypeOK
<1>4. UNCHANGED <<acked, onchain, cleaned, batch, live, poison, tx>>
  BY DEF GhostWriteback, chainVars
<1>5. /\ Forward
      /\ SettledOnlyIfOnChain'
      /\ ReleasedExactlyOnce'
      /\ AckedIsResolved'
  BY <1>2, <1>3, <1>4, WritebackKeeps
<1>6. WorkerKnows(w)'
  BY <1>1, <1>2, <1>4
     DEF GhostWriteback, WorkerKnows, Continue, Go, MatchesIn, IInv, TypeOK,
         WorkersTypeOK
<1>7. \A v \in Workers \ {w} : WorkerKnows(v)'
  BY <1>2, <1>4, <1>5, OthersKnow
     DEF IInv, TypeOK, WorkersTypeOK, KnowledgeIsCurrent, Continue, Go
<1> QED
  BY <1>5, <1>6, <1>7 DEF IInv, KnowledgeIsCurrent

\* The writeback after a receipt rests on the receipt.
LEMMA WritebackSettledSafe ==
    ASSUME IInv, TypeOK', NEW w \in Workers, WritebackSettled(w)
    PROVE  IInv'
<1>1. WorkerKnows(w)
  BY DEF IInv, KnowledgeIsCurrent
<1>2. PICK e \in todo[w] :
         /\ Writeback(MatchOf[e]) \/ UNCHANGED storeVars
         /\ Continue(w, e, "ack", live[w])
  BY DEF WritebackSettled, WritebackOrSwallow
<1>3. MatchOf[e] \in Matches /\ MatchOf[e] \in onchain
  BY <1>1, MatchOfAssumption
     DEF WritebackSettled, WorkerKnows, MatchesIn, IInv, TypeOK, WorkersTypeOK
<1>4. UNCHANGED <<acked, onchain, cleaned, batch, live, poison, tx>>
  BY DEF WritebackSettled, chainVars
<1>5. /\ Forward
      /\ SettledOnlyIfOnChain'
      /\ ReleasedExactlyOnce'
      /\ AckedIsResolved'
  BY <1>2, <1>3, <1>4, WritebackKeeps
<1>6. WorkerKnows(w)'
  BY <1>1, <1>2, <1>4
     DEF WritebackSettled, WorkerKnows, Continue, Go, MatchesIn, IInv, TypeOK,
         WorkersTypeOK
<1>7. \A v \in Workers \ {w} : WorkerKnows(v)'
  BY <1>2, <1>4, <1>5, OthersKnow
     DEF IInv, TypeOK, WorkersTypeOK, KnowledgeIsCurrent, Continue, Go
<1> QED
  BY <1>5, <1>6, <1>7 DEF IInv, KnowledgeIsCurrent

\* A quarantine resolves the row before its entry is ACKed.
LEMMA QuarantineSafe ==
    ASSUME IInv, TypeOK', NEW w \in Workers, Quarantine(w)
    PROVE  IInv'
<1>1. WorkerKnows(w)
  BY DEF IInv, KnowledgeIsCurrent
<1>2. PICK e \in todo[w] :
         FailPending(MatchOf[e]) /\ Continue(w, e, "poisonack", poison[w])
  BY DEF Quarantine
<1>3. MatchOf[e] \in Matches
  BY MatchOfAssumption DEF IInv, TypeOK, WorkersTypeOK
<1>4. UNCHANGED <<acked, onchain, cleaned, batch, live, poison, tx>>
  BY DEF Quarantine, chainVars
<1>5. /\ Forward
      /\ SettledOnlyIfOnChain'
      /\ ReleasedExactlyOnce'
      /\ AckedIsResolved'
      /\ status'[MatchOf[e]] # "PENDING"
  BY <1>2, <1>3, <1>4, FailPendingKeeps
<1>6. WorkerKnows(w)'
  <2>1. \A f \in poison[w] \ (todo[w] \ {e}) :
           status'[MatchOf[f]] # "PENDING"
    BY <1>1, <1>5, MatchOfAssumption
       DEF Quarantine, WorkerKnows, Forward, IInv, TypeOK, WorkersTypeOK
  <2> QED
    BY <1>1, <1>2, <1>4, <2>1
       DEF Quarantine, WorkerKnows, Continue, Go, MatchesIn, IInv, TypeOK,
           WorkersTypeOK
<1>7. \A v \in Workers \ {w} : WorkerKnows(v)'
  BY <1>2, <1>4, <1>5, OthersKnow
     DEF IInv, TypeOK, WorkersTypeOK, KnowledgeIsCurrent, Continue, Go
<1> QED
  BY <1>5, <1>6, <1>7 DEF IInv, KnowledgeIsCurrent

\* The cleanup transactions act on cleaned matches only.
LEMMA CleanupSafe ==
    ASSUME IInv, TypeOK', NEW w \in Workers, Unlock(w) \/ Record(w) \/ Restore(w)
    PROVE  IInv'
<1>1. WorkerKnows(w)
  BY DEF IInv, KnowledgeIsCurrent
<1>2. batch[w] \in SUBSET Entries /\ MatchesIn(batch[w]) \subseteq cleaned
  BY <1>1
     DEF Unlock, Record, Restore, WorkerKnows, IInv, TypeOK, WorkersTypeOK
<1>3. UNCHANGED <<acked, onchain, cleaned, batch, live, poison, tx>>
  BY DEF Unlock, Record, Restore, chainVars
<1>4. /\ Forward
      /\ SettledOnlyIfOnChain'
      /\ ReleasedExactlyOnce'
      /\ AckedIsResolved'
  BY <1>2, <1>3, CleanupKeeps DEF Unlock, Record, Restore, Swallow
<1>5. WorkerKnows(w)'
  BY <1>1, <1>3
     DEF Unlock, Record, Restore, WorkerKnows, Go, MatchesIn, IInv, TypeOK,
         WorkersTypeOK
<1>6. \A v \in Workers \ {w} :
         /\ pc'[v] = pc[v]
         /\ todo'[v] = todo[v]
  BY DEF Unlock, Record, Restore, Go, IInv, TypeOK, WorkersTypeOK
<1>7. \A v \in Workers \ {w} : WorkerKnows(v)'
  BY <1>3, <1>4, <1>6, OthersKnow DEF IInv, KnowledgeIsCurrent
<1> QED
  BY <1>4, <1>5, <1>7 DEF IInv, KnowledgeIsCurrent

-----------------------------------------------------------------------------
(* Steps that ACK.                                                         *)

\* An ACK of an entry whose match is resolved keeps the three properties.
LEMMA AckKeeps ==
    ASSUME IInv, NEW e \in Entries, acked' = acked \cup {e},
           \/ MatchOf[e] \in onchain
           \/ status[MatchOf[e]] # "PENDING"
           \/ MatchOf[e] \in cleaned,
           UNCHANGED <<storeVars, onchain>>, cleaned \subseteq cleaned'
    PROVE  /\ Forward
           /\ SettledOnlyIfOnChain'
           /\ ReleasedExactlyOnce'
           /\ AckedIsResolved'
<1>1. status[MatchOf[e]] \in Statuses
  BY MatchOfAssumption DEF IInv, TypeOK, StoreTypeOK
<1>2. \/ MatchOf[e] \in onchain
      \/ status[MatchOf[e]] = "FAILED"
      \/ MatchOf[e] \in cleaned
  BY <1>1, MatchOfAssumption DEF IInv, SettledOnlyIfOnChain, Statuses
<1>3. Forward /\ SettledOnlyIfOnChain' /\ ReleasedExactlyOnce'
  BY DEF IInv, Forward, SettledOnlyIfOnChain, ReleasedExactlyOnce, storeVars
<1>4. AckedIsResolved'
  BY <1>2 DEF IInv, AckedIsResolved, storeVars
<1> QED
  BY <1>3, <1>4

\* A worker that has forgotten its batch claims nothing.
LEMMA ForgottenKnows ==
    ASSUME TypeOK, NEW w \in Workers, Forget(w)
    PROVE  WorkerKnows(w)'
BY DEF TypeOK, WorkersTypeOK, WorkerKnows, Forget, Go

\* A Redis error, also one whose XACK was done: the entry is resolved, as it
\* would be if Redis had answered.
LEMMA RedisFailureSafe ==
    ASSUME IInv, TypeOK', NEW w \in Workers, RedisFailure(w)
    PROVE  IInv'
<1>1. CASE acked' = acked
  BY <1>1, RetrySafe DEF RedisFailure, Retry
<1>2. ASSUME NEW e \in todo[w], acked' = acked \cup {e}
      PROVE  IInv'
  <2>1. e \in Entries
    BY DEF IInv, TypeOK, WorkersTypeOK
  <2>2. pc[w] \in {"ghostack", "poisonack", "ack", "cleanack"}
    BY DEF RedisFailure
  <2>3. WorkerKnows(w)
    BY DEF IInv, KnowledgeIsCurrent
  <2>4. \/ MatchOf[e] \in onchain
        \/ status[MatchOf[e]] # "PENDING"
        \/ MatchOf[e] \in cleaned
    BY <2>2, <2>3 DEF WorkerKnows, MatchesIn
  <2>5. GiveUp(w) /\ Forget(w)
    BY DEF RedisFailure, GiveUp
  <2>6. /\ Forward
        /\ SettledOnlyIfOnChain'
        /\ ReleasedExactlyOnce'
        /\ AckedIsResolved'
    BY <1>2, <2>1, <2>4, <2>5, AckKeeps DEF GiveUp
  <2>7. WorkerKnows(w)'
    BY <2>5, ForgottenKnows DEF IInv
  <2>8. \A v \in Workers \ {w} :
           /\ pc'[v] = pc[v] /\ batch'[v] = batch[v]
           /\ live'[v] = live[v] /\ todo'[v] = todo[v]
           /\ poison'[v] = poison[v] /\ tx'[v] = tx[v]
    BY <2>5 DEF Forget, Go, IInv, TypeOK, WorkersTypeOK
  <2>9. \A v \in Workers \ {w} : WorkerKnows(v)'
    BY <2>6, <2>8, OthersKnow DEF IInv, KnowledgeIsCurrent
  <2> QED
    BY <2>6, <2>7, <2>9 DEF IInv, KnowledgeIsCurrent
<1> QED
  BY <1>1, <1>2 DEF RedisFailure

\* The ACK of an already settled entry: its match is on-chain.
LEMMA GhostAckSafe ==
    ASSUME IInv, TypeOK', NEW w \in Workers, GhostAck(w)
    PROVE  IInv'
<1>1. WorkerKnows(w)
  BY DEF IInv, KnowledgeIsCurrent
<1>2. PICK e \in todo[w] :
         /\ acked' = acked \cup {e}
         /\ \/ Forget(w)
            \/ /\ Continue(w, e, "simulate", {})
               /\ UNCHANGED <<batch, live, poison, clean, tx>>
  BY DEF GhostAck
<1>3. e \in Entries /\ MatchOf[e] \in onchain
  BY <1>1 DEF GhostAck, WorkerKnows, MatchesIn, IInv, TypeOK, WorkersTypeOK
<1>4. UNCHANGED <<storeVars, onchain, cleaned>>
  BY DEF GhostAck, chainVars
<1>5. /\ Forward
      /\ SettledOnlyIfOnChain'
      /\ ReleasedExactlyOnce'
      /\ AckedIsResolved'
  BY <1>2, <1>3, <1>4, AckKeeps
<1>6. WorkerKnows(w)'
  <2>1. CASE Forget(w)
    BY <2>1, ForgottenKnows DEF IInv
  <2>2. CASE /\ Continue(w, e, "simulate", {})
             /\ UNCHANGED <<batch, live, poison, clean, tx>>
    BY <1>1, <1>4, <2>2
       DEF GhostAck, WorkerKnows, Continue, Go, MatchesIn, IInv, TypeOK,
           WorkersTypeOK
  <2> QED
    BY <1>2, <2>1, <2>2
<1>7. \A v \in Workers \ {w} :
         /\ pc'[v] = pc[v] /\ batch'[v] = batch[v]
         /\ live'[v] = live[v] /\ todo'[v] = todo[v]
         /\ poison'[v] = poison[v] /\ tx'[v] = tx[v]
  BY <1>2 DEF Continue, Forget, Go, IInv, TypeOK, WorkersTypeOK
<1>8. \A v \in Workers \ {w} : WorkerKnows(v)'
  BY <1>5, <1>7, OthersKnow DEF IInv, KnowledgeIsCurrent
<1> QED
  BY <1>5, <1>6, <1>8 DEF IInv, KnowledgeIsCurrent

\* The ACK after a settlement: the match is on-chain.
LEMMA AckSafe ==
    ASSUME IInv, TypeOK', NEW w \in Workers, Ack(w)
    PROVE  IInv'
<1>1. WorkerKnows(w)
  BY DEF IInv, KnowledgeIsCurrent
<1>2. PICK e \in todo[w] :
         /\ acked' = acked \cup {e}
         /\ \/ Forget(w)
            \/ /\ todo[w] # {e}
               /\ Continue(w, e, "idle", {})
               /\ UNCHANGED <<batch, live, poison, clean, tx>>
  BY DEF Ack
<1>3. e \in Entries /\ MatchOf[e] \in onchain
  BY <1>1 DEF Ack, WorkerKnows, MatchesIn, IInv, TypeOK, WorkersTypeOK
<1>4. UNCHANGED <<storeVars, onchain, cleaned>>
  BY DEF Ack, chainVars
<1>5. /\ Forward
      /\ SettledOnlyIfOnChain'
      /\ ReleasedExactlyOnce'
      /\ AckedIsResolved'
  BY <1>2, <1>3, <1>4, AckKeeps
<1>6. WorkerKnows(w)'
  <2>1. CASE Forget(w)
    BY <2>1, ForgottenKnows DEF IInv
  <2>2. CASE /\ todo[w] # {e}
             /\ Continue(w, e, "idle", {})
             /\ UNCHANGED <<batch, live, poison, clean, tx>>
    BY <1>1, <1>4, <2>2
       DEF Ack, WorkerKnows, Continue, Go, MatchesIn, IInv, TypeOK,
           WorkersTypeOK
  <2> QED
    BY <1>2, <2>1, <2>2
<1>7. \A v \in Workers \ {w} :
         /\ pc'[v] = pc[v] /\ batch'[v] = batch[v]
         /\ live'[v] = live[v] /\ todo'[v] = todo[v]
         /\ poison'[v] = poison[v] /\ tx'[v] = tx[v]
  BY <1>2 DEF Continue, Forget, Go, IInv, TypeOK, WorkersTypeOK
<1>8. \A v \in Workers \ {w} : WorkerKnows(v)'
  BY <1>5, <1>7, OthersKnow DEF IInv, KnowledgeIsCurrent
<1> QED
  BY <1>5, <1>6, <1>8 DEF IInv, KnowledgeIsCurrent

\* The ACK of the cleanup: the match is cleaned.
LEMMA CleanupAckSafe ==
    ASSUME IInv, TypeOK', NEW w \in Workers, CleanupAck(w)
    PROVE  IInv'
<1>1. WorkerKnows(w)
  BY DEF IInv, KnowledgeIsCurrent
<1>2. PICK e \in todo[w] :
         /\ acked' = acked \cup {e}
         /\ \/ Forget(w)
            \/ /\ Continue(w, e, "idle", {})
               /\ UNCHANGED <<batch, live, poison, clean, tx>>
  BY DEF CleanupAck
<1>3. e \in Entries /\ MatchOf[e] \in cleaned
  BY <1>1 DEF CleanupAck, WorkerKnows, MatchesIn, IInv, TypeOK, WorkersTypeOK
<1>4. UNCHANGED <<storeVars, onchain, cleaned>>
  BY DEF CleanupAck, chainVars
<1>5. /\ Forward
      /\ SettledOnlyIfOnChain'
      /\ ReleasedExactlyOnce'
      /\ AckedIsResolved'
  BY <1>2, <1>3, <1>4, AckKeeps
<1>6. WorkerKnows(w)'
  <2>1. CASE Forget(w)
    BY <2>1, ForgottenKnows DEF IInv
  <2>2. CASE /\ Continue(w, e, "idle", {})
             /\ UNCHANGED <<batch, live, poison, clean, tx>>
    BY <1>1, <1>4, <2>2
       DEF CleanupAck, WorkerKnows, Continue, Go, MatchesIn, IInv, TypeOK,
           WorkersTypeOK
  <2> QED
    BY <1>2, <2>1, <2>2
<1>7. \A v \in Workers \ {w} :
         /\ pc'[v] = pc[v] /\ batch'[v] = batch[v]
         /\ live'[v] = live[v] /\ todo'[v] = todo[v]
         /\ poison'[v] = poison[v] /\ tx'[v] = tx[v]
  BY <1>2 DEF Continue, Forget, Go, IInv, TypeOK, WorkersTypeOK
<1>8. \A v \in Workers \ {w} : WorkerKnows(v)'
  BY <1>5, <1>7, OthersKnow DEF IInv, KnowledgeIsCurrent
<1> QED
  BY <1>5, <1>6, <1>8 DEF IInv, KnowledgeIsCurrent

\* The ACK of a poison entry: its row has left PENDING.
LEMMA PoisonAckSafe ==
    ASSUME IInv, TypeOK', NEW w \in Workers, PoisonAck(w)
    PROVE  IInv'
<1>1. WorkerKnows(w)
  BY DEF IInv, KnowledgeIsCurrent
<1>2. PICK e \in todo[w] :
         /\ acked' = acked \cup {e}
         /\ \/ /\ todo' = [todo EXCEPT ![w] = @ \ {e}]
               /\ UNCHANGED <<pc, batch, live, poison, clean, tx, cleaned>>
            \/ StartCleanup(w)
            \/ Forget(w) /\ UNCHANGED cleaned
            \/ /\ Go(w, "submit")
               /\ live' = [live EXCEPT ![w] = Survivors(w)]
               /\ todo' = [todo EXCEPT ![w] = {}]
               /\ UNCHANGED <<batch, poison, clean, tx, cleaned>>
  BY DEF PoisonAck
<1>3. e \in Entries /\ status[MatchOf[e]] # "PENDING"
  BY <1>1 DEF PoisonAck, WorkerKnows, IInv, TypeOK, WorkersTypeOK
<1>4. UNCHANGED <<storeVars, onchain>> /\ cleaned \subseteq cleaned'
  BY <1>2 DEF PoisonAck, chainVars, StartCleanup
<1>5. /\ Forward
      /\ SettledOnlyIfOnChain'
      /\ ReleasedExactlyOnce'
      /\ AckedIsResolved'
  BY <1>2, <1>3, <1>4, AckKeeps
<1>6. WorkerKnows(w)'
  <2>1. CASE Forget(w)
    BY <2>1, ForgottenKnows DEF IInv
  <2>2. pc[w] = "poisonack" /\ tx[w] = "none"
    BY <1>1 DEF PoisonAck, WorkerKnows, IInv, TypeOK, WorkersTypeOK
  <2>3. CASE /\ todo' = [todo EXCEPT ![w] = @ \ {e}]
             /\ UNCHANGED <<pc, batch, live, poison, clean, tx, cleaned>>
    BY <1>1, <1>4, <2>2, <2>3
       DEF WorkerKnows, IInv, TypeOK, WorkersTypeOK, storeVars
  <2>4. CASE StartCleanup(w)
    BY <2>2, <2>4
       DEF WorkerKnows, StartCleanup, Go, MatchesIn, IInv, TypeOK,
           WorkersTypeOK
  <2>5. CASE /\ Go(w, "submit")
             /\ UNCHANGED <<batch, poison, clean, tx, cleaned>>
    BY <2>2, <2>5 DEF WorkerKnows, Go, IInv, TypeOK, WorkersTypeOK
  <2> QED
    BY <1>2, <2>1, <2>3, <2>4, <2>5
<1>7. \A v \in Workers \ {w} :
         /\ pc'[v] = pc[v] /\ batch'[v] = batch[v]
         /\ live'[v] = live[v] /\ todo'[v] = todo[v]
         /\ poison'[v] = poison[v] /\ tx'[v] = tx[v]
  BY <1>2 DEF StartCleanup, Forget, Go, IInv, TypeOK, WorkersTypeOK
<1>8. \A v \in Workers \ {w} : WorkerKnows(v)'
  BY <1>5, <1>7, OthersKnow DEF IInv, KnowledgeIsCurrent
<1> QED
  BY <1>5, <1>6, <1>8 DEF IInv, KnowledgeIsCurrent

-----------------------------------------------------------------------------
(* The invariant and what follows from it.                                 *)

\* The initial state satisfies the invariant.
LEMMA InitSafe ==
    ASSUME Init
    PROVE  IInv
<1>1. TypeOK
  BY InitType
<1>2. SettledOnlyIfOnChain /\ ReleasedExactlyOnce /\ AckedIsResolved
  BY DEF Init, StoreInit, PipeInit, SettledOnlyIfOnChain,
         ReleasedExactlyOnce, AckedIsResolved
<1>3. KnowledgeIsCurrent
  BY DEF Init, PipeInit, KnowledgeIsCurrent, WorkerKnows
<1> QED
  BY <1>1, <1>2, <1>3 DEF IInv

\* Every step keeps the invariant.
LEMMA NextSafe ==
    ASSUME IInv, [Next]_vars
    PROVE  IInv'
<1>1. TypeOK'
  BY NextType DEF IInv
<1>2. CASE UNCHANGED vars
  <2>1. Forward /\ UNCHANGED <<storeVars, acked, workVars>>
    BY <1>2 DEF Forward, vars, pipeVars, chainVars, storeVars
  <2>2. KnowledgeIsCurrent'
    BY <2>1, OthersKnow DEF IInv, KnowledgeIsCurrent, workVars
  <2> QED
    BY <1>1, <2>1, <2>2, StoreUnchangedSafe DEF IInv
<1>3. ASSUME NEW w \in Workers, WorkerStep(w)
      PROVE  IInv'
  BY <1>1, <1>3, StartBatchSafe, FilterSafe, GhostWritebackSafe,
     GhostAckSafe, SimulateSafe, ProbeSafe, ResimulateSafe, QuarantineSafe,
     PoisonAckSafe, SubmitSafe, SubmitFatalSafe, ReceiptSafe, ApplySafe,
     WritebackSettledSafe, AckSafe, CleanupSafe, CleanupAckSafe,
     RetryingSafe DEF WorkerStep, Retrying
<1>4. ASSUME NEW w \in Workers, Failure(w)
      PROVE  IInv'
  BY <1>1, <1>4, CrashSafe, RetryingSafe, RedisFailureSafe
     DEF Failure, Retrying
<1>5. ASSUME NEW w \in Workers, Mine(w)
      PROVE  IInv'
  BY <1>1, <1>5, MineSafe
<1>6. ASSUME NEW w \in Workers, NEW e \in Entries, Deliver(w, e)
      PROVE  IInv'
  BY <1>1, <1>6, DeliverSafe
<1>7. ASSUME ResolveOrphan \/ \E m \in Matches : Flip(m)
      PROVE  IInv'
  BY <1>1, <1>7, EnvironmentSafe
<1> QED
  BY <1>2, <1>3, <1>4, <1>5, <1>6, <1>7 DEF Next, Quiet

\* IInv is an inductive invariant of the pipeline.
THEOREM Invariance == Spec => []IInv
<1>1. Init => IInv
  BY InitSafe
<1>2. IInv /\ [Next]_vars => IInv'
  BY NextSafe
<1> QED
  BY <1>1, <1>2, PTL DEF Spec

\* The database never shows SETTLED for a match that is not final on-chain.
THEOREM SettledImpliesOnChain == Spec => []SettledOnlyIfOnChain
<1>1. IInv => SettledOnlyIfOnChain
  BY DEF IInv
<1> QED
  BY <1>1, Invariance, PTL

\* A lock is released exactly when its match leaves PENDING, whatever is
\* redelivered, retried, raced or crashed, unless a batch cleanup took it.
THEOREM LockReleasedExactlyOnce == Spec => []ReleasedExactlyOnce
<1>1. IInv => ReleasedExactlyOnce
  BY DEF IInv
<1> QED
  BY <1>1, Invariance, PTL

\* No entry is dropped from the stream before its match is resolved.
THEOREM NoMatchIsLost == Spec => []AckedIsResolved
<1>1. IInv => AckedIsResolved
  BY DEF IInv
<1> QED
  BY <1>1, Invariance, PTL

-----------------------------------------------------------------------------
(* The cleanup unlocks before it records.                                  *)

\* A FAILED match has been unlocked, and so has what a cleanup is to record.
UnlockInv ==
    /\ FailedMatchIsUnlocked
    /\ \A w \in Workers : pc[w] = "record" =>
          \A m \in MatchesIn(batch[w]) : released[m] > 0

\* No worker comes to "record" in this step.
NoneRecords ==
    \A w \in Workers : pc'[w] = "record" =>
        pc[w] = "record" /\ batch'[w] = batch[w]

\* A step that leaves the rows alone and brings nobody to "record" keeps it.
LEMMA RowsKept ==
    ASSUME UnlockInv, NoneRecords, UNCHANGED storeVars
    PROVE  UnlockInv'
BY DEF UnlockInv, NoneRecords, FailedMatchIsUnlocked, MatchesIn, storeVars

\* ... and so does one that releases the locks of what it fails.
LEMMA RowReleased ==
    ASSUME TypeOK, UnlockInv, NoneRecords, NEW m \in Matches,
           Writeback(m) \/ FailPending(m)
    PROVE  UnlockInv'
<1>1. status \in [Matches -> Statuses] /\ released \in [Matches -> Nat]
  BY DEF TypeOK, StoreTypeOK
<1>2. \A w \in Workers : MatchesIn(batch[w]) \subseteq Matches
  BY MatchesInType DEF TypeOK, WorkersTypeOK
<1>3. \A n \in Matches : released'[n] >= released[n]
  BY <1>1 DEF Writeback, FailPending, ReleaseLock, storeVars
<1>4. \A n \in Matches : status'[n] = "FAILED" =>
         status[n] = "FAILED" \/ released'[n] > 0
  BY <1>1 DEF Writeback, FailPending, ReleaseLock, storeVars
<1>5. \A n \in Matches : released[n] \in Nat /\ released'[n] \in Int
  BY <1>1 DEF Writeback, FailPending, ReleaseLock, storeVars
<1>6. FailedMatchIsUnlocked'
  BY <1>3, <1>4, <1>5 DEF UnlockInv, FailedMatchIsUnlocked
<1>7. ASSUME NEW w \in Workers, pc'[w] = "record",
             NEW n \in MatchesIn(batch'[w])
      PROVE  released'[n] > 0
  <2>1. n \in MatchesIn(batch[w]) /\ pc[w] = "record"
    BY <1>7 DEF NoneRecords, MatchesIn
  <2>2. released[n] > 0 /\ n \in Matches
    BY <2>1, <1>2 DEF UnlockInv
  <2> QED
    BY <2>2, <1>3, <1>5
<1>8. \A w \in Workers : pc'[w] = "record" =>
         \A n \in MatchesIn(batch'[w]) : released'[n] > 0
  BY <1>7
<1> QED
  BY <1>6, <1>8 DEF UnlockInv, MatchesIn

\* The steps of the cleanup: unlock, then record what was unlocked.
LEMMA CleanupUnlocks ==
    ASSUME TypeOK, UnlockInv, "db" \notin FaultKinds, NEW w \in Workers,
           Unlock(w) \/ Record(w) \/ Restore(w)
    PROVE  UnlockInv'
<1>1. /\ status \in [Matches -> Statuses]
      /\ released \in [Matches -> Nat]
      /\ pc \in [Workers -> PCs]
      /\ batch \in [Workers -> SUBSET Entries]
  BY DEF TypeOK, StoreTypeOK, WorkersTypeOK
<1>2. \A v \in Workers : MatchesIn(batch[v]) \subseteq Matches
  BY <1>1, MatchesInType
<1>3. CASE Unlock(w)
  <2>1. /\ UnlockFailed(batch[w])
        /\ pc' = [pc EXCEPT ![w] = "record"] /\ UNCHANGED batch
    BY <1>3 DEF Unlock, Swallow, Fault, Go
  <2>2. \A n \in MatchesIn(batch[w]) : Copies(batch[w], n) \in Nat \ {0}
    <3> SUFFICES ASSUME NEW n \in MatchesIn(batch[w])
                 PROVE  Copies(batch[w], n) \in Nat \ {0}
      OBVIOUS
    <3>1. batch[w] \in SUBSET Entries /\ n \in Matches
      BY <1>1, <1>2
    <3>2. {e \in batch[w] : MatchOf[e] = n} # {}
      BY DEF MatchesIn
    <3>3. IsFiniteSet({e \in batch[w] : MatchOf[e] = n})
      BY <3>1, EntriesAssumption, FS_Subset
    <3> QED
      BY <3>1, <3>2, <3>3, CopiesType, FS_EmptySet DEF Copies
  <2>3. \A n \in Matches : /\ released'[n] >= released[n]
                           /\ released'[n] \in Nat
    BY <1>1, <2>1, <2>2 DEF UnlockFailed
  <2>4. \A n \in MatchesIn(batch[w]) : released'[n] > 0
    BY <1>1, <1>2, <2>1, <2>2 DEF UnlockFailed
  <2>5. UNCHANGED status
    BY <2>1 DEF UnlockFailed
  <2>6. FailedMatchIsUnlocked'
    BY <1>1, <2>3, <2>5 DEF UnlockInv, FailedMatchIsUnlocked
  <2>7. ASSUME NEW v \in Workers, pc'[v] = "record",
               NEW n \in MatchesIn(batch[v])
        PROVE  released'[n] > 0
    <3>1. CASE v = w
      BY <3>1, <2>4, <2>7
    <3>2. CASE v # w
      <4>1. released[n] > 0 /\ n \in Matches
        BY <1>1, <1>2, <2>1, <2>7, <3>2 DEF UnlockInv
      <4> QED
        BY <1>1, <4>1, <2>3
    <3> QED
      BY <3>1, <3>2
  <2> QED
    BY <2>1, <2>6, <2>7 DEF UnlockInv, MatchesIn
<1>4. CASE Record(w)
  <2>1. /\ RecordFailed(batch[w]) /\ pc[w] = "record"
        /\ pc' = [pc EXCEPT ![w] = "restore"] /\ UNCHANGED batch
    BY <1>4 DEF Record, Swallow, Fault, Go
  <2>2. \A n \in MatchesIn(batch[w]) : released[n] > 0
    BY <2>1 DEF UnlockInv
  <2> QED
    BY <1>1, <2>1, <2>2
       DEF UnlockInv, FailedMatchIsUnlocked, RecordFailed, MatchesIn
<1>5. CASE Restore(w)
  <2>1. UNCHANGED <<status, released, batch>>
    BY <1>5 DEF Restore, Swallow, RestoreFailed, storeVars
  <2>2. pc' = [pc EXCEPT ![w] = "cleanack"]
    BY <1>5 DEF Restore, Go
  <2> QED
    BY <1>1, <2>1, <2>2 DEF UnlockInv, FailedMatchIsUnlocked, MatchesIn
<1> QED
  BY <1>3, <1>4, <1>5

\* Steps that leave the rows alone: none of them leads to "record".
LEMMA RowsAlone ==
    ASSUME TypeOK, UnlockInv, NEW w \in Workers,
           \/ StartBatch(w) \/ Filter(w) \/ GhostAck(w) \/ Simulate(w)
           \/ Probe(w) \/ Resimulate(w) \/ PoisonAck(w) \/ Submit(w)
           \/ SubmitFatal(w) \/ Receipt(w) \/ Apply(w) \/ Ack(w)
           \/ CleanupAck(w) \/ Retrying(w) \/ RedisFailure(w) \/ Crash(w)
    PROVE  UnlockInv'
<1>1. pc \in [Workers -> PCs] /\ batch \in [Workers -> SUBSET Entries]
  BY DEF TypeOK, WorkersTypeOK
<1>2. CASE StartBatch(w) \/ Filter(w) \/ Simulate(w) \/ Probe(w)
  BY <1>1, <1>2, RowsKept
     DEF StartBatch, Filter, Simulate, Probe, Continue, Go, NoneRecords
<1>3. CASE Resimulate(w) \/ Submit(w) \/ SubmitFatal(w) \/ Receipt(w)
  BY <1>1, <1>3, RowsKept
     DEF Resimulate, Submit, SubmitFatal, StartCleanup, Receipt, Go,
         NoneRecords
<1>4. CASE GhostAck(w) \/ PoisonAck(w)
  BY <1>1, <1>4, RowsKept
     DEF GhostAck, PoisonAck, StartCleanup, Forget, Continue, Go, NoneRecords
<1>5. CASE Apply(w) \/ Ack(w) \/ CleanupAck(w)
  BY <1>1, <1>5, RowsKept
     DEF Apply, Ack, CleanupAck, Forget, Continue, Go, NoneRecords
<1>6. CASE Retrying(w) \/ RedisFailure(w) \/ Crash(w)
  <2>1. /\ pc' = [pc EXCEPT ![w] = "idle"]
        /\ batch' = [batch EXCEPT ![w] = {}]
        /\ UNCHANGED storeVars
    BY <1>6
       DEF Retrying, SimulateUnknown, ProbeUnknown, ResimulateUnknown,
           SubmitUnknown, ReceiptReverted, ReceiptLost, RpcFailure, DbFailure,
           RedisFailure, Crash, Retry, GiveUp, Forget, Go
  <2> QED
    BY <1>1, <2>1, RowsKept DEF NoneRecords
<1> QED
  BY <1>2, <1>3, <1>4, <1>5, <1>6

\* Every step keeps UnlockInv where no transaction is rolled back.
LEMMA NextUnlocks ==
    ASSUME TypeOK, UnlockInv, "db" \notin FaultKinds, [Next]_vars
    PROVE  UnlockInv'
<1>1. pc \in [Workers -> PCs] /\ batch \in [Workers -> SUBSET Entries]
  BY DEF TypeOK, WorkersTypeOK
<1>2. ASSUME NEW w \in Workers, GhostWriteback(w) \/ WritebackSettled(w)
      PROVE  UnlockInv'
  <2>1. NoneRecords
    BY <1>1, <1>2
       DEF GhostWriteback, WritebackSettled, Continue, Go, NoneRecords
  <2>2. \E e \in todo[w] : Writeback(MatchOf[e])
    BY <1>2 DEF GhostWriteback, WritebackSettled, WritebackOrSwallow, Fault
  <2>3. todo[w] \subseteq Entries
    BY DEF TypeOK, WorkersTypeOK
  <2> QED
    BY <2>1, <2>2, <2>3, MatchOfAssumption, RowReleased
<1>3. ASSUME NEW w \in Workers, Quarantine(w)
      PROVE  UnlockInv'
  <2>1. NoneRecords
    BY <1>1, <1>3 DEF Quarantine, Continue, Go, NoneRecords
  <2>2. \E e \in todo[w] : FailPending(MatchOf[e])
    BY <1>3 DEF Quarantine
  <2>3. todo[w] \subseteq Entries
    BY DEF TypeOK, WorkersTypeOK
  <2> QED
    BY <2>1, <2>2, <2>3, MatchOfAssumption, RowReleased
<1>4. ASSUME NEW w \in Workers, WorkerStep(w)
      PROVE  UnlockInv'
  BY <1>2, <1>3, <1>4, CleanupUnlocks, RowsAlone DEF WorkerStep, Retrying
<1>5. ASSUME NEW w \in Workers, Failure(w)
      PROVE  UnlockInv'
  BY <1>5, RowsAlone DEF Failure, Retrying
<1>6. ASSUME \/ \E w \in Workers : Mine(w)
             \/ \E w \in Workers, e \in Entries : Deliver(w, e)
             \/ ResolveOrphan
             \/ \E m \in Matches : Flip(m)
             \/ UNCHANGED vars
      PROVE  UnlockInv'
  BY <1>6, RowsKept
     DEF Mine, Deliver, ResolveOrphan, Flip, NoneRecords, workVars, vars,
         pipeVars
<1> QED
  BY <1>4, <1>5, <1>6 DEF Next, Quiet

\* No lock is stuck behind a FAILED row: whatever is redelivered, retried,
\* raced or crashed, a match that is FAILED has been unlocked, where the
\* database commits what it is given.
THEOREM FailedIsUnlocked ==
    "db" \notin FaultKinds => (Spec => []FailedMatchIsUnlocked)
<1> SUFFICES ASSUME "db" \notin FaultKinds
             PROVE  Spec => []FailedMatchIsUnlocked
  OBVIOUS
<1>1. Init => UnlockInv
  BY DEF Init, StoreInit, PipeInit, UnlockInv, FailedMatchIsUnlocked
<1>2. TypeOK /\ UnlockInv /\ [Next]_vars => UnlockInv'
  BY NextUnlocks
<1>3. UnlockInv => FailedMatchIsUnlocked
  BY DEF UnlockInv
<1> QED
  BY <1>1, <1>2, <1>3, TypeCorrect, PTL DEF Spec

\* What a worker read before an await still holds when it acts on it.
THEOREM NoStaleKnowledge == Spec => []KnowledgeIsCurrent
<1>1. IInv => KnowledgeIsCurrent
  BY DEF IInv
<1> QED
  BY <1>1, Invariance, PTL
-----------------------------------------------------------------------------
(* Poison isolation.  One engine; matches that come once, do not conflict  *)
(* and keep their validity; isSettled reads that do not fail, receipts     *)
(* that arrive and processes that do not die: then a dry-run that reverts  *)
(* says that a match is invalid, and not that it has settled meanwhile.    *)
(* RPC, database and Redis failures may be as many as they like.           *)

Isolated ==
    /\ \E w : Workers = {w}
    /\ \A e, f \in Entries : MatchOf[e] = MatchOf[f] => e = f
    /\ Conflicts = {}
    /\ MaxFlips = 0
    /\ FaultKinds \cap {"read", "receipt", "crash", "gas"} = {}

Cleanup == {"unlock", "record", "restore", "cleanack"}

Valid(e) == kind[MatchOf[e]] = "ok"

\* Where what the engine submits next is not on the chain yet.
Unsent(w) ==
    \/ pc[w] \in {"ghostwb", "ghostack", "simulate", "isolate", "resimulate",
                  "quarantine", "poisonack", "submit"}
    \/ pc[w] = "receipt" /\ tx[w] = "pending"

\* What an engine has found out, and what it therefore never comes to: the
\* dry-run of survivors that fails, and the cleanup.
Isolates(w) ==
    /\ clean[w] /\ pc[w] \notin Cleanup
    /\ \A e \in poison[w] : kind[MatchOf[e]] = "invalid"
    /\ Unsent(w) => \A e \in live[w] : MatchOf[e] \notin onchain
    /\ pc[w] = "isolate" =>
          /\ todo[w] \subseteq live[w]
          /\ \A e \in Survivors(w) \ todo[w] : Valid(e)
    /\ pc[w] \in {"resimulate", "quarantine", "poisonack"} =>
          \A e \in Survivors(w) : Valid(e)
    /\ pc[w] = "submit" => \A e \in live[w] : Valid(e)

NothingGivenUp == cleaned = {} /\ orphans = {}

IsolationInv ==
    /\ ValidMatchNeverFails
    /\ NothingGivenUp
    /\ \A w \in Workers : Isolates(w)

\* A dry-run of matches that are not on the chain tells valid from invalid.
LEMMA DryRunTells ==
    ASSUME Isolated, TypeOK, NEW S \in SUBSET Entries,
           \A e \in S : MatchOf[e] \notin onchain
    PROVE  /\ Settles(S) => \A e \in S : Valid(e)
           /\ "fatal" \in Errors(S) =>
                 \E e \in S : kind[MatchOf[e]] = "invalid"
<1>1. ~ Collides(S)
  BY DEF Isolated, Collides
<1>2. \A e \in S : MatchOf[e] \in MatchesIn(S) /\ MatchOf[e] \in Matches
  BY MatchOfAssumption DEF MatchesIn
<1>3. \A m \in MatchesIn(S) : \E e \in S : m = MatchOf[e]
  BY DEF MatchesIn
<1>4. \A m \in Matches : kind[m] \in {"ok", "invalid", "opaque"}
  BY KindsAssumption DEF TypeOK, SharedTypeOK, AllKinds
<1>5. ASSUME Settles(S), NEW e \in S
      PROVE  Valid(e)
  <2>1. "fatal" \notin Errors(S) /\ "unknown" \notin Errors(S)
    BY <1>5 DEF Settles
  <2>2. kind[MatchOf[e]] # "invalid" /\ kind[MatchOf[e]] # "opaque"
    BY <1>2, <2>1 DEF Errors
  <2> QED
    BY <1>2, <1>4, <2>2 DEF Valid
<1>6. ASSUME "fatal" \in Errors(S)
      PROVE  \E e \in S : kind[MatchOf[e]] = "invalid"
  <2>1. \E m \in MatchesIn(S) : m \in onchain \/ kind[m] = "invalid"
    BY <1>1, <1>6 DEF Errors
  <2> QED
    BY <1>3, <2>1
<1> QED
  BY <1>5, <1>6

\* There is one engine, and no failure but of RPC, database and Redis.
LEMMA OneEngine ==
    ASSUME Isolated, NEW w \in Workers
    PROVE  /\ Workers = {w}
           /\ \A k \in {"read", "receipt", "crash", "gas"} : ~ Fault(k)
BY DEF Isolated, Fault

\* Steps of the engine that change no row.
LEMMA RowsUnchanged ==
    ASSUME IsolationInv, UNCHANGED <<storeVars, kind>>
    PROVE  ValidMatchNeverFails'
BY DEF IsolationInv, ValidMatchNeverFails, storeVars

\* A batch begins without poison, and what Filter leaves is not settled.
LEMMA StartIsolates ==
    ASSUME Isolated, IInv, IsolationInv, NEW w \in Workers,
           StartBatch(w) \/ Filter(w)
    PROVE  IsolationInv'
<1>1. ValidMatchNeverFails' /\ NothingGivenUp'
  BY RowsUnchanged
     DEF IsolationInv, NothingGivenUp, StartBatch, Filter, chainVars
<1>2. Isolates(w)
  BY DEF IsolationInv
<1>3. TypeOK /\ MatchOf \in [Entries -> Matches]
  BY MatchOfAssumption DEF IInv
<1>4. CASE StartBatch(w)
  <2>1. Isolates(w)'
    BY <1>2, <1>3, <1>4
       DEF Isolates, Unsent, Cleanup, Survivors, Valid, StartBatch, Go, TypeOK,
           WorkersTypeOK, chainVars
  <2> QED
    BY <1>1, <2>1, OneEngine DEF IsolationInv
<1>5. CASE Filter(w)
  <2>1. live'[w] = batch[w] \ SettledIn(batch[w])
    BY <1>3, <1>5, OneEngine DEF Filter, TypeOK, WorkersTypeOK
  <2>2. \A e \in live'[w] : MatchOf[e] \notin onchain
    BY <2>1 DEF SettledIn
  <2>3. pc'[w] \in {"ghostwb", "simulate"}
    BY <1>3, <1>5 DEF Filter, Go, TypeOK, WorkersTypeOK
  <2>4. UNCHANGED <<clean, poison, chainVars>>
    BY <1>5 DEF Filter
  <2>5. Isolates(w)'
    BY <1>2, <2>2, <2>3, <2>4 DEF Isolates, Cleanup, chainVars
  <2> QED
    BY <1>1, <2>5, OneEngine DEF IsolationInv
<1> QED
  BY <1>4, <1>5

\* Writebacks book matches and fail none.
LEMMA WritebackIsolates ==
    ASSUME Isolated, IInv, IsolationInv, NEW w \in Workers,
           GhostWriteback(w) \/ WritebackSettled(w)
    PROVE  IsolationInv'
<1>1. TypeOK /\ MatchOf \in [Entries -> Matches] /\ WorkerKnows(w)
  BY MatchOfAssumption DEF IInv, KnowledgeIsCurrent
<1>2. Isolates(w)
  BY DEF IsolationInv
<1>3. ValidMatchNeverFails'
  <2>1. UNCHANGED kind
    BY DEF GhostWriteback, WritebackSettled, chainVars
  <2>2. PICK e \in todo[w] : WritebackOrSwallow(MatchOf[e])
    BY DEF GhostWriteback, WritebackSettled
  <2>3. \A m \in Matches : status'[m] = "FAILED" => status[m] = "FAILED"
    BY <1>1, <2>2
       DEF WritebackOrSwallow, Writeback, TypeOK, StoreTypeOK, storeVars
  <2> QED
    BY <2>1, <2>3 DEF IsolationInv, ValidMatchNeverFails
<1>4. NothingGivenUp'
  BY DEF IsolationInv, NothingGivenUp, GhostWriteback, WritebackSettled,
         chainVars
<1>5. Isolates(w)'
  BY <1>1, <1>2
     DEF Isolates, Unsent, Cleanup, GhostWriteback, WritebackSettled, Continue,
         Go, TypeOK, WorkersTypeOK, WorkerKnows, chainVars
<1> QED
  BY <1>3, <1>4, <1>5, OneEngine DEF IsolationInv

\* A batch that is over leaves nothing in the mempool.
LEMMA ForgetIsolates ==
    ASSUME Isolated, IInv, IsolationInv, NEW w \in Workers, Forget(w),
           UNCHANGED <<storeVars, chainVars, cleaned>>
    PROVE  IsolationInv'
<1>1. ValidMatchNeverFails' /\ NothingGivenUp'
  BY RowsUnchanged DEF IsolationInv, NothingGivenUp, chainVars
<1>2. Isolates(w)'
  BY DEF IInv, TypeOK, WorkersTypeOK, Isolates, Unsent, Cleanup, Forget, Go
<1> QED
  BY <1>1, <1>2, OneEngine DEF IsolationInv

LEMMA GiveUpIsolates ==
    ASSUME Isolated, IInv, IsolationInv, NEW w \in Workers, GiveUp(w),
           tx[w] # "pending"
    PROVE  IsolationInv'
BY ForgetIsolates DEF GiveUp, Abandon, chainVars

\* Which are all batches given up, as receipts arrive.
LEMMA RetryingIsolates ==
    ASSUME Isolated, IInv, IsolationInv, NEW w \in Workers,
           Retrying(w) \/ RedisFailure(w) \/ Crash(w)
    PROVE  IsolationInv'
<1>1. ~ Crash(w) /\ ~ ReceiptLost(w)
  BY OneEngine DEF Crash, ReceiptLost
<1>2. GiveUp(w)
  BY <1>1 DEF Retrying, SimulateUnknown, ProbeUnknown, ResimulateUnknown,
         SubmitUnknown, ReceiptReverted, RpcFailure, DbFailure, RedisFailure,
         Retry
<1>3. tx[w] # "pending"
  <2>1. WorkerKnows(w)
    BY DEF IInv, KnowledgeIsCurrent
  <2>2. pc[w] # "receipt" \/ tx[w] = "reverted"
    BY <1>1 DEF Retrying, SimulateUnknown, ProbeUnknown, ResimulateUnknown,
           SubmitUnknown, ReceiptReverted, RpcFailure, DbFailure, RedisFailure
  <2> QED
    BY <2>1, <2>2 DEF WorkerKnows
<1> QED
  BY <1>2, <1>3, GiveUpIsolates

\* ACKs end a batch or go on with it.
LEMMA AckIsolates ==
    ASSUME Isolated, IInv, IsolationInv, NEW w \in Workers,
           GhostAck(w) \/ Ack(w)
    PROVE  IsolationInv'
<1>1. CASE Forget(w)
  BY <1>1, ForgetIsolates DEF GhostAck, Ack
<1>2. CASE ~ Forget(w)
  <2>1. PICK e \in todo[w] :
          /\ \/ Continue(w, e, "simulate", {}) /\ pc[w] = "ghostack"
             \/ Continue(w, e, "idle", {}) /\ pc[w] = "ack"
          /\ UNCHANGED <<batch, live, poison, clean, tx>>
    BY <1>2 DEF GhostAck, Ack
  <2>2. UNCHANGED <<storeVars, chainVars, cleaned>>
    BY DEF GhostAck, Ack
  <2>3. ValidMatchNeverFails' /\ NothingGivenUp'
    BY <2>2, RowsUnchanged DEF IsolationInv, NothingGivenUp, chainVars
  <2>4. Isolates(w) /\ WorkerKnows(w) /\ TypeOK
    BY DEF IsolationInv, IInv, KnowledgeIsCurrent
  <2>5. Isolates(w)'
    BY <2>1, <2>2, <2>4
       DEF Isolates, Unsent, Cleanup, Continue, Go, TypeOK, WorkersTypeOK,
           WorkerKnows, chainVars
  <2> QED
    BY <2>3, <2>5, OneEngine DEF IsolationInv
<1> QED
  BY <1>1, <1>2

\* The dry-run of the batch.
LEMMA SimulateIsolates ==
    ASSUME Isolated, IInv, IsolationInv, NEW w \in Workers, Simulate(w)
    PROVE  IsolationInv'
<1>1. ValidMatchNeverFails' /\ NothingGivenUp'
  BY RowsUnchanged DEF IsolationInv, NothingGivenUp, Simulate, chainVars
<1>2. Isolates(w) /\ TypeOK /\ live[w] \in SUBSET Entries
  BY DEF IsolationInv, IInv, TypeOK, WorkersTypeOK
<1>3. \A e \in live[w] : MatchOf[e] \notin onchain
  BY <1>2 DEF Isolates, Unsent, Simulate
<1>4. Settles(live[w]) => \A e \in live[w] : Valid(e)
  BY <1>2, <1>3, DryRunTells
<1>5. UNCHANGED <<clean, poison, live, chainVars>>
  BY DEF Simulate
<1>6. \/ pc'[w] = "submit" /\ Settles(live[w])
      \/ pc'[w] = "isolate" /\ todo'[w] = live[w]
  BY <1>2 DEF Simulate, Go, TypeOK, WorkersTypeOK
<1>7. Isolates(w)'
  BY <1>2, <1>3, <1>4, <1>5, <1>6
     DEF Isolates, Cleanup, Survivors, Valid, chainVars
<1> QED
  BY <1>1, <1>7, OneEngine DEF IsolationInv

\* The dry-runs of single matches: each match is poison, valid, or left.
LEMMA ProbeIsolates ==
    ASSUME Isolated, IInv, IsolationInv, NEW w \in Workers, Probe(w)
    PROVE  IsolationInv'
<1>1. ValidMatchNeverFails' /\ NothingGivenUp'
  BY RowsUnchanged DEF IsolationInv, NothingGivenUp, Probe, chainVars
<1>2. Isolates(w) /\ TypeOK /\ todo[w] \subseteq Entries /\ pc[w] = "isolate"
  BY DEF IsolationInv, IInv, TypeOK, WorkersTypeOK, Probe
<1>3. /\ todo[w] \subseteq live[w]
      /\ \A f \in Survivors(w) \ todo[w] : Valid(f)
      /\ \A f \in live[w] : MatchOf[f] \notin onchain
  BY <1>2 DEF Isolates, Unsent
<1>4. PICK e \in todo[w] :
        /\ \/ Settles({e}) /\ UNCHANGED poison
           \/ /\ "fatal" \in Errors({e})
              /\ poison' = [poison EXCEPT ![w] = @ \cup {e}]
        /\ \/ Continue(w, e, "quarantine", poison'[w]) /\ live[w] = poison'[w]
           \/ Continue(w, e, "resimulate", {})
  BY DEF Probe
<1>5. UNCHANGED <<clean, live, chainVars>>
  BY DEF Probe
<1>6. \/ Valid(e) /\ poison'[w] = poison[w]
      \/ kind[MatchOf[e]] = "invalid" /\ poison'[w] = poison[w] \cup {e}
  <2>1. {e} \in SUBSET Entries /\ \A f \in {e} : MatchOf[f] \notin onchain
    BY <1>2, <1>3
  <2>2. /\ Settles({e}) => Valid(e)
        /\ "fatal" \in Errors({e}) => kind[MatchOf[e]] = "invalid"
    BY <1>2, <2>1, DryRunTells
  <2> QED
    BY <1>2, <1>4, <2>2 DEF TypeOK, WorkersTypeOK
<1>7. \A f \in live[w] \ poison'[w] : f = e \/ f \in todo[w] \/ Valid(f)
  BY <1>3, <1>6 DEF Survivors
<1>8. e \in poison'[w] \/ Valid(e)
  BY <1>6
<1>9. \/ /\ todo[w] = {e} /\ pc'[w] \in {"quarantine", "resimulate"}
      \/ /\ pc'[w] = "isolate" /\ todo'[w] = todo[w] \ {e}
  BY <1>2, <1>4 DEF Continue, Go, TypeOK, WorkersTypeOK
<1>10. Isolates(w)'
  <2>1. clean'[w] /\ pc'[w] \notin Cleanup
    BY <1>2, <1>5, <1>9 DEF Isolates, Cleanup
  <2>2. \A f \in poison'[w] : kind'[MatchOf[f]] = "invalid"
    BY <1>2, <1>5, <1>6 DEF Isolates, chainVars
  <2>3. \A f \in live'[w] : MatchOf[f] \notin onchain'
    BY <1>3, <1>5 DEF chainVars
  <2>4. CASE todo[w] = {e} /\ pc'[w] \in {"quarantine", "resimulate"}
    <3>1. \A f \in live[w] \ poison'[w] : Valid(f)
      BY <1>7, <1>8, <2>4
    <3> QED
      BY <1>5, <2>1, <2>2, <2>3, <2>4, <3>1
         DEF Isolates, Survivors, Valid, chainVars
  <2>5. CASE pc'[w] = "isolate" /\ todo'[w] = todo[w] \ {e}
    <3>1. \A f \in (live[w] \ poison'[w]) \ todo'[w] : Valid(f)
      BY <1>7, <1>8, <2>5
    <3>2. todo'[w] \subseteq live'[w]
      BY <1>3, <1>5, <2>5
    <3> QED
      BY <1>5, <2>1, <2>2, <2>3, <2>5, <3>1, <3>2
         DEF Isolates, Survivors, Valid, chainVars
  <2> QED
    BY <1>9, <2>4, <2>5
<1> QED
  BY <1>1, <1>10, OneEngine DEF IsolationInv

\* The dry-run of the survivors does not fail.
LEMMA ResimulateIsolates ==
    ASSUME Isolated, IInv, IsolationInv, NEW w \in Workers, Resimulate(w)
    PROVE  IsolationInv'
<1>1. /\ Isolates(w) /\ TypeOK /\ pc[w] = "resimulate"
      /\ Survivors(w) \in SUBSET Entries
  BY DEF IsolationInv, IInv, TypeOK, WorkersTypeOK, Resimulate, Survivors
<1>2. \A e \in Survivors(w) : Valid(e) /\ MatchOf[e] \notin onchain
  BY <1>1 DEF Isolates, Unsent, Survivors
<1>3. "fatal" \notin Errors(Survivors(w))
  BY <1>1, <1>2, DryRunTells DEF Valid
<1>4. /\ pc'[w] = IF poison[w] # {} THEN "quarantine" ELSE "submit"
      /\ UNCHANGED <<storeVars, live, poison, clean, cleaned, chainVars>>
  BY <1>1, <1>3 DEF Resimulate, Go, TypeOK, WorkersTypeOK
<1>5. ValidMatchNeverFails' /\ NothingGivenUp'
  BY <1>4, RowsUnchanged DEF IsolationInv, NothingGivenUp, chainVars
<1>6. Isolates(w)'
  <2>1. poison[w] = {} => \A e \in live[w] : Valid(e)
    BY <1>2 DEF Survivors
  <2>2. Unsent(w)
    BY <1>1 DEF Unsent
  <2> QED
    BY <1>1, <1>2, <1>4, <2>1, <2>2
       DEF Isolates, Cleanup, Survivors, Valid, chainVars
<1> QED
  BY <1>5, <1>6, OneEngine DEF IsolationInv

\* What is quarantined is invalid.
LEMMA QuarantineIsolates ==
    ASSUME Isolated, IInv, IsolationInv, NEW w \in Workers, Quarantine(w)
    PROVE  IsolationInv'
<1>1. /\ Isolates(w) /\ WorkerKnows(w) /\ TypeOK /\ pc[w] = "quarantine"
      /\ MatchOf \in [Entries -> Matches]
  BY MatchOfAssumption
     DEF IsolationInv, IInv, KnowledgeIsCurrent, Quarantine
<1>2. PICK e \in todo[w] :
        FailPending(MatchOf[e]) /\ Continue(w, e, "poisonack", poison[w])
  BY DEF Quarantine
<1>3. UNCHANGED <<live, poison, clean, cleaned, chainVars>>
  BY DEF Quarantine
<1>4. kind[MatchOf[e]] = "invalid"
  BY <1>1 DEF Isolates, WorkerKnows
<1>5. ValidMatchNeverFails'
  <2>1. \A m \in Matches : status'[m] = "FAILED" =>
                              status[m] = "FAILED" \/ m = MatchOf[e]
    BY <1>1, <1>2 DEF FailPending, TypeOK, StoreTypeOK, storeVars
  <2> QED
    BY <1>3, <1>4, <2>1 DEF IsolationInv, ValidMatchNeverFails, chainVars
<1>6. Isolates(w)'
  <2>1. pc'[w] \in {"quarantine", "poisonack"}
    BY <1>1, <1>2 DEF Continue, Go, TypeOK, WorkersTypeOK
  <2>2. Unsent(w)
    BY <1>1 DEF Unsent
  <2> QED
    BY <1>1, <1>3, <2>1, <2>2
       DEF Isolates, Cleanup, Survivors, Valid, chainVars
<1> QED
  BY <1>3, <1>5, <1>6, OneEngine DEF IsolationInv, NothingGivenUp, chainVars

\* The survivors go on alone.
LEMMA PoisonAckIsolates ==
    ASSUME Isolated, IInv, IsolationInv, NEW w \in Workers, PoisonAck(w)
    PROVE  IsolationInv'
<1>1. Isolates(w) /\ TypeOK /\ pc[w] = "poisonack"
  BY DEF IsolationInv, IInv, PoisonAck
<1>2. /\ clean[w] /\ Unsent(w)
      /\ \A e \in Survivors(w) : Valid(e)
      /\ \A e \in live[w] : MatchOf[e] \notin onchain
  BY <1>1 DEF Isolates, Unsent
<1>3. UNCHANGED <<storeVars, chainVars, cleaned>>
  BY <1>2 DEF PoisonAck
<1>4. CASE Forget(w)
  BY <1>3, <1>4, ForgetIsolates
<1>5. CASE ~ Forget(w)
  <2>1. ValidMatchNeverFails' /\ NothingGivenUp'
    BY <1>3, RowsUnchanged DEF IsolationInv, NothingGivenUp, chainVars
  <2>2. UNCHANGED <<poison, clean>>
    BY <1>2, <1>5 DEF PoisonAck
  <2>3. \/ pc'[w] = "poisonack" /\ live'[w] = live[w]
        \/ pc'[w] = "submit" /\ live'[w] = Survivors(w)
    BY <1>1, <1>2, <1>5 DEF PoisonAck, Go, TypeOK, WorkersTypeOK
  <2>4. Isolates(w)'
    BY <1>1, <1>2, <1>3, <2>2, <2>3
       DEF Isolates, Cleanup, Survivors, Valid, chainVars
  <2> QED
    BY <2>1, <2>4, OneEngine DEF IsolationInv
<1> QED
  BY <1>4, <1>5

\* A submission of valid matches is not turned down.
LEMMA SubmitIsolates ==
    ASSUME Isolated, IInv, IsolationInv, NEW w \in Workers,
           Submit(w) \/ SubmitFatal(w)
    PROVE  IsolationInv'
<1>1. /\ Isolates(w) /\ TypeOK /\ pc[w] = "submit"
      /\ live[w] \in SUBSET Entries
  BY DEF IsolationInv, IInv, TypeOK, WorkersTypeOK, Submit, SubmitFatal
<1>2. \A e \in live[w] : Valid(e) /\ MatchOf[e] \notin onchain
  BY <1>1 DEF Isolates, Unsent
<1>3. "fatal" \notin Errors(live[w])
  BY <1>1, <1>2, DryRunTells DEF Valid
<1>4. Submit(w)
  BY <1>3, OneEngine DEF SubmitFatal
<1>5. ValidMatchNeverFails' /\ NothingGivenUp'
  BY <1>4, RowsUnchanged DEF IsolationInv, NothingGivenUp, Submit, chainVars
<1>6. Isolates(w)'
  BY <1>1, <1>2, <1>4
     DEF Isolates, Unsent, Cleanup, Submit, Go, TypeOK, WorkersTypeOK, chainVars
<1> QED
  BY <1>5, <1>6, OneEngine DEF IsolationInv

\* From the receipt on nothing can be poison any more.
LEMMA ReceiptIsolates ==
    ASSUME Isolated, IInv, IsolationInv, NEW w \in Workers,
           Receipt(w) \/ Apply(w) \/ Mine(w)
    PROVE  IsolationInv'
<1>1. Isolates(w) /\ WorkerKnows(w) /\ TypeOK
  BY DEF IsolationInv, IInv, KnowledgeIsCurrent
<1>2. ValidMatchNeverFails' /\ NothingGivenUp'
  BY RowsUnchanged
     DEF IsolationInv, NothingGivenUp, Receipt, Apply, Mine, chainVars
<1>3. UNCHANGED <<clean, poison, live, kind>>
  BY DEF Receipt, Apply, Mine, chainVars
<1>4. pc'[w] \in {"receipt", "apply", "writeback", "ack"} /\ tx'[w] # "pending"
  BY <1>1 DEF Receipt, Apply, Mine, Continue, Go, TypeOK, WorkersTypeOK,
              WorkerKnows
<1>5. Isolates(w)'
  BY <1>1, <1>3, <1>4 DEF Isolates, Unsent, Cleanup
<1> QED
  BY <1>2, <1>5, OneEngine DEF IsolationInv

\* The cleanup is never reached.
LEMMA NoCleanup ==
    ASSUME Isolated, IsolationInv, NEW w \in Workers
    PROVE  ~ (Unlock(w) \/ Record(w) \/ Restore(w) \/ CleanupAck(w))
BY DEF IsolationInv, Isolates, Cleanup, Unlock, Record, Restore, CleanupAck

\* Delivery, and a chain without orphans and flips.
LEMMA EnvironmentIsolates ==
    ASSUME Isolated, IInv, IsolationInv,
           \/ \E w \in Workers, e \in Entries : Deliver(w, e)
           \/ ResolveOrphan
           \/ \E m \in Matches : Flip(m)
           \/ UNCHANGED vars
    PROVE  IsolationInv'
<1>1. ~ ResolveOrphan /\ ~ \E m \in Matches : Flip(m)
  BY DEF Isolated, IInv, TypeOK, SharedTypeOK, IsolationInv, NothingGivenUp,
         ResolveOrphan, Flip
<1>2. UNCHANGED <<storeVars, chainVars, pc, live, todo, poison, clean, tx,
                  cleaned>>
  BY <1>1 DEF Deliver, vars, pipeVars, workVars
<1>3. ValidMatchNeverFails' /\ NothingGivenUp'
  BY <1>2, RowsUnchanged DEF IsolationInv, NothingGivenUp, chainVars
<1>4. ASSUME NEW w \in Workers
      PROVE  Isolates(w)'
  BY <1>2 DEF IsolationInv, Isolates, Unsent, Survivors, Valid, chainVars
<1> QED
  BY <1>3, <1>4 DEF IsolationInv

LEMMA NextIsolates ==
    ASSUME Isolated, IInv, IsolationInv, [Next]_vars
    PROVE  IsolationInv'
<1>1. ASSUME NEW w \in Workers, WorkerStep(w)
      PROVE  IsolationInv'
  BY <1>1, StartIsolates, WritebackIsolates, AckIsolates, SimulateIsolates,
     ProbeIsolates, ResimulateIsolates, QuarantineIsolates, PoisonAckIsolates,
     SubmitIsolates, ReceiptIsolates, NoCleanup, RetryingIsolates
     DEF WorkerStep, Retrying
<1>2. ASSUME NEW w \in Workers, Failure(w)
      PROVE  IsolationInv'
  BY <1>2, RetryingIsolates DEF Failure, Retrying
<1>3. ASSUME NEW w \in Workers, Mine(w)
      PROVE  IsolationInv'
  BY <1>3, ReceiptIsolates
<1> QED
  BY <1>1, <1>2, <1>3, EnvironmentIsolates DEF Next, Quiet

\* Under these conditions the invariant holds throughout.
THEOREM IsolationInvariance == Isolated => (Spec => []IsolationInv)
<1> SUFFICES ASSUME Isolated PROVE Spec => []IsolationInv
  OBVIOUS
<1>1. Init => IsolationInv
  BY DEF Init, StoreInit, PipeInit, IsolationInv, ValidMatchNeverFails,
         NothingGivenUp, Isolates, Unsent, Cleanup
<1>2. IInv /\ IsolationInv /\ [Next]_vars => IsolationInv'
  BY NextIsolates
<1> QED
  BY <1>1, <1>2, Invariance, PTL DEF Spec

\* Poison isolation fails no match the contract would settle.
THEOREM ValidMatchesNeverFail == Isolated => (Spec => []ValidMatchNeverFails)
<1>1. IsolationInv => ValidMatchNeverFails
  BY DEF IsolationInv
<1> QED
  BY <1>1, IsolationInvariance, PTL

\* ... and it makes the whole-batch cleanup unnecessary: no batch goes there,
\* so no lock is released twice.
THEOREM NoBatchIsCleanedUp == Isolated => (Spec => [](cleaned = {}))
<1>1. IsolationInv => cleaned = {}
  BY DEF IsolationInv, NothingGivenUp
<1> QED
  BY <1>1, IsolationInvariance, PTL
================================================================================
