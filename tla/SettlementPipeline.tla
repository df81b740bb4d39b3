------------------------- MODULE SettlementPipeline -------------------------
(***************************************************************************)
(* One settlement batch from delivery to ACK: processSettlementBatch       *)
(* (settlement/processBatch.ts) and the failure path of                    *)
(* BatchProcessor.processBatch, run by several engine processes            *)
(* ("workers") over one Redis stream, one PostgreSQL database (MatchStore) *)
(* and one settlement contract.  An action is the code between two awaits  *)
(* on an outside system, so workers, the chain, crashes and redelivery     *)
(* interleave everywhere the program can be interleaved.                   *)
(*                                                                         *)
(* Redis is reduced to what a batch sees: an entry stays deliverable until *)
(* it is ACKed, to any worker, also while another copy is in flight (PEL   *)
(* re-reads and XCLAIM).  The nonce is the business of NonceManager.       *)
(***************************************************************************)
EXTENDS MatchStore

CONSTANTS
    Workers,     \* engine processes
    FaultKinds,  \* the failures this instance allows, a subset of AllFaults
    MaxFaults,   \* bound: failures in a behaviour
    MaxFlips,    \* bound: changes of a match's on-chain validity
    Kinds,       \* the on-chain validities that occur, a subset of AllKinds
    Conflicts    \* sets of matches that revert when settled in one batch

AllFaults == {"crash", "read", "rpc", "receipt", "gas", "db", "redis"}

\* "ok" settles; "invalid" reverts with an error mapContractError knows and
\* calls non-retryable; "opaque" reverts with one it does not know, which it
\* calls UNKNOWN_ERROR and retryable.
AllKinds == {"ok", "invalid", "opaque"}

ASSUME FaultsAssumption == FaultKinds \subseteq AllFaults /\ MaxFaults \in Nat
ASSUME KindsAssumption == Kinds \subseteq AllKinds /\ MaxFlips \in Nat
ASSUME ConflictsAssumption == Conflicts \subseteq SUBSET Matches

VARIABLES
    acked,    \* entries XACKed and XDELed
    onchain,  \* matches whose isSettled is true
    kind,     \* validity of each match against the chain's current state
    orphans,  \* broadcast transactions nobody waits for (sets of matches)
    flips, faults,
    pc,       \* the await each worker is at
    queue,    \* its BatchAccumulator and the list of a reclaim under way
    batch,    \* the whole batch, as BatchProcessor.processBatch took it
    live,     \* `unsettled', then `toSettle'
    todo,     \* entries left in the loop the worker is in
    poison,   \* entries found poison by simulateMatchesForPoison
    clean,    \* survivorsSimulateClean
    tx,       \* the worker's settleMatches transaction
    applied,  \* history: matches whose position events an engine applied
    cleaned   \* history: matches a whole-batch failure cleanup acted on

chainVars == <<onchain, kind, orphans, flips>>
workVars == <<pc, queue, batch, live, todo, poison, clean, tx>>
pipeVars == <<acked, chainVars, faults, workVars, applied, cleaned>>
vars == <<storeVars, pipeVars>>

PCs == {"idle", "filter", "ghostwb", "ghostack", "simulate", "isolate",
        "resimulate", "quarantine", "poisonack", "submit", "receipt",
        "apply", "writeback", "ack", "unlock", "record", "restore",
        "cleanack"}

PipeInit ==
    /\ acked = {}
    /\ onchain = {}
    /\ kind \in [Matches -> Kinds]
    /\ orphans = {}
    /\ flips = 0
    /\ faults = 0
    /\ pc = [w \in Workers |-> "idle"]
    /\ queue = [w \in Workers |-> {}]
    /\ batch = [w \in Workers |-> {}]
    /\ live = [w \in Workers |-> {}]
    /\ todo = [w \in Workers |-> {}]
    /\ poison = [w \in Workers |-> {}]
    /\ clean = [w \in Workers |-> TRUE]
    /\ tx = [w \in Workers |-> "none"]
    /\ applied = {}
    /\ cleaned = {}

Init == StoreInit /\ PipeInit

-----------------------------------------------------------------------------
(* The settlement contract: settleMatches is all or nothing.               *)

\* Two copies of one match, or matches that compete for the same funds,
\* revert together though each would settle alone.
Collides(S) ==
    \/ \E e, f \in S : e # f /\ MatchOf[e] = MatchOf[f]
    \/ \E C \in Conflicts : C \subseteq MatchesIn(S)

\* Mutant of Errors: mapContractError knows no error but AlreadySettled.
ErrorsUnclassified(S) ==
    {v \in {"fatal", "unknown"} :
        \/ v = "fatal" /\ MatchesIn(S) \cap onchain # {}
        \/ /\ v = "unknown"
           /\ Collides(S) \/ \E m \in MatchesIn(S) : kind[m] # "ok"}

\* The verdicts mapContractError may give on a call with the entries S: the
\* first offending match decides, in an order the contract chooses.
Errors(S) ==
    {v \in {"fatal", "unknown"} :
        \/ /\ v = "fatal"
           /\ \/ Collides(S)
              \/ \E m \in MatchesIn(S) : m \in onchain \/ kind[m] = "invalid"
        \/ v = "unknown" /\ \E m \in MatchesIn(S) : kind[m] = "opaque"}

Settles(S) == Errors(S) = {}

-----------------------------------------------------------------------------
(* Worker control.                                                         *)

Go(w, step) == pc' = [pc EXCEPT ![w] = step]

Fault(k) ==
    /\ k \in FaultKinds
    /\ faults < MaxFaults
    /\ faults' = faults + 1

\* The batch is over for this worker.
Forget(w) ==
    /\ Go(w, "idle")
    /\ batch' = [batch EXCEPT ![w] = {}]
    /\ live' = [live EXCEPT ![w] = {}]
    /\ todo' = [todo EXCEPT ![w] = {}]
    /\ poison' = [poison EXCEPT ![w] = {}]
    /\ clean' = [clean EXCEPT ![w] = TRUE]
    /\ tx' = [tx EXCEPT ![w] = "none"]

\* A transaction the worker stops waiting for stays in the mempool.
Abandon(w) ==
    orphans' = IF tx[w] = "pending" THEN orphans \cup {MatchesIn(live[w])}
                                    ELSE orphans

\* processSettlementBatch throws something retryable, or something that is
\* no BatchProcessingError: entries it did not ACK stay in the PEL.
GiveUp(w) ==
    /\ Forget(w)
    /\ Abandon(w)
    /\ UNCHANGED <<storeVars, onchain, kind, flips, queue, applied, cleaned>>

Retry(w) == GiveUp(w) /\ UNCHANGED acked

\* It throws BatchProcessingError(retryable = false): the cleanup acts on the
\* batch as BatchProcessor took it, not on what is left of it.
StartCleanup(w) ==
    /\ Go(w, "unlock")
    /\ cleaned' = cleaned \cup MatchesIn(batch[w])
    /\ UNCHANGED <<batch, live, todo, poison, clean, tx>>

\* The loop over todo[w] is done with e; after the last one control moves to
\* `next', with the entries `more' to go through.
Continue(w, e, next, more) ==
    /\ Go(w, IF todo[w] = {e} THEN next ELSE pc[w])
    /\ todo' = [todo EXCEPT ![w] = IF @ = {e} THEN more ELSE @ \ {e}]

-----------------------------------------------------------------------------
(* Delivery.                                                               *)

\* readMatches or processPendingEntries hands w an un-ACKed entry; the
\* accumulator drops one it already holds, but not one that is in a batch.
Deliver(w, e) ==
    /\ e \notin acked
    /\ e \notin queue[w]
    /\ queue' = [queue EXCEPT ![w] = @ \cup {e}]
    /\ UNCHANGED <<storeVars, acked, chainVars, faults, pc, batch, live, todo,
                   poison, clean, tx, applied, cleaned>>

\* getBatch takes all of the accumulator; what a reclaim has read and not yet
\* added, perhaps ACKed meanwhile by another process, stays.
StartBatch(w) ==
    /\ pc[w] = "idle"
    /\ Go(w, "filter")
    /\ \E B \in SUBSET queue[w] :
          /\ B # {}
          /\ batch' = [batch EXCEPT ![w] = B]
          /\ queue' = [queue EXCEPT ![w] = @ \ B]
    /\ UNCHANGED <<storeVars, acked, chainVars, faults, live, todo, poison,
                   clean, tx, applied, cleaned>>

-----------------------------------------------------------------------------
(* Step 0: matches already settled on-chain.                               *)

SettledIn(S) == {e \in S : MatchOf[e] \in onchain}

\* Mutant of Filter: an isSettled read that fails counts as "settled".
FilterTrustsErrors(w) ==
    /\ pc[w] = "filter"
    /\ \E already \in SUBSET batch[w] :
          /\ SettledIn(batch[w]) \subseteq already
          /\ IF already = SettledIn(batch[w]) THEN UNCHANGED faults
                                              ELSE Fault("read")
          /\ live' = [live EXCEPT ![w] = batch[w] \ already]
          /\ Go(w, IF already # {} THEN "ghostwb" ELSE "simulate")
          /\ todo' = [todo EXCEPT ![w] = already]
    /\ UNCHANGED <<storeVars, acked, chainVars, queue, batch, poison, clean,
                   tx, applied, cleaned>>

\* filterAlreadySettledMatches: one multicall; an isSettled read that fails
\* counts as "not settled".
Filter(w) ==
    /\ pc[w] = "filter"
    /\ \E already \in SUBSET SettledIn(batch[w]) :
          /\ IF already = SettledIn(batch[w]) THEN UNCHANGED faults
                                              ELSE Fault("read")
          /\ live' = [live EXCEPT ![w] = batch[w] \ already]
          /\ Go(w, IF already # {} THEN "ghostwb" ELSE "simulate")
          /\ todo' = [todo EXCEPT ![w] = already]
    /\ UNCHANGED <<storeVars, acked, chainVars, queue, batch, poison, clean,
                   tx, applied, cleaned>>

\* writebackSettledMatches: one transaction per match, a failed one is
\* logged and swallowed.
WritebackOrSwallow(m) ==
    \/ Writeback(m) /\ UNCHANGED faults
    \/ Fault("db") /\ UNCHANGED storeVars

\* Mutant of GhostWriteback: the already-settled path only ACKs.
GhostWritebackSkipped(w) ==
    /\ pc[w] = "ghostwb"
    /\ \E e \in todo[w] : Continue(w, e, "ghostack", batch[w] \ live[w])
    /\ UNCHANGED <<storeVars, faults, acked, chainVars, queue, batch, live,
                   poison, clean, tx, applied, cleaned>>

GhostWriteback(w) ==
    /\ pc[w] = "ghostwb"
    /\ \E e \in todo[w] :
          /\ WritebackOrSwallow(MatchOf[e])
          /\ Continue(w, e, "ghostack", batch[w] \ live[w])
    /\ UNCHANGED <<acked, chainVars, queue, batch, live, poison, clean, tx,
                   applied, cleaned>>

GhostAck(w) ==
    /\ pc[w] = "ghostack"
    /\ \E e \in todo[w] :
          /\ acked' = acked \cup {e}
          /\ IF todo[w] = {e} /\ live[w] = {}
               THEN Forget(w)
               ELSE /\ Continue(w, e, "simulate", {})
                    /\ UNCHANGED <<batch, live, poison, clean, tx>>
    /\ UNCHANGED <<storeVars, chainVars, faults, queue, applied, cleaned>>

-----------------------------------------------------------------------------
(* Step 0.75: poison isolation.                                            *)

\* Mutant of Simulate: a batch that would revert is failed as a whole.
SimulateWholeBatch(w) ==
    /\ pc[w] = "simulate"
    /\ \/ Settles(live[w]) /\ Go(w, "submit") /\ UNCHANGED cleaned
       \/ /\ "fatal" \in Errors(live[w])
          /\ Go(w, "unlock")
          /\ cleaned' = cleaned \cup MatchesIn(batch[w])
    /\ UNCHANGED <<storeVars, acked, chainVars, faults, queue, batch, live,
                   todo, poison, clean, tx, applied>>

\* simulateSettleBatch on the whole batch.
Simulate(w) ==
    /\ pc[w] = "simulate"
    /\ \/ /\ Settles(live[w])
          /\ Go(w, "submit")
          /\ UNCHANGED todo
       \/ /\ "fatal" \in Errors(live[w])
          /\ Go(w, "isolate")
          /\ todo' = [todo EXCEPT ![w] = live[w]]
    /\ UNCHANGED <<storeVars, acked, chainVars, faults, queue, batch, live,
                   poison, clean, tx, applied, cleaned>>

SimulateUnknown(w) ==
    /\ pc[w] = "simulate"
    /\ "unknown" \in Errors(live[w])
    /\ Retry(w)
    /\ UNCHANGED faults

Survivors(w) == live[w] \ poison[w]

\* simulateMatchesForPoison: concurrent single-match dry-runs.
Probe(w) ==
    /\ pc[w] = "isolate"
    /\ \E e \in todo[w] :
          /\ \/ Settles({e}) /\ UNCHANGED poison
             \/ /\ "fatal" \in Errors({e})
                /\ poison' = [poison EXCEPT ![w] = @ \cup {e}]
          /\ LET found == poison'[w]
             IN  IF live[w] = found THEN Continue(w, e, "quarantine", found)
                                    ELSE Continue(w, e, "resimulate", {})
    /\ UNCHANGED <<storeVars, acked, chainVars, faults, queue, batch, live,
                   clean, tx, applied, cleaned>>

ProbeUnknown(w) ==
    /\ pc[w] = "isolate"
    /\ \E e \in todo[w] : "unknown" \in Errors({e})
    /\ Retry(w)
    /\ UNCHANGED faults

\* The survivors once more, as an array.
Resimulate(w) ==
    /\ pc[w] = "resimulate"
    /\ \/ /\ Settles(Survivors(w))
          /\ Go(w, IF poison[w] # {} THEN "quarantine" ELSE "submit")
          /\ UNCHANGED <<clean, cleaned>>
       \/ /\ "fatal" \in Errors(Survivors(w))
          /\ clean' = [clean EXCEPT ![w] = FALSE]
          /\ IF poison[w] # {}
               THEN Go(w, "quarantine") /\ UNCHANGED cleaned
               ELSE /\ Go(w, "unlock")
                    /\ cleaned' = cleaned \cup MatchesIn(batch[w])
    /\ todo' = [todo EXCEPT ![w] = poison[w]]
    /\ UNCHANGED <<storeVars, acked, chainVars, faults, queue, batch, live,
                   poison, tx, applied>>

ResimulateUnknown(w) ==
    /\ pc[w] = "resimulate"
    /\ "unknown" \in Errors(Survivors(w))
    /\ Retry(w)
    /\ UNCHANGED faults

\* Mutant of Quarantine: a failed transaction is logged and swallowed.
QuarantineSwallows(w) ==
    /\ pc[w] = "quarantine"
    /\ \E e \in todo[w] :
          /\ \/ FailPending(MatchOf[e]) /\ UNCHANGED faults
             \/ Fault("db") /\ UNCHANGED storeVars
          /\ Continue(w, e, "poisonack", poison[w])
    /\ UNCHANGED <<acked, chainVars, queue, batch, live, poison, clean, tx,
                   applied, cleaned>>

\* quarantinePoisonMatches: the database first, one transaction per match.
Quarantine(w) ==
    /\ pc[w] = "quarantine"
    /\ \E e \in todo[w] :
          /\ FailPending(MatchOf[e])
          /\ Continue(w, e, "poisonack", poison[w])
    /\ UNCHANGED <<acked, chainVars, faults, queue, batch, live, poison,
                   clean, tx, applied, cleaned>>

\* ... then the ACKs; survivors that still revert go to the batch cleanup.
PoisonAck(w) ==
    /\ pc[w] = "poisonack"
    /\ \E e \in todo[w] :
          /\ acked' = acked \cup {e}
          /\ \/ /\ todo[w] # {e}
                /\ todo' = [todo EXCEPT ![w] = @ \ {e}]
                /\ UNCHANGED <<pc, batch, live, poison, clean, tx, cleaned>>
             \/ /\ todo[w] = {e} /\ ~clean[w]
                /\ StartCleanup(w)
             \/ /\ todo[w] = {e} /\ clean[w] /\ Survivors(w) = {}
                /\ Forget(w)
                /\ UNCHANGED cleaned
             \/ /\ todo[w] = {e} /\ clean[w] /\ Survivors(w) # {}
                /\ Go(w, "submit")
                /\ live' = [live EXCEPT ![w] = Survivors(w)]
                /\ todo' = [todo EXCEPT ![w] = {}]
                /\ UNCHANGED <<batch, poison, clean, tx, cleaned>>
    /\ UNCHANGED <<storeVars, chainVars, faults, queue, applied>>

-----------------------------------------------------------------------------
(* Step 1: settleBatch.                                                    *)

\* writeContract estimates gas first: only a call that would settle now is
\* signed and broadcast.
Submit(w) ==
    /\ pc[w] = "submit"
    /\ Settles(live[w])
    /\ Go(w, "receipt")
    /\ tx' = [tx EXCEPT ![w] = "pending"]
    /\ UNCHANGED <<storeVars, acked, chainVars, faults, queue, batch, live,
                   todo, poison, clean, applied, cleaned>>

\* The estimate reverts with an error mapContractError calls non-retryable,
\* or the wallet is out of gas, which it calls non-retryable too.
SubmitFatal(w) ==
    /\ pc[w] = "submit"
    /\ \/ "fatal" \in Errors(live[w]) /\ UNCHANGED faults
       \/ Fault("gas")
    /\ StartCleanup(w)
    /\ UNCHANGED <<storeVars, acked, chainVars, queue, applied>>

SubmitUnknown(w) ==
    /\ pc[w] = "submit"
    /\ "unknown" \in Errors(live[w])
    /\ Retry(w)
    /\ UNCHANGED faults

\* Mutant of Receipt: receipt.status is not checked.
ReceiptUnchecked(w) ==
    /\ pc[w] = "receipt"
    /\ tx[w] \in {"mined", "reverted"}
    /\ Go(w, "apply")
    /\ todo' = [todo EXCEPT ![w] = live[w]]
    /\ UNCHANGED <<storeVars, acked, chainVars, faults, queue, batch, live,
                   poison, clean, tx, applied, cleaned>>

\* waitForTransactionReceipt and getBlock answer.
Receipt(w) ==
    /\ pc[w] = "receipt"
    /\ tx[w] = "mined"
    /\ Go(w, "apply")
    /\ todo' = [todo EXCEPT ![w] = live[w]]
    /\ UNCHANGED <<storeVars, acked, chainVars, faults, queue, batch, live,
                   poison, clean, tx, applied, cleaned>>

\* A reverted receipt is thrown as a plain object, mapped to UNKNOWN_ERROR.
ReceiptReverted(w) ==
    /\ pc[w] = "receipt"
    /\ tx[w] = "reverted"
    /\ Retry(w)
    /\ UNCHANGED faults

\* The wait times out, or an RPC call fails around it: the broadcast's answer
\* is lost, the receipt is, or getBlock fails after the transaction is final.
ReceiptLost(w) ==
    /\ pc[w] = "receipt"
    /\ Fault("receipt")
    /\ Retry(w)

-----------------------------------------------------------------------------
(* Step 2: applySettlementResult.                                          *)

\* The position events of one settled match, each in its own transaction.
Apply(w) ==
    /\ pc[w] = "apply"
    /\ \E e \in todo[w] :
          /\ applied' = applied \cup {MatchOf[e]}
          /\ Continue(w, e, "writeback", live[w])
    /\ UNCHANGED <<storeVars, acked, chainVars, faults, queue, batch, live,
                   poison, clean, tx, cleaned>>

WritebackSettled(w) ==
    /\ pc[w] = "writeback"
    /\ \E e \in todo[w] :
          /\ WritebackOrSwallow(MatchOf[e])
          /\ Continue(w, e, "ack", live[w])
    /\ UNCHANGED <<acked, chainVars, queue, batch, live, poison, clean, tx,
                   applied, cleaned>>

\* Mutant of Ack: the batch is let go at its first XACK, the others are not
\* awaited.
AckUnawaited(w) ==
    /\ pc[w] = "ack"
    /\ \E e \in todo[w] :
          /\ acked' = acked \cup {e}
          /\ batch' = [batch EXCEPT ![w] = {}]
          /\ Continue(w, e, "idle", {})
    /\ UNCHANGED <<storeVars, chainVars, faults, queue, live, poison, clean, tx,
                   applied, cleaned>>

\* Step 3: ackAndDeleteEntries.
Ack(w) ==
    /\ pc[w] = "ack"
    /\ \E e \in todo[w] :
          /\ acked' = acked \cup {e}
          /\ IF todo[w] = {e}
               THEN Forget(w)
               ELSE /\ Continue(w, e, "idle", {})
                    /\ UNCHANGED <<batch, live, poison, clean, tx>>
    /\ UNCHANGED <<storeVars, chainVars, faults, queue, applied, cleaned>>

-----------------------------------------------------------------------------
(* BatchProcessor.processBatch after a non-retryable error: three separate *)
(* transactions over the whole batch, each failure swallowed, then the     *)
(* ACKs, given up at the first Redis error.                                *)

Swallow(A) == (A /\ UNCHANGED faults) \/ (Fault("db") /\ UNCHANGED storeVars)

Unlock(w) ==
    /\ pc[w] = "unlock"
    /\ Swallow(UnlockFailed(batch[w]))
    /\ Go(w, "record")
    /\ UNCHANGED <<acked, chainVars, queue, batch, live, todo, poison, clean,
                   tx, applied, cleaned>>

Record(w) ==
    /\ pc[w] = "record"
    /\ Swallow(RecordFailed(batch[w]))
    /\ Go(w, "restore")
    /\ UNCHANGED <<acked, chainVars, queue, batch, live, todo, poison, clean,
                   tx, applied, cleaned>>

Restore(w) ==
    /\ pc[w] = "restore"
    /\ Swallow(RestoreFailed(batch[w]))
    /\ Go(w, "cleanack")
    /\ todo' = [todo EXCEPT ![w] = batch[w]]
    /\ UNCHANGED <<acked, chainVars, queue, batch, live, poison, clean, tx,
                   applied, cleaned>>

CleanupAck(w) ==
    /\ pc[w] = "cleanack"
    /\ \E e \in todo[w] :
          /\ acked' = acked \cup {e}
          /\ IF todo[w] = {e}
               THEN Forget(w)
               ELSE /\ Continue(w, e, "idle", {})
                    /\ UNCHANGED <<batch, live, poison, clean, tx>>
    /\ UNCHANGED <<storeVars, chainVars, faults, queue, applied, cleaned>>

-----------------------------------------------------------------------------
(* Failures that end a batch.                                              *)

\* A flaky or paused endpoint fails the multicall, a dry-run or the
\* submission, before anything is broadcast.
RpcFailure(w) ==
    /\ pc[w] \in {"filter", "simulate", "isolate", "resimulate", "submit"}
    /\ Fault("rpc")
    /\ Retry(w)

\* quarantineFailedMatch or an event's transaction throws.
DbFailure(w) ==
    /\ pc[w] \in {"quarantine", "apply"}
    /\ Fault("db")
    /\ Retry(w)

\* An XACK throws, done or not, or after the last one an XDEL does; in the
\* cleanup it is caught, to the same effect.
RedisFailure(w) ==
    /\ pc[w] \in {"ghostack", "poisonack", "ack", "cleanack"}
    /\ Fault("redis")
    /\ UNCHANGED acked \/ \E e \in todo[w] : acked' = acked \cup {e}
    /\ GiveUp(w)

\* The process dies and restarts with an empty accumulator.
Crash(w) ==
    /\ pc[w] # "idle" \/ queue[w] # {}
    /\ Fault("crash")
    /\ Forget(w)
    /\ Abandon(w)
    /\ queue' = [queue EXCEPT ![w] = {}]
    /\ UNCHANGED <<storeVars, acked, onchain, kind, flips, applied, cleaned>>

-----------------------------------------------------------------------------
(* The chain.                                                              *)

Mine(w) ==
    /\ tx[w] = "pending"
    /\ IF Settles(live[w])
         THEN /\ onchain' = onchain \cup MatchesIn(live[w])
              /\ tx' = [tx EXCEPT ![w] = "mined"]
         ELSE /\ tx' = [tx EXCEPT ![w] = "reverted"]
              /\ UNCHANGED onchain
    /\ UNCHANGED <<storeVars, acked, kind, orphans, flips, faults, pc, queue,
                   batch, live, todo, poison, clean, applied, cleaned>>

\* An abandoned transaction is mined, reverts or is dropped.
ResolveOrphan ==
    /\ \E T \in orphans :
          /\ orphans' = orphans \ {T}
          /\ \/ /\ \A m \in T : m \notin onchain /\ kind[m] = "ok"
                /\ onchain' = onchain \cup T
             \/ UNCHANGED onchain
    /\ UNCHANGED <<storeVars, acked, kind, flips, faults, workVars, applied,
                   cleaned>>

\* Funds move, a flag or a price changes: a match's validity changes.
Flip(m) ==
    /\ flips < MaxFlips
    /\ flips' = flips + 1
    /\ m \notin onchain
    /\ \E k \in Kinds \ {kind[m]} : kind' = [kind EXCEPT ![m] = k]
    /\ UNCHANGED <<storeVars, acked, onchain, orphans, faults, workVars,
                   applied, cleaned>>

-----------------------------------------------------------------------------
WorkerStep(w) ==
    \/ StartBatch(w)
    \/ Filter(w) \/ GhostWriteback(w) \/ GhostAck(w)
    \/ Simulate(w) \/ SimulateUnknown(w)
    \/ Probe(w) \/ ProbeUnknown(w)
    \/ Resimulate(w) \/ ResimulateUnknown(w)
    \/ Quarantine(w) \/ PoisonAck(w)
    \/ Submit(w) \/ SubmitFatal(w) \/ SubmitUnknown(w)
    \/ Receipt(w) \/ ReceiptReverted(w)
    \/ Apply(w) \/ WritebackSettled(w) \/ Ack(w)
    \/ Unlock(w) \/ Record(w) \/ Restore(w) \/ CleanupAck(w)

Failure(w) ==
    ReceiptLost(w) \/ RpcFailure(w) \/ DbFailure(w) \/ RedisFailure(w)
    \/ Crash(w)

\* Everything is ACKed and nothing is in flight: the engine waits for work.
Quiet ==
    /\ acked = Entries
    /\ orphans = {}
    /\ \A w \in Workers : pc[w] = "idle" /\ queue[w] = {}
    /\ UNCHANGED vars

Next ==
    \/ \E w \in Workers : WorkerStep(w) \/ Failure(w) \/ Mine(w)
    \/ \E w \in Workers, e \in Entries : Deliver(w, e)
    \/ ResolveOrphan
    \/ \E m \in Matches : Flip(m)
    \/ Quiet

Spec == Init /\ [][Next]_vars

\* Each worker keeps running, the chain includes or drops what is broadcast,
\* and an un-ACKed entry keeps being read or reclaimed by some worker.
Fairness ==
    /\ \A w \in Workers : WF_vars(WorkerStep(w)) /\ WF_vars(Mine(w))
    /\ \A w \in Workers, e \in Entries : WF_vars(Deliver(w, e))
    /\ WF_vars(ResolveOrphan)

FairSpec == Spec /\ Fairness

-----------------------------------------------------------------------------
(* Properties.                                                             *)

WorkersTypeOK ==
    /\ pc \in [Workers -> PCs]
    /\ queue \in [Workers -> SUBSET Entries]
    /\ batch \in [Workers -> SUBSET Entries]
    /\ live \in [Workers -> SUBSET Entries]
    /\ todo \in [Workers -> SUBSET Entries]
    /\ poison \in [Workers -> SUBSET Entries]
    /\ clean \in [Workers -> BOOLEAN]
    /\ tx \in [Workers -> {"none", "pending", "mined", "reverted"}]

SharedTypeOK ==
    /\ acked \subseteq Entries
    /\ onchain \subseteq Matches
    /\ kind \in [Matches -> Kinds]
    /\ orphans \subseteq SUBSET Matches
    /\ flips \in 0..MaxFlips
    /\ faults \in 0..MaxFaults
    /\ applied \subseteq Matches
    /\ cleaned \subseteq Matches

TypeOK == StoreTypeOK /\ SharedTypeOK /\ WorkersTypeOK

\* The database never claims a settlement the chain does not have, however
\* reads fail, transactions are abandoned and workers race: every writeback
\* rests on a final receipt or a successful isSettled read.
SettledOnlyIfOnChain ==
    \A m \in Matches : status[m] = "SETTLED" => m \in onchain

\* The PENDING gate makes redelivery, retries, crashes and racing workers
\* release a lock once: exactly when the match leaves PENDING, and never
\* before, for every match no whole-batch cleanup has touched.
ReleasedExactlyOnce ==
    \A m \in Matches \ cleaned :
        released[m] = IF status[m] = "PENDING" THEN 0 ELSE 1

\* No match is lost: an entry leaves Redis for good only when its match is
\* final on-chain, FAILED in the database, or given to the batch cleanup
\* (which ACKs even when its transactions failed).
AckedIsResolved ==
    \A e \in acked : \/ MatchOf[e] \in onchain
                     \/ status[MatchOf[e]] = "FAILED"
                     \/ MatchOf[e] \in cleaned

\* A FAILED match does not keep its lock, also when it was the batch cleanup
\* that failed it, in three transactions with crashes, copies, earlier
\* quarantines and changes of validity between: order-failure.ts:23-25 says it
\* "prevents reserved amounts from being stuck forever".  It holds where the
\* unlock does not fail: a failing one is swallowed, the match FAILED and ACKed
\* all the same, and nothing looks at a FAILED match again.
FailedMatchIsUnlocked ==
    \A m \in Matches : status[m] = "FAILED" => released[m] > 0

\* in_orders is the sum of the locks of the wallet's PENDING matches: no
\* order of writebacks and quarantines, with GREATEST's clamp, leaks or
\* over-releases, for wallets none of whose matches went through a cleanup.
LocksConserved ==
    \A w \in Wallets :
        (\A m \in cleaned : LockOf(m, w) = 0) =>
            inOrders[w] = TotalLock({m \in Matches : status[m] = "PENDING"}, w)

\* An order is filled by its matches that have not FAILED, and it is
\* cancelled exactly when all of them have.
OrdersConserved ==
    \A o \in Orders :
        LET mine == {m \in Matches : o \in OrdersOf(m)}
            kept == {m \in mine : status[m] # "FAILED"}
        IN  mine # {} /\ mine \cap cleaned = {} =>
            /\ filled[o] = TotalFill(kept, o)
            /\ (orderStatus[o] = "CANCELLED") <=> (kept = {})
            /\ (orderStatus[o] = "FILLED") <=> (kept = mine)

\* What a worker at each await knows, although it read it earlier: a settled
\* match stays settled, a resolved row stays resolved.  With TypeOK and the
\* first three properties above this is inductive.
WorkerKnows(w) ==
    /\ pc[w] \in {"ghostwb", "ghostack"} =>
          /\ todo[w] \subseteq batch[w] \ live[w]
          /\ MatchesIn(batch[w] \ live[w]) \subseteq onchain
    /\ tx[w] = "mined" => MatchesIn(live[w]) \subseteq onchain
    /\ tx[w] # "none" => pc[w] \in {"receipt", "apply", "writeback", "ack"}
    /\ pc[w] \in {"apply", "writeback", "ack"} =>
          tx[w] = "mined" /\ todo[w] \subseteq live[w]
    /\ pc[w] = "quarantine" =>
          /\ todo[w] \subseteq poison[w]
          /\ \A e \in poison[w] \ todo[w] : status[MatchOf[e]] # "PENDING"
    /\ pc[w] = "poisonack" =>
          /\ todo[w] \subseteq poison[w]
          /\ \A e \in poison[w] : status[MatchOf[e]] # "PENDING"
    /\ pc[w] \in {"unlock", "record", "restore", "cleanack"} =>
          MatchesIn(batch[w]) \subseteq cleaned
    /\ pc[w] = "cleanack" => todo[w] \subseteq batch[w]

KnowledgeIsCurrent == \A w \in Workers : WorkerKnows(w)

\* What all of this amounts to for one match: it leaves PENDING once, with its
\* lock, SETTLED only when it is on the chain, where it settles once, and its
\* entry goes only when it is resolved.  Workers, retries, crashes, abandoned
\* transactions and the order of ACKs and writebacks do not show.
Ledger == INSTANCE MatchLedger
            WITH closed <- MatchesIn(acked), givenUp <- cleaned

ImplementsLedger == Ledger!Spec

\* What a worker settles, ACKs and lets go is in order with what the consumer
\* group owes it and expects of it: StreamConsumer implements the same module.
Delivery == INSTANCE EntryDelivery
              WITH Engines <- Workers, Invalid <- {}, waiting <- queue

ImplementsDelivery == Delivery!Spec

-----------------------------------------------------------------------------
(* Poison isolation, in instances where matches come once, do not conflict *)
(* and do not change validity, and no isSettled read fails or transaction  *)
(* is abandoned (each of those breaks it, see the violation runs).         *)

\* A match the contract would settle is never failed for the sake of an
\* invalid one it was batched with.
ValidMatchNeverFails ==
    \A m \in Matches : kind[m] = "ok" => status[m] # "FAILED"

\* ... and it does settle: a poison batch-mate delays it by finitely many
\* retries at most.
ValidMatchSettles ==
    \A m \in Matches : kind[m] = "ok" ~> m \in onchain

-----------------------------------------------------------------------------
(* Liveness where failures are finite.                                      *)

\* From some point on no match reverts with an error mapContractError does
\* not know (one that does blocks its batch for ever, see NoMatchBlocked).
RevertsAreKnown == <>[](\A m \in Matches : kind[m] # "opaque")

\* The retry, reclaim, quarantine and cleanup paths together empty the
\* stream: once reverts are known, no entry is redelivered for ever.
Drained == RevertsAreKnown => <>[](acked = Entries)

\* Without database failures no match is then left PENDING.
ResolvedEventually ==
    RevertsAreKnown => \A m \in Matches : <>[](status[m] # "PENDING")

-----------------------------------------------------------------------------
(* What comments and docs of the code claim and the code does not do.      *)

\* lock-release.ts:75-77 and README.md:81: the in_orders decrements "fire
\* exactly once".  The batch cleanup repeats the release a writeback or a
\* quarantine of the same batch has made.
ReleasedAtMostOnce == \A m \in Matches : released[m] <= 1

\* README.md:84: "Settlement is already final on-chain, so retries are safe."
\* A retry races the transaction of the attempt that crashed: mined between
\* the isSettled read and the dry-run, it makes the dry-run revert
\* AlreadySettled, which is not retryable, and the settled match is
\* quarantined as FAILED.
FailedNeverOnChain ==
    \A m \in Matches : status[m] = "FAILED" => m \notin onchain

\* processBatch.ts:172-173: a quarantined match is ACKed "so it is never
\* redelivered into a future batch".  A copy that was reclaimed while the
\* batch was in flight waits in the accumulator.
QuarantinedNeverBatched ==
    [][\A w \in Workers : \A e \in batch'[w] \ batch[w] :
          ~ (e \in acked /\ status[MatchOf[e]] = "FAILED")]_vars

\* processBatch.ts:309-311: with isolation no invalid match is left "blocking
\* every valid match it was batched with".  One that reverts with an error
\* mapContractError does not know still does.
NoMatchBlocked == \A m \in Matches : kind[m] = "ok" ~> m \in onchain

\* processBatch.ts:394-395: "If the live tx reverts, the batch stays PENDING
\* and is retried".  A revert met by the gas estimate goes to the cleanup.
LiveRevertIsRetried ==
    [][\A w \in Workers : pc[w] = "submit" => pc'[w] # "unlock"]_vars

\* processBatch.ts:446-448: after a failed apply "we don't ACK Redis - retry
\* will no-op the already-stamped rows".  The retry finds the match settled,
\* releases its lock, ACKs it and applies nothing.
AckedIsApplied ==
    \A e \in acked : MatchOf[e] \in onchain => MatchOf[e] \in applied
=============================================================================
