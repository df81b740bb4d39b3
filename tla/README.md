# TLA+ models of the settlement engine

The settlement engine takes matched loans from a Redis stream, settles them in
batches on a settlement contract, and keeps PostgreSQL in step with the chain.
This directory holds TLA+ models of it, the TLC runs that check them, and
TLAPS proofs of what matters most. Source paths below are relative to
`src/src/` of the repository; `PROJECT.json` maps every definition to its lines.

Run a check with `tlc -workers 2 -config PipelineSolo.cfg MCPipeline`, and the
proofs with `tlapm SettlementPipeline_proofs.tla`.

## 1. Inventory of the system

| Component | State it keeps | Operations | What makes it hard |
|---|---|---|---|
| Batch pipeline (`settlement/processBatch.ts`, `poisonIsolation.ts`) | none between batches; within one: the batch, `unsettled`, `toSettle`, poison | filter already settled, dry-run, isolate, quarantine, settle, apply, write back, ACK | every `await` is a place where other engines, the chain and crashes get in; three databases are changed one after the other |
| Whole-batch failure cleanup (`batchProcessor.ts` catch, `database/order-failure.ts`) | none | unlock, record FAILED, restore orders, ACK | four steps, each may fail on its own; acts on the batch as taken |
| PostgreSQL rows (`database/lock-release.ts`, `order-failure.ts`, `pending-settlement-sweep.ts`) | `matches.settlement_status`, `user_balance.in_orders`, `orders.filled_quantity/status` | one transaction per match or per batch | clamped subtractions; some transactions are gated on PENDING, some are not |
| Stuck-PENDING sweeper (`settlementSweeper.ts`) | the running sweep | query, isSettled check, remediation | acts on a read that may be old; races workers; LIMIT |
| Contract client (`smartContract.ts`) | none | isSettled multicall, dry-run, settleMatches, receipt | which errors count as retryable decides every path above |
| Nonce manager (`nonceManager.ts`) | Redis lock, counter, pending_tx; heartbeat timer | acquire, confirm, onTxConfirmed, handleFailure | distributed lock with a TTL; failure handling with and without the lock |
| Event writer (`database/apply-settlement.ts`, `pending-collateral-flags.ts`) | positions and flags, with on-chain stamps | read flags, one transaction per event, clear flags | the indexer and retries apply the same events; several events share a row and its one stamp |
| Stream consumer (`redis/settlementMatchConsumer.ts`, `redis/deadLetter.ts`) | the consumer group's PEL, the dead-letter stream | read, re-read own PEL, XPENDING, XCLAIM, dead-letter | redelivery, paging, pages that fail half-way, trimming, processes of one name |
| Accumulator and polling loop (`batchAccumulator.ts`, `batchProcessor.ts`) | queue, `seenIds`, timers, `processingPromise`, back-off | poll, reclaim, start, stop | re-entrant timers, a full queue, shutdown |
| Start and shutdown (`index.ts`) | the signal handlers | reclaim at startup, ordered shutdown | signals at any await, and twice |
| Schema, configuration, logging, clients, ABIs, scripts | none that matters here | | not modelled: field checks, pure I/O, constants |

How they interact. The polling loop reads entries into the accumulator, takes a
batch from it and calls the pipeline. The pipeline calls the contract client,
which calls the nonce manager around each transaction; then the pipeline writes
to PostgreSQL and ACKs in Redis. A throw of the pipeline comes back to the
polling loop: retryable errors leave the entries in the PEL, where a later
reclaim by this or another engine finds them; the others go to the cleanup. The
sweeper shares only PostgreSQL and the chain with the rest. Engines share
everything that is outside the process: the stream, the database, the contract
and the wallet.

What makes each part correct:

* pipeline: a row is SETTLED only if the chain says so; an entry leaves Redis
  only when its match is resolved; a lock is released once, when its row leaves
  PENDING; an invalid match does not fail or block valid ones;
* cleanup: it releases and restores what the batch still held;
* rows: `in_orders` is the sum of the locks of PENDING matches, an order is
  filled by its matches that have not FAILED;
* sweeper: whatever the pipeline leaves PENDING is unlocked in the end, once;
* nonce manager: one holder of the lock, no transaction behind a nonce that is
  never sent, every batch gets its transaction mined;
* event writer: every event of the chain reaches its row once, a queued flag is
  not lost before it is set on-chain;
* stream consumer: an entry leaves Redis only with an XACK, each is ACKed in the
  end, an invalid one is kept as a dead letter, the startup comes to an end;
* polling loop: one batch at a time, back-off kept, no failure that stops the
  polls, an exit that leaves nothing behind.

## 2. Modules

| Module | Models | State |
|---|---|---|
| `MatchLedger` | abstract: what the engine promises about a match, without processes, streams or failures | `status`, `released`, `onchain`, `closed`, `givenUp` |
| `EntryDelivery` | abstract: what the consumer group and the batches owe each other, without a stream, a PEL, a cap or a database | `acked`, per process `waiting`, `batch` |
| `MatchStore` | the rows of PostgreSQL and the transactions on them, one operator each | `status`, `inOrders`, `filled`, `orderStatus`; `released` is a history variable |
| `SettlementPipeline` | a batch from delivery to ACK, the cleanup, the contract, crashes and redelivery; extends `MatchStore`, implements `MatchLedger` and `EntryDelivery` | per engine `pc`, `queue`, `batch`, `live`, `todo`, `poison`, `clean`, `tx`; shared `acked`, `onchain`, `kind`, `orphans`; histories `applied`, `cleaned` |
| `SettlementSweeper` | the sweeper beside the engines; extends `SettlementPipeline`, implements `MatchLedger` too | `aged`; per sweeper `sweepPc`, `candidates`, `unsettled`; history `swept` |
| `NonceManager` | the Redis lock and counter, settleBatch's calls to them, the wallet's mempool | `lock`, `nonce`, `pendingTx`, `mined`, `mempool`; per caller `pc`, `my`, `heartbeat`, `left`; history `lapsed` |
| `BatchAccumulator` | the accumulator's operators, used by the next two | none of its own |
| `StreamConsumer` | the consumer group and the processes that read from it, from XADD to XACK, with startup, crashes and dead letters; implements `EntryDelivery` | Redis: `stream`, `last`, `owner` (the PEL), `stale`, `dead`; per process `mode`, `queue`, `batch`, `scan`, `page`, `got`, `size` |
| `PollingLoop` | the coroutines of one process: polls, batches, reclaims, stop and shutdown | `queue`, `promise`, `poll`, `batch`, `backoff`, `reclaim`, `got`, `shutdown`, `awaited`, `exit` |
| `EventWriters` | engine, indexer and users at the position tables and `pending_collateral_flags` | `stamp`, `rows`, `set`, per transaction `job`, `todo`, `encoded`; histories `count`, `wanted`, `unset` |
| `MCPipeline`, `MCSweeper`, `MCNonce`, `MCConsumer`, `MCEvents` | model values, payloads and symmetry for TLC (`PollingLoop` needs none) | |
| `*_proofs` | theorems and proofs, section 5 | |

The pipeline takes three things from its neighbours as given and says how: an
un-ACKed entry is delivered again (`StreamConsumer!AllHandled` is where that
comes from), the nonce manager lets a transaction through or throws
(`NonceManager!AllSettle`), and one process runs one batch at a time
(`PollingLoop!OneBatchAtATime`). The first is an interface: `EntryDelivery` states
the safety of it, that what a process gets is valid and un-ACKed, and that it is ACKed only out
of a batch that still has it. `StreamConsumer` has the readers in detail and a batch
in two steps, `SettlementPipeline` the batch in detail and a delivery in one step, and each is
shown to implement it, with `waiting` the accumulator and the list of a
reclaim under way. Two workers of the pipeline are two processes, or
two batches of one process where the last does not hold.

### How they correspond to the code

*Atomicity.* An action is the code between two awaits on an outside system: one
RPC, one Redis command, one committed transaction. A transaction that rolls
back is the same action with the store unchanged. Loops over a batch
(`Promise.all` or `for ... of`) take their entries in any order, `todo` holds
those still to do, and `Continue` moves on after the last.

*Pipeline.* `pc` names the await an engine is at, in the order of the code:

    filter -> (ghostwb -> ghostack) -> simulate
      -> submit                                      dry-run is clean
      -> isolate -> (resimulate) -> quarantine -> poisonack -> submit
    submit -> receipt -> apply -> writeback -> ack -> idle
    any BatchProcessingError(retryable = false):  unlock -> record -> restore -> cleanack
    any other throw:                              idle (Retry), entries stay un-ACKed

`live` is the code's `unsettled` and later `toSettle`; `clean` is
`survivorsSimulateClean`; `kind[m]` is what the contract would say of a match
(`ok`, `invalid` with an error `mapContractError` knows and calls
non-retryable, `opaque` with one it does not know), and `Errors(S)` the
verdicts a call with S may get. `Conflicts` are matches that settle alone but
not together. `Flip` changes a match's validity. A transaction an engine stops
waiting for goes to `orphans` and is mined or dropped at any later moment.

The failures are `crash`; `read`, an isSettled read that counts as false;
`rpc`, a call that throws before the broadcast (also a paused contract);
`receipt`, an answer lost after it; `gas`, the wallet cannot pay, which
`mapContractError` calls non-retryable; `db`, a transaction rolled back;
`redis`, an XACK or XDEL that throws, whether it was done or not.

*Delivery.* An un-ACKed entry may be handed to any engine at any time, also
while a batch with it is in flight: `getBatch` clears `seenIds`, and
PEL re-reads and XCLAIM bring entries back. The accumulator only refuses an
entry it holds. `queue` also has what a reclaim has read and not yet added, so a
batch is some of it: the rest stays, and another engine may ACK it meanwhile.

*Rows.* The lock of a match is `amount + settlement fee + trade fee` on the
lender's side and `settlement fee + trade fee` on the borrower's, with the
maker and taker fees assigned as `splitTradeFees` does; `Clamp` is
`GREATEST(0, ...)`. `filled_settlement_fee` follows the same arithmetic as
`filled_quantity` and is left out.

*Sweeper.* One sweep at a time in each process of `Sweepers` (`sweepPromise`
is the process's own): select the oldest `SweepLimit` aged PENDING rows, read
isSettled for all, then remediate one by one. A read that fails skips its row.
The sweeper is behind a configuration flag that is off by default; the
pipeline's runs are the system without it.

*Nonces.* A caller runs one `settleBatch` at a time. The lock is free, held by
a caller, or held by the value of a process that has crashed ("dead"). A missing key is
`NoKey`; INCR and DECR take it for 0, as Redis does. The look at the transaction
of an earlier run is a `try` whose `catch` repeats what it was to do, so an error in
it is answered by a second attempt (`Trying`), and only an error of that is thrown. The
lock lapses where no heartbeat runs ("expire") or where one runs and cannot
extend it ("extend", which the code only logs). The node accepts a
transaction whose nonce is neither mined nor in the mempool, also behind a gap,
and mines in nonce order.

*Consumer.* An action is one Redis command; the XADDs and XACKs for the invalid
entries of a page belong to the command that read the page. `Prefixes` says how
far through a page the code gets: to its end, to an entry whose fields are gone
(trimmed), or, when Redis fails, less far. Which of the entries read so far survive an
error differs: `readMatches` drops them, the reclaim keeps them.
`scan` is the place in `processPendingEntries`: the loop over the own PEL
("own"), the XPENDING that counts ("list"), the one that lists ("detail") and XCLAIM
("claim"). Idle time is one bit (`stale`).
`got` and `size` are the list of that function, whose length counts
repetitions, because the first loop reads the same page again. A process has one
reclaim at a time here, although its timer may start a second (`PollingLoop` has that):
two reclaims of one process send what those of two processes of one name send.

*Polling loop.* `poll[p]` is the p-th call of `poll` under way, `reclaim` the set of
reclaims under way (the timer does not look whether one is), `promise` the
one whose batch `processingPromise` is, `batch[c]` what `processBatch` was
called with by a poll or by `stop`. Node runs the code between two awaits alone,
so the checks and what follows up to the next await are one action. `slow`
is chosen at the start: whether `readMatches` may take longer than a poll
interval. `awaited` is what `stop` waits for, and keeps how it ended.

*Events.* Events are numbered as the chain orders them, so a stamp is a number
and 0 none. `key` says which row an event is about; several events may share a
row. `job` follows one transaction through step 0.5, the receipt, the events
and the flags. `Lose` is every way in which the engine stops before it is done:
the retry finds the matches settled and does not come back to the events.

### External parts

What the matching engine's db-writer leaves at match time (`StoreInit`), the
contract (`Collides`, `Settles`, `Mine`, `Flip`, `ResolveOrphan`), the passage
of time (`Age`) and the node's handling of nonces (`IsNextNonce`, `Fresh`,
`Behind`) are not in this repository. They are modelled as widely as the code's
use of them allows and marked external in the map. The same holds for

* Redis: XREADGROUP and XCLAIM enter an entry in a PEL and reset its idle time,
  XCLAIM forgets a pending entry that is no longer in the stream (Redis 7), a
  trimmed entry of the own PEL comes back without fields, which
  `fieldsArrayToObject` throws on;
* Node: a rejected promise nobody handles ends the process, which is what the
  `void shutdown(...)` of `index.ts` makes of a rejecting `stop`;
* `applyOnChainEffect` of `@centuari-labs/on-chain-effects`: its check and its
  mutation are one database transaction. Whether a row counts as stamped by an
  event when its stamp is that event's ("matching") or also when it is a later
  one's ("covering") is not visible here, so both are checked. With one event per row
  they are the same; with several, "matching" may apply one twice and
  "covering" may skip one, and `NotAppliedTwice` and `EventsArrive` say so;
* the indexer, which follows the chain, and the users, who queue, withdraw and
  unset collateral flags.

## 3. Runs

| Run | Properties | What it shows |
|---|---|---|
| `PipelineSolo` | `TypeOK`, `SettledOnlyIfOnChain`, `ReleasedExactlyOnce`, `AckedIsResolved`, `FailedMatchIsUnlocked`, `LocksConserved`, `OrdersConserved`, `Drained`, `ResolvedEventually`, `ImplementsLedger` | one engine, three entries for two matches (one comes twice), a pair that conflicts, matches that revert with a known error or an unknown one, one change of validity, one failure (a crash, a false isSettled read, a lost receipt or an empty gas wallet): everything agrees, once reverts are known the stream empties and every row leaves PENDING, and each step is one of the ledger |
| `PipelinePair` | `ReleasedExactlyOnce`, `KnowledgeIsCurrent`, `ImplementsDelivery` | two engines hold the same entries and race through every step, with a crash, a lost receipt or a failed transaction; none ACKs what is not of its batch |
| `PipelineIsolation` | `ValidMatchNeverFails`, `ValidMatchSettles`, `Drained` | an invalid match costs its batch-mates finitely many retries and nothing else, and the stream empties, under two RPC, database or Redis failures |
| `Sweeper` | `SweeperTypeOK`, `SweptReleasedOnce`, `StuckEventuallyResolved`, `ImplementsLedger` | the sweeps of two processes and an engine act on the same match in any order, a read, a query or a transaction of theirs fails; a match the pipeline would retry for ever is unlocked (that sums are conserved beside them is the theorem `SweptConserves`) |
| `Nonce` | `NoGap`, `AllSettle` | two engines with one wallet: failed and lost sends, receipt and lock timeouts, RPC errors and failures after the release neither open a gap nor stop a batch for good |
| `NonceLock` | `TypeOK`, `MutualExclusion`, `GapsBounded` | crashes, expiries with and without a heartbeat, Redis and RPC errors, lost receipts: a lock is freed by its owner or by its TTL, and leaked nonces do not multiply |
| `Consumer` | `TypeOK`, `NothingLost`, `PoisonIsKept`, `ImplementsDelivery`, `AllHandled`, `StartupCompletes` | two processes, one of which may die for good; a backlog of two entries and a third that arrives at any time, pages of two, one poison entry; an accumulator smaller than a page; a crash, an error within a page, a dead letter or a batch that fails |
| `Polling` | `TypeOK`, `OneBatchAtATime`, `CleanExit`, `BackoffRespected`, `WorkIsTaken` | two overlapping polls, a reclaim, a failing batch and two signals, with fast and with slow reads |
| `Events` | `TypeOK`, `NotAppliedTwice`, `WantedIsKept`, `EventsArrive` | four events of two transactions, with rows of their own or shared; reverts, two failures, three changes of a flag |
| `FindDoubleRelease` | `ReleasedAtMostOnce` (violated) | see section 6 |
| `FindSettledFailed` | `FailedNeverOnChain` (violated) | see section 6 |
| `FindTrimmed` | `NothingLost` (violated) | see section 6 |

Every property of a passing run also has a mutant in `PROJECT.json`: a
definition changed as a plausible bug would change it, under which the run
finds the property violated. The mutated forms stand beside the definitions.

Some properties hold on a condition, which is part of their statement, and
section 6 tells what happens without it:

* the conservation properties exclude matches a whole-batch cleanup has touched
  (`cleaned`), which is not gated on the status (`FindDoubleRelease`);
  the ledger has an action of its own for these (`GiveUp`, `Unlock`, `Record`);
* `Drained` and `ResolvedEventually` ask that from some point on no match reverts
  with an error `mapContractError` does not know (`RevertsAreKnown`): such a match
  keeps its batch PENDING for ever;
* `PipelineIsolation` leaves out what would break it, and
  `StuckEventuallyResolved` a match `Hidden` behind settled rows (`StuckIsCaught`);
* `NothingLost` needs a stream that does not outgrow `REDIS_STREAM_MAXLEN`
  (`FindTrimmed`);
* `OneBatchAtATime`, `BackoffRespected` and `CleanExit` need reads that are
  answered within a poll interval (`~slow`, see `PollsSkip`), and `CleanExit` a single
  signal that finds no read or reclaim under way (`~late`, see `ShutdownIsGraceful`) and a
  batch that does not fail (`ShutdownCompletes`);
* `FailedMatchIsUnlocked` is checked where no database transaction fails;
* `NoGap` and `AllSettle` are checked where the counter does not fall below zero
  (`FailureIsRecovered`).

### Bounds, and why they are enough

* Two matches share a lend order and a lender, so sums over a wallet and an
  order mix both; all amounts and fees differ. A third entry carries the first
  match again. Batches therefore have one, two or three entries, and
  survivors, poison and already settled entries occur together.
* Two engines, because every race in the code is between a holder of an entry
  and another, or between an engine and the chain.
* `MaxFaults` is 1 or 2: the code reacts to each failure by giving up the batch
  or by swallowing it, and the batch that follows starts from scratch; the
  interesting sequences (a failure, then the retry, then the reclaim) need one,
  and two cover a failure of the retry. `MaxFlips` is 1.
* Consumer: pages of two entries (`ReadCount`), a list that stops at two (`Cap`) and an
  accumulator that holds one (`Capacity`), for three entries: a page that is full makes
  its loop ask again, one that fails half-way has an entry before and one after the
  failure, the cap and the capacity are both met, and there is an entry beyond each. The
  code has `batchSize * 3` and `batchSize * 5`; what matters is that either can be smaller
  than what is pending. The two processes have names of their own; one name for both is
  left to the theorems, which do without these bounds, and to `FindTrimmed`.
* Polling: two entries, two polls at a time, two signals and a reclaim; a third poll does
  what the second does, a third signal what the second does. Reclaims that overlap are
  in the theorems, which hold for any set of them.
* Sweeper: two sweepers; `SweepLimit` 1 with two matches puts one of them beyond the LIMIT.
  A third sweeper does what the second does.
* Events: a lend and a borrow of one transaction, two lends of one, lends of two,
  each with the same row or with different ones.
* Nonces: two callers with one or two batches each, `PoolLimit` 3, up to three failures.
  Nonces are compared and incremented only, so small ones stand for all;
  `StartNonce = 2` with two failures keeps the counter from falling below zero
  (section 6 has what happens there).
* The theorems of section 5 have none of these bounds.

Each run finishes in under four minutes on two cores. No run switches deadlock
checking off: when everything is done, `Quiet` is the only step (`Exited` when
the process is gone, `Finished` when all events are handled), and a state in
which an engine is stuck would be reported.

### Fairness

`FairSpec` gives weak fairness to each engine's own steps (the event loop goes
on, `setInterval` polls), to delivery of each un-ACKed entry to each engine
(the reclaim interval), to the chain (a broadcast transaction is mined or
dropped), to the expiry of an unused lock, and in `FairSweptSpec` to the sweep
interval and to the passage of time. Nothing is assumed fair that the code does not keep
retrying: failures, flips and crashes have no fairness, and are finite only
through `MaxFaults` and `MaxFlips`.

In `Consumer`, a process that is up goes on polling, reclaiming and settling (its
three timers are fair one by one, since a poll that always finds work does
not starve the reclaim), only the processes in `Restarted` are sure to be
started again, and the idle time of a pending entry grows. A crashed process may
stay down for ever, and its entries are handled all the same. In `Polling` the
timers fire and what is awaited ends; signals need not come. In `Events` only the
indexer is fair: no engine process need survive for an event to arrive.

## 4. What is not modelled, and the plan

Not modelled, because it keeps no state these properties tell apart:

* the ABI encoding, the transports and the log parsing of `smartContract.ts`, and its
  clients' caches;
* the fields `matchSchema` checks (an entry is valid or `Invalid`), the
  configuration, logging, the clients of Redis and PostgreSQL, scripts;
* `executeWithRetry` and the error codes of `connection.ts`: a transaction commits
  or throws;
* the bound of the dead-letter stream, and the length of a back-off.

Not modelled, because it is not in this repository: what users do to an order
while it is restored (`order-failure.ts:139` overwrites its status), and
the row arithmetic of `applyOnChainEffect`.

Left of the plan: one model of consumer and pipeline together, of which
`EntryDelivery` is the interface (each of the two modules implements it, but that `Deliver` is fair is still an assumption, which
`AllHandled` stands for).

## 5. Proofs

All theorems hold for every value of the constants, under the named
assumptions of the modules, which give the constants their types and say that the
matches are finitely many, amounts positive and fees natural numbers, as
`matchSchema` has them (`TermsAssumption`). TLC evaluates them in every run.

| Theorem | Says |
|---|---|
| `SettlementPipeline_proofs!TypeCorrect` | `Spec => []TypeOK` |
| `Invariance` | `Spec => []IInv` |
| `SettledImpliesOnChain` | `Spec => []SettledOnlyIfOnChain` |
| `LockReleasedExactlyOnce` | `Spec => []ReleasedExactlyOnce` |
| `NoMatchIsLost` | `Spec => []AckedIsResolved` |
| `FailedIsUnlocked` | `"db" \notin FaultKinds => (Spec => []FailedMatchIsUnlocked)` |
| `NoStaleKnowledge` | `Spec => []KnowledgeIsCurrent` |
| `IsolationInvariance` | `Isolated => (Spec => []IsolationInv)` |
| `ValidMatchesNeverFail` | `Isolated => (Spec => []ValidMatchNeverFails)` |
| `NoBatchIsCleanedUp` | `Isolated => (Spec => [](cleaned = {}))` |
| `SettlementRefinement_proofs!PipelineImplementsLedger` | `Spec => ImplementsLedger` |
| `PipelineImplementsDelivery` | `Spec => ImplementsDelivery` |
| `SettlementConservation_proofs!LocksAreConserved` | `Spec => []LocksConserved` |
| `OrdersAreConserved` | `Spec => []OrdersConserved` |
| `SettlementSweeper_proofs!SweptInvariance` | `SweptSpec => []SInv` |
| `SweeperTypeCorrect` | `SweptSpec => []SweeperTypeOK` |
| `SweptIsReleasedOnce` | `SweptSpec => []SweptReleasedOnce` |
| `SweptImplementsLedger` | `SweptSpec => ImplementsLedger` |
| `SweptImplementsDelivery` | `SweptSpec => ImplementsDelivery` |
| `SweptConserves` | `SweptSpec => [](LocksConserved /\ OrdersConserved)` |
| `NonceManager_proofs!TypeCorrect` | `Spec => []TypeOK` |
| `CallersExclude` | `Spec => []MutualExclusion` |
| `NoTransactionBehindAGap` | `Calm => (Spec => []NoGap)` |
| `LeaksAreBounded` | `Spec => []GapsBounded` |
| `StreamConsumer_proofs!ConsumerTypeCorrect` | `Spec => []TypeOK` |
| `PoisonStays` | `Spec => []PoisonIsKept` |
| `NothingIsLost` | `MaxLen >= N => (Spec => []NothingLost)` |
| `MemoryStaysBacked` | `MaxLen >= N => (Spec => []MemoryIsBacked)` |
| `ConsumerImplementsDelivery` | `Spec => ImplementsDelivery` |
| `PollingLoop_proofs!LoopTypeCorrect` | `Spec => []TypeOK` |
| `BatchesDoNotOverlap` | `Spec => []OneBatchAtATime` |
| `BackoffIsRespected` | `Spec => BackoffRespected` |
| `ExitIsClean` | `Spec => []CleanExit` |
| `EventWriters_proofs!WritersInvariance` | `Spec => []WritersInv` |
| `WritersTypeCorrect` | `Spec => []TypeOK` |
| `NoEventTwice` | `Spec => []NotAppliedTwice` |
| `NoEventMissing` | `Spec => []SeenIsApplied` |
| `FlagsAreKept` | `Spec => []WantedIsKept` |

*Pipeline.* None of the three safety properties is inductive: that a row
becomes SETTLED only if its match is final depends on what the engine read some
steps ago. `KnowledgeIsCurrent` states, for each await, what an engine knows
there although it read it earlier: the entries it takes for settled are settled
(`ghostwb`, `apply`, `writeback`, `ack`), the rows it takes for quarantined have
left PENDING (`poisonack`), the batch it cleans up is in `cleaned`. It survives
other engines' steps because the facts in it are monotonic, which is the lemma
`OthersKnow`: `onchain` and `cleaned` grow, and a row does not go back to
PENDING. `IInv` is `TypeOK`, the three properties and `KnowledgeIsCurrent`; the proof
has a lemma per action, and groups those that leave the store alone.
`FailedMatchIsUnlocked` has an invariant of its own, `UnlockInv`: the matches a cleanup is about to
record have been unlocked, which holds until they are recorded because nobody takes an
unlock back.

*Poison isolation.* `Isolated` is what `PipelineIsolation` assumes, with any number of
entries and of RPC, database and Redis failures: one engine, each match in one
entry, no conflicts, no change of validity, and no failed isSettled read, lost receipt,
crash or empty gas wallet. Without the first four a match that is valid alone may be
settled by somebody else meanwhile, or revert beside another; of the failures, each
either makes a settled match look unsettled, leaves a transaction behind that settles it later, or
is non-retryable for the whole batch. `Isolates` follows the engine: what it
submits next is not on the chain (`Unsent`), so a dry-run that reverts with a known error has an
invalid match in it (`DryRunTells`), the single dry-runs leave the survivors
valid, and the dry-run of the survivors cannot revert. Hence `poison` is
invalid, `clean` stays true and nothing leads to the cleanup (`NoBatchIsCleanedUp`).

*Refinement.* The mapping takes the ledger's `closed` to the matches of the ACKed
entries and `givenUp` to `cleaned`; the other variables have the same names. Under
`IInv` each action is one of the ledger's or a stutter: a writeback is `Book` if the
row is PENDING and nothing otherwise, a quarantine or a remediation is `Fail`, an ACK
is `Close`, whose guard is `AckedIsResolved`'s conclusion, Mine is `Settle`.

*Delivery.* For the pipeline the invariant is `CarriesInv`: `live`, `todo` and
`poison` are parts of the batch, an idle engine has none, so each ACK in any of
the four loops, and one that throws half-way, is an ACK of the
batch. For the consumer it is `AckedHasLeft`: an ACKed entry is in no PEL, so what
XREADGROUP, XPENDING and XCLAIM come back with is un-ACKed; it needs no
bound on the stream. The sweeper ACKs nothing and keeps both.

*Conservation.* The lemmas it starts with prove how a sum over a finite set changes with
one summand. Induction theorems are out of the provers' reach (below), so each such
lemma takes a smallest set for which it would fail, from the
well-foundedness of the subset order. Each transaction moves one summand, and
`GREATEST` never clamps, because the summand is part of the sum. The sweeper's
theorems reuse these lemmas per transaction.

*Nonce manager.* `MutualExclusion` follows from `LockHeld`: between SET NX and
the release a caller that has not lapsed is the value of the lock.
`NoGap` holds where nobody crashes, no lock expires in use and Redis answers
(`Calm`). The invariant `GapInv` bounds the counter and every nonce a caller
works with by the top of the mempool, plus one for the one caller that has
raised the counter and has not yet broadcast; a caller that fails outside of
the lock only lowers the counter, so it preserves the bound. `NonceIsNext`
of section 6 is why `Calm` is needed. `GapsBounded` is what is left where processes
crash, Redis fails and locks expire in use, and it needs no hypothesis.
Failures of every kind count in it, also those that only lower the counter: beside a caller
that has outlived its lock, the nonce such a failure makes two callers use
leaves an INCR nobody takes back, so a bound that counts crashes, Redis errors and expiries
alone is false. Its invariant
`Bounded` takes for the top (`Top`) the transactions sent plus the failures, less those
that are `Owed`: a caller whose lock expired before its INCR has cost a failure
already and may still raise the counter beside the new owner; the INCR pays for it, so
`Top` never falls. A failure between INCR and the broadcast leaves the counter one too
high and raises `Top` by one. What is left is a late caller that resets the counter
below or beside the owner's nonce. `Spotless` bounds it: while every failure is owed,
only the lock's owner is past its INCR and the only transaction in the
mempool is its own.

*Consumer.* `NothingLost` and the memory's backing depend on each other: a
process ACKs what it holds, so it must hold only what was delivered. `DeliveryInv`
is both. That only valid matches are in memory (`OnlyMatches`) needs no bound on
the stream. `PoisonIsKept` counts: each invalid entry ACKed without a dead letter has
cost one failure.

*Polling loop.* `LoopInv` says, for fast reads, that one poll reads at a time, that it
does so with no promise set and no back-off, and that a batch in flight is the
promise's. `ExitInv` follows a lone shutdown through its awaits: at "await" the only
batch in flight is the one it waits for, at "drain" its own, afterwards there is none
and nothing can start one.

*Event writers.* `StampsTell` says that a stamp is that of an event of the row which was
added to it, `StampsCover` that it is no earlier than any event added. The second keeps the
check from letting an event in again, where it asks for a covering stamp or a row has one event;
the first makes the event that a check skips one that is there, where it asks for
a matching stamp or a row has one event. These are the conditions of `NotAppliedTwice` and of
`EventsArrive`, whose safety half is `SeenIsApplied`. For the flags, `CarriedIsSet`: an
engine or the indexer deletes a row only after a mined transaction that carried it, and
what that carried was set on-chain.

Only model-checked: the liveness properties (`Drained`, `ResolvedEventually`,
`ValidMatchSettles`, `StuckEventuallyResolved`, `AllSettle`, `AllHandled`,
`StartupCompletes`, `WorkIsTaken`, `EventsArrive`), since liveness under fairness and
ENABLED are out of the prover's reach, as is induction over data. Every other
property of a passing run is stated by a theorem, `NoGap`, `NothingLost` and others under
the conditions above. `MemoryIsBacked` is proved and not in a run.

## 6. Where the code does not do what it says

Three claims have a run of their own whose trace is the evidence; the shortest
traces read:

* `ReleasedAtMostOnce` (`batchProcessor.ts:303`). The repository's README, line 81:
  the `in_orders` decrements "fire exactly once"; `lock-release.ts:33-34`: `GREATEST`
  is a guard against "a manual SQL fix". A batch quarantines one
  match, its survivors still revert, and the cleanup unlocks the batch as it was
  taken: the quarantined match a second time, at the cost of the wallet's other
  locks.
* `FailedNeverOnChain` (`smartContract.ts:296`). README, line 84: "Settlement is
  already final on-chain, so retries are safe." An engine crashes with its
  transaction in the mempool; the retry reads isSettled as false, the
  transaction is mined, the dry-run reverts with AlreadySettled, which is not
  retryable, and the settled match is quarantined as FAILED and its orders
  re-listed.
* `NothingLost` with a `MaxLen` smaller than the backlog (`processBatch.ts:501`).
  README, line 6: "at-least-once delivery semantics". A batch succeeds and trims the
  stream by age: the entries behind it, un-ACKed or not read yet, are gone. The
  matches stay PENDING, and only the sweeper, if it is on, unlocks them.

Other claims stand in the modules beside these; each is false on the instance in brackets
(one engine, two entries, no symmetry and no fault where nothing else is said). The first
eight are hazards the code does not avoid, so section 3 only has properties that exclude
them or say what holds in spite of them.

* `AckedIsApplied` (at `processBatch.ts:243`) [Kinds ok, one `db` fault].
  `processBatch.ts:447-448`: "retry will no-op the already-stamped rows via their
  stamps". A database error in the apply step sends the batch back; the retry finds its
  match settled, takes the already-settled path, which unlocks and ACKs, and applies
  nothing. Only the indexer brings the events (`EventsArrive`).
* `FailedMatchIsUnlocked` (at `batchProcessor.ts:307`) [Conflicts `{{m1, m2}}`, one `db`
  fault]. `order-failure.ts:23-24`: "Prevents reserved amounts from being stuck
  forever". Two matches conflict and go to the cleanup, the unlock fails and is logged,
  the rows are marked FAILED and the entries ACKed; the sweeper looks at PENDING rows
  only.
* `GhostIsReconciled` (at `settlementSweeper.ts:178`) [`FairSweptSpec`, one sweeper,
  Kinds ok, one `db` fault]. `processBatch.ts:126-127`: "any row left PENDING is picked
  up by the stuck-PENDING reconciliation sweeper". A writeback fails and is swallowed,
  the entry is ACKed; the sweeper finds the row settled, reports it and leaves it
  PENDING and locked, sweep after sweep.
* `StuckIsCaught` (at `database/pending-settlement-sweep.ts:105`) [`FairSweptSpec`, one
  sweeper, Kinds ok and opaque, one `db` fault, `SweepLimit` 1].
  `processBatch.ts:396-397`: "a genuinely-stuck match is ultimately caught by the
  stuck-PENDING reconciliation sweeper". Such a settled row is the oldest and fills the
  LIMIT for ever; the match behind it reverts with an error the engine does not know.
* `PollsSkip` (at `batchProcessor.ts:192`) [the instance of `Polling`].
  `batchProcessor.ts:191`: "If there's already a processing operation in flight, skip
  this poll". Two polls start and read, each finds a batch and starts it; the second
  promise takes the place of the first.
* `ShutdownIsGraceful` (at `index.ts:130`) [the instance of `Polling`]. README, lines
  180-181: "stop polling, finish the current batch, close connections". A poll awaits
  Redis when `stop` runs, which finds no promise to await; then the poll starts a batch,
  and the process exits.
* `ShutdownCompletes` (at `batchProcessor.ts:161`) [the instance of `Polling`]. The same
  lines. The batch `stop` awaits fails, `stop` rejects, and the rest of the shutdown is
  skipped.
* `FailureIsRecovered` (at `nonceManager.ts:209`) [`FairSpec`, one caller, one batch,
  one `rpc` fault, `StartNonce` 5, `StartKey` NoKey]. `nonceManager.ts:208`: "tx was
  never sent, decrement nonce". The counter does not exist, getTransactionCount fails,
  DECR makes it -1; each later batch takes -1, cannot encode it, and puts -1 back.

The others:

| Claim | Fails with | Because |
|---|---|---|
| `OneInFlight` | the instance of `Nonce` | a receipt timeout releases the lock with the transaction in the mempool; `nonceManager.ts:61-62` promises one in flight per wallet |
| `QuarantinedNeverBatched` | Kinds ok, invalid; no fault | a reclaimed copy waits in the accumulator |
| `NoMatchBlocked` (under `FairSpec`) | Kinds ok, opaque; no fault | an unknown revert is retryable and precedes isolation |
| `LiveRevertIsRetried` | Kinds ok, invalid; one flip | the gas estimate's revert is decoded and non-retryable |
| `SweptNeverSettles` | Kinds ok; no fault, `SweepLimit` 2 | remediation acts on an earlier isSettled read |
| `NonceIsNext` | two callers, one `crash`, `StartKey` NoKey | INCR comes before anything records the nonce |

Comments that say something else than the code, without a claim of their own:

* `batchProcessor.ts:283`: non-retryable entries "remain in pending state for manual
  intervention"; they are cleaned up, ACKed and deleted (lines 303-341).
* `redis/settlementMatchConsumer.ts:394`: claiming goes on "until no more stale entries
  are available"; it stops at the first page that is not full, and claims from the
  first page only.
* `redis/settlementMatchConsumer.ts:435-436`: "Use 0ms min idle time"; the idle time is
  `xclaimMinIdleMs`.
