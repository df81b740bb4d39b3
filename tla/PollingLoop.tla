----------------------------- MODULE PollingLoop -----------------------------
(***************************************************************************)
(* The event loop of one engine process: the coroutines of                 *)
(* settlement/batchProcessor.ts (poll, processBatch, reclaimPending, stop)  *)
(* and the shutdown handler of index.ts.  An action is the code between    *)
(* two awaits, so it is atomic; what interleaves are the awaits.           *)
(*                                                                         *)
(* Of the stream only what the process sees is kept: entries nobody has    *)
(* read (fresh) and the others, of which those not ACKed can be reclaimed. *)
(* How a batch goes is the business of SettlementPipeline; here it         *)
(* succeeds or is cleaned up, or is to be retried.                         *)
(***************************************************************************)
EXTENDS BatchAccumulator

CONSTANTS
    Entries,
    Polls,       \* bound: calls of poll under way at a time
    Reclaims,    \* bound: calls of reclaimPending under way at a time
    Signals,     \* bound: SIGINTs and SIGTERMs received
    None,        \* no value of processingPromise
    Slowness,    \* whether readMatches may outlast a poll interval
    MaxFailures  \* bound: batches that fail and are retried

ASSUME LoopAssumption ==
    /\ {None, "stop", "resolved", "rejected"} \cap Polls = {}
    /\ Slowness \subseteq BOOLEAN /\ MaxFailures \in Nat

\* processBatch is called by a poll or by stop.
Callers == Polls \cup {"stop"}

VARIABLES
    fresh, acked,  \* entries not read yet, entries ACKed
    queue,         \* the accumulator
    due,           \* batchIntervalMs has passed since the last getBatch
    batch,         \* the batch of each call of processBatch
    isRunning,
    promise,       \* processingPromise: the poll whose batch it is
    backoff,       \* Date.now() < nextRetryAt
    failures,
    poll,          \* each poll: "off", "reading" or "settling"
    reclaim,       \* calls of reclaimPending that await their entries
    got,           \* what each of them has read so far
    shutdown,      \* the await each call of shutdown is at
    awaited,       \* what stop awaits: a poll's batch, or how it ended
    exit,          \* "no", "clean" (process.exit(0)) or "rejected"
    late,          \* history: stop found a poll or reclaim awaiting Redis
    slow           \* readMatches may outlast a poll interval, fixed

queueVars == <<fresh, acked, queue, due, batch>>
pollVars == <<promise, backoff, failures, poll>>
stopVars == <<isRunning, shutdown, awaited, exit, late, slow>>
reclaimVars == <<reclaim, got>>
vars == <<queueVars, pollVars, reclaimVars, stopVars>>

Shutdowns == {"none", "sweeper", "await", "drain", "destroy", "close"}

\* main has started the processor.
Init ==
    /\ fresh = Entries
    /\ acked = {}
    /\ queue = {}
    /\ due = FALSE
    /\ batch = [c \in Callers |-> {}]
    /\ isRunning = TRUE
    /\ promise = None
    /\ backoff = FALSE
    /\ failures = 0
    /\ poll = [p \in Polls |-> "off"]
    /\ reclaim = {}
    /\ got = [r \in Reclaims |-> {}]
    /\ shutdown = [s \in Signals |-> "none"]
    /\ awaited = None
    /\ exit = "no"
    /\ late = FALSE
    /\ slow \in Slowness

Alive == exit = "no"

-----------------------------------------------------------------------------
(* processBatch.                                                           *)

\* getBatch, of the queue Q.
TakeBatch(c, Q) ==
    /\ batch' = [batch EXCEPT ![c] = Q]
    /\ queue' = {}
    /\ due' = FALSE

\* The batch is settled or cleaned up; the XACKs of a clean-up may fail.
Succeeds(c) ==
    /\ \E A \in SUBSET batch[c] : acked' = acked \cup A
    /\ UNCHANGED <<backoff, failures>>

\* A retryable error: the entries stay pending, and nextRetryAt is set.
Fails ==
    /\ failures < MaxFailures
    /\ failures' = failures + 1
    /\ backoff' = TRUE
    /\ UNCHANGED acked

-----------------------------------------------------------------------------
(* poll.                                                                   *)

\* Mutant of MayPoll: a batch in flight holds no poll back.
MayPollMeanwhile == isRunning /\ ~backoff

\* Mutant of MayPoll: nextRetryAt is not looked at.
MayPollEagerly == isRunning /\ promise = None

MayPoll == isRunning /\ ~backoff /\ promise = None

\* The second half of poll, with the queue Q.
Decide(p, Q) ==
    \/ /\ ShouldProcess(Q, due)
       /\ TakeBatch(p, Q)
       /\ promise' = p
       /\ poll' = [poll EXCEPT ![p] = "settling"]
    \/ /\ ~ShouldProcess(Q, due)
       /\ queue' = Q
       /\ poll' = [poll EXCEPT ![p] = "off"]
       /\ UNCHANGED <<due, batch, promise>>

\* The timer: the checks, then readMatches if the queue is short.
Tick(p) ==
    /\ Alive
    /\ poll[p] = "off"
    /\ slow \/ \A q \in Polls : poll[q] # "reading"
    /\ MayPoll
    /\ \/ /\ NeedsMoreMatches(queue)
          /\ poll' = [poll EXCEPT ![p] = "reading"]
          /\ UNCHANGED <<queue, due, batch, promise>>
       \/ ~NeedsMoreMatches(queue) /\ Decide(p, queue)
    /\ UNCHANGED <<fresh, acked, backoff, failures, reclaimVars, stopVars>>

\* readMatches returns the entries it was given, or none of them after an
\* error.  Nothing is checked again.
Read(p) ==
    /\ Alive
    /\ poll[p] = "reading"
    /\ \E S \in SUBSET fresh :
        /\ fresh' = fresh \ S
        /\ \E Q \in Added(queue, S) \cup {queue} : Decide(p, Q)
    /\ UNCHANGED <<acked, backoff, failures, reclaimVars, stopVars>>

\* What stop awaits if it awaits the batch of p, which ends so.
Settled(p, how) == awaited' = IF awaited = p THEN how ELSE awaited

\* Mutant of Cleared: the catch of poll leaves processingPromise alone.
ClearedOnSuccess(p, how) ==
    promise' = IF how = "resolved" THEN None ELSE promise

\* poll clears processingPromise, whoever's batch it is by now.
Cleared(p, how) == promise' = None

PollEnds(p) ==
    /\ Alive
    /\ poll[p] = "settling"
    /\ \/ Succeeds(p) /\ Settled(p, "resolved") /\ Cleared(p, "resolved")
       \/ Fails /\ Settled(p, "rejected") /\ Cleared(p, "rejected")
    /\ batch' = [batch EXCEPT ![p] = {}]
    /\ poll' = [poll EXCEPT ![p] = "off"]
    /\ UNCHANGED <<fresh, queue, due, reclaimVars, isRunning, shutdown, exit,
                   late, slow>>

BackoffEnds ==
    /\ Alive
    /\ backoff
    /\ backoff' = FALSE
    /\ UNCHANGED <<queueVars, promise, failures, poll, reclaimVars, stopVars>>

IntervalPasses ==
    /\ Alive
    /\ ~due
    /\ due' = TRUE
    /\ UNCHANGED <<fresh, acked, queue, batch, pollVars, reclaimVars, stopVars>>

-----------------------------------------------------------------------------
(* reclaimPending.                                                         *)

\* The timer: nothing asks whether an earlier call has returned.
Reclaim(r) ==
    /\ Alive
    /\ isRunning
    /\ r \notin reclaim
    /\ reclaim' = reclaim \cup {r}
    /\ got' = [got EXCEPT ![r] = {}]
    /\ UNCHANGED <<queueVars, pollVars, stopVars>>

\* A page of pending entries, also those of a batch in flight.
ReclaimPage(r) ==
    /\ Alive
    /\ r \in reclaim
    /\ \E S \in SUBSET (Entries \ (fresh \cup acked)) :
          got' = [got EXCEPT ![r] = @ \cup S]
    /\ UNCHANGED <<queueVars, pollVars, reclaim, stopVars>>

\* They are added, whatever became of them since they were read.
Reclaimed(r) ==
    /\ Alive
    /\ r \in reclaim
    /\ reclaim' = reclaim \ {r}
    /\ queue' \in Added(queue, got[r])
    /\ got' = [got EXCEPT ![r] = {}]
    /\ UNCHANGED <<fresh, acked, due, batch, pollVars, stopVars>>

Reclaiming ==
    \E r \in Reclaims : Reclaim(r) \/ ReclaimPage(r) \/ Reclaimed(r)

-----------------------------------------------------------------------------
(* shutdown and stop.                                                      *)

At(s, step) == shutdown' = [shutdown EXCEPT ![s] = step]

\* A signal: shutdown awaits sweeper.stop().
Signal(s) ==
    /\ Alive
    /\ shutdown[s] = "none"
    /\ At(s, "sweeper")
    /\ UNCHANGED <<queueVars, pollVars, reclaimVars, isRunning, awaited, exit,
                   late, slow>>

\* stop processes what is left in the accumulator.
Drain(s) ==
    \/ /\ queue # {}
       /\ TakeBatch("stop", queue)
       /\ At(s, "drain")
    \/ /\ queue = {}
       /\ At(s, "destroy")
       /\ UNCHANGED <<queue, due, batch>>

\* Mutant of Stop: the batch in flight is not awaited.
StopAtOnce(s) ==
    /\ Alive
    /\ shutdown[s] = "sweeper"
    /\ isRunning' = FALSE
    /\ late' = (late \/ reclaim # {} \/ \E p \in Polls : poll[p] = "reading")
    /\ Drain(s)
    /\ UNCHANGED <<fresh, acked, pollVars, reclaimVars, awaited, exit, slow>>

\* stop of a processor that runs; it clears the timers.
Stop(s) ==
    /\ Alive
    /\ shutdown[s] = "sweeper"
    /\ isRunning
    /\ isRunning' = FALSE
    /\ late' = (reclaim # {} \/ \E p \in Polls : poll[p] = "reading")
    /\ awaited' = promise
    /\ \/ promise # None /\ At(s, "await") /\ UNCHANGED <<queue, due, batch>>
       \/ promise = None /\ Drain(s)
    /\ UNCHANGED <<fresh, acked, pollVars, reclaimVars, exit, slow>>

\* Any later call returns at once, and shutdown goes on.
StopAgain(s) ==
    /\ Alive
    /\ shutdown[s] = "sweeper"
    /\ ~isRunning
    /\ At(s, "destroy")
    /\ UNCHANGED <<queueVars, pollVars, reclaimVars, isRunning, awaited, exit,
                   late, slow>>

\* The batch stop awaits has ended.  If it failed stop rejects, which nobody
\* handles, and Node ends the process.
StopResumes(s) ==
    /\ Alive
    /\ shutdown[s] = "await"
    /\ \/ awaited = "resolved" /\ Drain(s) /\ UNCHANGED exit
       \/ /\ awaited = "rejected"
          /\ exit' = "rejected"
          /\ UNCHANGED <<queue, due, batch, shutdown>>
    /\ UNCHANGED <<fresh, acked, pollVars, reclaimVars, isRunning, awaited,
                   late, slow>>

DrainEnds(s) ==
    /\ Alive
    /\ shutdown[s] = "drain"
    /\ \/ Succeeds("stop") /\ At(s, "destroy") /\ UNCHANGED exit
       \/ Fails /\ exit' = "rejected" /\ UNCHANGED shutdown
    /\ batch' = [batch EXCEPT !["stop"] = {}]
    /\ UNCHANGED <<fresh, queue, due, promise, poll, reclaimVars, isRunning,
                   awaited, late, slow>>

\* nonceManager.destroy(), then closeRedisClient(), then process.exit(0).
Close(s) ==
    /\ Alive
    /\ \/ shutdown[s] = "destroy" /\ At(s, "close") /\ UNCHANGED exit
       \/ shutdown[s] = "close" /\ exit' = "clean" /\ UNCHANGED shutdown
    /\ UNCHANGED <<queueVars, pollVars, reclaimVars, isRunning, awaited, late,
                   slow>>

-----------------------------------------------------------------------------
ShutdownStep(s) ==
    \/ Stop(s) \/ StopAgain(s) \/ StopResumes(s) \/ DrainEnds(s) \/ Close(s)

\* The process is gone.
Exited == ~Alive /\ UNCHANGED vars

Next ==
    \/ \E p \in Polls : Tick(p) \/ Read(p) \/ PollEnds(p)
    \/ BackoffEnds \/ IntervalPasses \/ Reclaiming
    \/ \E s \in Signals : Signal(s) \/ ShutdownStep(s)
    \/ Exited

Spec == Init /\ [][Next]_vars

\* Timers fire, time passes and every await ends; no signal need come.
Fairness ==
    /\ WF_vars(\E p \in Polls : Tick(p))
    /\ \A p \in Polls : WF_vars(Read(p) \/ PollEnds(p))
    /\ WF_vars(BackoffEnds) /\ WF_vars(IntervalPasses)
    /\ \A s \in Signals : WF_vars(ShutdownStep(s))

FairSpec == Spec /\ Fairness

-----------------------------------------------------------------------------
InFlight == {c \in Callers : batch[c] # {}}

TypeOK ==
    /\ fresh \subseteq Entries
    /\ acked \subseteq Entries \ fresh
    /\ queue \subseteq Entries \ fresh
    /\ Cardinality(queue) <= Capacity
    /\ due \in BOOLEAN
    /\ batch \in [Callers -> SUBSET (Entries \ fresh)]
    /\ isRunning \in BOOLEAN
    /\ promise \in Polls \cup {None}
    /\ backoff \in BOOLEAN
    /\ failures \in 0..MaxFailures
    /\ poll \in [Polls -> {"off", "reading", "settling"}]
    /\ \A p \in Polls : poll[p] = "settling" <=> batch[p] # {}
    /\ promise # None => poll[promise] = "settling"
    /\ reclaim \subseteq Reclaims
    /\ got \in [Reclaims -> SUBSET (Entries \ fresh)]
    /\ shutdown \in [Signals -> Shutdowns]
    /\ awaited \in Polls \cup {None, "resolved", "rejected"}
    /\ exit \in {"no", "clean", "rejected"}
    /\ late \in BOOLEAN
    /\ slow \in BOOLEAN

\* While the process runs and its reads are answered within a poll interval,
\* it settles one batch at a time: poll checks processingPromise before it
\* awaits readMatches, and nothing that ends meanwhile makes that check stale.
OneBatchAtATime ==
    ~slow /\ isRunning => \A c, d \in InFlight : c = d

\* A shutdown by one signal, which finds no poll or reclaim awaiting Redis,
\* exits with nothing in flight and nothing left in the accumulator, if it
\* exits with 0: stop finishes the batch and drains the queue.
CleanExit ==
    /\ exit = "clean" /\ ~late /\ ~slow
    /\ \E s \in Signals : \A t \in Signals \ {s} : shutdown[t] = "none"
    => queue = {} /\ InFlight = {}

\* After a failed batch no poll starts another before nextRetryAt.
BackoffRespected ==
    [][~slow /\ backoff => InFlight' \subseteq InFlight \cup {"stop"}]_vars

\* Entries in the accumulator are taken by a batch: whatever fails, no poll
\* leaves a processingPromise behind that holds back all others.
WorkIsTaken ==
    (queue # {} /\ isRunning) ~> (queue = {} \/ ~isRunning \/ exit # "no")

-----------------------------------------------------------------------------
(* What comments and docs of the code claim and the code does not do.      *)

\* README.md:180-181: a shutdown will "stop polling, finish the current batch,
\* close connections".  A second signal does not wait for what the first waits
\* for, and a poll that awaits Redis meanwhile starts a batch after stop.
ShutdownIsGraceful == exit = "clean" => InFlight = {}

\* batchProcessor.ts:191: "If there's already a processing operation in
\* flight, skip this poll".  One that starts while an earlier poll reads does
\* not see the batch that poll starts.
PollsSkip == isRunning => \A c, d \in InFlight : c = d

\* README.md:180-181: a shutdown will "finish the current batch, close
\* connections".  When that batch fails, stop rejects, the process dies, and
\* neither the accumulator is drained nor the nonce lock released.
ShutdownCompletes == exit # "rejected"
=============================================================================
