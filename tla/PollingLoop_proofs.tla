-------------------------- MODULE PollingLoop_proofs --------------------------
(***************************************************************************)
(* Proofs about PollingLoop, for any number of polls, signals, entries and *)
(* failures.  TypeOK is inductive.  The invariant LoopInv adds where the   *)
(* polls can be while reads are answered within a poll interval: at most   *)
(* one awaits Redis, then no batch of a poll is in flight and no backoff   *)
(* runs, and processingPromise is the batch of the only poll that settles. *)
(* ExitInv says the same of the steps of a shutdown by a single signal.    *)
(***************************************************************************)
EXTENDS PollingLoop, FiniteSetTheorems, TLAPS

-----------------------------------------------------------------------------
(* The accumulator and the two ways a batch starts.                        *)

LEMMA EmptyQueue == Cardinality({}) = 0 /\ Cardinality({}) <= Capacity
BY FS_EmptySet, AccumulatorAssumption

LEMMA AddedQueue ==
    ASSUME NEW Q, NEW S, NEW T \in Added(Q, S)
    PROVE  T \subseteq Q \cup S /\ Cardinality(T) <= Capacity
BY DEF Added

\* An empty accumulator is never due.
LEMMA ProcessedIsNotEmpty ==
    ASSUME NEW Q, due \in BOOLEAN, ShouldProcess(Q, due)
    PROVE  Q # {}
BY EmptyQueue, AccumulatorAssumption DEF ShouldProcess, NeedsMoreMatches

LEMMA SentinelsDiffer ==
    ASSUME NEW p \in Polls
    PROVE  /\ p # None /\ p # "stop" /\ p # "resolved" /\ p # "rejected"
           /\ p \in Callers /\ "stop" \in Callers
BY LoopAssumption DEF Callers

\* What the second half of poll leaves.
LEMMA DecideEffect ==
    ASSUME TypeOK, NEW p \in Polls, poll[p] # "settling", NEW Q, Decide(p, Q)
    PROVE  \/ /\ Q # {} /\ queue' = {} /\ due' = FALSE
              /\ batch' = [batch EXCEPT ![p] = Q]
              /\ promise' = p
              /\ poll' = [poll EXCEPT ![p] = "settling"]
           \/ /\ queue' = Q
              /\ poll' = [poll EXCEPT ![p] = "off"]
              /\ UNCHANGED <<due, batch, promise>>
BY ProcessedIsNotEmpty DEF Decide, TakeBatch, TypeOK

-----------------------------------------------------------------------------
(* Type correctness.                                                       *)

LEMMA InitType == Init => TypeOK
<1> SUFFICES ASSUME Init
             PROVE  TypeOK
  OBVIOUS
<1>1. Cardinality(queue) <= Capacity
  BY EmptyQueue DEF Init
<1>2. failures \in 0..MaxFailures /\ slow \in BOOLEAN
  BY LoopAssumption DEF Init
<1>3. /\ batch \in [Callers -> SUBSET (Entries \ fresh)]
      /\ poll \in [Polls -> {"off", "reading", "settling"}]
      /\ shutdown \in [Signals -> Shutdowns]
  BY DEF Init, Shutdowns
<1>4. \A p \in Polls : poll[p] = "settling" <=> batch[p] # {}
  BY SentinelsDiffer DEF Init
<1>5. /\ fresh \subseteq Entries /\ acked \subseteq Entries \ fresh
      /\ queue \subseteq Entries \ fresh
      /\ promise = None /\ awaited = None /\ exit = "no"
      /\ {due, isRunning, backoff, late} \subseteq BOOLEAN
      /\ reclaim \subseteq Reclaims
      /\ got \in [Reclaims -> SUBSET (Entries \ fresh)]
  BY DEF Init
<1> QED
  BY <1>1, <1>2, <1>3, <1>4, <1>5 DEF TypeOK

LEMMA DecideType ==
    ASSUME TypeOK, NEW p \in Polls, poll[p] # "settling", NEW Q, Decide(p, Q),
           NEW F, F \subseteq fresh, fresh' = F, Q \subseteq Entries \ F,
           Cardinality(Q) <= Capacity,
           UNCHANGED <<acked, backoff, failures, reclaimVars, stopVars>>
    PROVE  TypeOK'
<1>1. /\ fresh' \subseteq Entries /\ acked' \subseteq Entries \ fresh'
      /\ batch \in [Callers -> SUBSET (Entries \ fresh')]
  BY DEF TypeOK
<1>2. CASE /\ Q # {} /\ queue' = {} /\ due' = FALSE
           /\ batch' = [batch EXCEPT ![p] = Q]
           /\ promise' = p
           /\ poll' = [poll EXCEPT ![p] = "settling"]
  <2>1. batch' \in [Callers -> SUBSET (Entries \ fresh')]
    BY <1>1, <1>2, SentinelsDiffer
  <2>2. poll' \in [Polls -> {"off", "reading", "settling"}]
    BY <1>2 DEF TypeOK
  <2>3. \A q \in Polls : poll'[q] = "settling" <=> batch'[q] # {}
    BY <1>2, SentinelsDiffer DEF TypeOK
  <2>4. promise' \in Polls \cup {None} /\ poll'[promise'] = "settling"
    BY <1>2, <2>2 DEF TypeOK
  <2>5. /\ queue' \subseteq Entries \ fresh' /\ Cardinality(queue') <= Capacity
        /\ due' \in BOOLEAN
    BY <1>2, EmptyQueue
  <2> QED
    BY <1>1, <2>1, <2>2, <2>3, <2>4, <2>5 DEF TypeOK, stopVars, reclaimVars
<1>3. CASE /\ queue' = Q
           /\ poll' = [poll EXCEPT ![p] = "off"]
           /\ UNCHANGED <<due, batch, promise>>
  <2>1. poll' \in [Polls -> {"off", "reading", "settling"}]
    BY <1>3 DEF TypeOK
  <2>2. \A q \in Polls : poll'[q] = "settling" <=> batch'[q] # {}
    BY <1>3 DEF TypeOK
  <2>3. promise' # None => poll'[promise'] = "settling"
    BY <1>3 DEF TypeOK
  <2>4. /\ queue' \subseteq Entries \ fresh' /\ Cardinality(queue') <= Capacity
        /\ batch' \in [Callers -> SUBSET (Entries \ fresh')]
    BY <1>1, <1>3
  <2> QED
    BY <1>1, <1>3, <2>1, <2>2, <2>3, <2>4 DEF TypeOK, stopVars, reclaimVars
<1> QED
  BY <1>2, <1>3, DecideEffect

LEMMA PollType ==
    ASSUME TypeOK, NEW p \in Polls, Tick(p) \/ Read(p) \/ PollEnds(p)
    PROVE  TypeOK'
<1>1. CASE Tick(p)
  <2>1. CASE poll' = [poll EXCEPT ![p] = "reading"]
             /\ UNCHANGED <<queue, due, batch, promise>>
    <3>1. poll[p] = "off"
      BY <1>1 DEF Tick
    <3>2. /\ poll' \in [Polls -> {"off", "reading", "settling"}]
          /\ \A q \in Polls : poll'[q] = "settling" <=> poll[q] = "settling"
      BY <2>1, <3>1 DEF TypeOK
    <3>3. promise' # None => poll'[promise'] = "settling"
      BY <2>1, <3>2 DEF TypeOK
    <3> QED
      BY <1>1, <2>1, <3>2, <3>3 DEF Tick, TypeOK, stopVars, reclaimVars
  <2>2. CASE Decide(p, queue)
    BY <1>1, <2>2, DecideType DEF Tick, TypeOK
  <2> QED
    BY <1>1, <2>1, <2>2 DEF Tick
<1>2. CASE Read(p)
  <2>1. PICK S \in SUBSET fresh :
          /\ fresh' = fresh \ S
          /\ \E Q \in Added(queue, S) \cup {queue} : Decide(p, Q)
    BY <1>2 DEF Read
  <2>2. PICK Q \in Added(queue, S) \cup {queue} : Decide(p, Q)
    BY <2>1
  <2>3. Q \subseteq queue \cup S /\ Cardinality(Q) <= Capacity
    BY <2>2, AddedQueue DEF TypeOK
  <2>4. Q \subseteq Entries \ (fresh \ S)
    BY <2>1, <2>3 DEF TypeOK
  <2> QED
    BY <1>2, <2>1, <2>2, <2>3, <2>4, DecideType DEF Read
<1>3. CASE PollEnds(p)
  <2>1. /\ batch' = [batch EXCEPT ![p] = {}]
        /\ poll' = [poll EXCEPT ![p] = "off"]
        /\ promise' = None
        /\ UNCHANGED <<fresh, queue, due, reclaimVars, isRunning, shutdown, exit,
                       late, slow>>
    BY <1>3 DEF PollEnds, Cleared
  <2>2. /\ acked' \subseteq Entries \ fresh
        /\ backoff' \in BOOLEAN /\ failures' \in 0..MaxFailures
    <3>1. batch[p] \subseteq Entries \ fresh
      BY SentinelsDiffer DEF TypeOK
    <3>2. CASE Succeeds(p)
      BY <3>1, <3>2 DEF Succeeds, TypeOK
    <3>3. CASE Fails
      BY <3>3, LoopAssumption DEF Fails, TypeOK
    <3> QED
      BY <1>3, <3>2, <3>3 DEF PollEnds
  <2>3. awaited' \in Polls \cup {None, "resolved", "rejected"}
    BY <1>3 DEF PollEnds, Settled, TypeOK
  <2>4. /\ batch' \in [Callers -> SUBSET (Entries \ fresh)]
        /\ poll' \in [Polls -> {"off", "reading", "settling"}]
        /\ \A q \in Polls : poll'[q] = "settling" <=> batch'[q] # {}
    BY <2>1, SentinelsDiffer DEF TypeOK
  <2> QED
    BY <2>1, <2>2, <2>3, <2>4 DEF TypeOK, reclaimVars
<1> QED
  BY <1>1, <1>2, <1>3

LEMMA TimeType ==
    ASSUME TypeOK, BackoffEnds \/ IntervalPasses \/ Reclaiming
    PROVE  TypeOK'
<1>1. CASE BackoffEnds
  BY <1>1 DEF BackoffEnds, TypeOK, queueVars, stopVars, reclaimVars
<1>2. CASE IntervalPasses
  BY <1>2 DEF IntervalPasses, TypeOK, pollVars, stopVars, reclaimVars
<1>3. ASSUME NEW r \in Reclaims, Reclaim(r)
      PROVE  TypeOK'
  BY <1>3 DEF Reclaim, TypeOK, queueVars, pollVars, stopVars
<1>4. ASSUME NEW r \in Reclaims, ReclaimPage(r)
      PROVE  TypeOK'
  BY <1>4 DEF ReclaimPage, TypeOK, queueVars, pollVars, stopVars
<1>5. ASSUME NEW r \in Reclaims, Reclaimed(r)
      PROVE  TypeOK'
  <2>1. queue' \in Added(queue, got[r])
    BY <1>5 DEF Reclaimed
  <2>2. queue' \subseteq queue \cup got[r] /\ Cardinality(queue') <= Capacity
    BY <2>1, AddedQueue
  <2>3. got[r] \subseteq Entries \ fresh
    BY DEF TypeOK
  <2> QED
    BY <1>5, <2>2, <2>3 DEF Reclaimed, TypeOK, pollVars, stopVars
<1> QED
  BY <1>1, <1>2, <1>3, <1>4, <1>5 DEF Reclaiming

\* The accumulator, when stop may drain it.
LEMMA DrainType ==
    ASSUME TypeOK, NEW s \in Signals,
           Drain(s) \/ UNCHANGED <<queue, due, batch>>, UNCHANGED <<fresh, poll>>
    PROVE  /\ queue' \subseteq Entries \ fresh /\ Cardinality(queue') <= Capacity
           /\ due' \in BOOLEAN
           /\ batch' \in [Callers -> SUBSET (Entries \ fresh)]
           /\ \A p \in Polls : batch'[p] = batch[p]
<1>1. CASE /\ queue' = {} /\ due' = FALSE
           /\ batch' = [batch EXCEPT !["stop"] = queue]
  <2>1. /\ batch' \in [Callers -> SUBSET (Entries \ fresh)]
        /\ \A p \in Polls : batch'[p] = batch[p]
    BY <1>1, SentinelsDiffer DEF TypeOK, Callers
  <2> QED
    BY <1>1, <2>1, EmptyQueue
<1>2. CASE UNCHANGED <<queue, due, batch>>
  BY <1>2 DEF TypeOK
<1> QED
  BY <1>1, <1>2 DEF Drain, TakeBatch

LEMMA ShutdownType ==
    ASSUME TypeOK, NEW s \in Signals, Signal(s) \/ ShutdownStep(s)
    PROVE  TypeOK'
<1>1. shutdown' \in [Signals -> Shutdowns]
  BY DEF Signal, ShutdownStep, Stop, StopAgain, StopResumes, DrainEnds, Close,
         Drain, At, TypeOK, Shutdowns
<1>2. CASE Signal(s) \/ StopAgain(s) \/ Close(s)
  BY <1>1, <1>2 DEF Signal, StopAgain, Close, TypeOK, queueVars, pollVars, reclaimVars
<1>3. CASE Stop(s)
  <2>1. /\ isRunning' = FALSE /\ awaited' = promise
        /\ late' = (reclaim # {} \/ \E p \in Polls : poll[p] = "reading")
        /\ Drain(s) \/ UNCHANGED <<queue, due, batch>>
        /\ UNCHANGED <<fresh, acked, pollVars, reclaimVars, exit, slow>>
    BY <1>3 DEF Stop
  <2>2. late' \in BOOLEAN
    BY <2>1 DEF TypeOK
  <2>3. /\ queue' \subseteq Entries \ fresh /\ Cardinality(queue') <= Capacity
        /\ due' \in BOOLEAN
        /\ batch' \in [Callers -> SUBSET (Entries \ fresh)]
        /\ \A p \in Polls : batch'[p] = batch[p]
    BY <2>1, DrainType DEF pollVars
  <2> QED
    BY <1>1, <2>1, <2>2, <2>3 DEF TypeOK, pollVars, reclaimVars
<1>4. CASE StopResumes(s)
  <2>1. /\ Drain(s) \/ UNCHANGED <<queue, due, batch>>
        /\ exit' \in {exit, "rejected"}
        /\ UNCHANGED <<fresh, acked, pollVars, reclaimVars, isRunning, awaited,
                       late, slow>>
    BY <1>4 DEF StopResumes
  <2>2. /\ queue' \subseteq Entries \ fresh /\ Cardinality(queue') <= Capacity
        /\ due' \in BOOLEAN
        /\ batch' \in [Callers -> SUBSET (Entries \ fresh)]
        /\ \A p \in Polls : batch'[p] = batch[p]
    BY <2>1, DrainType DEF pollVars
  <2> QED
    BY <1>1, <2>1, <2>2 DEF TypeOK, pollVars, reclaimVars
<1>5. CASE DrainEnds(s)
  <2>1. /\ batch' = [batch EXCEPT !["stop"] = {}]
        /\ exit' \in {exit, "rejected"}
        /\ UNCHANGED <<fresh, queue, due, promise, poll, reclaimVars, isRunning,
                       awaited, late, slow>>
    BY <1>5 DEF DrainEnds
  <2>2. /\ batch' \in [Callers -> SUBSET (Entries \ fresh)]
        /\ \A p \in Polls : batch'[p] = batch[p]
    BY <2>1, SentinelsDiffer DEF TypeOK
  <2>3. /\ acked' \subseteq Entries \ fresh
        /\ backoff' \in BOOLEAN /\ failures' \in 0..MaxFailures
    <3>1. batch["stop"] \subseteq Entries \ fresh
      BY DEF TypeOK, Callers
    <3>2. CASE Succeeds("stop")
      BY <3>1, <3>2 DEF Succeeds, TypeOK
    <3>3. CASE Fails
      BY <3>3, LoopAssumption DEF Fails, TypeOK
    <3> QED
      BY <1>5, <3>2, <3>3 DEF DrainEnds
  <2> QED
    BY <1>1, <2>1, <2>2, <2>3 DEF TypeOK, reclaimVars
<1> QED
  BY <1>2, <1>3, <1>4, <1>5 DEF ShutdownStep

LEMMA NextType == TypeOK /\ [Next]_vars => TypeOK'
<1> SUFFICES ASSUME TypeOK, [Next]_vars
             PROVE  TypeOK'
  OBVIOUS
<1>1. CASE UNCHANGED vars
  BY <1>1 DEF TypeOK, vars, queueVars, pollVars, stopVars, reclaimVars
<1> QED
  BY <1>1, PollType, TimeType, ShutdownType DEF Next, Exited

\* The state keeps its types, and processingPromise is the batch of a poll
\* that settles one: for any number of polls, signals, entries and failures.
THEOREM LoopTypeCorrect == Spec => []TypeOK
<1> QED
  BY InitType, NextType, PTL DEF Spec

-----------------------------------------------------------------------------
(* The polls, while reads are answered within a poll interval.             *)

LoopInv ==
    ~slow =>
        /\ \A p, q \in Polls : poll[p] = "reading" /\ poll[q] = "reading"
                                   => p = q
        /\ \A p \in Polls : poll[p] = "settling" => promise = p
        /\ \A p \in Polls : poll[p] = "reading" =>
               promise = None /\ (Alive => ~backoff)

\* stop starts a batch only once isRunning is FALSE.
RunInv ==
    isRunning => /\ batch["stop"] = {} /\ ~late
                 /\ \A s \in Signals : shutdown[s] \in {"none", "sweeper"}

LEMMA PollLoop ==
    ASSUME TypeOK, LoopInv, NEW p \in Polls, Tick(p) \/ Read(p) \/ PollEnds(p)
    PROVE  LoopInv'
<1> SUFFICES ASSUME ~slow
             PROVE  LoopInv'
  BY DEF Tick, Read, PollEnds, stopVars, LoopInv
<1>1. CASE Tick(p)
  <2>1. /\ Alive /\ \A q \in Polls : poll[q] # "reading"
        /\ poll[p] = "off" /\ ~backoff /\ promise = None
        /\ UNCHANGED <<backoff, exit>>
    BY <1>1 DEF Tick, MayPoll, stopVars
  <2>2. \A q \in Polls : poll[q] = "off"
    BY <2>1, SentinelsDiffer DEF LoopInv, TypeOK
  <2>3. CASE poll' = [poll EXCEPT ![p] = "reading"]
             /\ UNCHANGED <<queue, due, batch, promise>>
    BY <2>1, <2>2, <2>3 DEF LoopInv, TypeOK
  <2>4. CASE Decide(p, queue)
    BY <2>1, <2>2, <2>4, DecideEffect DEF LoopInv, TypeOK
  <2> QED
    BY <1>1, <2>3, <2>4 DEF Tick
<1>2. CASE Read(p)
  <2>1. /\ poll[p] = "reading" /\ promise = None
        /\ \A q \in Polls \ {p} : poll[q] = "off"
    BY <1>2, SentinelsDiffer DEF Read, LoopInv, TypeOK
  <2>2. PICK Q : Decide(p, Q)
    BY <1>2 DEF Read
  <2>3. \/ promise' = p /\ poll' = [poll EXCEPT ![p] = "settling"]
        \/ poll' = [poll EXCEPT ![p] = "off"]
    BY <2>1, <2>2, DecideEffect
  <2> QED
    BY <2>1, <2>3 DEF LoopInv, TypeOK
<1>3. CASE PollEnds(p)
  <2>1. /\ poll[p] = "settling" /\ promise' = None
        /\ poll' = [poll EXCEPT ![p] = "off"]
    BY <1>3 DEF PollEnds, Cleared
  <2>2. \A q \in Polls \ {p} : poll[q] = "off"
    BY <2>1, SentinelsDiffer DEF LoopInv, TypeOK
  <2>3. \A q \in Polls : poll'[q] = "off"
    BY <2>1, <2>2 DEF TypeOK
  <2> QED
    BY <2>3 DEF LoopInv
<1> QED
  BY <1>1, <1>2, <1>3

LEMMA LoopInvariance ==
    TypeOK /\ LoopInv /\ RunInv /\ [Next]_vars => LoopInv' /\ RunInv'
<1> SUFFICES ASSUME TypeOK, LoopInv, RunInv, [Next]_vars
             PROVE  LoopInv' /\ RunInv'
  OBVIOUS
<1>1. ASSUME NEW p \in Polls, Tick(p) \/ Read(p) \/ PollEnds(p)
      PROVE  LoopInv' /\ RunInv'
  <2>1. UNCHANGED <<isRunning, shutdown, late>>
    BY <1>1 DEF Tick, Read, PollEnds, stopVars
  <2>2. batch'["stop"] = batch["stop"]
    <3>1. CASE Tick(p) \/ Read(p)
      <4>1. PICK Q : Decide(p, Q) \/ UNCHANGED batch
        BY <3>1 DEF Tick, Read
      <4>2. poll[p] # "settling"
        BY <3>1 DEF Tick, Read
      <4> QED
        BY <4>1, <4>2, DecideEffect, SentinelsDiffer DEF TypeOK
    <3>2. CASE PollEnds(p)
      BY <3>2, SentinelsDiffer DEF PollEnds, TypeOK
    <3> QED
      BY <1>1, <3>1, <3>2
  <2> QED
    BY <1>1, <2>1, <2>2, PollLoop DEF RunInv
<1>2. CASE BackoffEnds \/ IntervalPasses \/ Reclaiming \/ Exited
           \/ UNCHANGED vars
  <2>1. UNCHANGED <<promise, poll, batch, isRunning, shutdown, exit, slow,
                    late>>
        /\ (backoff' => backoff)
    BY <1>2 DEF BackoffEnds, IntervalPasses, Reclaiming, Reclaim, ReclaimPage,
                Reclaimed, Exited, vars, queueVars, pollVars, stopVars
  <2> QED
    BY <2>1 DEF LoopInv, RunInv, Alive
<1>3. ASSUME NEW s \in Signals, Signal(s)
      PROVE  LoopInv' /\ RunInv'
  <2>1. /\ UNCHANGED <<promise, poll, batch, isRunning, exit, slow, backoff,
                       late>>
        /\ shutdown' = [shutdown EXCEPT ![s] = "sweeper"]
    BY <1>3 DEF Signal, At, queueVars, pollVars
  <2> QED
    BY <2>1 DEF LoopInv, RunInv, Alive, TypeOK
<1>4. ASSUME NEW s \in Signals, Stop(s) \/ StopAgain(s) \/ StopResumes(s)
                                \/ Close(s)
      PROVE  LoopInv' /\ RunInv'
  <2>1. Alive /\ UNCHANGED <<promise, poll, backoff, slow>>
    BY <1>4 DEF Stop, StopAgain, StopResumes, Close, pollVars, queueVars
  <2>2. ~isRunning'
    BY <1>4 DEF Stop, StopAgain, StopResumes, Close, RunInv
  <2> QED
    BY <2>1, <2>2 DEF LoopInv, RunInv
<1>5. ASSUME NEW s \in Signals, DrainEnds(s)
      PROVE  LoopInv' /\ RunInv'
  <2>1. /\ UNCHANGED <<promise, poll, slow, isRunning>>
        /\ ~isRunning /\ Alive
        /\ (backoff' => backoff \/ ~Alive')
    BY <1>5 DEF DrainEnds, Succeeds, Fails, RunInv, Alive
  <2> QED
    BY <2>1 DEF LoopInv, RunInv
<1> QED
  BY <1>1, <1>2, <1>3, <1>4, <1>5 DEF Next, ShutdownStep

LEMMA InitLoop == Init => LoopInv /\ RunInv
BY DEF Init, LoopInv, RunInv, Callers

\* A running process whose reads are answered within a poll interval settles
\* one batch at a time, whatever fails and whatever is reclaimed meanwhile.
THEOREM BatchesDoNotOverlap == Spec => []OneBatchAtATime
<1>1. TypeOK /\ LoopInv /\ RunInv => OneBatchAtATime
  <2> SUFFICES ASSUME TypeOK, LoopInv, RunInv, ~slow, isRunning,
                      NEW c \in InFlight, NEW d \in InFlight
               PROVE  c = d
    BY DEF OneBatchAtATime
  <2>1. c \in Polls /\ d \in Polls
    BY DEF InFlight, Callers, RunInv
  <2>2. poll[c] = "settling" /\ poll[d] = "settling"
    BY <2>1 DEF InFlight, TypeOK
  <2> QED
    BY <2>1, <2>2 DEF LoopInv
<1> QED
  BY <1>1, InitLoop, LoopInvariance, LoopTypeCorrect, PTL DEF Spec

\* After a failed batch no poll starts another one before nextRetryAt.
THEOREM BackoffIsRespected == Spec => BackoffRespected
<1>1. TypeOK /\ LoopInv /\ [Next]_vars =>
        [~slow /\ backoff => InFlight' \subseteq InFlight \cup {"stop"}]_vars
  <2> SUFFICES ASSUME TypeOK, LoopInv, Next, ~slow, backoff
               PROVE  InFlight' \subseteq InFlight \cup {"stop"}
    BY DEF vars
  <2>1. ASSUME NEW q \in Polls, batch[q] = {}
        PROVE  batch'[q] = {}
    <3>1. ASSUME NEW p \in Polls, Tick(p) \/ Read(p)
          PROVE  FALSE
      BY <3>1 DEF Tick, Read, MayPoll, LoopInv
    <3>2. ASSUME NEW p \in Polls, PollEnds(p)
          PROVE  batch'[q] = {}
      BY <2>1, <3>2, SentinelsDiffer DEF PollEnds, TypeOK
    <3>3. CASE BackoffEnds \/ IntervalPasses \/ Reclaiming \/ Exited
      BY <2>1, <3>3 DEF BackoffEnds, IntervalPasses, Reclaiming, Reclaim,
                        ReclaimPage, Reclaimed, Exited, vars, queueVars
    <3>4. ASSUME NEW s \in Signals, Signal(s) \/ StopAgain(s) \/ Close(s)
          PROVE  batch'[q] = {}
      BY <2>1, <3>4 DEF Signal, StopAgain, Close, queueVars
    <3>5. ASSUME NEW s \in Signals, Stop(s) \/ StopResumes(s)
          PROVE  batch'[q] = {}
      <4>1. Drain(s) \/ UNCHANGED <<queue, due, batch>>
        BY <3>5 DEF Stop, StopResumes
      <4>2. UNCHANGED <<fresh, poll>>
        BY <3>5 DEF Stop, StopResumes, pollVars
      <4> QED
        BY <2>1, <4>1, <4>2, DrainType
    <3>6. ASSUME NEW s \in Signals, DrainEnds(s)
          PROVE  batch'[q] = {}
      BY <2>1, <3>6, SentinelsDiffer DEF DrainEnds, TypeOK
    <3> QED
      BY <3>1, <3>2, <3>3, <3>4, <3>5, <3>6 DEF Next, ShutdownStep
  <2> QED
    BY <2>1 DEF InFlight, Callers
<1> QED
  BY <1>1, InitLoop, LoopInvariance, LoopTypeCorrect, PTL
     DEF Spec, BackoffRespected

-----------------------------------------------------------------------------
(* A shutdown by one signal.                                               *)

Alone(s) == \A t \in Signals \ {s} : shutdown[t] = "none"

Settling == {p \in Polls : poll[p] = "settling"}

\* At "await" the only batch in flight is the one stop awaits; at "drain" it
\* is stop's own; then nothing is left, and nothing can come any more.
ExitInvOf(s) ==
    /\ shutdown[s] \notin {"none", "sweeper"} => ~isRunning
    /\ ~isRunning => /\ shutdown[s] \notin {"none", "sweeper"}
                     /\ reclaim = {}
                     /\ \A p \in Polls : poll[p] # "reading"
    /\ shutdown[s] = "await" => /\ Settling \subseteq {awaited}
                                /\ batch["stop"] = {}
    /\ shutdown[s] = "drain" => Settling = {} /\ queue = {}
    /\ shutdown[s] \in {"destroy", "close"} => InFlight = {} /\ queue = {}
    /\ exit = "clean" => shutdown[s] = "close"

ExitInv ==
    ~late /\ ~slow => \A s \in Signals : Alone(s) => ExitInvOf(s)

LEMMA InFlightIs ==
    ASSUME TypeOK
    PROVE  InFlight = Settling \cup (IF batch["stop"] = {} THEN {} ELSE {"stop"})
BY SentinelsDiffer DEF InFlight, Settling, Callers, TypeOK

LEMMA ExitOfTime ==
    ASSUME TypeOK, NEW s \in Signals, ExitInvOf(s),
           BackoffEnds \/ IntervalPasses \/ Reclaiming \/ Exited
               \/ UNCHANGED vars
    PROVE  ExitInvOf(s)'
<1>1. /\ UNCHANGED <<shutdown, isRunning, poll, awaited, batch, exit>>
      /\ ~isRunning /\ reclaim = {} => UNCHANGED <<queue, reclaimVars>>
  BY DEF BackoffEnds, IntervalPasses, Reclaiming, Reclaim, ReclaimPage,
         Reclaimed, Exited, vars, queueVars, pollVars, stopVars
<1> QED
  BY <1>1 DEF ExitInvOf, Settling, InFlight, reclaimVars

LEMMA ExitOfPoll ==
    ASSUME TypeOK, LoopInv, RunInv, ~slow, NEW s \in Signals, ExitInvOf(s),
           NEW p \in Polls, Tick(p) \/ Read(p) \/ PollEnds(p)
    PROVE  ExitInvOf(s)'
<1>1. UNCHANGED <<shutdown, isRunning, reclaimVars, exit>>
  BY DEF Tick, Read, PollEnds, stopVars
<1>2. CASE Tick(p)
  <2>1. isRunning
    BY <1>2 DEF Tick, MayPoll
  <2> QED
    BY <1>1, <2>1, <1>2 DEF ExitInvOf, Tick, Alive
<1>3. CASE Read(p)
  <2>1. isRunning
    BY <1>3 DEF Read, ExitInvOf
  <2> QED
    BY <1>1, <2>1, <1>3 DEF ExitInvOf, Read, Alive
<1>4. CASE PollEnds(p)
  <2>1. /\ poll[p] = "settling" /\ poll' = [poll EXCEPT ![p] = "off"]
        /\ batch' = [batch EXCEPT ![p] = {}]
        /\ UNCHANGED queue
        /\ Alive
    BY <1>4 DEF PollEnds
  <2>2. Settling' = {}
    <3>1. \A q \in Polls : poll[q] = "settling" => q = p
      BY <2>1 DEF LoopInv
    <3> QED
      BY <2>1, <3>1 DEF Settling, TypeOK
  <2>3. batch'["stop"] = batch["stop"]
    BY <2>1, SentinelsDiffer DEF TypeOK
  <2>4. shutdown[s] \notin {"destroy", "close"}
    BY <2>1, SentinelsDiffer DEF ExitInvOf, InFlight, TypeOK
  <2>5. \A q \in Polls : poll'[q] = "reading" => poll[q] = "reading"
    BY <2>1 DEF TypeOK
  <2> QED
    BY <1>1, <2>1, <2>2, <2>3, <2>4, <2>5 DEF ExitInvOf, reclaimVars
<1> QED
  BY <1>2, <1>3, <1>4

\* The accumulator and the batches, when stop has nothing more to await.
LEMMA ExitOfDrain ==
    ASSUME TypeOK, NEW s \in Signals, Settling = {}, batch["stop"] = {},
           Drain(s), UNCHANGED poll
    PROVE  /\ queue' = {}
           /\ \/ shutdown' = [shutdown EXCEPT ![s] = "drain"] /\ Settling' = {}
              \/ shutdown' = [shutdown EXCEPT ![s] = "destroy"] /\ InFlight' = {}
<1>1. Settling' = {}
  BY DEF Settling
<1>2. CASE TakeBatch("stop", queue) /\ At(s, "drain")
  BY <1>1, <1>2 DEF TakeBatch, At
<1>3. CASE queue = {} /\ At(s, "destroy") /\ UNCHANGED <<queue, due, batch>>
  <2>1. InFlight = {}
    BY InFlightIs
  <2>2. InFlight' = InFlight
    BY <1>3 DEF InFlight
  <2> QED
    BY <1>3, <2>1, <2>2 DEF At
<1> QED
  BY <1>2, <1>3 DEF Drain

LEMMA ExitOfShutdown ==
    ASSUME TypeOK, LoopInv, RunInv, ~slow, ~late', NEW s \in Signals,
           ExitInvOf(s), Signal(s) \/ ShutdownStep(s)
    PROVE  ExitInvOf(s)'
<1>1. CASE Signal(s)
  <2>1. /\ shutdown' = [shutdown EXCEPT ![s] = "sweeper"]
        /\ shutdown[s] = "none" /\ exit = "no"
        /\ UNCHANGED <<isRunning, exit>>
    BY <1>1 DEF Signal, At, Alive
  <2>2. shutdown'[s] = "sweeper" /\ isRunning
    BY <2>1 DEF ExitInvOf, TypeOK
  <2> QED
    BY <2>1, <2>2 DEF ExitInvOf
<1>2. CASE Stop(s)
  <2>1. /\ ~isRunning' /\ isRunning /\ exit = "no" /\ shutdown[s] = "sweeper"
        /\ reclaim = {} /\ \A p \in Polls : poll[p] # "reading"
        /\ awaited' = promise
        /\ UNCHANGED <<poll, reclaimVars, exit>>
    BY <1>2 DEF Stop, Alive, pollVars
  <2>2. Settling \subseteq {promise} /\ batch["stop"] = {}
    BY <2>1 DEF Settling, LoopInv, RunInv
  <2>3. CASE At(s, "await") /\ UNCHANGED <<queue, due, batch>>
    <3>1. shutdown'[s] = "await"
      BY <2>3 DEF At, TypeOK
    <3>2. Settling' \subseteq {awaited'} /\ batch'["stop"] = {}
      BY <2>1, <2>2, <2>3 DEF Settling
    <3> QED
      BY <2>1, <3>1, <3>2 DEF ExitInvOf, reclaimVars
  <2>4. CASE promise = None /\ Drain(s)
    <3>1. Settling = {}
      BY <2>2, <2>4, SentinelsDiffer DEF Settling
    <3>2. \/ shutdown'[s] = "drain" /\ queue' = {} /\ Settling' = {}
          \/ shutdown'[s] = "destroy" /\ queue' = {} /\ InFlight' = {}
      BY <2>1, <2>2, <2>4, <3>1, ExitOfDrain DEF TypeOK
    <3> QED
      BY <2>1, <3>2 DEF ExitInvOf, reclaimVars
  <2> QED
    BY <1>2, <2>3, <2>4 DEF Stop
<1>3. CASE StopAgain(s)
  BY <1>3 DEF StopAgain, ExitInvOf
<1>4. CASE StopResumes(s)
  <2>1. /\ shutdown[s] = "await" /\ exit = "no" /\ ~isRunning
        /\ UNCHANGED <<poll, reclaimVars, isRunning, awaited>>
    BY <1>4 DEF StopResumes, Alive, pollVars, ExitInvOf
  <2>2. CASE awaited = "resolved" /\ Drain(s) /\ UNCHANGED exit
    <3>1. Settling = {} /\ batch["stop"] = {}
      BY <2>1, <2>2, SentinelsDiffer DEF ExitInvOf, Settling
    <3>2. \/ shutdown'[s] = "drain" /\ queue' = {} /\ Settling' = {}
          \/ shutdown'[s] = "destroy" /\ queue' = {} /\ InFlight' = {}
      BY <2>1, <2>2, <3>1, ExitOfDrain DEF TypeOK
    <3> QED
      BY <2>1, <2>2, <3>2 DEF ExitInvOf, reclaimVars
  <2>3. CASE exit' = "rejected" /\ UNCHANGED <<queue, due, batch, shutdown>>
    BY <2>1, <2>3 DEF ExitInvOf, Settling, reclaimVars
  <2> QED
    BY <1>4, <2>2, <2>3 DEF StopResumes
<1>5. CASE DrainEnds(s)
  <2>1. /\ shutdown[s] = "drain" /\ exit = "no"
        /\ batch' = [batch EXCEPT !["stop"] = {}]
        /\ UNCHANGED <<queue, poll, reclaimVars, isRunning>>
    BY <1>5 DEF DrainEnds, Alive
  <2>2. Settling' = {} /\ queue' = {} /\ Settling = {}
    BY <2>1 DEF Settling, ExitInvOf
  <2>3. InFlight' = {}
    BY <2>1, <2>2, SentinelsDiffer DEF InFlight, Settling, Callers, TypeOK
  <2>4. CASE At(s, "destroy") /\ UNCHANGED exit
    <3>1. shutdown'[s] = "destroy"
      BY <2>4 DEF At, TypeOK
    <3> QED
      BY <2>1, <2>2, <2>3, <2>4, <3>1 DEF ExitInvOf, reclaimVars
  <2>5. CASE exit' = "rejected" /\ UNCHANGED shutdown
    BY <2>1, <2>2, <2>5 DEF ExitInvOf, reclaimVars
  <2> QED
    BY <1>5, <2>4, <2>5 DEF DrainEnds
<1>6. CASE Close(s)
  <2>1. /\ shutdown[s] \in {"destroy", "close"} /\ exit = "no"
        /\ UNCHANGED <<queue, batch, poll, reclaimVars, isRunning>>
        /\ \/ shutdown'[s] = "close" /\ UNCHANGED exit
           \/ shutdown'[s] = "close" /\ exit' = "clean"
    BY <1>6 DEF Close, At, Alive, queueVars, pollVars, TypeOK
  <2>2. InFlight' = {} /\ queue' = {}
    BY <2>1 DEF InFlight, ExitInvOf
  <2> QED
    BY <2>1, <2>2 DEF ExitInvOf, reclaimVars
<1> QED
  BY <1>1, <1>2, <1>3, <1>4, <1>5, <1>6 DEF ShutdownStep

LEMMA ExitInvariance ==
    TypeOK /\ LoopInv /\ RunInv /\ ExitInv /\ [Next]_vars => ExitInv'
<1> SUFFICES ASSUME TypeOK, LoopInv, RunInv, ExitInv, [Next]_vars,
                    ~late', ~slow', NEW s \in Signals, Alone(s)'
             PROVE  ExitInvOf(s)'
  BY DEF ExitInv
<1>1. ~slow
  BY DEF Next, Tick, Read, PollEnds, BackoffEnds, IntervalPasses, Reclaiming,
         Reclaim, ReclaimPage, Reclaimed, Signal, ShutdownStep, Stop,
         StopAgain, StopResumes,
         DrainEnds, Close, Exited, vars, stopVars
<1>2. ASSUME NEW t \in Signals, Signal(t) \/ ShutdownStep(t)
      PROVE  t = s
  <2>1. shutdown[t] # "none" \/ shutdown'[t] # "none"
    BY <1>2 DEF Signal, ShutdownStep, Stop, StopAgain, StopResumes, DrainEnds,
                Close, At, TypeOK
  <2>2. shutdown'[t] # "none"
    BY <1>2, <2>1 DEF Signal, ShutdownStep, Stop, StopAgain, StopResumes,
                      DrainEnds, Close, Drain, At, TypeOK
  <2> QED
    BY <2>2 DEF Alone
<1>3. Alone(s)
  <2>1. CASE Signal(s) \/ ShutdownStep(s)
    <3>1. \A t \in Signals \ {s} : shutdown'[t] = shutdown[t]
      BY <2>1 DEF Signal, ShutdownStep, Stop, StopAgain, StopResumes,
                  DrainEnds, Close, Drain, At, TypeOK
    <3> QED
      BY <3>1 DEF Alone
  <2>2. CASE UNCHANGED shutdown
    BY <2>2 DEF Alone
  <2>3. CASE ~(Signal(s) \/ ShutdownStep(s))
    <3>1. UNCHANGED shutdown
      BY <1>2, <2>3 DEF Next, Tick, Read, PollEnds, BackoffEnds,
         IntervalPasses, Reclaiming, Reclaim, ReclaimPage, Reclaimed, Exited,
         vars, stopVars
    <3> QED
      BY <2>2, <3>1
  <2> QED
    BY <2>1, <2>3
<1>4. CASE ~late
  <2>1. ExitInvOf(s)
    BY <1>1, <1>3, <1>4 DEF ExitInv
  <2>2. CASE \E p \in Polls : Tick(p) \/ Read(p) \/ PollEnds(p)
    BY <1>1, <2>1, <2>2, ExitOfPoll
  <2>3. CASE BackoffEnds \/ IntervalPasses \/ Reclaiming \/ Exited
                 \/ UNCHANGED vars
    BY <2>1, <2>3, ExitOfTime
  <2>4. CASE Signal(s) \/ ShutdownStep(s)
    BY <1>1, <2>1, <2>4, ExitOfShutdown
  <2> QED
    BY <1>2, <2>2, <2>3, <2>4 DEF Next
<1>5. CASE late
  <2>1. ~isRunning
    BY <1>5 DEF RunInv
  <2>2. late'
    BY <1>5, <2>1 DEF Next, Tick, Read, PollEnds, BackoffEnds, IntervalPasses,
         Reclaiming, Reclaim, ReclaimPage, Reclaimed, Signal, ShutdownStep,
         Stop, StopAgain,
         StopResumes, DrainEnds, Close, Exited, vars, stopVars
  <2> QED
    BY <2>2
<1> QED
  BY <1>4, <1>5 DEF TypeOK

\* A shutdown by one signal that finds no read or reclaim under way exits
\* with 0 only with nothing in flight and nothing in the accumulator.
THEOREM ExitIsClean == Spec => []CleanExit
<1>1. Init => ExitInv
  BY DEF Init, ExitInv, ExitInvOf
<1>2. TypeOK /\ ExitInv => CleanExit
  <2> SUFFICES ASSUME TypeOK, ExitInv, exit = "clean", ~late, ~slow,
                      NEW s \in Signals, Alone(s)
               PROVE  queue = {} /\ InFlight = {}
    BY DEF CleanExit, Alone
  <2> QED
    BY DEF ExitInv, ExitInvOf
<1> QED
  BY <1>1, <1>2, ExitInvariance, InitLoop, LoopInvariance, LoopTypeCorrect, PTL
     DEF Spec
=============================================================================
