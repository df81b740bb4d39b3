--------------------------- MODULE StreamConsumer ---------------------------
(***************************************************************************)
(* The way of a stream entry from XADD to XACK: redis/                     *)
(* settlementMatchConsumer.ts, redis/deadLetter.ts, settlement/            *)
(* batchAccumulator.ts and what index.ts and BatchProcessor do with them,  *)
(* by several engine processes of one consumer group.  An action is one    *)
(* Redis command with the code up to the next one; the XADDs and XACKs of  *)
(* the invalid entries of a page belong to the command that read it.       *)
(*                                                                         *)
(* Entry i is the i-th the matching engine publishes.  How a batch ends is *)
(* the business of SettlementPipeline: here it ACKs all of its entries or, *)
(* when it fails, some.  One batch and one reclaim of a process run at a   *)
(* time; PollingLoop lifts both, and two reclaims of one process send what *)
(* those of two processes with one consumer name send here.                *)
(***************************************************************************)
EXTENDS BatchAccumulator

CONSTANTS
    Engines,     \* engine processes
    Restarted,   \* those a supervisor starts again, the others may stay down
    Names,       \* values of REDIS_CONSUMER_NAME
    NameChoices, \* the assignments of names to processes that occur
    Nobody,      \* not a name
    N,           \* bound: entries published
    Backlog,     \* entries published before any process starts
    Invalid,     \* the entries matchSchema rejects
    ReadCount,   \* REDIS_READ_COUNT
    Cap,         \* maxEntries
    MaxLen,      \* REDIS_STREAM_MAXLEN
    FaultKinds,  \* the failures this instance allows
    MaxFaults    \* bound: failures in a behaviour

Ids == 1..N

\* "read": a Redis error within a page, "letter": the XADD of a dead letter
\* fails, "batch": a batch ACKs only some of its entries.
AllConsumerFaults == {"crash", "read", "letter", "batch"}

ASSUME EntriesAssumption ==
    N \in Nat /\ Backlog \in 0..N /\ Invalid \subseteq Ids
ASSUME EnginesAssumption ==
    /\ Restarted \subseteq Engines
    /\ NameChoices \subseteq [Engines -> Names]
    /\ Nobody \notin Names
ASSUME SizesAssumption == {ReadCount, Cap, MaxLen} \subseteq Nat \ {0}
ASSUME ConsumerFaultsAssumption ==
    FaultKinds \subseteq AllConsumerFaults /\ MaxFaults \in Nat

VARIABLES
    name,       \* the consumer name of each process, fixed
    published,  \* entries added so far
    stream,     \* entries present in the stream
    last,       \* the group's last-delivered-id
    owner,      \* the group's pending entries list (PEL): consumer by entry
    stale,      \* pending entries idle for xclaimMinIdleMs
    acked,      \* history: entries XACKed
    dead,       \* entries added to the dead-letter stream
    mode,       \* "down", "starting" (before batchProcessor.start) or "up"
    queue,      \* BatchAccumulator: queue and seenIds
    batch,      \* the batch being settled
    scan,       \* where processPendingEntries is
    page,       \* pendingDetails
    got, size,  \* matches: its entries, and its length with repetitions, up
                \* to Cap
    faults

redisVars == <<stream, last, owner, stale, acked, dead>>
scanVars == <<scan, page, got, size>>
vars == <<name, published, redisVars, mode, queue, batch, scanVars, faults>>

Scans == {"off", "own", "list", "detail", "claim"}

Init ==
    /\ name \in NameChoices
    /\ published = Backlog
    /\ stream = 1..Backlog
    /\ last = 0
    /\ owner = [i \in Ids |-> Nobody]
    /\ stale = {}
    /\ acked = {}
    /\ dead = {}
    /\ mode = [e \in Engines |-> "down"]
    /\ queue = [e \in Engines |-> {}]
    /\ batch = [e \in Engines |-> {}]
    /\ scan = [e \in Engines |-> "off"]
    /\ page = [e \in Engines |-> {}]
    /\ got = [e \in Engines |-> {}]
    /\ size = [e \in Engines |-> 0]
    /\ faults = 0

-----------------------------------------------------------------------------
(* Redis.                                                                  *)

Pending == {i \in Ids : owner[i] # Nobody}
OwnedBy(e) == {i \in Ids : owner[i] = name[e]}

\* COUNT ReadCount: the lowest ids of S.
Page(S) == {i \in S : Cardinality({j \in S : j < i}) < ReadCount}

\* Mutant of Delivered: XREADGROUP NOACK.
DeliveredNoAck(e, P) == owner

\* The PEL once e is given the entries P.
Delivered(e, P) == [i \in Ids |-> IF i \in P THEN name[e] ELSE owner[i]]

\* The entries of a page the code gets through, in order: up to the first one
\* that was trimmed from the stream, whose missing fields it cannot parse, or
\* fewer when Redis fails meanwhile.
Before(P, i) == {j \in P : j < i}
Readable(P) == {j \in P : \A i \in P \ stream : j < i}
Prefixes(P) ==
    {Readable(P)} \cup
    (IF "read" \in FaultKinds THEN {Before(Readable(P), i) : i \in Readable(P)}
                              ELSE {})

\* What parseMatchEntry makes a match of.
Valid(D) == D \ Invalid

\* The invalid entries of D are dead-lettered, L succeeding, and ACKed
\* whether that succeeded or not; P is the page, pel the PEL after reading it.
Letters(D) ==
    IF "letter" \in FaultKinds THEN SUBSET (D \cap Invalid)
                               ELSE {D \cap Invalid}

\* Mutant of Settle: an invalid entry is only logged before its XACK.
SettleLogs(P, D, L, pel) ==
    /\ UNCHANGED dead
    /\ acked' = acked \cup (D \cap Invalid)
    /\ owner' = [i \in Ids |-> IF i \in D \cap Invalid THEN Nobody ELSE pel[i]]
    /\ faults' = faults + (IF D = Readable(P) THEN 0 ELSE 1)
    /\ faults' <= MaxFaults

Settle(P, D, L, pel) ==
    /\ dead' = dead \cup L
    /\ acked' = acked \cup (D \cap Invalid)
    /\ owner' = [i \in Ids |-> IF i \in D \cap Invalid THEN Nobody ELSE pel[i]]
    /\ faults' = faults + Cardinality((D \cap Invalid) \ L)
                        + (IF D = Readable(P) THEN 0 ELSE 1)
    /\ faults' <= MaxFaults

Fault(k) ==
    /\ k \in FaultKinds
    /\ faults < MaxFaults
    /\ faults' = faults + 1

\* The matching engine appends an entry.
Publish ==
    /\ published < N
    /\ published' = published + 1
    /\ stream' = stream \cup {published + 1}
    /\ UNCHANGED <<name, last, owner, stale, acked, dead, mode, queue, batch,
                   scanVars, faults>>

\* A pending entry has been idle for xclaimMinIdleMs.
Idle(i) ==
    /\ owner[i] # Nobody
    /\ i \notin stale
    /\ stale' = stale \cup {i}
    /\ UNCHANGED <<name, published, stream, last, owner, acked, dead, mode,
                   queue, batch, scanVars, faults>>

-----------------------------------------------------------------------------
(* One process.                                                            *)

\* main: the group exists, the reclaim of the startup begins.
Boot(e) ==
    /\ mode[e] = "down"
    /\ mode' = [mode EXCEPT ![e] = "starting"]
    /\ scan' = [scan EXCEPT ![e] = "own"]
    /\ UNCHANGED <<name, published, redisVars, queue, batch, page, got, size,
                   faults>>

\* poll and readMatches, while no batch runs and the queue is short: new
\* entries enter the PEL as they are read.  After an error readMatches
\* returns none of them.
Poll(e) ==
    /\ mode[e] = "up"
    /\ batch[e] = {}
    /\ NeedsMoreMatches(queue[e])
    /\ LET P == Page({i \in stream : i > last}) IN
        /\ P # {}
        /\ last' \in P /\ \A i \in P : i <= last'
        /\ UNCHANGED stale
        /\ \E D \in Prefixes(P) : \E L \in Letters(D) :
            /\ Settle(P, D, L, Delivered(e, P))
            /\ \E Q \in (IF D = P THEN Added(queue[e], Valid(P))
                                  ELSE {queue[e]}) :
                  queue' = [queue EXCEPT ![e] = Q]
    /\ UNCHANGED <<name, published, stream, mode, batch, scanVars>>

\* The timer of reclaimPending.
Reclaim(e) ==
    /\ mode[e] = "up"
    /\ scan[e] = "off"
    /\ scan' = [scan EXCEPT ![e] = "own"]
    /\ UNCHANGED <<name, published, redisVars, mode, queue, batch, page, got,
                   size, faults>>

BelowCap(n) == n < Cap

\* processPendingEntries puts the valid entries of D on its list and goes on
\* with `step'.  At the cap, or with "off", it returns the list, which goes to
\* the accumulator; at startup main then starts the processor.
Collect(e, D, step) ==
    LET all == got[e] \cup Valid(D)
        length == size[e] + Cardinality(Valid(D)) IN
    IF step # "off" /\ BelowCap(length)
    THEN /\ got' = [got EXCEPT ![e] = all]
         /\ size' = [size EXCEPT ![e] = IF length < Cap THEN length ELSE Cap]
         /\ scan' = [scan EXCEPT ![e] = step]
         /\ UNCHANGED <<queue, mode>>
    ELSE /\ \E Q \in Added(queue[e], all) : queue' = [queue EXCEPT ![e] = Q]
         /\ mode' = [mode EXCEPT ![e] = "up"]
         /\ got' = [got EXCEPT ![e] = {}]
         /\ size' = [size EXCEPT ![e] = 0]
         /\ scan' = [scan EXCEPT ![e] = "off"]

\* Mutant of Full: a page that is not full is not taken for the last one.
AnyPage(P) == TRUE

\* Behind a page of fewer entries than were asked for there are no more.
Full(P) == Cardinality(P) = ReadCount

\* The first loop: XREADGROUP '0' gives the first page of the own PEL, each
\* time, and makes its entries fresh; it ends with the cap, a page that is
\* not full, or an error.
ReadOwn(e) ==
    LET P == Page(OwnedBy(e)) IN
    /\ scan[e] = "own"
    /\ stale' = stale \ (P \cap stream)
    /\ \E D \in Prefixes(P) : \E L \in Letters(D) :
        /\ Settle(P, D, L, owner)
        /\ Collect(e, D, IF D = P /\ Full(P) THEN "own" ELSE "list")
    /\ UNCHANGED <<name, published, stream, last, batch, page>>

\* The second loop: one XPENDING tells whether anything is pending ("list"), a
\* second gives the first page of the group's PEL ("detail").
ListPending(e) ==
    /\ scan[e] \in {"list", "detail"}
    /\ \/ /\ Pending # {}
          /\ Collect(e, {}, IF scan[e] = "list" THEN "detail" ELSE "claim")
          /\ UNCHANGED faults
       \/ Pending = {} /\ Collect(e, {}, "off") /\ UNCHANGED faults
       \/ Fault("read") /\ Collect(e, {}, "off")
    /\ page' = [page EXCEPT ![e] = IF scan'[e] = "claim" THEN Page(Pending)
                                                         ELSE {}]
    /\ UNCHANGED <<name, published, redisVars, batch>>

\* Mutant of Claimable: an entry is only claimed from the own consumer.
ClaimableOwn(e) == {i \in page[e] \cap stale \cap stream : owner[i] = name[e]}

\* What XCLAIM gives of the page: what is still pending and idle.
Claimable(e) == page[e] \cap stale \cap stream

\* XCLAIM takes those entries and forgets the ones that were trimmed; a full
\* page is followed by the next, at once, also if its entries were fresh.
Claim(e) ==
    LET P == Claimable(e)
        gone == page[e] \ stream IN
    /\ scan[e] = "claim"
    /\ stale' = stale \ (P \cup gone)
    /\ \E D \in Prefixes(P) : \E L \in Letters(D) :
        /\ Settle(P, D, L, [i \in Ids |-> IF i \in gone THEN Nobody
                                         ELSE Delivered(e, P)[i]])
        /\ Collect(e, D, IF D = P /\ Full(page[e]) THEN "list" ELSE "off")
    /\ page' = [page EXCEPT ![e] = {}]
    /\ UNCHANGED <<name, published, stream, last, batch>>

\* Mutant of StartBatch: taken while another batch is in work.
StartBatchMeanwhile(e) ==
    /\ mode[e] = "up"
    /\ queue[e] # {}
    /\ batch' = [batch EXCEPT ![e] = queue[e]]
    /\ queue' = [queue EXCEPT ![e] = {}]
    /\ UNCHANGED <<name, published, redisVars, mode, scanVars, faults>>

\* shouldProcess by number or by time, and getBatch.
StartBatch(e) ==
    /\ mode[e] = "up"
    /\ batch[e] = {}
    /\ queue[e] # {}
    /\ batch' = [batch EXCEPT ![e] = queue[e]]
    /\ queue' = [queue EXCEPT ![e] = {}]
    /\ UNCHANGED <<name, published, redisVars, mode, scanVars, faults>>

\* XTRIM MAXLEN ~: the oldest entries go, down to MaxLen or not as far.
Trimmed(S) ==
    {T \in SUBSET S : /\ T = S \/ Cardinality(T) >= MaxLen
                      /\ \A i \in T, j \in S \ T : j < i}

\* The batch ends: XACK and XDEL, then the trim, or a failure after some.
EndBatch(e) ==
    /\ batch[e] # {}
    /\ \E A \in SUBSET batch[e] :
        /\ acked' = acked \cup A
        /\ owner' = [i \in Ids |-> IF i \in A THEN Nobody ELSE owner[i]]
        /\ stale' = stale \ A
        /\ \/ A = batch[e] /\ stream' \in Trimmed(stream \ A)
                           /\ UNCHANGED faults
           \/ A # batch[e] /\ stream' = stream \ A /\ Fault("batch")
    /\ batch' = [batch EXCEPT ![e] = {}]
    /\ UNCHANGED <<name, published, last, dead, mode, queue, scanVars>>

Crash(e) ==
    /\ mode[e] # "down"
    /\ Fault("crash")
    /\ mode' = [mode EXCEPT ![e] = "down"]
    /\ queue' = [queue EXCEPT ![e] = {}]
    /\ batch' = [batch EXCEPT ![e] = {}]
    /\ scan' = [scan EXCEPT ![e] = "off"]
    /\ page' = [page EXCEPT ![e] = {}]
    /\ got' = [got EXCEPT ![e] = {}]
    /\ size' = [size EXCEPT ![e] = 0]
    /\ UNCHANGED <<name, published, redisVars>>

-----------------------------------------------------------------------------
\* The two timers of a process and the batch, each of which waits for itself.
Scan(e) == Reclaim(e) \/ ReadOwn(e) \/ ListPending(e) \/ Claim(e)
Batch(e) == StartBatch(e) \/ EndBatch(e)

Next ==
    \/ Publish
    \/ \E i \in Ids : Idle(i)
    \/ \E e \in Engines :
          Boot(e) \/ Poll(e) \/ Scan(e) \/ Batch(e) \/ Crash(e)

Spec == Init /\ [][Next]_vars

\* A process that runs goes on, the supervisor starts those it restarts, the
\* idle time of a pending entry grows.
Fairness ==
    /\ \A e \in Engines :
          WF_vars(Poll(e)) /\ WF_vars(Scan(e)) /\ WF_vars(Batch(e))
    /\ \A e \in Restarted : WF_vars(Boot(e))
    /\ \A i \in Ids : WF_vars(Idle(i))

FairSpec == Spec /\ WF_vars(Publish) /\ Fairness

-----------------------------------------------------------------------------
TypeOK ==
    /\ name \in [Engines -> Names]
    /\ published \in 0..N /\ last \in 0..published
    /\ stream \subseteq 1..published
    /\ owner \in [Ids -> Names \cup {Nobody}]
    /\ Pending \subseteq 1..last
    /\ stale \subseteq Pending
    /\ acked \subseteq 1..last
    /\ dead \subseteq Invalid
    /\ mode \in [Engines -> {"down", "starting", "up"}]
    /\ queue \in [Engines -> SUBSET (1..last)]
    /\ \A e \in Engines : Cardinality(queue[e]) <= Capacity
    /\ batch \in [Engines -> SUBSET (1..last)]
    /\ scan \in [Engines -> Scans]
    /\ page \in [Engines -> SUBSET (1..last)]
    /\ got \in [Engines -> SUBSET (1..last)]
    /\ size \in [Engines -> 0..Cap]
    /\ faults \in 0..MaxFaults

\* At-least-once delivery: an entry that nobody has ACKed is in the stream and
\* will be read, as a new entry or as a pending one, whatever crashed, failed,
\* was dropped by a full accumulator or was taken over meanwhile, while the
\* stream does not outgrow REDIS_STREAM_MAXLEN.
NothingLost ==
    \A i \in 1..published \ acked :
        i \in stream /\ (i > last \/ owner[i] # Nobody)

\* What is in the memory of a process is pending or has been ACKed, so the
\* death of the process loses nothing; and only matchSchema's matches get
\* there.
MemoryIsBacked ==
    \A e \in Engines :
        queue[e] \cup batch[e] \cup got[e] \subseteq
            (Pending \cup acked) \ Invalid

\* An invalid entry leaves the group only for the dead-letter stream, but for
\* one whose XADD failed.
PoisonIsKept == Cardinality((acked \cap Invalid) \ dead) <= faults

\* What all of this amounts to for a process that settles batches: it gets no
\* entry that has been ACKed, nor an invalid one, and only its batches ACK
\* matches.  Pages, claims, caps, trims and the pending entries list do not
\* show.  SettlementPipeline has the same promise of its own batches.
Delivery == INSTANCE EntryDelivery
              WITH Entries <- Ids,
                   waiting <- [e \in Engines |-> queue[e] \cup got[e]]

ImplementsDelivery == Delivery!Spec

\* Every entry is ACKed in the end: also one that a crash, a full accumulator
\* or a failed read left in the PEL of a process that does not come back.
AllHandled == <>[](acked = Ids)

\* The reclaim that main waits for before it starts the processor ends, though
\* it asks for the first page of the pending entries again and again: with a
\* page that is not full, at the cap, with nothing pending, or with an error.
StartupCompletes == <>[](\A e \in Engines : mode[e] # "starting")
=============================================================================
