---------------------------- MODULE NonceManager ----------------------------
(***************************************************************************)
(* settlement/nonceManager.ts and the way smartContract.ts settleBatch     *)
(* drives it: engine processes ("callers") that share one wallet take its  *)
(* nonces from a Redis counter under a Redis lock.  An action is one Redis *)
(* command or one RPC.                                                     *)
(*                                                                         *)
(* A caller runs one settleBatch at a time, and its lock value stands for  *)
(* the caller ("dead": the value of a process that crashed).  A nonce is   *)
(* used by one transaction: one with the nonce of another that is still in *)
(* the mempool is refused as known or as underpriced, and does not replace *)
(* it.                                                                     *)
(***************************************************************************)
EXTENDS Integers, FiniteSets

CONSTANTS
    Callers,     \* engine processes with the same wallet
    Batches,     \* bound: batches each caller settles
    NoKey,       \* the value of a Redis key that does not exist
    StartNonce,  \* transactions the wallet has sent before
    StartKey,    \* the counter Redis holds at the start
    FaultKinds,  \* the failures this instance allows
    MaxFaults,   \* bound: failures in a behaviour
    PoolLimit    \* transactions of one wallet the endpoint queues

\* "expire": the lock's TTL passes without a heartbeat, "extend": it passes
\* because the heartbeat cannot extend it, "send": refused before the
\* broadcast, "lost": broadcast but the answer is lost, "timeout": no receipt,
\* "late": after onTxConfirmed.
AllNonceFaults == {"crash", "rpc", "redis", "lockwait", "expire", "extend",
                   "send", "lost", "timeout", "late"}

ASSUME CallersAssumption == /\ Batches \in Nat
                            /\ {"free", "dead"} \cap Callers = {}
ASSUME KeyAssumption == /\ NoKey \notin Int
                        /\ StartNonce \in Nat
                        /\ StartKey \in {NoKey, StartNonce}
ASSUME NonceFaultsAssumption ==
    /\ FaultKinds \subseteq AllNonceFaults
    /\ MaxFaults \in Nat /\ PoolLimit \in Nat

VARIABLES
    lock,       \* settlement:nonce:lock
    nonce,      \* settlement:nonce
    pendingTx,  \* settlement:nonce:pending_tx exists
    mined,      \* the wallet's transaction count
    mempool,    \* nonces of broadcast transactions not mined yet
    pc,         \* the command each caller is about to send
    my,         \* the nonce it works with
    heartbeat,  \* its heartbeatInterval runs
    left,       \* batches it still has to settle
    lapsed,     \* history: callers whose lock expired under them
    faults

redisVars == <<lock, nonce, pendingTx>>
chainVars == <<mined, mempool>>
callerVars == <<pc, my, heartbeat, left>>
vars == <<redisVars, chainVars, callerVars, lapsed, faults>>

\* acquireNonce's try block, once the transaction of a crashed run has landed.
Trying == {"landed", "tryfetch", "trystore"}
\* Where a caller believes that it holds the lock.
Critical == Trying \cup
            {"check", "forget", "fetch", "store", "read", "incr", "send",
             "confirm", "wait", "clear", "release"}
\* handleFailure, entered with or without the lock.
Failing == {"failfetch", "failstore", "faildecr", "failclear", "failrelease"}
PCs == {"idle", "lock", "late"} \cup Critical \cup Failing

Init ==
    /\ lock = "free"
    /\ nonce = StartKey
    /\ pendingTx = FALSE
    /\ mined = StartNonce
    /\ mempool = {}
    /\ pc = [c \in Callers |-> "idle"]
    /\ my = [c \in Callers |-> 0]
    /\ heartbeat = [c \in Callers |-> FALSE]
    /\ left = [c \in Callers |-> Batches]
    /\ lapsed = {}
    /\ faults = 0

Go(c, step) == pc' = [pc EXCEPT ![c] = step]

Fault(k) ==
    /\ k \in FaultKinds
    /\ faults < MaxFaults
    /\ faults' = faults + 1

\* INCR and DECR take a missing key for 0.
Counter == IF nonce = NoKey THEN 0 ELSE nonce

\* getTransactionCount('pending'): the first nonce not used without a gap.
IsNextNonce(n) == n \notin mempool /\ mined..(n - 1) \subseteq mempool

\* handleFailure stops the heartbeat, then acts on the error's text.
Fail(c, step) ==
    /\ Go(c, step)
    /\ heartbeat' = [heartbeat EXCEPT ![c] = FALSE]

-----------------------------------------------------------------------------
(* acquireNonce.                                                           *)

Start(c) ==
    /\ pc[c] = "idle"
    /\ left[c] > 0
    /\ Go(c, "lock")
    /\ UNCHANGED <<redisVars, chainVars, my, heartbeat, left, lapsed, faults>>

\* SET NX succeeds; while it does not, acquireLock polls.
TryLock(c) ==
    /\ pc[c] = "lock"
    /\ lock = "free"
    /\ lock' = c
    /\ lapsed' = lapsed \ {c}
    /\ Go(c, "check")
    /\ UNCHANGED <<nonce, pendingTx, chainVars, my, heartbeat, left, faults>>

\* acquireLock's deadline passes: settleBatch's catch calls handleFailure.
LockTimeout(c) ==
    /\ pc[c] = "lock"
    /\ lock # "free"
    /\ Fault("lockwait")
    /\ Fail(c, "faildecr")
    /\ UNCHANGED <<redisVars, chainVars, my, left, lapsed>>

\* Whether the transaction of a crashed run is mined within 5 seconds ("landed")
\* or not, its record is deleted and the nonce is reset from the chain.
CheckPending(c) ==
    /\ pc[c] = "check"
    /\ \/ pendingTx /\ \E step \in {"landed", "forget"} : Go(c, step)
       \/ ~pendingTx /\ Go(c, "read")
    /\ UNCHANGED <<redisVars, chainVars, my, heartbeat, left, lapsed, faults>>

ForgetPending(c) ==
    /\ \/ pc[c] = "landed" /\ Go(c, "tryfetch")
       \/ pc[c] = "forget" /\ Go(c, "fetch")
    /\ pendingTx' = FALSE
    /\ UNCHANGED <<lock, nonce, chainVars, my, heartbeat, left, lapsed,
                   faults>>

\* resetFromChain: the RPC, then the SET; here and in handleFailure.
ResetFetch(c) ==
    /\ \/ pc[c] = "tryfetch" /\ Go(c, "trystore")
       \/ pc[c] = "fetch" /\ Go(c, "store")
       \/ pc[c] = "failfetch" /\ Go(c, "failstore")
    /\ \E n \in mined..(mined + Cardinality(mempool)) :
          IsNextNonce(n) /\ my' = [my EXCEPT ![c] = n]
    /\ UNCHANGED <<redisVars, chainVars, heartbeat, left, lapsed, faults>>

\* Mutant of ResetStore: the count itself is taken for used.
ResetStoreNext(c) ==
    /\ \/ pc[c] \in {"trystore", "store"} /\ Go(c, "read")
       \/ pc[c] = "failstore" /\ Go(c, "failclear")
    /\ nonce' = my[c] + 1
    /\ UNCHANGED <<lock, pendingTx, chainVars, my, heartbeat, left, lapsed,
                   faults>>

ResetStore(c) ==
    /\ \/ pc[c] \in {"trystore", "store"} /\ Go(c, "read")
       \/ pc[c] = "failstore" /\ Go(c, "failclear")
    /\ nonce' = my[c]
    /\ UNCHANGED <<lock, pendingTx, chainVars, my, heartbeat, left, lapsed,
                   faults>>

\* Mutant of ReadNonce: a counter that does not exist is used as it is.
ReadNonceRaw(c) ==
    /\ pc[c] = "read"
    /\ Go(c, "incr")
    /\ my' = [my EXCEPT ![c] = nonce]
    /\ UNCHANGED <<redisVars, chainVars, heartbeat, left, lapsed, faults>>

ReadNonce(c) ==
    /\ pc[c] = "read"
    /\ \/ nonce = NoKey /\ Go(c, "fetch") /\ UNCHANGED my
       \/ nonce # NoKey /\ Go(c, "incr") /\ my' = [my EXCEPT ![c] = nonce]
    /\ UNCHANGED <<redisVars, chainVars, heartbeat, left, lapsed, faults>>

IncrNonce(c) ==
    /\ pc[c] = "incr"
    /\ nonce' = Counter + 1
    /\ heartbeat' = [heartbeat EXCEPT ![c] = TRUE]
    /\ Go(c, "send")
    /\ UNCHANGED <<lock, pendingTx, chainVars, my, left, lapsed, faults>>

-----------------------------------------------------------------------------
(* settleBatch: writeContract, confirmNonce, the receipt, onTxConfirmed.   *)

Fresh(c) == my[c] >= mined /\ my[c] \notin mempool

Send(c) ==
    /\ pc[c] = "send"
    /\ Fresh(c)
    /\ Cardinality(mempool) < PoolLimit
    /\ mempool' = mempool \cup {my[c]}
    /\ \/ Go(c, "confirm") /\ UNCHANGED <<heartbeat, faults>>
       \/ Fault("lost") /\ Fail(c, "faildecr")
    /\ UNCHANGED <<redisVars, mined, my, left, lapsed>>

\* Mutant of SendRefused: "nonce too low" only decrements.
TooLowDecrements(c) ==
    /\ pc[c] = "send"
    /\ ~Fresh(c)
    /\ Fail(c, "faildecr")
    /\ UNCHANGED <<redisVars, chainVars, my, left, lapsed, faults>>

\* A negative nonce cannot be encoded; "nonce too low" resets the counter,
\* "already known" leaves it, "replacement underpriced" decrements it.
SendRefused(c) ==
    /\ pc[c] = "send"
    /\ \/ my[c] < 0 /\ Fail(c, "faildecr")
       \/ my[c] \in 0..(mined - 1) /\ Fail(c, "failfetch")
       \/ my[c] \in mempool /\ \E step \in {"failclear", "faildecr"} :
                                   Fail(c, step)
    /\ UNCHANGED <<redisVars, chainVars, my, left, lapsed, faults>>

\* Mutant of SendFails: the counter keeps the nonce that was not used.
SendFailsKeeps(c) ==
    /\ pc[c] = "send"
    /\ Fault("send")
    /\ Fail(c, "failclear")
    /\ UNCHANGED <<redisVars, chainVars, my, left, lapsed>>

\* The gas estimate reverts, or the endpoint fails or queues no more.
SendFails(c) ==
    /\ pc[c] = "send"
    /\ \/ Fault("send")
       \/ Fresh(c) /\ Cardinality(mempool) >= PoolLimit /\ UNCHANGED faults
    /\ Fail(c, "faildecr")
    /\ UNCHANGED <<redisVars, chainVars, my, left, lapsed>>

ConfirmNonce(c) ==
    /\ pc[c] = "confirm"
    /\ pendingTx' = TRUE
    /\ Go(c, "wait")
    /\ UNCHANGED <<lock, nonce, chainVars, my, heartbeat, left, lapsed,
                   faults>>

\* The receipt arrives; onTxConfirmed stops the heartbeat.
Receipt(c) ==
    /\ pc[c] = "wait"
    /\ my[c] < mined
    /\ Fail(c, "clear")
    /\ UNCHANGED <<redisVars, chainVars, my, left, lapsed, faults>>

\* A transaction behind a gap is not mined: its receipt always times out.
Behind(n) == ~ (mined..(n - 1) \subseteq mempool)

ReceiptTimeout(c) ==
    /\ pc[c] = "wait"
    /\ IF Behind(my[c]) THEN UNCHANGED faults ELSE Fault("timeout")
    /\ Fail(c, "faildecr")
    /\ UNCHANGED <<redisVars, chainVars, my, left, lapsed>>

ClearPending(c) ==
    /\ \/ pc[c] = "clear" /\ Go(c, "release")
       \/ pc[c] = "failclear" /\ Go(c, "failrelease")
    /\ pendingTx' = FALSE
    /\ UNCHANGED <<lock, nonce, chainVars, my, heartbeat, left, lapsed,
                   faults>>

DecrNonce(c) ==
    /\ pc[c] = "faildecr"
    /\ nonce' = Counter - 1
    /\ Go(c, "failclear")
    /\ UNCHANGED <<lock, pendingTx, chainVars, my, heartbeat, left, lapsed,
                   faults>>

\* Mutant of ReleaseLock: DEL without the compare.
ReleaseAny(c) ==
    /\ \/ pc[c] = "release" /\ Go(c, "late")
       \/ pc[c] = "failrelease" /\ Go(c, "idle")
    /\ lock' = "free"
    /\ UNCHANGED <<nonce, pendingTx, chainVars, my, heartbeat, left, lapsed,
                   faults>>

\* Compare and delete.  After a failure the batch is retried.
ReleaseLock(c) ==
    /\ \/ pc[c] = "release" /\ Go(c, "late")
       \/ pc[c] = "failrelease" /\ Go(c, "idle")
    /\ lock' = IF lock = c THEN "free" ELSE lock
    /\ UNCHANGED <<nonce, pendingTx, chainVars, my, heartbeat, left, lapsed,
                   faults>>

Settled(c) ==
    /\ pc[c] = "late"
    /\ left' = [left EXCEPT ![c] = @ - 1]
    /\ Go(c, "idle")
    /\ UNCHANGED <<redisVars, chainVars, my, heartbeat, lapsed, faults>>

\* The receipt says reverted, or getBlock fails: handleFailure again.
LateFailure(c) ==
    /\ pc[c] = "late"
    /\ Fault("late")
    /\ Fail(c, "faildecr")
    /\ UNCHANGED <<redisVars, chainVars, my, left, lapsed>>

-----------------------------------------------------------------------------
(* Failures around the commands.                                           *)

\* Thrown in acquireNonce's try block: its catch does the same once more.
\* Thrown elsewhere there, in confirmNonce and in onTxConfirmed: handleFailure.
\* Thrown in handleFailure: out of settleBatch, with the lock left to expire.
Thrown(c) ==
    \/ pc[c] \in Trying /\ Go(c, "forget") /\ UNCHANGED heartbeat
    \/ pc[c] \in Failing /\ Fail(c, "idle")
    \/ pc[c] \notin Trying \cup Failing /\ Fail(c, "faildecr")

RpcError(c) ==
    /\ pc[c] \in {"tryfetch", "fetch", "failfetch"}
    /\ Fault("rpc")
    /\ Thrown(c)
    /\ UNCHANGED <<redisVars, chainVars, my, left, lapsed>>

RedisError(c) ==
    /\ pc[c] \notin {"idle", "late", "tryfetch", "fetch", "failfetch", "send",
                     "wait"}
    /\ Fault("redis")
    /\ Thrown(c)
    /\ UNCHANGED <<redisVars, chainVars, my, left, lapsed>>

Crash(c) ==
    /\ pc[c] # "idle"
    /\ Fault("crash")
    /\ Fail(c, "idle")
    /\ lock' = IF lock = c THEN "dead" ELSE lock
    /\ UNCHANGED <<nonce, pendingTx, chainVars, my, left, lapsed>>

\* The TTL passes, of a lock that no caller uses any more.
Expire ==
    /\ \/ lock = "dead"
       \/ \E c \in Callers : lock = c /\ pc[c] \in {"idle", "lock", "late"}
    /\ lock' = "free"
    /\ UNCHANGED <<nonce, pendingTx, chainVars, callerVars, lapsed, faults>>

\* It passes while its owner waits for Redis, an RPC or the receipt: without a
\* heartbeat, or with one whose PEXPIRE fails (which is only logged) or whose
\* timer is held up.
Lapse(c) ==
    /\ lock = c
    /\ pc[c] \in Critical \cup Failing
    /\ Fault(IF heartbeat[c] THEN "extend" ELSE "expire")
    /\ lock' = "free"
    /\ lapsed' = lapsed \cup {c}
    /\ UNCHANGED <<nonce, pendingTx, chainVars, callerVars>>

\* The chain mines the wallet's transactions in the order of their nonces.
Mine ==
    /\ mined \in mempool
    /\ mined' = mined + 1
    /\ mempool' = mempool \ {mined}
    /\ UNCHANGED <<redisVars, callerVars, lapsed, faults>>

-----------------------------------------------------------------------------
CallerStep(c) ==
    \/ Start(c) \/ TryLock(c) \/ CheckPending(c) \/ ForgetPending(c)
    \/ ResetFetch(c) \/ ResetStore(c) \/ ReadNonce(c) \/ IncrNonce(c)
    \/ Send(c) \/ SendRefused(c) \/ ConfirmNonce(c) \/ Receipt(c)
    \/ ClearPending(c) \/ DecrNonce(c) \/ ReleaseLock(c) \/ Settled(c)

CallerFault(c) ==
    \/ LockTimeout(c) \/ SendFails(c) \/ ReceiptTimeout(c) \/ LateFailure(c)
    \/ RpcError(c) \/ RedisError(c) \/ Crash(c) \/ Lapse(c)

\* Every batch is settled.
Quiet ==
    /\ \A c \in Callers : pc[c] = "idle" /\ left[c] = 0
    /\ UNCHANGED vars

Next ==
    \/ \E c \in Callers : CallerStep(c) \/ CallerFault(c)
    \/ Expire
    \/ Mine
    \/ Quiet

Spec == Init /\ [][Next]_vars

\* Processes run, locks nobody extends expire, the chain mines what it can.
Fairness ==
    /\ \A c \in Callers : WF_vars(CallerStep(c))
    /\ WF_vars(Expire)
    /\ WF_vars(Mine)

FairSpec == Spec /\ Fairness

-----------------------------------------------------------------------------
TypeOK ==
    /\ lock \in Callers \cup {"free", "dead"}
    /\ nonce \in Int \cup {NoKey}
    /\ pendingTx \in BOOLEAN
    /\ mined \in Nat
    /\ mempool \in SUBSET Nat
    /\ pc \in [Callers -> PCs]
    /\ my \in [Callers -> Int]
    /\ heartbeat \in [Callers -> BOOLEAN]
    /\ left \in [Callers -> 0..Batches]
    /\ lapsed \subseteq Callers
    /\ faults \in 0..MaxFaults

\* Between SET NX and the release a caller has the lock, whatever failed,
\* crashed or timed out elsewhere, unless its own lock has expired: no other
\* release frees it.
LockHeld ==
    \A c \in Callers : pc[c] \in Critical /\ c \notin lapsed => lock = c

\* Two callers are never between SET NX and the release together unless one
\* has outlived its lock.
MutualExclusion ==
    \A c, d \in Callers :
        {pc[c], pc[d]} \subseteq Critical /\ {c, d} \cap lapsed = {} => c = d

\* No transaction waits in the mempool behind a nonce nobody has used, where
\* no process crashes, no lock expires in use and Redis answers: whatever
\* handleFailure does to the counter without the lock, it only lowers it.
NoGap == \A n \in mempool : ~Behind(n)

\* ... and a counter that is too low is found out ("nonce too low"), so every
\* batch is settled, while the counter does not fall below zero: the wallet
\* has sent as many transactions as there are failures.
AllSettle == <>[](\A c \in Callers : left[c] = 0)

\* The nonces below n that nobody has broadcast: none from n on is mined
\* before somebody sends them.
Skipped(n) == (mined..n) \ mempool

\* Where processes do crash, Redis does fail and locks expire in use, a
\* transaction waits behind at most as many unused nonces as there were
\* failures: no interleaving of retries, resets and failures without the lock
\* multiplies a leak.  Every kind of failure counts: one that only lowers the
\* counter makes a nonce be used twice, and beside a caller that has outlived
\* its lock the INCR behind the second use is not taken back.
GapsBounded == \A n \in mempool : Cardinality(Skipped(n)) <= faults

-----------------------------------------------------------------------------
(* What comments of the code claim and the code does not do.               *)

\* nonceManager.ts:61-62: the lock is there "to ensure only one transaction
\* is in-flight per wallet at any time".  A receipt that times out releases
\* it while the transaction is in the mempool.
OneInFlight == Cardinality(mempool) <= 1

\* nonceManager.ts:108: acquireNonce returns "The nonce to use for the next
\* transaction".  A caller that dies between INCR and the broadcast leaks its
\* nonce, leaves no pending_tx, and nothing resets the counter.
NonceIsNext == NoGap

\* nonceManager.ts:208: "pre-submission failure - tx was never sent,
\* decrement nonce".  When the RPC that initializes the counter fails, DECR
\* makes the missing key -1, which is never reset: no batch settles again.
FailureIsRecovered == AllSettle
=============================================================================
