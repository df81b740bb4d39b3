------------------------ MODULE NonceManager_proofs ------------------------
(***************************************************************************)
(* Proofs about NonceManager, for every number of callers and batches.     *)
(*                                                                         *)
(* LockHeld is inductive with the types: a lock leaves its value only by   *)
(* the compare-and-delete of its owner, by the owner's crash, or by an     *)
(* expiry, which `lapsed' records.                                         *)
(*                                                                         *)
(* NoGap needs the counter: top, the first nonce not in the mempool, bounds *)
(* it from above, by one more while the owner of the lock is between INCR  *)
(* and the broadcast or the DECR that takes the INCR back.                 *)
(*                                                                         *)
(* GapsBounded needs the same bound with another top: each failure may     *)
(* cost a nonce, except those still owed by callers whose lock expired     *)
(* before their INCR, which raise the counter beside the owner.            *)
(***************************************************************************)
EXTENDS NonceManager, FiniteSetTheorems, TLAPS

\* The three places of the try block are looked up everywhere below.
USE DEF Trying

\* The places with and without the lock are places.
LEMMA PCTypes == Critical \subseteq PCs /\ Failing \subseteq PCs
BY DEF Critical, Failing, PCs

\* An error ends handleFailure or starts it.
LEMMA ThrownSplit ==
    ASSUME NEW c \in Callers, Thrown(c)
    PROVE  \/ Fail(c, "idle") \/ Fail(c, "faildecr")
           \/ pc[c] \in Trying /\ Go(c, "forget") /\ UNCHANGED heartbeat
BY DEF Thrown

\* A caller between Start and Settled has a batch to settle.
WorkLeft == \A c \in Callers : pc[c] # "idle" => left[c] > 0

\* The initial state is well typed.
LEMMA TypeInit == Init => TypeOK /\ WorkLeft
<1> SUFFICES ASSUME Init PROVE TypeOK /\ WorkLeft
  OBVIOUS
<1>1. /\ lock \in Callers \cup {"free", "dead"}
      /\ pendingTx \in BOOLEAN /\ mined \in Nat /\ mempool \in SUBSET Nat
  BY KeyAssumption DEF Init
<1>5. nonce \in Int \cup {NoKey}
  <2>1. CASE StartKey = NoKey
    BY <2>1 DEF Init
  <2>2. CASE StartKey = StartNonce
    BY <2>2, KeyAssumption DEF Init
  <2> QED BY <2>1, <2>2, KeyAssumption
<1>2. pc \in [Callers -> PCs] /\ my \in [Callers -> Int]
  BY DEF Init, PCs
<1>3. /\ heartbeat \in [Callers -> BOOLEAN] /\ left \in [Callers -> 0..Batches]
      /\ lapsed \subseteq Callers /\ faults \in 0..MaxFaults
  BY CallersAssumption, NonceFaultsAssumption DEF Init
<1>4. WorkLeft
  BY DEF Init, WorkLeft
<1> QED BY <1>1, <1>2, <1>3, <1>4, <1>5 DEF TypeOK

\* Every step keeps the types; Settled needs WorkLeft to count down.
LEMMA TypeStep == TypeOK /\ WorkLeft /\ [Next]_vars => (TypeOK /\ WorkLeft)'
<1> SUFFICES ASSUME TypeOK, WorkLeft, [Next]_vars
             PROVE  (TypeOK /\ WorkLeft)'
  OBVIOUS
<1> USE CallersAssumption, KeyAssumption, NonceFaultsAssumption
    DEF TypeOK, WorkLeft, PCs, Critical, Failing, Go, Fail, Fault, redisVars,
        chainVars, callerVars
<1>1. CASE UNCHANGED vars
  BY <1>1 DEF vars
<1>2. ASSUME NEW c \in Callers, CallerStep(c) PROVE (TypeOK /\ WorkLeft)'
  <2>1. CASE Start(c) BY <2>1 DEF Start
  <2>2. CASE TryLock(c) BY <2>2 DEF TryLock
  <2>3. CASE CheckPending(c) BY <2>3 DEF CheckPending
  <2>4. CASE ForgetPending(c) BY <2>4 DEF ForgetPending
  <2>5. CASE ResetFetch(c) BY <2>5 DEF ResetFetch
  <2>6. CASE ResetStore(c) BY <2>6 DEF ResetStore
  <2>7. CASE ReadNonce(c) BY <2>7 DEF ReadNonce
  <2>8. CASE IncrNonce(c) BY <2>8 DEF IncrNonce, Counter
  <2>9. CASE Send(c)
    <3>1. my[c] \in Nat
      BY <2>9 DEF Send, Fresh
    <3>2. mempool' \subseteq Nat
      BY <2>9, <3>1 DEF Send
    <3>3. (Go(c, "confirm") /\ UNCHANGED <<heartbeat, faults>>)
          \/ (Fault("lost") /\ Fail(c, "faildecr"))
      BY <2>9 DEF Send
    <3>4. UNCHANGED <<lock, nonce, pendingTx, mined, my, left, lapsed>>
      BY <2>9 DEF Send
    <3>5. pc[c] = "send"
      BY <2>9 DEF Send
    <3>6. CASE Go(c, "confirm") /\ UNCHANGED <<heartbeat, faults>>
      BY <3>2, <3>4, <3>5, <3>6
    <3>7. CASE Fault("lost") /\ Fail(c, "faildecr")
      BY <3>2, <3>4, <3>5, <3>7
    <3> QED BY <3>3, <3>6, <3>7
  <2>10. CASE SendRefused(c) BY <2>10 DEF SendRefused
  <2>11. CASE ConfirmNonce(c) BY <2>11 DEF ConfirmNonce
  <2>12. CASE Receipt(c) BY <2>12 DEF Receipt
  <2>13. CASE ClearPending(c) BY <2>13 DEF ClearPending
  <2>14. CASE DecrNonce(c) BY <2>14 DEF DecrNonce, Counter
  <2>15. CASE ReleaseLock(c) BY <2>15 DEF ReleaseLock
  <2>16. CASE Settled(c)
    BY <2>16 DEF Settled
  <2> QED
    BY <1>2, <2>1, <2>2, <2>3, <2>4, <2>5, <2>6, <2>7, <2>8, <2>9, <2>10,
       <2>11, <2>12, <2>13, <2>14, <2>15, <2>16 DEF CallerStep
<1>3. ASSUME NEW c \in Callers, CallerFault(c) PROVE (TypeOK /\ WorkLeft)'
  <2>1. CASE LockTimeout(c) BY <2>1 DEF LockTimeout
  <2>2. CASE SendFails(c) BY <2>2 DEF SendFails
  <2>3. CASE ReceiptTimeout(c) BY <2>3 DEF ReceiptTimeout
  <2>4. CASE LateFailure(c) BY <2>4 DEF LateFailure
  <2>5. CASE RpcError(c)
    <3>1. /\ \E step \in {"idle", "faildecr", "forget"} : Go(c, step)
          /\ pc[c] # "idle"
          /\ heartbeat' \in [Callers -> BOOLEAN]
          /\ UNCHANGED <<lock, nonce, pendingTx, mined, mempool, my, left,
                         lapsed>>
      BY <2>5, ThrownSplit DEF RpcError
    <3>2. faults' \in 0..MaxFaults
      BY <2>5 DEF RpcError
    <3> QED BY <3>1, <3>2
  <2>6. CASE RedisError(c)
    <3>1. /\ \E step \in {"idle", "faildecr", "forget"} : Go(c, step)
          /\ pc[c] # "idle"
          /\ heartbeat' \in [Callers -> BOOLEAN]
          /\ UNCHANGED <<lock, nonce, pendingTx, mined, mempool, my, left,
                         lapsed>>
      BY <2>6, ThrownSplit DEF RedisError
    <3>2. faults' \in 0..MaxFaults
      BY <2>6 DEF RedisError
    <3> QED BY <3>1, <3>2
  <2>7. CASE Crash(c) BY <2>7 DEF Crash
  <2>8. CASE Lapse(c) BY <2>8 DEF Lapse
  <2> QED
    BY <1>3, <2>1, <2>2, <2>3, <2>4, <2>5, <2>6, <2>7, <2>8
    DEF CallerFault
<1>4. CASE Expire BY <1>4 DEF Expire
<1>5. CASE Mine BY <1>5 DEF Mine
<1>6. CASE Quiet BY <1>6 DEF Quiet, vars
<1> QED BY <1>1, <1>2, <1>3, <1>4, <1>5, <1>6 DEF Next

\* Every variable keeps its type, for every instance and every failure.
THEOREM TypeCorrect == Spec => []TypeOK
<1>1. TypeOK /\ WorkLeft /\ [Next]_vars => (TypeOK /\ WorkLeft)'
  BY TypeStep
<1> QED BY TypeInit, <1>1, PTL DEF Spec

-----------------------------------------------------------------------------
\* Whoever acts, a caller that has the lock keeps it or has lost it to time.
LEMMA LockStep ==
    TypeOK /\ LockHeld /\ [Next]_vars => LockHeld'
<1> SUFFICES ASSUME TypeOK, LockHeld, [Next]_vars PROVE LockHeld'
  OBVIOUS
<1> USE CallersAssumption
    DEF TypeOK, LockHeld, PCs, Critical, Failing, Go, Fail, redisVars,
        chainVars, callerVars
<1>1. CASE UNCHANGED vars
  BY <1>1 DEF vars
<1>2. ASSUME NEW c \in Callers, CallerStep(c) PROVE LockHeld'
  <2>1. CASE Start(c) BY <2>1 DEF Start
  <2>2. CASE TryLock(c)
    <3>1. \A d \in Callers \ {c} : lock # d
      BY <2>2 DEF TryLock
    <3> QED BY <2>2, <3>1 DEF TryLock
  <2>3. CASE CheckPending(c) BY <2>3 DEF CheckPending
  <2>4. CASE ForgetPending(c) BY <2>4 DEF ForgetPending
  <2>5. CASE ResetFetch(c) BY <2>5 DEF ResetFetch
  <2>6. CASE ResetStore(c) BY <2>6 DEF ResetStore
  <2>7. CASE ReadNonce(c) BY <2>7 DEF ReadNonce
  <2>8. CASE IncrNonce(c) BY <2>8 DEF IncrNonce
  <2>9. CASE Send(c) BY <2>9 DEF Send
  <2>10. CASE SendRefused(c) BY <2>10 DEF SendRefused
  <2>11. CASE ConfirmNonce(c) BY <2>11 DEF ConfirmNonce
  <2>12. CASE Receipt(c) BY <2>12 DEF Receipt
  <2>13. CASE ClearPending(c) BY <2>13 DEF ClearPending
  <2>14. CASE DecrNonce(c) BY <2>14 DEF DecrNonce
  <2>15. CASE ReleaseLock(c) BY <2>15 DEF ReleaseLock
  <2>16. CASE Settled(c) BY <2>16 DEF Settled
  <2> QED
    BY <1>2, <2>1, <2>2, <2>3, <2>4, <2>5, <2>6, <2>7, <2>8, <2>9, <2>10,
       <2>11, <2>12, <2>13, <2>14, <2>15, <2>16 DEF CallerStep
<1>3. ASSUME NEW c \in Callers, CallerFault(c) PROVE LockHeld'
  <2>1. CASE LockTimeout(c) BY <2>1 DEF LockTimeout
  <2>2. CASE SendFails(c) BY <2>2 DEF SendFails
  <2>3. CASE ReceiptTimeout(c) BY <2>3 DEF ReceiptTimeout
  <2>4. CASE LateFailure(c) BY <2>4 DEF LateFailure
  <2>5. CASE RpcError(c) BY <2>5, ThrownSplit DEF RpcError
  <2>6. CASE RedisError(c) BY <2>6, ThrownSplit DEF RedisError
  <2>7. CASE Crash(c) BY <2>7 DEF Crash
  <2>8. CASE Lapse(c) BY <2>8 DEF Lapse
  <2> QED
    BY <1>3, <2>1, <2>2, <2>3, <2>4, <2>5, <2>6, <2>7, <2>8 DEF CallerFault
<1>4. CASE Expire BY <1>4 DEF Expire
<1>5. CASE Mine BY <1>5 DEF Mine
<1>6. CASE Quiet BY <1>6 DEF Quiet, vars
<1> QED BY <1>1, <1>2, <1>3, <1>4, <1>5, <1>6 DEF Next

\* Two callers between SET NX and the release: one has outlived its lock.
THEOREM CallersExclude == Spec => []MutualExclusion
<1>1. Init => LockHeld
  BY DEF Init, LockHeld, Critical
<1>2. LockHeld => MutualExclusion
  BY DEF LockHeld, MutualExclusion
<1> QED BY <1>1, <1>2, LockStep, TypeCorrect, PTL DEF Spec

-----------------------------------------------------------------------------
\* No process dies, no lock expires while its owner works, Redis answers.
Calm == FaultKinds \cap {"crash", "expire", "extend", "redis"} = {}

\* Between INCR and the broadcast, or the DECR after it.
Raised == {"send", "faildecr"}

KeyAtMost(n) == nonce # NoKey => nonce <= n

\* top is the first unused nonce.
CounterBelow(top) ==
    /\ mined <= top
    /\ mempool = mined..(top - 1)
    /\ KeyAtMost(top + 1)
    /\ (\A c \in Callers : lock = c => pc[c] \notin Raised) => KeyAtMost(top)

CallerBelow(top, c) ==
    /\ pc[c] \in {"incr", "send", "trystore", "store", "failstore"} => my[c] <= top
    /\ pc[c] = "incr" => nonce # NoKey /\ nonce <= my[c]
    /\ pc[c] = "send" => nonce # NoKey /\ nonce <= my[c] + 1
    /\ pc[c] \in {"failfetch", "failstore"} => lock = c

Below(top) == CounterBelow(top) /\ \A c \in Callers : CallerBelow(top, c)

Owned == LockHeld /\ lapsed = {}

\* A counter that exists is a number.
LEMMA KeyTyped == TypeOK /\ nonce # NoKey => nonce \in Int
BY DEF TypeOK

\* The RPC of a reset returns exactly the first unused nonce.
LEMMA NextIsTop ==
    ASSUME TypeOK, NEW top \in Nat, CounterBelow(top),
           NEW n \in mined..(mined + Cardinality(mempool)), IsNextNonce(n)
    PROVE  n = top
<1>1. n \in Int /\ mined \in Nat /\ n >= mined
  BY DEF TypeOK
<1>2. ~ (n < top)
  BY <1>1 DEF IsNextNonce, CounterBelow
<1>3. ~ (n > top)
  BY <1>1 DEF IsNextNonce, CounterBelow
<1> QED BY <1>1, <1>2, <1>3

\* A step keeps the bound when it touches neither the counter nor the lock
\* and takes no caller to a place where more is asked of it, or out of Raised.
LEMMA QuietStep ==
    ASSUME TypeOK, NEW top \in Nat, Below(top), NEW c \in Callers,
           NEW step \in {"idle", "lock", "late", "check", "landed", "forget",
                         "tryfetch", "fetch",
                         "read", "confirm", "wait", "clear", "release",
                         "faildecr", "failclear", "failrelease"},
           Go(c, step),
           pc[c] \in Raised => step \in Raised,
           UNCHANGED <<lock, nonce, mined, mempool, my>>
    PROVE  Below(top)'
<1>1. \A d \in Callers : pc'[d] = IF d = c THEN step ELSE pc[d]
  BY DEF Go, TypeOK
<1>2. CounterBelow(top)'
  BY <1>1 DEF Below, CounterBelow, KeyAtMost, Raised
<1>3. ASSUME NEW d \in Callers PROVE CallerBelow(top, d)'
  BY <1>1 DEF Below, CallerBelow
<1> QED BY <1>2, <1>3 DEF Below

\* What an action of the owner needs of the others: they are elsewhere.
LEMMA OwnerAlone ==
    ASSUME TypeOK, Owned, NEW top \in Nat, Below(top),
           NEW c \in Callers, lock = c, NEW d \in Callers, d # c
    PROVE  pc[d] \notin {"incr", "send", "trystore", "store", "failfetch",
                       "failstore"}
BY DEF Owned, LockHeld, Below, CallerBelow, Critical

\* Every step of a calm instance keeps the counter below the first unused
\* nonce, which only a broadcast moves.
LEMMA GapStep ==
    ASSUME Calm, TypeOK, Owned, NEW top \in Nat, Below(top), [Next]_vars
    PROVE  lapsed' = {} /\ \E t \in Nat : Below(t)'
<1> USE DEF redisVars, chainVars, callerVars
<1>1. CASE UNCHANGED vars
  BY <1>1 DEF vars, Owned, Below, CounterBelow, CallerBelow, KeyAtMost, Raised
<1>2. ASSUME NEW c \in Callers, CallerStep(c)
      PROVE  lapsed' = {} /\ \E t \in Nat : Below(t)'
  <2>0. lapsed' = {}
    BY <1>2 DEF Owned, CallerStep, Start, TryLock, CheckPending, ForgetPending,
       ResetFetch, ResetStore, ReadNonce, IncrNonce, Send, SendRefused,
       ConfirmNonce, Receipt, ClearPending, DecrNonce, ReleaseLock, Settled
  <2>1. CASE Start(c) BY <2>0, <2>1, QuietStep DEF Start, Raised
  <2>2. CASE TryLock(c)
    <3>1. lock \notin Callers /\ lock' = c /\ pc[c] = "lock"
      BY <2>2, CallersAssumption DEF TryLock
    <3>2. KeyAtMost(top)
      BY <3>1 DEF Below, CounterBelow
    <3>3. /\ \A d \in Callers : pc'[d] = IF d = c THEN "check" ELSE pc[d]
          /\ UNCHANGED <<nonce, mined, mempool, my>>
      BY <2>2 DEF TryLock, Go, TypeOK
    <3>4. CounterBelow(top)'
      BY <3>2, <3>3 DEF Below, CounterBelow, KeyAtMost
    <3>5. ASSUME NEW d \in Callers PROVE CallerBelow(top, d)'
      BY <3>1, <3>3 DEF Below, CallerBelow
    <3> QED BY <2>0, <3>4, <3>5 DEF Below
  <2>3. CASE CheckPending(c)
    BY <2>0, <2>3, QuietStep DEF CheckPending, Raised
  <2>4. CASE ForgetPending(c)
    BY <2>0, <2>4, QuietStep DEF ForgetPending, Raised
  <2>5. CASE ResetFetch(c)
    <3>1. my' = [my EXCEPT ![c] = top]
      BY <2>5, NextIsTop DEF ResetFetch, Below
    <3>2. \/ pc[c] = "tryfetch" /\ Go(c, "trystore")
          \/ pc[c] = "fetch" /\ Go(c, "store")
          \/ pc[c] = "failfetch" /\ Go(c, "failstore")
      BY <2>5 DEF ResetFetch
    <3>3. UNCHANGED <<lock, nonce, mined, mempool>>
      BY <2>5 DEF ResetFetch
    <3>4. CounterBelow(top)'
      BY <3>2, <3>3 DEF Below, CounterBelow, KeyAtMost, Raised, Go, TypeOK
    <3>5. ASSUME NEW d \in Callers PROVE CallerBelow(top, d)'
      BY <3>1, <3>2, <3>3 DEF Below, CallerBelow, Go, TypeOK
    <3> QED BY <2>0, <3>4, <3>5 DEF Below
  <2>6. CASE ResetStore(c)
    <3>1. lock = c /\ my[c] <= top /\ pc[c] \notin Raised
      BY <2>6 DEF ResetStore, Below, CallerBelow, Owned, LockHeld, Critical,
                  Raised
    <3>2. /\ Go(c, "read") \/ Go(c, "failclear")
          /\ nonce' = my[c]
          /\ UNCHANGED <<lock, mined, mempool, my>>
      BY <2>6 DEF ResetStore
    <3>3. CounterBelow(top)'
      BY <3>1, <3>2 DEF Below, CounterBelow, KeyAtMost, TypeOK
    <3>4. ASSUME NEW d \in Callers PROVE CallerBelow(top, d)'
      <4>1. CASE d = c
        BY <3>2, <4>1 DEF CallerBelow, Go, TypeOK
      <4>2. CASE d # c
        BY <3>1, <3>2, <4>2, OwnerAlone DEF CallerBelow, Go, TypeOK
      <4> QED BY <4>1, <4>2
    <3> QED BY <2>0, <3>3, <3>4 DEF Below
  <2>7. CASE ReadNonce(c)
    <3>1. CASE nonce = NoKey
      BY <2>0, <2>7, <3>1, QuietStep DEF ReadNonce, Raised
    <3>2. CASE nonce # NoKey
      <4>1. /\ pc[c] = "read" /\ Go(c, "incr")
            /\ my' = [my EXCEPT ![c] = nonce]
            /\ UNCHANGED <<lock, nonce, mined, mempool>>
        BY <2>7, <3>2 DEF ReadNonce
      <4>2. lock = c
        BY <4>1 DEF Owned, LockHeld, Critical
      <4>3. nonce \in Int /\ nonce <= top
        BY <3>2, <4>1, <4>2, KeyTyped
        DEF Below, CounterBelow, KeyAtMost, Raised
      <4>4. CounterBelow(top)'
        BY <4>1, <4>3 DEF Below, CounterBelow, KeyAtMost
      <4>5. ASSUME NEW d \in Callers PROVE CallerBelow(top, d)'
        BY <3>2, <4>1, <4>3 DEF Below, CallerBelow, Go, TypeOK
      <4> QED BY <2>0, <4>4, <4>5 DEF Below
    <3> QED BY <3>1, <3>2
  <2>8. CASE IncrNonce(c)
    <3>1. /\ pc[c] = "incr" /\ Go(c, "send")
          /\ nonce # NoKey /\ nonce \in Int /\ my[c] \in Int
          /\ nonce <= my[c] /\ my[c] <= top
      BY <2>8, KeyTyped DEF IncrNonce, Below, CallerBelow, TypeOK
    <3>2. nonce' = nonce + 1 /\ UNCHANGED <<lock, mined, mempool, my>>
      BY <2>8, <3>1 DEF IncrNonce, Counter
    <3>3. lock = c
      BY <3>1 DEF Owned, LockHeld, Critical
    <3>4. nonce' # NoKey
      BY <3>1, <3>2, KeyAssumption
    <3>5. pc'[c] = "send"
      BY <3>1 DEF Go, TypeOK
    <3>6. CounterBelow(top)'
      <4>1. KeyAtMost(top + 1)'
        BY <3>1, <3>2 DEF KeyAtMost
      <4>2. ~ (\A d \in Callers : lock' = d => pc'[d] \notin Raised)
        BY <3>2, <3>3, <3>5 DEF Raised
      <4> QED BY <3>2, <4>1, <4>2 DEF Below, CounterBelow
    <3>7. ASSUME NEW d \in Callers PROVE CallerBelow(top, d)'
      <4>1. CASE d = c
        BY <3>1, <3>2, <3>4, <3>5, <4>1 DEF CallerBelow
      <4>2. CASE d # c
        BY <3>1, <3>2, <3>3, <4>2, OwnerAlone DEF CallerBelow, Go, TypeOK
      <4> QED BY <4>1, <4>2
    <3> QED BY <2>0, <3>6, <3>7 DEF Below
  <2>9. CASE Send(c)
    <3>1. /\ pc[c] = "send" /\ my[c] \in Int /\ my[c] <= top
          /\ my[c] >= mined /\ my[c] \notin mempool
          /\ mempool' = mempool \cup {my[c]}
          /\ UNCHANGED <<lock, nonce, mined, my>>
      BY <2>9 DEF Send, Fresh, Below, CallerBelow, TypeOK
    <3>2. my[c] = top
      BY <3>1 DEF Below, CounterBelow, TypeOK
    <3>3. mempool' = mined..((top + 1) - 1)
      BY <3>1, <3>2 DEF Below, CounterBelow, TypeOK
    <3>4. Go(c, "confirm") \/ Go(c, "faildecr")
      BY <2>9 DEF Send, Fail
    <3>5. KeyAtMost(top + 1) /\ mined \in Nat /\ (nonce # NoKey => nonce \in Int)
      BY KeyTyped DEF Below, CounterBelow, TypeOK
    <3>6. CounterBelow(top + 1)'
      BY <3>1, <3>3, <3>5 DEF Below, CounterBelow, KeyAtMost
    <3>7. ASSUME NEW d \in Callers PROVE CallerBelow(top + 1, d)'
      BY <3>1, <3>4 DEF Below, CallerBelow, Go, TypeOK
    <3> QED BY <2>0, <3>6, <3>7 DEF Below
  <2>10. CASE SendRefused(c)
    <3>1. /\ pc[c] = "send" /\ my[c] \in Int
          /\ nonce # NoKey /\ nonce \in Int /\ nonce <= my[c] + 1
          /\ lock = c
          /\ UNCHANGED <<lock, nonce, mined, mempool, my>>
      BY <2>10, KeyTyped DEF SendRefused, Below, CallerBelow, TypeOK, Owned,
                             LockHeld, Critical
    <3>2. CASE Fail(c, "faildecr")
      BY <2>0, <3>1, <3>2, QuietStep DEF Fail, Raised
    <3>3. CASE ~Fail(c, "faildecr")
      <4>1. /\ Go(c, "failfetch") \/ Go(c, "failclear")
            /\ my[c] < mined \/ my[c] \in mempool
        BY <2>10, <3>1, <3>3 DEF SendRefused, Fail, TypeOK
      <4>2. nonce <= top
        BY <3>1, <4>1 DEF Below, CounterBelow, TypeOK
      <4>3. CounterBelow(top)'
        BY <3>1, <4>2 DEF Below, CounterBelow, KeyAtMost
      <4>4. ASSUME NEW d \in Callers PROVE CallerBelow(top, d)'
        BY <3>1, <4>1 DEF Below, CallerBelow, Go, TypeOK
      <4> QED BY <2>0, <4>3, <4>4 DEF Below
    <3> QED BY <3>2, <3>3
  <2>11. CASE ConfirmNonce(c)
    BY <2>0, <2>11, QuietStep DEF ConfirmNonce, Raised
  <2>12. CASE Receipt(c) BY <2>0, <2>12, QuietStep DEF Receipt, Raised, Fail
  <2>13. CASE ClearPending(c)
    BY <2>0, <2>13, QuietStep DEF ClearPending, Raised
  <2>14. CASE DecrNonce(c)
    <3>1. /\ pc[c] = "faildecr" /\ Go(c, "failclear")
          /\ nonce' = Counter - 1
          /\ UNCHANGED <<lock, mined, mempool, my>>
      BY <2>14 DEF DecrNonce
    <3>2. /\ nonce' \in Int /\ nonce' # NoKey
          /\ nonce = NoKey => nonce' = -1
          /\ nonce # NoKey => nonce \in Int /\ nonce' = nonce - 1
      BY <3>1, KeyTyped, KeyAssumption DEF Counter
    <3>3. nonce' <= top
      BY <3>2 DEF Below, CounterBelow, KeyAtMost
    <3>4. CounterBelow(top)'
      BY <3>1, <3>2, <3>3 DEF Below, CounterBelow, KeyAtMost
    <3>5. ASSUME NEW d \in Callers PROVE CallerBelow(top, d)'
      BY <3>1, <3>2 DEF Below, CallerBelow, Go, TypeOK
    <3> QED BY <2>0, <3>4, <3>5 DEF Below
  <2>15. CASE ReleaseLock(c)
    <3>1. /\ pc[c] \in {"release", "failrelease"}
          /\ Go(c, "late") \/ Go(c, "idle")
          /\ lock' = (IF lock = c THEN "free" ELSE lock)
          /\ UNCHANGED <<nonce, mined, mempool, my>>
      BY <2>15 DEF ReleaseLock
    <3>2. (\A d \in Callers : lock' = d => pc'[d] \notin Raised) =>
             \A d \in Callers : lock = d => pc[d] \notin Raised
      BY <3>1, CallersAssumption DEF Raised, Go, TypeOK
    <3>3. CounterBelow(top)'
      BY <3>1, <3>2 DEF Below, CounterBelow, KeyAtMost
    <3>4. ASSUME NEW d \in Callers PROVE CallerBelow(top, d)'
      BY <3>1 DEF Below, CallerBelow, Go, TypeOK
    <3> QED BY <2>0, <3>3, <3>4 DEF Below
  <2>16. CASE Settled(c) BY <2>0, <2>16, QuietStep DEF Settled, Raised
  <2> QED
    BY <1>2, <2>1, <2>2, <2>3, <2>4, <2>5, <2>6, <2>7, <2>8, <2>9, <2>10,
       <2>11, <2>12, <2>13, <2>14, <2>15, <2>16 DEF CallerStep
<1>3. ASSUME NEW c \in Callers, CallerFault(c)
      PROVE  lapsed' = {} /\ \E t \in Nat : Below(t)'
  <2>1. CASE LockTimeout(c)
    BY <2>1, QuietStep DEF LockTimeout, Fail, Raised, Owned
  <2>2. CASE SendFails(c)
    BY <2>2, QuietStep DEF SendFails, Fail, Raised, Owned
  <2>3. CASE ReceiptTimeout(c)
    BY <2>3, QuietStep DEF ReceiptTimeout, Fail, Raised, Owned
  <2>4. CASE LateFailure(c)
    BY <2>4, QuietStep DEF LateFailure, Fail, Raised, Owned
  <2>5. CASE RpcError(c)
    BY <2>5, ThrownSplit, QuietStep DEF RpcError, Fail, Raised, Owned
  <2>6. CASE RedisError(c) BY <2>6 DEF RedisError, Fault, Calm
  <2>7. CASE Crash(c) BY <2>7 DEF Crash, Fault, Calm
  <2>8. CASE Lapse(c) BY <2>8 DEF Lapse, Fault, Calm
  <2> QED
    BY <1>3, <2>1, <2>2, <2>3, <2>4, <2>5, <2>6, <2>7, <2>8 DEF CallerFault
<1>4. CASE Expire
  <2>1. /\ lock' = "free"
        /\ \A d \in Callers :
              lock = d => pc[d] \in {"idle", "lock", "late"}
        /\ UNCHANGED <<nonce, mined, mempool, my, pc, lapsed>>
    BY <1>4, CallersAssumption DEF Expire
  <2>2. CounterBelow(top)'
    BY <2>1 DEF Below, CounterBelow, KeyAtMost, Raised
  <2>3. ASSUME NEW d \in Callers PROVE CallerBelow(top, d)'
    BY <2>1 DEF Below, CallerBelow
  <2> QED BY <2>1, <2>2, <2>3 DEF Below, Owned
<1>5. CASE Mine
  <2>1. /\ mined \in Nat /\ mined \in mempool /\ mined' = mined + 1
        /\ mempool' = mempool \ {mined}
        /\ UNCHANGED <<lock, nonce, my, pc, lapsed>>
    BY <1>5 DEF Mine, TypeOK
  <2>2. CounterBelow(top)'
    BY <2>1 DEF Below, CounterBelow, KeyAtMost
  <2>3. ASSUME NEW d \in Callers PROVE CallerBelow(top, d)'
    BY <2>1 DEF Below, CallerBelow
  <2> QED BY <2>1, <2>2, <2>3 DEF Below, Owned
<1>6. CASE Quiet
  BY <1>1, <1>6 DEF Quiet
<1> QED BY <1>1, <1>2, <1>3, <1>4, <1>5, <1>6 DEF Next

\* Where no process dies, no lock expires in use and Redis answers, no
\* transaction is broadcast behind a gap, for any number of callers, failed
\* sends, lost answers, receipt timeouts and failures after the release.
THEOREM NoTransactionBehindAGap == Calm => (Spec => []NoGap)
<1> SUFFICES ASSUME Calm PROVE Spec => []NoGap
  OBVIOUS
<1> DEFINE GapInv == Owned /\ \E top \in Nat : Below(top)
<1>1. Init => GapInv
  <2> SUFFICES ASSUME Init PROVE GapInv
    OBVIOUS
  <2>1. Below(StartNonce)
    BY KeyAssumption
    DEF Init, Below, CounterBelow, CallerBelow, KeyAtMost
  <2>2. Owned
    BY DEF Init, Owned, LockHeld, Critical
  <2> QED BY <2>1, <2>2, KeyAssumption
<1>2. TypeOK /\ GapInv /\ [Next]_vars => GapInv'
  <2> SUFFICES ASSUME TypeOK, GapInv, [Next]_vars PROVE GapInv'
    OBVIOUS
  <2>1. LockHeld'
    BY LockStep DEF Owned
  <2>2. PICK top \in Nat : Below(top)
    OBVIOUS
  <2>3. lapsed' = {} /\ \E t \in Nat : Below(t)'
    BY <2>2, GapStep
  <2> QED BY <2>1, <2>3 DEF Owned
<1>3. TypeOK /\ GapInv => NoGap
  <2> SUFFICES ASSUME TypeOK, NEW top \in Nat, Below(top) PROVE NoGap
    OBVIOUS
  <2> QED BY DEF Below, CounterBelow, NoGap, Behind, TypeOK
<1> QED BY <1>1, <1>2, <1>3, TypeCorrect, PTL DEF Spec

-----------------------------------------------------------------------------
(* Processes die, Redis fails, locks expire in use.                        *)

\* Up to the INCR, from the lock on.
Before == Trying \cup {"check", "forget", "fetch", "store", "read", "incr"}

\* From the broadcast to the end of the transaction.
Sent == {"confirm", "wait"}

\* From the INCR to the broadcast, and as long as a failure may leave it.
Unused == {"send", "faildecr", "failfetch", "failstore"}

\* Their locks have expired, and they are still to raise the counter, beside
\* whoever has the lock now: each has cost one failure already.
Owing == {c \in lapsed : pc[c] \in Before}
Owed == Cardinality(Owing)

\* Each failure may have cost a nonce, but for those that are owed: no nonce
\* from here on has been used, and this never falls.
Top == mined + Cardinality(mempool) + faults - Owed

Tallied == /\ IsFiniteSet(mempool) /\ IsFiniteSet(Owing)
           /\ Owed <= faults

CounterBounded ==
    /\ \A n \in mempool : mined <= n /\ n < Top
    /\ KeyAtMost(Top + 1)
    /\ (\A c \in Callers : lock = c => pc[c] \notin Unused) => KeyAtMost(Top)

\* The owner of the lock that works with a nonce somebody else has in the
\* mempool will be refused, and need not take its INCR back.
CallerBounded(c) ==
    /\ pc[c] \in {"trystore", "store", "failstore"} =>
          my[c] <= mined + Cardinality(mempool)
    /\ pc[c] = "incr" => my[c] <= Top \/ (c \in lapsed /\ my[c] <= Top + 1)
    /\ pc[c] = "send" => my[c] <= Top
    /\ pc[c] \in {"incr", "send"} => nonce # NoKey
    /\ lock = c /\ my[c] \in mempool /\ pc[c] = "incr" => nonce < Top
    /\ lock = c /\ my[c] \in mempool /\ pc[c] = "send" => nonce <= Top

\* While every failure is owed, nothing has gone wrong yet: the only one past
\* its INCR has the lock, and the only transaction in the mempool is its own.
Spotless ==
    Owed = faults =>
        /\ \A d \in Callers :
              lock # d => pc[d] \in Before \cup {"idle", "lock", "late"}
        /\ \A d \in Callers : lock = d /\ pc[d] \in Sent =>
              my[d] <= mined /\ mempool \subseteq {my[d]}
        /\ mempool # {} => \E d \in Callers : lock = d /\ pc[d] \in Sent

Bounded ==
    /\ Tallied /\ CounterBounded /\ Spotless
    /\ \A c \in Callers : CallerBounded(c)

\* Top is a number, at least the next nonce the chain would answer.
LEMMA TopTyped ==
    ASSUME TypeOK, Tallied
    PROVE  /\ Cardinality(mempool) \in Nat /\ Owed \in Nat /\ faults \in Nat
           /\ mined \in Nat /\ Top \in Nat /\ Owed <= faults
           /\ mined + Cardinality(mempool) <= Top
           /\ Owed # faults => mined + Cardinality(mempool) < Top
           /\ mempool \subseteq Nat /\ my \in [Callers -> Int]
           /\ nonce # NoKey => nonce \in Int
<1>1. Cardinality(mempool) \in Nat /\ Owed \in Nat
  BY FS_CardinalityType DEF Tallied, Owed
<1>2. faults \in Nat /\ mined \in Nat /\ Owed <= faults
  BY NonceFaultsAssumption DEF TypeOK, Tallied
<1> QED BY <1>1, <1>2 DEF Top, TypeOK

\* Fault counts one failure, and only one of the kinds of the instance.
LEMMA FaultCounts ==
    ASSUME TypeOK, NEW k, Fault(k)
    PROVE  k \in FaultKinds /\ faults \in Nat /\ faults' = faults + 1
BY NonceFaultsAssumption DEF Fault, TypeOK

\* c pays by leaving Before.
Pays(c, step) == c \in lapsed /\ pc[c] \in Before /\ step \notin Before

\* A caller that goes on lets Top grow by a failure, and by what it pays.
LEMMA TopGrows ==
    ASSUME TypeOK, Tallied, NEW c \in Callers, NEW step, Go(c, step),
           step \in Before => pc[c] \in Before,
           faults' \in {faults, faults + 1},
           UNCHANGED <<mined, mempool, lapsed>>
    PROVE  /\ Tallied' /\ Top' \in Nat
           /\ ~Pays(c, step) => Top' = Top + faults' - faults
           /\ Pays(c, step) => Top' = Top + 1 + faults' - faults
           /\ Owed' = faults' =>
                 Owed = faults /\ faults' = faults /\ ~Pays(c, step)
<1>0. /\ Owed \in Nat /\ faults \in Nat /\ Top \in Nat /\ Owed <= faults
      /\ Cardinality(mempool) \in Nat /\ mined \in Nat
      /\ IsFiniteSet(Owing) /\ IsFiniteSet(mempool)
  BY TopTyped DEF Tallied
<1>1. \A d \in Callers : pc'[d] = IF d = c THEN step ELSE pc[d]
  BY DEF Go, TypeOK
<1>2. lapsed' = lapsed /\ lapsed \subseteq Callers
  BY DEF TypeOK
<1>3. CASE Pays(c, step)
  <2>1. Owing' = Owing \ {c} /\ c \in Owing
    BY <1>1, <1>2, <1>3 DEF Owing, Pays
  <2>2. IsFiniteSet(Owing') /\ Owed' = Owed - 1
    BY <1>0, <2>1, FS_RemoveElement DEF Owed
  <2> QED BY <1>0, <1>3, <2>2 DEF Tallied, Top
<1>4. CASE ~Pays(c, step)
  <2>1. Owing' = Owing
    BY <1>1, <1>2, <1>4 DEF Owing, Pays
  <2>2. IsFiniteSet(Owing') /\ Owed' = Owed
    BY <1>0, <2>1 DEF Owed
  <2> QED BY <1>0, <1>4, <2>2 DEF Tallied, Top
<1> QED BY <1>3, <1>4

\* Callers who lag behind their locks pay as they leave Before, and a batch
\* that ends with its receipt leaves nothing in the mempool.
LEMMA SpotlessKept ==
    ASSUME TypeOK, LockHeld, Bounded, NEW c \in Callers, NEW step, Go(c, step),
           step \in Before => pc[c] \in Before,
           faults' \in {faults, faults + 1},
           faults' = faults /\ pc[c] \in {"idle", "lock", "late"} =>
              step \in {"idle", "lock", "late"},
           step \in Sent => pc[c] \in Sent /\ my'[c] = my[c],
           faults' = faults /\ pc[c] \in Sent =>
              step \in Sent \/ my[c] < mined \/ Behind(my[c]),
           \A d \in Callers \ {c} : my'[d] = my[d],
           UNCHANGED <<lock, mined, mempool, lapsed>>
    PROVE  Spotless'
<1> SUFFICES ASSUME Owed' = faults' PROVE Spotless'
  BY DEF Spotless
<1>1. Owed = faults /\ faults' = faults /\ ~Pays(c, step)
  BY TopGrows DEF Bounded
<1>2. /\ \A d \in Callers :
            lock # d => pc[d] \in Before \cup {"idle", "lock", "late"}
      /\ \A d \in Callers : lock = d /\ pc[d] \in Sent =>
            my[d] <= mined /\ mempool \subseteq {my[d]}
      /\ mempool # {} => \E d \in Callers : lock = d /\ pc[d] \in Sent
  BY <1>1 DEF Bounded, Spotless
<1>3. \A d \in Callers : pc'[d] = IF d = c THEN step ELSE pc[d]
  BY DEF Go, TypeOK
<1>4. ASSUME NEW d \in Callers, lock' # d
      PROVE  pc'[d] \in Before \cup {"idle", "lock", "late"}
  <2>1. CASE d = c
    <3>1. pc[c] \in Before => c \in lapsed
      BY <1>4, <2>1 DEF LockHeld, Before, Critical
    <3> QED BY <1>1, <1>2, <1>3, <1>4, <2>1, <3>1 DEF Pays
  <2> QED BY <1>2, <1>3, <1>4, <2>1
<1>5. ASSUME NEW d \in Callers, lock' = d, pc'[d] \in Sent
      PROVE  my'[d] <= mined' /\ mempool' \subseteq {my'[d]}
  BY <1>2, <1>3, <1>5
<1>6. ASSUME mempool' # {}
      PROVE  \E d \in Callers : lock' = d /\ pc'[d] \in Sent
  <2>1. PICK d \in Callers : lock = d /\ pc[d] \in Sent
    BY <1>2, <1>6
  <2>2. my[d] <= mined /\ mempool = {my[d]}
    BY <1>2, <1>6, <2>1
  <2>3. mined \in Nat /\ my[d] \in Int /\ mined <= my[d]
    BY <2>2, TopTyped DEF Bounded, CounterBounded
  <2>4. ~(my[d] < mined) /\ ~Behind(my[d])
    BY <2>2, <2>3 DEF Behind
  <2> QED BY <1>1, <1>3, <2>1, <2>4
<1> QED BY <1>4, <1>5, <1>6 DEF Spotless

\* A step that touches neither counter nor lock, and takes no caller to a place
\* where more is asked of it, keeps the bound; the owner leaves an unused nonce
\* this way only by a failure.
LEMMA QuietBounded ==
    ASSUME TypeOK, LockHeld, Bounded, NEW c \in Callers,
           NEW step \in {"idle", "lock", "late", "landed", "forget",
                         "tryfetch", "fetch", "read",
                         "wait", "clear", "release", "faildecr", "failfetch",
                         "failclear", "failrelease"},
           Go(c, step),
           step \in Before => pc[c] \in Before,
           faults' = faults + 1 \/ faults' = faults,
           faults' = faults /\ pc[c] \in {"idle", "lock", "late"} =>
              step \in {"idle", "lock", "late"},
           step \in Sent => pc[c] \in Sent,
           faults' = faults /\ pc[c] \in Sent =>
              step \in Sent \/ my[c] < mined \/ Behind(my[c]),
           faults' = faults /\ lock = c /\ pc[c] \in Unused =>
              step \in Unused \/ KeyAtMost(Top),
           UNCHANGED <<lock, nonce, mined, mempool, my, lapsed>>
    PROVE  Bounded'
<1>1. \A d \in Callers : pc'[d] = IF d = c THEN step ELSE pc[d]
  BY DEF Go, TypeOK
<1>2. /\ Top \in Nat /\ mined \in Nat /\ my \in [Callers -> Int]
      /\ mempool \subseteq Nat /\ (nonce # NoKey => nonce \in Int)
      /\ faults \in Nat /\ Cardinality(mempool) \in Nat
  BY TopTyped DEF Bounded
<1>3. Tallied' /\ Top' \in Nat /\ Top' >= Top
      /\ (faults' # faults => Top' >= Top + 1)
  BY <1>2, TopGrows DEF Bounded
<1>4. CounterBounded'
  <2>1. (\A n \in mempool : mined <= n /\ n < Top)'
    BY <1>2, <1>3 DEF Bounded, CounterBounded
  <2>2. KeyAtMost(Top + 1)'
    BY <1>2, <1>3 DEF Bounded, CounterBounded, KeyAtMost
  <2>3. ((\A d \in Callers : lock = d => pc[d] \notin Unused)
            => KeyAtMost(Top))'
    <3>1. CASE faults' = faults
      <4>1. SUFFICES ASSUME \A d \in Callers : lock = d => pc'[d] \notin Unused
                     PROVE  KeyAtMost(Top)
        BY <1>2, <1>3, <4>1 DEF KeyAtMost
      <4>2. CASE \A d \in Callers : lock = d => pc[d] \notin Unused
        BY <4>2 DEF Bounded, CounterBounded
      <4>3. CASE lock = c /\ pc[c] \in Unused
        BY <1>1, <3>1, <4>1, <4>3
      <4> QED BY <1>1, <4>1, <4>2, <4>3
    <3>2. CASE faults' # faults
      BY <1>2, <1>3, <3>2 DEF Bounded, CounterBounded, KeyAtMost
    <3> QED BY <3>1, <3>2
  <2> QED BY <2>1, <2>2, <2>3 DEF CounterBounded
<1>5. ASSUME NEW d \in Callers PROVE CallerBounded(d)'
  <2>1. CASE d = c
    BY <1>1, <2>1 DEF CallerBounded
  <2>2. CASE d # c
    BY <1>1, <1>2, <1>3, <2>2 DEF Bounded, CallerBounded
  <2> QED BY <2>1, <2>2
<1>6. Spotless'
  BY SpotlessKept
<1> QED BY <1>3, <1>4, <1>5, <1>6 DEF Bounded

\* The steps to the INCR, and the reset of the counter.
LEMMA AcquireBounded ==
    ASSUME TypeOK, LockHeld, Bounded, NEW c \in Callers,
           \/ TryLock(c) \/ ResetFetch(c) \/ ResetStore(c) \/ ReadNonce(c)
           \/ IncrNonce(c)
    PROVE  Bounded'
<1> USE DEF redisVars, chainVars, callerVars
<1>0. /\ Top \in Nat /\ mined \in Nat /\ my \in [Callers -> Int]
      /\ mempool \subseteq Nat /\ (nonce # NoKey => nonce \in Int)
      /\ faults \in Nat /\ Cardinality(mempool) \in Nat
      /\ mined + Cardinality(mempool) <= Top
      /\ Owed # faults => mined + Cardinality(mempool) < Top
  BY TopTyped DEF Bounded
<1>a. CounterBounded /\ Spotless /\ \A d \in Callers : CallerBounded(d)
  BY DEF Bounded
<1>2. CASE TryLock(c)
  <2>1. lock \notin Callers /\ lock' = c /\ pc[c] = "lock"
    BY <1>2, CallersAssumption DEF TryLock
  <2>2. /\ \A d \in Callers : pc'[d] = IF d = c THEN "check" ELSE pc[d]
        /\ UNCHANGED <<nonce, mined, mempool, my, faults>>
        /\ lapsed' = lapsed \ {c}
    BY <1>2 DEF TryLock, Go, TypeOK
  <2>3. Owing' = Owing
    BY <2>1, <2>2 DEF Owing, Before, TypeOK
  <2>4. Owed' = Owed /\ Top' = Top /\ Tallied'
    BY <2>2, <2>3 DEF Owed, Top, Bounded, Tallied
  <2>5. CounterBounded'
    BY <1>a, <2>1, <2>2, <2>4 DEF CounterBounded, KeyAtMost
  <2>6. ASSUME NEW d \in Callers PROVE CallerBounded(d)'
    BY <1>a, <2>1, <2>2, <2>4 DEF CallerBounded
  <2>7. Spotless'
    BY <1>a, <2>1, <2>2, <2>4 DEF Spotless, Before, Sent
  <2> QED BY <2>4, <2>5, <2>6, <2>7 DEF Bounded
<1>5. CASE ResetFetch(c)
  <2>1. PICK n \in mined..(mined + Cardinality(mempool)) :
           my' = [my EXCEPT ![c] = n]
    BY <1>5 DEF ResetFetch
  <2>2. n \in Int /\ n <= mined + Cardinality(mempool)
    BY <1>0
  <2>3. PICK step \in {"trystore", "store", "failstore"} :
           /\ Go(c, step)
           /\ step = "trystore" => pc[c] = "tryfetch"
           /\ step = "store" => pc[c] = "fetch"
           /\ step = "failstore" => pc[c] = "failfetch"
    BY <1>5 DEF ResetFetch
  <2>4. UNCHANGED <<lock, nonce, mined, mempool, faults, lapsed>>
    BY <1>5 DEF ResetFetch
  <2>5. Tallied' /\ Top' = Top
    BY <1>0, <2>3, <2>4, TopGrows DEF Bounded, Pays, Before
  <2>6. /\ \A d \in Callers : pc'[d] = IF d = c THEN step ELSE pc[d]
        /\ \A d \in Callers : my'[d] = IF d = c THEN n ELSE my[d]
    BY <1>0, <2>1, <2>3 DEF Go, TypeOK
  <2>7. CounterBounded'
    BY <1>a, <2>3, <2>4, <2>5, <2>6 DEF CounterBounded, KeyAtMost, Unused
  <2>8. ASSUME NEW d \in Callers PROVE CallerBounded(d)'
    BY <1>a, <2>2, <2>3, <2>4, <2>5, <2>6 DEF CallerBounded
  <2>9. Spotless'
    BY <2>3, <2>4, <2>6, SpotlessKept DEF Before, Sent
  <2> QED BY <2>5, <2>7, <2>8, <2>9 DEF Bounded
<1>6. CASE ResetStore(c)
  <2>1. PICK step \in {"read", "failclear"} :
           /\ Go(c, step)
           /\ step = "read" => pc[c] \in {"trystore", "store"}
           /\ step = "failclear" => pc[c] = "failstore"
    BY <1>6 DEF ResetStore
  <2>2. nonce' = my[c] /\ UNCHANGED <<lock, mined, mempool, my, faults, lapsed>>
    BY <1>6 DEF ResetStore
  <2>3. Tallied' /\ Top' = Top
    BY <1>0, <2>1, <2>2, TopGrows DEF Bounded, Pays, Before
  <2>4. my[c] \in Int /\ my[c] <= mined + Cardinality(mempool)
    BY <1>0, <1>a, <2>1 DEF CallerBounded
  <2>5. nonce' # NoKey /\ nonce' \in Int /\ nonce' <= Top
    BY <1>0, <2>2, <2>4, KeyAssumption
  <2>6. \A d \in Callers : pc'[d] = IF d = c THEN step ELSE pc[d]
    BY <2>1 DEF Go, TypeOK
  <2>7. CounterBounded'
    BY <1>0, <1>a, <2>2, <2>3, <2>5 DEF CounterBounded, KeyAtMost
  <2>8. ASSUME NEW d \in Callers PROVE CallerBounded(d)'
    <3>1. CASE d = c
      BY <2>1, <2>6, <3>1 DEF CallerBounded
    <3>2. CASE d # c
      <4>1. ASSUME lock = d, my[d] \in mempool, pc[d] = "incr"
            PROVE  nonce' < Top
        <5>1. Owed # faults
          BY <1>a, <4>1 DEF Spotless, Sent
        <5> QED BY <1>0, <2>2, <2>4, <5>1
      <4> QED BY <1>a, <2>2, <2>3, <2>5, <2>6, <3>2, <4>1 DEF CallerBounded
    <3> QED BY <3>1, <3>2
  <2>9. Spotless'
    BY <2>1, <2>2, SpotlessKept DEF Before, Sent
  <2> QED BY <2>3, <2>7, <2>8, <2>9 DEF Bounded
<1>7. CASE ReadNonce(c)
  <2>1. CASE nonce = NoKey
    BY <1>7, <2>1, QuietBounded DEF ReadNonce, Unused, Before, Sent
  <2>2. CASE nonce # NoKey
    <3>1. /\ pc[c] = "read" /\ Go(c, "incr")
          /\ my' = [my EXCEPT ![c] = nonce]
          /\ UNCHANGED <<lock, nonce, mined, mempool, faults, lapsed>>
      BY <1>7, <2>2 DEF ReadNonce
    <3>2. lock = c \/ c \in lapsed
      BY <3>1 DEF LockHeld, Critical
    <3>3. nonce \in Int /\ nonce <= Top + 1 /\ (lock = c => nonce <= Top)
      BY <1>0, <1>a, <2>2, <3>1 DEF CounterBounded, KeyAtMost, Unused
    <3>4. Tallied' /\ Top' = Top
      BY <1>0, <3>1, TopGrows DEF Bounded, Pays, Before
    <3>5. /\ \A d \in Callers : pc'[d] = IF d = c THEN "incr" ELSE pc[d]
          /\ \A d \in Callers : my'[d] = IF d = c THEN nonce ELSE my[d]
      BY <1>0, <3>1 DEF Go, TypeOK
    <3>6. CounterBounded'
      BY <1>0, <1>a, <3>1, <3>3, <3>4, <3>5
      DEF CounterBounded, KeyAtMost, Unused
    <3>7. ASSUME NEW d \in Callers PROVE CallerBounded(d)'
      <4>1. CASE d = c
        <5>1. nonce \in mempool => nonce < Top
          BY <1>a DEF CounterBounded
        <5> QED
          BY <2>2, <3>1, <3>2, <3>3, <3>4, <3>5, <4>1, <5>1 DEF CallerBounded
      <4>2. CASE d # c
        BY <1>a, <3>1, <3>4, <3>5, <4>2 DEF CallerBounded
      <4> QED BY <4>1, <4>2
    <3>8. Spotless'
      BY <3>1, <3>5, SpotlessKept DEF Before, Sent
    <3> QED BY <3>4, <3>6, <3>7, <3>8 DEF Bounded
  <2> QED BY <2>1, <2>2
<1>8. CASE IncrNonce(c)
  <2>1. /\ pc[c] = "incr" /\ Go(c, "send") /\ nonce # NoKey /\ nonce \in Int
    BY <1>0, <1>8, <1>a DEF IncrNonce, CallerBounded
  <2>2. /\ nonce' = nonce + 1 /\ nonce' \in Int /\ nonce' # NoKey
        /\ UNCHANGED <<lock, mined, mempool, my, faults, lapsed>>
    BY <1>8, <2>1, KeyAssumption DEF IncrNonce, Counter
  <2>3. lock = c \/ c \in lapsed
    BY <2>1 DEF LockHeld, Critical
  <2>4. \A d \in Callers : pc'[d] = IF d = c THEN "send" ELSE pc[d]
    BY <2>1 DEF Go, TypeOK
  <2>5. /\ Tallied' /\ Top' \in Nat
        /\ c \in lapsed => Top' = Top + 1
        /\ c \notin lapsed => Top' = Top
    BY <1>0, <2>1, <2>2, TopGrows DEF Bounded, Pays, Before
  <2>6. nonce <= Top + 1 /\ (lock = c => nonce <= Top)
    BY <1>a, <2>1 DEF CounterBounded, KeyAtMost, Unused
  <2>7. CounterBounded'
    <3>1. (\A n \in mempool : mined <= n /\ n < Top)'
      BY <1>0, <1>a, <2>2, <2>5 DEF CounterBounded
    <3>2. KeyAtMost(Top + 1)'
      <4>1. CASE c \in lapsed
        BY <1>0, <2>1, <2>2, <2>5, <2>6, <4>1 DEF KeyAtMost
      <4>2. CASE c \notin lapsed
        BY <1>0, <2>1, <2>2, <2>3, <2>5, <2>6, <4>2 DEF KeyAtMost
      <4> QED BY <4>1, <4>2
    <3>3. ASSUME \A d \in Callers : lock' = d => pc'[d] \notin Unused
          PROVE  nonce' <= Top'
      <4>1. lock # c /\ c \in lapsed
        BY <2>2, <2>3, <2>4, <3>3 DEF Unused
      <4>2. \A d \in Callers : lock = d => pc[d] \notin Unused
        BY <2>2, <2>4, <3>3, <4>1
      <4>3. nonce <= Top
        BY <1>a, <2>1, <4>2 DEF CounterBounded, KeyAtMost
      <4> QED BY <1>0, <2>1, <2>2, <2>5, <4>1, <4>3
    <3> QED BY <3>1, <3>2, <3>3 DEF CounterBounded, KeyAtMost
  <2>8. ASSUME NEW d \in Callers PROVE CallerBounded(d)'
    <3>1. CASE d = c
      <4>1. my[c] \in Int /\ my[c] <= Top'
        BY <1>0, <1>a, <2>1, <2>5 DEF CallerBounded
      <4>2. lock = c /\ my[c] \in mempool => nonce' <= Top'
        BY <1>0, <1>a, <2>1, <2>2, <2>5 DEF CallerBounded
      <4> QED BY <2>2, <2>4, <3>1, <4>1, <4>2 DEF CallerBounded
    <3>2. CASE d # c
      <4>1. lock = d => Top' = Top + 1
        BY <2>3, <2>5, <3>2
      <4>2. my[d] \in Int
        BY <1>0
      <4> QED
        BY <1>0, <1>a, <2>1, <2>2, <2>4, <2>5, <3>2, <4>1, <4>2
        DEF CallerBounded
    <3> QED BY <3>1, <3>2
  <2>9. Spotless'
    BY <2>1, <2>2, SpotlessKept DEF Before, Sent
  <2> QED BY <2>5, <2>7, <2>8, <2>9 DEF Bounded
<1> QED BY <1>2, <1>5, <1>6, <1>7, <1>8

\* The broadcast.
LEMMA SendBounded ==
    ASSUME TypeOK, LockHeld, Bounded, NEW c \in Callers, Send(c)
    PROVE  Bounded'
<1>0. /\ Top \in Nat /\ mined \in Nat /\ my \in [Callers -> Int]
      /\ mempool \subseteq Nat /\ (nonce # NoKey => nonce \in Int)
      /\ faults \in Nat /\ Cardinality(mempool) \in Nat
      /\ Owed \in Nat /\ Owed <= faults
  BY TopTyped DEF Bounded
<1>a. CounterBounded /\ Spotless /\ \A d \in Callers : CallerBounded(d)
  BY DEF Bounded
<1>1. /\ pc[c] = "send" /\ my[c] \in Int /\ my[c] <= Top
      /\ my[c] >= mined /\ my[c] \notin mempool
      /\ mempool' = mempool \cup {my[c]}
      /\ UNCHANGED <<lock, nonce, mined, my, lapsed>>
  BY <1>0, <1>a DEF Send, Fresh, CallerBounded, redisVars
<1>2. PICK step \in {"confirm", "faildecr"} :
         Go(c, step) /\ (step = "faildecr" => faults' = faults + 1)
  BY FaultCounts DEF Send, Fail
<1>3. faults' \in {faults, faults + 1}
  BY FaultCounts DEF Send
<1>4. \A d \in Callers : pc'[d] = IF d = c THEN step ELSE pc[d]
  BY <1>2 DEF Go, TypeOK
<1>5. IsFiniteSet(mempool') /\ Cardinality(mempool') = Cardinality(mempool) + 1
  BY <1>1, FS_AddElement DEF Bounded, Tallied
<1>6. Owing' = Owing
  BY <1>1, <1>4 DEF Owing, Before, TypeOK
<1>7. Owed' = Owed /\ Tallied'
  BY <1>0, <1>3, <1>5, <1>6 DEF Owed, Bounded, Tallied
<1>8. Top' = Top + 1 + faults' - faults /\ Top' \in {Top + 1, Top + 2}
  BY <1>0, <1>1, <1>3, <1>5, <1>7 DEF Top
<1>9. CounterBounded'
  <2>1. (\A n \in mempool : mined <= n /\ n < Top)'
    BY <1>0, <1>a, <1>1, <1>8 DEF CounterBounded
  <2>2. KeyAtMost(Top)' /\ KeyAtMost(Top + 1)'
    BY <1>0, <1>a, <1>1, <1>8 DEF CounterBounded, KeyAtMost
  <2> QED BY <2>1, <2>2 DEF CounterBounded
<1>10. ASSUME NEW d \in Callers PROVE CallerBounded(d)'
  <2>1. CASE d = c
    BY <1>2, <1>4, <2>1 DEF CallerBounded
  <2>2. CASE d # c
    <3>1. /\ nonce # NoKey => nonce <= Top + 1
          /\ nonce # NoKey /\ lock = d /\ pc[d] = "incr" => nonce <= Top
      BY <1>a DEF CounterBounded, KeyAtMost, Unused
    <3>2. my[d] \in Int /\ pc'[d] = pc[d] /\ my'[d] = my[d]
      BY <1>0, <1>1, <1>4, <2>2
    <3>3. /\ pc[d] \in {"incr", "send"} => nonce # NoKey
          /\ pc[d] = "send" => my[d] <= Top
          /\ pc[d] = "incr" => my[d] <= Top \/ (d \in lapsed /\ my[d] <= Top + 1)
          /\ pc[d] \in {"trystore", "store", "failstore"} =>
                my[d] <= mined + Cardinality(mempool)
      BY <1>a DEF CallerBounded
    <3>4. pc[d] = "incr" /\ lock = d => nonce < Top'
      BY <1>0, <1>8, <3>1, <3>3
    <3>5. pc[d] = "send" => nonce <= Top'
      BY <1>0, <1>8, <3>1, <3>3
    <3>6. /\ pc[d] = "send" => my[d] <= Top'
          /\ pc[d] = "incr" =>
                my[d] <= Top' \/ (d \in lapsed /\ my[d] <= Top' + 1)
          /\ pc[d] \in {"trystore", "store", "failstore"} =>
                my[d] <= mined + Cardinality(mempool')
      BY <1>0, <1>5, <1>8, <3>2, <3>3
    <3> QED BY <1>1, <3>2, <3>3, <3>4, <3>5, <3>6 DEF CallerBounded
  <2> QED BY <2>1, <2>2
<1>11. Spotless'
  <2> SUFFICES ASSUME Owed' = faults' PROVE Spotless'
    BY DEF Spotless
  <2>1. Owed = faults /\ faults' = faults /\ step = "confirm"
    BY <1>0, <1>2, <1>3, <1>7
  <2>2. lock = c
    BY <1>a, <1>1, <2>1 DEF Spotless, Before
  <2>3. mempool = {}
    BY <1>a, <1>1, <2>1, <2>2 DEF Spotless, Sent
  <2>4. my[c] <= mined
    <3>1. Cardinality(mempool) = 0
      BY <2>3, FS_EmptySet
    <3> QED BY <1>0, <1>1, <2>1, <3>1 DEF Top
  <2> QED
    BY <1>a, <1>1, <1>4, <2>1, <2>2, <2>3, <2>4 DEF Spotless, Sent
<1> QED BY <1>7, <1>9, <1>10, <1>11 DEF Bounded

\* The steps of a caller that nothing fails.
LEMMA StepBounded ==
    ASSUME TypeOK, LockHeld, Bounded, NEW c \in Callers, CallerStep(c)
    PROVE  Bounded'
<1> USE DEF redisVars, chainVars, callerVars
<1>0. /\ Top \in Nat /\ mined \in Nat /\ my \in [Callers -> Int]
      /\ mempool \subseteq Nat /\ (nonce # NoKey => nonce \in Int)
      /\ faults \in Nat
  BY TopTyped DEF Bounded
<1>a. CounterBounded /\ Spotless /\ \A d \in Callers : CallerBounded(d)
  BY DEF Bounded
<1>1. CASE Start(c)
  BY <1>1, QuietBounded DEF Start, Unused, Before, Sent
<1>2. CASE TryLock(c) \/ ResetFetch(c) \/ ResetStore(c) \/ ReadNonce(c)
             \/ IncrNonce(c)
  BY <1>2, AcquireBounded
<1>3. CASE CheckPending(c)
  BY <1>3, QuietBounded DEF CheckPending, Unused, Before, Sent
<1>4. CASE ForgetPending(c)
  BY <1>4, QuietBounded DEF ForgetPending, Unused, Before, Sent
<1>5. CASE Send(c)
  BY <1>5, SendBounded
<1>6. CASE SendRefused(c)
  <2>1. PICK step \in {"faildecr", "failfetch", "failclear"} :
           Go(c, step) /\ (step = "failclear" => my[c] \in mempool)
    BY <1>6 DEF SendRefused, Fail
  <2>2. pc[c] = "send" /\ UNCHANGED <<lock, nonce, mined, mempool, my, faults,
                                      lapsed>>
    BY <1>6 DEF SendRefused
  <2>3. lock = c => step \in Unused \/ KeyAtMost(Top)
    BY <1>a, <2>1, <2>2 DEF CallerBounded, KeyAtMost, Unused
  <2> QED BY <2>1, <2>2, <2>3, QuietBounded DEF Before, Sent
<1>7. CASE ConfirmNonce(c)
  BY <1>7, QuietBounded DEF ConfirmNonce, Unused, Before, Sent
<1>8. CASE Receipt(c)
  BY <1>8, QuietBounded DEF Receipt, Fail, Unused, Before, Sent
<1>9. CASE ClearPending(c)
  BY <1>9, QuietBounded DEF ClearPending, Unused, Before, Sent
<1>10. CASE DecrNonce(c)
  <2>1. /\ pc[c] = "faildecr" /\ Go(c, "failclear")
        /\ nonce' = Counter - 1
        /\ UNCHANGED <<lock, mined, mempool, my, faults, lapsed>>
    BY <1>10 DEF DecrNonce
  <2>2. /\ nonce' \in Int /\ nonce' # NoKey
        /\ nonce = NoKey => nonce' = -1
        /\ nonce # NoKey => nonce \in Int /\ nonce' = nonce - 1
    BY <1>0, <2>1, KeyAssumption DEF Counter
  <2>3. Tallied' /\ Top' = Top
    BY <1>0, <2>1, TopGrows DEF Bounded, Pays, Before
  <2>4. nonce' <= Top /\ Top \in Nat
    BY <1>0, <1>a, <2>2 DEF CounterBounded, KeyAtMost
  <2>5. CounterBounded'
    <3>1. KeyAtMost(Top)' /\ KeyAtMost(Top + 1)'
      BY <2>2, <2>3, <2>4 DEF KeyAtMost
    <3> QED BY <1>a, <2>1, <2>3, <3>1 DEF CounterBounded
  <2>6. \A d \in Callers : pc'[d] = IF d = c THEN "failclear" ELSE pc[d]
    BY <2>1 DEF Go, TypeOK
  <2>7. ASSUME NEW d \in Callers PROVE CallerBounded(d)'
    BY <1>0, <1>a, <2>1, <2>2, <2>3, <2>6 DEF CallerBounded
  <2>8. Spotless'
    BY <2>1, SpotlessKept DEF Before, Sent
  <2> QED BY <2>3, <2>5, <2>7, <2>8 DEF Bounded
<1>11. CASE ReleaseLock(c)
  <2>1. PICK step \in {"late", "idle"} : Go(c, step)
    BY <1>11 DEF ReleaseLock
  <2>2. /\ pc[c] \in {"release", "failrelease"}
        /\ lock' = (IF lock = c THEN "free" ELSE lock)
        /\ UNCHANGED <<nonce, mined, mempool, my, faults, lapsed>>
    BY <1>11 DEF ReleaseLock
  <2>3. \A d \in Callers : pc'[d] = IF d = c THEN step ELSE pc[d]
    BY <2>1 DEF Go, TypeOK
  <2>4. Tallied' /\ Top' = Top /\ (Owed' = faults' => Owed = faults)
    BY <1>0, <2>1, <2>2, TopGrows DEF Bounded, Pays, Before
  <2>5. \A d \in Callers : lock' = d <=> lock = d /\ d # c
    BY <2>2, CallersAssumption
  <2>6. (\A d \in Callers : lock' = d => pc'[d] \notin Unused) =>
           \A d \in Callers : lock = d => pc[d] \notin Unused
    BY <2>2, <2>3, <2>5 DEF Unused
  <2>7. CounterBounded'
    BY <1>a, <2>2, <2>4, <2>6 DEF CounterBounded, KeyAtMost
  <2>8. ASSUME NEW d \in Callers PROVE CallerBounded(d)'
    BY <1>a, <2>1, <2>2, <2>3, <2>4, <2>5 DEF CallerBounded
  <2>9. Spotless'
    <3> SUFFICES ASSUME Owed' = faults' PROVE Spotless'
      BY DEF Spotless
    <3>1. Owed = faults
      BY <2>4
    <3>2. lock = c
      BY <1>a, <2>2, <3>1 DEF Spotless, Before
    <3>3. mempool = {}
      BY <1>a, <2>2, <3>1, <3>2 DEF Spotless, Sent
    <3> QED
      BY <1>a, <2>2, <2>3, <2>5, <3>1, <3>2, <3>3 DEF Spotless, Sent
  <2> QED BY <2>4, <2>7, <2>8, <2>9 DEF Bounded
<1>12. CASE Settled(c)
  BY <1>12, QuietBounded DEF Settled, Unused, Before, Sent
<1> QED
  BY <1>1, <1>2, <1>3, <1>4, <1>5, <1>6, <1>7, <1>8, <1>9, <1>10, <1>11,
     <1>12 DEF CallerStep

\* What fails: Top grows by the nonce a failure may have lost.
LEMMA FaultBounded ==
    ASSUME TypeOK, LockHeld, Bounded, NEW c \in Callers, CallerFault(c)
    PROVE  Bounded'
<1> USE DEF redisVars, chainVars, callerVars
<1>0. /\ Top \in Nat /\ mined \in Nat /\ my \in [Callers -> Int]
      /\ mempool \subseteq Nat /\ (nonce # NoKey => nonce \in Int)
      /\ faults \in Nat /\ Owed \in Nat /\ Owed <= faults
      /\ Cardinality(mempool) \in Nat
  BY TopTyped DEF Bounded
<1>a. CounterBounded /\ Spotless /\ \A d \in Callers : CallerBounded(d)
  BY DEF Bounded
<1>1. CASE LockTimeout(c)
  BY <1>0, <1>1, QuietBounded, FaultCounts DEF LockTimeout, Fail, Before, Sent
<1>2. CASE SendFails(c)
  BY <1>2, QuietBounded, FaultCounts
  DEF SendFails, Fail, Unused, Before, Sent
<1>3. CASE ReceiptTimeout(c)
  BY <1>3, QuietBounded, FaultCounts
  DEF ReceiptTimeout, Fail, Unused, Before, Sent
<1>4. CASE LateFailure(c)
  BY <1>0, <1>4, QuietBounded, FaultCounts DEF LateFailure, Fail, Before, Sent
<1>5. CASE RpcError(c)
  <2>1. \/ Go(c, "idle") \/ Go(c, "faildecr")
        \/ pc[c] \in Trying /\ Go(c, "forget")
    BY <1>5, ThrownSplit DEF RpcError, Fail
  <2>2. /\ faults' = faults + 1
        /\ UNCHANGED <<lock, nonce, mined, mempool, my, lapsed>>
    BY <1>5, FaultCounts DEF RpcError
  <2> QED BY <1>0, <2>1, <2>2, QuietBounded DEF Before, Sent, Unused
<1>6. CASE RedisError(c)
  <2>1. \/ Go(c, "idle") \/ Go(c, "faildecr")
        \/ pc[c] \in Trying /\ Go(c, "forget")
    BY <1>6, ThrownSplit DEF RedisError, Fail
  <2>2. /\ faults' = faults + 1
        /\ UNCHANGED <<lock, nonce, mined, mempool, my, lapsed>>
    BY <1>6, FaultCounts DEF RedisError
  <2> QED BY <1>0, <2>1, <2>2, QuietBounded DEF Before, Sent, Unused
<1>7. CASE Crash(c)
  <2>1. /\ Go(c, "idle") /\ faults' = faults + 1
        /\ lock' = IF lock = c THEN "dead" ELSE lock
        /\ UNCHANGED <<nonce, mined, mempool, my, lapsed>>
    BY <1>7, FaultCounts DEF Crash, Fail
  <2>2. \A d \in Callers : pc'[d] = IF d = c THEN "idle" ELSE pc[d]
    BY <2>1 DEF Go, TypeOK
  <2>3. Tallied' /\ Top' \in Nat /\ Top' >= Top + 1 /\ Owed' # faults'
    BY <1>0, <2>1, TopGrows DEF Bounded, Before
  <2>4. \A d \in Callers : lock' = d => lock = d
    BY <2>1, CallersAssumption
  <2>5. CounterBounded'
    BY <1>0, <1>a, <2>1, <2>3 DEF CounterBounded, KeyAtMost
  <2>6. ASSUME NEW d \in Callers PROVE CallerBounded(d)'
    BY <1>0, <1>a, <2>1, <2>2, <2>3, <2>4 DEF CallerBounded
  <2>7. Spotless'
    BY <2>3 DEF Spotless
  <2> QED BY <2>3, <2>5, <2>6, <2>7 DEF Bounded
<1>8. CASE Lapse(c)
  <2>1. /\ lock = c /\ lock' = "free" /\ faults' = faults + 1
        /\ lapsed' = lapsed \cup {c}
        /\ UNCHANGED <<nonce, mined, mempool, my, pc>>
    BY <1>8, FaultCounts DEF Lapse
  <2>2. /\ Tallied' /\ Top' \in {Top, Top + 1}
        /\ pc[c] \notin Before => Top' = Top + 1
        /\ Owed' = faults' => Owed = faults /\ pc[c] \in Before
    <3>1. CASE pc[c] \in Before /\ c \notin lapsed
      <4>1. Owing' = Owing \cup {c} /\ c \notin Owing
        BY <2>1, <3>1 DEF Owing
      <4>2. IsFiniteSet(Owing') /\ Owed' = Owed + 1
        BY <4>1, FS_AddElement DEF Owed, Bounded, Tallied
      <4> QED BY <1>0, <2>1, <3>1, <4>2 DEF Top, Bounded, Tallied
    <3>2. CASE ~ (pc[c] \in Before /\ c \notin lapsed)
      <4>1. Owing' = Owing
        BY <2>1, <3>2 DEF Owing
      <4>2. IsFiniteSet(Owing') /\ Owed' = Owed
        BY <4>1 DEF Owed, Bounded, Tallied
      <4> QED BY <1>0, <2>1, <4>2 DEF Top, Bounded, Tallied
    <3> QED BY <3>1, <3>2
  <2>3. \A d \in Callers : lock' # d
    BY <2>1, CallersAssumption
  <2>4. CounterBounded'
    <3>1. (\A n \in mempool : mined <= n /\ n < Top)'
      BY <1>0, <1>a, <2>1, <2>2 DEF CounterBounded
    <3>2. KeyAtMost(Top)'
      <4>1. CASE pc[c] \in Before
        <5>1. \A d \in Callers : lock = d => pc[d] \notin Unused
          BY <2>1, <4>1 DEF Before, Unused
        <5> QED BY <1>0, <1>a, <2>1, <2>2, <5>1 DEF CounterBounded, KeyAtMost
      <4>2. CASE pc[c] \notin Before
        BY <1>0, <1>a, <2>1, <2>2, <4>2 DEF CounterBounded, KeyAtMost
      <4> QED BY <4>1, <4>2
    <3> QED BY <1>0, <2>1, <2>2, <3>1, <3>2 DEF CounterBounded, KeyAtMost
  <2>5. ASSUME NEW d \in Callers PROVE CallerBounded(d)'
    <3>1. my[d] \in Int
      BY <1>0
    <3> QED BY <1>0, <1>a, <2>1, <2>2, <2>3, <3>1 DEF CallerBounded
  <2>6. Spotless'
    <3> SUFFICES ASSUME Owed' = faults' PROVE Spotless'
      BY DEF Spotless
    <3>1. Owed = faults /\ pc[c] \in Before
      BY <2>2
    <3>2. mempool = {}
      BY <1>a, <2>1, <3>1 DEF Spotless, Before, Sent
    <3> QED BY <1>a, <2>1, <2>3, <3>1, <3>2 DEF Spotless
  <2> QED BY <2>2, <2>4, <2>5, <2>6 DEF Bounded
<1> QED
  BY <1>1, <1>2, <1>3, <1>4, <1>5, <1>6, <1>7, <1>8 DEF CallerFault

\* A lock that nobody uses expires, and the chain mines.
LEMMA OthersBounded ==
    ASSUME TypeOK, Bounded, Expire \/ Mine
    PROVE  Bounded'
<1> USE DEF redisVars, chainVars, callerVars
<1>a. CounterBounded /\ Spotless /\ Tallied /\ \A d \in Callers : CallerBounded(d)
  BY DEF Bounded
<1>0. Owing' = Owing /\ Owed' = Owed /\ faults' = faults
  BY DEF Expire, Mine, Owing, Owed
<1>1. CASE Expire
  <2>1. /\ lock' = "free"
        /\ \A d \in Callers :
              lock = d => pc[d] \in {"idle", "lock", "late"}
        /\ UNCHANGED <<nonce, mined, mempool, my, pc, lapsed>>
    BY <1>1, CallersAssumption DEF Expire
  <2>2. Top' = Top /\ Tallied' /\ \A d \in Callers : lock' # d
    BY <1>0, <1>a, <2>1, CallersAssumption DEF Top, Tallied
  <2>3. CounterBounded'
    BY <1>a, <2>1, <2>2 DEF CounterBounded, KeyAtMost, Unused
  <2>4. ASSUME NEW d \in Callers PROVE CallerBounded(d)'
    BY <1>a, <2>1, <2>2 DEF CallerBounded
  <2>5. Spotless'
    BY <1>0, <1>a, <2>1, <2>2 DEF Spotless, Sent
  <2> QED BY <2>2, <2>3, <2>4, <2>5 DEF Bounded
<1>2. CASE Mine
  <2>1. /\ mined \in Nat /\ mined \in mempool /\ mined' = mined + 1
        /\ mempool' = mempool \ {mined}
        /\ UNCHANGED <<lock, nonce, my, pc, lapsed>>
    BY <1>2 DEF Mine, TypeOK
  <2>2. /\ IsFiniteSet(mempool') /\ Cardinality(mempool) \in Nat
        /\ Cardinality(mempool') = Cardinality(mempool) - 1
    BY <1>a, <2>1, FS_RemoveElement, FS_CardinalityType DEF Tallied
  <2>3. /\ mined' + Cardinality(mempool') = mined + Cardinality(mempool)
        /\ Top' = Top /\ Tallied'
    <3>1. Owed \in Nat /\ faults \in Nat
      BY TopTyped, <1>a
    <3> QED BY <1>0, <1>a, <2>1, <2>2, <3>1 DEF Top, Tallied
  <2>4. CounterBounded'
    BY <1>a, <2>1, <2>3 DEF CounterBounded, KeyAtMost, TypeOK
  <2>5. ASSUME NEW d \in Callers PROVE CallerBounded(d)'
    BY <1>a, <2>1, <2>3 DEF CallerBounded
  <2>6. Spotless'
    <3>1. my \in [Callers -> Int]
      BY DEF TypeOK
    <3> QED BY <1>0, <1>a, <2>1, <3>1 DEF Spotless
  <2> QED BY <2>3, <2>4, <2>5, <2>6 DEF Bounded
<1> QED BY <1>1, <1>2

\* Below Top there is room for as many unused nonces as there were failures.
LEMMA RoomBelowTop ==
    ASSUME TypeOK, Bounded
    PROVE  GapsBounded
<1> SUFFICES ASSUME NEW n \in mempool
             PROVE  Cardinality(Skipped(n)) <= faults
  BY DEF GapsBounded
<1>1. /\ Top \in Nat /\ mined \in Nat /\ faults \in Nat /\ Owed \in Nat
      /\ Cardinality(mempool) \in Nat /\ IsFiniteSet(mempool)
      /\ n \in Nat /\ mined <= n /\ n < Top
  BY TopTyped DEF Bounded, Tallied, CounterBounded, TypeOK
<1>2. IsFiniteSet(mined..n)
  BY <1>1, FS_Interval
<1>3. IsFiniteSet(Skipped(n)) /\ Cardinality(Skipped(n)) \in Nat
  BY <1>2, FS_Difference, FS_CardinalityType DEF Skipped
<1>4. Skipped(n) \cap mempool = {}
  BY DEF Skipped
<1>5. Cardinality(Skipped(n) \cup mempool)
        = Cardinality(Skipped(n)) + Cardinality(mempool)
  <2>1. Cardinality(Skipped(n) \cap mempool) = 0
    BY <1>4, FS_EmptySet
  <2>2. Cardinality(Skipped(n) \cup mempool)
          = Cardinality(Skipped(n)) + Cardinality(mempool)
            - Cardinality(Skipped(n) \cap mempool)
    BY <1>1, <1>3, FS_Union
  <2> QED BY <1>1, <1>3, <2>1, <2>2
<1>6. Skipped(n) \cup mempool \subseteq mined..(Top - 1)
  BY <1>1 DEF Skipped, Bounded, CounterBounded, TypeOK
<1>7. /\ IsFiniteSet(mined..(Top - 1))
      /\ Cardinality(mined..(Top - 1)) = Top - mined
  <2>1. mined \in Int /\ Top - 1 \in Int /\ ~ (mined > Top - 1)
    BY <1>1
  <2>2. Cardinality(mined..(Top - 1)) = (Top - 1) - mined + 1
    BY <2>1, FS_Interval
  <2> QED BY <1>1, <2>1, <2>2, FS_Interval
<1>8. Cardinality(Skipped(n) \cup mempool) <= Cardinality(mined..(Top - 1))
  BY <1>6, <1>7, FS_Subset
<1>9. Cardinality(Skipped(n)) + Cardinality(mempool) <= Top - mined
  BY <1>5, <1>7, <1>8
<1>10. Top - mined = Cardinality(mempool) + faults - Owed
  BY <1>1 DEF Top
<1> QED BY <1>1, <1>3, <1>9, <1>10

\* Whatever fails, crashes, expires in use or is retried without the lock, the
\* nonces nobody has used below a broadcast one are never more than the
\* failures.
THEOREM LeaksAreBounded == Spec => []GapsBounded
<1> DEFINE BoundInv == LockHeld /\ Bounded
<1>1. Init => BoundInv
  <2> SUFFICES ASSUME Init PROVE BoundInv
    OBVIOUS
  <2>1. /\ IsFiniteSet(mempool) /\ Cardinality(mempool) = 0
        /\ IsFiniteSet(Owing) /\ Owed = 0
    BY FS_EmptySet DEF Init, Owing, Owed
  <2>2. Top = StartNonce
    BY <2>1, KeyAssumption DEF Init, Top
  <2>3. Bounded
    BY <2>1, <2>2, KeyAssumption
    DEF Init, Bounded, Tallied, CounterBounded, CallerBounded, Spotless,
        KeyAtMost, Sent
  <2> QED BY <2>3 DEF Init, LockHeld, Critical
<1>2. TypeOK /\ BoundInv /\ [Next]_vars => BoundInv'
  <2> SUFFICES ASSUME TypeOK, BoundInv, [Next]_vars PROVE BoundInv'
    OBVIOUS
  <2>1. LockHeld'
    BY LockStep
  <2>2. CASE UNCHANGED vars \/ Quiet
    <3>1. UNCHANGED vars
      BY <2>2 DEF Quiet
    <3> QED
      BY <2>1, <3>1
      DEF vars, redisVars, chainVars, callerVars, Bounded, Tallied,
          CounterBounded, CallerBounded, Spotless, KeyAtMost, Top, Owed, Owing,
          Unused, Sent, Before
  <2>3. CASE Expire \/ Mine
    BY <2>1, <2>3, OthersBounded
  <2>4. ASSUME NEW c \in Callers, CallerStep(c) \/ CallerFault(c)
        PROVE  BoundInv'
    BY <2>1, <2>4, StepBounded, FaultBounded
  <2> QED BY <2>2, <2>3, <2>4 DEF Next
<1>3. TypeOK /\ BoundInv => GapsBounded
  BY RoomBelowTop
<1> QED BY <1>1, <1>2, <1>3, TypeCorrect, PTL DEF Spec
=============================================================================
