----------------------------- MODULE EventWriters -----------------------------
(***************************************************************************)
(* The two writers of the position tables and of the queue of collateral   *)
(* flags: settlement/database/apply-settlement.ts, for the engine process  *)
(* that waits for a settlement transaction's receipt, and the indexer,     *)
(* which follows the chain with the same applyOnChainEffect; with the      *)
(* users, who queue and withdraw flags (settlement/database/               *)
(* pending-collateral-flags.ts), and the part of processBatch.ts that puts *)
(* them into the transaction.                                              *)
(*                                                                         *)
(* Each position row carries one stamp, that of the last event applied to  *)
(* it.  applyOnChainEffect is not in the repository: its check and its     *)
(* mutation are one database transaction, and both readings of the check   *)
(* are allowed (AlreadyApplied).                                           *)
(***************************************************************************)
EXTENDS Integers, FiniteSets, FiniteSetsExt

CONSTANTS
    Txs,        \* settlement transactions, numbered as the chain takes them
    N,          \* position events, numbered in the same order
    TxOf,       \* the transaction of each event
    Lends,      \* the lend events, the others are borrow events
    KeyChoices, \* the rows (market and user) the events may be about
    Flags,      \* pairs of a user and an asset
    FlagsOf,    \* those whose user borrows in a transaction
    Checks,     \* the readings of isAlreadyStamped that occur
    MaxFaults,  \* bound: failures of engine processes
    MaxChanges  \* bound: flags users queue, withdraw or unset

Events == 1..N

ASSUME TransactionsAssumption ==
    /\ Txs \subseteq Nat /\ N \in Nat
    /\ TxOf \in [Events -> Txs]
    /\ \A e, f \in Events : e < f => TxOf[e] <= TxOf[f]
ASSUME RowsAssumption ==
    /\ Lends \subseteq Events
    /\ \A k \in KeyChoices : \A e, f \in Events :
          k[e] = k[f] => (e \in Lends <=> f \in Lends)
ASSUME FlagsAssumption == FlagsOf \in [Txs -> SUBSET Flags]
ASSUME WritersAssumption ==
    Checks \subseteq {"matching", "covering"} /\ {MaxFaults, MaxChanges} \subseteq Nat

VARIABLES
    key, check, \* fixed: the row of each event, the reading of the check
    job,        \* where the engine process of each transaction is
    todo,       \* the position events it has still to apply
    encoded,    \* the flags it read, MatchData.collateralAssets
    mined, reverted,
    stamp,      \* applied_by_tx_hash and applied_by_log_index of each row
    count,      \* history: how often each event was applied to its row
    seen,       \* the position events the indexer has handled
    swept,      \* transactions whose flag events the indexer has handled
    rows,       \* pending_collateral_flags
    set,        \* the flags set on-chain
    wanted,     \* history: flags a user queued and took back in no way
    unset,      \* history: flags a user unset on-chain
    faults, changes

chainVars == <<mined, reverted>>
tableVars == <<stamp, count>>
flagVars == <<rows, set, wanted, unset, changes>>
fixed == <<key, check>>
vars == <<fixed, job, todo, encoded, chainVars, tableVars, seen, swept,
          flagVars, faults>>

Jobs == {"batch", "receipt", "apply", "flags", "done", "gone"}

Init ==
    /\ key \in KeyChoices
    /\ check \in Checks
    /\ job = [t \in Txs |-> "batch"]
    /\ todo = [t \in Txs |-> {}]
    /\ encoded = [t \in Txs |-> {}]
    /\ mined = {} /\ reverted = {}
    /\ stamp = [k \in {key[e] : e \in Events} |-> 0]
    /\ count = [e \in Events |-> 0]
    /\ seen = {} /\ swept = {}
    /\ rows = {} /\ set = {} /\ wanted = {} /\ unset = {}
    /\ faults = 0 /\ changes = 0

Go(t, step) == job' = [job EXCEPT ![t] = step]

Fault == faults < MaxFaults /\ faults' = faults + 1

EventsOf(t) == {e \in Events : TxOf[e] = t}

-----------------------------------------------------------------------------
(* The shared primitive.                                                   *)

\* Mutant of AlreadyApplied: the check is not scoped to a log index.
AppliedByTx(e) ==
    stamp[key[e]] # 0 /\ TxOf[stamp[key[e]]] = TxOf[e]

\* isAlreadyStamped: the row's stamp is that of e ("matching"), or that of e
\* or of a later event ("covering").
AlreadyApplied(e) ==
    \/ stamp[key[e]] = e
    \/ check = "covering" /\ stamp[key[e]] > e

\* Mutant of Apply: a retry is not recognised.
ApplyAlways(e) ==
    /\ stamp' = [stamp EXCEPT ![key[e]] = e]
    /\ count' = [count EXCEPT ![e] = @ + 1]

\* applyOnChainEffect: the upsert adds the event to its row and stamps it.
Apply(e) ==
    IF AlreadyApplied(e)
    THEN UNCHANGED tableVars
    ELSE /\ stamp' = [stamp EXCEPT ![key[e]] = e]
         /\ count' = [count EXCEPT ![e] = @ + 1]

-----------------------------------------------------------------------------
(* The engine.                                                             *)

\* Mutant of Submit: the rows are deleted once they are encoded.
SubmitAndClear(t) ==
    /\ job[t] = "batch"
    /\ encoded' = [encoded EXCEPT ![t] = rows \cap FlagsOf[t]]
    /\ rows' = rows \ FlagsOf[t]
    /\ Go(t, "receipt")
    /\ UNCHANGED <<fixed, todo, chainVars, tableVars, seen, swept, set, wanted,
                   unset, changes, faults>>

\* Step 0.5 and settleBatch: the queued flags of the batch's borrowers go into
\* the transaction; without them if the read fails.
Submit(t) ==
    /\ job[t] = "batch"
    /\ \/ /\ encoded' = [encoded EXCEPT ![t] = rows \cap FlagsOf[t]]
          /\ UNCHANGED faults
       \/ Fault /\ UNCHANGED encoded
    /\ Go(t, "receipt")
    /\ UNCHANGED <<fixed, todo, chainVars, tableVars, seen, swept, flagVars>>

\* Mutant of Receive: the status of the receipt is not looked at.
ReceiveAny(t) ==
    /\ job[t] = "receipt"
    /\ t \in reverted \cup mined
    /\ todo' = [todo EXCEPT ![t] = EventsOf(t)]
    /\ Go(t, IF EventsOf(t) = {} THEN "flags" ELSE "apply")
    /\ UNCHANGED <<fixed, encoded, chainVars, tableVars, seen, swept,
                   flagVars, faults>>

\* waitForTransactionReceipt returns; of a transaction that reverted there is
\* nothing to apply.
Receive(t) ==
    /\ job[t] = "receipt"
    /\ \/ t \in reverted /\ Go(t, "gone") /\ UNCHANGED todo
       \/ /\ t \in mined
          /\ todo' = [todo EXCEPT ![t] = EventsOf(t)]
          /\ Go(t, IF EventsOf(t) = {} THEN "flags" ELSE "apply")
    /\ UNCHANGED <<fixed, encoded, chainVars, tableVars, seen, swept,
                   flagVars, faults>>

\* Lend events come first, each kind in the order of the logs.
NextOf(S) == Min(IF S \cap Lends # {} THEN S \cap Lends ELSE S)

\* One event; the primitive may find that it cannot verify it, which is only
\* logged.
ApplyNext(t) ==
    /\ job[t] = "apply"
    /\ LET e == NextOf(todo[t]) IN
        /\ \/ Apply(e) /\ UNCHANGED faults
           \/ Fault /\ UNCHANGED tableVars
        /\ todo' = [todo EXCEPT ![t] = @ \ {e}]
        /\ Go(t, IF todo[t] = {e} THEN "flags" ELSE "apply")
    /\ UNCHANGED <<fixed, encoded, chainVars, seen, swept, flagVars>>

\* clearPendingCollateralFlagsFromReceipt: the rows of the receipt's
\* CollateralFlagSet events, in one database transaction.
ClearFlags(t) ==
    /\ job[t] = "flags"
    /\ rows' = rows \ encoded[t]
    /\ Go(t, "done")
    /\ UNCHANGED <<fixed, todo, encoded, chainVars, tableVars, seen, swept,
                   set, wanted, unset, changes, faults>>

\* The process dies, or Redis, RPC or the database fails it: the batch is
\* delivered again, but its matches are settled by then and its events are not
\* looked at again.
Lose(t) ==
    /\ job[t] \in {"receipt", "apply", "flags"}
    /\ Fault
    /\ Go(t, "gone")
    /\ todo' = [todo EXCEPT ![t] = {}]
    /\ UNCHANGED <<fixed, encoded, chainVars, tableVars, seen, swept,
                   flagVars>>

-----------------------------------------------------------------------------
(* The chain, the indexer and the users.                                   *)

\* A transaction is mined after the ones before it, or reverts.
Mine(t) ==
    /\ job[t] \in {"receipt", "gone"}
    /\ t \notin mined \cup reverted
    /\ \A u \in Txs : u < t => u \in mined \cup reverted
    /\ \/ /\ mined' = mined \cup {t}
          /\ set' = set \cup encoded[t]
          /\ UNCHANGED reverted
       \/ reverted' = reverted \cup {t} /\ UNCHANGED <<mined, set>>
    /\ UNCHANGED <<fixed, job, todo, encoded, tableVars, seen, swept, rows,
                   wanted, unset, changes, faults>>

\* The indexer applies the events of the chain in order.
Follow ==
    LET new == {e \in Events : TxOf[e] \in mined} \ seen IN
    /\ new # {}
    /\ Apply(Min(new))
    /\ seen' = seen \cup {Min(new)}
    /\ UNCHANGED <<fixed, job, todo, encoded, chainVars, swept, flagVars,
                   faults>>

FollowFlags(t) ==
    /\ t \in mined \ swept
    /\ swept' = swept \cup {t}
    /\ rows' = rows \ encoded[t]
    /\ UNCHANGED <<fixed, job, todo, encoded, chainVars, tableVars, seen, set,
                   wanted, unset, changes, faults>>

\* A user queues a flag, withdraws a queued one, or unsets one on-chain.
Change(f) ==
    /\ changes < MaxChanges
    /\ changes' = changes + 1
    /\ \/ /\ f \notin rows \cup set
          /\ rows' = rows \cup {f} /\ wanted' = wanted \cup {f}
          /\ UNCHANGED <<set, unset>>
       \/ /\ f \in rows
          /\ rows' = rows \ {f} /\ wanted' = wanted \ {f}
          /\ UNCHANGED <<set, unset>>
       \/ /\ f \in set
          /\ set' = set \ {f} /\ wanted' = wanted \ {f}
          /\ unset' = unset \cup {f}
          /\ UNCHANGED rows
    /\ UNCHANGED <<fixed, job, todo, encoded, chainVars, tableVars, seen,
                   swept, faults>>

-----------------------------------------------------------------------------
\* Everything has been handled.
Finished ==
    /\ \A t \in Txs : job[t] \in {"done", "gone"} /\ t \in swept \cup reverted
    /\ \A e \in Events : TxOf[e] \in reverted \/ e \in seen
    /\ UNCHANGED vars

Engine(t) == Submit(t) \/ Receive(t) \/ ApplyNext(t) \/ ClearFlags(t)

Next ==
    \/ \E t \in Txs : Engine(t) \/ Lose(t) \/ Mine(t) \/ FollowFlags(t)
    \/ Follow
    \/ \E f \in Flags : Change(f)
    \/ Finished

Spec == Init /\ [][Next]_vars

\* The indexer follows the chain; no engine process need survive.
FairSpec == Spec /\ WF_vars(Follow)

-----------------------------------------------------------------------------
TypeOK ==
    /\ key \in KeyChoices /\ check \in Checks
    /\ job \in [Txs -> Jobs]
    /\ todo \in [Txs -> SUBSET Events]
    /\ \A t \in Txs : job[t] = "apply" <=> todo[t] # {}
    /\ encoded \in [Txs -> SUBSET Flags]
    /\ mined \cup reverted \subseteq Txs /\ mined \cap reverted = {}
    /\ stamp \in [{key[e] : e \in Events} -> 0..N]
    /\ count \in [Events -> Nat]
    /\ \A e \in Events : count[e] > 0 => TxOf[e] \in mined
    /\ seen \subseteq Events /\ swept \subseteq mined
    /\ rows \subseteq Flags /\ set \subseteq Flags
    /\ wanted \subseteq Flags /\ unset \subseteq Flags
    /\ faults \in 0..MaxFaults /\ changes \in 0..MaxChanges

\* Each event has a row of its own.
OneEventPerRow == \A e, f \in Events : key[e] = key[f] => e = f

\* No event is added to its row twice, whichever of the engine and the indexer
\* comes first: always under "covering", and under "matching" if each event
\* has its own row.
NotAppliedTwice ==
    check = "covering" \/ OneEventPerRow => \A e \in Events : count[e] <= 1

\* Every event of the chain reaches its row, also if the engine that waited
\* for it is gone: always under "matching", and under "covering" if each event
\* has its own row.
EventsArrive ==
    check = "matching" \/ OneEventPerRow =>
        <>[](\A e \in Events : TxOf[e] \in mined => count[e] > 0)

\* A flag a user wants is queued or set on-chain, whatever the batches,
\* reverts, crashes and late clean-ups do, unless its user has unset it
\* on-chain (then a late clean-up removes the row of a second wish).
WantedIsKept == wanted \ unset \subseteq rows \cup set
=============================================================================
