-------------------------- MODULE SettlementSweeper --------------------------
(***************************************************************************)
(* The stuck-PENDING sweeper (settlement/settlementSweeper.ts and          *)
(* database/pending-settlement-sweep.ts) beside the pipeline it backs up:  *)
(* it selects old PENDING rows, asks the chain about each, and remediates  *)
(* those the chain says are not settled, while workers go on settling.     *)
(*                                                                         *)
(* sweepPromise prevents overlapping sweeps of one process; sweeps of      *)
(* several processes may overlap.  Time is reduced to `aged': a match      *)
(* grows past sweeperStuckThresholdMs at any moment, oldest first.         *)
(***************************************************************************)
EXTENDS SettlementPipeline

CONSTANTS
    Sweepers,    \* the processes with a sweeper
    CreatedAt,   \* [Matches -> Nat]: created_at
    SweepLimit   \* sweeperBatchSize, the LIMIT of the query

ASSUME CreatedAtAssumption ==
    /\ CreatedAt \in [Matches -> Nat]
    /\ \A m, n \in Matches : CreatedAt[m] = CreatedAt[n] => m = n
ASSUME SweepLimitAssumption == SweepLimit \in Nat \ {0}

VARIABLES
    aged,        \* matches older than the stuck threshold
    sweepPc,     \* per sweeper: "idle", "check", "remediate"
    candidates,  \* the rows findStuckPendingMatches returned to it
    unsettled,   \* candidates whose isSettled read said false, still to do
    swept        \* history: matches a sweeper marked FAILED

sweepVars == <<aged, sweepPc, candidates, unsettled, swept>>
sweptVars == <<vars, sweepVars>>

SweptInit ==
    /\ Init
    /\ aged = {}
    /\ sweepPc = [s \in Sweepers |-> "idle"]
    /\ candidates = [s \in Sweepers |-> {}]
    /\ unsettled = [s \in Sweepers |-> {}]
    /\ swept = {}

-----------------------------------------------------------------------------
Age(m) ==
    /\ m \notin aged
    /\ \A n \in Matches \ aged : CreatedAt[m] <= CreatedAt[n]
    /\ aged' = aged \cup {m}
    /\ UNCHANGED <<vars, sweepPc, candidates, unsettled, swept>>

\* Mutant of Stuck: the query forgets the created_at cutoff.
StuckAtAnyAge == {m \in Matches : status[m] = "PENDING"}

Stuck == {m \in aged : status[m] = "PENDING"}

\* ORDER BY created_at LIMIT sweeperBatchSize
Oldest(S) ==
    {m \in S : Cardinality({n \in S : CreatedAt[n] < CreatedAt[m]})
                 < SweepLimit}

SweepFind(s) ==
    /\ sweepPc[s] = "idle"
    /\ Stuck # {}
    /\ candidates' = [candidates EXCEPT ![s] = Oldest(Stuck)]
    /\ sweepPc' = [sweepPc EXCEPT ![s] = "check"]
    /\ UNCHANGED <<vars, aged, unsettled, swept>>

\* The multicall has answered: `rest' is what the sweep will remediate.
Checked(s, rest) ==
    /\ unsettled' = [unsettled EXCEPT ![s] = rest]
    /\ candidates' = [candidates EXCEPT ![s] = {}]
    /\ sweepPc' = [sweepPc EXCEPT ![s] = IF rest = {} THEN "idle"
                                                     ELSE "remediate"]

\* Mutant of SweepCheck: the verdict of isSettled is taken the wrong way round.
SweepCheckInverted(s) ==
    /\ sweepPc[s] = "check"
    /\ Checked(s, candidates[s] \cap onchain)
    /\ UNCHANGED <<vars, aged, swept>>

\* checkMatchesSettledOnChain: rows the chain calls settled are only reported,
\* rows whose read failed are skipped this round.
SweepCheck(s) ==
    /\ sweepPc[s] = "check"
    /\ \E unknown \in SUBSET (candidates[s] \ onchain) :
          /\ IF unknown = {} THEN UNCHANGED faults ELSE Fault("read")
          /\ Checked(s, candidates[s] \ (onchain \cup unknown))
    /\ UNCHANGED <<storeVars, acked, chainVars, workVars, applied, cleaned,
                   aged, swept>>

\* remediateUnsettledMatch for one row; a failed one waits for the next sweep.
SweepRemediate(s) ==
    /\ sweepPc[s] = "remediate"
    /\ \E m \in unsettled[s] :
          /\ \/ /\ FailPending(m)
                /\ swept' = IF status[m] = "PENDING" THEN swept \cup {m}
                                                     ELSE swept
                /\ UNCHANGED faults
             \/ Fault("db") /\ UNCHANGED <<storeVars, swept>>
          /\ unsettled' = [unsettled EXCEPT ![s] = @ \ {m}]
          /\ sweepPc' = [sweepPc EXCEPT ![s] = IF unsettled[s] = {m}
                                                 THEN "idle" ELSE @]
    /\ UNCHANGED <<acked, chainVars, workVars, applied, cleaned, aged,
                   candidates>>

\* The query or the multicall throws, or the process dies: nothing is left.
SweepAbort(s) ==
    /\ sweepPc[s] # "idle"
    /\ Fault("crash") \/ (sweepPc[s] = "check" /\ Fault("rpc"))
    /\ sweepPc' = [sweepPc EXCEPT ![s] = "idle"]
    /\ candidates' = [candidates EXCEPT ![s] = {}]
    /\ unsettled' = [unsettled EXCEPT ![s] = {}]
    /\ UNCHANGED <<storeVars, acked, chainVars, workVars, applied, cleaned,
                   aged, swept>>

SweepStep(s) == SweepFind(s) \/ SweepCheck(s) \/ SweepRemediate(s)

\* What happens outside of the pipeline.
SweepNext ==
    \/ \E s \in Sweepers : SweepStep(s) \/ SweepAbort(s)
    \/ \E m \in Matches : Age(m)

SweptNext ==
    \/ Next /\ UNCHANGED sweepVars
    \/ SweepNext

SweptSpec == SweptInit /\ [][SweptNext]_sweptVars

\* The sweep runs on an interval for as long as the engine runs.
SweptFairness ==
    /\ \A w \in Workers : WF_sweptVars(WorkerStep(w) /\ UNCHANGED sweepVars)
    /\ \A w \in Workers : WF_sweptVars(Mine(w) /\ UNCHANGED sweepVars)
    /\ \A w \in Workers, e \in Entries :
          WF_sweptVars(Deliver(w, e) /\ UNCHANGED sweepVars)
    /\ WF_sweptVars(ResolveOrphan /\ UNCHANGED sweepVars)
    /\ \A s \in Sweepers : WF_sweptVars(SweepStep(s))
    /\ \A m \in Matches : WF_sweptVars(Age(m))

FairSweptSpec == SweptSpec /\ SweptFairness

-----------------------------------------------------------------------------
\* Types, and: only matches past the threshold are looked at and failed, and
\* a sweep that has ended leaves nothing to do.
SweeperTypeOK ==
    /\ aged \subseteq Matches
    /\ swept \subseteq aged
    /\ sweepPc \in [Sweepers -> {"idle", "check", "remediate"}]
    /\ candidates \in [Sweepers -> SUBSET aged]
    /\ unsettled \in [Sweepers -> SUBSET aged]
    /\ \A s \in Sweepers :
          /\ candidates[s] # {} <=> sweepPc[s] = "check"
          /\ unsettled[s] # {} <=> sweepPc[s] = "remediate"

\* Remediations by two sweeps and a worker's writeback, quarantine or cleanup of
\* the same match, in any order, release its lock once between them: what a
\* sweep failed, it alone released, unless a batch cleanup came by too.
SweptReleasedOnce ==
    \A m \in swept \ cleaned : status[m] = "FAILED" /\ released[m] = 1

\* Rows the sweeper only reports fill its LIMIT before it gets to m.
Hidden(m) ==
    LET ghosts == {n \in onchain : /\ status[n] = "PENDING"
                                   /\ CreatedAt[n] < CreatedAt[m]}
    IN  Cardinality(ghosts) >= SweepLimit

\* Every match that never settles is unlocked in the end, even one whose
\* revert error the engine does not know and retries for ever: the sweeper is
\* the backstop processBatch.ts:396-397 calls it, for a match that is not
\* hidden behind settled rows.
StuckEventuallyResolved ==
    \A m \in Matches : <>(status[m] # "PENDING" \/ m \in onchain \/ Hidden(m))

-----------------------------------------------------------------------------
(* What comments claim and the code does not do.                           *)

\* processBatch.ts:126-127: "any row left PENDING is picked up by the
\* stuck-PENDING reconciliation sweeper".  The sweeper reports a settled row
\* and leaves it PENDING and locked.
GhostIsReconciled ==
    \A m \in Matches : m \in onchain ~> status[m] # "PENDING"

\* processBatch.ts:396-397: "a genuinely-stuck match is ultimately caught by
\* the stuck-PENDING reconciliation sweeper".  Ghost-settled rows never leave
\* the oldest sweeperBatchSize rows the sweeper looks at, and hide it.
StuckIsCaught == \A m \in Matches : <>(status[m] # "PENDING" \/ m \in onchain)

\* settlementSweeper.ts:37-38: only a match "not settled on-chain" is marked
\* FAILED and released.  One whose transaction is in flight, or whose entry is
\* still queued, is settled after that.
SweptNeverSettles == \A m \in swept : m \notin onchain
=============================================================================
