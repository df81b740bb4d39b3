----------------------------- MODULE MatchLedger -----------------------------
(***************************************************************************)
(* What the engine promises about a match, whoever acts on it: workers,    *)
(* the sweeper, retries, crashed processes and their successors.  There    *)
(* are no processes, streams or failures here, only the life of a match.   *)
(*                                                                         *)
(*   A match leaves PENDING once, by Book or by Fail, and its lock is      *)
(*   released in that very step.  Book needs the settlement on the chain.  *)
(*   It is closed (its stream entry is gone) only when it is on the chain, *)
(*   FAILED or given up.                                                   *)
(*                                                                         *)
(* The one exception is a match given up with its whole batch: its row is  *)
(* marked and its lock released by transactions that look at neither, as   *)
(* often as batches that carried it are given up.                          *)
(***************************************************************************)
EXTENDS Naturals

CONSTANT Matches

VARIABLES
    status,    \* matches.settlement_status
    released,  \* how often the match's lock was released
    onchain,   \* isSettled
    closed,    \* matches with a stream entry that was ACKed
    givenUp    \* matches that were in a batch that failed as a whole

ledgerVars == <<status, released, onchain, closed, givenUp>>

Init ==
    /\ status = [m \in Matches |-> "PENDING"]
    /\ released = [m \in Matches |-> 0]
    /\ onchain = {}
    /\ closed = {}
    /\ givenUp = {}

\* One settleMatches transaction settles its matches together, each once.
Settle(S) ==
    /\ S # {}
    /\ S \cap onchain = {}
    /\ onchain' = onchain \cup S
    /\ UNCHANGED <<status, released, closed, givenUp>>

Leave(m, final) ==
    /\ status[m] = "PENDING"
    /\ status' = [status EXCEPT ![m] = final]
    /\ released' = [released EXCEPT ![m] = @ + 1]
    /\ UNCHANGED <<onchain, closed, givenUp>>

Book(m) == m \in onchain /\ Leave(m, "SETTLED")

Fail(m) == Leave(m, "FAILED")

Resolved(m) == m \in onchain \/ status[m] = "FAILED" \/ m \in givenUp

Close(m) ==
    /\ Resolved(m)
    /\ closed' = closed \cup {m}
    /\ UNCHANGED <<status, released, onchain, givenUp>>

\* A batch is given up, perhaps in the step that closes its last match found
\* FAILED.
GiveUp(S) ==
    /\ givenUp' = givenUp \cup S
    /\ \/ UNCHANGED closed
       \/ \E m \in Matches : Resolved(m) /\ closed' = closed \cup {m}
    /\ UNCHANGED <<status, released, onchain>>

Unlock(S) ==
    /\ S \subseteq givenUp
    /\ released' \in [Matches -> Nat]
    /\ \A m \in Matches : IF m \in S THEN released'[m] > released[m]
                                     ELSE released'[m] = released[m]
    /\ UNCHANGED <<status, onchain, closed, givenUp>>

Record(S) ==
    /\ S \subseteq givenUp
    /\ status' = [m \in Matches |-> IF m \in S THEN "FAILED" ELSE status[m]]
    /\ UNCHANGED <<released, onchain, closed, givenUp>>

Next ==
    \/ \E m \in Matches : Book(m) \/ Fail(m) \/ Close(m)
    \/ \E S \in SUBSET Matches : Settle(S) \/ GiveUp(S) \/ Unlock(S) \/ Record(S)

Spec == Init /\ [][Next]_ledgerVars
=============================================================================
