----------------------------- MODULE MatchStore -----------------------------
(***************************************************************************)
(* The PostgreSQL state the settlement engine owns, and the transactions   *)
(* it runs on it.  One operator per transaction of settlement/database/:   *)
(* each is atomic, as a committed pg transaction is; a rolled back one     *)
(* changes nothing and is modelled by its caller.                          *)
(*                                                                         *)
(*   matches.settlement_status      status[m]                              *)
(*   user_balance.in_orders         inOrders[w]                            *)
(*   orders.filled_quantity/status  filled[o], orderStatus[o]              *)
(*                                                                         *)
(* filled_settlement_fee is restored by the same arithmetic as             *)
(* filled_quantity and is left out.  `released' is a history variable: how *)
(* many committed transactions have decremented in_orders for a match.     *)
(***************************************************************************)
EXTENDS Integers, FiniteSets, Functions

CONSTANTS
    Matches,   \* rows of `matches' (matchId)
    Wallets,   \* user wallets; one loan token, so one user_balance row each
    Orders,    \* rows of `orders'
    Entries,   \* Redis stream entries, each carries one match payload
    MatchOf,   \* [Entries -> Matches]: one match may come under two entries
    Terms      \* [Matches -> payload]: see LenderLock and FillOf

ASSUME MatchOfAssumption == MatchOf \in [Entries -> Matches]
ASSUME EntriesAssumption == IsFiniteSet(Entries)
ASSUME MatchesAssumption == IsFiniteSet(Matches)

\* What matchSchema (schemas/match.ts) lets through: a positive amount, fees
\* that are natural numbers.
ASSUME TermsAssumption ==
    \A m \in Matches :
        /\ Terms[m].amount \in Nat \ {0}
        /\ Terms[m].lenderSettlementFee \in Nat
        /\ Terms[m].borrowerSettlementFee \in Nat
        /\ Terms[m].makerFee \in Nat /\ Terms[m].takerFee \in Nat
        /\ Terms[m].borrowerIsTaker \in BOOLEAN
        /\ Terms[m].lendOrder \in Orders /\ Terms[m].borrowOrder \in Orders

VARIABLES status, inOrders, filled, orderStatus, released

storeVars == <<status, inOrders, filled, orderStatus, released>>

Statuses == {"PENDING", "SETTLED", "FAILED"}
OrderStatuses == {"FILLED", "PARTIALLY_FILLED", "CANCELLED"}

\* Mutant of Clamp: a bare subtraction.
GreatestDropped(n) == n

\* SQL GREATEST(0, n)
Clamp(n) == IF n \in Nat THEN n ELSE 0

\* The borrower pays the taker fee iff it is the taker; the lender the other.
LenderTradeFee(m) ==
    IF Terms[m].borrowerIsTaker THEN Terms[m].makerFee ELSE Terms[m].takerFee
BorrowerTradeFee(m) ==
    IF Terms[m].borrowerIsTaker THEN Terms[m].takerFee ELSE Terms[m].makerFee

LenderLock(m) ==
    Terms[m].amount + Terms[m].lenderSettlementFee + LenderTradeFee(m)
BorrowerLock(m) == Terms[m].borrowerSettlementFee + BorrowerTradeFee(m)

\* What the match-time lock of m adds to wallet w's in_orders.
LockOf(m, w) == (IF Terms[m].lender = w THEN LenderLock(m) ELSE 0)
              + (IF Terms[m].borrower = w THEN BorrowerLock(m) ELSE 0)

\* What match m adds to order o's filled quantity.
FillOf(m, o) == (IF Terms[m].lendOrder = o THEN Terms[m].amount ELSE 0)
              + (IF Terms[m].borrowOrder = o THEN Terms[m].amount ELSE 0)

OrdersOf(m) == {Terms[m].lendOrder, Terms[m].borrowOrder}

TotalLock(M, w) ==
    FoldFunctionOnSet(+, 0, [m \in Matches |-> LockOf(m, w)], M)
TotalFill(M, o) ==
    FoldFunctionOnSet(+, 0, [m \in Matches |-> FillOf(m, o)], M)

\* The state the matching engine's db-writer leaves when the matches are
\* published: everything PENDING, locked and filled.
StoreInit ==
    /\ status = [m \in Matches |-> "PENDING"]
    /\ inOrders = [w \in Wallets |-> Clamp(TotalLock(Matches, w))]
    /\ filled = [o \in Orders |-> Clamp(TotalFill(Matches, o))]
    /\ orderStatus = [o \in Orders |-> "FILLED"]
    /\ released = [m \in Matches |-> 0]

-----------------------------------------------------------------------------
ReleaseLock(m) ==
    /\ inOrders' = [w \in Wallets |-> Clamp(inOrders[w] - LockOf(m, w))]
    /\ released' = [released EXCEPT ![m] = @ + 1]

\* An order whose fill drops to nothing is cancelled, else it is re-listed.
RestoredStatus(o, fill) ==
    IF filled[o] - fill <= 0 THEN "CANCELLED" ELSE "PARTIALLY_FILLED"

RestoreOrders(m) ==
    /\ filled' = [o \in Orders |-> Clamp(filled[o] - FillOf(m, o))]
    /\ orderStatus' = [o \in Orders |->
          IF o \in OrdersOf(m) THEN RestoredStatus(o, FillOf(m, o))
                               ELSE orderStatus[o]]

\* Mutant of Writeback: the UPDATE without settlement_status = 'PENDING'.
WritebackUngated(m) ==
    /\ status' = [status EXCEPT ![m] = "SETTLED"]
    /\ ReleaseLock(m)
    /\ UNCHANGED <<filled, orderStatus>>

\* PENDING -> SETTLED gates the release: applyMatchSettlementWriteback.
Writeback(m) ==
    \/ /\ status[m] = "PENDING"
       /\ status' = [status EXCEPT ![m] = "SETTLED"]
       /\ ReleaseLock(m)
       /\ UNCHANGED <<filled, orderStatus>>
    \/ /\ status[m] # "PENDING"
       /\ UNCHANGED storeVars

\* Mutant of FailPending: the orders are not restored.
FailPendingKeepsOrders(m) ==
    \/ /\ status[m] = "PENDING"
       /\ status' = [status EXCEPT ![m] = "FAILED"]
       /\ ReleaseLock(m)
       /\ UNCHANGED <<filled, orderStatus>>
    \/ /\ status[m] # "PENDING"
       /\ UNCHANGED storeVars

\* PENDING -> FAILED gates the restore and the release:
\* quarantineFailedMatch and, word for word, remediateUnsettledMatch.
FailPending(m) ==
    \/ /\ status[m] = "PENDING"
       /\ status' = [status EXCEPT ![m] = "FAILED"]
       /\ ReleaseLock(m)
       /\ RestoreOrders(m)
    \/ /\ status[m] # "PENDING"
       /\ UNCHANGED storeVars

-----------------------------------------------------------------------------
(* The three batch transactions of the non-retryable path.  None is gated  *)
(* on the status.  S is a set of entries: a match that comes twice is      *)
(* released and restored twice.                                            *)

MatchesIn(S) == {MatchOf[e] : e \in S}

Copies(S, m) == Cardinality({e \in S : MatchOf[e] = m})

BatchLock(S, w) ==
    FoldFunctionOnSet(+, 0, [e \in Entries |-> LockOf(MatchOf[e], w)], S)
BatchFill(S, o) ==
    FoldFunctionOnSet(+, 0, [e \in Entries |-> FillOf(MatchOf[e], o)], S)

\* Mutant of UnlockFailed: only rows that are FAILED already are unlocked.
UnlockRecorded(S) ==
    LET F == {e \in S : status[MatchOf[e]] = "FAILED"}
    IN  /\ inOrders' = [w \in Wallets |->
              Clamp(inOrders[w] - BatchLock(F, w))]
        /\ released' = [m \in Matches |-> released[m] + Copies(F, m)]
        /\ UNCHANGED <<status, filled, orderStatus>>

UnlockFailed(S) ==
    /\ inOrders' = [w \in Wallets |->
          Clamp(inOrders[w] - BatchLock(S, w))]
    /\ released' = [m \in Matches |->
          IF m \in MatchesIn(S) THEN released[m] + Copies(S, m)
                                ELSE released[m]]
    /\ UNCHANGED <<status, filled, orderStatus>>

RecordFailed(S) ==
    /\ status' = [m \in Matches |->
          IF m \in MatchesIn(S) THEN "FAILED" ELSE status[m]]
    /\ UNCHANGED <<inOrders, filled, orderStatus, released>>

RestoreFailed(S) ==
    /\ filled' = [o \in Orders |-> Clamp(filled[o] - BatchFill(S, o))]
    /\ orderStatus' = [o \in Orders |->
          IF \E m \in MatchesIn(S) : o \in OrdersOf(m)
            THEN RestoredStatus(o, BatchFill(S, o))
            ELSE orderStatus[o]]
    /\ UNCHANGED <<status, inOrders, released>>

-----------------------------------------------------------------------------
StoreTypeOK ==
    /\ status \in [Matches -> Statuses]
    /\ inOrders \in [Wallets -> Nat]
    /\ filled \in [Orders -> Nat]
    /\ orderStatus \in [Orders -> OrderStatuses]
    /\ released \in [Matches -> Nat]
=============================================================================
