------------------------------ MODULE MCSweeper ------------------------------
(* The instances of MCPipeline with sweepers; m1 is the older match.       *)
EXTENDS SettlementSweeper, TLC

CONSTANTS w1, w2, s1, s2, m1, m2, e1, e2, e3, alice, bob, carol, la, bb, bc

MCTerms ==
    m1 :> [lender |-> alice, borrower |-> bob, lendOrder |-> la,
           borrowOrder |-> bb, amount |-> 10, lenderSettlementFee |-> 1,
           borrowerSettlementFee |-> 2, makerFee |-> 3, takerFee |-> 5,
           borrowerIsTaker |-> TRUE]
 @@ m2 :> [lender |-> alice, borrower |-> carol, lendOrder |-> la,
           borrowOrder |-> bc, amount |-> 20, lenderSettlementFee |-> 4,
           borrowerSettlementFee |-> 6, makerFee |-> 7, takerFee |-> 9,
           borrowerIsTaker |-> FALSE]

MCMatchOf == [e \in Entries |-> IF e = e2 THEN m2 ELSE m1]

MCCreatedAt == m1 :> 1 @@ m2 :> 2
=============================================================================
