----------------------------- MODULE MCPipeline -----------------------------
(* Small instances of SettlementPipeline.  Two matches of one lend order,  *)
(* so a wallet and an order see both; amounts are all different, so a      *)
(* wrong side or a fee taken twice shows in a sum.                         *)
EXTENDS SettlementPipeline, TLC

CONSTANTS w1, w2, m1, m2, e1, e2, e3, alice, bob, carol, la, bb, bc

MCTerms ==
    m1 :> [lender |-> alice, borrower |-> bob, lendOrder |-> la,
           borrowOrder |-> bb, amount |-> 10, lenderSettlementFee |-> 1,
           borrowerSettlementFee |-> 2, makerFee |-> 3, takerFee |-> 5,
           borrowerIsTaker |-> TRUE]
 @@ m2 :> [lender |-> alice, borrower |-> carol, lendOrder |-> la,
           borrowOrder |-> bc, amount |-> 20, lenderSettlementFee |-> 4,
           borrowerSettlementFee |-> 6, makerFee |-> 7, takerFee |-> 9,
           borrowerIsTaker |-> FALSE]

\* e3 is a second copy of m1, published twice.
MCMatchOf == [e \in Entries |-> IF e = e2 THEN m2 ELSE m1]

\* Workers run the same code.
WorkerSymmetry == Permutations(Workers)
=============================================================================
