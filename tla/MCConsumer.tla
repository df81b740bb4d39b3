----------------------------- MODULE MCConsumer -----------------------------
(* Two processes for the TLC runs of StreamConsumer, with the same consumer *)
(* name (REDIS_CONSUMER_NAME has a default) or with different ones.        *)
EXTENDS StreamConsumer, TLC

CONSTANTS p1, p2, n1, n2

MCTwoNames == {p1 :> n1 @@ p2 :> n2}

MCNameChoices == MCTwoNames \cup {p1 :> n1 @@ p2 :> n1}
=============================================================================
