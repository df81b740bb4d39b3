------------------------------- MODULE MCEvents -------------------------------
(* Two transactions: the first borrows and lends twice, the second lends.  *)
EXTENDS EventWriters, Sequences

MCTxOf == <<1, 1, 1, 2>>

\* Rows of their own; the two lends of the first transaction share one; all
\* lends share one.
MCKeyChoices ==
    {<<"b", "l", "m", "n">>, <<"b", "l", "l", "n">>, <<"b", "l", "l", "l">>}

MCFlagsOf == <<Flags, Flags>>
===============================================================================
