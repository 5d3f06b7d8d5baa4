----------------------------- MODULE MCSession -----------------------------
(* Instances of Session for TLC.                                           *)
EXTENDS Session, TLC

SessionSymmetry == Permutations(Sessions)

Request(types, bad, ordered) ==
    [types |-> types, bad |-> bad, ordered |-> ordered, client |-> FALSE, retryable |-> TRUE]

NoRequests == {}

\* Three runs, two runs of which the first takes two commands, ordered and not,
\* with an operation that fails, one that cannot be retried, and the client's.
SomeRequests ==
    {Request(<<1, 2, 3>>, {}, TRUE), Request(<<1, 1, 2>>, {2}, TRUE), Request(<<1, 2, 1>>, {3}, FALSE),
     [Request(<<1, 2>>, {}, TRUE) EXCEPT !.retryable = FALSE],
     [Request(<<1, 2>>, {}, TRUE) EXCEPT !.client = TRUE]}

\* An insert and an update, in any order.
TwoRuns == {Request(<<1, 2>>, {}, FALSE)}
=============================================================================
