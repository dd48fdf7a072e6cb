----------------------------- MODULE MCApiCalls -----------------------------
(* Small instances of ApiCalls: one transaction of the application besides  *)
(* those of the calls                                                       *)
EXTENDS ApiCalls, TLC

Click == [type |-> "user-interaction", managed |-> TRUE, canReuse |-> TRUE,
          reuseThreshold |-> 1]
Clicks == {Click}
OnlyTrue == {TRUE}
OnlyFalse == {FALSE}

Symmetry == Permutations(Transactions) \cup Permutations(Spans)
              \cup Permutations(XhrCalls)
=============================================================================
