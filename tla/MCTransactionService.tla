----------------------- MODULE MCTransactionService -----------------------
(***************************************************************************)
(* Small instances of TransactionService.  The calls are those the agent   *)
(* itself makes: apm-base.js (page-load, reusable), the click listener of  *)
(* performance-monitoring.js (user-interaction, reusable for a shorter     *)
(* time), processAPICalls (http-request, not reusable), and the            *)
(* application's own unmanaged transaction.                                *)
(***************************************************************************)
EXTENDS TransactionService, TLC

PageLoad == [type |-> "page-load", managed |-> TRUE, canReuse |-> TRUE,
             reuseThreshold |-> 0]
Click == [type |-> "user-interaction", managed |-> TRUE, canReuse |-> TRUE,
          reuseThreshold |-> 1]
HttpRequest == [type |-> "http-request", managed |-> TRUE, canReuse |-> FALSE,
                reuseThreshold |-> 0]
Custom == [type |-> "custom", managed |-> FALSE, canReuse |-> FALSE,
           reuseThreshold |-> 0]

ManagedCalls == {PageLoad, Click, HttpRequest}
ReplaceCalls == {PageLoad, HttpRequest, Custom}
ThresholdCalls == {PageLoad, Click, Custom}

Both == {TRUE, FALSE}
OnlyTrue == {TRUE}
OnlyFalse == {FALSE}

Symmetry == Permutations(Transactions) \cup Permutations(Spans)
=============================================================================
