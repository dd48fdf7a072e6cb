--------------------------- MODULE MCRouteChanges ---------------------------
(* Small instances of RouteChanges: pushState and API calls start            *)
(* transactions besides those of the integrations                            *)
EXTENDS RouteChanges

HttpRequest == [type |-> "http-request", managed |-> TRUE, canReuse |-> FALSE,
                reuseThreshold |-> 0]
Calls == {RouteChange, HttpRequest}
OnlyTrue == {TRUE}
OnlyFalse == {FALSE}
=============================================================================
