------------------------------ MODULE MCAgent ------------------------------
(* Small instances of Agent *)
EXTENDS Agent

Config(active, session, centralConfig) ==
    [valid |-> TRUE, active |-> active, session |-> session,
     centralConfig |-> centralConfig, pageLoad |-> TRUE]
Configs == {Config(TRUE, TRUE, TRUE), Config(TRUE, FALSE, TRUE),
            Config(TRUE, TRUE, FALSE),
            [Config(TRUE, TRUE, TRUE) EXCEPT !.valid = FALSE]}
(* A rate that rounding alone would make 0, then none, then one of 100 % *)
ThreeVersions == <<3, NoRate, 100000>>
TwoRates == {3, 100000}
=============================================================================
