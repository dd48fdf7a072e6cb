---------------------------- MODULE MCEventQueue ----------------------------
(* Small instances of EventQueue: what filters and requests may do *)
EXTENDS EventQueue, TLC

AllFilters == {"keep", "drop", "throw", "capture"}
PureFilters == {"keep", "drop"}
NoFilters == {"keep"}

AllOutcomes == {"send", "reject", "hang", "deliver", "fail"}
NoHang == {"send", "reject", "deliver", "fail"}
Delivers == {"send", "deliver"}
NoLimit == -1

PoisonSymmetry == Permutations(Events \ Poison)
=============================================================================
