---------------------------- MODULE MCContainer -----------------------------
(* A container that is signalled, crashes and has its file edited.         *)
EXTENDS Container

Good == [parses |-> TRUE, role |-> "redbox", lans |-> TRUE, interlink |-> TRUE, lan |-> Unset,
         net |-> 0, filter |-> TRUE, cidrs |-> TRUE, prp |-> 0, ticks |-> TRUE]

(* A file that serves; one that is refused; one with an interval of 0.     *)
SomeFiles == {Good, [Good EXCEPT !.role = "hsr-prp"], [Good EXCEPT !.ticks = FALSE]}

NoEnv == [role |-> Unset, lan |-> Unset, net |-> 0, prp |-> 0, cidrs |-> TRUE]
SomeEnvs == {NoEnv}
=============================================================================
