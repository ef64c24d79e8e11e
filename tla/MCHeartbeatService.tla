------------------------ MODULE MCHeartbeatService ------------------------
(* Instances of HeartbeatService for TLC. *)
EXTENDS HeartbeatService

CONSTANTS app, w1

Off == [enabled |-> FALSE, interval |-> 1, target |-> "none"]
Quiet == [enabled |-> TRUE, interval |-> 1, target |-> "none"]
Loud == [enabled |-> TRUE, interval |-> 1, target |-> "chat"]
Zero == [enabled |-> TRUE, interval |-> 0, target |-> "chat"]

Turns == {Off, Quiet, Loud}
WithZero == {Quiet, Zero}
OnlyQuiet == {Quiet}
Running == {"down", "up"}
=============================================================================
