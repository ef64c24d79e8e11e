----------------------- MODULE MCInteractiveExecutor -----------------------
(* Values for the constants of InteractiveExecutor: the turns of one session.  *)
EXTENDS InteractiveExecutor

CONSTANTS t1, t2, chat

Two == {t1, t2}
TwoOf == [t \in Two |-> chat]
=============================================================================
