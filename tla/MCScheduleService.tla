------------------------- MODULE MCScheduleService -------------------------
(* Values for the constants of ScheduleService. The operations: a creates      *)
(* schedule x, u and v update it, d deletes it, b creates schedule y.          *)
EXTENDS ScheduleService, TLC

CONSTANTS a, b, d, u, v, x, y, chat, group, daily, hourly, weekly, broken

Kinds == (a :> "create") @@ (b :> "create") @@ (d :> "delete")
         @@ (u :> "update") @@ (v :> "update")
About == [o \in {a, b, d, u, v} |-> IF o = b THEN y ELSE x]
Brings == (a :> daily) @@ (b :> broken) @@ (d :> daily) @@ (u :> hourly) @@ (v :> weekly)

\* The life of a schedule managed from one chat, and another one from a group.
LifeOps      == {a, u, d, b}
LifeKind     == [o \in LifeOps |-> Kinds[o]]
LifeSchedule == [o \in LifeOps |-> About[o]]
LifeCron     == [o \in LifeOps |-> Brings[o]]
LifeChannel  == [o \in LifeOps |-> IF o = b THEN group ELSE chat]

\* The owner of x asks for a change in the chat and for another one in a group.
SplitChannel == [o \in LifeOps |-> IF o \in {a, u} THEN chat ELSE group]

TwoUpdates         == {a, u, v}
TwoUpdatesKind     == [o \in TwoUpdates |-> Kinds[o]]
TwoUpdatesSchedule == [o \in TwoUpdates |-> About[o]]
TwoUpdatesCron     == [o \in TwoUpdates |-> Brings[o]]
TwoUpdatesChannel  == [o \in TwoUpdates |-> IF o = v THEN group ELSE chat]
=============================================================================
