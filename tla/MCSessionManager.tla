-------------------------- MODULE MCSessionManager --------------------------
(* Values for the constants of SessionManager. The deliveries of every set are *)
(* model values; the first letter says what they are: m a message, s a /stop,  *)
(* o a message of the other channel.                                          *)
EXTENDS SessionManager, TLC

CONSTANTS m1, m2, m3, s1, o1, c1, c2

\* Three messages and one /stop of one channel.
OneChannel     == {m1, m2, m3, s1}
OneChannelOf   == [e \in OneChannel |-> c1]
OneChannelId   == [e \in OneChannel |-> e]
OneChannelStop == {s1}

\* Two messages and one /stop.
Brief     == {m1, m2, s1}
BriefOf   == [e \in Brief |-> c1]
BriefId   == [e \in Brief |-> e]
BriefStop == {s1}

\* m2 is a re-delivery of m1, which a /stop may follow.
Redelivery     == {m1, m2, s1}
RedeliveryOf   == [e \in Redelivery |-> c1]
RedeliveryId   == [e \in Redelivery |-> IF e = m2 THEN m1 ELSE e]
RedeliveryIds  == {m1, s1}
RedeliveryStop == {s1}
NoStops        == {}

\* m1 and o1 are the messages the receiver makes up when a user joins a group:
\* two groups, so two channels, and no message id.
Welcomes   == {m1, o1}
WelcomesOf == [e \in Welcomes |-> IF e = o1 THEN c2 ELSE c1]
WelcomesId == [e \in Welcomes |-> None]
WelcomeIds == {None}

\* receiver.go: "handleUserAddedToGroup generates a Claude welcome when new
\* users join a group." No welcome is taken for a re-delivery of another one.
WelcomesAreDispatched == \A e \in Welcomes : stage[e] # "duplicate"
=============================================================================
