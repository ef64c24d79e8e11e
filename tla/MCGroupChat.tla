---------------------------- MODULE MCGroupChat ----------------------------
(* Values for the constants of GroupChat: two bots and a person in a group,     *)
(* and two messages, the first of which is delivered to one bot twice.          *)
EXTENDS GroupChat

CONSTANTS b1, b2, m1, m2, d1, d2, r1, e2

\* m1 is delivered to b1, as d1 and again as r1, and to b2, as d2.
OneMessage          == {d1, d2, r1}
OneMessageTo == [d \in OneMessage |-> IF d \in {d1, r1} THEN b1 ELSE b2]
OneMessageAs == [d \in OneMessage |-> m1]

\* m1 is delivered to b1 (as d1, and again as r1) and to b2 (as d2), m2 to b2.
Delivered   == {d1, d2, r1, e2}
DeliveredTo == [d \in Delivered |-> IF d \in {d1, r1} THEN b1 ELSE b2]
DeliveredAs == [d \in Delivered |-> IF d = e2 THEN m2 ELSE m1]

Said(k, M, p, t, N) == [kind |-> k, mentions |-> M, parent |-> p, parentIdType |-> t, names |-> N]

Talk == {Said("talk", M, p, t, N) :
            M \in {{}, {b1}, {b2}, {Someone}, {b1, b2}}, p \in {None, b1, b2, Someone},
            t \in {"app_id", "open_id"}, N \in {{}, {b1}, {b2}, {b1, b2}}}

AnyShape == {s \in Talk : s.parent = None => s.parentIdType = "open_id"} \cup
            {Said(k, {}, None, "open_id", {}) : k \in {"/stop", "/new", "welcome", "other"}}

\* A message of each sort.
FewShapes ==
    {Said("talk", M, None, "open_id", {}) : M \in SUBSET {b1, b2} \cup {{Someone}}} \cup
    {Said("talk", {}, p, "open_id", {}) : p \in {b1, Someone}} \cup
    {Said("talk", {}, None, "open_id", {b2})} \cup
    {Said(k, {}, None, "open_id", {}) : k \in {"/stop", "/new", "welcome", "other"}}
=============================================================================
