-------------------------- MODULE MCPromptContext --------------------------
(* Instances of PromptContext for TLC: the channels w1 and w2 of the app a, and  *)
(* w3 of the app b; two files. Content tpl is the template both apps begin with. *)
EXTENDS PromptContext

CONSTANTS a, b, w1, w2, w3, tpl, old, new, own

TwoFiles == <<"MEMORY.md", "memory/x.md">>

AppOfWorker == [w \in Worker |-> IF w = w3 THEN b ELSE a]

\* Every content holds the first keyword, new has both, in two entries.
EntriesOfContent ==
    [c \in Content |-> IF c = new THEN <<{"k1"}, {"k2"}>> ELSE <<{"k1"}>>]
AskedByAll == [w \in Worker |-> {"k1", "k2"}]

Disks ==
    [x \in App |->
        IF x = a THEN [p \in Path |-> IF p = "MEMORY.md" THEN tpl ELSE old]
                 ELSE [p \in Path |-> IF p = "MEMORY.md" THEN tpl ELSE None]]

SomeEdits == {<<a, "memory/x.md", None>>, <<a, "memory/x.md", new>>, <<b, "MEMORY.md", own>>}

\* Matches of two sessions.
Of(s, t) == [session |-> s, text |-> t]
Found(fts, like, summary) == [fails |-> FALSE, fts |-> fts, like |-> like, summary |-> summary]
s1a == Of("s1", "a")  s1b == Of("s1", "b")  s1c == Of("s1", "c")
s2a == Of("s2", "a")  s2b == Of("s2", "b")  s3a == Of("s3", "a")

Nothing == Found(<<>>, <<>>, <<>>)
Failed == [Found(<<>>, <<s1a>>, <<s2b>>) EXCEPT !.fails = TRUE]
Overlapping == Found(<<s1a, s1b>>, <<s1b, s1c, s2a>>, <<s3a>>)

OneSession == Found(<<s1a, s1b, s1c>>, <<s1c, s1a>>, <<>>)
ManySessions == Found(<<s2a>>, <<s2a, s1a, s3a>>, <<s1b>>)

FoundByFirst ==
    [w \in Worker |-> IF w = w1 THEN {Failed, Overlapping, OneSession, ManySessions}
                                ELSE {Nothing}]

\* Every result with at most two matches of each route.
AnyFound ==
    LET texts == {s1a, s1b, s2a, s3a}
        lists == {<<>>} \cup {<<m>> : m \in texts}
                 \cup {q \in texts \X texts : q[1] # q[2]}
    IN [w \in Worker |-> {Found(f, l, u) : f \in lists, l \in lists, u \in lists}]
=============================================================================
