--------------------------- MODULE SerialMailbox ---------------------------
(***************************************************************************)
(* What internal/session promises the rest of Memknow, without workers,    *)
(* locks or timers: every channel has one mailbox, the messages of a       *)
(* mailbox are served one at a time and in the order in which they were    *)
(* put, no message is served twice, and a message that is not served was   *)
(* refused (the mailbox was full, or nobody was there to read it) or       *)
(* abandoned together with everything behind it when the reader left.      *)
(***************************************************************************)
EXTENDS Naturals, Sequences

CONSTANTS
    Messages,    \* the messages sent to the bot
    Channels,    \* the channel keys
    ChannelOf,   \* the channel of each message
    Capacity,    \* how many messages a mailbox holds
    Nobody       \* the value of serving[c] between two messages

VARIABLES
    status,      \* status[m]: where message m is in its life
    mailbox,     \* mailbox[c]: the messages waiting in channel c, in order
    serving      \* serving[c]: the message of channel c being served

vars == <<status, mailbox, serving>>

Init ==
    /\ status = [m \in Messages |-> "new"]
    /\ mailbox = [c \in Channels |-> <<>>]
    /\ serving = [c \in Channels |-> Nobody]

\* Message m enters the mailbox of its channel.
Put(m) ==
    LET c == ChannelOf[m] IN
    /\ status[m] = "new"
    /\ Len(mailbox[c]) < Capacity
    /\ mailbox' = [mailbox EXCEPT ![c] = Append(@, m)]
    /\ status' = [status EXCEPT ![m] = "waiting"]
    /\ UNCHANGED serving

\* Message m is not accepted: a duplicate, a full mailbox, a departed reader.
Refuse(m) ==
    /\ status[m] = "new"
    /\ status' = [status EXCEPT ![m] = "lost"]
    /\ UNCHANGED <<mailbox, serving>>

\* The oldest message of channel c is taken out and served.
Begin(c) ==
    /\ serving[c] = Nobody
    /\ mailbox[c] # <<>>
    /\ serving' = [serving EXCEPT ![c] = Head(mailbox[c])]
    /\ status' = [status EXCEPT ![Head(mailbox[c])] = "serving"]
    /\ mailbox' = [mailbox EXCEPT ![c] = Tail(@)]

End(c) ==
    /\ serving[c] # Nobody
    /\ status' = [status EXCEPT ![serving[c]] = "served"]
    /\ serving' = [serving EXCEPT ![c] = Nobody]
    /\ UNCHANGED mailbox

\* The reader of channel c leaves between two messages, with whatever waits.
Abandon(c) ==
    /\ serving[c] = Nobody
    /\ mailbox[c] # <<>>
    /\ status' = [m \in Messages |->
                    IF \E i \in 1..Len(mailbox[c]) : mailbox[c][i] = m
                    THEN "lost" ELSE status[m]]
    /\ mailbox' = [mailbox EXCEPT ![c] = <<>>]
    /\ UNCHANGED serving

Next ==
    \/ \E m \in Messages : Put(m) \/ Refuse(m)
    \/ \E c \in Channels : Begin(c) \/ End(c) \/ Abandon(c)

Spec == Init /\ [][Next]_vars
=============================================================================
