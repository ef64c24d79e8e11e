---------------------------- MODULE CardStreamer ----------------------------
(***************************************************************************)
(* The progress card of one Claude run in a private chat:                  *)
(* executeWithStreaming and the reply after it (worker.go) with the        *)
(* compactCardStreamer (compact_stream.go) of each card.                   *)
(*                                                                         *)
(* The run's events reach the streamer from the worker's goroutine; the    *)
(* debounce timer calls flushPendingDebounced on a goroutine of its own.   *)
(* Every critical section of the streamer's mutex, the UpdateCard call     *)
(* included, is one step.  A render is a version: each event that changes  *)
(* what the card should say gives the next one, the bare header is 1, and  *)
(* 0 stands for the empty string.  An UpdateCard that fails may or may not *)
(* have reached the card, but does not reach it later than it returns.     *)
(***************************************************************************)
EXTENDS Naturals

CONSTANTS
    MaxStreamers,   \* bound: streamers of one run (one per tool_use event)
    MaxVersion,     \* bound: renders of one streamer
    MaxCalls,       \* bound: callbacks of one timer that wait at a time
    Kinds           \* event kinds other than tool_use that the run produces

ASSUME BoundsAssumption ==
    MaxStreamers \in Nat \ {0} /\ MaxVersion \in Nat \ {0, 1} /\ MaxCalls \in Nat \ {0}
ASSUME KindsAssumption == Kinds \subseteq {"thinking", "tool_result", "text", "line"}

VARIABLES
    phase,      \* where executeWithStreaming is
    stopped,    \* runCtx is done
    cards,      \* cards posted so far: 1 .. cards; the last is cardMsgID
    cur,        \* the current streamer, 0 for nil
    streamer,   \* state of every streamer
    shown       \* what each card says: <<streamer, version>>

vars == <<phase, stopped, cards, cur, streamer, shown>>

Streamers == 1 .. MaxStreamers
Versions == 0 .. MaxVersion
Thinking == <<0, 0>>
Final == <<MaxStreamers + 1, 0>>

Streamer == [card : 0 .. MaxStreamers,
             seen : Versions,       \* version of renderLocked now
             sent : Versions,       \* lastSent
             pending : Versions,
             fresh : BOOLEAN,       \* lastSentAt is less than minInterval ago
             armed : BOOLEAN,       \* flushTimer is set and has not fired
             calls : 0 .. MaxCalls, \* fired callbacks that wait for mu
             parked : BOOLEAN,      \* a thinking event stopped the timer (history)
             failed : BOOLEAN,
             closed : BOOLEAN]

\* newCompactCardStreamer
NewStreamer(card) ==
    [card |-> card, seen |-> 1, sent |-> 0, pending |-> 0, fresh |-> FALSE,
     armed |-> FALSE, calls |-> 0, parked |-> FALSE, failed |-> FALSE, closed |-> FALSE]

Init ==
    /\ phase = "start"
    /\ stopped = FALSE
    /\ cards = 0
    /\ cur = 0
    /\ streamer = [s \in Streamers |-> NewStreamer(0)]
    /\ shown = [c \in Streamers |-> Thinking]

(***************************************************************************)
(* sendLocked                                                              *)
(***************************************************************************)
\* How UpdateCard can end: applied, refused, or applied with its answer lost.
Outcomes == IF stopped THEN {"refused"} ELSE {"ok", "refused", "landed"}

Sent(st, v, outcome) ==
    IF outcome = "ok" THEN [st EXCEPT !.sent = v, !.fresh = TRUE]
                      ELSE [st EXCEPT !.failed = TRUE]

Shows(before, content, outcome) == IF outcome = "refused" THEN before ELSE content

\* Sends version v of streamer s, whose other fields have become st's.
Send(s, st, v) ==
    \E outcome \in Outcomes :
        /\ streamer' = [streamer EXCEPT ![s] = Sent(st, v, outcome)]
        /\ shown' = [shown EXCEPT ![st.card] = Shows(@, <<s, v>>, outcome)]

Keep(s, st) ==
    /\ streamer' = [streamer EXCEPT ![s] = st]
    /\ UNCHANGED shown

Ignored(st) == st.failed \/ st.closed

(***************************************************************************)
(* OnProgress                                                              *)
(***************************************************************************)
Forced(kind) == kind \in {"tool_use", "tool_result", "line"}

\* A blank text or an entry equal to the last one leaves the render alone.
Grow(st, kind) ==
    ({st.seen + 1} \cap Versions) \cup (IF kind = "tool_use" THEN {} ELSE {st.seen})

OnProgress(s, kind) ==
    LET st == streamer[s]
    IN  IF stopped \/ Ignored(st)
        THEN UNCHANGED <<streamer, shown>>
        ELSE \E v \in Grow(st, kind) :
                LET grown == [st EXCEPT !.seen = v]
                    quiet == [grown EXCEPT !.armed = FALSE, !.parked = FALSE]
                IN  CASE v = st.sent -> Keep(s, grown)
                      [] v # st.sent /\ kind = "text" ->
                            Keep(s, [grown EXCEPT !.pending = v, !.armed = TRUE,
                                              !.parked = FALSE])
                      [] v # st.sent /\ kind # "text" /\ ~Forced(kind) /\ st.fresh ->
                            Keep(s, [quiet EXCEPT !.pending = v, !.parked = TRUE])
                      [] OTHER -> Send(s, [quiet EXCEPT !.pending = 0], v)

\* Mutant: Close only marks the streamer, and leaves the rest to the timer.
Close_OnlyMarks(s) ==
    /\ streamer' = [streamer EXCEPT ![s].closed = TRUE]
    /\ UNCHANGED shown

(***************************************************************************)
(* Close: the pending render, then the current one where it differs; a     *)
(* failed first call does not keep it from the second.                     *)
(***************************************************************************)
Close(s) ==
    LET st == streamer[s]
        quiet == [st EXCEPT !.closed = TRUE, !.armed = FALSE]
    IN  IF Ignored(st)
        THEN UNCHANGED <<streamer, shown>>
        ELSE \E first, second \in Outcomes :
                LET flush == st.pending \notin {0, st.sent}
                    half == IF flush
                            THEN [Sent(quiet, st.pending, first) EXCEPT !.pending = 0]
                            ELSE quiet
                    says == IF flush THEN Shows(shown[st.card], <<s, st.pending>>, first)
                                     ELSE shown[st.card]
                    rest == half.seen # half.sent
                IN  /\ streamer' = [streamer EXCEPT ![s] =
                            IF rest THEN Sent(half, half.seen, second) ELSE half]
                    /\ shown' = [shown EXCEPT ![st.card] =
                            IF rest THEN Shows(says, <<s, half.seen>>, second) ELSE says]

(***************************************************************************)
(* The debounce timer                                                      *)
(***************************************************************************)
\* The timer fires: its callback starts, and waits for mu.
Fire(s) ==
    /\ streamer[s].armed /\ streamer[s].calls < MaxCalls
    /\ streamer' = [streamer EXCEPT ![s].armed = FALSE, ![s].calls = @ + 1]
    /\ UNCHANGED <<phase, stopped, cards, cur, shown>>

\* Mutant: flushPendingDebounced gives up when the last render is too recent.
Flush_NoReschedule(s) ==
    LET st == streamer[s]
        quiet == [st EXCEPT !.armed = FALSE, !.calls = @ - 1]
    IN  /\ st.calls > 0
        /\ IF Ignored(st) \/ st.pending \in {0, st.sent} \/ st.fresh
           THEN Keep(s, quiet)
           ELSE Send(s, [quiet EXCEPT !.pending = 0], st.pending)
        /\ UNCHANGED <<phase, stopped, cards, cur>>

\* flushPendingDebounced
Flush(s) ==
    LET st == streamer[s]
        quiet == [st EXCEPT !.armed = FALSE, !.calls = @ - 1]
    IN  /\ st.calls > 0
        /\ CASE Ignored(st) \/ st.pending \in {0, st.sent} -> Keep(s, quiet)
             [] ~Ignored(st) /\ st.pending \notin {0, st.sent} /\ st.fresh ->
                    Keep(s, [quiet EXCEPT !.armed = TRUE])
             [] OTHER -> Send(s, [quiet EXCEPT !.pending = 0], st.pending)
        /\ UNCHANGED <<phase, stopped, cards, cur>>

\* minInterval passes since streamer s last sent a render.
Age(s) ==
    /\ streamer[s].fresh
    /\ streamer' = [streamer EXCEPT ![s].fresh = FALSE]
    /\ UNCHANGED <<phase, stopped, cards, cur, shown>>

(***************************************************************************)
(* executeWithStreaming and the reply                                      *)
(***************************************************************************)
\* SendThinking posts a card, which needs a live runCtx; it may fail.
PostsCard == {TRUE, FALSE} \ (IF stopped THEN {TRUE} ELSE {})

\* A group chat, companion mode or a failed SendThinking gives no card.
Start ==
    /\ phase = "start"
    /\ \E posted \in PostsCard :
        /\ cards' = IF posted THEN 1 ELSE 0
        /\ cur' = cards'
        /\ streamer' = IF posted THEN [streamer EXCEPT ![1] = NewStreamer(1)] ELSE streamer
    /\ phase' = "running"
    /\ UNCHANGED <<stopped, shown>>

\* The onProgress callback for an event other than tool_use.
Event(kind) ==
    /\ phase = "running" /\ cur # 0
    /\ OnProgress(cur, kind)
    /\ UNCHANGED <<phase, stopped, cards, cur>>

\* Mutant: tool_use replaces the streamer without closing it.
ToolUse_KeepsOpen ==
    /\ phase = "running" /\ cur # 0 /\ cur < MaxStreamers
    /\ phase' = "new_card"
    /\ UNCHANGED <<stopped, cards, cur, streamer, shown>>

\* The callback for tool_use: the card so far is closed first ...
ToolUse ==
    /\ phase = "running" /\ cur # 0 /\ cur < MaxStreamers
    /\ Close(cur)
    /\ phase' = "new_card"
    /\ UNCHANGED <<stopped, cards, cur>>

\* ... then a new one is posted, or the old one goes on when that fails ...
NewCard ==
    /\ phase = "new_card"
    /\ \E posted \in PostsCard :
        /\ cards' = IF posted THEN cards + 1 ELSE cards
        /\ cur' = cur + 1
        /\ streamer' = [streamer EXCEPT ![cur'] = NewStreamer(cards')]
    /\ phase' = "tool_use"
    /\ UNCHANGED <<stopped, shown>>

\* ... and the new streamer shows the tool call.
ShowToolUse ==
    /\ phase = "tool_use"
    /\ OnProgress(cur, "tool_use")
    /\ phase' = "running"
    /\ UNCHANGED <<stopped, cards, cur>>

\* runClaude returns: the last streamer is closed and runCtx cancelled.
RunEnds ==
    /\ phase = "running"
    /\ IF cur = 0 THEN UNCHANGED <<streamer, shown>> ELSE Close(cur)
    /\ stopped' = TRUE
    /\ phase' = "reply"
    /\ UNCHANGED <<cards, cur>>

\* sendResult, replyCanceled or replyError on the card, with the worker's ctx;
\* without a card the reply is a message of its own.
Reply ==
    /\ phase = "reply"
    /\ \E outcome \in {"ok", "refused", "landed"} :
        shown' = IF cards = 0 THEN shown
                 ELSE [shown EXCEPT ![cards] = Shows(@, Final, outcome)]
    /\ phase' = "done"
    /\ UNCHANGED <<stopped, cards, cur, streamer>>

\* /stop or the shutdown cancels runCtx.
Stop ==
    /\ ~stopped
    /\ stopped' = TRUE
    /\ UNCHANGED <<phase, cards, cur, streamer, shown>>

Next ==
    \/ Start
    \/ \E kind \in Kinds : Event(kind)
    \/ ToolUse
    \/ NewCard
    \/ ShowToolUse
    \/ RunEnds
    \/ Reply
    \/ Stop
    \/ \E s \in Streamers : Fire(s) \/ Flush(s) \/ Age(s)

\* Timers fire, their goroutines run, and time passes; nothing makes the run
\* go on, its events come or it end.
Fairness ==
    \A s \in Streamers : WF_vars(Fire(s)) /\ WF_vars(Flush(s)) /\ WF_vars(Age(s))

Spec == Init /\ [][Next]_vars /\ Fairness

-----------------------------------------------------------------------------
(***************************************************************************)
(* Properties                                                              *)
(***************************************************************************)
\* Every variable has its type; the timer of a closed streamer is not armed.
TypeOK ==
    /\ phase \in {"start", "running", "new_card", "tool_use", "reply", "done"}
    /\ stopped \in BOOLEAN
    /\ cards \in 0 .. MaxStreamers
    /\ cur \in 0 .. MaxStreamers
    /\ streamer \in [Streamers -> Streamer]
    /\ shown \in [Streamers -> (Streamers \X Versions) \cup {Thinking, Final}]
    /\ \A s \in Streamers : streamer[s].closed => ~streamer[s].armed

\* Content x of a card comes after content y.
Later(x, y) == x[1] > y[1] \/ (x[1] = y[1] /\ x[2] > y[2])

\* What a card says never goes back: not to an older render of its streamer, not
\* from a later streamer of the same card to an earlier one, and not from the
\* reply to any progress, although the timer's callback of a streamer may still
\* wait for the mutex when the card moves on (Close and flushPendingDebounced).
CardNeverGoesBack ==
    [][\A c \in Streamers : shown'[c] # shown[c] => Later(shown'[c], shown[c])]_vars

\* A streamer that was closed and met no error has sent everything it was told:
\* what was still held back by the debounce or the interval goes out with Close.
ClosedShowsAll ==
    \A s \in Streamers :
        streamer[s].closed /\ ~streamer[s].failed => streamer[s].sent = streamer[s].seen

\* The streamers of a run are used one after the other: those after the current
\* one are untouched, and those before it, or all once the card is given up, have
\* been closed or have failed and send no more.
InOrder ==
    /\ cards <= cur
    /\ phase = "start" => cur = 0
    /\ phase = "new_card" => cur \in 1 .. MaxStreamers - 1
    /\ phase = "tool_use" => cur # 0
    /\ cur # 0 => cards # 0 /\ streamer[cur].card = cards
    /\ \A s \in Streamers :
        /\ s > cur => streamer[s] = NewStreamer(0)
        /\ s <= cur => streamer[s].card \in 1 .. cards
        /\ s < cur \/ (s = cur /\ phase \in {"new_card", "reply", "done"}) => Ignored(streamer[s])

\* A streamer has sent nothing newer than its render, and holds back only that.
HoldsTheLatest ==
    \A s \in Streamers :
        streamer[s].sent <= streamer[s].seen /\ streamer[s].pending \in {0, streamer[s].seen}

\* A card says "thinking", the reply once that was sent, or what a streamer of
\* this card sent; if that one still runs, the render it knows to have sent.
ShowsItsStreamer ==
    \A c \in Streamers :
        \/ shown[c] = Thinking
        \/ shown[c] = Final /\ phase = "done"
        \/ \E s \in 1 .. cur, v \in Versions :
            /\ shown[c] = <<s, v>> /\ streamer[s].card = c
            /\ ~Ignored(streamer[s]) => v = streamer[s].sent

\* The streamers are in order: what they hold has its type, a closed one has no
\* timer armed and has shown all, they take turns, and the cards say what they sent.
CardInv == TypeOK /\ ClosedShowsAll /\ InOrder /\ HoldsTheLatest /\ ShowsItsStreamer

\* Text that was held back is sent while the run is still going, by the timer
\* alone, unless the streamer is closed, an update failed or the run was stopped;
\* but a thinking event within the interval stops the timer, and then the text
\* waits for the next event.
TextIsShown ==
    \A s \in Streamers, v \in Versions \ {0} :
        streamer[s].pending = v
            ~> \/ streamer[s].sent >= v
               \/ streamer[s].parked
               \/ Ignored(streamer[s])
               \/ stopped

=============================================================================
