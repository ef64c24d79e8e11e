------------------------- MODULE CardStreamerProofs -------------------------
(* Proofs about CardStreamer: the streamers of a run take turns on its cards, *)
(* and what a card says never goes back.                                      *)
EXTENDS CardStreamer, TLAPS

\* What holds of the record of every streamer.
Sound(st) ==
    /\ st \in Streamer
    /\ st.closed => ~st.armed
    /\ st.closed /\ ~st.failed => st.sent = st.seen
    /\ st.sent <= st.seen
    /\ st.pending \in {0, st.seen}

\* Streamer s becomes st, and where its card changes, it says a newer render of s.
Advances(s, st) ==
    /\ Sound(st) /\ st.card = streamer[s].card
    /\ Ignored(streamer[s]) => Ignored(st)
    /\ streamer' = [streamer EXCEPT ![s] = st]
    /\ \/ shown' = shown /\ (~Ignored(st) => st.sent = streamer[s].sent)
       \/ \E v \in Versions :
            /\ ~Ignored(streamer[s]) /\ v > streamer[s].sent
            /\ ~Ignored(st) => v = st.sent
            /\ shown' = [shown EXCEPT ![st.card] = <<s, v>>]

\* The invariant says of every streamer that its record is sound.
LEMMA StreamersSound == CardInv => \A s \in Streamers : Sound(streamer[s])
BY DEF CardInv, TypeOK, ClosedShowsAll, HoldsTheLatest, Sound

\* A new streamer is sound, and not ignored.
LEMMA NewStreamerSound ==
  ASSUME NEW c \in 0 .. MaxStreamers
  PROVE  Sound(NewStreamer(c)) /\ ~Ignored(NewStreamer(c)) /\ NewStreamer(c).card = c
<1>1. 0 \in Versions /\ 1 \in Versions /\ 0 \in 0 .. MaxCalls
  BY BoundsAssumption DEF Versions
<1> QED BY <1>1 DEF Sound, NewStreamer, Streamer, Ignored

\* Init satisfies the invariant.
LEMMA InitCard == Init => CardInv
<1> SUFFICES ASSUME Init PROVE CardInv
  OBVIOUS
<1>1. cards = 0 /\ cur = 0 /\ phase = "start" /\ 0 \in 0 .. MaxStreamers
  BY BoundsAssumption DEF Init
<1>2. \A s \in Streamers : streamer[s] = NewStreamer(0) /\ Sound(streamer[s])
  BY <1>1, NewStreamerSound DEF Init
<1>3. TypeOK
  <2>1. streamer \in [Streamers -> Streamer]
    BY <1>2 DEF Init, Sound
  <2> QED BY <1>1, <1>2, <2>1 DEF Init, TypeOK, Sound
<1>4. ClosedShowsAll /\ HoldsTheLatest
  BY <1>2 DEF ClosedShowsAll, HoldsTheLatest, Sound
<1>5. InOrder
  BY <1>1, <1>2 DEF InOrder, Streamers
<1>6. ShowsItsStreamer
  BY DEF Init, ShowsItsStreamer
<1> QED BY <1>3, <1>4, <1>5, <1>6 DEF CardInv

-----------------------------------------------------------------------------
(* What each operation of a streamer does to it *)

\* A send in a state where version v is newer than what was sent: st is the
\* streamer's record with its other fields already changed.
LEMMA SendAdvances ==
  ASSUME CardInv, NEW s \in Streamers, NEW st \in Streamer, NEW v \in Versions,
         ~Ignored(streamer[s]), st.card = streamer[s].card, ~st.closed, ~st.failed,
         st.sent = streamer[s].sent, st.pending = 0, st.seen = v, v > st.sent,
         Send(s, st, v)
  PROVE  \E r : Advances(s, r)
<1>1. PICK outcome \in Outcomes :
        /\ streamer' = [streamer EXCEPT ![s] = Sent(st, v, outcome)]
        /\ shown' = [shown EXCEPT ![st.card] = Shows(@, <<s, v>>, outcome)]
  BY DEF Send
<1> DEFINE r == Sent(st, v, outcome)
<1>2. /\ r \in Streamer /\ r.card = st.card /\ r.seen = st.seen /\ r.pending = 0
      /\ ~r.closed /\ ~r.armed = ~st.armed
      /\ outcome = "ok" => r.sent = v /\ ~r.failed
      /\ outcome # "ok" => r.sent = st.sent /\ r.failed
  BY DEF Sent, Streamer
<1>3. Sound(r)
  BY <1>2 DEF Sound, Streamer, Versions
<1>4. outcome # "ok" => Ignored(r)
  BY <1>2 DEF Ignored
<1>5. CASE outcome = "refused"
  <2>1. shown' = shown
    BY <1>1, <1>5 DEF CardInv, TypeOK, Shows
  <2> QED BY <1>1, <1>2, <1>3, <1>4, <1>5, <2>1 DEF Advances
<1>6. CASE outcome # "refused"
  <2>1. shown' = [shown EXCEPT ![r.card] = <<s, v>>]
    BY <1>1, <1>2, <1>6 DEF Shows
  <2>2. ~Ignored(r) => v = r.sent
    BY <1>2, <1>4
  <2>3. streamer' = [streamer EXCEPT ![s] = r]
    BY <1>1
  <2> HIDE DEF r
  <2> QED BY <1>2, <1>3, <2>1, <2>2, <2>3 DEF Advances
<1> QED BY <1>5, <1>6

\* A step that sends nothing and keeps what was sent.
LEMMA KeepAdvances ==
  ASSUME CardInv, NEW s \in Streamers, NEW st, Keep(s, st), Sound(st),
         st.card = streamer[s].card, st.sent = streamer[s].sent,
         Ignored(streamer[s]) => Ignored(st)
  PROVE  Advances(s, st)
BY DEF Keep, Advances

\* An event moves its streamer forward, or is ignored.
LEMMA OnProgressAdvances ==
  ASSUME CardInv, NEW s \in Streamers, NEW kind, OnProgress(s, kind)
  PROVE  (\E r : Advances(s, r)) \/ UNCHANGED <<streamer, shown>>
<1> DEFINE st == streamer[s]
<1>1. Sound(st)
  BY StreamersSound
<1>2. SUFFICES ASSUME ~Ignored(st), ~stopped
               PROVE  \E r : Advances(s, r)
  BY DEF OnProgress
<1>3. PICK v \in Grow(st, kind) :
        LET grown == [st EXCEPT !.seen = v]
            quiet == [grown EXCEPT !.armed = FALSE, !.parked = FALSE]
        IN  CASE v = st.sent -> Keep(s, grown)
              [] v # st.sent /\ kind = "text" ->
                    Keep(s, [grown EXCEPT !.pending = v, !.armed = TRUE, !.parked = FALSE])
              [] v # st.sent /\ kind # "text" /\ ~Forced(kind) /\ st.fresh ->
                    Keep(s, [quiet EXCEPT !.pending = v, !.parked = TRUE])
              [] OTHER -> Send(s, [quiet EXCEPT !.pending = 0], v)
  BY <1>2 DEF OnProgress
<1>4. v \in Versions /\ v >= st.seen /\ v >= st.sent /\ st.sent \in Versions
  BY <1>1 DEF Grow, Sound, Streamer, Versions
<1>5. ~st.failed /\ ~st.closed
  BY <1>2 DEF Ignored
<1> DEFINE grown == [st EXCEPT !.seen = v]
           quiet == [grown EXCEPT !.armed = FALSE, !.parked = FALSE]
           held == [grown EXCEPT !.pending = v, !.armed = TRUE, !.parked = FALSE]
           parked == [quiet EXCEPT !.pending = v, !.parked = TRUE]
           sending == [quiet EXCEPT !.pending = 0]
<1>6. /\ grown \in Streamer /\ grown.seen = v /\ grown.sent = st.sent
      /\ grown.card = st.card /\ ~grown.closed /\ ~grown.failed
      /\ grown.pending = st.pending
  BY <1>1, <1>4, <1>5 DEF Sound, Streamer
<1>7. CASE v = st.sent
  <2>1. Keep(s, grown)
    BY <1>3, <1>7
  <2>2. Sound(grown)
    <3> HIDE DEF grown
    <3> QED BY <1>1, <1>4, <1>6, <1>7 DEF Sound, Streamer, Versions
  <2> QED BY <1>2, <1>6, <2>1, <2>2, KeepAdvances
<1>8. CASE v # st.sent /\ kind = "text"
  <2>1. Keep(s, held)
    BY <1>3, <1>8
  <2>2. /\ held \in Streamer /\ held.seen = v /\ held.sent = st.sent /\ held.pending = v
        /\ held.card = st.card /\ ~held.closed
    BY <1>4, <1>6 DEF Streamer
  <2>3. Sound(held)
    BY <1>4, <2>2 DEF Sound, Versions
  <2> HIDE DEF held
  <2> QED BY <1>2, <2>1, <2>2, <2>3, KeepAdvances
<1>9. CASE v # st.sent /\ kind # "text" /\ ~Forced(kind) /\ st.fresh
  <2>1. Keep(s, parked)
    BY <1>3, <1>9
  <2>2. /\ parked \in Streamer /\ parked.seen = v /\ parked.sent = st.sent
        /\ parked.pending = v /\ parked.card = st.card /\ ~parked.closed
    BY <1>4, <1>6 DEF Streamer
  <2>3. Sound(parked)
    BY <1>4, <2>2 DEF Sound, Versions
  <2> HIDE DEF parked
  <2> QED BY <1>2, <2>1, <2>2, <2>3, KeepAdvances
<1>10. CASE v # st.sent /\ kind # "text" /\ ~(~Forced(kind) /\ st.fresh)
  <2>1. Send(s, sending, v)
    BY <1>3, <1>10
  <2>2. /\ sending \in Streamer /\ sending.seen = v /\ sending.sent = st.sent
        /\ sending.pending = 0 /\ sending.card = st.card
        /\ ~sending.closed /\ ~sending.failed
    <3>1. 0 \in Versions
      BY BoundsAssumption DEF Versions
    <3> HIDE DEF grown
    <3> QED BY <1>4, <1>6, <3>1 DEF Streamer
  <2>3. v > sending.sent
    BY <1>4, <1>10, <2>2 DEF Versions
  <2> HIDE DEF sending
  <2> QED BY <1>2, <1>4, <2>1, <2>2, <2>3, SendAdvances
<1> QED BY <1>7, <1>8, <1>9, <1>10

\* Close moves its streamer forward and leaves it ignored.
LEMMA CloseAdvances ==
  ASSUME CardInv, NEW s \in Streamers, Close(s)
  PROVE  \/ \E r : Advances(s, r) /\ Ignored(r)
         \/ Ignored(streamer[s]) /\ UNCHANGED <<streamer, shown>>
<1> DEFINE st == streamer[s]
           quiet == [st EXCEPT !.closed = TRUE, !.armed = FALSE]
           flush == st.pending \notin {0, st.sent}
           half(first) == IF flush
                          THEN [Sent(quiet, st.pending, first) EXCEPT !.pending = 0]
                          ELSE quiet
           says(first) == IF flush THEN Shows(shown[st.card], <<s, st.pending>>, first)
                                   ELSE shown[st.card]
<1>1. Sound(st)
  BY StreamersSound
<1>2. SUFFICES ASSUME ~Ignored(st)
               PROVE  \E r : Advances(s, r) /\ Ignored(r)
  BY DEF Close
<1>3. PICK first \in Outcomes, second \in Outcomes :
        /\ streamer' = [streamer EXCEPT ![s] =
                IF half(first).seen # half(first).sent
                THEN Sent(half(first), half(first).seen, second) ELSE half(first)]
        /\ shown' = [shown EXCEPT ![st.card] =
                IF half(first).seen # half(first).sent
                THEN Shows(says(first), <<s, half(first).seen>>, second) ELSE says(first)]
  BY <1>2 DEF Close
<1> DEFINE h == half(first)
           r == IF h.seen # h.sent THEN Sent(h, h.seen, second) ELSE h
<1>4. st.sent \in Versions /\ st.seen \in Versions /\ st.sent <= st.seen
      /\ st.pending \in {0, st.seen} /\ ~st.failed
  BY <1>1, <1>2 DEF Sound, Streamer, Ignored
<1>5. /\ quiet \in Streamer /\ quiet.closed /\ ~quiet.armed /\ ~quiet.failed
      /\ quiet.sent = st.sent /\ quiet.seen = st.seen /\ quiet.pending = st.pending
      /\ quiet.card = st.card
  BY <1>1, <1>4 DEF Sound, Streamer
<1>6. /\ h \in Streamer /\ h.closed /\ ~h.armed /\ h.seen = st.seen /\ h.card = st.card
      /\ h.pending \in {0, st.seen}
      /\ h.sent = IF flush /\ first = "ok" THEN st.seen ELSE st.sent
  <2> HIDE DEF quiet
  <2>1. CASE flush
    <3> DEFINE sent == Sent(quiet, st.pending, first)
    <3>1. h = [sent EXCEPT !.pending = 0] /\ st.pending = st.seen
      BY <1>4, <2>1
    <3>2. /\ sent \in Streamer /\ sent.closed /\ ~sent.armed
          /\ sent.seen = st.seen /\ sent.card = st.card
          /\ sent.sent = IF first = "ok" THEN st.seen ELSE st.sent
      BY <1>4, <1>5, <3>1 DEF Sent, Streamer
    <3>3. 0 \in Versions
      BY BoundsAssumption DEF Versions
    <3> HIDE DEF sent, h
    <3> QED BY <2>1, <3>1, <3>2, <3>3 DEF Streamer
  <2>2. CASE ~flush
    BY <1>4, <1>5, <2>2
  <2> QED BY <2>1, <2>2
<1>7. /\ r \in Streamer /\ r.closed /\ ~r.armed /\ r.seen = st.seen /\ r.card = st.card
      /\ r.pending \in {0, st.seen}
      /\ ~r.failed => r.sent = r.seen
      /\ r.sent <= r.seen
  <2> DEFINE sent == Sent(h, h.seen, second)
  <2> HIDE DEF h
  <2>1. h.sent <= h.seen
    BY <1>4, <1>6 DEF Versions
  <2>2. /\ sent \in Streamer /\ sent.closed /\ ~sent.armed /\ sent.seen = h.seen
        /\ sent.card = h.card /\ sent.pending = h.pending
        /\ sent.sent \in {h.sent, h.seen}
        /\ ~sent.failed => sent.sent = sent.seen
    BY <1>4, <1>6 DEF Sent, Streamer
  <2>3. sent.sent <= sent.seen
    BY <1>4, <1>6, <2>1, <2>2 DEF Versions
  <2> HIDE DEF sent
  <2>4. CASE h.seen # h.sent
    <3>1. r = sent
      BY <2>4 DEF sent
    <3> HIDE DEF r
    <3> QED BY <1>6, <2>2, <2>3, <3>1
  <2>5. CASE h.seen = h.sent
    <3>1. r = h
      BY <2>5
    <3> HIDE DEF r
    <3> QED BY <1>6, <2>1, <2>5, <3>1
  <2> QED BY <2>4, <2>5
<1>8. Sound(r) /\ Ignored(r)
  BY <1>7 DEF Sound, Ignored
<1>9. \/ shown' = shown
      \/ st.seen > st.sent /\ shown' = [shown EXCEPT ![st.card] = <<s, st.seen>>]
  <2>1. shown \in [Streamers -> (Streamers \X Versions) \cup {Thinking, Final}]
    BY DEF CardInv, TypeOK
  <2>2. h.seen # h.sent => st.seen > st.sent
    <3> HIDE DEF h
    <3> QED BY <1>4, <1>6 DEF Versions
  <2>3. flush => st.seen > st.sent /\ st.pending = st.seen
    BY <1>4 DEF Versions
  <2>4. says(first) \in {shown[st.card]} \cup
            (IF st.seen > st.sent THEN {<<s, st.seen>>} ELSE {})
    BY <2>3 DEF Shows
  <2> DEFINE x == IF h.seen # h.sent THEN Shows(says(first), <<s, h.seen>>, second)
                                     ELSE says(first)
  <2>5. x \in {shown[st.card]} \cup (IF st.seen > st.sent THEN {<<s, st.seen>>} ELSE {})
    <3> HIDE DEF h, says
    <3> QED BY <1>6, <2>2, <2>4 DEF Shows
  <2>6. shown' = [shown EXCEPT ![st.card] = x]
    BY <1>3
  <2> HIDE DEF x
  <2> QED BY <2>1, <2>5, <2>6
<1>10. streamer' = [streamer EXCEPT ![s] = r]
  BY <1>3
<1> HIDE DEF r
<1> QED BY <1>2, <1>4, <1>7, <1>8, <1>9, <1>10 DEF Advances

\* The timer's steps, and time, move their streamer forward.
LEMMA TimerAdvances ==
  ASSUME CardInv, NEW s \in Streamers, Fire(s) \/ Flush(s) \/ Age(s)
  PROVE  \E r : Advances(s, r)
<1> DEFINE st == streamer[s]
<1>1. Sound(st)
  BY StreamersSound
<1>2. streamer \in [Streamers -> Streamer]
  BY DEF CardInv, TypeOK
<1>3. ASSUME Fire(s) PROVE \E r : Advances(s, r)
  <2> DEFINE r == [st EXCEPT !.armed = FALSE, !.calls = @ + 1]
  <2>1. streamer' = [streamer EXCEPT ![s] = r] /\ shown' = shown /\ st.calls < MaxCalls
    BY <1>2, <1>3 DEF Fire
  <2>2. /\ r \in Streamer /\ ~r.armed /\ r.card = st.card /\ r.sent = st.sent
        /\ r.seen = st.seen /\ r.pending = st.pending
        /\ r.closed = st.closed /\ r.failed = st.failed
    <3>1. st.calls + 1 \in 0 .. MaxCalls
      BY <1>1, <2>1, BoundsAssumption DEF Sound, Streamer
    <3> QED BY <1>1, <3>1 DEF Sound, Streamer
  <2>3. Sound(r) /\ (Ignored(st) <=> Ignored(r))
    <3> HIDE DEF r
    <3> QED BY <1>1, <2>2 DEF Sound, Ignored
  <2> HIDE DEF r
  <2> QED BY <2>1, <2>2, <2>3 DEF Advances
<1>4. ASSUME Age(s) PROVE \E r : Advances(s, r)
  <2> DEFINE r == [st EXCEPT !.fresh = FALSE]
  <2>1. streamer' = [streamer EXCEPT ![s] = r] /\ shown' = shown
    BY <1>4 DEF Age
  <2>2. Sound(r) /\ r.card = st.card /\ r.sent = st.sent /\ Ignored(r) = Ignored(st)
    BY <1>1 DEF Sound, Streamer, Ignored
  <2> HIDE DEF r
  <2> QED BY <2>1, <2>2 DEF Advances
<1>5. ASSUME Flush(s) PROVE \E r : Advances(s, r)
  <2> DEFINE quiet == [st EXCEPT !.armed = FALSE, !.calls = @ - 1]
             again == [quiet EXCEPT !.armed = TRUE]
             sending == [quiet EXCEPT !.pending = 0]
  <2>1. /\ st.calls > 0
        /\ CASE Ignored(st) \/ st.pending \in {0, st.sent} -> Keep(s, quiet)
             [] ~Ignored(st) /\ st.pending \notin {0, st.sent} /\ st.fresh -> Keep(s, again)
             [] OTHER -> Send(s, sending, st.pending)
    BY <1>5 DEF Flush
  <2>a. /\ quiet \in Streamer /\ ~quiet.armed /\ quiet.card = st.card
        /\ quiet.sent = st.sent /\ quiet.seen = st.seen /\ quiet.pending = st.pending
        /\ quiet.failed = st.failed /\ quiet.closed = st.closed
    <3>1. st.calls - 1 \in 0 .. MaxCalls
      BY <1>1, <2>1, BoundsAssumption DEF Sound, Streamer
    <3> QED BY <1>1, <3>1 DEF Sound, Streamer
  <2>2. Sound(quiet)
    <3> HIDE DEF quiet
    <3> QED BY <1>1, <2>a DEF Sound
  <2>3. Ignored(st) <=> Ignored(quiet)
    BY <2>a DEF Ignored
  <2>4. CASE Ignored(st) \/ st.pending \in {0, st.sent}
    <3>1. Keep(s, quiet)
      BY <2>1, <2>4
    <3> HIDE DEF quiet
    <3> QED BY <3>1, <2>a, <2>2, <2>3, KeepAdvances
  <2>5. CASE ~Ignored(st) /\ st.pending \notin {0, st.sent} /\ st.fresh
    <3>1. Keep(s, again)
      BY <2>1, <2>5
    <3>2. Sound(again) /\ again.card = st.card /\ again.sent = st.sent
      <4> HIDE DEF quiet
      <4> QED BY <2>a, <2>2, <2>5 DEF Sound, Streamer, Ignored
    <3> HIDE DEF again
    <3> QED BY <2>5, <3>1, <3>2, KeepAdvances
  <2>6. CASE ~Ignored(st) /\ st.pending \notin {0, st.sent} /\ ~st.fresh
    <3>1. Send(s, sending, st.pending)
      BY <2>1, <2>6
    <3>2. /\ sending \in Streamer /\ sending.card = st.card /\ sending.sent = st.sent
          /\ sending.pending = 0 /\ sending.seen = st.pending
          /\ ~sending.closed /\ ~sending.failed
      <4> HIDE DEF quiet
      <4> QED BY <2>a, <2>2, <2>6, BoundsAssumption DEF Sound, Streamer, Ignored, Versions
    <3>3. st.pending \in Versions /\ st.pending > st.sent
      BY <1>1, <2>6 DEF Sound, Streamer, Versions
    <3> HIDE DEF sending
    <3> QED BY <2>6, <3>1, <3>2, <3>3, SendAdvances
  <2> QED BY <2>4, <2>5, <2>6
<1> QED BY <1>3, <1>4, <1>5

-----------------------------------------------------------------------------
(* The invariant *)

\* One streamer that is in use advances, and executeWithStreaming moves on with
\* the same cards and the same current streamer.
LEMMA AdvanceKeeps ==
  ASSUME CardInv, NEW s \in Streamers, s <= cur, NEW r, Advances(s, r),
         cur' = cur, cards' = cards, stopped' \in BOOLEAN,
         phase' \in {"running", "new_card", "tool_use", "reply", "done"},
         phase = "done" => phase' = "done",
         phase' = "new_card" => cur \in 1 .. MaxStreamers - 1,
         phase' = "tool_use" => cur # 0,
         phase' \in {"new_card", "reply", "done"} => (s = cur /\ Ignored(r)) \/ phase' = phase
  PROVE  CardInv'
<1>1. /\ streamer \in [Streamers -> Streamer] /\ Sound(r) /\ r.card = streamer[s].card
      /\ streamer' = [streamer EXCEPT ![s] = r]
      /\ cur \in 0 .. MaxStreamers /\ cards \in 0 .. MaxStreamers
      /\ shown \in [Streamers -> (Streamers \X Versions) \cup {Thinking, Final}]
  BY DEF CardInv, TypeOK, Advances
<1>2. \A t \in Streamers : Sound(streamer'[t])
  BY <1>1, StreamersSound
<1>3. \A t \in Streamers \ {s} : streamer'[t] = streamer[t]
  BY <1>1
<1>4. streamer'[s] = r
  BY <1>1
<1>5. shown' \in [Streamers -> (Streamers \X Versions) \cup {Thinking, Final}]
  <2>1. \A v \in Versions : <<s, v>> \in (Streamers \X Versions) \cup {Thinking, Final}
    OBVIOUS
  <2>2. CASE shown' = shown
    BY <1>1, <2>2
  <2>3. CASE \E v \in Versions : shown' = [shown EXCEPT ![r.card] = <<s, v>>]
    BY <1>1, <2>1, <2>3
  <2> QED BY <2>2, <2>3 DEF Advances
<1>6. TypeOK'
  <2>1. streamer' \in [Streamers -> Streamer]
    BY <1>1 DEF Sound
  <2> QED BY <1>1, <1>2, <1>5, <2>1 DEF TypeOK, Sound
<1>7. ClosedShowsAll' /\ HoldsTheLatest'
  BY <1>2 DEF ClosedShowsAll, HoldsTheLatest, Sound
<1>8. InOrder'
  <2>1. cards' <= cur' /\ (phase' = "start" => cur' = 0)
    BY DEF CardInv, InOrder
  <2>2. cur # 0 => cards # 0 /\ streamer'[cur].card = cards
    <3>1. cur # 0 => cur \in Streamers
      BY <1>1 DEF Streamers
    <3> QED BY <1>1, <1>3, <1>4, <3>1 DEF CardInv, InOrder
  <2>3. ASSUME NEW t \in Streamers
        PROVE  /\ t > cur' => streamer'[t] = NewStreamer(0)
               /\ t <= cur' => streamer'[t].card \in 1 .. cards'
               /\ t < cur' \/ (t = cur' /\ phase' \in {"new_card", "reply", "done"})
                    => Ignored(streamer'[t])
    <3>1. CASE t # s
      <4>1. streamer'[t] = streamer[t]
        BY <1>3, <3>1
      <4> QED BY <3>1, <4>1 DEF CardInv, InOrder
    <3>2. CASE t = s
      <4>1. ~(s > cur)
        BY <1>1 DEF Streamers
      <4>2. s < cur \/ (s = cur /\ phase' \in {"new_card", "reply", "done"}) => Ignored(r)
        BY DEF CardInv, InOrder, Advances
      <4>3. r.card \in 1 .. cards
        BY <1>1 DEF CardInv, InOrder
      <4> QED BY <1>4, <3>2, <4>1, <4>2, <4>3
    <3> QED BY <3>1, <3>2
  <2> QED BY <2>1, <2>2, <2>3 DEF InOrder
<1>9. ShowsItsStreamer'
  <2> SUFFICES ASSUME NEW c \in Streamers
               PROVE  \/ shown'[c] = Thinking
                      \/ shown'[c] = Final /\ phase' = "done"
                      \/ \E t \in 1 .. cur', v \in Versions :
                            /\ shown'[c] = <<t, v>> /\ streamer'[t].card = c
                            /\ ~Ignored(streamer'[t]) => v = streamer'[t].sent
    BY DEF ShowsItsStreamer
  <2>0. s \in 1 .. cur /\ 1 .. cur \subseteq Streamers
    BY <1>1, BoundsAssumption DEF Streamers
  <2>1. CASE shown'[c] = shown[c] /\ (c = r.card /\ ~Ignored(r) => r.sent = streamer[s].sent)
    <3>1. CASE shown[c] = Thinking \/ (shown[c] = Final /\ phase = "done")
      BY <2>1, <3>1
    <3>2. CASE \E t \in 1 .. cur, v \in Versions :
                 /\ shown[c] = <<t, v>> /\ streamer[t].card = c
                 /\ ~Ignored(streamer[t]) => v = streamer[t].sent
      <4>1. PICK t \in 1 .. cur, v \in Versions :
                 /\ shown[c] = <<t, v>> /\ streamer[t].card = c
                 /\ ~Ignored(streamer[t]) => v = streamer[t].sent
        BY <3>2
      <4>2. CASE t = s
        <5>1. streamer'[t].card = c /\ (~Ignored(r) => v = r.sent)
          BY <1>1, <1>4, <2>1, <4>1, <4>2 DEF Advances
        <5> QED BY <1>4, <2>1, <4>1, <4>2, <5>1
      <4>3. CASE t # s
        <5>1. streamer'[t] = streamer[t]
          BY <1>3, <2>0, <4>3
        <5> QED BY <2>1, <4>1, <5>1
      <4> QED BY <4>2, <4>3
    <3> QED BY <3>1, <3>2 DEF CardInv, ShowsItsStreamer
  <2>2. CASE \E v \in Versions : /\ ~Ignored(r) => v = r.sent
                                /\ c = r.card /\ shown'[c] = <<s, v>>
    BY <1>4, <2>0, <2>2
  <2>3. \/ shown' = shown /\ (~Ignored(r) => r.sent = streamer[s].sent)
        \/ \E v \in Versions : /\ ~Ignored(r) => v = r.sent
                               /\ shown' = [shown EXCEPT ![r.card] = <<s, v>>]
    BY DEF Advances
  <2> QED BY <1>1, <2>1, <2>2, <2>3
<1> QED BY <1>6, <1>7, <1>8, <1>9 DEF CardInv

\* A step that leaves the streamers, the cards and what they say alone.
LEMMA PhaseKeeps ==
  ASSUME CardInv, UNCHANGED <<streamer, shown, cur, cards>>, stopped' \in BOOLEAN,
         phase' \in {"running", "new_card", "tool_use", "reply", "done", "start"},
         phase' # phase => phase' \in {"running", "new_card", "reply"} /\ phase # "done",
         phase' = "new_card" => cur \in 1 .. MaxStreamers - 1,
         phase' \in {"new_card", "reply"} =>
             phase' = phase \/ cur = 0 \/ (cur \in Streamers /\ Ignored(streamer[cur]))
  PROVE  CardInv'
<1>1. TypeOK' /\ ClosedShowsAll' /\ HoldsTheLatest'
  BY DEF CardInv, TypeOK, ClosedShowsAll, HoldsTheLatest
<1>2. \A s \in Streamers : s # 0
  BY DEF Streamers
<1>3. InOrder'
  BY <1>2 DEF CardInv, InOrder
<1>4. ShowsItsStreamer'
  BY DEF CardInv, ShowsItsStreamer
<1> QED BY <1>1, <1>3, <1>4 DEF CardInv

\* A new streamer, for the card posted last, becomes the current one.
LEMMA NewCurrentKeeps ==
  ASSUME CardInv, NEW c \in 1 .. cur + 1, cards' = c, cards <= c,
         cur + 1 \in Streamers, cur' = cur + 1,
         streamer' = [streamer EXCEPT ![cur + 1] = NewStreamer(c)],
         shown' = shown, stopped' \in BOOLEAN,
         phase # "done", phase' \in {"running", "tool_use"},
         cur # 0 => Ignored(streamer[cur])
  PROVE  CardInv'
<1>1. /\ cur \in 0 .. MaxStreamers /\ cards \in 0 .. MaxStreamers /\ c \in 0 .. MaxStreamers
      /\ MaxStreamers \in Nat
  BY BoundsAssumption DEF CardInv, TypeOK, Streamers
<1>2. Sound(NewStreamer(c)) /\ NewStreamer(c).card = c
  BY <1>1, NewStreamerSound
<1>3. /\ streamer'[cur + 1] = NewStreamer(c)
      /\ \A t \in Streamers \ {cur + 1} : streamer'[t] = streamer[t]
      /\ streamer' \in [Streamers -> Streamer]
  BY <1>2 DEF CardInv, TypeOK, Sound
<1>4. \A t \in Streamers : Sound(streamer'[t])
  BY <1>2, <1>3, StreamersSound
<1>5. TypeOK'
  <2>1. cur' \in 0 .. MaxStreamers
    BY <1>1 DEF Streamers
  <2> QED BY <1>1, <1>3, <1>4, <2>1 DEF CardInv, TypeOK, Sound
<1>6. ClosedShowsAll' /\ HoldsTheLatest'
  BY <1>4 DEF ClosedShowsAll, HoldsTheLatest, Sound
<1>7. InOrder'
  <2>1. cards' <= cur' /\ cards' # 0 /\ streamer'[cur'].card = cards'
    BY <1>1, <1>2, <1>3
  <2>2. ASSUME NEW t \in Streamers
        PROVE  /\ t > cur' => streamer'[t] = NewStreamer(0)
               /\ t <= cur' => streamer'[t].card \in 1 .. cards'
               /\ t < cur' => Ignored(streamer'[t])
    <3>1. CASE t = cur + 1
      BY <1>1, <1>2, <1>3, <3>1
    <3>2. CASE t # cur + 1
      <4>1. streamer'[t] = streamer[t]
        BY <1>3, <3>2
      <4>2. (t > cur' => t > cur) /\ (t <= cur' => t <= cur) /\ (t < cur' => t < cur \/ t = cur)
            /\ t # 0
        BY <1>1, <3>2 DEF Streamers
      <4>3. t <= cur => streamer[t].card \in 1 .. cards
        BY DEF CardInv, InOrder
      <4>4. 1 .. cards \subseteq 1 .. c
        BY <1>1
      <4>5. t < cur => Ignored(streamer[t])
        BY DEF CardInv, InOrder
      <4>6. t > cur => streamer[t] = NewStreamer(0)
        BY DEF CardInv, InOrder
      <4> QED BY <4>1, <4>2, <4>3, <4>4, <4>5, <4>6
    <3> QED BY <3>1, <3>2
  <2> QED BY <1>1, <2>1, <2>2 DEF InOrder
<1>8. ShowsItsStreamer'
  <2>1. 1 .. cur \subseteq 1 .. cur' /\ 1 .. cur \subseteq Streamers \ {cur + 1}
    BY <1>1 DEF Streamers
  <2>2. \A t \in 1 .. cur : streamer'[t] = streamer[t]
    BY <1>3, <2>1
  <2> QED BY <2>1, <2>2 DEF CardInv, ShowsItsStreamer
<1> QED BY <1>5, <1>6, <1>7, <1>8 DEF CardInv

\* Only a streamer in use has an armed timer, a waiting callback or a fresh send.
LEMMA TimersAreInUse ==
  ASSUME CardInv, NEW s \in Streamers, Fire(s) \/ Flush(s) \/ Age(s)
  PROVE  s <= cur
<1>1. s > cur => streamer[s] = NewStreamer(0)
  BY DEF CardInv, InOrder
<1>2. streamer[s] # NewStreamer(0)
  BY DEF Fire, Flush, Age, NewStreamer
<1>3. cur \in Nat /\ s \in Nat
  BY DEF CardInv, TypeOK, Streamers
<1> QED BY <1>1, <1>2, <1>3

\* Every step keeps the streamers in order.
LEMMA NextCard == CardInv /\ [Next]_vars => CardInv'
<1> SUFFICES ASSUME CardInv, [Next]_vars PROVE CardInv'
  OBVIOUS
<1>1. /\ phase \in {"start", "running", "new_card", "tool_use", "reply", "done"}
      /\ stopped \in BOOLEAN /\ cur \in 0 .. MaxStreamers /\ cards \in 0 .. MaxStreamers
      /\ cards <= cur /\ (phase = "start" => cur = 0)
      /\ phase = "new_card" => cur \in 1 .. MaxStreamers - 1
      /\ phase = "tool_use" => cur # 0
  BY DEF CardInv, TypeOK, InOrder
<1>2. cur # 0 => cur \in Streamers
  BY <1>1 DEF Streamers
<1>3. phase \in {"new_card", "reply", "done"} /\ cur # 0 => Ignored(streamer[cur])
  BY <1>1, <1>2 DEF CardInv, InOrder
<1>4. ASSUME Start PROVE CardInv'
  <2>1. PICK posted \in PostsCard :
          /\ cards' = IF posted THEN 1 ELSE 0
          /\ cur' = cards'
          /\ streamer' = IF posted THEN [streamer EXCEPT ![1] = NewStreamer(1)] ELSE streamer
    BY <1>4 DEF Start
  <2>2. CASE posted
    <3>1. cur = 0 /\ cards = 0 /\ 1 \in Streamers
      BY <1>1, <1>4, BoundsAssumption DEF Start, Streamers
    <3> QED BY <1>1, <1>4, <2>1, <2>2, <3>1, NewCurrentKeeps DEF Start
  <2>3. CASE ~posted
    BY <1>1, <1>4, <2>1, <2>3, PhaseKeeps DEF Start
  <2> QED BY <2>2, <2>3
<1>5. ASSUME NEW kind \in Kinds, Event(kind) PROVE CardInv'
  <2>1. CASE UNCHANGED <<streamer, shown>>
    BY <1>1, <1>5, <2>1, PhaseKeeps DEF Event
  <2>2. ASSUME NEW r, Advances(cur, r) PROVE CardInv'
    BY <1>1, <1>2, <1>5, <2>2, AdvanceKeeps DEF Event
  <2> QED BY <1>2, <1>5, <2>1, <2>2, OnProgressAdvances DEF Event
<1>6. ASSUME ToolUse PROVE CardInv'
  <2>1. cur \in 1 .. MaxStreamers - 1
    BY <1>1, <1>6, BoundsAssumption DEF ToolUse
  <2>2. CASE Ignored(streamer[cur]) /\ UNCHANGED <<streamer, shown>>
    BY <1>1, <1>2, <1>6, <2>1, <2>2, PhaseKeeps DEF ToolUse
  <2>3. ASSUME NEW r, Advances(cur, r), Ignored(r) PROVE CardInv'
    BY <1>1, <1>2, <1>6, <2>1, <2>3, AdvanceKeeps DEF ToolUse
  <2> QED BY <1>2, <1>6, <2>2, <2>3, CloseAdvances DEF ToolUse
<1>7. ASSUME NewCard PROVE CardInv'
  <2>1. PICK posted \in PostsCard :
          /\ cards' = IF posted THEN cards + 1 ELSE cards
          /\ cur' = cur + 1
          /\ streamer' = [streamer EXCEPT ![cur'] = NewStreamer(cards')]
    BY <1>7 DEF NewCard
  <2>2. cur + 1 \in Streamers /\ cur # 0
    BY <1>1, <1>7, BoundsAssumption DEF NewCard, Streamers
  <2>3. cards # 0
    BY <2>2 DEF CardInv, InOrder
  <2>4. cards' \in 1 .. cur + 1 /\ cards <= cards'
    BY <1>1, <2>1, <2>3
  <2>5. streamer' = [streamer EXCEPT ![cur + 1] = NewStreamer(cards')]
    BY <2>1
  <2> QED BY <1>1, <1>3, <1>7, <2>1, <2>2, <2>4, <2>5, NewCurrentKeeps DEF NewCard
<1>8. ASSUME ShowToolUse PROVE CardInv'
  <2>1. CASE UNCHANGED <<streamer, shown>>
    BY <1>1, <1>8, <2>1, PhaseKeeps DEF ShowToolUse
  <2>2. ASSUME NEW r, Advances(cur, r) PROVE CardInv'
    BY <1>1, <1>2, <1>8, <2>2, AdvanceKeeps DEF ShowToolUse
  <2> QED BY <1>1, <1>2, <1>8, <2>1, <2>2, OnProgressAdvances DEF ShowToolUse
<1>9. ASSUME RunEnds PROVE CardInv'
  <2>1. CASE UNCHANGED <<streamer, shown>> /\ (cur = 0 \/ Ignored(streamer[cur]))
    BY <1>1, <1>2, <1>9, <2>1, PhaseKeeps DEF RunEnds
  <2>2. ASSUME cur # 0, NEW r, Advances(cur, r), Ignored(r) PROVE CardInv'
    BY <1>1, <1>2, <1>9, <2>2, AdvanceKeeps DEF RunEnds
  <2> QED BY <1>2, <1>9, <2>1, <2>2, CloseAdvances DEF RunEnds
<1>10. ASSUME Reply PROVE CardInv'
  <2>1. PICK outcome \in {"ok", "refused", "landed"} :
          shown' = IF cards = 0 THEN shown
                   ELSE [shown EXCEPT ![cards] = Shows(@, Final, outcome)]
    BY <1>10 DEF Reply
  <2>2. \A c \in Streamers : shown'[c] \in {shown[c], Final}
    BY <2>1 DEF CardInv, TypeOK, Shows
  <2>3. shown' \in [Streamers -> (Streamers \X Versions) \cup {Thinking, Final}]
    BY <2>1 DEF CardInv, TypeOK, Shows
  <2>4. TypeOK' /\ ClosedShowsAll' /\ HoldsTheLatest'
    BY <1>10, <2>3 DEF Reply, CardInv, TypeOK, ClosedShowsAll, HoldsTheLatest
  <2>5. InOrder'
    BY <1>10 DEF Reply, CardInv, InOrder
  <2>6. ShowsItsStreamer'
    BY <1>10, <2>2 DEF Reply, CardInv, ShowsItsStreamer
  <2> QED BY <2>4, <2>5, <2>6 DEF CardInv
<1>11. ASSUME Stop PROVE CardInv'
  BY <1>1, <1>11, PhaseKeeps DEF Stop
<1>12. ASSUME NEW s \in Streamers, Fire(s) \/ Flush(s) \/ Age(s) PROVE CardInv'
  <2>1. PICK r : Advances(s, r)
    BY <1>12, TimerAdvances
  <2>2. s <= cur /\ phase # "start"
    <3>1. s <= cur
      BY <1>12, TimersAreInUse
    <3> QED BY <1>1, <3>1 DEF Streamers
  <2>3. UNCHANGED <<phase, stopped, cards, cur>>
    BY <1>12 DEF Fire, Flush, Age
  <2> QED BY <1>1, <2>1, <2>2, <2>3, AdvanceKeeps
<1>13. ASSUME UNCHANGED vars PROVE CardInv'
  BY <1>1, <1>13, PhaseKeeps DEF vars
<1> QED BY <1>4, <1>5, <1>6, <1>7, <1>8, <1>9, <1>10, <1>11, <1>12, <1>13 DEF Next

\* In every reachable state the streamers of the run are in order: each streamer
\* closed without an error has shown everything it was told, those before the
\* current one send no more, and a card says what its streamer sent.
THEOREM CardInvariant == Spec => []CardInv
<1>1. Init /\ [][Next]_vars => []CardInv
  BY InitCard, NextCard, PTL
<1> QED BY <1>1, PTL DEF Spec

-----------------------------------------------------------------------------
(* What a card says *)

\* Where a card changes as a streamer advances, it says something later.
LEMMA AdvanceIsLater ==
  ASSUME CardInv, NEW s \in Streamers, s <= cur, NEW r, Advances(s, r),
         NEW c \in Streamers, shown'[c] # shown[c]
  PROVE  Later(shown'[c], shown[c])
<1>1. /\ cur \in 0 .. MaxStreamers /\ s \in Nat \ {0} /\ streamer[s].sent \in Nat
      /\ shown \in [Streamers -> (Streamers \X Versions) \cup {Thinking, Final}]
  <2>1. /\ cur \in 0 .. MaxStreamers /\ streamer \in [Streamers -> Streamer]
        /\ shown \in [Streamers -> (Streamers \X Versions) \cup {Thinking, Final}]
    BY DEF CardInv, TypeOK
  <2>2. streamer[s].sent \in Versions
    BY <2>1 DEF Streamer
  <2>3. s \in Nat \ {0} /\ Versions \subseteq Nat
    BY BoundsAssumption DEF Streamers, Versions
  <2> QED BY <2>1, <2>2, <2>3
<1>2. PICK v \in Versions :
        /\ ~Ignored(streamer[s]) /\ v > streamer[s].sent
        /\ shown' = [shown EXCEPT ![r.card] = <<s, v>>]
  BY DEF Advances
<1>3. c = r.card /\ shown'[c] = <<s, v>>
  BY <1>1, <1>2
<1>4. s = cur /\ phase # "done"
  BY <1>1, <1>2 DEF CardInv, InOrder
<1>5. CASE shown[c] = Thinking
  BY <1>1, <1>3, <1>5 DEF Later, Thinking
<1>6. CASE \E t \in 1 .. cur, w \in Versions :
             /\ shown[c] = <<t, w>> /\ streamer[t].card = c
             /\ ~Ignored(streamer[t]) => w = streamer[t].sent
  <2>1. PICK t \in 1 .. cur, w \in Versions :
             shown[c] = <<t, w>> /\ (~Ignored(streamer[t]) => w = streamer[t].sent)
    BY <1>6
  <2>2. s > t \/ (s = t /\ v > w)
    BY <1>1, <1>2, <1>4, <2>1
  <2> QED BY <1>3, <2>1, <2>2 DEF Later
<1> QED BY <1>4, <1>5, <1>6 DEF CardInv, ShowsItsStreamer

\* Where a step changes what a card says, the card says something later.
LEMMA StepIsLater ==
  ASSUME CardInv, [Next]_vars, NEW c \in Streamers, shown'[c] # shown[c]
  PROVE  Later(shown'[c], shown[c])
<1>1. cur # 0 => cur \in Streamers /\ cur <= cur
  BY DEF CardInv, TypeOK, Streamers
<1>2. ASSUME NEW r, NEW s \in Streamers, s <= cur, Advances(s, r)
      PROVE  Later(shown'[c], shown[c])
  BY <1>2, AdvanceIsLater
<1>3. ASSUME cur # 0, NEW kind, OnProgress(cur, kind) PROVE Later(shown'[c], shown[c])
  BY <1>1, <1>2, <1>3, OnProgressAdvances
<1>4. ASSUME cur # 0, Close(cur) PROVE Later(shown'[c], shown[c])
  BY <1>1, <1>2, <1>4, CloseAdvances
<1>5. ASSUME NEW kind \in Kinds, Event(kind) PROVE Later(shown'[c], shown[c])
  BY <1>3, <1>5 DEF Event
<1>6. ASSUME ToolUse PROVE Later(shown'[c], shown[c])
  BY <1>4, <1>6 DEF ToolUse
<1>7. ASSUME ShowToolUse PROVE Later(shown'[c], shown[c])
  <2>1. cur # 0
    BY <1>7 DEF ShowToolUse, CardInv, InOrder
  <2> QED BY <1>3, <1>7, <2>1 DEF ShowToolUse
<1>8. ASSUME RunEnds PROVE Later(shown'[c], shown[c])
  BY <1>4, <1>8 DEF RunEnds
<1>9. ASSUME NEW s \in Streamers, Fire(s) \/ Flush(s) \/ Age(s)
      PROVE  Later(shown'[c], shown[c])
  BY <1>2, <1>9, TimerAdvances, TimersAreInUse
<1>10. ASSUME Reply PROVE Later(shown'[c], shown[c])
  <2>1. shown'[c] = Final /\ phase # "done"
    BY <1>10 DEF Reply, Shows, CardInv, TypeOK
  <2>2. shown[c] # Final
    BY <2>1
  <2>3. MaxStreamers \in Nat
    BY BoundsAssumption
  <2>4. CASE shown[c] = Thinking
    BY <2>1, <2>3, <2>4 DEF Later, Thinking, Final
  <2>5. CASE \E t \in 1 .. cur, w \in Versions : shown[c] = <<t, w>>
    <3>1. PICK t \in 1 .. cur, w \in Versions : shown[c] = <<t, w>>
      BY <2>5
    <3>2. MaxStreamers + 1 > t
      BY <2>3 DEF CardInv, TypeOK
    <3> QED BY <2>1, <3>1, <3>2 DEF Later, Final
  <2> QED BY <2>2, <2>4, <2>5 DEF CardInv, ShowsItsStreamer
<1>11. ASSUME Start \/ NewCard \/ Stop \/ UNCHANGED vars PROVE FALSE
  BY <1>11 DEF Start, NewCard, Stop, vars
<1> QED BY <1>5, <1>6, <1>7, <1>8, <1>9, <1>10, <1>11 DEF Next

\* What a card says never goes back: not to an older render of its streamer, not
\* from a later streamer to an earlier one, not from the reply to any progress,
\* for any number of streamers, renders and waiting timer callbacks.
THEOREM CardNeverGoesBackHolds == Spec => CardNeverGoesBack
<1>1. CardInv /\ [Next]_vars
        => [\A c \in Streamers : shown'[c] # shown[c] => Later(shown'[c], shown[c])]_vars
  BY StepIsLater
<1> QED BY <1>1, CardInvariant, PTL DEF Spec, CardNeverGoesBack
=============================================================================
