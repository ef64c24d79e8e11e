---------------------- MODULE HeartbeatServiceProofs ----------------------
(* Proofs about HeartbeatService, for any apps, bounds and edits: however     *)
(* often the heartbeat is restarted, an app has one live loop at most, the    *)
(* loops are those the configuration asks for, and no session row outlives    *)
(* its run.                                                                   *)
EXTENDS HeartbeatService, TLAPS

LoopState ==
    [pc : {"gone", "ticker", "run", "execute", "notify", "archive", "select"},
     cancelled : BOOLEAN, run : 0 .. MaxRuns]

\* What the assumptions say of the bounds.
LEMMA BoundFacts ==
  /\ MaxLoops \in Nat /\ MaxLoops > 0 /\ MaxRuns \in Nat /\ MaxRuns > 0
  /\ MaxEdits \in Nat /\ MaxCommands \in Nat /\ MaxFaults \in Nat /\ MaxCrashes \in Nat
BY BoundsAssumption

\* A loop that is not there is one in the state "gone".
LEMMA NoLoopType == NoLoop \in LoopState
BY BoundFacts DEF NoLoop, LoopState

\* The initial state satisfies the invariant.
LEMMA InitLoops == Init => LoopsInv
<1> SUFFICES ASSUME Init PROVE LoopsInv
  OBVIOUS
<1>1. /\ file \in Content \cup {Blank} /\ event \in BOOLEAN
      /\ watcher \in {"idle", "stop", "start"}
      /\ phase \in {"down", "start", "register", "up"}
      /\ cfg \in Configs \cup {Default}
      /\ writer \in [Writer -> {Idle} \cup Writing]
      /\ notified \subseteq {"chat", "every private chat"}
  BY DEF Init
<1>2. mode \in [App -> Modes]
  BY DEF Init, Content
<1>3. filed \in [App -> 0 .. MaxLoops]
  BY BoundFacts DEF Init
<1>4. loop \in [App -> [Loops -> LoopState]]
  BY NoLoopType DEF Init
<1>5. /\ row \in [Runs -> {"none", "active", "archived"}]
      /\ runs \in 0 .. MaxRuns /\ \A r \in Runs : row[r] # "none" => r <= runs
  BY BoundFacts DEF Init
<1>6. budget \in [{"edits", "commands", "faults", "crashes"} -> Nat]
  BY BoundFacts DEF Init
<1>7. OneLiveLoop
  BY DEF Init, OneLiveLoop, NoLoop
<1> QED
  BY <1>1, <1>2, <1>3, <1>4, <1>5, <1>6, <1>7 DEF LoopsInv, TypeOK, LoopState

-----------------------------------------------------------------------------
(* Start, Stop and the loops *)

\* The loops and their table, which is all that OneLiveLoop speaks of.
LoopsType ==
    /\ filed \in [App -> 0 .. MaxLoops]
    /\ loop \in [App -> [Loops -> LoopState]]

\* The type of the loops is part of the type invariant ...
LEMMA TypeGivesLoops == TypeOK => LoopsType
BY DEF TypeOK, LoopsType, LoopState

\* Start begins a loop only for an app whose entry is empty, and all loops of such an
\* app are cancelled or gone.
LEMMA StartKeepsOne ==
  ASSUME LoopsType, OneLiveLoop, StartLoops
  PROVE  LoopsType' /\ OneLiveLoop'
<1> USE DEF LoopsType, OneLiveLoop
<1>1. CASE UNCHANGED loopVars
  BY <1>1 DEF loopVars
<1>2. CASE ShouldEnable(cfg)
  <2> DEFINE new == {p \in App : filed[p] = 0}
  <2>1. PICK pick \in [App -> Loops] :
          /\ \A p \in App \ new : pick[p] = filed[p]
          /\ filed' = pick
          /\ loop' = [p \in App |-> IF p \in new
                          THEN [loop[p] EXCEPT ![pick[p]].pc = "ticker"]
                          ELSE loop[p]]
    BY <1>2 DEF StartLoops
  <2> HIDE DEF new
  <2>2. filed' \in [App -> 0 .. MaxLoops]
    BY <2>1, BoundFacts DEF Loops
  <2>3. \A p \in App, l \in Loops :
          [loop[p] EXCEPT ![l].pc = "ticker"] \in [Loops -> LoopState]
    <3>1. \A st \in LoopState : [st EXCEPT !.pc = "ticker"] \in LoopState
      BY DEF LoopState
    <3> QED BY <3>1
  <2>4. loop' \in [App -> [Loops -> LoopState]]
    BY <2>1, <2>3
  <2>5. ASSUME NEW p \in App, NEW l \in Loops, loop'[p][l].pc # "gone",
               ~loop'[p][l].cancelled
        PROVE  filed'[p] = l
    <3>1. CASE p \notin new
      BY <2>1, <2>5, <3>1
    <3>2. CASE p \in new
      <4>1. loop'[p] = [loop[p] EXCEPT ![pick[p]].pc = "ticker"]
        BY <2>1, <3>2
      <4>2. CASE l = pick[p]
        BY <2>1, <4>2
      <4>3. CASE l # pick[p]
        <5>1. loop'[p][l] = loop[p][l]
          BY <4>1, <4>3
        <5>2. filed[p] = l /\ filed[p] = 0
          BY <2>5, <3>2, <5>1 DEF new
        <5> QED BY <5>2, BoundFacts DEF Loops
      <4> QED BY <4>2, <4>3
    <3> QED BY <3>1, <3>2
  <2> QED BY <2>2, <2>4, <2>5
<1> QED BY <1>1, <1>2 DEF StartLoops

\* Stop cancels every live loop, as each is in the table, and empties the table.
LEMMA StopKeepsOne ==
  ASSUME LoopsType, OneLiveLoop, StopLoops
  PROVE  LoopsType' /\ OneLiveLoop'
<1> USE DEF LoopsType, OneLiveLoop
<1>1. filed' \in [App -> 0 .. MaxLoops]
  BY BoundFacts DEF StopLoops
<1> DEFINE C(p, l) == loop[p][l].cancelled \/ filed[p] = l
<1>2. loop' = [p \in App |-> [l \in Loops |-> [loop[p][l] EXCEPT !.cancelled = C(p, l)]]]
  BY DEF StopLoops
<1>3. \A p \in App, l \in Loops :
        /\ C(p, l) \in BOOLEAN
        /\ loop[p][l].pc # "gone" => C(p, l)
  BY DEF LoopState
<1> HIDE DEF C
<1>4. \A st \in LoopState, b \in BOOLEAN :
        /\ [st EXCEPT !.cancelled = b] \in LoopState
        /\ [st EXCEPT !.cancelled = b].pc = st.pc
        /\ [st EXCEPT !.cancelled = b].cancelled = b
  BY DEF LoopState
<1>5. loop' \in [App -> [Loops -> LoopState]]
  BY <1>2, <1>3, <1>4
<1>6. ASSUME NEW p \in App, NEW l \in Loops, loop'[p][l].pc # "gone"
      PROVE  loop'[p][l].cancelled
  <2>1. loop[p][l] \in LoopState /\ C(p, l) \in BOOLEAN
    BY <1>3
  <2>2. loop'[p][l] = [loop[p][l] EXCEPT !.cancelled = C(p, l)]
    BY <1>2
  <2>3. loop'[p][l].pc = loop[p][l].pc /\ loop'[p][l].cancelled = C(p, l)
    BY <1>4, <2>1, <2>2
  <2> QED BY <1>3, <1>6, <2>3
<1> QED BY <1>1, <1>5, <1>6

\* A step of one loop that leaves the table and every other loop alone.
LEMMA LoopKeepsOne ==
  ASSUME LoopsType, OneLiveLoop, NEW p \in App, NEW l \in Loops, NEW st \in LoopState,
         filed' = filed, loop' = [loop EXCEPT ![p][l] = st],
         st.pc # "gone" => loop[p][l].pc # "gone" /\ st.cancelled = loop[p][l].cancelled
  PROVE  LoopsType' /\ OneLiveLoop'
<1> USE DEF LoopsType, OneLiveLoop
<1>1. loop' \in [App -> [Loops -> LoopState]]
  OBVIOUS
<1>2. \A q \in App, k \in Loops : loop'[q][k] = IF q = p /\ k = l THEN st ELSE loop[q][k]
  OBVIOUS
<1> QED BY <1>1, <1>2

\* What a step of a loop makes of it.
LEMMA LoopStep ==
  ASSUME TypeOK, OneLiveLoop, NEW p \in App, NEW l \in Loops,
         RunStep(p, l) \/ Tick(p, l) \/ Leave(p, l)
  PROVE  LoopsType' /\ OneLiveLoop'
<1> USE DEF Rest, At
<1>0. LoopsType /\ loop[p][l] \in LoopState /\ runs \in 0 .. MaxRuns
  <2>1. LoopsType
    BY TypeGivesLoops
  <2>2. loop[p][l] \in LoopState
    BY <2>1 DEF LoopsType
  <2> QED BY <2>1, <2>2 DEF TypeOK
<1>1. ASSUME NEW pc \in {"run", "execute", "notify", "archive", "select"},
             Goes(p, l, pc), filed' = filed, loop[p][l].pc # "gone"
      PROVE  LoopsType' /\ OneLiveLoop'
  <2>1. [loop[p][l] EXCEPT !.pc = pc] \in LoopState
    BY <1>0 DEF LoopState
  <2>2. loop' = [loop EXCEPT ![p][l] = [loop[p][l] EXCEPT !.pc = pc]]
    BY <1>1 DEF Goes
  <2>3. [loop[p][l] EXCEPT !.pc = pc].cancelled = loop[p][l].cancelled
    BY <1>0 DEF LoopState
  <2> QED BY <1>0, <1>1, <2>1, <2>2, <2>3, LoopKeepsOne
<1>2. ASSUME NEW pc \in {"execute", "select"}, NEW r \in 0 .. MaxRuns,
             loop' = [loop EXCEPT ![p][l].pc = pc, ![p][l].run = r], filed' = filed,
             loop[p][l].pc # "gone"
      PROVE  LoopsType' /\ OneLiveLoop'
  <2> DEFINE st == [loop[p][l] EXCEPT !.pc = pc, !.run = r]
  <2>1. st \in LoopState /\ st.cancelled = loop[p][l].cancelled
    BY <1>0 DEF LoopState
  <2>2. loop' = [loop EXCEPT ![p][l] = st]
    BY <1>0, <1>2 DEF LoopsType, LoopState
  <2> HIDE DEF st
  <2> QED BY <1>0, <1>2, <2>1, <2>2, LoopKeepsOne
<1>3. CASE MakeTicker(p, l)
  <2>1. CASE Down
    <3>1. filed' \in [App -> 0 .. MaxLoops] /\ loop' \in [App -> [Loops -> LoopState]]
      BY <2>1, BoundFacts, NoLoopType DEF Down
    <3>2. \A q \in App, k \in Loops : loop'[q][k].pc = "gone"
      BY <2>1 DEF Down, NoLoop
    <3> QED BY <3>1, <3>2 DEF LoopsType, OneLiveLoop
  <2> QED BY <1>1, <1>3, <2>1 DEF MakeTicker
<1>4. CASE Skip(p, l) \/ Executed(p, l) \/ Notify(p, l) \/ Tick(p, l)
  BY <1>1, <1>4 DEF Skip, Executed, Notify, Tick
<1>5. CASE Run(p, l)
  <2>1. runs' \in 0 .. MaxRuns
    BY <1>0, <1>5, BoundFacts DEF Run
  <2> QED BY <1>2, <1>5, <2>1 DEF Run
<1>6. CASE Archive(p, l)
  <2>1. /\ loop[p][l].pc = "archive" /\ filed' = filed
        /\ loop' = [loop EXCEPT ![p][l].pc = "select", ![p][l].run = 0]
    BY <1>6 DEF Archive
  <2>2. 0 \in 0 .. MaxRuns
    BY BoundFacts
  <2> QED BY <1>2, <2>1, <2>2
<1>7. CASE Leave(p, l)
  BY <1>0, <1>7, NoLoopType, LoopKeepsOne DEF Leave, NoLoop
<1> QED BY <1>3, <1>4, <1>5, <1>6, <1>7 DEF RunStep

-----------------------------------------------------------------------------
(* The types of the rest *)

\* What an operation takes from the budget leaves it a budget.
LEMMA SpendType ==
  ASSUME TypeOK, NEW what \in {"edits", "commands", "faults", "crashes"}, Spend(what)
  PROVE  budget' \in [{"edits", "commands", "faults", "crashes"} -> Nat]
<1>1. budget \in [{"edits", "commands", "faults", "crashes"} -> Nat]
  BY DEF TypeOK
<1>2. budget[what] \in Nat /\ budget[what] > 0
  BY <1>1 DEF Spend
<1>3. budget[what] - 1 \in Nat
  BY <1>2
<1> QED BY <1>1, <1>3 DEF Spend

\* The configuration that the watcher reads has its type.
LEMMA ReadType == ASSUME TypeOK PROVE Read \in Configs \cup {Default}
<1>1. CASE file = Blank
  BY <1>1 DEF Read
<1>2. CASE file # Blank
  <2>1. file \in Content
    BY <1>2 DEF TypeOK
  <2> QED BY <1>2, <2>1 DEF Read, Content
<1> QED BY <1>1, <1>2

\* All variables but the loops and their table.
OtherTypes ==
    /\ file \in Content \cup {Blank}
    /\ event \in BOOLEAN
    /\ watcher \in {"idle", "stop", "start"}
    /\ phase \in {"down", "start", "register", "up"}
    /\ cfg \in Configs \cup {Default}
    /\ mode \in [App -> Modes]
    /\ writer \in [Writer -> {Idle} \cup Writing]
    /\ row \in [Runs -> {"none", "active", "archived"}]
    /\ runs \in 0 .. MaxRuns
    /\ \A r \in Runs : row[r] # "none" => r <= runs
    /\ notified \subseteq {"chat", "every private chat"}
    /\ budget \in [{"edits", "commands", "faults", "crashes"} -> Nat]

\* ... and the type invariant is that of the loops and that of the rest.
LEMMA TypeSplits == TypeOK <=> LoopsType /\ OtherTypes
BY DEF TypeOK, LoopsType, LoopState, OtherTypes

\* A step of a loop keeps the other types: it counts its run and writes its row.
LEMMA LoopStepOthers ==
  ASSUME TypeOK, NEW p \in App, NEW l \in Loops, RunStep(p, l) \/ Tick(p, l) \/ Leave(p, l)
  PROVE  OtherTypes'
<1> USE DEF OtherTypes, Rest, fileVars, runVars
<1>0. OtherTypes
  BY TypeSplits
<1>1. CASE MakeTicker(p, l)
  BY <1>0, <1>1 DEF MakeTicker, Down
<1>2. CASE Skip(p, l) \/ Executed(p, l) \/ Tick(p, l) \/ Leave(p, l)
  BY <1>0, <1>2 DEF Skip, Executed, Tick, Leave
<1>3. CASE Run(p, l)
  <2>1. /\ runs \in 0 .. MaxRuns /\ runs < MaxRuns /\ runs' = runs + 1
        /\ row' = [row EXCEPT ![runs'] = "active"] \/ row' = row
        /\ row \in [Runs -> {"none", "active", "archived"}]
        /\ \A r \in Runs : row[r] # "none" => r <= runs
    BY <1>0, <1>3 DEF Run
  <2> HIDE DEF OtherTypes
  <2>2. runs' \in Runs /\ runs' \in 0 .. MaxRuns
    BY <2>1, BoundFacts DEF Runs
  <2>3. row' \in [Runs -> {"none", "active", "archived"}]
    BY <2>1, <2>2
  <2>4. \A r \in Runs : row'[r] # "none" => r <= runs'
    <3> SUFFICES ASSUME NEW r \in Runs, row'[r] # "none" PROVE r <= runs'
      OBVIOUS
    <3>1. CASE r = runs'
      BY <2>2, <3>1 DEF Runs
    <3>2. CASE r # runs'
      <4>1. row[r] # "none"
        BY <2>1, <3>2
      <4>2. r \in Nat /\ r <= runs
        BY <2>1, <4>1, BoundFacts DEF Runs
      <4> QED BY <2>1, <4>2, BoundFacts
    <3> QED BY <3>1, <3>2
  <2>5. budget' \in [{"edits", "commands", "faults", "crashes"} -> Nat]
    BY <1>0, <1>3, SpendType DEF Run, Fault, OtherTypes
  <2> QED BY <1>0, <1>3, <2>1, <2>2, <2>3, <2>4, <2>5 DEF Run, OtherTypes
<1>4. CASE Notify(p, l)
  <2>1. Receiver \in {"chat", "every private chat"}
    <3>1. cfg.target \in Targets
      <4>1. Configs \subseteq Heartbeat /\ cfg \in Configs \cup {Default}
        BY <1>0, ConfigsAssumption
      <4>2. CASE cfg \in Configs
        BY <4>1, <4>2 DEF Heartbeat
      <4>3. CASE cfg = Default
        BY <4>3 DEF Default, Targets
      <4> QED BY <4>1, <4>2, <4>3
    <3> QED BY <3>1 DEF Receiver, Targets
  <2> QED BY <1>0, <1>4, <2>1 DEF Notify
<1>5. CASE Archive(p, l)
  <2> DEFINE r == loop[p][l].run
  <2>1. \/ row' = [row EXCEPT ![r] = IF row[r] = "active" THEN "archived" ELSE row[r]]
        \/ row' = row
    BY <1>5 DEF Archive
  <2> HIDE DEF r
  <2>2. row' \in [Runs -> {"none", "active", "archived"}]
    BY <1>0, <2>1
  <2>3. \A q \in Runs : row'[q] # "none" => row[q] # "none"
    BY <1>0, <2>1
  <2>4. budget' \in [{"edits", "commands", "faults", "crashes"} -> Nat]
    BY <1>0, <1>5, SpendType DEF Archive, Fault
  <2> QED BY <1>0, <1>5, <2>2, <2>3, <2>4 DEF Archive
<1> QED BY <1>1, <1>2, <1>3, <1>4, <1>5 DEF RunStep

\* The server, the watcher and the writers of config.yaml keep the other types.
LEMMA ServerOthers ==
  ASSUME TypeOK, Boot \/ Start \/ Register \/ Crash \/ Watch
  PROVE  OtherTypes'
<1> USE DEF OtherTypes, fileVars, runVars
<1>0. OtherTypes
  BY TypeSplits
<1>1. CASE Boot
  <2>1. file \in Content
    BY <1>0, <1>1 DEF Boot
  <2>2. cfg' \in Configs \cup {Default} /\ mode' \in [App -> Modes]
    BY <1>1, <2>1 DEF Boot, Content
  <2>3. /\ row' \in [Runs -> {"none", "active", "archived"}]
        /\ \A r \in Runs : row'[r] # "none" => row[r] # "none"
    BY <1>0, <1>1 DEF Boot
  <2>4. budget' \in [{"edits", "commands", "faults", "crashes"} -> Nat]
    BY <1>0, <1>1, SpendType DEF Boot, Fault
  <2> QED BY <1>0, <1>1, <2>2, <2>3, <2>4 DEF Boot
<1>2. CASE Start
  BY <1>0, <1>2 DEF Start
<1>3. CASE Register
  BY <1>0, <1>3 DEF Register
<1>4. CASE Crash
  BY <1>0, <1>4, SpendType DEF Crash, Down
<1>5. CASE Reload
  BY <1>0, <1>5, ReadType DEF Reload
<1>6. CASE RestartStop \/ RestartStart
  BY <1>0, <1>6 DEF RestartStop, RestartStart
<1> QED BY <1>1, <1>2, <1>3, <1>4, <1>5, <1>6 DEF Watch

\* No command in progress is one that has ended.
LEMMA IdlePc == Idle.pc = "idle"
BY DEF Idle

\* The operator and the /mode commands keep the other types.
LEMMA WriterOthers ==
  ASSUME TypeOK, Edit \/ \E w \in Writer : Command(w) \/ Truncate(w) \/ Fill(w)
  PROVE  OtherTypes'
<1> USE DEF OtherTypes, runVars
<1>0. OtherTypes
  BY TypeSplits
<1>1. CASE Edit
  <2>1. PICK hb \in Configs : file' = IF file = Blank THEN [hb |-> hb, mode |-> mode]
                                      ELSE [file EXCEPT !.hb = hb]
    BY <1>1 DEF Edit
  <2>2. file' \in Content
    BY <1>0, <2>1 DEF Content
  <2>3. budget' \in [{"edits", "commands", "faults", "crashes"} -> Nat]
    BY <1>1, SpendType DEF Edit
  <2> QED BY <1>0, <1>1, <2>2, <2>3 DEF Edit
<1>2. ASSUME NEW w \in Writer, Command(w) PROVE OtherTypes'
  <2>1. budget' \in [{"edits", "commands", "faults", "crashes"} -> Nat]
    BY <1>2, SpendType DEF Command
  <2>2. PICK p \in App, m \in Modes :
          writer' = [writer EXCEPT ![w] =
              IF file = Blank THEN Idle
              ELSE [pc |-> "truncate", app |-> p, content |-> [file EXCEPT !.mode[p] = m]]]
    BY <1>2 DEF Command
  <2>3. file # Blank => [file EXCEPT !.mode[p] = m] \in Content
    BY <1>0 DEF Content
  <2>4. writer' \in [Writer -> {Idle} \cup Writing]
    <3>1. CASE file = Blank
      BY <1>0, <2>2, <3>1
    <3>2. CASE file # Blank
      <4>1. [pc |-> "truncate", app |-> p, content |-> [file EXCEPT !.mode[p] = m]] \in Writing
        BY <2>3, <3>2 DEF Writing
      <4> QED BY <1>0, <2>2, <3>2, <4>1
    <3> QED BY <3>1, <3>2
  <2> QED BY <1>0, <1>2, <2>1, <2>4 DEF Command, fileVars
<1>3. ASSUME NEW w \in Writer, Truncate(w) PROVE OtherTypes'
  <2>1. [writer[w] EXCEPT !.pc = "fill"] \in Writing
    <3>1. writer[w] \in {Idle} \cup Writing /\ writer[w].pc = "truncate"
      BY <1>0, <1>3 DEF Truncate
    <3>2. writer[w] \in Writing
      BY <3>1, IdlePc
    <3> QED BY <3>2 DEF Writing
  <2>2. writer' \in [Writer -> {Idle} \cup Writing]
    <3>1. \/ writer' = [writer EXCEPT ![w] = [writer[w] EXCEPT !.pc = "fill"]]
          \/ writer' = [writer EXCEPT ![w] = Idle]
      BY <1>3 DEF Truncate
    <3> QED BY <1>0, <2>1, <3>1
  <2>3. budget' \in [{"edits", "commands", "faults", "crashes"} -> Nat]
    BY <1>0, <1>3, SpendType DEF Truncate, Fault
  <2>4. file' \in Content \cup {Blank} /\ event' \in BOOLEAN
    <3>1. (file' = Blank /\ event' = TRUE) \/ (file' = file /\ event' = event)
      BY <1>3 DEF Truncate, fileVars
    <3> QED BY <1>0, <3>1
  <2> QED BY <1>0, <1>3, <2>2, <2>3, <2>4 DEF Truncate
<1>4. ASSUME NEW w \in Writer, Fill(w) PROVE OtherTypes'
  <2>1. writer[w].content \in Content /\ writer[w].app \in App
    <3>1. writer[w] \in {Idle} \cup Writing /\ writer[w].pc = "fill"
      BY <1>0, <1>4 DEF Fill
    <3>2. writer[w] \in Writing
      BY <3>1, IdlePc
    <3> QED BY <3>2 DEF Writing
  <2>2. file' \in Content \cup {Blank} /\ mode' \in [App -> Modes] /\ event' \in BOOLEAN
    <3> DEFINE Filled == /\ file' = writer[w].content /\ event' = TRUE
                         /\ mode' = [mode EXCEPT ![writer[w].app] =
                                        file'.mode[writer[w].app]]
    <3>0. Filled \/ (file' = file /\ event' = event /\ mode' = mode)
      BY <1>4 DEF Fill, fileVars
    <3>1. CASE file' = file /\ event' = event /\ mode' = mode
      BY <1>0, <3>1
    <3>2. CASE Filled
      <4>1. /\ file' = writer[w].content /\ event' = TRUE
            /\ mode' = [mode EXCEPT ![writer[w].app] = file'.mode[writer[w].app]]
        BY <3>2
      <4>2. file'.mode[writer[w].app] \in Modes
        BY <2>1, <4>1 DEF Content
      <4> QED BY <1>0, <2>1, <4>1, <4>2
    <3> QED BY <3>0, <3>1, <3>2
  <2>3. budget' \in [{"edits", "commands", "faults", "crashes"} -> Nat]
    BY <1>0, <1>4, SpendType DEF Fill, Fault
  <2>4. writer' \in [Writer -> {Idle} \cup Writing]
    BY <1>0, <1>4 DEF Fill
  <2> QED BY <1>0, <1>4, <2>2, <2>3, <2>4 DEF Fill
<1> QED BY <1>1, <1>2, <1>3, <1>4

-----------------------------------------------------------------------------
(* The invariant *)

\* Steps that leave the loops and their table alone.
LEMMA LoopsUntouched ==
  ASSUME LoopsType, OneLiveLoop, UNCHANGED loopVars
  PROVE  LoopsType' /\ OneLiveLoop'
BY DEF LoopsType, OneLiveLoop, loopVars

\* The end of the process ends every loop.
LEMMA CrashKeepsOne ==
  ASSUME Crash PROVE LoopsType' /\ OneLiveLoop'
<1>1. filed' \in [App -> 0 .. MaxLoops] /\ loop' \in [App -> [Loops -> LoopState]]
  BY BoundFacts, NoLoopType DEF Crash, Down
<1>2. \A q \in App, k \in Loops : loop'[q][k].pc = "gone"
  BY DEF Crash, Down, NoLoop
<1> QED BY <1>1, <1>2 DEF LoopsType, OneLiveLoop

\* Every step keeps the invariant.
LEMMA NextLoops == LoopsInv /\ [Next]_vars => LoopsInv'
<1> SUFFICES ASSUME TypeOK, OneLiveLoop, [Next]_vars
             PROVE  (LoopsType' /\ OneLiveLoop') /\ OtherTypes'
  BY TypeSplits, PTL DEF LoopsInv
<1>0. LoopsType /\ OtherTypes
  BY TypeSplits
<1>1. CASE Boot \/ Start \/ Register \/ Crash \/ Watch
  <2>1. OtherTypes'
    BY <1>1, ServerOthers
  <2>2. CASE Boot \/ Register \/ Reload
    <3>1. UNCHANGED loopVars
      BY <2>2 DEF Boot, Register, Reload
    <3> QED BY <1>0, <2>1, <3>1, LoopsUntouched
  <2>3. CASE Start \/ RestartStart
    <3>1. StartLoops
      BY <2>3 DEF Start, RestartStart
    <3> QED BY <1>0, <2>1, <3>1, StartKeepsOne
  <2>4. CASE RestartStop
    <3>1. StopLoops
      BY <2>4 DEF RestartStop
    <3> QED BY <1>0, <2>1, <3>1, StopKeepsOne
  <2>5. CASE Crash
    BY <2>1, <2>5, CrashKeepsOne
  <2> QED BY <1>1, <2>2, <2>3, <2>4, <2>5 DEF Watch
<1>2. CASE Edit \/ \E w \in Writer : Command(w) \/ Truncate(w) \/ Fill(w)
  <2>1. OtherTypes'
    BY <1>2, WriterOthers
  <2>2. UNCHANGED loopVars
    BY <1>2 DEF Edit, Command, Truncate, Fill
  <2> QED BY <1>0, <2>1, <2>2, LoopsUntouched
<1>3. ASSUME NEW p \in App, NEW l \in Loops, RunStep(p, l) \/ Tick(p, l) \/ Leave(p, l)
      PROVE  (LoopsType' /\ OneLiveLoop') /\ OtherTypes'
  BY <1>3, LoopStep, LoopStepOthers
<1>4. CASE UNCHANGED vars
  <2>1. UNCHANGED loopVars
    BY <1>4 DEF vars, loopVars
  <2>2. OtherTypes'
    BY <1>0, <1>4 DEF vars, OtherTypes
  <2> QED BY <1>0, <2>1, <2>2, LoopsUntouched
<1> QED BY <1>1, <1>2, <1>3, <1>4 DEF Next

\* However often the heartbeat is restarted (Restart, Stop, Start of
\* heartbeat/service.go), an app has at most one loop that goes on, and it is the
\* one in the table, so that the next Stop reaches it.
THEOREM LoopsInvariant == Spec => []LoopsInv
<1>1. Init => LoopsInv
  BY InitLoops
<1>2. LoopsInv /\ [Next]_vars => LoopsInv'
  BY NextLoops
<1> QED BY <1>1, <1>2, PTL DEF Spec

-----------------------------------------------------------------------------
(* The loops follow the configuration *)

\* No loop number is 0, the entry of an app without a loop.
LEMMA StartFills ==
  ASSUME LoopsType, StartLoops, \A p \in App : filed[p] = 0
  PROVE  \A p \in App : filed'[p] # 0 <=> ShouldEnable(cfg)
<1>1. CASE ~ShouldEnable(cfg)
  BY <1>1 DEF StartLoops, loopVars
<1>2. CASE ShouldEnable(cfg)
  <2>1. PICK pick \in [App -> Loops] : filed' = pick
    BY <1>2 DEF StartLoops
  <2> QED BY <1>2, <2>1, BoundFacts DEF Loops
<1> QED BY <1>1, <1>2

\* The steps of the server and of the watcher fill and empty the table in turn.
LEMMA ServerFollows ==
  ASSUME LoopsInv, FollowInv, Boot \/ Start \/ Register \/ Crash \/ Watch
  PROVE  FollowInv'
<1>1. CASE Boot
  BY <1>1 DEF Boot, FollowInv, fileVars, loopVars
<1>2. CASE Start
  <2>1. \A p \in App : filed'[p] # 0 <=> ShouldEnable(cfg)
    BY <1>2, StartFills, TypeGivesLoops DEF Start, FollowInv, LoopsInv
  <2>2. phase = "start" /\ phase' = "register" /\ UNCHANGED <<fileVars, watcher, cfg, writer>>
    BY <1>2 DEF Start
  <2> QED BY <2>1, <2>2 DEF FollowInv, fileVars, ShouldEnable
<1>3. CASE Register
  BY <1>3 DEF Register, FollowInv, fileVars, loopVars, ShouldEnable
<1>4. CASE Crash
  BY <1>4, IdlePc DEF Crash, Down, FollowInv
<1>5. CASE Reload
  <2>1. phase = "up" /\ watcher = "idle" /\ filed' = filed /\ phase' = phase
    BY <1>5 DEF Reload, FollowInv, loopVars
  <2>2. CASE watcher' = "stop"
    BY <2>1, <2>2 DEF FollowInv
  <2>3. CASE watcher' # "stop"
    <3>1. watcher' = "idle" /\ cfg' = cfg
      BY <1>5, <2>1, <2>3 DEF Reload
    <3> QED BY <2>1, <3>1 DEF FollowInv, ShouldEnable
  <2> QED BY <2>2, <2>3
<1>6. CASE RestartStop
  BY <1>6 DEF RestartStop, StopLoops, FollowInv
<1>7. CASE RestartStart
  <2>1. \A p \in App : filed'[p] # 0 <=> ShouldEnable(cfg)
    BY <1>7, StartFills, TypeGivesLoops DEF RestartStart, FollowInv, LoopsInv
  <2>2. phase = "up" /\ phase' = "up" /\ watcher' = "idle" /\ cfg' = cfg
    BY <1>7 DEF RestartStart, FollowInv
  <2> QED BY <2>1, <2>2 DEF FollowInv, ShouldEnable
<1> QED BY <1>1, <1>2, <1>3, <1>4, <1>5, <1>6, <1>7 DEF Watch

\* Writing the file disturbs nothing before the watcher has read it, as nobody
\* writes it between Load and the registration of the callback.
LEMMA WriterFollows ==
  ASSUME TypeOK, FollowInv, EditPhases \cap {"start", "register"} = {},
         Edit \/ \E w \in Writer : Command(w) \/ Truncate(w) \/ Fill(w)
  PROVE  FollowInv'
<1>1. CASE Edit
  <2>1. phase \notin {"start", "register"} /\ event' = (phase # "down")
    BY <1>1 DEF Edit
  <2>2. phase = "up" \/ ~event'
    BY <2>1 DEF TypeOK
  <2>3. UNCHANGED <<watcher, phase, cfg, writer, loopVars>>
    BY <1>1 DEF Edit
  <2> QED BY <2>2, <2>3 DEF FollowInv, loopVars, ShouldEnable
<1>2. ASSUME NEW w \in Writer, Command(w) \/ Truncate(w) \/ Fill(w) PROVE FollowInv'
  <2>1. phase = "up"
    BY <1>2 DEF Command, Truncate, Fill, FollowInv
  <2>2. UNCHANGED <<watcher, phase, cfg, loopVars>>
    BY <1>2 DEF Command, Truncate, Fill
  <2> QED BY <2>1, <2>2 DEF FollowInv, loopVars, ShouldEnable
<1> QED BY <1>1, <1>2

\* A loop leaves the table and the configuration alone, unless it panics and takes
\* the process with it.
LEMMA LoopFollows ==
  ASSUME FollowInv, NEW p \in App, NEW l \in Loops,
         RunStep(p, l) \/ Tick(p, l) \/ Leave(p, l)
  PROVE  FollowInv'
<1>1. CASE Down
  BY <1>1, IdlePc DEF Down, FollowInv
<1>2. CASE ~Down
  <2>1. UNCHANGED <<fileVars, watcher, phase, cfg, writer, filed>>
    BY <1>2 DEF RunStep, MakeTicker, Skip, Run, Executed, Notify, Archive, Tick, Leave, Rest
  <2> QED BY <2>1 DEF FollowInv, fileVars, ShouldEnable
<1> QED BY <1>1, <1>2

\* OnConfigChange, shouldEnable: when the watcher has worked off a change, an app
\* has a loop exactly when the heartbeat is on, whoever writes config.yaml and
\* however it is emptied in between.  The operator must not edit the file between
\* Load and the registration of the callback: that change is taken over and the
\* loops are not restarted.
THEOREM LoopsFollow ==
  ASSUME EditPhases \cap {"start", "register"} = {}
  PROVE  Spec => []LoopsFollowConfig
<1>1. Init => FollowInv
  BY IdlePc DEF Init, FollowInv
<1>2. LoopsInv /\ FollowInv /\ [Next]_vars => FollowInv'
  <2> SUFFICES ASSUME LoopsInv, FollowInv, [Next]_vars PROVE FollowInv'
    OBVIOUS
  <2>1. TypeOK
    BY DEF LoopsInv
  <2>2. CASE UNCHANGED vars
    BY <2>2 DEF vars, FollowInv, ShouldEnable
  <2>3. CASE Next
    BY <2>1, <2>3, ServerFollows, WriterFollows, LoopFollows DEF Next
  <2> QED BY <2>2, <2>3
<1>3. FollowInv => LoopsFollowConfig
  BY DEF FollowInv, LoopsFollowConfig, ShouldEnable
<1> QED BY <1>1, <1>2, <1>3, LoopsInvariant, PTL DEF Spec

-----------------------------------------------------------------------------
(* The session rows *)

\* What RowsInv says of the rows, while no statement has failed.
Owned(r) == row[r] = "active" => \E p \in App, l \in Loops : loop[p][l].run = r

\* ... is the rest of RowsInv.
LEMMA OwnedRows ==
  ActiveHasRun <=> (phase # "down" /\ budget.faults = MaxFaults => \A r \in Runs : Owned(r))
BY DEF ActiveHasRun, Owned

\* A fault is never taken back.
LEMMA FaultSpends ==
  ASSUME TypeOK, budget.faults <= MaxFaults, Fault
  PROVE  /\ budget'.faults \in Nat /\ budget'.faults <= budget.faults
         /\ budget'.faults # budget.faults
         /\ budget'.faults <= MaxFaults /\ budget'.faults # MaxFaults
<1>1. budget.faults \in Nat /\ budget.faults > 0 /\ budget'.faults = budget.faults - 1
  <2>1. budget["faults"] > 0 /\ budget' = [budget EXCEPT !["faults"] = @ - 1]
    BY DEF Fault, Spend
  <2>2. budget \in [{"edits", "commands", "faults", "crashes"} -> Nat]
    BY DEF TypeOK
  <2> QED BY <2>1, <2>2
<1> QED BY <1>1, BoundFacts

\* The other budgets leave the faults alone.
LEMMA OtherSpends ==
  ASSUME TypeOK, NEW what \in {"edits", "commands", "crashes"}, Spend(what)
  PROVE  budget'.faults = budget.faults
BY DEF TypeOK, Spend

\* A loop without a run, or none at all.
LEMMA GoneRuns == NoLoop.run = 0 /\ NoLoop.pc = "gone"
BY DEF NoLoop

\* Working is what a loop does that has a run.
Working == {"execute", "notify", "archive"}

\* Steps that write no row and take no run from a loop.
LEMMA RowsUntouched ==
  ASSUME LoopsType, RowsInv, row' = row, (phase # "down") = (phase' # "down"),
         budget'.faults = budget.faults,
         \A p \in App, l \in Loops :
            /\ loop'[p][l].run = loop[p][l].run
            /\ loop[p][l].pc \in Working => loop'[p][l].pc \in Working
  PROVE  RowsInv'
<1> SUFFICES /\ \A p \in App, l \in Loops : loop'[p][l].run # 0 => loop'[p][l].pc \in Working
             /\ ActiveHasRun'
  BY DEF RowsInv, Working
<1>1. ActiveHasRun'
  BY DEF RowsInv, ActiveHasRun
<1> QED BY <1>1 DEF RowsInv, Working

\* The end of the process ends the loops; who is active then is put right at startup.
LEMMA DownRows ==
  ASSUME RowsInv, Down, budget'.faults = budget.faults
  PROVE  RowsInv'
<1>1. phase' = "down" /\ \A p \in App, l \in Loops : loop'[p][l].run = 0
  BY GoneRuns DEF Down
<1> QED BY <1>1 DEF RowsInv, ActiveHasRun

\* Start and Stop take no run from a loop and give none.
LEMMA StartStopRows ==
  ASSUME LoopsType, RowsInv, StartLoops \/ StopLoops,
         row' = row, (phase # "down") = (phase' # "down"), budget' = budget
  PROVE  RowsInv'
<1> DEFINE Kept == \A p \in App, l \in Loops :
                     /\ loop'[p][l].run = loop[p][l].run
                     /\ loop[p][l].pc \in Working => loop'[p][l].pc \in Working
<1>1. CASE StartLoops
  <2>1. CASE UNCHANGED loopVars
    BY <2>1, RowsUntouched DEF loopVars
  <2>2. CASE ShouldEnable(cfg)
    <3> DEFINE new == {p \in App : filed[p] = 0}
    <3>1. PICK pick \in [App -> Loops] :
            /\ \A p \in new : pick[p] \in Free(p)
            /\ loop' = [p \in App |-> IF p \in new
                            THEN [loop[p] EXCEPT ![pick[p]].pc = "ticker"]
                            ELSE loop[p]]
      BY <1>1, <2>2 DEF StartLoops
    <3> HIDE DEF new
    <3>2. ASSUME NEW p \in App, NEW l \in Loops
          PROVE  /\ loop'[p][l].run = loop[p][l].run
                 /\ loop[p][l].pc \in Working => loop'[p][l].pc \in Working
      <4>1. CASE p \notin new \/ l # pick[p]
        <5>1. loop'[p][l] = loop[p][l]
          BY <3>1, <4>1 DEF LoopsType
        <5> QED BY <5>1
      <4>2. CASE p \in new /\ l = pick[p]
        <5>1. loop'[p][l] = [loop[p][l] EXCEPT !.pc = "ticker"]
          BY <3>1, <4>2 DEF LoopsType
        <5>2. loop[p][l].pc = "gone" /\ loop[p][l] \in LoopState
          BY <3>1, <4>2 DEF Free, LoopsType
        <5> QED BY <5>1, <5>2 DEF LoopState, Working
      <4> QED BY <4>1, <4>2
    <3> QED BY <3>2, RowsUntouched
  <2> QED BY <1>1, <2>1, <2>2 DEF StartLoops
<1>2. CASE StopLoops
  <2>1. ASSUME NEW p \in App, NEW l \in Loops
        PROVE  /\ loop'[p][l].run = loop[p][l].run
               /\ loop[p][l].pc \in Working => loop'[p][l].pc \in Working
    <3>1. loop'[p][l] = [loop[p][l] EXCEPT !.cancelled = @ \/ filed[p] = l]
      BY <1>2 DEF StopLoops
    <3>2. loop[p][l] \in LoopState
      BY DEF LoopsType
    <3>3. loop'[p][l].run = loop[p][l].run /\ loop'[p][l].pc = loop[p][l].pc
      BY <3>1, <3>2 DEF LoopState
    <3> QED BY <3>3
  <2> QED BY <2>1, RowsUntouched
<1> QED BY <1>1, <1>2

\* A step of one loop, which leaves it as st: a row is active for its run or was so
\* before, unless the last fault has gone.
OneLoopMoves(p, l, st) ==
    /\ st \in LoopState /\ (st.run # 0 => st.pc \in Working)
    /\ loop' = [loop EXCEPT ![p][l] = st] /\ phase' = phase
    /\ budget'.faults \in Nat /\ budget'.faults <= budget.faults
    /\ budget'.faults = MaxFaults =>
           \A r \in Runs : row'[r] = "active" =>
              \/ r = st.run
              \/ row[r] = "active" /\ r # loop[p][l].run

\* Such a step keeps the invariant.
LEMMA OneLoopRows ==
  ASSUME LoopsType, RowsInv, budget.faults \in Nat,
         NEW p \in App, NEW l \in Loops, NEW st, OneLoopMoves(p, l, st)
  PROVE  RowsInv'
<1>0. /\ st \in LoopState /\ (st.run # 0 => st.pc \in Working)
      /\ loop' = [loop EXCEPT ![p][l] = st] /\ phase' = phase
      /\ budget'.faults \in Nat /\ budget'.faults <= budget.faults
      /\ budget'.faults = MaxFaults =>
             \A r \in Runs : row'[r] = "active" =>
                \/ r = st.run
                \/ row[r] = "active" /\ r # loop[p][l].run
  BY DEF OneLoopMoves
<1>1. \A q \in App, k \in Loops : loop'[q][k] = IF q = p /\ k = l THEN st ELSE loop[q][k]
  BY <1>0 DEF LoopsType
<1>2. budget'.faults <= MaxFaults /\ (budget'.faults = MaxFaults => budget.faults = MaxFaults)
  BY <1>0, BoundFacts DEF RowsInv
<1>3. \A q \in App, k \in Loops :
         loop'[q][k].run # 0 => loop'[q][k].pc \in {"execute", "notify", "archive"}
  BY <1>0, <1>1 DEF RowsInv, Working
<1>4. ASSUME phase # "down", budget'.faults = MaxFaults, NEW r \in Runs, row'[r] = "active"
      PROVE  \E q \in App, k \in Loops : loop'[q][k].run = r
  <2>1. CASE r = st.run
    BY <1>1, <2>1
  <2>2. CASE row[r] = "active" /\ r # loop[p][l].run
    <3>1. PICK q \in App, k \in Loops : loop[q][k].run = r
      BY <1>2, <1>4, <2>2 DEF RowsInv, ActiveHasRun
    <3>2. loop'[q][k].run = r
      BY <1>1, <2>2, <3>1
    <3> QED BY <3>2
  <2> QED BY <1>0, <1>4, <2>1, <2>2
<1> QED BY <1>0, <1>2, <1>3, <1>4 DEF RowsInv, ActiveHasRun

\* The steps of a loop: Run gives it a run and the row of that run, Archive takes
\* both away.
LEMMA LoopRows ==
  ASSUME TypeOK, RowsInv, NEW p \in App, NEW l \in Loops,
         RunStep(p, l) \/ Tick(p, l) \/ Leave(p, l)
  PROVE  RowsInv'
<1>0. /\ LoopsType /\ loop[p][l] \in LoopState
      /\ loop[p][l].run # 0 => loop[p][l].pc \in Working
      /\ budget.faults \in Nat /\ budget.faults <= MaxFaults
      /\ row \in [Runs -> {"none", "active", "archived"}]
  <2>1. LoopsType
    BY TypeGivesLoops
  <2>2. loop[p][l] \in LoopState
    BY <2>1 DEF LoopsType
  <2> QED BY <2>1, <2>2 DEF TypeOK, RowsInv, Working
<1>1. ASSUME NEW pc \in {"run", "execute", "notify", "archive", "select"}, Goes(p, l, pc),
             loop[p][l].pc \in Working => pc \in Working,
             row' = row, phase' = phase, budget' = budget
      PROVE  RowsInv'
  <2>1. /\ [loop[p][l] EXCEPT !.pc = pc].run = loop[p][l].run
        /\ [loop[p][l] EXCEPT !.pc = pc].pc = pc
    BY <1>0 DEF LoopState
  <2>2. \A q \in App, k \in Loops :
          loop'[q][k] = IF q = p /\ k = l THEN [loop[p][l] EXCEPT !.pc = pc] ELSE loop[q][k]
    BY <1>0, <1>1 DEF Goes, LoopsType
  <2>3. \A q \in App, k \in Loops :
          /\ loop'[q][k].run = loop[q][k].run
          /\ loop[q][k].pc \in Working => loop'[q][k].pc \in Working
    BY <1>1, <2>1, <2>2
  <2> QED BY <1>0, <1>1, <2>3, RowsUntouched
<1>2. CASE MakeTicker(p, l)
  <2>1. CASE Down
    BY <1>2, <2>1, DownRows DEF MakeTicker
  <2>2. CASE ~Down
    <3>1. /\ At(p, l, "ticker") /\ Goes(p, l, "run") /\ UNCHANGED <<Rest, runVars, budget>>
      BY <1>2, <2>2 DEF MakeTicker
    <3> QED BY <1>1, <3>1 DEF At, Rest, runVars, Working
  <2> QED BY <2>1, <2>2
<1>3. CASE Skip(p, l) \/ Executed(p, l) \/ Tick(p, l)
  BY <1>1, <1>3 DEF Skip, Executed, Tick, At, Rest, runVars, Working
<1>4. CASE Notify(p, l)
  BY <1>1, <1>4 DEF Notify, Rest, Working
<1>5. CASE Run(p, l)
  <2> DEFINE st == [loop[p][l] EXCEPT !.pc = "execute", !.run = runs']
  <2>1. runs \in Nat /\ runs' = runs + 1 /\ runs' \in 0 .. MaxRuns
    <3>1. runs \in 0 .. MaxRuns /\ runs < MaxRuns /\ runs' = runs + 1
      BY <1>5 DEF Run, TypeOK
    <3> QED BY <3>1, BoundFacts
  <2>2. st \in LoopState /\ st.run = runs' /\ st.pc \in Working
    BY <1>0, <2>1 DEF LoopState, Working
  <2>3. loop' = [loop EXCEPT ![p][l] = st]
    BY <1>0, <1>5 DEF Run, LoopsType, LoopState
  <2>4. loop[p][l].run = 0 /\ phase' = phase
    BY <1>0, <1>5 DEF Run, At, Rest, Working
  <2>5. ASSUME NEW r \in Runs, row'[r] = "active" PROVE r = runs' \/ row[r] = "active"
    BY <1>0, <1>5, <2>5 DEF Run
  <2>6. \A r \in Runs : r # 0
    BY BoundFacts DEF Runs
  <2>7. budget'.faults \in Nat /\ budget'.faults <= budget.faults
    <3>1. budget' = budget \/ Fault
      BY <1>5 DEF Run
    <3> QED BY <1>0, <3>1, FaultSpends
  <2>8. \A r \in Runs : row'[r] = "active" =>
          \/ r = st.run
          \/ row[r] = "active" /\ r # loop[p][l].run
    BY <2>2, <2>4, <2>5, <2>6
  <2> HIDE DEF st
  <2>9. OneLoopMoves(p, l, st)
    BY <2>2, <2>3, <2>4, <2>7, <2>8 DEF OneLoopMoves
  <2> QED BY <1>0, <2>9, OneLoopRows
<1>6. CASE Archive(p, l)
  <2> DEFINE st == [loop[p][l] EXCEPT !.pc = "select", !.run = 0]
  <2>0. 0 \in 0 .. MaxRuns
    BY BoundFacts
  <2>1. st \in LoopState /\ st.run = 0
    BY <1>0, <2>0 DEF LoopState
  <2>2. loop' = [loop EXCEPT ![p][l] = st] /\ phase' = phase
    BY <1>0, <1>6 DEF Archive, LoopsType, LoopState, Rest
  <2>3. CASE budget' = budget
    <3>0. budget'.faults \in Nat /\ budget'.faults <= budget.faults
      BY <1>0, <2>3
    <3>1. row' = [row EXCEPT ![loop[p][l].run] = IF @ = "active" THEN "archived" ELSE @]
      BY <1>0, <1>6, <2>3, FaultSpends DEF Archive, RowsInv
    <3>2. \A r \in Runs : row'[r] = "active" =>
            \/ r = st.run
            \/ row[r] = "active" /\ r # loop[p][l].run
      BY <1>0, <3>1
    <3> HIDE DEF st
    <3>3. OneLoopMoves(p, l, st)
      BY <2>1, <2>2, <3>0, <3>2 DEF OneLoopMoves
    <3> QED BY <1>0, <3>3, OneLoopRows
  <2>4. CASE Fault
    <3>1. /\ budget'.faults \in Nat /\ budget'.faults <= budget.faults
          /\ budget'.faults # MaxFaults
      BY <1>0, <2>4, FaultSpends
    <3> HIDE DEF st
    <3>2. OneLoopMoves(p, l, st)
      BY <2>1, <2>2, <3>1 DEF OneLoopMoves
    <3> QED BY <1>0, <3>2, OneLoopRows
  <2> QED BY <1>6, <2>3, <2>4 DEF Archive
<1>7. CASE Leave(p, l)
  <2>1. loop[p][l].run = 0
    BY <1>0, <1>7 DEF Leave, At, Working
  <2>2. \A r \in Runs : r # 0
    BY BoundFacts DEF Runs
  <2>3. /\ loop' = [loop EXCEPT ![p][l] = NoLoop] /\ phase' = phase /\ row' = row
        /\ budget'.faults \in Nat /\ budget'.faults <= budget.faults
    BY <1>0, <1>7 DEF Leave, Rest, runVars
  <2>4. OneLoopMoves(p, l, NoLoop)
    BY <2>1, <2>2, <2>3, NoLoopType, GoneRuns DEF OneLoopMoves
  <2> QED BY <1>0, <2>4, OneLoopRows
<1> QED BY <1>2, <1>3, <1>4, <1>5, <1>6, <1>7 DEF RunStep

\* The server archives at startup what a killed process left, and the rest of the
\* server writes no row.
LEMMA ServerRows ==
  ASSUME TypeOK, RowsInv, Boot \/ Start \/ Register \/ Crash \/ Watch
  PROVE  RowsInv'
<1>0. /\ LoopsType /\ budget.faults \in Nat /\ budget.faults <= MaxFaults
      /\ row \in [Runs -> {"none", "active", "archived"}]
  BY TypeGivesLoops DEF TypeOK, RowsInv
<1>1. CASE Boot
  <2>1. loop' = loop
    BY <1>1 DEF Boot, loopVars
  <2>2. CASE Fault
    <3>1. budget'.faults <= MaxFaults /\ budget'.faults # MaxFaults
      BY <1>0, <2>2, FaultSpends
    <3> QED BY <2>1, <3>1 DEF RowsInv, ActiveHasRun
  <2>3. CASE ~Fault
    <3>1. budget' = budget /\ \A r \in Runs : row'[r] # "active"
      BY <1>0, <1>1, <2>3 DEF Boot
    <3> QED BY <2>1, <3>1 DEF RowsInv, ActiveHasRun
  <2> QED BY <2>2, <2>3
<1>2. CASE Start \/ RestartStart \/ RestartStop
  <2>1. StartLoops \/ StopLoops
    BY <1>2 DEF Start, RestartStart, RestartStop
  <2>2. row' = row /\ budget' = budget
    BY <1>2 DEF Start, RestartStart, RestartStop, runVars
  <2>3. CASE Start
    <3>1. phase = "start" /\ phase' = "register"
      BY <2>3 DEF Start
    <3>2. (phase # "down") = (phase' # "down")
      BY <3>1
    <3> QED BY <1>0, <2>1, <2>2, <3>2, StartStopRows
  <2>4. CASE RestartStart \/ RestartStop
    <3>1. phase' = phase
      BY <2>4 DEF RestartStart, RestartStop
    <3> QED BY <1>0, <2>1, <2>2, <3>1, StartStopRows
  <2> QED BY <1>2, <2>3, <2>4
<1>3. CASE Register
  BY <1>3 DEF Register, RowsInv, ActiveHasRun, loopVars, runVars
<1>4. CASE Crash
  BY <1>4, DownRows, OtherSpends DEF Crash
<1>5. CASE Reload
  BY <1>5 DEF Reload, RowsInv, ActiveHasRun, loopVars, runVars
<1> QED BY <1>1, <1>2, <1>3, <1>4, <1>5 DEF Watch

\* Who writes config.yaml may spend a fault, and touches no row.
LEMMA WriterRows ==
  ASSUME TypeOK, RowsInv,
         Edit \/ \E w \in Writer : Command(w) \/ Truncate(w) \/ Fill(w)
  PROVE  RowsInv'
<1>1. row' = row /\ loop' = loop /\ phase' = phase
  BY DEF Edit, Command, Truncate, Fill, loopVars, runVars
<1>2. /\ budget'.faults <= MaxFaults
      /\ budget'.faults = MaxFaults => budget.faults = MaxFaults
  <2>1. budget' = budget \/ Fault \/ Spend("edits") \/ Spend("commands")
    BY DEF Edit, Command, Truncate, Fill
  <2>2. CASE Fault
    BY <2>2, FaultSpends DEF RowsInv
  <2> QED BY <2>1, <2>2, OtherSpends DEF RowsInv
<1> QED BY <1>1, <1>2 DEF RowsInv, ActiveHasRun

\* archiveSession and the recovery at startup leave no active heartbeat session
\* behind, however often the loops are stopped, restarted and killed with the
\* process in the middle of a run, unless a statement failed.
THEOREM RowsHaveRuns == Spec => []ActiveHasRun
<1>1. Init => RowsInv
  BY GoneRuns, BoundFacts DEF Init, RowsInv, ActiveHasRun
<1>2. LoopsInv /\ RowsInv /\ [Next]_vars => RowsInv'
  <2> SUFFICES ASSUME TypeOK, RowsInv, [Next]_vars PROVE RowsInv'
    BY DEF LoopsInv
  <2>1. CASE UNCHANGED vars
    BY <2>1 DEF vars, RowsInv, ActiveHasRun
  <2>2. CASE Next
    BY <2>2, ServerRows, WriterRows, LoopRows DEF Next
  <2> QED BY <2>1, <2>2
<1>3. RowsInv => ActiveHasRun
  BY DEF RowsInv
<1> QED BY <1>1, <1>2, <1>3, LoopsInvariant, PTL DEF Spec
=============================================================================
