--------------------------- MODULE HeartbeatService ---------------------------
(***************************************************************************)
(* The heartbeat loops (heartbeat/service.go), the watcher of config.yaml  *)
(* that restarts them (config.go Load, main.go) and the /mode command that *)
(* rewrites the same file (worker.go handleModeCommand, config.go          *)
(* SetAppWorkspaceMode).                                                   *)
(*                                                                         *)
(* cfg.Heartbeat is assigned by the watcher and read by the loops without  *)
(* a lock: each read of a field is a step, and sees the old or the new     *)
(* value.  os.WriteFile empties the file before it fills it, and the       *)
(* watcher may read it in between; viper then falls back to its defaults.  *)
(***************************************************************************)
EXTENDS FiniteSets, Naturals

CONSTANTS
    App, Writer,        \* apps; the chats' workers that handle /mode
    Modes,              \* workspace modes
    Configs,            \* heartbeat sections an operator writes
    EditPhases,         \* phases of the server in which the operator edits
    MaxLoops,           \* bound: loops of an app that exist at a time
    MaxRuns,            \* bound: heartbeat runs
    MaxEdits,           \* bound: edits of config.yaml by the operator
    MaxCommands,        \* bound: /mode commands
    MaxFaults,          \* bound: failed database and file operations
    MaxCrashes          \* bound: ends of the server process

Targets == {"none", "chat"}
Heartbeat == [enabled : BOOLEAN, interval : {0, 1}, target : Targets]

ASSUME BoundsAssumption ==
    /\ {MaxEdits, MaxCommands, MaxFaults, MaxCrashes} \subseteq Nat
    /\ {MaxLoops, MaxRuns} \subseteq Nat \ {0}
ASSUME ConfigsAssumption == Configs \subseteq Heartbeat /\ Configs # {}

VARIABLES
    file,       \* config.yaml: [hb, mode], or Blank while it is empty
    event,      \* fsnotify has a change to report
    watcher,    \* the watcher's goroutine: "idle", "stop" or "start" (Restart)
    phase,      \* the server: "down", "start", "register" or "up"
    cfg,        \* cfg.Heartbeat
    mode,       \* WorkspaceMode of every app in memory
    writer,     \* each /mode command: [pc, app, mode, snapshot]
    filed,      \* s.loops: the live loop of each app, 0 for none
    loop,       \* the loops of each app: [pc, cancelled, run]
    row,        \* session row of each run
    runs,       \* runs so far
    notified,   \* chats the heartbeat has written to
    budget      \* edits, commands, faults and crashes left

fileVars == <<file, event>>
loopVars == <<filed, loop>>
runVars == <<row, runs, notified>>
vars == <<file, event, watcher, phase, cfg, mode, writer, filed, loop, row,
          runs, notified, budget>>

Blank == [hb |-> "blank"]
Content == [hb : Configs, mode : [App -> Modes]]
Loops == 1 .. MaxLoops
Runs == 1 .. MaxRuns
Default == [enabled |-> FALSE, interval |-> 1, target |-> "none"]

Writing == [pc : {"truncate", "fill"}, app : App, content : Content]

NoLoop == [pc |-> "gone", cancelled |-> FALSE, run |-> 0]
Idle == [pc |-> "idle"]

Init ==
    /\ file \in Content
    /\ event = FALSE
    /\ watcher = "idle"
    /\ phase = "down"
    /\ cfg = Default
    /\ mode = file.mode
    /\ writer = [w \in Writer |-> Idle]
    /\ filed = [p \in App |-> 0]
    /\ loop = [p \in App |-> [l \in Loops |-> NoLoop]]
    /\ row = [r \in Runs |-> "none"]
    /\ runs = 0
    /\ notified = {}
    /\ budget = [edits |-> MaxEdits, commands |-> MaxCommands,
                 faults |-> MaxFaults, crashes |-> MaxCrashes]

Spend(what) == budget[what] > 0 /\ budget' = [budget EXCEPT ![what] = @ - 1]
Fault == Spend("faults")

-----------------------------------------------------------------------------
(* Start, Stop and Restart under Service.mu *)

\* Mutant: the switch is not looked at.
ShouldEnable_AnyInterval(hb) == hb.interval > 0

ShouldEnable(hb) == hb.enabled /\ hb.interval > 0

Free(p) == {l \in Loops : loop[p][l].pc = "gone"}

\* Starts a loop for every app that has none, if the heartbeat is on.
StartLoops ==
    IF ~ShouldEnable(cfg) THEN UNCHANGED loopVars
    ELSE \E pick \in [App -> Loops] :
            LET new == {p \in App : filed[p] = 0} IN
            /\ \A p \in new : pick[p] \in Free(p)
            /\ \A p \in App \ new : pick[p] = filed[p]
            /\ filed' = pick
            /\ loop' = [p \in App |-> IF p \in new
                            THEN [loop[p] EXCEPT ![pick[p]].pc = "ticker"]
                            ELSE loop[p]]

\* Mutant: the loops are dropped from the map and run on.
StopLoops_NoCancel ==
    /\ filed' = [p \in App |-> 0]
    /\ UNCHANGED loop

StopLoops ==
    /\ filed' = [p \in App |-> 0]
    /\ loop' = [p \in App |-> [l \in Loops |->
                    [loop[p][l] EXCEPT !.cancelled = @ \/ filed[p] = l]]]

-----------------------------------------------------------------------------
(* The server process *)

\* Load, Validate and the recovery of sessions the last process left active.
Boot ==
    /\ phase = "down" /\ file # Blank
    /\ cfg' = file.hb
    /\ mode' = file.mode
    /\ \/ /\ row' = [r \in Runs |-> IF row[r] = "active" THEN "archived" ELSE row[r]]
          /\ UNCHANGED budget
       \/ Fault /\ UNCHANGED row
    /\ phase' = "start"
    /\ UNCHANGED <<fileVars, watcher, writer, loopVars, runs, notified>>

\* heartbeatSvc.Start
Start ==
    /\ phase = "start"
    /\ StartLoops
    /\ phase' = "register"
    /\ UNCHANGED <<fileVars, watcher, cfg, mode, writer, runVars, budget>>

\* RegisterHeartbeatChangeCallback
Register ==
    /\ phase = "register"
    /\ phase' = "up"
    /\ UNCHANGED <<fileVars, watcher, cfg, mode, writer, loopVars, runVars, budget>>

\* Every goroutine ends with the process; nothing waits for the heartbeat.
Down ==
    /\ phase' = "down"
    /\ event' = FALSE
    /\ watcher' = "idle"
    /\ writer' = [w \in Writer |-> Idle]
    /\ filed' = [p \in App |-> 0]
    /\ loop' = [p \in App |-> [l \in Loops |-> NoLoop]]
    /\ UNCHANGED <<file, cfg, mode, runVars>>

\* The process is killed, or shut down.
Crash == phase # "down" /\ Spend("crashes") /\ Down

-----------------------------------------------------------------------------
(* The watcher *)

\* What viper reads, with the defaults of Load for what the file does not say.
Read == IF file = Blank THEN Default ELSE file.hb

\* Mutant: a change of the notify target alone is not noticed.
Changed_IgnoresTarget ==
    <<Read.enabled, Read.interval>> # <<cfg.enabled, cfg.interval>>

Changed == Read # cfg

\* OnConfigChange: a changed heartbeat section is taken over, and the callback,
\* once registered, restarts the loops.
Reload ==
    /\ phase # "down" /\ watcher = "idle" /\ event
    /\ event' = FALSE
    /\ cfg' = IF Changed THEN Read ELSE cfg
    /\ watcher' = IF Changed /\ phase = "up" THEN "stop" ELSE "idle"
    /\ UNCHANGED <<file, phase, mode, writer, loopVars, runVars, budget>>

RestartStop ==
    /\ watcher = "stop"
    /\ StopLoops
    /\ watcher' = "start"
    /\ UNCHANGED <<fileVars, phase, cfg, mode, writer, runVars, budget>>

RestartStart ==
    /\ watcher = "start"
    /\ StartLoops
    /\ watcher' = "idle"
    /\ UNCHANGED <<fileVars, phase, cfg, mode, writer, runVars, budget>>

-----------------------------------------------------------------------------
(* config.yaml is written *)

\* The operator replaces the heartbeat section, or repairs an emptied file.
Edit ==
    /\ phase \in EditPhases
    /\ Spend("edits")
    /\ \E hb \in Configs : file' = IF file = Blank THEN [hb |-> hb, mode |-> mode]
                                   ELSE [file EXCEPT !.hb = hb]
    /\ event' = (phase # "down")
    /\ UNCHANGED <<watcher, phase, cfg, mode, writer, loopVars, runVars>>

\* /mode m of app p: the file is read; an empty one is an error and no change.
Command(w) ==
    /\ phase = "up" /\ writer[w].pc = "idle"
    /\ Spend("commands")
    /\ \E p \in App, m \in Modes :
        writer' = [writer EXCEPT ![w] =
            IF file = Blank THEN Idle
            ELSE [pc |-> "truncate", app |-> p,
                  content |-> [file EXCEPT !.mode[p] = m]]]
    /\ UNCHANGED <<fileVars, watcher, phase, cfg, mode, loopVars, runVars>>

\* os.WriteFile empties the file, or fails before it does ...
Truncate(w) ==
    /\ writer[w].pc = "truncate"
    /\ \/ /\ file' = Blank /\ event' = TRUE
          /\ writer' = [writer EXCEPT ![w].pc = "fill"]
          /\ UNCHANGED budget
       \/ Fault /\ writer' = [writer EXCEPT ![w] = Idle] /\ UNCHANGED fileVars
    /\ UNCHANGED <<watcher, phase, cfg, mode, loopVars, runVars>>

\* ... fills it, and the mode in memory follows; a failure leaves it empty.
Fill(w) ==
    /\ writer[w].pc = "fill"
    /\ \/ /\ file' = writer[w].content /\ event' = TRUE
          /\ mode' = [mode EXCEPT ![writer[w].app] = file'.mode[writer[w].app]]
          /\ UNCHANGED budget
       \/ Fault /\ UNCHANGED <<fileVars, mode>>
    /\ writer' = [writer EXCEPT ![w] = Idle]
    /\ UNCHANGED <<watcher, phase, cfg, loopVars, runVars>>

-----------------------------------------------------------------------------
(* loop and runOnce *)

At(p, l, pc) == loop[p][l].pc = pc
Goes(p, l, pc) == loop' = [loop EXCEPT ![p][l].pc = pc]
Rest == <<fileVars, watcher, phase, cfg, mode, writer, filed>>

\* NewTicker with the interval of now; with none it panics, and the process ends.
MakeTicker(p, l) ==
    /\ At(p, l, "ticker")
    /\ IF cfg.interval > 0
       THEN Goes(p, l, "run") /\ UNCHANGED <<Rest, runVars>>
       ELSE Down
    /\ UNCHANGED budget

\* Without a prompt file nothing runs.
Skip(p, l) ==
    /\ At(p, l, "run")
    /\ Goes(p, l, "select")
    /\ UNCHANGED <<Rest, runVars, budget>>

\* createSession goes on without the row when the database fails.
Run(p, l) ==
    /\ At(p, l, "run") /\ runs < MaxRuns
    /\ runs' = runs + 1
    /\ loop' = [loop EXCEPT ![p][l].pc = "execute", ![p][l].run = runs']
    /\ \/ row' = [row EXCEPT ![runs'] = "active"] /\ UNCHANGED budget
       \/ Fault /\ UNCHANGED row
    /\ UNCHANGED <<Rest, notified>>

\* Mutant: an error of Execute returns without archiving the session.
Executed_KeepsRow(p, l) ==
    /\ At(p, l, "execute")
    /\ \/ ~loop[p][l].cancelled /\ Goes(p, l, "notify")
       \/ loop' = [loop EXCEPT ![p][l].pc = "select", ![p][l].run = 0]
    /\ UNCHANGED <<Rest, runVars, budget>>

\* Execute has an answer, or fails; in a cancelled context it fails.
Executed(p, l) ==
    /\ At(p, l, "execute")
    /\ \/ ~loop[p][l].cancelled /\ Goes(p, l, "notify")
       \/ Goes(p, l, "archive")
    /\ UNCHANGED <<Rest, runVars, budget>>

\* notifyTargets: without a target every private chat of the app.  An empty
\* answer, no sender or no such chat, and nothing is sent.
Receiver == IF cfg.target = "none" THEN "every private chat" ELSE cfg.target

Notify(p, l) ==
    /\ At(p, l, "notify")
    /\ \E sent \in {{}, {Receiver}} : notified' = notified \cup sent
    /\ Goes(p, l, "archive")
    /\ UNCHANGED <<Rest, row, runs, budget>>

\* The deferred archiveSession; a row that was never written stays away.
Archive(p, l) ==
    LET r == loop[p][l].run IN
    /\ At(p, l, "archive")
    /\ loop' = [loop EXCEPT ![p][l].pc = "select", ![p][l].run = 0]
    /\ \/ /\ row' = [row EXCEPT ![r] = IF @ = "active" THEN "archived" ELSE @]
          /\ UNCHANGED budget
       \/ Fault /\ UNCHANGED row
    /\ UNCHANGED <<Rest, runs, notified>>

\* The ticker is chosen, also when the loop is cancelled and both are ready.
Tick(p, l) ==
    /\ At(p, l, "select")
    /\ Goes(p, l, "run")
    /\ UNCHANGED <<Rest, runVars, budget>>

Leave(p, l) ==
    /\ At(p, l, "select") /\ loop[p][l].cancelled
    /\ loop' = [loop EXCEPT ![p][l] = NoLoop]
    /\ UNCHANGED <<Rest, runVars, budget>>

-----------------------------------------------------------------------------
RunStep(p, l) ==
    \/ MakeTicker(p, l) \/ Skip(p, l) \/ Run(p, l) \/ Executed(p, l)
    \/ Notify(p, l) \/ Archive(p, l)

Watch == Reload \/ RestartStop \/ RestartStart

Next ==
    \/ Boot \/ Start \/ Register \/ Crash
    \/ Watch
    \/ Edit
    \/ \E w \in Writer : Command(w) \/ Truncate(w) \/ Fill(w)
    \/ \E p \in App, l \in Loops : RunStep(p, l) \/ Tick(p, l) \/ Leave(p, l)

Spec == Init /\ [][Next]_vars

\* Goroutines are scheduled, Execute returns, and a select that finds the ticker
\* and the cancellation ready again and again also takes the cancellation.
Fairness ==
    /\ WF_vars(Boot) /\ WF_vars(Start) /\ WF_vars(Register)
    /\ WF_vars(Watch)
    /\ \A w \in Writer : WF_vars(Truncate(w) \/ Fill(w))
    /\ \A p \in App, l \in Loops : WF_vars(RunStep(p, l)) /\ SF_vars(Leave(p, l))

FairSpec == Spec /\ Fairness

-----------------------------------------------------------------------------
(* Properties *)

\* Every variable has its type, and a row is there only for a run that began.
TypeOK ==
    /\ file \in Content \cup {Blank}
    /\ event \in BOOLEAN
    /\ watcher \in {"idle", "stop", "start"}
    /\ phase \in {"down", "start", "register", "up"}
    /\ cfg \in Configs \cup {Default}
    /\ mode \in [App -> Modes]
    /\ writer \in [Writer -> {Idle} \cup Writing]
    /\ filed \in [App -> 0 .. MaxLoops]
    /\ loop \in [App -> [Loops ->
            [pc : {"gone", "ticker", "run", "execute", "notify", "archive", "select"},
             cancelled : BOOLEAN, run : 0 .. MaxRuns]]]
    /\ row \in [Runs -> {"none", "active", "archived"}]
    /\ runs \in 0 .. MaxRuns
    /\ \A r \in Runs : row[r] # "none" => r <= runs
    /\ notified \subseteq {"chat", "every private chat"}
    /\ budget \in [{"edits", "commands", "faults", "crashes"} -> Nat]

\* However often the configuration changes, every loop that goes on is the one
\* Restart filed for its app: Stop reaches every loop that Start began.
OneLiveLoop ==
    \A p \in App, l \in Loops :
        loop[p][l].pc # "gone" /\ ~loop[p][l].cancelled => filed[p] = l

\* The loops and the table of the running ones fit together.
LoopsInv == TypeOK /\ OneLiveLoop

\* Once the watcher has worked off a change, an app has a loop exactly when the
\* heartbeat is on in cfg.Heartbeat (OnConfigChange, shouldEnable).
LoopsFollowConfig ==
    phase = "up" /\ watcher = "idle" =>
        \A p \in App : filed[p] # 0 <=> cfg.enabled /\ cfg.interval > 0

\* What stands behind LoopsFollowConfig: nothing is under way before the server is
\* up, Restart empties the table before it fills it, and it is full or empty as the
\* configuration says from the first Start on.
FollowInv ==
    /\ phase # "up" => ~event /\ watcher = "idle" /\ \A w \in Writer : writer[w].pc = "idle"
    /\ phase \in {"down", "start"} \/ watcher = "start" => \A p \in App : filed[p] = 0
    /\ phase \in {"register", "up"} /\ watcher = "idle" =>
           \A p \in App : filed[p] # 0 <=> ShouldEnable(cfg)

\* An active heartbeat session belongs to a run of this process: the deferred
\* archiveSession and the recovery at startup leave no other behind, unless a
\* statement failed.
ActiveHasRun ==
    phase # "down" /\ budget.faults = MaxFaults => \A r \in Runs : row[r] = "active" =>
        \E p \in App, l \in Loops : loop[p][l].run = r

\* What stands behind ActiveHasRun: a loop has a run only from createSession to
\* archiveSession.
RowsInv ==
    /\ budget.faults <= MaxFaults
    /\ \A p \in App, l \in Loops :
           loop[p][l].run # 0 => loop[p][l].pc \in {"execute", "notify", "archive"}
    /\ ActiveHasRun

\* What the operator wrote becomes cfg.Heartbeat, although a /mode command may
\* empty the file meanwhile, unless it is overwritten or the server goes down.
ConfigFollowsFile ==
    \A hb \in Configs :
        (phase = "up" /\ file # Blank /\ file.hb = hb) ~>
            (cfg = hb \/ phase = "down" \/ file = Blank \/ file.hb # hb)

\* Claimed by TestShouldEnable ("zero interval" is not enabled): no loop runs on
\* an interval of zero.
ZeroIntervalIsOff ==
    [][\A p \in App, l \in Loops : MakeTicker(p, l) => cfg.interval > 0]_vars

\* Claimed by the comment of notifyTarget and by docs/configuration.md: without a
\* notify target heartbeat output goes to no chat.
EmptyTargetIsSilent == [][notified' # notified => cfg.target # "none"]_vars
=============================================================================
