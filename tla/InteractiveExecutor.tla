------------------------ MODULE InteractiveExecutor ------------------------
(***************************************************************************)
(* internal/claude/interactive.go: long-running claude processes, one per   *)
(* Memknow session, the goroutine that reads the output of each, the turns  *)
(* that talk to them, and the reaper.                                       *)
(*                                                                          *)
(* A turn is one call of Execute. The turns of a session come one at a time *)
(* (its worker is serial), those of different sessions at will. A turn      *)
(* starts at most one process, so a process is named by the turn that       *)
(* started it, and so is the conversation a process opened when it was not  *)
(* told to resume one.                                                      *)
(*                                                                          *)
(* A claude process answers a prompt with a "system" line that names its    *)
(* conversation, its text (also what it says of its thinking and tools, as  *)
(* one line), and a "result" line; it may die at any point. Permission      *)
(* requests, which readLoop approves at once, are left out.                 *)
(***************************************************************************)
EXTENDS Naturals, Sequences, FiniteSets

CONSTANTS
    Turns,          \* calls of Execute
    Sessions,       \* Memknow session ids
    SessionOf,      \* Turns -> Sessions
    EventsCap,      \* capacity of interactiveSession.events (64)
    Impatient,      \* turns whose context may get done (bounds the model)
    Unreliable,     \* processes that may fail on their own (bounds the model)
    Grandchildren,  \* whether claude leaves children behind that hold its stdout
    None

ASSUME TurnsAssumption ==
    /\ SessionOf \in [Turns -> Sessions]
    /\ EventsCap \in Nat \ {0}
    /\ Impatient \subseteq Turns
    /\ Unreliable \subseteq Turns
    /\ Grandchildren \in BOOLEAN
    /\ None \notin Turns

\* A turn that has not returned has no outcome.
ASSUME NoneAssumption == None # "result"

VARIABLES
    \* the turns
    pc,          \* pc[t]: where Execute is
    proc,        \* proc[t]: the interactiveSession turn t works with
    cancelled,   \* turns whose context is done
    answer,      \* answer[t]: the events turn t collected
    reported,    \* reported[t]: the turn whose token counts t returned
    outcome,     \* outcome[t]: how Execute returned
    \* the executor and the database
    sessions,    \* InteractiveExecutor.sessions[s]
    stored,      \* the claude_session_id column of session s
    archived,    \* sessions that will get no more turns
    stopped,     \* Stop was called
    \* the interactiveSessions
    reader,      \* reader[p]: where readLoop is
    holding,     \* holding[p]: the event readLoop is sending
    events,      \* events[p]: the buffered channel
    alive,       \* alive[p]
    claudeID,    \* claudeSessionID[p]
    usage,       \* usage[p]: the turn of the token counts, model, finishReason
    \* the claude processes (external)
    os,          \* os[p]: is the process running?
    stdin,       \* stdin[p]: prompts it has not read
    saying,      \* saying[p]: lines it has still to print
    stdout,      \* stdout[p]: lines it printed that nobody read
    orphaned,    \* processes with a child that keeps stdout open
    conversation,\* conversation[p]: the conversation it continues
    transcript   \* transcript[i]: the prompts in the stored conversation i

turnVars    == <<pc, proc, cancelled, answer, reported, outcome>>
executor    == <<sessions, stored, archived, stopped>>
sessionVars == <<reader, holding, events, alive, claudeID, usage>>
claudeVars  == <<os, stdin, saying, stdout, orphaned, conversation, transcript>>
vars        == <<turnVars, executor, sessionVars, claudeVars>>

Lines == [kind : {"system", "text", "result"}, turn : Turns]
Line(kind, t) == [kind |-> kind, turn |-> t]

\* What claude prints for the prompt of turn t.
Answer(t) == <<Line("system", t), Line("text", t), Line("result", t)>>

Busy == {"sending", "resetting", "collecting", "draining"}

Init ==
    /\ pc = [t \in Turns |-> "idle"]
    /\ proc = [t \in Turns |-> None]
    /\ cancelled = {}
    /\ answer = [t \in Turns |-> {}]
    /\ reported = [t \in Turns |-> None]
    /\ outcome = [t \in Turns |-> None]
    /\ sessions = [s \in Sessions |-> None]
    /\ stored = [s \in Sessions |-> None]
    /\ archived = {}
    /\ stopped = FALSE
    /\ reader = [p \in Turns |-> "none"]
    /\ holding = [p \in Turns |-> None]
    /\ events = [p \in Turns |-> <<>>]
    /\ alive = [p \in Turns |-> FALSE]
    /\ claudeID = [p \in Turns |-> None]
    /\ usage = [p \in Turns |-> None]
    /\ os = [p \in Turns |-> "none"]
    /\ stdin = [p \in Turns |-> <<>>]
    /\ saying = [p \in Turns |-> <<>>]
    /\ stdout = [p \in Turns |-> <<>>]
    /\ orphaned = {}
    /\ conversation = [p \in Turns |-> None]
    /\ transcript = [i \in Turns |-> {}]

\* interactiveSession.stop on every process of P: cancel() and Process.Kill().
\* Only claude itself is killed, not its process group.
AfterKill(P) == [p \in Turns |-> IF p \in P /\ os[p] = "up" THEN "dead" ELSE os[p]]

-----------------------------------------------------------------------------
(* Execute: getOrCreateSession, under e.mu *)

Ready(t) ==
    /\ pc[t] = "idle"
    /\ SessionOf[t] \notin archived
    /\ \A u \in Turns : SessionOf[u] = SessionOf[t] => pc[u] \notin Busy

Healthy(s) == sessions[s] # None /\ alive[sessions[s]]

\* Mutant: without a process in the map the conversation is not looked up.
ResumeID_MapOnly(s) == IF sessions[s] # None THEN claudeID[sessions[s]] ELSE None

\* The id for --resume: that of the dead process in the map, even when it has
\* none; without one in the map, the id in the request, read from the database.
ResumeID(s) == IF sessions[s] # None THEN claudeID[sessions[s]] ELSE stored[s]

\* A healthy session of the map is used again.
Reuse(t) ==
    LET p == sessions[SessionOf[t]] IN
    /\ Ready(t)
    /\ Healthy(SessionOf[t])
    /\ pc' = [pc EXCEPT ![t] = "sending"]
    /\ proc' = [proc EXCEPT ![t] = p]
    /\ UNCHANGED <<cancelled, answer, reported, outcome, executor, sessionVars, claudeVars>>

\* Mutant: the map is not consulted.
Restart_NoLookup(t) ==
    LET s == SessionOf[t]
        r == ResumeID(s)
    IN
    /\ Ready(t)
    /\ sessions' = [sessions EXCEPT ![s] = t]
    /\ proc' = [proc EXCEPT ![t] = t]
    /\ pc' = [pc EXCEPT ![t] = "sending"]
    /\ os' = [os EXCEPT ![t] = "up"]
    /\ conversation' = [conversation EXCEPT ![t] = IF r = None THEN t ELSE r]
    /\ claudeID' = [claudeID EXCEPT ![t] = r]
    /\ alive' = [alive EXCEPT ![t] = TRUE]
    /\ reader' = [reader EXCEPT ![t] = "scan"]
    /\ UNCHANGED <<cancelled, answer, reported, outcome, stored, archived, stopped, holding,
                   events, usage, stdin, saying, stdout, orphaned, transcript>>

\* No session, or a dead one, which is stopped and dropped first.
Restart(t) ==
    LET s == SessionOf[t]
        r == ResumeID(s)
    IN
    /\ Ready(t)
    /\ ~Healthy(s)
    /\ sessions' = [sessions EXCEPT ![s] = t]
    /\ proc' = [proc EXCEPT ![t] = t]
    /\ pc' = [pc EXCEPT ![t] = "sending"]
    /\ os' = [AfterKill({sessions[s]}) EXCEPT ![t] = "up"]
    /\ conversation' = [conversation EXCEPT ![t] = IF r = None THEN t ELSE r]
    /\ claudeID' = [claudeID EXCEPT ![t] = r]
    /\ alive' = [alive EXCEPT ![t] = TRUE]
    /\ reader' = [reader EXCEPT ![t] = "scan"]
    /\ UNCHANGED <<cancelled, answer, reported, outcome, stored, archived, stopped, holding,
                   events, usage, stdin, saying, stdout, orphaned, transcript>>

\* The process cannot be started: the map has lost the dead session all the same.
StartFails(t) ==
    LET s == SessionOf[t] IN
    /\ t \in Unreliable
    /\ Ready(t)
    /\ ~Healthy(s)
    /\ sessions' = [sessions EXCEPT ![s] = None]
    /\ os' = AfterKill({sessions[s]})
    /\ outcome' = [outcome EXCEPT ![t] = "unavailable"]
    /\ pc' = [pc EXCEPT ![t] = "over"]
    /\ UNCHANGED <<proc, cancelled, answer, reported, stored, archived, stopped, sessionVars,
                   stdin, saying, stdout, orphaned, conversation, transcript>>

(* sendUserMessage *)

Send(t) ==
    LET p == proc[t] IN
    /\ pc[t] = "sending"
    /\ os[p] = "up"
    /\ stdin' = [stdin EXCEPT ![p] = Append(@, t)]
    /\ pc' = [pc EXCEPT ![t] = "resetting"]
    /\ UNCHANGED <<proc, cancelled, answer, reported, outcome, executor, sessionVars,
                   os, saying, stdout, orphaned, conversation, transcript>>

\* A broken pipe: the session is marked dead for the next attempt.
SendFails(t) ==
    /\ pc[t] = "sending"
    /\ os[proc[t]] # "up"
    /\ alive' = [alive EXCEPT ![proc[t]] = FALSE]
    /\ outcome' = [outcome EXCEPT ![t] = "unsent"]
    /\ pc' = [pc EXCEPT ![t] = "over"]
    /\ UNCHANGED <<proc, cancelled, answer, reported, executor, reader, holding, events,
                   claudeID, usage, claudeVars>>

(* collectResult *)

\* resetTurnState, when the prompt is already with claude.
Reset(t) ==
    /\ pc[t] = "resetting"
    /\ usage' = [usage EXCEPT ![proc[t]] = None]
    /\ pc' = [pc EXCEPT ![t] = "collecting"]
    /\ UNCHANGED <<proc, cancelled, answer, reported, outcome, executor, reader, holding,
                   events, alive, claudeID, claudeVars>>

\* A result without error: persistResult of the caller stores the conversation.
StoredAfter(t) ==
    [stored EXCEPT ![SessionOf[t]] = IF claudeID[proc[t]] = None THEN @
                                     ELSE claudeID[proc[t]]]

\* Buffered events are received also after the channel was closed.
Collect(t) ==
    LET p == proc[t]
        e == Head(events[p])
    IN
    /\ pc[t] = "collecting"
    /\ events[p] # <<>>
    /\ events' = [events EXCEPT ![p] = Tail(@)]
    /\ answer' = [answer EXCEPT ![t] = @ \cup {e}]
    /\ IF e.kind = "result"
       THEN /\ reported' = [reported EXCEPT ![t] = usage[p]]
            /\ outcome' = [outcome EXCEPT ![t] = "result"]
            /\ pc' = [pc EXCEPT ![t] = "over"]
            /\ stored' = StoredAfter(t)
       ELSE UNCHANGED <<reported, outcome, pc, stored>>
    /\ UNCHANGED <<proc, cancelled, sessions, archived, stopped, reader, holding, alive,
                   claudeID, usage, claudeVars>>

\* events is closed and empty: "session closed unexpectedly".
CollectClosed(t) ==
    /\ pc[t] = "collecting"
    /\ reader[proc[t]] \in {"closed", "ended"}
    /\ events[proc[t]] = <<>>
    /\ outcome' = [outcome EXCEPT ![t] = "closed"]
    /\ pc' = [pc EXCEPT ![t] = "over"]
    /\ UNCHANGED <<proc, cancelled, answer, reported, executor, sessionVars, claudeVars>>

\* done is closed: what was collected so far is returned, and no error. The
\* select takes this case also while events are left in the buffer.
CollectDone(t) ==
    /\ pc[t] = "collecting"
    /\ reader[proc[t]] = "ended"
    /\ reported' = [reported EXCEPT ![t] = usage[proc[t]]]
    /\ outcome' = [outcome EXCEPT ![t] = "done"]
    /\ pc' = [pc EXCEPT ![t] = "over"]
    /\ stored' = StoredAfter(t)
    /\ UNCHANGED <<proc, cancelled, answer, sessions, archived, stopped, sessionVars, claudeVars>>

\* Mutant: the turn returns at once and leaves claude to its answer.
CollectCancelled_NoStop(t) ==
    /\ pc[t] = "collecting"
    /\ t \in cancelled
    /\ outcome' = [outcome EXCEPT ![t] = "canceled"]
    /\ pc' = [pc EXCEPT ![t] = "over"]
    /\ UNCHANGED <<proc, cancelled, answer, reported, executor, sessionVars, claudeVars>>

\* Mutant: the events are drained, but the process is not killed.
CollectCancelled_NoKill(t) ==
    /\ pc[t] = "collecting"
    /\ t \in cancelled
    /\ pc' = [pc EXCEPT ![t] = "draining"]
    /\ UNCHANGED <<proc, cancelled, answer, reported, outcome, executor, sessionVars, claudeVars>>

CollectCancelled(t) ==
    /\ pc[t] = "collecting"
    /\ t \in cancelled
    /\ os' = AfterKill({proc[t]})
    /\ pc' = [pc EXCEPT ![t] = "draining"]
    /\ UNCHANGED <<proc, cancelled, answer, reported, outcome, executor, sessionVars, stdin,
                   saying, stdout, orphaned, conversation, transcript>>

\* The events of the stopped process are thrown away, so that readLoop can end.
Drain(t) ==
    /\ pc[t] = "draining"
    /\ events[proc[t]] # <<>>
    /\ events' = [events EXCEPT ![proc[t]] = Tail(@)]
    /\ UNCHANGED <<turnVars, executor, reader, holding, alive, claudeID, usage, claudeVars>>

\* Mutant: the rest of the output is left unread.
DrainEnds_AtOnce(t) ==
    /\ pc[t] = "draining"
    /\ outcome' = [outcome EXCEPT ![t] = "canceled"]
    /\ pc' = [pc EXCEPT ![t] = "over"]
    /\ UNCHANGED <<proc, cancelled, answer, reported, executor, sessionVars, claudeVars>>

DrainEnds(t) ==
    /\ pc[t] = "draining"
    /\ \/ reader[proc[t]] \in {"closed", "ended"} /\ events[proc[t]] = <<>>
       \/ reader[proc[t]] = "ended"
    /\ outcome' = [outcome EXCEPT ![t] = "canceled"]
    /\ pc' = [pc EXCEPT ![t] = "over"]
    /\ UNCHANGED <<proc, cancelled, answer, reported, executor, sessionVars, claudeVars>>

\* /stop, a time limit of the caller, or the shutdown.
Cancel(t) ==
    /\ t \in Impatient
    /\ pc[t] \in Busy
    /\ cancelled' = cancelled \cup {t}
    /\ UNCHANGED <<pc, proc, answer, reported, outcome, executor, sessionVars, claudeVars>>

-----------------------------------------------------------------------------
(* readLoop *)

\* handleSystem stores the id, handleAssistant, handleUser and handleResult
\* send an event, handleResult after it has noted the token counts.
Scan(p) ==
    LET line == Head(stdout[p]) IN
    /\ reader[p] = "scan"
    /\ stdout[p] # <<>>
    /\ stdout' = [stdout EXCEPT ![p] = Tail(@)]
    /\ IF line.kind = "system"
       THEN /\ claudeID' = [claudeID EXCEPT ![p] = conversation[p]]
            /\ UNCHANGED <<reader, holding>>
       ELSE /\ reader' = [reader EXCEPT ![p] = "emit"]
            /\ holding' = [holding EXCEPT ![p] = line]
            /\ UNCHANGED claudeID
    /\ usage' = [usage EXCEPT ![p] = IF line.kind = "result" THEN line.turn ELSE @]
    /\ UNCHANGED <<turnVars, executor, events, alive, os, stdin, saying, orphaned,
                   conversation, transcript>>

\* The send blocks while the buffer is full: the other case of the select, done,
\* is only ever closed by readLoop itself.
Emit(p) ==
    /\ reader[p] = "emit"
    /\ Len(events[p]) < EventsCap
    /\ events' = [events EXCEPT ![p] = Append(@, holding[p])]
    /\ holding' = [holding EXCEPT ![p] = None]
    /\ reader' = [reader EXCEPT ![p] = "scan"]
    /\ UNCHANGED <<turnVars, executor, alive, claudeID, usage, claudeVars>>

\* End of file, or a line beyond the 10 MB of the scanner: the deferred function
\* of readLoop first marks the session dead.
ReadEnds(p) ==
    /\ reader[p] = "scan"
    /\ \/ os[p] = "dead" /\ stdout[p] = <<>> /\ p \notin orphaned
       \/ p \in Unreliable /\ stdout[p] # <<>> /\ Head(stdout[p]).kind = "text"
    /\ alive' = [alive EXCEPT ![p] = FALSE]
    /\ reader' = [reader EXCEPT ![p] = "waiting"]
    /\ UNCHANGED <<turnVars, executor, holding, events, claudeID, usage, claudeVars>>

\* cmd.Wait() returns and events is closed, then done.
CloseEvents(p) ==
    /\ reader[p] = "waiting"
    /\ os[p] = "dead"
    /\ reader' = [reader EXCEPT ![p] = "closed"]
    /\ UNCHANGED <<turnVars, executor, holding, events, alive, claudeID, usage, claudeVars>>

CloseDone(p) ==
    /\ reader[p] = "closed"
    /\ reader' = [reader EXCEPT ![p] = "ended"]
    /\ UNCHANGED <<turnVars, executor, holding, events, alive, claudeID, usage, claudeVars>>

-----------------------------------------------------------------------------
(* The rest of the executor, each under e.mu *)

\* reapDeadSessions, every 30 seconds until Stop.
Reap ==
    LET dead == {p \in Turns : ~alive[p] /\ \E s \in Sessions : sessions[s] = p} IN
    /\ ~stopped
    /\ dead # {}
    /\ sessions' = [s \in Sessions |-> IF sessions[s] \in dead THEN None ELSE sessions[s]]
    /\ os' = AfterKill(dead)
    /\ UNCHANGED <<turnVars, stored, archived, stopped, sessionVars, stdin, saying, stdout,
                   orphaned, conversation, transcript>>

\* RemoveSession, by /new and by the runs that use a session only once. The
\* session gets no turn afterwards.
RemoveSession(s) ==
    /\ s \notin archived
    /\ \A t \in Turns : SessionOf[t] = s => pc[t] \notin Busy
    /\ archived' = archived \cup {s}
    /\ sessions' = [sessions EXCEPT ![s] = None]
    /\ os' = AfterKill({sessions[s]})
    /\ UNCHANGED <<turnVars, stored, stopped, sessionVars, stdin, saying, stdout, orphaned,
                   conversation, transcript>>

\* Stop; the sessions stay in the map.
Stop ==
    /\ ~stopped
    /\ stopped' = TRUE
    /\ os' = AfterKill({sessions[s] : s \in Sessions})
    /\ UNCHANGED <<turnVars, sessions, stored, archived, sessionVars, stdin, saying, stdout,
                   orphaned, conversation, transcript>>

-----------------------------------------------------------------------------
(* The claude process *)

ReadPrompt(p) ==
    LET t == Head(stdin[p]) IN
    /\ os[p] = "up"
    /\ saying[p] = <<>>
    /\ stdin[p] # <<>>
    /\ stdin' = [stdin EXCEPT ![p] = Tail(@)]
    /\ saying' = [saying EXCEPT ![p] = Answer(t)]
    /\ transcript' = [transcript EXCEPT ![conversation[p]] = @ \cup {t}]
    /\ UNCHANGED <<turnVars, executor, sessionVars, os, stdout, orphaned, conversation>>

Say(p) ==
    /\ os[p] = "up"
    /\ saying[p] # <<>>
    /\ stdout' = [stdout EXCEPT ![p] = Append(@, Head(saying[p]))]
    /\ saying' = [saying EXCEPT ![p] = Tail(@)]
    /\ UNCHANGED <<turnVars, executor, sessionVars, os, stdin, orphaned, conversation,
                   transcript>>

\* A tool starts a background process that inherits stdout.
LeaveChild(p) ==
    /\ Grandchildren
    /\ os[p] = "up"
    /\ orphaned' = orphaned \cup {p}
    /\ UNCHANGED <<turnVars, executor, sessionVars, os, stdin, saying, stdout, conversation,
                   transcript>>

Die(p) ==
    /\ p \in Unreliable
    /\ os[p] = "up"
    /\ os' = [os EXCEPT ![p] = "dead"]
    /\ UNCHANGED <<turnVars, executor, sessionVars, stdin, saying, stdout, orphaned,
                   conversation, transcript>>

-----------------------------------------------------------------------------
TurnStep(t) ==
    \/ Send(t) \/ SendFails(t) \/ Reset(t)
    \/ Collect(t) \/ CollectClosed(t) \/ CollectDone(t)
    \/ CollectCancelled(t) \/ Drain(t) \/ DrainEnds(t)

ReaderStep(p) == Scan(p) \/ Emit(p) \/ ReadEnds(p) \/ CloseEvents(p) \/ CloseDone(p)

Next ==
    \/ \E t \in Turns : Reuse(t) \/ Restart(t) \/ StartFails(t) \/ TurnStep(t) \/ Cancel(t)
    \/ \E p \in Turns : ReaderStep(p) \/ ReadPrompt(p) \/ Say(p) \/ LeaveChild(p) \/ Die(p)
    \/ \E s \in Sessions : RemoveSession(s)
    \/ Reap
    \/ Stop

Spec == Init /\ [][Next]_vars

\* The goroutines of the turns and of readLoop run; nothing makes claude answer
\* or die, users cancel, or the reaper's ticker matter.
Fairness ==
    /\ \A t \in Turns : WF_vars(TurnStep(t))
    /\ \A p \in Turns : WF_vars(ReaderStep(p))

FairSpec == Spec /\ Fairness

-----------------------------------------------------------------------------
\* Every variable keeps its shape: what Execute returns is one of its results, and
\* an events channel never holds more than its capacity.
TypeOK ==
    /\ pc \in [Turns -> Busy \cup {"idle", "over"}]
    /\ proc \in [Turns -> Turns \cup {None}]
    /\ cancelled \subseteq Turns
    /\ answer \in [Turns -> SUBSET Lines]
    /\ reported \in [Turns -> Turns \cup {None}]
    /\ outcome \in [Turns -> {None, "result", "done", "closed", "canceled", "unsent",
                              "unavailable"}]
    /\ sessions \in [Sessions -> Turns \cup {None}]
    /\ stored \in [Sessions -> Turns \cup {None}]
    /\ archived \subseteq Sessions
    /\ stopped \in BOOLEAN
    /\ reader \in [Turns -> {"none", "scan", "emit", "waiting", "closed", "ended"}]
    /\ holding \in [Turns -> Lines \cup {None}]
    /\ events \in [Turns -> Seq(Lines)]
    /\ \A p \in Turns : Len(events[p]) <= EventsCap
    /\ alive \in [Turns -> BOOLEAN]
    /\ claudeID \in [Turns -> Turns \cup {None}]
    /\ usage \in [Turns -> Turns \cup {None}]
    /\ os \in [Turns -> {"none", "up", "dead"}]
    /\ stdin \in [Turns -> Seq(Turns)]
    /\ saying \in [Turns -> Seq(Lines)]
    /\ stdout \in [Turns -> Seq(Lines)]
    /\ orphaned \subseteq Turns
    /\ conversation \in [Turns -> Turns \cup {None}]
    /\ transcript \in [Turns -> SUBSET Turns]

(* Invariants *)

\* collectResult: a turn that returns at a result event returns all of the answer
\* to its own prompt and nothing of another turn's, however turns before it were
\* cancelled, failed or were cut off.
AnswerIsOwn ==
    \A t \in Turns :
        outcome[t] = "result" => answer[t] = {Line("text", t), Line("result", t)}

\* getOrCreateSession, RemoveSession, reapDeadSessions: whatever becomes of the
\* sessions, no two claude processes run in one session directory at a time.
OneProcessPerSession ==
    \A p, q \in Turns :
        os[p] = "up" /\ os[q] = "up" /\ SessionOf[p] = SessionOf[q] => p = q

\* A process that runs is the one that the map names for its session: whoever
\* takes a process out of the map, or puts another in its place, kills it first.
UpIsFiled == \A p \in Turns : os[p] = "up" => sessions[SessionOf[p]] = p

\* A turn at work has a process, and a reader about to send has an event.
HandsFull ==
    /\ \A t \in Turns : pc[t] \in Busy => proc[t] \in Turns
    /\ \A p \in Turns : reader[p] = "emit" => holding[p] \in Lines

\* The processes and what the executor remembers of them: an inductive invariant.
ProcessInv == TypeOK /\ HandsFull /\ UpIsFiled /\ OneProcessPerSession

(* What stands behind AnswerIsOwn *)

\* The lines between claude and the turn: in the buffer, in the hands of readLoop, in
\* the pipe, and still to be printed.
Held(p) == IF reader[p] = "emit" THEN <<holding[p]>> ELSE <<>>
Pipe(p) == events[p] \o (Held(p) \o (stdout[p] \o saying[p]))

\* readLoop passes on what claude says, but not its "system" line.
PassedOn ==
    \A p \in Turns :
        /\ reader[p] = "emit" => holding[p].kind # "system"
        /\ \A i \in 1 .. Len(events[p]) : events[p][i].kind # "system"

\* Nothing was asked of p and nothing comes from it.
Quiet(p) == stdin[p] = <<>> /\ Pipe(p) = <<>>

\* The turns of a session come one at a time, and work with a process of their own
\* session; the map names no other for it either.
OwnProcess ==
    /\ \A t, u \in Turns :
           SessionOf[t] = SessionOf[u] /\ pc[t] \in Busy /\ pc[u] \in Busy => t = u
    /\ \A t \in Turns : pc[t] \in Busy =>
           SessionOf[proc[t]] = SessionOf[t] /\ pc[proc[t]] # "idle"
    /\ \A s \in Sessions : sessions[s] # None =>
           SessionOf[sessions[s]] = s /\ pc[sessions[s]] # "idle"

\* A reader that has come to the end has said so before.
EndIsKnown ==
    \A p \in Turns : reader[p] \in {"waiting", "closed", "ended"} => ~alive[p]

\* Before its prompt is sent a turn has no answer and its process is quiet; before it
\* has begun, the process it may start is.
Unasked ==
    \A t \in Turns :
        /\ pc[t] \in {"idle", "sending"} => answer[t] = {}
        /\ pc[t] = "idle" => Quiet(t)
        /\ pc[t] = "sending" => Quiet(proc[t])
        /\ outcome[t] = "result" => pc[t] = "over"

\* What turn t has and what is on its way make up its answer.
Flow(t) ==
    LET p == proc[t] IN
    \/ stdin[p] = <<t>> /\ Pipe(p) = <<>> /\ answer[t] = {}
    \/ stdin[p] = <<>> /\ Pipe(p) = Answer(t) /\ answer[t] = {}
    \/ /\ stdin[p] = <<>> /\ answer[t] = {}
       /\ Pipe(p) = <<Line("text", t), Line("result", t)>>
    \/ /\ stdin[p] = <<>> /\ answer[t] = {Line("text", t)}
       /\ Pipe(p) = <<Line("result", t)>>

Flows == \A t \in Turns : pc[t] \in {"resetting", "collecting"} => Flow(t)

\* A process that the next turn may use again was left quiet by the one before.
LeftQuiet ==
    \A p \in Turns :
        /\ alive[p]
        /\ \A t \in Turns : proc[t] = p => pc[t] \notin Busy
        => Quiet(p)

AnswerInv ==
    PassedOn /\ OwnProcess /\ EndIsKnown /\ Unasked /\ Flows /\ LeftQuiet /\ AnswerIsOwn

(* What stands behind KeepsConversation *)

Answered(s) == {t \in Turns : SessionOf[t] = s /\ outcome[t] = "result"}

\* Process p carries on the conversation of session s, and the executor knows which
\* it is as soon as a turn was answered.
CarriesOn(p, s) ==
    /\ conversation[p] \in Turns
    /\ Answered(s) \subseteq transcript[conversation[p]]
    /\ Answered(s) # {} => claudeID[p] # None

\* So does every process that the map names or a turn works with: of a session at
\* most one.
UsedCarryOn ==
    /\ \A s \in Sessions : sessions[s] # None => CarriesOn(sessions[s], s)
    /\ \A t \in Turns : pc[t] \in Busy =>
           CarriesOn(proc[t], SessionOf[t]) /\ sessions[SessionOf[t]] \in {None, proc[t]}

\* ... and the conversation that the database names for the session.
StoredCarriesOn ==
    \A s \in Sessions : Answered(s) # {} =>
        stored[s] # None /\ Answered(s) \subseteq transcript[stored[s]]

\* The id of a conversation is its own.
KnowsItself == \A p \in Turns : claudeID[p] \in {None, conversation[p]}

\* A prompt that claude has read is in its conversation, and the executor knows which
\* that is once it has read the "system" line.
PromptIsKept ==
    \A t \in Turns : pc[t] \in {"resetting", "collecting"} /\ stdin[proc[t]] = <<>> =>
        /\ t \in transcript[conversation[proc[t]]]
        /\ Pipe(proc[t]) # Answer(t) => claudeID[proc[t]] # None

KeepInv == UsedCarryOn /\ StoredCarriesOn /\ KnowsItself /\ PromptIsKept

(* Action properties *)

\* requirements.md, "reuse Claude's own session context through --resume": the conversation that answers a
\* turn contains every turn of the session that was answered before, also when
\* its process died, was reaped or was stopped in between.
KeepsConversation ==
    [][\A t \in Turns :
          outcome[t] = None /\ outcome'[t] = "result" =>
              \A u \in Turns :
                  SessionOf[u] = SessionOf[t] /\ outcome[u] = "result" =>
                      u \in transcript[conversation[proc[t]]]]_vars

(* Liveness *)

\* A turn whose context is done returns: with its answer, or after the process
\* was killed and its output read to the end, unless a child that the killed
\* process left behind keeps its stdout open (SIGKILL reaches claude alone).
CancelReturns ==
    \A t \in Turns : t \in cancelled ~> pc[t] = "over" \/ proc[t] \in orphaned

\* The goroutine that reads a dead process ends, and with it the zombie is waited
\* for: no event it still has to send stays unread, unless a child that was left
\* behind keeps the stdout open.
ReadersEnd ==
    \A p \in Turns : os[p] = "dead" ~> reader[p] = "ended" \/ p \in orphaned

(* What a comment or a document says of the code, and is not so *)

\* interactive.go: "collectResult drains events until a result event or
\* timeout/cancellation." No error means that claude has answered.
NoErrorMeansResult ==
    \A t \in Turns : outcome[t] = "done" => Line("result", t) \in answer[t]

\* manager.go answers /stop with "the current execution has been stopped": the
\* turn ends, whatever the tools that claude started are doing.
CancelReturnsAlways == \A t \in Turns : t \in cancelled ~> pc[t] = "over"

\* interactive.go: "Accumulated state for the current turn". A turn that was
\* answered returns the token counts of its own answer.
ReportsOwnUsage ==
    \A t \in Turns : outcome[t] = "result" => reported[t] = t
=============================================================================
