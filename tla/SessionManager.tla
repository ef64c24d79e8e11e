--------------------------- MODULE SessionManager ---------------------------
(***************************************************************************)
(* internal/session: the Manager that routes Feishu messages to per-channel *)
(* Workers, the Workers' goroutines, the /stop command and the shutdown     *)
(* sequence of cmd/server/main.go.                                          *)
(*                                                                          *)
(* The Feishu SDK may call Manager.Dispatch from several goroutines at      *)
(* once, so Dispatch is split where another goroutine can get in between:   *)
(* after isDuplicate released recentMu, between the two Loads of            *)
(* getOrCreateWorker, while mu is held, and before the send on the queue.   *)
(* What a worker does with a message (process) is kept as: the part before  *)
(* the Claude run that /stop can reach, that run, and the part after it;    *)
(* the sessions and replies inside are the business of other modules.       *)
(*                                                                          *)
(* A worker is named by the message whose dispatch created it: a dispatch   *)
(* creates at most one worker, so the name is as good as its pointer.       *)
(***************************************************************************)
EXTENDS Naturals, Sequences, FiniteSets

CONSTANTS
    Events,       \* deliveries by the Feishu SDK, re-deliveries included
    Channels,     \* channel keys
    MessageIDs,   \* Feishu message ids
    ChannelOf,    \* Events -> Channels
    IdOf,         \* Events -> MessageIDs
    Stops,        \* the deliveries whose text is "/stop"
    QueueCap,     \* capacity of Worker.queue (64)
    RecentCap,    \* size at which recentMsgIDs is reset (10000)
    Window,       \* duplicateWindow, in ticks of the clock
    MaxTime,      \* bound of the model on the clock
    None

ASSUME EventsAssumption ==
    /\ ChannelOf \in [Events -> Channels]
    /\ IdOf \in [Events -> MessageIDs]
    /\ Stops \subseteq Events
    /\ IsFiniteSet(Events)
    /\ None \notin Events

ASSUME NoneAssumption == None \notin Nat /\ None \notin {"answered", "canceled"}

ASSUME BoundsAssumption ==
    /\ QueueCap \in Nat \ {0}
    /\ RecentCap \in Nat
    /\ Window \in Nat
    /\ MaxTime \in Nat

VARIABLES
    \* Dispatch, one goroutine per delivery
    stage,            \* stage[e]: how far delivery e has come
    target,           \* target[e]: the *Worker its goroutine holds
    taken,            \* taken[s]: the run whose cancel func /stop s took
    \* Manager
    now,              \* the clock
    recentMsgIDs,     \* recentMsgIDs[i]: when id i was recorded, None if it is not
    acceptedAt,       \* acceptedAt[e]: when e passed isDuplicate (history)
    workers,          \* workers[c]: the sync.Map entry of channel c
    mu,               \* the holder of Manager.mu
    wg,               \* the counter of Manager.wg
    \* Worker
    wpc,              \* wpc[w]: where worker w's goroutine is
    queue,            \* queue[w]: the buffered channel Worker.queue
    current,          \* current[w]: the message process is working on
    expired,          \* expired[w]: the idle timer has fired and was not drained
    currentRunCancel, \* currentRunCancel[w]: the run that can be cancelled
    outcome,          \* outcome[w]: what Execute returned to worker w
    cancelled,        \* runs whose context /stop has cancelled
    \* main
    ctxDone,          \* the root context is cancelled
    main              \* where run() of cmd/server is

dispatchVars == <<stage, target, taken>>
dedupVars    == <<now, recentMsgIDs, acceptedAt>>
registryVars == <<workers, mu, wg>>
workerVars   == <<wpc, queue, current, expired, currentRunCancel, outcome>>
mainVars     == <<ctxDone, main>>
vars == <<dispatchVars, dedupVars, registryVars, workerVars, cancelled, mainVars>>

Stages == {"unsent", "duplicate", "lookup", "lock", "store", "send", "dropped",
           "queued", "serving", "done",
           "stopping", "taking", "cancelling", "acked", "noRun"}

\* "select" is the select of Worker.run, "process" and "run" are the parts of
\* Worker.process before and during the Claude run, "finish" is between the
\* return of Execute and finishRun, "reply" and "retry" come after it, and
\* "returned" and "deregister" are the two halves of onExit.
WorkerStates == {"unborn", "select", "process", "run", "finish", "reply", "retry",
                 "returned", "deregister", "gone"}

Processing == {"process", "run", "finish", "reply", "retry"}
Serving    == {"select"} \cup Processing        \* the loop of Worker.run
Tracked    == Serving \cup {"returned"}         \* counted by wg
Alive      == Tracked \cup {"deregister"}       \* not yet out of the sync.Map

Init ==
    /\ stage = [e \in Events |-> "unsent"]
    /\ target = [e \in Events |-> None]
    /\ taken = [e \in Events |-> None]
    /\ now = 0
    /\ recentMsgIDs = [i \in MessageIDs |-> None]
    /\ acceptedAt = [e \in Events |-> None]
    /\ workers = [c \in Channels |-> None]
    /\ mu = None
    /\ wg = 0
    /\ wpc = [w \in Events |-> "unborn"]
    /\ queue = [w \in Events |-> <<>>]
    /\ current = [w \in Events |-> None]
    /\ expired = [w \in Events |-> FALSE]
    /\ currentRunCancel = [w \in Events |-> None]
    /\ outcome = [w \in Events |-> None]
    /\ cancelled = {}
    /\ ctxDone = FALSE
    /\ main = "serving"

\* Delivery e, or worker w, is at the given place, and the process still runs.
At(e, place) == main # "exited" /\ stage[e] = place
On(w, place) == main # "exited" /\ wpc[w] = place

-----------------------------------------------------------------------------
(* Manager.Dispatch *)

\* Mutant: the window is one tick short.
SeenRecently_ShortWindow(i) == recentMsgIDs[i] # None /\ now - recentMsgIDs[i] + 1 < Window

SeenRecently(i) == recentMsgIDs[i] # None /\ now - recentMsgIDs[i] < Window

\* recentMsgIDs after id i was recorded: emptied, the new entry included, when
\* it has grown beyond RecentCap. Expired entries are never evicted one by one.
Recorded(i) ==
    LET m == [recentMsgIDs EXCEPT ![i] = now] IN
    IF Cardinality({j \in MessageIDs : m[j] # None}) > RecentCap
    THEN [j \in MessageIDs |-> None]
    ELSE m

AfterDedup(e) == IF e \in Stops THEN "stopping" ELSE "lookup"

\* isDuplicate is one critical section of recentMu; handleImmediateBuiltInCommand
\* then sends "/stop" one way and everything else to getOrCreateWorker.
Receive(e) ==
    /\ At(e, "unsent")
    /\ IF SeenRecently(IdOf[e])
       THEN /\ stage' = [stage EXCEPT ![e] = "duplicate"]
            /\ UNCHANGED <<recentMsgIDs, acceptedAt>>
       ELSE /\ stage' = [stage EXCEPT ![e] = AfterDedup(e)]
            /\ recentMsgIDs' = Recorded(IdOf[e])
            /\ acceptedAt' = [acceptedAt EXCEPT ![e] = now]
    /\ UNCHANGED <<target, taken, now, registryVars, workerVars, cancelled, mainVars>>

Tick ==
    /\ main # "exited"
    /\ now < MaxTime
    /\ now' = now + 1
    /\ UNCHANGED <<dispatchVars, recentMsgIDs, acceptedAt, registryVars, workerVars,
                   cancelled, mainVars>>

\* The first workers.Load of getOrCreateWorker, without the lock.
Lookup(e) ==
    LET w == workers[ChannelOf[e]] IN
    /\ At(e, "lookup")
    /\ target' = [target EXCEPT ![e] = w]
    /\ stage' = [stage EXCEPT ![e] = IF w = None THEN "lock" ELSE "send"]
    /\ UNCHANGED <<taken, dedupVars, registryVars, workerVars, cancelled, mainVars>>

\* Mutant: mu is taken, but the map is not looked at again.
LockAndCheck_NoDoubleCheck(e) ==
    /\ At(e, "lock")
    /\ mu = None
    /\ stage' = [stage EXCEPT ![e] = "store"]
    /\ mu' = e
    /\ UNCHANGED <<target, taken, dedupVars, workers, wg, workerVars, cancelled, mainVars>>

\* mu.Lock and the double check. The app and its sender are always known: every
\* receiver is built, with its sender, for an app of the configuration.
LockAndCheck(e) ==
    LET w == workers[ChannelOf[e]] IN
    /\ At(e, "lock")
    /\ mu = None
    /\ target' = [target EXCEPT ![e] = w]
    /\ stage' = [stage EXCEPT ![e] = IF w = None THEN "store" ELSE "send"]
    /\ mu' = IF w = None THEN e ELSE None
    /\ UNCHANGED <<taken, dedupVars, workers, wg, workerVars, cancelled, mainVars>>

\* Mutant: the goroutine is started without wg.Add(1).
StoreWorker_NoAdd(e) ==
    /\ At(e, "store")
    /\ workers' = [workers EXCEPT ![ChannelOf[e]] = e]
    /\ wpc' = [wpc EXCEPT ![e] = "select"]
    /\ mu' = None
    /\ target' = [target EXCEPT ![e] = e]
    /\ stage' = [stage EXCEPT ![e] = "send"]
    /\ UNCHANGED <<taken, dedupVars, wg, queue, current, expired, currentRunCancel,
                   outcome, cancelled, mainVars>>

\* Still under mu: ensureChannel, newWorker, workers.Store, wg.Add(1), go run.
StoreWorker(e) ==
    /\ At(e, "store")
    /\ workers' = [workers EXCEPT ![ChannelOf[e]] = e]
    /\ wg' = wg + 1
    /\ wpc' = [wpc EXCEPT ![e] = "select"]
    /\ mu' = None
    /\ target' = [target EXCEPT ![e] = e]
    /\ stage' = [stage EXCEPT ![e] = "send"]
    /\ UNCHANGED <<taken, dedupVars, queue, current, expired, currentRunCancel,
                   outcome, cancelled, mainVars>>

\* The non-blocking send. The queue is a buffered channel that is never closed:
\* the send succeeds whether or not anybody will ever receive from it.
Send(e) ==
    LET w == target[e] IN
    /\ At(e, "send")
    /\ IF Len(queue[w]) < QueueCap
       THEN /\ queue' = [queue EXCEPT ![w] = Append(@, e)]
            /\ stage' = [stage EXCEPT ![e] = "queued"]
       ELSE /\ stage' = [stage EXCEPT ![e] = "dropped"]
            /\ UNCHANGED queue
    /\ UNCHANGED <<target, taken, dedupVars, registryVars, wpc, current, expired,
                   currentRunCancel, outcome, cancelled, mainVars>>

-----------------------------------------------------------------------------
(* Manager.handleStop and Worker.stopCurrentExecution *)

StopLoad(e) ==
    LET w == workers[ChannelOf[e]] IN
    /\ At(e, "stopping")
    /\ target' = [target EXCEPT ![e] = w]
    /\ stage' = [stage EXCEPT ![e] = IF w = None THEN "noRun" ELSE "taking"]
    /\ UNCHANGED <<taken, dedupVars, registryVars, workerVars, cancelled, mainVars>>

\* Mutant: the cancel func is read but not cleared.
StopTake_NotCleared(e) ==
    LET w == target[e] IN
    /\ At(e, "taking")
    /\ taken' = [taken EXCEPT ![e] = currentRunCancel[w]]
    /\ stage' = [stage EXCEPT ![e] =
                    IF currentRunCancel[w] = None THEN "noRun" ELSE "cancelling"]
    /\ UNCHANGED <<target, dedupVars, registryVars, workerVars, cancelled, mainVars>>

\* Under currentRunMu: read the cancel func and clear it.
StopTake(e) ==
    LET w == target[e] IN
    /\ At(e, "taking")
    /\ taken' = [taken EXCEPT ![e] = currentRunCancel[w]]
    /\ currentRunCancel' = [currentRunCancel EXCEPT ![w] = None]
    /\ stage' = [stage EXCEPT ![e] =
                    IF currentRunCancel[w] = None THEN "noRun" ELSE "cancelling"]
    /\ UNCHANGED <<target, dedupVars, registryVars, wpc, queue, current, expired,
                   outcome, cancelled, mainVars>>

\* Mutant: what the worker is working on by now is cancelled.
StopCancel_Current(e) ==
    /\ At(e, "cancelling")
    /\ cancelled' = cancelled \cup ({current[target[e]]} \ {None})
    /\ stage' = [stage EXCEPT ![e] = "acked"]
    /\ UNCHANGED <<target, taken, dedupVars, registryVars, workerVars, mainVars>>

\* Mutant: the user is told, but cancel() is not called.
StopCancel_Forgotten(e) ==
    /\ At(e, "cancelling")
    /\ stage' = [stage EXCEPT ![e] = "acked"]
    /\ UNCHANGED <<target, taken, dedupVars, registryVars, workerVars, cancelled, mainVars>>

\* cancel(), after currentRunMu is released, and the reply to the user.
StopCancel(e) ==
    /\ At(e, "cancelling")
    /\ cancelled' = cancelled \cup {taken[e]}
    /\ stage' = [stage EXCEPT ![e] = "acked"]
    /\ UNCHANGED <<target, taken, dedupVars, registryVars, workerVars, mainVars>>

-----------------------------------------------------------------------------
(* Worker.run and the outline of Worker.process *)

\* The idle timer fires: also while process is working on a message, because
\* the timer was reset before process was called.
TimerFires(w) ==
    /\ main # "exited"
    /\ wpc[w] \in Serving
    /\ ~expired[w]
    /\ expired' = [expired EXCEPT ![w] = TRUE]
    /\ UNCHANGED <<dispatchVars, dedupVars, registryVars, wpc, queue, current,
                   currentRunCancel, outcome, cancelled, mainVars>>

\* The queue case of the select; timer.Stop, the drain and timer.Reset.
TakeMessage(w) ==
    /\ On(w, "select")
    /\ queue[w] # <<>>
    /\ current' = [current EXCEPT ![w] = Head(queue[w])]
    /\ queue' = [queue EXCEPT ![w] = Tail(@)]
    /\ expired' = [expired EXCEPT ![w] = FALSE]
    /\ wpc' = [wpc EXCEPT ![w] = "process"]
    /\ stage' = [stage EXCEPT ![Head(queue[w])] = "serving"]
    /\ UNCHANGED <<target, taken, dedupVars, registryVars, currentRunCancel, outcome,
                   cancelled, mainVars>>

\* The timer case and the ctx.Done case. When several cases of a select are
\* ready Go picks one at random: both are enabled with messages in the queue.
\* (stopCh, the fourth case, is never closed.)
IdleExit(w) ==
    /\ On(w, "select")
    /\ expired[w]
    /\ wpc' = [wpc EXCEPT ![w] = "returned"]
    /\ UNCHANGED <<dispatchVars, dedupVars, registryVars, queue, current, expired,
                   currentRunCancel, outcome, cancelled, mainVars>>

\* Mutant: the context is only looked at when the idle timer has fired.
CtxExit_AfterTimer(w) ==
    /\ On(w, "select")
    /\ ctxDone
    /\ expired[w]
    /\ wpc' = [wpc EXCEPT ![w] = "returned"]
    /\ UNCHANGED <<dispatchVars, dedupVars, registryVars, queue, current, expired,
                   currentRunCancel, outcome, cancelled, mainVars>>

CtxExit(w) ==
    /\ On(w, "select")
    /\ ctxDone
    /\ wpc' = [wpc EXCEPT ![w] = "returned"]
    /\ UNCHANGED <<dispatchVars, dedupVars, registryVars, queue, current, expired,
                   currentRunCancel, outcome, cancelled, mainVars>>

\* process is over: back to the select of run.
MessageDone(w) ==
    /\ wpc' = [wpc EXCEPT ![w] = "select"]
    /\ stage' = [stage EXCEPT ![current[w]] = "done"]
    /\ current' = [current EXCEPT ![w] = None]
    /\ outcome' = [outcome EXCEPT ![w] = None]
    /\ UNCHANGED <<target, taken, dedupVars, registryVars, queue, expired,
                   currentRunCancel, cancelled, mainVars>>

\* process returns before the Claude run: a command, a probe that says to stay
\* silent, an attachment without text, a schedule operation, a database error.
EndWithoutRun(w) ==
    /\ On(w, "process")
    /\ MessageDone(w)

\* beginCurrentRun. Its currentRunID only tells this run from a later one of
\* the same worker, and a worker begins at most one run per message.
BeginRun(w) ==
    /\ On(w, "process")
    /\ currentRunCancel' = [currentRunCancel EXCEPT ![w] = current[w]]
    /\ wpc' = [wpc EXCEPT ![w] = "run"]
    /\ UNCHANGED <<dispatchVars, dedupVars, registryVars, queue, current, expired,
                   outcome, cancelled, mainVars>>

\* The context of worker w's run is done, by /stop or by the shutdown.
RunCancelled(w) == ctxDone \/ current[w] \in cancelled

\* Execute returns: an answer (or an error) also when the context is done, if
\* the result got there first; context.Canceled only when it is done.
ExecuteReturns(w) ==
    /\ On(w, "run")
    /\ \/ outcome' = [outcome EXCEPT ![w] = "answered"]
       \/ RunCancelled(w) /\ outcome' = [outcome EXCEPT ![w] = "canceled"]
    /\ wpc' = [wpc EXCEPT ![w] = "finish"]
    /\ UNCHANGED <<dispatchVars, dedupVars, registryVars, queue, current, expired,
                   currentRunCancel, cancelled, mainVars>>

\* The deferred finishRun.
FinishRun(w) ==
    /\ On(w, "finish")
    /\ currentRunCancel' = [currentRunCancel EXCEPT ![w] = None]
    /\ wpc' = [wpc EXCEPT ![w] = "reply"]
    /\ UNCHANGED <<dispatchVars, dedupVars, registryVars, queue, current, expired,
                   outcome, cancelled, mainVars>>

\* replyCanceled, replyError or finishAndSendResult.
Reply(w) ==
    /\ On(w, "reply")
    /\ MessageDone(w)

\* An empty answer: finishAndSendResult summarises the session and runs Claude
\* again, on ctx and not on the run's context.
StartRetry(w) ==
    /\ On(w, "reply")
    /\ outcome[w] = "answered"
    /\ wpc' = [wpc EXCEPT ![w] = "retry"]
    /\ UNCHANGED <<dispatchVars, dedupVars, registryVars, queue, current, expired,
                   currentRunCancel, outcome, cancelled, mainVars>>

EndRetry(w) ==
    /\ On(w, "retry")
    /\ MessageDone(w)

\* Mutant: before the shutdown, a worker that leaves waits until somebody has
\* emptied its queue.
Done_WhenDrained(w) ==
    /\ On(w, "returned")
    /\ queue[w] = <<>> \/ ctxDone
    /\ wg' = wg - 1
    /\ wpc' = [wpc EXCEPT ![w] = "deregister"]
    /\ UNCHANGED <<dispatchVars, dedupVars, workers, mu, queue, current, expired,
                   currentRunCancel, outcome, cancelled, mainVars>>

\* onExit: wg.Done(), then workers.Delete(channelKey).
Done(w) ==
    /\ On(w, "returned")
    /\ wg' = wg - 1
    /\ wpc' = [wpc EXCEPT ![w] = "deregister"]
    /\ UNCHANGED <<dispatchVars, dedupVars, workers, mu, queue, current, expired,
                   currentRunCancel, outcome, cancelled, mainVars>>

Deregister(w) ==
    /\ On(w, "deregister")
    /\ workers' = [workers EXCEPT ![ChannelOf[w]] = None]
    /\ wpc' = [wpc EXCEPT ![w] = "gone"]
    /\ UNCHANGED <<dispatchVars, dedupVars, mu, wg, queue, current, expired,
                   currentRunCancel, outcome, cancelled, mainVars>>

-----------------------------------------------------------------------------
(* run() of cmd/server/main.go *)

\* SIGINT or SIGTERM cancels the root context.
Signal ==
    /\ main = "serving"
    /\ ctxDone' = TRUE
    /\ main' = "waiting"
    /\ UNCHANGED <<dispatchVars, dedupVars, registryVars, workerVars, cancelled>>

\* sessionMgr.Wait() returns.
WaitReturns ==
    /\ main = "waiting"
    /\ wg = 0
    /\ main' = "stopping"
    /\ UNCHANGED <<dispatchVars, dedupVars, registryVars, workerVars, cancelled, ctxDone>>

\* executor.Stop(), scheduleSvc.Stop(), httpServer.Shutdown, and the process
\* ends with every goroutine that is left.
Exit ==
    /\ main = "stopping"
    /\ main' = "exited"
    /\ UNCHANGED <<dispatchVars, dedupVars, registryVars, workerVars, cancelled, ctxDone>>

Exited ==
    /\ main = "exited"
    /\ UNCHANGED vars

-----------------------------------------------------------------------------
DispatchStep(e) ==
    \/ Lookup(e) \/ LockAndCheck(e) \/ StoreWorker(e) \/ Send(e)
    \/ StopLoad(e) \/ StopTake(e) \/ StopCancel(e)

WorkerStep(w) ==
    \/ TakeMessage(w) \/ IdleExit(w) \/ CtxExit(w)
    \/ FinishRun(w) \/ Reply(w) \/ StartRetry(w)
    \/ Done(w) \/ Deregister(w)

\* The steps that wait for a Claude process to answer: the probe and the
\* schedule intent before the run, the run, and the retry after it.
ClaudeStep(w) ==
    BeginRun(w) \/ EndWithoutRun(w) \/ ExecuteReturns(w) \/ EndRetry(w)

Next ==
    \/ Tick
    \/ \E e \in Events : Receive(e) \/ DispatchStep(e)
    \/ \E w \in Events : TimerFires(w) \/ WorkerStep(w) \/ ClaudeStep(w)
    \/ Signal
    \/ WaitReturns
    \/ Exit
    \/ Exited

Spec == Init /\ [][Next]_vars

-----------------------------------------------------------------------------
(* Fairness: the Go scheduler runs every runnable goroutine, and Execute
   returns once its context is done (it kills the claude process and reads its
   output to the end). Nothing makes users, timers, signals or a claude process
   that was not cancelled act: claude.timeout_minutes is read by nobody.      *)
Fairness ==
    /\ \A e \in Events : WF_vars(DispatchStep(e))
    /\ \A w \in Events : /\ WF_vars(WorkerStep(w))
                         /\ WF_vars(ctxDone /\ ClaudeStep(w))
                         /\ WF_vars(RunCancelled(w) /\ ExecuteReturns(w))
    /\ WF_vars(WaitReturns)
    /\ WF_vars(Exit)

FairSpec == Spec /\ Fairness

\* Every Claude process answers sooner or later: nothing in the code sees to it.
ClaudeAnswers == \A w \in Events : WF_vars(ClaudeStep(w))

-----------------------------------------------------------------------------
(* Invariants *)

Time == 0..MaxTime

\* Every variable keeps its shape, a queue never holds more than its capacity,
\* and wg is never negative (Go panics when it is).
TypeOK ==
    /\ stage \in [Events -> Stages]
    /\ target \in [Events -> Events \cup {None}]
    /\ taken \in [Events -> Events \cup {None}]
    /\ now \in Time
    /\ recentMsgIDs \in [MessageIDs -> Time \cup {None}]
    /\ acceptedAt \in [Events -> Time \cup {None}]
    /\ workers \in [Channels -> Events \cup {None}]
    /\ mu \in Events \cup {None}
    /\ wg \in Nat
    /\ wpc \in [Events -> WorkerStates]
    /\ queue \in [Events -> Seq(Events)]
    /\ \A w \in Events : Len(queue[w]) <= QueueCap
    /\ current \in [Events -> Events \cup {None}]
    /\ expired \in [Events -> BOOLEAN]
    /\ currentRunCancel \in [Events -> Events \cup {None}]
    /\ outcome \in [Events -> {"answered", "canceled", None}]
    /\ cancelled \subseteq Events
    /\ ctxDone \in BOOLEAN
    /\ main \in {"serving", "waiting", "stopping", "exited"}

\* design.md 5.2, "the same channel_key is serial": two workers of one channel
\* never work on messages at the same time, however dispatches, idle exits and
\* deregistrations interleave.
SerialPerChannel ==
    \A v, w \in Events :
        /\ wpc[v] \in Processing
        /\ wpc[w] \in Processing
        /\ ChannelOf[v] = ChannelOf[w]
        => v = w

\* design.md 5.2, deduplication: of two deliveries of one Feishu message that
\* both reach a worker, the second came after the window of the first.
NoDuplicateInWindow ==
    \A a, b \in Events :
        /\ a # b
        /\ IdOf[a] = IdOf[b]
        /\ acceptedAt[a] # None
        /\ acceptedAt[b] # None
        => \/ acceptedAt[a] - acceptedAt[b] >= Window
           \/ acceptedAt[b] - acceptedAt[a] >= Window

\* A run ends as cancelled before the shutdown only when a /stop of the same
\* channel took its cancel func: never by a /stop aimed at an earlier run.
CancelHasItsStop ==
    \A w \in Events :
        outcome[w] = "canceled" /\ ~ctxDone =>
            \E s \in Stops : /\ taken[s] = current[w]
                             /\ ChannelOf[s] = ChannelOf[w]

\* stopCurrentExecution clears the cancel func it takes: once a /stop has told
\* its user that it stopped a run, no other /stop can take that run, and none of
\* two that raced did.
OneStopPerRun ==
    \A s \in Stops : taken[s] # None =>
        /\ \A w \in Events : currentRunCancel[w] # taken[s]
        /\ \A t \in Stops : taken[t] = taken[s] => t = s

\* What /stop acknowledges is what it did: a run is cancelled by its own /stop, and
\* by one only.
StopInv == CancelHasItsStop /\ OneStopPerRun

\* The registry of workers.
\* A worker is in the sync.Map from before its goroutine starts until after the
\* goroutine has left its loop; nobody else's Store or Delete touches its entry,
\* because a creator holds mu and has seen the entry empty.
Registered ==
    /\ \A w \in Events : wpc[w] \in Alive => workers[ChannelOf[w]] = w
    /\ \A e \in Events : stage[e] = "store" =>
            mu = e /\ workers[ChannelOf[e]] = None

\* What the goroutines hold on to: a worker once it was looked up, a run once it
\* was taken, a message while it is processed.
HeldPointers ==
    /\ \A e \in Events : stage[e] \in {"send", "taking"} => target[e] \in Events
    /\ \A e \in Events : stage[e] = "cancelling" => taken[e] \in Events
    /\ \A w \in Events : wpc[w] \in Processing => current[w] \in Events
    /\ \A e \in Events :
            stage[e] \in {"unsent", "lookup", "lock", "store"} => wpc[e] = "unborn"

\* Manager.wg counts the goroutines that have not called Done yet.
WgCounts == wg = Cardinality({w \in Events : wpc[w] \in Tracked})

\* Every worker that may still be working is the registered one of its channel,
\* and counted by wg: the inductive invariant behind SerialPerChannel and
\* WaitSeesNoWorker.
RegistryInv == TypeOK /\ Registered /\ HeldPointers /\ WgCounts

\* Whom a delivery holds, and whom the registry names, is a worker of its channel.
OfChannel ==
    /\ \A c \in Channels : workers[c] # None =>
            ChannelOf[workers[c]] = c /\ wpc[workers[c]] \in Alive
    /\ \A e \in Events : target[e] # None =>
            ChannelOf[target[e]] = ChannelOf[e] /\ wpc[target[e]] # "unborn"

\* /stop commands and other messages part behind isDuplicate, for good.
StopsApart ==
    \A e \in Events : stage[e] \notin {"unsent", "duplicate"} =>
        (e \in Stops <=> stage[e] \in {"stopping", "taking", "cancelling", "acked", "noRun"})

\* A worker's queue holds each message that was queued for it, once.
QueuesHold ==
    /\ \A w \in Events : \A i \in 1 .. Len(queue[w]) :
            /\ stage[queue[w][i]] = "queued" /\ target[queue[w][i]] = w
            /\ \A j \in 1 .. Len(queue[w]) : queue[w][i] = queue[w][j] => i = j
    /\ \A e \in Events : stage[e] = "queued" =>
            target[e] # None /\ \E i \in 1 .. Len(queue[target[e]]) : queue[target[e]][i] = e

\* A worker processes a message that was queued for it, or none.
CurrentIsServed ==
    \A w \in Events :
        IF wpc[w] \in Processing
        THEN stage[current[w]] = "serving" /\ target[current[w]] = w
        ELSE current[w] = None

\* Where each message is: the inductive invariant behind ImplementsMailbox.
MailboxInv == RegistryInv /\ OfChannel /\ StopsApart /\ QueuesHold /\ CurrentIsServed

\* The cancel func of a worker is that of the message it processes.
CancelIsCurrent ==
    \A w \in Events : currentRunCancel[w] # None =>
        wpc[w] \in {"run", "finish"} /\ currentRunCancel[w] = current[w]

\* What /stop has taken is a run of its channel that had begun.
TakenHadBegun ==
    \A s \in Events : taken[s] # None =>
        /\ s \in Stops /\ stage[s] \in {"cancelling", "acked"}
        /\ stage[taken[s]] \in {"serving", "done"}
        /\ ChannelOf[taken[s]] = ChannelOf[s]
        /\ \A w \in Events : wpc[w] = "process" => current[w] # taken[s]

\* A context that is done was taken by a /stop or ended by the shutdown.
CancelledWasTaken ==
    /\ \A e \in cancelled : \E s \in Stops : taken[s] = e
    /\ \A w \in Events : outcome[w] # None => wpc[w] \in {"finish", "reply", "retry"}
    /\ \A w \in Events : outcome[w] = "canceled" => RunCancelled(w)

\* The inductive invariant behind StopInv.
CancelInv ==
    /\ MailboxInv /\ CancelIsCurrent /\ TakenHadBegun /\ CancelledWasTaken
    /\ OneStopPerRun

(* Action properties *)

\* Manager.Wait: when it returns, every worker goroutine that was registered
\* with wg has left its loop for good.
WaitSeesNoWorker ==
    [][main = "waiting" /\ main' = "stopping" =>
          \A w \in Events : wpc[w] \notin Tracked]_vars

(* Liveness *)

\* A run that /stop acknowledged does not go on.
StopEndsRun ==
    \A s \in Stops :
        stage[s] = "acked" ~>
            \/ main = "exited"
            \/ \A w \in Events : wpc[w] = "run" => current[w] # taken[s]

\* After SIGTERM the process ends: no worker, dispatch or lock keeps Wait from
\* returning.
ShutdownCompletes == ctxDone ~> main = "exited"

\* When Claude always answers, a queued message is worked on to the end unless
\* its worker has left (or the process has).
QueuedIsSettled ==
    ClaudeAnswers => \A e \in Events :
        stage[e] = "queued" ~> \/ stage[e] = "done"
                               \/ \E w \in Events : target[e] = w /\ wpc[w] = "gone"
                               \/ main = "exited"

(* What a comment, a document or a reply of the code says, and is not so *)

\* worker.go: "run is the worker's main goroutine. It blocks until idle or ctx
\* done." A worker that leaves before the shutdown has nothing to do.
LeavesOnlyWhenIdle ==
    [][\A w \in Events :
          wpc[w] = "select" /\ wpc'[w] = "returned" /\ ~ctxDone =>
              queue[w] = <<>>]_vars

\* main.go: "wait for all session workers to finish their in-flight requests"
\* before the executor is stopped.
WaitMeansQuiesced ==
    main = "stopping" => \A w \in Events : wpc[w] \notin Processing

\* configuration.md: "timeout_minutes: 5  # time limit of one claude execution".
RunTimesOut == \A w \in Events : wpc[w] = "run" ~> wpc[w] # "run"

-----------------------------------------------------------------------------
(* The abstract specification: one serial mailbox per channel *)

statusBar ==
    [m \in Events \ Stops |->
        CASE stage[m] \in {"unsent", "lookup", "lock", "store", "send"} -> "new"
          [] stage[m] \in {"duplicate", "dropped"} -> "lost"
          [] stage[m] = "queued" ->
                IF wpc[target[m]] \in Serving THEN "waiting" ELSE "lost"
          [] stage[m] = "serving" -> "serving"
          [] stage[m] = "done" -> "served"]

\* The mailbox of a channel is the queue of its worker while that worker reads it.
HasReader(c) == workers[c] # None /\ wpc[workers[c]] \in Serving
mailboxBar == [c \in Channels |-> IF HasReader(c) THEN queue[workers[c]] ELSE <<>>]
servingBar == [c \in Channels |-> IF HasReader(c) THEN current[workers[c]] ELSE None]

Mailbox == INSTANCE SerialMailbox
             WITH Messages <- Events \ Stops, Capacity <- QueueCap, Nobody <- None,
                  status <- statusBar, mailbox <- mailboxBar, serving <- servingBar

\* Manager and Workers implement the serial mailboxes.
ImplementsMailbox == Mailbox!Spec
=============================================================================
