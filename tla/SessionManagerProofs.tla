------------------------ MODULE SessionManagerProofs ------------------------
(* Proofs about SessionManager: the registry invariant, and from it that a    *)
(* channel is served serially and that Wait waits for every tracked worker;   *)
(* that the manager implements a serial mailbox per channel (MailboxRefinement);*)
(* that a /stop cancels one run, of its own channel (StopsOwnRun); and that a  *)
(* redelivered message is dropped while the map of recent ids has room        *)
(* (DuplicatesAreDropped).                                                    *)
EXTENDS SessionManager, FiniteSetTheorems, TLAPS

TrackedWorkers == {w \in Events : wpc[w] \in Tracked}

\* Only finitely many workers are tracked, so wg counts a number.
LEMMA TrackedFinite == IsFiniteSet(TrackedWorkers) /\ Cardinality(TrackedWorkers) \in Nat
<1>1. TrackedWorkers \in SUBSET Events
  BY DEF TrackedWorkers
<1>2. IsFiniteSet(TrackedWorkers)
  BY <1>1, FS_Subset, EventsAssumption
<1> QED BY <1>2, FS_CardinalityType

\* The initial state satisfies the registry invariant.
LEMMA InitRegistry == Init => RegistryInv
<1> SUFFICES ASSUME Init PROVE RegistryInv
  OBVIOUS
<1>1. TypeOK
  <2>1. queue \in [Events -> Seq(Events)] /\ \A w \in Events : Len(queue[w]) <= QueueCap
    BY BoundsAssumption DEF Init
  <2>2. now \in Time
    BY BoundsAssumption DEF Init, Time
  <2>3. outcome \in [Events -> {"answered", "canceled", None}] /\ cancelled \subseteq Events
    BY DEF Init
  <2> QED BY <2>1, <2>2, <2>3 DEF Init, TypeOK, Stages, WorkerStates
<1>2. Registered /\ HeldPointers
  BY DEF Init, Registered, HeldPointers, Alive, Tracked, Serving, Processing
<1>3. WgCounts
  <2>1. {w \in Events : wpc[w] \in Tracked} = {}
    BY DEF Init, Tracked, Serving, Processing
  <2> QED BY <2>1, FS_EmptySet DEF Init, WgCounts
<1> QED BY <1>1, <1>2, <1>3 DEF RegistryInv

-----------------------------------------------------------------------------
(* The variables keep their types *)

\* Replacing one queue by a sequence that fits keeps all queues typed and bounded.
LEMMA QueueStaysTyped ==
  ASSUME queue \in [Events -> Seq(Events)],
         \A v \in Events : Len(queue[v]) <= QueueCap,
         NEW w \in Events, NEW q \in Seq(Events), Len(q) <= QueueCap,
         queue' = [queue EXCEPT ![w] = q]
  PROVE  /\ queue' \in [Events -> Seq(Events)]
         /\ \A v \in Events : Len(queue'[v]) <= QueueCap
OBVIOUS

\* Recording an id, with or without the reset, leaves a map of ids to times.
LEMMA RecordedType ==
  ASSUME NEW T, NEW i \in MessageIDs, now \in T,
         recentMsgIDs \in [MessageIDs -> T \cup {None}]
  PROVE  Recorded(i) \in [MessageIDs -> T \cup {None}]
<1> DEFINE m == [recentMsgIDs EXCEPT ![i] = now]
           n == Cardinality({j \in MessageIDs : m[j] # None})
<1>1. m \in [MessageIDs -> T \cup {None}]
  OBVIOUS
<1>2. [j \in MessageIDs |-> None] \in [MessageIDs -> T \cup {None}]
  OBVIOUS
<1>3. Recorded(i) = IF n > RecentCap THEN [j \in MessageIDs |-> None] ELSE m
  BY Zenon DEF Recorded
<1> HIDE DEF m, n
<1> QED BY <1>1, <1>2, <1>3

\* Every step keeps the type invariant.
LEMMA TypeStep == RegistryInv /\ [Next]_vars => TypeOK'
<1> SUFFICES ASSUME RegistryInv, [Next]_vars PROVE TypeOK'
  OBVIOUS
<1> USE EventsAssumption, BoundsAssumption DEF RegistryInv, TypeOK, Time
<1>1. CASE UNCHANGED vars
  BY <1>1 DEF vars, dispatchVars, dedupVars, registryVars, workerVars, mainVars
<1>2. CASE Tick
  BY <1>2 DEF Tick, dispatchVars, registryVars, workerVars, mainVars
<1>3. ASSUME NEW e \in Events, Receive(e) PROVE TypeOK'
  <2>1. recentMsgIDs' \in [MessageIDs -> Time \cup {None}]
    <3>1. IdOf[e] \in MessageIDs
      BY EventsAssumption
    <3>2. Recorded(IdOf[e]) \in [MessageIDs -> Time \cup {None}]
      BY <3>1, RecordedType
    <3> QED BY <1>3, <3>2 DEF Receive
  <2>2. stage' \in [Events -> Stages]
    BY <1>3 DEF Receive, AfterDedup, Stages
  <2>3. acceptedAt' \in [Events -> Time \cup {None}]
    BY <1>3 DEF Receive
  <2> QED BY <1>3, <2>1, <2>2, <2>3 DEF Receive, registryVars, workerVars, mainVars
<1>4. ASSUME NEW e \in Events, Lookup(e) PROVE TypeOK'
  BY <1>4 DEF Lookup, At, Stages, dedupVars, registryVars, workerVars, mainVars
<1>5. ASSUME NEW e \in Events, LockAndCheck(e) PROVE TypeOK'
  BY <1>5 DEF LockAndCheck, At, Stages, dedupVars, workerVars, mainVars
<1>6. ASSUME NEW e \in Events, StoreWorker(e) PROVE TypeOK'
  BY <1>6 DEF StoreWorker, At, Stages, WorkerStates, dedupVars, mainVars
<1>7. ASSUME NEW e \in Events, Send(e) PROVE TypeOK'
  <2>1. target[e] \in Events
    BY <1>7 DEF Send, At, HeldPointers
  <2>2. stage' \in [Events -> Stages]
    BY <1>7 DEF Send, Stages
  <2>3. queue' \in [Events -> Seq(Events)] /\ \A w \in Events : Len(queue'[w]) <= QueueCap
    <3>1. CASE Len(queue[target[e]]) < QueueCap
      <4>1. queue' = [queue EXCEPT ![target[e]] = Append(queue[target[e]], e)]
        BY <1>7, <3>1 DEF Send
      <4>2. /\ Append(queue[target[e]], e) \in Seq(Events)
            /\ Len(Append(queue[target[e]], e)) = Len(queue[target[e]]) + 1
        BY <2>1
      <4> QED BY <2>1, <3>1, <4>1, <4>2, QueueStaysTyped
    <3>2. CASE ~(Len(queue[target[e]]) < QueueCap)
      BY <1>7, <3>2 DEF Send
    <3> QED BY <3>1, <3>2
  <2> QED BY <1>7, <2>2, <2>3 DEF Send, dedupVars, registryVars, mainVars
<1>8. ASSUME NEW e \in Events, StopLoad(e) PROVE TypeOK'
  BY <1>8 DEF StopLoad, At, Stages, dedupVars, registryVars, workerVars, mainVars
<1>9. ASSUME NEW e \in Events, StopTake(e) PROVE TypeOK'
  BY <1>9 DEF StopTake, At, HeldPointers, Stages, dedupVars, registryVars, mainVars
<1>10. ASSUME NEW e \in Events, StopCancel(e) PROVE TypeOK'
  BY <1>10 DEF StopCancel, At, HeldPointers, Stages, dedupVars, registryVars, workerVars, mainVars
<1>11. ASSUME NEW w \in Events, TimerFires(w) PROVE TypeOK'
  BY <1>11 DEF TimerFires, dispatchVars, dedupVars, registryVars, mainVars
<1>12. ASSUME NEW w \in Events, TakeMessage(w) PROVE TypeOK'
  <2>1. queue[w] \in Seq(Events) /\ queue[w] # <<>>
    BY <1>12 DEF TakeMessage
  <2>2. /\ Head(queue[w]) \in Events
        /\ Tail(queue[w]) \in Seq(Events)
        /\ Len(Tail(queue[w])) <= Len(queue[w])
    BY <2>1
  <2>3. queue' = [queue EXCEPT ![w] = Tail(queue[w])]
    BY <1>12 DEF TakeMessage
  <2>4. queue' \in [Events -> Seq(Events)] /\ \A v \in Events : Len(queue'[v]) <= QueueCap
    BY <2>2, <2>3, QueueStaysTyped
  <2>5. stage' \in [Events -> Stages] /\ current' \in [Events -> Events \cup {None}]
    BY <1>12, <2>2 DEF TakeMessage, Stages
  <2>6. wpc' \in [Events -> WorkerStates] /\ expired' \in [Events -> BOOLEAN]
    BY <1>12 DEF TakeMessage, WorkerStates
  <2> QED BY <1>12, <2>4, <2>5, <2>6 DEF TakeMessage, dedupVars, registryVars, mainVars
<1>13. ASSUME NEW w \in Events, IdleExit(w) \/ CtxExit(w) PROVE TypeOK'
  <2>1. wpc' \in [Events -> WorkerStates]
    BY <1>13 DEF IdleExit, CtxExit, WorkerStates
  <2> QED BY <1>13, <2>1 DEF IdleExit, CtxExit, dispatchVars, dedupVars, registryVars, mainVars
<1>14. ASSUME NEW w \in Events, MessageDone(w), current[w] \in Events PROVE TypeOK'
  BY <1>14 DEF MessageDone, Stages, WorkerStates, dedupVars, registryVars, mainVars
<1>15. ASSUME NEW w \in Events, EndWithoutRun(w) \/ Reply(w) \/ EndRetry(w) PROVE TypeOK'
  BY <1>14, <1>15 DEF EndWithoutRun, Reply, EndRetry, On, HeldPointers, Processing
<1>16. ASSUME NEW w \in Events, BeginRun(w) PROVE TypeOK'
  BY <1>16 DEF BeginRun, On, WorkerStates, dispatchVars, dedupVars, registryVars, mainVars
<1>17. ASSUME NEW w \in Events, ExecuteReturns(w) PROVE TypeOK'
  BY <1>17 DEF ExecuteReturns, On, WorkerStates, dispatchVars, dedupVars, registryVars, mainVars
<1>18. ASSUME NEW w \in Events, FinishRun(w) PROVE TypeOK'
  BY <1>18 DEF FinishRun, On, WorkerStates, dispatchVars, dedupVars, registryVars, mainVars
<1>19. ASSUME NEW w \in Events, StartRetry(w) PROVE TypeOK'
  BY <1>19 DEF StartRetry, On, WorkerStates, dispatchVars, dedupVars, registryVars, mainVars
<1>20. ASSUME NEW w \in Events, Done(w) PROVE TypeOK'
  <2>1. w \in TrackedWorkers
    BY <1>20 DEF Done, On, TrackedWorkers, Tracked
  <2>2. Cardinality(TrackedWorkers) \in Nat \ {0}
    BY <2>1, TrackedFinite, FS_EmptySet
  <2>3. wg - 1 \in Nat
    BY <2>2 DEF WgCounts, TrackedWorkers
  <2> QED BY <1>20, <2>3 DEF Done, On, WorkerStates, dispatchVars, dedupVars, mainVars
<1>21. ASSUME NEW w \in Events, Deregister(w) PROVE TypeOK'
  BY <1>21 DEF Deregister, On, WorkerStates, dispatchVars, dedupVars, mainVars
<1>22. CASE Signal \/ WaitReturns \/ Exit \/ Exited
  BY <1>22 DEF Signal, WaitReturns, Exit, Exited, vars, dispatchVars, dedupVars,
     registryVars, workerVars, mainVars
<1> QED
  BY <1>1, <1>2, <1>3, <1>4, <1>5, <1>6, <1>7, <1>8, <1>9, <1>10, <1>11, <1>12, <1>13,
     <1>15, <1>16, <1>17, <1>18, <1>19, <1>20, <1>21, <1>22
  DEF Next, DispatchStep, WorkerStep, ClaudeStep

-----------------------------------------------------------------------------
(* The registry: Registered, HeldPointers and WgCounts are kept together *)

\* A worker is registered as long as it may work: StoreWorker finds the entry empty
\* under mu, and Deregister empties only the entry of the worker that leaves.
LEMMA RegisteredStep == RegistryInv /\ [Next]_vars => Registered'
<1> SUFFICES ASSUME RegistryInv, [Next]_vars PROVE Registered'
  OBVIOUS
<1> USE EventsAssumption DEF RegistryInv, TypeOK, Registered, Alive, Tracked, Serving, Processing
<1>1. CASE UNCHANGED vars
  BY <1>1 DEF vars, dispatchVars, registryVars, workerVars
<1>2. CASE Tick
  BY <1>2 DEF Tick, dispatchVars, registryVars, workerVars
<1>3. ASSUME NEW e \in Events, Receive(e) PROVE Registered'
  BY <1>3 DEF Receive, AfterDedup, registryVars, workerVars
<1>4. ASSUME NEW e \in Events, Lookup(e) PROVE Registered'
  BY <1>4 DEF Lookup, registryVars, workerVars
<1>5. ASSUME NEW e \in Events, LockAndCheck(e) PROVE Registered'
  BY <1>5 DEF LockAndCheck, workerVars
<1>6. ASSUME NEW e \in Events, StoreWorker(e) PROVE Registered'
  <2>1. \A w \in Events : wpc'[w] \in Alive => workers'[ChannelOf[w]] = w
    BY <1>6 DEF StoreWorker, At
  <2>2. \A d \in Events : stage'[d] # "store"
    BY <1>6 DEF StoreWorker, At
  <2> QED BY <2>1, <2>2
<1>7. ASSUME NEW e \in Events, Send(e) PROVE Registered'
  BY <1>7 DEF Send, registryVars
<1>8. ASSUME NEW e \in Events, StopLoad(e) \/ StopTake(e) \/ StopCancel(e) PROVE Registered'
  BY <1>8 DEF StopLoad, StopTake, StopCancel, registryVars, workerVars
<1>9. ASSUME NEW w \in Events, TimerFires(w) PROVE Registered'
  BY <1>9 DEF TimerFires, dispatchVars, registryVars
<1>10. ASSUME NEW w \in Events, TakeMessage(w) PROVE Registered'
  BY <1>10 DEF TakeMessage, On, registryVars
<1>11. ASSUME NEW w \in Events, IdleExit(w) \/ CtxExit(w) PROVE Registered'
  BY <1>11 DEF IdleExit, CtxExit, On, dispatchVars, registryVars
<1>12. ASSUME NEW w \in Events, EndWithoutRun(w) \/ Reply(w) \/ EndRetry(w) PROVE Registered'
  BY <1>12 DEF EndWithoutRun, Reply, EndRetry, MessageDone, On, registryVars
<1>13. ASSUME NEW w \in Events, BeginRun(w) \/ ExecuteReturns(w) PROVE Registered'
  BY <1>13 DEF BeginRun, ExecuteReturns, On, dispatchVars, registryVars
<1>14. ASSUME NEW w \in Events, FinishRun(w) \/ StartRetry(w) PROVE Registered'
  BY <1>14 DEF FinishRun, StartRetry, On, dispatchVars, registryVars
<1>15. ASSUME NEW w \in Events, Done(w) PROVE Registered'
  BY <1>15 DEF Done, On, dispatchVars
<1>16. ASSUME NEW w \in Events, Deregister(w) PROVE Registered'
  <2>1. \A v \in Events \ {w} : wpc[v] \in Alive => ChannelOf[v] # ChannelOf[w]
    BY <1>16 DEF Deregister, On
  <2>2. wpc' = [wpc EXCEPT ![w] = "gone"] /\ workers' = [workers EXCEPT ![ChannelOf[w]] = None]
    BY <1>16 DEF Deregister
  <2>3. \A v \in Events : wpc'[v] \in Alive => workers'[ChannelOf[v]] = v
    BY <2>1, <2>2
  <2>4. \A e \in Events : stage'[e] = "store" => mu' = e /\ workers'[ChannelOf[e]] = None
    BY <1>16, <2>2 DEF Deregister, dispatchVars
  <2> QED BY <2>3, <2>4
<1>17. CASE Signal \/ WaitReturns \/ Exit \/ Exited
  BY <1>17 DEF Signal, WaitReturns, Exit, Exited, vars, dispatchVars, registryVars, workerVars
<1> QED
  BY <1>1, <1>2, <1>3, <1>4, <1>5, <1>6, <1>7, <1>8, <1>9, <1>10, <1>11, <1>12, <1>13,
     <1>14, <1>15, <1>16, <1>17
  DEF Next, DispatchStep, WorkerStep, ClaudeStep

\* A goroutine keeps holding what it looked up, took or read from its queue.
LEMMA HeldPointersStep == RegistryInv /\ [Next]_vars => HeldPointers'
<1> SUFFICES ASSUME RegistryInv, [Next]_vars PROVE HeldPointers'
  OBVIOUS
<1> USE EventsAssumption DEF RegistryInv, TypeOK, HeldPointers, Processing
<1>1. CASE UNCHANGED vars
  BY <1>1 DEF vars, dispatchVars, workerVars
<1>2. CASE Tick
  BY <1>2 DEF Tick, dispatchVars, workerVars
<1>3. ASSUME NEW e \in Events, Receive(e) PROVE HeldPointers'
  BY <1>3 DEF Receive, AfterDedup, At, workerVars
<1>4. ASSUME NEW e \in Events, Lookup(e) PROVE HeldPointers'
  BY <1>4 DEF Lookup, At, workerVars
<1>5. ASSUME NEW e \in Events, LockAndCheck(e) PROVE HeldPointers'
  BY <1>5 DEF LockAndCheck, At, workerVars
<1>6. ASSUME NEW e \in Events, StoreWorker(e) PROVE HeldPointers'
  BY <1>6 DEF StoreWorker, At
<1>7. ASSUME NEW e \in Events, Send(e) PROVE HeldPointers'
  BY <1>7 DEF Send, At
<1>8. ASSUME NEW e \in Events, StopLoad(e) PROVE HeldPointers'
  BY <1>8 DEF StopLoad, At, workerVars
<1>9. ASSUME NEW e \in Events, StopTake(e) \/ StopCancel(e) PROVE HeldPointers'
  <2>1. CASE StopTake(e)
    <3>1. currentRunCancel[target[e]] \in Events \cup {None}
      BY <2>1 DEF StopTake, At
    <3> QED BY <2>1, <3>1 DEF StopTake, At
  <2>2. CASE StopCancel(e)
    BY <2>2 DEF StopCancel, At, workerVars
  <2> QED BY <1>9, <2>1, <2>2
<1>10. ASSUME NEW w \in Events, TimerFires(w) PROVE HeldPointers'
  BY <1>10 DEF TimerFires, dispatchVars
<1>11. ASSUME NEW w \in Events, TakeMessage(w) PROVE HeldPointers'
  <2>1. Head(queue[w]) \in Events
    BY <1>11 DEF TakeMessage
  <2> QED BY <1>11, <2>1 DEF TakeMessage, On
<1>12. ASSUME NEW w \in Events, IdleExit(w) \/ CtxExit(w) PROVE HeldPointers'
  BY <1>12 DEF IdleExit, CtxExit, On, dispatchVars
<1>13. ASSUME NEW w \in Events, EndWithoutRun(w) \/ Reply(w) \/ EndRetry(w) PROVE HeldPointers'
  <2>1. MessageDone(w) /\ current[w] \in Events
    BY <1>13 DEF EndWithoutRun, Reply, EndRetry, On
  <2>2. \A e \in Events : stage'[e] # stage[e] => stage'[e] = "done"
    BY <2>1 DEF MessageDone
  <2>3. wpc' = [wpc EXCEPT ![w] = "select"] /\ current' = [current EXCEPT ![w] = None]
    BY <2>1 DEF MessageDone
  <2>4. \A v \in Events : wpc'[v] \in Processing => current'[v] \in Events
    BY <2>3
  <2>5. target' = target /\ taken' = taken
    BY <2>1 DEF MessageDone
  <2>6. \A e \in Events :
            stage'[e] \in {"unsent", "lookup", "lock", "store"} => wpc'[e] = "unborn"
    <3>1. wpc[w] # "unborn"
      BY <1>13 DEF EndWithoutRun, Reply, EndRetry, On
    <3> QED BY <2>2, <2>3, <3>1
  <2> QED BY <2>2, <2>4, <2>5, <2>6
<1>14. ASSUME NEW w \in Events, BeginRun(w) \/ ExecuteReturns(w) PROVE HeldPointers'
  BY <1>14 DEF BeginRun, ExecuteReturns, On, dispatchVars
<1>15. ASSUME NEW w \in Events, FinishRun(w) \/ StartRetry(w) PROVE HeldPointers'
  BY <1>15 DEF FinishRun, StartRetry, On, dispatchVars
<1>16. ASSUME NEW w \in Events, Done(w) \/ Deregister(w) PROVE HeldPointers'
  BY <1>16 DEF Done, Deregister, On, dispatchVars
<1>17. CASE Signal \/ WaitReturns \/ Exit \/ Exited
  BY <1>17 DEF Signal, WaitReturns, Exit, Exited, vars, dispatchVars, workerVars
<1> QED
  BY <1>1, <1>2, <1>3, <1>4, <1>5, <1>6, <1>7, <1>8, <1>9, <1>10, <1>11, <1>12, <1>13,
     <1>14, <1>15, <1>16, <1>17
  DEF Next, DispatchStep, WorkerStep, ClaudeStep

\* Only StoreWorker and Done change the set of tracked workers, by one worker
\* each, and they change wg by as much.
LEMMA WgCountsStep == RegistryInv /\ [Next]_vars => WgCounts'
<1> SUFFICES ASSUME RegistryInv, [Next]_vars PROVE WgCounts'
  OBVIOUS
<1> USE EventsAssumption DEF RegistryInv, TypeOK
<1>a. WgCounts' <=> wg' = Cardinality(TrackedWorkers')
  BY DEF WgCounts, TrackedWorkers
<1>b. wg = Cardinality(TrackedWorkers)
  BY DEF WgCounts, TrackedWorkers
<1>c. ASSUME wg' = wg, wpc' = wpc PROVE WgCounts'
  BY <1>a, <1>b, <1>c DEF TrackedWorkers
<1>d. ASSUME NEW w \in Events, NEW pc, wg' = wg, wpc' = [wpc EXCEPT ![w] = pc],
             (pc \in Tracked) <=> (wpc[w] \in Tracked)
      PROVE  WgCounts'
  <2>1. TrackedWorkers' = TrackedWorkers
    BY <1>d DEF TrackedWorkers
  <2> QED BY <1>a, <1>b, <1>d, <2>1
<1>1. CASE UNCHANGED vars \/ Tick
  BY <1>1, <1>c DEF Tick, vars, registryVars, workerVars
<1>2. ASSUME NEW e \in Events, Receive(e) \/ Lookup(e) \/ LockAndCheck(e) \/ Send(e)
      PROVE  WgCounts'
  BY <1>2, <1>c DEF Receive, Lookup, LockAndCheck, Send, registryVars, workerVars
<1>3. ASSUME NEW e \in Events, StoreWorker(e) PROVE WgCounts'
  <2>1. wpc[e] = "unborn"
    BY <1>3 DEF StoreWorker, At, HeldPointers
  <2>2. TrackedWorkers' = TrackedWorkers \cup {e}
    BY <1>3 DEF StoreWorker, TrackedWorkers, Tracked, Serving, Processing
  <2>3. e \notin TrackedWorkers
    BY <2>1 DEF TrackedWorkers, Tracked, Serving, Processing
  <2>4. Cardinality(TrackedWorkers') = Cardinality(TrackedWorkers) + 1
    BY <2>2, <2>3, TrackedFinite, FS_AddElement
  <2> QED BY <1>3, <1>a, <1>b, <2>4 DEF StoreWorker
<1>4. ASSUME NEW e \in Events, StopLoad(e) \/ StopTake(e) \/ StopCancel(e) PROVE WgCounts'
  BY <1>4, <1>c DEF StopLoad, StopTake, StopCancel, registryVars, workerVars
<1>5. ASSUME NEW w \in Events, TimerFires(w) PROVE WgCounts'
  BY <1>5, <1>c DEF TimerFires, registryVars
<1>6. ASSUME NEW w \in Events, TakeMessage(w) PROVE WgCounts'
  BY <1>6, <1>d DEF TakeMessage, On, registryVars, Tracked, Serving, Processing
<1>7. ASSUME NEW w \in Events, IdleExit(w) \/ CtxExit(w) PROVE WgCounts'
  BY <1>7, <1>d DEF IdleExit, CtxExit, On, registryVars, Tracked, Serving, Processing
<1>8. ASSUME NEW w \in Events, EndWithoutRun(w) \/ Reply(w) \/ EndRetry(w) PROVE WgCounts'
  BY <1>8, <1>d DEF EndWithoutRun, Reply, EndRetry, MessageDone, On, registryVars,
     Tracked, Serving, Processing
<1>9. ASSUME NEW w \in Events, BeginRun(w) \/ ExecuteReturns(w) PROVE WgCounts'
  BY <1>9, <1>d DEF BeginRun, ExecuteReturns, On, registryVars, Tracked, Serving, Processing
<1>10. ASSUME NEW w \in Events, FinishRun(w) \/ StartRetry(w) PROVE WgCounts'
  BY <1>10, <1>d DEF FinishRun, StartRetry, On, registryVars, Tracked, Serving, Processing
<1>11. ASSUME NEW w \in Events, Done(w) PROVE WgCounts'
  <2>1. w \in TrackedWorkers
    BY <1>11 DEF Done, On, TrackedWorkers, Tracked
  <2>2. TrackedWorkers' = TrackedWorkers \ {w}
    BY <1>11 DEF Done, TrackedWorkers, Tracked, Serving, Processing
  <2>3. Cardinality(TrackedWorkers') = Cardinality(TrackedWorkers) - 1
    BY <2>1, <2>2, TrackedFinite, FS_RemoveElement
  <2> QED BY <1>11, <1>a, <1>b, <2>3 DEF Done
<1>12. ASSUME NEW w \in Events, Deregister(w) PROVE WgCounts'
  BY <1>12, <1>d DEF Deregister, On, Tracked, Serving, Processing
<1>13. CASE Signal \/ WaitReturns \/ Exit \/ Exited
  BY <1>13, <1>c DEF Signal, WaitReturns, Exit, Exited, vars, registryVars, workerVars
<1> QED
  BY <1>1, <1>2, <1>3, <1>4, <1>5, <1>6, <1>7, <1>8, <1>9, <1>10, <1>11, <1>12, <1>13
  DEF Next, DispatchStep, WorkerStep, ClaudeStep

-----------------------------------------------------------------------------
(* Where the messages are: MailboxInv *)

\* The initial state satisfies the mailbox invariant: nothing is anywhere.
LEMMA InitMailbox == Init => MailboxInv
<1> SUFFICES ASSUME Init PROVE OfChannel /\ StopsApart /\ QueuesHold /\ CurrentIsServed
  BY InitRegistry DEF MailboxInv
<1>1. OfChannel /\ StopsApart /\ CurrentIsServed
  BY DEF Init, OfChannel, StopsApart, CurrentIsServed, Processing
<1>2. \A w \in Events : queue[w] = <<>>
  BY DEF Init
<1>3. \A e \in Events : stage[e] # "queued"
  BY DEF Init
<1> QED BY <1>1, <1>2, <1>3 DEF QueuesHold

\* The registry and the deliveries name workers of their channel: a worker is stored
\* under its channel, and Deregister removes the entry of its own channel only.
LEMMA OfChannelStep == MailboxInv /\ [Next]_vars => OfChannel'
<1> SUFFICES ASSUME MailboxInv, [Next]_vars PROVE OfChannel'
  OBVIOUS
<1> USE EventsAssumption DEF MailboxInv, RegistryInv, TypeOK, OfChannel, Alive, Tracked,
    Serving, Processing
<1>1. CASE UNCHANGED vars \/ Tick
  BY <1>1 DEF Tick, vars, dispatchVars, registryVars, workerVars
<1>2. ASSUME NEW e \in Events, Receive(e) \/ Send(e) \/ StopTake(e) \/ StopCancel(e)
      PROVE  OfChannel'
  BY <1>2 DEF Receive, Send, StopTake, StopCancel, registryVars, workerVars
<1>3. ASSUME NEW e \in Events, Lookup(e) \/ LockAndCheck(e) \/ StopLoad(e) PROVE OfChannel'
  <2>1. /\ target' = [target EXCEPT ![e] = workers[ChannelOf[e]]]
        /\ workers' = workers /\ wpc' = wpc
    BY <1>3 DEF Lookup, LockAndCheck, StopLoad, registryVars, workerVars
  <2>2. ChannelOf[e] \in Channels
    OBVIOUS
  <2> QED BY <2>1, <2>2
<1>4. ASSUME NEW e \in Events, StoreWorker(e) PROVE OfChannel'
  <2>1. /\ target' = [target EXCEPT ![e] = e]
        /\ workers' = [workers EXCEPT ![ChannelOf[e]] = e]
        /\ wpc' = [wpc EXCEPT ![e] = "select"]
    BY <1>4 DEF StoreWorker
  <2> QED BY <2>1
<1>5. ASSUME NEW w \in Events, TimerFires(w) PROVE OfChannel'
  BY <1>5 DEF TimerFires, dispatchVars, registryVars
<1>6. ASSUME NEW w \in Events, NEW pc \in Alive, wpc' = [wpc EXCEPT ![w] = pc],
             workers' = workers, target' = target
      PROVE  OfChannel'
  BY <1>6
<1>7. ASSUME NEW w \in Events, TakeMessage(w) \/ IdleExit(w) \/ CtxExit(w) \/ Done(w)
      PROVE  OfChannel'
  BY <1>6, <1>7 DEF TakeMessage, IdleExit, CtxExit, Done, dispatchVars, registryVars
<1>8. ASSUME NEW w \in Events, EndWithoutRun(w) \/ Reply(w) \/ EndRetry(w) PROVE OfChannel'
  BY <1>6, <1>8 DEF EndWithoutRun, Reply, EndRetry, MessageDone, registryVars
<1>9. ASSUME NEW w \in Events,
             BeginRun(w) \/ ExecuteReturns(w) \/ FinishRun(w) \/ StartRetry(w)
      PROVE  OfChannel'
  BY <1>6, <1>9 DEF BeginRun, ExecuteReturns, FinishRun, StartRetry, dispatchVars, registryVars
<1>10. ASSUME NEW w \in Events, Deregister(w) PROVE OfChannel'
  <2>1. /\ target' = target /\ wpc' = [wpc EXCEPT ![w] = "gone"]
        /\ workers' = [workers EXCEPT ![ChannelOf[w]] = None]
    BY <1>10 DEF Deregister, dispatchVars
  <2>2. ASSUME NEW c \in Channels, workers'[c] # None
        PROVE  ChannelOf[workers'[c]] = c /\ wpc'[workers'[c]] \in Alive
    <3>1. workers'[c] = workers[c] /\ c # ChannelOf[w]
      BY <2>1, <2>2
    <3>2. workers[c] # w
      BY <3>1, <2>2
    <3> QED BY <2>1, <3>1, <3>2, <2>2
  <2> QED BY <2>1, <2>2
<1>11. CASE Signal \/ WaitReturns \/ Exit \/ Exited
  BY <1>11 DEF Signal, WaitReturns, Exit, Exited, vars, dispatchVars, registryVars, workerVars
<1> QED
  BY <1>1, <1>2, <1>3, <1>4, <1>5, <1>7, <1>8, <1>9, <1>10, <1>11
  DEF Next, DispatchStep, WorkerStep, ClaudeStep

\* A /stop command never reaches a queue, and nothing else reaches handleStop.
LEMMA StopsApartStep == MailboxInv /\ [Next]_vars => StopsApart'
<1> SUFFICES ASSUME MailboxInv, [Next]_vars PROVE StopsApart'
  OBVIOUS
<1>0. stage \in [Events -> Stages] /\ StopsApart
  BY DEF MailboxInv, RegistryInv, TypeOK
<1> USE DEF StopsApart
<1>1. CASE UNCHANGED vars \/ Tick
  BY <1>0, <1>1 DEF Tick, vars, dispatchVars
<1>2. ASSUME NEW e \in Events, Receive(e) PROVE StopsApart'
  BY <1>0, <1>2 DEF Receive, AfterDedup
<1>3. ASSUME NEW e \in Events,
             Lookup(e) \/ LockAndCheck(e) \/ StoreWorker(e) \/ Send(e)
      PROVE  StopsApart'
  <2>1. /\ \A d \in Events \ {e} : stage'[d] = stage[d]
        /\ stage[e] \in {"lookup", "lock", "store", "send"}
        /\ stage'[e] \in {"lock", "store", "send", "queued", "dropped"}
    BY <1>0, <1>3 DEF Lookup, LockAndCheck, StoreWorker, Send, At
  <2> QED BY <1>0, <2>1
<1>4. ASSUME NEW e \in Events, StopLoad(e) \/ StopTake(e) \/ StopCancel(e) PROVE StopsApart'
  <2>1. /\ \A d \in Events \ {e} : stage'[d] = stage[d]
        /\ stage[e] \in {"stopping", "taking", "cancelling"}
        /\ stage'[e] \in {"taking", "cancelling", "acked", "noRun"}
    BY <1>0, <1>4 DEF StopLoad, StopTake, StopCancel, At
  <2> QED BY <1>0, <2>1
<1>5. ASSUME NEW w \in Events, TakeMessage(w) PROVE StopsApart'
  <2>1. Len(queue[w]) > 0 /\ Head(queue[w]) = queue[w][1] /\ Head(queue[w]) \in Events
    BY <1>5 DEF TakeMessage, MailboxInv, RegistryInv, TypeOK
  <2>2. stage[Head(queue[w])] = "queued"
    BY <2>1 DEF QueuesHold, MailboxInv
  <2>3. stage' = [stage EXCEPT ![Head(queue[w])] = "serving"]
    BY <1>5 DEF TakeMessage
  <2> QED BY <1>0, <2>1, <2>2, <2>3
<1>6. ASSUME NEW w \in Events, EndWithoutRun(w) \/ Reply(w) \/ EndRetry(w) PROVE StopsApart'
  <2>1. wpc[w] \in Processing /\ stage' = [stage EXCEPT ![current[w]] = "done"]
    BY <1>6 DEF EndWithoutRun, Reply, EndRetry, MessageDone, On, Processing
  <2>2. stage[current[w]] = "serving" /\ current[w] \in Events
    BY <2>1 DEF CurrentIsServed, HeldPointers, MailboxInv, RegistryInv
  <2> QED BY <1>0, <2>1, <2>2
<1>7. ASSUME NEW w \in Events,
             \/ TimerFires(w) \/ IdleExit(w) \/ CtxExit(w) \/ Done(w) \/ Deregister(w)
             \/ BeginRun(w) \/ ExecuteReturns(w) \/ FinishRun(w) \/ StartRetry(w)
      PROVE  StopsApart'
  BY <1>0, <1>7 DEF TimerFires, IdleExit, CtxExit, Done, Deregister, BeginRun, ExecuteReturns,
     FinishRun, StartRetry, dispatchVars
<1>8. CASE Signal \/ WaitReturns \/ Exit \/ Exited
  BY <1>0, <1>8 DEF Signal, WaitReturns, Exit, Exited, vars, dispatchVars
<1> QED
  BY <1>1, <1>2, <1>3, <1>4, <1>5, <1>6, <1>7, <1>8
  DEF Next, DispatchStep, WorkerStep, ClaudeStep

\* A sequence without duplicates keeps that when an element it does not have is
\* appended, and its elements are the old ones and the new one.
LEMMA AppendOnce ==
  ASSUME NEW S, NEW q \in Seq(S), NEW e \in S,
         \A i \in 1 .. Len(q) : q[i] # e,
         \A i, j \in 1 .. Len(q) : q[i] = q[j] => i = j
  PROVE  LET r == Append(q, e) IN
         /\ r \in Seq(S) /\ Len(r) = Len(q) + 1 /\ r[Len(q) + 1] = e
         /\ \A i \in 1 .. Len(q) : r[i] = q[i]
         /\ \A i, j \in 1 .. Len(r) : r[i] = r[j] => i = j
OBVIOUS

\* The tail of a sequence without duplicates has all of its elements but the head.
LEMMA TailOnce ==
  ASSUME NEW S, NEW q \in Seq(S), q # <<>>,
         \A i, j \in 1 .. Len(q) : q[i] = q[j] => i = j
  PROVE  LET r == Tail(q) IN
         /\ Head(q) = q[1] /\ Head(q) \in S /\ 1 \in 1 .. Len(q)
         /\ r \in Seq(S) /\ Len(r) = Len(q) - 1
         /\ \A i \in 1 .. Len(r) : i + 1 \in 1 .. Len(q) /\ r[i] = q[i + 1] /\ r[i] # Head(q)
         /\ \A i, j \in 1 .. Len(r) : r[i] = r[j] => i = j
         /\ \A i \in 1 .. Len(q) : q[i] # Head(q) => i - 1 \in 1 .. Len(r) /\ r[i - 1] = q[i]
OBVIOUS

\* Queues are filled by Send and emptied by TakeMessage; a message that is in one is
\* touched by no other step.
LEMMA QueuesHoldStep == MailboxInv /\ [Next]_vars => QueuesHold'
<1> SUFFICES ASSUME MailboxInv, [Next]_vars PROVE QueuesHold'
  OBVIOUS
<1> USE EventsAssumption DEF MailboxInv, RegistryInv, TypeOK
<1>a. /\ \A w \in Events : queue[w] \in Seq(Events)
      /\ \A w \in Events : \A i \in 1 .. Len(queue[w]) : queue[w][i] \in Events
  OBVIOUS
<1>b. ASSUME UNCHANGED <<stage, target, queue>> PROVE QueuesHold'
  BY <1>b DEF QueuesHold
<1>c. ASSUME NEW e \in Events, NEW x, stage[e] # "queued", x # "queued",
             stage' = [stage EXCEPT ![e] = x], queue' = queue,
             \A d \in Events \ {e} : target'[d] = target[d]
      PROVE  QueuesHold'
  <2>1. \A d \in Events : stage'[d] = "queued" <=> stage[d] = "queued"
    BY <1>c
  <2>2. ASSUME NEW w \in Events, NEW i \in 1 .. Len(queue[w])
        PROVE  /\ stage'[queue[w][i]] = "queued" /\ target'[queue[w][i]] = w
               /\ \A j \in 1 .. Len(queue[w]) : queue[w][i] = queue[w][j] => i = j
    BY <1>a, <1>c, <2>1 DEF QueuesHold
  <2>3. ASSUME NEW d \in Events, stage'[d] = "queued"
        PROVE  /\ target'[d] # None
               /\ \E i \in 1 .. Len(queue[target'[d]]) : queue[target'[d]][i] = d
    <3>1. stage[d] = "queued" /\ d # e /\ target'[d] = target[d]
      BY <1>c, <2>1, <2>3
    <3>2. /\ target[d] # None
          /\ \E i \in 1 .. Len(queue[target[d]]) : queue[target[d]][i] = d
      BY <3>1 DEF QueuesHold
    <3> QED BY <3>1, <3>2
  <2> QED BY <1>c, <2>2, <2>3 DEF QueuesHold
<1>1. CASE UNCHANGED vars \/ Tick
  BY <1>1, <1>b DEF Tick, vars, dispatchVars, workerVars
<1>2. ASSUME NEW e \in Events, Receive(e) PROVE QueuesHold'
  BY <1>2, <1>c DEF Receive, AfterDedup, At, workerVars
<1>3. ASSUME NEW e \in Events, Lookup(e) \/ LockAndCheck(e) \/ StopLoad(e) PROVE QueuesHold'
  BY <1>3, <1>c DEF Lookup, LockAndCheck, StopLoad, At, workerVars
<1>4. ASSUME NEW e \in Events, StoreWorker(e) \/ StopTake(e) \/ StopCancel(e) PROVE QueuesHold'
  BY <1>4, <1>c DEF StoreWorker, StopTake, StopCancel, At, workerVars
<1>5. ASSUME NEW e \in Events, Send(e) PROVE QueuesHold'
  <2> DEFINE w == target[e]
             r == Append(queue[w], e)
  <2>1. w \in Events /\ stage[e] = "send" /\ target' = target
    BY <1>5 DEF Send, At, HeldPointers
  <2>2. CASE stage' = [stage EXCEPT ![e] = "dropped"] /\ queue' = queue
    BY <1>c, <2>1, <2>2
  <2>3. CASE stage' = [stage EXCEPT ![e] = "queued"] /\ queue' = [queue EXCEPT ![w] = r]
    <3>1. /\ \A i \in 1 .. Len(queue[w]) : queue[w][i] # e
          /\ \A i, j \in 1 .. Len(queue[w]) : queue[w][i] = queue[w][j] => i = j
      BY <2>1 DEF QueuesHold
    <3>2. /\ r \in Seq(Events) /\ Len(r) = Len(queue[w]) + 1 /\ r[Len(queue[w]) + 1] = e
          /\ \A i \in 1 .. Len(queue[w]) : r[i] = queue[w][i]
          /\ \A i, j \in 1 .. Len(r) : r[i] = r[j] => i = j
      BY <1>a, <2>1, <3>1, AppendOnce
    <3>3. Len(queue[w]) \in Nat
      BY <1>a, <2>1
    <3> HIDE DEF r, w
    <3>4. queue'[w] = r /\ \A v \in Events \ {w} : queue'[v] = queue[v]
      BY <2>1, <2>3
    <3>5. stage'[e] = "queued" /\ \A d \in Events \ {e} : stage'[d] = stage[d]
      BY <2>3
    <3>6. ASSUME NEW v \in Events, NEW i \in 1 .. Len(queue'[v])
          PROVE  /\ stage'[queue'[v][i]] = "queued" /\ target'[queue'[v][i]] = v
                 /\ \A j \in 1 .. Len(queue'[v]) : queue'[v][i] = queue'[v][j] => i = j
      <4>1. CASE v = w
        <5>0. i \in 1 .. Len(r)
          BY <3>4, <3>6, <4>1
        <5>1. r[i] = e \/ \E k \in 1 .. Len(queue[w]) : r[i] = queue[w][k]
          <6>1. i \in 1 .. Len(queue[w]) \/ i = Len(queue[w]) + 1
            BY <3>2, <3>3, <5>0
          <6> QED BY <3>2, <6>1
        <5>2. stage'[r[i]] = "queued" /\ target'[r[i]] = w
          <6>1. CASE r[i] = e
            BY <2>1, <3>5, <6>1 DEF w
          <6>2. ASSUME NEW k \in 1 .. Len(queue[w]), r[i] = queue[w][k]
                PROVE  stage'[r[i]] = "queued" /\ target'[r[i]] = w
            BY <1>a, <2>1, <3>5, <6>2 DEF QueuesHold
          <6> QED BY <5>1, <6>1, <6>2
        <5> QED BY <3>2, <3>4, <3>6, <4>1, <5>2
      <4>2. CASE v # w
        <5>1. i \in 1 .. Len(queue[v]) /\ queue'[v] = queue[v] /\ queue[v][i] \in Events
          BY <1>a, <3>4, <3>6, <4>2
        <5> QED BY <2>1, <3>5, <5>1 DEF QueuesHold
      <4> QED BY <4>1, <4>2
    <3>7. ASSUME NEW d \in Events, stage'[d] = "queued"
          PROVE  /\ target'[d] # None
                 /\ \E i \in 1 .. Len(queue'[target'[d]]) : queue'[target'[d]][i] = d
      <4>1. CASE d = e
        <5>1. Len(queue[w]) + 1 \in 1 .. Len(r)
          BY <3>2, <3>3
        <5> QED BY <2>1, <3>2, <3>4, <4>1, <5>1 DEF w
      <4>2. CASE d # e
        <5>1. PICK i \in 1 .. Len(queue[target[d]]) : queue[target[d]][i] = d
          BY <3>5, <3>7, <4>2 DEF QueuesHold
        <5>2. target[d] \in Events
          BY <3>5, <3>7, <4>2 DEF QueuesHold
        <5>3. CASE target[d] = w
          <6>1. i \in 1 .. Len(queue[w]) /\ queue[w][i] = d
            BY <5>1, <5>3
          <6>2. i \in 1 .. Len(r) /\ r[i] = d
            <7>1. \A n \in Nat : \A k \in 1 .. n : k \in 1 .. n + 1
              OBVIOUS
            <7>2. i \in 1 .. Len(queue[w]) + 1
              BY <3>3, <6>1, <7>1
            <7>3. r[i] = queue[w][i]
              BY <3>2, <6>1
            <7> QED BY <3>2, <6>1, <7>2, <7>3
          <6> QED BY <2>1, <3>4, <5>2, <5>3, <6>2
        <5>4. CASE target[d] # w
          BY <2>1, <3>4, <5>1, <5>2, <5>4
        <5> QED BY <5>3, <5>4
      <4> QED BY <4>1, <4>2
    <3> QED BY <3>6, <3>7 DEF QueuesHold
  <2> QED BY <1>5, <2>2, <2>3 DEF Send
<1>6. ASSUME NEW w \in Events, TakeMessage(w) PROVE QueuesHold'
  <2> DEFINE h == Head(queue[w])
             r == Tail(queue[w])
  <2>1. \A i, j \in 1 .. Len(queue[w]) : queue[w][i] = queue[w][j] => i = j
    BY DEF QueuesHold
  <2>2. /\ h = queue[w][1] /\ h \in Events /\ 1 \in 1 .. Len(queue[w])
        /\ r \in Seq(Events) /\ Len(r) = Len(queue[w]) - 1
        /\ \A i \in 1 .. Len(r) : i + 1 \in 1 .. Len(queue[w]) /\ r[i] = queue[w][i + 1]
                                  /\ r[i] # h
        /\ \A i, j \in 1 .. Len(r) : r[i] = r[j] => i = j
        /\ \A i \in 1 .. Len(queue[w]) : queue[w][i] # h =>
              i - 1 \in 1 .. Len(r) /\ r[i - 1] = queue[w][i]
    <3>1. queue[w] # <<>> /\ queue[w] \in Seq(Events)
      BY <1>6 DEF TakeMessage
    <3> QED BY <2>1, <3>1, TailOnce
  <2>3. /\ stage' = [stage EXCEPT ![h] = "serving"]
        /\ queue' = [queue EXCEPT ![w] = r] /\ target' = target
    BY <1>6 DEF TakeMessage
  <2> HIDE DEF h, r
  <2>4. stage[h] = "queued" /\ target[h] = w
    BY <2>2 DEF QueuesHold
  <2>5. queue'[w] = r /\ \A v \in Events \ {w} : queue'[v] = queue[v]
    BY <2>3
  <2>6. stage'[h] = "serving" /\ \A d \in Events \ {h} : stage'[d] = stage[d]
    BY <2>2, <2>3
  <2>7. ASSUME NEW v \in Events, NEW i \in 1 .. Len(queue'[v])
        PROVE  /\ stage'[queue'[v][i]] = "queued" /\ target'[queue'[v][i]] = v
               /\ \A j \in 1 .. Len(queue'[v]) : queue'[v][i] = queue'[v][j] => i = j
    <3>1. CASE v = w
      <4>1. i + 1 \in 1 .. Len(queue[w]) /\ r[i] = queue[w][i + 1] /\ r[i] # h /\ i \in 1 .. Len(r)
        BY <2>2, <2>5, <2>7, <3>1
      <4>2. r[i] \in Events /\ stage[r[i]] = "queued" /\ target[r[i]] = w
        BY <1>a, <4>1 DEF QueuesHold
      <4>3. stage'[r[i]] = "queued" /\ target'[r[i]] = w
        BY <2>3, <2>6, <4>1, <4>2
      <4> QED BY <2>2, <2>5, <3>1, <4>1, <4>3
    <3>2. CASE v # w
      <4>1. i \in 1 .. Len(queue[v]) /\ queue'[v] = queue[v] /\ queue[v][i] \in Events
        BY <1>a, <2>5, <2>7, <3>2
      <4>2. target[queue[v][i]] = v /\ queue[v][i] # h
        BY <2>4, <3>2, <4>1 DEF QueuesHold
      <4> QED BY <2>3, <2>6, <4>1, <4>2 DEF QueuesHold
    <3> QED BY <3>1, <3>2
  <2>8. ASSUME NEW d \in Events, stage'[d] = "queued"
        PROVE  /\ target'[d] # None
               /\ \E i \in 1 .. Len(queue'[target'[d]]) : queue'[target'[d]][i] = d
    <3>1. d # h /\ stage[d] = "queued"
      BY <2>6, <2>8
    <3>2. PICK i \in 1 .. Len(queue[target[d]]) : queue[target[d]][i] = d
      BY <3>1 DEF QueuesHold
    <3>3. target[d] \in Events
      BY <3>1 DEF QueuesHold
    <3>4. CASE target[d] = w
      <4>1. i \in 1 .. Len(queue[w]) /\ queue[w][i] = d
        BY <3>2, <3>4
      <4>2. i - 1 \in 1 .. Len(r) /\ r[i - 1] = d
        BY <2>2, <3>1, <4>1
      <4> QED BY <2>3, <2>5, <3>3, <3>4, <4>2
    <3>5. CASE target[d] # w
      BY <2>3, <2>5, <3>2, <3>3, <3>5
    <3> QED BY <3>4, <3>5
  <2> QED BY <2>7, <2>8 DEF QueuesHold
<1>7. ASSUME NEW w \in Events, EndWithoutRun(w) \/ Reply(w) \/ EndRetry(w) PROVE QueuesHold'
  <2>1. /\ wpc[w] \in Processing /\ stage' = [stage EXCEPT ![current[w]] = "done"]
        /\ target' = target /\ queue' = queue
    BY <1>7 DEF EndWithoutRun, Reply, EndRetry, MessageDone, On, Processing
  <2>2. stage[current[w]] = "serving" /\ current[w] \in Events
    BY <2>1 DEF CurrentIsServed, HeldPointers
  <2> QED BY <1>c, <2>1, <2>2
<1>8. ASSUME NEW w \in Events,
             \/ TimerFires(w) \/ IdleExit(w) \/ CtxExit(w) \/ Done(w) \/ Deregister(w)
             \/ BeginRun(w) \/ ExecuteReturns(w) \/ FinishRun(w) \/ StartRetry(w)
      PROVE  QueuesHold'
  BY <1>8, <1>b DEF TimerFires, IdleExit, CtxExit, Done, Deregister, BeginRun, ExecuteReturns,
     FinishRun, StartRetry, dispatchVars
<1>9. CASE Signal \/ WaitReturns \/ Exit \/ Exited
  BY <1>9, <1>b DEF Signal, WaitReturns, Exit, Exited, vars, dispatchVars, workerVars
<1> QED
  BY <1>1, <1>2, <1>3, <1>4, <1>5, <1>6, <1>7, <1>8, <1>9
  DEF Next, DispatchStep, WorkerStep, ClaudeStep

\* A worker processes what it took from its queue until MessageDone.
LEMMA CurrentStep == MailboxInv /\ [Next]_vars => CurrentIsServed'
<1> SUFFICES ASSUME MailboxInv, [Next]_vars PROVE CurrentIsServed'
  OBVIOUS
<1> USE EventsAssumption DEF MailboxInv, RegistryInv, TypeOK
<1>a. \A w \in Events : wpc[w] \in Processing =>
        current[w] \in Events /\ stage[current[w]] = "serving" /\ target[current[w]] = w
  BY DEF HeldPointers, CurrentIsServed
<1>b. ASSUME NEW e \in Events, NEW x, stage[e] # "serving",
             stage' = [stage EXCEPT ![e] = x], current' = current, wpc' = wpc,
             \A d \in Events \ {e} : target'[d] = target[d]
      PROVE  CurrentIsServed'
  BY <1>a, <1>b DEF CurrentIsServed
<1>c. ASSUME UNCHANGED <<stage, target, current>>, NEW w \in Events, NEW pc,
             wpc' = [wpc EXCEPT ![w] = pc], pc \in Processing <=> wpc[w] \in Processing
      PROVE  CurrentIsServed'
  BY <1>c DEF CurrentIsServed
<1>1. CASE UNCHANGED vars \/ Tick \/ Signal \/ WaitReturns \/ Exit \/ Exited
  BY <1>1 DEF CurrentIsServed, Tick, Signal, WaitReturns, Exit, Exited, vars, dispatchVars,
     workerVars
<1>2. ASSUME NEW e \in Events, Receive(e) PROVE CurrentIsServed'
  BY <1>2, <1>b DEF Receive, At, workerVars
<1>3. ASSUME NEW e \in Events, Lookup(e) \/ LockAndCheck(e) \/ StopLoad(e)
      PROVE  CurrentIsServed'
  BY <1>3, <1>b DEF Lookup, LockAndCheck, StopLoad, At, workerVars
<1>4. ASSUME NEW e \in Events, Send(e) \/ StopTake(e) \/ StopCancel(e) PROVE CurrentIsServed'
  BY <1>4, <1>b DEF Send, StopTake, StopCancel, At, workerVars
<1>5. ASSUME NEW e \in Events, StoreWorker(e) PROVE CurrentIsServed'
  <2>1. wpc[e] = "unborn" /\ stage[e] = "store"
    BY <1>5 DEF StoreWorker, At, HeldPointers
  <2>2. /\ stage' = [stage EXCEPT ![e] = "send"] /\ target' = [target EXCEPT ![e] = e]
        /\ wpc' = [wpc EXCEPT ![e] = "select"] /\ current' = current
    BY <1>5 DEF StoreWorker
  <2>3. current[e] = None
    BY <2>1 DEF CurrentIsServed, Processing
  <2>4. ASSUME NEW w \in Events \ {e}, wpc[w] \in Processing
        PROVE  stage'[current[w]] = "serving" /\ target'[current[w]] = w
    BY <1>a, <2>1, <2>2, <2>4
  <2> QED BY <2>2, <2>3, <2>4 DEF CurrentIsServed, Processing
<1>6. ASSUME NEW w \in Events, TakeMessage(w) PROVE CurrentIsServed'
  <2> DEFINE h == Head(queue[w])
  <2>1. h \in Events /\ h = queue[w][1] /\ 1 \in 1 .. Len(queue[w])
    BY <1>6 DEF TakeMessage
  <2>2. stage[h] = "queued" /\ target[h] = w
    BY <2>1 DEF QueuesHold
  <2>3. /\ stage' = [stage EXCEPT ![h] = "serving"] /\ target' = target
        /\ wpc' = [wpc EXCEPT ![w] = "process"] /\ current' = [current EXCEPT ![w] = h]
    BY <1>6 DEF TakeMessage
  <2> HIDE DEF h
  <2>4. ASSUME NEW v \in Events \ {w}, wpc[v] \in Processing
        PROVE  stage'[current'[v]] = "serving" /\ target'[current'[v]] = v
    BY <1>a, <2>2, <2>3, <2>4
  <2> QED BY <2>1, <2>2, <2>3, <2>4 DEF CurrentIsServed, Processing
<1>7. ASSUME NEW w \in Events, EndWithoutRun(w) \/ Reply(w) \/ EndRetry(w)
      PROVE  CurrentIsServed'
  <2>1. /\ wpc[w] \in Processing /\ stage' = [stage EXCEPT ![current[w]] = "done"]
        /\ target' = target /\ wpc' = [wpc EXCEPT ![w] = "select"]
        /\ current' = [current EXCEPT ![w] = None]
    BY <1>7 DEF EndWithoutRun, Reply, EndRetry, MessageDone, On, Processing
  <2>2. ASSUME NEW v \in Events \ {w}, wpc[v] \in Processing
        PROVE  stage'[current'[v]] = "serving" /\ target'[current'[v]] = v
    <3>1. current[v] # current[w] /\ current'[v] = current[v]
      BY <1>a, <2>1, <2>2
    <3> QED BY <1>a, <2>1, <2>2, <3>1
  <2> QED BY <2>1, <2>2 DEF CurrentIsServed, Processing
<1>8. ASSUME NEW w \in Events, TimerFires(w) PROVE CurrentIsServed'
  BY <1>8 DEF TimerFires, dispatchVars, CurrentIsServed
<1>9. ASSUME NEW w \in Events, IdleExit(w) \/ CtxExit(w) \/ Done(w) \/ Deregister(w)
      PROVE  CurrentIsServed'
  BY <1>9, <1>c DEF IdleExit, CtxExit, Done, Deregister, On, dispatchVars, Processing
<1>10. ASSUME NEW w \in Events,
              BeginRun(w) \/ ExecuteReturns(w) \/ FinishRun(w) \/ StartRetry(w)
      PROVE  CurrentIsServed'
  BY <1>10, <1>c DEF BeginRun, ExecuteReturns, FinishRun, StartRetry, On, dispatchVars, Processing
<1> QED
  BY <1>1, <1>2, <1>3, <1>4, <1>5, <1>6, <1>7, <1>8, <1>9, <1>10
  DEF Next, DispatchStep, WorkerStep, ClaudeStep

\* Every step keeps the mailbox invariant.
LEMMA MailboxStep == MailboxInv /\ [Next]_vars => MailboxInv'
<1>1. MailboxInv => RegistryInv
  BY DEF MailboxInv
<1>2. RegistryInv /\ [Next]_vars => RegistryInv'
  BY TypeStep, RegisteredStep, HeldPointersStep, WgCountsStep DEF RegistryInv
<1> QED BY <1>1, <1>2, OfChannelStep, StopsApartStep, QueuesHoldStep, CurrentStep DEF MailboxInv

-----------------------------------------------------------------------------
(* Every step is a step of SerialMailbox, or leaves the mailboxes alone *)

Messages == Events \ Stops

\* What the three mapped variables are, one stage at a time.
StatusFacts ==
    /\ statusBar = [m \in Messages |-> statusBar[m]]
    /\ \A m \in Messages :
        /\ stage[m] \in {"unsent", "lookup", "lock", "store", "send"} => statusBar[m] = "new"
        /\ stage[m] \in {"duplicate", "dropped"} => statusBar[m] = "lost"
        /\ stage[m] = "queued" =>
              statusBar[m] = IF wpc[target[m]] \in Serving THEN "waiting" ELSE "lost"
        /\ stage[m] = "serving" => statusBar[m] = "serving"
        /\ stage[m] = "done" => statusBar[m] = "served"
        /\ stage[m] \in {"unsent", "lookup", "lock", "store", "send", "duplicate", "dropped",
                         "queued", "serving", "done"}

BoxFacts ==
    /\ mailboxBar = [c \in Channels |-> mailboxBar[c]]
    /\ servingBar = [c \in Channels |-> servingBar[c]]
    /\ \A c \in Channels :
        /\ HasReader(c) => mailboxBar[c] = queue[workers[c]] /\ servingBar[c] = current[workers[c]]
        /\ ~HasReader(c) => mailboxBar[c] = <<>> /\ servingBar[c] = None

\* The definitions of the mapped variables, in this form.
LEMMA BarFacts == MailboxInv => StatusFacts /\ BoxFacts
<1> SUFFICES ASSUME MailboxInv PROVE StatusFacts /\ BoxFacts
  OBVIOUS
<1>1. \A m \in Messages : stage[m] \in {"unsent", "lookup", "lock", "store", "send",
          "duplicate", "dropped", "queued", "serving", "done"}
  BY DEF MailboxInv, RegistryInv, TypeOK, StopsApart, Stages, Messages
<1>2. StatusFacts
  BY <1>1 DEF StatusFacts, statusBar, Messages
<1>3. BoxFacts
  BY DEF BoxFacts, mailboxBar, servingBar
<1> QED BY <1>2, <1>3

\* The same in the next state.
LEMMA BarFactsPrime == MailboxInv' => StatusFacts' /\ BoxFacts'
BY BarFacts, PTL

\* What the mailbox of one channel is before and after a step.
LEMMA BoxOf ==
  ASSUME MailboxInv, MailboxInv', NEW c \in Channels
  PROVE  /\ HasReader(c) => mailboxBar[c] = queue[workers[c]] /\ servingBar[c] = current[workers[c]]
         /\ ~HasReader(c) => mailboxBar[c] = <<>> /\ servingBar[c] = None
         /\ HasReader(c)' =>
              mailboxBar'[c] = queue'[workers'[c]] /\ servingBar'[c] = current'[workers'[c]]
         /\ ~HasReader(c)' => mailboxBar'[c] = <<>> /\ servingBar'[c] = None
<1>1. BoxFacts /\ BoxFacts'
  BY BarFacts, BarFactsPrime
<1> QED BY <1>1 DEF BoxFacts

\* The reader of a channel is its registered worker.
LEMMA ReaderIsRegistered ==
  ASSUME MailboxInv, NEW w \in Events, wpc[w] \in Serving
  PROVE  /\ ChannelOf[w] \in Channels /\ workers[ChannelOf[w]] = w /\ HasReader(ChannelOf[w])
         /\ \A c \in Channels \ {ChannelOf[w]} : HasReader(c) =>
                workers[c] \in Events /\ workers[c] # w
BY EventsAssumption DEF MailboxInv, RegistryInv, TypeOK, Registered, OfChannel, HasReader,
   Alive, Tracked

\* A step that leaves readers, queues and current messages alone leaves the mailboxes
\* alone, ...
LEMMA SameBoxes ==
  ASSUME MailboxInv, MailboxInv',
         \A c \in Channels :
            /\ HasReader(c)' <=> HasReader(c)
            /\ HasReader(c) => /\ workers'[c] = workers[c]
                               /\ queue'[workers[c]] = queue[workers[c]]
                               /\ current'[workers[c]] = current[workers[c]]
  PROVE  mailboxBar' = mailboxBar /\ servingBar' = servingBar
<1>1. BoxFacts /\ BoxFacts'
  BY BarFacts, BarFactsPrime
<1>2. \A c \in Channels : mailboxBar'[c] = mailboxBar[c] /\ servingBar'[c] = servingBar[c]
  BY <1>1 DEF BoxFacts
<1> QED BY <1>1, <1>2 DEF BoxFacts

\* ... and so it is with the statuses when at most one message moves on, and the same
\* workers read.
LEMMA OtherStatus ==
  ASSUME MailboxInv, MailboxInv', NEW m \in Messages,
         stage'[m] = stage[m], target'[m] = target[m],
         stage[m] = "queued" =>
            (wpc'[target[m]] \in Serving <=> wpc[target[m]] \in Serving)
  PROVE  statusBar'[m] = statusBar[m]
<1>1. StatusFacts /\ StatusFacts'
  BY BarFacts, BarFactsPrime
<1> QED BY <1>1 DEF StatusFacts

\* Then the statuses as a whole are the same.
LEMMA SameStatus ==
  ASSUME MailboxInv, MailboxInv',
         \A m \in Messages : statusBar'[m] = statusBar[m]
  PROVE  statusBar' = statusBar
<1>1. StatusFacts /\ StatusFacts'
  BY BarFacts, BarFactsPrime
<1> QED BY <1>1 DEF StatusFacts

\* Every initial state is one of SerialMailbox.
LEMMA InitMaps == Init => Mailbox!Init
<1> SUFFICES ASSUME Init PROVE Mailbox!Init
  OBVIOUS
<1>1. StatusFacts /\ BoxFacts
  BY InitMailbox, BarFacts
<1>2. \A m \in Messages : stage[m] = "unsent"
  BY DEF Init, Messages
<1>3. \A c \in Channels : ~HasReader(c)
  BY DEF Init, HasReader
<1>4. statusBar = [m \in Messages |-> "new"]
  BY <1>1, <1>2 DEF StatusFacts
<1>5. mailboxBar = [c \in Channels |-> <<>>] /\ servingBar = [c \in Channels |-> None]
  BY <1>1, <1>3 DEF BoxFacts
<1> QED BY <1>4, <1>5 DEF Mailbox!Init, Messages

\* A delivery that is not in a queue yet, or that is a /stop, changes no mailbox.
LEMMA DispatchMaps ==
  ASSUME MailboxInv, MailboxInv', NEW e \in Events,
         UNCHANGED <<workers, queue, wpc, current>>,
         \A d \in Events \ {e} : stage'[d] = stage[d] /\ target'[d] = target[d],
         \/ e \in Stops
         \/ /\ stage[e] \in {"unsent", "lookup", "lock", "store", "send"}
            /\ stage'[e] \in {"unsent", "lookup", "lock", "store", "send"}
  PROVE  UNCHANGED Mailbox!vars
<1>1. mailboxBar' = mailboxBar /\ servingBar' = servingBar
  BY SameBoxes DEF HasReader
<1>2. ASSUME NEW m \in Messages PROVE statusBar'[m] = statusBar[m]
  <2>1. CASE m # e
    BY <2>1, OtherStatus DEF Messages
  <2>2. CASE m = e
    BY <2>2, BarFacts, BarFactsPrime DEF StatusFacts, Messages
  <2> QED BY <2>1, <2>2
<1> QED BY <1>1, <1>2, SameStatus DEF Mailbox!vars

\* isDuplicate lets a message pass, or refuses it.
LEMMA ReceiveMaps ==
  ASSUME MailboxInv, MailboxInv', NEW e \in Events, Receive(e)
  PROVE  [Mailbox!Next]_(Mailbox!vars)
<1>1. /\ UNCHANGED <<workers, queue, wpc, current>>
      /\ \A d \in Events \ {e} : stage'[d] = stage[d] /\ target'[d] = target[d]
      /\ stage[e] = "unsent" /\ stage'[e] \in {"duplicate", AfterDedup(e)}
  BY DEF Receive, At, registryVars, workerVars, MailboxInv, RegistryInv, TypeOK
<1>2. CASE e \in Stops
  BY <1>1, <1>2, DispatchMaps
<1>3. CASE e \notin Stops /\ stage'[e] = "lookup"
  BY <1>1, <1>3, DispatchMaps
<1>4. CASE e \notin Stops /\ stage'[e] = "duplicate"
  <2>1. mailboxBar' = mailboxBar /\ servingBar' = servingBar
    BY <1>1, SameBoxes DEF HasReader
  <2>2. \A m \in Messages \ {e} : statusBar'[m] = statusBar[m]
    BY <1>1, OtherStatus DEF Messages
  <2>3. e \in Messages /\ statusBar[e] = "new" /\ statusBar'[e] = "lost"
    BY <1>1, <1>4, BarFacts, BarFactsPrime DEF StatusFacts, Messages
  <2>4. statusBar' = [statusBar EXCEPT ![e] = "lost"]
    BY <2>2, <2>3, BarFacts, BarFactsPrime DEF StatusFacts
  <2>5. Mailbox!Refuse(e)
    BY <2>1, <2>3, <2>4 DEF Mailbox!Refuse
  <2> QED BY <2>3, <2>5 DEF Mailbox!Next, Messages
<1> QED BY <1>1, <1>2, <1>3, <1>4 DEF AfterDedup

\* A new worker opens its channel's mailbox, which is empty.
LEMMA StoreMaps ==
  ASSUME MailboxInv, MailboxInv', NEW e \in Events, StoreWorker(e)
  PROVE  UNCHANGED Mailbox!vars
<1> DEFINE c == ChannelOf[e]
<1>0. /\ c \in Channels /\ workers[c] = None /\ wpc[e] = "unborn" /\ stage[e] = "store"
      /\ workers \in [Channels -> Events \cup {None}] /\ e # None
      /\ wpc \in [Events -> WorkerStates] /\ target \in [Events -> Events \cup {None}]
      /\ stage \in [Events -> Stages] /\ queue[e] \in Seq(Events)
  BY EventsAssumption DEF MailboxInv, RegistryInv, TypeOK, Registered, HeldPointers,
     StoreWorker, At
<1>1. /\ stage' = [stage EXCEPT ![e] = "send"] /\ target' = [target EXCEPT ![e] = e]
      /\ workers' = [workers EXCEPT ![c] = e] /\ wpc' = [wpc EXCEPT ![e] = "select"]
      /\ queue' = queue /\ current' = current
  BY DEF StoreWorker
<1>2. current[e] = None
  BY <1>0 DEF MailboxInv, CurrentIsServed, Processing
<1>3. \A m \in Events : stage[m] = "queued" => target[m] # e
  BY <1>0 DEF MailboxInv, OfChannel
<1>4. queue[e] = <<>>
  <2> SUFFICES ASSUME queue[e] # <<>> PROVE FALSE
    OBVIOUS
  <2>1. 1 \in 1 .. Len(queue[e]) /\ queue[e][1] \in Events
    BY <1>0
  <2>2. stage[queue[e][1]] = "queued" /\ target[queue[e][1]] = e
    BY <2>1 DEF MailboxInv, QueuesHold
  <2> QED BY <1>3, <2>1, <2>2
<1>5. \A d \in Channels \ {c} : workers'[d] = workers[d] /\ workers[d] # e
  BY <1>0, <1>1 DEF MailboxInv, OfChannel, Alive, Tracked, Serving, Processing
<1> HIDE DEF c
<1>6. ~HasReader(c) /\ HasReader(c)' /\ workers'[c] = e
  BY <1>0, <1>1 DEF HasReader, Serving
<1>7. ASSUME NEW d \in Channels
      PROVE  mailboxBar'[d] = mailboxBar[d] /\ servingBar'[d] = servingBar[d]
  <2>1. CASE d = c
    BY <1>0, <1>1, <1>2, <1>4, <1>6, <2>1, BarFacts, BarFactsPrime DEF BoxFacts
  <2>2. CASE d # c
    <3>1. HasReader(d)' <=> HasReader(d)
      BY <1>0, <1>1, <1>5, <2>2 DEF HasReader
    <3> QED BY <1>1, <1>5, <2>2, <3>1, BarFacts, BarFactsPrime DEF BoxFacts
  <2> QED BY <2>1, <2>2
<1>8. mailboxBar' = mailboxBar /\ servingBar' = servingBar
  BY <1>7, BarFacts, BarFactsPrime DEF BoxFacts
<1>9. ASSUME NEW m \in Messages PROVE statusBar'[m] = statusBar[m]
  <2>1. CASE m = e
    BY <1>0, <1>1, <2>1, BarFacts, BarFactsPrime DEF StatusFacts
  <2>2. CASE m # e
    <3>1. stage'[m] = stage[m] /\ target'[m] = target[m]
      BY <1>0, <1>1, <2>2 DEF Messages
    <3>2. stage[m] = "queued" => wpc'[target[m]] = wpc[target[m]]
      BY <1>0, <1>1, <1>3 DEF Messages
    <3> QED BY <3>1, <3>2, OtherStatus
  <2> QED BY <2>1, <2>2
<1> QED BY <1>8, <1>9, SameStatus DEF Mailbox!vars

\* A message enters the queue of a worker that reads it, or is lost: the queue is full,
\* or its worker has left.
LEMMA SendMaps ==
  ASSUME MailboxInv, MailboxInv', NEW e \in Events, Send(e)
  PROVE  [Mailbox!Next]_(Mailbox!vars)
<1> DEFINE w == target[e]
           c == ChannelOf[e]
<1>1. /\ stage[e] = "send" /\ w \in Events /\ target' = target /\ workers' = workers
      /\ wpc' = wpc /\ current' = current /\ e \in Messages
      /\ stage \in [Events -> Stages] /\ queue \in [Events -> Seq(Events)]
      /\ c \in Channels /\ ChannelOf[w] = c
      /\ workers \in [Channels -> Events \cup {None}]
  <2>1. /\ stage[e] = "send" /\ target' = target /\ workers' = workers
        /\ wpc' = wpc /\ current' = current
    BY DEF Send, At, registryVars
  <2>2. /\ stage \in [Events -> Stages] /\ queue \in [Events -> Seq(Events)]
        /\ workers \in [Channels -> Events \cup {None}] /\ c \in Channels
    BY EventsAssumption DEF MailboxInv, RegistryInv, TypeOK
  <2>3. w \in Events
    BY <2>1 DEF MailboxInv, RegistryInv, HeldPointers
  <2>4. ChannelOf[w] = c
    BY <2>3, EventsAssumption DEF MailboxInv, OfChannel
  <2>5. e \in Messages
    BY <2>1 DEF MailboxInv, StopsApart, Messages
  <2> QED BY <2>1, <2>2, <2>3, <2>4, <2>5
<1>2. \/ stage' = [stage EXCEPT ![e] = "dropped"] /\ queue' = queue
      \/ /\ stage' = [stage EXCEPT ![e] = "queued"]
         /\ queue' = [queue EXCEPT ![w] = Append(queue[w], e)] /\ Len(queue[w]) < QueueCap
  BY DEF Send
<1> HIDE DEF w, c
<1>3. \A d \in Channels : HasReader(d)' <=> HasReader(d)
  BY <1>1 DEF HasReader
<1>4. \A m \in Messages \ {e} : statusBar'[m] = statusBar[m]
  <2>1. \A m \in Messages \ {e} : stage'[m] = stage[m] /\ target'[m] = target[m]
    BY <1>1, <1>2 DEF Messages
  <2> QED BY <1>1, <2>1, OtherStatus
<1>5. statusBar[e] = "new"
  BY <1>1, BarFacts DEF StatusFacts
<1>6. CASE wpc[w] \in Serving /\ stage'[e] = "queued"
  <2>1. /\ queue' = [queue EXCEPT ![w] = Append(queue[w], e)] /\ Len(queue[w]) < QueueCap
        /\ stage'[e] = "queued"
    BY <1>1, <1>2, <1>6
  <2>2. HasReader(c) /\ workers[c] = w /\ \A d \in Channels \ {c} : HasReader(d) =>
          workers[d] \in Events /\ workers[d] # w
    BY <1>1, <1>6, ReaderIsRegistered
  <2>3. statusBar'[e] = "waiting"
    BY <1>1, <1>6, <2>1, BarFactsPrime DEF StatusFacts, w
  <2>4. statusBar' = [statusBar EXCEPT ![e] = "waiting"]
    BY <1>4, <2>3, BarFacts, BarFactsPrime DEF StatusFacts
  <2>5. /\ mailboxBar[c] = queue[w] /\ mailboxBar'[c] = Append(queue[w], e)
        /\ servingBar'[c] = servingBar[c]
    <3>1. queue'[w] = Append(queue[w], e) /\ workers'[c] = w /\ current'[w] = current[w]
      BY <1>1, <2>1, <2>2
    <3>2. HasReader(c)'
      BY <1>1, <1>3, <2>2
    <3>3. c \in Channels
      BY <1>1
    <3> QED BY <2>2, <3>1, <3>2, <3>3, BoxOf
  <2>6. ASSUME NEW d \in Channels \ {c}
        PROVE  mailboxBar'[d] = mailboxBar[d] /\ servingBar'[d] = servingBar[d]
    <3>1. HasReader(d) => queue'[workers[d]] = queue[workers[d]]
      BY <1>1, <2>1, <2>2
    <3>2. workers'[d] = workers[d] /\ (HasReader(d)' <=> HasReader(d))
      BY <1>1, <1>3
    <3> QED BY <1>1, <3>1, <3>2, BarFacts, BarFactsPrime DEF BoxFacts
  <2>7. servingBar' = servingBar
    BY <2>5, <2>6, BarFacts, BarFactsPrime DEF BoxFacts
  <2>8. mailboxBar' = [mailboxBar EXCEPT ![c] = Append(mailboxBar[c], e)]
    BY <2>5, <2>6, BarFacts, BarFactsPrime DEF BoxFacts
  <2>9. Len(mailboxBar[c]) < QueueCap
    BY <2>1, <2>5
  <2>10. Mailbox!Put(e)
    BY <1>5, <2>4, <2>7, <2>8, <2>9 DEF Mailbox!Put, c
  <2> QED BY <1>1, <2>10 DEF Mailbox!Next, Messages
<1>7. CASE wpc[w] \notin Serving \/ stage'[e] = "dropped"
  <2>1. stage'[e] \in {"queued", "dropped"}
    BY <1>1, <1>2
  <2>2. statusBar'[e] = "lost"
    BY <1>1, <1>7, <2>1, BarFactsPrime DEF StatusFacts, w
  <2>3. ASSUME NEW d \in Channels, HasReader(d)
        PROVE  queue'[workers[d]] = queue[workers[d]]
    <3>1. CASE wpc[w] \notin Serving
      <4>1. workers[d] # w /\ workers[d] \in Events
        BY <1>1, <2>3, <3>1 DEF HasReader
      <4> QED BY <1>1, <1>2, <4>1
    <3>2. CASE stage'[e] = "dropped"
      BY <1>1, <1>2, <3>2
    <3> QED BY <1>7, <3>1, <3>2
  <2>4. mailboxBar' = mailboxBar /\ servingBar' = servingBar
    BY <1>1, <1>3, <2>3, SameBoxes
  <2>5. statusBar' = [statusBar EXCEPT ![e] = "lost"]
    BY <1>4, <2>2, BarFacts, BarFactsPrime DEF StatusFacts
  <2>6. Mailbox!Refuse(e)
    BY <1>5, <2>4, <2>5 DEF Mailbox!Refuse
  <2> QED BY <1>1, <2>6 DEF Mailbox!Next, Messages
<1>8. stage'[e] \in {"queued", "dropped"}
  BY <1>1, <1>2
<1> QED BY <1>6, <1>7, <1>8

\* The worker takes the oldest message of its channel.
LEMMA TakeMaps ==
  ASSUME MailboxInv, MailboxInv', NEW w \in Events, TakeMessage(w)
  PROVE  Mailbox!Next
<1> DEFINE c == ChannelOf[w]
           h == Head(queue[w])
<1>1. /\ wpc[w] = "select" /\ queue[w] # <<>> /\ queue \in [Events -> Seq(Events)]
      /\ stage' = [stage EXCEPT ![h] = "serving"] /\ target' = target /\ workers' = workers
      /\ wpc' = [wpc EXCEPT ![w] = "process"] /\ current' = [current EXCEPT ![w] = h]
      /\ queue' = [queue EXCEPT ![w] = Tail(queue[w])]
      /\ wpc \in [Events -> WorkerStates] /\ current \in [Events -> Events \cup {None}]
      /\ stage \in [Events -> Stages] /\ workers \in [Channels -> Events \cup {None}]
  BY DEF TakeMessage, On, registryVars, MailboxInv, RegistryInv, TypeOK
<1>2. h \in Events /\ stage[h] = "queued" /\ h \in Messages
  <2>1. h = queue[w][1] /\ h \in Events /\ 1 \in 1 .. Len(queue[w])
    BY <1>1
  <2> QED BY <2>1 DEF MailboxInv, QueuesHold, StopsApart, Messages
<1>3. /\ c \in Channels /\ HasReader(c) /\ workers[c] = w
      /\ \A d \in Channels \ {c} : HasReader(d) => workers[d] \in Events /\ workers[d] # w
  BY <1>1, ReaderIsRegistered DEF Serving
<1>4. current[w] = None
  BY <1>1 DEF MailboxInv, CurrentIsServed, Processing
<1> HIDE DEF c, h
<1>5. \A d \in Channels : HasReader(d)' <=> HasReader(d)
  BY <1>1 DEF HasReader, Serving, Processing
<1>6. \A m \in Messages \ {h} : statusBar'[m] = statusBar[m]
  <2>1. \A m \in Messages \ {h} : stage'[m] = stage[m] /\ target'[m] = target[m]
    BY <1>1 DEF Messages
  <2>2. \A v : v \in Events => (wpc'[v] \in Serving <=> wpc[v] \in Serving)
    BY <1>1 DEF Serving, Processing
  <2>3. \A m \in Messages : stage[m] = "queued" => target[m] \in Events
    BY DEF MailboxInv, RegistryInv, TypeOK, QueuesHold, Messages
  <2> QED BY <2>1, <2>2, <2>3, OtherStatus
<1>7. statusBar'[h] = "serving"
  BY <1>1, <1>2, BarFactsPrime DEF StatusFacts
<1>8. statusBar' = [statusBar EXCEPT ![h] = "serving"]
  BY <1>6, <1>7, BarFacts, BarFactsPrime DEF StatusFacts
<1>9. /\ mailboxBar[c] = queue[w] /\ servingBar[c] = None
      /\ mailboxBar'[c] = Tail(queue[w]) /\ servingBar'[c] = h
  BY <1>1, <1>3, <1>4, <1>5, BarFacts, BarFactsPrime DEF BoxFacts
<1>10. ASSUME NEW d \in Channels \ {c}
       PROVE  mailboxBar'[d] = mailboxBar[d] /\ servingBar'[d] = servingBar[d]
  <2>1. HasReader(d) => /\ current'[workers[d]] = current[workers[d]]
                        /\ queue'[workers[d]] = queue[workers[d]]
    BY <1>1, <1>3
  <2>2. workers'[d] = workers[d] /\ (HasReader(d)' <=> HasReader(d))
    BY <1>1, <1>5
  <2> QED BY <2>1, <2>2, BoxOf
<1>11. /\ mailboxBar' = [mailboxBar EXCEPT ![c] = Tail(mailboxBar[c])]
       /\ servingBar' = [servingBar EXCEPT ![c] = h]
  BY <1>9, <1>10, BarFacts, BarFactsPrime DEF BoxFacts
<1>12. Mailbox!Begin(c)
  BY <1>1, <1>8, <1>9, <1>11 DEF Mailbox!Begin, h
<1> QED BY <1>3, <1>12 DEF Mailbox!Next

\* The worker is done with the message of its channel.
LEMMA DoneMaps ==
  ASSUME MailboxInv, MailboxInv', NEW w \in Events, EndWithoutRun(w) \/ Reply(w) \/ EndRetry(w)
  PROVE  Mailbox!Next
<1> DEFINE c == ChannelOf[w]
           h == current[w]
<1>1. /\ wpc[w] \in Processing /\ queue' = queue
      /\ stage' = [stage EXCEPT ![h] = "done"] /\ target' = target /\ workers' = workers
      /\ wpc' = [wpc EXCEPT ![w] = "select"] /\ current' = [current EXCEPT ![w] = None]
      /\ wpc \in [Events -> WorkerStates] /\ current \in [Events -> Events \cup {None}]
      /\ stage \in [Events -> Stages] /\ workers \in [Channels -> Events \cup {None}]
  BY DEF EndWithoutRun, Reply, EndRetry, MessageDone, On, Processing, registryVars, MailboxInv,
     RegistryInv, TypeOK
<1>2. h \in Events /\ stage[h] = "serving" /\ h \in Messages /\ h # None
  BY <1>1, EventsAssumption DEF MailboxInv, RegistryInv, HeldPointers, CurrentIsServed,
     StopsApart, Messages
<1>3. /\ c \in Channels /\ HasReader(c) /\ workers[c] = w
      /\ \A d \in Channels \ {c} : HasReader(d) => workers[d] \in Events /\ workers[d] # w
  BY <1>1, ReaderIsRegistered DEF Serving
<1> HIDE DEF c, h
<1>5. \A d \in Channels : HasReader(d)' <=> HasReader(d)
  BY <1>1 DEF HasReader, Serving
<1>6. \A m \in Messages \ {h} : statusBar'[m] = statusBar[m]
  <2>1. \A m \in Messages \ {h} : stage'[m] = stage[m] /\ target'[m] = target[m]
    BY <1>1 DEF Messages
  <2>2. \A v : v \in Events => (wpc'[v] \in Serving <=> wpc[v] \in Serving)
    BY <1>1 DEF Serving
  <2>3. \A m \in Messages : stage[m] = "queued" => target[m] \in Events
    BY DEF MailboxInv, RegistryInv, TypeOK, QueuesHold, Messages
  <2> QED BY <2>1, <2>2, <2>3, OtherStatus
<1>7. statusBar'[h] = "served"
  BY <1>1, <1>2, BarFactsPrime DEF StatusFacts
<1>8. statusBar' = [statusBar EXCEPT ![h] = "served"]
  BY <1>6, <1>7, BarFacts, BarFactsPrime DEF StatusFacts
<1>9. /\ mailboxBar[c] = queue[w] /\ servingBar[c] = h
      /\ mailboxBar'[c] = queue[w] /\ servingBar'[c] = None
  BY <1>1, <1>3, <1>5, BarFacts, BarFactsPrime DEF BoxFacts, h
<1>10. ASSUME NEW d \in Channels \ {c}
       PROVE  mailboxBar'[d] = mailboxBar[d] /\ servingBar'[d] = servingBar[d]
  <2>1. HasReader(d) => current'[workers[d]] = current[workers[d]]
    BY <1>1, <1>3
  <2>2. queue' = queue /\ workers'[d] = workers[d] /\ (HasReader(d)' <=> HasReader(d))
    BY <1>1, <1>5
  <2> QED BY <2>1, <2>2, BoxOf
<1>11. mailboxBar' = mailboxBar /\ servingBar' = [servingBar EXCEPT ![c] = None]
  BY <1>9, <1>10, BarFacts, BarFactsPrime DEF BoxFacts
<1>12. Mailbox!End(c)
  BY <1>2, <1>8, <1>9, <1>11 DEF Mailbox!End
<1> QED BY <1>3, <1>12 DEF Mailbox!Next

\* A worker that leaves abandons what is in its queue, if anything is.
LEMMA ExitMaps ==
  ASSUME MailboxInv, MailboxInv', NEW w \in Events, IdleExit(w) \/ CtxExit(w)
  PROVE  [Mailbox!Next]_(Mailbox!vars)
<1> DEFINE c == ChannelOf[w]
<1>1. /\ wpc[w] = "select" /\ queue' = queue /\ stage' = stage /\ target' = target
      /\ workers' = workers /\ wpc' = [wpc EXCEPT ![w] = "returned"] /\ current' = current
      /\ wpc \in [Events -> WorkerStates] /\ queue \in [Events -> Seq(Events)]
      /\ workers \in [Channels -> Events \cup {None}]
  BY DEF IdleExit, CtxExit, On, registryVars, dispatchVars, MailboxInv, RegistryInv, TypeOK
<1>2. /\ c \in Channels /\ HasReader(c) /\ workers[c] = w
      /\ \A d \in Channels \ {c} : HasReader(d) => workers[d] \in Events /\ workers[d] # w
  BY <1>1, ReaderIsRegistered DEF Serving
<1>3. current[w] = None
  BY <1>1 DEF MailboxInv, CurrentIsServed, Processing
<1> HIDE DEF c
<1>4. ~HasReader(c)'
  BY <1>1, <1>2 DEF HasReader, Serving, Processing
<1>5. \A d \in Channels \ {c} : HasReader(d)' <=> HasReader(d)
  <2> SUFFICES ASSUME NEW d \in Channels \ {c} PROVE HasReader(d)' <=> HasReader(d)
    OBVIOUS
  <2>1. CASE workers[d] = w
    <3>1. ~HasReader(d)
      BY <1>2, <2>1
    <3>2. ~HasReader(d)'
      BY <1>1, <2>1 DEF HasReader, Serving, Processing
    <3> QED BY <3>1, <3>2
  <2>2. CASE workers[d] # w
    BY <1>1, <2>2 DEF HasReader
  <2> QED BY <2>1, <2>2
<1>6. /\ mailboxBar[c] = queue[w] /\ mailboxBar'[c] = <<>>
      /\ servingBar[c] = None /\ servingBar'[c] = None
  BY <1>2, <1>3, <1>4, BarFacts, BarFactsPrime DEF BoxFacts
<1>7. ASSUME NEW d \in Channels \ {c}
      PROVE  mailboxBar'[d] = mailboxBar[d] /\ servingBar'[d] = servingBar[d]
  <2>1. /\ HasReader(d) => mailboxBar[d] = queue[workers[d]] /\ servingBar[d] = current[workers[d]]
        /\ ~HasReader(d) => mailboxBar[d] = <<>> /\ servingBar[d] = None
        /\ HasReader(d)' =>
             mailboxBar'[d] = queue'[workers'[d]] /\ servingBar'[d] = current'[workers'[d]]
        /\ ~HasReader(d)' => mailboxBar'[d] = <<>> /\ servingBar'[d] = None
    BY BoxOf
  <2>2. HasReader(d)' <=> HasReader(d)
    BY <1>5
  <2> QED BY <1>1, <2>1, <2>2
<1>8. servingBar' = servingBar /\ mailboxBar' = [mailboxBar EXCEPT ![c] = <<>>]
  BY <1>6, <1>7, BarFacts, BarFactsPrime DEF BoxFacts
<1>9. ASSUME NEW m \in Messages
      PROVE  statusBar'[m] = IF \E i \in 1 .. Len(queue[w]) : queue[w][i] = m
                             THEN "lost" ELSE statusBar[m]
  <2>1. CASE \E i \in 1 .. Len(queue[w]) : queue[w][i] = m
    <3>1. stage[m] = "queued" /\ target[m] = w
      BY <2>1 DEF MailboxInv, QueuesHold
    <3>2. wpc'[w] \notin Serving
      BY <1>1 DEF Serving, Processing
    <3> QED BY <1>1, <2>1, <3>1, <3>2, BarFactsPrime DEF StatusFacts
  <2>2. CASE ~\E i \in 1 .. Len(queue[w]) : queue[w][i] = m
    <3>1. stage[m] = "queued" => target[m] # w
      BY <2>2 DEF MailboxInv, QueuesHold, Messages
    <3>2. stage[m] = "queued" => wpc'[target[m]] = wpc[target[m]]
      BY <1>1, <3>1
    <3> QED BY <1>1, <2>2, <3>2, OtherStatus
  <2> QED BY <2>1, <2>2
<1>10. CASE queue[w] = <<>>
  <2>1. \A m \in Messages : statusBar'[m] = statusBar[m]
    BY <1>9, <1>10
  <2>2. mailboxBar' = mailboxBar
    BY <1>6, <1>7, <1>10, BarFacts, BarFactsPrime DEF BoxFacts
  <2> QED BY <1>8, <2>1, <2>2, SameStatus DEF Mailbox!vars
<1>11. CASE queue[w] # <<>>
  <2>1. statusBar' = [m \in Messages |->
                        IF \E i \in 1 .. Len(mailboxBar[c]) : mailboxBar[c][i] = m
                        THEN "lost" ELSE statusBar[m]]
    BY <1>6, <1>9, BarFactsPrime DEF StatusFacts
  <2>2. Mailbox!Abandon(c)
    BY <1>6, <1>8, <1>11, <2>1 DEF Mailbox!Abandon, Messages
  <2> QED BY <1>2, <2>2 DEF Mailbox!Next
<1> QED BY <1>10, <1>11

\* Where a worker is inside process, and how it leaves the registry, is not seen.
LEMMA WorkerMaps ==
  ASSUME MailboxInv, MailboxInv', NEW w \in Events,
         \/ BeginRun(w) \/ ExecuteReturns(w) \/ FinishRun(w) \/ StartRetry(w) \/ Done(w)
         \/ Deregister(w)
  PROVE  UNCHANGED Mailbox!vars
<1>1. /\ UNCHANGED <<stage, target, queue, current>>
      /\ wpc \in [Events -> WorkerStates] /\ workers \in [Channels -> Events \cup {None}]
      /\ \A v \in Events : wpc'[v] \in Serving <=> wpc[v] \in Serving
  BY DEF BeginRun, ExecuteReturns, FinishRun, StartRetry, Done, Deregister, On, dispatchVars,
     Serving, Processing, MailboxInv, RegistryInv, TypeOK
<1>2. \A m \in Messages : stage[m] = "queued" => target[m] \in Events
  BY DEF MailboxInv, RegistryInv, TypeOK, QueuesHold, Messages
<1>3. \A m \in Messages : statusBar'[m] = statusBar[m]
  BY <1>1, <1>2, OtherStatus
<1>4. ASSUME NEW c \in Channels
      PROVE  /\ HasReader(c)' <=> HasReader(c)
             /\ HasReader(c) => workers'[c] = workers[c]
  <2>1. CASE workers' = workers
    BY <1>1, <2>1 DEF HasReader
  <2>2. CASE Deregister(w)
    <3>1. wpc[w] = "deregister" /\ workers' = [workers EXCEPT ![ChannelOf[w]] = None]
      BY <2>2 DEF Deregister, On
    <3>2. workers[ChannelOf[w]] = w
      BY <3>1 DEF MailboxInv, RegistryInv, Registered, Alive
    <3>3. CASE c = ChannelOf[w]
      BY <1>1, <3>1, <3>2, <3>3 DEF HasReader, Serving, Processing
    <3>4. CASE c # ChannelOf[w]
      BY <1>1, <3>1, <3>4 DEF HasReader
    <3> QED BY <3>3, <3>4
  <2> QED BY <2>1, <2>2 DEF BeginRun, ExecuteReturns, FinishRun, StartRetry, Done, registryVars
<1>5. mailboxBar' = mailboxBar /\ servingBar' = servingBar
  BY <1>1, <1>4, SameBoxes
<1> QED BY <1>3, <1>5, SameStatus DEF Mailbox!vars

\* The clock, the timers and main change nothing of it.
LEMMA OtherMaps ==
  ASSUME MailboxInv, MailboxInv',
         UNCHANGED <<stage, target, workers, wpc, queue, current>>
  PROVE  UNCHANGED Mailbox!vars
<1>1. \A m \in Messages : statusBar'[m] = statusBar[m]
  BY OtherStatus
<1>2. mailboxBar' = mailboxBar /\ servingBar' = servingBar
  BY SameBoxes DEF HasReader
<1> QED BY <1>1, <1>2, SameStatus DEF Mailbox!vars

\* So every step is one of the mailboxes.
LEMMA NextMaps == MailboxInv /\ MailboxInv' /\ [Next]_vars => [Mailbox!Next]_(Mailbox!vars)
<1> SUFFICES ASSUME MailboxInv, MailboxInv', [Next]_vars PROVE [Mailbox!Next]_(Mailbox!vars)
  OBVIOUS
<1>1. CASE UNCHANGED vars \/ Tick \/ Signal \/ WaitReturns \/ Exit \/ Exited
  <2>1. UNCHANGED <<stage, target, workers, wpc, queue, current>>
    BY <1>1 DEF Tick, Signal, WaitReturns, Exit, Exited, vars, dispatchVars, registryVars,
       workerVars
  <2> QED BY <2>1, OtherMaps
<1>2. ASSUME NEW w \in Events, TimerFires(w) PROVE [Mailbox!Next]_(Mailbox!vars)
  <2>1. UNCHANGED <<stage, target, workers, wpc, queue, current>>
    BY <1>2 DEF TimerFires, dispatchVars, registryVars
  <2> QED BY <2>1, OtherMaps
<1>3. ASSUME NEW e \in Events, Lookup(e) \/ LockAndCheck(e)
      PROVE  [Mailbox!Next]_(Mailbox!vars)
  <2>1. /\ UNCHANGED <<workers, queue, wpc, current>>
        /\ \A d \in Events \ {e} : stage'[d] = stage[d] /\ target'[d] = target[d]
        /\ stage[e] \in {"lookup", "lock"} /\ stage'[e] \in {"lock", "store", "send"}
    BY <1>3 DEF Lookup, LockAndCheck, At, registryVars, workerVars, MailboxInv, RegistryInv, TypeOK
  <2> QED BY <2>1, DispatchMaps
<1>4. ASSUME NEW e \in Events, StopLoad(e) \/ StopTake(e) \/ StopCancel(e)
      PROVE  [Mailbox!Next]_(Mailbox!vars)
  <2>1. /\ UNCHANGED <<workers, queue, wpc, current>>
        /\ \A d \in Events \ {e} : stage'[d] = stage[d] /\ target'[d] = target[d]
        /\ stage[e] \in {"stopping", "taking", "cancelling"}
    BY <1>4 DEF StopLoad, StopTake, StopCancel, At, registryVars, workerVars, MailboxInv,
       RegistryInv, TypeOK
  <2>2. e \in Stops
    BY <2>1 DEF MailboxInv, StopsApart
  <2> QED BY <2>1, <2>2, DispatchMaps
<1> QED
  BY <1>1, <1>2, <1>3, <1>4, ReceiveMaps, StoreMaps, SendMaps, TakeMaps, DoneMaps, ExitMaps,
     WorkerMaps DEF Next, DispatchStep, WorkerStep, ClaudeStep

-----------------------------------------------------------------------------
(* What /stop cancels: CancelInv *)

\* The part of the types that the next lemmas need.
CancelTypes ==
    /\ stage \in [Events -> Stages] /\ target \in [Events -> Events \cup {None}]
    /\ taken \in [Events -> Events \cup {None}] /\ wpc \in [Events -> WorkerStates]
    /\ current \in [Events -> Events \cup {None}]
    /\ currentRunCancel \in [Events -> Events \cup {None}]
    /\ outcome \in [Events -> {"answered", "canceled", None}] /\ cancelled \subseteq Events

\* What a worker processes is a message that was sent to it, in its channel.
Processes(w) ==
    wpc[w] \in Processing =>
        /\ current[w] \in Events /\ stage[current[w]] = "serving" /\ target[current[w]] = w
        /\ ChannelOf[current[w]] = ChannelOf[w]

\* The parts of CancelInv one by one, for citing.
LEMMA CancelFacts == MailboxInv => CancelTypes /\ \A w \in Events : Processes(w)
<1> SUFFICES ASSUME MailboxInv PROVE CancelTypes /\ \A w \in Events : Processes(w)
  OBVIOUS
<1>1. CancelTypes
  BY DEF CancelTypes, MailboxInv, RegistryInv, TypeOK
<1>2. \A w \in Events : wpc[w] \in Processing =>
          current[w] \in Events /\ stage[current[w]] = "serving" /\ target[current[w]] = w
  BY DEF MailboxInv, RegistryInv, HeldPointers, CurrentIsServed
<1>3. \A e \in Events : target[e] \in Events => ChannelOf[target[e]] = ChannelOf[e]
  BY EventsAssumption DEF MailboxInv, OfChannel
<1> QED BY <1>1, <1>2, <1>3 DEF Processes

\* What the worker takes from its queue was waiting there.
LEMMA HeadIsQueued ==
  ASSUME MailboxInv, NEW w \in Events, TakeMessage(w)
  PROVE  /\ Head(queue[w]) \in Events /\ stage[Head(queue[w])] = "queued"
         /\ Head(queue[w]) \notin Stops
<1>1. queue[w] \in Seq(Events) /\ queue[w] # <<>>
  BY DEF TakeMessage, MailboxInv, RegistryInv, TypeOK
<1>2. Head(queue[w]) = queue[w][1] /\ Head(queue[w]) \in Events /\ 1 \in 1 .. Len(queue[w])
  BY <1>1
<1> QED BY <1>2 DEF MailboxInv, QueuesHold, StopsApart

\* What MessageDone does, for each of the steps that end in it.
LEMMA MessageDoneFacts ==
  ASSUME MailboxInv, NEW w \in Events, EndWithoutRun(w) \/ Reply(w) \/ EndRetry(w)
  PROVE  /\ wpc[w] \in {"process", "reply", "retry"} /\ wpc' = [wpc EXCEPT ![w] = "select"]
         /\ current[w] \in Events /\ stage[current[w]] = "serving"
         /\ stage' = [stage EXCEPT ![current[w]] = "done"]
         /\ current' = [current EXCEPT ![w] = None] /\ outcome' = [outcome EXCEPT ![w] = None]
         /\ UNCHANGED <<target, taken, currentRunCancel, cancelled, ctxDone>>
<1>1. wpc[w] \in {"process", "reply", "retry"}
  BY DEF EndWithoutRun, Reply, EndRetry, On
<1>2. current[w] \in Events /\ stage[current[w]] = "serving"
  BY <1>1, CancelFacts DEF Processes, Processing
<1> QED BY <1>1, <1>2 DEF EndWithoutRun, Reply, EndRetry, MessageDone, mainVars

\* Only beginCurrentRun sets the cancel func, and it is cleared before the worker goes
\* on: by finishRun, or by the /stop that took it.
LEMMA CancelIsCurrentStep == MailboxInv /\ CancelIsCurrent /\ [Next]_vars => CancelIsCurrent'
<1> SUFFICES ASSUME MailboxInv, CancelIsCurrent, [Next]_vars PROVE CancelIsCurrent'
  OBVIOUS
<1>0. CancelTypes /\ \A w \in Events : Processes(w)
  BY CancelFacts
<1> USE DEF CancelTypes, CancelIsCurrent
<1>1. CASE UNCHANGED <<wpc, current, currentRunCancel>>
  BY <1>1
<1>2. CASE UNCHANGED vars \/ Tick \/ Signal \/ WaitReturns \/ Exit \/ Exited
  BY <1>1, <1>2 DEF Tick, Signal, WaitReturns, Exit, Exited, vars, workerVars
<1>3. ASSUME NEW e \in Events,
             \/ Receive(e) \/ Lookup(e) \/ LockAndCheck(e) \/ Send(e) \/ StopLoad(e)
             \/ StopCancel(e) \/ TimerFires(e)
      PROVE  CancelIsCurrent'
  BY <1>1, <1>3 DEF Receive, Lookup, LockAndCheck, Send, StopLoad, StopCancel, TimerFires,
     workerVars
<1>4. ASSUME NEW e \in Events, StoreWorker(e) PROVE CancelIsCurrent'
  <2>1. wpc[e] = "unborn"
    BY <1>4 DEF StoreWorker, At, MailboxInv, RegistryInv, HeldPointers
  <2> QED BY <1>0, <1>4, <2>1 DEF StoreWorker
<1>5. ASSUME NEW e \in Events, StopTake(e) PROVE CancelIsCurrent'
  BY <1>0, <1>5 DEF StopTake
<1>6. ASSUME NEW w \in Events, TakeMessage(w) PROVE CancelIsCurrent'
  BY <1>0, <1>6 DEF TakeMessage, On
<1>7. ASSUME NEW w \in Events, EndWithoutRun(w) \/ Reply(w) \/ EndRetry(w)
      PROVE  CancelIsCurrent'
  BY <1>0, <1>7, MessageDoneFacts
<1>8. ASSUME NEW w \in Events,
             \/ IdleExit(w) \/ CtxExit(w) \/ Done(w) \/ Deregister(w) \/ BeginRun(w)
             \/ ExecuteReturns(w) \/ FinishRun(w) \/ StartRetry(w)
      PROVE  CancelIsCurrent'
  BY <1>0, <1>8 DEF IdleExit, CtxExit, Done, Deregister, BeginRun, ExecuteReturns, FinishRun,
     StartRetry, On
<1> QED
  BY <1>1, <1>2, <1>3, <1>4, <1>5, <1>6, <1>7, <1>8 DEF Next, DispatchStep, WorkerStep, ClaudeStep

\* What a /stop takes is what a worker of its channel is running.
LEMMA TakenStep == MailboxInv /\ CancelIsCurrent /\ TakenHadBegun /\ [Next]_vars => TakenHadBegun'
<1> SUFFICES ASSUME MailboxInv, CancelIsCurrent, TakenHadBegun, [Next]_vars
             PROVE  TakenHadBegun'
  OBVIOUS
<1>0. CancelTypes /\ \A w \in Events : Processes(w)
  BY CancelFacts
<1> USE EventsAssumption DEF CancelTypes, TakenHadBegun
<1>a. ASSUME UNCHANGED <<taken, wpc, current>>, NEW e \in Events,
             \A d \in Events \ {e} : stage'[d] = stage[d],
             stage[e] \in {"unsent", "lookup", "lock", "store", "send", "stopping"}
      PROVE  TakenHadBegun'
  BY <1>0, <1>a
<1>b. ASSUME UNCHANGED <<taken, stage, current>>,
             \A w \in Events : wpc'[w] = "process" => wpc[w] = "process"
      PROVE  TakenHadBegun'
  BY <1>0, <1>b
<1>1. CASE UNCHANGED vars \/ Tick \/ Signal \/ WaitReturns \/ Exit \/ Exited
  BY <1>b, <1>1 DEF Tick, Signal, WaitReturns, Exit, Exited, vars, dispatchVars, workerVars
<1>2. ASSUME NEW e \in Events,
             Receive(e) \/ Lookup(e) \/ LockAndCheck(e) \/ Send(e) \/ StopLoad(e)
      PROVE  TakenHadBegun'
  <2>1. /\ UNCHANGED <<taken, wpc, current>> /\ \A d \in Events \ {e} : stage'[d] = stage[d]
        /\ stage[e] \in {"unsent", "lookup", "lock", "store", "send", "stopping"}
    BY <1>0, <1>2 DEF Receive, Lookup, LockAndCheck, Send, StopLoad, At, workerVars
  <2> QED BY <1>a, <2>1
<1>3. ASSUME NEW e \in Events, StoreWorker(e) PROVE TakenHadBegun'
  BY <1>0, <1>3 DEF StoreWorker, At
<1>4. ASSUME NEW e \in Events, StopTake(e) PROVE TakenHadBegun'
  <2> DEFINE r == currentRunCancel[target[e]]
  <2>1. /\ stage[e] = "taking" /\ target[e] \in Events /\ e \in Stops
        /\ taken' = [taken EXCEPT ![e] = r] /\ UNCHANGED <<wpc, current>>
        /\ stage' = [stage EXCEPT ![e] = IF r = None THEN "noRun" ELSE "cancelling"]
    BY <1>4 DEF StopTake, At, MailboxInv, RegistryInv, HeldPointers, StopsApart
  <2>2. \A s \in Events : taken[s] # None => taken[s] # e /\ s # e
    BY <1>0, <2>1
  <2>3. ASSUME r # None
        PROVE  /\ r \in Events /\ stage[r] = "serving" /\ ChannelOf[r] = ChannelOf[e]
               /\ \A v \in Events : wpc[v] = "process" => current[v] # r
    <3>1. wpc[target[e]] \in {"run", "finish"} /\ r = current[target[e]]
      BY <2>1, <2>3 DEF CancelIsCurrent
    <3>2. /\ r \in Events /\ stage[r] = "serving" /\ target[r] = target[e]
          /\ ChannelOf[r] = ChannelOf[target[e]]
      BY <1>0, <2>1, <3>1 DEF Processes, Processing
    <3>3. ChannelOf[target[e]] = ChannelOf[e]
      BY <2>1 DEF MailboxInv, OfChannel
    <3>4. ASSUME NEW v \in Events, wpc[v] = "process" PROVE current[v] # r
      BY <1>0, <3>1, <3>2, <3>4 DEF Processes, Processing
    <3> QED BY <3>2, <3>3, <3>4
  <2> HIDE DEF r
  <2>4. ASSUME NEW s \in Events, taken'[s] # None
        PROVE  /\ s \in Stops /\ stage'[s] \in {"cancelling", "acked"}
               /\ stage'[taken'[s]] \in {"serving", "done"}
               /\ ChannelOf[taken'[s]] = ChannelOf[s]
               /\ \A w \in Events : wpc'[w] = "process" => current'[w] # taken'[s]
    <3>1. CASE s = e
      <4>1. taken'[s] = r /\ r # None
        BY <1>0, <2>1, <2>4, <3>1
      <4>2. r # e /\ stage'[r] = stage[r] /\ stage'[e] = "cancelling"
        BY <1>0, <2>1, <2>3, <4>1
      <4> QED BY <2>1, <2>3, <3>1, <4>1, <4>2
    <3>2. CASE s # e
      <4>1. taken'[s] = taken[s] /\ taken[s] \in Events /\ taken[s] # e
        BY <1>0, <2>1, <2>2, <2>4, <3>2
      <4> QED BY <1>0, <2>1, <2>4, <3>2, <4>1
    <3> QED BY <3>1, <3>2
  <2> QED BY <2>4
<1>5. ASSUME NEW e \in Events, StopCancel(e) PROVE TakenHadBegun'
  <2>1. /\ stage[e] = "cancelling" /\ stage' = [stage EXCEPT ![e] = "acked"]
        /\ UNCHANGED <<taken, wpc, current>>
    BY <1>5 DEF StopCancel, At, workerVars
  <2> QED BY <1>0, <2>1
<1>6. ASSUME NEW w \in Events, TakeMessage(w) PROVE TakenHadBegun'
  <2> DEFINE h == Head(queue[w])
  <2>1. h \in Events /\ stage[h] = "queued" /\ taken' = taken
        /\ stage' = [stage EXCEPT ![h] = "serving"] /\ current' = [current EXCEPT ![w] = h]
        /\ wpc' = [wpc EXCEPT ![w] = "process"]
    BY <1>6, HeadIsQueued DEF TakeMessage
  <2> HIDE DEF h
  <2> QED BY <1>0, <2>1
<1>7. ASSUME NEW w \in Events, EndWithoutRun(w) \/ Reply(w) \/ EndRetry(w)
      PROVE  TakenHadBegun'
  <2>1. /\ wpc' = [wpc EXCEPT ![w] = "select"] /\ taken' = taken
        /\ current[w] \in Events /\ stage[current[w]] = "serving"
        /\ stage' = [stage EXCEPT ![current[w]] = "done"]
        /\ current' = [current EXCEPT ![w] = None]
    BY <1>7, MessageDoneFacts
  <2> QED BY <1>0, <2>1
<1>8. ASSUME NEW w \in Events,
             \/ TimerFires(w) \/ IdleExit(w) \/ CtxExit(w) \/ Done(w) \/ Deregister(w)
             \/ BeginRun(w) \/ ExecuteReturns(w) \/ FinishRun(w) \/ StartRetry(w)
      PROVE  TakenHadBegun'
  BY <1>0, <1>b, <1>8 DEF TimerFires, IdleExit, CtxExit, Done, Deregister, BeginRun,
     ExecuteReturns, FinishRun, StartRetry, dispatchVars
<1> QED
  BY <1>1, <1>2, <1>3, <1>4, <1>5, <1>6, <1>7, <1>8 DEF Next, DispatchStep, WorkerStep, ClaudeStep

\* A run's context is done because its /stop took it, or because of the shutdown.
LEMMA CancelledStep ==
  MailboxInv /\ TakenHadBegun /\ CancelledWasTaken /\ [Next]_vars => CancelledWasTaken'
<1> SUFFICES ASSUME MailboxInv, TakenHadBegun, CancelledWasTaken, [Next]_vars
             PROVE  CancelledWasTaken'
  OBVIOUS
<1>0. CancelTypes /\ \A w \in Events : Processes(w)
  BY CancelFacts
<1> USE EventsAssumption, NoneAssumption DEF CancelTypes, CancelledWasTaken, RunCancelled
<1>a. ASSUME UNCHANGED <<taken, cancelled, outcome, current>>, ctxDone => ctxDone',
             \A w \in Events : wpc'[w] = wpc[w] \/ outcome[w] = None
      PROVE  CancelledWasTaken'
  BY <1>0, <1>a
<1>b. ASSUME UNCHANGED <<taken, cancelled, ctxDone>>, NEW w \in Events, outcome'[w] = None,
             \A v \in Events \ {w} :
                outcome'[v] = outcome[v] /\ current'[v] = current[v] /\ wpc'[v] = wpc[v]
      PROVE  CancelledWasTaken'
  <2>1. ASSUME NEW v \in Events, outcome'[v] # None
        PROVE  v # w /\ outcome'[v] = outcome[v] /\ current'[v] = current[v] /\ wpc'[v] = wpc[v]
    BY <1>b, <2>1
  <2>2. \A v \in Events : outcome'[v] # None => wpc'[v] \in {"finish", "reply", "retry"}
    BY <2>1
  <2>3. \A v \in Events : outcome'[v] = "canceled" => RunCancelled(v)'
    BY <1>b, <2>1
  <2> QED BY <1>b, <2>2, <2>3
<1>1. CASE UNCHANGED vars \/ Tick \/ Signal \/ WaitReturns \/ Exit \/ Exited
  BY <1>a, <1>1 DEF Tick, Signal, WaitReturns, Exit, Exited, vars, dispatchVars, workerVars,
     mainVars
<1>2. ASSUME NEW e \in Events,
             \/ Receive(e) \/ Lookup(e) \/ LockAndCheck(e) \/ Send(e) \/ StopLoad(e)
             \/ TimerFires(e)
      PROVE  CancelledWasTaken'
  BY <1>a, <1>2 DEF Receive, Lookup, LockAndCheck, Send, StopLoad, TimerFires, workerVars,
     dispatchVars, mainVars
<1>3. ASSUME NEW e \in Events, StoreWorker(e) PROVE CancelledWasTaken'
  <2>1. wpc[e] = "unborn"
    BY <1>3 DEF StoreWorker, At, MailboxInv, RegistryInv, HeldPointers
  <2> QED BY <1>0, <1>3, <1>a, <2>1 DEF StoreWorker, mainVars
<1>4. ASSUME NEW e \in Events, StopTake(e) PROVE CancelledWasTaken'
  <2>1. /\ taken[e] = None /\ UNCHANGED <<cancelled, outcome, current, wpc, ctxDone>>
        /\ \A s \in Events \ {e} : taken'[s] = taken[s]
    BY <1>0, <1>4 DEF StopTake, At, TakenHadBegun, mainVars
  <2>2. ASSUME NEW d \in cancelled PROVE \E s \in Stops : taken'[s] = d
    <3>1. PICK s \in Stops : taken[s] = d
      OBVIOUS
    <3> QED BY <1>0, <2>1, <3>1
  <2> QED BY <2>1, <2>2
<1>5. ASSUME NEW e \in Events, StopCancel(e) PROVE CancelledWasTaken'
  <2>1. /\ cancelled' = cancelled \cup {taken[e]} /\ e \in Stops
        /\ UNCHANGED <<taken, outcome, current, wpc, ctxDone>>
    BY <1>5 DEF StopCancel, At, workerVars, mainVars, MailboxInv, StopsApart
  <2> QED BY <2>1
<1>6. ASSUME NEW w \in Events, TakeMessage(w) PROVE CancelledWasTaken'
  <2>1. /\ outcome[w] = None /\ UNCHANGED <<taken, cancelled, outcome, ctxDone>>
        /\ \A v \in Events \ {w} : current'[v] = current[v] /\ wpc'[v] = wpc[v]
    BY <1>0, <1>6 DEF TakeMessage, On, mainVars
  <2> QED BY <1>b, <2>1
<1>7. ASSUME NEW w \in Events, EndWithoutRun(w) \/ Reply(w) \/ EndRetry(w)
      PROVE  CancelledWasTaken'
  <2>1. /\ outcome' = [outcome EXCEPT ![w] = None] /\ UNCHANGED <<taken, cancelled, ctxDone>>
        /\ \A v \in Events \ {w} : current'[v] = current[v] /\ wpc'[v] = wpc[v]
    BY <1>0, <1>7, MessageDoneFacts
  <2>2. outcome'[w] = None /\ \A v \in Events \ {w} : outcome'[v] = outcome[v]
    BY <1>0, <2>1
  <2> QED BY <1>b, <2>1, <2>2
<1>8. ASSUME NEW w \in Events,
             IdleExit(w) \/ CtxExit(w) \/ Done(w) \/ Deregister(w) \/ BeginRun(w)
      PROVE  CancelledWasTaken'
  <2>1. outcome[w] = None /\ UNCHANGED <<taken, cancelled, outcome, current, ctxDone>>
        /\ \A v \in Events \ {w} : wpc'[v] = wpc[v]
    BY <1>0, <1>8 DEF IdleExit, CtxExit, Done, Deregister, BeginRun, On, dispatchVars, mainVars
  <2> QED BY <1>a, <2>1
<1>9. ASSUME NEW w \in Events, ExecuteReturns(w) \/ FinishRun(w) \/ StartRetry(w)
      PROVE  CancelledWasTaken'
  BY <1>0, <1>9 DEF ExecuteReturns, FinishRun, StartRetry, On, dispatchVars, mainVars
<1> QED
  BY <1>1, <1>2, <1>3, <1>4, <1>5, <1>6, <1>7, <1>8, <1>9
  DEF Next, DispatchStep, WorkerStep, ClaudeStep

\* A run is taken by one /stop: taking it clears the cancel func, and a worker begins a
\* run for a message nobody has taken yet.
LEMMA OneStopStep ==
  MailboxInv /\ CancelIsCurrent /\ TakenHadBegun /\ OneStopPerRun /\ [Next]_vars
    => OneStopPerRun'
<1> SUFFICES ASSUME MailboxInv, CancelIsCurrent, TakenHadBegun, OneStopPerRun, [Next]_vars
             PROVE  OneStopPerRun'
  OBVIOUS
<1>0. CancelTypes /\ \A w \in Events : Processes(w)
  BY CancelFacts
<1> USE EventsAssumption DEF CancelTypes, OneStopPerRun
<1>a. ASSUME taken' = taken,
             \A w \in Events : currentRunCancel'[w] \in {currentRunCancel[w], None}
      PROVE  OneStopPerRun'
  BY <1>0, <1>a
<1>1. CASE UNCHANGED vars \/ Tick \/ Signal \/ WaitReturns \/ Exit \/ Exited
  BY <1>a, <1>1 DEF Tick, Signal, WaitReturns, Exit, Exited, vars, dispatchVars, workerVars
<1>2. ASSUME NEW e \in Events,
             \/ Receive(e) \/ Lookup(e) \/ LockAndCheck(e) \/ StoreWorker(e) \/ Send(e)
             \/ StopLoad(e) \/ StopCancel(e) \/ TimerFires(e)
      PROVE  OneStopPerRun'
  BY <1>a, <1>2 DEF Receive, Lookup, LockAndCheck, StoreWorker, Send, StopLoad, StopCancel,
     TimerFires, workerVars, dispatchVars
<1>3. ASSUME NEW e \in Events, StopTake(e) PROVE OneStopPerRun'
  <2> DEFINE w == target[e]
             r == currentRunCancel[w]
  <2>1. /\ stage[e] = "taking" /\ w \in Events
        /\ taken' = [taken EXCEPT ![e] = r]
        /\ currentRunCancel' = [currentRunCancel EXCEPT ![w] = None]
    BY <1>3 DEF StopTake, At, MailboxInv, RegistryInv, HeldPointers
  <2>2. ASSUME r # None
        PROVE  /\ \A v \in Events \ {w} : currentRunCancel[v] # r
               /\ \A s \in Stops : taken[s] # r
    <3>1. ASSUME NEW v \in Events, currentRunCancel[v] = r PROVE v = w
      <4>1. wpc[v] \in Processing /\ wpc[w] \in Processing /\ r = current[v] /\ r = current[w]
        BY <2>1, <2>2, <3>1 DEF CancelIsCurrent, Processing
      <4>2. target[current[v]] = v /\ target[current[w]] = w
        BY <1>0, <2>1, <4>1 DEF Processes
      <4> QED BY <4>1, <4>2
    <3> QED BY <1>0, <2>1, <2>2, <3>1
  <2> HIDE DEF w, r
  <2>3. ASSUME NEW s \in Stops, taken'[s] # None
        PROVE  /\ \A v \in Events : currentRunCancel'[v] # taken'[s]
               /\ \A t \in Stops : taken'[t] = taken'[s] => t = s
    <3>1. CASE s = e
      <4>1. taken'[s] = r /\ r # None
        BY <1>0, <2>1, <2>3, <3>1
      <4>2. \A v \in Events : currentRunCancel'[v] # r
        BY <1>0, <2>1, <2>2, <4>1
      <4>3. \A t \in Stops : taken'[t] = r => t = e
        BY <1>0, <2>1, <2>2, <4>1
      <4> QED BY <3>1, <4>1, <4>2, <4>3
    <3>2. CASE s # e
      <4>1. taken'[s] = taken[s] /\ taken[s] # None
        BY <1>0, <2>1, <2>3, <3>2
      <4>2. r # None => taken[s] # r
        BY <2>2
      <4> QED BY <1>0, <2>1, <3>2, <4>1, <4>2
    <3> QED BY <3>1, <3>2
  <2> QED BY <2>3
<1>4. ASSUME NEW w \in Events, BeginRun(w) PROVE OneStopPerRun'
  <2>1. \A s \in Stops : taken[s] # None => taken[s] # current[w]
    BY <1>4 DEF BeginRun, On, TakenHadBegun
  <2>2. taken' = taken /\ currentRunCancel' = [currentRunCancel EXCEPT ![w] = current[w]]
    BY <1>4 DEF BeginRun, dispatchVars
  <2> QED BY <1>0, <2>1, <2>2
<1>5. ASSUME NEW w \in Events, EndWithoutRun(w) \/ Reply(w) \/ EndRetry(w)
      PROVE  OneStopPerRun'
  BY <1>a, <1>5, MessageDoneFacts
<1>6. ASSUME NEW w \in Events,
             \/ TakeMessage(w) \/ IdleExit(w) \/ CtxExit(w) \/ Done(w) \/ Deregister(w)
             \/ ExecuteReturns(w) \/ FinishRun(w) \/ StartRetry(w)
      PROVE  OneStopPerRun'
  BY <1>0, <1>a, <1>6 DEF TakeMessage, IdleExit, CtxExit, Done, Deregister, ExecuteReturns,
     FinishRun, StartRetry, dispatchVars
<1> QED
  BY <1>1, <1>2, <1>3, <1>4, <1>5, <1>6 DEF Next, DispatchStep, WorkerStep, ClaudeStep

\* CancelInv holds at first, and every step keeps it.
LEMMA CancelStep == (Init => CancelInv) /\ (CancelInv /\ [Next]_vars => CancelInv')
<1>1. Init => CancelInv
  <2> SUFFICES ASSUME Init
               PROVE  CancelIsCurrent /\ TakenHadBegun /\ CancelledWasTaken /\ OneStopPerRun
    BY InitMailbox DEF CancelInv
  <2>1. CancelIsCurrent
    BY DEF Init, CancelIsCurrent
  <2>2. \A e \in Events : taken[e] = None
    BY DEF Init
  <2>3. TakenHadBegun /\ OneStopPerRun
    BY <2>2, EventsAssumption DEF TakenHadBegun, OneStopPerRun
  <2>4. cancelled = {} /\ \A w \in Events : outcome[w] = None
    BY DEF Init
  <2>5. CancelledWasTaken
    BY <2>4, NoneAssumption DEF CancelledWasTaken
  <2> QED BY <2>1, <2>3, <2>5
<1>2. CancelInv /\ [Next]_vars => CancelInv'
  BY MailboxStep, CancelIsCurrentStep, TakenStep, CancelledStep, OneStopStep DEF CancelInv
<1> QED BY <1>1, <1>2

-----------------------------------------------------------------------------
(* Deduplication *)

\* As long as the map of recent ids is not emptied, it has the latest acceptance of each
\* id: no delivery was accepted after it.
RecentIsLatest ==
    /\ now \in Nat /\ acceptedAt \in [Events -> Nat \cup {None}]
    /\ recentMsgIDs \in [MessageIDs -> Nat \cup {None}]
    /\ \A e \in Events : acceptedAt[e] # None =>
        /\ stage[e] # "unsent"
        /\ recentMsgIDs[IdOf[e]] # None /\ acceptedAt[e] <= recentMsgIDs[IdOf[e]]
    /\ \A i \in MessageIDs : recentMsgIDs[i] # None => recentMsgIDs[i] <= now

\* The map is not emptied while it may hold every id.
LEMMA NotEmptied ==
  ASSUME IsFiniteSet(MessageIDs), Cardinality(MessageIDs) <= RecentCap, NEW i \in MessageIDs
  PROVE  Recorded(i) = [recentMsgIDs EXCEPT ![i] = now]
<1> DEFINE m == [recentMsgIDs EXCEPT ![i] = now]
           S == {j \in MessageIDs : m[j] # None}
<1>1. S \in SUBSET MessageIDs
  OBVIOUS
<1>2. Cardinality(S) <= Cardinality(MessageIDs) /\ IsFiniteSet(S)
  BY <1>1, FS_Subset
<1>3. Cardinality(S) \in Nat /\ Cardinality(MessageIDs) \in Nat
  BY <1>2, FS_CardinalityType
<1>4. ~(Cardinality(S) > RecentCap)
  BY <1>2, <1>3, BoundsAssumption
<1>5. Recorded(i) = IF Cardinality(S) > RecentCap THEN [j \in MessageIDs |-> None] ELSE m
  BY Zenon DEF Recorded
<1> QED BY <1>4, <1>5

\* Only Receive records an id, and only the clock changes the time.
LEMMA DedupFrame ==
  ASSUME TypeOK, Next
  PROVE  \/ \E e \in Events : Receive(e)
         \/ /\ UNCHANGED <<recentMsgIDs, acceptedAt>> /\ now' \in {now, now + 1}
            /\ \A e \in Events : stage'[e] = "unsent" => stage[e] = "unsent"
<1> USE DEF TypeOK, dedupVars
<1>1. CASE Tick
  BY <1>1 DEF Tick, dispatchVars
<1>2. ASSUME NEW e \in Events,
             Lookup(e) \/ LockAndCheck(e) \/ StoreWorker(e) \/ Send(e)
      PROVE  /\ UNCHANGED <<recentMsgIDs, acceptedAt, now>>
             /\ \A d \in Events : stage'[d] = "unsent" => stage[d] = "unsent"
  BY <1>2 DEF Lookup, LockAndCheck, StoreWorker, Send
<1>3. ASSUME NEW e \in Events, StopLoad(e) \/ StopTake(e) \/ StopCancel(e)
      PROVE  /\ UNCHANGED <<recentMsgIDs, acceptedAt, now>>
             /\ \A d \in Events : stage'[d] = "unsent" => stage[d] = "unsent"
  BY <1>3 DEF StopLoad, StopTake, StopCancel
<1>4. ASSUME NEW w \in Events, TakeMessage(w) \/ EndWithoutRun(w) \/ Reply(w) \/ EndRetry(w)
      PROVE  /\ UNCHANGED <<recentMsgIDs, acceptedAt, now>>
             /\ \A d \in Events : stage'[d] = "unsent" => stage[d] = "unsent"
  BY <1>4 DEF TakeMessage, EndWithoutRun, Reply, EndRetry, MessageDone
<1>5. ASSUME NEW w \in Events,
             \/ TimerFires(w) \/ IdleExit(w) \/ CtxExit(w) \/ Done(w) \/ Deregister(w)
             \/ BeginRun(w) \/ ExecuteReturns(w) \/ FinishRun(w) \/ StartRetry(w)
      PROVE  UNCHANGED <<recentMsgIDs, acceptedAt, now, stage>>
  BY <1>5 DEF TimerFires, IdleExit, CtxExit, Done, Deregister, BeginRun, ExecuteReturns,
     FinishRun, StartRetry, dispatchVars
<1>6. CASE Signal \/ WaitReturns \/ Exit \/ Exited
  BY <1>6 DEF Signal, WaitReturns, Exit, Exited, vars, dispatchVars
<1> QED BY <1>1, <1>2, <1>3, <1>4, <1>5, <1>6 DEF Next, DispatchStep, WorkerStep, ClaudeStep

\* isDuplicate lets a delivery pass only when the last one of its id is a window ago.
LEMMA DedupStep ==
  ASSUME IsFiniteSet(MessageIDs), Cardinality(MessageIDs) <= RecentCap,
         TypeOK, RecentIsLatest, NoDuplicateInWindow, Next
  PROVE  RecentIsLatest' /\ NoDuplicateInWindow'
<1> USE EventsAssumption, NoneAssumption, BoundsAssumption
<1>1. CASE ~\E e \in Events : Receive(e)
  <2>1. /\ UNCHANGED <<recentMsgIDs, acceptedAt>> /\ now' \in {now, now + 1}
        /\ \A e \in Events : stage'[e] = "unsent" => stage[e] = "unsent"
    BY <1>1, DedupFrame
  <2> QED BY <2>1 DEF RecentIsLatest, NoDuplicateInWindow
<1>2. ASSUME NEW e \in Events, Receive(e) PROVE RecentIsLatest' /\ NoDuplicateInWindow'
  <2>0. /\ IdOf[e] \in MessageIDs /\ acceptedAt[e] = None /\ now' = now /\ now \in Nat
        /\ \A d \in Events \ {e} : stage'[d] = stage[d]
    BY <1>2 DEF Receive, At, RecentIsLatest, TypeOK
  <2>1. CASE SeenRecently(IdOf[e])
    BY <1>2, <2>0, <2>1 DEF Receive, RecentIsLatest, NoDuplicateInWindow
  <2>2. CASE ~SeenRecently(IdOf[e])
    <3>1. /\ acceptedAt' = [acceptedAt EXCEPT ![e] = now]
          /\ recentMsgIDs' = [recentMsgIDs EXCEPT ![IdOf[e]] = now]
          /\ stage'[e] # "unsent"
      BY <1>2, <2>0, <2>2, NotEmptied DEF Receive, AfterDedup, TypeOK
    <3>2. RecentIsLatest'
      <4>1. /\ acceptedAt' \in [Events -> Nat \cup {None}]
            /\ recentMsgIDs' \in [MessageIDs -> Nat \cup {None}]
        BY <2>0, <3>1 DEF RecentIsLatest
      <4>2. ASSUME NEW d \in Events, acceptedAt'[d] # None
            PROVE  /\ stage'[d] # "unsent" /\ recentMsgIDs'[IdOf[d]] # None
                   /\ acceptedAt'[d] <= recentMsgIDs'[IdOf[d]]
        BY <2>0, <3>1, <4>2 DEF RecentIsLatest
      <4>3. \A i \in MessageIDs : recentMsgIDs'[i] # None => recentMsgIDs'[i] <= now'
        BY <2>0, <3>1 DEF RecentIsLatest
      <4> QED BY <2>0, <4>1, <4>2, <4>3 DEF RecentIsLatest
    <3>3. ASSUME NEW d \in Events \ {e}, IdOf[d] = IdOf[e], acceptedAt[d] # None
          PROVE  now - acceptedAt[d] >= Window
      <4>1. /\ recentMsgIDs[IdOf[e]] # None /\ acceptedAt[d] <= recentMsgIDs[IdOf[e]]
            /\ acceptedAt[d] \in Nat /\ recentMsgIDs[IdOf[e]] \in Nat
        BY <2>0, <3>3 DEF RecentIsLatest
      <4>2. ~(now - recentMsgIDs[IdOf[e]] < Window)
        BY <2>2, <4>1 DEF SeenRecently
      <4> QED BY <2>0, <4>1, <4>2
    <3>4. acceptedAt'[e] = now /\ \A d \in Events \ {e} : acceptedAt'[d] = acceptedAt[d]
      BY <3>1 DEF RecentIsLatest
    <3>5. NoDuplicateInWindow'
      <4> SUFFICES ASSUME NEW a \in Events, NEW b \in Events, a # b, IdOf[a] = IdOf[b],
                          acceptedAt'[a] # None, acceptedAt'[b] # None
                   PROVE  \/ acceptedAt'[a] - acceptedAt'[b] >= Window
                          \/ acceptedAt'[b] - acceptedAt'[a] >= Window
        BY DEF NoDuplicateInWindow
      <4>1. CASE a = e
        BY <3>3, <3>4, <4>1
      <4>2. CASE b = e
        BY <3>3, <3>4, <4>2
      <4>3. CASE a # e /\ b # e
        BY <3>4, <4>3 DEF NoDuplicateInWindow
      <4> QED BY <4>1, <4>2, <4>3
    <3> QED BY <3>2, <3>5
  <2> QED BY <2>1, <2>2
<1> QED BY <1>1, <1>2

-----------------------------------------------------------------------------
(* The theorems *)

\* The registry invariant holds in every reachable state.
THEOREM RegistryInvariant == Spec => []RegistryInv
<1>1. RegistryInv /\ [Next]_vars => RegistryInv'
  BY TypeStep, RegisteredStep, HeldPointersStep, WgCountsStep DEF RegistryInv
<1> QED BY <1>1, InitRegistry, PTL DEF Spec

\* Manager and Workers never leave the types of their variables; in particular no
\* queue overflows and wg is never negative.
THEOREM TypeCorrect == Spec => []TypeOK
<1>1. RegistryInv => TypeOK
  BY DEF RegistryInv
<1> QED BY <1>1, RegistryInvariant, PTL

\* However many deliveries, channels and workers there are: one channel is served
\* by one worker at a time, because every live worker is the registered one.
THEOREM SerialChannels == Spec => []SerialPerChannel
<1>1. RegistryInv => SerialPerChannel
  BY DEF RegistryInv, Registered, SerialPerChannel, Alive, Tracked, Serving
<1> QED BY <1>1, RegistryInvariant, PTL

\* Manager.Wait returns only when every worker counted by wg has left its loop.
THEOREM WaitIsABarrier == Spec => WaitSeesNoWorker
<1> DEFINE Barrier == main = "waiting" /\ main' = "stopping" =>
                        \A w \in Events : wpc[w] \notin Tracked
<1>1. RegistryInv /\ [Next]_vars => [Barrier]_vars
  <2> SUFFICES ASSUME RegistryInv, Next, main = "waiting", main' = "stopping"
               PROVE  \A w \in Events : wpc[w] \notin Tracked
    BY DEF vars, mainVars
  <2>1. WaitReturns
    BY DEF Next, DispatchStep, WorkerStep, ClaudeStep, Tick, Receive, Lookup, LockAndCheck,
       StoreWorker, Send, StopLoad, StopTake, StopCancel, TimerFires, TakeMessage, IdleExit,
       CtxExit, FinishRun, Reply, StartRetry, Done, Deregister, BeginRun, EndWithoutRun,
       ExecuteReturns, EndRetry, MessageDone, Signal, Exit, Exited, vars, mainVars
  <2>2. Cardinality(TrackedWorkers) = 0
    BY <2>1 DEF WaitReturns, RegistryInv, WgCounts, TrackedWorkers
  <2>3. TrackedWorkers = {}
    BY <2>2, TrackedFinite, FS_EmptySet
  <2> QED BY <2>3 DEF TrackedWorkers
<1> QED BY <1>1, RegistryInvariant, PTL DEF Spec, WaitSeesNoWorker

\* What internal/session promises: each channel has one mailbox that is served one
\* message at a time and in order, no message is served twice, and one that is not
\* served was refused or abandoned by a worker that left (worker.go run, manager.go
\* Dispatch).  Every step is a step of SerialMailbox or changes nothing of it.
THEOREM MailboxRefinement == Spec => ImplementsMailbox
<1>1. Spec => []MailboxInv
  BY InitMailbox, MailboxStep, PTL DEF Spec
<1> QED BY <1>1, InitMaps, NextMaps, PTL DEF Spec, ImplementsMailbox, Mailbox!Spec

\* The inductive invariant behind StopInv: what /stop takes, and what is cancelled.
THEOREM CancelInvariant == Spec => []CancelInv
BY CancelStep, PTL DEF Spec

\* A run that ends as cancelled before the shutdown was taken by a /stop of its channel,
\* and by one only: a /stop never reaches a later run than the one it saw
\* (beginCurrentRun, finishRun, stopCurrentExecution).
THEOREM StopsOwnRun == Spec => []StopInv
<1>1. CancelInv => StopInv
  <2> SUFFICES ASSUME CancelInv PROVE CancelHasItsStop /\ OneStopPerRun
    BY DEF StopInv
  <2>1. ASSUME NEW w \in Events, outcome[w] = "canceled", ~ctxDone
        PROVE  \E s \in Stops : taken[s] = current[w] /\ ChannelOf[s] = ChannelOf[w]
    <3>1. wpc[w] \in Processing /\ current[w] \in cancelled
      <4>1. wpc[w] \in {"finish", "reply", "retry"} /\ RunCancelled(w)
        BY <2>1, NoneAssumption DEF CancelInv, CancelledWasTaken
      <4> QED BY <2>1, <4>1 DEF RunCancelled, Processing
    <3>2. PICK s \in Stops : taken[s] = current[w]
      BY <3>1 DEF CancelInv, CancelledWasTaken
    <3>3. current[w] \in Events /\ ChannelOf[current[w]] = ChannelOf[w]
      BY <3>1, CancelFacts DEF CancelInv, Processes
    <3> QED BY <3>2, <3>3, EventsAssumption DEF CancelInv, TakenHadBegun
  <2> QED BY <2>1 DEF CancelInv, CancelHasItsStop
<1> QED BY <1>1, CancelInvariant, PTL

\* Of two deliveries of one Feishu message that both reach a worker, the second came a
\* window after the first (isDuplicate): as long as recentMsgIDs has room for the ids.
\* When it has not, it is emptied, and the property fails (SessionManager_dedup_reset.cfg).
THEOREM DuplicatesAreDropped ==
  ASSUME IsFiniteSet(MessageIDs), Cardinality(MessageIDs) <= RecentCap
  PROVE  Spec => []NoDuplicateInWindow
<1>1. Init => RecentIsLatest /\ NoDuplicateInWindow
  BY EventsAssumption DEF Init, RecentIsLatest, NoDuplicateInWindow
<1>2. TypeOK /\ (RecentIsLatest /\ NoDuplicateInWindow) /\ [Next]_vars
        => (RecentIsLatest /\ NoDuplicateInWindow)'
  <2>1. CASE UNCHANGED vars
    BY <2>1 DEF vars, dedupVars, dispatchVars, RecentIsLatest, NoDuplicateInWindow
  <2> QED BY <2>1, DedupStep
<1> QED BY <1>1, <1>2, TypeCorrect, PTL DEF Spec
=============================================================================
