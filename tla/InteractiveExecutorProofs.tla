--------------------- MODULE InteractiveExecutorProofs ---------------------
(* Proofs about InteractiveExecutor, for any turns, sessions and failures: no *)
(* two claude processes of a session run at the same time, a turn that was    *)
(* answered has the answer to its own prompt, and the conversation that       *)
(* answered it holds all that was answered before.                            *)
EXTENDS InteractiveExecutor, TLAPS

\* What the assumptions say of the constants.
LEMMA ConstantFacts ==
  /\ SessionOf \in [Turns -> Sessions]
  /\ None \notin Turns /\ EventsCap \in Nat /\ EventsCap > 0
BY TurnsAssumption

\* The initial state satisfies the invariant.
LEMMA InitProcess == Init => ProcessInv
<1> SUFFICES ASSUME Init PROVE ProcessInv
  OBVIOUS
<1>1. TypeOK
  <2>1. /\ pc \in [Turns -> Busy \cup {"idle", "over"}]
        /\ proc \in [Turns -> Turns \cup {None}]
        /\ cancelled \subseteq Turns
        /\ answer \in [Turns -> SUBSET Lines]
        /\ reported \in [Turns -> Turns \cup {None}]
        /\ outcome \in [Turns -> {None, "result", "done", "closed", "canceled", "unsent",
                                  "unavailable"}]
    BY DEF Init
  <2>2. /\ sessions \in [Sessions -> Turns \cup {None}]
        /\ stored \in [Sessions -> Turns \cup {None}]
        /\ archived \subseteq Sessions /\ stopped \in BOOLEAN
    BY DEF Init
  <2>3. /\ reader \in [Turns -> {"none", "scan", "emit", "waiting", "closed", "ended"}]
        /\ holding \in [Turns -> Lines \cup {None}]
        /\ events \in [Turns -> Seq(Lines)]
        /\ \A p \in Turns : Len(events[p]) <= EventsCap
        /\ alive \in [Turns -> BOOLEAN]
        /\ claudeID \in [Turns -> Turns \cup {None}]
        /\ usage \in [Turns -> Turns \cup {None}]
    BY ConstantFacts DEF Init
  <2>4. /\ os \in [Turns -> {"none", "up", "dead"}]
        /\ stdin \in [Turns -> Seq(Turns)]
        /\ saying \in [Turns -> Seq(Lines)]
        /\ stdout \in [Turns -> Seq(Lines)]
        /\ orphaned \subseteq Turns
        /\ conversation \in [Turns -> Turns \cup {None}]
        /\ transcript \in [Turns -> SUBSET Turns]
    BY DEF Init
  <2> QED BY <2>1, <2>2, <2>3, <2>4 DEF TypeOK
<1>2. HandsFull /\ UpIsFiled /\ OneProcessPerSession
  BY DEF Init, HandsFull, UpIsFiled, OneProcessPerSession, Busy
<1> QED BY <1>1, <1>2 DEF ProcessInv

-----------------------------------------------------------------------------
(* The processes *)

\* A killed process does not run, and nothing else changes.
LEMMA KillFacts ==
  ASSUME TypeOK, NEW P
  PROVE  /\ AfterKill(P) \in [Turns -> {"none", "up", "dead"}]
         /\ \A p \in Turns : AfterKill(P)[p] = "up" => os[p] = "up" /\ p \notin P
BY DEF AfterKill, TypeOK

\* The steps that change neither the map nor which processes run, or that end one.
LEMMA QuietFiled ==
  ASSUME TypeOK, UpIsFiled, sessions' = sessions,
         \A p \in Turns : os'[p] = "up" => os[p] = "up"
  PROVE  UpIsFiled'
BY DEF UpIsFiled

\* Every step keeps running processes in the map.
LEMMA NextFiled == ASSUME TypeOK, UpIsFiled, Next PROVE UpIsFiled'
<1>1. ASSUME NEW t \in Turns, Restart(t) PROVE UpIsFiled'
  <2> DEFINE s == SessionOf[t]
  <2>1. s \in Sessions
    BY ConstantFacts
  <2>2. sessions' = [sessions EXCEPT ![s] = t] /\ os' = [AfterKill({sessions[s]}) EXCEPT ![t] = "up"]
    BY <1>1 DEF Restart
  <2> SUFFICES ASSUME NEW p \in Turns, os'[p] = "up" PROVE sessions'[SessionOf[p]] = p
    BY DEF UpIsFiled
  <2>3. CASE p = t
    BY <2>1, <2>2, <2>3 DEF TypeOK
  <2>4. CASE p # t
    <3>1. os[p] = "up" /\ p # sessions[s]
      BY <2>2, <2>4, KillFacts
    <3>2. sessions[SessionOf[p]] = p /\ SessionOf[p] # s
      BY <3>1 DEF UpIsFiled
    <3> QED BY <2>2, <3>2, ConstantFacts DEF TypeOK
  <2> QED BY <2>3, <2>4
<1>2. ASSUME NEW s \in Sessions, sessions' = [sessions EXCEPT ![s] = None],
             os' = AfterKill({sessions[s]})
      PROVE  UpIsFiled'
  <2> SUFFICES ASSUME NEW p \in Turns, os'[p] = "up" PROVE sessions'[SessionOf[p]] = p
    BY DEF UpIsFiled
  <2>1. os[p] = "up" /\ p # sessions[s]
    BY <1>2, KillFacts
  <2>2. sessions[SessionOf[p]] = p /\ SessionOf[p] # s
    BY <2>1 DEF UpIsFiled
  <2> QED BY <1>2, <2>2, ConstantFacts DEF TypeOK
<1>3. ASSUME NEW t \in Turns, StartFails(t) PROVE UpIsFiled'
  BY <1>2, <1>3, ConstantFacts DEF StartFails
<1>4. ASSUME NEW s \in Sessions, RemoveSession(s) PROVE UpIsFiled'
  BY <1>2, <1>4 DEF RemoveSession
<1>5. ASSUME Reap PROVE UpIsFiled'
  <2> DEFINE dead == {p \in Turns : ~alive[p] /\ \E s \in Sessions : sessions[s] = p}
  <2>1. /\ sessions' = [s \in Sessions |-> IF sessions[s] \in dead THEN None ELSE sessions[s]]
        /\ os' = AfterKill(dead)
    BY <1>5 DEF Reap
  <2> HIDE DEF dead
  <2> SUFFICES ASSUME NEW p \in Turns, os'[p] = "up" PROVE sessions'[SessionOf[p]] = p
    BY DEF UpIsFiled
  <2>2. os[p] = "up" /\ p \notin dead
    BY <2>1, KillFacts
  <2> QED BY <2>1, <2>2, ConstantFacts DEF UpIsFiled
<1>6. ASSUME Stop PROVE UpIsFiled'
  BY <1>6, QuietFiled, KillFacts DEF Stop
<1>7. ASSUME NEW t \in Turns, Reuse(t) \/ TurnStep(t) \/ Cancel(t) PROVE UpIsFiled'
  <2>1. CASE CollectCancelled(t)
    BY <2>1, QuietFiled, KillFacts DEF CollectCancelled, executor
  <2>2. CASE Collect(t)
    BY <2>2, QuietFiled DEF Collect, claudeVars
  <2> QED
    BY <1>7, <2>1, <2>2, QuietFiled
    DEF Reuse, TurnStep, Cancel, Send, SendFails, Reset, CollectClosed, CollectDone, Drain,
        DrainEnds, executor, claudeVars
<1>8. ASSUME NEW p \in Turns, ReaderStep(p) \/ ReadPrompt(p) \/ Say(p) \/ LeaveChild(p) \/ Die(p)
      PROVE  UpIsFiled'
  <2>1. CASE Die(p)
    BY <2>1, QuietFiled DEF Die, executor, TypeOK
  <2> QED
    BY <1>8, <2>1, QuietFiled
    DEF ReaderStep, Scan, Emit, ReadEnds, CloseEvents, CloseDone, ReadPrompt, Say, LeaveChild,
        executor, claudeVars
<1> QED BY <1>1, <1>3, <1>4, <1>5, <1>6, <1>7, <1>8 DEF Next

-----------------------------------------------------------------------------
(* The types *)

\* A step of a turn keeps the types.
LEMMA TurnType ==
  ASSUME TypeOK, HandsFull, NEW t \in Turns,
         Reuse(t) \/ Restart(t) \/ StartFails(t) \/ TurnStep(t) \/ Cancel(t)
  PROVE  TypeOK'
<1> USE ConstantFacts DEF TypeOK, Busy
<1>1. CASE Reuse(t)
  BY <1>1 DEF Reuse, Healthy, executor, sessionVars, claudeVars
<1>2. CASE Restart(t)
  <2> DEFINE s == SessionOf[t]  r == ResumeID(s)
  <2>1. r \in Turns \cup {None}
    BY DEF ResumeID
  <2>2. AfterKill({sessions[s]}) \in [Turns -> {"none", "up", "dead"}]
    BY KillFacts
  <2> HIDE DEF s, r
  <2>3. os' = [AfterKill({sessions[s]}) EXCEPT ![t] = "up"]
    BY <1>2 DEF Restart, s
  <2>4. os' \in [Turns -> {"none", "up", "dead"}]
    BY <2>2, <2>3
  <2>5. /\ sessions' = [sessions EXCEPT ![s] = t]
        /\ conversation' = [conversation EXCEPT ![t] = IF r = None THEN t ELSE r]
        /\ claudeID' = [claudeID EXCEPT ![t] = r]
    BY <1>2 DEF Restart, s, r
  <2>6. /\ sessions' \in [Sessions -> Turns \cup {None}]
        /\ conversation' \in [Turns -> Turns \cup {None}]
        /\ claudeID' \in [Turns -> Turns \cup {None}]
    BY <2>1, <2>5
  <2> QED BY <1>2, <2>4, <2>6 DEF Restart
<1>3. CASE StartFails(t)
  BY <1>3, KillFacts DEF StartFails, sessionVars
<1>4. CASE Send(t)
  <2>1. \A q \in Seq(Turns) : Append(q, t) \in Seq(Turns)
    OBVIOUS
  <2>2. stdin' \in [Turns -> Seq(Turns)]
    BY <1>4, <2>1 DEF Send
  <2> QED BY <1>4, <2>2 DEF Send, executor, sessionVars
<1>5. CASE SendFails(t)
  BY <1>5 DEF SendFails, executor, claudeVars
<1>6. CASE Reset(t)
  BY <1>6 DEF Reset, executor, claudeVars
<1>7. CASE Collect(t)
  <2> DEFINE p == proc[t]
  <2>1. p \in Turns /\ events[p] \in Seq(Lines) /\ events[p] # <<>>
    BY <1>7 DEF Collect, HandsFull
  <2>2. /\ Head(events[p]) \in Lines /\ Tail(events[p]) \in Seq(Lines)
        /\ Len(Tail(events[p])) <= EventsCap
    BY <2>1
  <2>3. events' = [events EXCEPT ![p] = Tail(events[p])]
    BY <1>7 DEF Collect
  <2>4. events' \in [Turns -> Seq(Lines)] /\ \A q \in Turns : Len(events'[q]) <= EventsCap
    BY <2>1, <2>2, <2>3
  <2>5. answer' \in [Turns -> SUBSET Lines]
    BY <1>7, <2>2 DEF Collect
  <2>6. /\ reported' \in [Turns -> Turns \cup {None}]
        /\ outcome' \in [Turns -> {None, "result", "done", "closed", "canceled", "unsent",
                                   "unavailable"}]
        /\ pc' \in [Turns -> Busy \cup {"idle", "over"}]
        /\ stored' \in [Sessions -> Turns \cup {None}]
    <3>1. CASE Head(events[p]).kind = "result"
      <4>1. /\ reported' = [reported EXCEPT ![t] = usage[p]]
            /\ outcome' = [outcome EXCEPT ![t] = "result"]
            /\ pc' = [pc EXCEPT ![t] = "over"]
            /\ stored' = StoredAfter(t)
        BY <1>7, <3>1 DEF Collect
      <4>2. StoredAfter(t) \in [Sessions -> Turns \cup {None}]
        BY <2>1 DEF StoredAfter
      <4> QED BY <2>1, <4>1, <4>2
    <3>2. CASE Head(events[p]).kind # "result"
      <4>1. UNCHANGED <<reported, outcome, pc, stored>>
        BY <1>7, <3>2 DEF Collect
      <4> QED BY <4>1
    <3> QED BY <3>1, <3>2
  <2> QED BY <1>7, <2>4, <2>5, <2>6 DEF Collect, claudeVars
<1>8. CASE CollectClosed(t)
  BY <1>8 DEF CollectClosed, executor, sessionVars, claudeVars
<1>9. CASE CollectDone(t)
  BY <1>9 DEF CollectDone, StoredAfter, HandsFull, sessionVars, claudeVars
<1>10. CASE CollectCancelled(t)
  BY <1>10, KillFacts DEF CollectCancelled, executor, sessionVars
<1>11. CASE Drain(t)
  <2> DEFINE p == proc[t]
  <2>1. p \in Turns /\ events[p] \in Seq(Lines) /\ events[p] # <<>>
    BY <1>11 DEF Drain, HandsFull
  <2>2. Tail(events[p]) \in Seq(Lines) /\ Len(Tail(events[p])) <= EventsCap
    BY <2>1
  <2> QED BY <1>11, <2>1, <2>2 DEF Drain, turnVars, executor, claudeVars
<1>12. CASE DrainEnds(t)
  BY <1>12 DEF DrainEnds, executor, sessionVars, claudeVars
<1>13. CASE Cancel(t)
  BY <1>13 DEF Cancel, executor, sessionVars, claudeVars
<1> QED
  BY <1>1, <1>2, <1>3, <1>4, <1>5, <1>6, <1>7, <1>8, <1>9, <1>10, <1>11, <1>12, <1>13
  DEF TurnStep

\* A step of a reader or of claude keeps the types.
LEMMA ProcessType ==
  ASSUME TypeOK, HandsFull, NEW p \in Turns,
         ReaderStep(p) \/ ReadPrompt(p) \/ Say(p) \/ LeaveChild(p) \/ Die(p)
  PROVE  TypeOK'
<1> USE ConstantFacts DEF TypeOK
<1>1. CASE Scan(p)
  <2>1. /\ stdout[p] \in Seq(Lines) /\ stdout[p] # <<>>
    BY <1>1 DEF Scan
  <2>2. Head(stdout[p]) \in Lines /\ Tail(stdout[p]) \in Seq(Lines)
    BY <2>1
  <2>3. Head(stdout[p]).turn \in Turns
    BY <2>2 DEF Lines
  <2>4. stdout' \in [Turns -> Seq(Lines)]
    BY <1>1, <2>2 DEF Scan
  <2>5. usage' \in [Turns -> Turns \cup {None}]
    <3>1. \E u \in Turns \cup {None} : usage' = [usage EXCEPT ![p] = u]
      <4>1. CASE Head(stdout[p]).kind = "result"
        BY <1>1, <2>3, <4>1 DEF Scan
      <4>2. CASE Head(stdout[p]).kind # "result"
        BY <1>1, <4>2 DEF Scan
      <4> QED BY <4>1, <4>2
    <3> QED BY <3>1
  <2>6. /\ claudeID' \in [Turns -> Turns \cup {None}]
        /\ reader' \in [Turns -> {"none", "scan", "emit", "waiting", "closed", "ended"}]
        /\ holding' \in [Turns -> Lines \cup {None}]
    <3>1. CASE Head(stdout[p]).kind = "system"
      BY <1>1, <3>1 DEF Scan
    <3>2. CASE Head(stdout[p]).kind # "system"
      <4>1. /\ reader' = [reader EXCEPT ![p] = "emit"]
            /\ holding' = [holding EXCEPT ![p] = Head(stdout[p])]
            /\ UNCHANGED claudeID
        BY <1>1, <3>2 DEF Scan
      <4> QED BY <2>2, <4>1
    <3> QED BY <3>1, <3>2
  <2> QED BY <1>1, <2>4, <2>5, <2>6 DEF Scan, turnVars, executor
<1>2. CASE Emit(p)
  <2>1. holding[p] \in Lines /\ events[p] \in Seq(Lines) /\ Len(events[p]) < EventsCap
    BY <1>2 DEF Emit, HandsFull
  <2>2. /\ Append(events[p], holding[p]) \in Seq(Lines)
        /\ Len(Append(events[p], holding[p])) <= EventsCap
    BY <2>1
  <2>3. events' = [events EXCEPT ![p] = Append(events[p], holding[p])]
    BY <1>2 DEF Emit
  <2>4. events' \in [Turns -> Seq(Lines)] /\ \A q \in Turns : Len(events'[q]) <= EventsCap
    BY <2>2, <2>3
  <2> QED BY <1>2, <2>4 DEF Emit, turnVars, executor, claudeVars
<1>3. CASE ReadEnds(p)
  BY <1>3 DEF ReadEnds, turnVars, executor, claudeVars
<1>4. CASE CloseEvents(p)
  BY <1>4 DEF CloseEvents, turnVars, executor, claudeVars
<1>5. CASE CloseDone(p)
  BY <1>5 DEF CloseDone, turnVars, executor, claudeVars
<1>6. CASE ReadPrompt(p)
  <2>1. stdin[p] \in Seq(Turns) /\ stdin[p] # <<>>
    BY <1>6 DEF ReadPrompt
  <2>2. Head(stdin[p]) \in Turns /\ Tail(stdin[p]) \in Seq(Turns)
    BY <2>1
  <2>3. Answer(Head(stdin[p])) \in Seq(Lines)
    BY <2>2 DEF Answer, Line, Lines
  <2>4. stdin' \in [Turns -> Seq(Turns)] /\ saying' \in [Turns -> Seq(Lines)]
    BY <1>6, <2>2, <2>3 DEF ReadPrompt
  <2>5. transcript' \in [Turns -> SUBSET Turns]
    BY <1>6, <2>2 DEF ReadPrompt
  <2> QED BY <1>6, <2>4, <2>5 DEF ReadPrompt, turnVars, executor, sessionVars
<1>7. CASE Say(p)
  <2>1. saying[p] \in Seq(Lines) /\ saying[p] # <<>>
    BY <1>7 DEF Say
  <2>2. Head(saying[p]) \in Lines /\ Tail(saying[p]) \in Seq(Lines)
    BY <2>1
  <2>3. stdout' \in [Turns -> Seq(Lines)] /\ saying' \in [Turns -> Seq(Lines)]
    BY <1>7, <2>2 DEF Say
  <2> QED BY <1>7, <2>3 DEF Say, turnVars, executor, sessionVars
<1>8. CASE LeaveChild(p)
  BY <1>8 DEF LeaveChild, turnVars, executor, sessionVars
<1>9. CASE Die(p)
  BY <1>9 DEF Die, turnVars, executor, sessionVars
<1> QED
  BY <1>1, <1>2, <1>3, <1>4, <1>5, <1>6, <1>7, <1>8, <1>9 DEF ReaderStep

\* Every step keeps the types.
LEMMA NextType == ASSUME TypeOK, HandsFull, Next PROVE TypeOK'
<1>1. ASSUME NEW s \in Sessions, RemoveSession(s) PROVE TypeOK'
  BY <1>1, KillFacts DEF RemoveSession, TypeOK, turnVars, sessionVars
<1>2. ASSUME Reap PROVE TypeOK'
  <2>1. os' \in [Turns -> {"none", "up", "dead"}]
    BY <1>2, KillFacts DEF Reap
  <2>2. sessions' \in [Sessions -> Turns \cup {None}]
    BY <1>2 DEF Reap, TypeOK
  <2> QED BY <1>2, <2>1, <2>2 DEF Reap, TypeOK, turnVars, sessionVars
<1>3. ASSUME Stop PROVE TypeOK'
  BY <1>3, KillFacts DEF Stop, TypeOK, turnVars, sessionVars
<1> QED BY <1>1, <1>2, <1>3, TurnType, ProcessType DEF Next

-----------------------------------------------------------------------------
(* The turns and the readers *)

\* A turn gets its process before it works with it, a reader its event.
LEMMA NextHands == ASSUME TypeOK, HandsFull, Next PROVE HandsFull'
<1> USE DEF HandsFull, Busy
<1>1. ASSUME NEW t \in Turns, Reuse(t) \/ Restart(t) PROVE HandsFull'
  <2>1. CASE Reuse(t)
    <3>1. sessions[SessionOf[t]] \in Turns
      BY <2>1, ConstantFacts DEF Reuse, Healthy, TypeOK
    <3> QED BY <2>1, <3>1 DEF Reuse, TypeOK, sessionVars
  <2>2. CASE Restart(t)
    BY <2>2 DEF Restart, TypeOK
  <2> QED BY <1>1, <2>1, <2>2
<1>2. ASSUME NEW t \in Turns, StartFails(t) \/ Cancel(t) PROVE HandsFull'
  BY <1>2 DEF StartFails, Cancel, TypeOK, sessionVars
<1>3. ASSUME NEW t \in Turns, TurnStep(t) PROVE HandsFull'
  <2>1. proc' = proc /\ reader' = reader /\ holding' = holding
    BY <1>3 DEF TurnStep, Send, SendFails, Reset, Collect, CollectClosed, CollectDone,
                CollectCancelled, Drain, DrainEnds, turnVars, sessionVars
  <2>2. \A u \in Turns : pc'[u] \in Busy => pc[u] \in Busy
    BY <1>3 DEF TurnStep, Send, SendFails, Reset, Collect, CollectClosed, CollectDone,
                CollectCancelled, Drain, DrainEnds, turnVars, TypeOK
  <2> QED BY <2>1, <2>2
<1>4. ASSUME NEW p \in Turns, ReaderStep(p) PROVE HandsFull'
  <2>1. CASE Scan(p)
    <3>1. Head(stdout[p]) \in Lines
      BY <2>1 DEF Scan, TypeOK
    <3> QED BY <2>1, <3>1 DEF Scan, TypeOK, turnVars
  <2> QED
    BY <1>4, <2>1 DEF ReaderStep, Emit, ReadEnds, CloseEvents, CloseDone, TypeOK, turnVars
<1>5. ASSUME NEW p \in Turns, ReadPrompt(p) \/ Say(p) \/ LeaveChild(p) \/ Die(p)
      PROVE  HandsFull'
  BY <1>5 DEF ReadPrompt, Say, LeaveChild, Die, turnVars, sessionVars
<1>6. ASSUME (\E s \in Sessions : RemoveSession(s)) \/ Reap \/ Stop PROVE HandsFull'
  BY <1>6 DEF RemoveSession, Reap, Stop, turnVars, sessionVars
<1> QED BY <1>1, <1>2, <1>3, <1>4, <1>5, <1>6 DEF Next

-----------------------------------------------------------------------------
(* The theorems *)

\* The map of the executor names the one process that runs for a session, through
\* failed starts, broken pipes, the reaper, RemoveSession and Stop: the inductive
\* invariant that the next theorem rests on.
THEOREM ProcessInvariant == Spec => []ProcessInv
<1>1. Init => ProcessInv
  BY InitProcess
<1>2. ProcessInv /\ [Next]_vars => ProcessInv'
  <2> SUFFICES ASSUME ProcessInv, [Next]_vars PROVE ProcessInv'
    OBVIOUS
  <2>1. CASE UNCHANGED vars
    BY <2>1 DEF vars, turnVars, executor, sessionVars, claudeVars, ProcessInv, TypeOK,
                HandsFull, UpIsFiled, OneProcessPerSession
  <2>2. CASE Next
    <3>1. TypeOK' /\ HandsFull' /\ UpIsFiled'
      BY <2>2, NextType, NextHands, NextFiled DEF ProcessInv
    <3>2. OneProcessPerSession'
      BY <3>1 DEF UpIsFiled, OneProcessPerSession
    <3> QED BY <3>1, <3>2 DEF ProcessInv
  <2> QED BY <2>1, <2>2
<1> QED BY <1>1, <1>2, PTL DEF Spec

\* getOrCreateSession: no two claude processes work in the directory of a session
\* at the same time.
THEOREM OneProcess == Spec => []OneProcessPerSession
<1>1. ProcessInv => OneProcessPerSession
  BY DEF ProcessInv
<1> QED BY <1>1, ProcessInvariant, PTL

-----------------------------------------------------------------------------
(* The lines between claude and a turn *)

\* The pieces of a pipe are sequences of lines.
LEMMA PipeParts ==
  ASSUME TypeOK, HandsFull, NEW p \in Turns
  PROVE  /\ events[p] \in Seq(Lines) /\ Held(p) \in Seq(Lines)
         /\ stdout[p] \in Seq(Lines) /\ saying[p] \in Seq(Lines)
BY DEF TypeOK, HandsFull, Held

\* A pipe is empty when its pieces are.
LEMMA PipeEmpty ==
  ASSUME TypeOK, HandsFull, NEW p \in Turns, Pipe(p) = <<>>
  PROVE  events[p] = <<>> /\ reader[p] # "emit" /\ stdout[p] = <<>> /\ saying[p] = <<>>
<1>1. \A a, b \in Seq(Lines) : a \o b = <<>> => a = <<>> /\ b = <<>>
  OBVIOUS
<1>2. stdout[p] \o saying[p] \in Seq(Lines)
  BY PipeParts
<1>3. Held(p) \o (stdout[p] \o saying[p]) \in Seq(Lines)
  BY <1>2, PipeParts
<1>4. events[p] = <<>> /\ Held(p) \o (stdout[p] \o saying[p]) = <<>>
  BY <1>1, <1>3, PipeParts DEF Pipe
<1>5. Held(p) = <<>> /\ stdout[p] \o saying[p] = <<>>
  BY <1>1, <1>2, <1>4, PipeParts
<1>6. stdout[p] = <<>> /\ saying[p] = <<>>
  BY <1>1, <1>5, PipeParts
<1> QED BY <1>4, <1>5, <1>6 DEF Held

\* What a step may do to the lines on their way from process q: nothing, ...
Same(q) == stdin'[q] = stdin[q] /\ Pipe(q)' = Pipe(q)

\* ... bring the answer to the next prompt, ...
Asked(q) ==
    /\ stdin[q] # <<>> /\ stdin'[q] = Tail(stdin[q])
    /\ Pipe(q)' = Pipe(q) \o Answer(Head(stdin[q]))

\* ... or take a "system" line out.
Dropped(q) ==
    /\ stdin'[q] = stdin[q]
    /\ \E a \in Seq(Lines), b \in Seq(Lines), line \in Lines :
          /\ line.kind = "system"
          /\ Pipe(q) = a \o (<<line>> \o b) /\ Pipe(q)' = a \o b

\* How sequences are taken apart and put together on the way.
LEMMA MoveLine ==
  ASSUME NEW a \in Seq(Lines), NEW b \in Seq(Lines), b # <<>>
  PROVE  Append(a, Head(b)) \o Tail(b) = a \o b /\ <<Head(b)>> \o Tail(b) = b
OBVIOUS

\* Putting sequences together is associative.
LEMMA Regroup == \A a, b, c \in Seq(Lines) : (a \o b) \o c = a \o (b \o c)
OBVIOUS

\* What claude is going to say comes at the end of the pipe.
LEMMA AddLines ==
  \A a, b, c, d \in Seq(Lines) : a \o (b \o (c \o d)) = (a \o (b \o (c \o <<>>))) \o d
<1> TAKE a, b, c, d \in Seq(Lines)
<1>1. c \o <<>> = c /\ b \o c \in Seq(Lines)
  OBVIOUS
<1>2. (a \o (b \o c)) \o d = a \o ((b \o c) \o d)
  <2> DEFINE e == b \o c
  <2>1. e \in Seq(Lines)
    BY <1>1
  <2> HIDE DEF e
  <2>2. (a \o e) \o d = a \o (e \o d)
    BY <2>1
  <2> QED BY <2>2 DEF e
<1>3. (b \o c) \o d = b \o (c \o d)
  BY Regroup
<1> QED BY <1>1, <1>2, <1>3

\* readLoop puts what it holds at the end of the buffer.
LEMMA PassLine ==
  ASSUME NEW a \in Seq(Lines), NEW x \in Lines, NEW c \in Seq(Lines)
  PROVE  Append(a, x) \o (<<>> \o c) = a \o (<<x>> \o c)
<1>1. <<>> \o c = c
  OBVIOUS
<1>2. Append(a, x) \o c = a \o (<<x>> \o c)
  OBVIOUS
<1> QED BY <1>1, <1>2

\* readLoop and claude move lines on; only the reading of a prompt adds some, and
\* only the "system" line, which names the conversation, is not passed on.
LEMMA ProcessPipe ==
  ASSUME TypeOK, HandsFull, NEW p \in Turns,
         ReaderStep(p) \/ ReadPrompt(p) \/ Say(p) \/ LeaveChild(p) \/ Die(p)
  PROVE  /\ \A q \in Turns : q # p => Same(q)
         /\ Same(p) \/ Asked(p) \/ (Dropped(p) /\ claudeID'[p] = conversation[p])
<1> USE DEF Same
<1>0. /\ events[p] \in Seq(Lines) /\ Held(p) \in Seq(Lines)
      /\ stdout[p] \in Seq(Lines) /\ saying[p] \in Seq(Lines)
  BY PipeParts
<1>1. CASE Scan(p)
  <2>0. /\ reader[p] = "scan" /\ stdout[p] # <<>> /\ Head(stdout[p]) \in Lines
        /\ Tail(stdout[p]) \in Seq(Lines) /\ Held(p) = <<>>
    BY <1>0, <1>1 DEF Scan, Held
  <2>1. /\ stdin' = stdin /\ events' = events /\ saying' = saying
        /\ stdout' = [stdout EXCEPT ![p] = Tail(@)]
    BY <1>1 DEF Scan
  <2>2. \A q \in Turns : q # p => Same(q)
    <3>1. \A q \in Turns : q # p => Held(q)' = Held(q)
      BY <1>1 DEF Scan, Held, TypeOK
    <3> QED BY <2>1, <3>1 DEF Pipe, TypeOK
  <2>3. stdout'[p] = Tail(stdout[p])
    BY <2>1 DEF TypeOK
  <2> DEFINE a == events[p]  b == Tail(stdout[p]) \o saying[p]  line == Head(stdout[p])
  <2>4. b \in Seq(Lines) /\ stdout[p] \o saying[p] = <<line>> \o b
    <3>1. stdout[p] = <<line>> \o Tail(stdout[p]) /\ <<line>> \in Seq(Lines)
      BY <1>0, <2>0, MoveLine
    <3>2. (<<line>> \o Tail(stdout[p])) \o saying[p] = <<line>> \o (Tail(stdout[p]) \o saying[p])
      BY <1>0, <2>0, <3>1, Regroup
    <3>3. b \in Seq(Lines)
      BY <1>0, <2>0
    <3> QED BY <3>1, <3>2, <3>3
  <2>5. Pipe(p) = a \o (<<line>> \o b)
    <3>1. <<>> \o (stdout[p] \o saying[p]) = stdout[p] \o saying[p]
      BY <1>0
    <3> QED BY <2>0, <2>4, <3>1 DEF Pipe
  <2>6. CASE line.kind = "system"
    <3>1. Held(p)' = <<>>
      BY <1>1, <2>0, <2>6 DEF Scan, Held
    <3>2. <<>> \o b = b
      BY <2>4
    <3>3. Pipe(p)' = a \o b
      BY <2>1, <2>3, <3>1, <3>2 DEF Pipe
    <3> HIDE DEF a, b, line
    <3>4. a \in Seq(Lines) /\ line \in Lines
      BY <1>0, <2>0 DEF a, line
    <3>5. claudeID'[p] = conversation[p]
      BY <1>1, <2>6 DEF Scan, TypeOK, line
    <3> QED BY <2>1, <2>2, <2>4, <2>5, <2>6, <3>3, <3>4, <3>5 DEF Dropped
  <2>7. CASE line.kind # "system"
    <3>1. Held(p)' = <<line>>
      BY <1>1, <2>7 DEF Scan, Held, TypeOK
    <3>2. Pipe(p)' = a \o (<<line>> \o b)
      BY <2>1, <2>3, <3>1 DEF Pipe
    <3> QED BY <2>1, <2>2, <2>5, <3>2
  <2> QED BY <2>6, <2>7
<1>2. CASE Emit(p)
  <2>0. holding[p] \in Lines /\ Held(p) = <<holding[p]>>
    BY <1>2 DEF Emit, Held, HandsFull
  <2>1. /\ stdin' = stdin /\ stdout' = stdout /\ saying' = saying
        /\ events' = [events EXCEPT ![p] = Append(@, holding[p])]
    BY <1>2 DEF Emit, claudeVars
  <2>2. \A q \in Turns : q # p => Held(q)' = Held(q)
    BY <1>2 DEF Emit, Held, TypeOK
  <2>3. Held(p)' = <<>> /\ events'[p] = Append(events[p], holding[p])
    BY <1>2, <2>1 DEF Emit, Held, TypeOK
  <2>4. stdout[p] \o saying[p] \in Seq(Lines)
    BY <1>0
  <2>5. \A c \in Seq(Lines) :
          Append(events[p], holding[p]) \o (<<>> \o c) = events[p] \o (<<holding[p]>> \o c)
    BY <1>0, <2>0, PassLine
  <2> QED BY <2>0, <2>1, <2>2, <2>3, <2>4, <2>5 DEF Pipe, TypeOK
<1>3. CASE ReadEnds(p) \/ CloseEvents(p) \/ CloseDone(p)
  <2>1. /\ stdin' = stdin /\ stdout' = stdout /\ saying' = saying /\ events' = events
    BY <1>3 DEF ReadEnds, CloseEvents, CloseDone, claudeVars
  <2>2. \A q \in Turns : Held(q)' = Held(q)
    BY <1>3 DEF ReadEnds, CloseEvents, CloseDone, Held, TypeOK
  <2> QED BY <2>1, <2>2 DEF Pipe
<1>4. CASE ReadPrompt(p)
  <2> DEFINE t == Head(stdin[p])
  <2>1. /\ stdin[p] # <<>> /\ stdin' = [stdin EXCEPT ![p] = Tail(@)]
        /\ saying[p] = <<>> /\ saying' = [saying EXCEPT ![p] = Answer(t)]
        /\ events' = events /\ stdout' = stdout
    BY <1>4 DEF ReadPrompt, sessionVars
  <2>2. \A q \in Turns : Held(q)' = Held(q)
    BY <1>4 DEF ReadPrompt, sessionVars, Held
  <2>3. t \in Turns
    BY <2>1 DEF TypeOK
  <2>4. Answer(t) \in Seq(Lines)
    BY <2>3 DEF Answer, Line, Lines
  <2>5. saying'[p] = Answer(t) /\ stdin'[p] = Tail(stdin[p])
    BY <2>1 DEF TypeOK
  <2> HIDE DEF t
  <2>7. Pipe(p)' = Pipe(p) \o Answer(t)
    <3>1. Pipe(p)' = events[p] \o (Held(p) \o (stdout[p] \o Answer(t)))
      BY <2>1, <2>2, <2>5 DEF Pipe
    <3>2. Pipe(p) = events[p] \o (Held(p) \o (stdout[p] \o <<>>))
      BY <2>1 DEF Pipe
    <3>3. \A d \in Seq(Lines) :
            events[p] \o (Held(p) \o (stdout[p] \o d))
              = (events[p] \o (Held(p) \o (stdout[p] \o <<>>))) \o d
      <4> DEFINE a == events[p]  b == Held(p)  c == stdout[p]
      <4>1. a \in Seq(Lines) /\ b \in Seq(Lines) /\ c \in Seq(Lines)
        BY <1>0
      <4> HIDE DEF a, b, c
      <4>2. \A d \in Seq(Lines) : a \o (b \o (c \o d)) = (a \o (b \o (c \o <<>>))) \o d
        BY <4>1, AddLines, SMTT(30)
      <4> QED BY <4>2 DEF a, b, c
    <3>4. \A d \in Seq(Lines) : Pipe(p) \o d = events[p] \o (Held(p) \o (stdout[p] \o d))
      BY <3>2, <3>3
    <3> QED BY <2>4, <3>1, <3>4
  <2> QED BY <2>1, <2>2, <2>5, <2>7 DEF Pipe, Asked, TypeOK, t
<1>5. CASE Say(p)
  <2>1. /\ stdin' = stdin /\ events' = events /\ saying[p] # <<>>
        /\ stdout' = [stdout EXCEPT ![p] = Append(@, Head(saying[p]))]
        /\ saying' = [saying EXCEPT ![p] = Tail(@)]
    BY <1>5 DEF Say, sessionVars
  <2>2. \A q \in Turns : Held(q)' = Held(q)
    BY <1>5 DEF Say, sessionVars, Held
  <2>3. stdout'[p] \o saying'[p] = stdout[p] \o saying[p]
    BY <1>0, <2>1, MoveLine DEF TypeOK
  <2> QED BY <2>1, <2>2, <2>3 DEF Pipe, TypeOK
<1>6. CASE LeaveChild(p) \/ Die(p)
  BY <1>6 DEF LeaveChild, Die, sessionVars, Pipe, Held
<1> QED BY <1>1, <1>2, <1>3, <1>4, <1>5, <1>6 DEF ReaderStep

\* What a turn takes from the buffer is the first of the lines on their way.
LEMMA PipeHead ==
  ASSUME TypeOK, HandsFull, NEW p \in Turns, events[p] # <<>>
  PROVE  /\ Head(Pipe(p)) = Head(events[p])
         /\ Tail(Pipe(p)) = Tail(events[p]) \o (Held(p) \o (stdout[p] \o saying[p]))
<1> DEFINE a == events[p]  b == Held(p) \o (stdout[p] \o saying[p])
<1>1. a \in Seq(Lines) /\ b \in Seq(Lines) /\ a # <<>>
  <2>1. stdout[p] \o saying[p] \in Seq(Lines)
    BY PipeParts
  <2> QED BY <2>1, PipeParts
<1>2. Pipe(p) = a \o b
  BY DEF Pipe
<1> HIDE DEF a, b
<1>3. Head(a \o b) = Head(a) /\ Tail(a \o b) = Tail(a) \o b
  BY <1>1
<1> QED BY <1>2, <1>3 DEF a, b

\* A turn leaves the other turns and the lines from other processes alone; the
\* process it starts has said nothing yet.
LEMMA TurnFrame ==
  ASSUME TypeOK, HandsFull, Unasked, NEW t \in Turns,
         Reuse(t) \/ Restart(t) \/ StartFails(t) \/ TurnStep(t) \/ Cancel(t)
  PROVE  /\ \A u \in Turns : u # t =>
              /\ pc'[u] = pc[u] /\ proc'[u] = proc[u]
              /\ answer'[u] = answer[u] /\ outcome'[u] = outcome[u]
         /\ \A q \in Turns : pc[t] = "idle" \/ q # proc[t] => Same(q)
<1> USE DEF Same, Pipe, Held
<1>1. CASE Reuse(t) \/ StartFails(t) \/ Cancel(t)
  <2>1. UNCHANGED <<answer, events, reader, holding, stdin, stdout, saying>>
    BY <1>1 DEF Reuse, StartFails, Cancel, sessionVars, claudeVars
  <2>2. \A u \in Turns : u # t =>
          pc'[u] = pc[u] /\ proc'[u] = proc[u] /\ outcome'[u] = outcome[u]
    BY <1>1 DEF TypeOK, Reuse, StartFails, Cancel
  <2> QED BY <2>1, <2>2
<1>2. CASE Restart(t)
  <2>1. reader[t] # "emit"
    BY <1>2, PipeEmpty DEF Restart, Ready, Unasked, Quiet
  <2>2. \A q \in Turns : reader'[q] = "emit" <=> reader[q] = "emit"
    BY <1>2, <2>1 DEF Restart, TypeOK
  <2>3. UNCHANGED <<events, holding, stdin, stdout, saying>>
    BY <1>2 DEF Restart
  <2> QED BY <1>2, <2>2, <2>3 DEF Restart, TypeOK
<1>3. CASE Send(t)
  BY <1>3 DEF Send, TypeOK, sessionVars
<1>4. CASE SendFails(t) \/ Reset(t)
  BY <1>4 DEF SendFails, Reset, TypeOK, claudeVars
<1>5. CASE Collect(t)
  <2>1. \A u \in Turns : u # t =>
          /\ pc'[u] = pc[u] /\ proc'[u] = proc[u]
          /\ answer'[u] = answer[u] /\ outcome'[u] = outcome[u]
    BY <1>5 DEF Collect, TypeOK
  <2>2. /\ UNCHANGED <<reader, holding, stdin, stdout, saying>>
        /\ events' = [events EXCEPT ![proc[t]] = Tail(@)] /\ pc[t] = "collecting"
    BY <1>5 DEF Collect, claudeVars
  <2>3. \A q \in Turns : q # proc[t] => Same(q)
    <3>1. \A q \in Turns : q # proc[t] => events'[q] = events[q]
      BY <2>2 DEF TypeOK
    <3> QED BY <2>2, <3>1
  <2> QED BY <2>1, <2>2, <2>3
<1>6. CASE CollectClosed(t) \/ CollectDone(t) \/ DrainEnds(t)
  <2>1. UNCHANGED <<proc, answer, events, reader, holding, stdin, stdout, saying>>
    BY <1>6 DEF CollectClosed, CollectDone, DrainEnds, sessionVars, claudeVars
  <2>2. \A u \in Turns : u # t => pc'[u] = pc[u] /\ outcome'[u] = outcome[u]
    BY <1>6 DEF CollectClosed, CollectDone, DrainEnds, TypeOK
  <2> QED BY <2>1, <2>2
<1>7. CASE CollectCancelled(t)
  BY <1>7 DEF CollectCancelled, TypeOK, sessionVars
<1>8. CASE Drain(t)
  BY <1>8 DEF Drain, TypeOK, turnVars, claudeVars
<1> QED BY <1>1, <1>2, <1>3, <1>4, <1>5, <1>6, <1>7, <1>8 DEF TurnStep

\* The steps of readers, processes and of the rest of the executor concern no turn.
LEMMA OtherFrame ==
  ASSUME TypeOK,
         \/ \E p \in Turns : ReaderStep(p) \/ ReadPrompt(p) \/ Say(p) \/ LeaveChild(p) \/ Die(p)
         \/ \E s \in Sessions : RemoveSession(s)
         \/ Reap \/ Stop
  PROVE  /\ UNCHANGED <<pc, proc, answer, outcome>>
         /\ \A p \in Turns : alive'[p] => alive[p]
         /\ \A s \in Sessions : sessions'[s] = sessions[s] \/ sessions'[s] = None
<1>1. ASSUME NEW p \in Turns, ReaderStep(p)
      PROVE  UNCHANGED <<turnVars, executor>> /\ \A q \in Turns : alive'[q] => alive[q]
  BY <1>1 DEF ReaderStep, Scan, Emit, ReadEnds, CloseEvents, CloseDone, TypeOK
<1>2. ASSUME NEW p \in Turns, ReadPrompt(p) \/ Say(p) \/ LeaveChild(p) \/ Die(p)
      PROVE  UNCHANGED <<turnVars, executor, sessionVars>>
  BY <1>2 DEF ReadPrompt, Say, LeaveChild, Die
<1>3. ASSUME NEW s \in Sessions, RemoveSession(s)
      PROVE  UNCHANGED <<turnVars, sessionVars>> /\ sessions' = [sessions EXCEPT ![s] = None]
  BY <1>3 DEF RemoveSession
<1>4. ASSUME Reap
      PROVE  /\ UNCHANGED <<turnVars, sessionVars>>
             /\ \A s \in Sessions : sessions'[s] = sessions[s] \/ sessions'[s] = None
  BY <1>4 DEF Reap
<1>5. ASSUME Stop PROVE UNCHANGED <<turnVars, sessionVars, sessions>>
  BY <1>5 DEF Stop
<1> QED BY <1>1, <1>2, <1>3, <1>4, <1>5 DEF TypeOK, turnVars, executor, sessionVars

\* Outside the processes and turns, no line moves.
LEMMA RestSame ==
  ASSUME (\E s \in Sessions : RemoveSession(s)) \/ Reap \/ Stop
  PROVE  UNCHANGED <<alive, reader>> /\ \A q \in Turns : Same(q)
BY DEF RemoveSession, Reap, Stop, sessionVars, Same, Pipe, Held

-----------------------------------------------------------------------------
(* Turns and their processes *)

\* How a turn moves on, for the invariants that speak of it.
LEMMA TurnMoves ==
  ASSUME TypeOK, NEW t \in Turns,
         Reuse(t) \/ Restart(t) \/ StartFails(t) \/ TurnStep(t) \/ Cancel(t)
  PROVE  /\ pc'[t] # "idle"
         /\ pc[t] # "over"
         /\ pc[t] # "idle" => pc[t] \in Busy /\ proc'[t] = proc[t]
         /\ pc'[t] = "sending" => pc[t] \in {"idle", "sending"}
         /\ \A s \in Sessions :
              sessions'[s] \in {sessions[s], None} \/ (s = SessionOf[t] /\ sessions'[s] = t)
<1>0. /\ pc \in [Turns -> Busy \cup {"idle", "over"}] /\ proc \in [Turns -> Turns \cup {None}]
      /\ sessions \in [Sessions -> Turns \cup {None}] /\ SessionOf[t] \in Sessions
  BY ConstantFacts DEF TypeOK
<1> USE <1>0 DEF Busy
<1>1. CASE Reuse(t)
  BY <1>1 DEF Reuse, Ready, executor
<1>2. CASE Restart(t)
  BY <1>2 DEF Restart, Ready
<1>3. CASE StartFails(t)
  BY <1>3 DEF StartFails, Ready
<1>4. CASE TurnStep(t)
  <2>1. CASE Send(t) \/ SendFails(t) \/ Reset(t)
    BY <2>1 DEF Send, SendFails, Reset, executor
  <2>2. CASE Collect(t)
    BY <2>2 DEF Collect
  <2>3. CASE CollectClosed(t) \/ CollectDone(t) \/ CollectCancelled(t)
    BY <2>3 DEF CollectClosed, CollectDone, CollectCancelled, executor
  <2>4. CASE Drain(t) \/ DrainEnds(t)
    BY <2>4 DEF Drain, DrainEnds, turnVars, executor
  <2> QED BY <1>4, <2>1, <2>2, <2>3, <2>4 DEF TurnStep
<1>5. CASE Cancel(t)
  BY <1>5 DEF Cancel, executor
<1> QED BY <1>1, <1>2, <1>3, <1>4, <1>5

\* A turn that has not begun begins when no other of its session is at work.
LEMMA IdleReady ==
  ASSUME NEW t \in Turns, pc[t] = "idle",
         Reuse(t) \/ Restart(t) \/ StartFails(t) \/ TurnStep(t) \/ Cancel(t)
  PROVE  Ready(t) /\ (Reuse(t) \/ Restart(t) \/ StartFails(t))
<1>1. ~TurnStep(t)
  BY DEF TurnStep, Send, SendFails, Reset, Collect, CollectClosed, CollectDone,
         CollectCancelled, Drain, DrainEnds
<1>2. ~Cancel(t)
  BY DEF Cancel, Busy
<1>3. Reuse(t) \/ Restart(t) \/ StartFails(t) => Ready(t)
  BY DEF Reuse, Restart, StartFails
<1> QED BY <1>1, <1>2, <1>3

\* The process that a turn begins with is one of its session that was started before,
\* or its own.
LEMMA BeginsWith ==
  ASSUME TypeOK, OwnProcess, NEW t \in Turns, Reuse(t) \/ Restart(t)
  PROVE  /\ pc'[t] = "sending" /\ proc'[t] \in Turns /\ SessionOf[proc'[t]] = SessionOf[t]
         /\ proc'[t] = t \/ pc[proc'[t]] # "idle"
<1>0. pc \in [Turns -> Busy \cup {"idle", "over"}] /\ proc \in [Turns -> Turns \cup {None}]
  BY DEF TypeOK
<1>1. CASE Restart(t)
  BY <1>0, <1>1 DEF Restart
<1>2. CASE Reuse(t)
  <2> DEFINE p == sessions[SessionOf[t]]
  <2>1. p # None /\ SessionOf[t] \in Sessions
    BY <1>2, ConstantFacts DEF Reuse, Healthy
  <2>2. p \in Turns /\ SessionOf[p] = SessionOf[t] /\ pc[p] # "idle"
    BY <2>1 DEF OwnProcess, TypeOK
  <2>3. proc' = [proc EXCEPT ![t] = p] /\ pc' = [pc EXCEPT ![t] = "sending"]
    BY <1>2 DEF Reuse
  <2> QED BY <1>0, <2>2, <2>3
<1> QED BY <1>1, <1>2

\* A step of a turn keeps the turns of a session and their processes apart.
LEMMA TurnOwn ==
  ASSUME TypeOK, HandsFull, Unasked, OwnProcess, NEW t \in Turns,
         Reuse(t) \/ Restart(t) \/ StartFails(t) \/ TurnStep(t) \/ Cancel(t)
  PROVE  OwnProcess'
<1>1. \A u \in Turns : u # t => pc'[u] = pc[u] /\ proc'[u] = proc[u]
  BY TurnFrame
<1>2. \A u \in Turns : pc'[u] = "idle" => pc[u] = "idle"
  BY <1>1, TurnMoves
<1>3. pc[t] = "idle" => \A u \in Turns : SessionOf[u] = SessionOf[t] => pc[u] \notin Busy
  BY IdleReady DEF Ready
<1>4. ASSUME NEW u \in Turns, NEW v \in Turns, SessionOf[u] = SessionOf[v],
             pc'[u] \in Busy, pc'[v] \in Busy
      PROVE  u = v
  BY <1>1, <1>3, <1>4, TurnMoves DEF OwnProcess
<1>5. ASSUME NEW u \in Turns, pc'[u] \in Busy
      PROVE  SessionOf[proc'[u]] = SessionOf[u] /\ pc'[proc'[u]] # "idle"
  <2>1. CASE u # t \/ pc[t] # "idle"
    <3>1. pc[u] \in Busy /\ proc'[u] = proc[u]
      BY <1>1, <1>5, <2>1, TurnMoves
    <3>2. proc[u] \in Turns /\ SessionOf[proc[u]] = SessionOf[u] /\ pc[proc[u]] # "idle"
      BY <3>1 DEF OwnProcess, HandsFull
    <3> QED BY <1>2, <3>1, <3>2
  <2>2. CASE u = t /\ pc[t] = "idle"
    <3>1. ~StartFails(t)
      BY <1>5, <2>2 DEF StartFails, TypeOK, Busy
    <3>2. Reuse(t) \/ Restart(t)
      BY <2>2, <3>1, IdleReady
    <3> QED BY <1>2, <2>2, <3>2, BeginsWith, TurnMoves
  <2> QED BY <2>1, <2>2
<1>6. ASSUME NEW s \in Sessions, sessions'[s] # None
      PROVE  SessionOf[sessions'[s]] = s /\ pc'[sessions'[s]] # "idle"
  <2>1. CASE sessions'[s] = sessions[s]
    <3>1. sessions[s] \in Turns /\ SessionOf[sessions[s]] = s /\ pc[sessions[s]] # "idle"
      BY <1>6, <2>1 DEF OwnProcess, TypeOK
    <3> QED BY <1>2, <2>1, <3>1
  <2>2. CASE s = SessionOf[t] /\ sessions'[s] = t
    BY <2>2, TurnMoves
  <2> QED BY <1>6, <2>1, <2>2, TurnMoves
<1> QED BY <1>4, <1>5, <1>6 DEF OwnProcess

\* No two turns at work share a process, and none works with one that has still to be
\* started.
LEMMA Apart ==
  ASSUME HandsFull, OwnProcess, NEW t \in Turns, pc[t] \in Busy
  PROVE  /\ proc[t] \in Turns /\ pc[proc[t]] # "idle"
         /\ \A u \in Turns : u # t /\ pc[u] \in Busy => proc[u] # proc[t]
BY DEF HandsFull, OwnProcess

-----------------------------------------------------------------------------
(* Quiet processes and the answers on their way *)

\* Only a prompt disturbs a quiet process.
LEMMA QuietStays ==
  ASSUME TypeOK, HandsFull, Unasked, NEW q \in Turns, Quiet(q), Next,
         \A t \in Turns : Send(t) => proc[t] # q
  PROVE  Quiet(q)'
<1>1. Same(q) => Quiet(q)'
  BY DEF Same, Quiet
<1>2. ASSUME NEW t \in Turns,
             Reuse(t) \/ Restart(t) \/ StartFails(t) \/ TurnStep(t) \/ Cancel(t)
      PROVE  Same(q)
  <2>1. CASE pc[t] = "idle" \/ q # proc[t]
    BY <1>2, <2>1, TurnFrame
  <2>2. CASE pc[t] # "idle" /\ q = proc[t]
    <3>1. events[q] = <<>>
      BY PipeEmpty DEF Quiet
    <3>2. ~Collect(t) /\ ~Drain(t) /\ ~Send(t)
      BY <2>2, <3>1 DEF Collect, Drain
    <3>3. ~Reuse(t) /\ ~Restart(t) /\ ~StartFails(t)
      BY <2>2 DEF Reuse, Restart, StartFails, Ready
    <3>4. UNCHANGED <<events, reader, holding, stdin, stdout, saying>>
      BY <1>2, <3>2, <3>3
      DEF TurnStep, SendFails, Reset, CollectClosed, CollectDone, CollectCancelled, DrainEnds,
          Cancel, sessionVars, claudeVars
    <3> QED BY <3>4 DEF Same, Pipe, Held
  <2> QED BY <2>1, <2>2
<1>3. ASSUME NEW p \in Turns,
             ReaderStep(p) \/ ReadPrompt(p) \/ Say(p) \/ LeaveChild(p) \/ Die(p)
      PROVE  Same(q)
  <2>1. q # p \/ Same(p) \/ Asked(p) \/ Dropped(p)
    BY <1>3, ProcessPipe
  <2>2. q = p => ~Asked(p)
    BY DEF Asked, Quiet
  <2>3. q = p => ~Dropped(p)
    <3>1. \A a, b \in Seq(Lines), line \in Lines : a \o (<<line>> \o b) # <<>>
      OBVIOUS
    <3> QED BY <3>1 DEF Dropped, Quiet
  <2> QED BY <1>3, <2>1, <2>2, <2>3, ProcessPipe
<1> QED BY <1>1, <1>2, <1>3, RestSame DEF Next

\* Where a line stands that is taken out.
LEMMA LineAt ==
  ASSUME NEW a \in Seq(Lines), NEW b \in Seq(Lines), NEW line \in Lines
  PROVE  /\ (a \o (<<line>> \o b))[Len(a) + 1] = line
         /\ Len(a) \in Nat /\ Len(a) + 1 <= Len(a \o (<<line>> \o b))
OBVIOUS

\* The only "system" line of an answer is its first, ...
LEMMA SystemFirst ==
  ASSUME NEW u \in Turns, NEW a \in Seq(Lines), NEW b \in Seq(Lines), NEW line \in Lines,
         line.kind = "system", Answer(u) = a \o (<<line>> \o b)
  PROVE  a \o b = <<Line("text", u), Line("result", u)>>
<1>1. /\ Answer(u) \in Seq(Lines) /\ Len(Answer(u)) = 3
      /\ Answer(u)[2].kind = "text" /\ Answer(u)[3].kind = "result"
      /\ Tail(Answer(u)) = <<Line("text", u), Line("result", u)>>
  <2>1. Line("system", u) \in Lines /\ Line("text", u) \in Lines /\ Line("result", u) \in Lines
    BY DEF Line, Lines
  <2>2. Line("text", u).kind = "text" /\ Line("result", u).kind = "result"
    BY DEF Line
  <2> QED BY <2>1, <2>2 DEF Answer
<1>2. Answer(u)[Len(a) + 1] = line /\ Len(a) \in Nat /\ Len(a) + 1 <= 3
  BY <1>1, LineAt
<1>3. Len(a) = 0
  <2>0. \A n \in Nat : n + 1 <= 3 => n \in {0, 1, 2}
    OBVIOUS
  <2>1. Len(a) \in {0, 1, 2}
    BY <1>2, <2>0
  <2>2. ASSUME Len(a) = 1 PROVE FALSE
    <3>1. Answer(u)[2] = line
      <4>1. Len(a) + 1 = 2
        BY <2>2
      <4> QED BY <1>2, <4>1, Zenon
    <3> QED BY <1>1, <3>1
  <2>3. ASSUME Len(a) = 2 PROVE FALSE
    <3>1. Answer(u)[3] = line
      <4>1. Len(a) + 1 = 3
        BY <2>3
      <4> QED BY <1>2, <4>1, Zenon
    <3> QED BY <1>1, <3>1
  <2> QED BY <2>1, <2>2, <2>3
<1>4. a = <<>>
  BY <1>3
<1>5. a \o (<<line>> \o b) = <<line>> \o b /\ a \o b = b /\ Tail(<<line>> \o b) = b
  BY <1>4
<1> QED BY <1>1, <1>5

\* ... and is not among those that follow it.
LEMMA NoSystem ==
  ASSUME NEW u \in Turns, NEW a \in Seq(Lines), NEW b \in Seq(Lines), NEW line \in Lines,
         line.kind = "system"
  PROVE  /\ a \o (<<line>> \o b) # <<>>
         /\ a \o (<<line>> \o b) # <<Line("text", u), Line("result", u)>>
         /\ a \o (<<line>> \o b) # <<Line("result", u)>>
<1> DEFINE c == a \o (<<line>> \o b)
<1>1. c[Len(a) + 1] = line /\ Len(a) \in Nat /\ Len(a) + 1 <= Len(c)
  BY LineAt
<1> HIDE DEF c
<1>2. Line("text", u).kind = "text" /\ Line("result", u).kind = "result"
  BY DEF Line
<1>3. c # <<>>
  BY <1>1
<1>4. c # <<Line("result", u)>>
  BY <1>1, <1>2
<1>5. ASSUME c = <<Line("text", u), Line("result", u)>> PROVE FALSE
  <2>0. \A n \in Nat : n + 1 <= 2 => n \in {0, 1}
    OBVIOUS
  <2>1. Len(c) = 2
    BY <1>5
  <2>2. Len(a) \in {0, 1}
    BY <1>1, <2>0, <2>1
  <2>3. CASE Len(a) = 0
    <3>1. c[1] = line
      BY <1>1, <2>3
    <3> QED BY <1>2, <1>5, <3>1
  <2>4. CASE Len(a) = 1
    <3>1. c[2] = line
      BY <1>1, <2>4
    <3> QED BY <1>2, <1>5, <3>1
  <2> QED BY <2>2, <2>3, <2>4
<1> QED BY <1>3, <1>4, <1>5 DEF c

\* Readers and processes carry an answer on.
LEMMA FlowStays ==
  ASSUME NEW u \in Turns, Flow(u), proc'[u] = proc[u], answer'[u] = answer[u],
         Same(proc[u]) \/ Asked(proc[u]) \/ Dropped(proc[u])
  PROVE  Flow(u)'
<1> DEFINE p == proc[u]
<1>1. CASE Same(p)
  BY <1>1 DEF Flow, Same
<1>2. CASE Asked(p)
  <2>1. stdin[p] = <<u>> /\ Pipe(p) = <<>> /\ answer[u] = {}
    BY <1>2 DEF Asked, Flow
  <2>2. stdin'[p] = <<>> /\ Pipe(p)' = <<>> \o Answer(u)
    BY <1>2, <2>1 DEF Asked
  <2>3. Answer(u) \in Seq(Lines)
    BY DEF Answer, Line, Lines
  <2>4. <<>> \o Answer(u) = Answer(u)
    BY <2>3
  <2> QED BY <2>1, <2>2, <2>4 DEF Flow
<1>3. CASE Dropped(p)
  <2>1. PICK a \in Seq(Lines), b \in Seq(Lines), line \in Lines :
          /\ line.kind = "system"
          /\ Pipe(p) = a \o (<<line>> \o b) /\ Pipe(p)' = a \o b
    BY <1>3 DEF Dropped
  <2>2. Pipe(p) = Answer(u) /\ stdin[p] = <<>> /\ answer[u] = {}
    <3>1. /\ Pipe(p) # <<>> /\ Pipe(p) # <<Line("text", u), Line("result", u)>>
          /\ Pipe(p) # <<Line("result", u)>>
      BY <2>1, NoSystem
    <3> QED BY <3>1, Zenon DEF Flow
  <2>3. Pipe(p)' = <<Line("text", u), Line("result", u)>>
    <3>1. Answer(u) = a \o (<<line>> \o b)
      BY <2>1, <2>2
    <3>2. a \o b = <<Line("text", u), Line("result", u)>>
      BY <2>1, <3>1, SystemFirst, Zenon
    <3> QED BY <2>1, <3>2
  <2> QED BY <1>3, <2>2, <2>3 DEF Dropped, Flow
<1> QED BY <1>1, <1>2, <1>3

\* A turn that collects takes the first line that is left of its answer; when that is
\* the "result", the answer is complete and nothing is left.
LEMMA CollectFlow ==
  ASSUME TypeOK, HandsFull, PassedOn, NEW t \in Turns, Flow(t), Collect(t), proc[t] \in Turns
  PROVE  \/ pc'[t] = "collecting" /\ outcome' = outcome /\ Flow(t)'
         \/ /\ pc'[t] = "over" /\ Quiet(proc[t])'
            /\ answer'[t] = {Line("text", t), Line("result", t)}
<1> DEFINE p == proc[t]  e == Head(events[p])  x == Line("text", t)  r == Line("result", t)
<1>1. /\ events[p] # <<>> /\ events' = [events EXCEPT ![p] = Tail(@)]
      /\ answer' = [answer EXCEPT ![t] = @ \cup {e}]
      /\ UNCHANGED <<proc, reader, holding, stdin, stdout, saying>>
      /\ pc[t] = "collecting"
  BY DEF Collect, claudeVars
<1>2. Head(Pipe(p)) = e /\ Pipe(p)' = Tail(Pipe(p))
  <2>1. Pipe(p)' = Tail(events[p]) \o (Held(p) \o (stdout[p] \o saying[p]))
    BY <1>1 DEF Pipe, Held, TypeOK
  <2> QED BY <1>1, <2>1, PipeHead
<1>3. Pipe(p) # <<>>
  BY <1>1, PipeEmpty
<1>4. answer'[t] = answer[t] \cup {e} /\ proc'[t] = p /\ stdin' = stdin
  BY <1>1 DEF TypeOK
<1>5. e.kind # "system"
  <2>1. events[p][1] = e /\ 1 \in 1 .. Len(events[p])
    BY <1>1, PipeParts
  <2> QED BY <2>1 DEF PassedOn
<1>6. x.kind = "text" /\ r.kind = "result" /\ Line("system", t).kind = "system"
  BY DEF Line
<1>7. Head(Answer(t)) = Line("system", t)
  BY DEF Answer
<1>8. CASE Pipe(p) = <<x, r>> /\ answer[t] = {} /\ stdin[p] = <<>>
  <2>1. e = x /\ Pipe(p)' = <<r>>
    BY <1>2, <1>8
  <2>2. pc' = pc /\ outcome' = outcome
    BY <1>6, <2>1 DEF Collect
  <2>3. Flow(t)'
    BY <1>4, <1>8, <2>1 DEF Flow
  <2> QED BY <1>1, <2>2, <2>3
<1>9. CASE Pipe(p) = <<r>> /\ answer[t] = {x} /\ stdin[p] = <<>>
  <2>1. e = r /\ Pipe(p)' = <<>>
    BY <1>2, <1>9
  <2>2. pc'[t] = "over"
    BY <1>6, <2>1 DEF Collect, TypeOK
  <2> QED BY <1>4, <1>9, <2>1, <2>2 DEF Quiet
<1> QED BY <1>2, <1>3, <1>5, <1>6, <1>7, <1>8, <1>9 DEF Flow

-----------------------------------------------------------------------------
(* The answers *)

\* readLoop hands no "system" line on.
LEMMA NextPassed == ASSUME TypeOK, HandsFull, PassedOn, Next PROVE PassedOn'
<1>1. UNCHANGED <<reader, holding, events>> => PassedOn'
  BY DEF PassedOn
<1>2. ASSUME NEW t \in Turns,
             Reuse(t) \/ Restart(t) \/ StartFails(t) \/ TurnStep(t) \/ Cancel(t)
      PROVE  PassedOn'
  <2>1. CASE Restart(t)
    BY <2>1 DEF Restart, PassedOn, TypeOK
  <2>2. CASE Collect(t) \/ Drain(t)
    <3> DEFINE p == proc[t]
    <3>1. /\ UNCHANGED <<reader, holding>>
          /\ events[p] # <<>> /\ events' = [events EXCEPT ![p] = Tail(@)]
      BY <2>2 DEF Collect, Drain
    <3>2. p \in Turns /\ events[p] \in Seq(Lines)
      BY <2>2 DEF Collect, Drain, HandsFull, Busy, TypeOK
    <3>3. \A q \in Seq(Lines) : q # <<>> =>
            \A i \in 1 .. Len(Tail(q)) : Tail(q)[i] = q[i + 1] /\ i + 1 \in 1 .. Len(q)
      OBVIOUS
    <3>4. \A i \in 1 .. Len(events'[p]) : events'[p][i].kind # "system"
      <4>1. events'[p] = Tail(events[p])
        BY <3>1, <3>2 DEF TypeOK
      <4>2. \A i \in 1 .. Len(Tail(events[p])) :
              Tail(events[p])[i] = events[p][i + 1] /\ i + 1 \in 1 .. Len(events[p])
        BY <3>1, <3>2, <3>3
      <4>3. \A i \in 1 .. Len(events[p]) : events[p][i].kind # "system"
        BY <3>2 DEF PassedOn
      <4> HIDE DEF p
      <4> QED BY <4>1, <4>2, <4>3
    <3>5. \A q \in Turns : q # p => events'[q] = events[q]
      BY <3>1 DEF TypeOK
    <3> QED BY <3>1, <3>4, <3>5 DEF PassedOn
  <2>3. CASE ~Restart(t) /\ ~Collect(t) /\ ~Drain(t)
    <3>1. UNCHANGED <<reader, holding, events>>
      BY <1>2, <2>3
      DEF Reuse, StartFails, TurnStep, Send, SendFails, Reset, CollectClosed, CollectDone,
          CollectCancelled, DrainEnds, Cancel, sessionVars
    <3> QED BY <1>1, <3>1
  <2> QED BY <2>1, <2>2, <2>3
<1>3. ASSUME NEW p \in Turns, ReaderStep(p) PROVE PassedOn'
  <2>1. CASE Scan(p)
    <3>1. /\ events' = events
          /\ \A q \in Turns : q # p => reader'[q] = reader[q] /\ holding'[q] = holding[q]
      BY <2>1 DEF Scan, TypeOK
    <3>2. reader'[p] = "emit" => holding'[p].kind # "system"
      BY <2>1 DEF Scan, TypeOK
    <3> QED BY <3>1, <3>2 DEF PassedOn
  <2>2. CASE Emit(p)
    <3>1. /\ holding[p] \in Lines /\ holding[p].kind # "system" /\ events[p] \in Seq(Lines)
      BY <2>2 DEF Emit, HandsFull, PassedOn, TypeOK
    <3>2. \A q \in Seq(Lines), x \in Lines : \A i \in 1 .. Len(Append(q, x)) :
            Append(q, x)[i] = x \/ (i \in 1 .. Len(q) /\ Append(q, x)[i] = q[i])
      OBVIOUS
    <3>3. /\ events' = [events EXCEPT ![p] = Append(@, holding[p])]
          /\ holding' = [holding EXCEPT ![p] = None] /\ reader' = [reader EXCEPT ![p] = "scan"]
      BY <2>2 DEF Emit
    <3>4. \A i \in 1 .. Len(events'[p]) : events'[p][i].kind # "system"
      <4>1. events'[p] = Append(events[p], holding[p])
        BY <3>3 DEF TypeOK
      <4>2. \A i \in 1 .. Len(Append(events[p], holding[p])) :
              \/ Append(events[p], holding[p])[i] = holding[p]
              \/ i \in 1 .. Len(events[p]) /\ Append(events[p], holding[p])[i] = events[p][i]
        BY <3>1, <3>2
      <4>3. \A i \in 1 .. Len(events[p]) : events[p][i].kind # "system"
        BY DEF PassedOn
      <4> QED BY <3>1, <4>1, <4>2, <4>3
    <3>5. \A q \in Turns : q # p => events'[q] = events[q]
      BY <3>3 DEF TypeOK
    <3>6. \A q \in Turns : reader'[q] = "emit" => reader[q] = "emit" /\ holding'[q] = holding[q]
      BY <3>3 DEF TypeOK
    <3> QED BY <3>4, <3>5, <3>6 DEF PassedOn
  <2>3. CASE ReadEnds(p) \/ CloseEvents(p) \/ CloseDone(p)
    BY <2>3 DEF ReadEnds, CloseEvents, CloseDone, PassedOn, TypeOK
  <2> QED BY <1>3, <2>1, <2>2, <2>3 DEF ReaderStep
<1>4. ASSUME NEW p \in Turns, ReadPrompt(p) \/ Say(p) \/ LeaveChild(p) \/ Die(p)
      PROVE  PassedOn'
  BY <1>1, <1>4 DEF ReadPrompt, Say, LeaveChild, Die, sessionVars
<1>5. ASSUME (\E s \in Sessions : RemoveSession(s)) \/ Reap \/ Stop PROVE PassedOn'
  BY <1>1, <1>5 DEF RemoveSession, Reap, Stop, sessionVars
<1> QED BY <1>2, <1>3, <1>4, <1>5 DEF Next

\* The deferred function of readLoop marks the session dead before it waits.
LEMMA NextEnd == ASSUME TypeOK, EndIsKnown, Next PROVE EndIsKnown'
<1>1. UNCHANGED <<reader, alive>> => EndIsKnown'
  BY DEF EndIsKnown
<1>2. ASSUME NEW t \in Turns,
             Reuse(t) \/ Restart(t) \/ StartFails(t) \/ TurnStep(t) \/ Cancel(t)
      PROVE  EndIsKnown'
  <2>1. CASE Restart(t)
    BY <2>1 DEF Restart, EndIsKnown, TypeOK
  <2>2. CASE SendFails(t)
    BY <2>2 DEF SendFails, EndIsKnown, TypeOK
  <2>3. CASE Collect(t)
    BY <1>1, <2>3 DEF Collect
  <2>4. CASE ~Restart(t) /\ ~SendFails(t) /\ ~Collect(t)
    <3>1. UNCHANGED <<reader, alive>>
      BY <1>2, <2>4
      DEF Reuse, StartFails, TurnStep, Send, Reset, CollectClosed, CollectDone, CollectCancelled,
          Drain, DrainEnds, Cancel, sessionVars
    <3> QED BY <1>1, <3>1
  <2> QED BY <2>1, <2>2, <2>3, <2>4
<1>3. ASSUME NEW p \in Turns, ReaderStep(p) PROVE EndIsKnown'
  <2> USE DEF EndIsKnown, TypeOK
  <2>1. CASE Scan(p)
    BY <2>1 DEF Scan
  <2>2. CASE Emit(p)
    BY <2>2 DEF Emit
  <2>3. CASE ReadEnds(p)
    BY <2>3 DEF ReadEnds
  <2>4. CASE CloseEvents(p)
    BY <2>4 DEF CloseEvents
  <2>5. CASE CloseDone(p)
    BY <2>5 DEF CloseDone
  <2> QED BY <1>3, <2>1, <2>2, <2>3, <2>4, <2>5 DEF ReaderStep
<1>4. ASSUME NEW p \in Turns, ReadPrompt(p) \/ Say(p) \/ LeaveChild(p) \/ Die(p)
      PROVE  EndIsKnown'
  BY <1>1, <1>4 DEF ReadPrompt, Say, LeaveChild, Die, sessionVars
<1>5. ASSUME (\E s \in Sessions : RemoveSession(s)) \/ Reap \/ Stop PROVE EndIsKnown'
  BY <1>1, <1>5, RestSame
<1> QED BY <1>2, <1>3, <1>4, <1>5 DEF Next

\* The process of a turn that begins is quiet.
LEMMA BeginsQuiet ==
  ASSUME TypeOK, HandsFull, OwnProcess, Unasked, LeftQuiet, NEW t \in Turns,
         Reuse(t) \/ Restart(t)
  PROVE  \E q \in Turns : /\ q = proc'[t] /\ Quiet(q)
                          /\ \A v \in Turns : Send(v) => proc[v] # q
<1>0. pc \in [Turns -> Busy \cup {"idle", "over"}] /\ proc \in [Turns -> Turns \cup {None}]
  BY DEF TypeOK
<1>1. \A v \in Turns : Send(v) => pc[v] \in Busy
  BY DEF Send, Busy
<1>2. CASE Restart(t)
  <2>1. proc'[t] = t /\ pc[t] = "idle"
    BY <1>0, <1>2 DEF Restart, Ready
  <2>2. Quiet(t)
    BY <2>1 DEF Unasked
  <2>3. \A v \in Turns : Send(v) => proc[v] # t
    BY <1>1, <2>1, Apart
  <2> QED BY <2>1, <2>2, <2>3
<1>3. CASE Reuse(t)
  <2> DEFINE q == sessions[SessionOf[t]]
  <2>1. /\ proc' = [proc EXCEPT ![t] = q] /\ q # None /\ alive[q]
        /\ \A u \in Turns : SessionOf[u] = SessionOf[t] => pc[u] \notin Busy
    BY <1>3 DEF Reuse, Healthy, Ready
  <2>2. q \in Turns /\ SessionOf[q] = SessionOf[t] /\ proc'[t] = q
    <3>1. SessionOf[t] \in Sessions /\ sessions \in [Sessions -> Turns \cup {None}]
      BY ConstantFacts DEF TypeOK
    <3>2. \A s \in Sessions : sessions[s] # None => SessionOf[sessions[s]] = s
      BY DEF OwnProcess
    <3> QED BY <1>0, <2>1, <3>1, <3>2
  <2> HIDE DEF q
  <2>3. \A u \in Turns : proc[u] = q => pc[u] \notin Busy
    BY <2>1, <2>2 DEF OwnProcess
  <2>4. Quiet(q)
    BY <2>1, <2>2, <2>3 DEF LeftQuiet
  <2> QED BY <1>1, <2>2, <2>3, <2>4
<1> QED BY <1>2, <1>3

\* Before its prompt is sent, the process of a turn stays quiet.
LEMMA NextQuiet ==
  ASSUME TypeOK, HandsFull, OwnProcess, Unasked, LeftQuiet, Next, NEW u \in Turns
  PROVE  /\ pc'[u] = "idle" /\ pc[u] = "idle" => Quiet(u)'
         /\ pc'[u] = "sending" /\ pc[u] = "sending" /\ proc'[u] = proc[u] => Quiet(proc[u])'
         /\ Reuse(u) \/ Restart(u) => Quiet(proc[u])'
<1>0. \A v \in Turns : Send(v) => pc[v] \in Busy
  BY DEF Send, Busy
<1>1. ASSUME NEW q \in Turns, Quiet(q), q = proc'[u],
             \A v \in Turns : Send(v) => proc[v] # q
      PROVE  Quiet(proc[u])'
  <2>1. Quiet(q)'
    BY <1>1, QuietStays
  <2> QED BY <1>1, <2>1 DEF Quiet, Pipe, Held
<1>2. ASSUME pc[u] = "idle" PROVE Quiet(u)'
  <2>1. Quiet(u)
    BY <1>2 DEF Unasked
  <2>2. \A v \in Turns : Send(v) => proc[v] # u
    BY <1>0, <1>2, Apart
  <2> QED BY <2>1, <2>2, QuietStays
<1>3. ASSUME pc'[u] = "sending", pc[u] = "sending", proc'[u] = proc[u] PROVE Quiet(proc[u])'
  <2>1. PICK q \in Turns : q = proc[u]
    BY <1>3 DEF HandsFull, Busy
  <2>2. Quiet(q)
    BY <1>3, <2>1 DEF Unasked
  <2>3. ~Send(u)
    BY <1>3 DEF Send, TypeOK
  <2>4. \A v \in Turns : Send(v) => proc[v] # q
    BY <1>0, <1>3, <2>1, <2>3, Apart DEF Busy
  <2> QED BY <1>1, <1>3, <2>1, <2>2, <2>4
<1>4. ASSUME Reuse(u) \/ Restart(u) PROVE Quiet(proc[u])'
  BY <1>1, <1>4, BeginsQuiet
<1> QED BY <1>2, <1>3, <1>4

\* A turn that returns at a result does so in Collect, and no other step of a turn
\* before the prompt is sent changes its answer.
LEMMA TurnResult ==
  ASSUME TypeOK, NEW t \in Turns,
         Reuse(t) \/ Restart(t) \/ StartFails(t) \/ TurnStep(t) \/ Cancel(t)
  PROVE  /\ outcome'[t] = "result" => outcome[t] = "result" \/ (Collect(t) /\ pc'[t] = "over")
         /\ answer' = answer \/ (Collect(t) /\ pc[t] = "collecting")
<1>1. CASE Collect(t)
  BY <1>1 DEF Collect, TypeOK
<1>2. CASE ~Collect(t)
  <2>0. outcome \in [Turns -> {None, "result", "done", "closed", "canceled", "unsent",
                               "unavailable"}]
    BY DEF TypeOK
  <2> QED
    BY <1>2, <2>0
    DEF Reuse, Restart, StartFails, TurnStep, Send, SendFails, Reset, CollectClosed, CollectDone,
        CollectCancelled, Drain, DrainEnds, Cancel, turnVars
<1> QED BY <1>1, <1>2

\* A turn whose prompt is not sent has no answer, and its process no lines for it.
LEMMA NextUnasked ==
  ASSUME TypeOK, HandsFull, OwnProcess, Unasked, LeftQuiet, Next
  PROVE  Unasked'
<1>1. ASSUME NEW t \in Turns,
             Reuse(t) \/ Restart(t) \/ StartFails(t) \/ TurnStep(t) \/ Cancel(t)
      PROVE  Unasked'
  <2> SUFFICES ASSUME NEW u \in Turns
               PROVE  /\ pc'[u] \in {"idle", "sending"} => answer'[u] = {}
                      /\ pc'[u] = "idle" => Quiet(u)'
                      /\ pc'[u] = "sending" => Quiet(proc[u])'
                      /\ outcome'[u] = "result" => pc'[u] = "over"
    BY DEF Unasked
  <2>0. /\ pc[u] \in {"idle", "sending"} => answer[u] = {}
        /\ outcome[u] = "result" => pc[u] = "over"
    BY DEF Unasked
  <2>1. CASE u # t
    <3>1. /\ pc'[u] = pc[u] /\ proc'[u] = proc[u]
          /\ answer'[u] = answer[u] /\ outcome'[u] = outcome[u]
      BY <1>1, <2>1, TurnFrame
    <3> QED BY <2>0, <3>1, NextQuiet
  <2>2. CASE u = t
    <3>1. /\ pc'[t] # "idle" /\ pc[t] # "over"
          /\ pc[t] # "idle" => pc[t] \in Busy /\ proc'[t] = proc[t]
          /\ pc'[t] = "sending" => pc[t] \in {"idle", "sending"}
      BY <1>1, TurnMoves
    <3>2. pc'[t] = "sending" => answer'[t] = {}
      BY <1>1, <2>0, <2>2, <3>1, TurnResult
    <3>3. outcome'[t] = "result" => pc'[t] = "over"
      BY <1>1, <2>0, <2>2, <3>1, TurnResult
    <3>4. pc'[t] = "sending" => Quiet(proc[t])'
      <4>1. CASE pc[t] = "sending"
        BY <3>1, <4>1, NextQuiet
      <4>2. CASE pc[t] = "idle" /\ pc'[t] = "sending"
        <5>1. ~StartFails(t)
          BY <4>2 DEF StartFails, TypeOK
        <5>2. Reuse(t) \/ Restart(t)
          BY <1>1, <4>2, <5>1, IdleReady
        <5> QED BY <5>2, NextQuiet
      <4> QED BY <3>1, <4>1, <4>2
    <3> QED BY <2>2, <3>1, <3>2, <3>3, <3>4
  <2> QED BY <2>1, <2>2
<1>2. ASSUME UNCHANGED <<pc, proc, answer, outcome>> PROVE Unasked'
  BY <1>2, NextQuiet DEF Unasked
<1> QED BY <1>1, <1>2, OtherFrame DEF Next

\* Every step keeps the turns of a session and their processes apart.
LEMMA NextOwn == ASSUME TypeOK, HandsFull, Unasked, OwnProcess, Next PROVE OwnProcess'
<1>1. ASSUME UNCHANGED <<pc, proc>>,
             \A s \in Sessions : sessions'[s] = sessions[s] \/ sessions'[s] = None
      PROVE  OwnProcess'
  BY <1>1 DEF OwnProcess
<1> QED BY <1>1, TurnOwn, OtherFrame DEF Next

\* A turn that collects does so on its way to the answer.
LEMMA CollectsFlow ==
  ASSUME TypeOK, HandsFull, PassedOn, Flows, NEW t \in Turns, Collect(t)
  PROVE  /\ pc[t] = "collecting" /\ proc[t] \in Turns
         /\ \/ pc'[t] = "collecting" /\ Flow(t)'
            \/ /\ pc'[t] = "over" /\ Quiet(proc[t])'
               /\ answer'[t] = {Line("text", t), Line("result", t)}
<1>1. pc[t] = "collecting" /\ proc[t] \in Turns /\ Flow(t)
  BY DEF Collect, Flows, HandsFull, Busy
<1> QED BY <1>1, CollectFlow

\* A prompt that is sent to a quiet process starts an answer.
LEMMA SendFlow ==
  ASSUME TypeOK, HandsFull, Unasked, NEW t \in Turns, Send(t)
  PROVE  Flow(t)'
<1> DEFINE p == proc[t]
<1>1. /\ stdin' = [stdin EXCEPT ![p] = Append(@, t)]
      /\ UNCHANGED <<proc, answer, events, reader, holding, stdout, saying>>
      /\ pc[t] = "sending" /\ p \in Turns
  BY DEF Send, sessionVars, HandsFull, Busy
<1>2. stdin[p] = <<>> /\ Pipe(p) = <<>> /\ answer[t] = {}
  BY <1>1 DEF Unasked, Quiet
<1>3. stdin'[p] = <<t>>
  <2>1. Append(<<>>, t) = <<t>>
    OBVIOUS
  <2> QED BY <1>1, <1>2, <2>1 DEF TypeOK
<1>4. Pipe(p)' = Pipe(p) /\ p' = p
  BY <1>1 DEF Pipe, Held
<1> QED BY <1>1, <1>2, <1>3, <1>4 DEF Flow

\* Where the other steps of a turn lead to.
LEMMA TurnEnds ==
  ASSUME TypeOK, NEW t \in Turns,
         Reuse(t) \/ Restart(t) \/ StartFails(t) \/ TurnStep(t) \/ Cancel(t),
         ~Collect(t), ~Send(t)
  PROVE  /\ pc'[t] \in {"resetting", "collecting"} =>
              /\ pc[t] \in {"resetting", "collecting"}
              /\ Reset(t) \/ Cancel(t)
         /\ pc[t] \in Busy /\ pc'[t] \notin Busy =>
              \/ UNCHANGED alive /\ reader[proc[t]] \in {"closed", "ended"}
              \/ alive' = [alive EXCEPT ![proc[t]] = FALSE]
<1>0. pc \in [Turns -> Busy \cup {"idle", "over"}]
  BY DEF TypeOK
<1> USE <1>0 DEF Busy
<1>1. CASE Reuse(t) \/ Restart(t) \/ StartFails(t)
  BY <1>1 DEF Reuse, Restart, StartFails, Ready
<1>2. CASE SendFails(t)
  BY <1>2 DEF SendFails
<1>3. CASE Reset(t)
  BY <1>3 DEF Reset
<1>4. CASE CollectClosed(t)
  BY <1>4 DEF CollectClosed, sessionVars
<1>5. CASE CollectDone(t)
  BY <1>5 DEF CollectDone, sessionVars
<1>6. CASE CollectCancelled(t)
  BY <1>6 DEF CollectCancelled
<1>7. CASE Drain(t)
  BY <1>7 DEF Drain, turnVars
<1>8. CASE DrainEnds(t)
  BY <1>8 DEF DrainEnds, sessionVars
<1>9. CASE Cancel(t)
  BY <1>9 DEF Cancel
<1> QED BY <1>1, <1>2, <1>3, <1>4, <1>5, <1>6, <1>7, <1>8, <1>9 DEF TurnStep

\* Every answer stays on its way.
LEMMA NextFlows ==
  ASSUME TypeOK, HandsFull, PassedOn, OwnProcess, Unasked, Flows, Next
  PROVE  Flows'
<1>1. ASSUME NEW t \in Turns,
             Reuse(t) \/ Restart(t) \/ StartFails(t) \/ TurnStep(t) \/ Cancel(t)
      PROVE  Flows'
  <2> SUFFICES ASSUME NEW u \in Turns, pc'[u] \in {"resetting", "collecting"} PROVE Flow(u)'
    BY DEF Flows
  <2>1. CASE u # t
    <3>1. pc'[u] = pc[u] /\ proc'[u] = proc[u] /\ answer'[u] = answer[u]
      BY <1>1, <2>1, TurnFrame
    <3>2. Flow(u) /\ pc[u] \in Busy
      BY <3>1 DEF Flows, Busy
    <3>3. proc[u] \in Turns /\ (pc[t] \in Busy => proc[t] # proc[u])
      BY <2>1, <3>2, Apart
    <3>4. pc[t] = "idle" \/ pc[t] \in Busy
      BY <1>1, TurnMoves
    <3>5. Same(proc[u])
      BY <1>1, <3>3, <3>4, TurnFrame
    <3> QED BY <3>1, <3>2, <3>5, FlowStays
  <2>2. CASE u = t /\ Collect(t)
    BY <2>2, CollectsFlow
  <2>3. CASE u = t /\ Send(t)
    BY <2>3, SendFlow
  <2>4. CASE u = t /\ ~Collect(t) /\ ~Send(t)
    <3>1. Flow(t) /\ (Reset(t) \/ Cancel(t))
      BY <1>1, <2>4, TurnEnds DEF Flows
    <3>2. UNCHANGED <<proc, answer, events, reader, holding, stdin, stdout, saying>>
      BY <3>1 DEF Reset, Cancel, sessionVars, claudeVars
    <3>3. Same(proc[t])
      BY <3>2 DEF Same, Pipe, Held
    <3> QED BY <2>4, <3>1, <3>2, <3>3, FlowStays
  <2> QED BY <2>1, <2>2, <2>3, <2>4
<1>2. ASSUME UNCHANGED <<pc, proc, answer>>,
             \A q \in Turns : Same(q) \/ Asked(q) \/ Dropped(q)
      PROVE  Flows'
  <2> SUFFICES ASSUME NEW u \in Turns, pc'[u] \in {"resetting", "collecting"} PROVE Flow(u)'
    BY DEF Flows
  <2>1. Flow(u) /\ proc[u] \in Turns
    BY <1>2 DEF Flows, HandsFull, Busy
  <2> QED BY <1>2, <2>1, FlowStays
<1>3. ASSUME NEW p \in Turns,
             ReaderStep(p) \/ ReadPrompt(p) \/ Say(p) \/ LeaveChild(p) \/ Die(p)
      PROVE  Flows'
  BY <1>2, <1>3, ProcessPipe, OtherFrame
<1>4. ASSUME (\E s \in Sessions : RemoveSession(s)) \/ Reap \/ Stop PROVE Flows'
  BY <1>2, <1>4, RestSame, OtherFrame
<1> QED BY <1>1, <1>3, <1>4 DEF Next

\* A process that can be used again is quiet once no turn works with it.
LEMMA NextLeft ==
  ASSUME TypeOK, HandsFull, PassedOn, OwnProcess, EndIsKnown, Unasked, Flows, LeftQuiet, Next
  PROVE  LeftQuiet'
<1> SUFFICES ASSUME NEW p \in Turns, alive'[p],
                    \A t \in Turns : proc'[t] = p => pc'[t] \notin Busy
             PROVE  Quiet(p)'
  BY DEF LeftQuiet
<1>1. CASE alive[p] /\ \A t \in Turns : proc[t] = p => pc[t] \notin Busy
  <2>1. Quiet(p)
    BY <1>1 DEF LeftQuiet
  <2>2. \A v \in Turns : Send(v) => proc[v] # p
    BY <1>1 DEF Send, Busy
  <2> QED BY <2>1, <2>2, QuietStays
<1>2. ASSUME ~alive[p] PROVE FALSE
  <2>1. PICK t \in Turns : Reuse(t) \/ Restart(t) \/ StartFails(t) \/ TurnStep(t) \/ Cancel(t)
    BY <1>2, OtherFrame DEF Next
  <2>2. CASE Restart(t)
    <3>1. p = t /\ proc'[t] = t /\ pc'[t] \in Busy
      BY <1>2, <2>2 DEF Restart, TypeOK, Busy
    <3> QED BY <3>1
  <2>3. CASE SendFails(t)
    BY <1>2, <2>3 DEF SendFails, TypeOK
  <2>4. CASE ~Restart(t) /\ ~SendFails(t)
    <3>1. alive' = alive
      BY <2>1, <2>4
      DEF Reuse, StartFails, TurnStep, Send, Reset, Collect, CollectClosed, CollectDone,
          CollectCancelled, Drain, DrainEnds, Cancel, sessionVars
    <3> QED BY <1>2, <3>1
  <2> QED BY <2>2, <2>3, <2>4
<1>3. ASSUME NEW t \in Turns, proc[t] = p, pc[t] \in Busy PROVE Quiet(p)'
  <2>1. ~(pc'[t] = pc[t] /\ proc'[t] = proc[t])
    BY <1>3
  <2>2. PICK v \in Turns : Reuse(v) \/ Restart(v) \/ StartFails(v) \/ TurnStep(v) \/ Cancel(v)
    BY <2>1, OtherFrame DEF Next
  <2>3. v = t
    BY <2>1, <2>2, TurnFrame
  <2>4. proc'[t] = p
    BY <1>3, <2>2, <2>3, TurnMoves DEF Busy
  <2>5. pc'[t] \notin Busy
    BY <2>4
  <2>6. CASE Collect(t)
    <3>1. Quiet(proc[t])'
      BY <2>5, <2>6, CollectsFlow DEF Busy
    <3> QED BY <2>4, <3>1 DEF Quiet, Pipe, Held
  <2>7. CASE ~Collect(t)
    <3>1. ~Send(t)
      BY <2>5 DEF Send, TypeOK, Busy
    <3>2. \/ UNCHANGED alive /\ reader[p] \in {"closed", "ended"}
          \/ alive' = [alive EXCEPT ![p] = FALSE]
      BY <1>3, <2>2, <2>3, <2>5, <2>7, <3>1, TurnEnds
    <3> QED BY <3>2 DEF EndIsKnown, TypeOK
  <2> QED BY <2>6, <2>7
<1> QED BY <1>1, <1>2, <1>3

\* A turn that was answered has its answer.
LEMMA NextAnswer ==
  ASSUME TypeOK, HandsFull, PassedOn, Unasked, Flows, AnswerIsOwn, Next
  PROVE  AnswerIsOwn'
<1>1. ASSUME NEW t \in Turns,
             Reuse(t) \/ Restart(t) \/ StartFails(t) \/ TurnStep(t) \/ Cancel(t)
      PROVE  AnswerIsOwn'
  <2>1. ASSUME NEW u \in Turns, u # t, outcome'[u] = "result"
        PROVE  answer'[u] = {Line("text", u), Line("result", u)}
    BY <1>1, <2>1, TurnFrame DEF AnswerIsOwn
  <2>2. ASSUME outcome'[t] = "result"
        PROVE  answer'[t] = {Line("text", t), Line("result", t)}
    <3>1. outcome[t] # "result"
      BY <1>1, TurnMoves DEF Unasked
    <3>2. Collect(t) /\ pc'[t] = "over"
      BY <1>1, <2>2, <3>1, TurnResult
    <3> QED BY <3>2, CollectsFlow
  <2> QED BY <2>1, <2>2 DEF AnswerIsOwn
<1> QED BY <1>1, OtherFrame DEF Next, AnswerIsOwn

\* At the start nothing was asked and nothing is on its way.
LEMMA InitAnswer == Init => AnswerInv
<1> SUFFICES ASSUME Init PROVE AnswerInv
  OBVIOUS
<1>1. PassedOn /\ EndIsKnown
  BY DEF Init, PassedOn, EndIsKnown
<1>2. OwnProcess
  BY DEF Init, OwnProcess, Busy
<1>3. ASSUME NEW p \in Turns PROVE Quiet(p)
  <2>1. stdin[p] = <<>> /\ events[p] = <<>> /\ Held(p) = <<>> /\ stdout[p] = <<>> /\ saying[p] = <<>>
    BY DEF Init, Held
  <2>2. <<>> \o (<<>> \o (<<>> \o <<>>)) = <<>>
    OBVIOUS
  <2> QED BY <2>1, <2>2 DEF Quiet, Pipe
<1>4. Unasked
  BY <1>3, NoneAssumption DEF Init, Unasked
<1>5. Flows /\ LeftQuiet /\ AnswerIsOwn
  BY NoneAssumption DEF Init, Flows, LeftQuiet, AnswerIsOwn
<1> QED BY <1>1, <1>2, <1>4, <1>5 DEF AnswerInv

\* What a turn has and what is still on its way to it make up the answer to its own
\* prompt, and a process that may be used again has nothing left to say: the
\* inductive invariant that the next theorem rests on.
THEOREM AnswerInvariant == Spec => []AnswerInv
<1>1. ProcessInv /\ AnswerInv /\ [Next]_vars => AnswerInv'
  <2> SUFFICES ASSUME ProcessInv, AnswerInv, [Next]_vars PROVE AnswerInv'
    OBVIOUS
  <2>0. TypeOK /\ HandsFull
    BY DEF ProcessInv
  <2>1. /\ PassedOn /\ OwnProcess /\ EndIsKnown /\ Unasked /\ Flows /\ LeftQuiet /\ AnswerIsOwn
    BY DEF AnswerInv
  <2>2. CASE UNCHANGED vars
    <3> USE <2>2 DEF vars, turnVars, executor, sessionVars, claudeVars
    <3>1. PassedOn' /\ OwnProcess' /\ EndIsKnown'
      BY <2>1 DEF PassedOn, OwnProcess, EndIsKnown
    <3>2. Unasked' /\ Flows'
      BY <2>1 DEF Unasked, Flows, Flow, Quiet, Pipe, Held
    <3>3. LeftQuiet' /\ AnswerIsOwn'
      BY <2>1 DEF LeftQuiet, AnswerIsOwn, Quiet, Pipe, Held
    <3> QED BY <3>1, <3>2, <3>3 DEF AnswerInv
  <2>3. CASE Next
    <3>1. PassedOn' /\ OwnProcess' /\ EndIsKnown'
      BY <2>0, <2>1, <2>3, NextPassed, NextOwn, NextEnd
    <3>2. Unasked' /\ Flows'
      BY <2>0, <2>1, <2>3, NextUnasked, NextFlows
    <3>3. LeftQuiet' /\ AnswerIsOwn'
      BY <2>0, <2>1, <2>3, NextLeft, NextAnswer
    <3> QED BY <3>1, <3>2, <3>3 DEF AnswerInv
  <2> QED BY <2>2, <2>3
<1> QED BY <1>1, InitAnswer, ProcessInvariant, PTL DEF Spec

\* collectResult: a turn that returns at a result returns its own answer and all of it,
\* whatever was cancelled, cut off, restarted or reaped before it.
THEOREM AnswersAreOwn == Spec => []AnswerIsOwn
<1>1. AnswerInv => AnswerIsOwn
  BY DEF AnswerInv
<1> QED BY <1>1, AnswerInvariant, PTL

-----------------------------------------------------------------------------
(* The conversation of a session *)

\* What claude has read stays in the conversation.
LEMMA ConversationGrows ==
  ASSUME TypeOK, Next
  PROVE  \A i \in Turns : transcript[i] \subseteq transcript'[i]
<1>1. ASSUME NEW t \in Turns,
             Reuse(t) \/ Restart(t) \/ StartFails(t) \/ TurnStep(t) \/ Cancel(t)
      PROVE  transcript' = transcript
  BY <1>1
  DEF Reuse, Restart, StartFails, TurnStep, Send, SendFails, Reset, Collect, CollectClosed,
      CollectDone, CollectCancelled, Drain, DrainEnds, Cancel, claudeVars
<1>2. ASSUME NEW p \in Turns, ReaderStep(p) \/ Say(p) \/ LeaveChild(p) \/ Die(p)
      PROVE  transcript' = transcript
  BY <1>2
  DEF ReaderStep, Scan, Emit, ReadEnds, CloseEvents, CloseDone, Say, LeaveChild, Die, claudeVars
<1>3. ASSUME NEW p \in Turns, ReadPrompt(p)
      PROVE  \A i \in Turns : transcript[i] \subseteq transcript'[i]
  BY <1>3 DEF ReadPrompt, TypeOK
<1>4. ASSUME (\E s \in Sessions : RemoveSession(s)) \/ Reap \/ Stop
      PROVE  transcript' = transcript
  BY <1>4 DEF RemoveSession, Reap, Stop
<1> QED BY <1>1, <1>2, <1>3, <1>4 DEF Next

\* What a turn does to the conversations and to what is known of them.
LEMMA TurnKeeps ==
  ASSUME TypeOK, NEW t \in Turns,
         Reuse(t) \/ Restart(t) \/ StartFails(t) \/ TurnStep(t) \/ Cancel(t)
  PROVE  /\ \A p \in Turns : p # t \/ ~Restart(t) =>
              conversation'[p] = conversation[p] /\ claudeID'[p] = claudeID[p]
         /\ stored' = stored \/ ((Collect(t) \/ CollectDone(t)) /\ stored' = StoredAfter(t))
         /\ ~Restart(t) /\ ~StartFails(t) => sessions' = sessions
<1>1. CASE Restart(t)
  BY <1>1 DEF Restart, TypeOK
<1>2. CASE Collect(t)
  BY <1>2 DEF Collect, claudeVars
<1>3. CASE CollectDone(t)
  BY <1>3 DEF CollectDone, sessionVars, claudeVars
<1>4. CASE ~Restart(t) /\ ~Collect(t) /\ ~CollectDone(t)
  <2>1. UNCHANGED <<conversation, claudeID, stored>> /\ (~StartFails(t) => sessions' = sessions)
    BY <1>4
    DEF Reuse, StartFails, TurnStep, Send, SendFails, Reset, CollectClosed,
        CollectCancelled, Drain, DrainEnds, Cancel, executor, sessionVars, claudeVars
  <2> QED BY <2>1
<1> QED BY <1>1, <1>2, <1>3, <1>4

\* The other steps only make a conversation known.
LEMMA OthersKeep ==
  ASSUME TypeOK,
         \/ \E p \in Turns : ReaderStep(p) \/ ReadPrompt(p) \/ Say(p) \/ LeaveChild(p) \/ Die(p)
         \/ \E s \in Sessions : RemoveSession(s)
         \/ Reap \/ Stop
  PROVE  /\ UNCHANGED <<stored, conversation>>
         /\ \A p \in Turns : claudeID'[p] \in {claudeID[p], conversation[p]}
<1>1. ASSUME NEW p \in Turns, ReaderStep(p)
      PROVE  /\ UNCHANGED <<stored, conversation>>
             /\ \A q \in Turns : claudeID'[q] \in {claudeID[q], conversation[q]}
  BY <1>1
  DEF ReaderStep, Scan, Emit, ReadEnds, CloseEvents, CloseDone, TypeOK, executor, claudeVars
<1>2. ASSUME NEW p \in Turns, ReadPrompt(p) \/ Say(p) \/ LeaveChild(p) \/ Die(p)
      PROVE  UNCHANGED <<stored, conversation, claudeID>>
  BY <1>2 DEF ReadPrompt, Say, LeaveChild, Die, executor, sessionVars
<1>3. ASSUME (\E s \in Sessions : RemoveSession(s)) \/ Reap \/ Stop
      PROVE  UNCHANGED <<stored, conversation, claudeID>>
  BY <1>3 DEF RemoveSession, Reap, Stop, sessionVars
<1> QED BY <1>1, <1>2, <1>3

\* A process goes on with the conversation of a session while no turn of the session
\* is answered.
LEMMA KeptOn ==
  ASSUME NEW p \in Turns, NEW s \in Sessions, CarriesOn(p, s),
         Answered(s)' = Answered(s), conversation'[p] = conversation[p],
         claudeID'[p] \in {claudeID[p], conversation[p]},
         \A i \in Turns : transcript[i] \subseteq transcript'[i]
  PROVE  CarriesOn(p, s)'
<1>1. conversation[p] # None
  BY ConstantFacts DEF CarriesOn
<1> QED BY <1>1 DEF CarriesOn

\* A turn is answered by Collect, when its prompt is in the conversation of its process
\* and the executor knows which that is.
LEMMA NewAnswer ==
  ASSUME TypeOK, HandsFull, PassedOn, OwnProcess, Unasked, Flows, PromptIsKept, KnowsItself,
         NEW t \in Turns,
         Reuse(t) \/ Restart(t) \/ StartFails(t) \/ TurnStep(t) \/ Cancel(t)
  PROVE  \/ \A s \in Sessions : Answered(s)' = Answered(s)
         \/ /\ Collect(t) /\ pc'[t] = "over" /\ pc[t] = "collecting" /\ proc[t] \in Turns
            /\ Answered(SessionOf[t])' = Answered(SessionOf[t]) \cup {t}
            /\ \A s \in Sessions : s # SessionOf[t] => Answered(s)' = Answered(s)
            /\ stored' = StoredAfter(t)
            /\ t \in transcript[conversation[proc[t]]]
            /\ claudeID[proc[t]] # None /\ claudeID[proc[t]] = conversation[proc[t]]
<1>1. /\ \A u \in Turns : u # t => outcome'[u] = outcome[u]
      /\ outcome[t] # "result"
      /\ outcome'[t] = "result" => Collect(t) /\ pc'[t] = "over"
  <2>1. outcome[t] # "result"
    BY TurnMoves DEF Unasked
  <2> QED BY <2>1, TurnFrame, TurnResult
<1>2. CASE outcome'[t] # "result"
  BY <1>1, <1>2 DEF Answered
<1>3. CASE outcome'[t] = "result"
  <2>1. /\ Collect(t) /\ pc'[t] = "over" /\ pc[t] = "collecting" /\ proc[t] \in Turns
    BY <1>1, <1>3 DEF Collect, HandsFull, Busy
  <2>2. /\ Answered(SessionOf[t])' = Answered(SessionOf[t]) \cup {t}
        /\ \A s \in Sessions : s # SessionOf[t] => Answered(s)' = Answered(s)
    BY <1>1, <1>3 DEF Answered
  <2>3. stored' = StoredAfter(t)
    BY <2>1 DEF Collect, TypeOK
  <2>4. stdin[proc[t]] = <<>> /\ Pipe(proc[t]) # Answer(t)
    <3>1. Flow(t)
      BY <2>1 DEF Flows
    <3>2. Pipe(proc[t]) # <<>>
      BY <2>1, PipeEmpty DEF Collect
    <3>3. Pipe(proc[t]) # Answer(t)
      <4>1. Head(Pipe(proc[t])) = Head(events[proc[t]])
        BY <2>1, PipeHead DEF Collect
      <4>2. events[proc[t]][1] = Head(events[proc[t]]) /\ 1 \in 1 .. Len(events[proc[t]])
        BY <2>1, PipeParts DEF Collect
      <4>3. Head(events[proc[t]]).kind # "system"
        BY <2>1, <4>2 DEF PassedOn
      <4>4. Head(Answer(t)).kind = "system"
        BY DEF Answer, Line
      <4> QED BY <4>1, <4>3, <4>4
    <3> QED BY <3>1, <3>2, <3>3 DEF Flow
  <2>5. t \in transcript[conversation[proc[t]]] /\ claudeID[proc[t]] # None
    BY <2>1, <2>4 DEF PromptIsKept
  <2>6. claudeID[proc[t]] = conversation[proc[t]]
    BY <2>1, <2>5 DEF KnowsItself
  <2> QED BY <2>1, <2>2, <2>3, <2>5, <2>6
<1> QED BY <1>2, <1>3

\* Where the process that a turn starts takes its conversation from.
LEMMA ResumesOwn ==
  ASSUME TypeOK, UsedCarryOn, StoredCarriesOn, KnowsItself, NEW t \in Turns, Restart(t)
  PROVE  /\ conversation'[t] \in Turns /\ claudeID'[t] \in {None, conversation'[t]}
         /\ Answered(SessionOf[t]) \subseteq transcript[conversation'[t]]
         /\ Answered(SessionOf[t]) # {} => claudeID'[t] # None
<1> DEFINE s == SessionOf[t]  r == ResumeID(s)
<1>1. /\ conversation'[t] = IF r = None THEN t ELSE r
      /\ claudeID'[t] = r
  BY DEF Restart, TypeOK
<1>2. s \in Sessions
  BY ConstantFacts
<1>3. /\ r = None \/ (r \in Turns /\ Answered(s) \subseteq transcript[r])
      /\ Answered(s) # {} => r # None
  <2>1. CASE sessions[s] # None
    <3> DEFINE p == sessions[s]
    <3>1. p \in Turns /\ CarriesOn(p, s) /\ r = claudeID[p]
      BY <1>2, <2>1 DEF UsedCarryOn, ResumeID, TypeOK
    <3>2. claudeID[p] \in {None, conversation[p]}
      BY <3>1 DEF KnowsItself
    <3> HIDE DEF p, r
    <3> QED BY <3>1, <3>2 DEF CarriesOn
  <2>2. CASE sessions[s] = None
    <3>1. r = stored[s] /\ stored[s] \in Turns \cup {None}
      BY <1>2, <2>2 DEF ResumeID, TypeOK
    <3> QED BY <1>2, <3>1 DEF StoredCarriesOn
  <2> QED BY <2>1, <2>2
<1> HIDE DEF r
<1> QED BY <1>1, <1>3

\* The processes that are used carry on the conversations of their sessions.
LEMMA NextUsed ==
  ASSUME TypeOK, HandsFull, PassedOn, OwnProcess, Unasked, Flows, KeepInv, Next
  PROVE  UsedCarryOn'
<1>0. /\ UsedCarryOn /\ StoredCarriesOn /\ KnowsItself /\ PromptIsKept
      /\ \A i \in Turns : transcript[i] \subseteq transcript'[i]
  BY ConversationGrows DEF KeepInv
<1>1. ASSUME UNCHANGED <<pc, proc, outcome, stored, conversation>>,
             \A p \in Turns : claudeID'[p] \in {claudeID[p], conversation[p]},
             \A s \in Sessions : sessions'[s] = sessions[s] \/ sessions'[s] = None
      PROVE  UsedCarryOn'
  <2>1. \A s \in Sessions : Answered(s)' = Answered(s)
    BY <1>1 DEF Answered
  <2>2. ASSUME NEW s \in Sessions, sessions'[s] # None PROVE CarriesOn(sessions[s], s)'
    <3>1. PICK p \in Turns : p = sessions[s] /\ p = sessions'[s] /\ CarriesOn(p, s)
      BY <1>0, <1>1, <2>2 DEF UsedCarryOn, TypeOK
    <3>2. CarriesOn(p, s)'
      BY <1>0, <1>1, <2>1, <3>1, KeptOn
    <3> QED BY <3>1, <3>2 DEF CarriesOn
  <2>3. ASSUME NEW t \in Turns, pc'[t] \in Busy
        PROVE  CarriesOn(proc[t], SessionOf[t])' /\ sessions'[SessionOf[t]] \in {None, proc'[t]}
    <3>1. SessionOf[t] \in Sessions
      BY ConstantFacts
    <3>2. PICK p \in Turns : p = proc[t] /\ p = proc'[t] /\ CarriesOn(p, SessionOf[t])
      BY <1>0, <1>1, <2>3 DEF UsedCarryOn, HandsFull
    <3>3. CarriesOn(p, SessionOf[t])'
      BY <1>0, <1>1, <2>1, <3>1, <3>2, KeptOn
    <3>4. sessions[SessionOf[t]] \in {None, proc[t]}
      BY <1>0, <1>1, <2>3 DEF UsedCarryOn
    <3> QED BY <1>1, <3>1, <3>2, <3>3, <3>4 DEF CarriesOn
  <2> QED BY <2>2, <2>3 DEF UsedCarryOn
<1>2. ASSUME NEW t \in Turns,
             Reuse(t) \/ Restart(t) \/ StartFails(t) \/ TurnStep(t) \/ Cancel(t)
      PROVE  UsedCarryOn'
  <2>0. /\ SessionOf[t] \in Sessions
        /\ \A u \in Turns : u # t => pc'[u] = pc[u] /\ proc'[u] = proc[u]
        /\ pc[t] # "idle" => pc[t] \in Busy /\ proc'[t] = proc[t]
    BY <1>2, ConstantFacts, TurnFrame, TurnMoves
  <2>1. ASSUME NEW u \in Turns, u # t, pc'[u] \in Busy
        PROVE  /\ SessionOf[u] # SessionOf[t] /\ SessionOf[u] \in Sessions
               /\ proc[u] \in Turns /\ CarriesOn(proc[u], SessionOf[u])
               /\ sessions[SessionOf[u]] \in {None, proc[u]}
               /\ pc[t] = "idle" => proc[u] # t
    <3>1. pc[u] \in Busy
      BY <2>0, <2>1
    <3>2. SessionOf[u] # SessionOf[t]
      <4>1. CASE pc[t] = "idle"
        BY <1>2, <3>1, <4>1, IdleReady DEF Ready
      <4>2. CASE pc[t] # "idle"
        BY <2>0, <2>1, <3>1, <4>2 DEF OwnProcess
      <4> QED BY <4>1, <4>2
    <3>3. proc[u] \in Turns /\ pc[proc[u]] # "idle"
      BY <3>1, Apart
    <3> QED BY <1>0, <3>1, <3>2, <3>3, ConstantFacts DEF UsedCarryOn
  <2>2. \A p \in Turns : p # t \/ ~Restart(t) =>
          conversation'[p] = conversation[p] /\ claudeID'[p] = claudeID[p]
    BY <1>2, TurnKeeps
  <2>3. ASSUME NEW p \in Turns, NEW s \in Sessions, CarriesOn(p, s), p # t \/ ~Restart(t),
               Answered(s)' = Answered(s)
        PROVE  CarriesOn(p, s)'
    BY <1>0, <2>2, <2>3, KeptOn
  <2>4. Restart(t) => pc[t] = "idle" /\ \A s \in Sessions : sessions[s] # t
    BY ConstantFacts DEF Restart, Ready, OwnProcess
  <2>5. CASE /\ pc'[t] = "over" /\ sessions' = sessions /\ pc[t] = "collecting"
             /\ proc[t] \in Turns
             /\ Answered(SessionOf[t])' = Answered(SessionOf[t]) \cup {t}
             /\ \A s \in Sessions : s # SessionOf[t] => Answered(s)' = Answered(s)
             /\ t \in transcript[conversation[proc[t]]]
             /\ claudeID[proc[t]] # None
    <3>0. ~Restart(t)
      BY <2>4, <2>5
    <3>1. ASSUME NEW s \in Sessions, sessions[s] # None PROVE CarriesOn(sessions[s], s)'
      <4>1. PICK p \in Turns : p = sessions[s] /\ p = sessions'[s] /\ CarriesOn(p, s)
        BY <1>0, <2>5, <3>1 DEF UsedCarryOn, TypeOK
      <4>2. CASE s # SessionOf[t]
        <5>1. CarriesOn(p, s)'
          BY <2>3, <2>5, <3>0, <4>1, <4>2
        <5> QED BY <4>1, <5>1 DEF CarriesOn
      <4>3. CASE s = SessionOf[t]
        <5>1. p = proc[t]
          BY <1>0, <2>0, <2>5, <3>1, <4>1, <4>3 DEF UsedCarryOn
        <5>2. conversation'[p] = conversation[p] /\ claudeID'[p] = claudeID[p]
          BY <2>2, <3>0
        <5>3. CarriesOn(p, s)'
          BY <1>0, <2>5, <4>1, <4>3, <5>1, <5>2 DEF CarriesOn
        <5> QED BY <4>1, <5>3 DEF CarriesOn
      <4> QED BY <4>2, <4>3
    <3>2. ASSUME NEW u \in Turns, pc'[u] \in Busy
          PROVE  CarriesOn(proc[u], SessionOf[u])' /\ sessions'[SessionOf[u]] \in {None, proc'[u]}
      <4>1. u # t
        BY <2>5, <3>2 DEF Busy
      <4>2. PICK p \in Turns : p = proc[u] /\ p = proc'[u]
        BY <2>0, <2>1, <3>2, <4>1
      <4>3. CarriesOn(p, SessionOf[u])'
        BY <2>1, <2>3, <2>5, <3>0, <3>2, <4>1, <4>2
      <4> QED BY <2>1, <2>5, <3>2, <4>1, <4>2, <4>3 DEF CarriesOn
    <3> QED BY <2>5, <3>1, <3>2 DEF UsedCarryOn
  <2>6. CASE \A s \in Sessions : Answered(s)' = Answered(s)
    <3>1. ASSUME Restart(t) PROVE CarriesOn(t, SessionOf[t])'
      <4>1. Answered(SessionOf[t])' = Answered(SessionOf[t])
        BY <2>0, <2>6
      <4> QED BY <1>0, <3>1, <4>1, ResumesOwn DEF CarriesOn
    <3>2. ASSUME NEW s \in Sessions, sessions'[s] # None PROVE CarriesOn(sessions[s], s)'
      <4>1. CASE sessions'[s] = sessions[s]
        <5>1. PICK p \in Turns : p = sessions[s] /\ p = sessions'[s] /\ CarriesOn(p, s)
          BY <1>0, <3>2, <4>1 DEF UsedCarryOn, TypeOK
        <5>2. CarriesOn(p, s)'
          BY <2>3, <2>4, <2>6, <5>1
        <5> QED BY <5>1, <5>2 DEF CarriesOn
      <4>2. CASE sessions'[s] # sessions[s]
        <5>1. s = SessionOf[t] /\ sessions'[s] = t
          BY <1>2, <3>2, <4>2, TurnMoves
        <5>2. Restart(t)
          BY <1>2, <3>2, <4>2, <5>1, TurnKeeps DEF StartFails, TypeOK
        <5> QED BY <3>1, <5>1, <5>2 DEF CarriesOn
      <4> QED BY <4>1, <4>2
    <3>3. ASSUME NEW u \in Turns, pc'[u] \in Busy
          PROVE  CarriesOn(proc[u], SessionOf[u])' /\ sessions'[SessionOf[u]] \in {None, proc'[u]}
      <4>1. CASE u # t
        <5>1. PICK p \in Turns : p = proc[u] /\ p = proc'[u]
          BY <2>0, <2>1, <3>3, <4>1
        <5>2. CarriesOn(p, SessionOf[u])'
          BY <2>1, <2>3, <2>4, <2>6, <3>3, <4>1, <5>1
        <5>3. sessions'[SessionOf[u]] \in {sessions[SessionOf[u]], None}
          BY <1>2, <2>1, <3>3, <4>1, TurnMoves
        <5> QED BY <2>1, <3>3, <4>1, <5>1, <5>2, <5>3 DEF CarriesOn
      <4>2. CASE u = t /\ Restart(t)
        <5>1. proc'[t] = t /\ sessions'[SessionOf[t]] = t
          BY <2>0, <4>2 DEF Restart, TypeOK
        <5> QED BY <3>1, <4>2, <5>1 DEF CarriesOn
      <4>3. CASE u = t /\ Reuse(t)
        <5>1. proc'[t] = sessions[SessionOf[t]] /\ sessions' = sessions
              /\ sessions[SessionOf[t]] # None
          BY <4>3 DEF Reuse, Healthy, executor, TypeOK
        <5>2. CarriesOn(sessions[SessionOf[t]], SessionOf[t])'
          BY <2>0, <3>2, <5>1
        <5> QED BY <4>3, <5>1, <5>2 DEF CarriesOn
      <4>4. CASE u = t /\ ~Restart(t) /\ ~Reuse(t)
        <5>0. ~StartFails(t)
          BY <3>3, <4>4 DEF StartFails, TypeOK, Busy
        <5>1. pc[t] \in Busy
          BY <1>2, <2>0, <4>4, <5>0, IdleReady
        <5>2. sessions' = sessions
          BY <1>2, <4>4, <5>0, TurnKeeps
        <5>3. PICK p \in Turns : p = proc[t] /\ p = proc'[t]
          BY <2>0, <5>1 DEF HandsFull, Busy
        <5>4. CarriesOn(p, SessionOf[t]) /\ sessions[SessionOf[t]] \in {None, p}
          BY <1>0, <5>1, <5>3 DEF UsedCarryOn
        <5>5. CarriesOn(p, SessionOf[t])'
          BY <2>0, <2>3, <2>6, <4>4, <5>4
        <5> QED BY <4>4, <5>2, <5>3, <5>4, <5>5 DEF CarriesOn
      <4> QED BY <4>1, <4>2, <4>3, <4>4
    <3> QED BY <3>2, <3>3 DEF UsedCarryOn
  <2>7. Collect(t) => sessions' = sessions
    BY DEF Collect
  <2> QED BY <1>0, <1>2, <2>5, <2>6, <2>7, NewAnswer
<1> QED BY <1>1, <1>2, OtherFrame, OthersKeep DEF Next

\* The database names the conversation of a session once a turn of it was answered.
LEMMA NextStored ==
  ASSUME TypeOK, HandsFull, PassedOn, OwnProcess, Unasked, Flows, KeepInv, Next
  PROVE  StoredCarriesOn'
<1>0. /\ UsedCarryOn /\ StoredCarriesOn /\ KnowsItself /\ PromptIsKept
      /\ \A i \in Turns : transcript[i] \subseteq transcript'[i]
  BY ConversationGrows DEF KeepInv
<1>1. ASSUME NEW s \in Sessions, stored'[s] = stored[s], Answered(s)' = Answered(s)
      PROVE  Answered(s)' # {} => stored'[s] # None /\ Answered(s)' \subseteq transcript'[stored'[s]]
  <2>1. Answered(s) # {} => stored[s] \in Turns /\ Answered(s) \subseteq transcript[stored[s]]
    BY <1>0 DEF StoredCarriesOn, TypeOK
  <2> QED BY <1>0, <1>1, <2>1, ConstantFacts
<1>2. ASSUME UNCHANGED <<outcome, stored>> PROVE StoredCarriesOn'
  <2>1. \A s \in Sessions : Answered(s)' = Answered(s)
    BY <1>2 DEF Answered
  <2> QED BY <1>1, <1>2, <2>1 DEF StoredCarriesOn
<1>3. ASSUME NEW t \in Turns,
             Reuse(t) \/ Restart(t) \/ StartFails(t) \/ TurnStep(t) \/ Cancel(t)
      PROVE  StoredCarriesOn'
  <2>0. SessionOf[t] \in Sessions /\ stored \in [Sessions -> Turns \cup {None}]
    BY ConstantFacts DEF TypeOK
  <2>1. ASSUME Collect(t) \/ CollectDone(t)
        PROVE  proc[t] \in Turns /\ CarriesOn(proc[t], SessionOf[t])
    <3>1. pc[t] \in Busy
      BY <2>1 DEF Collect, CollectDone, Busy
    <3> QED BY <1>0, <3>1 DEF UsedCarryOn, HandsFull
  <2>2. CASE /\ Collect(t) /\ proc[t] \in Turns /\ stored' = StoredAfter(t)
             /\ Answered(SessionOf[t])' = Answered(SessionOf[t]) \cup {t}
             /\ \A s \in Sessions : s # SessionOf[t] => Answered(s)' = Answered(s)
             /\ t \in transcript[conversation[proc[t]]]
             /\ claudeID[proc[t]] # None /\ claudeID[proc[t]] = conversation[proc[t]]
    <3>1. stored'[SessionOf[t]] = conversation[proc[t]]
          /\ \A s \in Sessions : s # SessionOf[t] => stored'[s] = stored[s]
      BY <2>0, <2>2 DEF StoredAfter
    <3>2. Answered(SessionOf[t])' \subseteq transcript'[conversation[proc[t]]]
      BY <1>0, <2>1, <2>2 DEF CarriesOn
    <3>3. ASSUME NEW s \in Sessions, Answered(s)' # {}
          PROVE  stored'[s] # None /\ Answered(s)' \subseteq transcript'[stored'[s]]
      <4>1. CASE s = SessionOf[t]
        BY <2>2, <3>1, <3>2, <4>1
      <4>2. CASE s # SessionOf[t]
        BY <1>1, <2>2, <3>1, <3>3, <4>2
      <4> QED BY <4>1, <4>2
    <3> QED BY <3>3 DEF StoredCarriesOn
  <2>3. CASE \A s \in Sessions : Answered(s)' = Answered(s)
    <3>1. CASE stored' = stored
      BY <1>1, <2>3, <3>1 DEF StoredCarriesOn
    <3>2. CASE (Collect(t) \/ CollectDone(t)) /\ stored' = StoredAfter(t)
      <4>1. \A s \in Sessions : stored'[s] = stored[s]
              \/ (s = SessionOf[t] /\ stored'[s] = claudeID[proc[t]] /\ claudeID[proc[t]] # None)
        BY <2>0, <3>2 DEF StoredAfter
      <4>2. proc[t] \in Turns /\ CarriesOn(proc[t], SessionOf[t])
        BY <2>1, <3>2
      <4>3. claudeID[proc[t]] # None => claudeID[proc[t]] = conversation[proc[t]]
        BY <1>0, <4>2 DEF KnowsItself
      <4>4. Answered(SessionOf[t])' \subseteq transcript'[conversation[proc[t]]]
        BY <1>0, <2>0, <2>3, <4>2 DEF CarriesOn
      <4>5. ASSUME NEW s \in Sessions, Answered(s)' # {}
            PROVE  stored'[s] # None /\ Answered(s)' \subseteq transcript'[stored'[s]]
        <5>1. CASE stored'[s] = stored[s]
          BY <1>1, <2>3, <4>5, <5>1
        <5>2. CASE s = SessionOf[t] /\ stored'[s] = claudeID[proc[t]] /\ claudeID[proc[t]] # None
          BY <4>3, <4>4, <5>2
        <5> QED BY <4>1, <5>1, <5>2
      <4> QED BY <4>5 DEF StoredCarriesOn
    <3> QED BY <1>3, <3>1, <3>2, TurnKeeps
  <2> QED BY <1>0, <1>3, <2>2, <2>3, NewAnswer
<1> QED BY <1>2, <1>3, OtherFrame, OthersKeep DEF Next

\* A process takes the id that claude gives.
LEMMA NextKnows ==
  ASSUME TypeOK, UsedCarryOn, StoredCarriesOn, KnowsItself, Next
  PROVE  KnowsItself'
<1>1. ASSUME NEW t \in Turns,
             Reuse(t) \/ Restart(t) \/ StartFails(t) \/ TurnStep(t) \/ Cancel(t)
      PROVE  KnowsItself'
  <2>1. \A p \in Turns : p # t \/ ~Restart(t) =>
          conversation'[p] = conversation[p] /\ claudeID'[p] = claudeID[p]
    BY <1>1, TurnKeeps
  <2>2. Restart(t) => claudeID'[t] \in {None, conversation'[t]}
    BY ResumesOwn
  <2> QED BY <2>1, <2>2 DEF KnowsItself
<1>2. ASSUME conversation' = conversation,
             \A p \in Turns : claudeID'[p] \in {claudeID[p], conversation[p]}
      PROVE  KnowsItself'
  BY <1>2 DEF KnowsItself
<1> QED BY <1>1, <1>2, OthersKeep DEF Next

\* A prompt that claude reads goes into its conversation.
LEMMA PromptMoves ==
  ASSUME TypeOK, HandsFull, NEW p \in Turns, conversation[p] \in Turns, Asked(p),
         ReaderStep(p) \/ ReadPrompt(p) \/ Say(p) \/ LeaveChild(p) \/ Die(p)
  PROVE  Head(stdin[p]) \in transcript'[conversation[p]]
<1>1. stdin'[p] # stdin[p]
  <2>1. \A q \in Seq(Turns) : q # <<>> => Tail(q) # q
    OBVIOUS
  <2> QED BY <2>1 DEF Asked, TypeOK
<1>2. ReadPrompt(p)
  BY <1>1
  DEF ReaderStep, Scan, Emit, ReadEnds, CloseEvents, CloseDone, Say, LeaveChild, Die, claudeVars
<1> QED BY <1>2 DEF ReadPrompt, TypeOK

\* A prompt that is read is kept, and its conversation known before its text arrives.
LEMMA NextPrompt ==
  ASSUME TypeOK, HandsFull, PassedOn, OwnProcess, Unasked, Flows, KeepInv, Next
  PROVE  PromptIsKept'
<1>0. /\ UsedCarryOn /\ KnowsItself /\ PromptIsKept
      /\ \A i \in Turns : transcript[i] \subseteq transcript'[i]
  BY ConversationGrows DEF KeepInv
<1>1. ASSUME NEW t \in Turns, pc[t] \in {"resetting", "collecting"}
      PROVE  /\ pc[t] \in Busy /\ proc[t] \in Turns /\ conversation[proc[t]] \in Turns
             /\ conversation[proc[t]] # None /\ Flow(t)
  BY <1>0, <1>1, ConstantFacts DEF UsedCarryOn, CarriesOn, HandsFull, Flows, Busy
<1>2. ASSUME NEW t \in Turns, NEW p \in Turns, p = proc[t], p = proc'[t],
             pc[t] \in {"resetting", "collecting"}, Same(p), stdin'[p] = <<>>,
             conversation'[p] = conversation[p], claudeID'[p] \in {claudeID[p], conversation[p]}
      PROVE  /\ t \in transcript'[conversation'[p]]
             /\ Pipe(p)' # Answer(t) => claudeID'[p] # None
  BY <1>0, <1>1, <1>2 DEF PromptIsKept, Same
<1>3. ASSUME NEW t \in Turns, pc'[t] \in {"resetting", "collecting"}, stdin'[proc'[t]] = <<>>
      PROVE  \E p \in Turns : /\ p = proc'[t] /\ t \in transcript'[conversation'[p]]
                              /\ Pipe(p)' # Answer(t) => claudeID'[p] # None
  <2>1. ASSUME NEW v \in Turns,
               Reuse(v) \/ Restart(v) \/ StartFails(v) \/ TurnStep(v) \/ Cancel(v)
        PROVE  \E p \in Turns : /\ p = proc'[t] /\ t \in transcript'[conversation'[p]]
                                /\ Pipe(p)' # Answer(t) => claudeID'[p] # None
    <3>1. CASE t # v
      <4>1. pc'[t] = pc[t] /\ proc'[t] = proc[t]
        BY <2>1, <3>1, TurnFrame
      <4>2. PICK p \in Turns : p = proc[t]
        BY <1>1, <1>3, <4>1
      <4>3. pc[v] = "idle" \/ p # proc[v]
        BY <1>1, <1>3, <2>1, <3>1, <4>1, <4>2, Apart, TurnMoves
      <4>4. Same(p)
        BY <2>1, <4>3, TurnFrame
      <4>5. p # v \/ ~Restart(v)
        BY <1>1, <1>3, <4>1, <4>2, Apart DEF Restart, Ready
      <4>6. conversation'[p] = conversation[p] /\ claudeID'[p] = claudeID[p]
        BY <2>1, <4>5, TurnKeeps
      <4> QED BY <1>2, <1>3, <4>1, <4>2, <4>4, <4>6
    <3>2. CASE t = v /\ Send(t)
      <4>1. proc'[t] = proc[t] /\ proc[t] \in Turns /\ stdin' = [stdin EXCEPT ![proc[t]] = Append(@, t)]
        BY <3>2 DEF Send, HandsFull, Busy
      <4>2. \A q \in Seq(Turns) : Append(q, t) # <<>>
        <5>1. \A q \in Seq(Turns) : Len(q) \in Nat /\ Len(Append(q, t)) = Len(q) + 1
          OBVIOUS
        <5>2. \A n \in Nat : n + 1 # 0
          OBVIOUS
        <5> QED BY <5>1, <5>2
      <4> QED BY <1>3, <4>1, <4>2 DEF TypeOK
    <3>3. CASE t = v /\ Collect(t)
      <4>1. pc[t] = "collecting" /\ proc'[t] = proc[t] /\ stdin' = stdin /\ events[proc[t]] # <<>>
        BY <3>3 DEF Collect, claudeVars
      <4>2. PICK p \in Turns : p = proc[t]
        BY <1>1, <4>1
      <4>3. Head(Pipe(p)) = Head(events[p]) /\ Head(events[p]).kind # "system"
        <5>1. events[p][1] = Head(events[p]) /\ 1 \in 1 .. Len(events[p])
          BY <4>1, <4>2, PipeParts
        <5> QED BY <4>1, <4>2, <5>1, PipeHead DEF PassedOn
      <4>4. Pipe(p) # Answer(t)
        BY <4>3 DEF Answer, Line
      <4>5. t \in transcript[conversation[p]] /\ claudeID[p] # None /\ conversation[p] \in Turns
        BY <1>0, <1>1, <1>3, <4>1, <4>2, <4>4 DEF PromptIsKept
      <4>6. ~Restart(v)
        BY <3>3, <4>1 DEF Restart, Ready
      <4>7. conversation'[p] = conversation[p] /\ claudeID'[p] = claudeID[p]
        BY <2>1, <4>6, TurnKeeps
      <4> QED BY <1>0, <4>1, <4>2, <4>5, <4>7
    <3>4. CASE t = v /\ ~Send(t) /\ ~Collect(t)
      <4>1. pc[t] \in {"resetting", "collecting"} /\ (Reset(t) \/ Cancel(t))
        BY <1>3, <2>1, <3>4, TurnEnds
      <4>2. /\ UNCHANGED <<proc, answer, events, reader, holding, stdin, stdout, saying>>
            /\ ~Restart(t)
        BY <4>1 DEF Reset, Cancel, sessionVars, claudeVars, Restart, Ready
      <4>3. PICK p \in Turns : p = proc[t]
        BY <1>1, <4>1
      <4>4. Same(p)
        BY <4>2 DEF Same, Pipe, Held
      <4>5. conversation'[p] = conversation[p] /\ claudeID'[p] = claudeID[p]
        BY <2>1, <3>4, <4>2, TurnKeeps
      <4> QED BY <1>2, <1>3, <4>1, <4>2, <4>3, <4>4, <4>5
    <3> QED BY <3>1, <3>2, <3>3, <3>4
  <2>2. ASSUME NEW q \in Turns,
               ReaderStep(q) \/ ReadPrompt(q) \/ Say(q) \/ LeaveChild(q) \/ Die(q)
        PROVE  \E p \in Turns : /\ p = proc'[t] /\ t \in transcript'[conversation'[p]]
                                /\ Pipe(p)' # Answer(t) => claudeID'[p] # None
    <3>1. /\ pc' = pc /\ proc' = proc /\ conversation' = conversation
          /\ \A p \in Turns : claudeID'[p] \in {claudeID[p], conversation[p]}
      BY <2>2, OtherFrame, OthersKeep
    <3>2. PICK p \in Turns : p = proc[t]
      BY <1>1, <1>3, <3>1
    <3>3. CASE Same(p)
      BY <1>2, <1>3, <3>1, <3>2, <3>3
    <3>4. CASE p = q /\ Asked(p)
      <4>1. Flow(t) /\ conversation[p] \in Turns
        BY <1>1, <1>3, <3>1, <3>2
      <4>2. stdin[p] = <<t>> /\ Pipe(p) = <<>>
        BY <3>2, <3>4, <4>1 DEF Asked, Flow
      <4>3. Head(stdin[p]) = t
        BY <4>2
      <4>4. t \in transcript'[conversation[p]]
        BY <2>2, <3>4, <4>1, <4>3, PromptMoves
      <4>5. Pipe(p)' = Answer(t)
        <5>1. Answer(t) \in Seq(Lines)
          BY DEF Answer, Line, Lines
        <5>2. <<>> \o Answer(t) = Answer(t)
          BY <5>1
        <5> QED BY <3>4, <4>2, <4>3, <5>2 DEF Asked
      <4> QED BY <3>1, <3>2, <4>4, <4>5
    <3>5. CASE p = q /\ Dropped(p) /\ claudeID'[p] = conversation[p]
      <4>0. stdin'[p] = stdin[p] /\ pc[t] \in {"resetting", "collecting"}
        BY <1>3, <3>1, <3>5 DEF Dropped
      <4>1. conversation[p] \in Turns /\ conversation[p] # None /\ stdin[proc[t]] = <<>>
        BY <1>1, <1>3, <3>1, <3>2, <4>0
      <4>2. t \in transcript[conversation[p]]
        BY <1>0, <3>2, <4>0, <4>1 DEF PromptIsKept
      <4> QED BY <1>0, <3>1, <3>2, <3>5, <4>1, <4>2
    <3> QED BY <2>2, <3>3, <3>4, <3>5, ProcessPipe
  <2>3. ASSUME (\E s \in Sessions : RemoveSession(s)) \/ Reap \/ Stop
        PROVE  \E p \in Turns : /\ p = proc'[t] /\ t \in transcript'[conversation'[p]]
                                /\ Pipe(p)' # Answer(t) => claudeID'[p] # None
    <3>1. /\ pc' = pc /\ proc' = proc /\ conversation' = conversation
          /\ \A p \in Turns : claudeID'[p] \in {claudeID[p], conversation[p]}
      BY <2>3, OtherFrame, OthersKeep
    <3>2. PICK p \in Turns : p = proc[t]
      BY <1>1, <1>3, <3>1
    <3> QED BY <1>2, <1>3, <2>3, <3>1, <3>2, RestSame
  <2> QED BY <2>1, <2>2, <2>3 DEF Next
<1>4. ASSUME NEW t \in Turns, pc'[t] \in {"resetting", "collecting"}, stdin'[proc'[t]] = <<>>
      PROVE  /\ t \in transcript'[conversation'[proc'[t]]]
             /\ Pipe(proc[t])' # Answer(t) => claudeID'[proc'[t]] # None
  <2>1. PICK p \in Turns : /\ p = proc'[t] /\ t \in transcript'[conversation'[p]]
                           /\ Pipe(p)' # Answer(t) => claudeID'[p] # None
    BY <1>3, <1>4
  <2> QED BY <2>1 DEF Pipe, Held
<1> QED BY <1>4 DEF PromptIsKept

\* At the start nothing was answered.
LEMMA InitKeep == Init => KeepInv
<1> SUFFICES ASSUME Init PROVE KeepInv
  OBVIOUS
<1>1. UsedCarryOn /\ KnowsItself /\ PromptIsKept
  BY DEF Init, UsedCarryOn, KnowsItself, PromptIsKept, Busy
<1>2. StoredCarriesOn
  BY NoneAssumption DEF Init, StoredCarriesOn, Answered
<1> QED BY <1>1, <1>2 DEF KeepInv

\* Whatever process a session uses, and whatever the database names for it, carries on
\* the conversation with every turn of the session that was answered: the inductive
\* invariant that the next theorem rests on.
THEOREM KeepInvariant == Spec => []KeepInv
<1>1. ProcessInv /\ AnswerInv /\ KeepInv /\ [Next]_vars => KeepInv'
  <2> SUFFICES ASSUME ProcessInv, AnswerInv, KeepInv, [Next]_vars PROVE KeepInv'
    OBVIOUS
  <2>0. TypeOK /\ HandsFull /\ PassedOn /\ OwnProcess /\ Unasked /\ Flows
    BY DEF ProcessInv, AnswerInv
  <2>1. CASE UNCHANGED vars
    <3> USE <2>1 DEF vars, turnVars, executor, sessionVars, claudeVars, KeepInv
    <3>1. UsedCarryOn' /\ StoredCarriesOn' /\ KnowsItself'
      BY DEF UsedCarryOn, CarriesOn, StoredCarriesOn, Answered, KnowsItself
    <3>2. PromptIsKept'
      BY DEF PromptIsKept, Pipe, Held
    <3> QED BY <3>1, <3>2
  <2>2. CASE Next
    <3>1. UsedCarryOn' /\ StoredCarriesOn' /\ PromptIsKept'
      BY <2>0, <2>2, NextUsed, NextStored, NextPrompt
    <3>2. KnowsItself'
      BY <2>0, <2>2, NextKnows DEF KeepInv
    <3> QED BY <3>1, <3>2 DEF KeepInv
  <2> QED BY <2>1, <2>2
<1> QED BY <1>1, InitKeep, ProcessInvariant, AnswerInvariant, PTL DEF Spec

\* --resume: the conversation that answers a turn contains every turn of the session
\* that was answered before, through every restart, removal and failure.
THEOREM KeepsConversationHolds == Spec => KeepsConversation
<1>1. ASSUME ProcessInv, AnswerInv, KeepInv, [Next]_vars,
             NEW t \in Turns, outcome[t] = None, outcome'[t] = "result",
             NEW u \in Turns, SessionOf[u] = SessionOf[t], outcome[u] = "result"
      PROVE  u \in transcript[conversation[proc[t]]]
  <2>0. TypeOK /\ HandsFull /\ UsedCarryOn
    BY <1>1 DEF ProcessInv, KeepInv
  <2>1. Next
    BY <1>1, NoneAssumption DEF vars, turnVars
  <2>2. PICK v \in Turns : Reuse(v) \/ Restart(v) \/ StartFails(v) \/ TurnStep(v) \/ Cancel(v)
    BY <1>1, <2>0, <2>1, NoneAssumption, OtherFrame DEF Next
  <2>3. v = t
    BY <1>1, <2>0, <2>2, NoneAssumption, TurnFrame DEF AnswerInv
  <2>4. Collect(t)
    BY <1>1, <2>0, <2>2, <2>3, NoneAssumption, TurnResult
  <2>5. CarriesOn(proc[t], SessionOf[t])
    BY <2>0, <2>4 DEF Collect, UsedCarryOn, Busy
  <2>6. u \in Answered(SessionOf[t])
    BY <1>1 DEF Answered
  <2> QED BY <2>5, <2>6 DEF CarriesOn
<1>2. ProcessInv /\ AnswerInv /\ KeepInv /\ [Next]_vars =>
        [\A t \in Turns :
            outcome[t] = None /\ outcome'[t] = "result" =>
                \A u \in Turns :
                    SessionOf[u] = SessionOf[t] /\ outcome[u] = "result" =>
                        u \in transcript[conversation[proc[t]]]]_vars
  BY <1>1
<1> QED BY <1>2, ProcessInvariant, AnswerInvariant, KeepInvariant, PTL
         DEF Spec, KeepsConversation
=============================================================================
