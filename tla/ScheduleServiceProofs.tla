----------------------- MODULE ScheduleServiceProofs -----------------------
(* Proofs about ScheduleService: the job map and gocron agree, the sessions   *)
(* of dead runs are archived by the next start, and the jobs of a schedule    *)
(* that is managed from one channel follow its row.                           *)
EXTENDS ScheduleService, TLAPS

\* The initial state satisfies the invariant.
LEMMA InitJobs == Init => JobsInv
<1> SUFFICES ASSUME Init PROVE JobsInv
  OBVIOUS
<1>1. TypeOK
  <2>1. phase \in {"up", "down"} /\ live \subseteq Job /\ bootFailed \in BOOLEAN
    BY DEF Init
  <2>2. crashes \in 0..MaxCrashes /\ faults \in 0..MaxFaults
    BY BoundsAssumption DEF Init
  <2>3. rows \in [Schedules -> Crons \cup {None}] /\ jobs \in [Schedules -> Job \cup {None}]
    BY DEF Init
  <2>4. opPc \in [Ops -> OpStates] /\ snapshot \in [Ops -> Crons \cup {None}]
    BY DEF Init, OpStates
  <2>5. runPc \in [Runs -> RunStates] /\ runJob \in [Runs -> Job \cup {None}]
    BY DEF Init, RunStates
  <2>6. /\ session \in [Runs -> {None, "active", "archived"}]
        /\ log \in [Runs -> {None, "open", "ok", "error"}]
    BY DEF Init
  <2> QED BY <2>1, <2>2, <2>3, <2>4, <2>5, <2>6 DEF TypeOK
<1>2. HeldRow /\ JobsAreFiled /\ NoOrphanJob
  BY DEF Init, HeldRow, JobsAreFiled, NoOrphanJob
<1> QED BY <1>1, <1>2 DEF JobsInv

-----------------------------------------------------------------------------
(* The variables keep their types *)

\* A statement that fails is counted, within the bound.
LEMMA FaultType == TypeOK /\ (Fault \/ UNCHANGED faults) => faults' \in 0..MaxFaults
BY BoundsAssumption DEF TypeOK, Fault

\* A job made of the row an operation holds is a job.
LEMMA NewJobType ==
  ASSUME TypeOK, NEW o \in Ops, snapshot[o] \in Crons
  PROVE  [schedule |-> ScheduleOf[o], cron |-> snapshot[o], by |-> o] \in Job
BY OperationsAssumption DEF Job

\* A step of an operation keeps the types.
LEMMA OpType == ASSUME TypeOK, HeldRow, NEW o \in Ops, OpStep(o) PROVE TypeOK'
<1> USE DEF TypeOK
<1>1. CASE StartOp(o)
  BY <1>1 DEF StartOp, OpGoes, OpStates, jobVars, runVars, envVars
<1>2. CASE InsertRow(o)
  <2>1. faults' \in 0..MaxFaults
    BY <1>2, FaultType DEF InsertRow
  <2>2. /\ rows' \in [Schedules -> Crons \cup {None}]
        /\ snapshot' \in [Ops -> Crons \cup {None}]
    BY <1>2, OperationsAssumption DEF InsertRow
  <2>3. opPc' \in [Ops -> OpStates]
    BY <1>2 DEF InsertRow, OpGoes, OpStates
  <2> QED BY <1>2, <2>1, <2>2, <2>3 DEF InsertRow, jobVars, runVars, envVars
<1>3. CASE UpdateRow(o)
  <2>1. faults' \in 0..MaxFaults
    BY <1>3, FaultType DEF UpdateRow
  <2>2. rows' \in [Schedules -> Crons \cup {None}]
    BY <1>3, OperationsAssumption DEF UpdateRow
  <2>3. opPc' \in [Ops -> OpStates]
    BY <1>3 DEF UpdateRow, OpGoes, OpStates
  <2> QED BY <1>3, <2>1, <2>2, <2>3 DEF UpdateRow, jobVars, runVars, envVars
<1>4. CASE ReadRow(o)
  <2>1. faults' \in 0..MaxFaults
    BY <1>4, FaultType DEF ReadRow
  <2>2. snapshot' \in [Ops -> Crons \cup {None}]
    BY <1>4, OperationsAssumption DEF ReadRow
  <2>3. opPc' \in [Ops -> OpStates]
    BY <1>4 DEF ReadRow, OpGoes, OpStates
  <2> QED BY <1>4, <2>1, <2>2, <2>3 DEF ReadRow, jobVars, runVars, envVars
<1>5. CASE ScheduleOne(o)
  <2> DEFINE j == [schedule |-> ScheduleOf[o], cron |-> snapshot[o], by |-> o]
  <2>1. j \in Job
    BY <1>5, NewJobType DEF ScheduleOne, OpAt, HeldRow
  <2> HIDE DEF j
  <2>2. \/ jobs' = [jobs EXCEPT ![ScheduleOf[o]] = None] /\ live' = live \ {jobs[ScheduleOf[o]]}
        \/ /\ jobs' = [jobs EXCEPT ![ScheduleOf[o]] = j]
           /\ live' = (live \ {jobs[ScheduleOf[o]]}) \cup {j}
    BY <1>5 DEF ScheduleOne, j
  <2>3. jobs' \in [Schedules -> Job \cup {None}] /\ live' \subseteq Job
    BY <2>1, <2>2
  <2>4. opPc' \in [Ops -> OpStates]
    BY <1>5 DEF ScheduleOne, OpGoes, OpStates
  <2> QED BY <1>5, <2>3, <2>4 DEF ScheduleOne, runVars, envVars
<1>6. CASE Delete(o)
  <2>1. faults' \in 0..MaxFaults
    BY <1>6, FaultType DEF Delete
  <2>2. rows' \in [Schedules -> Crons \cup {None}]
    BY <1>6 DEF Delete
  <2>3. jobs' \in [Schedules -> Job \cup {None}] /\ live' \subseteq Job
    BY <1>6 DEF Delete
  <2>4. opPc' \in [Ops -> OpStates]
    BY <1>6 DEF Delete, OpGoes, OpStates
  <2> QED BY <1>6, <2>1, <2>2, <2>3, <2>4 DEF Delete, runVars, envVars
<1> QED BY <1>1, <1>2, <1>3, <1>4, <1>5, <1>6 DEF OpStep

\* A step of a run keeps the types.
LEMMA RunType == ASSUME TypeOK, NEW r \in Runs, Fire(r) \/ RunStep(r) PROVE TypeOK'
<1> USE DEF TypeOK, RunGoes, RunStates, opVars, jobVars, envVars
<1>1. CASE Fire(r)
  BY <1>1 DEF Fire
<1>2. CASE OpenSession(r)
  <2>1. faults' \in 0..MaxFaults
    BY <1>2, FaultType DEF OpenSession
  <2>2. session' \in [Runs -> {None, "active", "archived"}]
    BY <1>2 DEF OpenSession
  <2> QED BY <1>2, <2>1, <2>2 DEF OpenSession
<1>3. CASE OpenLog(r)
  <2>1. faults' \in 0..MaxFaults
    BY <1>3, FaultType DEF OpenLog
  <2>2. log' \in [Runs -> {None, "open", "ok", "error"}]
    BY <1>3 DEF OpenLog
  <2> QED BY <1>3, <2>1, <2>2 DEF OpenLog
<1>4. ASSUME NEW result \in {"ok", "error"}, FinishLog(r, result) PROVE TypeOK'
  <2>1. faults' \in 0..MaxFaults
    BY <1>4, FaultType DEF FinishLog
  <2>2. log' \in [Runs -> {None, "open", "ok", "error"}]
    BY <1>4 DEF FinishLog
  <2> QED BY <1>4, <2>1, <2>2 DEF FinishLog
<1>5. CASE ArchiveSession(r)
  <2>1. faults' \in 0..MaxFaults
    BY <1>5, FaultType DEF ArchiveSession
  <2>2. session' \in [Runs -> {None, "active", "archived"}]
    BY <1>5 DEF ArchiveSession
  <2> QED BY <1>5, <2>1, <2>2 DEF ArchiveSession
<1> QED BY <1>1, <1>2, <1>3, <1>4, <1>5 DEF RunStep

\* So do the death of the process and its next start.
LEMMA CrashType == TypeOK /\ Crash => TypeOK'
<1> SUFFICES ASSUME TypeOK, Crash PROVE TypeOK'
  OBVIOUS
<1>1. crashes' \in 0..MaxCrashes
  BY BoundsAssumption DEF TypeOK, Crash
<1>2. opPc' \in [Ops -> OpStates] /\ runPc' \in [Runs -> RunStates]
  BY DEF TypeOK, Crash, OpStates, RunStates
<1> QED BY <1>1, <1>2 DEF TypeOK, Crash

\* ... which brings the jobs of the rows.
LEMMA BootType == TypeOK /\ Boot => TypeOK'
<1> SUFFICES ASSUME TypeOK, Boot PROVE TypeOK'
  OBVIOUS
<1>1. faults' \in 0..MaxFaults
  BY FaultType DEF Boot
<1>2. session' \in [Runs -> {None, "active", "archived"}]
  BY DEF TypeOK, Boot
<1>3. jobs' \in [Schedules -> Job \cup {None}] /\ live' \subseteq Job
  <2>1. CASE UNCHANGED jobVars
    BY <2>1 DEF TypeOK, jobVars
  <2>2. CASE /\ jobs' = [s \in Schedules |->
                           IF rows[s] # None
                           THEN [schedule |-> s, cron |-> rows[s], by |-> None]
                           ELSE None]
             /\ live' = {jobs'[s] : s \in {t \in Schedules : rows[t] # None}}
    <3>1. \A s \in Schedules : rows[s] # None =>
              [schedule |-> s, cron |-> rows[s], by |-> None] \in Job
      BY DEF TypeOK, Job
    <3> QED BY <2>2, <3>1
  <2> QED BY <2>1, <2>2 DEF Boot
<1> QED BY <1>1, <1>2, <1>3 DEF TypeOK, Boot, opVars

\* Every step keeps the type invariant.
LEMMA TypeStep == TypeOK /\ HeldRow /\ [Next]_vars => TypeOK'
<1>1. TypeOK /\ UNCHANGED vars => TypeOK'
  BY DEF TypeOK, vars, jobVars, opVars, runVars, envVars
<1> QED BY <1>1, OpType, RunType, CrashType, BootType DEF Next

-----------------------------------------------------------------------------
(* The job map and gocron *)

\* An operation reaches the lock with the row it wrote or read back.
LEMMA HeldRowStep == TypeOK /\ HeldRow /\ [Next]_vars => HeldRow'
<1> SUFFICES ASSUME TypeOK, HeldRow, [Next]_vars PROVE HeldRow'
  OBVIOUS
<1> USE DEF TypeOK, HeldRow
<1>1. CASE UNCHANGED vars
  BY <1>1 DEF vars, opVars
<1>2. ASSUME NEW o \in Ops, OpStep(o) PROVE HeldRow'
  <2>1. CASE StartOp(o)
    BY <2>1 DEF StartOp, OpGoes
  <2>2. CASE InsertRow(o)
    BY <2>2, OperationsAssumption DEF InsertRow, OpGoes
  <2>3. CASE UpdateRow(o)
    BY <2>3 DEF UpdateRow, OpGoes
  <2>4. CASE ReadRow(o)
    BY <2>4, OperationsAssumption DEF ReadRow, OpGoes
  <2>5. CASE ScheduleOne(o) \/ Delete(o)
    BY <2>5 DEF ScheduleOne, Delete, OpGoes
  <2> QED BY <1>2, <2>1, <2>2, <2>3, <2>4, <2>5 DEF OpStep
<1>3. ASSUME NEW r \in Runs, Fire(r) \/ RunStep(r) PROVE HeldRow'
  BY <1>3 DEF Fire, RunStep, OpenSession, OpenLog, FinishLog, ArchiveSession, opVars
<1>4. CASE Crash
  BY <1>4 DEF Crash, Busy
<1>5. CASE Boot
  BY <1>5 DEF Boot, opVars
<1> QED BY <1>1, <1>2, <1>3, <1>4, <1>5 DEF Next

\* Replacing, in the map and in gocron, the job of one schedule by another job of
\* it, or by none, keeps the two in agreement.
LEMMA ReplaceJob ==
  ASSUME TypeOK, JobsAreFiled, NoOrphanJob, NEW s \in Schedules,
         NEW j, j = None \/ (j \in Job /\ j.schedule = s),
         jobs' = [jobs EXCEPT ![s] = j],
         live' = (live \ {jobs[s]}) \cup ({j} \ {None})
  PROVE  JobsAreFiled' /\ NoOrphanJob'
<1> USE DEF TypeOK, JobsAreFiled, NoOrphanJob
<1>1. JobsAreFiled'
  OBVIOUS
<1>2. \A t \in Schedules \ {s} : jobs[t] # None => jobs[t] # jobs[s]
  OBVIOUS
<1>3. {jobs'[t] : t \in Schedules} = {jobs[t] : t \in Schedules \ {s}} \cup {j}
  OBVIOUS
<1>4. ({jobs[t] : t \in Schedules} \ {None}) \ {jobs[s]}
        = {jobs[t] : t \in Schedules \ {s}} \ {None}
  BY <1>2
<1> QED BY <1>1, <1>3, <1>4

\* Every step keeps the map filed and in agreement with gocron.
LEMMA JobsStep == JobsInv /\ [Next]_vars => JobsAreFiled' /\ NoOrphanJob'
<1> SUFFICES ASSUME JobsInv, [Next]_vars PROVE JobsAreFiled' /\ NoOrphanJob'
  OBVIOUS
<1> USE DEF JobsInv
<1>1. ASSUME UNCHANGED jobVars PROVE JobsAreFiled' /\ NoOrphanJob'
  BY <1>1 DEF jobVars, JobsAreFiled, NoOrphanJob
<1>2. ASSUME NEW o \in Ops, ScheduleOne(o) PROVE JobsAreFiled' /\ NoOrphanJob'
  <2> DEFINE s == ScheduleOf[o]
             j == [schedule |-> s, cron |-> snapshot[o], by |-> o]
  <2>1. s \in Schedules
    BY OperationsAssumption
  <2>2. j \in Job /\ j.schedule = s
    BY <1>2, NewJobType DEF ScheduleOne, OpAt, HeldRow
  <2>3. CASE snapshot[o] \in BadCrons
    <3>1. jobs' = [jobs EXCEPT ![s] = None] /\ live' = (live \ {jobs[s]}) \cup ({None} \ {None})
      BY <1>2, <2>3 DEF ScheduleOne
    <3> HIDE DEF s
    <3> QED BY <2>1, <3>1, ReplaceJob
  <2>4. CASE snapshot[o] \notin BadCrons
    <3>1. jobs' = [jobs EXCEPT ![s] = j] /\ live' = (live \ {jobs[s]}) \cup {j}
      BY <1>2, <2>4 DEF ScheduleOne
    <3>2. {j} = {j} \ {None}
      BY <2>2, NoneAssumption
    <3> HIDE DEF s, j
    <3> QED BY <2>1, <2>2, <3>1, <3>2, ReplaceJob
  <2> QED BY <2>3, <2>4
<1>3. ASSUME NEW o \in Ops, Delete(o) PROVE JobsAreFiled' /\ NoOrphanJob'
  <2>1. ScheduleOf[o] \in Schedules
    BY OperationsAssumption
  <2>2. /\ jobs' = [jobs EXCEPT ![ScheduleOf[o]] = None]
        /\ live' = (live \ {jobs[ScheduleOf[o]]}) \cup ({None} \ {None})
    BY <1>3 DEF Delete
  <2> QED BY <2>1, <2>2, ReplaceJob
<1>4. CASE Crash
  BY <1>4 DEF Crash, JobsAreFiled, NoOrphanJob
<1>5. CASE Boot
  <2>1. CASE UNCHANGED jobVars
    BY <1>1, <2>1
  <2>2. CASE /\ jobs' = [s \in Schedules |->
                           IF rows[s] # None
                           THEN [schedule |-> s, cron |-> rows[s], by |-> None]
                           ELSE None]
             /\ live' = {jobs'[s] : s \in {t \in Schedules : rows[t] # None}}
    <3>1. JobsAreFiled'
      BY <2>2 DEF JobsAreFiled
    <3>2. \A s \in Schedules : rows[s] # None => jobs'[s] \in Job
      BY <2>2 DEF TypeOK, Job
    <3>3. \A s \in Schedules : jobs'[s] # None <=> rows[s] # None
      BY <2>2, <3>2, NoneAssumption
    <3>4. live' = {jobs'[s] : s \in Schedules} \ {None}
      BY <2>2, <3>3
    <3> QED BY <3>1, <3>4 DEF NoOrphanJob
  <2> QED BY <1>5, <2>1, <2>2 DEF Boot
<1>6. ASSUME NEW o \in Ops, StartOp(o) \/ InsertRow(o) \/ UpdateRow(o) \/ ReadRow(o)
      PROVE  UNCHANGED jobVars
  BY <1>6 DEF StartOp, InsertRow, UpdateRow, ReadRow
<1>7. ASSUME NEW r \in Runs, Fire(r) \/ RunStep(r) PROVE UNCHANGED jobVars
  BY <1>7 DEF Fire, RunStep, OpenSession, OpenLog, FinishLog, ArchiveSession
<1>8. UNCHANGED vars => UNCHANGED jobVars
  BY DEF vars
<1> QED BY <1>1, <1>2, <1>3, <1>4, <1>5, <1>6, <1>7, <1>8 DEF Next, OpStep

-----------------------------------------------------------------------------
(* The sessions of runs *)

\* As long as no statement fails, an active schedule session of a process that
\* is up belongs to a run that goes on.
LEMMA StaleStep == TypeOK /\ NoStaleSession /\ [Next]_vars => NoStaleSession'
<1> SUFFICES ASSUME TypeOK, NoStaleSession, [Next]_vars, NEW r \in Runs,
                    phase' = "up", faults' = 0, session'[r] = "active"
             PROVE  runPc'[r] \in Going
  BY DEF NoStaleSession
<1>1. faults = 0 /\ ~Fault
  <2>1. faults \in Nat
    BY BoundsAssumption DEF TypeOK
  <2>2. ~Fault
    BY <2>1 DEF Fault
  <2>3. UNCHANGED faults
    BY <2>2 DEF Next, OpStep, RunStep, StartOp, InsertRow, UpdateRow, ReadRow, ScheduleOne,
       Delete, Fire, OpenSession, OpenLog, FinishLog, ArchiveSession, Crash, Boot, vars
  <2> QED BY <2>2, <2>3
<1> USE <1>1 DEF TypeOK, NoStaleSession, Going
<1>2. CASE UNCHANGED vars
  BY <1>2 DEF vars, runVars, envVars
<1>3. ASSUME NEW o \in Ops, OpStep(o) PROVE runPc'[r] \in Going
  <2>1. UNCHANGED <<runVars, envVars>>
    BY <1>3 DEF OpStep, StartOp, InsertRow, UpdateRow, ReadRow, ScheduleOne, Delete
  <2> QED BY <2>1 DEF runVars, envVars
<1>4. ASSUME NEW q \in Runs, Fire(q) PROVE runPc'[r] \in Going
  BY <1>4 DEF Fire, RunGoes, RunAt, envVars
<1>5. ASSUME NEW q \in Runs, OpenSession(q) \/ OpenLog(q) PROVE runPc'[r] \in Going
  BY <1>5 DEF OpenSession, OpenLog, RunGoes, RunAt, envVars
<1>6. ASSUME NEW q \in Runs, NEW result \in {"ok", "error"}, FinishLog(q, result)
      PROVE  runPc'[r] \in Going
  BY <1>6 DEF FinishLog, RunGoes, RunAt, envVars
<1>7. ASSUME NEW q \in Runs, ArchiveSession(q) PROVE runPc'[r] \in Going
  BY <1>7, NoneAssumption DEF ArchiveSession, RunGoes, RunAt, envVars
<1>8. CASE Crash
  BY <1>8 DEF Crash
<1>9. CASE Boot
  BY <1>9 DEF Boot
<1> QED BY <1>2, <1>3, <1>4, <1>5, <1>6, <1>7, <1>8, <1>9 DEF Next, RunStep

-----------------------------------------------------------------------------
(* The theorems *)

\* The type invariant and the agreement of the job map with gocron hold together.
THEOREM JobsInvariant == Spec => []JobsInv
<1>1. JobsInv /\ [Next]_vars => JobsInv'
  BY TypeStep, HeldRowStep, JobsStep DEF JobsInv
<1> QED BY <1>1, InitJobs, PTL DEF Spec

\* The service keeps the types of its variables.
THEOREM TypeCorrect == Spec => []TypeOK
<1>1. JobsInv => TypeOK
  BY DEF JobsInv
<1> QED BY <1>1, JobsInvariant, PTL

\* However many users manage and however their statements interleave, fail or are
\* cut short: gocron holds no job that the map has lost.
THEOREM NoOrphans == Spec => []NoOrphanJob
<1>1. JobsInv => NoOrphanJob
  BY DEF JobsInv
<1> QED BY <1>1, JobsInvariant, PTL

\* Without failed statements, no schedule session outlives its run and the next
\* start of the process.
THEOREM NoStaleSessions == Spec => []NoStaleSession
<1>1. Init => NoStaleSession
  BY NoneAssumption DEF Init, NoStaleSession
<1> QED BY <1>1, StaleStep, TypeCorrect, PTL DEF Spec

-----------------------------------------------------------------------------
(* Schedules managed from one channel *)

\* What the proofs need to know of the operations.
LEMMA OpFacts ==
  /\ \A o \in Ops : ScheduleOf[o] \in Schedules /\ CronOf[o] \in Crons
  /\ None \notin Crons
BY OperationsAssumption

\* A step of an operation touches its own schedule and nothing of another's.
LEMMA OpFrame ==
  ASSUME TypeOK, NEW o \in Ops, OpStep(o)
  PROVE  /\ \A p \in Ops : p # o => opPc'[p] = opPc[p] /\ snapshot'[p] = snapshot[p]
         /\ \A t \in Schedules : t # ScheduleOf[o] => rows'[t] = rows[t] /\ jobs'[t] = jobs[t]
         /\ phase' = phase /\ phase = "up"
         /\ faults' = 0 => faults' = faults
<1> USE DEF TypeOK, OpGoes, OpAt, jobVars, envVars
<1>1. faults \in Nat
  BY BoundsAssumption
<1>2. Fault => faults' # 0
  BY <1>1 DEF Fault
<1>3. CASE StartOp(o)
  BY <1>3 DEF StartOp
<1>4. CASE InsertRow(o)
  BY <1>2, <1>4 DEF InsertRow
<1>5. CASE UpdateRow(o)
  BY <1>2, <1>5 DEF UpdateRow
<1>6. CASE ReadRow(o)
  BY <1>2, <1>6 DEF ReadRow
<1>7. CASE ScheduleOne(o)
  BY <1>7 DEF ScheduleOne
<1>8. CASE Delete(o)
  BY <1>2, <1>8 DEF Delete
<1> QED BY <1>3, <1>4, <1>5, <1>6, <1>7, <1>8 DEF OpStep

\* Nobody else works on its schedule.
LEMMA OpAlone ==
  ASSUME ManagedFromOneChat, OneAtATime, NEW o \in Ops, OpStep(o),
         NEW p \in Ops, p # o, ScheduleOf[p] = ScheduleOf[o]
  PROVE  opPc[p] \notin Busy
<1>1. CASE StartOp(o)
  BY <1>1 DEF StartOp, ManagedFromOneChat
<1>2. CASE ~StartOp(o)
  <2>1. opPc[o] \in Busy
    BY <1>2 DEF OpStep, InsertRow, UpdateRow, ReadRow, ScheduleOne, Delete, OpAt, Busy
  <2> QED BY <2>1 DEF OneAtATime
<1> QED BY <1>1, <1>2

\* An operation that has begun makes the schedule's creation a thing of the past.
LEMMA OpLater ==
  ASSUME NothingBefore, NEW o \in Ops, OpStep(o),
         NEW c \in Ops, c # o, Kind[c] = "create", ScheduleOf[c] = ScheduleOf[o]
  PROVE  opPc[c] \notin {"idle", "writing"}
<1> SUFFICES ASSUME opPc[c] \in {"idle", "writing"} PROVE FALSE
  OBVIOUS
<1>1. rows[ScheduleOf[o]] = None /\ opPc[o] = "idle"
  BY DEF NothingBefore
<1>2. StartOp(o)
  BY <1>1 DEF OpStep, InsertRow, UpdateRow, ReadRow, ScheduleOne, Delete, OpAt
<1>3. Kind[o] = "create"
  BY <1>1, <1>2 DEF StartOp
<1> QED BY <1>3, FreshIdAssumption

\* A step of an operation keeps the operations of its schedule one at a time, after
\* the insertion of the row, and in possession of it.
LEMMA OpManaged ==
  ASSUME TypeOK, ManagedFromOneChat, OneAtATime, NothingBefore, RowIsKept,
         NEW o \in Ops, OpStep(o)
  PROVE  OneAtATime' /\ NothingBefore' /\ RowIsKept'
<1> DEFINE s == ScheduleOf[o]
<1>1. OneAtATime'
  BY OpFrame, OpAlone DEF OneAtATime
<1>2. ASSUME NEW c \in Ops, NEW p \in Ops, Kind[c] = "create",
             opPc'[c] \in {"idle", "writing"}, ScheduleOf[p] = ScheduleOf[c]
      PROVE  rows'[ScheduleOf[c]] = None /\ (p # c => opPc'[p] = "idle")
  <2>1. CASE ScheduleOf[c] # s
    <3>1. opPc'[c] = opPc[c] /\ opPc'[p] = opPc[p] /\ rows'[ScheduleOf[c]] = rows[ScheduleOf[c]]
      BY <1>2, <2>1, OpFrame, OpFacts
    <3> QED BY <1>2, <3>1 DEF NothingBefore
  <2>2. CASE ScheduleOf[c] = s /\ c # o
    BY <1>2, <2>2, OpFrame, OpLater
  <2>3. CASE c = o
    <3>1. StartOp(o)
      BY <1>2, <2>3 DEF TypeOK, OpStep, InsertRow, UpdateRow, ReadRow, ScheduleOne, Delete, OpGoes
    <3>2. opPc[o] = "idle" /\ rows' = rows
      BY <3>1 DEF StartOp, OpAt
    <3> QED BY <1>2, <2>3, <3>2, OpFrame DEF NothingBefore
  <2> QED BY <2>1, <2>2, <2>3
<1>3. ASSUME NEW p \in Ops, opPc'[p] \in Busy
      PROVE  /\ opPc'[p] = "reading" => Kind[p] = "update"
             /\ \/ opPc'[p] = "writing" /\ Kind[p] = "create"
                \/ rows'[ScheduleOf[p]] # None
             /\ opPc'[p] = "locking" /\ Kind[p] # "delete" => snapshot'[p] = rows'[ScheduleOf[p]]
  <2>1. CASE ScheduleOf[p] # s
    <3>1. opPc'[p] = opPc[p] /\ snapshot'[p] = snapshot[p]
          /\ rows'[ScheduleOf[p]] = rows[ScheduleOf[p]]
      BY <2>1, OpFrame, OpFacts
    <3> QED BY <1>3, <3>1 DEF RowIsKept
  <2>2. CASE ScheduleOf[p] = s /\ p # o
    BY <1>3, <2>2, OpFrame, OpAlone
  <2>3. CASE p = o
    <3> USE <1>3, <2>3, OpFacts DEF TypeOK, OpGoes, OpAt, Busy
    <3>1. CASE StartOp(o)
      BY <3>1 DEF StartOp
    <3>2. CASE InsertRow(o)
      BY <3>2 DEF InsertRow
    <3>3. CASE UpdateRow(o)
      <4>1. rows[s] # None /\ rows' = [rows EXCEPT ![s] = IF @ = None THEN None ELSE CronOf[o]]
        BY <3>3 DEF UpdateRow, RowIsKept
      <4>2. rows'[s] # None /\ opPc'[o] = "reading" /\ Kind[o] = "update"
        BY <3>3, <4>1 DEF UpdateRow
      <4> QED BY <4>2
    <3>4. CASE ReadRow(o)
      BY <3>4 DEF ReadRow
    <3>5. CASE ScheduleOne(o) \/ Delete(o)
      BY <3>5 DEF ScheduleOne, Delete
    <3> QED BY <3>1, <3>2, <3>3, <3>4, <3>5 DEF OpStep
  <2> QED BY <2>1, <2>2, <2>3
<1> QED BY <1>1, <1>2, <1>3 DEF NothingBefore, RowIsKept

\* ... its job as the row says, ...
LEMMA OpMatches ==
  ASSUME TypeOK, ManagedFromOneChat, OneAtATime, RowIsKept, JobsMatch, HeldRow,
         NEW o \in Ops, OpStep(o)
  PROVE  JobsMatch'
<1> SUFFICES ASSUME NEW t \in Schedules, phase' = "up", faults' = 0,
                    \A p \in Ops : ScheduleOf[p] = t => ~Unapplied(p)'
             PROVE  JobMatches(t)'
  BY DEF JobsMatch
<1>0. phase = "up" /\ faults = 0 /\ ~Fault
  <2>1. phase = "up" /\ faults = 0
    BY OpFrame
  <2> QED BY <2>1 DEF Fault
<1>1. CASE ScheduleOf[o] # t
  <2>1. rows'[t] = rows[t] /\ jobs'[t] = jobs[t]
    BY <1>1, OpFrame
  <2>2. \A p \in Ops : ScheduleOf[p] = t => ~Unapplied(p)
    BY <1>1, OpFrame DEF Unapplied
  <2> QED BY <1>0, <2>1, <2>2 DEF JobsMatch, JobMatches
<1>2. CASE ScheduleOf[o] = t
  <2>0. ~Unapplied(o)'
    BY <1>2
  <2>1. ASSUME rows'[t] = rows[t], jobs'[t] = jobs[t], ~Unapplied(o) PROVE JobMatches(t)'
    <3>1. \A p \in Ops : ScheduleOf[p] = t => ~Unapplied(p)
      BY <1>2, <2>1, OpAlone DEF Unapplied, Busy
    <3> QED BY <1>0, <2>1, <3>1 DEF JobsMatch, JobMatches
  <2> USE DEF TypeOK, OpGoes, OpAt
  <2>2. CASE StartOp(o)
    BY <2>1, <2>2 DEF StartOp, Unapplied, jobVars
  <2>3. CASE InsertRow(o) \/ UpdateRow(o)
    BY <1>0, <2>0, <2>3 DEF InsertRow, UpdateRow, Unapplied
  <2>4. CASE ReadRow(o)
    <3>1. rows[t] # None /\ Kind[o] = "update"
      BY <1>2, <2>4 DEF ReadRow, RowIsKept, Busy
    <3> QED BY <1>0, <1>2, <2>0, <2>4, <3>1 DEF ReadRow, Unapplied
  <2>5. CASE ScheduleOne(o)
    <3> DEFINE j == [schedule |-> t, cron |-> snapshot[o], by |-> o]
    <3>1. snapshot[o] = rows[t] /\ rows' = rows
      BY <1>2, <2>5 DEF ScheduleOne, RowIsKept, Busy
    <3>2. CASE snapshot[o] \in BadCrons
      BY <1>2, <2>5, <3>1, <3>2 DEF ScheduleOne, JobMatches
    <3>3. CASE snapshot[o] \notin BadCrons
      <4>1. jobs'[t] = j
        BY <1>2, <2>5, <3>3 DEF ScheduleOne
      <4>2. snapshot[o] \in Crons
        BY <1>2, <2>5 DEF ScheduleOne, HeldRow
      <4>3. j # None
        BY <1>2, <4>2, NewJobType, NoneAssumption
      <4> QED BY <3>1, <3>3, <4>1, <4>2, <4>3 DEF JobMatches
    <3> QED BY <3>2, <3>3
  <2>6. CASE Delete(o)
    <3>1. rows'[t] = None /\ jobs'[t] = None
      BY <1>0, <1>2, <2>6 DEF Delete
    <3> QED BY <3>1, OpFacts DEF JobMatches
  <2> QED BY <2>2, <2>3, <2>4, <2>5, <2>6 DEF OpStep
<1> QED BY <1>1, <1>2

\* ... and, once deleted, without row, job and work on it.
LEMMA OpGone ==
  ASSUME TypeOK, ManagedFromOneChat, OneAtATime, NothingBefore, DeletedIsGone,
         NEW o \in Ops, OpStep(o)
  PROVE  DeletedIsGone'
<1> SUFFICES ASSUME NEW d \in Ops, Kind[d] = "delete", opPc'[d] = "done"
             PROVE  /\ rows'[ScheduleOf[d]] = None /\ jobs'[ScheduleOf[d]] = None
                    /\ \A p \in Ops : ScheduleOf[p] = ScheduleOf[d] => opPc'[p] \notin Busy
  BY DEF DeletedIsGone
<1>1. CASE ScheduleOf[d] # ScheduleOf[o]
  <2>1. /\ rows'[ScheduleOf[d]] = rows[ScheduleOf[d]] /\ jobs'[ScheduleOf[d]] = jobs[ScheduleOf[d]]
        /\ \A p \in Ops : ScheduleOf[p] = ScheduleOf[d] => opPc'[p] = opPc[p]
    BY <1>1, OpFrame, OpFacts
  <2> QED BY <1>1, <2>1 DEF DeletedIsGone
<1>2. CASE ScheduleOf[d] = ScheduleOf[o] /\ d # o
  <2>1. /\ opPc[d] = "done" /\ rows[ScheduleOf[o]] = None /\ opPc[o] \notin Busy
    BY <1>2, OpFrame DEF DeletedIsGone
  <2>2. StartOp(o)
    BY <2>1 DEF OpStep, InsertRow, UpdateRow, ReadRow, ScheduleOne, Delete, OpAt, Busy
  <2>3. Kind[o] = "create" /\ opPc[o] = "idle"
    BY <2>1, <2>2 DEF StartOp, OpAt
  <2>4. opPc[d] = "idle"
    BY <1>2, <2>3 DEF NothingBefore
  <2> QED BY <2>1, <2>4
<1>3. CASE d = o
  <2>1. Delete(o)
    BY <1>3 DEF TypeOK, OpStep, StartOp, InsertRow, UpdateRow, ReadRow, ScheduleOne, OpGoes
  <2>2. opPc' = [opPc EXCEPT ![o] = "done"]
    BY <1>3, <2>1 DEF TypeOK, Delete, OpGoes
  <2>3. rows'[ScheduleOf[d]] = None /\ jobs'[ScheduleOf[d]] = None
    BY <1>3, <2>1, OpFacts DEF TypeOK, Delete, OpGoes
  <2> QED BY <1>3, <2>2, <2>3, OpFrame, OpAlone DEF Busy
<1> QED BY <1>1, <1>2, <1>3

\* The death of the process ends every operation; the next start registers what
\* the rows say.
LEMMA RestartManaged ==
  ASSUME TypeOK, ManagedInv, Crash \/ Boot
  PROVE  ManagedInv'
<1>1. CASE Crash
  <2>1. /\ rows' = rows /\ phase' = "down" /\ \A t \in Schedules : jobs'[t] = None
        /\ \A o \in Ops : opPc'[o] = IF opPc[o] \in Busy THEN "failed" ELSE opPc[o]
    BY <1>1 DEF Crash
  <2>2. \A o \in Ops : opPc'[o] \notin Busy
    BY <2>1 DEF Busy
  <2>3. OneAtATime' /\ RowIsKept' /\ JobsMatch'
    BY <2>1, <2>2 DEF OneAtATime, RowIsKept, JobsMatch
  <2>4. NothingBefore'
    BY <2>1, <2>2 DEF ManagedInv, NothingBefore, Busy
  <2>5. DeletedIsGone'
    BY <2>1, <2>2, OpFacts DEF ManagedInv, DeletedIsGone
  <2> QED BY <2>3, <2>4, <2>5 DEF ManagedInv
<1>2. CASE Boot
  <2>0. rows' = rows /\ opPc' = opPc /\ snapshot' = snapshot
    BY <1>2 DEF Boot, opVars
  <2>1. OneAtATime' /\ NothingBefore' /\ RowIsKept'
    BY <2>0 DEF ManagedInv, OneAtATime, NothingBefore, RowIsKept
  <2>2. CASE UNCHANGED <<phase, jobVars>>
    <3>1. phase' = "down" /\ jobs' = jobs
      BY <1>2, <2>2 DEF Boot, jobVars
    <3>2. JobsMatch' /\ DeletedIsGone'
      BY <2>0, <3>1 DEF ManagedInv, JobsMatch, DeletedIsGone
    <3> QED BY <2>1, <3>2 DEF ManagedInv
  <2>3. CASE ~UNCHANGED <<phase, jobVars>>
    <3>1. /\ \A t \in Schedules : rows[t] # None => rows[t] \notin BadCrons
          /\ jobs' = [t \in Schedules |-> IF rows[t] # None
                                         THEN [schedule |-> t, cron |-> rows[t], by |-> None]
                                         ELSE None]
      BY <1>2, <2>3 DEF Boot
    <3>2. ASSUME NEW t \in Schedules PROVE JobMatches(t)'
      <4>1. CASE rows[t] = None
        BY <2>0, <3>1, <4>1, OpFacts DEF JobMatches
      <4>2. CASE rows[t] # None
        <5>1. jobs'[t] = [schedule |-> t, cron |-> rows[t], by |-> None]
          BY <3>1, <4>2
        <5>2. rows[t] \in Crons
          BY <4>2 DEF TypeOK
        <5>3. jobs'[t] \in Job
          BY <5>1, <5>2 DEF Job
        <5>4. jobs'[t] # None /\ jobs'[t].cron = rows'[t] /\ rows'[t] \in Crons \ BadCrons
          BY <2>0, <3>1, <4>2, <5>1, <5>2, <5>3, NoneAssumption
        <5> QED BY <5>4 DEF JobMatches
      <4> QED BY <4>1, <4>2
    <3>3. DeletedIsGone'
      BY <2>0, <3>1, OpFacts DEF ManagedInv, DeletedIsGone
    <3> QED BY <2>1, <3>2, <3>3 DEF ManagedInv, JobsMatch
  <2> QED BY <2>2, <2>3
<1> QED BY <1>1, <1>2

\* Every step keeps what holds of schedules managed from one channel.
LEMMA ManagedStep ==
  ASSUME ManagedFromOneChat, JobsInv, ManagedInv, [Next]_vars
  PROVE  ManagedInv'
<1>0. TypeOK /\ HeldRow
  BY DEF JobsInv
<1>1. ASSUME NEW o \in Ops, OpStep(o) PROVE ManagedInv'
  BY <1>0, <1>1, OpManaged, OpMatches, OpGone DEF ManagedInv
<1>2. CASE Crash \/ Boot
  BY <1>0, <1>2, RestartManaged
<1>3. ASSUME UNCHANGED <<rows, jobs, opPc, snapshot, phase>>, faults' = 0 => faults = 0
      PROVE  ManagedInv'
  BY <1>3 DEF ManagedInv, OneAtATime, NothingBefore, RowIsKept, JobsMatch, DeletedIsGone,
              JobMatches, Unapplied
<1>4. ASSUME NEW r \in Runs, Fire(r) \/ RunStep(r) PROVE ManagedInv'
  <2>1. faults \in Nat
    BY <1>0, BoundsAssumption DEF TypeOK
  <2>2. Fault => faults' # 0
    BY <2>1 DEF Fault
  <2>3. UNCHANGED <<rows, jobs, opPc, snapshot, phase>>
    BY <1>4 DEF Fire, RunStep, OpenSession, OpenLog, FinishLog, ArchiveSession, jobVars, opVars,
                envVars
  <2>4. faults' = 0 => faults = 0
    BY <1>4, <2>2 DEF Fire, RunStep, OpenSession, OpenLog, FinishLog, ArchiveSession
  <2> QED BY <1>3, <2>3, <2>4
<1>5. CASE UNCHANGED vars
  BY <1>3, <1>5 DEF vars, jobVars, opVars, envVars
<1> QED BY <1>1, <1>2, <1>4, <1>5 DEF Next

\* The inductive invariant behind the next two theorems: the operations on a
\* schedule that is managed from one channel come one at a time, so that each finds
\* the row as it left it.
THEOREM ManagedInvariant ==
  ASSUME ManagedFromOneChat
  PROVE  Spec => []ManagedInv
<1>1. Init => ManagedInv
  <2> SUFFICES ASSUME Init PROVE ManagedInv
    OBVIOUS
  <2>1. OneAtATime /\ NothingBefore /\ RowIsKept /\ DeletedIsGone
    BY OpFacts DEF Init, OneAtATime, NothingBefore, RowIsKept, DeletedIsGone, Busy
  <2>2. JobsMatch
    BY OpFacts DEF Init, JobsMatch, JobMatches
  <2> QED BY <2>1, <2>2 DEF ManagedInv
<1>2. JobsInv /\ ManagedInv /\ [Next]_vars => ManagedInv'
  BY ManagedStep
<1> QED BY <1>1, <1>2, JobsInvariant, PTL DEF Spec

\* Create, Update, Delete and Bootstrap: however the operations of one channel,
\* runs, deaths and starts of the process interleave, a schedule at rest has the job
\* its row asks for, unless a statement failed.
THEOREM JobsFollow ==
  ASSUME ManagedFromOneChat
  PROVE  Spec => []JobsFollowRows
<1>1. ManagedInv => JobsFollowRows
  BY DEF ManagedInv, JobsMatch, JobsFollowRows, Settled, Unapplied, Busy
<1> QED BY <1>1, ManagedInvariant, PTL

\* Delete: after a delete was confirmed no job of the schedule is left to fire,
\* now or after any restart, whatever statements fail.
THEOREM DeletedStays ==
  ASSUME ManagedFromOneChat
  PROVE  Spec => []DeletedStaysSilent
<1>1. JobsInv /\ ManagedInv => DeletedStaysSilent
  BY OpFacts DEF JobsInv, NoOrphanJob, JobsAreFiled, ManagedInv, DeletedIsGone,
                 DeletedStaysSilent
<1> QED BY <1>1, JobsInvariant, ManagedInvariant, PTL
=============================================================================
