-------------------------- MODULE ScheduleService --------------------------
(***************************************************************************)
(* internal/schedule: schedules as rows of the database and as jobs of the  *)
(* gocron scheduler, the runs the jobs start, and the restart of the        *)
(* process (the part of cmd/server/main.go that recovers schedules).        *)
(*                                                                          *)
(* Schedules are managed from chat: the worker of a channel calls Create,   *)
(* Delete or Update, one at a time, but a user can talk to the bot in       *)
(* several channels. Only the job map is under Service.mu; the statements   *)
(* on the database before it are not, so every operation has a step per     *)
(* statement and one for the locked part.                                   *)
(*                                                                          *)
(* Schedule.Enabled is left out: no code of the repository clears it.       *)
(***************************************************************************)
EXTENDS Naturals, FiniteSets

CONSTANTS
    Ops,         \* the operations users ask for
    Kind,        \* Kind[o] \in {"create", "update", "delete"}
    ScheduleOf,  \* the schedule operation o is about
    CronOf,      \* the cron expression (and command) operation o brings
    ChannelOf,   \* the channel the user asks in
    Schedules,   \* schedule ids
    Crons,       \* expressions that pass isValidCronExpr
    BadCrons,    \* those of them that gocron rejects, such as "99 * * * *"
    Runs,        \* run ids: bounds how often jobs fire
    MaxCrashes,  \* bound on the number of process deaths
    MaxFaults,   \* bound on the number of failed database statements
    None

ASSUME OperationsAssumption ==
    /\ Kind \in [Ops -> {"create", "update", "delete"}]
    /\ ScheduleOf \in [Ops -> Schedules]
    /\ CronOf \in [Ops -> Crons]
    /\ BadCrons \subseteq Crons
    /\ None \notin Crons \cup Ops \cup Schedules

ASSUME BoundsAssumption ==
    /\ MaxCrashes \in Nat
    /\ MaxFaults \in Nat

\* Create draws a fresh id, so a schedule has one creating operation.
ASSUME FreshIdAssumption ==
    \A o, p \in Ops : /\ Kind[o] = "create"
                      /\ Kind[p] = "create"
                      /\ ScheduleOf[o] = ScheduleOf[p]
                      => o = p

VARIABLES
    phase,     \* "up", or "down" between two lives of the process
    rows,      \* rows[s]: the cron expression stored for s, None without a row
    jobs,      \* Service.jobs[s]: the gocron job of s, None without one
    live,      \* the jobs that the gocron scheduler holds
    opPc,      \* opPc[o]: how far operation o has come
    snapshot,  \* snapshot[o]: the *model.Schedule operation o holds
    runPc,     \* runPc[r]: how far run r has come
    runJob,    \* runJob[r]: the job that fired run r
    session,   \* session[r]: the status of the session row of run r
    log,       \* log[r]: the schedule_logs row of run r
    bootFailed,\* a start of the process gave up in Bootstrap
    crashes,   \* how often the process died
    faults     \* how many database statements failed

opVars  == <<opPc, snapshot>>
jobVars == <<jobs, live>>
runVars == <<runPc, runJob, session, log>>
envVars == <<phase, bootFailed, crashes>>
vars    == <<rows, jobVars, opVars, runVars, envVars, faults>>

\* A gocron job: the schedule it belongs to, the version of the row its task
\* captured, and who registered it (an operation, or None for Bootstrap).
Job == [schedule : Schedules, cron : Crons, by : Ops \cup {None}]

ASSUME NoneAssumption == None \notin Job /\ None # "active"

OpStates  == {"idle", "writing", "reading", "locking", "done", "failed"}
Busy      == {"writing", "reading", "locking"}
RunStates == {"idle", "opening", "logging", "executing", "archiving",
              "over", "killed"}
Going     == {"opening", "logging", "executing", "archiving"}

Init ==
    /\ phase = "up"
    /\ rows = [s \in Schedules |-> None]
    /\ jobs = [s \in Schedules |-> None]
    /\ live = {}
    /\ opPc = [o \in Ops |-> "idle"]
    /\ snapshot = [o \in Ops |-> None]
    /\ runPc = [r \in Runs |-> "idle"]
    /\ runJob = [r \in Runs |-> None]
    /\ session = [r \in Runs |-> None]
    /\ log = [r \in Runs |-> None]
    /\ bootFailed = FALSE
    /\ crashes = 0
    /\ faults = 0

\* A database statement fails.
Fault == faults < MaxFaults /\ faults' = faults + 1

OpAt(o, place)  == phase = "up" /\ opPc[o] = place
RunAt(r, place) == phase = "up" /\ runPc[r] = place
OpGoes(o, place)  == opPc' = [opPc EXCEPT ![o] = place]
RunGoes(r, place) == runPc' = [runPc EXCEPT ![r] = place]

-----------------------------------------------------------------------------
(* CreateFromMessage and ManageFromMessage: choosing what to do *)

\* A channel's worker handles one message, so one operation, at a time. The
\* schedule of a delete or an update is one that ListByCreator returned.
StartOp(o) ==
    /\ OpAt(o, "idle")
    /\ \A p \in Ops : ChannelOf[p] = ChannelOf[o] => opPc[p] \notin Busy
    /\ Kind[o] = "create" \/ rows[ScheduleOf[o]] # None
    /\ OpGoes(o, IF Kind[o] = "delete" THEN "locking" ELSE "writing")
    /\ UNCHANGED <<rows, jobVars, snapshot, runVars, envVars, faults>>

(* Service.Create and Service.Update: the statements before the lock *)

\* Create inserts the row before the expression was ever shown to gocron.
InsertRow(o) ==
    /\ OpAt(o, "writing")
    /\ Kind[o] = "create"
    /\ \/ /\ rows' = [rows EXCEPT ![ScheduleOf[o]] = CronOf[o]]
          /\ snapshot' = [snapshot EXCEPT ![o] = CronOf[o]]
          /\ OpGoes(o, "locking")
          /\ UNCHANGED faults
       \/ Fault /\ OpGoes(o, "failed") /\ UNCHANGED <<rows, snapshot>>
    /\ UNCHANGED <<jobVars, runVars, envVars>>

\* UPDATE ... WHERE id = ? on a row that is gone changes nothing and is no error.
UpdateRow(o) ==
    /\ OpAt(o, "writing")
    /\ Kind[o] = "update"
    /\ \/ /\ rows' = [rows EXCEPT ![ScheduleOf[o]] = IF @ = None THEN None ELSE CronOf[o]]
          /\ OpGoes(o, "reading")
          /\ UNCHANGED faults
       \/ Fault /\ OpGoes(o, "failed") /\ UNCHANGED rows
    /\ UNCHANGED <<jobVars, snapshot, runVars, envVars>>

\* The row is read back; a missing row is an error.
ReadRow(o) ==
    LET row == rows[ScheduleOf[o]] IN
    /\ OpAt(o, "reading")
    /\ \/ /\ row # None
          /\ snapshot' = [snapshot EXCEPT ![o] = row]
          /\ OpGoes(o, "locking")
          /\ UNCHANGED faults
       \/ row = None /\ OpGoes(o, "failed") /\ UNCHANGED <<snapshot, faults>>
       \/ row # None /\ Fault /\ OpGoes(o, "failed") /\ UNCHANGED snapshot
    /\ UNCHANGED <<rows, jobVars, runVars, envVars>>

-----------------------------------------------------------------------------
(* The parts under Service.mu *)

\* Mutant: the old job is overwritten in the map but not removed from gocron.
ScheduleOne_NoRemove(o) ==
    LET s == ScheduleOf[o]
        j == [schedule |-> s, cron |-> snapshot[o], by |-> o]
    IN
    /\ OpAt(o, "locking")
    /\ Kind[o] # "delete"
    /\ snapshot[o] \notin BadCrons
    /\ jobs' = [jobs EXCEPT ![s] = j]
    /\ live' = live \cup {j}
    /\ OpGoes(o, "done")
    /\ UNCHANGED <<rows, snapshot, runVars, envVars, faults>>

\* scheduleOne: the old job is removed first, and stays removed when gocron
\* rejects the new expression.
ScheduleOne(o) ==
    LET s == ScheduleOf[o]
        j == [schedule |-> s, cron |-> snapshot[o], by |-> o]
    IN
    /\ OpAt(o, "locking")
    /\ Kind[o] # "delete"
    /\ IF snapshot[o] \in BadCrons
       THEN /\ jobs' = [jobs EXCEPT ![s] = None]
            /\ live' = live \ {jobs[s]}
            /\ OpGoes(o, "failed")
       ELSE /\ jobs' = [jobs EXCEPT ![s] = j]
            /\ live' = (live \ {jobs[s]}) \cup {j}
            /\ OpGoes(o, "done")
    /\ UNCHANGED <<rows, snapshot, runVars, envVars, faults>>

\* Mutant: only the row is deleted.
Delete_KeepsJob(o) ==
    /\ OpAt(o, "locking")
    /\ Kind[o] = "delete"
    /\ rows' = [rows EXCEPT ![ScheduleOf[o]] = None]
    /\ OpGoes(o, "done")
    /\ UNCHANGED <<jobVars, snapshot, runVars, envVars, faults>>

\* Delete: the job, then the row; when the row cannot be deleted the job is
\* gone all the same. The row is deleted under mu, but nobody who reads or
\* writes rows takes mu, and nothing between the two parts looks at the jobs.
Delete(o) ==
    LET s == ScheduleOf[o] IN
    /\ OpAt(o, "locking")
    /\ Kind[o] = "delete"
    /\ jobs' = [jobs EXCEPT ![s] = None]
    /\ live' = live \ {jobs[s]}
    /\ \/ rows' = [rows EXCEPT ![s] = None] /\ OpGoes(o, "done") /\ UNCHANGED faults
       \/ Fault /\ OpGoes(o, "failed") /\ UNCHANGED rows
    /\ UNCHANGED <<snapshot, runVars, envVars>>

-----------------------------------------------------------------------------
(* runNow *)

\* A job fires. Two runs of one job may overlap, and a run goes on after its job
\* was removed: its context is WithoutCancel. (The app of a schedule is known
\* unless it was taken out of the configuration; runNow then returns at once.)
Fire(r) ==
    /\ RunAt(r, "idle")
    /\ \E j \in live : runJob' = [runJob EXCEPT ![r] = j]
    /\ RunGoes(r, "opening")
    /\ UNCHANGED <<rows, jobVars, opVars, session, log, envVars, faults>>

\* createSession; like every statement of runNow, a failure is only logged.
OpenSession(r) ==
    /\ RunAt(r, "opening")
    /\ \/ session' = [session EXCEPT ![r] = "active"] /\ UNCHANGED faults
       \/ Fault /\ UNCHANGED session
    /\ RunGoes(r, "logging")
    /\ UNCHANGED <<rows, jobVars, opVars, runJob, log, envVars>>

\* The log row is inserted with status "ok" and no completed_at: "open".
OpenLog(r) ==
    /\ RunAt(r, "logging")
    /\ \/ log' = [log EXCEPT ![r] = "open"] /\ UNCHANGED faults
       \/ Fault /\ UNCHANGED log
    /\ RunGoes(r, "executing")
    /\ UNCHANGED <<rows, jobVars, opVars, runJob, session, envVars>>

\* Execute returns, the answer is sent and last_run_at is stored; then finishLog.
FinishLog(r, result) ==
    /\ RunAt(r, "executing")
    /\ \/ /\ log' = [log EXCEPT ![r] = IF @ = None THEN None ELSE result]
          /\ UNCHANGED faults
       \/ Fault /\ UNCHANGED log
    /\ RunGoes(r, "archiving")
    /\ UNCHANGED <<rows, jobVars, opVars, runJob, session, envVars>>

\* Mutant: the run ends without archiving its session.
ArchiveSession_Forgotten(r) ==
    /\ RunAt(r, "archiving")
    /\ RunGoes(r, "over")
    /\ UNCHANGED <<rows, jobVars, opVars, runJob, session, log, envVars, faults>>

ArchiveSession(r) ==
    /\ RunAt(r, "archiving")
    /\ \/ /\ session' = [session EXCEPT ![r] = IF @ = None THEN None ELSE "archived"]
          /\ UNCHANGED faults
       \/ Fault /\ UNCHANGED session
    /\ RunGoes(r, "over")
    /\ UNCHANGED <<rows, jobVars, opVars, runJob, log, envVars>>

-----------------------------------------------------------------------------
(* The process dies and starts again *)

Crash ==
    /\ phase = "up"
    /\ crashes < MaxCrashes
    /\ crashes' = crashes + 1
    /\ phase' = "down"
    /\ jobs' = [s \in Schedules |-> None]
    /\ live' = {}
    /\ opPc' = [o \in Ops |-> IF opPc[o] \in Busy THEN "failed" ELSE opPc[o]]
    /\ runPc' = [r \in Runs |-> IF runPc[r] \in Going THEN "killed" ELSE runPc[r]]
    /\ UNCHANGED <<rows, snapshot, runJob, session, log, bootFailed, faults>>

\* Mutant: the sessions of the life before are left as they are.
Boot_NoRecovery ==
    LET stored == {s \in Schedules : rows[s] # None} IN
    /\ phase = "down"
    /\ \A s \in stored : rows[s] \notin BadCrons
    /\ phase' = "up"
    /\ jobs' = [s \in Schedules |->
                  IF s \in stored THEN [schedule |-> s, cron |-> rows[s], by |-> None]
                  ELSE None]
    /\ live' = {jobs'[s] : s \in stored}
    /\ UNCHANGED <<rows, opVars, runVars, bootFailed, crashes, faults>>

\* main.run: the stale active sessions are archived (a failure is only logged),
\* and Bootstrap registers a job per row; on the first expression that gocron
\* rejects it gives up, and so does the process.
Boot ==
    LET stored == {s \in Schedules : rows[s] # None} IN
    /\ phase = "down"
    /\ \/ /\ session' = [r \in Runs |-> IF session[r] = "active" THEN "archived"
                                        ELSE session[r]]
          /\ UNCHANGED faults
       \/ Fault /\ UNCHANGED session
    /\ IF \E s \in stored : rows[s] \in BadCrons
       THEN bootFailed' = TRUE /\ UNCHANGED <<phase, jobVars>>
       ELSE /\ phase' = "up"
            /\ jobs' = [s \in Schedules |->
                          IF s \in stored
                          THEN [schedule |-> s, cron |-> rows[s], by |-> None]
                          ELSE None]
            /\ live' = {jobs'[s] : s \in stored}
            /\ UNCHANGED bootFailed
    /\ UNCHANGED <<rows, opVars, runPc, runJob, log, crashes>>

-----------------------------------------------------------------------------
OpStep(o) == StartOp(o) \/ InsertRow(o) \/ UpdateRow(o) \/ ReadRow(o)
             \/ ScheduleOne(o) \/ Delete(o)

RunStep(r) == \/ OpenSession(r) \/ OpenLog(r) \/ ArchiveSession(r)
              \/ \E result \in {"ok", "error"} : FinishLog(r, result)

Next ==
    \/ \E o \in Ops : OpStep(o)
    \/ \E r \in Runs : Fire(r) \/ RunStep(r)
    \/ Crash
    \/ Boot

Spec == Init /\ [][Next]_vars

\* The steps of an operation and of a run are taken, Claude answers scheduled
\* prompts, and a process that died is started again (daemon/ does that).
Fairness ==
    /\ \A o \in Ops : WF_vars(OpStep(o) /\ opPc[o] # "idle")
    /\ \A r \in Runs : WF_vars(RunStep(r))
    /\ WF_vars(Boot)

FairSpec == Spec /\ Fairness

-----------------------------------------------------------------------------
\* Every variable keeps its shape: operations, jobs and runs are where the code can
\* put them.
TypeOK ==
    /\ phase \in {"up", "down"}
    /\ rows \in [Schedules -> Crons \cup {None}]
    /\ jobs \in [Schedules -> Job \cup {None}]
    /\ live \subseteq Job
    /\ opPc \in [Ops -> OpStates]
    /\ snapshot \in [Ops -> Crons \cup {None}]
    /\ runPc \in [Runs -> RunStates]
    /\ runJob \in [Runs -> Job \cup {None}]
    /\ session \in [Runs -> {None, "active", "archived"}]
    /\ log \in [Runs -> {None, "open", "ok", "error"}]
    /\ bootFailed \in BOOLEAN
    /\ crashes \in 0..MaxCrashes
    /\ faults \in 0..MaxFaults

(* Invariants *)

\* scheduleOne, Delete: gocron holds exactly the jobs of the map. A job that fell
\* out of the map could never be removed again and would fire for ever.
NoOrphanJob == live = {jobs[s] : s \in Schedules} \ {None}

\* The job filed under s is a job of s: removing one job from gocron takes away
\* no other entry of the map.
JobsAreFiled == \A s \in Schedules : jobs[s] # None => jobs[s].schedule = s

\* An operation that is about to register a job holds the row it read or wrote.
HeldRow == \A o \in Ops : opPc[o] = "locking" /\ Kind[o] # "delete" => snapshot[o] \in Crons

\* However operations, runs, failures and restarts interleave, the job map and
\* gocron agree; the parts before NoOrphanJob make it inductive.
JobsInv == TypeOK /\ HeldRow /\ JobsAreFiled /\ NoOrphanJob

\* No operation on schedule s is under way.
Settled(s) == phase = "up" /\ \A o \in Ops : ScheduleOf[o] = s => opPc[o] \notin Busy

\* Schedule s has the job its row asks for, if gocron accepts it, and none otherwise.
JobMatches(s) ==
    IF rows[s] \in Crons \ BadCrons
    THEN jobs[s] # None /\ jobs[s].cron = rows[s]
    ELSE jobs[s] = None

\* What gocron runs is what the table says: a schedule whose operations are over
\* has a job of its stored version if gocron accepts it, and none otherwise.
\* True as long as one channel manages a schedule and no statement fails.
JobsFollowRows == \A s \in Schedules : faults = 0 /\ Settled(s) => JobMatches(s)

\* service.go: "Delete removes a schedule and its registered job." After a delete
\* was confirmed no job of the schedule is left to fire.
DeletedStaysSilent ==
    \A o \in Ops :
        Kind[o] = "delete" /\ opPc[o] = "done" =>
            \A j \in live : j.schedule # ScheduleOf[o]

\* What stands behind the two, as long as a schedule is managed from one channel.
ManagedFromOneChat ==
    \A o, p \in Ops : ScheduleOf[o] = ScheduleOf[p] => ChannelOf[o] = ChannelOf[p]

\* Its operations then come one after the other, ...
OneAtATime ==
    \A o, p \in Ops :
        ScheduleOf[o] = ScheduleOf[p] /\ opPc[o] \in Busy /\ opPc[p] \in Busy => o = p

\* ... none of them before the row was inserted, ...
NothingBefore ==
    \A o, p \in Ops :
        /\ Kind[o] = "create" /\ opPc[o] \in {"idle", "writing"}
        /\ ScheduleOf[p] = ScheduleOf[o]
        => rows[ScheduleOf[o]] = None /\ (p # o => opPc[p] = "idle")

\* ... and the row that one of them is about, or holds, stays as it is meanwhile.
RowIsKept ==
    \A o \in Ops : opPc[o] \in Busy =>
        /\ opPc[o] = "reading" => Kind[o] = "update"
        /\ (opPc[o] = "writing" /\ Kind[o] = "create") \/ rows[ScheduleOf[o]] # None
        /\ opPc[o] = "locking" /\ Kind[o] # "delete" => snapshot[o] = rows[ScheduleOf[o]]

\* An operation has written the row and not yet replaced the job.
Unapplied(o) == opPc[o] = "reading" \/ (opPc[o] = "locking" /\ Kind[o] # "delete")

JobsMatch ==
    \A s \in Schedules :
        /\ phase = "up" /\ faults = 0
        /\ \A o \in Ops : ScheduleOf[o] = s => ~Unapplied(o)
        => JobMatches(s)

\* A deleted schedule has no row, no job and nobody who works on it.
DeletedIsGone ==
    \A o \in Ops :
        Kind[o] = "delete" /\ opPc[o] = "done" =>
            /\ rows[ScheduleOf[o]] = None /\ jobs[ScheduleOf[o]] = None
            /\ \A p \in Ops : ScheduleOf[p] = ScheduleOf[o] => opPc[p] \notin Busy

ManagedInv == OneAtATime /\ NothingBefore /\ RowIsKept /\ JobsMatch /\ DeletedIsGone

\* service.go: "Update updates mutable fields of a schedule and reschedules the
\* job." After a confirmed update, with nothing else under way, the job of the
\* schedule runs what the row says.
UpdateReschedules ==
    \A o \in Ops :
        LET s == ScheduleOf[o] IN
        /\ Kind[o] = "update"
        /\ opPc[o] = "done"
        /\ Settled(s)
        /\ jobs[s] # None
        => jobs[s].cron = rows[s]

\* main.go archives what an unclean shutdown left: when no statement failed, an
\* active schedule session belongs to a run that is still going.
NoStaleSession ==
    \A r \in Runs :
        phase = "up" /\ faults = 0 /\ session[r] = "active" => runPc[r] \in Going

\* design.md 9.1: enabled schedules are restored from the database at startup.
BootRestores == ~bootFailed

(* Liveness *)

\* Every schedule session is archived in the end, by its run or by the next start,
\* unless a statement failed.
SessionsEndArchived ==
    \A r \in Runs : session[r] = "active" ~> session[r] = "archived" \/ faults > 0
=============================================================================
