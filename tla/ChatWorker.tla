----------------------------- MODULE ChatWorker -----------------------------
(***************************************************************************)
(* internal/session/worker.go, Worker.process for one channel: which        *)
(* session a message belongs to, /new, attachments that wait for their      *)
(* text, the recovery from an empty answer, and the summaries that are      *)
(* written in the background; and internal/cleanup/service.go, which removes *)
(* the attachments of old sessions every night, at any point of that work.   *)
(* SessionManager shows that the messages of a channel are processed one at   *)
(* a time; here they are.                                                    *)
(*                                                                          *)
(* The sessions of the channel are the sequence rows, in the order of       *)
(* created_at. What Claude is asked and answers is left out but for whether *)
(* it answers with a text, with nothing, or not at all.                     *)
(***************************************************************************)
EXTENDS Naturals, Sequences, FiniteSetsExt

CONSTANTS
    Messages,    \* messages of the channel
    KindOf,      \* KindOf[m] \in {"text", "attachment", "new"}
    MinMessages, \* how many messages make a session worth a summary (3)
    MaxFaults,   \* bound on failed statements and failed summaries
    MaxCrashes,  \* bound on the number of process deaths
    RetentionDays, \* cleanup.attachments_retention_days
    MaxDays,     \* cleanup.attachments_max_days
    LastDay,     \* bound on the days that pass
    None

ASSUME MessagesAssumption ==
    /\ KindOf \in [Messages -> {"text", "attachment", "new"}]
    /\ None \notin Messages
    /\ MinMessages \in Nat
    /\ MaxFaults \in Nat
    /\ MaxCrashes \in Nat
    /\ RetentionDays \in Nat
    /\ MaxDays \in Nat
    /\ LastDay \in Nat

VARIABLES
    state,     \* state[m]: "unsent", "taken", "done"
    present,   \* the channel has a worker
    pc,        \* where process is
    cur,       \* the message it works on
    sess,      \* the session it holds, an index of rows
    old,       \* oldSess of handleNew and handleNewSilent, 0 if not found
    pending,   \* pendingAttachmentPrompts: the message, and whose directory its file is
               \* in, 0 for the temporary directory
    files,     \* the files in the attachments directories, as in pending
    day,       \* the date
    condemned, \* sessions that the running cleanup has still to visit
    rows,      \* the sessions table of the channel
    procs,     \* sessions that the executor keeps a claude process for
    summaries, \* maybeAsyncSummarize goroutines, by their session
    cutoff,    \* how many sessions there were at the last /new (history)
    given,     \* given[m]: attachments merged into the prompt of m (history)
    faults,
    crashes

workVars == <<state, present, pc, cur, sess, old>>
fileVars == <<files, day, condemned>>
dbVars   == <<rows, procs>>
histVars == <<cutoff, given>>
vars     == <<workVars, pending, fileVars, dbVars, summaries, histVars, faults, crashes>>

\* born and touched are the days of created_at and updated_at; archived is the day
\* of the archiving, which no column holds.
Row == [active : BOOLEAN, titled : BOOLEAN, messages : Nat, summaries : Nat,
        born : Nat, touched : Nat, archived : Nat]
NewRow == [active |-> TRUE, titled |-> FALSE, messages |-> 0, summaries |-> 0,
           born |-> day, touched |-> day, archived |-> 0]

Steps == {"open", "record", "claude", "summarize", "archive", "create", "retry"}

Init ==
    /\ state = [m \in Messages |-> "unsent"]
    /\ present = FALSE
    /\ pc = "idle"
    /\ cur = None
    /\ sess = 0
    /\ old = 0
    /\ pending = {}
    /\ files = {}
    /\ day = 0
    /\ condemned = {}
    /\ rows = <<>>
    /\ procs = {}
    /\ summaries = {}
    /\ cutoff = 0
    /\ given = [m \in Messages |-> {}]
    /\ faults = 0
    /\ crashes = 0

Fault == faults < MaxFaults /\ faults' = faults + 1

Active == {i \in DOMAIN rows : rows[i].active}

\* WHERE status = 'active' ORDER BY created_at DESC; 0 is "record not found".
Newest == IF Active = {} THEN 0 ELSE Max(Active)

GoTo(step) == pc' = step /\ UNCHANGED <<state, present, cur>>

\* process returns.
Finish ==
    /\ pc' = "idle"
    /\ state' = [state EXCEPT ![cur] = "done"]
    /\ cur' = None
    /\ UNCHANGED present

-----------------------------------------------------------------------------
\* Mutant: /new leaves the attachments that wait for a text.
Take_KeepsPending(m) ==
    /\ pc = "idle"
    /\ state[m] = "unsent"
    /\ present' = TRUE
    /\ state' = [state EXCEPT ![m] = "taken"]
    /\ cur' = m
    /\ pc' = IF KindOf[m] = "new" THEN "archive" ELSE "open"
    /\ UNCHANGED <<sess, old, pending, dbVars, summaries, histVars, faults, crashes, fileVars>>

\* A message reaches the worker, a new one if the last has left. /new drops the
\* attachments that wait for a text.
Take(m) ==
    /\ pc = "idle"
    /\ state[m] = "unsent"
    /\ present' = TRUE
    /\ state' = [state EXCEPT ![m] = "taken"]
    /\ cur' = m
    /\ IF KindOf[m] = "new"
       THEN pc' = "archive" /\ pending' = {}
       ELSE pc' = "open" /\ UNCHANGED pending
    /\ UNCHANGED <<sess, old, dbVars, summaries, histVars, faults, crashes, fileVars>>

\* The probe of a group message says to stay silent; the other commands.
StaySilent ==
    /\ pc = "open"
    /\ Finish
    /\ UNCHANGED <<sess, old, pending, dbVars, summaries, histVars, faults, crashes, fileVars>>

\* Mutant: the oldest active session is taken.
OpenSession_Oldest ==
    /\ pc = "open"
    /\ GoTo("record")
    /\ IF Active # {}
       THEN sess' = Min(Active) /\ UNCHANGED rows
       ELSE rows' = Append(rows, NewRow) /\ sess' = Len(rows) + 1
    /\ UNCHANGED <<old, pending, procs, summaries, histVars, faults, crashes, fileVars>>

\* getOrCreateSession; when it fails the message is dropped without a word.
OpenSession ==
    /\ pc = "open"
    /\ \/ /\ GoTo("record")
          /\ IF Newest # 0
             THEN sess' = Newest /\ UNCHANGED rows
             ELSE rows' = Append(rows, NewRow) /\ sess' = Len(rows) + 1
          /\ UNCHANGED faults
       \/ Fault /\ Finish /\ UNCHANGED <<sess, rows>>
    /\ UNCHANGED <<old, pending, procs, summaries, histVars, crashes, fileVars>>

\* recordMessage into session i: a failure is only logged.
Recorded(i) == [rows EXCEPT ![i].messages = @ + 1]

\* maybeSetTitle of a session without a title.
Titled(r) == IF r.titled THEN r ELSE [r EXCEPT !.titled = TRUE, !.touched = day]

\* moveAttachments: the file of an attachment is moved to the session's directory.
Moved ==
    /\ files' = files \cup {<<cur, sess>>}
    /\ pending' = pending \cup {<<cur, sess>>}

\* The rest of preparePromptWithContext for an attachment alone: its file is moved
\* to the session, and it waits for a text. A file that cannot be moved stays
\* where it was downloaded to.
RecordAttachment ==
    /\ pc = "record"
    /\ KindOf[cur] = "attachment"
    /\ \/ Moved /\ rows' = Recorded(sess) /\ UNCHANGED faults
       \/ Moved /\ Fault /\ UNCHANGED rows
       \/ /\ Fault
          /\ pending' = pending \cup {<<cur, 0>>}
          /\ rows' = Recorded(sess)
          /\ UNCHANGED files
    /\ Finish
    /\ UNCHANGED <<sess, old, day, condemned, procs, summaries, histVars, crashes>>

\* The rest of preparePromptWithContext for a text: it takes all that wait along.
RecordText ==
    /\ pc = "record"
    /\ KindOf[cur] = "text"
    /\ \/ rows' = [Recorded(sess) EXCEPT ![sess] = Titled(@)] /\ UNCHANGED faults
       \/ Fault /\ rows' = [rows EXCEPT ![sess] = Titled(@)]
       \/ Fault /\ rows' = Recorded(sess)
    /\ pending' = {}
    /\ given' = [given EXCEPT ![cur] = pending]
    /\ GoTo("claude")
    /\ UNCHANGED <<sess, old, procs, summaries, cutoff, crashes, fileVars>>

\* interceptScheduleOps: a schedule was created or managed, and so replied.
ScheduleHandled ==
    /\ pc = "claude"
    /\ rows' = Recorded(sess)
    /\ Finish
    /\ UNCHANGED <<sess, old, pending, procs, summaries, histVars, faults, crashes, fileVars>>

\* runClaude fails or is cancelled: nothing is stored.
RunFails ==
    /\ pc = "claude"
    /\ procs' = procs \cup {sess}
    /\ Finish
    /\ UNCHANGED <<sess, old, pending, rows, summaries, histVars, faults, crashes, fileVars>>

\* persistResult of session i: the --resume id and the assistant's message.
Persisted(i) == [Recorded(i) EXCEPT ![i].touched = day]

\* runClaude answers. An empty answer starts the recovery.
RunEnds ==
    /\ pc = "claude"
    /\ procs' = procs \cup {sess}
    /\ \/ rows' = Persisted(sess) /\ UNCHANGED faults
       \/ Fault /\ rows' = Recorded(sess)
       \/ Fault /\ rows' = [rows EXCEPT ![sess].touched = day]
    /\ GoTo("summarize") \/ Finish
    /\ UNCHANGED <<sess, old, pending, summaries, histVars, crashes, fileVars>>

\* finishAndSendResult with an empty text: Summarize, and the summary is stored.
SummarizeOverflow ==
    /\ pc = "summarize"
    /\ \/ /\ rows' = [rows EXCEPT ![sess].summaries = @ + 1]
          /\ GoTo("archive")
          /\ UNCHANGED faults
       \/ Fault /\ Finish /\ UNCHANGED rows             \* no summary
       \/ Fault /\ GoTo("archive") /\ UNCHANGED rows    \* the row is not written
    /\ UNCHANGED <<sess, old, pending, procs, summaries, histVars, crashes, fileVars>>

-----------------------------------------------------------------------------
(* handleNewSilent, for /new and for the recovery *)

Archived ==
    [i \in DOMAIN rows |->
        IF i \in Active
        THEN [rows[i] EXCEPT !.active = FALSE, !.touched = day, !.archived = day]
        ELSE rows[i]]

\* Mutant: nothing is archived.
Archive_Forgotten ==
    /\ pc = "archive"
    /\ old' = Newest
    /\ procs' = procs \ {Newest}
    /\ GoTo("create")
    /\ UNCHANGED <<sess, rows, pending, summaries, histVars, faults, crashes, fileVars>>

\* Mutant: the claude process of the session is left alone.
Archive_NoCleanup ==
    /\ pc = "archive"
    /\ old' = Newest
    /\ rows' = Archived
    /\ GoTo("create")
    /\ UNCHANGED <<sess, procs, pending, summaries, histVars, faults, crashes, fileVars>>

\* Mutant: updated_at is not set when a session is archived.
Archive_NotTouched ==
    /\ pc = "archive"
    /\ old' = Newest
    /\ rows' = [i \in DOMAIN rows |->
                  IF i \in Active
                  THEN [rows[i] EXCEPT !.active = FALSE, !.archived = day]
                  ELSE rows[i]]
    /\ procs' = procs \ {old'}
    /\ GoTo("create")
    /\ UNCHANGED <<sess, pending, summaries, histVars, faults, crashes, fileVars>>

\* The old session is looked up, all active ones are archived, and the claude
\* process of the one looked up is removed.
Archive ==
    /\ pc = "archive"
    /\ \/ old' = Newest /\ rows' = Archived /\ UNCHANGED faults
       \/ old' = Newest /\ Fault /\ UNCHANGED rows
       \/ old' = 0 /\ Fault /\ rows' = Archived
    /\ procs' = procs \ {old'}
    /\ GoTo("create")
    /\ UNCHANGED <<sess, pending, summaries, histVars, crashes, fileVars>>

\* Mutant: the recovery, too, starts a summary in the background.
CreateSession_SummarizeTwice ==
    /\ pc = "create"
    /\ rows' = Append(rows, NewRow)
    /\ IF KindOf[cur] = "new"
       THEN cutoff' = Len(rows) /\ Finish /\ UNCHANGED sess
       ELSE sess' = Len(rows) + 1 /\ GoTo("retry") /\ UNCHANGED cutoff
    /\ summaries' = summaries \cup ({old} \ {0})
    /\ UNCHANGED <<old, given, pending, procs, faults, crashes, fileVars>>

\* Mutant: no summary is started.
CreateSession_NoSummary ==
    /\ pc = "create"
    /\ rows' = Append(rows, NewRow)
    /\ IF KindOf[cur] = "new"
       THEN cutoff' = Len(rows) /\ Finish /\ UNCHANGED sess
       ELSE sess' = Len(rows) + 1 /\ GoTo("retry") /\ UNCHANGED cutoff
    /\ UNCHANGED <<old, given, pending, procs, summaries, faults, crashes, fileVars>>

\* The new session. /new is acknowledged whether or not it was created, and the
\* summary of the old one is started in the background.
CreateSession ==
    /\ pc = "create"
    /\ \/ rows' = Append(rows, NewRow) /\ UNCHANGED faults
       \/ Fault /\ UNCHANGED rows
    /\ IF KindOf[cur] = "new"
       THEN /\ cutoff' = Len(rows)
            /\ summaries' = summaries \cup ({old} \ {0})
            /\ Finish
            /\ UNCHANGED sess
       ELSE /\ IF faults' = faults
               THEN sess' = Len(rows) + 1 /\ GoTo("retry")
               ELSE Finish /\ UNCHANGED sess
            /\ UNCHANGED <<cutoff, summaries>>
    /\ UNCHANGED <<old, given, pending, procs, crashes, fileVars>>

\* Mutant: the answer of the retry is stored in the session it did not fit in.
Retry_OldSession ==
    /\ pc = "retry"
    /\ procs' = procs \cup {sess}
    /\ rows' = Persisted(old)
    /\ Finish
    /\ UNCHANGED <<sess, old, pending, summaries, histVars, faults, crashes, fileVars>>

\* The question again, with the summary, in the new session.
Retry ==
    /\ pc = "retry"
    /\ procs' = procs \cup {sess}
    /\ \/ rows' = Persisted(sess) /\ UNCHANGED faults
       \/ Fault /\ rows' = Recorded(sess)
       \/ UNCHANGED <<rows, faults>>                    \* an error, or empty again
    /\ Finish
    /\ UNCHANGED <<sess, old, pending, summaries, histVars, crashes, fileVars>>

-----------------------------------------------------------------------------
\* maybeAsyncSummarize of session i.
SummarizeAsync(i) ==
    /\ i \in summaries
    /\ \/ rows[i].messages < MinMessages /\ UNCHANGED <<rows, faults>>
       \/ /\ rows[i].messages >= MinMessages
          /\ \/ rows' = [rows EXCEPT ![i].summaries = @ + 1] /\ UNCHANGED faults
             \/ Fault /\ UNCHANGED rows
    /\ summaries' = summaries \ {i}
    /\ procs' = procs \ {i}
    /\ UNCHANGED <<workVars, pending, histVars, crashes, fileVars>>

\* The worker has been idle for worker_idle_timeout_minutes and goes, and with it
\* what it kept in memory; the session stays active.
IdleExit ==
    /\ pc = "idle"
    /\ present
    /\ present' = FALSE
    /\ pending' = {}
    /\ UNCHANGED <<state, pc, cur, sess, old, fileVars, dbVars, summaries, histVars, faults,
                   crashes>>

\* The process ends, by a crash or by a restart (Manager.Wait does not wait for
\* summaries), and starts again; chat sessions are left as they are.
Crash ==
    /\ crashes < MaxCrashes
    /\ crashes' = crashes + 1
    /\ state' = [m \in Messages |-> IF m = cur THEN "done" ELSE state[m]]
    /\ present' = FALSE
    /\ pc' = "idle"
    /\ cur' = None
    /\ pending' = {}
    /\ procs' = {}
    /\ summaries' = {}
    /\ condemned' = {}
    /\ UNCHANGED <<sess, old, rows, files, day, histVars, faults>>

-----------------------------------------------------------------------------
(* cleanup/service.go *)

\* created_at lies before maxCutoff.
Outlived(i, today) == today - rows[i].born >= MaxDays

\* updated_at lies before retentionCutoff.
Quiet(i, today) == today - rows[i].touched >= RetentionDays

\* Mutant: the status of the session is not asked for.
Stale_AnyStatus(today) ==
    {i \in DOMAIN rows : Quiet(i, today) \/ Outlived(i, today)}

\* The query of cleanApp.
Stale(today) ==
    {i \in DOMAIN rows : (~rows[i].active /\ Quiet(i, today)) \/ Outlived(i, today)}

\* A day passes. The job of the night finds the sessions to clean up, unless its
\* query fails or the server is down at that hour.
Night ==
    /\ day < LastDay
    /\ day' = day + 1
    /\ condemned' \in {{}, Stale(day')}
    /\ UNCHANGED <<workVars, pending, files, dbVars, summaries, histVars, faults, crashes>>

\* The job removes the attachments directory of session i, or fails to.
CleanApp(i) ==
    /\ i \in condemned
    /\ condemned' = condemned \ {i}
    /\ files' \in {files, {f \in files : f[2] # i}}
    /\ UNCHANGED <<workVars, pending, day, dbVars, summaries, histVars, faults, crashes>>

-----------------------------------------------------------------------------
Process ==
    \/ StaySilent \/ OpenSession \/ RecordAttachment \/ RecordText \/ ScheduleHandled
    \/ RunFails \/ RunEnds \/ SummarizeOverflow \/ Archive \/ CreateSession \/ Retry

Next ==
    \/ \E m \in Messages : Take(m)
    \/ Process
    \/ \E i \in summaries : SummarizeAsync(i)
    \/ IdleExit
    \/ Night
    \/ \E i \in condemned : CleanApp(i)
    \/ Crash

Spec == Init /\ [][Next]_vars

\* The goroutines run, and Claude answers.
Fairness ==
    /\ WF_vars(Process)
    /\ \A i \in 1..(2 * Cardinality(Messages)) : WF_vars(SummarizeAsync(i))

FairSpec == Spec /\ Fairness

-----------------------------------------------------------------------------
\* Every variable keeps its shape, and what the worker holds are sessions that
\* exist.
TypeOK ==
    /\ state \in [Messages -> {"unsent", "taken", "done"}]
    /\ present \in BOOLEAN
    /\ pc \in Steps \cup {"idle"}
    /\ cur \in Messages \cup {None}
    /\ rows \in Seq(Row)
    /\ sess \in 0..Len(rows)
    /\ old \in 0..Len(rows)
    /\ pending \subseteq Messages \X (0..Len(rows))
    /\ files \subseteq Messages \X DOMAIN rows
    /\ day \in 0..LastDay
    /\ condemned \subseteq DOMAIN rows
    /\ procs \subseteq DOMAIN rows
    /\ summaries \subseteq DOMAIN rows
    /\ cutoff \in 0..Len(rows)
    /\ given \in [Messages -> SUBSET (Messages \X (0..Len(rows)))]
    /\ faults \in 0..MaxFaults
    /\ crashes \in 0..MaxCrashes

(* Invariants *)

\* getOrCreateSession, handleNewSilent: while no statement fails, a channel has
\* at most one active session, whatever is cut short by a crash.
OneActiveSession == faults = 0 => Cardinality(Active) <= 1

\* design.md 5.5: a text that comes after an acknowledged /new runs in a session
\* that is younger than every session before that /new, also when one of the
\* statements of /new failed.
NewStartsFresh == pc = "claude" /\ faults <= 1 => sess > cutoff

\* Attachments that wait for a text lie in the directory of the session that the
\* text will run in: /new and the recovery leave none of another session behind.
PendingIsCurrent == \A p \in pending : p[2] \in {0, Newest}

\* cleanup and preparePromptWithContext: the attachments that were merged into a
\* prompt are there when Claude runs, whatever the cleanup did since they were
\* received, unless their session has outlived attachments_max_days.
GivenFilesExist ==
    pc = "claude" =>
        \A p \in given[cur] : p[2] = 0 \/ p \in files \/ Outlived(p[2], day)

\* No claude process is kept for a session that was archived: whichever path
\* archives it, handleNewSilent also removes its process.
ArchivedHasNoProcess == faults = 0 => procs \subseteq Active

\* The sessions table, the worker and the executor's map fit together.
SessionsInv == TypeOK /\ OneActiveSession /\ ArchivedHasNoProcess

\* A session is summarised once: by /new or by the recovery, not by both. (A crash
\* after the summary of a recovery leaves the session active, to be summarised
\* again.)
SummarizedOnce ==
    faults = 0 /\ crashes = 0 =>
        \A i \in DOMAIN rows : rows[i].summaries <= 1

(* What the invariants rest on *)

\* process works in the newest active session from getOrCreateSession on, and only
\* a text gets as far as Claude.
WorksInNewest ==
    /\ pc \in {"record", "claude", "summarize", "retry"} => sess # 0 /\ sess = Newest
    /\ pc # "idle" => cur \in Messages
    /\ pc \in {"claude", "summarize", "retry"} => KindOf[cur] = "text"
    /\ pc \in {"archive", "create"} => KindOf[cur] # "attachment"

\* A text, the recovery from an empty answer and /new leave no attachment waiting.
NonePendingLater ==
    pc \in {"claude", "summarize", "archive", "create", "retry"} => pending = {}

\* While no statement fails, at most one session is active, and none between the
\* archiving and the creation of the next.
AtMostOneActive ==
    faults = 0 =>
        /\ \A i, j \in Active : i = j
        /\ pc = "create" => Active = {}

\* After at most one failed statement the newest active session is younger than
\* all that were there at the last /new, or there is none.
FreshOrNone == faults <= 1 => Newest = 0 \/ Newest > cutoff

\* The attachments that wait, and those given to the running text, are in the
\* current session, and their files are there unless that session is too old.
There(p) == p[2] = 0 \/ p \in files \/ Outlived(p[2], day)
FilesAreThere ==
    /\ \A p \in pending : There(p)
    /\ pc = "claude" => \A p \in given[cur] : There(p) /\ p[2] \in {0, sess}

\* What the cleanup goes through was due when the job of the night began, and
\* still is: an archived session is never written to or activated again.
CondemnedAreDue ==
    /\ \A i \in DOMAIN rows : ~rows[i].active => rows[i].archived <= rows[i].touched
    /\ \A i \in condemned :
        \/ Outlived(i, day)
        \/ ~rows[i].active /\ day - rows[i].archived >= RetentionDays

\* A session waits for its summary when it was archived by /new, and has none yet;
\* an active session has none but in the recovery, on the way to its archiving.
SummariesInv ==
    faults = 0 /\ crashes = 0 =>
        /\ \A i \in summaries : ~rows[i].active /\ rows[i].summaries = 0
        /\ \A i \in Active :
              rows[i].summaries = 0
              \/ (pc = "archive" /\ KindOf[cur] # "new" /\ rows[i].summaries = 1)
        /\ pc = "create" /\ KindOf[cur] = "new" /\ old # 0 =>
              rows[old].summaries = 0 /\ old \notin summaries /\ ~rows[old].active

\* The inductive invariant behind all of these.
WorkerInv ==
    /\ SessionsInv /\ PendingIsCurrent /\ SummarizedOnce
    /\ WorksInNewest /\ NonePendingLater /\ AtMostOneActive /\ FreshOrNone
    /\ FilesAreThere /\ CondemnedAreDue /\ SummariesInv

(* Action properties *)

\* Nothing is recorded in an archived session: the history that the retriever
\* injects elsewhere is final.
ArchivedIsFinal ==
    [][\A i \in DOMAIN rows : ~rows[i].active =>
          /\ rows'[i].messages = rows[i].messages
          /\ ~rows'[i].active]_vars

\* docs/configuration.md: attachments stay for attachments_retention_days after the
\* session was archived; only attachments_max_days after its creation they may go
\* earlier.
FilesAreRetained ==
    [][\A f \in files \ files' :
          \/ Outlived(f[2], day)
          \/ ~rows[f[2]].active /\ day - rows[f[2]].archived >= RetentionDays]_vars

(* Liveness *)

SummaryDue(i) ==
    i \in DOMAIN rows /\ ~rows[i].active /\ rows[i].messages >= MinMessages

Summarized(i) == i \in DOMAIN rows /\ rows[i].summaries > 0

\* maybeAsyncSummarize, and the summary of the recovery: an archived session with
\* enough messages gets its summary in the end, unless a statement failed or the
\* process died.
ArchivedIsSummarized ==
    \A i \in 1..(2 * Cardinality(Messages)) :
        SummaryDue(i) ~> Summarized(i) \/ faults > 0 \/ crashes > 0

(* What a document says of the code, and is not so *)

\* design.md, section 4: "An archived session gets a session_summaries row, for later
\* retrieval".
SummarySurvives ==
    \A i \in 1..(2 * Cardinality(Messages)) : SummaryDue(i) ~> Summarized(i)

\* requirements.md: "A worker exits after its idle timeout and archives the
\* session."
IdleExitArchives ==
    [][present /\ ~present' /\ crashes' = crashes =>
          \A i \in DOMAIN rows : ~rows'[i].active]_vars

\* design.md 5.4: an attachment is cached, and "the next text message is
\* automatically merged with it"; only /new makes the worker forget it.
NextTextTakesAttachments ==
    [][\A p \in pending \ pending' :
          pc' = "archive" \/ \E t \in Messages : p \in given'[t]]_vars

\* design.md 9.3: the cleanup removes the attachments "of archived sessions".
OnlyArchivedIsCleaned == [][\A f \in files \ files' : ~rows[f[2]].active]_vars
=============================================================================
