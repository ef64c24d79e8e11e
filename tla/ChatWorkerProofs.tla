-------------------------- MODULE ChatWorkerProofs --------------------------
(* Proofs about ChatWorker: one inductive invariant, WorkerInv, and from it   *)
(* what /new, the attachments, the summaries and the nightly cleanup promise. *)
EXTENDS ChatWorker, FiniteSetTheorems, WellFoundedInduction, TLAPS

\* A set of numbers that has a member and a bound has a greatest member, Max.
LEMMA MaxOfBounded ==
  ASSUME NEW n \in Nat, NEW S \in SUBSET (0 .. n), S # {}
  PROVE  Max(S) \in S /\ \A x \in S : x <= Max(S)
<1> DEFINE below == {n - x : x \in S}
<1>1. below \subseteq Nat /\ below # {}
  <2>1. \A x \in S : n - x \in Nat
    OBVIOUS
  <2> QED BY <2>1
<1>2. PICK d \in below : \A e \in below : ~(<<e, d>> \in OpToRel(<, Nat))
  BY <1>1, NatLessThanWellFounded, WFMin
<1>3. \A a, b \in Nat : a < b => <<a, b>> \in OpToRel(<, Nat)
  <2> TAKE a \in Nat, b \in Nat
  <2>1. OpToRel(<, Nat) = {p \in Nat \X Nat : p[1] < p[2]}
    BY DEF OpToRel
  <2> QED BY <2>1
<1>4. \A e \in below : d <= e
  <2> TAKE e \in below
  <2> HIDE DEF below
  <2>1. e \in Nat /\ d \in Nat
    BY <1>1
  <2>2. ~(e < d)
    BY <1>2, <1>3, <2>1
  <2> QED BY <2>1, <2>2
<1>5. PICK y \in S : d = n - y
  OBVIOUS
<1>6. \A x \in S : y >= x
  <2> TAKE x \in S
  <2>1. n - y <= n - x
    BY <1>4, <1>5
  <2> QED BY <2>1
<1> QED BY <1>6 DEF Max

-----------------------------------------------------------------------------
(* The sessions table *)

\* A row is rewritten, all others stay.
LEMMA RowUpdated ==
  ASSUME rows \in Seq(Row), NEW i \in DOMAIN rows, NEW r \in Row
  PROVE  LET new == [rows EXCEPT ![i] = r]
         IN  /\ new \in Seq(Row) /\ DOMAIN new = DOMAIN rows /\ Len(new) = Len(rows)
             /\ new[i] = r
             /\ \A j \in DOMAIN rows \ {i} : new[j] = rows[j]
OBVIOUS

\* A new session comes after all others, active and without messages.
LEMMA RowAppended ==
  ASSUME rows \in Seq(Row), day \in Nat
  PROVE  LET new == Append(rows, NewRow)
         IN  /\ new \in Seq(Row) /\ Len(new) = Len(rows) + 1
             /\ DOMAIN new = DOMAIN rows \cup {Len(rows) + 1}
             /\ Len(rows) + 1 \notin DOMAIN rows
             /\ new[Len(rows) + 1] = NewRow
             /\ \A j \in DOMAIN rows : new[j] = rows[j]
<1>1. NewRow \in Row
  BY DEF NewRow, Row
<1> QED BY <1>1

\* Archiving writes every active row, and no other.
LEMMA RowsArchived ==
  ASSUME rows \in Seq(Row), day \in Nat
  PROVE  /\ Archived \in Seq(Row) /\ DOMAIN Archived = DOMAIN rows
         /\ Len(Archived) = Len(rows)
         /\ \A i \in Active :
              /\ ~Archived[i].active /\ Archived[i].archived = day
              /\ Archived[i].touched = day
              /\ Archived[i].born = rows[i].born
              /\ Archived[i].messages = rows[i].messages
              /\ Archived[i].summaries = rows[i].summaries
         /\ \A i \in DOMAIN rows \ Active : Archived[i] = rows[i] /\ ~rows[i].active
<1> DEFINE a(i) == IF i \in Active
                   THEN [rows[i] EXCEPT !.active = FALSE, !.touched = day, !.archived = day]
                   ELSE rows[i]
<1>1. \A i \in DOMAIN rows : rows[i] \in Row /\ a(i) \in Row
  <2>1. \A i \in DOMAIN rows : rows[i] \in Row
    OBVIOUS
  <2>2. \A r \in Row : [r EXCEPT !.active = FALSE, !.touched = day, !.archived = day] \in Row
    BY DEF Row
  <2> QED BY <2>1, <2>2
<1>2. Archived = [i \in 1 .. Len(rows) |-> a(i)]
  BY DEF Archived
<1>3. Archived \in Seq(Row) /\ DOMAIN Archived = DOMAIN rows /\ Len(Archived) = Len(rows)
  <2>1. DOMAIN rows = 1 .. Len(rows) /\ Len(rows) \in Nat
    OBVIOUS
  <2> HIDE DEF a
  <2>2. Archived \in [1 .. Len(rows) -> Row]
    BY <1>1, <1>2, <2>1
  <2> QED BY <1>2, <2>1, <2>2
<1>4. \A i \in Active : i \in DOMAIN rows
  BY DEF Active
<1>5. \A i \in DOMAIN rows \ Active : ~rows[i].active
  BY DEF Active
<1> QED BY <1>1, <1>2, <1>3, <1>4, <1>5 DEF Row

\* The newest session is the last of the active ones, if there are any.
NewestFacts ==
    /\ Newest = 0 <=> Active = {}
    /\ Newest # 0 => Newest \in Active /\ Newest \in DOMAIN rows
    /\ \A i \in Active : i <= Newest
    /\ Newest \in 0 .. Len(rows)

\* So it is for every table.
LEMMA NewestIsLast == rows \in Seq(Row) => NewestFacts
<1> SUFFICES ASSUME rows \in Seq(Row) PROVE NewestFacts
  OBVIOUS
<1>1. Len(rows) \in Nat /\ DOMAIN rows = 1 .. Len(rows)
  OBVIOUS
<1>2. Active \subseteq 1 .. Len(rows)
  BY <1>1 DEF Active
<1>3. Active # {} => Max(Active) \in Active /\ \A i \in Active : i <= Max(Active)
  <2>1. Active \in SUBSET (0 .. Len(rows))
    BY <1>1, <1>2
  <2> QED BY <1>1, <2>1, MaxOfBounded
<1>4. CASE Active = {}
  BY <1>1, <1>4 DEF Newest, NewestFacts
<1>5. CASE Active # {}
  <2>1. Newest = Max(Active)
    BY <1>5 DEF Newest
  <2>2. Newest \in Active /\ \A i \in Active : i <= Newest
    BY <1>3, <1>5, <2>1
  <2>3. Newest \in 1 .. Len(rows)
    BY <1>2, <2>2
  <2> QED BY <1>1, <1>5, <2>2, <2>3 DEF NewestFacts
<1> QED BY <1>4, <1>5

\* The worker writes into active sessions: who is active, how old the sessions are
\* and their summaries stay, and so do the archived sessions.
Writes ==
    /\ rows' \in Seq(Row) /\ DOMAIN rows' = DOMAIN rows /\ Len(rows') = Len(rows)
    /\ \A i \in DOMAIN rows :
        /\ rows'[i].active = rows[i].active /\ rows'[i].born = rows[i].born
        /\ rows'[i].archived = rows[i].archived /\ rows'[i].summaries = rows[i].summaries
    /\ \A i \in DOMAIN rows \ Active : rows'[i] = rows[i]

\* A summary of session i is stored.
Summarises(i) ==
    /\ i \in DOMAIN rows
    /\ rows' = [rows EXCEPT ![i].summaries = @ + 1]

\* What every step grants: no session goes, an archived one stays as it is but for
\* its summaries, and none gets another date of creation.
Later ==
    /\ rows' \in Seq(Row) /\ Len(rows) <= Len(rows') /\ DOMAIN rows \subseteq DOMAIN rows'
    /\ \A i \in DOMAIN rows :
        /\ rows'[i].born = rows[i].born
        /\ ~rows[i].active =>
            /\ ~rows'[i].active /\ rows'[i].messages = rows[i].messages
            /\ rows'[i].archived = rows[i].archived /\ rows'[i].touched = rows[i].touched

\* What a write into row q of an active session keeps.
Like(r, q) ==
    /\ r \in Row /\ r.active = q.active /\ r.born = q.born
    /\ r.archived = q.archived /\ r.summaries = q.summaries

\* A message, an update and a title do.
LEMMA RowWritten ==
  ASSUME NEW q \in Row, NEW today \in Nat
  PROVE  /\ Like([q EXCEPT !.messages = @ + 1], q)
         /\ Like([q EXCEPT !.touched = today], q)
         /\ Like([q EXCEPT !.titled = TRUE, !.touched = today], q)
<1>1. Like([q EXCEPT !.messages = @ + 1], q)
  <2>1. q.messages + 1 \in Nat
    BY DEF Row
  <2> QED BY <2>1 DEF Row, Like
<1>2. Like([q EXCEPT !.touched = today], q)
  BY DEF Row, Like
<1>3. Like([q EXCEPT !.titled = TRUE, !.touched = today], q)
  BY DEF Row, Like
<1> QED BY <1>1, <1>2, <1>3

\* Each thing that process writes into a session it works in is such a write.
LEMMA WorkWrites ==
  ASSUME rows \in Seq(Row), day \in Nat, NEW i \in Active,
         rows' \in {rows, Recorded(i), [rows EXCEPT ![i].touched = day], Persisted(i),
                    [Recorded(i) EXCEPT ![i] = Titled(@)], [rows EXCEPT ![i] = Titled(@)]}
  PROVE  Writes
<1>1. i \in DOMAIN rows /\ rows[i] \in Row /\ rows[i].active
  BY DEF Active
<1>2. ASSUME NEW r \in Row, r.active, r.born = rows[i].born,
             r.archived = rows[i].archived, r.summaries = rows[i].summaries,
             rows' = [rows EXCEPT ![i] = r]
      PROVE  Writes
  <2>1. /\ rows' \in Seq(Row) /\ DOMAIN rows' = DOMAIN rows /\ Len(rows') = Len(rows)
        /\ rows'[i] = r /\ \A j \in DOMAIN rows \ {i} : rows'[j] = rows[j]
    BY <1>1, <1>2, RowUpdated
  <2>2. rows'[i].active = rows[i].active
    BY <1>1, <1>2, <2>1 DEF Row
  <2>3. \A j \in DOMAIN rows \ Active : j # i
    OBVIOUS
  <2> QED BY <1>2, <2>1, <2>2, <2>3 DEF Writes
<1> DEFINE m == [rows[i] EXCEPT !.messages = @ + 1]
           t == [rows[i] EXCEPT !.touched = day]
           tm == [m EXCEPT !.touched = day]
           mt == Titled(m)
           ti == Titled(rows[i])
<1>3. \A r \in {m, t, tm, mt, ti} : Like(r, rows[i])
  <2>1. \A q \in Row : Like([q EXCEPT !.messages = @ + 1], q)
    BY RowWritten
  <2>2. \A q \in Row : Like([q EXCEPT !.touched = day], q)
    BY RowWritten
  <2>3. \A q \in Row : Like(Titled(q), q)
    <3> TAKE q \in Row
    <3>1. Like(q, q) /\ Like([q EXCEPT !.titled = TRUE, !.touched = day], q)
      BY RowWritten DEF Like
    <3> QED BY <3>1 DEF Titled
  <2>4. Like(m, rows[i]) /\ Like(t, rows[i]) /\ Like(ti, rows[i])
    BY <1>1, <2>1, <2>2, <2>3
  <2>5. Like(tm, m) /\ Like(mt, m)
    <3> HIDE DEF m
    <3>1. m \in Row
      BY <2>4 DEF Like
    <3> QED BY <2>2, <2>3, <3>1
  <2> HIDE DEF m, t, tm, mt, ti
  <2> QED BY <2>4, <2>5 DEF Like
<1>4. \/ rows' = rows
      \/ \E r \in {m, t, tm, mt, ti} : rows' = [rows EXCEPT ![i] = r]
  <2>1. Recorded(i) = [rows EXCEPT ![i] = m] /\ Recorded(i)[i] = m
    BY <1>1 DEF Recorded
  <2>2. Persisted(i) = [rows EXCEPT ![i] = tm]
    BY <1>1, <2>1 DEF Persisted
  <2>3. [Recorded(i) EXCEPT ![i] = Titled(@)] = [rows EXCEPT ![i] = mt]
    BY <1>1, <2>1
  <2> HIDE DEF m, tm, mt
  <2> QED BY <2>1, <2>2, <2>3
<1>5. CASE rows' = rows
  BY <1>5 DEF Writes
<1> HIDE DEF m, t, tm, mt, ti
<1> QED BY <1>1, <1>2, <1>3, <1>4, <1>5 DEF Like

\* Such a write leaves the active sessions and the newest of them the same.
LEMMA WritesKeep == Writes => Active' = Active /\ Newest' = Newest /\ Later
<1> SUFFICES ASSUME Writes PROVE Active' = Active /\ Newest' = Newest /\ Later
  OBVIOUS
<1>1. Active' = Active
  BY DEF Writes, Active
<1>2. Newest' = Newest
  BY <1>1 DEF Newest
<1>3. Len(rows) <= Len(rows')
  BY DEF Writes
<1>4. Later
  BY <1>3 DEF Writes, Later, Active
<1> QED BY <1>1, <1>2, <1>4

\* Storing a summary changes nothing else.
LEMMA SummarisesKeep ==
  ASSUME rows \in Seq(Row), NEW i, Summarises(i)
  PROVE  /\ Active' = Active /\ Newest' = Newest /\ Later
         /\ DOMAIN rows' = DOMAIN rows /\ Len(rows') = Len(rows)
         /\ rows'[i].summaries = rows[i].summaries + 1
         /\ \A j \in DOMAIN rows :
              /\ rows'[j].active = rows[j].active /\ rows'[j].touched = rows[j].touched
              /\ rows'[j].archived = rows[j].archived /\ rows'[j].born = rows[j].born
              /\ j # i => rows'[j] = rows[j]
<1> DEFINE r == [rows[i] EXCEPT !.summaries = @ + 1]
<1>1. i \in DOMAIN rows /\ rows[i] \in Row
  BY DEF Summarises
<1>2. /\ r \in Row /\ r.active = rows[i].active /\ r.touched = rows[i].touched
      /\ r.archived = rows[i].archived /\ r.born = rows[i].born
      /\ r.messages = rows[i].messages /\ r.summaries = rows[i].summaries + 1
  <2>1. \A q \in Row :
          LET s == [q EXCEPT !.summaries = @ + 1]
          IN  /\ s \in Row /\ s.active = q.active /\ s.touched = q.touched
              /\ s.archived = q.archived /\ s.born = q.born
              /\ s.messages = q.messages /\ s.summaries = q.summaries + 1
    BY DEF Row
  <2> QED BY <1>1, <2>1
<1>3. rows' = [rows EXCEPT ![i] = r]
  BY <1>1 DEF Summarises
<1> HIDE DEF r
<1>4. /\ rows' \in Seq(Row) /\ DOMAIN rows' = DOMAIN rows /\ Len(rows') = Len(rows)
      /\ rows'[i] = r /\ \A j \in DOMAIN rows \ {i} : rows'[j] = rows[j]
  BY <1>1, <1>2, <1>3, RowUpdated
<1>5. \A j \in DOMAIN rows :
        /\ rows'[j].active = rows[j].active /\ rows'[j].touched = rows[j].touched
        /\ rows'[j].archived = rows[j].archived /\ rows'[j].born = rows[j].born
        /\ rows'[j].messages = rows[j].messages
        /\ j # i => rows'[j] = rows[j]
  BY <1>2, <1>4
<1>6. Active' = Active
  BY <1>4, <1>5 DEF Active
<1>7. Newest' = Newest
  BY <1>6 DEF Newest
<1>8. Later
  BY <1>4, <1>5 DEF Later
<1> QED BY <1>2, <1>4, <1>5, <1>6, <1>7, <1>8

\* A new session is the newest.
LEMMA AppendKeeps ==
  ASSUME rows \in Seq(Row), day \in Nat, rows' = Append(rows, NewRow)
  PROVE  /\ Active' = Active \cup {Len(rows) + 1} /\ Newest' = Len(rows) + 1 /\ Later
         /\ rows'[Len(rows) + 1] = NewRow /\ Len(rows') = Len(rows) + 1
         /\ DOMAIN rows' = DOMAIN rows \cup {Len(rows) + 1}
         /\ \A j \in DOMAIN rows : rows'[j] = rows[j]
<1> DEFINE n == Len(rows) + 1
<1>1. /\ rows' \in Seq(Row) /\ Len(rows') = n /\ DOMAIN rows' = DOMAIN rows \cup {n}
      /\ n \notin DOMAIN rows /\ rows'[n] = NewRow /\ \A j \in DOMAIN rows : rows'[j] = rows[j]
  BY RowAppended
<1>2. n \in Nat /\ DOMAIN rows = 1 .. Len(rows) /\ n > Len(rows) /\ Len(rows) \in Nat
  OBVIOUS
<1> HIDE DEF n
<1>3. Active' = Active \cup {n}
  BY <1>1 DEF Active, NewRow
<1>4. Newest' = n
  <2>1. (rows \in Seq(Row))' => NewestFacts'
    BY NewestIsLast, PTL
  <2>2. n <= Newest' /\ Newest' \in 0 .. n
    BY <1>1, <1>3, <2>1 DEF NewestFacts
  <2> QED BY <1>2, <2>2
<1>5. Later
  BY <1>1, <1>2 DEF Later
<1> QED BY <1>1, <1>3, <1>4, <1>5 DEF n

\* After the archiving no session is active.
LEMMA ArchiveKeeps ==
  ASSUME rows \in Seq(Row), day \in Nat, rows' = Archived
  PROVE  Active' = {} /\ Newest' = 0 /\ Later
<1>1. Active' = {}
  BY RowsArchived DEF Active
<1>2. Newest' = 0
  BY <1>1 DEF Newest
<1>3. \A i \in DOMAIN rows : i \in Active <=> rows[i].active
  BY DEF Active
<1>4. Len(rows) <= Len(rows')
  BY RowsArchived
<1>5. \A i \in DOMAIN rows : rows'[i].born = rows[i].born
  BY RowsArchived
<1>6. \A i \in DOMAIN rows : ~rows[i].active => rows'[i] = rows[i]
  BY <1>3, RowsArchived
<1>7. Later
  BY <1>4, <1>5, <1>6, RowsArchived DEF Later
<1> QED BY <1>1, <1>2, <1>7

-----------------------------------------------------------------------------
(* What each step does to the table *)

\* The steps that only write into the session that the worker works in, if at all.
WritingStep ==
    \/ \E m \in Messages : Take(m)
    \/ StaySilent \/ RecordAttachment \/ RecordText \/ ScheduleHandled \/ RunFails
    \/ RunEnds \/ Retry \/ IdleExit \/ Night \/ Crash
    \/ \E i \in condemned : CleanApp(i)
    \/ UNCHANGED vars

\* What the worker works in is the newest session, which is active.
LEMMA WorksInActive ==
  ASSUME WorkerInv
  PROVE  /\ rows \in Seq(Row) /\ day \in Nat /\ Len(rows) \in Nat /\ DOMAIN rows = 1 .. Len(rows)
         /\ NewestFacts
         /\ pc \in {"record", "claude", "summarize", "retry"} =>
              sess \in Active /\ sess \in DOMAIN rows /\ sess = Newest
<1>1. rows \in Seq(Row) /\ day \in Nat
  BY MessagesAssumption DEF WorkerInv, SessionsInv, TypeOK
<1>2. NewestFacts
  BY <1>1, NewestIsLast
<1> QED BY <1>1, <1>2 DEF WorkerInv, WorksInNewest, NewestFacts

\* Those steps are writes, indeed.
LEMMA WritingStepWrites == WorkerInv /\ WritingStep => Writes
<1> SUFFICES ASSUME WorkerInv, WritingStep PROVE Writes
  OBVIOUS
<1>1. /\ rows \in Seq(Row) /\ day \in Nat
      /\ pc \in {"record", "claude", "summarize", "retry"} => sess \in Active
  BY WorksInActive
<1>2. ASSUME rows' = rows PROVE Writes
  BY <1>1, <1>2 DEF Writes
<1>3. ASSUME RecordAttachment \/ RecordText \/ ScheduleHandled \/ RunEnds \/ Retry
      PROVE  Writes
  <2>1. pc \in {"record", "claude", "retry"}
    BY <1>3 DEF RecordAttachment, RecordText, ScheduleHandled, RunEnds, Retry
  <2>2. rows' \in {rows, Recorded(sess), [rows EXCEPT ![sess].touched = day], Persisted(sess),
                   [Recorded(sess) EXCEPT ![sess] = Titled(@)],
                   [rows EXCEPT ![sess] = Titled(@)]}
    BY <1>3 DEF RecordAttachment, RecordText, ScheduleHandled, RunEnds, Retry
  <2> QED BY <1>1, <2>1, <2>2, WorkWrites
<1>4. \/ rows' = rows
      \/ RecordAttachment \/ RecordText \/ ScheduleHandled \/ RunEnds \/ Retry
  BY DEF WritingStep, Take, StaySilent, RunFails, IdleExit, Night, Crash, CleanApp, vars, dbVars
<1> QED BY <1>2, <1>3, <1>4

\* The other steps each change the table in a way of their own.
LEMMA OtherSteps ==
  ASSUME WorkerInv
  PROVE  /\ OpenSession =>
              \/ rows' = rows
              \/ rows' = Append(rows, NewRow) /\ Active = {} /\ pc' = "record"
         /\ SummarizeOverflow => rows' = rows \/ Summarises(sess)
         /\ \A i \in summaries : SummarizeAsync(i) => rows' = rows \/ Summarises(i)
         /\ Archive => rows' = rows \/ rows' = Archived
         /\ CreateSession => rows' = rows \/ rows' = Append(rows, NewRow)
<1>1. OpenSession =>
              \/ rows' = rows
              \/ rows' = Append(rows, NewRow) /\ Active = {} /\ pc' = "record"
  BY WorksInActive DEF OpenSession, GoTo, NewestFacts
<1>2. SummarizeOverflow => rows' = rows \/ Summarises(sess)
  BY WorksInActive DEF SummarizeOverflow, Summarises
<1>3. \A i \in summaries : SummarizeAsync(i) => rows' = rows \/ Summarises(i)
  BY DEF SummarizeAsync, Summarises, WorkerInv, SessionsInv, TypeOK
<1>4. Archive => rows' = rows \/ rows' = Archived
  BY DEF Archive
<1>5. CreateSession => rows' = rows \/ rows' = Append(rows, NewRow)
  BY DEF CreateSession
<1> QED BY <1>1, <1>2, <1>3, <1>4, <1>5

\* Every step keeps the history of the sessions.
LEMMA NextLater == WorkerInv /\ [Next]_vars => Later
<1> SUFFICES ASSUME WorkerInv, [Next]_vars PROVE Later
  OBVIOUS
<1>1. rows \in Seq(Row) /\ day \in Nat
  BY WorksInActive
<1>2. ASSUME rows' = rows PROVE Later
  <2>1. Writes
    BY <1>1, <1>2 DEF Writes
  <2> QED BY <2>1, WritesKeep
<1>3. CASE WritingStep
  BY <1>3, WritingStepWrites, WritesKeep
<1>4. CASE OpenSession \/ CreateSession
  BY <1>1, <1>2, <1>4, OtherSteps, AppendKeeps
<1>5. CASE Archive
  BY <1>1, <1>2, <1>5, OtherSteps, ArchiveKeeps
<1>6. CASE SummarizeOverflow
  BY <1>1, <1>2, <1>6, OtherSteps, SummarisesKeep
<1>7. CASE \E i \in summaries : SummarizeAsync(i)
  BY <1>1, <1>2, <1>7, OtherSteps, SummarisesKeep
<1> QED BY <1>3, <1>4, <1>5, <1>6, <1>7 DEF Next, Process, WritingStep

-----------------------------------------------------------------------------
(* The types *)

\* What pointed to a session still does when the table has grown.
LEMMA PointersStay ==
  ASSUME TypeOK, Later
  PROVE  /\ sess \in 0 .. Len(rows') /\ old \in 0 .. Len(rows') /\ cutoff \in 0 .. Len(rows')
         /\ pending \subseteq Messages \X (0 .. Len(rows'))
         /\ files \subseteq Messages \X DOMAIN rows'
         /\ condemned \subseteq DOMAIN rows' /\ procs \subseteq DOMAIN rows'
         /\ summaries \subseteq DOMAIN rows'
         /\ given \in [Messages -> SUBSET (Messages \X (0 .. Len(rows')))]
         /\ Len(rows) \in 0 .. Len(rows') /\ DOMAIN rows' = 1 .. Len(rows')
         /\ 0 \in 0 .. Len(rows') /\ DOMAIN rows = 1 .. Len(rows)
<1>1. Len(rows) \in Nat /\ Len(rows') \in Nat /\ DOMAIN rows' = 1 .. Len(rows')
      /\ DOMAIN rows = 1 .. Len(rows)
  BY DEF TypeOK, Later
<1>2. 0 .. Len(rows) \subseteq 0 .. Len(rows') /\ DOMAIN rows \subseteq DOMAIN rows'
  BY <1>1 DEF Later
<1>3. \A S \in SUBSET (Messages \X (0 .. Len(rows))) : S \subseteq Messages \X (0 .. Len(rows'))
  BY <1>2
<1> HIDE DEF Later
<1>4. given \in [Messages -> SUBSET (Messages \X (0 .. Len(rows')))]
  BY <1>3 DEF TypeOK
<1>5. files \subseteq Messages \X DOMAIN rows'
  BY <1>2 DEF TypeOK
<1> QED BY <1>1, <1>2, <1>3, <1>4, <1>5 DEF TypeOK, Later

\* Every step keeps the types.
LEMMA NextType == WorkerInv /\ [Next]_vars => TypeOK'
<1> SUFFICES ASSUME WorkerInv, [Next]_vars PROVE TypeOK'
  OBVIOUS
<1>1. TypeOK /\ Later /\ WorksInNewest
  BY NextLater DEF WorkerInv, SessionsInv
<1>2. /\ sess \in 0 .. Len(rows') /\ old \in 0 .. Len(rows') /\ cutoff \in 0 .. Len(rows')
      /\ pending \subseteq Messages \X (0 .. Len(rows'))
      /\ files \subseteq Messages \X DOMAIN rows'
      /\ condemned \subseteq DOMAIN rows' /\ procs \subseteq DOMAIN rows'
      /\ summaries \subseteq DOMAIN rows'
      /\ given \in [Messages -> SUBSET (Messages \X (0 .. Len(rows')))]
      /\ Len(rows) \in 0 .. Len(rows') /\ DOMAIN rows' = 1 .. Len(rows')
      /\ 0 \in 0 .. Len(rows') /\ DOMAIN rows = 1 .. Len(rows)
      /\ rows' \in Seq(Row)
  BY <1>1, PointersStay DEF Later
<1>3. /\ state \in [Messages -> {"unsent", "taken", "done"}]
      /\ present \in BOOLEAN /\ pc \in Steps \cup {"idle"}
      /\ cur \in Messages \cup {None}
      /\ day \in 0 .. LastDay /\ faults \in 0 .. MaxFaults /\ crashes \in 0 .. MaxCrashes
  BY <1>1 DEF TypeOK
<1>4. MaxFaults \in Nat /\ MaxCrashes \in Nat /\ LastDay \in Nat
  BY MessagesAssumption
<1>5. Fault => faults' \in 0 .. MaxFaults
  BY <1>3, <1>4 DEF Fault
<1>6. \A step \in Steps :
        GoTo(step) => /\ state' \in [Messages -> {"unsent", "taken", "done"}]
                      /\ present' \in BOOLEAN /\ pc' \in Steps \cup {"idle"}
                      /\ cur' \in Messages \cup {None}
  BY <1>3 DEF GoTo
<1>7. Finish => /\ state' \in [Messages -> {"unsent", "taken", "done"}]
                /\ present' \in BOOLEAN /\ pc' \in Steps \cup {"idle"}
                /\ cur' \in Messages \cup {None}
  BY <1>3 DEF Finish
<1>8. /\ pc = "record" => cur \in Messages /\ sess \in DOMAIN rows'
      /\ pc \in {"claude", "retry"} => sess \in DOMAIN rows'
  <2>1. pc \in {"record", "claude", "retry"} => sess \in DOMAIN rows
    BY WorksInActive
  <2> QED BY <1>1, <2>1 DEF WorksInNewest, Later
<1>9. {"open", "record", "claude", "summarize", "archive", "create", "retry"} = Steps
  BY DEF Steps
<1> DEFINE worker == /\ state' \in [Messages -> {"unsent", "taken", "done"}]
                     /\ present' \in BOOLEAN /\ pc' \in Steps \cup {"idle"}
                     /\ cur' \in Messages \cup {None}
                     /\ sess' \in 0 .. Len(rows') /\ old' \in 0 .. Len(rows')
           store == /\ pending' \subseteq Messages \X (0 .. Len(rows'))
                    /\ files' \subseteq Messages \X DOMAIN rows'
                    /\ day' \in 0 .. LastDay
                    /\ condemned' \subseteq DOMAIN rows'
                    /\ procs' \subseteq DOMAIN rows' /\ summaries' \subseteq DOMAIN rows'
           rest == /\ cutoff' \in 0 .. Len(rows')
                   /\ given' \in [Messages -> SUBSET (Messages \X (0 .. Len(rows')))]
                   /\ faults' \in 0 .. MaxFaults /\ crashes' \in 0 .. MaxCrashes
<1>10. SUFFICES worker /\ store /\ rest
  BY <1>2 DEF TypeOK
<1>11. ASSUME NEW m \in Messages, Take(m) PROVE worker /\ store /\ rest
  BY <1>2, <1>3, <1>9, <1>11 DEF Take, histVars, fileVars, dbVars
<1>12. ASSUME StaySilent PROVE worker /\ store /\ rest
  BY <1>2, <1>3, <1>7, <1>12 DEF StaySilent, histVars, fileVars, dbVars
<1>13. ASSUME OpenSession PROVE worker /\ store /\ rest
  <2>1. sess' \in 0 .. Len(rows')
    <3>1. Newest \in 0 .. Len(rows)
      BY WorksInActive DEF NewestFacts
    <3>2. rows' = Append(rows, NewRow) => Len(rows) + 1 \in 0 .. Len(rows')
      BY WorksInActive, AppendKeeps
    <3> QED BY <1>2, <1>13, <3>1, <3>2 DEF OpenSession
  <2>2. worker
    BY <1>2, <1>6, <1>7, <1>9, <1>13, <2>1 DEF OpenSession
  <2> QED BY <1>2, <1>3, <1>5, <1>13, <2>2 DEF OpenSession, histVars, fileVars
<1>14. ASSUME RecordAttachment PROVE worker /\ store /\ rest
  BY <1>2, <1>3, <1>5, <1>7, <1>8, <1>14 DEF RecordAttachment, Moved, histVars
<1>15. ASSUME RecordText PROVE worker /\ store /\ rest
  BY <1>2, <1>3, <1>5, <1>6, <1>9, <1>15 DEF RecordText, fileVars
<1>16. ASSUME ScheduleHandled PROVE worker /\ store /\ rest
  BY <1>2, <1>3, <1>7, <1>16 DEF ScheduleHandled, histVars, fileVars
<1>17. ASSUME RunFails PROVE worker /\ store /\ rest
  BY <1>2, <1>3, <1>7, <1>8, <1>17 DEF RunFails, histVars, fileVars
<1>18. ASSUME RunEnds PROVE worker /\ store /\ rest
  BY <1>2, <1>3, <1>5, <1>6, <1>7, <1>8, <1>9, <1>18 DEF RunEnds, histVars, fileVars
<1>19. ASSUME SummarizeOverflow PROVE worker /\ store /\ rest
  BY <1>2, <1>3, <1>5, <1>6, <1>7, <1>9, <1>19 DEF SummarizeOverflow, histVars, fileVars
<1>20. ASSUME Archive PROVE worker /\ store /\ rest
  <2>1. Newest \in 0 .. Len(rows')
    BY <1>2, WorksInActive DEF NewestFacts
  <2> QED BY <1>2, <1>3, <1>5, <1>6, <1>9, <1>20, <2>1 DEF Archive, histVars, fileVars
<1>21. ASSUME CreateSession PROVE worker /\ store /\ rest
  <2>1. sess' \in 0 .. Len(rows')
    <3>1. rows' = Append(rows, NewRow) => Len(rows) + 1 \in 0 .. Len(rows')
      BY WorksInActive, AppendKeeps
    <3>2. Fault => faults' # faults
      BY <1>3 DEF Fault
    <3> QED BY <1>2, <1>21, <3>1, <3>2 DEF CreateSession
  <2>2. old # 0 => old \in DOMAIN rows'
    BY <1>2
  <2>3. worker
    BY <1>2, <1>6, <1>7, <1>9, <1>21, <2>1 DEF CreateSession
  <2>4. cutoff' \in 0 .. Len(rows') /\ summaries' \subseteq DOMAIN rows'
    BY <1>2, <1>21, <2>2 DEF CreateSession
  <2> QED BY <1>2, <1>3, <1>5, <1>21, <2>3, <2>4 DEF CreateSession, fileVars
<1>22. ASSUME Retry PROVE worker /\ store /\ rest
  BY <1>2, <1>3, <1>5, <1>7, <1>8, <1>22 DEF Retry, histVars, fileVars
<1>23. ASSUME NEW i \in summaries, SummarizeAsync(i) PROVE worker /\ store /\ rest
  BY <1>2, <1>3, <1>5, <1>23 DEF SummarizeAsync, workVars, histVars, fileVars
<1>24. ASSUME IdleExit PROVE worker /\ store /\ rest
  BY <1>2, <1>3, <1>24 DEF IdleExit, histVars, fileVars, dbVars
<1>25. ASSUME Crash PROVE worker /\ store /\ rest
  <2>1. \A m \in Messages :
          (IF m = cur THEN "done" ELSE state[m]) \in {"unsent", "taken", "done"}
    BY <1>3
  <2>2. state' \in [Messages -> {"unsent", "taken", "done"}]
    BY <1>25, <2>1 DEF Crash
  <2>3. worker
    BY <1>2, <1>25, <2>2 DEF Crash
  <2>4. store
    BY <1>2, <1>3, <1>25 DEF Crash
  <2>5. rest
    BY <1>2, <1>3, <1>4, <1>25 DEF Crash, histVars
  <2> QED BY <2>3, <2>4, <2>5
<1>26. ASSUME Night PROVE worker /\ store /\ rest
  <2>1. Stale(day') \subseteq DOMAIN rows
    BY DEF Stale
  <2>2. condemned' \subseteq DOMAIN rows' /\ day' \in 0 .. LastDay
    BY <1>1, <1>3, <1>4, <1>26, <2>1 DEF Night, Later
  <2> QED BY <1>2, <1>3, <1>26, <2>2 DEF Night, workVars, histVars, dbVars
<1>27. ASSUME NEW i \in condemned, CleanApp(i) PROVE worker /\ store /\ rest
  <2>1. condemned' \subseteq condemned /\ files' \subseteq files
    BY <1>27 DEF CleanApp
  <2> QED BY <1>2, <1>3, <1>27, <2>1 DEF CleanApp, workVars, histVars, dbVars
<1>28. ASSUME UNCHANGED vars PROVE worker /\ store /\ rest
  BY <1>2, <1>3, <1>28 DEF vars, workVars, histVars, dbVars, fileVars
<1> QED BY <1>11, <1>12, <1>13, <1>14, <1>15, <1>16, <1>17, <1>18, <1>19, <1>20, <1>21, <1>22,
           <1>23, <1>24, <1>25, <1>26, <1>27, <1>28 DEF Next, Process

-----------------------------------------------------------------------------
(* The sessions and the worker *)

\* What a step does to the newest session, to the active ones and to the place of
\* process: the facts that the next lemmas share.
Effect ==
    \/ /\ Active' = Active /\ Newest' = Newest
       /\ pc' \in {"record", "claude", "summarize", "retry"} =>
            sess' = Newest /\ sess' # 0
       /\ pc' = "create" => pc = "create" \/ (pc = "archive" /\ faults' > faults)
    \/ /\ Active' = Active \cup {Len(rows) + 1} /\ Newest' = Len(rows) + 1
       /\ pc' \in {"record", "claude", "summarize", "retry"} => sess' = Len(rows) + 1
       /\ pc' # "create"
       /\ pc \in {"open", "create"} /\ (pc = "open" => Active = {})
    \/ /\ Active' = {} /\ Newest' = 0 /\ pc = "archive" /\ pc' = "create"

\* Statements fail, or not.
LEMMA FaultsGrow == WorkerInv /\ [Next]_vars => faults \in Nat /\ faults' \in Nat /\ faults <= faults'
<1> SUFFICES ASSUME WorkerInv, [Next]_vars
             PROVE  faults \in Nat /\ faults' \in Nat /\ faults <= faults'
  OBVIOUS
<1>1. faults \in Nat /\ (Fault => faults' = faults + 1)
  BY MessagesAssumption DEF WorkerInv, SessionsInv, TypeOK, Fault
<1>2. faults' = faults \/ Fault
  <2>1. CASE WritingStep
    BY <2>1 DEF WritingStep, Take, StaySilent, RecordAttachment, RecordText, ScheduleHandled,
                RunFails, RunEnds, Retry, IdleExit, Night, Crash, CleanApp, vars
  <2>2. CASE OpenSession \/ CreateSession \/ Archive \/ SummarizeOverflow
    BY <2>2 DEF OpenSession, CreateSession, Archive, SummarizeOverflow
  <2>3. CASE \E i \in summaries : SummarizeAsync(i)
    BY <2>3 DEF SummarizeAsync
  <2> QED BY <2>1, <2>2, <2>3 DEF Next, Process, WritingStep
<1> QED BY <1>1, <1>2

\* Every step has one of these effects.
LEMMA NextEffect == WorkerInv /\ [Next]_vars => Effect
<1> SUFFICES ASSUME WorkerInv, [Next]_vars PROVE Effect
  OBVIOUS
<1>1. /\ rows \in Seq(Row) /\ day \in Nat /\ Len(rows) + 1 # 0
      /\ pc \in {"record", "claude", "summarize", "retry"} => sess = Newest /\ sess # 0
  BY WorksInActive DEF WorkerInv, WorksInNewest
<1>2. rows' = rows => Active' = Active /\ Newest' = Newest
  BY DEF Active, Newest
<1>3. faults \in Nat /\ (Fault => faults' > faults)
  BY MessagesAssumption DEF WorkerInv, SessionsInv, TypeOK, Fault
<1>4. CASE WritingStep
  <2>1. Active' = Active /\ Newest' = Newest
    BY <1>4, WritingStepWrites, WritesKeep
  <2>2. \/ pc' \in {"idle", "open", "archive"}
        \/ pc' = pc /\ sess' = sess
        \/ sess' = sess /\ pc \in {"record", "claude"} /\ pc' # "create"
    BY <1>4 DEF WritingStep, Take, StaySilent, RecordAttachment, RecordText, ScheduleHandled,
                RunFails, RunEnds, Retry, IdleExit, Night, Crash, CleanApp, vars, workVars,
                GoTo, Finish
  <2> QED BY <1>1, <2>1, <2>2 DEF Effect
<1>5. CASE OpenSession
  <2>1. pc = "open" /\ pc' \in {"record", "idle"}
    BY <1>5 DEF OpenSession, GoTo, Finish
  <2>2. CASE rows' = rows
    <3>1. pc' = "record" => sess' = Newest /\ sess' # 0
      <4>1. Append(rows, NewRow) # rows
        BY <1>1, RowAppended
      <4> QED BY <1>5, <2>2, <4>1 DEF OpenSession, Finish
    <3> QED BY <1>2, <2>1, <2>2, <3>1 DEF Effect
  <2>3. CASE rows' = Append(rows, NewRow) /\ Active = {} /\ pc' = "record"
    <3>1. sess' = Len(rows) + 1
      <4>1. Append(rows, NewRow) # rows
        BY <1>1, RowAppended
      <4> QED BY <1>5, <2>3, <4>1 DEF OpenSession
    <3> QED BY <1>1, <2>1, <2>3, <3>1, AppendKeeps DEF Effect
  <2> QED BY <1>5, <2>2, <2>3, OtherSteps
<1>6. CASE CreateSession
  <2>1. pc = "create" /\ pc' \in {"retry", "idle"}
    BY <1>6 DEF CreateSession, GoTo, Finish
  <2>2. Append(rows, NewRow) # rows
    BY <1>1, RowAppended
  <2>3. pc' = "retry" => rows' = Append(rows, NewRow) /\ sess' = Len(rows) + 1
    BY <1>3, <1>6, <2>2 DEF CreateSession, Finish
  <2>4. CASE rows' = rows
    BY <1>2, <2>1, <2>2, <2>3, <2>4 DEF Effect
  <2>5. CASE rows' = Append(rows, NewRow)
    BY <1>1, <2>1, <2>3, <2>5, AppendKeeps DEF Effect
  <2> QED BY <1>6, <2>4, <2>5, OtherSteps
<1>7. CASE Archive
  <2>1. pc = "archive" /\ pc' = "create"
    BY <1>7 DEF Archive, GoTo
  <2>2. CASE rows' = Archived
    BY <1>1, <2>1, <2>2, ArchiveKeeps DEF Effect
  <2>3. CASE rows' = rows /\ faults' > faults
    BY <1>2, <2>1, <2>3 DEF Effect
  <2> QED BY <1>3, <1>7, <2>2, <2>3 DEF Archive
<1>8. CASE SummarizeOverflow
  <2>1. pc' \in {"archive", "idle"}
    BY <1>8 DEF SummarizeOverflow, GoTo, Finish
  <2>2. Active' = Active /\ Newest' = Newest
    BY <1>1, <1>2, <1>8, OtherSteps, SummarisesKeep
  <2> QED BY <2>1, <2>2 DEF Effect
<1>9. CASE \E i \in summaries : SummarizeAsync(i)
  <2>1. pc' = pc /\ sess' = sess
    BY <1>9 DEF SummarizeAsync, workVars
  <2>2. Active' = Active /\ Newest' = Newest
    BY <1>1, <1>2, <1>9, OtherSteps, SummarisesKeep
  <2> QED BY <1>1, <2>1, <2>2 DEF Effect
<1> QED BY <1>4, <1>5, <1>6, <1>7, <1>8, <1>9 DEF Next, Process, WritingStep

\* process goes on in the newest session, with a text when it reaches Claude.
LEMMA NextWorksInNewest == WorkerInv /\ [Next]_vars => WorksInNewest'
<1> SUFFICES ASSUME WorkerInv, [Next]_vars PROVE WorksInNewest'
  OBVIOUS
<1>1. pc' \in {"record", "claude", "summarize", "retry"} => sess' # 0 /\ sess' = Newest'
  <2>1. Len(rows) + 1 # 0
    BY WorksInActive
  <2> QED BY <2>1, NextEffect DEF Effect
<1>2. /\ pc # "idle" => cur \in Messages
      /\ pc \in {"claude", "summarize", "retry"} => KindOf[cur] = "text"
      /\ pc \in {"archive", "create"} => KindOf[cur] # "attachment"
      /\ cur \in Messages => KindOf[cur] \in {"text", "attachment", "new"}
  BY MessagesAssumption DEF WorkerInv, WorksInNewest
<1>3. /\ pc' # "idle" => cur' \in Messages
      /\ pc' \in {"claude", "summarize", "retry"} => KindOf[cur'] = "text"
      /\ pc' \in {"archive", "create"} => KindOf[cur'] # "attachment"
  <2>1. CASE \E m \in Messages : Take(m)
    BY <2>1 DEF Take
  <2>2. CASE pc' = "idle"
    BY <2>2
  <2>3. CASE pc' = pc /\ cur' = cur
    BY <1>2, <2>3
  <2>4. CASE RecordText
    BY <1>2, <2>4 DEF RecordText, GoTo
  <2>5. CASE OpenSession \/ RunEnds \/ SummarizeOverflow \/ Archive
    BY <1>2, <2>5 DEF OpenSession, RunEnds, SummarizeOverflow, Archive, GoTo, Finish
  <2>6. CASE CreateSession
    BY <1>2, <2>6 DEF CreateSession, GoTo, Finish
  <2>7. StaySilent \/ RecordAttachment \/ ScheduleHandled \/ RunFails \/ Retry \/ Crash => pc' = "idle"
    BY DEF StaySilent, RecordAttachment, ScheduleHandled, RunFails, Retry, Crash, Finish
  <2>8. IdleExit \/ Night \/ (\E i \in condemned : CleanApp(i))
        \/ (\E i \in summaries : SummarizeAsync(i)) \/ UNCHANGED vars => pc' = pc /\ cur' = cur
    BY DEF IdleExit, Night, CleanApp, SummarizeAsync, vars, workVars
  <2> QED BY <2>1, <2>2, <2>3, <2>4, <2>5, <2>6, <2>7, <2>8 DEF Next, Process
<1> QED BY <1>1, <1>3 DEF WorksInNewest

\* While no statement fails, at most one session is active.
LEMMA NextAtMostOne == WorkerInv /\ [Next]_vars => AtMostOneActive'
<1> SUFFICES ASSUME WorkerInv, [Next]_vars, faults' = 0
             PROVE  /\ \A i, j \in Active' : i = j
                    /\ pc' = "create" => Active' = {}
  BY DEF AtMostOneActive
<1>1. Effect /\ faults = 0 /\ ~(faults' > faults)
  BY NextEffect, FaultsGrow
<1>2. (\A i, j \in Active : i = j) /\ (pc = "create" => Active = {})
  BY <1>1 DEF WorkerInv, AtMostOneActive
<1> QED BY <1>1, <1>2 DEF Effect

\* cutoff moves with /new only, to the last of the sessions that were there.
LEMMA NextCutoff ==
  ASSUME [Next]_vars
  PROVE  cutoff' = cutoff \/ (CreateSession /\ cutoff' = Len(rows))
<1>1. CreateSession => cutoff' \in {cutoff, Len(rows)}
  BY DEF CreateSession
<1>2. CreateSession \/ cutoff' = cutoff
  BY DEF Next, Process, Take, StaySilent, OpenSession, RecordAttachment, RecordText, ScheduleHandled,
         RunFails, RunEnds, SummarizeOverflow, Archive, Retry, SummarizeAsync, IdleExit, Night,
         CleanApp, Crash, vars, histVars
<1> QED BY <1>1, <1>2

\* After one failed statement at most, what is active is younger than /new.
LEMMA NextFresh == WorkerInv /\ [Next]_vars => FreshOrNone'
<1> SUFFICES ASSUME WorkerInv, [Next]_vars, faults' <= 1
             PROVE  Newest' = 0 \/ Newest' > cutoff'
  BY DEF FreshOrNone
<1>1. Effect /\ faults \in Nat /\ faults' \in Nat /\ faults <= faults'
  BY NextEffect, FaultsGrow
<1>2. Newest = 0 \/ Newest > cutoff
  BY <1>1 DEF WorkerInv, FreshOrNone
<1>3. /\ cutoff \in 0 .. Len(rows) /\ rows \in Seq(Row) /\ day \in Nat
      /\ Len(rows) \in Nat /\ NewestFacts
  BY WorksInActive DEF WorkerInv, SessionsInv, TypeOK
<1>4. cutoff' \in 0 .. Len(rows) /\ (cutoff' = cutoff \/ CreateSession)
  BY <1>3, NextCutoff
<1>5. ASSUME CreateSession, Newest' = Newest PROVE Newest' = 0
  <2>1. rows' = rows => faults' = faults + 1
    BY <1>3, <1>5, RowAppended DEF CreateSession, Fault
  <2>2. rows' = rows
    <3>1. rows' = Append(rows, NewRow) => Newest' = Len(rows) + 1
      BY <1>3, AppendKeeps
    <3> QED BY <1>3, <1>5, <3>1, OtherSteps DEF NewestFacts
  <2>3. faults = 0 /\ pc = "create"
    BY <1>1, <1>5, <2>1, <2>2 DEF CreateSession
  <2> QED BY <1>3, <1>5, <2>3 DEF WorkerInv, AtMostOneActive, NewestFacts
<1>6. CASE Newest' = Newest
  BY <1>2, <1>4, <1>5, <1>6
<1>7. CASE Newest' = Len(rows) + 1
  BY <1>3, <1>4, <1>7
<1> QED BY <1>1, <1>6, <1>7 DEF Effect

\* A claude process is only kept for a session that is active.
LEMMA NextProcs == WorkerInv /\ [Next]_vars => ArchivedHasNoProcess'
<1> SUFFICES ASSUME WorkerInv, [Next]_vars, faults' = 0 PROVE procs' \subseteq Active'
  BY DEF ArchivedHasNoProcess
<1>1. Effect /\ faults = 0 /\ ~(faults' > faults) /\ faults \in Nat
  BY NextEffect, FaultsGrow
<1>2. procs \subseteq Active /\ (\A i, j \in Active : i = j)
  BY <1>1 DEF WorkerInv, SessionsInv, ArchivedHasNoProcess, AtMostOneActive
<1>3. pc \in {"claude", "retry"} => sess \in Active
  BY WorksInActive
<1>4. CASE Archive
  <2>1. procs' = procs \ {Newest} /\ rows' = Archived
    BY <1>1, <1>4 DEF Archive, Fault
  <2>2. procs' = {}
    <3>1. NewestFacts
      BY WorksInActive
    <3> QED BY <1>2, <2>1, <3>1 DEF NewestFacts
  <2> QED BY <2>2
<1>5. CASE ~Archive
  <2>1. procs' \subseteq Active
    <3>1. CASE RunFails \/ RunEnds \/ Retry
      BY <1>2, <1>3, <3>1 DEF RunFails, RunEnds, Retry
    <3>2. CASE procs' \subseteq procs
      BY <1>2, <3>2
    <3>3. \/ RunFails \/ RunEnds \/ Retry
          \/ procs' \subseteq procs
      BY <1>5 DEF Next, Process, Take, StaySilent, OpenSession, RecordAttachment, RecordText,
         ScheduleHandled, SummarizeOverflow, CreateSession, SummarizeAsync, IdleExit, Night,
         CleanApp, Crash, vars, dbVars
    <3> QED BY <3>1, <3>2, <3>3
  <2>2. pc = "archive" /\ pc' = "create" => Archive
    <3>1. UNCHANGED <<pc>> \/ pc' # "create" \/ Archive
      BY DEF Next, Process, Take, StaySilent, OpenSession, RecordAttachment, RecordText,
         ScheduleHandled, RunFails, RunEnds, Retry, SummarizeOverflow, CreateSession,
         SummarizeAsync, IdleExit, Night, CleanApp, Crash, vars, workVars, GoTo, Finish
    <3> QED BY <3>1
  <2> QED BY <1>1, <1>5, <2>1, <2>2 DEF Effect
<1> QED BY <1>4, <1>5

\* So at most one session is active, counted.
LEMMA ActiveCounted == AtMostOneActive => OneActiveSession
<1> SUFFICES ASSUME AtMostOneActive, faults = 0 PROVE Cardinality(Active) <= 1
  BY DEF OneActiveSession
<1>1. CASE Active = {}
  BY <1>1, FS_EmptySet
<1>2. ASSUME NEW i \in Active PROVE Cardinality(Active) <= 1
  <2>1. Active = {i}
    BY DEF AtMostOneActive
  <2> QED BY <2>1, FS_Singleton
<1> QED BY <1>1, <1>2

-----------------------------------------------------------------------------
(* The attachments *)

\* Which attachments wait after a step.
LEMMA NextPending ==
  ASSUME WorkerInv, [Next]_vars
  PROVE  \/ pending' \subseteq pending
         \/ RecordAttachment /\ pending' \subseteq pending \cup {<<cur, sess>>, <<cur, 0>>}
<1>1. RecordAttachment => pending' \subseteq pending \cup {<<cur, sess>>, <<cur, 0>>}
  BY DEF RecordAttachment, Moved
<1>2. RecordAttachment \/ pending' \subseteq pending
  BY DEF Next, Process, Take, StaySilent, OpenSession, RecordText, ScheduleHandled,
         RunFails, RunEnds, SummarizeOverflow, Archive, CreateSession, Retry, SummarizeAsync,
         IdleExit, Night, CleanApp, Crash, vars
<1> QED BY <1>1, <1>2

\* From the text on, none waits.
LEMMA NextNonePending == WorkerInv /\ [Next]_vars => NonePendingLater'
<1> SUFFICES ASSUME WorkerInv, [Next]_vars,
                    pc' \in {"claude", "summarize", "archive", "create", "retry"}
             PROVE  pending' = {}
  BY DEF NonePendingLater
<1>1. pc \in {"claude", "summarize", "archive", "create", "retry"} => pending = {}
  BY DEF WorkerInv, NonePendingLater
<1>2. CASE \E m \in Messages : Take(m)
  BY <1>2 DEF Take
<1>3. CASE RecordText
  BY <1>3 DEF RecordText
<1>4. CASE pending' = pending /\ pc \in {"claude", "summarize", "archive", "create", "retry"}
  BY <1>1, <1>4
<1>5. \/ \E m \in Messages : Take(m)
      \/ RecordText
      \/ pending' = pending /\ pc \in {"claude", "summarize", "archive", "create", "retry"}
  BY DEF Next, Process, StaySilent, OpenSession, RecordAttachment, ScheduleHandled,
         RunFails, RunEnds, SummarizeOverflow, Archive, CreateSession, Retry, SummarizeAsync,
         IdleExit, Night, CleanApp, Crash, vars, workVars, GoTo, Finish
<1> QED BY <1>2, <1>3, <1>4, <1>5

\* What waits belongs to the session that is current.
LEMMA NextPendingIsCurrent == WorkerInv /\ [Next]_vars => PendingIsCurrent'
<1> SUFFICES ASSUME WorkerInv, [Next]_vars, NEW p \in pending'
             PROVE  p[2] \in {0, Newest'}
  BY DEF PendingIsCurrent
<1>1. Effect /\ NewestFacts /\ (pc = "record" => sess = Newest)
  BY NextEffect, WorksInActive
<1>2. CASE p \in pending
  <2>1. p[2] \in {0, Newest} /\ pc \notin {"create", "archive"}
    BY <1>2 DEF WorkerInv, PendingIsCurrent, NonePendingLater
  <2> QED BY <1>1, <2>1 DEF Effect, NewestFacts
<1>3. CASE RecordAttachment /\ p \in {<<cur, sess>>, <<cur, 0>>}
  <2>1. pc = "record" /\ pc' = "idle"
    BY <1>3 DEF RecordAttachment, Finish
  <2>2. Newest' = Newest
    BY <1>1, <2>1 DEF Effect
  <2> QED BY <1>1, <1>3, <2>1, <2>2
<1> QED BY <1>2, <1>3, NextPending

\* A file of a session that is active goes only when the session is too old.
LEMMA ThereStays ==
  ASSUME WorkerInv, [Next]_vars, NEW p, There(p), p[2] \in Active \cup {0}
  PROVE  There(p)'
<1>1. Later /\ rows \in Seq(Row) /\ Active \subseteq DOMAIN rows
  BY NextLater, WorksInActive DEF Active
<1>2. day \in Nat /\ day' \in Nat /\ day <= day' /\ (day' # day => files' = files)
  <2>1. day \in Nat
    BY WorksInActive
  <2>2. day' = day \/ (day' = day + 1 /\ files' = files)
    BY DEF Next, Process, Take, StaySilent, OpenSession, RecordAttachment, RecordText,
           ScheduleHandled, RunFails, RunEnds, SummarizeOverflow, Archive, CreateSession, Retry,
           SummarizeAsync, IdleExit, Night, CleanApp, Crash, vars, fileVars
  <2> QED BY <2>1, <2>2
<1>3. ASSUME p[2] # 0, Outlived(p[2], day) PROVE Outlived(p[2], day)'
  <2>1. rows[p[2]] \in Row /\ rows'[p[2]].born = rows[p[2]].born
    BY <1>1, <1>3 DEF Later
  <2> QED BY <1>2, <1>3, <2>1, MessagesAssumption DEF Outlived, Row
<1>4. ASSUME p[2] # 0, p \in files, p \notin files' PROVE Outlived(p[2], day)'
  <2>1. PICK i \in condemned : CleanApp(i)
    BY <1>4 DEF Next, Process, Take, StaySilent, OpenSession, RecordAttachment, RecordText, Moved,
                ScheduleHandled, RunFails, RunEnds, SummarizeOverflow, Archive, CreateSession, Retry,
                SummarizeAsync, IdleExit, Night, Crash, vars, fileVars
  <2>2. p[2] = i
    BY <1>4, <2>1 DEF CleanApp
  <2>3. Outlived(p[2], day)
    BY <1>4, <2>2 DEF WorkerInv, CondemnedAreDue, Active
  <2> QED BY <1>3, <1>4, <2>3
<1> QED BY <1>3, <1>4 DEF There

\* The attachments that wait, or run with a text, keep their files.
LEMMA NextFilesAreThere == WorkerInv /\ [Next]_vars => FilesAreThere'
<1> SUFFICES ASSUME WorkerInv, [Next]_vars PROVE FilesAreThere'
  OBVIOUS
<1>1. /\ NewestFacts
      /\ pc \in {"record", "claude"} => sess \in Active /\ sess = Newest /\ cur \in Messages
  BY WorksInActive DEF WorkerInv, WorksInNewest
<1>2. ASSUME NEW p \in pending PROVE There(p)' /\ p[2] \in Active \cup {0}
  <2>1. There(p) /\ p[2] \in Active \cup {0}
    BY <1>1, <1>2 DEF WorkerInv, FilesAreThere, PendingIsCurrent, NewestFacts
  <2> QED BY <2>1, ThereStays
<1>3. ASSUME NEW p \in pending' PROVE There(p)'
  <2>1. CASE p \in pending
    BY <1>2, <2>1
  <2>2. CASE RecordAttachment /\ p \notin pending
    BY <2>2 DEF RecordAttachment, Moved, There
  <2> QED BY <2>1, <2>2, NextPending
<1>4. ASSUME pc' = "claude", NEW p \in given'[cur']
      PROVE  There(p)' /\ p[2] \in {0, sess'}
  <2>1. CASE RecordText
    <3>1. cur' = cur /\ cur \in Messages /\ sess' = sess /\ given'[cur] = pending
      BY <1>1, <2>1 DEF RecordText, GoTo, WorkerInv, SessionsInv, TypeOK
    <3>2. p \in pending /\ p[2] \in {0, Newest}
      BY <1>4, <3>1 DEF WorkerInv, PendingIsCurrent
    <3> QED BY <1>1, <1>2, <2>1, <3>1, <3>2 DEF RecordText
  <2>2. CASE pc = "claude" /\ cur' = cur /\ sess' = sess /\ given' = given
    <3>1. There(p) /\ p[2] \in {0, sess}
      BY <1>4, <2>2 DEF WorkerInv, FilesAreThere
    <3>2. There(p)'
      BY <1>1, <2>2, <3>1, ThereStays
    <3> QED BY <2>2, <3>1, <3>2
  <2>3. RecordText \/ (pc = "claude" /\ cur' = cur /\ sess' = sess /\ given' = given)
    BY <1>4 DEF Next, Process, Take, StaySilent, OpenSession, RecordAttachment,
                ScheduleHandled, RunFails, RunEnds, SummarizeOverflow, Archive, CreateSession, Retry,
                SummarizeAsync, IdleExit, Night, CleanApp, Crash, vars, workVars, histVars, GoTo,
                Finish
  <2> QED BY <2>1, <2>2, <2>3
<1>5. (\A p \in pending' : There(p)') /\
      (pc' = "claude" => \A p \in given'[cur'] : There(p)' /\ p[2] \in {0, sess'})
  BY <1>3, <1>4
<1> QED BY <1>5 DEF FilesAreThere

\* What the cleanup goes through was due, and still is.
LEMMA NextCondemned == WorkerInv /\ [Next]_vars => CondemnedAreDue'
<1> SUFFICES ASSUME WorkerInv, [Next]_vars PROVE CondemnedAreDue'
  OBVIOUS
<1>1. /\ Later /\ rows \in Seq(Row) /\ day \in Nat /\ condemned \subseteq DOMAIN rows
      /\ RetentionDays \in Nat /\ MaxDays \in Nat
  BY NextLater, WorksInActive, MessagesAssumption DEF WorkerInv, SessionsInv, TypeOK
<1>2. \A i \in DOMAIN rows : rows[i] \in Row /\ (i \in Active <=> rows[i].active)
  BY <1>1 DEF Active
<1>3. \A i \in DOMAIN rows : ~rows[i].active => rows[i].archived <= rows[i].touched
  BY DEF WorkerInv, CondemnedAreDue
<1>4. ASSUME NEW i \in DOMAIN rows', ~rows'[i].active
      PROVE  rows'[i].archived <= rows'[i].touched
  <2>1. CASE i \in DOMAIN rows /\ ~rows[i].active
    BY <1>1, <1>3, <2>1 DEF Later
  <2>2. CASE rows' = Archived
    <3>1. i \in DOMAIN rows
      BY <1>1, <2>2, RowsArchived
    <3>2. CASE i \in Active
      BY <1>1, <2>2, <3>2, RowsArchived
    <3> QED BY <1>2, <2>1, <3>1, <3>2
  <2>3. CASE rows' = Append(rows, NewRow)
    <3>1. i # Len(rows) + 1
      BY <1>1, <1>4, <2>3, AppendKeeps DEF NewRow
    <3> QED BY <1>1, <1>4, <2>1, <2>3, <3>1, AppendKeeps
  <2>4. CASE Writes
    BY <1>4, <2>1, <2>4 DEF Writes
  <2>5. ASSUME NEW j, Summarises(j)
        PROVE  rows'[i].archived <= rows'[i].touched
    BY <1>1, <1>4, <2>1, <2>5, SummarisesKeep
  <2>6. CASE rows' = rows
    BY <1>4, <2>1, <2>6
  <2>7. CASE WritingStep
    BY <2>4, <2>7, WritingStepWrites
  <2>8. CASE OpenSession \/ CreateSession \/ Archive \/ SummarizeOverflow
    BY <2>2, <2>3, <2>5, <2>6, <2>8, OtherSteps
  <2>9. CASE \E j \in summaries : SummarizeAsync(j)
    BY <2>5, <2>6, <2>9, OtherSteps
  <2> QED BY <2>7, <2>8, <2>9 DEF Next, Process, WritingStep
<1>5. ASSUME NEW i \in condemned'
      PROVE  Outlived(i, day)' \/ (~rows'[i].active /\ day' - rows'[i].archived >= RetentionDays)
  <2>1. CASE Night
    <3>1. rows' = rows /\ day' = day + 1 /\ i \in Stale(day')
      BY <1>5, <2>1 DEF Night, dbVars
    <3>2. CASE Outlived(i, day')
      BY <3>1, <3>2 DEF Outlived
    <3>3. CASE ~rows[i].active /\ Quiet(i, day')
      <4>1. i \in DOMAIN rows /\ rows[i] \in Row
        BY <1>2, <3>1 DEF Stale
      <4>2. rows[i].archived <= rows[i].touched /\ rows[i].archived \in Nat /\ rows[i].touched \in Nat
        BY <1>3, <3>3, <4>1 DEF Row
      <4> QED BY <1>1, <3>1, <3>3, <4>2 DEF Quiet
    <3> QED BY <3>1, <3>2, <3>3 DEF Stale
  <2>2. CASE day' = day /\ i \in condemned
    <3>1. i \in DOMAIN rows
      BY <1>1, <2>2
    <3>2. Outlived(i, day) \/ (~rows[i].active /\ day - rows[i].archived >= RetentionDays)
      BY <2>2 DEF WorkerInv, CondemnedAreDue
    <3> QED BY <1>1, <2>2, <3>1, <3>2 DEF Later, Outlived
  <2>3. Night \/ (day' = day /\ i \in condemned)
    BY <1>5 DEF Next, Process, Take, StaySilent, OpenSession, RecordAttachment, RecordText,
                ScheduleHandled, RunFails, RunEnds, SummarizeOverflow, Archive, CreateSession, Retry,
                SummarizeAsync, IdleExit, CleanApp, Crash, vars, fileVars
  <2> QED BY <2>1, <2>2, <2>3
<1> QED BY <1>4, <1>5 DEF CondemnedAreDue

-----------------------------------------------------------------------------
(* The summaries *)

\* Without faults and crashes a session is summarised once, and one that waits has
\* not been yet.
LEMMA NextSummaries == WorkerInv /\ [Next]_vars => SummariesInv' /\ SummarizedOnce'
<1> SUFFICES ASSUME WorkerInv, [Next]_vars, faults' = 0, crashes' = 0
      PROVE  /\ \A i \in summaries' : ~rows'[i].active /\ rows'[i].summaries = 0
             /\ \A i \in Active' :
                  rows'[i].summaries = 0
                  \/ (pc' = "archive" /\ KindOf[cur'] # "new" /\ rows'[i].summaries = 1)
             /\ pc' = "create" /\ KindOf[cur'] = "new" /\ old' # 0 =>
                  rows'[old'].summaries = 0 /\ old' \notin summaries' /\ ~rows'[old'].active
             /\ \A i \in DOMAIN rows' : rows'[i].summaries <= 1
  BY DEF SummariesInv, SummarizedOnce
<1> DEFINE waiting == \A i \in summaries' : ~rows'[i].active /\ rows'[i].summaries = 0
           running == \A i \in Active' :
                  rows'[i].summaries = 0
                  \/ (pc' = "archive" /\ KindOf[cur'] # "new" /\ rows'[i].summaries = 1)
           leaving == pc' = "create" /\ KindOf[cur'] = "new" /\ old' # 0 =>
                  rows'[old'].summaries = 0 /\ old' \notin summaries' /\ ~rows'[old'].active
           once == \A i \in DOMAIN rows' : rows'[i].summaries <= 1
<1>1. faults = 0 /\ faults \in Nat /\ ~Fault
  <2>1. faults = 0 /\ faults \in Nat
    BY FaultsGrow
  <2> QED BY <2>1 DEF Fault
<1>2. crashes = 0 /\ ~Crash
  <2>1. crashes \in Nat /\ (Crash => crashes' = crashes + 1)
    BY MessagesAssumption DEF WorkerInv, SessionsInv, TypeOK, Crash
  <2>2. Crash \/ crashes' = crashes
    BY DEF Next, Process, Take, StaySilent, OpenSession, RecordAttachment, RecordText,
           ScheduleHandled, RunFails, RunEnds, SummarizeOverflow, Archive, CreateSession, Retry,
           SummarizeAsync, IdleExit, Night, CleanApp, vars
  <2> QED BY <2>1, <2>2
<1>3. /\ rows \in Seq(Row) /\ day \in Nat /\ Len(rows) \in Nat /\ DOMAIN rows = 1 .. Len(rows)
      /\ NewestFacts
      /\ pc \in {"record", "claude", "summarize", "retry"} => sess \in Active /\ sess \in DOMAIN rows
      /\ summaries \subseteq DOMAIN rows /\ old \in 0 .. Len(rows)
  BY WorksInActive DEF WorkerInv, SessionsInv, TypeOK
<1>4. \A i \in DOMAIN rows : (i \in Active <=> rows[i].active) /\ rows[i].summaries \in Nat
  <2>1. \A i \in DOMAIN rows : rows[i] \in Row
    BY <1>3
  <2>2. \A r \in Row : r.summaries \in Nat
    BY DEF Row
  <2> QED BY <2>1, <2>2 DEF Active
<1>5. /\ \A i \in summaries : ~rows[i].active /\ rows[i].summaries = 0
      /\ \A i \in Active :
            rows[i].summaries = 0
            \/ (pc = "archive" /\ KindOf[cur] # "new" /\ rows[i].summaries = 1)
      /\ pc = "create" /\ KindOf[cur] = "new" /\ old # 0 =>
            rows[old].summaries = 0 /\ old \notin summaries /\ ~rows[old].active
      /\ \A i \in DOMAIN rows : rows[i].summaries <= 1
  BY <1>1, <1>2 DEF WorkerInv, SummariesInv, SummarizedOnce
<1>6. CASE WritingStep
  <2>1. Writes /\ Active' = Active
    BY <1>6, WritingStepWrites, WritesKeep
  <2>2. summaries' = summaries /\ old' = old
    BY <1>2, <1>6 DEF WritingStep, Take, StaySilent, RecordAttachment, RecordText, ScheduleHandled,
                RunFails, RunEnds, Retry, IdleExit, Night, CleanApp, vars, workVars
  <2>3. pc = "archive" \/ pc' = "create" => pc' = pc /\ cur' = cur
    BY <1>2, <1>6 DEF WritingStep, Take, StaySilent, RecordAttachment, RecordText, ScheduleHandled,
                RunFails, RunEnds, Retry, IdleExit, Night, CleanApp, vars, workVars, GoTo, Finish
  <2>4. Active \subseteq DOMAIN rows
    BY DEF Active
  <2>5. waiting
    BY <1>3, <1>5, <2>1, <2>2 DEF Writes
  <2>6. running
    BY <1>5, <2>1, <2>3, <2>4 DEF Writes
  <2>7. leaving
    <3>1. old # 0 => old \in DOMAIN rows
      BY <1>3
    <3> QED BY <1>5, <2>1, <2>2, <2>3, <3>1 DEF Writes
  <2>8. once
    BY <1>5, <2>1 DEF Writes
  <2> QED BY <2>5, <2>6, <2>7, <2>8
<1>7. CASE OpenSession
  <2>1. /\ (rows' = rows \/ rows' = Append(rows, NewRow)) /\ summaries' = summaries
      /\ pc' \notin {"archive", "create"} /\ pc = "open"
    BY <1>7, OtherSteps DEF OpenSession, GoTo, Finish
  <2>2. summaries' = summaries
    BY <1>7 DEF OpenSession
  <2>3. CASE rows' = rows
    BY <1>5, <2>1, <2>2, <2>3 DEF Active
  <2>4. CASE rows' = Append(rows, NewRow)
    <3>1. /\ Active' = Active \cup {Len(rows) + 1} /\ rows'[Len(rows) + 1].summaries = 0
          /\ DOMAIN rows' = DOMAIN rows \cup {Len(rows) + 1}
          /\ \A j \in DOMAIN rows : rows'[j] = rows[j]
      BY <1>3, <2>4, AppendKeeps DEF NewRow
    <3>2. Active \subseteq DOMAIN rows
      BY DEF Active
    <3> QED BY <1>3, <1>5, <2>1, <2>2, <3>1, <3>2
  <2> QED BY <2>1, <2>3, <2>4
<1>8. CASE SummarizeOverflow
  <2>1. Summarises(sess) /\ summaries' = summaries /\ pc = "summarize" /\ pc' = "archive" /\ cur' = cur
    BY <1>1, <1>3, <1>8 DEF SummarizeOverflow, Summarises, GoTo
  <2>2. KindOf[cur] # "new"
    BY <2>1 DEF WorkerInv, WorksInNewest
  <2>3. /\ Active' = Active /\ DOMAIN rows' = DOMAIN rows
        /\ rows'[sess].summaries = rows[sess].summaries + 1
        /\ \A j \in DOMAIN rows : j # sess => rows'[j] = rows[j]
    BY <1>3, <2>1, SummarisesKeep
  <2>4. rows[sess].summaries = 0 /\ sess \in Active /\ sess \notin summaries
    BY <1>3, <1>4, <1>5, <2>1
  <2>5. Active \subseteq DOMAIN rows
    BY DEF Active
  <2>6. waiting
    BY <1>3, <1>5, <2>1, <2>3, <2>4
  <2>7. running
    BY <1>5, <2>1, <2>2, <2>3, <2>4, <2>5
  <2>8. once
    BY <1>5, <2>3, <2>4
  <2> QED BY <2>1, <2>6, <2>7, <2>8
<1>9. CASE Archive
  <2>1. /\ old' = Newest /\ rows' = Archived /\ summaries' = summaries /\ cur' = cur
        /\ pc = "archive" /\ pc' = "create"
    BY <1>1, <1>9 DEF Archive, GoTo
  <2>2. /\ Active' = {} /\ DOMAIN rows' = DOMAIN rows
        /\ \A i \in Active : ~rows'[i].active /\ rows'[i].summaries = rows[i].summaries
        /\ \A i \in DOMAIN rows \ Active : rows'[i] = rows[i]
    BY <1>3, <2>1, RowsArchived, ArchiveKeeps
  <2>3. Newest # 0 => Newest \in Active /\ Newest \in DOMAIN rows
    BY <1>3 DEF NewestFacts
  <2>4. waiting
    BY <1>3, <1>4, <1>5, <2>1, <2>2
  <2>5. leaving
    BY <1>4, <1>5, <2>1, <2>2, <2>3
  <2>6. once
    BY <1>5, <2>2
  <2> QED BY <2>2, <2>4, <2>5, <2>6
<1>10. CASE CreateSession
  <2>1. /\ rows' = Append(rows, NewRow) /\ pc = "create" /\ pc' \in {"idle", "retry"}
        /\ summaries' = IF KindOf[cur] = "new" THEN summaries \cup ({old} \ {0}) ELSE summaries
    BY <1>1, <1>10 DEF CreateSession, GoTo, Finish
  <2>2. /\ Active' = Active \cup {Len(rows) + 1} /\ rows'[Len(rows) + 1].summaries = 0
        /\ DOMAIN rows' = DOMAIN rows \cup {Len(rows) + 1}
        /\ \A j \in DOMAIN rows : rows'[j] = rows[j]
    BY <1>3, <2>1, AppendKeeps DEF NewRow
  <2>3. Active = {}
    BY <1>1, <2>1 DEF WorkerInv, AtMostOneActive
  <2>4. waiting
    <3>1. \A i \in summaries' : i \in DOMAIN rows /\ ~rows[i].active /\ rows[i].summaries = 0
      BY <1>3, <1>5, <2>1
    <3> QED BY <2>2, <3>1
  <2>5. once
    BY <1>5, <2>2
  <2> QED BY <2>1, <2>2, <2>3, <2>4, <2>5
<1>11. ASSUME NEW i \in summaries, SummarizeAsync(i)
       PROVE  waiting /\ running /\ leaving /\ once
  <2>1. /\ (rows' = rows \/ Summarises(i)) /\ summaries' = summaries \ {i}
        /\ pc' = pc /\ cur' = cur /\ old' = old
    BY <1>11, OtherSteps DEF SummarizeAsync, workVars
  <2>2. summaries' = summaries \ {i}
    BY <1>11 DEF SummarizeAsync
  <2>3. /\ Active' = Active /\ DOMAIN rows' = DOMAIN rows
        /\ \A j \in DOMAIN rows : j # i => rows'[j] = rows[j]
        /\ rows'[i].summaries \in {rows[i].summaries, rows[i].summaries + 1}
    <3>1. CASE rows' = rows
      BY <3>1 DEF Active
    <3>2. CASE Summarises(i)
      BY <1>3, <3>2, SummarisesKeep
    <3> QED BY <2>1, <3>1, <3>2
  <2>4. i \notin Active /\ i \in DOMAIN rows /\ rows[i].summaries = 0 /\ Active \subseteq DOMAIN rows
    BY <1>3, <1>4, <1>5 DEF Active
  <2>5. waiting
    BY <1>3, <1>5, <2>2, <2>3
  <2>6. running
    BY <1>5, <2>1, <2>3, <2>4
  <2>7. leaving
    <3>1. old # 0 => old \in DOMAIN rows
      BY <1>3
    <3> QED BY <1>5, <2>1, <2>2, <2>3, <3>1
  <2>8. once
    BY <1>5, <2>3, <2>4
  <2> QED BY <2>5, <2>6, <2>7, <2>8
<1> QED BY <1>6, <1>7, <1>8, <1>9, <1>10, <1>11 DEF Next, Process, WritingStep

-----------------------------------------------------------------------------
(* The theorems *)

\* Init satisfies the invariant.
LEMMA InitWorker == Init => WorkerInv
<1> SUFFICES ASSUME Init PROVE WorkerInv
  OBVIOUS
<1>1. rows = <<>> /\ rows \in Seq(Row) /\ DOMAIN rows = {} /\ Len(rows) = 0
  BY DEF Init
<1>2. Active = {} /\ Newest = 0
  BY <1>1 DEF Active, Newest
<1>3. TypeOK
  <2>1. /\ 0 \in 0 .. Len(rows) /\ 0 \in 0 .. LastDay /\ 0 \in 0 .. MaxFaults
        /\ 0 \in 0 .. MaxCrashes
    BY <1>1, MessagesAssumption
  <2>2. given \in [Messages -> SUBSET (Messages \X (0 .. Len(rows)))]
    BY DEF Init
  <2>3. state \in [Messages -> {"unsent", "taken", "done"}]
    BY DEF Init
  <2> QED BY <1>1, <2>1, <2>2, <2>3 DEF Init, TypeOK
<1>4. AtMostOneActive /\ OneActiveSession
  <2>1. AtMostOneActive
    BY <1>2 DEF AtMostOneActive
  <2> QED BY <2>1, ActiveCounted
<1>5. ArchivedHasNoProcess /\ PendingIsCurrent /\ SummarizedOnce /\ WorksInNewest /\ NonePendingLater
  BY <1>1, <1>2 DEF Init, ArchivedHasNoProcess, PendingIsCurrent, SummarizedOnce, WorksInNewest,
                    NonePendingLater
<1>6. FreshOrNone /\ FilesAreThere /\ CondemnedAreDue /\ SummariesInv
  BY <1>1, <1>2 DEF Init, FreshOrNone, FilesAreThere, CondemnedAreDue, SummariesInv
<1> QED BY <1>3, <1>4, <1>5, <1>6 DEF WorkerInv, SessionsInv

\* The invariant is inductive.
LEMMA NextWorker == WorkerInv /\ [Next]_vars => WorkerInv'
<1> SUFFICES ASSUME WorkerInv, [Next]_vars PROVE WorkerInv'
  OBVIOUS
<1>1. OneActiveSession'
  BY NextAtMostOne, ActiveCounted, PTL
<1> QED BY <1>1, NextType, NextProcs, NextPendingIsCurrent, NextSummaries, NextWorksInNewest,
           NextNonePending, NextAtMostOne, NextFresh, NextFilesAreThere, NextCondemned
        DEF WorkerInv, SessionsInv

\* In every reachable state of a channel the worker, the sessions table, the
\* executor's processes, the attachments, the summaries and the cleanup fit
\* together: the inductive invariant behind the theorems below.
THEOREM WorkerInvariant == Spec => []WorkerInv
BY InitWorker, NextWorker, PTL DEF Spec

\* While no statement fails a channel has at most one active session, and no claude
\* process is kept for an archived one, for any number of messages, background
\* summaries, nights and crashes.
THEOREM SessionsInvariant == Spec => []SessionsInv
<1>1. WorkerInv => SessionsInv
  BY DEF WorkerInv
<1> QED BY <1>1, WorkerInvariant, PTL

\* A text after /new runs in a session younger than all that were there before,
\* also when one of the statements of /new failed.
THEOREM NewStartsFreshHolds == Spec => []NewStartsFresh
<1>1. WorkerInv => NewStartsFresh
  BY WorksInActive DEF NewStartsFresh, WorkerInv, WorksInNewest, FreshOrNone
<1> QED BY <1>1, WorkerInvariant, PTL

\* Attachments that wait for a text are in the session that the text will run in.
THEOREM PendingIsCurrentHolds == Spec => []PendingIsCurrent
<1>1. WorkerInv => PendingIsCurrent
  BY DEF WorkerInv
<1> QED BY <1>1, WorkerInvariant, PTL

\* The attachments given to a prompt are on disk while Claude runs, whatever nights
\* passed since they were received, up to attachments_max_days.
THEOREM GivenFilesExistHolds == Spec => []GivenFilesExist
<1>1. WorkerInv => GivenFilesExist
  BY DEF WorkerInv, FilesAreThere, There, GivenFilesExist
<1> QED BY <1>1, WorkerInvariant, PTL

\* Without failed statements and crashes, no session is summarised twice.
THEOREM SummarizedOnceHolds == Spec => []SummarizedOnce
<1>1. WorkerInv => SummarizedOnce
  BY DEF WorkerInv
<1> QED BY <1>1, WorkerInvariant, PTL

\* Nothing is recorded in an archived session, and none becomes active again.
THEOREM ArchivedIsFinalHolds == Spec => ArchivedIsFinal
<1>1. WorkerInv /\ [Next]_vars
        => [\A i \in DOMAIN rows : ~rows[i].active =>
               /\ rows'[i].messages = rows[i].messages
               /\ ~rows'[i].active]_vars
  BY NextLater DEF Later
<1> QED BY <1>1, WorkerInvariant, PTL DEF Spec, ArchivedIsFinal

\* The cleanup removes no attachment before its session was archived for
\* attachments_retention_days, or is attachments_max_days old.
THEOREM FilesAreRetainedHolds == Spec => FilesAreRetained
<1>1. ASSUME WorkerInv, [Next]_vars, NEW f \in files \ files'
      PROVE  \/ Outlived(f[2], day)
             \/ ~rows[f[2]].active /\ day - rows[f[2]].archived >= RetentionDays
  <2>1. PICK i \in condemned : CleanApp(i)
    BY <1>1 DEF Next, Process, Take, StaySilent, OpenSession, RecordAttachment, RecordText, Moved,
                ScheduleHandled, RunFails, RunEnds, SummarizeOverflow, Archive, CreateSession, Retry,
                SummarizeAsync, IdleExit, Night, Crash, vars, fileVars
  <2>2. f[2] = i
    BY <1>1, <2>1 DEF CleanApp
  <2> QED BY <1>1, <2>2 DEF WorkerInv, CondemnedAreDue
<1>2. WorkerInv /\ [Next]_vars
        => [\A f \in files \ files' :
              \/ Outlived(f[2], day)
              \/ ~rows[f[2]].active /\ day - rows[f[2]].archived >= RetentionDays]_vars
  BY <1>1
<1> QED BY <1>2, WorkerInvariant, PTL DEF Spec, FilesAreRetained
=============================================================================
