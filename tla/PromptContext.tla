--------------------------- MODULE PromptContext ---------------------------
(***************************************************************************)
(* What a worker adds to a prompt before Claude sees it, the second half of  *)
(* preparePromptWithContext in internal/session/worker.go:                   *)
(*   - history from the archived sessions of the channel: retriever.go fuses   *)
(*     the results of three searches, context_payload.go shows a part of them;  *)
(*   - memories from the app's files MEMORY.md and memory/*.md: memory.go       *)
(*     brings the table memory_files up to date and searches it.               *)
(* The history is the channel's own. The table is shared: by the channels of  *)
(* an app, which run in parallel, and by all apps, because a row is keyed by   *)
(* the path within the workspace. Claude edits the files at any time.         *)
(*                                                                          *)
(* A text is a model value. Of a file's content the model keeps which of the  *)
(* keywords each of its entries holds.                                       *)
(***************************************************************************)
EXTENDS Naturals, SequencesExt

CONSTANTS
    Worker, AppOf,  \* the channels' workers, and their apps
    App,
    Walk,           \* the relative paths, in the order syncMemoryFiles reads them
    Content,        \* contents of files
    Entries,        \* Entries[c]: the keywords of each entry of c, a sequence of sets
    Asked,          \* Asked[w]: the keywords of the prompts of w
    Initially,      \* the files of each app
    Edits,          \* edits that may happen: app, path, content or None
    RouteResults,   \* RouteResults[w]: what the searches of Retrieve may find for w
    TopN,           \* defaultMemoryTopN (3)
    MaxPerSession,  \* how many matches of a session fuseScoredMatches keeps (3)
    MaxMatches,     \* how many it keeps at all (12)
    MaxSessions,    \* how many sessions ToPrompt shows (5)
    MaxQueries, MaxEdits, MaxFaults,  \* bounds of the exploration
    None

Path == ToSet(Walk)
Files == [Path -> Content \cup {None}]

\* A match of a search: its session, and the text that dedupeKey compares.
Match == [session : STRING, text : STRING]

ASSUME ContextAssumption ==
    /\ AppOf \in [Worker -> App]
    /\ Walk \in Seq(Path)
    /\ None \notin Content
    /\ \A w \in Worker : IsFiniteSet(Asked[w])
    /\ \A c \in Content : Entries[c] \in Seq(ToSet(Entries[c]))
    /\ Initially \in [App -> Files]
    /\ Edits \subseteq App \X Path \X (Content \cup {None})
    /\ \A w \in Worker : \A r \in RouteResults[w] :
           /\ r.fails \in BOOLEAN
           /\ {r.fts, r.like, r.summary} \subseteq Seq(Match)
           /\ Len(r.fts) <= 12 /\ Len(r.like) <= 12 /\ Len(r.summary) <= 8
    /\ {TopN, MaxPerSession, MaxMatches, MaxSessions} \subseteq Nat \ {0}
    /\ {MaxQueries, MaxEdits, MaxFaults} \subseteq Nat

VARIABLES
    disk,      \* the files of each app
    index,     \* memory_files: the content of each path
    pc,        \* where preparePromptWithContext is
    routes,    \* what the searches of Retrieve found (history)
    shown,     \* the matches that the prompt shows
    left,      \* the paths still to read
    files,     \* files of syncMemoryFiles
    existing,  \* existingMap
    memories,  \* the result of retrieveMemories
    disturbed, \* what happened during the query (history)
    had,       \* had[a]: every content an app's files ever had (history)
    queries, edits, faults

local == <<pc, routes, shown, left, files, existing, memories, queries>>
vars == <<disk, index, local, disturbed, had, edits, faults>>

Absent == [p \in Path |-> None]
NoRoutes == [fails |-> FALSE, fts |-> <<>>, like |-> <<>>, summary |-> <<>>]
Steps == {"idle", "walk", "load", "sync", "search", "reread", "execute"}

Init ==
    /\ disk = Initially
    /\ index = Absent
    /\ pc = [w \in Worker |-> "idle"]
    /\ routes = [w \in Worker |-> NoRoutes]
    /\ shown = [w \in Worker |-> <<>>]
    /\ left = [w \in Worker |-> <<>>]
    /\ files = [w \in Worker |-> Absent]
    /\ existing = [w \in Worker |-> Absent]
    /\ memories = [w \in Worker |-> <<>>]
    /\ disturbed = [w \in Worker |-> {}]
    /\ had = [a \in App |-> {<<p, Initially[a][p]>> : p \in Path}]
    /\ queries = [w \in Worker |-> 0]
    /\ edits = 0
    /\ faults = 0

GoTo(w, step) == pc' = [pc EXCEPT ![w] = step]

\* A statement of w fails.
Fault(w) ==
    /\ faults < MaxFaults
    /\ faults' = faults + 1
    /\ disturbed' = [disturbed EXCEPT ![w] = @ \cup {"fault"}]
NoFault == UNCHANGED <<faults, disturbed>>

-----------------------------------------------------------------------------
(* retriever.go and search_format.go *)

\* The matches of a search, with the score of the first.
Scored(matches, first) ==
    {[match |-> matches[i], score |-> first - i] : i \in DOMAIN matches}

\* The three routes. Their scores do not overlap, so no two candidates have the
\* same, and the ties that fuseScoredMatches breaks by created_at do not occur.
Candidates(r) == Scored(r.fts, 101) \cup Scored(r.like, 71) \cup Scored(r.summary, 51)

\* Mutant: every route's copy of a text is kept.
Best_All(cands) == cands

\* best: of each session and text the candidate with the highest score.
Best(cands) ==
    {c \in cands : \A d \in cands : d.match = c.match => d.score <= c.score}

OfSession(matches, s) == {i \in DOMAIN matches : matches[i].session = s}
Sessions(matches) == {matches[i].session : i \in DOMAIN matches}

\* The candidates, best first. No two have the same score, so the i-th is the one
\* that i candidates reach.
ByScore(cands) ==
    [i \in 1..Cardinality(cands) |->
        CHOOSE c \in cands : Cardinality({d \in cands : d.score >= c.score}) = i]

\* fuseScoredMatches: the match is kept unless there are enough, of its session or
\* of all.
Keep(out, c) ==
    IF \/ Len(out) >= MaxMatches
       \/ Cardinality(OfSession(out, c.match.session)) >= MaxPerSession
    THEN out ELSE Append(out, c.match)
Fuse(cands) == FoldLeft(Keep, <<>>, ByScore(Best(cands)))

\* groupMatchesBySession, for ToPrompt: a match opens the group of its session or
\* joins it, and is left out if there are enough, groups or matches in the group.
\* (That they are shown group by group is left out.)
Show(out, m) ==
    IF \/ m.session \notin Sessions(out) /\ Cardinality(Sessions(out)) >= MaxSessions
       \/ Cardinality(OfSession(out, m.session)) >= MaxPerSession
    THEN out ELSE Append(out, m)
Shown(matches) == FoldLeft(Show, <<>>, matches)

\* Queries whose transaction is still to come.
Syncing == {w \in Worker : pc[w] \in {"walk", "load", "sync"}}
Foreign(w) == {v \in Worker : AppOf[v] # AppOf[w]}

\* What the query of w meets at its beginning, and what it does to the others.
Begun(w) ==
    [v \in Worker |->
        IF v = w
        THEN {d \in {"foreign", "stale"} :
                 CASE d = "foreign" -> Syncing \cap Foreign(w) # {}
                   [] d = "stale" -> \E u \in Syncing \ Foreign(w) : "edit" \in disturbed[u]}
        ELSE IF v \in Foreign(w) /\ pc[v] # "idle" THEN disturbed[v] \cup {"foreign"}
        ELSE disturbed[v]]

\* Retriever.Retrieve for a message of w: when one search fails, the worker drops
\* all that the others found.
Retrieve(w) ==
    /\ pc[w] = "idle"
    /\ queries[w] < MaxQueries
    /\ queries' = [queries EXCEPT ![w] = @ + 1]
    /\ \E r \in RouteResults[w] :
           /\ routes' = [routes EXCEPT ![w] = r]
           /\ shown' = [shown EXCEPT ![w] =
                           IF r.fails THEN <<>> ELSE Shown(Fuse(Candidates(r)))]
    /\ left' = [left EXCEPT ![w] = Walk]
    /\ GoTo(w, "walk")
    /\ disturbed' = Begun(w)
    /\ UNCHANGED <<disk, index, files, existing, memories, had, edits, faults>>

-----------------------------------------------------------------------------
(* memory.go *)

\* The next file is read, if it is there.
Read(w) ==
    /\ left[w] # <<>>
    /\ left' = [left EXCEPT ![w] = Tail(@)]
    /\ files' = [files EXCEPT ![w][Head(left[w])] = disk[AppOf[w]][Head(left[w])]]

\* syncMemoryFiles collects the files.
WalkFiles(w) ==
    /\ pc[w] = "walk"
    /\ \/ Read(w) /\ UNCHANGED pc
       \/ left[w] = <<>> /\ GoTo(w, "load") /\ UNCHANGED <<left, files>>
    /\ UNCHANGED <<disk, index, routes, shown, existing, memories, queries, disturbed,
                   had, edits, faults>>

\* retrieveMemoriesFallback begins to read the files itself.
FallBack(w) ==
    /\ GoTo(w, "reread")
    /\ left' = [left EXCEPT ![w] = Walk]
    /\ files' = [files EXCEPT ![w] = Absent]

\* It loads the rows of memory_files, those of every app.
LoadExisting(w) ==
    /\ pc[w] = "load"
    /\ \/ /\ existing' = [existing EXCEPT ![w] = index]
          /\ GoTo(w, "sync")
          /\ NoFault
          /\ UNCHANGED <<left, files>>
       \/ Fault(w) /\ FallBack(w) /\ UNCHANGED existing
    /\ UNCHANGED <<disk, index, routes, shown, memories, queries, had, edits>>

\* Mutant: rows whose files are gone stay.
Synced_NoDelete(fs, known) ==
    [p \in Path |-> IF fs[p] # None /\ fs[p] # known[p] THEN fs[p] ELSE index[p]]

\* Mutant: a path that is known is not compared.
Synced_KnownIsSame(fs, known) ==
    [p \in Path |->
        CASE fs[p] # None /\ known[p] = None -> fs[p]
          [] fs[p] = None /\ known[p] # None -> None
          [] OTHER -> index[p]]

\* The table after the transaction that brings it from known to fs: rows that look
\* unchanged are not written, rows whose files are gone are deleted.
Synced(fs, known) ==
    [p \in Path |->
        CASE fs[p] # None /\ fs[p] # known[p] -> fs[p]
          [] fs[p] = None /\ known[p] # None -> None
          [] OTHER -> index[p]]

\* The transaction of syncMemoryFiles, or its failure.
Sync(w) ==
    /\ pc[w] = "sync"
    /\ \/ /\ index' = Synced(files[w], existing[w])
          /\ GoTo(w, "search")
          /\ NoFault
          /\ UNCHANGED <<left, files>>
       \/ Fault(w) /\ FallBack(w) /\ UNCHANGED index
    /\ UNCHANGED <<disk, routes, shown, existing, memories, queries, had, edits>>

Score(w, keywords) == Cardinality(Asked[w] \cap keywords)
Keywords(c) == UNION ToSet(Entries[c])

\* The rows of a table that hold a keyword, and the entries of files that do.
Rows(w, table) ==
    {[path |-> p, content |-> table[p], score |-> Score(w, Keywords(table[p]))] :
        p \in {q \in Path : table[q] # None}}
EntriesOf(w, fs) ==
    UNION {{[path |-> p, content |-> fs[p], score |-> Score(w, Entries[fs[p]][i]), entry |-> i] :
               i \in DOMAIN Entries[fs[p]]} : p \in {q \in Path : fs[q] # None}}

\* The TopN best; sort.Slice leaves the order of equal ones open.
Rankings(items) ==
    {SubSeq(q, 1, IF TopN < Len(q) THEN TopN ELSE Len(q)) :
        q \in {s \in SetToSeqs({i \in items : i.score > 0}) :
                 \A i, j \in DOMAIN s : i < j => s[i].score >= s[j].score}}

\* The prompt is complete: what the query kept is dropped, and Claude runs.
Execute(w, found) ==
    /\ memories' = [memories EXCEPT ![w] = found]
    /\ files' = [files EXCEPT ![w] = Absent]
    /\ existing' = [existing EXCEPT ![w] = Absent]
    /\ GoTo(w, "execute")

\* searchMemoriesDB. (Its LIMIT of 50 rows, which it applies before it ranks them,
\* is more than the files of the model.)
Search(w) ==
    /\ pc[w] = "search"
    /\ \/ (\E q \in Rankings(Rows(w, index)) : Execute(w, q)) /\ NoFault
       \/ Fault(w) /\ Execute(w, <<>>)
    /\ UNCHANGED <<disk, index, routes, shown, left, queries, had, edits>>

\* retrieveMemoriesFallback reads the files and ranks their entries.
Reread(w) ==
    /\ pc[w] = "reread"
    /\ \/ Read(w) /\ UNCHANGED <<pc, existing, memories>>
       \/ /\ left[w] = <<>>
          /\ UNCHANGED left
          /\ \E q \in Rankings(EntriesOf(w, files[w])) : Execute(w, q)
    /\ UNCHANGED <<disk, index, routes, shown, queries, disturbed, had, edits, faults>>

\* The run of Claude ends.
Finish(w) ==
    /\ pc[w] = "execute"
    /\ GoTo(w, "idle")
    /\ routes' = [routes EXCEPT ![w] = NoRoutes]
    /\ shown' = [shown EXCEPT ![w] = <<>>]
    /\ memories' = [memories EXCEPT ![w] = <<>>]
    /\ disturbed' = [disturbed EXCEPT ![w] = {}]
    /\ UNCHANGED <<disk, index, left, files, existing, queries, had, edits, faults>>

-----------------------------------------------------------------------------
\* Claude, or the app's owner, writes or removes a file.
Edit(a, p, c) ==
    /\ edits < MaxEdits
    /\ <<a, p, c>> \in Edits
    /\ disk[a][p] # c
    /\ edits' = edits + 1
    /\ disk' = [disk EXCEPT ![a][p] = c]
    /\ had' = [had EXCEPT ![a] = @ \cup {<<p, c>>}]
    /\ disturbed' = [w \in Worker |->
                        IF AppOf[w] = a /\ pc[w] # "idle"
                        THEN disturbed[w] \cup {"edit"} ELSE disturbed[w]]
    /\ UNCHANGED <<index, local, faults>>

Next ==
    \/ \E w \in Worker :
           \/ Retrieve(w) \/ WalkFiles(w) \/ LoadExisting(w) \/ Sync(w)
           \/ Search(w) \/ Reread(w) \/ Finish(w)
    \/ \E e \in Edits : Edit(e[1], e[2], e[3])

Spec == Init /\ [][Next]_vars

-----------------------------------------------------------------------------
\* What a query of memories finds: a row of the table, or an entry of a file.
Memory ==
    [path : Path, content : Content, score : Nat]
    \cup [path : Path, content : Content, score : Nat, entry : Nat]

\* The shape of what concerns the memories.
MemoryTypes ==
    /\ disk \in [App -> Files]
    /\ index \in Files
    /\ pc \in [Worker -> Steps]
    /\ left \in [Worker -> Seq(Path)]
    /\ files \in [Worker -> Files]
    /\ existing \in [Worker -> Files]
    /\ memories \in [Worker -> Seq(Memory)]
    /\ disturbed \in [Worker -> SUBSET {"foreign", "stale", "edit", "fault"}]

\* Every variable keeps its shape.
TypeOK ==
    /\ MemoryTypes
    /\ DOMAIN routes = Worker /\ \A w \in Worker : routes[w] \in RouteResults[w] \cup {NoRoutes}
    /\ shown \in [Worker -> Seq(Match)]
    /\ \A w \in Worker : \E i \in 0..Len(Walk) : left[w] = SubSeq(Walk, i + 1, Len(Walk))
    /\ \A w \in Worker : Len(memories[w]) <= TopN
    /\ had \in [App -> SUBSET (Path \X (Content \cup {None}))]
    /\ queries \in [Worker -> 0..MaxQueries]
    /\ edits \in 0..MaxEdits
    /\ faults \in 0..MaxFaults

(* Invariants *)

ScoreOf(r, m) == Max({c.score : c \in {d \in Candidates(r) : d.match = m}})

\* Retrieve, fuseScoredMatches and groupMatchesBySession, against what they are
\* for: no text of a session is shown twice, no session more often than its share,
\* the better match comes first, and a match is left out only for as many better
\* ones of its session, because its session comes after as many others, or because
\* as many better ones were found.
HistoryIsBest ==
    \A w \in Worker :
        LET s == shown[w]
            r == routes[w]
            better(m) == {i \in DOMAIN s : ScoreOf(r, s[i]) > ScoreOf(r, m)}
        IN ~r.fails =>
            /\ \A i, j \in DOMAIN s : i < j => ScoreOf(r, s[i]) > ScoreOf(r, s[j])
            /\ \A i \in DOMAIN s : Cardinality(OfSession(s, s[i].session)) <= MaxPerSession
            /\ Cardinality(Sessions(s)) <= MaxSessions
            /\ \A m \in {c.match : c \in Candidates(r)} \ ToSet(s) :
                  \/ Cardinality({i \in better(m) : s[i].session = m.session}) = MaxPerSession
                  \/ Cardinality({s[i].session : i \in better(m)} \ {m.session}) = MaxSessions
                  \/ Cardinality({c.match : c \in {d \in Candidates(r) :
                         ScoreOf(r, d.match) > ScoreOf(r, m)}}) >= MaxMatches

\* What a query of memories should return: the best of the files, best first, each
\* once, as they are.
IsTop(w, found, fs) ==
    LET hits == {p \in Path : fs[p] # None /\ Score(w, Keywords(fs[p])) > 0}
        value(p) == Score(w, Keywords(fs[p]))
        ps == [i \in DOMAIN found |-> found[i].path]
    IN /\ \A i \in DOMAIN ps : ps[i] \in hits /\ found[i].content = fs[ps[i]]
       /\ \A i, j \in DOMAIN ps : i < j => ps[i] # ps[j] /\ value(ps[i]) >= value(ps[j])
       /\ \A p \in hits \ ToSet(ps) :
              Len(ps) = TopN /\ \A i \in DOMAIN ps : value(ps[i]) >= value(p)

Exact(w) == IsTop(w, memories[w], disk[AppOf[w]])

\* retrieveMemories: queries of the app's other channels may run at the same time,
\* and whatever the table held before, from this app or another, a query that saw
\* no edit, no query of another app and no statement fail, and overlapped none
\* that began before the last edit, finds what the files say.
UndisturbedIsExact ==
    \A w \in Worker : pc[w] = "execute" /\ disturbed[w] = {} => Exact(w)

(* What stands behind UndisturbedIsExact *)

Undisturbed(w) == pc[w] # "idle" /\ disturbed[w] = {}

\* Whoever is to write the table during such a query is of its app, and has read the
\* files as they are now.
WritersAgree ==
    \A w \in Worker : Undisturbed(w) =>
        \A v \in Syncing : AppOf[v] = AppOf[w] /\ "edit" \notin disturbed[v]

\* What such a query read is what the files say.
ReadIsCurrent ==
    \A w \in Syncing :
        /\ pc[w] # "walk" => left[w] = <<>>
        /\ "edit" \notin disturbed[w] =>
               \A p \in Path \ ToSet(left[w]) : files[w][p] = disk[AppOf[w]][p]

\* The table differs from what the query loaded only where it is right, and is right
\* when the query searches it. The files are ranked only after a fault.
TableIsRight ==
    \A w \in Worker : Undisturbed(w) =>
        /\ pc[w] = "sync" =>
               \A p \in Path : index[p] \in {existing[w][p], disk[AppOf[w]][p]}
        /\ pc[w] = "search" => index = disk[AppOf[w]]
        /\ pc[w] # "reread"

MemoryInv ==
    MemoryTypes /\ WritersAgree /\ ReadIsCurrent /\ TableIsRight /\ UndisturbedIsExact

\* The history and the shape of what a query keeps.
ContextInv == TypeOK /\ HistoryIsBest

\* What stands behind it: a prompt shows what the worker made of what it found.
ShowsWhatWasFound ==
    \A w \in Worker :
        \/ routes[w] = NoRoutes /\ shown[w] = <<>>
        \/ /\ routes[w] \in RouteResults[w]
           /\ shown[w] = IF routes[w].fails THEN <<>> ELSE Shown(Fuse(Candidates(routes[w])))

(* What a document says of the code, and is not so *)

\* design.md 1: every bot has "its own workspace, its own configuration, its own
\* memory".
OwnMemoriesOnly ==
    \A w \in Worker : \A i \in DOMAIN memories[w] :
        <<memories[w][i].path, memories[w][i].content>> \in had[AppOf[w]]

(* What one would like, and is not so *)

\* A query during which nobody edits a file finds what the files say: not when a
\* query of another channel read the files before the last edit and writes the
\* table after this one did.
UneditedIsExact ==
    \A w \in Worker : pc[w] = "execute" /\ disturbed[w] \subseteq {"stale"} => Exact(w)

\* Retrieve: when the full text search rejects the text, as it does with a question
\* mark in a sentence without Chinese, the other routes still find what they can.
OtherRoutesHelp ==
    \A w \in Worker : routes[w].like # <<>> => shown[w] # <<>>
=============================================================================
