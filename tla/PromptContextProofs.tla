------------------------ MODULE PromptContextProofs ------------------------
(* Proofs about PromptContext, for any workers, apps, files and edits: a query *)
(* of memories that nobody disturbed finds what the files say.                *)
EXTENDS PromptContext, FiniteSetTheorems, TLAPS

-----------------------------------------------------------------------------
(* Rankings *)

\* A sequence without repetitions, as long as a finite set, has all its elements.
LEMMA Permutes ==
  ASSUME NEW S, IsFiniteSet(S), NEW q \in SetToSeqs(S)
  PROVE  /\ q \in Seq(S) /\ Len(q) \in Nat /\ DOMAIN q = 1 .. Len(q)
         /\ \A i, j \in DOMAIN q : i # j => q[i] # q[j]
         /\ \A x \in S : \E i \in DOMAIN q : q[i] = x
<1> DEFINE n == Cardinality(S)  D == 1 .. n
<1>1. n \in Nat
  BY FS_CardinalityType
<1>2. q \in [D -> S] /\ \A i, j \in D : i # j => q[i] # q[j]
  BY DEF SetToSeqs
<1>3. q \in Injection(D, S)
  BY <1>2 DEF Injection, IsInjective
<1>4. IsFiniteSet(D) /\ Cardinality(D) = n
  BY <1>1, FS_Interval
<1>5. q \in Surjection(D, S)
  BY <1>3, <1>4, FS_Injection
<1>6. \A x \in S : \E i \in D : q[i] = x
  BY <1>5 DEF Surjection
<1>7. q \in Seq(S) /\ Len(q) = n /\ DOMAIN q = D
  BY <1>1, <1>2
<1> HIDE DEF n, D
<1> QED BY <1>1, <1>2, <1>6, <1>7 DEF D

\* The beginning of a sequence.
LEMMA Beginning ==
  ASSUME NEW S, NEW q \in Seq(S), NEW m \in Nat, m <= Len(q)
  PROVE  /\ SubSeq(q, 1, m) \in Seq(S) /\ Len(SubSeq(q, 1, m)) = m
         /\ DOMAIN SubSeq(q, 1, m) = 1 .. m
         /\ \A i \in 1 .. m : SubSeq(q, 1, m)[i] = q[i]
OBVIOUS

\* What a ranking of finitely many items is: the best of them, in order.
LEMMA Ranking ==
  ASSUME NEW I, IsFiniteSet(I), NEW found \in Rankings(I)
  PROVE  /\ found \in Seq(I)
         /\ \A i \in DOMAIN found : found[i] \in I /\ found[i].score > 0
         /\ \A i, j \in DOMAIN found :
              i < j => found[i] # found[j] /\ found[i].score >= found[j].score
         /\ \A x \in I : x.score > 0 /\ (\A i \in DOMAIN found : found[i] # x) =>
              Len(found) = TopN /\ \A i \in DOMAIN found : found[i].score >= x.score
<1> DEFINE J == {i \in I : i.score > 0}
<1>1. PICK q \in SetToSeqs(J) :
        /\ \A i, j \in DOMAIN q : i < j => q[i].score >= q[j].score
        /\ found = SubSeq(q, 1, IF TopN < Len(q) THEN TopN ELSE Len(q))
  BY DEF Rankings
<1>2. IsFiniteSet(J)
  BY FS_Subset
<1>3. /\ q \in Seq(J) /\ Len(q) \in Nat /\ DOMAIN q = 1 .. Len(q)
      /\ \A i, j \in DOMAIN q : i # j => q[i] # q[j]
      /\ \A x \in J : \E i \in DOMAIN q : q[i] = x
  BY <1>2, Permutes
<1> DEFINE m == IF TopN < Len(q) THEN TopN ELSE Len(q)
<1>4. TopN \in Nat /\ m \in Nat /\ m <= Len(q) /\ (m = TopN \/ m = Len(q))
  BY <1>3, ContextAssumption
<1>5. found = SubSeq(q, 1, m)
  BY <1>1
<1> HIDE DEF m, J
<1>6. /\ found \in Seq(J) /\ Len(found) = m /\ DOMAIN found = 1 .. m
      /\ \A i \in 1 .. m : found[i] = q[i]
  <2>1. q \in Seq(J)
    BY <1>3
  <2>2. /\ SubSeq(q, 1, m) \in Seq(J) /\ Len(SubSeq(q, 1, m)) = m
        /\ DOMAIN SubSeq(q, 1, m) = 1 .. m
        /\ \A i \in 1 .. m : SubSeq(q, 1, m)[i] = q[i]
    BY <1>4, <2>1, Beginning
  <2> QED BY <1>5, <2>2
<1>0. Len(q) \in Nat
  BY <1>3
<1>7. 1 .. m \subseteq 1 .. Len(q)
  BY <1>0, <1>4
<1>8. found \in Seq(I)
  BY <1>6 DEF J
<1>9. \A i \in DOMAIN found : found[i] \in I /\ found[i].score > 0
  BY <1>6 DEF J
<1>10. ASSUME NEW i \in DOMAIN found, NEW j \in DOMAIN found, i < j
       PROVE  found[i] # found[j] /\ found[i].score >= found[j].score
  <2>1. i \in 1 .. m /\ j \in 1 .. m
    BY <1>6
  <2>2. /\ i \in 1 .. Len(q) /\ j \in 1 .. Len(q) /\ i < j /\ i # j
    <3>1. i \in Nat /\ j \in Nat /\ i < j
      BY <1>4, <1>10, <2>1
    <3> QED BY <1>7, <2>1, <3>1
  <2>3. found[i] = q[i] /\ found[j] = q[j]
    BY <1>6, <2>1
  <2>4. q[i] # q[j]
    BY <1>3, <2>2
  <2>5. q[i].score >= q[j].score
    BY <1>1, <1>3, <2>2
  <2> QED BY <2>3, <2>4, <2>5
<1>11. ASSUME NEW x \in I, x.score > 0, \A i \in DOMAIN found : found[i] # x
       PROVE  Len(found) = TopN /\ \A i \in DOMAIN found : found[i].score >= x.score
  <2>1. PICK k \in 1 .. Len(q) : q[k] = x
    BY <1>3, <1>11 DEF J
  <2>2. k \notin 1 .. m
    <3>1. \A i \in 1 .. m : found[i] = q[i] /\ found[i] # x
      BY <1>6, <1>11
    <3> QED BY <2>1, <3>1
  <2>3. k > m /\ k \in Nat
    BY <1>0, <1>4, <2>2
  <2>4. m = TopN
    BY <1>0, <1>4, <2>3
  <2>5. \A i \in 1 .. m : q[i].score >= q[k].score
    <3>1. \A i \in 1 .. m : i < k
      BY <1>4, <2>3
    <3> QED BY <1>1, <1>3, <1>7, <2>1, <3>1
  <2> QED BY <1>6, <2>1, <2>4, <2>5
<1> QED BY <1>8, <1>9, <1>10, <1>11

\* There are finitely many paths.
LEMMA PathsFinite == IsFiniteSet(Path)
<1>1. Walk \in Seq(Path) /\ Path = {Walk[i] : i \in DOMAIN Walk}
  BY ContextAssumption DEF Path, ToSet
<1> DEFINE n == Len(Walk)
<1>2. n \in Nat /\ Walk \in [1 .. n -> Path] /\ DOMAIN Walk = 1 .. n
  BY <1>1
<1>3. Walk \in Surjection(1 .. n, Path)
  BY <1>1, <1>2 DEF Surjection
<1>4. IsFiniteSet(1 .. n)
  BY <1>2, FS_Interval
<1> QED BY <1>3, <1>4, FS_Surjection

\* The score is a number.
LEMMA ScoreType == \A w \in Worker : \A K : Score(w, K) \in Nat
<1> TAKE w \in Worker
<1> TAKE K
<1>1. IsFiniteSet(Asked[w] \cap K)
  BY ContextAssumption, FS_Intersection
<1> QED BY <1>1, FS_CardinalityType DEF Score

\* The rows of a table are finitely many.
LEMMA RowsFinite ==
  ASSUME NEW w \in Worker, NEW fs \in Files
  PROVE  IsFiniteSet(Rows(w, fs)) /\ Rows(w, fs) \subseteq Memory
<1> DEFINE Q == {p \in Path : fs[p] # None}
           row(p) == [path |-> p, content |-> fs[p], score |-> Score(w, Keywords(fs[p]))]
           f == [p \in Q |-> row(p)]
<1>1. Rows(w, fs) = {row(p) : p \in Q}
  BY DEF Rows
<1>2. f \in Surjection(Q, Rows(w, fs))
  BY <1>1 DEF Surjection
<1>3. IsFiniteSet(Q)
  BY PathsFinite, FS_Subset
<1>4. IsFiniteSet(Rows(w, fs))
  BY <1>2, <1>3, FS_Surjection
<1>5. \A p \in Q : row(p) \in Memory
  <2> TAKE p \in Q
  <2>1. p \in Path /\ fs[p] \in Content /\ Score(w, Keywords(fs[p])) \in Nat
    BY ScoreType DEF Files
  <2> QED BY <2>1 DEF Memory
<1> QED BY <1>1, <1>4, <1>5

\* So are the entries of the files.
LEMMA EntriesFinite ==
  ASSUME NEW w \in Worker, NEW fs \in Files
  PROVE  IsFiniteSet(EntriesOf(w, fs)) /\ EntriesOf(w, fs) \subseteq Memory
<1> DEFINE Q == {p \in Path : fs[p] # None}
           item(p, i) == [path |-> p, content |-> fs[p], score |-> Score(w, Entries[fs[p]][i]),
                          entry |-> i]
           of(p) == {item(p, i) : i \in DOMAIN Entries[fs[p]]}
           all == {of(p) : p \in Q}
           f == [p \in Q |-> of(p)]
<1>1. EntriesOf(w, fs) = UNION all
  BY DEF EntriesOf
<1>2. IsFiniteSet(Q)
  BY PathsFinite, FS_Subset
<1>3. f \in Surjection(Q, all)
  BY DEF Surjection
<1>4. IsFiniteSet(all)
  BY <1>2, <1>3, FS_Surjection
<1>5. ASSUME NEW p \in Q PROVE IsFiniteSet(of(p)) /\ of(p) \subseteq Memory
  <2>1. p \in Path /\ fs[p] \in Content
    BY DEF Files
  <2>2. PICK n \in Nat : DOMAIN Entries[fs[p]] = 1 .. n
    <3>1. Entries[fs[p]] \in Seq(ToSet(Entries[fs[p]]))
      BY <2>1, ContextAssumption
    <3>2. /\ Len(Entries[fs[p]]) \in Nat
          /\ DOMAIN Entries[fs[p]] = 1 .. Len(Entries[fs[p]])
      BY <3>1
    <3> QED BY <3>2
  <2>3. [i \in 1 .. n |-> item(p, i)] \in Surjection(1 .. n, of(p))
    BY <2>2 DEF Surjection
  <2>4. IsFiniteSet(1 .. n)
    BY FS_Interval
  <2>5. IsFiniteSet(of(p))
    BY <2>3, <2>4, FS_Surjection
  <2>6. \A i \in 1 .. n : item(p, i) \in Memory
    <3> TAKE i \in 1 .. n
    <3>1. Score(w, Entries[fs[p]][i]) \in Nat /\ i \in Nat
      BY ScoreType
    <3> QED BY <2>1, <3>1 DEF Memory
  <2> QED BY <2>2, <2>5, <2>6
<1>6. \A T \in all : IsFiniteSet(T) /\ T \subseteq Memory
  BY <1>5
<1> HIDE DEF all
<1> QED BY <1>1, <1>4, <1>6, FS_UNION

\* searchMemoriesDB, whose table says what the files say, finds the best of them.
LEMMA SearchIsExact ==
  ASSUME NEW w \in Worker, NEW fs \in Files, NEW found \in Rankings(Rows(w, fs))
  PROVE  IsTop(w, found, fs) /\ found \in Seq(Memory)
<1> DEFINE I == Rows(w, fs)  value(p) == Score(w, Keywords(fs[p]))
           hits == {p \in Path : fs[p] # None /\ value(p) > 0}
           ps == [i \in DOMAIN found |-> found[i].path]
<1>1. IsFiniteSet(I) /\ I \subseteq Memory
  BY RowsFinite
<1>2. /\ found \in Seq(I)
      /\ \A i \in DOMAIN found : found[i] \in I /\ found[i].score > 0
      /\ \A i, j \in DOMAIN found :
           i < j => found[i] # found[j] /\ found[i].score >= found[j].score
      /\ \A x \in I : x.score > 0 /\ (\A i \in DOMAIN found : found[i] # x) =>
           Len(found) = TopN /\ \A i \in DOMAIN found : found[i].score >= x.score
  BY <1>1, Ranking
<1>3. /\ \A x \in I : /\ x.path \in Path /\ fs[x.path] # None /\ x.content = fs[x.path]
                      /\ x.score = value(x.path)
                      /\ x = [path |-> x.path, content |-> fs[x.path], score |-> value(x.path)]
      /\ \A p \in Path : fs[p] # None =>
           [path |-> p, content |-> fs[p], score |-> value(p)] \in I
  BY DEF Rows
<1>4. DOMAIN found = 1 .. Len(found) /\ Len(found) \in Nat
  BY <1>2
<1>5. DOMAIN ps = DOMAIN found /\ Len(ps) = Len(found)
  BY <1>4
<1>6. \A i \in DOMAIN found : ps[i] = found[i].path
  OBVIOUS
<1> HIDE DEF I, value, ps
<1>7. \A i \in DOMAIN ps : ps[i] \in hits /\ found[i].content = fs[ps[i]]
  BY <1>2, <1>3, <1>5, <1>6
<1>8. \A i, j \in DOMAIN ps : i < j => ps[i] # ps[j] /\ value(ps[i]) >= value(ps[j])
  <2> SUFFICES ASSUME NEW i \in DOMAIN found, NEW j \in DOMAIN found, i < j
               PROVE  ps[i] # ps[j] /\ value(ps[i]) >= value(ps[j])
    BY <1>5
  <2>1. found[i] \in I /\ found[j] \in I /\ found[i] # found[j] /\ found[i].score >= found[j].score
    BY <1>2
  <2>2. ps[i] # ps[j]
    BY <1>3, <1>6, <2>1
  <2>3. found[i].score = value(ps[i]) /\ found[j].score = value(ps[j])
    BY <1>3, <1>6, <2>1
  <2> QED BY <2>1, <2>2, <2>3
<1>9. ASSUME NEW p \in hits \ ToSet(ps)
      PROVE  Len(ps) = TopN /\ \A i \in DOMAIN ps : value(ps[i]) >= value(p)
  <2> DEFINE x == [path |-> p, content |-> fs[p], score |-> value(p)]
  <2>1. x \in I /\ x.score = value(p) /\ x.path = p /\ value(p) > 0
    BY <1>3
  <2>2. \A i \in DOMAIN ps : ps[i] # p
    BY DEF ToSet
  <2>3. \A i \in DOMAIN found : found[i] # x
    BY <1>5, <1>6, <2>1, <2>2
  <2>4. Len(found) = TopN /\ \A i \in DOMAIN found : found[i].score >= x.score
    BY <1>2, <2>1, <2>3
  <2>5. \A i \in DOMAIN found : found[i].score = value(ps[i])
    BY <1>2, <1>3, <1>6
  <2> QED BY <1>5, <2>1, <2>4, <2>5
<1>10. IsTop(w, found, fs)
  BY <1>7, <1>8, <1>9 DEF IsTop, value, ps
<1>11. found \in Seq(Memory)
  BY <1>1, <1>2
<1> QED BY <1>10, <1>11

-----------------------------------------------------------------------------
(* The steps *)

\* What the assumptions say of the constants.
LEMMA ConstantFacts ==
  /\ AppOf \in [Worker -> App] /\ None \notin Content
  /\ Initially \in [App -> Files]
  /\ \A e \in Edits : e[1] \in App /\ e[2] \in Path /\ e[3] \in Content \cup {None}
  /\ Walk \in Seq(Path) /\ Absent \in Files
BY ContextAssumption DEF Absent, Files

\* A step of w leaves what the queries of the others keep alone; w writes down what
\* happened to its query, and beginning one also what it does to the others.
LEMMA WorkerFrame ==
  ASSUME MemoryTypes, NEW w \in Worker,
         \/ Retrieve(w) \/ WalkFiles(w) \/ LoadExisting(w) \/ Sync(w)
         \/ Search(w) \/ Reread(w) \/ Finish(w)
  PROVE  /\ disk' = disk
         /\ \A v \in Worker : v # w =>
              /\ pc'[v] = pc[v] /\ left'[v] = left[v] /\ files'[v] = files[v]
              /\ existing'[v] = existing[v] /\ memories'[v] = memories[v]
         /\ Retrieve(w) \/ \A v \in Worker : v # w => disturbed'[v] = disturbed[v]
         /\ \/ Retrieve(w) \/ Finish(w)
            \/ disturbed'[w] \in {disturbed[w], disturbed[w] \cup {"fault"}}
<1> USE DEF MemoryTypes, GoTo, NoFault, Fault
<1>1. CASE Retrieve(w)
  BY <1>1 DEF Retrieve
<1>2. CASE WalkFiles(w)
  BY <1>2 DEF WalkFiles, Read
<1>3. CASE LoadExisting(w)
  BY <1>3 DEF LoadExisting, FallBack
<1>4. CASE Sync(w)
  BY <1>4 DEF Sync, FallBack
<1>5. CASE Search(w)
  BY <1>5 DEF Search, Execute
<1>6. CASE Reread(w)
  BY <1>6 DEF Reread, Read, Execute
<1>7. CASE Finish(w)
  BY <1>7 DEF Finish
<1> QED BY <1>1, <1>2, <1>3, <1>4, <1>5, <1>6, <1>7

\* What a query that begins writes down.
LEMMA BegunFacts ==
  ASSUME MemoryTypes, NEW w \in Worker
  PROVE  /\ Begun(w) \in [Worker -> SUBSET {"foreign", "stale", "edit", "fault"}]
         /\ Begun(w)[w] \subseteq {"foreign", "stale"}
         /\ Begun(w)[w] = {} => \A u \in Syncing : AppOf[u] = AppOf[w] /\ "edit" \notin disturbed[u]
         /\ \A v \in Worker : v # w =>
              /\ Begun(w)[v] \in {disturbed[v], disturbed[v] \cup {"foreign"}}
              /\ pc[v] # "idle" /\ AppOf[v] # AppOf[w] => "foreign" \in Begun(w)[v]
<1> DEFINE mine == {d \in {"foreign", "stale"} :
                      CASE d = "foreign" -> Syncing \cap Foreign(w) # {}
                        [] d = "stale" -> \E u \in Syncing \ Foreign(w) : "edit" \in disturbed[u]}
           other(v) == IF v \in Foreign(w) /\ pc[v] # "idle" THEN disturbed[v] \cup {"foreign"}
                       ELSE disturbed[v]
<1>1. Begun(w) = [v \in Worker |-> IF v = w THEN mine ELSE other(v)]
  BY DEF Begun
<1>2. mine \subseteq {"foreign", "stale"}
  OBVIOUS
<1>3. mine = {} => Syncing \cap Foreign(w) = {} /\ \A u \in Syncing \ Foreign(w) : "edit" \notin disturbed[u]
  <2>1. Syncing \cap Foreign(w) # {} => "foreign" \in mine
    OBVIOUS
  <2>2. (\E u \in Syncing \ Foreign(w) : "edit" \in disturbed[u]) => "stale" \in mine
    OBVIOUS
  <2> QED BY <2>1, <2>2
<1> HIDE DEF mine
<1>4. mine = {} => \A u \in Syncing : AppOf[u] = AppOf[w] /\ "edit" \notin disturbed[u]
  BY <1>3 DEF Foreign, Syncing
<1>5. \A v \in Worker :
        /\ other(v) \subseteq {"foreign", "stale", "edit", "fault"}
        /\ other(v) \in {disturbed[v], disturbed[v] \cup {"foreign"}}
        /\ pc[v] # "idle" /\ AppOf[v] # AppOf[w] => "foreign" \in other(v)
  BY DEF MemoryTypes, Foreign
<1> HIDE DEF other
<1> QED BY <1>1, <1>2, <1>4, <1>5

\* The table stays a table of files.
LEMMA SyncedType ==
  ASSUME NEW fs \in Files, NEW known \in Files, index \in Files
  PROVE  /\ Synced(fs, known) \in Files
         /\ \A p \in Path : Synced(fs, known)[p] \in {fs[p], index[p]}
         /\ \A p \in Path : index[p] \in {known[p], fs[p]} => Synced(fs, known)[p] = fs[p]
<1>1. \A p \in Path :
        /\ Synced(fs, known)[p] = IF fs[p] # None /\ fs[p] # known[p] THEN fs[p]
                                  ELSE IF fs[p] = None /\ known[p] # None THEN None ELSE index[p]
        /\ fs[p] \in Content \cup {None} /\ index[p] \in Content \cup {None}
  BY DEF Synced, Files
<1>2. DOMAIN Synced(fs, known) = Path /\ Synced(fs, known) = [p \in Path |-> Synced(fs, known)[p]]
  BY DEF Synced
<1>3. \A p \in Path : Synced(fs, known)[p] \in {fs[p], index[p]}
  BY <1>1
<1>4. \A p \in Path : index[p] \in {known[p], fs[p]} => Synced(fs, known)[p] = fs[p]
  BY <1>1
<1>5. \A p \in Path : Synced(fs, known)[p] \in Content \cup {None}
  BY <1>1, <1>3
<1>6. Synced(fs, known) \in Files
  BY <1>2, <1>5 DEF Files
<1> QED BY <1>3, <1>4, <1>6

\* What happens when a statement fails, or does not.
LEMMA FaultType ==
  ASSUME MemoryTypes, NEW w \in Worker, Fault(w) \/ NoFault
  PROVE  disturbed' \in [Worker -> SUBSET {"foreign", "stale", "edit", "fault"}]
<1>1. disturbed \in [Worker -> SUBSET {"foreign", "stale", "edit", "fault"}]
  BY DEF MemoryTypes
<1>2. CASE Fault(w)
  BY <1>1, <1>2 DEF Fault
<1>3. CASE NoFault
  BY <1>1, <1>3 DEF NoFault
<1> QED BY <1>2, <1>3

\* When the table cannot be used, the files are read.
LEMMA FallBackType ==
  ASSUME MemoryTypes, NEW w \in Worker, FallBack(w)
  PROVE  /\ pc' \in [Worker -> Steps] /\ left' \in [Worker -> Seq(Path)]
         /\ files' \in [Worker -> Files]
BY ConstantFacts DEF FallBack, GoTo, MemoryTypes, Steps

\* Every step keeps the shapes.
LEMMA NextTypes == ASSUME MemoryTypes, Next PROVE MemoryTypes'
<1>1. ASSUME NEW w \in Worker, Retrieve(w) PROVE MemoryTypes'
  BY <1>1, BegunFacts, ConstantFacts DEF Retrieve, GoTo, MemoryTypes, Steps
<1>2. ASSUME NEW w \in Worker, Read(w)
      PROVE  left' \in [Worker -> Seq(Path)] /\ files' \in [Worker -> Files]
  <2>1. /\ left[w] # <<>> /\ left[w] \in Seq(Path)
        /\ left' = [left EXCEPT ![w] = Tail(@)]
        /\ files' = [files EXCEPT ![w][Head(left[w])] = disk[AppOf[w]][Head(left[w])]]
    BY <1>2 DEF Read, MemoryTypes
  <2>2. Head(left[w]) \in Path /\ Tail(left[w]) \in Seq(Path)
    BY <2>1
  <2>3. disk[AppOf[w]] \in Files
    BY ConstantFacts DEF MemoryTypes
  <2>4. disk[AppOf[w]][Head(left[w])] \in Content \cup {None}
    BY <2>2, <2>3 DEF Files
  <2>5. left' \in [Worker -> Seq(Path)]
    BY <2>1, <2>2 DEF MemoryTypes
  <2>6. [files[w] EXCEPT ![Head(left[w])] = disk[AppOf[w]][Head(left[w])]] \in Files
    BY <2>4 DEF MemoryTypes, Files
  <2>7. files' \in [Worker -> Files]
    BY <2>1, <2>6 DEF MemoryTypes
  <2> QED BY <2>5, <2>7
<1>3. ASSUME NEW w \in Worker, WalkFiles(w) PROVE MemoryTypes'
  <2>1. UNCHANGED <<disk, index, existing, memories, disturbed>>
    BY <1>3 DEF WalkFiles
  <2>2. left' \in [Worker -> Seq(Path)] /\ files' \in [Worker -> Files]
    BY <1>2, <1>3 DEF WalkFiles, MemoryTypes
  <2>3. pc' \in [Worker -> Steps]
    BY <1>3 DEF WalkFiles, GoTo, MemoryTypes, Steps
  <2> QED BY <2>1, <2>2, <2>3 DEF MemoryTypes
<1>4. ASSUME NEW w \in Worker, LoadExisting(w) PROVE MemoryTypes'
  <2>1. disturbed' \in [Worker -> SUBSET {"foreign", "stale", "edit", "fault"}]
    BY <1>4, FaultType DEF LoadExisting
  <2>2. /\ pc' \in [Worker -> Steps] /\ left' \in [Worker -> Seq(Path)]
        /\ files' \in [Worker -> Files]
    <3>1. CASE GoTo(w, "sync") /\ UNCHANGED <<left, files>>
      BY <3>1 DEF GoTo, MemoryTypes, Steps
    <3>2. CASE FallBack(w)
      BY <3>2, FallBackType
    <3> QED BY <1>4, <3>1, <3>2 DEF LoadExisting
  <2>3. existing' \in [Worker -> Files] /\ UNCHANGED <<disk, index, memories>>
    BY <1>4 DEF LoadExisting, MemoryTypes
  <2> QED BY <2>1, <2>2, <2>3 DEF MemoryTypes
<1>5. ASSUME NEW w \in Worker, Sync(w) PROVE MemoryTypes'
  <2>1. files[w] \in Files /\ existing[w] \in Files /\ index \in Files
    BY DEF MemoryTypes
  <2>2. Synced(files[w], existing[w]) \in Files
    BY <2>1, SyncedType
  <2>3. disturbed' \in [Worker -> SUBSET {"foreign", "stale", "edit", "fault"}]
    BY <1>5, FaultType DEF Sync
  <2>4. /\ pc' \in [Worker -> Steps] /\ left' \in [Worker -> Seq(Path)]
        /\ files' \in [Worker -> Files]
    <3>1. CASE GoTo(w, "search") /\ UNCHANGED <<left, files>>
      BY <3>1 DEF GoTo, MemoryTypes, Steps
    <3>2. CASE FallBack(w)
      BY <3>2, FallBackType
    <3> QED BY <1>5, <3>1, <3>2 DEF Sync
  <2>5. index' \in Files /\ UNCHANGED <<disk, existing, memories>>
    BY <1>5, <2>1, <2>2 DEF Sync
  <2> QED BY <2>3, <2>4, <2>5 DEF MemoryTypes
<1>6. ASSUME NEW w \in Worker, NEW found \in Seq(Memory), Execute(w, found)
      PROVE  /\ memories' \in [Worker -> Seq(Memory)] /\ files' \in [Worker -> Files]
             /\ existing' \in [Worker -> Files] /\ pc' \in [Worker -> Steps]
  BY <1>6, ConstantFacts DEF Execute, GoTo, MemoryTypes, Steps
<1>7. ASSUME NEW w \in Worker, Search(w) PROVE MemoryTypes'
  <2>1. \E found \in Seq(Memory) : Execute(w, found)
    <3>1. \A found \in Rankings(Rows(w, index)) : found \in Seq(Memory)
      BY SearchIsExact DEF MemoryTypes
    <3>2. <<>> \in Seq(Memory)
      OBVIOUS
    <3> QED BY <1>7, <3>1, <3>2 DEF Search
  <2>2. disturbed' \in [Worker -> SUBSET {"foreign", "stale", "edit", "fault"}]
    BY <1>7, FaultType DEF Search
  <2> QED BY <1>6, <1>7, <2>1, <2>2 DEF Search, MemoryTypes
<1>8. ASSUME NEW w \in Worker, Reread(w) PROVE MemoryTypes'
  <2>1. CASE Read(w) /\ UNCHANGED <<pc, existing, memories>>
    BY <1>2, <1>8, <2>1 DEF Reread, MemoryTypes
  <2>2. CASE left' = left /\ \E found \in Rankings(EntriesOf(w, files[w])) : Execute(w, found)
    <3>1. files[w] \in Files
      BY DEF MemoryTypes
    <3>2. \A found \in Rankings(EntriesOf(w, files[w])) : found \in Seq(Memory)
      <4> TAKE found \in Rankings(EntriesOf(w, files[w]))
      <4>1. found \in Seq(EntriesOf(w, files[w]))
        BY <3>1, EntriesFinite, Ranking
      <4> QED BY <3>1, <4>1, EntriesFinite
    <3>3. \E found \in Seq(Memory) : Execute(w, found)
      BY <2>2, <3>2
    <3> QED BY <1>6, <1>8, <2>2, <3>3 DEF Reread, MemoryTypes
  <2> QED BY <1>8, <2>1, <2>2 DEF Reread
<1>9. ASSUME NEW w \in Worker, Finish(w) PROVE MemoryTypes'
  BY <1>9 DEF Finish, GoTo, MemoryTypes, Steps
<1>10. ASSUME NEW e \in Edits, Edit(e[1], e[2], e[3]) PROVE MemoryTypes'
  <2> DEFINE a == e[1]  p == e[2]  c == e[3]
  <2>1. a \in App /\ p \in Path /\ c \in Content \cup {None}
    BY ConstantFacts
  <2>2. /\ disk' = [disk EXCEPT ![a][p] = c]
        /\ UNCHANGED <<index, pc, left, files, existing, memories>>
        /\ disturbed' = [w \in Worker |-> IF AppOf[w] = a /\ pc[w] # "idle"
                                          THEN disturbed[w] \cup {"edit"} ELSE disturbed[w]]
    BY <1>10 DEF Edit, local
  <2>3. [disk[a] EXCEPT ![p] = c] \in Files
    BY <2>1 DEF MemoryTypes, Files
  <2>4. disk' \in [App -> Files]
    BY <2>2, <2>3 DEF MemoryTypes
  <2>5. disturbed' \in [Worker -> SUBSET {"foreign", "stale", "edit", "fault"}]
    BY <2>2 DEF MemoryTypes
  <2> QED BY <2>2, <2>4, <2>5 DEF MemoryTypes
<1> QED BY <1>1, <1>3, <1>4, <1>5, <1>7, <1>8, <1>9, <1>10 DEF Next

-----------------------------------------------------------------------------
(* Queries that nobody disturbed *)

\* A step of a worker, ...
Works(w) ==
    \/ Retrieve(w) \/ WalkFiles(w) \/ LoadExisting(w) \/ Sync(w)
    \/ Search(w) \/ Reread(w) \/ Finish(w)

\* ... and where it leads its query.
LEMMA WorkerMoves ==
  ASSUME MemoryTypes, NEW w \in Worker, Works(w)
  PROVE  /\ Retrieve(w) => pc'[w] = "walk" /\ left'[w] = Walk /\ disturbed' = Begun(w)
         /\ ~Retrieve(w) => pc[w] # "idle"
         /\ Finish(w) => pc'[w] = "idle"
         /\ pc'[w] \in {"load", "sync"} \/ (pc'[w] = "walk" /\ ~Retrieve(w)) =>
              WalkFiles(w) \/ LoadExisting(w)
         /\ index' = index \/ (Sync(w) /\ index' = Synced(files[w], existing[w]))
<1>0. pc \in [Worker -> Steps] /\ left \in [Worker -> Seq(Path)]
  BY DEF MemoryTypes
<1>1. Retrieve(w) => /\ pc[w] = "idle" /\ pc'[w] = "walk" /\ left'[w] = Walk
                     /\ disturbed' = Begun(w) /\ index' = index
  BY <1>0 DEF Retrieve, GoTo
<1>2. WalkFiles(w) => pc[w] = "walk" /\ index' = index
  BY DEF WalkFiles
<1>3. LoadExisting(w) => pc[w] = "load" /\ index' = index
  BY DEF LoadExisting
<1>4. Sync(w) => /\ pc[w] = "sync" /\ pc'[w] \in {"search", "reread"}
                 /\ index' = index \/ index' = Synced(files[w], existing[w])
  BY <1>0 DEF Sync, FallBack, GoTo
<1>5. Search(w) => pc[w] = "search" /\ pc'[w] = "execute" /\ index' = index
  BY <1>0 DEF Search, Execute, GoTo
<1>6. Reread(w) => pc[w] = "reread" /\ pc'[w] \in {"reread", "execute"} /\ index' = index
  BY <1>0 DEF Reread, Execute, GoTo
<1>7. Finish(w) => pc[w] = "execute" /\ pc'[w] = "idle" /\ index' = index
  BY <1>0 DEF Finish, GoTo
<1> QED BY <1>1, <1>2, <1>3, <1>4, <1>5, <1>6, <1>7, Zenon DEF Works

\* After a step of x, a query that was not disturbed was not before; and if the step
\* began a query, it was of the same app.
LEMMA WasUndisturbed ==
  ASSUME MemoryTypes, NEW x \in Worker, Works(x), NEW w \in Worker, Undisturbed(w)'
  PROVE  /\ w # x => Undisturbed(w) /\ pc'[w] = pc[w] /\ (Retrieve(x) => AppOf[x] = AppOf[w])
         /\ w = x /\ ~Retrieve(x) => Undisturbed(w)
         /\ \A v \in Worker : v # x =>
              (pc'[v] = pc[v] /\ ("edit" \in disturbed'[v] <=> "edit" \in disturbed[v]))
<1>1. ASSUME NEW v \in Worker, v # x
      PROVE  /\ pc'[v] = pc[v]
             /\ disturbed'[v] \in {disturbed[v], disturbed[v] \cup {"foreign"}}
             /\ Retrieve(x) /\ pc[v] # "idle" /\ AppOf[v] # AppOf[x] => "foreign" \in disturbed'[v]
  <2>1. CASE Retrieve(x)
    <3>1. disturbed' = Begun(x)
      BY <2>1, WorkerMoves
    <3> QED BY <1>1, <2>1, <3>1, BegunFacts, WorkerFrame
  <2>2. CASE ~Retrieve(x)
    BY <1>1, <2>2, WorkerFrame DEF Works
  <2> QED BY <2>1, <2>2
<1>2. w # x => Undisturbed(w) /\ pc'[w] = pc[w] /\ (Retrieve(x) => AppOf[x] = AppOf[w])
  BY <1>1 DEF Undisturbed
<1>3. ASSUME w = x, ~Retrieve(x) PROVE Undisturbed(w)
  <2>1. ~Finish(x) /\ pc[x] # "idle"
    BY <1>3, WorkerMoves DEF Undisturbed
  <2>2. disturbed'[x] \in {disturbed[x], disturbed[x] \cup {"fault"}}
    BY <1>3, <2>1, WorkerFrame DEF Works
  <2> QED BY <1>3, <2>1, <2>2 DEF Undisturbed
<1> QED BY <1>1, <1>2, <1>3

\* An edit disturbs the queries of its app.
LEMMA EditFacts ==
  ASSUME MemoryTypes, NEW e \in Edits, Edit(e[1], e[2], e[3])
  PROVE  /\ UNCHANGED <<index, pc, left, files, existing, memories>>
         /\ \A w \in Worker : pc[w] # "idle" /\ "edit" \notin disturbed'[w] =>
              /\ disturbed'[w] = disturbed[w] /\ AppOf[w] # e[1]
              /\ disk'[AppOf[w]] = disk[AppOf[w]]
         /\ \A w \in Worker : AppOf[w] # e[1] => disturbed'[w] = disturbed[w]
<1>1. /\ disk' = [disk EXCEPT ![e[1]][e[2]] = e[3]]
      /\ UNCHANGED <<index, pc, left, files, existing, memories>>
      /\ disturbed' = [w \in Worker |-> IF AppOf[w] = e[1] /\ pc[w] # "idle"
                                        THEN disturbed[w] \cup {"edit"} ELSE disturbed[w]]
  BY DEF Edit, local
<1>2. \A w \in Worker : AppOf[w] \in App
  BY ConstantFacts
<1> QED BY <1>1, <1>2 DEF MemoryTypes

\* Whoever writes the table during an undisturbed query agrees with it.
LEMMA NextWriters == ASSUME MemoryTypes, WritersAgree, Next PROVE WritersAgree'
<1> SUFFICES ASSUME NEW w \in Worker, Undisturbed(w)', NEW v \in Worker,
                    pc'[v] \in {"walk", "load", "sync"}
             PROVE  AppOf[v] = AppOf[w] /\ "edit" \notin disturbed'[v]
  BY DEF WritersAgree, Syncing
<1>1. \A u, y \in Worker : Undisturbed(u) /\ pc[y] \in {"walk", "load", "sync"} =>
        AppOf[y] = AppOf[u] /\ "edit" \notin disturbed[y]
  BY DEF WritersAgree, Syncing
<1>2. ASSUME NEW x \in Worker, Works(x)
      PROVE  AppOf[v] = AppOf[w] /\ "edit" \notin disturbed'[v]
  <2>0. \A y \in Worker : y # x =>
          (pc'[y] = pc[y] /\ ("edit" \in disturbed'[y] <=> "edit" \in disturbed[y]))
    BY <1>2, WasUndisturbed
  <2>1. CASE Retrieve(x)
    <3>1. disturbed' = Begun(x) /\ disturbed'[x] \subseteq {"foreign", "stale"}
      BY <1>2, <2>1, BegunFacts, WorkerMoves
    <3>2. CASE w = x
      <4>1. \A u \in Syncing : AppOf[u] = AppOf[w] /\ "edit" \notin disturbed[u]
        BY <3>1, <3>2, BegunFacts DEF Undisturbed
      <4> QED BY <2>0, <3>1, <3>2, <4>1 DEF Syncing
    <3>3. CASE w # x
      BY <1>1, <1>2, <2>0, <2>1, <3>1, <3>3, WasUndisturbed
    <3> QED BY <3>2, <3>3
  <2>2. CASE ~Retrieve(x)
    <3>1. Undisturbed(w)
      BY <1>2, <2>2, WasUndisturbed
    <3>2. CASE v # x
      BY <1>1, <2>0, <3>1, <3>2
    <3>3. CASE v = x
      <4>1. WalkFiles(x) \/ LoadExisting(x)
        BY <1>2, <2>2, <3>3, WorkerMoves
      <4>2. pc[x] \in {"walk", "load", "sync"} /\ ~Finish(x)
        BY <4>1 DEF WalkFiles, LoadExisting, Finish
      <4>3. disturbed'[x] \in {disturbed[x], disturbed[x] \cup {"fault"}}
        BY <1>2, <2>2, <4>2, WorkerFrame DEF Works
      <4> QED BY <1>1, <3>1, <3>3, <4>2, <4>3
    <3> QED BY <3>2, <3>3
  <2> QED BY <2>1, <2>2
<1>3. ASSUME NEW e \in Edits, Edit(e[1], e[2], e[3])
      PROVE  AppOf[v] = AppOf[w] /\ "edit" \notin disturbed'[v]
  <2>1. pc' = pc /\ Undisturbed(w) /\ AppOf[w] # e[1]
    BY <1>3, EditFacts DEF Undisturbed
  <2>2. AppOf[v] = AppOf[w] /\ "edit" \notin disturbed[v]
    BY <1>1, <2>1
  <2> QED BY <1>3, <2>1, <2>2, EditFacts
<1> QED BY <1>2, <1>3 DEF Next, Works

\* What is left when the first of a sequence is taken.
LEMMA TailSet ==
  ASSUME NEW S, NEW q \in Seq(S), q # <<>>, NEW p, p \notin ToSet(Tail(q)), p # Head(q)
  PROVE  p \notin ToSet(q)
<1> SUFFICES ASSUME NEW i \in 1 .. Len(q), q[i] = p PROVE FALSE
  BY DEF ToSet
<1>1. CASE i = 1
  BY <1>1
<1>2. CASE i # 1
  <2>1. i - 1 \in 1 .. Len(Tail(q)) /\ Tail(q)[i - 1] = q[i]
    BY <1>2
  <2>2. Tail(q) \in Seq(S)
    OBVIOUS
  <2>3. DOMAIN Tail(q) = 1 .. Len(Tail(q))
    BY <2>2
  <2> QED BY <2>1, <2>3 DEF ToSet
<1> QED BY <1>1, <1>2

\* What a query read is what the files say, unless they were edited.
LEMMA NextCurrent == ASSUME MemoryTypes, ReadIsCurrent, Next PROVE ReadIsCurrent'
<1> SUFFICES ASSUME NEW v \in Worker, pc'[v] \in {"walk", "load", "sync"}
             PROVE  /\ pc'[v] # "walk" => left'[v] = <<>>
                    /\ "edit" \notin disturbed'[v] =>
                         \A p \in Path \ ToSet(left'[v]) : files'[v][p] = disk'[AppOf[v]][p]
  BY DEF ReadIsCurrent, Syncing
<1>1. pc[v] \in {"walk", "load", "sync"} =>
        /\ pc[v] # "walk" => left[v] = <<>>
        /\ "edit" \notin disturbed[v] =>
             \A p \in Path \ ToSet(left[v]) : files[v][p] = disk[AppOf[v]][p]
  BY DEF ReadIsCurrent, Syncing
<1>2. ASSUME NEW x \in Worker, Works(x), x # v
      PROVE  /\ pc'[v] # "walk" => left'[v] = <<>>
             /\ "edit" \notin disturbed'[v] =>
                  \A p \in Path \ ToSet(left'[v]) : files'[v][p] = disk'[AppOf[v]][p]
  <2>1. /\ disk' = disk /\ pc'[v] = pc[v] /\ left'[v] = left[v] /\ files'[v] = files[v]
    BY <1>2, WorkerFrame DEF Works
  <2>2. "edit" \notin disturbed'[v] => "edit" \notin disturbed[v]
    <3>1. CASE Retrieve(x)
      BY <1>2, <3>1, BegunFacts, WorkerMoves
    <3>2. CASE ~Retrieve(x)
      BY <1>2, <3>2, WorkerFrame DEF Works
    <3> QED BY <3>1, <3>2
  <2> QED BY <1>1, <2>1, <2>2
<1>3. ASSUME Works(v)
      PROVE  /\ pc'[v] # "walk" => left'[v] = <<>>
             /\ "edit" \notin disturbed'[v] =>
                  \A p \in Path \ ToSet(left'[v]) : files'[v][p] = disk'[AppOf[v]][p]
  <2>1. CASE Retrieve(v)
    <3>1. pc'[v] = "walk" /\ left'[v] = Walk
      BY <1>3, <2>1, WorkerMoves
    <3> QED BY <3>1 DEF Path
  <2>2. CASE WalkFiles(v)
    <3>1. pc[v] = "walk" /\ disk' = disk /\ disturbed' = disturbed
      BY <2>2 DEF WalkFiles
    <3>2. CASE left[v] = <<>> /\ GoTo(v, "load") /\ UNCHANGED <<left, files>>
      BY <1>1, <3>1, <3>2
    <3>3. CASE Read(v) /\ UNCHANGED pc
      <4> DEFINE h == Head(left[v])
      <4>1. /\ left[v] \in Seq(Path) /\ left[v] # <<>> /\ left'[v] = Tail(left[v]) /\ h \in Path
        BY <3>3 DEF Read, MemoryTypes
      <4>2. files' = [files EXCEPT ![v][h] = disk[AppOf[v]][h]]
        BY <3>3 DEF Read
      <4> HIDE DEF h
      <4>3. \A p \in Path : files'[v][p] = IF p = h THEN disk[AppOf[v]][h] ELSE files[v][p]
        BY <4>1, <4>2 DEF MemoryTypes, Files
      <4>4. \A p \in Path : p \notin ToSet(left'[v]) /\ p # h => p \notin ToSet(left[v])
        BY <4>1, TailSet DEF h
      <4> QED BY <1>1, <3>1, <3>3, <4>3, <4>4
    <3> QED BY <2>2, <3>2, <3>3 DEF WalkFiles
  <2>3. CASE LoadExisting(v)
    <3>1. pc[v] = "load" /\ disk' = disk /\ UNCHANGED <<left, files>>
      BY <2>3 DEF LoadExisting, FallBack, GoTo, MemoryTypes
    <3>2. "edit" \notin disturbed'[v] => "edit" \notin disturbed[v]
      BY <2>3 DEF LoadExisting, Fault, NoFault, MemoryTypes
    <3> QED BY <1>1, <3>1, <3>2
  <2> QED BY <1>3, <2>1, <2>2, <2>3, WorkerMoves
<1>4. ASSUME NEW e \in Edits, Edit(e[1], e[2], e[3])
      PROVE  /\ pc'[v] # "walk" => left'[v] = <<>>
             /\ "edit" \notin disturbed'[v] =>
                  \A p \in Path \ ToSet(left'[v]) : files'[v][p] = disk'[AppOf[v]][p]
  BY <1>1, <1>4, EditFacts
<1> QED BY <1>2, <1>3, <1>4 DEF Next, Works

\* A query about to write the table has read all the files, and what is read with it.
LEMMA WritesTheFiles ==
  ASSUME MemoryTypes, WritersAgree, ReadIsCurrent, NEW w \in Worker, Undisturbed(w),
         NEW x \in Worker, pc[x] = "sync"
  PROVE  files[x] \in Files /\ files[x] = disk[AppOf[w]]
<1>1. AppOf[x] = AppOf[w] /\ "edit" \notin disturbed[x]
  BY DEF WritersAgree, Syncing
<1>2. left[x] = <<>> /\ \A p \in Path \ ToSet(left[x]) : files[x][p] = disk[AppOf[x]][p]
  BY <1>1 DEF ReadIsCurrent, Syncing
<1>3. ToSet(<<>>) = {}
  BY DEF ToSet
<1>4. files[x] \in Files /\ disk[AppOf[w]] \in Files
  BY ConstantFacts DEF MemoryTypes
<1> QED BY <1>1, <1>2, <1>3, <1>4 DEF Files

\* The table is right whenever an undisturbed query searches it.
LEMMA NextTable ==
  ASSUME MemoryTypes, WritersAgree, ReadIsCurrent, TableIsRight, Next
  PROVE  TableIsRight'
<1> SUFFICES ASSUME NEW w \in Worker, Undisturbed(w)'
             PROVE  /\ pc'[w] = "sync" =>
                         \A p \in Path : index'[p] \in {existing'[w][p], disk'[AppOf[w]][p]}
                    /\ pc'[w] = "search" => index' = disk'[AppOf[w]]
                    /\ pc'[w] # "reread"
  BY DEF TableIsRight
<1>0. Undisturbed(w) =>
        /\ pc[w] = "sync" => \A p \in Path : index[p] \in {existing[w][p], disk[AppOf[w]][p]}
        /\ pc[w] = "search" => index = disk[AppOf[w]]
        /\ pc[w] # "reread"
  BY DEF TableIsRight
<1>1. index \in Files /\ disk[AppOf[w]] \in Files /\ \A x \in Worker : existing[x] \in Files
  BY ConstantFacts DEF MemoryTypes
<1>2. ASSUME NEW x \in Worker, Works(x), x # w
      PROVE  /\ pc'[w] = "sync" =>
                  \A p \in Path : index'[p] \in {existing'[w][p], disk'[AppOf[w]][p]}
             /\ pc'[w] = "search" => index' = disk'[AppOf[w]]
             /\ pc'[w] # "reread"
  <2>1. Undisturbed(w) /\ pc'[w] = pc[w] /\ existing'[w] = existing[w] /\ disk' = disk
    BY <1>2, WasUndisturbed, WorkerFrame DEF Works
  <2>2. CASE index' = index
    BY <1>0, <2>1, <2>2
  <2>3. CASE Sync(x) /\ index' = Synced(files[x], existing[x])
    <3>1. pc[x] = "sync"
      BY <2>3 DEF Sync
    <3>2. files[x] \in Files /\ files[x] = disk[AppOf[w]]
      BY <2>1, <3>1, WritesTheFiles
    <3>3. /\ index' \in Files
          /\ \A p \in Path : index'[p] \in {disk[AppOf[w]][p], index[p]}
      BY <1>1, <2>3, <3>2, SyncedType
    <3>4. index = disk[AppOf[w]] => index' = disk[AppOf[w]]
      BY <1>1, <3>3 DEF Files
    <3> QED BY <1>0, <2>1, <3>3, <3>4
  <2> QED BY <1>2, <2>2, <2>3, WorkerMoves
<1>3. ASSUME Works(w)
      PROVE  /\ pc'[w] = "sync" =>
                  \A p \in Path : index'[p] \in {existing'[w][p], disk'[AppOf[w]][p]}
             /\ pc'[w] = "search" => index' = disk'[AppOf[w]]
             /\ pc'[w] # "reread"
  <2>0. pc \in [Worker -> Steps] /\ disturbed'[w] = {}
    BY DEF MemoryTypes, Undisturbed
  <2>1. CASE Retrieve(w)
    BY <1>3, <2>1, WorkerMoves
  <2>2. CASE WalkFiles(w)
    BY <2>0, <2>2 DEF WalkFiles, GoTo
  <2>3. ~Fault(w)
    BY <2>0 DEF Fault, MemoryTypes
  <2>4. CASE LoadExisting(w)
    <3>1. /\ existing' = [existing EXCEPT ![w] = index] /\ GoTo(w, "sync") /\ index' = index
      BY <2>3, <2>4 DEF LoadExisting
    <3> QED BY <2>0, <3>1 DEF GoTo, MemoryTypes
  <2>5. CASE Sync(w)
    <3>1. /\ index' = Synced(files[w], existing[w]) /\ GoTo(w, "search") /\ disk' = disk
          /\ pc[w] = "sync"
      BY <2>3, <2>5 DEF Sync
    <3>2. Undisturbed(w)
      <4>1. ~Retrieve(w)
        BY <3>1 DEF Retrieve
      <4> QED BY <1>3, <4>1, WasUndisturbed
    <3>3. files[w] \in Files /\ files[w] = disk[AppOf[w]]
      BY <3>1, <3>2, WritesTheFiles
    <3>4. \A p \in Path : index[p] \in {existing[w][p], files[w][p]}
      BY <1>0, <3>1, <3>2, <3>3
    <3>5. index' \in Files /\ \A p \in Path : index'[p] = files[w][p]
      BY <1>1, <3>1, <3>3, <3>4, SyncedType
    <3>6. index' = files[w]
      BY <3>3, <3>5 DEF Files
    <3> QED BY <2>0, <3>1, <3>3, <3>6 DEF GoTo
  <2>6. CASE Search(w) \/ Finish(w)
    BY <2>0, <2>6 DEF Search, Execute, Finish, GoTo
  <2>7. CASE Reread(w)
    <3>1. ~Retrieve(w) /\ pc[w] = "reread"
      BY <2>7 DEF Reread, Retrieve
    <3> QED BY <1>0, <1>3, <3>1, WasUndisturbed
  <2> QED BY <1>3, <2>1, <2>2, <2>4, <2>5, <2>6, <2>7 DEF Works
<1>4. ASSUME NEW e \in Edits, Edit(e[1], e[2], e[3])
      PROVE  /\ pc'[w] = "sync" =>
                  \A p \in Path : index'[p] \in {existing'[w][p], disk'[AppOf[w]][p]}
             /\ pc'[w] = "search" => index' = disk'[AppOf[w]]
             /\ pc'[w] # "reread"
  <2>1. UNCHANGED <<index, pc, existing>> /\ Undisturbed(w) /\ disk'[AppOf[w]] = disk[AppOf[w]]
    BY <1>4, EditFacts DEF Undisturbed
  <2> QED BY <1>0, <2>1
<1> QED BY <1>2, <1>3, <1>4 DEF Next, Works

\* What an undisturbed query found is still what the files say.
LEMMA NextExact ==
  ASSUME MemoryTypes, TableIsRight, UndisturbedIsExact, Next
  PROVE  UndisturbedIsExact'
<1> SUFFICES ASSUME NEW w \in Worker, pc'[w] = "execute", disturbed'[w] = {}
             PROVE  IsTop(w, memories'[w], disk'[AppOf[w]])
  BY DEF UndisturbedIsExact, Exact
<1>0. Undisturbed(w)'
  BY DEF Undisturbed
<1>1. pc[w] = "execute" /\ Undisturbed(w) => IsTop(w, memories[w], disk[AppOf[w]])
  BY DEF UndisturbedIsExact, Exact, Undisturbed
<1>2. ASSUME NEW x \in Worker, Works(x), x # w
      PROVE  IsTop(w, memories'[w], disk'[AppOf[w]])
  <2>1. Undisturbed(w) /\ pc[w] = "execute"
    BY <1>0, <1>2, WasUndisturbed
  <2>2. memories'[w] = memories[w] /\ disk' = disk
    BY <1>2, WorkerFrame DEF Works
  <2> QED BY <1>1, <2>1, <2>2
<1>3. ASSUME Works(w) PROVE IsTop(w, memories'[w], disk'[AppOf[w]])
  <2>0. pc \in [Worker -> Steps] /\ memories \in [Worker -> Seq(Memory)]
    BY DEF MemoryTypes
  <2>1. ~Retrieve(w) /\ ~Finish(w)
    BY <1>3, WorkerMoves
  <2>2. Undisturbed(w)
    BY <1>0, <1>3, <2>1, WasUndisturbed
  <2>3. ~Reread(w)
    BY <2>2 DEF Reread, TableIsRight
  <2>4. ~WalkFiles(w) /\ ~LoadExisting(w) /\ ~Sync(w)
    BY <2>0 DEF WalkFiles, LoadExisting, Sync, FallBack, GoTo
  <2>5. ~Fault(w)
    BY DEF Fault, MemoryTypes
  <2>6. Search(w)
    BY <1>3, <2>1, <2>3, <2>4 DEF Works
  <2>7. PICK q \in Rankings(Rows(w, index)) : Execute(w, q)
    BY <2>5, <2>6 DEF Search
  <2>8. memories'[w] = q /\ disk' = disk /\ index = disk[AppOf[w]]
    BY <2>0, <2>2, <2>6, <2>7 DEF Execute, Search, TableIsRight
  <2>9. index \in Files
    BY DEF MemoryTypes
  <2>10. IsTop(w, q, index)
    BY <2>9, SearchIsExact
  <2> QED BY <2>8, <2>10
<1>4. ASSUME NEW e \in Edits, Edit(e[1], e[2], e[3])
      PROVE  IsTop(w, memories'[w], disk'[AppOf[w]])
  <2>1. /\ UNCHANGED <<pc, memories>> /\ Undisturbed(w) /\ disk'[AppOf[w]] = disk[AppOf[w]]
    BY <1>4, EditFacts DEF Undisturbed
  <2> QED BY <1>1, <2>1
<1> QED BY <1>2, <1>3, <1>4 DEF Next, Works

\* At the start nobody queries.
LEMMA InitMemory == Init => MemoryInv
<1> SUFFICES ASSUME Init PROVE MemoryInv
  OBVIOUS
<1>1. MemoryTypes
  BY ConstantFacts DEF Init, MemoryTypes, Steps
<1>2. \A w \in Worker : pc[w] = "idle"
  BY DEF Init
<1>3. WritersAgree /\ ReadIsCurrent /\ TableIsRight /\ UndisturbedIsExact
  BY <1>2 DEF WritersAgree, ReadIsCurrent, TableIsRight, UndisturbedIsExact, Undisturbed, Syncing
<1> QED BY <1>1, <1>3 DEF MemoryInv

-----------------------------------------------------------------------------
(* Induction, and what a fold computes *)

\* What fuseScoredMatches works on: matches with their scores.
Scores == [match : Match, score : Nat]

\* Induction, for a set of numbers: otherwise the successor would map the numbers of the
\* set below the first that is missing one to one into those above zero.
LEMMA Induction ==
  ASSUME NEW S, 0 \in S, \A n \in Nat : n \in S => n + 1 \in S
  PROVE  \A n \in Nat : n \in S
<1> SUFFICES ASSUME NEW n \in Nat, n \notin S PROVE FALSE
  OBVIOUS
<1> DEFINE T == {m \in 0 .. n : m \in S}  U == T \ {0}  f == [m \in T |-> m + 1]
<1>1. IsFiniteSet(T)
  <2>1. IsFiniteSet(0 .. n)
    BY FS_Interval
  <2> QED BY <2>1, FS_Subset
<1>2. 0 \in T
  OBVIOUS
<1>3. IsFiniteSet(U) /\ Cardinality(U) = Cardinality(T) - 1
  BY <1>1, <1>2, FS_RemoveElement
<1>4. f \in Injection(T, U)
  <2>1. ASSUME NEW m \in T PROVE m + 1 \in U
    <3>1. m \in 0 .. n /\ m \in S /\ m # n
      OBVIOUS
    <3>2. m + 1 \in S /\ m + 1 \in 0 .. n /\ m + 1 # 0
      BY <3>1
    <3> QED BY <3>2
  <2>2. f \in [T -> U]
    BY <2>1
  <2>3. \A k, m \in T : f[k] = f[m] => k = m
    OBVIOUS
  <2> QED BY <2>2, <2>3 DEF Injection, IsInjective
<1>5. Cardinality(T) <= Cardinality(U)
  BY <1>3, <1>4, FS_Injection
<1>6. Cardinality(T) \in Nat
  BY <1>1, FS_CardinalityType
<1> QED BY <1>3, <1>5, <1>6

\* How many numbers there are up to n.
LEMMA Numbers ==
  ASSUME NEW n \in Nat
  PROVE  IsFiniteSet(1 .. n) /\ Cardinality(1 .. n) = n /\ 1 .. n \subseteq Nat
<1>1. 1 \in Int /\ n \in Int
  OBVIOUS
<1>2. IsFiniteSet(1 .. n) /\ Cardinality(1 .. n) = IF 1 > n THEN 0 ELSE n - 1 + 1
  BY <1>1, FS_Interval
<1> QED BY <1>2

\* A finite set of numbers has a greatest one.
LEMMA Greatest ==
  ASSUME NEW T, T \subseteq Nat, IsFiniteSet(T), T # {}
  PROVE  Max(T) \in T /\ \A x \in T : Max(T) >= x
<1> DEFINE Has(n) == \A U \in SUBSET T :
                        U # {} /\ Cardinality(U) <= n => \E x \in U : \A y \in U : x >= y
           S == {n \in Nat : Has(n)}
<1>1. ASSUME NEW U \in SUBSET T PROVE IsFiniteSet(U) /\ Cardinality(U) \in Nat
  BY FS_Subset, FS_CardinalityType
<1>2. Has(0)
  BY <1>1, FS_EmptySet
<1>3. ASSUME NEW n \in Nat, Has(n) PROVE Has(n + 1)
  <2> SUFFICES ASSUME NEW U \in SUBSET T, U # {}, Cardinality(U) <= n + 1
               PROVE  \E x \in U : \A y \in U : x >= y
    OBVIOUS
  <2>1. PICK u \in U : TRUE
    OBVIOUS
  <2> DEFINE V == U \ {u}
  <2>2. V \in SUBSET T /\ Cardinality(V) <= n
    <3>1. Cardinality(V) = Cardinality(U) - 1 /\ Cardinality(U) \in Nat
      BY <1>1, <2>1, FS_RemoveElement
    <3> QED BY <3>1
  <2>3. CASE V = {}
    <3>1. \A y \in U : y = u /\ y \in Nat
      BY <2>3
    <3>2. \A y \in U : u >= y
      BY <3>1
    <3> QED BY <2>1, <3>2
  <2>4. CASE V # {}
    <3>1. PICK v \in V : \A y \in V : v >= y
      BY <1>3, <2>2, <2>4
    <3>2. u \in Nat /\ v \in Nat /\ u \in U /\ v \in U
      BY <2>1
    <3>3. \A y \in U : y \in Nat /\ (y = u \/ y \in V)
      OBVIOUS
    <3>4. CASE u >= v
      <4>1. \A y \in U : u >= y
        BY <3>1, <3>2, <3>3, <3>4
      <4> QED BY <3>2, <4>1
    <3>5. CASE ~ (u >= v)
      <4>1. \A y \in U : v >= y
        BY <3>1, <3>2, <3>3, <3>5
      <4> QED BY <3>2, <4>1
    <3> QED BY <3>4, <3>5
  <2> QED BY <2>3, <2>4
<1> HIDE DEF Has
<1>4. \A n \in Nat : n \in S
  <2>1. 0 \in S /\ \A n \in Nat : n \in S => n + 1 \in S
    BY <1>2, <1>3
  <2> HIDE DEF S
  <2> QED BY <2>1, Induction
<1>5. Has(Cardinality(T))
  BY <1>1, <1>4
<1>6. \E x \in T : \A y \in T : x >= y
  BY <1>1, <1>5 DEF Has
<1> QED BY <1>6 DEF Max

\* What FoldLeft computes for one set of positions after the other.
IsFold(f, n, R, base, G) ==
    /\ f \in [SUBSET (1 .. n) -> R]
    /\ \A s \in SUBSET (1 .. n) :
          f[s] = IF s = {} THEN base ELSE G[<<f[s \ {Max(s)}], Max(s)>>]

\* Such a function exists.
LEMMA FoldIsDefined ==
  ASSUME NEW n \in Nat, NEW R, NEW base \in R, NEW G \in [R \X (1 .. n) -> R]
  PROVE  \E f : IsFold(f, n, R, base, G)
<1> DEFINE D == 1 .. n
           Good(f, s) == f[s] = IF s = {} THEN base ELSE G[<<f[s \ {Max(s)}], Max(s)>>]
           Has(k) == \E f \in [SUBSET D -> R] : \A s \in SUBSET D :
                        Cardinality(s) <= k => Good(f, s)
           S == {k \in Nat : Has(k)}
<1>1. ASSUME NEW s \in SUBSET D
      PROVE  IsFiniteSet(s) /\ Cardinality(s) \in Nat /\ Cardinality(s) <= n
  <2>1. IsFiniteSet(D) /\ Cardinality(D) = n
    BY Numbers
  <2>2. IsFiniteSet(s) /\ Cardinality(s) <= Cardinality(D)
    BY <2>1, FS_Subset
  <2>3. Cardinality(s) \in Nat
    BY <2>2, FS_CardinalityType
  <2> QED BY <2>1, <2>2, <2>3
<1>2. ASSUME NEW s \in SUBSET D, s # {}
      PROVE  Max(s) \in D /\ s \ {Max(s)} \in SUBSET D
             /\ Cardinality(s \ {Max(s)}) = Cardinality(s) - 1
  <2>1. s \subseteq Nat
    OBVIOUS
  <2>2. Max(s) \in s
    BY <1>1, <1>2, <2>1, Greatest
  <2> QED BY <1>1, <2>2, FS_RemoveElement
<1>3. Has(0)
  <2> DEFINE f == [s \in SUBSET D |-> base]
  <2>1. f \in [SUBSET D -> R]
    OBVIOUS
  <2>2. ASSUME NEW s \in SUBSET D, Cardinality(s) <= 0 PROVE Good(f, s)
    <3>1. s = {}
      BY <1>1, <2>2, FS_EmptySet
    <3> QED BY <3>1
  <2> HIDE DEF f, Good
  <2> QED BY <2>1, <2>2
<1>4. ASSUME NEW k \in Nat, Has(k) PROVE Has(k + 1)
  <2>1. PICK f \in [SUBSET D -> R] : \A s \in SUBSET D : Cardinality(s) <= k => Good(f, s)
    BY <1>4
  <2> DEFINE g == [s \in SUBSET D |-> IF s = {} THEN base
                                      ELSE G[<<f[s \ {Max(s)}], Max(s)>>]]
  <2>2. g \in [SUBSET D -> R]
    <3>1. ASSUME NEW s \in SUBSET D, s # {} PROVE G[<<f[s \ {Max(s)}], Max(s)>>] \in R
      <4>1. Max(s) \in D /\ f[s \ {Max(s)}] \in R
        BY <1>2, <3>1
      <4>2. <<f[s \ {Max(s)}], Max(s)>> \in R \X (1 .. n)
        BY <4>1
      <4> QED BY <4>2
    <3> QED BY <3>1
  <2>3. \A s \in SUBSET D : Cardinality(s) <= k => g[s] = f[s]
    BY <2>1
  <2>4. ASSUME NEW s \in SUBSET D, Cardinality(s) <= k + 1 PROVE Good(g, s)
    <3>1. CASE s = {}
      BY <3>1
    <3>2. CASE s # {}
      <4>1. s \ {Max(s)} \in SUBSET D /\ Cardinality(s \ {Max(s)}) <= k
        BY <1>1, <1>2, <2>4, <3>2
      <4>2. g[s \ {Max(s)}] = f[s \ {Max(s)}]
        BY <2>3, <4>1
      <4>3. g[s] = G[<<f[s \ {Max(s)}], Max(s)>>]
        BY <3>2
      <4> QED BY <3>2, <4>2, <4>3
    <3> QED BY <3>1, <3>2
  <2> HIDE DEF g, Good
  <2> QED BY <2>2, <2>4
<1>5. Has(n)
  <2> HIDE DEF Has
  <2>1. 0 \in S /\ \A k \in Nat : k \in S => k + 1 \in S
    BY <1>3, <1>4
  <2>2. S = {k \in Nat : Has(k)}
    OBVIOUS
  <2> HIDE DEF S
  <2>3. n \in S
    BY <2>1, Induction
  <2> QED BY <2>2, <2>3
<1>6. PICK f \in [SUBSET D -> R] : \A s \in SUBSET D : Cardinality(s) <= n => Good(f, s)
  BY <1>5
<1>7. \A s \in SUBSET D : Good(f, s)
  BY <1>1, <1>6
<1> QED BY <1>6, <1>7 DEF IsFold
\* fuseScoredMatches as a chain of steps.
LEMMA KeepChain ==
  ASSUME NEW q \in Seq(Scores)
  PROVE  \E h \in [0 .. Len(q) -> Seq(Match)] :
            /\ h[0] = <<>>
            /\ \A k \in 1 .. Len(q) : h[k] = Keep(h[k - 1], q[k])
            /\ FoldLeft(Keep, <<>>, q) = h[Len(q)]
<1> DEFINE n == Len(q)  D == DOMAIN q  R == Seq(Match)
           G == [x \in R \X (1 .. n) |-> Keep(x[1], q[x[2]])]
           Body(f, s) == IF s = {} THEN <<>> ELSE Keep(f[s \ {Max(s)}], q[Max(s)])
           Is(f) == f = [s \in SUBSET D |-> Body(f, s)]
           iter == CHOOSE f : Is(f)
           h == [k \in 0 .. n |-> iter[1 .. k]]
<1>1. n \in Nat /\ D = 1 .. n /\ \A i \in 1 .. n : q[i] \in Scores
  OBVIOUS
<1>2. G \in [R \X (1 .. n) -> R]
  <2>1. ASSUME NEW out \in R, NEW i \in 1 .. n PROVE Keep(out, q[i]) \in R
    BY <1>1 DEF Keep, Scores
  <2> QED BY <2>1
<1>3. <<>> \in R
  OBVIOUS
<1>4. PICK f : IsFold(f, n, R, <<>>, G)
  <2> HIDE DEF G, R, n
  <2> QED BY <1>1, <1>2, <1>3, FoldIsDefined
<1>5. ASSUME NEW s \in SUBSET D, s # {} PROVE Max(s) \in s
  <2>1. s \subseteq Nat /\ IsFiniteSet(s)
    BY <1>1, Numbers, FS_Subset
  <2> QED BY <1>5, <2>1, Greatest
<1>6. Is(f)
  <2>1. ASSUME NEW s \in SUBSET D PROVE f[s] = Body(f, s)
    <3>1. CASE s = {}
      BY <1>1, <1>4, <3>1 DEF IsFold
    <3>2. CASE s # {}
      <4>1. Max(s) \in 1 .. n /\ s \ {Max(s)} \in SUBSET (1 .. n)
        BY <1>1, <1>5, <3>2
      <4>2. f[s \ {Max(s)}] \in R
        BY <1>4, <4>1 DEF IsFold
      <4>3. f[s] = G[<<f[s \ {Max(s)}], Max(s)>>]
        BY <1>1, <1>4, <3>2 DEF IsFold
      <4>4. G[<<f[s \ {Max(s)}], Max(s)>>] = Keep(f[s \ {Max(s)}], q[Max(s)])
        BY <4>1, <4>2
      <4> QED BY <3>2, <4>3, <4>4
    <3> QED BY <3>1, <3>2
  <2>2. f = [s \in SUBSET D |-> f[s]]
    BY <1>1, <1>4 DEF IsFold
  <2> HIDE DEF Body
  <2> QED BY <2>1, <2>2
<1>7. FoldLeft(Keep, <<>>, q) = iter[D]
  BY DEF FoldLeft, MapThenFoldSet
<1>8. Is(iter)
  BY <1>6
<1>9. \A s \in SUBSET D : iter[s] = Body(iter, s)
  <2> HIDE DEF iter, Body
  <2> QED BY <1>8
<1> HIDE DEF iter
<1>10. h[0] = <<>>
  <2>1. 1 .. 0 = {} /\ {} \in SUBSET D
    OBVIOUS
  <2>2. iter[{}] = <<>>
    BY <1>9, <2>1
  <2>3. h[0] = iter[1 .. 0]
    BY <1>1
  <2> QED BY <2>1, <2>2, <2>3
<1>11. ASSUME NEW k \in 1 .. n PROVE h[k] = Keep(h[k - 1], q[k])
  <2>1. (1 .. k) \in SUBSET D /\ 1 .. k # {} /\ k \in Nat
    <3> HIDE DEF n, D
    <3>1. k \in Nat /\ 1 <= k /\ k <= n
      BY <1>1, <1>11
    <3>2. \A i \in 1 .. k : i \in 1 .. n
      BY <1>1, <3>1
    <3>3. 1 \in 1 .. k
      BY <3>1
    <3>4. D = 1 .. n
      BY <1>1
    <3> QED BY <3>1, <3>2, <3>3, <3>4
  <2>2. Max(1 .. k) = k
    <3>1. IsFiniteSet(1 .. k) /\ 1 .. k \subseteq Nat
      BY <2>1, FS_Interval
    <3>2. Max(1 .. k) \in 1 .. k /\ \A x \in 1 .. k : Max(1 .. k) >= x
      BY <2>1, <3>1, Greatest
    <3> QED BY <2>1, <3>2
  <2>3. (1 .. k) \ {k} = 1 .. (k - 1)
    BY <2>1
  <2>4. iter[1 .. k] = Keep(iter[1 .. (k - 1)], q[k])
    BY <1>9, <2>1, <2>2, <2>3
  <2>5. k \in 0 .. n /\ k - 1 \in 0 .. n
    BY <1>1
  <2> QED BY <2>4, <2>5
<1>12. h \in [0 .. n -> R]
  <2> DEFINE S == {k \in Nat : k <= n => h[k] \in R}
  <2>1. 0 \in S
    BY <1>3, <1>10
  <2>2. ASSUME NEW k \in Nat, k \in S PROVE k + 1 \in S
    <3>1. CASE k + 1 <= n
      <4>1. h[k] \in R /\ k + 1 \in 1 .. n /\ (k + 1) - 1 = k
        BY <1>1, <2>2, <3>1
      <4>2. h[k + 1] = Keep(h[k], q[k + 1])
        BY <1>11, <4>1
      <4>3. Keep(h[k], q[k + 1]) \in R
        <5> HIDE DEF h
        <5> QED BY <1>1, <4>1 DEF Keep, Scores
      <4> QED BY <4>2, <4>3
    <3> QED BY <3>1
  <2>3. \A k \in Nat : k \in S
    <3>1. \A k \in Nat : k \in S => k + 1 \in S
      BY <2>2
    <3> HIDE DEF S
    <3> QED BY <2>1, <3>1, Induction
  <2>4. \A k \in 0 .. n : h[k] \in R
    <3> HIDE DEF h
    <3> QED BY <1>1, <2>3
  <2>5. h = [k \in 0 .. n |-> h[k]]
    OBVIOUS
  <2> QED BY <2>4, <2>5
<1>13. h[n] = iter[D]
  BY <1>1
<1> HIDE DEF h
<1> QED BY <1>7, <1>10, <1>11, <1>12, <1>13

\* So is groupMatchesBySession.
LEMMA ShowChain ==
  ASSUME NEW q \in Seq(Match)
  PROVE  \E h \in [0 .. Len(q) -> Seq(Match)] :
            /\ h[0] = <<>>
            /\ \A k \in 1 .. Len(q) : h[k] = Show(h[k - 1], q[k])
            /\ FoldLeft(Show, <<>>, q) = h[Len(q)]
<1> DEFINE n == Len(q)  D == DOMAIN q  R == Seq(Match)
           G == [x \in R \X (1 .. n) |-> Show(x[1], q[x[2]])]
           Body(f, s) == IF s = {} THEN <<>> ELSE Show(f[s \ {Max(s)}], q[Max(s)])
           Is(f) == f = [s \in SUBSET D |-> Body(f, s)]
           iter == CHOOSE f : Is(f)
           h == [k \in 0 .. n |-> iter[1 .. k]]
<1>1. n \in Nat /\ D = 1 .. n /\ \A i \in 1 .. n : q[i] \in Match
  OBVIOUS
<1>2. G \in [R \X (1 .. n) -> R]
  <2>1. ASSUME NEW out \in R, NEW i \in 1 .. n PROVE Show(out, q[i]) \in R
    BY <1>1 DEF Show
  <2> QED BY <2>1
<1>3. <<>> \in R
  OBVIOUS
<1>4. PICK f : IsFold(f, n, R, <<>>, G)
  <2> HIDE DEF G, R, n
  <2> QED BY <1>1, <1>2, <1>3, FoldIsDefined
<1>5. ASSUME NEW s \in SUBSET D, s # {} PROVE Max(s) \in s
  <2>1. s \subseteq Nat /\ IsFiniteSet(s)
    BY <1>1, Numbers, FS_Subset
  <2> QED BY <1>5, <2>1, Greatest
<1>6. Is(f)
  <2>1. ASSUME NEW s \in SUBSET D PROVE f[s] = Body(f, s)
    <3>1. CASE s = {}
      BY <1>1, <1>4, <3>1 DEF IsFold
    <3>2. CASE s # {}
      <4>1. Max(s) \in 1 .. n /\ s \ {Max(s)} \in SUBSET (1 .. n)
        BY <1>1, <1>5, <3>2
      <4>2. f[s \ {Max(s)}] \in R
        BY <1>4, <4>1 DEF IsFold
      <4>3. f[s] = G[<<f[s \ {Max(s)}], Max(s)>>]
        BY <1>1, <1>4, <3>2 DEF IsFold
      <4>4. G[<<f[s \ {Max(s)}], Max(s)>>] = Show(f[s \ {Max(s)}], q[Max(s)])
        BY <4>1, <4>2
      <4> QED BY <3>2, <4>3, <4>4
    <3> QED BY <3>1, <3>2
  <2>2. f = [s \in SUBSET D |-> f[s]]
    BY <1>1, <1>4 DEF IsFold
  <2> HIDE DEF Body
  <2> QED BY <2>1, <2>2
<1>7. FoldLeft(Show, <<>>, q) = iter[D]
  BY DEF FoldLeft, MapThenFoldSet
<1>8. Is(iter)
  BY <1>6
<1>9. \A s \in SUBSET D : iter[s] = Body(iter, s)
  <2> HIDE DEF iter, Body
  <2> QED BY <1>8
<1> HIDE DEF iter
<1>10. h[0] = <<>>
  <2>1. 1 .. 0 = {} /\ {} \in SUBSET D
    OBVIOUS
  <2>2. iter[{}] = <<>>
    BY <1>9, <2>1
  <2>3. h[0] = iter[1 .. 0]
    BY <1>1
  <2> QED BY <2>1, <2>2, <2>3
<1>11. ASSUME NEW k \in 1 .. n PROVE h[k] = Show(h[k - 1], q[k])
  <2>1. (1 .. k) \in SUBSET D /\ 1 .. k # {} /\ k \in Nat
    <3> HIDE DEF n, D
    <3>1. k \in Nat /\ 1 <= k /\ k <= n
      BY <1>1, <1>11
    <3>2. \A i \in 1 .. k : i \in 1 .. n
      BY <1>1, <3>1
    <3>3. 1 \in 1 .. k
      BY <3>1
    <3>4. D = 1 .. n
      BY <1>1
    <3> QED BY <3>1, <3>2, <3>3, <3>4
  <2>2. Max(1 .. k) = k
    <3>1. IsFiniteSet(1 .. k) /\ 1 .. k \subseteq Nat
      BY <2>1, FS_Interval
    <3>2. Max(1 .. k) \in 1 .. k /\ \A x \in 1 .. k : Max(1 .. k) >= x
      BY <2>1, <3>1, Greatest
    <3> QED BY <2>1, <3>2
  <2>3. (1 .. k) \ {k} = 1 .. (k - 1)
    BY <2>1
  <2>4. iter[1 .. k] = Show(iter[1 .. (k - 1)], q[k])
    BY <1>9, <2>1, <2>2, <2>3
  <2>5. k \in 0 .. n /\ k - 1 \in 0 .. n
    BY <1>1
  <2> QED BY <2>4, <2>5
<1>12. h \in [0 .. n -> R]
  <2> DEFINE S == {k \in Nat : k <= n => h[k] \in R}
  <2>1. 0 \in S
    BY <1>3, <1>10
  <2>2. ASSUME NEW k \in Nat, k \in S PROVE k + 1 \in S
    <3>1. CASE k + 1 <= n
      <4>1. h[k] \in R /\ k + 1 \in 1 .. n /\ (k + 1) - 1 = k
        BY <1>1, <2>2, <3>1
      <4>2. h[k + 1] = Show(h[k], q[k + 1])
        BY <1>11, <4>1
      <4>3. Show(h[k], q[k + 1]) \in R
        <5> HIDE DEF h
        <5> QED BY <1>1, <4>1 DEF Show
      <4> QED BY <4>2, <4>3
    <3> QED BY <3>1
  <2>3. \A k \in Nat : k \in S
    <3>1. \A k \in Nat : k \in S => k + 1 \in S
      BY <2>2
    <3> HIDE DEF S
    <3> QED BY <2>1, <3>1, Induction
  <2>4. \A k \in 0 .. n : h[k] \in R
    <3> HIDE DEF h
    <3> QED BY <1>1, <2>3
  <2>5. h = [k \in 0 .. n |-> h[k]]
    OBVIOUS
  <2> QED BY <2>4, <2>5
<1>13. h[n] = iter[D]
  BY <1>1
<1> HIDE DEF h
<1> QED BY <1>7, <1>10, <1>11, <1>12, <1>13

\* A part of a finite set is finite and not greater.
LEMMA Parts ==
  ASSUME NEW T, IsFiniteSet(T), NEW S, S \subseteq T
  PROVE  /\ IsFiniteSet(S) /\ Cardinality(S) \in Nat /\ Cardinality(T) \in Nat
         /\ Cardinality(S) <= Cardinality(T)
         /\ Cardinality(S) = Cardinality(T) => S = T
<1>1. S \in SUBSET T
  OBVIOUS
<1>2. IsFiniteSet(S) /\ Cardinality(S) <= Cardinality(T)
      /\ (Cardinality(T) = Cardinality(S) => T = S)
  BY <1>1, FS_Subset
<1>3. Cardinality(S) \in Nat /\ Cardinality(T) \in Nat
  BY <1>2, FS_CardinalityType
<1> QED BY <1>2, <1>3

\* sort.SliceStable: candidates whose scores differ, all of them, best first.
LEMMA Sorted ==
  ASSUME NEW B, IsFiniteSet(B), B \subseteq Scores,
         \A c, d \in B : c.score = d.score => c = d
  PROVE  /\ ByScore(B) \in Seq(B)
         /\ \A i, j \in DOMAIN ByScore(B) :
               i < j => ByScore(B)[i].score > ByScore(B)[j].score
         /\ \A c \in B : \E i \in DOMAIN ByScore(B) : ByScore(B)[i] = c
<1> DEFINE n == Cardinality(B)
           reach(c) == {d \in B : d.score >= c.score}
           rank == [c \in B |-> Cardinality(reach(c))]
           q == ByScore(B)
<1>1. n \in Nat /\ IsFiniteSet(1 .. n) /\ Cardinality(1 .. n) = n
  BY FS_CardinalityType, Numbers
<1>2. \A c \in B : c.score \in Nat
  BY DEF Scores
<1>3. ASSUME NEW c \in B PROVE rank[c] \in 1 .. n
  <2>1. reach(c) \subseteq B /\ c \in reach(c)
    BY <1>2
  <2>2. IsFiniteSet(reach(c)) /\ Cardinality(reach(c)) \in Nat /\ Cardinality(reach(c)) <= n
    BY <2>1, Parts
  <2>3. Cardinality(reach(c)) # 0
    BY <2>1, <2>2, FS_EmptySet
  <2>4. rank[c] = Cardinality(reach(c))
    OBVIOUS
  <2> HIDE DEF reach, rank, n
  <2> QED BY <1>1, <2>2, <2>3, <2>4
<1>4. ASSUME NEW c \in B, NEW d \in B, c.score > d.score PROVE rank[c] < rank[d]
  <2>1. reach(c) \subseteq reach(d) /\ d \in reach(d) /\ d \notin reach(c) /\ reach(d) \subseteq B
    BY <1>2, <1>4
  <2>2. IsFiniteSet(reach(d))
    BY <2>1, Parts
  <2>3. /\ Cardinality(reach(c)) \in Nat /\ Cardinality(reach(d)) \in Nat
        /\ Cardinality(reach(c)) <= Cardinality(reach(d))
        /\ Cardinality(reach(c)) # Cardinality(reach(d))
    <3> HIDE DEF reach
    <3> QED BY <2>1, <2>2, Parts
  <2>4. rank[c] = Cardinality(reach(c)) /\ rank[d] = Cardinality(reach(d))
    OBVIOUS
  <2> HIDE DEF reach, rank
  <2> QED BY <2>3, <2>4
<1> HIDE DEF rank
<1>5. \A c, d \in B : rank[c] = rank[d] => c = d
  <2> SUFFICES ASSUME NEW c \in B, NEW d \in B, rank[c] = rank[d] PROVE c = d
    OBVIOUS
  <2>1. rank[c] \in Nat /\ rank[d] \in Nat /\ c.score \in Nat /\ d.score \in Nat
    BY <1>2, <1>3
  <2>2. ~ (c.score > d.score) /\ ~ (d.score > c.score)
    BY <1>4, <2>1
  <2>3. c.score = d.score
    BY <2>1, <2>2
  <2> QED BY <2>3
<1>6. rank \in Injection(B, 1 .. n)
  <2>1. rank \in [B -> 1 .. n]
    <3>1. rank = [c \in B |-> rank[c]]
      BY DEF rank
    <3> QED BY <1>3, <3>1
  <2> QED BY <1>5, <2>1 DEF Injection, IsInjective
<1>7. \A i \in 1 .. n : \E c \in B : rank[c] = i
  <2>1. rank \in Surjection(B, 1 .. n)
    <3> HIDE DEF n
    <3>1. Cardinality(B) = Cardinality(1 .. n)
      BY <1>1 DEF n
    <3> QED BY <1>1, <1>6, <3>1, FS_Injection
  <2> QED BY <2>1 DEF Surjection
<1>8. \A i \in 1 .. n : q[i] = CHOOSE c \in B : rank[c] = i
  <2>1. \A i \in 1 .. n : q[i] = CHOOSE c \in B : Cardinality(reach(c)) = i
    BY DEF ByScore
  <2>2. \A c \in B : rank[c] = Cardinality(reach(c))
    BY DEF rank
  <2>3. ASSUME NEW i \in 1 .. n
        PROVE (CHOOSE c \in B : Cardinality(reach(c)) = i) = CHOOSE c \in B : rank[c] = i
    <3> HIDE DEF reach
    <3>1. \A c : (c \in B /\ Cardinality(reach(c)) = i) <=> (c \in B /\ rank[c] = i)
      BY <2>2
    <3> QED BY <3>1
  <2> QED BY <2>1, <2>3
<1>9. DOMAIN q = 1 .. n /\ q = [i \in 1 .. n |-> q[i]]
  <2> DEFINE item(i) == CHOOSE c \in B : Cardinality(reach(c)) = i
  <2>1. q = [i \in 1 .. n |-> item(i)]
    BY DEF ByScore
  <2> HIDE DEF item, q
  <2> QED BY <2>1
<1> HIDE DEF q
<1>10. \A i \in 1 .. n : q[i] \in B /\ rank[q[i]] = i
  BY <1>7, <1>8
<1>11. q \in Seq(B)
  <2>1. q \in [1 .. n -> B]
    BY <1>9, <1>10
  <2> HIDE DEF n
  <2> QED BY <1>1, <2>1
<1>12. ASSUME NEW i \in 1 .. n, NEW j \in 1 .. n, i < j PROVE q[i].score > q[j].score
  <2>1. q[i] \in B /\ q[j] \in B /\ rank[q[i]] = i /\ rank[q[j]] = j
    BY <1>10
  <2>2. i \in Nat /\ j \in Nat /\ ~ (j < i) /\ i # j
    BY <1>12
  <2>3. q[i].score \in Nat /\ q[j].score \in Nat
    BY <1>2, <2>1
  <2>4. ~ (q[j].score > q[i].score)
    BY <1>4, <2>1, <2>2
  <2>5. q[i].score # q[j].score
    BY <2>1, <2>2
  <2> QED BY <2>3, <2>4, <2>5
<1>13. \A c \in B : \E i \in 1 .. n : q[i] = c
  <2> TAKE c \in B
  <2>1. rank[c] \in 1 .. n
    BY <1>3
  <2>2. q[rank[c]] = c
    BY <1>5, <1>10, <2>1
  <2> QED BY <2>1, <2>2
<1>14. \A i, j \in DOMAIN q : i < j => q[i].score > q[j].score
  BY <1>9, <1>12
<1>15. \A c \in B : \E i \in DOMAIN q : q[i] = c
  BY <1>9, <1>13
<1> QED BY <1>11, <1>14, <1>15 DEF q

\* A search that found something the three routes may find.
Result(r) ==
    /\ r.fts \in Seq(Match) /\ r.like \in Seq(Match) /\ r.summary \in Seq(Match)
    /\ Len(r.fts) <= 12 /\ Len(r.like) <= 12 /\ Len(r.summary) <= 8

\* The candidates of one route: finitely many, each with a score of its own.
LEMMA ScoredFacts ==
  ASSUME NEW ms \in Seq(Match), NEW lim \in Nat, Len(ms) <= lim,
         NEW first \in Nat, lim < first
  PROVE  /\ IsFiniteSet(Scored(ms, first)) /\ Scored(ms, first) \subseteq Scores
         /\ \A c \in Scored(ms, first) : first - lim <= c.score /\ c.score < first
         /\ \A c, d \in Scored(ms, first) : c.score = d.score => c = d
<1> DEFINE item(i) == [match |-> ms[i], score |-> first - i]
           f == [i \in DOMAIN ms |-> item(i)]
<1>1. Len(ms) \in Nat /\ DOMAIN ms = 1 .. Len(ms) /\ \A i \in DOMAIN ms : ms[i] \in Match
  OBVIOUS
<1>2. f \in Surjection(DOMAIN ms, Scored(ms, first))
  BY DEF Scored, Surjection
<1>3. IsFiniteSet(DOMAIN ms)
  BY <1>1, Numbers
<1>4. IsFiniteSet(Scored(ms, first))
  BY <1>2, <1>3, FS_Surjection
<1>5. ASSUME NEW i \in DOMAIN ms
      PROVE  /\ i \in Nat /\ first - i \in Nat /\ first - lim <= first - i /\ first - i < first
             /\ item(i) \in Scores /\ item(i).score = first - i
  <2>1. i \in Nat /\ 1 <= i /\ i <= lim
    BY <1>1
  <2>2. first - i \in Nat /\ first - lim <= first - i /\ first - i < first
    BY <2>1
  <2> QED BY <1>1, <2>1, <2>2 DEF Scores
<1>6. \A c \in Scored(ms, first) : \E i \in DOMAIN ms : c = item(i)
  BY DEF Scored
<1>7. ASSUME NEW c \in Scored(ms, first), NEW d \in Scored(ms, first), c.score = d.score
      PROVE  c = d
  <2>1. PICK i \in DOMAIN ms : c = item(i)
    BY <1>6
  <2>2. PICK j \in DOMAIN ms : d = item(j)
    BY <1>6
  <2>3. first - i = first - j /\ i \in Nat /\ j \in Nat
    BY <1>5, <1>7, <2>1, <2>2
  <2>4. i = j
    BY <2>3
  <2> QED BY <2>1, <2>2, <2>4
<1> HIDE DEF item
<1>8. \A c \in Scored(ms, first) : c \in Scores /\ first - lim <= c.score /\ c.score < first
  BY <1>5, <1>6
<1> QED BY <1>4, <1>7, <1>8

\* The candidates of all routes: no two have the same score.
LEMMA CandidateFacts ==
  ASSUME NEW r, Result(r)
  PROVE  /\ IsFiniteSet(Candidates(r)) /\ Candidates(r) \subseteq Scores
         /\ \A c, d \in Candidates(r) : c.score = d.score => c = d
<1> DEFINE F == Scored(r.fts, 101)  L == Scored(r.like, 71)  S == Scored(r.summary, 51)
<1>1. /\ IsFiniteSet(F) /\ F \subseteq Scores
      /\ \A c \in F : 101 - 12 <= c.score /\ c.score < 101
      /\ \A c, d \in F : c.score = d.score => c = d
  BY ScoredFacts DEF Result
<1>2. /\ IsFiniteSet(L) /\ L \subseteq Scores
      /\ \A c \in L : 71 - 12 <= c.score /\ c.score < 71
      /\ \A c, d \in L : c.score = d.score => c = d
  BY ScoredFacts DEF Result
<1>3. /\ IsFiniteSet(S) /\ S \subseteq Scores
      /\ \A c \in S : 51 - 8 <= c.score /\ c.score < 51
      /\ \A c, d \in S : c.score = d.score => c = d
  BY ScoredFacts DEF Result
<1> HIDE DEF F, L, S
<1>4. Candidates(r) = (F \cup L) \cup S
  BY DEF Candidates, F, L, S
<1>5. IsFiniteSet(F \cup L)
  BY <1>1, <1>2, FS_Union
<1>6. IsFiniteSet((F \cup L) \cup S)
  BY <1>3, <1>5, FS_Union
<1>7. \A c \in (F \cup L) \cup S : c \in Scores /\ c.score \in Nat
  BY <1>1, <1>2, <1>3 DEF Scores
<1>8. ASSUME NEW c \in (F \cup L) \cup S, NEW d \in (F \cup L) \cup S, c.score = d.score
      PROVE  c = d
  <2>1. /\ c \in F => 88 < c.score
        /\ c \in L => 58 < c.score /\ c.score < 71
        /\ c \in S => c.score < 51
    BY <1>1, <1>2, <1>3, <1>7
  <2>2. /\ d \in F => 88 < d.score
        /\ d \in L => 58 < d.score /\ d.score < 71
        /\ d \in S => d.score < 51
    BY <1>1, <1>2, <1>3, <1>7
  <2>3. (c \in F /\ d \in F) \/ (c \in L /\ d \in L) \/ (c \in S /\ d \in S)
    BY <1>7, <1>8, <2>1, <2>2
  <2> QED BY <1>1, <1>2, <1>3, <1>8, <2>3
<1> QED BY <1>4, <1>6, <1>7, <1>8

\* The scores of the candidates for a match.
ScoresOf(C, m) == {c.score : c \in {d \in C : d.match = m}}

\* best: one candidate for every match, and its score is the greatest.
LEMMA BestFacts ==
  ASSUME NEW C, IsFiniteSet(C), C \subseteq Scores,
         \A c, d \in C : c.score = d.score => c = d
  PROVE  /\ IsFiniteSet(Best(C)) /\ Best(C) \subseteq C
         /\ \A c \in C : \E b \in Best(C) : b.match = c.match
         /\ \A b \in Best(C) : Max(ScoresOf(C, b.match)) = b.score
<1>1. Best(C) \subseteq C /\ IsFiniteSet(Best(C))
  <2>1. Best(C) \subseteq C
    BY DEF Best
  <2> QED BY <2>1, Parts
<1>2. ASSUME NEW c \in C
      PROVE  /\ Max(ScoresOf(C, c.match)) \in ScoresOf(C, c.match)
             /\ \A x \in ScoresOf(C, c.match) : x \in Nat /\ Max(ScoresOf(C, c.match)) >= x
  <2> DEFINE D == {d \in C : d.match = c.match}
             f == [d \in D |-> d.score]
  <2>1. f \in Surjection(D, ScoresOf(C, c.match))
    BY DEF ScoresOf, Surjection
  <2>2. IsFiniteSet(D)
    <3>1. D \subseteq C
      OBVIOUS
    <3> HIDE DEF D
    <3> QED BY <3>1, Parts
  <2>3. IsFiniteSet(ScoresOf(C, c.match))
    BY <2>1, <2>2, FS_Surjection
  <2>4. ScoresOf(C, c.match) \subseteq Nat
    BY DEF ScoresOf, Scores
  <2>5. c.score \in ScoresOf(C, c.match)
    BY DEF ScoresOf
  <2>6. ScoresOf(C, c.match) # {}
    BY <2>5
  <2> QED BY <2>3, <2>4, <2>6, Greatest
<1>3. ASSUME NEW c \in C PROVE \E b \in Best(C) : b.match = c.match
  <2>1. PICK b \in C : b.match = c.match /\ b.score = Max(ScoresOf(C, c.match))
    BY <1>2 DEF ScoresOf
  <2>2. ASSUME NEW d \in C, d.match = b.match PROVE d.score <= b.score
    <3>1. d.score \in ScoresOf(C, c.match)
      BY <2>1, <2>2 DEF ScoresOf
    <3>2. d.score \in Nat /\ b.score \in Nat
      BY DEF Scores
    <3> QED BY <1>2, <2>1, <3>1, <3>2
  <2>3. b \in Best(C)
    BY <2>2 DEF Best
  <2> QED BY <2>1, <2>3
<1>4. ASSUME NEW b \in Best(C) PROVE Max(ScoresOf(C, b.match)) = b.score
  <2>1. b \in C /\ b.score \in Nat
    BY <1>1 DEF Scores
  <2>2. \A x \in ScoresOf(C, b.match) : x <= b.score
    BY <1>4 DEF ScoresOf, Best
  <2>3. b.score \in ScoresOf(C, b.match)
    BY <2>1 DEF ScoresOf
  <2>4. Max(ScoresOf(C, b.match)) \in Nat /\ Max(ScoresOf(C, b.match)) <= b.score
        /\ Max(ScoresOf(C, b.match)) >= b.score
    BY <1>2, <2>1, <2>2, <2>3
  <2> QED BY <2>1, <2>4
<1> QED BY <1>1, <1>3, <1>4

-----------------------------------------------------------------------------
(* The history: what is kept and what is shown *)

\* Worth says how good a match is.
Worths == [Match -> Nat]
BestFirst(out, worth) ==
    \A i, j \in DOMAIN out : i < j => worth[out[i]] > worth[out[j]]
Better(out, worth, m) == {i \in DOMAIN out : worth[out[i]] > worth[m]}
Crowded(out, worth, m) ==
    Cardinality({i \in Better(out, worth, m) : out[i].session = m.session}) >= MaxPerSession

\* After the first k matches of p: what is left out, is left out for better ones.
Taken(out, p, worth, k) ==
    /\ out \in Seq(Match)
    /\ \A i \in DOMAIN out : \E j \in 1 .. k : out[i] = p[j]
    /\ BestFirst(out, worth)
    /\ \A s : Cardinality(OfSession(out, s)) <= MaxPerSession
KeptWell(out, p, worth, k) ==
    \A j \in 1 .. k : \/ \E i \in DOMAIN out : out[i] = p[j]
                      \/ Crowded(out, worth, p[j])
                      \/ Cardinality(Better(out, worth, p[j])) >= MaxMatches
SessionsBefore(out, worth, m) == {out[i].session : i \in Better(out, worth, m)}
ShownWell(out, p, worth, k) ==
    /\ Cardinality(Sessions(out)) <= MaxSessions
    /\ \A j \in 1 .. k : \/ \E i \in DOMAIN out : out[i] = p[j]
                         \/ Crowded(out, worth, p[j])
                         \/ /\ p[j].session \notin Sessions(out)
                            /\ Cardinality(SessionsBefore(out, worth, p[j])) >= MaxSessions

\* The sets that are counted are finite.
LEMMA Counted ==
  ASSUME NEW out \in Seq(Match), NEW D, D \subseteq DOMAIN out
  PROVE  IsFiniteSet(D) /\ IsFiniteSet({out[i].session : i \in D})
<1>1. IsFiniteSet(DOMAIN out)
  <2>1. Len(out) \in Nat /\ DOMAIN out = 1 .. Len(out)
    OBVIOUS
  <2> QED BY <2>1, Numbers
<1>2. IsFiniteSet(D)
  BY <1>1, Parts
<1> DEFINE T == {out[i].session : i \in D}  f == [i \in D |-> out[i].session]
<1>3. f \in Surjection(D, T)
  BY DEF Surjection
<1>4. IsFiniteSet(T)
  BY <1>2, <1>3, FS_Surjection
<1> QED BY <1>2, <1>4

\* The next match is worth less than all there are.
LEMMA LessWorth ==
  ASSUME NEW p \in Seq(Match), NEW worth \in Worths, BestFirst(p, worth),
         NEW k \in 1 .. Len(p), NEW out, Taken(out, p, worth, k - 1)
  PROVE  Better(out, worth, p[k]) = DOMAIN out
<1>1. \A i \in DOMAIN out : \E j \in 1 .. (k - 1) : out[i] = p[j]
  BY DEF Taken
<1>2. \A j \in 1 .. (k - 1) : j \in DOMAIN p /\ j < k /\ k \in DOMAIN p
  <2>1. DOMAIN p = 1 .. Len(p) /\ Len(p) \in Nat
    OBVIOUS
  <2> QED BY <2>1
<1>3. \A i \in DOMAIN out : worth[out[i]] > worth[p[k]]
  BY <1>1, <1>2 DEF BestFirst
<1> QED BY <1>3 DEF Better

\* One more match, not better than those there are.
LEMMA OneMore ==
  ASSUME NEW p \in Seq(Match), NEW worth \in Worths, BestFirst(p, worth),
         NEW k \in 1 .. Len(p), NEW out, Taken(out, p, worth, k - 1),
         Cardinality(OfSession(out, p[k].session)) < MaxPerSession
  PROVE  /\ Taken(Append(out, p[k]), p, worth, k)
         /\ p[k] \in Match
         /\ \A i \in DOMAIN out : worth[out[i]] > worth[p[k]]
         /\ \A m : Better(out, worth, m) \subseteq Better(Append(out, p[k]), worth, m)
         /\ DOMAIN out \subseteq DOMAIN Append(out, p[k])
         /\ \A i \in DOMAIN out : Append(out, p[k])[i] = out[i]
         /\ Sessions(Append(out, p[k])) = Sessions(out) \cup {p[k].session}
         /\ \E i \in DOMAIN Append(out, p[k]) : Append(out, p[k])[i] = p[k]
<1> DEFINE m == p[k]  more == Append(out, m)  n == Len(out)
<1>1. out \in Seq(Match) /\ m \in Match /\ n \in Nat /\ DOMAIN out = 1 .. n /\ k \in Nat /\ k >= 1
  BY DEF Taken
<1>2. /\ more \in Seq(Match) /\ DOMAIN more = 1 .. (n + 1) /\ Len(more) = n + 1
      /\ \A i \in 1 .. n : more[i] = out[i]
      /\ more[n + 1] = m
  BY <1>1
<1>3. \A i \in 1 .. n : \E j \in 1 .. (k - 1) : out[i] = p[j]
  BY <1>1 DEF Taken
<1>4. \A j \in 1 .. (k - 1) : worth[p[j]] > worth[p[k]]
  <2>1. \A j \in 1 .. (k - 1) : j \in DOMAIN p /\ j < k /\ k \in DOMAIN p
    <3>1. DOMAIN p = 1 .. Len(p) /\ Len(p) \in Nat
      OBVIOUS
    <3> QED BY <1>1, <3>1
  <2> QED BY <2>1 DEF BestFirst
<1>5. \A i \in 1 .. n : worth[out[i]] > worth[m]
  BY <1>3, <1>4
<1> HIDE DEF m, more, n
<1>6. \A i \in 1 .. (n + 1) : i \in 1 .. n \/ i = n + 1
  BY <1>1
<1>7. 1 .. n \subseteq 1 .. (n + 1) /\ n + 1 \in 1 .. (n + 1)
  BY <1>1
<1>8. BestFirst(more, worth)
  <2> SUFFICES ASSUME NEW i \in 1 .. (n + 1), NEW j \in 1 .. (n + 1), i < j
               PROVE  worth[more[i]] > worth[more[j]]
    BY <1>2 DEF BestFirst
  <2>1. i \in 1 .. n
    BY <1>1
  <2>2. CASE j \in 1 .. n
    <3>1. worth[out[i]] > worth[out[j]]
      BY <1>1, <2>1, <2>2 DEF Taken, BestFirst
    <3> QED BY <1>2, <2>1, <2>2, <3>1
  <2>3. CASE j = n + 1
    BY <1>2, <1>5, <2>1, <2>3
  <2> QED BY <1>6, <2>2, <2>3
<1>9. \A i \in 1 .. (n + 1) : \E j \in 1 .. k : more[i] = p[j]
  <2>1. \A j \in 1 .. (k - 1) : j \in 1 .. k
    BY <1>1
  <2>2. k \in 1 .. k
    BY <1>1
  <2> QED BY <1>2, <1>3, <1>6, <2>1, <2>2 DEF m
<1>10. ASSUME NEW s PROVE Cardinality(OfSession(more, s)) <= MaxPerSession
  <2>1. CASE s # m.session
    <3>1. OfSession(more, s) = OfSession(out, s)
      BY <1>1, <1>2, <1>6, <1>7, <2>1 DEF OfSession
    <3> QED BY <3>1 DEF Taken
  <2>2. CASE s = m.session
    <3>1. OfSession(more, s) = OfSession(out, s) \cup {n + 1}
      BY <1>1, <1>2, <1>6, <1>7, <2>2 DEF OfSession
    <3>2. OfSession(out, s) \subseteq DOMAIN out
      BY DEF OfSession
    <3>3. IsFiniteSet(OfSession(out, s))
      BY <1>1, <3>2, Counted
    <3>4. Cardinality(OfSession(out, s)) \in Nat
      BY <3>3, FS_CardinalityType
    <3>5. Cardinality(OfSession(more, s)) <= Cardinality(OfSession(out, s)) + 1
      <4>1. Cardinality(OfSession(out, s) \cup {n + 1})
               = IF n + 1 \in OfSession(out, s) THEN Cardinality(OfSession(out, s))
                 ELSE Cardinality(OfSession(out, s)) + 1
        BY <3>3, FS_AddElement
      <4> QED BY <3>1, <3>4, <4>1
    <3>6. Cardinality(OfSession(out, s)) < MaxPerSession /\ MaxPerSession \in Nat
          /\ Cardinality(OfSession(more, s)) \in Nat
      BY <2>2, <3>1, <3>3, FS_AddElement, FS_CardinalityType, ContextAssumption DEF m
    <3> QED BY <3>4, <3>5, <3>6
  <2> QED BY <2>1, <2>2
<1>11. Taken(more, p, worth, k)
  BY <1>2, <1>8, <1>9, <1>10 DEF Taken
<1>12. \A x : Better(out, worth, x) \subseteq Better(more, worth, x)
  BY <1>1, <1>2, <1>7 DEF Better
<1>13. Sessions(more) = Sessions(out) \cup {m.session}
  BY <1>1, <1>2, <1>6, <1>7 DEF Sessions
<1> QED BY <1>1, <1>2, <1>5, <1>7, <1>11, <1>12, <1>13 DEF m, more

\* What was left out for better ones, still is.
LEMMA Grows ==
  ASSUME NEW out \in Seq(Match), NEW more \in Seq(Match), NEW worth, NEW m,
         Better(out, worth, m) \subseteq Better(more, worth, m),
         \A i \in DOMAIN out : more[i] = out[i]
  PROVE  /\ Crowded(out, worth, m) => Crowded(more, worth, m)
         /\ Cardinality(Better(out, worth, m)) >= MaxMatches
               => Cardinality(Better(more, worth, m)) >= MaxMatches
         /\ Cardinality(SessionsBefore(out, worth, m)) >= MaxSessions
               => Cardinality(SessionsBefore(more, worth, m)) >= MaxSessions
<1>0. MaxPerSession \in Nat /\ MaxMatches \in Nat /\ MaxSessions \in Nat
  BY ContextAssumption
<1>1. /\ Better(out, worth, m) \subseteq DOMAIN out
      /\ Better(more, worth, m) \subseteq DOMAIN more
  BY DEF Better
<1>2. Cardinality(Better(out, worth, m)) >= MaxMatches
         => Cardinality(Better(more, worth, m)) >= MaxMatches
  <2>1. IsFiniteSet(Better(more, worth, m))
    BY <1>1, Counted
  <2>2. /\ Cardinality(Better(out, worth, m)) \in Nat /\ Cardinality(Better(more, worth, m)) \in Nat
        /\ Cardinality(Better(out, worth, m)) <= Cardinality(Better(more, worth, m))
    BY <2>1, Parts
  <2> QED BY <1>0, <2>2
<1>3. Crowded(out, worth, m) => Crowded(more, worth, m)
  <2> DEFINE A == {i \in Better(out, worth, m) : out[i].session = m.session}
             B == {i \in Better(more, worth, m) : more[i].session = m.session}
  <2>1. A \subseteq B /\ B \subseteq DOMAIN more
    BY <1>1
  <2>2. Crowded(out, worth, m) <=> Cardinality(A) >= MaxPerSession
    BY DEF Crowded
  <2>3. Crowded(more, worth, m) <=> Cardinality(B) >= MaxPerSession
    BY DEF Crowded
  <2> HIDE DEF A, B
  <2>4. IsFiniteSet(B)
    BY <2>1, Counted
  <2>5. Cardinality(A) \in Nat /\ Cardinality(B) \in Nat /\ Cardinality(A) <= Cardinality(B)
    BY <2>1, <2>4, Parts
  <2> QED BY <1>0, <2>2, <2>3, <2>5
<1>4. Cardinality(SessionsBefore(out, worth, m)) >= MaxSessions
         => Cardinality(SessionsBefore(more, worth, m)) >= MaxSessions
  <2>1. SessionsBefore(out, worth, m) \subseteq SessionsBefore(more, worth, m)
    BY <1>1 DEF SessionsBefore
  <2>2. IsFiniteSet(SessionsBefore(more, worth, m))
    BY <1>1, Counted DEF SessionsBefore
  <2>3. /\ Cardinality(SessionsBefore(out, worth, m)) \in Nat
        /\ Cardinality(SessionsBefore(more, worth, m)) \in Nat
        /\ Cardinality(SessionsBefore(out, worth, m)) <= Cardinality(SessionsBefore(more, worth, m))
    BY <2>1, <2>2, Parts
  <2> QED BY <1>0, <2>3
<1> QED BY <1>2, <1>3, <1>4

\* A match is passed over.
LEMMA PassedOver ==
  ASSUME NEW p \in Seq(Match), NEW k \in 1 .. Len(p), NEW worth, NEW out,
         Taken(out, p, worth, k - 1)
  PROVE  Taken(out, p, worth, k)
<1>1. \A j \in 1 .. (k - 1) : j \in 1 .. k
  OBVIOUS
<1> QED BY <1>1 DEF Taken

\* How many there are of the session of a match, when all are better.
LEMMA FullSession ==
  ASSUME NEW out, NEW worth, NEW m, Better(out, worth, m) = DOMAIN out,
         Cardinality(OfSession(out, m.session)) >= MaxPerSession
  PROVE  Crowded(out, worth, m)
<1>1. {i \in Better(out, worth, m) : out[i].session = m.session} = OfSession(out, m.session)
  BY DEF OfSession
<1> QED BY <1>1 DEF Crowded

\* A step of fuseScoredMatches.
LEMMA KeepStep ==
  ASSUME NEW p \in Seq(Match), NEW worth \in Worths, BestFirst(p, worth),
         NEW k \in 1 .. Len(p), NEW out, NEW c, c.match = p[k],
         Taken(out, p, worth, k - 1), KeptWell(out, p, worth, k - 1)
  PROVE  Taken(Keep(out, c), p, worth, k) /\ KeptWell(Keep(out, c), p, worth, k)
<1>1. Better(out, worth, p[k]) = DOMAIN out
  BY LessWorth
<1>2. out \in Seq(Match) /\ \A j \in 1 .. k : j \in 1 .. (k - 1) \/ j = k
  BY DEF Taken
<1>3. /\ MaxMatches \in Nat /\ MaxPerSession \in Nat
      /\ Len(out) \in Nat /\ Cardinality(DOMAIN out) = Len(out)
  <2>1. Len(out) \in Nat /\ DOMAIN out = 1 .. Len(out)
    BY <1>2
  <2> QED BY <2>1, Numbers, ContextAssumption
<1>4. Cardinality(OfSession(out, p[k].session)) \in Nat
  <2>1. OfSession(out, p[k].session) \subseteq DOMAIN out
    BY DEF OfSession
  <2>2. IsFiniteSet(OfSession(out, p[k].session))
    BY <1>2, <2>1, Counted
  <2> QED BY <2>2, FS_CardinalityType
<1> DEFINE full == \/ Len(out) >= MaxMatches
                   \/ Cardinality(OfSession(out, p[k].session)) >= MaxPerSession
<1>5. CASE full
  <2>1. Keep(out, c) = out
    BY <1>5 DEF Keep
  <2>2. \/ Crowded(out, worth, p[k])
        \/ Cardinality(Better(out, worth, p[k])) >= MaxMatches
    BY <1>1, <1>3, <1>5, FullSession
  <2>3. KeptWell(out, p, worth, k)
    BY <1>2, <2>2 DEF KeptWell
  <2> QED BY <2>1, <2>3, PassedOver
<1>6. CASE ~ full
  <2> DEFINE more == Append(out, p[k])
  <2>1. Keep(out, c) = more
    BY <1>6 DEF Keep
  <2>2. Cardinality(OfSession(out, p[k].session)) < MaxPerSession
    BY <1>3, <1>4, <1>6
  <2>3. /\ Taken(more, p, worth, k)
        /\ \A m : Better(out, worth, m) \subseteq Better(more, worth, m)
        /\ DOMAIN out \subseteq DOMAIN more
        /\ \A i \in DOMAIN out : more[i] = out[i]
        /\ \E i \in DOMAIN more : more[i] = p[k]
    BY <2>2, OneMore
  <2> HIDE DEF more
  <2>4. more \in Seq(Match)
    BY <2>3 DEF Taken
  <2>5. ASSUME NEW j \in 1 .. (k - 1)
        PROVE  \/ \E i \in DOMAIN more : more[i] = p[j]
               \/ Crowded(more, worth, p[j])
               \/ Cardinality(Better(more, worth, p[j])) >= MaxMatches
    <3>1. \/ \E i \in DOMAIN out : out[i] = p[j]
          \/ Crowded(out, worth, p[j])
          \/ Cardinality(Better(out, worth, p[j])) >= MaxMatches
      BY DEF KeptWell
    <3>2. /\ Crowded(out, worth, p[j]) => Crowded(more, worth, p[j])
          /\ Cardinality(Better(out, worth, p[j])) >= MaxMatches
                => Cardinality(Better(more, worth, p[j])) >= MaxMatches
      BY <1>2, <2>3, <2>4, Grows
    <3> QED BY <2>3, <3>1, <3>2
  <2>6. KeptWell(more, p, worth, k)
    BY <1>2, <2>3, <2>5 DEF KeptWell
  <2> QED BY <2>1, <2>3, <2>6
<1> QED BY <1>5, <1>6

\* A step of groupMatchesBySession.
LEMMA ShowStep ==
  ASSUME NEW p \in Seq(Match), NEW worth \in Worths, BestFirst(p, worth),
         NEW k \in 1 .. Len(p), NEW out,
         Taken(out, p, worth, k - 1), ShownWell(out, p, worth, k - 1)
  PROVE  Taken(Show(out, p[k]), p, worth, k) /\ ShownWell(Show(out, p[k]), p, worth, k)
<1>1. Better(out, worth, p[k]) = DOMAIN out
  BY LessWorth
<1>2. out \in Seq(Match) /\ \A j \in 1 .. k : j \in 1 .. (k - 1) \/ j = k
  BY DEF Taken
<1>3. MaxSessions \in Nat /\ MaxPerSession \in Nat
  BY ContextAssumption
<1>4. Cardinality(OfSession(out, p[k].session)) \in Nat
  <2>1. OfSession(out, p[k].session) \subseteq DOMAIN out
    BY DEF OfSession
  <2>2. IsFiniteSet(OfSession(out, p[k].session))
    BY <1>2, <2>1, Counted
  <2> QED BY <2>2, FS_CardinalityType
<1>5. /\ IsFiniteSet(Sessions(out)) /\ Cardinality(Sessions(out)) \in Nat
      /\ Cardinality(Sessions(out)) <= MaxSessions
  <2>1. IsFiniteSet(Sessions(out))
    BY <1>2, Counted DEF Sessions
  <2> QED BY <2>1, FS_CardinalityType DEF ShownWell
<1> DEFINE shut == p[k].session \notin Sessions(out) /\ Cardinality(Sessions(out)) >= MaxSessions
           full == Cardinality(OfSession(out, p[k].session)) >= MaxPerSession
<1>6. CASE shut \/ full
  <2>1. Show(out, p[k]) = out
    BY <1>6 DEF Show
  <2>2. \/ Crowded(out, worth, p[k])
        \/ /\ p[k].session \notin Sessions(out)
           /\ Cardinality(SessionsBefore(out, worth, p[k])) >= MaxSessions
    <3>1. CASE full
      BY <1>1, <3>1, FullSession
    <3>2. CASE shut
      <4>1. SessionsBefore(out, worth, p[k]) = Sessions(out)
        BY <1>1 DEF SessionsBefore, Sessions
      <4> QED BY <3>2, <4>1
    <3> QED BY <1>6, <3>1, <3>2
  <2>3. ShownWell(out, p, worth, k)
    BY <1>2, <2>2 DEF ShownWell
  <2> QED BY <2>1, <2>3, PassedOver
<1>7. CASE ~ (shut \/ full)
  <2> DEFINE more == Append(out, p[k])
  <2>1. Show(out, p[k]) = more
    BY <1>7 DEF Show
  <2>2. Cardinality(OfSession(out, p[k].session)) < MaxPerSession
    BY <1>3, <1>4, <1>7
  <2>3. /\ Taken(more, p, worth, k)
        /\ \A m : Better(out, worth, m) \subseteq Better(more, worth, m)
        /\ DOMAIN out \subseteq DOMAIN more
        /\ \A i \in DOMAIN out : more[i] = out[i]
        /\ \E i \in DOMAIN more : more[i] = p[k]
        /\ Sessions(more) = Sessions(out) \cup {p[k].session}
    BY <2>2, OneMore
  <2>4. p[k].session \in Sessions(out) \/ Cardinality(Sessions(out)) < MaxSessions
    BY <1>3, <1>5, <1>7
  <2> HIDE DEF more
  <2>5. more \in Seq(Match)
    BY <2>3 DEF Taken
  <2>6. Cardinality(Sessions(more)) <= MaxSessions
    <3>1. CASE p[k].session \in Sessions(out)
      <4>1. Sessions(more) = Sessions(out)
        BY <2>3, <3>1
      <4> QED BY <1>5, <4>1
    <3>2. CASE p[k].session \notin Sessions(out)
      <4>1. Cardinality(Sessions(more)) = Cardinality(Sessions(out)) + 1
        BY <1>5, <2>3, <3>2, FS_AddElement
      <4> QED BY <1>3, <1>5, <2>4, <3>2, <4>1
    <3> QED BY <3>1, <3>2
  <2>7. ASSUME NEW j \in 1 .. (k - 1)
        PROVE  \/ \E i \in DOMAIN more : more[i] = p[j]
               \/ Crowded(more, worth, p[j])
               \/ /\ p[j].session \notin Sessions(more)
                  /\ Cardinality(SessionsBefore(more, worth, p[j])) >= MaxSessions
    <3>1. \/ \E i \in DOMAIN out : out[i] = p[j]
          \/ Crowded(out, worth, p[j])
          \/ /\ p[j].session \notin Sessions(out)
             /\ Cardinality(SessionsBefore(out, worth, p[j])) >= MaxSessions
      BY DEF ShownWell
    <3>2. /\ Crowded(out, worth, p[j]) => Crowded(more, worth, p[j])
          /\ Cardinality(SessionsBefore(out, worth, p[j])) >= MaxSessions
                => Cardinality(SessionsBefore(more, worth, p[j])) >= MaxSessions
      BY <1>2, <2>3, <2>5, Grows
    <3>3. ASSUME Cardinality(SessionsBefore(out, worth, p[j])) >= MaxSessions
          PROVE  Sessions(more) = Sessions(out)
      <4>1. SessionsBefore(out, worth, p[j]) \subseteq Sessions(out)
        BY DEF SessionsBefore, Sessions, Better
      <4>2. /\ Cardinality(SessionsBefore(out, worth, p[j])) \in Nat
            /\ Cardinality(SessionsBefore(out, worth, p[j])) <= Cardinality(Sessions(out))
        BY <1>5, <4>1, Parts
      <4>3. ~ (Cardinality(Sessions(out)) < MaxSessions)
        BY <1>3, <1>5, <3>3, <4>2
      <4> QED BY <2>3, <2>4, <4>3
    <3> QED BY <2>3, <3>1, <3>2, <3>3
  <2>8. ShownWell(more, p, worth, k)
    BY <1>2, <2>3, <2>6, <2>7 DEF ShownWell
  <2> QED BY <2>1, <2>3, <2>8
<1> QED BY <1>6, <1>7

\* Before the first match.
LEMMA Nothing ==
  ASSUME NEW p \in Seq(Match), NEW worth
  PROVE  /\ Taken(<<>>, p, worth, 0) /\ KeptWell(<<>>, p, worth, 0)
         /\ ShownWell(<<>>, p, worth, 0)
<1>1. MaxPerSession \in Nat /\ MaxSessions \in Nat
  BY ContextAssumption
<1>2. <<>> \in Seq(Match) /\ DOMAIN <<>> = {} /\ 1 .. 0 = {}
  <2>1. Len(<<>>) = 0 /\ DOMAIN <<>> = 1 .. 0
    OBVIOUS
  <2> QED BY <2>1
<1>3. (\A s : OfSession(<<>>, s) = {}) /\ Sessions(<<>>) = {}
  BY <1>2 DEF OfSession, Sessions
<1>4. Cardinality({}) = 0
  BY FS_EmptySet
<1>5. Taken(<<>>, p, worth, 0)
  <2>1. \A s : Cardinality(OfSession(<<>>, s)) <= MaxPerSession
    <3> TAKE s
    <3>1. Cardinality(OfSession(<<>>, s)) = 0
      <4>1. OfSession(<<>>, s) = {}
        BY <1>3
      <4> QED BY <1>4, <4>1, Zenon
    <3> QED BY <1>1, <3>1
  <2>2. BestFirst(<<>>, worth)
    BY <1>2 DEF BestFirst
  <2>3. \A i \in DOMAIN <<>> : \E j \in 1 .. 0 : <<>>[i] = p[j]
    BY <1>2
  <2> QED BY <1>2, <2>1, <2>2, <2>3 DEF Taken
<1>6. KeptWell(<<>>, p, worth, 0)
  <2>1. \A j \in 1 .. 0 : FALSE
    BY <1>2
  <2> QED BY <2>1 DEF KeptWell
<1>7. ShownWell(<<>>, p, worth, 0)
  <2>1. Cardinality(Sessions(<<>>)) <= MaxSessions
    <3>1. Cardinality(Sessions(<<>>)) = 0
      BY <1>3, <1>4, Zenon
    <3> QED BY <1>1, <3>1
  <2> QED BY <1>2, <2>1 DEF ShownWell
<1> QED BY <1>5, <1>6, <1>7

\* The matches of candidates.
Texts(q) == [i \in 1 .. Len(q) |-> q[i].match]

\* What fuseScoredMatches keeps of candidates in the order of their scores.
LEMMA Fused ==
  ASSUME NEW q \in Seq(Scores), NEW worth \in Worths,
         \A i \in DOMAIN q : worth[q[i].match] = q[i].score,
         \A i, j \in DOMAIN q : i < j => q[i].score > q[j].score
  PROVE  /\ Texts(q) \in Seq(Match) /\ Len(Texts(q)) = Len(q)
         /\ \A i \in DOMAIN q : Texts(q)[i] = q[i].match
         /\ BestFirst(Texts(q), worth)
         /\ Taken(FoldLeft(Keep, <<>>, q), Texts(q), worth, Len(q))
         /\ KeptWell(FoldLeft(Keep, <<>>, q), Texts(q), worth, Len(q))
<1> DEFINE n == Len(q)  p == Texts(q)
<1>1. n \in Nat /\ DOMAIN q = 1 .. n /\ \A i \in 1 .. n : q[i] \in Scores /\ q[i].match \in Match
  <2>1. n \in Nat /\ DOMAIN q = 1 .. n /\ \A i \in 1 .. n : q[i] \in Scores
    OBVIOUS
  <2>2. \A c \in Scores : c.match \in Match
    BY DEF Scores
  <2> QED BY <2>1, <2>2
<1>2. p \in Seq(Match) /\ Len(p) = n /\ DOMAIN p = 1 .. n /\ \A i \in 1 .. n : p[i] = q[i].match
  <2>1. p = [i \in 1 .. n |-> q[i].match]
    BY DEF Texts
  <2> HIDE DEF p, n
  <2>2. p \in [1 .. n -> Match] /\ \A i \in 1 .. n : p[i] = q[i].match
    BY <1>1, <2>1
  <2> QED BY <1>1, <2>2
<1>3. BestFirst(p, worth)
  <2> HIDE DEF p, n
  <2> QED BY <1>1, <1>2 DEF BestFirst
<1>4. PICK h \in [0 .. Len(q) -> Seq(Match)] :
         /\ h[0] = <<>>
         /\ \A k \in 1 .. Len(q) : h[k] = Keep(h[k - 1], q[k])
         /\ FoldLeft(Keep, <<>>, q) = h[Len(q)]
  BY KeepChain
<1> DEFINE Right(k) == Taken(h[k], p, worth, k) /\ KeptWell(h[k], p, worth, k)
           S == {k \in Nat : k <= n => Right(k)}
<1>5. 0 \in S
  BY <1>2, <1>4, Nothing
<1>6. ASSUME NEW k \in Nat, k \in S PROVE k + 1 \in S
  <2>1. CASE k + 1 <= n
    <3>1. Right(k) /\ k + 1 \in 1 .. n /\ (k + 1) - 1 = k
      BY <1>1, <1>6, <2>1
    <3>2. h[k + 1] = Keep(h[k], q[k + 1]) /\ q[k + 1].match = p[k + 1]
      BY <1>2, <1>4, <3>1
    <3> HIDE DEF p, n
    <3>3. Taken(Keep(h[k], q[k + 1]), p, worth, k + 1)
          /\ KeptWell(Keep(h[k], q[k + 1]), p, worth, k + 1)
      BY <1>2, <1>3, <3>1, <3>2, KeepStep
    <3> QED BY <3>2, <3>3
  <2> QED BY <2>1
<1>7. \A k \in Nat : k \in S
  <2>1. \A k \in Nat : k \in S => k + 1 \in S
    BY <1>6
  <2> HIDE DEF S
  <2> QED BY <1>5, <2>1, Induction
<1>8. Right(n)
  BY <1>1, <1>7
<1> QED BY <1>1, <1>2, <1>3, <1>4, <1>8

\* What groupMatchesBySession shows of matches, the best first.
LEMMA Grouped ==
  ASSUME NEW p \in Seq(Match), NEW worth \in Worths, BestFirst(p, worth)
  PROVE  /\ Taken(Shown(p), p, worth, Len(p))
         /\ ShownWell(Shown(p), p, worth, Len(p))
<1> DEFINE n == Len(p)
<1>1. n \in Nat
  OBVIOUS
<1>2. PICK h \in [0 .. Len(p) -> Seq(Match)] :
         /\ h[0] = <<>>
         /\ \A k \in 1 .. Len(p) : h[k] = Show(h[k - 1], p[k])
         /\ FoldLeft(Show, <<>>, p) = h[Len(p)]
  BY ShowChain
<1> DEFINE Right(k) == Taken(h[k], p, worth, k) /\ ShownWell(h[k], p, worth, k)
           S == {k \in Nat : k <= n => Right(k)}
<1>3. 0 \in S
  BY <1>2, Nothing
<1>4. ASSUME NEW k \in Nat, k \in S PROVE k + 1 \in S
  <2>1. CASE k + 1 <= n
    <3>1. Right(k) /\ k + 1 \in 1 .. n /\ (k + 1) - 1 = k
      BY <1>1, <1>4, <2>1
    <3>2. h[k + 1] = Show(h[k], p[k + 1])
      BY <1>2, <3>1
    <3>3. Taken(Show(h[k], p[k + 1]), p, worth, k + 1)
          /\ ShownWell(Show(h[k], p[k + 1]), p, worth, k + 1)
      BY <3>1, <3>2, ShowStep
    <3> QED BY <3>2, <3>3
  <2> QED BY <2>1
<1>5. \A k \in Nat : k \in S
  <2>1. \A k \in Nat : k \in S => k + 1 \in S
    BY <1>4
  <2> HIDE DEF S
  <2> QED BY <1>3, <2>1, Induction
<1>6. Right(n)
  BY <1>1, <1>5
<1> QED BY <1>2, <1>6 DEF Shown

\* A set of positions, each of which another set has under another number.
LEMMA OneToOne ==
  ASSUME NEW A, NEW B, IsFiniteSet(B), NEW f \in [A -> B],
         \A i, j \in A : f[i] = f[j] => i = j
  PROVE  IsFiniteSet(A) /\ Cardinality(A) <= Cardinality(B)
<1>1. f \in Injection(A, B)
  BY DEF Injection, IsInjective
<1> QED BY <1>1, FS_Injection

\* No match is twice among matches whose worth falls.
LEMMA NoneTwice ==
  ASSUME NEW out \in Seq(Match), NEW worth \in Worths, BestFirst(out, worth)
  PROVE  \A i, j \in DOMAIN out : out[i] = out[j] => i = j
<1> SUFFICES ASSUME NEW i \in DOMAIN out, NEW j \in DOMAIN out, out[i] = out[j], i # j
             PROVE  FALSE
  OBVIOUS
<1>1. i \in Nat /\ j \in Nat /\ worth[out[i]] \in Nat
  <2>1. DOMAIN out = 1 .. Len(out) /\ Len(out) \in Nat /\ out[i] \in Match
    OBVIOUS
  <2> QED BY <2>1 DEF Worths
<1>2. i < j \/ j < i
  BY <1>1
<1>3. worth[out[i]] > worth[out[j]] \/ worth[out[j]] > worth[out[i]]
  BY <1>2 DEF BestFirst
<1> QED BY <1>1, <1>3

\* Why a match that was kept is not shown.
WhyHidden(out, worth, m) ==
    \/ Crowded(out, worth, m)
    \/ /\ m.session \notin Sessions(out)
       /\ Cardinality(SessionsBefore(out, worth, m)) >= MaxSessions

\* That is a reason for every match of the session that is not better.
LEMMA HiddenTogether ==
  ASSUME NEW out \in Seq(Match), NEW worth \in Worths, NEW x \in Match, NEW m \in Match,
         worth[x] >= worth[m], x.session = m.session, WhyHidden(out, worth, x)
  PROVE  WhyHidden(out, worth, m)
<1>0. MaxPerSession \in Nat /\ MaxSessions \in Nat
  BY ContextAssumption
<1>1. Better(out, worth, x) \subseteq Better(out, worth, m)
  <2>1. \A i \in DOMAIN out : worth[out[i]] \in Nat
    BY DEF Worths
  <2>2. worth[x] \in Nat /\ worth[m] \in Nat
    BY DEF Worths
  <2> QED BY <2>1, <2>2 DEF Better
<1>2. Better(out, worth, m) \subseteq DOMAIN out
  BY DEF Better
<1>3. CASE Crowded(out, worth, x)
  <2> DEFINE A == {i \in Better(out, worth, x) : out[i].session = x.session}
             B == {i \in Better(out, worth, m) : out[i].session = m.session}
  <2>1. A \subseteq B /\ B \subseteq DOMAIN out
    BY <1>1, <1>2
  <2>2. Cardinality(A) >= MaxPerSession
    BY <1>3 DEF Crowded
  <2>3. Crowded(out, worth, m) <=> Cardinality(B) >= MaxPerSession
    BY DEF Crowded
  <2> HIDE DEF A, B
  <2>4. IsFiniteSet(B)
    BY <2>1, Counted
  <2>5. Cardinality(A) \in Nat /\ Cardinality(B) \in Nat /\ Cardinality(A) <= Cardinality(B)
    BY <2>1, <2>4, Parts
  <2> QED BY <1>0, <2>2, <2>3, <2>5 DEF WhyHidden
<1>4. CASE /\ x.session \notin Sessions(out)
           /\ Cardinality(SessionsBefore(out, worth, x)) >= MaxSessions
  <2>1. SessionsBefore(out, worth, x) \subseteq SessionsBefore(out, worth, m)
    BY <1>1 DEF SessionsBefore
  <2>2. IsFiniteSet(SessionsBefore(out, worth, m))
    BY <1>2, Counted DEF SessionsBefore
  <2>3. /\ Cardinality(SessionsBefore(out, worth, x)) \in Nat
        /\ Cardinality(SessionsBefore(out, worth, m)) \in Nat
        /\ Cardinality(SessionsBefore(out, worth, x)) <= Cardinality(SessionsBefore(out, worth, m))
    BY <2>1, <2>2, Parts
  <2> QED BY <1>0, <1>4, <2>3 DEF WhyHidden
<1> QED BY <1>3, <1>4 DEF WhyHidden

\* Why a candidate is not shown, kept or not.
LEMMA WhyNotShown ==
  ASSUME NEW p \in Seq(Match), NEW worth \in Worths,
         NEW kept, Taken(kept, p, worth, Len(p)), KeptWell(kept, p, worth, Len(p)),
         NEW s, Taken(s, kept, worth, Len(kept)), ShownWell(s, kept, worth, Len(kept)),
         NEW j \in 1 .. Len(p), \A i \in DOMAIN s : s[i] # p[j]
  PROVE  WhyHidden(s, worth, p[j]) \/ Cardinality(Better(kept, worth, p[j])) >= MaxMatches
<1> DEFINE m == p[j]
<1>1. m \in Match /\ kept \in Seq(Match) /\ s \in Seq(Match)
  BY DEF Taken
<1>2. DOMAIN kept = 1 .. Len(kept) /\ \A i \in DOMAIN kept : kept[i] \in Match
  BY <1>1
<1> HIDE DEF m
<1>3. ASSUME NEW i \in DOMAIN kept, \A k \in DOMAIN s : s[k] # kept[i]
      PROVE  WhyHidden(s, worth, kept[i])
  BY <1>2, <1>3 DEF ShownWell, WhyHidden
<1>4. CASE \E i \in DOMAIN kept : kept[i] = m
  BY <1>3, <1>4 DEF m
<1>5. CASE Crowded(kept, worth, m)
  <2> DEFINE A == {i \in Better(kept, worth, m) : kept[i].session = m.session}
             B == {i \in Better(s, worth, m) : s[i].session = m.session}
  <2>1. Cardinality(A) >= MaxPerSession /\ A \subseteq DOMAIN kept
        /\ B \subseteq DOMAIN s
    BY <1>5 DEF Crowded, Better
  <2>2. CASE \E i \in A : \A k \in DOMAIN s : s[k] # kept[i]
    <3>1. PICK i \in A : \A k \in DOMAIN s : s[k] # kept[i]
      BY <2>2
    <3>2. i \in DOMAIN kept /\ worth[kept[i]] > worth[m] /\ kept[i].session = m.session
      BY DEF Better
    <3>3. WhyHidden(s, worth, kept[i])
      BY <1>3, <3>1, <3>2
    <3>4. kept[i] \in Match /\ worth[kept[i]] \in Nat /\ worth[m] \in Nat
      BY <1>1, <1>2, <3>2 DEF Worths
    <3>5. worth[kept[i]] >= worth[m]
      BY <3>2, <3>4
    <3>6. WhyHidden(s, worth, m)
      BY <1>1, <3>2, <3>3, <3>4, <3>5, HiddenTogether
    <3> QED BY <3>6 DEF m
  <2>3. CASE \A i \in A : \E k \in DOMAIN s : s[k] = kept[i]
    <3> DEFINE f == [i \in A |-> CHOOSE k \in DOMAIN s : s[k] = kept[i]]
    <3>1. ASSUME NEW i \in A PROVE f[i] \in B /\ s[f[i]] = kept[i]
      <4>1. f[i] \in DOMAIN s /\ s[f[i]] = kept[i]
        BY <2>3
      <4>2. worth[kept[i]] > worth[m] /\ kept[i].session = m.session
        BY DEF Better
      <4> HIDE DEF f, A
      <4> QED BY <4>1, <4>2 DEF Better
    <3>2. \A i, k \in DOMAIN kept : kept[i] = kept[k] => i = k
      BY <1>1, NoneTwice DEF Taken
    <3>3. f = [i \in A |-> f[i]]
      OBVIOUS
    <3> HIDE DEF f, A, B
    <3>4. f \in [A -> B]
      BY <3>1, <3>3
    <3>5. \A i, k \in A : f[i] = f[k] => i = k
      BY <2>1, <3>1, <3>2
    <3>6. IsFiniteSet(B)
      BY <1>1, <2>1, Counted
    <3>7. IsFiniteSet(A) /\ Cardinality(A) <= Cardinality(B)
      BY <3>4, <3>5, <3>6, OneToOne
    <3>8. Cardinality(A) \in Nat /\ Cardinality(B) \in Nat /\ MaxPerSession \in Nat
      BY <3>6, <3>7, FS_CardinalityType, ContextAssumption
    <3>9. Cardinality(B) >= MaxPerSession
      BY <2>1, <3>7, <3>8
    <3>10. Crowded(s, worth, m)
      BY <3>9 DEF Crowded, B
    <3> QED BY <3>10 DEF WhyHidden, m
  <2> QED BY <2>2, <2>3
<1>6. CASE Cardinality(Better(kept, worth, m)) >= MaxMatches
  BY <1>6 DEF m
<1>7. \/ \E i \in DOMAIN kept : kept[i] = m
      \/ Crowded(kept, worth, m)
      \/ Cardinality(Better(kept, worth, m)) >= MaxMatches
  BY DEF KeptWell, m
<1> QED BY <1>4, <1>5, <1>6, <1>7

\* Why what was found and is not shown was left out: its session has its share, or the
\* others fill the history, or enough was kept before it.
LeftOutRightly(r, s) ==
    \A m \in {c.match : c \in Candidates(r)} \ ToSet(s) :
        LET better == {i \in DOMAIN s : ScoreOf(r, s[i]) > ScoreOf(r, m)}
        IN \/ Cardinality({i \in better : s[i].session = m.session}) = MaxPerSession
           \/ Cardinality({s[i].session : i \in better} \ {m.session}) = MaxSessions
           \/ Cardinality({c.match : c \in {d \in Candidates(r) :
                  ScoreOf(r, d.match) > ScoreOf(r, m)}}) >= MaxMatches

\* HistoryIsBest, for what one search found.
LEMMA HistoryFacts ==
  ASSUME NEW r, Result(r), NEW s, s = Shown(Fuse(Candidates(r)))
  PROVE  /\ s \in Seq(Match)
         /\ \A i, j \in DOMAIN s : i < j => ScoreOf(r, s[i]) > ScoreOf(r, s[j])
         /\ \A x : Cardinality(OfSession(s, x)) <= MaxPerSession
         /\ Cardinality(Sessions(s)) <= MaxSessions
         /\ LeftOutRightly(r, s)
<1> DEFINE C == Candidates(r)
           q == ByScore(Best(C))
           Named == {c.match : c \in C}
           worth == [m \in Match |-> IF m \in Named THEN ScoreOf(r, m) ELSE 0]
           p == Texts(q)
           kept == FoldLeft(Keep, <<>>, q)
<1>1. /\ IsFiniteSet(C) /\ C \subseteq Scores
      /\ \A c, d \in C : c.score = d.score => c = d
  BY CandidateFacts
<1>2. \A m : ScoreOf(r, m) = Max(ScoresOf(C, m))
  BY DEF ScoreOf, ScoresOf
<1>3. s = Shown(kept)
  BY DEF Fuse
<1> HIDE DEF C
<1>4. /\ IsFiniteSet(Best(C)) /\ Best(C) \subseteq C
      /\ \A c \in C : \E b \in Best(C) : b.match = c.match
      /\ \A b \in Best(C) : Max(ScoresOf(C, b.match)) = b.score
  BY <1>1, BestFacts
<1>5. /\ q \in Seq(Best(C))
      /\ \A i, j \in DOMAIN q : i < j => q[i].score > q[j].score
      /\ \A c \in Best(C) : \E i \in DOMAIN q : q[i] = c
  <2>1. /\ Best(C) \subseteq Scores
        /\ \A c, d \in Best(C) : c.score = d.score => c = d
    BY <1>1, <1>4
  <2> QED BY <1>4, <2>1, Sorted
<1> HIDE DEF q
<1>6. \A c \in C : c.match \in Match /\ c.match \in Named
  BY <1>1 DEF Scores
<1>7. \A b \in Best(C) : worth[b.match] = b.score /\ b.score \in Nat
  <2> TAKE b \in Best(C)
  <2>1. b \in C /\ b.score \in Nat
    BY <1>1, <1>4 DEF Scores
  <2>2. ScoreOf(r, b.match) = b.score
    BY <1>2, <1>4
  <2> HIDE DEF Named
  <2> QED BY <1>6, <2>1, <2>2
<1>8. \A m \in Named : m \in Match /\ worth[m] = ScoreOf(r, m) /\ worth[m] \in Nat
  <2> SUFFICES ASSUME NEW c \in C
               PROVE  /\ c.match \in Match /\ worth[c.match] = ScoreOf(r, c.match)
                      /\ worth[c.match] \in Nat
    OBVIOUS
  <2>1. PICK b \in Best(C) : b.match = c.match
    BY <1>4
  <2>2. worth[c.match] \in Nat
    BY <1>7, <2>1
  <2> HIDE DEF Named
  <2> QED BY <1>6, <2>2
<1>9. worth \in Worths
  <2>1. \A m \in Match : (IF m \in Named THEN ScoreOf(r, m) ELSE 0) \in Nat
    <3> HIDE DEF Named
    <3>1. ASSUME NEW m \in Match, m \in Named PROVE ScoreOf(r, m) \in Nat
      BY <1>8, <3>1
    <3> QED BY <3>1
  <2> HIDE DEF Named
  <2> QED BY <2>1 DEF Worths
<1> HIDE DEF worth
<1>10. /\ DOMAIN q = 1 .. Len(q) /\ Len(q) \in Nat /\ q \in Seq(Scores)
       /\ \A i \in DOMAIN q : q[i] \in Best(C)
  <2>1. q \in Seq(Scores)
    <3>1. Best(C) \subseteq Scores
      BY <1>1, <1>4
    <3> QED BY <1>5, <3>1
  <2> QED BY <1>5, <2>1
<1>11. /\ p \in Seq(Match) /\ Len(p) = Len(q)
       /\ \A i \in DOMAIN q : p[i] = q[i].match
       /\ BestFirst(p, worth)
       /\ Taken(kept, p, worth, Len(p)) /\ KeptWell(kept, p, worth, Len(p))
  <2>1. \A i \in DOMAIN q : worth[q[i].match] = q[i].score
    BY <1>7, <1>10
  <2> QED BY <1>5, <1>9, <1>10, <2>1, Fused
<1> HIDE DEF p, kept
<1>12. /\ kept \in Seq(Match) /\ BestFirst(kept, worth)
       /\ DOMAIN kept = 1 .. Len(kept)
  <2>1. kept \in Seq(Match) /\ BestFirst(kept, worth)
    BY <1>11 DEF Taken
  <2> QED BY <2>1
<1>13. Taken(s, kept, worth, Len(kept)) /\ ShownWell(s, kept, worth, Len(kept))
  BY <1>3, <1>9, <1>12, Grouped
<1>14. s \in Seq(Match) /\ BestFirst(s, worth)
       /\ (\A x : Cardinality(OfSession(s, x)) <= MaxPerSession)
       /\ Cardinality(Sessions(s)) <= MaxSessions
  BY <1>13 DEF Taken, ShownWell
<1>15. \A i \in DOMAIN p : p[i] \in Named
  BY <1>4, <1>6, <1>10, <1>11
<1>16. \A i \in DOMAIN kept : kept[i] \in Named
  <2>1. \A i \in DOMAIN kept : \E j \in 1 .. Len(p) : kept[i] = p[j]
    BY <1>11 DEF Taken
  <2>2. DOMAIN p = 1 .. Len(p)
    BY <1>11
  <2> QED BY <1>15, <2>1, <2>2
<1>17. \A i \in DOMAIN s : s[i] \in Named
  <2>1. \A i \in DOMAIN s : \E j \in 1 .. Len(kept) : s[i] = kept[j]
    BY <1>13 DEF Taken
  <2> QED BY <1>12, <1>16, <2>1
<1> HIDE DEF Named
<1>18. \A i, j \in DOMAIN s : i < j => ScoreOf(r, s[i]) > ScoreOf(r, s[j])
  BY <1>8, <1>14, <1>17 DEF BestFirst
<1>19. ASSUME NEW m \in Named \ ToSet(s)
       PROVE  LET better == {i \in DOMAIN s : ScoreOf(r, s[i]) > ScoreOf(r, m)} IN
               \/ Cardinality({i \in better : s[i].session = m.session}) = MaxPerSession
               \/ Cardinality({s[i].session : i \in better} \ {m.session}) = MaxSessions
               \/ Cardinality({c.match : c \in {d \in C :
                      ScoreOf(r, d.match) > ScoreOf(r, m)}}) >= MaxMatches
  <2> DEFINE better == {i \in DOMAIN s : ScoreOf(r, s[i]) > ScoreOf(r, m)}
             all == {c.match : c \in {d \in C : ScoreOf(r, d.match) > ScoreOf(r, m)}}
  <2>0. MaxPerSession \in Nat /\ MaxSessions \in Nat /\ MaxMatches \in Nat
    BY ContextAssumption
  <2>1. better = Better(s, worth, m)
    BY <1>8, <1>17 DEF Better
  <2>2. PICK j \in 1 .. Len(p) : p[j] = m
    <3>1. PICK c \in C : c.match = m
      BY DEF Named
    <3>2. PICK b \in Best(C) : b.match = m
      BY <1>4, <3>1
    <3>3. PICK j \in DOMAIN q : q[j] = b
      BY <1>5
    <3> QED BY <1>10, <1>11, <3>2, <3>3
  <2>3. \A i \in DOMAIN s : s[i] # p[j]
    BY <2>2 DEF ToSet
  <2>4. WhyHidden(s, worth, m) \/ Cardinality(Better(kept, worth, m)) >= MaxMatches
    BY <1>9, <1>11, <1>13, <2>2, <2>3, WhyNotShown
  <2>5. Better(s, worth, m) \subseteq DOMAIN s
    BY DEF Better
  <2>6. CASE Crowded(s, worth, m)
    <3> DEFINE A == {i \in better : s[i].session = m.session}
    <3>1. A \subseteq OfSession(s, m.session) /\ OfSession(s, m.session) \subseteq DOMAIN s
      BY DEF OfSession
    <3>2. Cardinality(A) >= MaxPerSession
      BY <2>1, <2>6 DEF Crowded
    <3> HIDE DEF A
    <3>3. IsFiniteSet(OfSession(s, m.session))
      BY <1>14, <3>1, Counted
    <3>4. /\ Cardinality(A) \in Nat /\ Cardinality(OfSession(s, m.session)) \in Nat
          /\ Cardinality(A) <= Cardinality(OfSession(s, m.session))
      BY <3>1, <3>3, Parts
    <3>5. Cardinality(A) = MaxPerSession
      BY <1>14, <2>0, <3>2, <3>4
    <3> QED BY <3>5 DEF A
  <2>7. CASE m.session \notin Sessions(s)
             /\ Cardinality(SessionsBefore(s, worth, m)) >= MaxSessions
    <3> DEFINE A == {s[i].session : i \in better}
    <3>1. A = SessionsBefore(s, worth, m) /\ A \subseteq Sessions(s)
      BY <2>1 DEF SessionsBefore, Sessions
    <3>2. A \ {m.session} = A
      BY <2>7, <3>1
    <3>3. IsFiniteSet(Sessions(s))
      BY <1>14, Counted DEF Sessions
    <3>4. Cardinality(A) \in Nat /\ Cardinality(Sessions(s)) \in Nat
          /\ Cardinality(A) <= Cardinality(Sessions(s))
      <4> HIDE DEF A
      <4> QED BY <3>1, <3>3, Parts
    <3>5. Cardinality(A) = MaxSessions
      <4> HIDE DEF A
      <4> QED BY <1>14, <2>0, <2>7, <3>1, <3>4
    <3>6. Cardinality(A \ {m.session}) = MaxSessions
      <4> HIDE DEF A
      <4> QED BY <3>2, <3>5
    <3> QED BY <3>6
  <2>8. CASE Cardinality(Better(kept, worth, m)) >= MaxMatches
    <3> DEFINE A == Better(kept, worth, m)
               f == [i \in A |-> kept[i]]
    <3>1. ASSUME NEW i \in A PROVE kept[i] \in all
      <4>1. i \in DOMAIN kept /\ worth[kept[i]] > worth[m]
        BY DEF Better
      <4>2. kept[i] \in Named /\ ScoreOf(r, kept[i]) > ScoreOf(r, m)
        BY <1>8, <1>16, <4>1
      <4>3. PICK c \in C : c.match = kept[i]
        BY <4>2 DEF Named
      <4> QED BY <4>2, <4>3
    <3>2. IsFiniteSet(all)
      <4> DEFINE D == {d \in C : ScoreOf(r, d.match) > ScoreOf(r, m)}
                 g == [d \in D |-> d.match]
      <4>1. D \subseteq C
        OBVIOUS
      <4>2. IsFiniteSet(D)
        <5> HIDE DEF D
        <5> QED BY <1>1, <4>1, Parts
      <4>3. g \in Surjection(D, all)
        BY DEF Surjection
      <4> QED BY <4>2, <4>3, FS_Surjection
    <3> HIDE DEF all
    <3>3. f \in [A -> all]
      BY <3>1
    <3>4. \A i, k \in A : f[i] = f[k] => i = k
      <4>1. \A i, k \in DOMAIN kept : kept[i] = kept[k] => i = k
        BY <1>9, <1>12, NoneTwice
      <4>2. A \subseteq DOMAIN kept
        BY DEF Better
      <4> QED BY <4>1, <4>2
    <3> HIDE DEF f, A
    <3>5. IsFiniteSet(A) /\ Cardinality(A) <= Cardinality(all)
      BY <3>2, <3>3, <3>4, OneToOne
    <3>6. Cardinality(A) \in Nat /\ Cardinality(all) \in Nat
      BY <3>2, <3>5, FS_CardinalityType
    <3>7. Cardinality(all) >= MaxMatches
      BY <2>0, <2>8, <3>5, <3>6 DEF A
    <3> QED BY <3>7 DEF all
  <2> QED BY <2>4, <2>6, <2>7, <2>8 DEF WhyHidden
<1>20. LeftOutRightly(r, s)
  BY <1>19 DEF LeftOutRightly, C, Named
<1> QED BY <1>14, <1>18, <1>20

-----------------------------------------------------------------------------
(* The shape of what a query keeps *)

\* What is left of the walk.
Suffix(i) == SubSeq(Walk, i + 1, Len(Walk))

\* The walk goes on with one file less.
LEMMA SuffixFacts ==
  /\ Len(Walk) \in Nat
  /\ Walk = Suffix(0) /\ <<>> = Suffix(Len(Walk))
  /\ \A i \in 0 .. Len(Walk) : Suffix(i) # <<>> =>
        i + 1 \in 0 .. Len(Walk) /\ Tail(Suffix(i)) = Suffix(i + 1)
<1> DEFINE n == Len(Walk)
<1>1. Walk \in Seq(Path) /\ n \in Nat
  BY ContextAssumption
<1>2. Walk = Suffix(0)
  BY <1>1 DEF Suffix
<1>3. <<>> = Suffix(n)
  BY <1>1 DEF Suffix
<1>4. ASSUME NEW i \in 0 .. n, Suffix(i) # <<>>
      PROVE  i + 1 \in 0 .. n /\ Tail(Suffix(i)) = Suffix(i + 1)
  <2>1. i # n
    BY <1>3, <1>4
  <2>2. i \in Nat /\ i + 1 <= n
    BY <1>1, <2>1
  <2>3. Tail(SubSeq(Walk, i + 1, n)) = SubSeq(Walk, i + 2, n)
    BY <1>1, <2>2
  <2> QED BY <1>1, <2>2, <2>3 DEF Suffix
<1> QED BY <1>1, <1>2, <1>3, <1>4

\* Every operation reads the files from the first or goes on with the next.
LEMMA NextLeft ==
  ASSUME MemoryTypes, Next, NEW w \in Worker,
         \E i \in 0 .. Len(Walk) : left[w] = Suffix(i)
  PROVE  \E i \in 0 .. Len(Walk) : left'[w] = Suffix(i)
<1>0. left \in [Worker -> Seq(Path)] /\ Len(Walk) \in Nat /\ 0 \in 0 .. Len(Walk)
  BY SuffixFacts DEF MemoryTypes
<1>1. CASE left'[w] = left[w]
  BY <1>1
<1>2. CASE left'[w] = Walk
  BY <1>0, <1>2, SuffixFacts
<1>3. CASE left[w] # <<>> /\ left'[w] = Tail(left[w])
  BY <1>3, SuffixFacts
<1>4. ASSUME NEW v \in Worker, left' = [left EXCEPT ![v] = Walk]
      PROVE  left'[w] \in {left[w], Walk}
  BY <1>0, <1>4
<1>5. ASSUME NEW v \in Worker, Read(v)
      PROVE  left'[w] = left[w] \/ (left[w] # <<>> /\ left'[w] = Tail(left[w]))
  BY <1>0, <1>5 DEF Read
<1>6. ASSUME NEW v \in Worker,
             Retrieve(v) \/ WalkFiles(v) \/ LoadExisting(v) \/ Sync(v) \/ Search(v)
             \/ Reread(v) \/ Finish(v)
      PROVE  \/ UNCHANGED left
             \/ left' = [left EXCEPT ![v] = Walk]
             \/ Read(v)
  BY <1>6 DEF Retrieve, WalkFiles, LoadExisting, Sync, Search, Reread, Finish, FallBack
<1>7. ASSUME NEW e \in Edits, Edit(e[1], e[2], e[3]) PROVE UNCHANGED left
  BY <1>7 DEF Edit, local
<1> QED BY <1>1, <1>2, <1>3, <1>4, <1>5, <1>6, <1>7 DEF Next

\* No operation keeps more than TopN memories.
LEMMA NextTop ==
  ASSUME MemoryTypes, MemoryTypes', Next, NEW w \in Worker, Len(memories[w]) <= TopN
  PROVE  Len(memories'[w]) <= TopN
<1>0. /\ memories \in [Worker -> Seq(Memory)] /\ TopN \in Nat /\ Len(<<>>) = 0
      /\ index \in Files /\ files \in [Worker -> Files]
  BY ContextAssumption DEF MemoryTypes
<1>1. ASSUME NEW I, IsFiniteSet(I), NEW found \in Rankings(I) PROVE Len(found) <= TopN
  <2> DEFINE J == {i \in I : i.score > 0}
  <2>1. PICK q \in SetToSeqs(J) :
           found = SubSeq(q, 1, IF TopN < Len(q) THEN TopN ELSE Len(q))
    BY DEF Rankings
  <2>2. IsFiniteSet(J)
    <3>1. J \in SUBSET I
      OBVIOUS
    <3> HIDE DEF J
    <3> QED BY <1>1, <3>1, FS_Subset
  <2>3. q \in Seq(J) /\ Len(q) \in Nat
    BY <2>2, Permutes
  <2> DEFINE m == IF TopN < Len(q) THEN TopN ELSE Len(q)
  <2>4. m \in Nat /\ m <= Len(q) /\ m <= TopN
    BY <1>0, <2>3
  <2>5. found = SubSeq(q, 1, m)
    BY <2>1
  <2> HIDE DEF m, J
  <2>6. Len(found) = m
    BY <2>3, <2>4, <2>5, Beginning
  <2> QED BY <2>4, <2>6
<1>2. ASSUME NEW v \in Worker, NEW found, Len(found) <= TopN, Execute(v, found)
      PROVE  Len(memories'[w]) <= TopN
  BY <1>0, <1>2 DEF Execute
<1>3. ASSUME NEW v \in Worker, Search(v) PROVE Len(memories'[w]) <= TopN
  <2>1. IsFiniteSet(Rows(v, index))
    BY <1>0, RowsFinite
  <2>2. \A found \in Rankings(Rows(v, index)) : Len(found) <= TopN
    BY <1>1, <2>1
  <2>3. Len(<<>>) <= TopN
    BY <1>0
  <2>4. \E found : Len(found) <= TopN /\ Execute(v, found)
    BY <1>3, <2>2, <2>3 DEF Search
  <2> QED BY <1>2, <2>4
<1>4. ASSUME NEW v \in Worker, Reread(v) PROVE Len(memories'[w]) <= TopN
  <2>1. IsFiniteSet(EntriesOf(v, files[v]))
    BY <1>0, EntriesFinite
  <2>2. \A found \in Rankings(EntriesOf(v, files[v])) : Len(found) <= TopN
    BY <1>1, <2>1
  <2> QED BY <1>2, <1>4, <2>2 DEF Reread
<1>5. ASSUME NEW v \in Worker, Finish(v) PROVE Len(memories'[w]) <= TopN
  BY <1>0, <1>5 DEF Finish
<1>6. ASSUME NEW v \in Worker, Retrieve(v) \/ WalkFiles(v) \/ LoadExisting(v) \/ Sync(v)
      PROVE  UNCHANGED memories
  BY <1>6 DEF Retrieve, WalkFiles, LoadExisting, Sync
<1>7. ASSUME NEW e \in Edits, Edit(e[1], e[2], e[3]) PROVE UNCHANGED memories
  BY <1>7 DEF Edit, local
<1> QED BY <1>3, <1>4, <1>5, <1>6, <1>7 DEF Next

\* What an app's files ever held, and the bounds of the exploration.
LEMMA NextBounds ==
  ASSUME TypeOK, Next
  PROVE  /\ had' \in [App -> SUBSET (Path \X (Content \cup {None}))]
         /\ queries' \in [Worker -> 0 .. MaxQueries]
         /\ edits' \in 0 .. MaxEdits /\ faults' \in 0 .. MaxFaults
<1>0. /\ had \in [App -> SUBSET (Path \X (Content \cup {None}))]
      /\ queries \in [Worker -> 0 .. MaxQueries]
      /\ edits \in 0 .. MaxEdits /\ faults \in 0 .. MaxFaults
      /\ MaxQueries \in Nat /\ MaxEdits \in Nat /\ MaxFaults \in Nat
  BY ContextAssumption DEF TypeOK
<1>1. ASSUME NEW w \in Worker, Retrieve(w)
      PROVE  queries' \in [Worker -> 0 .. MaxQueries] /\ UNCHANGED <<had, edits, faults>>
  <2>1. /\ queries[w] < MaxQueries /\ queries' = [queries EXCEPT ![w] = @ + 1]
        /\ UNCHANGED <<had, edits, faults>>
    BY <1>1 DEF Retrieve
  <2>2. queries[w] + 1 \in 0 .. MaxQueries
    BY <1>0, <2>1
  <2> QED BY <1>0, <2>1, <2>2
<1>2. ASSUME NEW w \in Worker, Fault(w) \/ NoFault PROVE faults' \in 0 .. MaxFaults
  BY <1>0, <1>2 DEF Fault, NoFault
<1>3. ASSUME NEW w \in Worker, LoadExisting(w) \/ Sync(w) \/ Search(w)
      PROVE  (Fault(w) \/ NoFault) /\ UNCHANGED <<had, queries, edits>>
  BY <1>3 DEF LoadExisting, Sync, Search
<1>4. ASSUME NEW w \in Worker, WalkFiles(w) \/ Reread(w) \/ Finish(w)
      PROVE  UNCHANGED <<had, queries, edits, faults>>
  BY <1>4 DEF WalkFiles, Reread, Finish
<1>5. ASSUME NEW e \in Edits, Edit(e[1], e[2], e[3])
      PROVE  /\ had' \in [App -> SUBSET (Path \X (Content \cup {None}))]
             /\ edits' \in 0 .. MaxEdits /\ UNCHANGED <<queries, faults>>
  <2>1. /\ edits < MaxEdits /\ edits' = edits + 1
        /\ had' = [had EXCEPT ![e[1]] = @ \cup {<<e[2], e[3]>>}]
        /\ UNCHANGED <<queries, faults>>
    BY <1>5 DEF Edit, local
  <2>2. e[1] \in App /\ <<e[2], e[3]>> \in Path \X (Content \cup {None})
    BY ConstantFacts
  <2>3. had[e[1]] \cup {<<e[2], e[3]>>} \in SUBSET (Path \X (Content \cup {None}))
    BY <1>0, <2>2
  <2> QED BY <1>0, <2>1, <2>2, <2>3
<1> QED BY <1>0, <1>1, <1>2, <1>3, <1>4, <1>5 DEF Next

\* What the searches may find, and what is shown of it.
LEMMA ShownFacts ==
  ASSUME NEW w \in Worker, NEW r \in RouteResults[w], NEW s,
         s = IF r.fails THEN <<>> ELSE Shown(Fuse(Candidates(r)))
  PROVE  s \in Seq(Match)
<1>1. Result(r)
  BY ContextAssumption DEF Result
<1>2. CASE r.fails
  BY <1>2
<1>3. CASE ~ r.fails
  BY <1>1, <1>3, HistoryFacts
<1> QED BY <1>2, <1>3

\* Only Retrieve and Finish change what is shown.
LEMMA NextShown ==
  ASSUME TypeOK, ShowsWhatWasFound, Next
  PROVE  /\ ShowsWhatWasFound'
         /\ DOMAIN routes' = Worker
         /\ \A w \in Worker : routes'[w] \in RouteResults[w] \cup {NoRoutes}
         /\ shown' \in [Worker -> Seq(Match)]
<1>0. /\ DOMAIN routes = Worker /\ shown \in [Worker -> Seq(Match)]
      /\ \A w \in Worker : routes[w] \in RouteResults[w] \cup {NoRoutes}
  BY DEF TypeOK
<1> DEFINE Shows(r, s, w) ==
             \/ r = NoRoutes /\ s = <<>>
             \/ /\ r \in RouteResults[w]
                /\ s = IF r.fails THEN <<>> ELSE Shown(Fuse(Candidates(r)))
<1>1. \A w \in Worker : Shows(routes[w], shown[w], w)
  BY DEF ShowsWhatWasFound
<1>2. ASSUME NEW r, NEW s, NEW w \in Worker, Shows(r, s, w)
      PROVE  r \in RouteResults[w] \cup {NoRoutes} /\ s \in Seq(Match)
  <2>1. CASE r = NoRoutes /\ s = <<>>
    BY <2>1
  <2>2. CASE /\ r \in RouteResults[w]
             /\ s = IF r.fails THEN <<>> ELSE Shown(Fuse(Candidates(r)))
    BY <2>2, ShownFacts
  <2> QED BY <1>2, <2>1, <2>2
<1>3. ASSUME NEW w \in Worker, Retrieve(w)
      PROVE  \E r, s : /\ Shows(r, s, w)
                       /\ routes' = [routes EXCEPT ![w] = r]
                       /\ shown' = [shown EXCEPT ![w] = s]
  BY <1>3 DEF Retrieve
<1>4. ASSUME NEW w \in Worker, Finish(w)
      PROVE  \E r, s : /\ Shows(r, s, w)
                       /\ routes' = [routes EXCEPT ![w] = r]
                       /\ shown' = [shown EXCEPT ![w] = s]
  BY <1>4 DEF Finish
<1>5. ASSUME NEW w \in Worker,
             WalkFiles(w) \/ LoadExisting(w) \/ Sync(w) \/ Search(w) \/ Reread(w)
      PROVE  UNCHANGED <<routes, shown>>
  BY <1>5 DEF WalkFiles, LoadExisting, Sync, Search, Reread
<1>6. ASSUME NEW e \in Edits, Edit(e[1], e[2], e[3]) PROVE UNCHANGED <<routes, shown>>
  BY <1>6 DEF Edit, local
<1>7. \/ UNCHANGED <<routes, shown>>
      \/ \E w \in Worker : \E r, s : /\ Shows(r, s, w)
                                     /\ routes' = [routes EXCEPT ![w] = r]
                                     /\ shown' = [shown EXCEPT ![w] = s]
  <2> HIDE DEF Shows
  <2> QED BY <1>3, <1>4, <1>5, <1>6 DEF Next
<1>8. /\ \A w \in Worker : Shows(routes'[w], shown'[w], w)
      /\ DOMAIN routes' = Worker /\ DOMAIN shown' = Worker
      /\ shown' = [w \in Worker |-> shown'[w]]
  <2>1. CASE UNCHANGED <<routes, shown>>
    BY <1>0, <1>1, <2>1
  <2>2. CASE \E w \in Worker : \E r, s : /\ Shows(r, s, w)
                                         /\ routes' = [routes EXCEPT ![w] = r]
                                         /\ shown' = [shown EXCEPT ![w] = s]
    <3> HIDE DEF Shows
    <3> QED BY <1>0, <1>1, <2>2
  <2> QED BY <1>7, <2>1, <2>2
<1>9. ShowsWhatWasFound'
  BY <1>8 DEF ShowsWhatWasFound
<1>10. \A w \in Worker : routes'[w] \in RouteResults[w] \cup {NoRoutes} /\ shown'[w] \in Seq(Match)
  <2> HIDE DEF Shows
  <2> QED BY <1>2, <1>8
<1> QED BY <1>8, <1>9, <1>10

\* What is shown is the best of what was found.
LEMMA ShownIsBest == ShowsWhatWasFound => HistoryIsBest
<1> SUFFICES ASSUME ShowsWhatWasFound PROVE HistoryIsBest
  OBVIOUS
<1> DEFINE BestOf(r, s) ==
             LET better(m) == {i \in DOMAIN s : ScoreOf(r, s[i]) > ScoreOf(r, m)}
             IN ~r.fails =>
                 /\ \A i, j \in DOMAIN s : i < j => ScoreOf(r, s[i]) > ScoreOf(r, s[j])
                 /\ \A i \in DOMAIN s : Cardinality(OfSession(s, s[i].session)) <= MaxPerSession
                 /\ Cardinality(Sessions(s)) <= MaxSessions
                 /\ \A m \in {c.match : c \in Candidates(r)} \ ToSet(s) :
                       \/ Cardinality({i \in better(m) : s[i].session = m.session})
                              = MaxPerSession
                       \/ Cardinality({s[i].session : i \in better(m)} \ {m.session})
                              = MaxSessions
                       \/ Cardinality({c.match : c \in {d \in Candidates(r) :
                             ScoreOf(r, d.match) > ScoreOf(r, m)}}) >= MaxMatches
<1>0. ASSUME NEW r, Result(r), NEW s, s = Shown(Fuse(Candidates(r)))
      PROVE  BestOf(r, s)
  <2>1. /\ s \in Seq(Match)
        /\ \A i, j \in DOMAIN s : i < j => ScoreOf(r, s[i]) > ScoreOf(r, s[j])
        /\ \A x : Cardinality(OfSession(s, x)) <= MaxPerSession
        /\ Cardinality(Sessions(s)) <= MaxSessions
    BY <1>0, HistoryFacts
  <2>2. LeftOutRightly(r, s)
    BY <1>0, HistoryFacts
  <2>3. \A i \in DOMAIN s : Cardinality(OfSession(s, s[i].session)) <= MaxPerSession
    BY <2>1
  <2> QED BY <2>1, <2>2, <2>3 DEF LeftOutRightly
<1>1. ASSUME NEW w \in Worker PROVE BestOf(routes[w], shown[w])
  <2>1. CASE routes[w] = NoRoutes /\ shown[w] = <<>>
    <3>1. DOMAIN shown[w] = {} /\ Candidates(routes[w]) = {}
      <4>1. DOMAIN <<>> = {}
        OBVIOUS
      <4>2. routes[w].fts = <<>> /\ routes[w].like = <<>> /\ routes[w].summary = <<>>
        BY <2>1 DEF NoRoutes
      <4>3. \A first : Scored(<<>>, first) = {}
        BY <4>1 DEF Scored
      <4> QED BY <2>1, <4>1, <4>2, <4>3 DEF Candidates
    <3>2. Sessions(shown[w]) = {}
      BY <3>1 DEF Sessions
    <3>3. Cardinality(Sessions(shown[w])) = 0
      BY <3>2, FS_EmptySet
    <3>4. MaxSessions \in Nat
      BY ContextAssumption
    <3>5. Cardinality(Sessions(shown[w])) <= MaxSessions
      BY <3>3, <3>4
    <3> QED BY <3>1, <3>5
  <2>2. CASE /\ routes[w] \in RouteResults[w]
             /\ shown[w] = IF routes[w].fails THEN <<>> ELSE Shown(Fuse(Candidates(routes[w])))
    <3> SUFFICES ASSUME ~ routes[w].fails PROVE BestOf(routes[w], shown[w])
      OBVIOUS
    <3>1. Result(routes[w])
      BY <2>2, ContextAssumption DEF Result
    <3>2. shown[w] = Shown(Fuse(Candidates(routes[w])))
      BY <2>2
    <3> HIDE DEF BestOf
    <3> QED BY <1>0, <3>1, <3>2
  <2> QED BY <2>1, <2>2 DEF ShowsWhatWasFound
<1> QED BY <1>1 DEF HistoryIsBest

\* At the beginning.
LEMMA InitContext == Init => TypeOK /\ ShowsWhatWasFound
<1> SUFFICES ASSUME Init PROVE TypeOK /\ ShowsWhatWasFound
  OBVIOUS
<1>1. MemoryTypes
  BY InitMemory DEF MemoryInv
<1>2. /\ left = [w \in Worker |-> <<>>] /\ memories = [w \in Worker |-> <<>>]
      /\ routes = [w \in Worker |-> NoRoutes] /\ shown = [w \in Worker |-> <<>>]
      /\ had = [a \in App |-> {<<p, Initially[a][p]>> : p \in Path}]
      /\ queries = [w \in Worker |-> 0] /\ edits = 0 /\ faults = 0
  BY DEF Init
<1>3. \A w \in Worker : \E i \in 0 .. Len(Walk) : left[w] = SubSeq(Walk, i + 1, Len(Walk))
  <2>1. Len(Walk) \in 0 .. Len(Walk) /\ <<>> = SubSeq(Walk, Len(Walk) + 1, Len(Walk))
    BY SuffixFacts DEF Suffix
  <2> QED BY <1>2, <2>1
<1>4. \A w \in Worker : Len(memories[w]) <= TopN
  BY <1>2, ContextAssumption
<1>5. had \in [App -> SUBSET (Path \X (Content \cup {None}))]
  <2>1. \A a \in App, p \in Path : Initially[a][p] \in Content \cup {None}
    BY ConstantFacts DEF Files
  <2> QED BY <1>2, <2>1
<1>6. /\ queries \in [Worker -> 0 .. MaxQueries] /\ edits \in 0 .. MaxEdits
      /\ faults \in 0 .. MaxFaults
  BY <1>2, ContextAssumption
<1>7. /\ DOMAIN routes = Worker /\ shown \in [Worker -> Seq(Match)]
      /\ \A w \in Worker : routes[w] \in RouteResults[w] \cup {NoRoutes}
  BY <1>2
<1>8. ShowsWhatWasFound
  BY <1>2 DEF ShowsWhatWasFound
<1> QED BY <1>1, <1>3, <1>4, <1>5, <1>6, <1>7, <1>8 DEF TypeOK

\* Every step keeps the shapes of all that the workers keep.
LEMMA NextContext ==
  ASSUME TypeOK, ShowsWhatWasFound, Next PROVE TypeOK' /\ ShowsWhatWasFound'
<1>1. MemoryTypes /\ MemoryTypes'
  BY NextTypes DEF TypeOK
<1>2. \A w \in Worker : \E i \in 0 .. Len(Walk) : left'[w] = SubSeq(Walk, i + 1, Len(Walk))
  <2>1. \A w \in Worker : \E i \in 0 .. Len(Walk) : left[w] = Suffix(i)
    BY DEF TypeOK, Suffix
  <2>2. \A w \in Worker : \E i \in 0 .. Len(Walk) : left'[w] = Suffix(i)
    BY <1>1, <2>1, NextLeft
  <2> QED BY <2>2 DEF Suffix
<1>3. \A w \in Worker : Len(memories'[w]) <= TopN
  <2>1. \A w \in Worker : Len(memories[w]) <= TopN
    BY DEF TypeOK
  <2> QED BY <1>1, <2>1, NextTop
<1>4. /\ had' \in [App -> SUBSET (Path \X (Content \cup {None}))]
      /\ queries' \in [Worker -> 0 .. MaxQueries]
      /\ edits' \in 0 .. MaxEdits /\ faults' \in 0 .. MaxFaults
  BY NextBounds
<1>5. /\ ShowsWhatWasFound'
      /\ DOMAIN routes' = Worker
      /\ \A w \in Worker : routes'[w] \in RouteResults[w] \cup {NoRoutes}
      /\ shown' \in [Worker -> Seq(Match)]
  BY NextShown
<1> QED BY <1>1, <1>2, <1>3, <1>4, <1>5 DEF TypeOK

-----------------------------------------------------------------------------
(* The theorems *)

\* Those who write the table during a query that was not disturbed have read the same
\* files, and leave it as they say: the inductive invariant that the next theorem
\* rests on.
THEOREM MemoryInvariant == Spec => []MemoryInv
<1>1. MemoryInv /\ [Next]_vars => MemoryInv'
  <2> SUFFICES ASSUME MemoryInv, [Next]_vars PROVE MemoryInv'
    OBVIOUS
  <2>0. MemoryTypes /\ WritersAgree /\ ReadIsCurrent /\ TableIsRight /\ UndisturbedIsExact
    BY DEF MemoryInv
  <2>1. CASE UNCHANGED vars
    <3>0. UNCHANGED <<disk, index, pc, left, files, existing, memories, disturbed>>
      BY <2>1 DEF vars, local
    <3>1. MemoryTypes'
      BY <2>0, <3>0 DEF MemoryTypes
    <3>2. WritersAgree'
      BY <2>0, <3>0 DEF WritersAgree, Undisturbed, Syncing
    <3>3. ReadIsCurrent'
      BY <2>0, <3>0 DEF ReadIsCurrent, Syncing
    <3>4. TableIsRight' /\ UndisturbedIsExact'
      BY <2>0, <3>0 DEF TableIsRight, UndisturbedIsExact, Exact, Undisturbed
    <3> QED BY <3>1, <3>2, <3>3, <3>4 DEF MemoryInv
  <2>2. CASE Next
    BY <2>0, <2>2, NextTypes, NextWriters, NextCurrent, NextTable, NextExact DEF MemoryInv
  <2> QED BY <2>1, <2>2
<1> QED BY <1>1, InitMemory, PTL DEF Spec

\* retrieveMemories: whatever the table of all apps held before, and whoever else of the
\* app queries it at the same time, a query that nobody disturbed finds the best of what
\* the files say.
THEOREM UndisturbedIsExactHolds == Spec => []UndisturbedIsExact
<1>1. MemoryInv => UndisturbedIsExact
  BY DEF MemoryInv
<1> QED BY <1>1, MemoryInvariant, PTL

\* preparePromptWithContext: everything a worker keeps has its shape, and what a prompt
\* shows of the history is the best of what the three searches found: in the order of
\* their scores, not too many of a session, not too many sessions, and nothing left out
\* but for better ones.
THEOREM ContextInvariant == Spec => []ContextInv
<1>1. TypeOK /\ ShowsWhatWasFound /\ [Next]_vars => TypeOK' /\ ShowsWhatWasFound'
  <2>1. TypeOK /\ ShowsWhatWasFound /\ Next => TypeOK' /\ ShowsWhatWasFound'
    BY NextContext
  <2>2. TypeOK /\ ShowsWhatWasFound /\ UNCHANGED vars => TypeOK' /\ ShowsWhatWasFound'
    BY DEF TypeOK, MemoryTypes, ShowsWhatWasFound, vars, local
  <2> QED BY <2>1, <2>2
<1>2. TypeOK /\ ShowsWhatWasFound => ContextInv
  BY ShownIsBest DEF ContextInv
<1> QED BY <1>1, <1>2, InitContext, PTL DEF Spec
=============================================================================
