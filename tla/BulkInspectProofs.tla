-------------------------- MODULE BulkInspectProofs --------------------------
(***************************************************************************)
(* What holds of the bulk inspection for any number of links, clients,     *)
(* workers, jobs, crashes and failing calls.                               *)
(***************************************************************************)
EXTENDS BulkInspect, Integers, FiniteSetTheorems, TLAPS

-----------------------------------------------------------------------------
(* Shape *)

Lines == Links \cup {Malformed}
Verdicts == {"already", "good", "bad"}
Ends == {"completed", "interrupted"}

JobRow == [status : Ends \cup {"running"}, processed : Int, total : Nat, old : BOOLEAN]
Item == [result : Verdicts \cup {"none"}, registered : BOOLEAN]

\* The lines of a job; one without a link has its result from the start.
LineTable(table) ==
    /\ DOMAIN table \subseteq Lines
    /\ \A l \in DOMAIN table :
          table[l] \in Item /\ (table[l].result = "none" => l \in Links)

RequestRow ==
    [pc : {"idle"}]
    \cup [pc : {"count", "insert"}, op : {"start"}, text : SUBSET Lines]
    \cup [pc : {"lines"}, op : {"start"}, job : Jobs, text : SUBSET Lines]
    \cup [pc : {"count", "find", "reopen"}, op : {"resume"}, job : Jobs]
    \cup [pc : {"list"}, op : {"clear"}, job : Jobs]
    \cup [pc : {"items", "jobs"}, op : {"clear"}, ids : SUBSET Jobs]

RunRow ==
    [pc : {"idle"}]
    \cup [pc : {"list", "left", "catch"}, job : Jobs]
    \cup [pc : {"look", "count"}, job : Jobs, todo : SUBSET Links]
    \cup [pc : {"note"}, job : Jobs, todo : SUBSET Links, line : Links, verdict : Verdicts]
    \cup [pc : {"progress"}, job : Jobs, todo : SUBSET Links, left : Nat]
    \cup [pc : {"recount"}, job : Jobs, status : Ends]
    \cup [pc : {"close"}, job : Jobs, status : Ends, left : Nat]

LoopRow ==
    [pc : {"idle"}]
    \cup [pc : {"item"}, todo : SUBSET (Jobs \X Links)]
    \cup [pc : {"look", "known", "search", "save", "mark"}, todo : SUBSET (Jobs \X Links),
          job : Jobs, line : Links]

JobsShape == jobs \in [Jobs -> JobRow \cup {NoRow}]
ItemsShape == DOMAIN items = Jobs /\ \A j \in Jobs : LineTable(items[j])

\* Every variable keeps its shape: a run has only links to look at, a registration only
\* links of jobs.
TypeOK ==
    /\ up \in BOOLEAN
    /\ used \in 0..MaxJobs
    /\ JobsShape
    /\ ItemsShape
    /\ channels \in [Links -> Nat]
    /\ req \in [Clients -> RequestRow]
    /\ work \in [Workers -> RunRow]
    /\ loop \in [Loops -> LoopRow]

LEMMA EmptyTable == LineTable(<<>>) /\ DOMAIN <<>> = {}
  BY DEF LineTable

LEMMA JobsAreNumbers == MaxJobs \in Nat /\ Jobs \subseteq Nat
  BY InspectAssumption DEF Jobs

LEMMA TextsAreLines == \A text \in Texts : text \in SUBSET Lines /\ IsFiniteSet(text)
  <1>1. IsFiniteSet(Lines)
    <2>1. IsFiniteSet(Links)
      BY InspectAssumption
    <2> QED BY <2>1, FS_AddElement DEF Lines
  <1>2. \A text \in Texts : text \in SUBSET Lines
    BY InspectAssumption DEF Lines
  <1> QED BY <1>1, <1>2, FS_Subset

LEMMA LeftIsFinite ==
    ASSUME TypeOK, NEW j \in Jobs
    PROVE  Left(j) \subseteq Links /\ Cardinality(Left(j)) \in Nat
           /\ (Left(j) = {} => Cardinality(Left(j)) = 0)
  <1>1. Left(j) \subseteq Links
    BY DEF TypeOK, ItemsShape, LineTable, Left
  <1>2. IsFiniteSet(Links)
    BY InspectAssumption
  <1>3. IsFiniteSet(Left(j))
    BY <1>1, <1>2, FS_Subset
  <1> QED BY <1>1, <1>3, FS_CardinalityType, FS_EmptySet

LEMMA NewRowShape ==
    ASSUME NEW text \in Texts
    PROVE  NewJob(text) \in JobRow
  <1>1. IsFiniteSet(text) /\ IsFiniteSet(text \ Links)
    BY TextsAreLines, FS_Subset
  <1>2. Cardinality(text) \in Nat /\ Cardinality(text \ Links) \in Nat
    BY <1>1, FS_CardinalityType
  <1> QED BY <1>2 DEF NewJob, JobRow

\* Pruning takes rows away, with their lines.
LEMMA PrunedShape ==
    ASSUME TypeOK
    PROVE  /\ Pruned(jobs) \in [Jobs -> JobRow \cup {NoRow}]
           /\ \A j \in Jobs : Pruned(jobs)[j] \in {jobs[j], NoRow}
           /\ \A j \in Jobs : Kept(Pruned(jobs))[j] \in {items[j], <<>>}
           /\ DOMAIN Kept(Pruned(jobs)) = Jobs
           /\ \A j \in Jobs : LineTable(Kept(Pruned(jobs))[j])
  <1>1. \A j \in Jobs : Pruned(jobs)[j] \in {jobs[j], NoRow}
    BY DEF Pruned
  <1>2. Pruned(jobs) \in [Jobs -> JobRow \cup {NoRow}]
    BY DEF Pruned, TypeOK, JobsShape
  <1>3. /\ \A j \in Jobs : Kept(Pruned(jobs))[j] \in {items[j], <<>>}
        /\ DOMAIN Kept(Pruned(jobs)) = Jobs
    BY DEF Kept
  <1>4. \A j \in Jobs : LineTable(Kept(Pruned(jobs))[j])
    BY <1>3, EmptyTable DEF TypeOK, ItemsShape
  <1> QED BY <1>1, <1>2, <1>3, <1>4

LEMMA RunJobShape ==
    ASSUME TypeOK, NEW j \in Jobs, RunJob(j)
    PROVE  work' \in [Workers -> RunRow]
  <1> DEFINE w == CHOOSE w \in Workers : work[w] = Idle
             r == [pc |-> "list", job |-> j]
  <1>1. r \in RunRow
    BY DEF RunRow
  <1>2. work' = [work EXCEPT ![w] = r]
    BY DEF RunJob
  <1> HIDE DEF w, r
  <1> QED BY <1>1, <1>2 DEF TypeOK

LEMMA IdleShapes == Idle \in RequestRow /\ Idle \in RunRow /\ Idle \in LoopRow
  BY DEF Idle, RequestRow, RunRow, LoopRow

LEMMA BeginShape ==
    ASSUME TypeOK, NEW r \in RequestRow, Begin(r)
    PROVE  TypeOK'
  <1>1. Client \in Clients
    BY DEF Begin, Client, Free
  <1> HIDE DEF Client
  <1>2. req' \in [Clients -> RequestRow]
    BY <1>1 DEF TypeOK, Begin
  <1> QED BY <1>2 DEF TypeOK, Begin, tableVars, JobsShape, ItemsShape

LEMMA RequestShape ==
    ASSUME TypeOK, NEW c \in Clients, Request(c)
    PROVE  TypeOK'
  <1>0. req[c] \in RequestRow
    BY DEF TypeOK
  <1>1. ASSUME NEW r \in RequestRow, Goes(c, r) PROVE req' \in [Clients -> RequestRow]
    BY <1>1 DEF Goes, TypeOK
  <1>2. CASE CountRunning(c)
    <2> DEFINE r == [req[c] EXCEPT !.pc = IF req[c].op = "start" THEN "insert" ELSE "find"]
    <2>1. r \in RequestRow
      <3>1. req[c].pc = "count"
        BY <1>2 DEF CountRunning
      <3> QED BY <1>0, <3>1 DEF RequestRow
    <2>2. Goes(c, Idle) \/ Goes(c, r)
      BY <1>2 DEF CountRunning
    <2> HIDE DEF r
    <2>3. req' \in [Clients -> RequestRow]
      BY <1>1, <2>1, <2>2, IdleShapes
    <2> QED BY <1>2, <2>3 DEF CountRunning, TypeOK, tableVars, JobsShape, ItemsShape
  <1>3. CASE InsertJob(c)
    <2> DEFINE row == NewJob(req[c].text)
               r == [pc |-> "lines", op |-> "start", job |-> used + 1, text |-> req[c].text]
    <2>1. used + 1 \in Jobs /\ used' = used + 1 /\ used' \in 0..MaxJobs
      BY <1>3, JobsAreNumbers DEF InsertJob, TypeOK, Jobs
    <2>2. req[c].text \in SUBSET Lines
      BY <1>0, <1>3 DEF InsertJob, RequestRow
    <2>3. r \in RequestRow
      BY <2>1, <2>2 DEF RequestRow
    <2>4. row \in JobRow
      <3>1. IsFiniteSet(Lines)
        BY InspectAssumption, FS_AddElement DEF Lines
      <3>2. IsFiniteSet(req[c].text) /\ IsFiniteSet(req[c].text \ Links)
        BY <2>2, <3>1, FS_Subset
      <3>3. Cardinality(req[c].text) \in Nat /\ Cardinality(req[c].text \ Links) \in Nat
        BY <3>2, FS_CardinalityType
      <3> QED BY <3>3 DEF NewJob, JobRow
    <2>5. /\ jobs' = [Pruned(jobs) EXCEPT ![used + 1] = row]
          /\ items' = Kept(Pruned(jobs)) /\ Goes(c, r)
          /\ UNCHANGED <<channels, up, work, loop>>
      BY <1>3 DEF InsertJob
    <2> HIDE DEF row, r
    <2>6. jobs' \in [Jobs -> JobRow \cup {NoRow}]
      BY <2>1, <2>4, <2>5, PrunedShape
    <2>7. ItemsShape'
      BY <2>5, PrunedShape DEF ItemsShape
    <2> QED BY <1>1, <2>1, <2>3, <2>5, <2>6, <2>7 DEF TypeOK, JobsShape
  <1>4. CASE InsertLines(c)
    <2> DEFINE j == req[c].job
               table == [l \in req[c].text |-> NewLine(l)]
    <2>1. j \in Jobs /\ req[c].text \in SUBSET Lines
      BY <1>0, <1>4 DEF InsertLines, RequestRow
    <2>2. LineTable(table)
      BY <2>1 DEF LineTable, NewLine, Item, Verdicts, Lines
    <2>3. /\ items' = [items EXCEPT ![j] = table] /\ RunJob(j) /\ Goes(c, Idle)
          /\ UNCHANGED <<jobs, used, channels, up, loop>>
      BY <1>4 DEF InsertLines
    <2> HIDE DEF j, table
    <2>4. ItemsShape'
      BY <2>1, <2>2, <2>3 DEF TypeOK, ItemsShape
    <2> QED BY <1>1, <2>1, <2>3, <2>4, RunJobShape, IdleShapes DEF TypeOK, JobsShape
  <1>5. CASE LinesFail(c)
    BY <1>1, <1>5, IdleShapes DEF LinesFail, TypeOK, tableVars, JobsShape, ItemsShape
  <1>6. CASE FindInterrupted(c)
    <2> DEFINE r == [req[c] EXCEPT !.pc = "reopen"]
    <2>1. r \in RequestRow
      <3>1. req[c].pc = "find"
        BY <1>6 DEF FindInterrupted
      <3> QED BY <1>0, <3>1 DEF RequestRow
    <2>2. Goes(c, Idle) \/ Goes(c, r)
      BY <1>6 DEF FindInterrupted
    <2> HIDE DEF r
    <2>3. req' \in [Clients -> RequestRow]
      BY <1>1, <2>1, <2>2, IdleShapes
    <2> QED BY <1>6, <2>3 DEF FindInterrupted, TypeOK, tableVars, JobsShape, ItemsShape
  <1>7. CASE Reopen(c)
    <2> DEFINE j == req[c].job
    <2>1. j \in Jobs
      BY <1>0, <1>7 DEF Reopen, RequestRow
    <2>2. /\ jobs' = IF jobs[j] = NoRow THEN jobs ELSE [jobs EXCEPT ![j].status = "running"]
          /\ RunJob(j) /\ Goes(c, Idle) /\ UNCHANGED <<items, used, channels, up, loop>>
      BY <1>7 DEF Reopen
    <2> HIDE DEF j
    <2>3. JobsShape'
      <3>1. CASE jobs[j] = NoRow
        BY <2>2, <3>1 DEF TypeOK, JobsShape
      <3>2. CASE jobs[j] # NoRow
        <4>1. jobs[j] \in JobRow
          BY <2>1, <3>2 DEF TypeOK, JobsShape
        <4>2. [jobs[j] EXCEPT !.status = "running"] \in JobRow
          BY <4>1 DEF JobRow
        <4> QED BY <2>1, <2>2, <3>2, <4>2 DEF TypeOK, JobsShape
      <3> QED BY <3>1, <3>2
    <2> QED BY <1>1, <2>1, <2>2, <2>3, RunJobShape, IdleShapes DEF TypeOK, ItemsShape
  <1>8. CASE ListFinished(c)
    <2>1. \E r \in RequestRow : Goes(c, r)
      <3>1. PICK ids \in SUBSET Jobs :
                Goes(c, Idle) \/ Goes(c, [pc |-> "items", op |-> "clear", ids |-> ids])
        <4> DEFINE ids == {k \in Present : k <= req[c].job /\ Status(k) # "running"}
        <4>1. ids \in SUBSET Jobs
          BY DEF Present
        <4>2. Goes(c, Idle) \/ Goes(c, [pc |-> "items", op |-> "clear", ids |-> ids])
          BY <1>8 DEF ListFinished
        <4> HIDE DEF ids
        <4> QED BY <4>1, <4>2
      <3>2. [pc |-> "items", op |-> "clear", ids |-> ids] \in RequestRow
        BY DEF RequestRow
      <3> QED BY <3>1, <3>2, IdleShapes
    <2> QED BY <1>1, <1>8, <2>1 DEF ListFinished, TypeOK, tableVars, JobsShape, ItemsShape
  <1>9. CASE ClearItems(c)
    <2> DEFINE r == [req[c] EXCEPT !.pc = "jobs"]
    <2>1. r \in RequestRow
      <3>1. req[c].pc = "items"
        BY <1>9 DEF ClearItems
      <3> QED BY <1>0, <3>1 DEF RequestRow
    <2>2. Goes(c, r) /\ UNCHANGED <<jobs, used, channels, up, work, loop>>
      BY <1>9 DEF ClearItems
    <2>3. ItemsShape'
      BY <1>9, EmptyTable DEF ClearItems, TypeOK, ItemsShape
    <2> HIDE DEF r
    <2> QED BY <1>1, <2>1, <2>2, <2>3 DEF TypeOK, JobsShape
  <1>10. CASE ClearJobs(c)
    <2>1. ItemsShape'
      BY <1>10, EmptyTable DEF ClearJobs, TypeOK, ItemsShape
    <2>2. JobsShape'
      BY <1>10 DEF ClearJobs, TypeOK, JobsShape
    <2> QED BY <1>1, <1>10, <2>1, <2>2, IdleShapes DEF ClearJobs, TypeOK
  <1> QED BY <1>2, <1>3, <1>4, <1>5, <1>6, <1>7, <1>8, <1>9, <1>10 DEF Request

LEMMA FollowingShape ==
    ASSUME NEW j \in Jobs, NEW todo \in SUBSET Links
    PROVE  Following(j, todo) \in RunRow
  BY DEF Following, RunRow

LEMMA JobUpdate ==
    ASSUME TypeOK, NEW j \in Jobs, NEW row,
           jobs[j] \in JobRow => row \in JobRow,
           jobs' = IF jobs[j] = NoRow THEN jobs ELSE [jobs EXCEPT ![j] = row]
    PROVE  /\ JobsShape'
           /\ \A k \in Jobs : k # j => jobs'[k] = jobs[k]
           /\ jobs'[j] = IF jobs[j] = NoRow THEN NoRow ELSE row
  <1>1. CASE jobs[j] = NoRow
    BY <1>1 DEF TypeOK, JobsShape
  <1>2. CASE jobs[j] # NoRow
    <2>1. row \in JobRow
      BY <1>2 DEF TypeOK, JobsShape
    <2> QED BY <1>2, <2>1 DEF TypeOK, JobsShape
  <1> QED BY <1>1, <1>2

LEMMA WorkerShape ==
    ASSUME TypeOK, NEW w \in Workers, Worker(w)
    PROVE  TypeOK'
  <1>0. work[w] \in RunRow
    BY DEF TypeOK
  <1>1. ASSUME NEW r \in RunRow, WorkGoes(w, r)
        PROVE  /\ work' \in [Workers -> RunRow]
               /\ UNCHANGED <<used, channels, up, req, loop>>
    BY <1>1 DEF WorkGoes, TypeOK
  <1>2. work[w].pc # "idle" /\ work[w].job \in Jobs
    <2>1. work[w].pc # "idle"
      BY DEF Worker, ListLines, LookAtLink, NoteResult, CountLeft, SaveProgress, CountForStatus,
             CountForProgress, Close, Throws, Catch
    <2> QED BY <1>0, <2>1 DEF RunRow
  <1>3. CASE ListLines(w)
    BY <1>1, <1>2, <1>3, LeftIsFinite, FollowingShape DEF ListLines, TypeOK, JobsShape, ItemsShape
  <1>4. CASE LookAtLink(w)
    <2>1. PICK l \in work[w].todo, verdict \in Verdicts :
              WorkGoes(w, [pc |-> "note", job |-> work[w].job, todo |-> work[w].todo \ {l},
                           line |-> l, verdict |-> verdict])
      BY <1>4 DEF LookAtLink, Verdicts
    <2>2. work[w].todo \in SUBSET Links
      BY <1>0, <1>4 DEF LookAtLink, RunRow
    <2>3. [pc |-> "note", job |-> work[w].job, todo |-> work[w].todo \ {l},
           line |-> l, verdict |-> verdict] \in RunRow
      BY <1>2, <2>2 DEF RunRow
    <2> QED BY <1>1, <1>4, <2>1, <2>3 DEF LookAtLink, TypeOK, JobsShape, ItemsShape
  <1>5. CASE NoteResult(w)
    <2> DEFINE q == work[w]
               new == [result |-> q.verdict,
                       registered |-> items[q.job][q.line].registered \/ q.verdict = "already"]
    <2>1. q.todo \in SUBSET Links /\ q.line \in Links /\ q.verdict \in Verdicts
      BY <1>0, <1>5 DEF NoteResult, RunRow
    <2>2. [pc |-> "count", job |-> q.job, todo |-> q.todo] \in RunRow
      BY <1>2, <2>1 DEF RunRow
    <2>3. new \in Item
      BY <2>1 DEF Item
    <2>4. /\ items' = IF q.line \notin DOMAIN items[q.job] THEN items
                      ELSE [items EXCEPT ![q.job][q.line] = new]
          /\ WorkGoes(w, [pc |-> "count", job |-> q.job, todo |-> q.todo])
          /\ UNCHANGED jobs
      BY <1>5 DEF NoteResult
    <2>5. ItemsShape'
      BY <1>2, <2>1, <2>3, <2>4 DEF TypeOK, ItemsShape, LineTable
    <2> QED BY <1>1, <2>2, <2>4, <2>5 DEF TypeOK, JobsShape
  <1>6. CASE CountLeft(w)
    <2>1. work[w].todo \in SUBSET Links
      BY <1>0, <1>6 DEF CountLeft, RunRow
    <2>2. [pc |-> "progress", job |-> work[w].job, todo |-> work[w].todo,
           left |-> Cardinality(Left(work[w].job))] \in RunRow
      BY <1>2, <2>1, LeftIsFinite DEF RunRow
    <2> QED BY <1>1, <1>6, <2>2 DEF CountLeft, TypeOK, JobsShape, ItemsShape
  <1>7. CASE SaveProgress(w)
    <2> DEFINE q == work[w]
               row == [jobs[q.job] EXCEPT !.processed = jobs[q.job].total - q.left]
    <2>1. q.todo \in SUBSET Links /\ q.left \in Nat
      BY <1>0, <1>7 DEF SaveProgress, RunRow
    <2>2. jobs[q.job] \in JobRow => row \in JobRow
      BY <2>1 DEF JobRow
    <2>3. /\ jobs' = IF jobs[q.job] = NoRow THEN jobs ELSE [jobs EXCEPT ![q.job] = row]
          /\ WorkGoes(w, Following(q.job, q.todo)) /\ UNCHANGED items
      BY <1>7 DEF SaveProgress
    <2>4. JobsShape'
      <3> HIDE DEF row
      <3> QED BY <1>2, <2>2, <2>3, JobUpdate
    <2> QED BY <1>1, <1>2, <2>1, <2>3, <2>4, FollowingShape DEF TypeOK, ItemsShape
  <1>8. CASE CountForStatus(w)
    <2>1. \E s \in Ends : WorkGoes(w, [pc |-> "recount", job |-> work[w].job, status |-> s])
      BY <1>8 DEF CountForStatus, Ends
    <2>2. \A s \in Ends : [pc |-> "recount", job |-> work[w].job, status |-> s] \in RunRow
      BY <1>2 DEF RunRow
    <2> QED BY <1>1, <1>8, <2>1, <2>2 DEF CountForStatus, TypeOK, JobsShape, ItemsShape
  <1>9. CASE CountForProgress(w)
    <2>1. work[w].status \in Ends
      BY <1>0, <1>9 DEF CountForProgress, RunRow
    <2>2. [pc |-> "close", job |-> work[w].job, status |-> work[w].status,
           left |-> Cardinality(Left(work[w].job))] \in RunRow
      BY <1>2, <2>1, LeftIsFinite DEF RunRow
    <2> QED BY <1>1, <1>9, <2>2 DEF CountForProgress, TypeOK, JobsShape, ItemsShape
  <1>10. CASE Close(w)
    <2> DEFINE q == work[w]
               row == Closed(jobs[q.job], q)
    <2>1. q.status \in Ends /\ q.left \in Nat
      BY <1>0, <1>10 DEF Close, RunRow
    <2>2. jobs[q.job] \in JobRow => row \in JobRow
      <3>1. \A old \in JobRow, s \in Ends, n \in Int :
                [old EXCEPT !.status = s, !.processed = n] \in JobRow
        BY DEF JobRow
      <3>2. jobs[q.job] \in JobRow => jobs[q.job].total - q.left \in Int
        BY <2>1 DEF JobRow
      <3> QED BY <2>1, <3>1, <3>2 DEF Closed
    <2>3. /\ jobs' = IF jobs[q.job] = NoRow THEN jobs ELSE [jobs EXCEPT ![q.job] = row]
          /\ WorkGoes(w, Idle) /\ UNCHANGED items
      BY <1>10 DEF Close
    <2>4. JobsShape'
      <3> HIDE DEF row
      <3> QED BY <1>2, <2>2, <2>3, JobUpdate
    <2> QED BY <1>1, <2>3, <2>4, IdleShapes DEF TypeOK, ItemsShape
  <1>11. CASE Throws(w)
    <2>1. [pc |-> "catch", job |-> work[w].job] \in RunRow
      BY <1>2 DEF RunRow
    <2> QED BY <1>1, <1>11, <2>1 DEF Throws, TypeOK, JobsShape, ItemsShape
  <1>12. CASE Catch(w)
    <2> DEFINE q == work[w]
               row == Interrupted(jobs[q.job])
    <2>2. jobs[q.job] \in JobRow => row \in JobRow
      BY DEF JobRow, Interrupted, Ends
    <2>3. /\ jobs' = IF jobs[q.job] = NoRow THEN jobs ELSE [jobs EXCEPT ![q.job] = row]
          /\ WorkGoes(w, Idle) /\ UNCHANGED items
      BY <1>12 DEF Catch
    <2>4. JobsShape'
      <3> HIDE DEF row
      <3> QED BY <1>2, <2>2, <2>3, JobUpdate
    <2> QED BY <1>1, <2>3, <2>4, IdleShapes DEF TypeOK, ItemsShape
  <1> QED BY <1>3, <1>4, <1>5, <1>6, <1>7, <1>8, <1>9, <1>10, <1>11, <1>12 DEF Worker

LEMMA MarkedShape ==
    ASSUME TypeOK, NEW p \in Loops, loop[p].pc \in {"known", "mark"}, NEW known \in BOOLEAN,
           items' = Marked(p, known)
    PROVE  ItemsShape'
  <1> DEFINE j == loop[p].job
             l == loop[p].line
             new == [result |-> IF known THEN "already" ELSE items[j][l].result, registered |-> TRUE]
  <1>1. loop[p] \in LoopRow
    BY DEF TypeOK
  <1>2. j \in Jobs /\ l \in Links
    BY <1>1 DEF LoopRow
  <1>3. items' = IF l \notin DOMAIN items[j] THEN items ELSE [items EXCEPT ![j][l] = new]
    BY DEF Marked
  <1>4. l \in DOMAIN items[j] => new \in Item
    <2>1. l \in DOMAIN items[j] => items[j][l] \in Item
      BY <1>2 DEF TypeOK, ItemsShape, LineTable
    <2> QED BY <2>1 DEF Item, Verdicts
  <1> HIDE DEF new
  <1> QED BY <1>2, <1>3, <1>4 DEF TypeOK, ItemsShape, LineTable

LEMMA RegisterShape ==
    ASSUME TypeOK, NEW p \in Loops, Register(p)
    PROVE  TypeOK'
  <1>0. loop[p] \in LoopRow
    BY DEF TypeOK
  <1>1. ASSUME NEW r \in LoopRow, LoopGoes(p, r)
        PROVE  /\ loop' \in [Loops -> LoopRow]
               /\ UNCHANGED <<jobs, used, up, req, work>>
    BY <1>1 DEF LoopGoes, TypeOK
  <1>2. \A todo \in SUBSET (Jobs \X Links) : NextItem(todo) \in LoopRow
    BY DEF NextItem, LoopRow, Idle
  <1>3. CASE ReadItem(p)
    <2>1. PICK i \in loop[p].todo :
            LET rest == loop[p].todo \ {i}
            IN  \/ LoopGoes(p, NextItem(rest))
                \/ LoopGoes(p, [pc |-> "look", todo |-> rest, job |-> i[1], line |-> i[2]])
      BY <1>3 DEF ReadItem
    <2>2. loop[p].todo \in SUBSET (Jobs \X Links)
      BY <1>0, <1>3 DEF ReadItem, LoopRow
    <2>3. [pc |-> "look", todo |-> loop[p].todo \ {i}, job |-> i[1], line |-> i[2]] \in LoopRow
      BY <2>2 DEF LoopRow
    <2>4. loop[p].todo \ {i} \in SUBSET (Jobs \X Links)
      BY <2>2
    <2> QED BY <1>1, <1>2, <1>3, <2>1, <2>3, <2>4 DEF ReadItem, TypeOK, JobsShape, ItemsShape
  <1>4. CASE ~ReadItem(p)
    <2>1. loop[p].pc \in {"look", "known", "search", "save", "mark"}
      BY <1>0, <1>4 DEF Register, FindExisting, NoteKnown, SearchAgain, SaveChannel, MarkItem,
                        RegisterFails, LoopRow
    <2>2. /\ loop[p].todo \in SUBSET (Jobs \X Links) /\ loop[p].line \in Links
          /\ \A pc \in {"known", "search", "save", "mark"} : [loop[p] EXCEPT !.pc = pc] \in LoopRow
      BY <1>0, <2>1 DEF LoopRow
    <2>3. \E r \in LoopRow : LoopGoes(p, r)
      <3>1. \/ LoopGoes(p, NextItem(loop[p].todo))
            \/ \E pc \in {"known", "search", "save", "mark"} : LoopGoes(p, [loop[p] EXCEPT !.pc = pc])
        BY <1>4 DEF Register, FindExisting, NoteKnown, SearchAgain, SaveChannel, MarkItem,
                    RegisterFails
      <3> QED BY <1>2, <2>2, <3>1
    <2>4. channels' \in [Links -> Nat]
      <3>1. CASE SaveChannel(p)
        <4>1. channels[loop[p].line] + 1 \in Nat
          BY <2>2 DEF TypeOK
        <4>2. channels' = [channels EXCEPT ![loop[p].line] = channels[loop[p].line] + 1]
          BY <3>1 DEF SaveChannel
        <4> QED BY <4>1, <4>2 DEF TypeOK
      <3>2. CASE UNCHANGED channels
        BY <3>2 DEF TypeOK
      <3> QED BY <1>4, <3>1, <3>2
              DEF Register, FindExisting, NoteKnown, SearchAgain, MarkItem, RegisterFails
    <2>5. ItemsShape'
      <3>1. CASE UNCHANGED items
        BY <3>1 DEF TypeOK, ItemsShape
      <3>2. CASE NoteKnown(p) \/ MarkItem(p)
        BY <3>2, MarkedShape DEF NoteKnown, MarkItem
      <3> QED BY <1>4, <3>1, <3>2 DEF Register, FindExisting, SearchAgain, SaveChannel, RegisterFails
    <2> QED BY <1>1, <2>3, <2>4, <2>5 DEF TypeOK, JobsShape
  <1> QED BY <1>3, <1>4

LEMMA BesideShape ==
    ASSUME TypeOK, \/ StartRegister \/ RegisterMany \/ Elsewhere \/ WeekPasses
                   \/ Crash \/ BootMarks \/ BootEnds
    PROVE  TypeOK'
  <1>1. ASSUME NEW p \in Loops, NEW chosen \in SUBSET Good, BeginLoop(p, chosen) PROVE TypeOK'
    <2>1. chosen \in SUBSET (Jobs \X Links)
      BY DEF Good, Items
    <2>2. [pc |-> "item", todo |-> chosen] \in LoopRow
      BY <2>1 DEF LoopRow
    <2>3. loop' \in [Loops -> LoopRow]
      BY <1>1, <2>2 DEF BeginLoop, TypeOK
    <2> QED BY <1>1, <2>3 DEF BeginLoop, TypeOK, tableVars, JobsShape, ItemsShape
  <1>2. CASE StartRegister
    BY <1>1, <1>2 DEF StartRegister, Loops
  <1>3. CASE RegisterMany
    <2>1. Client \in Loops
      BY <1>3 DEF RegisterMany, Client, Free, Loops
    <2> HIDE DEF Client
    <2> QED BY <1>1, <1>3, <2>1 DEF RegisterMany
  <1>4. CASE Elsewhere
    BY <1>4 DEF Elsewhere, TypeOK, memoryVars, JobsShape, ItemsShape
  <1>5. CASE WeekPasses
    <2>1. \A j \in Jobs : jobs[j] # NoRow => [jobs[j] EXCEPT !.old = TRUE] \in JobRow
      BY DEF TypeOK, JobsShape, JobRow
    <2>2. JobsShape'
      BY <1>5, <2>1 DEF WeekPasses, JobsShape
    <2> QED BY <1>5, <2>2 DEF WeekPasses, TypeOK, memoryVars, ItemsShape
  <1>6. CASE Crash
    <2>1. /\ req' \in [Clients -> RequestRow] /\ work' \in [Workers -> RunRow]
          /\ loop' \in [Loops -> LoopRow]
      BY <1>6, IdleShapes DEF Crash
    <2> QED BY <1>6, <2>1 DEF Crash, TypeOK, tableVars, JobsShape, ItemsShape
  <1>7. CASE BootMarks
    <2>1. PICK j \in Present : Status(j) = "running" /\ jobs' = [jobs EXCEPT ![j] = Interrupted(jobs[j])]
      BY <1>7 DEF BootMarks
    <2>2. Interrupted(jobs[j]) \in JobRow /\ j \in Jobs
      BY DEF Present, TypeOK, JobsShape, JobRow, Interrupted, Ends
    <2>3. JobsShape'
      BY <2>1, <2>2 DEF TypeOK, JobsShape
    <2> QED BY <1>7, <2>3 DEF BootMarks, TypeOK, memoryVars, ItemsShape
  <1>8. CASE BootEnds
    BY <1>8, PrunedShape DEF BootEnds, TypeOK, JobsShape, ItemsShape
  <1> QED BY <1>2, <1>3, <1>4, <1>5, <1>6, <1>7, <1>8

LEMMA NextShape == TypeOK /\ [Next]_vars => TypeOK'
  <1> SUFFICES ASSUME TypeOK, [Next]_vars PROVE TypeOK'
    OBVIOUS
  <1>1. CASE BeginStart
    <2>1. \A text \in Texts : [pc |-> "count", op |-> "start", text |-> text] \in RequestRow
      BY TextsAreLines DEF RequestRow
    <2> QED BY <1>1, <2>1, BeginShape DEF BeginStart
  <1>2. CASE BeginResume \/ BeginClear
    <2>1. \A j \in Present : /\ [pc |-> "count", op |-> "resume", job |-> j] \in RequestRow
                             /\ [pc |-> "list", op |-> "clear", job |-> j] \in RequestRow
      BY DEF RequestRow, Present
    <2> QED BY <1>2, <2>1, BeginShape DEF BeginResume, BeginClear
  <1>3. CASE UNCHANGED vars
    BY <1>3 DEF vars, tableVars, memoryVars, TypeOK, JobsShape, ItemsShape
  <1> QED BY <1>1, <1>2, <1>3, RequestShape, WorkerShape, RegisterShape, BesideShape DEF Next

\* The tables of the inspection and what the server has in memory keep their shape over
\* every request, run, registration, failure and restart.
THEOREM InspectTypeCorrect == Spec => []TypeOK
  <1>1. ASSUME Init PROVE TypeOK
    <2>1. /\ jobs \in [Jobs -> JobRow \cup {NoRow}] /\ channels \in [Links -> Nat]
          /\ req \in [Clients -> RequestRow] /\ work \in [Workers -> RunRow]
          /\ loop \in [Loops -> LoopRow]
      BY <1>1, IdleShapes DEF Init
    <2>2. ItemsShape
      BY <1>1, EmptyTable DEF Init, ItemsShape
    <2>3. up \in BOOLEAN /\ used \in 0..MaxJobs
      BY <1>1, JobsAreNumbers DEF Init
    <2> QED BY <2>1, <2>2, <2>3 DEF TypeOK, JobsShape
  <1> QED BY <1>1, NextShape, PTL DEF Spec

-----------------------------------------------------------------------------
(* No second row *)

\* A registration that is to save a link found none of its rows, unless it was crossed by
\* another since; one that is to note its item, and a run that found the link known, saw
\* a row; and an item shown as registered has one.
Once == \A l \in Links : channels[l] > 1 => l \in crossed
Sought ==
    \A p \in Loops :
        /\ loop[p].pc = "save" => channels[loop[p].line] = 0 \/ loop[p].line \in crossed
        /\ loop[p].pc \in {"known", "mark"} => channels[loop[p].line] > 0
Noted ==
    \A w \in Workers :
        work[w].pc = "note" /\ work[w].verdict = "already" => channels[work[w].line] > 0
Shown == \A i \in Items : items[i[1]][i[2]].registered => channels[i[2]] > 0
RowsKnown == Once /\ Sought /\ Noted /\ Shown

\* Rows of channels are only added, and a crossed link stays known as such.
LEMMA RowsGrow ==
    ASSUME TypeOK, [Next]_vars, NEW l \in Links
    PROVE  channels'[l] >= channels[l] /\ (l \in crossed => l \in crossed')
  <1>1. ASSUME NEW p \in Loops, SaveChannel(p)
        PROVE  channels'[l] >= channels[l] /\ (l \in crossed => l \in crossed')
    BY <1>1 DEF TypeOK, SaveChannel
  <1>2. CASE Elsewhere
    BY <1>2 DEF TypeOK, Elsewhere
  <1>3. CASE UNCHANGED <<channels, crossed>>
    BY <1>3 DEF TypeOK
  <1>4. ASSUME NEW c \in Clients, Request(c) PROVE UNCHANGED <<channels, crossed>>
    BY <1>4 DEF Request, CountRunning, InsertJob, InsertLines, LinesFail, FindInterrupted, Reopen,
                ListFinished, ClearItems, ClearJobs, tableVars, historyVars
  <1>5. ASSUME NEW w \in Workers, Worker(w) PROVE UNCHANGED <<channels, crossed>>
    BY <1>5 DEF Worker, ListLines, LookAtLink, NoteResult, CountLeft, SaveProgress, CountForStatus,
                CountForProgress, Close, Throws, Catch, WorkGoes, historyVars
  <1>6. ASSUME NEW p \in Loops, Register(p), ~SaveChannel(p) PROVE UNCHANGED <<channels, crossed>>
    BY <1>6 DEF Register, ReadItem, FindExisting, NoteKnown, SearchAgain, MarkItem, RegisterFails
  <1>7. ASSUME \/ BeginStart \/ BeginResume \/ BeginClear \/ StartRegister \/ RegisterMany
               \/ WeekPasses \/ Crash \/ BootMarks \/ BootEnds \/ UNCHANGED vars
        PROVE  UNCHANGED <<channels, crossed>>
    BY <1>7 DEF BeginStart, BeginResume, BeginClear, Begin, StartRegister, RegisterMany, BeginLoop,
                WeekPasses, Crash, BootMarks, BootEnds, vars, tableVars, historyVars
  <1> QED BY <1>1, <1>2, <1>3, <1>4, <1>5, <1>6, <1>7 DEF Next

\* An item becomes registered when a run noted it as known or a registration marks it.
LEMMA RegisteredSteps ==
    ASSUME TypeOK, [Next]_vars, NEW j \in Jobs, NEW l \in Links,
           l \in DOMAIN items'[j], items'[j][l].registered
    PROVE  \/ l \in DOMAIN items[j] /\ items[j][l].registered
           \/ \E w \in Workers : /\ work[w].pc = "note" /\ work[w].verdict = "already"
                                 /\ work[w].line = l
           \/ \E p \in Loops : loop[p].pc \in {"known", "mark"} /\ loop[p].line = l
  <1> DEFINE Was == l \in DOMAIN items[j] /\ items[j][l].registered
  <1>1. ASSUME items'[j] = items[j] \/ items'[j] = <<>> PROVE Was
    <2>1. items'[j] # <<>>
      BY EmptyTable
    <2> QED BY <1>1, <2>1
  <1>2. ASSUME NEW c \in Clients, Request(c) PROVE Was
    <2>1. CASE InsertJob(c)
      <3>1. items'[j] \in {items[j], <<>>}
        BY <2>1, PrunedShape DEF InsertJob
      <3> QED BY <1>1, <3>1
    <2>2. CASE InsertLines(c)
      <3>1. req[c] \in RequestRow /\ req[c].pc = "lines"
        BY <2>2 DEF TypeOK, InsertLines
      <3>2. req[c].job \in Jobs
        BY <3>1 DEF RequestRow
      <3>3. items' = [items EXCEPT ![req[c].job] = [k \in req[c].text |-> NewLine(k)]]
        BY <2>2 DEF InsertLines
      <3>4. j # req[c].job
        <4>1. ASSUME j = req[c].job PROVE ~items'[j][l].registered
          <5>1. items'[j] = [k \in req[c].text |-> NewLine(k)]
            BY <3>2, <3>3, <4>1 DEF TypeOK, ItemsShape
          <5>2. items'[j][l] = NewLine(l)
            BY <5>1
          <5> QED BY <5>2 DEF NewLine
        <4> QED BY <4>1
      <3> QED BY <1>1, <3>2, <3>3, <3>4 DEF TypeOK, ItemsShape
    <2>3. CASE ClearItems(c) \/ ClearJobs(c)
      BY <1>1, <2>3 DEF ClearItems, ClearJobs
    <2>4. CASE UNCHANGED items
      BY <1>1, <2>4
    <2> QED BY <1>2, <2>1, <2>2, <2>3, <2>4
            DEF Request, CountRunning, LinesFail, FindInterrupted, Reopen, ListFinished, tableVars
  <1>3. ASSUME NEW w \in Workers, Worker(w)
        PROVE  Was \/ (work[w].pc = "note" /\ work[w].verdict = "already" /\ work[w].line = l)
    <2>1. CASE NoteResult(w)
      <3> DEFINE q == work[w]
                 new == [result |-> q.verdict,
                         registered |-> items[q.job][q.line].registered \/ q.verdict = "already"]
      <3>1. /\ items' = IF q.line \notin DOMAIN items[q.job] THEN items
                        ELSE [items EXCEPT ![q.job][q.line] = new]
            /\ q.pc = "note" /\ q \in RunRow
        BY <2>1 DEF NoteResult, TypeOK
      <3>2. q.job \in Jobs
        BY <3>1 DEF RunRow
      <3>3. new.registered => items[q.job][q.line].registered \/ q.verdict = "already"
        OBVIOUS
      <3> HIDE DEF new, q
      <3>4. CASE q.line \notin DOMAIN items[q.job]
        BY <1>1, <3>1, <3>4
      <3>5. CASE q.line \in DOMAIN items[q.job]
        <4>1. items'[q.job] = [items[q.job] EXCEPT ![q.line] = new]
          BY <3>1, <3>2, <3>5 DEF TypeOK, ItemsShape
        <4>2. \A k \in Jobs : k # q.job => items'[k] = items[k]
          BY <3>1, <3>2, <3>5 DEF TypeOK, ItemsShape
        <4>3. CASE j = q.job /\ l = q.line
          <5>1. items'[j][l] = new
            BY <3>5, <4>1, <4>3
          <5> QED BY <3>1, <3>3, <3>5, <4>3, <5>1 DEF q
        <4>4. CASE j = q.job /\ l # q.line
          <5>1. DOMAIN items'[j] = DOMAIN items[j] /\ items'[j][l] = items[j][l]
            BY <4>1, <4>4
          <5> QED BY <5>1
        <4>5. CASE j # q.job
          BY <1>1, <4>2, <4>5
        <4> QED BY <4>3, <4>4, <4>5
      <3> QED BY <3>4, <3>5
    <2>2. CASE UNCHANGED items
      BY <1>1, <2>2
    <2> QED BY <1>3, <2>1, <2>2
            DEF Worker, ListLines, LookAtLink, CountLeft, SaveProgress, CountForStatus,
                CountForProgress, Close, Throws, Catch
  <1>4. ASSUME NEW p \in Loops, Register(p)
        PROVE  Was \/ (loop[p].pc \in {"known", "mark"} /\ loop[p].line = l)
    <2>1. CASE NoteKnown(p) \/ MarkItem(p)
      <3>1. loop[p].pc \in {"known", "mark"} /\ loop[p] \in LoopRow
        BY <2>1 DEF NoteKnown, MarkItem, TypeOK
      <3>2. loop[p].job \in Jobs
        BY <3>1 DEF LoopRow
      <3>3. CASE loop[p].line # l
        <4>1. \E new : items' \in {items, [items EXCEPT ![loop[p].job][loop[p].line] = new]}
          BY <2>1 DEF NoteKnown, MarkItem, Marked
        <4>2. PICK new : items' \in {items, [items EXCEPT ![loop[p].job][loop[p].line] = new]}
          BY <4>1
        <4>3. CASE items' = items
          BY <1>1, <4>3
        <4>4. CASE items' = [items EXCEPT ![loop[p].job][loop[p].line] = new]
          <5>1. CASE j = loop[p].job
            <6>1. items'[j] = [items[j] EXCEPT ![loop[p].line] = new]
              BY <3>2, <4>4, <5>1 DEF TypeOK, ItemsShape
            <6>2. DOMAIN items'[j] = DOMAIN items[j] /\ items'[j][l] = items[j][l]
              BY <3>3, <6>1
            <6> QED BY <6>2
          <5>2. CASE j # loop[p].job
            BY <1>1, <4>4, <5>2 DEF TypeOK, ItemsShape
          <5> QED BY <5>1, <5>2
        <4> QED BY <4>2, <4>3, <4>4
      <3> QED BY <3>1, <3>3
    <2>2. CASE UNCHANGED items
      BY <1>1, <2>2
    <2> QED BY <1>4, <2>1, <2>2
            DEF Register, ReadItem, FindExisting, SearchAgain, SaveChannel, RegisterFails
  <1>5. ASSUME BootEnds PROVE Was
    <2>1. items'[j] \in {items[j], <<>>}
      BY <1>5, PrunedShape DEF BootEnds
    <2> QED BY <1>1, <2>1
  <1>6. ASSUME \/ BeginStart \/ BeginResume \/ BeginClear \/ StartRegister \/ RegisterMany \/ Elsewhere
               \/ WeekPasses \/ Crash \/ BootMarks \/ UNCHANGED vars
        PROVE  Was
    BY <1>1, <1>6 DEF BeginStart, BeginResume, BeginClear, Begin, StartRegister, RegisterMany,
                      BeginLoop, Elsewhere, WeekPasses, Crash, BootMarks, vars, tableVars
  <1> QED BY <1>2, <1>3, <1>4, <1>5, <1>6 DEF Next

LEMMA ShownStays ==
    ASSUME TypeOK, TypeOK', RowsKnown, [Next]_vars
    PROVE  Shown'
  <1> SUFFICES ASSUME NEW i \in Items', items'[i[1]][i[2]].registered
               PROVE  channels'[i[2]] > 0
    BY DEF Shown
  <1>1. i[1] \in Jobs /\ i[2] \in Links /\ i[2] \in DOMAIN items'[i[1]]
    BY DEF Items
  <1>2. channels[i[2]] > 0
    <2>1. CASE i[2] \in DOMAIN items[i[1]] /\ items[i[1]][i[2]].registered
      <3>1. i \in Items
        BY <1>1, <2>1 DEF Items
      <3> QED BY <2>1, <3>1 DEF RowsKnown, Shown
    <2>2. CASE ~(i[2] \in DOMAIN items[i[1]] /\ items[i[1]][i[2]].registered)
      BY <1>1, <2>2, RegisteredSteps DEF RowsKnown, Noted, Sought
    <2> QED BY <2>1, <2>2
  <1>3. channels'[i[2]] >= channels[i[2]] /\ channels[i[2]] \in Nat /\ channels'[i[2]] \in Nat
    BY <1>1, RowsGrow DEF TypeOK
  <1> QED BY <1>2, <1>3

\* What a run or a registration saw of a link it goes on with stays true.
LEMMA NotedStays ==
    ASSUME TypeOK, TypeOK', RowsKnown, [Next]_vars
    PROVE  Noted'
  <1> SUFFICES ASSUME NEW w \in Workers, work'[w].pc = "note", work'[w].verdict = "already"
               PROVE  channels'[work'[w].line] > 0
    BY DEF Noted
  <1>1. work'[w].line \in Links
    BY DEF TypeOK, RunRow
  <1>2. channels[work'[w].line] > 0
    <2>1. CASE work'[w] = work[w]
      BY <2>1 DEF RowsKnown, Noted
    <2>2. CASE work'[w] # work[w]
      <3>1. ASSUME NEW v \in Workers, Worker(v) PROVE channels[work'[w].line] > 0
        <4>1. ASSUME NEW r, WorkGoes(v, r) PROVE v = w /\ work'[w] = r
          BY <2>2, <4>1 DEF WorkGoes, TypeOK
        <4>2. CASE LookAtLink(v)
          BY <4>1, <4>2 DEF LookAtLink
        <4>3. CASE ~LookAtLink(v)
          BY <3>1, <4>1, <4>3
             DEF Worker, ListLines, NoteResult, CountLeft, SaveProgress, CountForStatus,
                 CountForProgress, Close, Throws, Catch, Following, Idle
        <4> QED BY <4>2, <4>3
      <3>2. ASSUME NEW j, RunJob(j) PROVE FALSE
        <4>1. work'[w] = [pc |-> "list", job |-> j]
          BY <2>2, <3>2 DEF RunJob, TypeOK
        <4> QED BY <4>1
      <3>3. ASSUME NEW c \in Clients, Request(c) PROVE FALSE
        BY <2>2, <3>2, <3>3 DEF Request, CountRunning, InsertJob, InsertLines, LinesFail,
                    FindInterrupted, Reopen, ListFinished, ClearItems, ClearJobs
      <3>4. ASSUME NEW p \in Loops, Register(p) PROVE FALSE
        BY <2>2, <3>4 DEF Register, ReadItem, FindExisting, NoteKnown, SearchAgain, SaveChannel,
                    MarkItem, RegisterFails, LoopGoes
      <3>5. ASSUME Crash PROVE FALSE
        BY <3>5 DEF Crash, Idle
      <3> QED BY <2>2, <3>1, <3>3, <3>4, <3>5
              DEF Next, BeginStart, BeginResume, BeginClear, Begin, StartRegister, RegisterMany,
                  BeginLoop, Elsewhere, WeekPasses, BootMarks, BootEnds, vars, memoryVars
    <2> QED BY <2>1, <2>2
  <1>3. /\ channels'[work'[w].line] >= channels[work'[w].line]
        /\ channels[work'[w].line] \in Nat /\ channels'[work'[w].line] \in Nat
    BY <1>1, RowsGrow DEF TypeOK
  <1> QED BY <1>2, <1>3

LEMMA SoughtStays ==
    ASSUME TypeOK, TypeOK', RowsKnown, [Next]_vars
    PROVE  Sought'
  <1> SUFFICES ASSUME NEW p \in Loops, loop'[p].pc \in {"save", "known", "mark"}
               PROVE  /\ loop'[p].pc = "save" => \/ channels'[loop'[p].line] = 0
                                                 \/ loop'[p].line \in crossed'
                      /\ loop'[p].pc \in {"known", "mark"} => channels'[loop'[p].line] > 0
    BY DEF Sought
  <1> DEFINE l == loop'[p].line
  <1>1. l \in Links
    BY DEF TypeOK, LoopRow
  <1>2. /\ channels'[l] >= channels[l] /\ channels[l] \in Nat /\ channels'[l] \in Nat
        /\ l \in crossed => l \in crossed'
    BY <1>1, RowsGrow DEF TypeOK
  <1>3. CASE loop'[p] = loop[p]
    <2>1. CASE loop[p].pc = "save"
      <3>1. p \in Saving(l)
        BY <1>3, <2>1 DEF Saving
      <3>2. channels[l] = 0 \/ l \in crossed
        BY <1>3, <2>1 DEF RowsKnown, Sought
      <3>3. channels'[l] = channels[l] \/ l \in crossed'
        <4>1. ASSUME NEW q \in Loops, SaveChannel(q) PROVE channels'[l] = channels[l] \/ l \in crossed'
          <5>1. CASE loop[q].line = l
            <6>1. q # p
              <7>1. loop[q].pc = "save" /\ loop[q] \in LoopRow /\ loop'[q] = [loop[q] EXCEPT !.pc = "mark"]
                BY <4>1 DEF SaveChannel, LoopGoes, TypeOK
              <7>2. loop'[q].pc = "mark"
                BY <7>1 DEF LoopRow
              <7> QED BY <1>3, <2>1, <7>2
            <6>2. Saving(l) # {q}
              BY <3>1, <6>1
            <6> QED BY <4>1, <5>1, <6>2 DEF SaveChannel
          <5>2. CASE loop[q].line # l
            BY <1>1, <4>1, <5>2 DEF SaveChannel, TypeOK
          <5> QED BY <5>1, <5>2
        <4>2. ASSUME Elsewhere PROVE channels'[l] = channels[l] \/ l \in crossed'
          <5>1. Saving(l) # {}
            BY <3>1
          <5> QED BY <1>1, <4>2, <5>1 DEF Elsewhere, TypeOK
        <4>3. ASSUME NEW c \in Clients, Request(c) PROVE UNCHANGED channels
          BY <4>3 DEF Request, CountRunning, InsertJob, InsertLines, LinesFail, FindInterrupted, Reopen,
                      ListFinished, ClearItems, ClearJobs, tableVars
        <4>4. ASSUME NEW w \in Workers, Worker(w) PROVE UNCHANGED channels
          BY <4>4 DEF Worker, ListLines, LookAtLink, NoteResult, CountLeft, SaveProgress, CountForStatus,
                      CountForProgress, Close, Throws, Catch, WorkGoes
        <4>5. ASSUME NEW q \in Loops, Register(q), ~SaveChannel(q) PROVE UNCHANGED channels
          BY <4>5 DEF Register, ReadItem, FindExisting, NoteKnown, SearchAgain, MarkItem, RegisterFails
        <4> QED BY <4>1, <4>2, <4>3, <4>4, <4>5
                DEF Next, BeginStart, BeginResume, BeginClear, Begin, StartRegister, RegisterMany,
                    BeginLoop, WeekPasses, Crash, BootMarks, BootEnds, vars, tableVars
      <3> QED BY <1>2, <1>3, <2>1, <3>2, <3>3
    <2>2. CASE loop[p].pc \in {"known", "mark"}
      BY <1>2, <1>3, <2>2 DEF RowsKnown, Sought
    <2> QED BY <1>3, <2>1, <2>2
  <1>4. CASE loop'[p] # loop[p]
    <2>1. PICK q \in Loops : Register(q)
      <3>1. ASSUME NEW chosen, NEW q, BeginLoop(q, chosen) PROVE FALSE
        BY <1>4, <3>1 DEF BeginLoop, TypeOK
      <3>2. ~StartRegister /\ ~RegisterMany
        BY <3>1 DEF StartRegister, RegisterMany
      <3>3. ~Crash
        BY DEF Crash, Idle
      <3>4. ASSUME NEW c \in Clients, Request(c) PROVE FALSE
        BY <1>4, <3>4 DEF Request, CountRunning, InsertJob, InsertLines, LinesFail, FindInterrupted,
                    Reopen, ListFinished, ClearItems, ClearJobs
      <3>5. ASSUME NEW w \in Workers, Worker(w) PROVE FALSE
        BY <1>4, <3>5 DEF Worker, ListLines, LookAtLink, NoteResult, CountLeft, SaveProgress,
                    CountForStatus, CountForProgress, Close, Throws, Catch, WorkGoes
      <3> QED BY <1>4, <3>2, <3>3, <3>4, <3>5
              DEF Next, BeginStart, BeginResume, BeginClear, Begin, Elsewhere, WeekPasses, BootMarks,
                  BootEnds, vars, memoryVars
    <2>2. ASSUME NEW r, LoopGoes(q, r) PROVE q = p /\ loop'[p] = r
      BY <1>4, <2>2 DEF LoopGoes, TypeOK
    <2>3. CASE FindExisting(q)
      <3>1. q = p /\ loop'[p] = [loop[p] EXCEPT !.pc = IF channels[loop[p].line] > 0 THEN "known" ELSE "search"]
        BY <2>2, <2>3 DEF FindExisting
      <3>2. loop[p].pc = "look" /\ loop[p] \in LoopRow
        BY <2>3, <3>1 DEF FindExisting, TypeOK
      <3>3. l = loop[p].line /\ channels[l] > 0
        BY <3>1, <3>2 DEF LoopRow
      <3>4. loop'[p].pc = "known"
        BY <3>1, <3>2, <3>3 DEF LoopRow
      <3> QED BY <1>2, <3>3, <3>4
    <2>4. CASE SearchAgain(q)
      <3>1. q = p /\ loop'[p] = [loop[p] EXCEPT !.pc = "save"] /\ ~Duplicate(loop[p].line)
        <4>1. loop'[p] = NextItem(loop[q].todo) => loop'[p].pc \in {"idle", "item"}
          BY DEF NextItem, Idle
        <4> QED BY <2>2, <2>4, <4>1 DEF SearchAgain
      <3>2. loop[p].pc = "search" /\ loop[p] \in LoopRow
        BY <2>4, <3>1 DEF SearchAgain, TypeOK
      <3>3. l = loop[p].line /\ loop'[p].pc = "save"
        BY <3>1, <3>2 DEF LoopRow
      <3>4. channels[l] = 0 /\ UNCHANGED channels
        BY <1>1, <2>4, <3>1, <3>3 DEF Duplicate, SearchAgain, TypeOK
      <3> QED BY <3>3, <3>4
    <2>5. CASE SaveChannel(q)
      <3>1. q = p /\ loop'[p] = [loop[p] EXCEPT !.pc = "mark"]
        BY <2>2, <2>5 DEF SaveChannel
      <3>2. loop[p].pc = "save" /\ loop[p] \in LoopRow
        BY <2>5, <3>1 DEF SaveChannel, TypeOK
      <3>3. l = loop[p].line /\ loop'[p].pc = "mark"
        BY <3>1, <3>2 DEF LoopRow
      <3>4. channels'[l] = channels[l] + 1
        BY <1>1, <2>5, <3>1, <3>3 DEF SaveChannel, TypeOK
      <3> QED BY <1>2, <3>3, <3>4
    <2>6. CASE ~FindExisting(q) /\ ~SearchAgain(q) /\ ~SaveChannel(q)
      <3>1. ASSUME NEW todo PROVE NextItem(todo).pc \in {"idle", "item"}
        BY DEF NextItem, Idle
      <3>2. CASE ReadItem(q)
        <4>1. \/ \E todo : loop'[p] = NextItem(todo)
              \/ loop'[p].pc = "look"
          BY <2>2, <3>2 DEF ReadItem
        <4> QED BY <3>1, <4>1
      <3>3. CASE NoteKnown(q) \/ MarkItem(q) \/ RegisterFails(q)
        <4>1. \E todo : loop'[p] = NextItem(todo)
          BY <2>2, <3>3 DEF NoteKnown, MarkItem, RegisterFails
        <4> QED BY <3>1, <4>1
      <3> QED BY <2>1, <2>6, <3>2, <3>3 DEF Register
    <2> QED BY <2>3, <2>4, <2>5, <2>6
  <1> QED BY <1>3, <1>4

LEMMA OnceStays ==
    ASSUME TypeOK, TypeOK', RowsKnown, [Next]_vars
    PROVE  Once'
  <1> SUFFICES ASSUME NEW l \in Links, channels'[l] > 1 PROVE l \in crossed'
    BY DEF Once
  <1>1. /\ channels'[l] >= channels[l] /\ channels[l] \in Nat /\ channels'[l] \in Nat
        /\ l \in crossed => l \in crossed'
    BY RowsGrow DEF TypeOK
  <1>2. CASE channels'[l] = channels[l]
    BY <1>1, <1>2 DEF RowsKnown, Once
  <1>3. CASE channels'[l] # channels[l]
    <2>1. ASSUME NEW q \in Loops, SaveChannel(q) PROVE l \in crossed'
      <3>1. loop[q].pc = "save" /\ loop[q].line = l /\ channels'[l] = channels[l] + 1
        BY <1>3, <2>1 DEF SaveChannel, TypeOK
      <3>2. channels[l] = 0 \/ l \in crossed
        BY <3>1 DEF RowsKnown, Sought
      <3> QED BY <1>1, <3>1, <3>2
    <2>2. CASE Elsewhere
      BY <1>3, <2>2 DEF Elsewhere, TypeOK
    <2>3. ASSUME NEW c \in Clients, Request(c) PROVE UNCHANGED channels
      BY <2>3 DEF Request, CountRunning, InsertJob, InsertLines, LinesFail, FindInterrupted, Reopen,
                  ListFinished, ClearItems, ClearJobs, tableVars
    <2>4. ASSUME NEW w \in Workers, Worker(w) PROVE UNCHANGED channels
      BY <2>4 DEF Worker, ListLines, LookAtLink, NoteResult, CountLeft, SaveProgress, CountForStatus,
                  CountForProgress, Close, Throws, Catch, WorkGoes
    <2>5. ASSUME NEW q \in Loops, Register(q), ~SaveChannel(q) PROVE UNCHANGED channels
      BY <2>5 DEF Register, ReadItem, FindExisting, NoteKnown, SearchAgain, MarkItem, RegisterFails
    <2> QED BY <1>3, <2>1, <2>2, <2>3, <2>4, <2>5
            DEF Next, BeginStart, BeginResume, BeginClear, Begin, StartRegister, RegisterMany,
                BeginLoop, WeekPasses, Crash, BootMarks, BootEnds, vars, tableVars
  <1> QED BY <1>2, <1>3

\* createByAdmin and registerOne: in whatever order the server's registration loop,
\* those of requests, members and crashes come, a link gets no second row unless another
\* registration came between its last search and its save, and what is shown as
\* registered has a row.
THEOREM RegistersOnce == Spec => []RegisteredOnce
  <1>1. ASSUME Init PROVE RowsKnown
    <2>1. Items = {}
      BY <1>1, EmptyTable DEF Init, Items
    <2> QED BY <1>1, <2>1 DEF Init, RowsKnown, Once, Sought, Noted, Shown, Idle
  <1>2. ASSUME TypeOK, TypeOK', RowsKnown, [Next]_vars PROVE RowsKnown'
    BY <1>2, OnceStays, SoughtStays, NotedStays, ShownStays DEF RowsKnown
  <1>3. RowsKnown => RegisteredOnce
    BY DEF RowsKnown, Once, Shown, RegisteredOnce
  <1> QED BY <1>1, <1>2, <1>3, InspectTypeCorrect, PTL DEF Spec

-----------------------------------------------------------------------------
(* A completed job is done *)

\* Nobody works on a job yet, and it has no lines.
NotBegun(j) ==
    /\ items[j] = <<>>
    /\ \A w \in Workers : work[w] # Idle => work[w].job # j

\* There is an idle worker for every request that may start one.
RoomKept ==
    /\ IsFiniteSet(Starting)
    /\ Cardinality(Starting) + Cardinality(Working) <= Cardinality(Workers)

\* No number is used twice.
Numbered ==
    /\ \A j \in Jobs : j > used => NotBegun(j)
    /\ \A c \in Clients : req[c].pc \in {"lines", "reopen"} => req[c].job <= used

\* A job whose lines are being inserted is the concern of that request alone.
Awaited ==
    \A c \in Clients, j \in Jobs : req[c].pc = "lines" /\ req[c].job = j =>
        /\ NotBegun(j) /\ Status(j) # "completed"
        /\ \A d \in Clients : req[d].pc \in {"lines", "reopen"} /\ req[d].job = j => d = c

\* A run that is about to complete its job has counted right.
Judged ==
    \A w \in Workers, j \in Jobs :
        work[w].pc \in {"recount", "close"} /\ work[w].status = "completed" /\ work[w].job = j =>
            Left(j) = {} /\ (work[w].pc = "close" => work[w].left = 0)

JobsKnown == RoomKept /\ Numbered /\ Awaited /\ Judged /\ CompletedMeansDone

LEMMA WorkingIsFinite == IsFiniteSet(Working) /\ IsFiniteSet(Workers)
  <1>1. IsFiniteSet(Workers) /\ Working \subseteq Workers
    BY InspectAssumption DEF Working
  <1> QED BY <1>1, FS_Subset

\* A worker that is to start finds room.
LEMMA IdleWorker ==
    ASSUME RoomKept, Starting # {}
    PROVE  \E w \in Workers : work[w] = Idle
  <1>1. PICK c : c \in Starting
    OBVIOUS
  <1>2. Cardinality(Starting) \in Nat /\ Cardinality(Starting) # 0
    BY <1>1, FS_CardinalityType, FS_EmptySet DEF RoomKept
  <1>3. Cardinality(Working) \in Nat /\ Cardinality(Workers) \in Nat
    BY WorkingIsFinite, FS_CardinalityType
  <1>4. Cardinality(Working) < Cardinality(Workers)
    BY <1>2, <1>3 DEF RoomKept
  <1>5. Working # Workers
    BY <1>3, <1>4
  <1> QED BY <1>5 DEF Working

LEMMA RunJobStarts ==
    ASSUME TypeOK, RoomKept, NEW c \in Clients, req[c].pc \in {"lines", "reopen"},
           NEW j, RunJob(j)
    PROVE  \E w \in Workers : /\ work[w] = Idle
                              /\ work' = [work EXCEPT ![w] = [pc |-> "list", job |-> j]]
  <1>1. c \in Starting
    BY DEF Starting
  <1>2. \E w \in Workers : work[w] = Idle
    BY <1>1, IdleWorker
  <1> QED BY <1>2 DEF RunJob

\* What a step does to a worker.
LEMMA RunSteps ==
    ASSUME TypeOK, RoomKept, [Next]_vars, NEW w \in Workers
    PROVE  \/ work'[w] = work[w]
           \/ work'[w] = Idle /\ (Crash \/ Close(w) \/ Catch(w))
           \/ Worker(w) /\ work[w] # Idle /\ work'[w] # Idle /\ work'[w].job = work[w].job
           \/ /\ work[w] = Idle
              /\ \E c \in Clients : /\ InsertLines(c) \/ Reopen(c)
                                    /\ work'[w] = [pc |-> "list", job |-> req[c].job]
  <1> SUFFICES ASSUME work'[w] # work[w]
               PROVE  \/ work'[w] = Idle /\ (Crash \/ Close(w) \/ Catch(w))
                      \/ Worker(w) /\ work[w] # Idle /\ work'[w] # Idle /\ work'[w].job = work[w].job
                      \/ /\ work[w] = Idle
                         /\ \E c \in Clients : /\ InsertLines(c) \/ Reopen(c)
                                               /\ work'[w] = [pc |-> "list", job |-> req[c].job]
    OBVIOUS
  <1>1. ASSUME NEW v \in Workers, Worker(v)
        PROVE  \/ work'[w] = Idle /\ (Close(w) \/ Catch(w))
               \/ Worker(w) /\ work[w] # Idle /\ work'[w] # Idle /\ work'[w].job = work[w].job
    <2>1. ASSUME NEW r, WorkGoes(v, r) PROVE v = w /\ work'[w] = r
      BY <2>1 DEF WorkGoes, TypeOK
    <2>2. CASE Close(v) \/ Catch(v)
      BY <2>1, <2>2 DEF Close, Catch
    <2>3. CASE ~Close(v) /\ ~Catch(v)
      <3>1. \E r : WorkGoes(v, r) /\ r.job = work[v].job /\ r # Idle
        BY <1>1, <2>3
           DEF Worker, ListLines, LookAtLink, NoteResult, CountLeft, SaveProgress, CountForStatus,
               CountForProgress, Throws, Following, Idle
      <3>2. work[v] # Idle
        BY <1>1, <2>3
           DEF Worker, ListLines, LookAtLink, NoteResult, CountLeft, SaveProgress, CountForStatus,
               CountForProgress, Throws, Idle
      <3> QED BY <1>1, <2>1, <3>1, <3>2
    <2> QED BY <2>2, <2>3
  <1>2. ASSUME NEW c \in Clients, Request(c)
        PROVE  /\ work[w] = Idle
               /\ InsertLines(c) \/ Reopen(c)
               /\ work'[w] = [pc |-> "list", job |-> req[c].job]
    <2>1. InsertLines(c) \/ Reopen(c)
      BY <1>2 DEF Request, CountRunning, InsertJob, LinesFail, FindInterrupted, ListFinished,
                  ClearItems, ClearJobs
    <2>2. RunJob(req[c].job) /\ req[c].pc \in {"lines", "reopen"}
      BY <2>1 DEF InsertLines, Reopen
    <2>3. PICK v \in Workers : /\ work[v] = Idle
                               /\ work' = [work EXCEPT ![v] = [pc |-> "list", job |-> req[c].job]]
      BY <2>2, RunJobStarts
    <2> QED BY <2>1, <2>3 DEF TypeOK
  <1>3. ASSUME NEW p \in Loops, Register(p) PROVE FALSE
    BY <1>3 DEF Register, ReadItem, FindExisting, NoteKnown, SearchAgain, SaveChannel, MarkItem,
                RegisterFails, LoopGoes
  <1>4. Crash => work'[w] = Idle
    BY DEF Crash
  <1> QED BY <1>1, <1>2, <1>3, <1>4
          DEF Next, BeginStart, BeginResume, BeginClear, Begin, StartRegister, RegisterMany, BeginLoop,
              Elsewhere, WeekPasses, BootMarks, BootEnds, vars, memoryVars

\* What a step does to a request that inserts lines or opens a job again.
LEMMA RequestSteps ==
    ASSUME TypeOK, [Next]_vars, NEW c \in Clients, req'[c].pc \in {"lines", "reopen"}
    PROVE  \/ req'[c] = req[c] /\ ~InsertLines(c) /\ ~Reopen(c)
           \/ InsertJob(c) /\ req'[c].pc = "lines" /\ req'[c].job = used + 1
           \/ /\ FindInterrupted(c) /\ req'[c].pc = "reopen" /\ req'[c].job = req[c].job
              /\ req[c].job \in Jobs /\ Left(req[c].job) # {}
  <1>0. Idle.pc \notin {"lines", "reopen"}
    BY DEF Idle
  <1>1. ASSUME NEW d \in Clients, Request(d), d # c PROVE req'[c] = req[c]
    BY <1>1 DEF Request, CountRunning, InsertJob, InsertLines, LinesFail, FindInterrupted, Reopen,
                ListFinished, ClearItems, ClearJobs, Goes, TypeOK
  <1>2. ASSUME NEW r, Begin(r), r.pc \in {"count", "list"} PROVE req'[c] = req[c]
    <2>1. req' = [req EXCEPT ![Client] = r]
      BY <1>2 DEF Begin
    <2> HIDE DEF Client
    <2> QED BY <1>2, <2>1 DEF TypeOK
  <1>3. ASSUME NEW r, Goes(c, r) PROVE req'[c] = r
    BY <1>3 DEF Goes, TypeOK
  <1>4. ASSUME Request(c)
        PROVE  \/ InsertJob(c) /\ req'[c].pc = "lines" /\ req'[c].job = used + 1
               \/ /\ FindInterrupted(c) /\ req'[c].pc = "reopen" /\ req'[c].job = req[c].job
                  /\ req[c].job \in Jobs /\ Left(req[c].job) # {}
    <2>1. req[c] \in RequestRow
      BY DEF TypeOK
    <2>2. CASE InsertJob(c)
      BY <1>3, <2>2 DEF InsertJob
    <2>3. CASE FindInterrupted(c)
      <3>1. req[c].pc = "find" /\ req'[c] \in {Idle, [req[c] EXCEPT !.pc = "reopen"]}
            /\ (req'[c] # Idle => Left(req[c].job) # {})
        BY <1>3, <2>3 DEF FindInterrupted
      <3>2. req'[c] = [req[c] EXCEPT !.pc = "reopen"]
        BY <1>0, <3>1
      <3>3. req[c].job \in Jobs /\ req'[c].pc = "reopen" /\ req'[c].job = req[c].job
        BY <2>1, <3>1, <3>2 DEF RequestRow
      <3> QED BY <1>0, <2>3, <3>1, <3>3
    <2>4. CASE CountRunning(c)
      <3>1. req[c].pc = "count" /\ req'[c] \in {Idle, [req[c] EXCEPT !.pc = "insert"], [req[c] EXCEPT !.pc = "find"]}
        BY <1>3, <2>4 DEF CountRunning
      <3> QED BY <1>0, <2>1, <3>1 DEF RequestRow
    <2>5. CASE ListFinished(c)
      <3> DEFINE ids == {k \in Present : k <= req[c].job /\ Status(k) # "running"}
                 r == [pc |-> "items", op |-> "clear", ids |-> ids]
      <3>1. Goes(c, Idle) \/ Goes(c, r)
        BY <2>5 DEF ListFinished
      <3>2. r.pc = "items"
        OBVIOUS
      <3> HIDE DEF r
      <3> QED BY <1>0, <1>3, <3>1, <3>2
    <2>6. CASE ClearItems(c)
      <3>1. req[c].pc = "items" /\ req'[c] = [req[c] EXCEPT !.pc = "jobs"]
        BY <1>3, <2>6 DEF ClearItems
      <3> QED BY <2>1, <3>1 DEF RequestRow
    <2>7. CASE InsertLines(c) \/ LinesFail(c) \/ Reopen(c) \/ ClearJobs(c)
      BY <1>0, <1>3, <2>7 DEF InsertLines, LinesFail, Reopen, ClearJobs
    <2> QED BY <1>4, <2>2, <2>3, <2>4, <2>5, <2>6, <2>7 DEF Request
  <1>5. ASSUME ~\E d \in Clients : Request(d) PROVE req'[c] = req[c]
    <2>1. CASE BeginStart \/ BeginResume \/ BeginClear
      <3>1. \E r : Begin(r) /\ r.pc \in {"count", "list"}
        <4>1. CASE BeginStart
          <5>1. PICK text \in Texts : Begin([pc |-> "count", op |-> "start", text |-> text])
            BY <4>1 DEF BeginStart
          <5> QED BY <5>1
        <4>2. CASE BeginResume \/ BeginClear
          <5>1. PICK j \in Present : \/ Begin([pc |-> "count", op |-> "resume", job |-> j])
                                    \/ Begin([pc |-> "list", op |-> "clear", job |-> j])
            BY <4>2 DEF BeginResume, BeginClear
          <5> QED BY <5>1
        <4> QED BY <2>1, <4>1, <4>2
      <3> QED BY <1>2, <3>1
    <2>2. ASSUME NEW w \in Workers, Worker(w) PROVE req'[c] = req[c]
      BY <2>2 DEF Worker, ListLines, LookAtLink, NoteResult, CountLeft, SaveProgress, CountForStatus,
                  CountForProgress, Close, Throws, Catch, WorkGoes
    <2>3. ASSUME NEW p \in Loops, Register(p) PROVE req'[c] = req[c]
      BY <2>3 DEF Register, ReadItem, FindExisting, NoteKnown, SearchAgain, SaveChannel, MarkItem,
                  RegisterFails, LoopGoes
    <2>4. ~Crash
      BY <1>0 DEF Crash
    <2> QED BY <1>5, <2>1, <2>2, <2>3, <2>4
            DEF Next, StartRegister, RegisterMany, BeginLoop, Elsewhere, WeekPasses, BootMarks,
                BootEnds, vars, memoryVars
  <1>6. CASE \E d \in Clients : Request(d)
    <2>1. CASE Request(c)
      BY <1>4, <2>1
    <2>2. CASE ~Request(c)
      BY <1>1, <1>6, <2>2 DEF Request
    <2> QED BY <2>1, <2>2
  <1>7. CASE ~\E d \in Clients : Request(d)
    BY <1>5, <1>7 DEF Request
  <1> QED BY <1>6, <1>7

\* What a step does to the lines of a job.
LEMMA LineSteps ==
    ASSUME TypeOK, [Next]_vars, NEW j \in Jobs
    PROVE  \/ /\ Left(j)' \subseteq Left(j)
              /\ items[j] = <<>> => items'[j] = <<>>
           \/ \E c \in Clients : InsertLines(c) /\ req[c].job = j
  <1> DEFINE Fewer == /\ Left(j)' \subseteq Left(j)
                      /\ items[j] = <<>> => items'[j] = <<>>
  <1>1. items'[j] = items[j] => Fewer
    BY DEF Left
  <1>2. items'[j] = <<>> => Fewer
    BY EmptyTable DEF Left
  <1>3. ASSUME NEW l, l \in DOMAIN items[j], NEW new, new.result = "none" => items[j][l].result = "none",
               items' = [items EXCEPT ![j][l] = new]
        PROVE  Fewer
    <2>1. items'[j] = [items[j] EXCEPT ![l] = new]
      BY <1>3 DEF TypeOK, ItemsShape
    <2>2. Left(j)' \subseteq Left(j)
      BY <1>3, <2>1 DEF Left
    <2>3. items[j] # <<>>
      BY <1>3, EmptyTable
    <2> QED BY <2>2, <2>3
  <1>4. ASSUME NEW k \in Jobs, k # j, NEW l, NEW new, items' = [items EXCEPT ![k][l] = new] PROVE Fewer
    <2>1. items'[j] = items[j]
      BY <1>4 DEF TypeOK, ItemsShape
    <2> QED BY <1>1, <2>1
  <1> HIDE DEF Fewer
  <1>5. ASSUME NEW c \in Clients, Request(c), ~(InsertLines(c) /\ req[c].job = j) PROVE Fewer
    <2>1. CASE InsertLines(c)
      <3>1. items' = [items EXCEPT ![req[c].job] = [l \in req[c].text |-> NewLine(l)]]
        BY <2>1 DEF InsertLines
      <3>2. items'[j] = items[j]
        BY <1>5, <2>1, <3>1 DEF TypeOK, ItemsShape
      <3> QED BY <1>1, <3>2
    <2>2. CASE ~InsertLines(c)
      <3>1. items'[j] \in {items[j], <<>>}
        BY <1>5, <2>2, PrunedShape
           DEF Request, CountRunning, InsertJob, LinesFail, FindInterrupted, Reopen, ListFinished,
               ClearItems, ClearJobs, tableVars
      <3> QED BY <1>1, <1>2, <3>1
    <2> QED BY <2>1, <2>2
  <1>6. ASSUME NEW w \in Workers, Worker(w) PROVE Fewer
    <2>1. CASE NoteResult(w)
      <3> DEFINE q == work[w]
                 new == [result |-> q.verdict,
                         registered |-> items[q.job][q.line].registered \/ q.verdict = "already"]
      <3>1. /\ items' = IF q.line \notin DOMAIN items[q.job] THEN items
                        ELSE [items EXCEPT ![q.job][q.line] = new]
            /\ q.pc = "note" /\ q \in RunRow
        BY <2>1 DEF NoteResult, TypeOK
      <3>2. q.job \in Jobs /\ q.verdict \in Verdicts
        BY <3>1 DEF RunRow
      <3>3. new.result # "none"
        BY <3>2 DEF Verdicts
      <3> HIDE DEF new, q
      <3> QED BY <1>1, <1>3, <1>4, <3>1, <3>2, <3>3
    <2>2. CASE UNCHANGED items
      BY <1>1, <2>2
    <2> QED BY <1>6, <2>1, <2>2
            DEF Worker, ListLines, LookAtLink, CountLeft, SaveProgress, CountForStatus,
                CountForProgress, Close, Throws, Catch
  <1>7. ASSUME NEW p \in Loops, Register(p) PROVE Fewer
    <2>1. ASSUME NEW known \in BOOLEAN, loop[p].pc \in {"known", "mark"}, items' = Marked(p, known)
          PROVE  Fewer
      <3> DEFINE k == loop[p].job
                 l == loop[p].line
                 new == [result |-> IF known THEN "already" ELSE items[k][l].result, registered |-> TRUE]
      <3>1. k \in Jobs
        <4>1. loop[p] \in LoopRow
          BY DEF TypeOK
        <4> QED BY <2>1, <4>1 DEF LoopRow
      <3>2. items' = IF l \notin DOMAIN items[k] THEN items ELSE [items EXCEPT ![k][l] = new]
        BY <2>1 DEF Marked
      <3>3. new.result = "none" => items[k][l].result = "none"
        OBVIOUS
      <3> HIDE DEF new, k, l
      <3> QED BY <1>1, <1>3, <1>4, <3>1, <3>2, <3>3
    <2>2. CASE NoteKnown(p) \/ MarkItem(p)
      BY <2>1, <2>2 DEF NoteKnown, MarkItem
    <2>3. CASE UNCHANGED items
      BY <1>1, <2>3
    <2> QED BY <1>7, <2>2, <2>3
            DEF Register, ReadItem, FindExisting, SearchAgain, SaveChannel, RegisterFails
  <1>8. ASSUME BootEnds PROVE Fewer
    <2>1. items'[j] \in {items[j], <<>>}
      BY <1>8, PrunedShape DEF BootEnds
    <2> QED BY <1>1, <1>2, <2>1
  <1>9. ASSUME \/ BeginStart \/ BeginResume \/ BeginClear \/ StartRegister \/ RegisterMany \/ Elsewhere
               \/ WeekPasses \/ Crash \/ BootMarks \/ UNCHANGED vars
        PROVE  Fewer
    <2>1. UNCHANGED items
      BY <1>9 DEF BeginStart, BeginResume, BeginClear, Begin, StartRegister, RegisterMany,
                  BeginLoop, Elsewhere, WeekPasses, Crash, BootMarks, vars, tableVars
    <2> QED BY <1>1, <2>1
  <1>10. Fewer \/ \E c \in Clients : InsertLines(c) /\ req[c].job = j
    BY <1>5, <1>6, <1>7, <1>8, <1>9 DEF Next
  <1> QED BY <1>10 DEF Fewer

\* The end of a run: an interrupted job is not completed, and a completed one has the
\* progress that was counted.
LEMMA CloseSaves ==
    ASSUME TypeOK, NEW w \in Workers, NEW j \in Jobs, Close(w), work[w].job = j,
           Status(j)' = "completed"
    PROVE  /\ work[w].pc = "close" /\ work[w].status = "completed"
           /\ jobs'[j].total \in Nat
           /\ jobs'[j].processed = jobs'[j].total - work[w].left
  <1> DEFINE q == work[w]
             row == jobs[j]
  <1>1. q \in RunRow /\ q.pc = "close"
    BY DEF Close, TypeOK
  <1>2. j \in Jobs
    BY <1>1 DEF RunRow
  <1>3. jobs' = IF jobs[j] = NoRow THEN jobs ELSE [jobs EXCEPT ![j] = Closed(row, q)]
    BY DEF Close
  <1>4. jobs[j] # NoRow
    BY <1>3 DEF Status
  <1>5. row \in JobRow /\ jobs'[j] = Closed(row, q)
    BY <1>2, <1>3, <1>4 DEF TypeOK, JobsShape
  <1>6. jobs'[j].status = "completed"
    BY DEF Status
  <1>7. /\ Closed(row, q).status = q.status /\ Closed(row, q).total = row.total
        /\ Closed(row, q).processed = row.total - q.left /\ row.total \in Nat
    BY <1>5 DEF Closed, JobRow
  <1> QED BY <1>1, <1>5, <1>6, <1>7

LEMMA CatchInterrupts ==
    ASSUME TypeOK, NEW w \in Workers, NEW j \in Jobs, Catch(w), work[w].job = j
    PROVE  Status(j)' # "completed"
  <1> DEFINE row == jobs[j]
  <1>1. work[w] \in RunRow /\ work[w].pc = "catch"
    BY DEF Catch, TypeOK
  <1>2. j \in Jobs
    BY <1>1 DEF RunRow
  <1>3. jobs' = IF jobs[j] = NoRow THEN jobs ELSE [jobs EXCEPT ![j] = Interrupted(row)]
    BY DEF Catch
  <1>4. CASE jobs[j] = NoRow
    BY <1>3, <1>4 DEF Status
  <1>5. CASE jobs[j] # NoRow
    <2>1. row \in JobRow /\ jobs'[j] = Interrupted(row)
      BY <1>2, <1>3, <1>5 DEF TypeOK, JobsShape
    <2>2. Interrupted(row).status = "interrupted"
      BY <2>1 DEF Interrupted, JobRow
    <2> QED BY <2>1, <2>2 DEF Status
  <1> QED BY <1>4, <1>5

\* What a step does to the row of a completed job: only the end of a run completes one.
LEMMA RowSteps ==
    ASSUME TypeOK, [Next]_vars, NEW j \in Jobs, Status(j)' = "completed"
    PROVE  \/ \E w \in Workers : Close(w) /\ work[w].job = j
           \/ /\ Status(j) = "completed"
              /\ \/ \E w \in Workers : SaveProgress(w) /\ work[w].job = j
                 \/ jobs'[j].processed = jobs[j].processed /\ jobs'[j].total = jobs[j].total
  <1> DEFINE Same == /\ Status(j) = "completed"
                     /\ jobs'[j].processed = jobs[j].processed /\ jobs'[j].total = jobs[j].total
  <1>0. jobs'[j] # NoRow /\ jobs'[j].status = "completed"
    BY DEF Status
  <1>1. jobs'[j] = jobs[j] => Same
    BY <1>0 DEF Status
  <1>2. ASSUME NEW k \in Jobs, NEW row, k = j => row.status # "completed",
               jobs' = IF jobs[k] = NoRow THEN jobs ELSE [jobs EXCEPT ![k] = row]
        PROVE  Same
    <2>1. jobs'[j] = jobs[j]
      BY <1>0, <1>2 DEF TypeOK, JobsShape
    <2> QED BY <1>1, <2>1
  <1> HIDE DEF Same
  <1>3. ASSUME NEW w \in Workers, Worker(w), ~(Close(w) /\ work[w].job = j),
               ~(Status(j) = "completed" /\ SaveProgress(w) /\ work[w].job = j)
        PROVE  Same
    <2>1. work[w] \in RunRow /\ work[w].pc # "idle"
      BY <1>3 DEF Worker, ListLines, LookAtLink, NoteResult, CountLeft, SaveProgress, CountForStatus,
                  CountForProgress, Close, Throws, Catch, TypeOK
    <2>2. work[w].job \in Jobs
      BY <2>1 DEF RunRow
    <2>3. CASE Close(w)
      <3> DEFINE row == Closed(jobs[work[w].job], work[w])
      <3>1. /\ work[w].job # j
            /\ jobs' = IF jobs[work[w].job] = NoRow THEN jobs ELSE [jobs EXCEPT ![work[w].job] = row]
        BY <1>3, <2>3 DEF Close
      <3> HIDE DEF row
      <3>2. jobs'[j] = jobs[j]
        BY <2>2, <3>1 DEF TypeOK, JobsShape
      <3> QED BY <1>1, <3>2
    <2>4. CASE Catch(w)
      <3> DEFINE row == Interrupted(jobs[work[w].job])
      <3>1. work[w].job # j
        BY <2>4, CatchInterrupts
      <3>2. jobs' = IF jobs[work[w].job] = NoRow THEN jobs ELSE [jobs EXCEPT ![work[w].job] = row]
        BY <2>4 DEF Catch
      <3> HIDE DEF row
      <3>3. jobs'[j] = jobs[j]
        BY <2>2, <3>1, <3>2 DEF TypeOK, JobsShape
      <3> QED BY <1>1, <3>3
    <2>5. CASE SaveProgress(w)
      <3> DEFINE row == [jobs[work[w].job] EXCEPT !.processed = jobs[work[w].job].total - work[w].left]
      <3>1. jobs' = IF jobs[work[w].job] = NoRow THEN jobs ELSE [jobs EXCEPT ![work[w].job] = row]
        BY <2>5 DEF SaveProgress
      <3>2. CASE work[w].job # j
        <4> HIDE DEF row
        <4>1. jobs'[j] = jobs[j]
          BY <2>2, <3>1, <3>2 DEF TypeOK, JobsShape
        <4> QED BY <1>1, <4>1
      <3>3. CASE work[w].job = j
        <4>1. jobs[j] # NoRow
          BY <1>0, <3>1, <3>3
        <4>2. jobs[j] \in JobRow
          BY <4>1 DEF TypeOK, JobsShape
        <4>3. row.status = jobs[j].status
          BY <3>3, <4>2 DEF JobRow
        <4>4. jobs'[j] = row
          BY <3>1, <3>3, <4>1 DEF TypeOK, JobsShape
        <4>5. Status(j) = "completed"
          BY <1>0, <4>1, <4>3, <4>4 DEF Status
        <4> QED BY <1>3, <2>5, <3>3, <4>5
      <3> QED BY <3>2, <3>3
    <2>6. CASE UNCHANGED jobs
      BY <1>1, <2>6
    <2> QED BY <1>3, <2>3, <2>4, <2>5, <2>6
            DEF Worker, ListLines, LookAtLink, NoteResult, CountLeft, CountForStatus,
                CountForProgress, Throws
  <1>4. ASSUME NEW c \in Clients, Request(c) PROVE Same
    <2>1. CASE InsertJob(c)
      <3> DEFINE row == NewJob(req[c].text)
      <3>1. jobs' = [Pruned(jobs) EXCEPT ![used + 1] = row] /\ row.status = "running"
        BY <2>1 DEF InsertJob, NewJob
      <3> HIDE DEF row
      <3>2. jobs'[j] \in {row, Pruned(jobs)[j]}
        BY <3>1, PrunedShape
      <3>3. jobs'[j] = jobs[j]
        BY <1>0, <3>1, <3>2, PrunedShape
      <3> QED BY <1>1, <3>3
    <2>2. CASE Reopen(c)
      <3> DEFINE k == req[c].job
                 row == [jobs[k] EXCEPT !.status = "running"]
      <3>1. req[c] \in RequestRow /\ req[c].pc = "reopen"
        BY <2>2 DEF Reopen, TypeOK
      <3>2. k \in Jobs
        BY <3>1 DEF RequestRow
      <3>3. jobs' = IF jobs[k] = NoRow THEN jobs ELSE [jobs EXCEPT ![k] = row]
        BY <2>2 DEF Reopen
      <3>4. CASE jobs[k] = NoRow
        BY <1>1, <3>3, <3>4
      <3>5. CASE jobs[k] # NoRow
        <4>1. jobs[k] \in JobRow
          BY <3>2, <3>5 DEF TypeOK, JobsShape
        <4>2. row.status = "running"
          BY <4>1 DEF JobRow
        <4> HIDE DEF row, k
        <4> QED BY <1>2, <3>2, <3>3, <4>2
      <3> QED BY <3>4, <3>5
    <2>3. CASE ClearJobs(c)
      <3>1. jobs'[j] \in {jobs[j], NoRow}
        BY <2>3 DEF ClearJobs
      <3> QED BY <1>0, <1>1, <3>1
    <2>4. CASE UNCHANGED jobs
      BY <1>1, <2>4
    <2> QED BY <1>4, <2>1, <2>2, <2>3, <2>4
            DEF Request, CountRunning, InsertLines, LinesFail, FindInterrupted, ListFinished,
                ClearItems, tableVars
  <1>5. ASSUME WeekPasses PROVE Same
    <2>1. jobs'[j] = IF jobs[j] = NoRow THEN NoRow ELSE [jobs[j] EXCEPT !.old = TRUE]
      BY <1>5 DEF WeekPasses
    <2>2. jobs[j] # NoRow /\ jobs'[j] = [jobs[j] EXCEPT !.old = TRUE] /\ jobs[j] \in JobRow
      BY <1>0, <2>1 DEF TypeOK, JobsShape
    <2>3. /\ jobs'[j].status = jobs[j].status /\ jobs'[j].processed = jobs[j].processed
          /\ jobs'[j].total = jobs[j].total
      BY <2>2 DEF JobRow
    <2> QED BY <1>0, <2>2, <2>3 DEF Status, Same
  <1>6. ASSUME BootMarks PROVE Same
    <2>1. PICK k \in Present : jobs' = [jobs EXCEPT ![k] = Interrupted(jobs[k])]
      BY <1>6 DEF BootMarks
    <2>2. k \in Jobs /\ jobs[k] # NoRow /\ jobs[k] \in JobRow
      BY DEF Present, TypeOK, JobsShape
    <2>3. Interrupted(jobs[k]).status # "completed"
      BY <2>2 DEF Interrupted, JobRow
    <2> QED BY <1>2, <2>1, <2>2, <2>3
  <1>7. ASSUME BootEnds PROVE Same
    <2>1. jobs'[j] \in {jobs[j], NoRow}
      BY <1>7, PrunedShape DEF BootEnds
    <2> QED BY <1>0, <1>1, <2>1
  <1>8. ASSUME \/ BeginStart \/ BeginResume \/ BeginClear \/ StartRegister \/ RegisterMany \/ Elsewhere
               \/ Crash \/ UNCHANGED vars
        PROVE  Same
    <2>1. UNCHANGED jobs
      BY <1>8 DEF BeginStart, BeginResume, BeginClear, Begin, StartRegister, RegisterMany,
                  BeginLoop, Elsewhere, Crash, vars, tableVars
    <2> QED BY <1>1, <2>1
  <1>9. ASSUME NEW p \in Loops, Register(p) PROVE Same
    BY <1>1, <1>9 DEF Register, ReadItem, FindExisting, NoteKnown, SearchAgain, SaveChannel, MarkItem,
                      RegisterFails, LoopGoes
  <1>10. \/ Same
         \/ \E w \in Workers : \/ Close(w) /\ work[w].job = j
                               \/ Status(j) = "completed" /\ SaveProgress(w) /\ work[w].job = j
    BY <1>3, <1>4, <1>5, <1>6, <1>7, <1>8, <1>9 DEF Next
  <1> QED BY <1>10 DEF Same

\* A job is begun only by its own request.
LEMMA BegunByRequest ==
    ASSUME TypeOK, RoomKept, [Next]_vars, NEW j \in Jobs, NotBegun(j)
    PROVE  \/ NotBegun(j)'
           \/ \E c \in Clients : (InsertLines(c) \/ Reopen(c)) /\ req[c].job = j
  <1> SUFFICES ASSUME \A c \in Clients : InsertLines(c) \/ Reopen(c) => req[c].job # j
               PROVE  NotBegun(j)'
    OBVIOUS
  <1>1. items'[j] = <<>>
    BY LineSteps DEF NotBegun
  <1>2. ASSUME NEW w \in Workers, work'[w] # Idle PROVE work'[w].job # j
    <2>1. CASE work[w] # Idle
      BY <1>2, <2>1, RunSteps DEF NotBegun
    <2>2. CASE work[w] = Idle
      <3>1. PICK c \in Clients : /\ InsertLines(c) \/ Reopen(c)
                                 /\ work'[w] = [pc |-> "list", job |-> req[c].job]
        BY <1>2, <2>2, RunSteps
      <3> QED BY <3>1
    <2> QED BY <2>1, <2>2
  <1> QED BY <1>1, <1>2 DEF NotBegun

LEMMA UsedGrows ==
    ASSUME TypeOK, [Next]_vars
    PROVE  /\ used \in Nat /\ used' \in {used, used + 1}
           /\ \A c \in Clients : InsertJob(c) => used' = used + 1
  <1>1. used \in Nat
    BY JobsAreNumbers DEF TypeOK
  <1>2. ASSUME NEW c \in Clients, Request(c) PROVE used' \in {used, used + 1}
    BY <1>2 DEF Request, CountRunning, InsertJob, InsertLines, LinesFail, FindInterrupted, Reopen,
                ListFinished, ClearItems, ClearJobs, tableVars
  <1>3. ASSUME NEW w \in Workers, Worker(w) PROVE used' = used
    BY <1>3 DEF Worker, ListLines, LookAtLink, NoteResult, CountLeft, SaveProgress, CountForStatus,
                CountForProgress, Close, Throws, Catch, WorkGoes
  <1>4. ASSUME NEW p \in Loops, Register(p) PROVE used' = used
    BY <1>4 DEF Register, ReadItem, FindExisting, NoteKnown, SearchAgain, SaveChannel, MarkItem,
                RegisterFails, LoopGoes
  <1>5. used' \in {used, used + 1}
    BY <1>2, <1>3, <1>4
       DEF Next, BeginStart, BeginResume, BeginClear, Begin, StartRegister, RegisterMany, BeginLoop,
           Elsewhere, WeekPasses, Crash, BootMarks, BootEnds, vars, tableVars
  <1> QED BY <1>1, <1>5 DEF InsertJob

LEMMA NumberedStays ==
    ASSUME TypeOK, TypeOK', JobsKnown, [Next]_vars
    PROVE  Numbered'
  <1>1. ASSUME NEW j \in Jobs, j > used' PROVE NotBegun(j)'
    <2>1. j > used
      BY <1>1, UsedGrows, JobsAreNumbers
    <2>2. NotBegun(j)
      BY <2>1 DEF JobsKnown, Numbered
    <2>3. ASSUME NEW c \in Clients, InsertLines(c) \/ Reopen(c) PROVE req[c].job # j
      <3>1. req[c].pc \in {"lines", "reopen"}
        BY <2>3 DEF InsertLines, Reopen
      <3>2. req[c].job <= used
        BY <3>1 DEF JobsKnown, Numbered
      <3> QED BY <2>1, <3>2, UsedGrows, JobsAreNumbers
    <2> QED BY <2>2, <2>3, BegunByRequest DEF JobsKnown
  <1>2. ASSUME NEW c \in Clients, req'[c].pc \in {"lines", "reopen"} PROVE req'[c].job <= used'
    <2>1. CASE req'[c] = req[c]
      <3>1. req[c].job <= used
        BY <1>2, <2>1 DEF JobsKnown, Numbered
      <3>2. req[c].job \in Nat
        <4>1. req[c] \in RequestRow /\ req[c].pc \in {"lines", "reopen"}
          BY <1>2, <2>1 DEF TypeOK
        <4> QED BY <4>1, JobsAreNumbers DEF RequestRow
      <3> QED BY <2>1, <3>1, <3>2, UsedGrows
    <2>2. CASE InsertJob(c) /\ req'[c].job = used + 1
      BY <2>2, UsedGrows
    <2>3. CASE /\ req'[c].job = req[c].job /\ req[c].job \in Jobs /\ Left(req[c].job) # {}
      <3>1. items[req[c].job] # <<>>
        BY <2>3, EmptyTable DEF Left
      <3>2. ~(req[c].job > used)
        <4> SUFFICES ASSUME NEW k \in Jobs, k = req[c].job, k > used PROVE FALSE
          BY <2>3
        <4>1. NotBegun(k)
          BY DEF JobsKnown, Numbered
        <4> QED BY <3>1, <4>1 DEF NotBegun
      <3>3. req[c].job \in Nat
        BY <2>3, JobsAreNumbers
      <3>4. req[c].job <= used
        BY <3>2, <3>3, UsedGrows
      <3> QED BY <2>3, <3>3, <3>4, UsedGrows
    <2> QED BY <1>2, <2>1, <2>2, <2>3, RequestSteps
  <1> QED BY <1>1, <1>2 DEF Numbered

LEMMA AwaitedStays ==
    ASSUME TypeOK, TypeOK', JobsKnown, [Next]_vars
    PROVE  Awaited'
  <1> SUFFICES ASSUME NEW c \in Clients, NEW j \in Jobs, req'[c].pc = "lines", req'[c].job = j
               PROVE  /\ NotBegun(j)' /\ Status(j)' # "completed"
                      /\ \A d \in Clients : req'[d].pc \in {"lines", "reopen"} /\ req'[d].job = j => d = c
    BY DEF Awaited
  <1>1. CASE req'[c] = req[c] /\ ~InsertLines(c) /\ ~Reopen(c)
    <2>1. /\ NotBegun(j) /\ Status(j) # "completed"
          /\ \A d \in Clients : req[d].pc \in {"lines", "reopen"} /\ req[d].job = j => d = c
      BY <1>1 DEF JobsKnown, Awaited
    <2>2. NotBegun(j)'
      <3>1. ASSUME NEW d \in Clients, InsertLines(d) \/ Reopen(d) PROVE req[d].job # j
        BY <1>1, <2>1, <3>1 DEF InsertLines, Reopen
      <3> QED BY <2>1, <3>1, BegunByRequest DEF JobsKnown
    <2>3. Status(j)' # "completed"
      <3>1. ASSUME NEW w \in Workers, Close(w) PROVE work[w].job # j
        BY <2>1, <3>1 DEF Close, NotBegun, Idle
      <3> QED BY <2>1, <3>1, RowSteps
    <2>4. ASSUME NEW d \in Clients, req'[d].pc \in {"lines", "reopen"}, req'[d].job = j PROVE d = c
      <3>1. CASE req'[d] = req[d]
        BY <2>1, <2>4, <3>1
      <3>2. CASE InsertJob(d) /\ req'[d].job = used + 1
        <4>1. j <= used
          BY <1>1 DEF JobsKnown, Numbered
        <4> QED BY <2>4, <3>2, <4>1, UsedGrows
      <3>3. CASE req'[d].job = req[d].job /\ Left(req[d].job) # {}
        <4>1. Left(j) = {}
          BY <2>1, EmptyTable DEF NotBegun, Left
        <4> QED BY <2>4, <3>3, <4>1
      <3> QED BY <2>4, <3>1, <3>2, <3>3, RequestSteps
    <2> QED BY <2>2, <2>3, <2>4
  <1>2. CASE InsertJob(c) /\ req'[c].job = used + 1
    <2>1. j = used + 1 /\ j > used
      BY <1>2, UsedGrows
    <2>2. NotBegun(j)
      BY <2>1 DEF JobsKnown, Numbered
    <2>3. NotBegun(j)'
      <3>1. work' = work /\ items'[j] \in {items[j], <<>>}
        BY <1>2, PrunedShape DEF InsertJob
      <3> QED BY <2>2, <3>1 DEF NotBegun
    <2>4. Status(j)' # "completed"
      <3> DEFINE row == NewJob(req[c].text)
      <3>1. jobs' = [Pruned(jobs) EXCEPT ![j] = row] /\ row.status = "running"
        BY <1>2, <2>1 DEF InsertJob, NewJob
      <3> HIDE DEF row
      <3>2. jobs'[j] = row
        BY <3>1, PrunedShape
      <3> QED BY <3>1, <3>2 DEF Status
    <2>5. ASSUME NEW d \in Clients, req'[d].pc \in {"lines", "reopen"}, req'[d].job = j, d # c PROVE FALSE
      <3>1. req'[d] = req[d]
        BY <1>2, <2>5 DEF InsertJob, Goes, TypeOK
      <3>2. j <= used
        BY <2>5, <3>1 DEF JobsKnown, Numbered
      <3> QED BY <2>1, <3>2, UsedGrows
    <2> QED BY <2>3, <2>4, <2>5
  <1> QED BY <1>1, <1>2, RequestSteps

LEMMA NothingLeftStays ==
    ASSUME TypeOK, JobsKnown, [Next]_vars, NEW j \in Jobs, Left(j) = {},
           ~NotBegun(j) \/ Status(j) = "completed"
    PROVE  Left(j)' = {}
  <1>1. ASSUME NEW c \in Clients, InsertLines(c) PROVE req[c].job # j
    <2>1. req[c].pc = "lines"
      BY <1>1 DEF InsertLines
    <2> QED BY <2>1 DEF JobsKnown, Awaited
  <1> QED BY <1>1, LineSteps

LEMMA JudgedStays ==
    ASSUME TypeOK, TypeOK', JobsKnown, [Next]_vars
    PROVE  Judged'
  <1> SUFFICES ASSUME NEW w \in Workers, NEW j \in Jobs, work'[w].pc \in {"recount", "close"},
                      work'[w].status = "completed", work'[w].job = j
               PROVE  Left(j)' = {} /\ (work'[w].pc = "close" => work'[w].left = 0)
    BY DEF Judged
  <1>1. CASE work'[w] = work[w]
    <2>1. Left(j) = {} /\ (work[w].pc = "close" => work[w].left = 0)
      BY <1>1 DEF JobsKnown, Judged
    <2>2. ~NotBegun(j)
      BY <1>1 DEF NotBegun, Idle
    <2> QED BY <1>1, <2>1, <2>2, NothingLeftStays
  <1>2. CASE work'[w] # work[w]
    <2>1. Worker(w) /\ work[w] # Idle /\ work'[w].job = work[w].job
      <3>1. work'[w] # Idle
        BY DEF Idle
      <3>2. ~\E k : work'[w] = [pc |-> "list", job |-> k]
        <4> SUFFICES ASSUME NEW k, work'[w] = [pc |-> "list", job |-> k] PROVE FALSE
          OBVIOUS
        <4>1. work'[w].pc = "list"
          OBVIOUS
        <4> QED BY <4>1
      <3> QED BY <1>2, <3>1, <3>2, RunSteps DEF JobsKnown
    <2>2. ASSUME NEW r, WorkGoes(w, r) PROVE work'[w] = r
      BY <2>2 DEF WorkGoes, TypeOK
    <2>3. CASE CountForStatus(w)
      <3>1. /\ work'[w] = [pc |-> "recount", job |-> j,
                           status |-> IF Left(j) = {} THEN "completed" ELSE "interrupted"]
            /\ UNCHANGED items
        BY <2>1, <2>2, <2>3 DEF CountForStatus
      <3>2. Left(j) = {} /\ work'[w].pc = "recount"
        BY <3>1
      <3> QED BY <3>1, <3>2 DEF Left
    <2>4. CASE CountForProgress(w)
      <3>1. /\ work'[w] = [pc |-> "close", job |-> j, status |-> work[w].status,
                           left |-> Cardinality(Left(j))]
            /\ UNCHANGED items /\ work[w].pc = "recount"
        BY <2>1, <2>2, <2>4 DEF CountForProgress
      <3>2. work[w].status = "completed"
        BY <3>1
      <3>3. Left(j) = {}
        BY <2>1, <3>1, <3>2 DEF JobsKnown, Judged
      <3>4. work'[w].left = 0
        BY <3>1, <3>3, LeftIsFinite
      <3> QED BY <3>1, <3>3, <3>4 DEF Left
    <2>5. CASE ~CountForStatus(w) /\ ~CountForProgress(w)
      <3>1. ASSUME NEW k, NEW todo PROVE Following(k, todo).pc \notin {"recount", "close"}
        BY DEF Following
      <3>2. ~(ListLines(w) \/ SaveProgress(w))
        <4>1. ListLines(w) \/ SaveProgress(w) => \E k, todo : WorkGoes(w, Following(k, todo))
          BY DEF ListLines, SaveProgress
        <4> QED BY <2>2, <3>1, <4>1
      <3>3. ~(Close(w) \/ Catch(w))
        BY <2>2 DEF Close, Catch, Idle
      <3>4. CASE LookAtLink(w)
        <4>1. \E todo, l, verdict :
                work'[w] = [pc |-> "note", job |-> work[w].job, todo |-> todo, line |-> l, verdict |-> verdict]
          BY <2>2, <3>4 DEF LookAtLink
        <4> QED BY <4>1
      <3>5. CASE NoteResult(w) \/ CountLeft(w) \/ Throws(w)
        <4>1. work'[w].pc \in {"count", "progress", "catch"}
          BY <2>2, <3>5 DEF NoteResult, CountLeft, Throws
        <4> QED BY <4>1
      <3> QED BY <2>1, <2>5, <3>2, <3>3, <3>4, <3>5 DEF Worker
    <2> QED BY <2>3, <2>4, <2>5
  <1> QED BY <1>1, <1>2

LEMMA CutGrows ==
    ASSUME [Next]_vars
    PROVE  \A j \in cut : j \in cut'
  <1>1. ASSUME NEW c \in Clients, Request(c) PROVE UNCHANGED cut
    BY <1>1 DEF Request, CountRunning, InsertJob, InsertLines, LinesFail, FindInterrupted, Reopen,
                ListFinished, ClearItems, ClearJobs, historyVars
  <1>2. ASSUME NEW w \in Workers, Worker(w) PROVE UNCHANGED cut
    BY <1>2 DEF Worker, ListLines, LookAtLink, NoteResult, CountLeft, SaveProgress, CountForStatus,
                CountForProgress, Close, Throws, Catch, WorkGoes, historyVars
  <1>3. ASSUME NEW p \in Loops, Register(p) PROVE UNCHANGED cut
    BY <1>3 DEF Register, ReadItem, FindExisting, NoteKnown, SearchAgain, SaveChannel, MarkItem,
                RegisterFails, LoopGoes
  <1> QED BY <1>1, <1>2, <1>3
          DEF Next, BeginStart, BeginResume, BeginClear, Begin, StartRegister, RegisterMany, BeginLoop,
              Elsewhere, WeekPasses, Crash, BootMarks, BootEnds, vars, historyVars

LEMMA DoneStays ==
    ASSUME TypeOK, TypeOK', JobsKnown, [Next]_vars
    PROVE  CompletedMeansDone'
  <1> SUFFICES ASSUME NEW j \in Jobs, Status(j)' = "completed"
               PROVE  /\ Left(j)' = {}
                      /\ \/ jobs'[j].processed = jobs'[j].total
                         \/ j \in cut'
                         \/ \E w \in Working' : work'[w].job = j
    BY DEF CompletedMeansDone
  <1>1. CASE \E w \in Workers : Close(w) /\ work[w].job = j
    <2>1. PICK w \in Workers : Close(w) /\ work[w].job = j
      BY <1>1
    <2>2. /\ work[w].pc = "close" /\ work[w].status = "completed"
          /\ jobs'[j].total \in Nat
          /\ jobs'[j].processed = jobs'[j].total - work[w].left
      BY <2>1, CloseSaves
    <2>3. Left(j) = {} /\ work[w].left = 0
      BY <2>1, <2>2 DEF JobsKnown, Judged
    <2>4. UNCHANGED items
      BY <2>1 DEF Close
    <2> QED BY <2>2, <2>3, <2>4 DEF Left
  <1>2. CASE ~\E w \in Workers : Close(w) /\ work[w].job = j
    <2>1. Status(j) = "completed"
      BY <1>2, RowSteps
    <2>2. /\ Left(j) = {}
          /\ \/ jobs[j].processed = jobs[j].total
             \/ j \in cut
             \/ \E w \in Working : work[w].job = j
      BY <2>1 DEF JobsKnown, CompletedMeansDone
    <2>3. Left(j)' = {}
      BY <2>1, <2>2, NothingLeftStays
    <2>4. CASE \E w \in Workers : SaveProgress(w) /\ work[w].job = j
      <3>1. PICK w \in Workers : SaveProgress(w) /\ work[w].job = j
        BY <2>4
      <3>2. WorkGoes(w, Following(j, work[w].todo))
        BY <3>1 DEF SaveProgress
      <3>3. Following(j, work[w].todo) # Idle /\ Following(j, work[w].todo).job = j
        BY DEF Following, Idle
      <3>4. w \in Working' /\ work'[w].job = j
        BY <3>2, <3>3 DEF WorkGoes, Working, TypeOK
      <3> QED BY <2>3, <3>4
    <2>5. CASE jobs'[j].processed = jobs[j].processed /\ jobs'[j].total = jobs[j].total
      <3>1. CASE jobs[j].processed = jobs[j].total
        BY <2>3, <2>5, <3>1
      <3>2. CASE j \in cut
        <4>1. j \in cut'
          BY <3>2, CutGrows
        <4> QED BY <2>3, <4>1
      <3>3. CASE \E w \in Working : work[w].job = j
        <4>1. PICK w \in Workers : work[w] # Idle /\ work[w].job = j
          BY <3>3 DEF Working
        <4>2. CASE work'[w] # Idle
          <5>1. work'[w].job = j
            BY <4>1, <4>2, RunSteps DEF JobsKnown
          <5> QED BY <2>3, <4>2, <5>1 DEF Working
        <4>3. CASE work'[w] = Idle
          <5>1. ~Close(w) /\ ~Catch(w)
            BY <1>2, <4>1, CatchInterrupts
          <5>2. Crash
            BY <4>1, <4>3, <5>1, RunSteps DEF JobsKnown
          <5>3. j \in cut'
            BY <2>1, <4>1, <5>2 DEF Crash, Working
          <5> QED BY <2>3, <5>3
        <4> QED BY <4>2, <4>3
      <3> QED BY <2>2, <3>1, <3>2, <3>3
    <2> QED BY <1>2, <2>4, <2>5, RowSteps
  <1> QED BY <1>1, <1>2

\* Who starts and who works: room for the workers that requests may start is kept by the
\* requests that begin, and used up by those that start one.
LEMMA RoomStays ==
    ASSUME TypeOK, TypeOK', JobsKnown, [Next]_vars
    PROVE  RoomKept'
  <1>1. /\ IsFiniteSet(Starting) /\ IsFiniteSet(Working) /\ IsFiniteSet(Workers)
        /\ Cardinality(Starting) + Cardinality(Working) <= Cardinality(Workers)
        /\ Cardinality(Starting) \in Nat /\ Cardinality(Working) \in Nat
        /\ Cardinality(Workers) \in Nat
    BY WorkingIsFinite, FS_CardinalityType DEF JobsKnown, RoomKept
  <1>2. ASSUME Starting' \subseteq Starting, Working' \subseteq Working PROVE RoomKept'
    <2>1. IsFiniteSet(Starting') /\ IsFiniteSet(Working')
      BY <1>1, <1>2, FS_Subset
    <2>2. /\ Cardinality(Starting') <= Cardinality(Starting)
          /\ Cardinality(Working') <= Cardinality(Working)
      BY <1>1, <1>2, FS_Subset
    <2>3. Cardinality(Starting') \in Nat /\ Cardinality(Working') \in Nat
      BY <2>1, FS_CardinalityType
    <2>4. Cardinality(Starting') + Cardinality(Working') <= Cardinality(Workers)
      BY <1>1, <2>2, <2>3
    <2> QED BY <2>1, <2>4 DEF RoomKept
  <1>3. ASSUME NEW c, Starting' = Starting \cup {c}, Working' = Working, Room PROVE RoomKept'
    <2>1. /\ IsFiniteSet(Starting')
          /\ Cardinality(Starting') \in {Cardinality(Starting), Cardinality(Starting) + 1}
      BY <1>1, <1>3, FS_AddElement
    <2>2. Cardinality(Starting) + Cardinality(Working) < Cardinality(Workers)
      BY <1>3 DEF Room
    <2>3. Cardinality(Starting') + Cardinality(Working') <= Cardinality(Workers)
      BY <1>1, <1>3, <2>1, <2>2
    <2> QED BY <2>1, <2>3 DEF RoomKept
  <1>4. ASSUME NEW c \in Starting, NEW w, Starting' = Starting \ {c}, Working' = Working \cup {w}
        PROVE  RoomKept'
    <2>1. IsFiniteSet(Starting') /\ Cardinality(Starting') = Cardinality(Starting) - 1
      BY <1>1, <1>4, FS_RemoveElement
    <2>2. Cardinality(Working') \in {Cardinality(Working), Cardinality(Working) + 1}
      BY <1>1, <1>4, FS_AddElement
    <2>3. Cardinality(Starting') + Cardinality(Working') <= Cardinality(Workers)
      BY <1>1, <2>1, <2>2
    <2> QED BY <2>1, <2>3 DEF RoomKept
  <1>5. ASSUME UNCHANGED <<req, work>> PROVE RoomKept'
    BY <1>2, <1>5 DEF Starting, Working
  <1>6. ASSUME NEW r, Begin(r), r.pc = "count" => Room, r.pc \in {"count", "list"} PROVE RoomKept'
    <2>1. Client \in Clients /\ req[Client] = Idle
      BY <1>6 DEF Begin, Client, Free
    <2>2. req' = [req EXCEPT ![Client] = r] /\ UNCHANGED work
      BY <1>6 DEF Begin
    <2> HIDE DEF Client
    <2>3. Client \notin Starting
      BY <2>1 DEF Starting, Idle
    <2>4. Working' = Working
      BY <2>2 DEF Working
    <2>5. CASE r.pc = "count"
      <3>1. Starting' = Starting \cup {Client}
        BY <2>1, <2>2, <2>5 DEF Starting, TypeOK
      <3> QED BY <1>3, <1>6, <2>4, <2>5, <3>1
    <2>6. CASE r.pc = "list"
      <3>1. Starting' \subseteq Starting
        BY <2>1, <2>2, <2>6 DEF Starting, TypeOK
      <3> QED BY <1>2, <2>4, <3>1
    <2> QED BY <1>6, <2>5, <2>6
  <1>7. CASE BeginStart \/ BeginResume \/ BeginClear
    <2>1. CASE BeginStart
      <3>1. PICK text \in Texts : Begin([pc |-> "count", op |-> "start", text |-> text])
        BY <2>1 DEF BeginStart
      <3> QED BY <1>6, <2>1, <3>1 DEF BeginStart
    <2>2. CASE BeginResume
      <3>1. PICK j \in Present : Begin([pc |-> "count", op |-> "resume", job |-> j])
        BY <2>2 DEF BeginResume
      <3> QED BY <1>6, <2>2, <3>1 DEF BeginResume
    <2>3. CASE BeginClear
      <3>1. PICK j \in Present : Begin([pc |-> "list", op |-> "clear", job |-> j])
        BY <2>3 DEF BeginClear
      <3> QED BY <1>6, <3>1
    <2> QED BY <1>7, <2>1, <2>2, <2>3
  <1>8. ASSUME NEW c \in Clients, Request(c) PROVE RoomKept'
    <2>1. \A d \in Clients : d # c => req'[d] = req[d]
      BY <1>8 DEF Request, CountRunning, InsertJob, InsertLines, LinesFail, FindInterrupted, Reopen,
                  ListFinished, ClearItems, ClearJobs, Goes, TypeOK
    <2>2. CASE InsertLines(c) \/ Reopen(c)
      <3>1. req[c].pc \in {"lines", "reopen"} /\ RunJob(req[c].job) /\ req'[c] = Idle
        BY <2>2 DEF InsertLines, Reopen, Goes, TypeOK
      <3>2. PICK v \in Workers : /\ work[v] = Idle
                                 /\ work' = [work EXCEPT ![v] = [pc |-> "list", job |-> req[c].job]]
        BY <3>1, RunJobStarts DEF JobsKnown
      <3>3. Working' = Working \cup {v}
        BY <3>2 DEF Working, TypeOK, Idle
      <3>4. c \in Starting /\ Starting' = Starting \ {c}
        BY <2>1, <3>1 DEF Starting, Idle
      <3> QED BY <1>4, <3>3, <3>4
    <2>3. CASE ~InsertLines(c) /\ ~Reopen(c)
      <3>1. UNCHANGED work
        BY <1>8, <2>3 DEF Request, CountRunning, InsertJob, LinesFail, FindInterrupted, ListFinished,
                          ClearItems, ClearJobs
      <3>2. req'[c].pc \in {"count", "insert", "lines", "find", "reopen"} => c \in Starting
        <4>1. ASSUME NEW r, Goes(c, r) PROVE req'[c] = r
          BY <4>1 DEF Goes, TypeOK
        <4>2. CASE CountRunning(c) \/ InsertJob(c) \/ FindInterrupted(c) \/ LinesFail(c)
          BY <4>2 DEF CountRunning, InsertJob, FindInterrupted, LinesFail, Starting
        <4>3. CASE ListFinished(c)
          <5> DEFINE ids == {k \in Present : k <= req[c].job /\ Status(k) # "running"}
                     r == [pc |-> "items", op |-> "clear", ids |-> ids]
          <5>1. Goes(c, Idle) \/ Goes(c, r)
            BY <4>3 DEF ListFinished
          <5>2. r.pc = "items" /\ Idle.pc = "idle"
            BY DEF Idle
          <5> HIDE DEF r
          <5> QED BY <4>1, <5>1, <5>2
        <4>4. CASE ClearItems(c)
          <5>1. req[c].pc = "items" /\ req'[c] = [req[c] EXCEPT !.pc = "jobs"] /\ req[c] \in RequestRow
            BY <4>1, <4>4 DEF ClearItems, TypeOK
          <5> QED BY <5>1 DEF RequestRow
        <4>5. CASE ClearJobs(c)
          BY <4>1, <4>5 DEF ClearJobs, Idle
        <4> QED BY <1>8, <2>3, <4>2, <4>3, <4>4, <4>5 DEF Request
      <3>3. Starting' \subseteq Starting
        BY <2>1, <3>2 DEF Starting
      <3>4. Working' = Working
        BY <3>1 DEF Working
      <3> QED BY <1>2, <3>3, <3>4
    <2> QED BY <2>2, <2>3
  <1>9. ASSUME NEW w \in Workers, Worker(w) PROVE RoomKept'
    <2>1. UNCHANGED req /\ \E r : work' = [work EXCEPT ![w] = r]
      BY <1>9 DEF Worker, ListLines, LookAtLink, NoteResult, CountLeft, SaveProgress, CountForStatus,
                  CountForProgress, Close, Throws, Catch, WorkGoes
    <2>2. work[w] # Idle
      BY <1>9 DEF Worker, ListLines, LookAtLink, NoteResult, CountLeft, SaveProgress, CountForStatus,
                  CountForProgress, Close, Throws, Catch, Idle
    <2>3. Starting' = Starting /\ Working' \subseteq Working
      BY <2>1, <2>2 DEF Starting, Working, TypeOK
    <2> QED BY <1>2, <2>3
  <1>10. CASE Crash
    <2>1. Starting' = {} /\ Working' = {}
      BY <1>10 DEF Crash, Starting, Working, Idle
    <2> QED BY <1>2, <2>1
  <1>11. ASSUME NEW p \in Loops, Register(p) PROVE UNCHANGED <<req, work>>
    BY <1>11 DEF Register, ReadItem, FindExisting, NoteKnown, SearchAgain, SaveChannel, MarkItem,
                 RegisterFails, LoopGoes
  <1>12. ASSUME \/ StartRegister \/ RegisterMany \/ Elsewhere \/ WeekPasses \/ BootMarks \/ BootEnds
                \/ UNCHANGED vars
         PROVE  UNCHANGED <<req, work>>
    BY <1>12 DEF StartRegister, RegisterMany, BeginLoop, Elsewhere, WeekPasses, BootMarks, BootEnds,
                 vars, memoryVars
  <1> QED BY <1>5, <1>7, <1>8, <1>9, <1>10, <1>11, <1>12 DEF Next

\* runJob, resumeInspect and the start of the server: a job that is shown as completed has a
\* result for every line, and once nobody works on it its progress says so, however many
\* runs, requests, failures and restarts there were; unless a crash cut off a second run.
THEOREM CompletedIsDone == Spec => []CompletedMeansDone
  <1>1. ASSUME Init PROVE JobsKnown
    <2>1. Starting = {} /\ Working = {}
      BY <1>1 DEF Init, Starting, Working, Idle
    <2>2. RoomKept
      <3>1. Cardinality(Workers) \in Nat
        BY InspectAssumption, FS_CardinalityType
      <3> QED BY <2>1, <3>1, FS_EmptySet DEF RoomKept
    <2>3. \A j \in Jobs : NotBegun(j) /\ Status(j) = "none"
      BY <1>1 DEF Init, NotBegun, Status
    <2>4. Numbered /\ Awaited /\ Judged
      BY <1>1, <2>3 DEF Init, Numbered, Awaited, Judged, Idle
    <2> QED BY <2>2, <2>3, <2>4 DEF JobsKnown, CompletedMeansDone
  <1>2. ASSUME TypeOK, TypeOK', JobsKnown, [Next]_vars PROVE JobsKnown'
    BY <1>2, RoomStays, NumberedStays, AwaitedStays, JudgedStays, DoneStays DEF JobsKnown
  <1>3. JobsKnown => CompletedMeansDone
    BY DEF JobsKnown
  <1> QED BY <1>1, <1>2, <1>3, InspectTypeCorrect, PTL DEF Spec
===============================================================================
