----------------------------- MODULE BulkInspect -----------------------------
(***************************************************************************)
(* The bulk inspection of pasted links and their registration              *)
(* (admin-inspect.service.ts).                                             *)
(*                                                                         *)
(* A job is a row and one item per line.  runJob goes through the items    *)
(* without a result, beside the request that started it; a start of the    *)
(* server interrupts what was left running, and an admin may resume it.    *)
(* Registering goes through chosen items, in the server's own loop or in a *)
(* request.  An action is the code between two awaits, and one statement   *)
(* of the database is atomic; reads and deletes that follow each other     *)
(* with nothing in between that others could see are one.                  *)
(*                                                                         *)
(* Pages are a verdict, good or bad.  Of the channels only how many rows a *)
(* link has is kept, whatever their status: ChannelRegistry has the rest.  *)
(* The numbers of the registration loop are left out.  A definition whose  *)
(* name begins with Mut is a mutated form of the next one.                 *)
(***************************************************************************)
EXTENDS Naturals, FiniteSets

CONSTANTS
    Links,
    Malformed,      \* a line without a link, which has its result at once
    Texts,          \* what an admin pastes: sets of links and perhaps the malformed line
    NoRow,
    Clients,        \* where requests come from
    Server,         \* the server's own registration loop
    Workers,        \* as many runJob as may be under way at once
    MaxJobs,        \* bound of jobs
    MaxLines,       \* bound of the lines of all jobs there ever were
    MaxEvents,      \* bound of requests, other registrations and weeks together
    MaxFaults       \* bound of crashes and failing calls together

Jobs == 1..MaxJobs
Loops == Clients \union {Server}

ASSUME InspectAssumption ==
    /\ IsFiniteSet(Links) /\ Malformed \notin Links
    /\ \A text \in Texts : text # {} /\ text \subseteq Links \union {Malformed}
    /\ Server \notin Clients
    /\ IsFiniteSet(Workers)
    /\ {MaxJobs, MaxLines, MaxEvents, MaxFaults} \subseteq Nat

VARIABLES
    up,         \* onModuleInit is over and requests are answered
    jobs,       \* the table admin_inspect_jobs
    items,      \* job -> its lines in admin_inspect_items
    used,       \* how many jobs there ever were,
    lines,      \* and how many lines
    channels,   \* link -> how many rows have it
    busy,       \* workerRunning
    req,        \* client -> its request about a job
    work,       \* worker -> the runJob under way
    loop,       \* loop -> the registrations under way
    events, faults, \* what the bounds count
    bare,       \* history: the jobs whose lines were not inserted
    cut,        \* history: the jobs a second runJob of which was cut off by a crash
    crossed     \* history: the links registered between another's search and save

tableVars == <<jobs, items, used, lines, channels>>
memoryVars == <<up, busy, req, work, loop>>
historyVars == <<bare, cut, crossed>>
vars == <<tableVars, memoryVars, events, faults, historyVars>>

Idle == [pc |-> "idle"]
Present == {j \in Jobs : jobs[j] # NoRow}
Status(j) == IF jobs[j] = NoRow THEN "none" ELSE jobs[j].status
Left(j) == {l \in DOMAIN items[j] : items[j][l].result = "none"}

Event == events < MaxEvents /\ events' = events + 1
Fault == faults < MaxFaults /\ faults' = faults + 1

-----------------------------------------------------------------------------
(* Starting and resuming a job.                                            *)

\* A request comes from a client that waits for no other; as clients are alike it may be a
\* fixed one of these.
Free == {c \in Clients : req[c] = Idle /\ loop[c] = Idle}
Client == CHOOSE c \in Free : TRUE

Begin(request) ==
    /\ up /\ Free # {} /\ Event
    /\ req' = [req EXCEPT ![Client] = request]
    /\ UNCHANGED <<tableVars, up, busy, work, loop, faults, historyVars>>

Goes(c, next) == req' = [req EXCEPT ![c] = next]

Starting == {c \in Clients : req[c].pc \in {"count", "insert", "lines", "find", "reopen"}}
Working == {w \in Workers : work[w] # Idle}
\* The worker a request may start needs room.
Room == Cardinality(Starting) + Cardinality(Working) < Cardinality(Workers)

BeginStart ==
    /\ ~busy /\ Room
    /\ \E text \in {t \in Texts : lines + Cardinality(t) <= MaxLines} : Begin([pc |-> "count", op |-> "start", text |-> text])

BeginResume ==
    /\ ~busy /\ Room
    /\ \E j \in Present : Begin([pc |-> "count", op |-> "resume", job |-> j])

BeginClear == \E j \in Present : Begin([pc |-> "list", op |-> "clear", job |-> j])

\* assertCanStart: no job may be running, nor a collection, of which nothing is known here.
CountRunning(c) ==
    /\ req[c].pc = "count"
    /\ \/ Goes(c, Idle)
       \/ /\ \A j \in Present : Status(j) # "running"
          /\ Goes(c, [req[c] EXCEPT !.pc = IF req[c].op = "start" THEN "insert" ELSE "find"])
    /\ UNCHANGED <<tableVars, up, busy, work, loop, events, faults, historyVars>>

\* pruneOldJobs
Pruned(table) == [j \in Jobs |-> IF table[j] # NoRow /\ table[j].old /\ table[j].status # "running" THEN NoRow ELSE table[j]]

\* Lines go with their job.
Kept(table) == [j \in Jobs |-> IF table[j] = NoRow THEN <<>> ELSE items[j]]

NewJob(text) == [status |-> "running", processed |-> Cardinality(text \ Links), total |-> Cardinality(text), old |-> FALSE]

\* startInspect: the jobs of last week are pruned and the row is inserted.
InsertJob(c) ==
    /\ req[c].pc = "insert" /\ used < MaxJobs /\ lines + Cardinality(req[c].text) <= MaxLines
    /\ used' = used + 1
    /\ lines' = lines + Cardinality(req[c].text)
    /\ jobs' = [Pruned(jobs) EXCEPT ![used + 1] = NewJob(req[c].text)]
    /\ items' = Kept(Pruned(jobs))
    /\ Goes(c, [pc |-> "lines", op |-> "start", job |-> used + 1, text |-> req[c].text])
    /\ UNCHANGED <<channels, up, busy, work, loop, events, faults, historyVars>>

\* runJob, called without waiting for it, sets workerRunning before its first await.
RunJob(j) ==
    /\ busy' = TRUE
    /\ work' = [work EXCEPT ![CHOOSE w \in Workers : work[w] = Idle] = [pc |-> "list", job |-> j]]

NewLine(l) == [result |-> IF l = Malformed THEN "bad" ELSE "none", registered |-> FALSE]

InsertLines(c) ==
    /\ req[c].pc = "lines"
    /\ items' = [items EXCEPT ![req[c].job] = [l \in req[c].text |-> NewLine(l)]]
    /\ RunJob(req[c].job)
    /\ Goes(c, Idle)
    /\ UNCHANGED <<jobs, used, lines, channels, up, loop, events, faults, historyVars>>

\* The insert of the lines fails: the row stays as it is.
LinesFail(c) ==
    /\ req[c].pc = "lines" /\ Fault
    /\ bare' = bare \union {req[c].job}
    /\ Goes(c, Idle)
    /\ UNCHANGED <<tableVars, up, busy, work, loop, events, cut, crossed>>

\* resumeInspect: an interrupted job with lines left is looked for,
FindInterrupted(c) ==
    /\ req[c].pc = "find"
    /\ LET j == req[c].job
       IN  Goes(c, IF Status(j) = "interrupted" /\ Left(j) # {} THEN [req[c] EXCEPT !.pc = "reopen"] ELSE Idle)
    /\ UNCHANGED <<tableVars, up, busy, work, loop, events, faults, historyVars>>

\* and its row is running again, whatever became of it meanwhile.
Reopen(c) ==
    /\ req[c].pc = "reopen"
    /\ LET j == req[c].job
       IN  /\ jobs' = IF jobs[j] = NoRow THEN jobs ELSE [jobs EXCEPT ![j].status = "running"]
           /\ RunJob(j)
    /\ Goes(c, Idle)
    /\ UNCHANGED <<items, used, lines, channels, up, loop, events, faults, historyVars>>

-----------------------------------------------------------------------------
(* Clearing the lists.                                                     *)

\* clearJob: a job that is not running, and those before it.
ListFinished(c) ==
    /\ req[c].pc = "list"
    /\ LET j == req[c].job
           ids == {k \in Present : k <= j /\ Status(k) # "running"}
       IN  Goes(c, IF Status(j) \in {"none", "running"} THEN Idle ELSE [pc |-> "items", op |-> "clear", ids |-> ids])
    /\ UNCHANGED <<tableVars, up, busy, work, loop, events, faults, historyVars>>

ClearItems(c) ==
    /\ req[c].pc = "items"
    /\ items' = [j \in Jobs |-> IF j \in req[c].ids THEN <<>> ELSE items[j]]
    /\ Goes(c, [req[c] EXCEPT !.pc = "jobs"])
    /\ UNCHANGED <<jobs, used, lines, channels, up, busy, work, loop, events, faults, historyVars>>

ClearJobs(c) ==
    /\ req[c].pc = "jobs"
    /\ jobs' = [j \in Jobs |-> IF j \in req[c].ids THEN NoRow ELSE jobs[j]]
    /\ items' = [j \in Jobs |-> IF j \in req[c].ids THEN <<>> ELSE items[j]]
    /\ Goes(c, Idle)
    /\ UNCHANGED <<used, lines, channels, up, busy, work, loop, events, faults, historyVars>>

Request(c) ==
    \/ CountRunning(c) \/ InsertJob(c) \/ InsertLines(c) \/ LinesFail(c) \/ FindInterrupted(c) \/ Reopen(c)
    \/ ListFinished(c) \/ ClearItems(c) \/ ClearJobs(c)

-----------------------------------------------------------------------------
(* runJob.                                                                 *)

WorkGoes(w, next) ==
    /\ work' = [work EXCEPT ![w] = next]
    /\ UNCHANGED <<used, lines, channels, up, req, loop, events, historyVars>>

\* The lines without a result, or the end when there are none left to do.
Following(j, todo) == IF todo = {} THEN [pc |-> "left", job |-> j] ELSE [pc |-> "look", job |-> j, todo |-> todo]

ListLines(w) ==
    /\ work[w].pc = "list"
    /\ WorkGoes(w, Following(work[w].job, Left(work[w].job)))
    /\ UNCHANGED <<jobs, items, busy, faults>>

\* inspectItem: a link that has a row is known, any other one's page is judged.
LookAtLink(w) ==
    /\ work[w].pc = "look"
    /\ \E l \in work[w].todo, verdict \in {"already", "good", "bad"} :
         /\ (verdict = "already") = (channels[l] > 0)
         /\ WorkGoes(w, [pc |-> "note", job |-> work[w].job, todo |-> work[w].todo \ {l}, line |-> l, verdict |-> verdict])
    /\ UNCHANGED <<jobs, items, busy, faults>>

NoteResult(w) ==
    /\ work[w].pc = "note"
    /\ LET q == work[w]
       IN  /\ items' = IF q.line \notin DOMAIN items[q.job] THEN items
                       ELSE [items EXCEPT ![q.job][q.line] =
                               [result |-> q.verdict, registered |-> @.registered \/ q.verdict = "already"]]
           /\ WorkGoes(w, [pc |-> "count", job |-> q.job, todo |-> q.todo])
    /\ UNCHANGED <<jobs, busy, faults>>

\* The lines left are counted, and then the progress is saved.
CountLeft(w) ==
    /\ work[w].pc = "count"
    /\ WorkGoes(w, [pc |-> "progress", job |-> work[w].job, todo |-> work[w].todo, left |-> Cardinality(Left(work[w].job))])
    /\ UNCHANGED <<jobs, items, busy, faults>>

SaveProgress(w) ==
    /\ work[w].pc = "progress"
    /\ LET q == work[w]
       IN  /\ jobs' = IF jobs[q.job] = NoRow THEN jobs
                      ELSE [jobs EXCEPT ![q.job].processed = jobs[q.job].total - q.left]
           /\ WorkGoes(w, Following(q.job, q.todo))
    /\ UNCHANGED <<items, busy, faults>>

\* After the last line they are counted for the status, then once more for the progress.
CountForStatus(w) ==
    /\ work[w].pc = "left"
    /\ WorkGoes(w, [pc |-> "recount", job |-> work[w].job,
                    status |-> IF Left(work[w].job) = {} THEN "completed" ELSE "interrupted"])
    /\ UNCHANGED <<jobs, items, busy, faults>>

CountForProgress(w) ==
    /\ work[w].pc = "recount"
    /\ WorkGoes(w, [pc |-> "close", job |-> work[w].job, status |-> work[w].status, left |-> Cardinality(Left(work[w].job))])
    /\ UNCHANGED <<jobs, items, busy, faults>>

\* Mutated: the progress is taken to be right already.
MutClosed(row, q) == [row EXCEPT !.status = q.status]
Closed(row, q) == [row EXCEPT !.status = q.status, !.processed = row.total - q.left]

\* The end of runJob clears workerRunning, whoever else works.
Close(w) ==
    /\ work[w].pc = "close"
    /\ jobs' = IF jobs[work[w].job] = NoRow THEN jobs ELSE [jobs EXCEPT ![work[w].job] = Closed(@, work[w])]
    /\ busy' = FALSE
    /\ WorkGoes(w, Idle)
    /\ UNCHANGED <<items, faults>>

\* A query fails or a page is never read,
Throws(w) ==
    /\ work[w].pc \notin {"idle", "catch"} /\ Fault
    /\ WorkGoes(w, [pc |-> "catch", job |-> work[w].job])
    /\ UNCHANGED <<jobs, items, busy>>

\* Mutated: a job that was cut short is forgotten.
MutInterrupted(row) == row
Interrupted(row) == [row EXCEPT !.status = "interrupted"]

\* and the job is interrupted.  If this fails too the process ends: nobody waits for runJob.
Catch(w) ==
    /\ work[w].pc = "catch"
    /\ jobs' = IF jobs[work[w].job] = NoRow THEN jobs ELSE [jobs EXCEPT ![work[w].job] = Interrupted(@)]
    /\ busy' = FALSE
    /\ WorkGoes(w, Idle)
    /\ UNCHANGED <<items, faults>>

Worker(w) ==
    \/ ListLines(w) \/ LookAtLink(w) \/ NoteResult(w) \/ CountLeft(w) \/ SaveProgress(w)
    \/ CountForStatus(w) \/ CountForProgress(w) \/ Close(w) \/ Throws(w) \/ Catch(w)

-----------------------------------------------------------------------------
(* Registering.                                                            *)

Items == {i \in Jobs \X Links : i[2] \in DOMAIN items[i[1]]}

\* The screen lets an admin choose among these (AdminLinkInspectBulk).
Good == {i \in Items : items[i[1]][i[2]].result = "good" /\ ~items[i[1]][i[2]].registered}

BeginLoop(p, chosen) ==
    /\ up /\ Event /\ chosen # {}
    /\ loop' = [loop EXCEPT ![p] = [pc |-> "item", todo |-> chosen]]
    /\ UNCHANGED <<tableVars, up, busy, req, work, faults, historyVars>>

\* startRegister refuses while its loop runs; registerMany is a request of its own.
StartRegister == loop[Server] = Idle /\ \E chosen \in SUBSET Good : BeginLoop(Server, chosen)
RegisterMany == Free # {} /\ \E chosen \in SUBSET Good : BeginLoop(Client, chosen)

LoopGoes(p, next) ==
    /\ loop' = [loop EXCEPT ![p] = next]
    /\ UNCHANGED <<jobs, used, lines, up, busy, req, work, events, bare, cut>>

NextItem(todo) == IF todo = {} THEN Idle ELSE [pc |-> "item", todo |-> todo]

\* registerOne: the item is read; only a good one that is not registered goes on.
ReadItem(p) ==
    /\ loop[p].pc = "item"
    /\ \E i \in loop[p].todo :
         LET j == i[1]  l == i[2]  rest == loop[p].todo \ {i}
             fit == l \in DOMAIN items[j] /\ items[j][l].result = "good" /\ ~items[j][l].registered
         IN  LoopGoes(p, IF fit THEN [pc |-> "look", todo |-> rest, job |-> j, line |-> l] ELSE NextItem(rest))
    /\ UNCHANGED <<items, channels, faults, crossed>>

FindExisting(p) ==
    /\ loop[p].pc = "look"
    /\ LoopGoes(p, [loop[p] EXCEPT !.pc = IF channels[loop[p].line] > 0 THEN "known" ELSE "search"])
    /\ UNCHANGED <<items, channels, faults, crossed>>

\* The item is noted as registered, if it is still there: its result is kept unless the link was known.
Marked(p, known) ==
    IF loop[p].line \notin DOMAIN items[loop[p].job] THEN items
    ELSE [items EXCEPT ![loop[p].job][loop[p].line] = [result |-> IF known THEN "already" ELSE @.result, registered |-> TRUE]]

NoteKnown(p) ==
    /\ loop[p].pc = "known"
    /\ items' = Marked(p, TRUE)
    /\ LoopGoes(p, NextItem(loop[p].todo))
    /\ UNCHANGED <<channels, faults, crossed>>

\* Mutated: createByAdmin relies on the search before it.
MutDuplicate(l) == FALSE
Duplicate(l) == channels[l] > 0

\* createByAdmin looks for the link once more,
SearchAgain(p) ==
    /\ loop[p].pc = "search"
    /\ LoopGoes(p, IF Duplicate(loop[p].line) THEN NextItem(loop[p].todo) ELSE [loop[p] EXCEPT !.pc = "save"])
    /\ UNCHANGED <<items, channels, faults, crossed>>

Saving(l) == {p \in Loops : loop[p].pc = "save" /\ loop[p].line = l}

\* and saves the row.
SaveChannel(p) ==
    /\ loop[p].pc = "save"
    /\ LET l == loop[p].line
       IN  /\ channels' = [channels EXCEPT ![l] = @ + 1]
           /\ crossed' = IF Saving(l) # {p} THEN crossed \union {l} ELSE crossed
    /\ LoopGoes(p, [loop[p] EXCEPT !.pc = "mark"])
    /\ UNCHANGED <<items, faults>>

MarkItem(p) ==
    /\ loop[p].pc = "mark"
    /\ items' = Marked(p, FALSE)
    /\ LoopGoes(p, NextItem(loop[p].todo))
    /\ UNCHANGED <<channels, faults, crossed>>

\* Any call may fail, fetching the picture of the new row too: the next item follows.
RegisterFails(p) ==
    /\ loop[p].pc \notin {"idle", "item"} /\ Fault
    /\ LoopGoes(p, NextItem(loop[p].todo))
    /\ UNCHANGED <<items, channels, crossed>>

Register(p) ==
    \/ ReadItem(p) \/ FindExisting(p) \/ NoteKnown(p) \/ SearchAgain(p) \/ SaveChannel(p) \/ MarkItem(p)
    \/ RegisterFails(p)

-----------------------------------------------------------------------------
(* What happens beside it.                                                 *)

\* A member submits a link that has no row.
Elsewhere ==
    /\ Event
    /\ \E l \in Links :
         /\ channels[l] = 0
         /\ channels' = [channels EXCEPT ![l] = 1]
         /\ crossed' = IF Saving(l) # {} THEN crossed \union {l} ELSE crossed
    /\ UNCHANGED <<jobs, items, used, lines, memoryVars, faults, bare, cut>>

WeekPasses ==
    /\ Present # {} /\ Event
    /\ jobs' = [j \in Jobs |-> IF jobs[j] = NoRow THEN NoRow ELSE [jobs[j] EXCEPT !.old = TRUE]]
    /\ UNCHANGED <<items, used, lines, channels, memoryVars, faults, historyVars>>

\* The process ends at any point.
Crash ==
    /\ up /\ Fault
    /\ up' = FALSE /\ busy' = FALSE
    /\ req' = [c \in Clients |-> Idle]
    /\ work' = [w \in Workers |-> Idle]
    /\ loop' = [p \in Loops |-> Idle]
    /\ cut' = cut \union {work[w].job : w \in {v \in Working : Status(work[v].job) = "completed"}}
    /\ bare' = {}
    /\ UNCHANGED <<tableVars, events, crossed>>

\* onModuleInit, before requests are answered: running jobs are interrupted one by one,
BootMarks ==
    /\ ~up
    /\ \E j \in Present :
         /\ Status(j) = "running"
         /\ jobs' = [jobs EXCEPT ![j] = Interrupted(@)]
    /\ UNCHANGED <<items, used, lines, channels, memoryVars, events, faults, historyVars>>

\* and old ones pruned.
BootEnds ==
    /\ ~up /\ \A j \in Present : Status(j) # "running"
    /\ up' = TRUE
    /\ jobs' = Pruned(jobs)
    /\ items' = Kept(Pruned(jobs))
    /\ UNCHANGED <<used, lines, channels, busy, req, work, loop, events, faults, historyVars>>

Init ==
    /\ up = TRUE
    /\ jobs = [j \in Jobs |-> NoRow]
    /\ items = [j \in Jobs |-> <<>>]
    /\ used = 0 /\ lines = 0
    /\ channels = [l \in Links |-> 0]
    /\ busy = FALSE
    /\ req = [c \in Clients |-> Idle]
    /\ work = [w \in Workers |-> Idle]
    /\ loop = [p \in Loops |-> Idle]
    /\ events = 0 /\ faults = 0
    /\ bare = {} /\ cut = {} /\ crossed = {}

Next ==
    \/ BeginStart \/ BeginResume \/ BeginClear
    \/ StartRegister \/ RegisterMany
    \/ \E c \in Clients : Request(c)
    \/ \E w \in Workers : Worker(w)
    \/ \E p \in Loops : Register(p)
    \/ Elsewhere \/ WeekPasses
    \/ Crash \/ BootMarks \/ BootEnds

Spec == Init /\ [][Next]_vars

\* Queries and pages answer or fail, and a server that ended is started again.
Fairness ==
    /\ \A c \in Clients : WF_vars(Request(c))
    /\ \A w \in Workers : WF_vars(Worker(w))
    /\ WF_vars(BootMarks) /\ WF_vars(BootEnds)

FairSpec == Spec /\ Fairness

-----------------------------------------------------------------------------
(* Properties                                                              *)

\* A job that is shown as running comes to an end, over crashes, failures, and two runs of
\* it at once: unless its lines could not be inserted, for then nobody runs it.
JobsEnd ==
    \A j \in Jobs : Status(j) = "running" ~> Status(j) # "running" \/ j \in bare

\* A job that is shown as completed has a result for every line, and once nobody works on it
\* its progress says so: also when it was resumed twice at once, unless a crash then cut off
\* the later of the two.
CompletedMeansDone ==
    \A j \in Jobs :
        Status(j) = "completed" =>
            /\ Left(j) = {}
            /\ \/ jobs[j].processed = jobs[j].total
               \/ j \in cut
               \/ \E w \in Working : work[w].job = j

\* Registering gives no link a second row, in whatever order the loops, members and crashes
\* come, unless another registration came between its last search and its save; and an item
\* that is shown as registered has a row.
RegisteredOnce ==
    /\ \A l \in Links : channels[l] > 1 => l \in crossed
    /\ \A i \in Items : items[i[1]][i[2]].registered => channels[i[2]] > 0

===============================================================================
