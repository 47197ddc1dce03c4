------------------------------- MODULE StatsJob -------------------------------
(***************************************************************************)
(* The collection runs (backend/src/stats/stats-job.service.ts): the       *)
(* server's cron, the GitHub schedule and the admin screen start them, a   *)
(* row of stats_runs records each, and a restart closes and reports the    *)
(* rows the last process left open.                                        *)
(*                                                                         *)
(* What the service knows of a run (running, currentRunId, currentRunMode) *)
(* is set when the insert of its row has come back and cleared by whatever *)
(* run finishes, so that runs can overlap; a history variable, mixed,      *)
(* remembers which did.  What a run collects and its progress numbers are  *)
(* left out, and so is the weekly classification, which sets its flag      *)
(* before its first await and has nothing to interleave with.  Names with  *)
(* Mut are mutated forms of the definition after them.                     *)
(***************************************************************************)
EXTENDS Naturals, FiniteSets

CONSTANTS
    Requests,    \* callers of startPipeline and startOne
    MaxRuns,     \* bound: runs that begin
    MaxCrashes   \* bound: times the process dies

ASSUME JobAssumption == IsFiniteSet(Requests) /\ MaxRuns \in Nat /\ MaxCrashes \in Nat

Runs == 1..MaxRuns
NoRun == 0
Modes == {"light", "full"}

VARIABLES
    row,      \* stats_runs: absent, open, completed or interrupted
    work,     \* what the process does for a run
    closing,  \* the row that a finishing run is about to close
    job,      \* status.running, currentRunId, currentRunMode
    recent,   \* modes that started within their RECENT_RUN_WINDOW_MS (lastStartedAt)
    request,  \* the callers
    begun,    \* runs begun so far: their number
    boot,     \* onModuleInit: its stage, and the runs that stage has left to do
    bell,     \* runs with a notification (admin_notifications has unique keys)
    told,     \* how often Telegram was told of a run
    mixed,    \* history: runs at work while another one began or finished
    failed,   \* history: interrupted runs whose report failed
    cut,      \* history: interrupted runs whose report a crash cut off
    halfBoot, \* history: the last start gave up with an error
    crashes

vars == <<row, work, closing, job, recent, request, begun, boot, bell, told, mixed,
          failed, cut, halfBoot, crashes>>

jobVars == <<row, work, closing, job, recent, mixed>>
bootVars == <<boot, bell, told, failed, cut, halfBoot, crashes>>

Idle == [pc |-> "idle"]
Up == [stage |-> "up", left |-> {}, found |-> {}]
NoJob == [running |-> FALSE, id |-> NoRun, mode |-> "none"]
Live == {r \in Runs : work[r] \in {"working", "closing"}}

-----------------------------------------------------------------------------
(* Starting a run *)

\* beginRun up to the insert of the row, and the request that waits for it.
Begin(q, mode, kind) ==
    /\ begun' = begun + 1
    /\ request' = [request EXCEPT ![q] =
                      [pc |-> "inserting", run |-> begun + 1, mode |-> mode, kind |-> kind]]

Waiting == {q \in Requests : request[q].pc = "waiting"}

\* Room for one more run under the bound, those promised to waiting requests included.
MayBegin == begun + Cardinality(Waiting) < MaxRuns

Asks(q) == boot = Up /\ request[q] = Idle /\ MayBegin

\* startedRecently, asked by the schedules only.
Skipped(mode, kind) == kind = "scheduled" /\ mode \in recent

\* startPipeline, called by a schedule or by an administrator, finds no run.  A call that
\* is refused changes nothing and is no step.
StartPipeline(q) ==
    /\ Asks(q)
    /\ ~job.running
    /\ \E mode \in Modes, kind \in {"scheduled", "admin"} :
          /\ kind = "admin" => mode = "light"
          /\ ~Skipped(mode, kind)
          /\ Begin(q, mode, kind)
    /\ UNCHANGED <<jobVars, bootVars>>

StartOne(q) ==
    /\ Asks(q)
    /\ ~job.running
    /\ Begin(q, "full", "one")
    /\ UNCHANGED <<jobVars, bootVars>>

\* decideCollectOverlap: only a full run that meets a light one waits.
WaitForLight(q) ==
    /\ Asks(q)
    /\ job.running /\ job.mode = "light"
    /\ request' = [request EXCEPT ![q] = [pc |-> "waiting"]]
    /\ UNCHANGED <<jobVars, bootVars, begun>>

\* waitUntilIdle sees no run: the full run begins, with no second look at recent.
WaitEnds(q) ==
    /\ request[q].pc = "waiting"
    /\ ~job.running
    /\ Begin(q, "full", "scheduled")
    /\ UNCHANGED <<jobVars, bootVars>>

GiveUp(q) ==
    /\ request[q].pc = "waiting"
    /\ job.running
    /\ request' = [request EXCEPT ![q] = Idle]
    /\ UNCHANGED <<jobVars, bootVars, begun>>

\* Mutated: beginRun that keeps neither the id nor the mode.
MutInsertLands(q) ==
    /\ request[q].pc = "inserting"
    /\ LET r == request[q].run
           others == Live
       IN  /\ row' = [row EXCEPT ![r] = "open"]
           /\ work' = [work EXCEPT ![r] = "working"]
           /\ job' = [running |-> TRUE, id |-> NoRun, mode |-> "none"]
           /\ mixed' = mixed \cup (IF others = {} THEN {} ELSE others \cup {r})
    /\ recent' = recent \cup (IF request[q].kind = "one" THEN {} ELSE {request[q].mode})
    /\ request' = [request EXCEPT ![q] = Idle]
    /\ UNCHANGED <<closing, begun, bootVars>>

\* The insert comes back: the rest of beginRun, and the work starts.
InsertLands(q) ==
    /\ request[q].pc = "inserting"
    /\ LET r == request[q].run
           others == Live
       IN  /\ row' = [row EXCEPT ![r] = "open"]
           /\ work' = [work EXCEPT ![r] = "working"]
           /\ job' = [running |-> TRUE, id |-> r, mode |-> request[q].mode]
           /\ mixed' = mixed \cup (IF others = {} THEN {} ELSE others \cup {r})
    /\ recent' = recent \cup (IF request[q].kind = "one" THEN {} ELSE {request[q].mode})
    /\ request' = [request EXCEPT ![q] = Idle]
    /\ UNCHANGED <<closing, begun, bootVars>>

InsertFails(q) ==
    /\ request[q].pc = "inserting"
    /\ request' = [request EXCEPT ![q] = Idle]
    /\ UNCHANGED <<jobVars, begun, bootVars>>

\* RECENT_RUN_WINDOW_MS has passed since the last start of this mode.
Forget(mode) ==
    /\ mode \in recent
    /\ recent' = recent \ {mode}
    /\ UNCHANGED <<row, work, closing, job, mixed, request, begun, bootVars>>

-----------------------------------------------------------------------------
(* Finishing a run *)

\* Mutated: finishRun that clears running together with the id.
MutWorkEnds(r) ==
    /\ work[r] = "working"
    /\ job' = [job EXCEPT !.running = @ /\ job.id = NoRun]
    /\ work' = [work EXCEPT ![r] = IF job.id = NoRun THEN "done" ELSE "closing"]
    /\ closing' = [closing EXCEPT ![r] = job.id]
    /\ UNCHANGED <<row, recent, mixed, request, begun, bootVars>>

\* The work is over, well or badly: finishRun, which closes the row of the current run,
\* whichever that is.
WorkEnds(r) ==
    /\ work[r] = "working"
    /\ job' = [job EXCEPT !.running = FALSE]
    /\ work' = [work EXCEPT ![r] = IF job.id = NoRun THEN "done" ELSE "closing"]
    /\ closing' = [closing EXCEPT ![r] = job.id]
    /\ UNCHANGED <<row, recent, mixed, request, begun, bootVars>>

\* The update comes back.  One that fails rejects a promise nobody looks at, and ends the
\* process: see Crash.
CloseLands(r) ==
    /\ work[r] = "closing"
    /\ row' = [row EXCEPT ![closing[r]] = "completed"]
    /\ work' = [work EXCEPT ![r] = "done"]
    /\ closing' = [closing EXCEPT ![r] = NoRun]
    /\ job' = [job EXCEPT !.id = NoRun, !.mode = "none"]
    /\ UNCHANGED <<recent, mixed, request, begun, bootVars>>

-----------------------------------------------------------------------------
(* Dying and starting again *)

Inserting == {request[q].run : q \in {p \in Requests : request[p].pc = "inserting"}}
Untold == {r \in Runs : row[r] = "interrupted" /\ told[r] = 0}
Closing == {closing[r] : r \in {s \in Runs : work[s] = "closing"}}

\* The process dies: what is on its way to the database may have arrived or not.
Crash ==
    /\ crashes < MaxCrashes
    /\ crashes' = crashes + 1
    /\ \E inserted \in SUBSET Inserting, closed \in SUBSET Closing :
          /\ row' = [r \in Runs |-> IF r \in inserted THEN "open"
                                    ELSE IF r \in closed THEN "completed" ELSE row[r]]
          /\ work' = [r \in Runs |-> IF r \in Live \cup inserted THEN "dead" ELSE work[r]]
    /\ closing' = [r \in Runs |-> NoRun]
    /\ job' = NoJob
    /\ recent' = {}
    /\ request' = [q \in Requests |-> Idle]
    /\ boot' = [stage |-> "find", left |-> {}, found |-> {}]
    /\ cut' = cut \cup Untold
    /\ UNCHANGED <<begun, bell, told, mixed, failed, halfBoot>>

Open == {r \in Runs : row[r] = "open"}

\* Mutated: onModuleInit that looks at the last run only.
MutBootFind ==
    /\ boot.stage = "find"
    /\ boot' = IF Open = {} THEN Up
               ELSE LET last == CHOOSE r \in Open : \A s \in Open : s <= r
                    IN  [stage |-> "mark", left |-> {last}, found |-> {last}]
    /\ halfBoot' = FALSE
    /\ UNCHANGED <<jobVars, request, begun, bell, told, failed, cut, crashes>>

\* onModuleInit reads the open rows; nothing else runs before it is done.
BootFind ==
    /\ boot.stage = "find"
    /\ boot' = IF Open = {} THEN Up ELSE [stage |-> "mark", left |-> Open, found |-> Open]
    /\ halfBoot' = FALSE
    /\ UNCHANGED <<jobVars, request, begun, bell, told, failed, cut, crashes>>

\* One row after the other is closed as interrupted, and only then are they reported.
BootMark(r) ==
    /\ boot.stage = "mark" /\ r \in boot.left
    /\ row' = [row EXCEPT ![r] = "interrupted"]
    /\ boot' = IF boot.left = {r}
               THEN [boot EXCEPT !.stage = "alert", !.left = boot.found]
               ELSE [boot EXCEPT !.left = @ \ {r}]
    /\ UNCHANGED <<work, closing, job, recent, mixed, request, begun, bell, told, failed,
                   cut, halfBoot, crashes>>

\* A query fails: the error is logged and the server goes on.
BootFails ==
    /\ boot.stage \in {"find", "mark"}
    /\ boot' = Up
    /\ halfBoot' = TRUE
    /\ failed' = failed \cup Untold
    /\ UNCHANGED <<jobVars, request, begun, bell, told, cut, crashes>>

Reported(r) == IF boot.left = {r} THEN Up
               ELSE [boot EXCEPT !.stage = "alert", !.left = @ \ {r}]

\* Mutated: alertInterruptedRuns that takes a new notification for an old one.
MutAlertBell(r) ==
    /\ boot.stage = "alert" /\ r \in boot.left
    /\ bell' = bell \cup {r}
    /\ boot' = IF r \notin bell THEN Reported(r)
               ELSE [boot EXCEPT !.stage = "tell", !.found = {r}]
    /\ UNCHANGED <<jobVars, request, begun, told, failed, cut, halfBoot, crashes>>

\* notifyOnce: a notification with this key is made if there is none yet.
AlertBell(r) ==
    /\ boot.stage = "alert" /\ r \in boot.left
    /\ bell' = bell \cup {r}
    /\ boot' = IF r \in bell THEN Reported(r)
               ELSE [boot EXCEPT !.stage = "tell", !.found = {r}]
    /\ UNCHANGED <<jobVars, request, begun, told, failed, cut, halfBoot, crashes>>

\* Mutated: alertInterruptedRuns that tells whatever notifyOnce answered.
MutAlertFails(r) ==
    /\ boot.stage = "alert" /\ r \in boot.left
    /\ boot' = [boot EXCEPT !.stage = "tell", !.found = {r}]
    /\ bell' \in {bell, bell \cup {r}}
    /\ failed' = failed \cup {r}
    /\ UNCHANGED <<jobVars, request, begun, told, cut, halfBoot, crashes>>

\* A query of notifyOnce fails, or its insert does, done or not, and it answers that there
\* was one.
AlertFails(r) ==
    /\ boot.stage = "alert" /\ r \in boot.left
    /\ boot' = Reported(r)
    /\ bell' \in {bell, bell \cup {r}}
    /\ failed' = failed \cup {r}
    /\ UNCHANGED <<jobVars, request, begun, told, cut, halfBoot, crashes>>

\* notifyText, whose errors are swallowed.
AlertTell(r) ==
    /\ boot.stage = "tell" /\ boot.found = {r}
    /\ told' = [told EXCEPT ![r] = @ + 1]
    /\ boot' = Reported(r)
    /\ UNCHANGED <<jobVars, request, begun, bell, failed, cut, halfBoot, crashes>>

-----------------------------------------------------------------------------
\* An empty table, and the first start.
Init ==
    /\ row = [r \in Runs |-> "absent"]
    /\ work = [r \in Runs |-> "none"]
    /\ closing = [r \in Runs |-> NoRun]
    /\ job = NoJob
    /\ recent = {}
    /\ request = [q \in Requests |-> Idle]
    /\ begun = 0
    /\ boot = [stage |-> "find", left |-> {}, found |-> {}]
    /\ bell = {}
    /\ told = [r \in Runs |-> 0]
    /\ mixed = {} /\ failed = {} /\ cut = {} /\ halfBoot = FALSE
    /\ crashes = 0

Ask(q) == StartPipeline(q) \/ StartOne(q) \/ WaitForLight(q)
Answer(q) == WaitEnds(q) \/ GiveUp(q) \/ InsertLands(q) \/ InsertFails(q)
Finish(r) == WorkEnds(r) \/ CloseLands(r)
Alert(r) == AlertBell(r) \/ AlertFails(r) \/ AlertTell(r)

Next ==
    \/ \E q \in Requests : Ask(q) \/ Answer(q)
    \/ \E mode \in Modes : Forget(mode)
    \/ \E r \in Runs : Finish(r) \/ BootMark(r) \/ Alert(r)
    \/ BootFind
    \/ BootFails
    \/ Crash

Boot == BootFind \/ BootFails \/ \E r \in Runs : BootMark(r) \/ Alert(r)

\* Queries end, a run has deadlines for its phases, and a server that died is started.
Fairness ==
    /\ \A q \in Requests : WF_vars(Answer(q))
    /\ \A r \in Runs : WF_vars(Finish(r))
    /\ WF_vars(Boot)

Spec == Init /\ [][Next]_vars
FairSpec == Spec /\ Fairness

-----------------------------------------------------------------------------
(* Properties *)

\* Every variable keeps its shape, and the id and the mode of the current run are set
\* and cleared together.
TypeOK ==
    /\ row \in [Runs -> {"absent", "open", "completed", "interrupted"}]
    /\ work \in [Runs -> {"none", "working", "closing", "done", "dead"}]
    /\ closing \in [Runs -> {NoRun} \cup Runs]
    /\ job \in [running : BOOLEAN, id : {NoRun} \cup Runs, mode : {"none"} \cup Modes]
    /\ job.id = NoRun <=> job.mode = "none"
    /\ recent \subseteq Modes
    /\ request \in [Requests -> [pc : {"idle", "waiting"}]
                                \cup [pc : {"inserting"}, run : Runs, mode : Modes,
                                      kind : {"scheduled", "admin", "one"}]]
    /\ begun \in {NoRun} \cup Runs
    /\ boot \in [stage : {"up", "find", "mark", "alert", "tell"},
                 left : SUBSET Runs, found : SUBSET Runs]
    /\ bell \subseteq Runs /\ mixed \subseteq Runs
    /\ failed \subseteq Runs /\ cut \subseteq Runs
    /\ told \in [Runs -> Nat]
    /\ halfBoot \in BOOLEAN
    /\ crashes \in 0..MaxCrashes

\* Whatever overlaps, the service never stays busy: it says that a run is going on only
\* while one works, so that no schedule is refused for ever.
NeverStuck == job.running => \E r \in Runs : work[r] = "working"

\* Rows left open by a process that died are closed by the next start, in whatever state
\* it left them, before anything else may begin.
BootClosesOldRuns ==
    boot = Up /\ ~halfBoot => \A r \in Runs : work[r] = "dead" => row[r] # "open"

\* A run that overlapped no other can be trusted: the service shows it while it works,
\* its row is open until its work is over, and completed only after that.
UnmixedRunsTell ==
    \A r \in Runs \ mixed :
        /\ row[r] = "completed" => work[r] \in {"done", "dead"}
        /\ work[r] = "working" => job.running /\ job.id = r /\ row[r] = "open"
        /\ work[r] = "done" => row[r] = "completed"

\* An interrupted run is reported, and once, unless the report failed or was cut off.
ReportedOnce ==
    \A r \in Runs :
        /\ told[r] <= 1
        /\ boot = Up /\ row[r] = "interrupted" =>
              r \in failed \cup cut \/ (r \in bell /\ told[r] = 1)

\* The notices of interrupted runs are a notice book: whatever starts, crashes and failed
\* queries come together, no run is told of twice, and none that is not in the list.
Owed == IF boot.stage = "tell" THEN boot.found ELSE {}
Notices == INSTANCE NoticeBook WITH Keys <- Runs, listed <- bell, owed <- Owed, sent <- told
IsNoticeBook == Notices!BookSpec

\* A row that is open is closed in the end, by its own run or by the next start.
EveryRunCloses ==
    \A r \in Runs : row[r] = "open" ~> row[r] # "open" \/ r \in mixed \/ halfBoot

-----------------------------------------------------------------------------
(* What the texts of the repository say and the code does not do *)

\* stats-collect.logic.spec.ts:71 and 80, stats-collect.logic.ts:119: while a run is going
\* on a light run is skipped, and a full one does not start beside a full one.
OneRunAtATime == Cardinality({r \in Runs : work[r] = "working"}) <= 1

\* stats-job.service.ts:149-152: a run the server died in is reported at once when it
\* comes up again.
EveryInterruptionTold ==
    boot = Up => \A r \in Runs : row[r] = "interrupted" => r \in bell \cup failed
=============================================================================
