---------------------------- MODULE StatsJobProofs ----------------------------
(***************************************************************************)
(* Proofs about StatsJob: the shape of its state, that the service is never *)
(* busy for ever, what a restart does with the rows it finds, and what can  *)
(* be trusted of a run that overlapped no other.                            *)
(***************************************************************************)
EXTENDS StatsJob, FiniteSetTheorems, TLAPS

\* A waiting request can count on a number for its run.
RoomKept == begun + Cardinality(Waiting) <= MaxRuns

\* A run whose insert is on its way is one nobody else has, and has no row yet.
FreshRuns ==
    /\ \A q \in Requests : request[q].pc = "inserting" =>
          request[q].run <= begun /\ work[request[q].run] = "none"
    /\ \A p, q \in Requests :
          request[p].pc = "inserting" /\ request[q].pc = "inserting" /\ p # q =>
              request[p].run # request[q].run
    /\ \A r \in Runs : r > begun => work[r] = "none"
    /\ \A r \in Runs : work[r] = "none" => row[r] = "absent"

\* Nothing is served and nothing runs before the start-up is done.
BootsAlone ==
    /\ boot.stage = "up" => boot = Up
    /\ boot.stage # "up" => (\A q \in Requests : request[q].pc = "idle") /\ Live = {}

\* The current run is a live one.  A run that overlapped no other is the only live one
\* and the current one; others may close the row of a run that overlapped them, and
\* never one that a restart has interrupted.
CurrentRun ==
    /\ job.id # NoRun => job.id \in Live
    /\ \A r \in Live : row[r] \in {"open", "completed"}
    /\ \A r \in Live \ mixed :
          /\ Live = {r} /\ row[r] = "open" /\ job.id = r
          /\ work[r] = "working" => job.running
          /\ work[r] = "closing" => closing[r] = r
    /\ \A r \in Runs : work[r] = "closing" =>
          /\ closing[r] \in Runs
          /\ row[closing[r]] \in {"open", "completed"}
          /\ closing[r] = r \/ closing[r] \in mixed

\* A run that was interrupted is over; one that overlapped no other is completed exactly
\* by its own end.
RowsTell ==
    /\ \A r \in Runs : row[r] = "interrupted" => work[r] \in {"done", "dead"}
    /\ \A r \in Runs \ mixed :
          /\ row[r] = "completed" => work[r] \in {"done", "dead"}
          /\ work[r] = "done" => row[r] = "completed"

\* An open row of a dead run is one the start-up has still to close.
DeadRunsFound ==
    \A r \in Runs : work[r] = "dead" /\ row[r] = "open" =>
        \/ halfBoot \/ boot.stage = "find"
        \/ boot.stage = "mark" /\ r \in boot.left

\* What the start-up has before it and behind it.
BootInOrder ==
    /\ boot.stage = "mark" =>
          /\ boot.left \subseteq boot.found /\ boot.found \cap bell = {}
          /\ \A r \in boot.found : row[r] = IF r \in boot.left THEN "open" ELSE "interrupted"
    /\ boot.stage = "alert" => boot.left \cap bell = {}
    /\ boot.stage = "tell" =>
          /\ boot.found \subseteq boot.left \cap bell
          /\ boot.left \cap bell \subseteq boot.found
    /\ boot.stage \in {"alert", "tell"} => \A r \in boot.left : row[r] = "interrupted"
    /\ \A r \in bell : row[r] = "interrupted"

\* A run is told of after its notification was made, and an interrupted run that was not
\* told of is before the start-up, or failed, or was cut off.
ToldInOrder ==
    \A r \in Runs :
        /\ \/ told[r] = 0
           \/ told[r] = 1 /\ r \in bell /\ ~(boot.stage = "tell" /\ r \in boot.found)
        /\ row[r] = "interrupted" =>
              \/ r \in failed \cup cut
              \/ r \in bell /\ told[r] = 1
              \/ boot.stage = "mark" /\ r \in boot.found \ boot.left
              \/ boot.stage \in {"alert", "tell"} /\ r \in boot.left

IInv == /\ TypeOK /\ RoomKept /\ FreshRuns /\ BootsAlone /\ CurrentRun /\ RowsTell
        /\ DeadRunsFound /\ BootInOrder /\ ToldInOrder /\ NeverStuck

-----------------------------------------------------------------------------
LEMMA Bounds == /\ MaxRuns \in Nat /\ MaxCrashes \in Nat /\ IsFiniteSet(Requests)
                /\ Runs = 1..MaxRuns /\ NoRun = 0 /\ NoRun \notin Runs
                /\ \A n \in {NoRun} \cup Runs : n \in Nat /\ n <= MaxRuns
  BY JobAssumption DEF Runs, NoRun

LEMMA WaitingCounts == /\ IsFiniteSet(Waiting) /\ Cardinality(Waiting) \in Nat
                       /\ \A q \in Waiting : Cardinality(Waiting) >= 1
  <1>1. IsFiniteSet(Waiting) /\ Cardinality(Waiting) \in Nat
    BY Bounds, FS_Subset, FS_CardinalityType DEF Waiting
  <1>2. ASSUME NEW q \in Waiting PROVE Cardinality(Waiting) >= 1
    BY <1>1, <1>2, FS_EmptySet
  <1> QED BY <1>1, <1>2

-----------------------------------------------------------------------------
(* The shape of the state *)

\* A request that begins its run takes the next number; there is one to take.
LEMMA BeginHasShape ==
    ASSUME TypeOK, begun < MaxRuns, NEW q \in Requests, NEW mode \in Modes,
           NEW kind \in {"scheduled", "admin", "one"}, Begin(q, mode, kind)
    PROVE  /\ begun' \in {NoRun} \cup Runs
           /\ request' \in [Requests -> [pc : {"idle", "waiting"}]
                                \cup [pc : {"inserting"}, run : Runs, mode : Modes,
                                      kind : {"scheduled", "admin", "one"}]]
  <1>1. begun + 1 \in Runs
    BY Bounds DEF TypeOK
  <1> DEFINE new == [pc |-> "inserting", run |-> begun + 1, mode |-> mode, kind |-> kind]
  <1>2. new \in [pc : {"inserting"}, run : Runs, mode : Modes,
                 kind : {"scheduled", "admin", "one"}]
    BY <1>1
  <1>3. begun' = begun + 1 /\ request' = [request EXCEPT ![q] = new]
    BY DEF Begin
  <1> HIDE DEF new
  <1> QED BY <1>1, <1>2, <1>3 DEF TypeOK

LEMMA AskHasShape ==
    ASSUME TypeOK, RoomKept, NEW q \in Requests, Ask(q) \/ Answer(q)
    PROVE  TypeOK'
  <1>1. begun \in Nat /\ Cardinality(Waiting) \in Nat
    BY Bounds, WaitingCounts DEF TypeOK
  <1>2. CASE StartPipeline(q)
    <2>1. begun < MaxRuns
      BY <1>1, <1>2, Bounds DEF StartPipeline, Asks, MayBegin
    <2>2. PICK mode \in Modes, kind \in {"scheduled", "admin"} : Begin(q, mode, kind)
      BY <1>2 DEF StartPipeline
    <2> QED BY <1>2, <2>1, <2>2, BeginHasShape
         DEF TypeOK, StartPipeline, jobVars, bootVars
  <1>3. CASE StartOne(q)
    <2>1. begun < MaxRuns
      BY <1>1, <1>3, Bounds DEF StartOne, Asks, MayBegin
    <2> QED BY <1>3, <2>1, BeginHasShape DEF TypeOK, StartOne, jobVars, bootVars, Modes
  <1>4. CASE WaitEnds(q)
    <2>1. q \in Waiting
      BY <1>4 DEF WaitEnds, Waiting
    <2>2. begun < MaxRuns
      BY <1>1, <2>1, Bounds, WaitingCounts DEF RoomKept
    <2> QED BY <1>4, <2>2, BeginHasShape DEF TypeOK, WaitEnds, jobVars, bootVars, Modes
  <1>5. CASE WaitForLight(q)
    BY <1>5 DEF TypeOK, WaitForLight, jobVars, bootVars
  <1>6. CASE GiveUp(q) \/ InsertFails(q)
    BY <1>6 DEF TypeOK, GiveUp, InsertFails, Idle, jobVars, bootVars
  <1>7. CASE InsertLands(q)
    <2>1. /\ request[q].run \in Runs /\ request[q].mode \in Modes
          /\ request[q].kind \in {"scheduled", "admin", "one"}
      BY <1>7 DEF TypeOK, InsertLands
    <2>2. request' \in [Requests -> [pc : {"idle", "waiting"}]
                                \cup [pc : {"inserting"}, run : Runs, mode : Modes,
                                      kind : {"scheduled", "admin", "one"}]]
      BY <1>7 DEF TypeOK, InsertLands, Idle
    <2>3. /\ job' = [running |-> TRUE, id |-> request[q].run, mode |-> request[q].mode]
          /\ job' \in [running : BOOLEAN, id : {NoRun} \cup Runs, mode : {"none"} \cup Modes]
      BY <1>7, <2>1 DEF InsertLands
    <2>4. job'.id # NoRun /\ job'.mode # "none"
      BY <2>1, <2>3, Bounds DEF Modes
    <2>5. mixed' \subseteq Runs /\ recent' \subseteq Modes
      BY <1>7, <2>1 DEF TypeOK, InsertLands, Live
    <2>6. row' \in [Runs -> {"absent", "open", "completed", "interrupted"}]
          /\ work' \in [Runs -> {"none", "working", "closing", "done", "dead"}]
      BY <1>7 DEF TypeOK, InsertLands
    <2> QED BY <1>7, <2>2, <2>3, <2>4, <2>5, <2>6 DEF TypeOK, InsertLands, bootVars
  <1> QED BY <1>2, <1>3, <1>4, <1>5, <1>6, <1>7 DEF Ask, Answer

LEMMA FinishHasShape ==
    ASSUME TypeOK, NEW r \in Runs, Finish(r)
    PROVE  TypeOK'
  <1>1. CASE WorkEnds(r)
    BY <1>1 DEF TypeOK, WorkEnds, bootVars
  <1>2. CASE CloseLands(r)
    BY <1>2 DEF TypeOK, CloseLands, bootVars
  <1> QED BY <1>1, <1>2 DEF Finish

LEMMA BootHasShape ==
    ASSUME TypeOK, Boot
    PROVE  TypeOK'
  <1>1. Up \in [stage : {"up", "find", "mark", "alert", "tell"},
                left : SUBSET Runs, found : SUBSET Runs]
    BY DEF Up
  <1>2. CASE BootFind
    BY <1>1, <1>2 DEF TypeOK, BootFind, jobVars, Open
  <1>3. CASE BootFails
    BY <1>1, <1>3 DEF TypeOK, BootFails, jobVars, Untold
  <1>4. ASSUME NEW s \in Runs, BootMark(s) PROVE TypeOK'
    BY <1>4 DEF TypeOK, BootMark
  <1>5. ASSUME NEW s \in Runs PROVE Reported(s) \in
               [stage : {"up", "find", "mark", "alert", "tell"},
                left : SUBSET Runs, found : SUBSET Runs]
    BY <1>1 DEF TypeOK, Reported
  <1>6. ASSUME NEW s \in Runs, Alert(s) PROVE TypeOK'
    <2>1. CASE AlertBell(s)
      BY <1>5, <2>1 DEF TypeOK, AlertBell, jobVars
    <2>2. CASE AlertFails(s)
      BY <1>5, <2>2 DEF TypeOK, AlertFails, jobVars
    <2>3. CASE AlertTell(s)
      BY <1>5, <2>3 DEF TypeOK, AlertTell, jobVars
    <2> QED BY <1>6, <2>1, <2>2, <2>3 DEF Alert
  <1> QED BY <1>2, <1>3, <1>4, <1>6 DEF Boot

LEMMA CrashHasShape ==
    ASSUME TypeOK, Crash
    PROVE  TypeOK'
  <1>1. PICK inserted \in SUBSET Inserting, closed \in SUBSET Closing :
          /\ row' = [r \in Runs |-> IF r \in inserted THEN "open"
                                    ELSE IF r \in closed THEN "completed" ELSE row[r]]
          /\ work' = [r \in Runs |-> IF r \in Live \cup inserted THEN "dead" ELSE work[r]]
    BY DEF Crash
  <1>2. row' \in [Runs -> {"absent", "open", "completed", "interrupted"}]
    <2> SUFFICES ASSUME NEW r \in Runs
                 PROVE  row'[r] \in {"absent", "open", "completed", "interrupted"}
      BY <1>1
    <2> QED BY <1>1 DEF TypeOK
  <1>3. work' \in [Runs -> {"none", "working", "closing", "done", "dead"}]
    BY <1>1 DEF TypeOK
  <1>4. job' \in [running : BOOLEAN, id : {NoRun} \cup Runs, mode : {"none"} \cup Modes]
        /\ (job'.id = NoRun <=> job'.mode = "none")
    BY DEF Crash, NoJob
  <1>5. cut' \subseteq Runs /\ crashes' \in 0..MaxCrashes
    <2>1. crashes < MaxCrashes /\ crashes' = crashes + 1 /\ cut' = cut \cup Untold
      BY DEF Crash
    <2>2. Untold \subseteq Runs
      BY DEF Untold
    <2>3. crashes \in Nat /\ cut \subseteq Runs
      BY Bounds DEF TypeOK
    <2> QED BY <2>1, <2>2, <2>3, Bounds
  <1>6. /\ closing' = [r \in Runs |-> NoRun] /\ recent' = {}
        /\ request' = [q \in Requests |-> [pc |-> "idle"]]
        /\ boot' = [stage |-> "find", left |-> {}, found |-> {}]
        /\ UNCHANGED <<begun, bell, told, mixed, failed, halfBoot>>
    BY DEF Crash, Idle
  <1> QED BY <1>2, <1>3, <1>4, <1>5, <1>6 DEF TypeOK

LEMMA ShapeKept ==
    ASSUME TypeOK, RoomKept, [Next]_vars
    PROVE  TypeOK'
  <1>1. CASE UNCHANGED vars
    BY <1>1 DEF TypeOK, vars
  <1>2. ASSUME NEW mode \in Modes, Forget(mode) PROVE TypeOK'
    BY <1>2 DEF TypeOK, Forget, bootVars
  <1> QED BY <1>1, <1>2, AskHasShape, FinishHasShape, BootHasShape, CrashHasShape
       DEF Next, Boot

-----------------------------------------------------------------------------
(* Numbers of runs *)

LEMMA AskKeepsRoom ==
    ASSUME TypeOK, RoomKept, NEW q \in Requests, Ask(q) \/ Answer(q)
    PROVE  RoomKept'
  <1> DEFINE n == Cardinality(Waiting)
  <1>1. begun \in Nat /\ n \in Nat /\ MaxRuns \in Nat /\ IsFiniteSet(Waiting)
    BY Bounds, WaitingCounts DEF TypeOK
  <1>2. begun + n <= MaxRuns
    BY DEF RoomKept
  <1>3. CASE StartPipeline(q) \/ StartOne(q)
    <2>1. PICK mode, kind : Begin(q, mode, kind)
      BY <1>3 DEF StartPipeline, StartOne
    <2>2. request[q].pc = "idle" /\ MayBegin
      BY <1>3 DEF StartPipeline, StartOne, Asks, Idle
    <2>3. \A p \in Requests : request'[p].pc = IF p = q THEN "inserting" ELSE request[p].pc
      BY <2>1 DEF TypeOK, Begin
    <2>4. Waiting' = Waiting /\ begun' = begun + 1
      BY <2>1, <2>2, <2>3 DEF Waiting, Begin
    <2> QED BY <1>1, <2>2, <2>4 DEF RoomKept, MayBegin
  <1>4. CASE WaitForLight(q)
    <2>1. request[q].pc = "idle" /\ MayBegin /\ begun' = begun
      BY <1>4 DEF WaitForLight, Asks, Idle
    <2>2. \A p \in Requests : request'[p].pc = IF p = q THEN "waiting" ELSE request[p].pc
      BY <1>4 DEF TypeOK, WaitForLight
    <2>3. Waiting' = Waiting \cup {q} /\ q \notin Waiting
      BY <2>1, <2>2 DEF Waiting
    <2>4. Cardinality(Waiting)' = n + 1
      BY <1>1, <2>3, FS_AddElement
    <2> QED BY <1>1, <2>1, <2>4 DEF RoomKept, MayBegin
  <1>5. ASSUME q \in Waiting, Waiting' = Waiting \ {q}, begun' \in {begun, begun + 1}
        PROVE  RoomKept'
    <2>1. Cardinality(Waiting)' = n - 1
      BY <1>1, <1>5, FS_RemoveElement
    <2> QED BY <1>1, <1>2, <1>5, <2>1 DEF RoomKept
  <1>6. CASE WaitEnds(q) \/ GiveUp(q)
    <2>1. request[q].pc = "waiting"
      BY <1>6 DEF WaitEnds, GiveUp
    <2>2. \A p \in Requests : p # q => request'[p] = request[p]
      BY <1>6 DEF TypeOK, WaitEnds, Begin, GiveUp
    <2>3. request'[q].pc # "waiting"
      BY <1>6 DEF TypeOK, WaitEnds, Begin, GiveUp, Idle
    <2>4. Waiting' = Waiting \ {q} /\ q \in Waiting
      BY <2>1, <2>2, <2>3 DEF Waiting
    <2>5. begun' \in {begun, begun + 1}
      BY <1>6 DEF WaitEnds, Begin, GiveUp
    <2> QED BY <1>5, <2>4, <2>5
  <1>7. CASE InsertLands(q) \/ InsertFails(q)
    <2>1. request[q].pc = "inserting" /\ begun' = begun
      BY <1>7 DEF InsertLands, InsertFails
    <2>2. \A p \in Requests : request'[p].pc = IF p = q THEN "idle" ELSE request[p].pc
      BY <1>7 DEF TypeOK, InsertLands, InsertFails, Idle
    <2>3. Waiting' = Waiting
      BY <2>1, <2>2 DEF Waiting
    <2> QED BY <1>2, <2>1, <2>3 DEF RoomKept
  <1> QED BY <1>3, <1>4, <1>6, <1>7 DEF Ask, Answer

LEMMA RoomStaysKept ==
    ASSUME TypeOK, RoomKept, [Next]_vars
    PROVE  RoomKept'
  <1>1. CASE UNCHANGED <<request, begun>>
    BY <1>1 DEF RoomKept, Waiting
  <1>2. CASE Crash
    <2>1. Waiting' = {} /\ begun' = begun
      BY <1>2 DEF Crash, Waiting, Idle
    <2>2. Cardinality({}) = 0 /\ Cardinality(Waiting) \in Nat
      BY FS_EmptySet, WaitingCounts
    <2>3. begun \in Nat /\ MaxRuns \in Nat
      BY Bounds DEF TypeOK
    <2> QED BY <2>1, <2>2, <2>3 DEF RoomKept
  <1> QED BY <1>1, <1>2, AskKeepsRoom DEF Next, vars, Forget, Finish, WorkEnds, CloseLands,
           BootMark, Alert, AlertBell, AlertFails, AlertTell, BootFind, BootFails

\* A request that begins takes the number after the last one.
LEMMA BeginTakesNext ==
    ASSUME TypeOK, RoomKept, FreshRuns, NEW q \in Requests,
           StartPipeline(q) \/ StartOne(q) \/ WaitEnds(q)
    PROVE  FreshRuns'
  <1>1. PICK mode, kind : Begin(q, mode, kind)
    BY DEF StartPipeline, StartOne, WaitEnds
  <1>2. row' = row /\ work' = work /\ begun' = begun + 1 /\ begun \in Nat
    BY <1>1, Bounds DEF TypeOK, Begin, StartPipeline, StartOne, WaitEnds, jobVars
  <1>3. begun' \in Runs
    <2>1. begun < MaxRuns
      <3>1. CASE StartPipeline(q) \/ StartOne(q)
        BY <1>2, <3>1, Bounds, WaitingCounts DEF StartPipeline, StartOne, Asks, MayBegin
      <3>2. CASE WaitEnds(q)
        <4>1. q \in Waiting
          BY <3>2 DEF WaitEnds, Waiting
        <4> QED BY <1>2, <4>1, Bounds, WaitingCounts DEF RoomKept
      <3> QED BY <3>1, <3>2
    <2> QED BY <1>2, <2>1, Bounds
  <1>4. \A p \in Requests : p # q => request'[p] = request[p]
    BY <1>1 DEF TypeOK, Begin
  <1>5. request'[q].pc = "inserting" /\ request'[q].run = begun + 1
    BY <1>1 DEF TypeOK, Begin
  <1>6. \A p \in Requests : request[p].pc = "inserting" => request[p].run \in Runs
    BY DEF TypeOK
  <1>7. \A r \in Runs : r \in Nat
    BY Bounds
  <1>8. \A p \in Requests : request'[p].pc = "inserting" =>
            request'[p].run <= begun' /\ work'[request'[p].run] = "none"
    <2> TAKE p \in Requests
    <2>1. CASE p = q
      BY <1>2, <1>3, <1>5, <2>1 DEF FreshRuns
    <2>2. CASE p # q
      BY <1>2, <1>4, <1>6, <1>7, <2>2 DEF FreshRuns
    <2> QED BY <2>1, <2>2
  <1>9. \A p \in Requests : p # q /\ request[p].pc = "inserting" =>
            request[p].run # begun + 1
    BY <1>2, <1>6, <1>7 DEF FreshRuns
  <1>10. \A o, p \in Requests :
            request'[o].pc = "inserting" /\ request'[p].pc = "inserting" /\ o # p =>
                request'[o].run # request'[p].run
    BY <1>4, <1>5, <1>9 DEF FreshRuns
  <1>11. \A r \in Runs : r > begun' => work'[r] = "none"
    BY <1>2, <1>7 DEF FreshRuns
  <1> QED BY <1>2, <1>8, <1>10, <1>11 DEF FreshRuns

\* An answered insert makes its run a live one, and leaves the others' numbers alone.
LEMMA InsertTakesRun ==
    ASSUME TypeOK, FreshRuns, NEW q \in Requests, InsertLands(q) \/ InsertFails(q) \/ GiveUp(q)
    PROVE  FreshRuns'
  <1>1. \A p \in Requests : p # q => request'[p] = request[p]
    BY DEF TypeOK, InsertLands, InsertFails, GiveUp
  <1>2. request'[q].pc = "idle" /\ begun' = begun
    BY DEF TypeOK, InsertLands, InsertFails, GiveUp, Idle
  <1>3. CASE InsertFails(q) \/ GiveUp(q)
    <2>1. row' = row /\ work' = work
      BY <1>3 DEF InsertFails, GiveUp, jobVars
    <2> QED BY <1>1, <1>2, <2>1 DEF FreshRuns
  <1>4. CASE InsertLands(q)
    <2>1. request[q].pc = "inserting" /\ request[q].run \in Runs /\ begun \in Nat
      BY <1>4, Bounds DEF TypeOK, InsertLands
    <2>2. \A r \in Runs :
            /\ work'[r] = IF r = request[q].run THEN "working" ELSE work[r]
            /\ row'[r] = IF r = request[q].run THEN "open" ELSE row[r]
      BY <1>4 DEF TypeOK, InsertLands
    <2>3. \A p \in Requests : request[p].pc = "inserting" => request[p].run \in Runs
      BY DEF TypeOK
    <2>4. \A r \in Runs : r \in Nat
      BY Bounds
    <2> QED BY <1>1, <1>2, <2>1, <2>2, <2>3, <2>4 DEF FreshRuns
  <1> QED BY <1>3, <1>4

\* What a crash does to rows, runs and requests.
LEMMA CrashChanges ==
    ASSUME TypeOK, FreshRuns, Crash
    PROVE  \E inserted \in SUBSET Inserting, closed \in SUBSET Closing :
             /\ \A r \in inserted : r \in Runs /\ work[r] = "none" /\ r <= begun
             /\ \A r \in Runs :
                  /\ row'[r] = IF r \in inserted THEN "open"
                               ELSE IF r \in closed THEN "completed" ELSE row[r]
                  /\ work'[r] = IF r \in Live \cup inserted THEN "dead" ELSE work[r]
  <1>1. PICK inserted \in SUBSET Inserting, closed \in SUBSET Closing :
          /\ row' = [r \in Runs |-> IF r \in inserted THEN "open"
                                    ELSE IF r \in closed THEN "completed" ELSE row[r]]
          /\ work' = [r \in Runs |-> IF r \in Live \cup inserted THEN "dead" ELSE work[r]]
    BY DEF Crash
  <1>2. \A r \in inserted : r \in Runs /\ work[r] = "none" /\ r <= begun
    BY DEF TypeOK, FreshRuns, Inserting
  <1>3. \A r \in Runs : row'[r] = IF r \in inserted THEN "open"
                                  ELSE IF r \in closed THEN "completed" ELSE row[r]
    BY <1>1
  <1>4. \A r \in Runs : work'[r] = IF r \in Live \cup inserted THEN "dead" ELSE work[r]
    BY <1>1
  <1> QED BY <1>2, <1>3, <1>4

\* A row whose update may be on its way is not that of a run without one.
LEMMA ClosingHaveRows ==
    ASSUME TypeOK, FreshRuns, CurrentRun
    PROVE  \A r \in Closing : /\ r \in Runs /\ work[r] # "none"
                              /\ row[r] \in {"open", "completed"}
  BY DEF TypeOK, FreshRuns, CurrentRun, Closing

LEMMA FreshStayFresh ==
    ASSUME TypeOK, RoomKept, FreshRuns, BootInOrder, CurrentRun, [Next]_vars
    PROVE  FreshRuns'
  <1>1. CASE UNCHANGED <<request, begun, row, work>>
    BY <1>1 DEF FreshRuns
  <1>2. ASSUME NEW q \in Requests, WaitForLight(q) PROVE FreshRuns'
    <2>1. \A p \in Requests : p # q => request'[p] = request[p]
      BY <1>2 DEF TypeOK, WaitForLight
    <2>2. request'[q].pc = "waiting" /\ begun' = begun /\ row' = row /\ work' = work
      BY <1>2 DEF TypeOK, WaitForLight, jobVars
    <2> QED BY <2>1, <2>2 DEF FreshRuns
  <1>3. ASSUME NEW r \in Runs, WorkEnds(r) PROVE FreshRuns'
    <2>1. \A s \in Runs : work'[s] = "none" <=> work[s] = "none"
      BY <1>3 DEF TypeOK, WorkEnds
    <2>2. UNCHANGED <<row, request, begun>>
      BY <1>3 DEF WorkEnds
    <2>3. \A p \in Requests : request[p].pc = "inserting" => request[p].run \in Runs
      BY DEF TypeOK
    <2> QED BY <2>1, <2>2, <2>3 DEF FreshRuns
  <1>4. ASSUME NEW r \in Runs, CloseLands(r) PROVE FreshRuns'
    <2>1. \A s \in Runs : work'[s] = "none" <=> work[s] = "none"
      BY <1>4 DEF TypeOK, CloseLands
    <2>2. closing[r] \in Runs /\ work[closing[r]] # "none"
      BY <1>4 DEF CloseLands, CurrentRun, FreshRuns
    <2>3. \A s \in Runs : work[s] = "none" => row'[s] = row[s]
      BY <1>4, <2>2 DEF TypeOK, CloseLands
    <2>4. UNCHANGED <<request, begun>>
      BY <1>4 DEF CloseLands
    <2>5. \A p \in Requests : request[p].pc = "inserting" => request[p].run \in Runs
      BY DEF TypeOK
    <2> QED BY <2>1, <2>3, <2>4, <2>5 DEF FreshRuns
  <1>5. ASSUME NEW r \in Runs, BootMark(r) PROVE FreshRuns'
    <2>1. row[r] = "open"
      BY <1>5 DEF BootMark, BootInOrder
    <2>2. work[r] # "none"
      BY <2>1 DEF FreshRuns
    <2>3. \A s \in Runs : work[s] = "none" => row'[s] = row[s]
      BY <1>5, <2>2 DEF TypeOK, BootMark
    <2> QED BY <1>5, <2>3 DEF FreshRuns, BootMark
  <1>6. CASE Crash
    <2>1. PICK inserted \in SUBSET Inserting, closed \in SUBSET Closing :
             /\ \A r \in inserted : r \in Runs /\ work[r] = "none" /\ r <= begun
             /\ \A r \in Runs :
                  /\ row'[r] = IF r \in inserted THEN "open"
                               ELSE IF r \in closed THEN "completed" ELSE row[r]
                  /\ work'[r] = IF r \in Live \cup inserted THEN "dead" ELSE work[r]
      BY <1>6, CrashChanges
    <2>2. \A q \in Requests : request'[q].pc = "idle"
      BY <1>6 DEF Crash, Idle
    <2>3. begun' = begun /\ begun \in Nat /\ \A r \in Runs : r \in Nat
      BY <1>6, Bounds DEF Crash, TypeOK
    <2>4. \A r \in Runs : work[r] = "none" => r \notin closed
      BY ClosingHaveRows
    <2> QED BY <2>1, <2>2, <2>3, <2>4 DEF FreshRuns, Live
  <1> QED BY <1>1, <1>2, <1>3, <1>4, <1>5, <1>6, BeginTakesNext, InsertTakesRun
       DEF Next, vars, Ask, Answer, Forget, Finish, Alert, AlertBell, AlertFails, AlertTell,
           BootFind, BootFails, jobVars

-----------------------------------------------------------------------------
(* Nothing runs before the start-up is done *)

\* A step of the start-up changes rows only by marking them, and neither runs nor requests.
LEMMA BootLeavesRuns ==
    ASSUME TypeOK, Boot
    PROVE  /\ UNCHANGED <<work, closing, job, recent, mixed, request, begun, crashes>>
           /\ boot.stage # "up"
           /\ boot' = Up \/ boot'.stage # "up"
  <1>1. CASE BootFind
    BY <1>1 DEF BootFind, jobVars
  <1>2. CASE BootFails
    BY <1>2 DEF BootFails, jobVars
  <1>3. ASSUME NEW r \in Runs, BootMark(r)
        PROVE  /\ UNCHANGED <<work, closing, job, recent, mixed, request, begun, crashes>>
               /\ boot.stage # "up" /\ boot'.stage # "up"
    BY <1>3 DEF TypeOK, BootMark
  <1>4. ASSUME NEW r \in Runs, Alert(r)
        PROVE  /\ UNCHANGED <<work, closing, job, recent, mixed, request, begun, crashes>>
               /\ boot.stage # "up"
               /\ boot' = Up \/ boot'.stage # "up"
    <2>1. Reported(r) = Up \/ Reported(r).stage = "alert"
      BY DEF TypeOK, Reported
    <2> QED BY <1>4, <2>1 DEF TypeOK, Alert, AlertBell, AlertFails, AlertTell, jobVars
  <1> QED BY <1>1, <1>2, <1>3, <1>4 DEF Boot

LEMMA BootStaysAlone ==
    ASSUME TypeOK, FreshRuns, BootsAlone, [Next]_vars
    PROVE  BootsAlone'
  <1>1. CASE UNCHANGED <<boot, request, work>>
    BY <1>1 DEF BootsAlone, Live
  <1>2. ASSUME NEW q \in Requests, Ask(q) \/ Answer(q) PROVE BootsAlone'
    <2>1. boot' = boot
      BY <1>2 DEF Ask, Answer, StartPipeline, StartOne, WaitForLight, WaitEnds, GiveUp,
                  InsertLands, InsertFails, bootVars
    <2>2. boot = Up
      <3>1. CASE boot.stage = "up"
        BY <3>1 DEF BootsAlone
      <3>2. CASE Answer(q)
        BY <3>2 DEF BootsAlone, Answer, WaitEnds, GiveUp, InsertLands, InsertFails
      <3> QED BY <1>2, <3>2 DEF Ask, StartPipeline, StartOne, WaitForLight, Asks
    <2> QED BY <2>1, <2>2 DEF BootsAlone, Up
  <1>3. ASSUME NEW r \in Runs, Finish(r) PROVE BootsAlone'
    <2>1. r \in Live /\ boot' = boot
      BY <1>3 DEF Finish, WorkEnds, CloseLands, Live, bootVars
    <2> QED BY <2>1 DEF BootsAlone
  <1>4. CASE Boot
    <2>1. UNCHANGED <<work, request>> /\ boot.stage # "up"
          /\ (boot' = Up \/ boot'.stage # "up")
      BY <1>4, BootLeavesRuns
    <2> QED BY <2>1 DEF BootsAlone, Live, Up
  <1>5. CASE Crash
    <2>1. PICK inserted \in SUBSET Inserting, closed \in SUBSET Closing :
             /\ \A r \in inserted : r \in Runs /\ work[r] = "none" /\ r <= begun
             /\ \A r \in Runs :
                  /\ row'[r] = IF r \in inserted THEN "open"
                               ELSE IF r \in closed THEN "completed" ELSE row[r]
                  /\ work'[r] = IF r \in Live \cup inserted THEN "dead" ELSE work[r]
      BY <1>5, CrashChanges
    <2>2. Live' = {}
      BY <2>1 DEF Live
    <2>3. boot'.stage = "find" /\ \A q \in Requests : request'[q].pc = "idle"
      BY <1>5 DEF Crash, Idle
    <2> QED BY <2>2, <2>3 DEF BootsAlone
  <1> QED BY <1>1, <1>2, <1>3, <1>4, <1>5 DEF Next, vars, Forget, Boot, bootVars

-----------------------------------------------------------------------------
(* The current run *)

LEMMA InsertKeepsCurrent ==
    ASSUME TypeOK, FreshRuns, CurrentRun, NEW q \in Requests, InsertLands(q)
    PROVE  CurrentRun'
  <1> DEFINE r == request[q].run
  <1>1. r \in Runs /\ work[r] = "none" /\ row[r] = "absent" /\ r \notin Live
    BY DEF TypeOK, InsertLands, FreshRuns, Live
  <1>2. \A s \in Runs : /\ work'[s] = IF s = r THEN "working" ELSE work[s]
                        /\ row'[s] = IF s = r THEN "open" ELSE row[s]
    BY DEF TypeOK, InsertLands
  <1>3. Live' = Live \cup {r}
    BY <1>1, <1>2 DEF Live
  <1>4. job'.id = r /\ job'.running /\ closing' = closing
    BY DEF InsertLands
  <1>5. mixed' = mixed \cup (IF Live = {} THEN {} ELSE Live')
    BY <1>3 DEF InsertLands
  <1>6. mixed \subseteq mixed' /\ (Live = {} \/ Live' \ mixed' = {})
    BY <1>5
  <1> HIDE DEF r
  <1>7. \A s \in Live' : row'[s] \in {"open", "completed"}
    BY <1>2, <1>3 DEF CurrentRun, Live
  <1>8. \A s \in Live' \ mixed' :
          /\ Live' = {s} /\ row'[s] = "open" /\ job'.id = s
          /\ work'[s] = "working" => job'.running
          /\ work'[s] = "closing" => closing'[s] = s
    BY <1>1, <1>2, <1>3, <1>4, <1>6
  <1>9. \A s \in Runs : work'[s] = "closing" =>
          /\ closing'[s] \in Runs
          /\ row'[closing'[s]] \in {"open", "completed"}
          /\ closing'[s] = s \/ closing'[s] \in mixed'
    BY <1>1, <1>2, <1>4, <1>6 DEF CurrentRun
  <1> QED BY <1>3, <1>4, <1>7, <1>8, <1>9 DEF CurrentRun

LEMMA WorkEndsKeepsCurrent ==
    ASSUME TypeOK, CurrentRun, NEW r \in Runs, WorkEnds(r)
    PROVE  CurrentRun'
  <1>1. /\ job'.id = job.id /\ row' = row /\ mixed' = mixed
        /\ \A s \in Runs : closing'[s] = IF s = r THEN job.id ELSE closing[s]
    BY DEF TypeOK, WorkEnds
  <1>2. \A s \in Runs : work'[s] = IF s # r THEN work[s]
                                   ELSE IF job.id = NoRun THEN "done" ELSE "closing"
    BY DEF TypeOK, WorkEnds
  <1>3. r \in Live /\ work[r] = "working"
    BY DEF WorkEnds, Live
  <1>4. CASE job.id = NoRun
    <2>1. Live \ mixed = {}
      BY <1>4, Bounds DEF CurrentRun, Live
    <2>2. Live' = Live \ {r}
      BY <1>2, <1>4 DEF Live
    <2> QED BY <1>1, <1>2, <1>4, <2>1, <2>2 DEF CurrentRun
  <1>5. CASE job.id # NoRun
    <2>1. Live' = Live
      BY <1>2, <1>3, <1>5 DEF Live
    <2>2. job.id \in Live /\ job.id \in Runs
      BY <1>5 DEF CurrentRun, Live
    <2>3. job.id = r \/ job.id \in mixed
      BY <1>3, <2>2 DEF CurrentRun
    <2>4. \A s \in Live \ mixed : s = r /\ s = job.id
      BY <1>3 DEF CurrentRun
    <2>5. work'[r] = "closing"
      BY <1>2, <1>5
    <2>6. \A s \in Runs : work'[s] = "closing" =>
          /\ closing'[s] \in Runs
          /\ row'[closing'[s]] \in {"open", "completed"}
          /\ closing'[s] = s \/ closing'[s] \in mixed'
      BY <1>1, <1>2, <2>2, <2>3 DEF CurrentRun
    <2> QED BY <1>1, <2>1, <2>2, <2>4, <2>5, <2>6 DEF CurrentRun
  <1> QED BY <1>4, <1>5

LEMMA CloseKeepsCurrent ==
    ASSUME TypeOK, CurrentRun, NEW r \in Runs, CloseLands(r)
    PROVE  CurrentRun'
  <1> DEFINE c == closing[r]
  <1>1. c \in Runs /\ work[r] = "closing" /\ r \in Live
    BY DEF CloseLands, CurrentRun, Live
  <1>2. \A s \in Runs : /\ work'[s] = IF s = r THEN "done" ELSE work[s]
                        /\ row'[s] = IF s = c THEN "completed" ELSE row[s]
                        /\ s # r => closing'[s] = closing[s]
    BY DEF TypeOK, CloseLands
  <1>3. Live' = Live \ {r}
    BY <1>1, <1>2 DEF Live
  <1>4. job'.id = NoRun /\ mixed' = mixed
    BY DEF TypeOK, CloseLands
  <1>5. Live' \ mixed' = {}
    BY <1>1, <1>3, <1>4 DEF CurrentRun
  <1> HIDE DEF c
  <1>6. \A s \in Live' : row'[s] \in {"open", "completed"}
    BY <1>2, <1>3 DEF CurrentRun, Live
  <1>7. \A s \in Runs : work'[s] = "closing" =>
          /\ closing'[s] \in Runs
          /\ row'[closing'[s]] \in {"open", "completed"}
          /\ closing'[s] = s \/ closing'[s] \in mixed'
    BY <1>2, <1>4 DEF CurrentRun
  <1> QED BY <1>4, <1>5, <1>6, <1>7 DEF CurrentRun

LEMMA CurrentStays ==
    ASSUME TypeOK, FreshRuns, BootsAlone, CurrentRun, [Next]_vars
    PROVE  CurrentRun'
  <1>1. CASE UNCHANGED <<row, work, closing, job, mixed>>
    BY <1>1 DEF CurrentRun, Live
  <1>2. CASE Boot
    <2>1. UNCHANGED <<work, job>> /\ Live = {}
      BY <1>2, BootLeavesRuns DEF BootsAlone
    <2>2. Live' = {} /\ job.id = NoRun /\ \A r \in Runs : work'[r] # "closing"
      BY <2>1 DEF Live, CurrentRun
    <2> QED BY <2>1, <2>2 DEF CurrentRun
  <1>3. CASE Crash
    <2>1. PICK inserted \in SUBSET Inserting, closed \in SUBSET Closing :
             /\ \A r \in inserted : r \in Runs /\ work[r] = "none" /\ r <= begun
             /\ \A r \in Runs :
                  /\ row'[r] = IF r \in inserted THEN "open"
                               ELSE IF r \in closed THEN "completed" ELSE row[r]
                  /\ work'[r] = IF r \in Live \cup inserted THEN "dead" ELSE work[r]
      BY <1>3, CrashChanges
    <2>2. Live' = {} /\ \A r \in Runs : work'[r] # "closing"
      BY <2>1 DEF Live
    <2>3. job'.id = NoRun
      BY <1>3 DEF Crash, NoJob
    <2> QED BY <2>2, <2>3 DEF CurrentRun
  <1> QED BY <1>1, <1>2, <1>3, InsertKeepsCurrent, WorkEndsKeepsCurrent, CloseKeepsCurrent
       DEF Next, vars, Ask, Answer, StartPipeline, StartOne, WaitForLight, WaitEnds, GiveUp,
           InsertFails, Forget, Finish, Boot, jobVars

-----------------------------------------------------------------------------
(* What the rows tell *)

LEMMA RowsStillTell ==
    ASSUME TypeOK, FreshRuns, BootsAlone, CurrentRun, RowsTell, BootInOrder, [Next]_vars
    PROVE  RowsTell'
  <1>1. CASE UNCHANGED <<row, work, mixed>>
    BY <1>1 DEF RowsTell
  <1>2. ASSUME NEW q \in Requests, InsertLands(q) PROVE RowsTell'
    <2>1. request[q].run \in Runs /\ mixed \subseteq mixed'
      BY <1>2 DEF TypeOK, InsertLands
    <2>2. \A s \in Runs : /\ work'[s] = IF s = request[q].run THEN "working" ELSE work[s]
                          /\ row'[s] = IF s = request[q].run THEN "open" ELSE row[s]
      BY <1>2 DEF TypeOK, InsertLands
    <2> QED BY <2>1, <2>2 DEF RowsTell
  <1>3. ASSUME NEW r \in Runs, WorkEnds(r) PROVE RowsTell'
    <2>1. row' = row /\ mixed' = mixed /\ work[r] = "working" /\ r \in Live
      BY <1>3 DEF WorkEnds, Live
    <2>2. \A s \in Runs : work'[s] = IF s # r THEN work[s]
                                     ELSE IF job.id = NoRun THEN "done" ELSE "closing"
      BY <1>3 DEF TypeOK, WorkEnds
    <2>3. r \notin mixed => job.id # NoRun /\ row[r] = "open"
      BY <2>1, Bounds DEF CurrentRun
    <2>4. row[r] # "interrupted"
      BY <2>1 DEF CurrentRun
    <2> QED BY <2>1, <2>2, <2>3, <2>4 DEF RowsTell
  <1>4. ASSUME NEW r \in Runs, CloseLands(r) PROVE RowsTell'
    <2>1. \A s \in Runs : /\ work'[s] = IF s = r THEN "done" ELSE work[s]
                          /\ row'[s] = IF s = closing[r] THEN "completed" ELSE row[s]
      BY <1>4 DEF TypeOK, CloseLands
    <2>2. /\ mixed' = mixed
          /\ closing[r] = r \/ closing[r] \in mixed
          /\ r \notin mixed => closing[r] = r
      BY <1>4 DEF CloseLands, CurrentRun, Live
    <2> QED BY <2>1, <2>2 DEF RowsTell
  <1>5. ASSUME NEW r \in Runs, BootMark(r) PROVE RowsTell'
    <2>1. /\ UNCHANGED <<work, mixed>> /\ Live = {}
          /\ row[r] = "open"
          /\ \A s \in Runs : row'[s] = IF s = r THEN "interrupted" ELSE row[s]
      BY <1>5 DEF TypeOK, BootMark, BootInOrder, BootsAlone
    <2>2. work[r] \in {"done", "dead"}
      BY <2>1 DEF TypeOK, Live, FreshRuns
    <2> QED BY <2>1, <2>2 DEF RowsTell
  <1>6. CASE Crash
    <2>1. PICK inserted \in SUBSET Inserting, closed \in SUBSET Closing :
             /\ \A r \in inserted : r \in Runs /\ work[r] = "none" /\ r <= begun
             /\ \A r \in Runs :
                  /\ row'[r] = IF r \in inserted THEN "open"
                               ELSE IF r \in closed THEN "completed" ELSE row[r]
                  /\ work'[r] = IF r \in Live \cup inserted THEN "dead" ELSE work[r]
      BY <1>6, CrashChanges
    <2>2. \A r \in closed : r \in mixed \/ r \in Live
      BY DEF Closing, CurrentRun, Live
    <2>3. mixed' = mixed
      BY <1>6 DEF Crash
    <2>4. \A r \in Live : row[r] # "interrupted"
      BY DEF CurrentRun
    <2> QED BY <2>1, <2>2, <2>3, <2>4 DEF RowsTell
  <1> QED BY <1>1, <1>2, <1>3, <1>4, <1>5, <1>6
       DEF Next, vars, Ask, Answer, StartPipeline, StartOne, WaitForLight, WaitEnds, GiveUp,
           InsertFails, Forget, Finish, BootFind, BootFails, Alert, AlertBell, AlertFails,
           AlertTell, jobVars

LEMMA DeadRunsStayFound ==
    ASSUME TypeOK, FreshRuns, CurrentRun, DeadRunsFound, BootInOrder, [Next]_vars
    PROVE  DeadRunsFound'
  <1>1. CASE UNCHANGED <<row, work, boot, halfBoot>>
    BY <1>1 DEF DeadRunsFound
  <1>2. ASSUME NEW q \in Requests, InsertLands(q) PROVE DeadRunsFound'
    <2>1. \A s \in Runs : /\ work'[s] = IF s = request[q].run THEN "working" ELSE work[s]
                          /\ row'[s] = IF s = request[q].run THEN "open" ELSE row[s]
      BY <1>2 DEF TypeOK, InsertLands
    <2>2. UNCHANGED <<boot, halfBoot>>
      BY <1>2 DEF InsertLands, bootVars
    <2> QED BY <2>1, <2>2 DEF DeadRunsFound
  <1>3. ASSUME NEW r \in Runs, Finish(r) PROVE DeadRunsFound'
    <2>1. \A s \in Runs : /\ work'[s] = "dead" => work[s] = "dead"
                          /\ row'[s] = "open" => row[s] = "open"
      BY <1>3 DEF TypeOK, Finish, WorkEnds, CloseLands
    <2>2. UNCHANGED <<boot, halfBoot>>
      BY <1>3 DEF Finish, WorkEnds, CloseLands, bootVars
    <2> QED BY <2>1, <2>2 DEF DeadRunsFound
  <1>4. CASE BootFind
    <2>1. UNCHANGED <<row, work>>
      BY <1>4 DEF BootFind, jobVars
    <2>2. Open = {} \/ (boot'.stage = "mark" /\ boot'.left = Open)
      BY <1>4 DEF BootFind
    <2> QED BY <2>1, <2>2 DEF DeadRunsFound, Open
  <1>5. CASE BootFails
    BY <1>5 DEF DeadRunsFound, BootFails
  <1>6. ASSUME NEW r \in Runs, BootMark(r) PROVE DeadRunsFound'
    <2>1. \A s \in Runs : row'[s] = IF s = r THEN "interrupted" ELSE row[s]
      BY <1>6 DEF TypeOK, BootMark
    <2>2. UNCHANGED <<work, halfBoot>> /\ boot.stage = "mark"
      BY <1>6 DEF BootMark
    <2>3. CASE boot.left = {r}
      <3>1. \A s \in Runs : work[s] = "dead" /\ row[s] = "open" => halfBoot \/ s = r
        BY <2>2, <2>3 DEF DeadRunsFound
      <3> QED BY <2>1, <2>2, <3>1 DEF DeadRunsFound
    <2>4. CASE boot.left # {r}
      <3>1. boot'.stage = "mark" /\ boot'.left = boot.left \ {r}
        BY <1>6, <2>4 DEF TypeOK, BootMark
      <3> QED BY <2>1, <2>2, <3>1 DEF DeadRunsFound
    <2> QED BY <2>3, <2>4
  <1>7. ASSUME NEW r \in Runs, Alert(r) PROVE DeadRunsFound'
    <2>1. boot.stage \in {"alert", "tell"} /\ UNCHANGED <<row, work, halfBoot>>
      BY <1>7 DEF Alert, AlertBell, AlertFails, AlertTell, jobVars
    <2> QED BY <2>1 DEF DeadRunsFound
  <1>8. CASE Crash
    BY <1>8 DEF DeadRunsFound, Crash
  <1> QED BY <1>1, <1>2, <1>3, <1>4, <1>5, <1>6, <1>7, <1>8
       DEF Next, vars, Ask, Answer, StartPipeline, StartOne, WaitForLight, WaitEnds, GiveUp,
           InsertFails, Forget, jobVars, bootVars

LEMMA NeverGetsStuck ==
    ASSUME TypeOK, NeverStuck, [Next]_vars
    PROVE  NeverStuck'
  <1>1. CASE UNCHANGED <<job, work>>
    BY <1>1 DEF NeverStuck
  <1>2. ASSUME NEW q \in Requests, InsertLands(q) PROVE NeverStuck'
    <2>1. request[q].run \in Runs /\ work'[request[q].run] = "working"
      BY <1>2 DEF TypeOK, InsertLands
    <2> QED BY <2>1 DEF NeverStuck
  <1>3. ASSUME NEW r \in Runs, WorkEnds(r) PROVE NeverStuck'
    BY <1>3 DEF TypeOK, NeverStuck, WorkEnds
  <1>4. ASSUME NEW r \in Runs, CloseLands(r) PROVE NeverStuck'
    <2>1. \A s \in Runs : work[s] = "working" => work'[s] = "working"
      BY <1>4 DEF TypeOK, CloseLands
    <2>2. job'.running = job.running
      BY <1>4 DEF TypeOK, CloseLands
    <2> QED BY <2>1, <2>2 DEF NeverStuck
  <1>5. CASE Boot
    BY <1>5, BootLeavesRuns DEF NeverStuck
  <1>6. CASE Crash
    BY <1>6 DEF NeverStuck, Crash, NoJob
  <1> QED BY <1>1, <1>2, <1>3, <1>4, <1>5, <1>6
       DEF Next, vars, Ask, Answer, StartPipeline, StartOne, WaitForLight, WaitEnds, GiveUp,
           InsertFails, Forget, Finish, Boot, jobVars

-----------------------------------------------------------------------------
(* The start-up and its reports *)

\* Rows marked as interrupted stay so, whatever is not the start-up does.
LEMMA InterruptedStay ==
    ASSUME TypeOK, FreshRuns, CurrentRun, RowsTell, [Next]_vars, ~Boot
    PROVE  \A r \in Runs : row'[r] = "interrupted" <=> row[r] = "interrupted"
  <1>1. ASSUME NEW q \in Requests, InsertLands(q)
        PROVE  \A r \in Runs : row'[r] = "interrupted" <=> row[r] = "interrupted"
    <2>1. row[request[q].run] = "absent"
      BY <1>1 DEF TypeOK, FreshRuns, InsertLands
    <2> QED BY <1>1, <2>1 DEF TypeOK, InsertLands
  <1>2. ASSUME NEW s \in Runs, CloseLands(s)
        PROVE  \A r \in Runs : row'[r] = "interrupted" <=> row[r] = "interrupted"
    <2>1. row[closing[s]] \in {"open", "completed"}
      BY <1>2 DEF CloseLands, CurrentRun
    <2> QED BY <1>2, <2>1 DEF TypeOK, CloseLands
  <1>3. CASE Crash
    <2>1. PICK inserted \in SUBSET Inserting, closed \in SUBSET Closing :
             /\ \A r \in inserted : r \in Runs /\ work[r] = "none" /\ r <= begun
             /\ \A r \in Runs :
                  /\ row'[r] = IF r \in inserted THEN "open"
                               ELSE IF r \in closed THEN "completed" ELSE row[r]
                  /\ work'[r] = IF r \in Live \cup inserted THEN "dead" ELSE work[r]
      BY <1>3, CrashChanges
    <2>2. \A r \in inserted : row[r] = "absent"
      BY <2>1 DEF FreshRuns
    <2>3. \A r \in closed : row[r] \in {"open", "completed"}
      BY ClosingHaveRows
    <2> QED BY <2>1, <2>2, <2>3
  <1> QED BY <1>1, <1>2, <1>3
       DEF Next, vars, Ask, Answer, StartPipeline, StartOne, WaitForLight, WaitEnds, GiveUp,
           InsertFails, Forget, Finish, WorkEnds, Boot, jobVars

\* What the callers and the runs do leaves the start-up's variables alone, and happens
\* when there is nothing left of it.
LEMMA OthersWaitForBoot ==
    ASSUME TypeOK, BootsAlone, [Next]_vars, ~Boot, ~Crash
    PROVE  /\ UNCHANGED <<boot, bell, told, failed, cut>>
           /\ boot.stage = "up" \/ row' = row
  <1>1. ASSUME NEW q \in Requests, Ask(q) \/ Answer(q)
        PROVE  /\ UNCHANGED <<boot, bell, told, failed, cut>>
               /\ boot.stage = "up"
    <2>1. boot = Up \/ request[q].pc # "idle"
      BY <1>1 DEF Ask, Answer, StartPipeline, StartOne, WaitForLight, WaitEnds, GiveUp,
                  InsertLands, InsertFails, Asks
    <2>2. UNCHANGED <<boot, bell, told, failed, cut>>
      BY <1>1 DEF Ask, Answer, StartPipeline, StartOne, WaitForLight, WaitEnds, GiveUp,
                  InsertLands, InsertFails, bootVars
    <2> QED BY <2>1, <2>2 DEF BootsAlone, Up
  <1>2. ASSUME NEW r \in Runs, Finish(r)
        PROVE  /\ UNCHANGED <<boot, bell, told, failed, cut>>
               /\ boot.stage = "up"
    BY <1>2 DEF Finish, WorkEnds, CloseLands, bootVars, BootsAlone, Live
  <1> QED BY <1>1, <1>2 DEF Next, vars, Forget, Boot, bootVars

LEMMA BootStaysInOrder ==
    ASSUME TypeOK, FreshRuns, BootsAlone, CurrentRun, RowsTell, BootInOrder, [Next]_vars
    PROVE  BootInOrder'
  <1>1. CASE ~Boot /\ ~Crash
    <2>1. UNCHANGED <<boot, bell>> /\ (boot.stage = "up" \/ row' = row)
      BY <1>1, OthersWaitForBoot
    <2>2. \A r \in Runs : row'[r] = "interrupted" <=> row[r] = "interrupted"
      BY <1>1, InterruptedStay
    <2>3. bell \subseteq Runs
      BY DEF TypeOK
    <2> QED BY <2>1, <2>2, <2>3 DEF BootInOrder
  <1>2. CASE Crash
    <2>1. boot'.stage = "find" /\ bell' = bell /\ bell \subseteq Runs
      BY <1>2 DEF Crash, TypeOK
    <2>2. ~Boot
      BY <1>2, Bounds, BootLeavesRuns DEF Crash, TypeOK
    <2> QED BY <2>1, <2>2, InterruptedStay DEF BootInOrder
  <1>3. CASE BootFind
    <2>1. /\ boot' = Up \/ boot' = [stage |-> "mark", left |-> Open, found |-> Open]
          /\ row' = row /\ bell' = bell
      BY <1>3 DEF BootFind, jobVars
    <2>2. Open \cap bell = {}
      BY DEF Open, BootInOrder
    <2> QED BY <2>1, <2>2 DEF BootInOrder, Up, Open
  <1>4. CASE BootFails
    <2>1. boot' = Up /\ row' = row /\ bell' = bell
      BY <1>4 DEF BootFails, jobVars
    <2> QED BY <2>1 DEF BootInOrder, Up
  <1>5. ASSUME NEW r \in Runs, BootMark(r) PROVE BootInOrder'
    <2>1. /\ boot.stage = "mark" /\ r \in boot.left /\ bell' = bell
          /\ \A s \in Runs : row'[s] = IF s = r THEN "interrupted" ELSE row[s]
          /\ boot.found \subseteq Runs /\ bell \subseteq Runs
      BY <1>5 DEF TypeOK, BootMark
    <2>2. CASE boot.left = {r}
      <3>1. boot'.stage = "alert" /\ boot'.left = boot.found
        BY <1>5, <2>2 DEF TypeOK, BootMark
      <3> QED BY <2>1, <2>2, <3>1 DEF BootInOrder
    <2>3. CASE boot.left # {r}
      <3>1. /\ boot'.stage = "mark" /\ boot'.left = boot.left \ {r}
            /\ boot'.found = boot.found
        BY <1>5, <2>3 DEF TypeOK, BootMark
      <3> QED BY <2>1, <3>1 DEF BootInOrder
    <2> QED BY <2>2, <2>3
  <1>6. ASSUME NEW r \in Runs, Alert(r) PROVE BootInOrder'
    <2>1. row' = row
      BY <1>6 DEF Alert, AlertBell, AlertFails, AlertTell, jobVars
    <2>2. \/ Reported(r) = Up
          \/ Reported(r).stage = "alert" /\ Reported(r).left = boot.left \ {r}
      BY DEF TypeOK, Reported
    <2>3. CASE AlertBell(r)
      <3>1. r \in boot.left \ bell /\ bell' = bell \cup {r} /\ row[r] = "interrupted"
        BY <2>3 DEF AlertBell, BootInOrder
      <3>2. boot'.stage = "tell" /\ boot'.left = boot.left /\ boot'.found = {r}
        BY <2>3, <3>1 DEF TypeOK, AlertBell
      <3>3. boot.left \cap bell = {} /\ \A s \in boot.left : row[s] = "interrupted"
        BY <2>3 DEF AlertBell, BootInOrder
      <3> QED BY <2>1, <3>1, <3>2, <3>3 DEF BootInOrder
    <2>4. CASE AlertFails(r)
      <3>1. boot.stage = "alert" /\ boot' = Reported(r) /\ bell' \in {bell, bell \cup {r}}
        BY <2>4 DEF AlertFails
      <3>2. boot.left \cap bell' \subseteq {r} /\ \A s \in boot.left : row[s] = "interrupted"
        BY <3>1 DEF BootInOrder
      <3>3. \A s \in bell' : row[s] = "interrupted"
        BY <2>4, <3>1, <3>2 DEF AlertFails, BootInOrder
      <3>4. boot'.stage \in {"up", "alert"} /\ (boot'.stage = "alert" => boot'.left = boot.left \ {r})
        BY <2>2, <3>1 DEF Up
      <3> QED BY <2>1, <3>2, <3>3, <3>4 DEF BootInOrder
    <2>5. CASE AlertTell(r)
      <3>1. boot.stage = "tell" /\ boot.found = {r} /\ boot' = Reported(r) /\ bell' = bell
        BY <2>5 DEF AlertTell
      <3>2. boot.left \cap bell \subseteq {r} /\ \A s \in boot.left : row[s] = "interrupted"
        BY <3>1 DEF BootInOrder
      <3> QED BY <2>1, <2>2, <3>1, <3>2 DEF BootInOrder, Up
    <2> QED BY <1>6, <2>3, <2>4, <2>5 DEF Alert
  <1> QED BY <1>1, <1>2, <1>3, <1>4, <1>5, <1>6 DEF Boot

LEMMA TellsInOrder ==
    ASSUME TypeOK, FreshRuns, BootsAlone, CurrentRun, RowsTell, BootInOrder, ToldInOrder,
           [Next]_vars
    PROVE  ToldInOrder'
  <1>1. CASE ~Boot /\ ~Crash
    <2>1. /\ UNCHANGED <<boot, bell, told, failed, cut>>
          /\ \A r \in Runs : row'[r] = "interrupted" <=> row[r] = "interrupted"
      BY <1>1, OthersWaitForBoot, InterruptedStay
    <2> QED BY <2>1 DEF ToldInOrder
  <1>2. CASE Crash
    <2>1. /\ boot'.stage = "find" /\ bell' = bell /\ told' = told
          /\ failed' = failed /\ cut' = cut \cup Untold
      BY <1>2 DEF Crash
    <2>2. ~Boot
      BY <1>2, Bounds, BootLeavesRuns DEF Crash, TypeOK
    <2>3. \A r \in Runs : row'[r] = "interrupted" <=> row[r] = "interrupted"
      BY <2>2, InterruptedStay
    <2> QED BY <2>1, <2>3 DEF ToldInOrder, Untold
  <1>3. CASE BootFind
    <2>1. /\ boot.stage = "find"
          /\ UNCHANGED <<row, bell, told, failed, cut>>
          /\ boot' = Up \/ boot'.stage = "mark"
      BY <1>3 DEF BootFind, jobVars
    <2> QED BY <2>1 DEF ToldInOrder, Up
  <1>4. CASE BootFails
    <2>1. /\ boot' = Up /\ UNCHANGED <<row, bell, told, cut>> /\ failed' = failed \cup Untold
      BY <1>4 DEF BootFails, jobVars
    <2> QED BY <2>1 DEF ToldInOrder, Untold, Up
  <1>5. ASSUME NEW r \in Runs, BootMark(r) PROVE ToldInOrder'
    <2>1. /\ boot.stage = "mark" /\ r \in boot.left /\ boot.left \subseteq boot.found
          /\ UNCHANGED <<bell, told, failed, cut>>
          /\ \A s \in Runs : row'[s] = IF s = r THEN "interrupted" ELSE row[s]
      BY <1>5 DEF TypeOK, BootMark, BootInOrder
    <2>2. CASE boot.left = {r}
      <3>1. boot'.stage = "alert" /\ boot'.left = boot.found
        BY <1>5, <2>2 DEF TypeOK, BootMark
      <3> QED BY <2>1, <2>2, <3>1 DEF ToldInOrder
    <2>3. CASE boot.left # {r}
      <3>1. /\ boot'.stage = "mark" /\ boot'.left = boot.left \ {r}
            /\ boot'.found = boot.found
        BY <1>5, <2>3 DEF TypeOK, BootMark
      <3> QED BY <2>1, <3>1 DEF ToldInOrder
    <2> QED BY <2>2, <2>3
  <1>6. ASSUME NEW r \in Runs, Alert(r) PROVE ToldInOrder'
    <2>1. row' = row /\ cut' = cut
      BY <1>6 DEF Alert, AlertBell, AlertFails, AlertTell, jobVars
    <2>2. \/ Reported(r) = Up /\ boot.left = {r}
          \/ Reported(r).stage = "alert" /\ Reported(r).left = boot.left \ {r}
      BY DEF TypeOK, Reported
    <2>3. CASE AlertBell(r)
      <3>1. /\ boot.stage = "alert" /\ r \in boot.left \ bell /\ bell' = bell \cup {r}
            /\ UNCHANGED <<told, failed>>
        BY <2>3 DEF AlertBell, BootInOrder
      <3>2. boot'.stage = "tell" /\ boot'.left = boot.left /\ boot'.found = {r}
        BY <2>3, <3>1 DEF TypeOK, AlertBell
      <3> QED BY <2>1, <3>1, <3>2 DEF ToldInOrder
    <2>4. CASE AlertFails(r)
      <3>1. /\ boot.stage = "alert" /\ boot' = Reported(r) /\ failed' = failed \cup {r}
            /\ bell' \in {bell, bell \cup {r}} /\ UNCHANGED told
        BY <2>4 DEF AlertFails
      <3> QED BY <2>1, <2>2, <3>1 DEF ToldInOrder, Up
    <2>5. CASE AlertTell(r)
      <3>1. /\ boot.stage = "tell" /\ boot.found = {r} /\ boot' = Reported(r)
            /\ UNCHANGED <<bell, failed>>
            /\ \A s \in Runs : told'[s] = IF s = r THEN told[s] + 1 ELSE told[s]
        BY <2>5 DEF TypeOK, AlertTell
      <3>2. r \in bell /\ told[r] = 0
        BY <3>1 DEF BootInOrder, ToldInOrder
      <3> QED BY <2>1, <2>2, <3>1, <3>2 DEF ToldInOrder, Up
    <2> QED BY <1>6, <2>3, <2>4, <2>5 DEF Alert
  <1> QED BY <1>1, <1>2, <1>3, <1>4, <1>5, <1>6 DEF Boot

-----------------------------------------------------------------------------
(* The theorems *)

LEMMA StartsInOrder ==
    ASSUME Init
    PROVE  IInv
  <1>1. TypeOK
    <2>1. request \in [Requests -> [pc : {"idle", "waiting"}]]
      BY DEF Init, Idle
    <2>2. job \in [running : BOOLEAN, id : {NoRun} \cup Runs, mode : {"none"} \cup Modes]
          /\ job.id = NoRun /\ job.mode = "none"
      BY DEF Init, NoJob
    <2>3. boot \in [stage : {"up", "find", "mark", "alert", "tell"},
                    left : SUBSET Runs, found : SUBSET Runs]
      BY DEF Init
    <2>4. begun \in {NoRun} \cup Runs /\ crashes \in 0..MaxCrashes
      BY Bounds DEF Init
    <2> QED BY <2>1, <2>2, <2>3, <2>4 DEF Init, TypeOK
  <1>2. RoomKept
    <2>1. Waiting = {} /\ begun = 0
      BY DEF Init, Waiting, Idle
    <2> QED BY <2>1, Bounds, FS_EmptySet DEF RoomKept
  <1>3. Live = {}
    BY DEF Init, Live
  <1>4. FreshRuns /\ BootsAlone /\ CurrentRun
    BY <1>3 DEF Init, FreshRuns, BootsAlone, CurrentRun, Idle, NoJob
  <1>5. RowsTell /\ DeadRunsFound /\ BootInOrder /\ ToldInOrder /\ NeverStuck
    BY DEF Init, RowsTell, DeadRunsFound, BootInOrder, ToldInOrder, NeverStuck, NoJob
  <1> QED BY <1>1, <1>2, <1>4, <1>5 DEF IInv

LEMMA StaysInOrder ==
    ASSUME IInv, [Next]_vars
    PROVE  IInv'
  BY ShapeKept, RoomStaysKept, FreshStayFresh, BootStaysAlone, CurrentStays, RowsStillTell,
     DeadRunsStayFound, BootStaysInOrder, TellsInOrder, NeverGetsStuck DEF IInv

LEMMA AlwaysInOrder == Spec => []IInv
  BY StartsInOrder, StaysInOrder, PTL DEF Spec

\* StatsJobService and its tables keep their shape, and the id and the mode of the
\* current run are set and cleared together.
THEOREM JobTypeCorrect == Spec => []TypeOK
  <1>1. IInv => TypeOK
    BY DEF IInv
  <1> QED BY <1>1, AlwaysInOrder, PTL

\* However runs overlap, status.running is set only while a run works: the flag cannot be
\* left behind by beginRun and finishRun in the wrong order.
THEOREM NeverBusyForEver == Spec => []NeverStuck
  <1>1. IInv => NeverStuck
    BY DEF IInv
  <1> QED BY <1>1, AlwaysInOrder, PTL

\* onModuleInit closes every row a dead process left open, after any number of crashes,
\* those in onModuleInit included, unless a query of it failed.
THEOREM RestartClosesRows == Spec => []BootClosesOldRuns
  <1>1. IInv => BootClosesOldRuns
    BY DEF IInv, DeadRunsFound, BootClosesOldRuns, Up
  <1> QED BY <1>1, AlwaysInOrder, PTL

\* The status and the row of a run that overlapped no other say what the run does.
THEOREM LoneRunsTell == Spec => []UnmixedRunsTell
  <1>1. IInv => UnmixedRunsTell
    <2> SUFFICES ASSUME IInv, NEW r \in Runs \ mixed
                 PROVE  /\ row[r] = "completed" => work[r] \in {"done", "dead"}
                        /\ work[r] = "working" => job.running /\ job.id = r /\ row[r] = "open"
                        /\ work[r] = "done" => row[r] = "completed"
      BY DEF UnmixedRunsTell
    <2>1. work[r] = "working" => r \in Live \ mixed
      BY DEF Live
    <2> QED BY <2>1 DEF IInv, CurrentRun, RowsTell
  <1> QED BY <1>1, AlwaysInOrder, PTL

\* alertInterruptedRuns tells of a run at most once, and of every interrupted run unless
\* its report failed or a crash cut it off.
THEOREM InterruptionsToldOnce == Spec => []ReportedOnce
  <1>1. IInv => ReportedOnce
    BY DEF IInv, ToldInOrder, ReportedOnce, Up
  <1> QED BY <1>1, AlwaysInOrder, PTL

-----------------------------------------------------------------------------
(* The notices are a notice book *)

\* Requests and runs have nothing to do with it.
LEMMA RunsLeaveNotices ==
    ASSUME UNCHANGED bootVars
    PROVE  UNCHANGED Notices!bookVars
  BY DEF bootVars, Notices!bookVars, Owed

\* Until a notification is in the list nothing is owed, and then what was just listed.
LEMMA BootKeepsBook ==
    ASSUME IInv, Boot
    PROVE  [Notices!BookNext]_(Notices!bookVars)
  <1>1. \A r \in Runs : Reported(r).stage \in {"up", "alert"}
    BY DEF Reported, Up, IInv, TypeOK
  <1>2. CASE BootFind \/ BootFails \/ \E r \in Runs : BootMark(r)
    <2>1. boot.stage # "tell" /\ boot'.stage # "tell"
      <3>1. CASE BootFind \/ BootFails
        BY <3>1 DEF BootFind, BootFails, Up
      <3>2. ASSUME NEW r \in Runs, BootMark(r) PROVE boot.stage # "tell" /\ boot'.stage # "tell"
        BY <3>2 DEF BootMark, IInv, TypeOK
      <3> QED BY <1>2, <3>1, <3>2
    <2>2. UNCHANGED <<bell, told>>
      BY <1>2 DEF BootFind, BootFails, BootMark
    <2> QED BY <2>1, <2>2 DEF Notices!bookVars, Owed
  <1>3. ASSUME NEW r \in Runs, AlertBell(r) PROVE [Notices!BookNext]_(Notices!bookVars)
    <2>1. Owed = {} /\ bell' = bell \cup {r} /\ UNCHANGED told
      BY <1>3 DEF AlertBell, Owed
    <2>2. CASE r \in bell
      <3>1. boot' = Reported(r)
        BY <1>3, <2>2 DEF AlertBell
      <3>2. Owed' = {}
        BY <1>1, <3>1 DEF Owed
      <3> QED BY <2>1, <2>2, <3>2 DEF Notices!bookVars
    <2>3. CASE r \notin bell
      <3>1. Owed' = {r}
        BY <1>3, <2>3 DEF AlertBell, Owed, IInv, TypeOK
      <3>2. Notices!List(r)
        BY <2>1, <2>3, <3>1 DEF Notices!List
      <3> QED BY <3>2 DEF Notices!BookNext
    <2> QED BY <2>2, <2>3
  <1>4. ASSUME NEW r \in Runs, AlertFails(r) PROVE [Notices!BookNext]_(Notices!bookVars)
    <2>1. boot' = Reported(r) /\ bell' \in {bell, bell \cup {r}} /\ UNCHANGED told
      BY <1>4 DEF AlertFails
    <2>2. Owed = {} /\ Owed' = {}
      BY <1>1, <1>4, <2>1 DEF AlertFails, Owed
    <2>3. CASE bell' = bell
      BY <2>1, <2>2, <2>3 DEF Notices!bookVars
    <2>4. CASE bell' # bell
      <3>1. Notices!ListUnheard(r)
        BY <2>1, <2>2, <2>4 DEF Notices!ListUnheard
      <3> QED BY <3>1 DEF Notices!BookNext
    <2> QED BY <2>3, <2>4
  <1>5. ASSUME NEW r \in Runs, AlertTell(r) PROVE [Notices!BookNext]_(Notices!bookVars)
    <2>1. boot' = Reported(r) /\ UNCHANGED bell /\ told' = [told EXCEPT ![r] = @ + 1]
      BY <1>5 DEF AlertTell
    <2>2. Owed = {r} /\ Owed' = {}
      BY <1>1, <1>5, <2>1 DEF AlertTell, Owed
    <2>3. Notices!Send(r)
      BY <2>1, <2>2 DEF Notices!Send
    <2> QED BY <2>3 DEF Notices!BookNext
  <1> QED BY <1>2, <1>3, <1>4, <1>5 DEF Boot, Alert

\* For any requests, runs and crashes: the reports of interrupted runs implement the book
\* of notices, in which no key is told of twice.
THEOREM ReportsAreNotices == Spec => IsNoticeBook
  <1>1. Init => Notices!BookInit
    BY DEF Init, Notices!BookInit, Owed
  <1>2. IInv /\ [Next]_vars => [Notices!BookNext]_(Notices!bookVars)
    <2> SUFFICES ASSUME IInv, [Next]_vars PROVE [Notices!BookNext]_(Notices!bookVars)
      OBVIOUS
    <2>1. ASSUME NEW q \in Requests, Ask(q) \/ Answer(q) PROVE UNCHANGED bootVars
      BY <2>1 DEF Ask, StartPipeline, StartOne, WaitForLight, Answer, WaitEnds, GiveUp,
                  InsertLands, InsertFails
    <2>2. ASSUME NEW r \in Runs, Finish(r) PROVE UNCHANGED bootVars
      BY <2>2 DEF Finish, WorkEnds, CloseLands
    <2>3. ASSUME NEW mode \in Modes, Forget(mode) PROVE UNCHANGED bootVars
      BY <2>3 DEF Forget
    <2>4. CASE UNCHANGED vars
      BY <2>4, RunsLeaveNotices DEF vars, bootVars
    <2>5. CASE Crash
      <3>1. Owed' = {} /\ UNCHANGED <<bell, told>>
        BY <2>5 DEF Crash, Owed
      <3> QED BY <3>1 DEF Notices!BookNext, Notices!Lose
    <2> QED BY <2>1, <2>2, <2>3, <2>4, <2>5, RunsLeaveNotices, BootKeepsBook DEF Next, Boot
  <1> QED
    BY <1>1, <1>2, AlwaysInOrder, PTL DEF Spec, IsNoticeBook, Notices!BookSpec

\* What is owed is in the list; the numbers are of runs.
OwedIsListed == told \in [Runs -> Nat] /\ Owed \subseteq bell

LEMMA BookStaysKept ==
    ASSUME OwedIsListed, Notices!ToldOnce, [Notices!BookNext]_(Notices!bookVars)
    PROVE  OwedIsListed' /\ Notices!ToldOnce'
  <1>1. ASSUME NEW r \in Runs, Notices!List(r) PROVE OwedIsListed' /\ Notices!ToldOnce'
    BY <1>1 DEF Notices!List, OwedIsListed, Notices!ToldOnce
  <1>5. ASSUME NEW r \in Runs, Notices!ListUnheard(r) PROVE OwedIsListed' /\ Notices!ToldOnce'
    BY <1>5 DEF Notices!ListUnheard, OwedIsListed, Notices!ToldOnce
  <1>2. ASSUME NEW r \in Runs, Notices!Send(r) PROVE OwedIsListed' /\ Notices!ToldOnce'
    <2>1. told[r] = 0 /\ r \in bell
      BY <1>2 DEF Notices!Send, OwedIsListed, Notices!ToldOnce
    <2>2. told' = [told EXCEPT ![r] = 1]
      BY <1>2, <2>1 DEF Notices!Send, OwedIsListed
    <2>3. Owed' = Owed \ {r} /\ bell' = bell
      BY <1>2 DEF Notices!Send
    <2>4. OwedIsListed'
      BY <2>2, <2>3 DEF OwedIsListed
    <2>5. ASSUME NEW s \in Runs
          PROVE  told'[s] = 0 \/ (told'[s] = 1 /\ s \in bell' /\ s \notin Owed')
      <3>1. CASE s = r
        BY <2>1, <2>2, <2>3, <3>1 DEF OwedIsListed
      <3>2. CASE s # r
        BY <2>2, <2>3, <3>2 DEF OwedIsListed, Notices!ToldOnce
      <3> QED BY <3>1, <3>2
    <2> QED BY <2>4, <2>5 DEF Notices!ToldOnce
  <1>3. CASE Notices!Lose
    BY <1>3 DEF Notices!Lose, OwedIsListed, Notices!ToldOnce
  <1>4. CASE UNCHANGED Notices!bookVars
    BY <1>4 DEF Notices!bookVars, OwedIsListed, Notices!ToldOnce
  <1> QED BY <1>1, <1>2, <1>3, <1>4, <1>5 DEF Notices!BookNext

\* Whatever implements the book tells of no key twice, and of none outside the list: the
\* promise follows from the abstract specification alone.
THEOREM BooksTellOnce == IsNoticeBook => []Notices!ToldOnce
  <1>1. Notices!BookInit => OwedIsListed /\ Notices!ToldOnce
    BY DEF Notices!BookInit, OwedIsListed, Notices!ToldOnce
  <1>2. OwedIsListed /\ Notices!ToldOnce /\ [Notices!BookNext]_(Notices!bookVars)
          => OwedIsListed' /\ Notices!ToldOnce'
    BY BookStaysKept
  <1> QED BY <1>1, <1>2, PTL DEF IsNoticeBook, Notices!BookSpec

===============================================================================
