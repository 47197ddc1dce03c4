----------------------------- MODULE MtprotoAccount -----------------------------
(***************************************************************************)
(* The collecting account of Telegram (mtproto-collector.service.ts): its  *)
(* requests of the day, the reserve kept for the small jobs, FloodWait,    *)
(* the joins, and the reasons for which it is stopped.                     *)
(*                                                                         *)
(* The nightly job, the light collect of new links, collects that outlived *)
(* their two minutes and the admin's test of a name call at the same time. *)
(* An action is the code between two awaits.  call tests the limits, then  *)
(* waits for the client and for its turn, and counts only after that.  The *)
(* four reads of a group's history are one request here, and a tick stands *)
(* for the time between two joins.  A definition whose name begins with    *)
(* Mut is a mutated form of the next one.                                  *)
(***************************************************************************)
EXTENDS Naturals, FiniteSets

CONSTANTS
    Callers,      \* whoever may use the account at one time
    OpsOf,        \* caller -> the operations it begins
    DailyLimit, Limit,   \* requests of a day; method -> its own limit of a day
    Reserve,      \* requests the collects leave to the other operations
    StreakLimit,  \* timeouts in a row that stop the account
    JoinDaily,    \* joins of a day
    JoinGap,      \* ticks between two joins
    FloodWaits,   \* long FloodWaits, in ticks
    MaxTime, MaxOps, MaxRestarts,   \* bounds
    MaxDays       \* bound: days, and each restart takes one of them away

Ops == {"collect", "invite", "inspect", "search", "test"}
Limited == {"resolve", "search", "check"}
Methods == Limited \cup {"join", "full", "history"}
Never == 0

ASSUME AccountAssumption ==
    /\ OpsOf \in [Callers -> SUBSET Ops]
    /\ \E c \in Callers : "invite" \in OpsOf[c]   \* the nightly run, if nobody else
    /\ Limit \in [Limited -> Nat]
    /\ {DailyLimit, Reserve, StreakLimit, JoinDaily, JoinGap} \subseteq Nat
    /\ FloodWaits \subseteq Nat \ {0}
    /\ {MaxTime, MaxDays, MaxOps, MaxRestarts} \subseteq Nat
    /\ IsFiniteSet(Callers)

VARIABLES
    now, day,     \* time in ticks, and the calendar day
    acc,          \* the service: stopped, lastError, requestDay, the counts, floodWaitUntil, timeoutStreak
    connected,    \* client is set
    joins,        \* joinDay, joinsToday, lastJoinAt, joinBlocked
    req,          \* caller -> its operation under way
    prep,         \* prepareForCollectRun under way
    row,          \* the FloodWait row of mtproto_state
    cause,        \* history: why the account was stopped last
    wait,         \* history: when the FloodWait Telegram asked for ends
    forgot,       \* history: how a FloodWait may have been forgotten
    crowd,        \* history: the most joins that were under way at one time
    ops, restarts \* operations begun and restarts, bounded

vars == <<now, day, acc, connected, joins, req, prep, row,
          cause, wait, forgot, crowd, ops, restarts>>
bounds == <<ops, restarts>>
hist == <<cause, wait, forgot>>

Idle == [op |-> "none", at |-> "idle", m |-> "full", stored |-> FALSE, again |-> FALSE, until |-> Never]
PrepIdle == [at |-> "idle", until |-> Never]
NoCounts == [all |-> 0, resolve |-> 0, search |-> 0, check |-> 0]

-----------------------------------------------------------------------------
(* The tests and what they change in passing *)

\* isFloodWaitBlocking
Blocking(until) == until > now

\* rollDailyCounter: a new day forgets the counts, and the stop if its reason is still readable.
Rolled(a) ==
    LET b == [a EXCEPT !.day = day, !.used = NoCounts]
    IN  IF a.day = day THEN a
        ELSE IF a.error = "daily_limit" THEN [b EXCEPT !.stopped = FALSE, !.error = "none"] ELSE b

\* The first half of canUseMtproto: a FloodWait that is over starts the account again.
Lifted(a) ==
    IF a.stopped /\ a.error = "flood_wait" /\ ~Blocking(a.until)
    THEN [a EXCEPT !.stopped = FALSE, !.error = "none"] ELSE a

\* The second half.
Usable(a) == ~a.stopped /\ ~Blocking(a.until)

\* canSpendCollect: remainingRequests > specialReserve
CanSpendCollect(a) == a.used.all + Reserve < DailyLimit

\* What each operation asks before it begins; a is after rollDailyCounter.
Allowed(a, op) ==
    CASE op = "collect" -> CanSpendCollect(a)
      [] op = "inspect" -> a.used.resolve < Limit["resolve"]
      [] op = "search"  -> a.used.search < Limit["search"]
      [] OTHER          -> TRUE

\* The first request of an operation: a stored access hash saves the look-up.
First(op) ==
    CASE op = "collect" -> {"full", "resolve"}
      [] op = "invite"  -> {"full", "check"}
      [] op = "search"  -> {"search"}
      [] OTHER          -> {"resolve"}

\* The request after an answered one; "end" when it was the last.
Following(op, m) ==
    CASE m = "check" -> {"join", "full", "end"}
      [] m = "join"  -> {"full", "end"}
      [] m = "resolve" -> {"full"}
      [] m = "full" /\ op # "inspect" -> {"history"}
      [] OTHER -> {"end"}

-----------------------------------------------------------------------------
(* An operation and its requests *)

\* collectAndSave, collectInviteAndSave, inspectPublicUsername, searchPublicByKeyword or
\* testPublicUsername up to its first await; what may not begin only had a look.
Begin(c, op) ==
    LET a == Lifted(acc)
        b == IF op = "test" \/ op = "invite" THEN a ELSE Rolled(a)
    IN  /\ req[c].at = "idle" /\ op \in OpsOf[c] /\ ops < MaxOps
        /\ ops' = ops + 1
        /\ acc' = IF Usable(a) THEN b ELSE a
        /\ IF Usable(a) /\ Allowed(b, op)
           THEN \E m \in First(op) :
                    req' = [req EXCEPT ![c] = [Idle EXCEPT !.op = op, !.at = "ready", !.m = m, !.stored = (m = "full")]]
           ELSE UNCHANGED req
        /\ cause' = IF acc'.stopped THEN cause ELSE "none"
        /\ UNCHANGED <<now, day, connected, joins, crowd, prep, row, wait, forgot, restarts>>

\* What the operation's catch leaves in lastError and stopped.  Only the test of a name
\* leaves them alone; looking at and searching names do not know a FloodWait from others.
Caught(a, op, code) ==
    CASE code = "auth" -> [a EXCEPT !.stopped = TRUE, !.error = "auth"]
      [] op = "test"   -> a
      [] op \in {"collect", "invite"} /\ code \in {"flood_wait", "timeout"} -> a
      [] OTHER         -> [a EXCEPT !.error = "other"]

\* The operation ends with an error thrown by a request.
Fails(c, a, code, why) ==
    /\ acc' = Caught(a, req[c].op, code)
    /\ cause' = IF code = "auth" THEN "auth" ELSE IF acc'.stopped THEN why ELSE "none"
    /\ connected' = (connected /\ code # "auth")
    /\ req' = [req EXCEPT ![c] = Idle]

\* The operation's own test before it asks: these end it and leave no trace.
SkippedBefore(c) ==
    \/ req[c].m \in {"resolve", "check"} /\ acc.used[req[c].m] >= Limit[req[c].m]
    \/ req[c].op = "invite" /\ req[c].stored /\ ~(Usable(Lifted(Rolled(acc))) /\ CanSpendCollect(Rolled(acc)))

Skip(c) ==
    /\ req[c].at = "ready" /\ SkippedBefore(c)
    /\ acc' = IF req[c].stored THEN Lifted(Rolled(acc)) ELSE acc
    /\ cause' = IF acc'.stopped THEN cause ELSE "none"
    /\ req' = [req EXCEPT ![c] = Idle]
    /\ UNCHANGED <<now, day, connected, joins, crowd, prep, row, wait, forgot, bounds>>

\* Mutated: call without the test for a FloodWait.
MutRefusal(a, m) ==
    CASE a.used.all >= DailyLimit -> "daily_limit"
      [] m = "search" /\ a.used.search >= Limit["search"] -> "search_limit"
      [] OTHER                    -> "none"

\* Mutated: call without the limit of the day.
MutUnlimited(a, m) == IF Blocking(a.until) THEN "flood_wait" ELSE "none"

\* What call tests before it waits.
Refusal(a, m) ==
    CASE Blocking(a.until)        -> "flood_wait"
      [] a.used.all >= DailyLimit -> "daily_limit"
      [] m = "search" /\ a.used.search >= Limit["search"] -> "search_limit"
      [] OTHER                    -> "none"

\* call, up to its first await.  The plain Error('flood_wait') and MTPROTO_DAILY_LIMIT are
\* other errors to the catch of the operation, which renames the reason of the stop.
Request(c) ==
    LET a == Rolled(acc)
        r == Refusal(a, req[c].m)
        b == IF r = "daily_limit" THEN [a EXCEPT !.stopped = TRUE, !.error = "daily_limit"] ELSE a
    IN  /\ req[c].at = "ready" /\ ~SkippedBefore(c)
        /\ IF r = "none"
           THEN /\ acc' = a
                /\ req' = [req EXCEPT ![c].at = "turn"]
                /\ cause' = IF a.stopped THEN cause ELSE "none"
                /\ UNCHANGED connected
           ELSE IF r = "search_limit"
           THEN /\ acc' = a
                /\ req' = [req EXCEPT ![c] = Idle]
                /\ cause' = IF a.stopped THEN cause ELSE "none"
                /\ UNCHANGED connected
           ELSE Fails(c, b, "other", IF r = "daily_limit" THEN "daily_limit" ELSE cause)
        /\ UNCHANGED <<now, day, joins, crowd, prep, row, wait, forgot, bounds>>

\* ensureClient and connect: no session or no connection in time, or an account error, for
\* which connect itself stops the service.  The caller only learns mtproto_connect_failed.
ConnectFails(c) ==
    /\ req[c].at = "turn" /\ ~connected
    /\ \/ Fails(c, [acc EXCEPT !.error = "other"], "other", cause)
       \/ Fails(c, [acc EXCEPT !.stopped = TRUE, !.error = "auth"], "other", "auth")
    /\ UNCHANGED <<now, day, joins, crowd, prep, row, wait, forgot, bounds>>

\* One more request of this method.
Plus(counts, m) == [k \in DOMAIN counts |-> counts[k] + (IF k \in {"all", m} THEN 1 ELSE 0)]

\* call goes on after its turn came: it counts the request, on whatever day the counts are
\* of and without another look at the limits, and hands it to the client.
Send(c) ==
    /\ req[c].at = "turn"
    /\ connected' = TRUE
    /\ acc' = [acc EXCEPT !.used = Plus(@, req[c].m)]
    /\ req' = [req EXCEPT ![c].at = "sent"]
    /\ UNCHANGED <<now, day, joins, crowd, prep, row, hist, bounds>>

-----------------------------------------------------------------------------
(* What Telegram answers *)

\* Mutated: canJoinAnother without the limit of the day.
MutCanJoin == ~joins.blocked /\ (joins.last = Never \/ now - joins.last >= JoinGap)

\* canJoinAnother
CanJoin ==
    LET today == IF joins.day = day THEN joins.today ELSE 0
    IN  /\ ~joins.blocked
        /\ today < JoinDaily
        /\ joins.last = Never \/ now - joins.last >= JoinGap

\* The join is counted when its answer is here; the save this schedules first rolls the day.
\* The total of all days, saved at once, is left out.
Joined ==
    LET j == [joins EXCEPT !.today = @ + 1]
    IN  joins' = IF j.day = day THEN j ELSE [j EXCEPT !.day = day, !.today = 0]

\* tryJoinInvite up to its request: the time of the join is noted before it is asked.
StartJoin ==
    /\ CanJoin
    /\ joins' = [joins EXCEPT !.today = IF joins.day = day THEN @ ELSE 0, !.day = day, !.last = now]

\* Whose join is under way, and not counted yet.
Joining == {c \in Callers : req[c].at # "idle" /\ req[c].m = "join"}

\* A good answer, and the operation's next request.  After a check of an invitation this is
\* a join only where one more is allowed.
Answer(c, next) ==
    /\ req[c].at = "sent" /\ next \in Following(req[c].op, req[c].m)
    /\ acc' = [acc EXCEPT !.streak = 0]
    /\ req' = [req EXCEPT ![c] = IF next = "end" THEN Idle
                                 ELSE [@ EXCEPT !.at = "ready", !.m = next, !.stored = FALSE, !.again = FALSE]]
    /\ IF req[c].m = "join" THEN Joined
       ELSE IF next = "join" THEN StartJoin ELSE UNCHANGED joins
    /\ crowd' = IF next = "join" /\ crowd <= Cardinality(Joining) THEN Cardinality(Joining) + 1 ELSE crowd
    /\ UNCHANGED <<now, day, connected, prep, row, hist, bounds>>

\* The stored access hash is no longer good: it is dropped and the name is looked up, or
\* the invitation checked.
StoredInvalid(c) ==
    /\ req[c].at = "sent" /\ req[c].stored
    /\ acc' = [acc EXCEPT !.streak = 0]
    /\ req' = [req EXCEPT ![c] = [@ EXCEPT !.at = "ready", !.stored = FALSE, !.again = FALSE,
                                           !.m = IF req[c].op = "invite" THEN "check" ELSE "resolve"]]
    /\ UNCHANGED <<now, day, connected, joins, crowd, prep, row, hist, bounds>>

\* Thirty seconds without an answer: noteRequestTimeout.  A join
\* Telegram did all the same is not counted.
TimedOut(c) ==
    LET streak == acc.streak + 1
        a == IF streak >= StreakLimit
             THEN [acc EXCEPT !.streak = streak, !.stopped = TRUE, !.error = "streak"]
             ELSE [acc EXCEPT !.streak = streak, !.error = "timeout"]
    IN  /\ req[c].at = "sent"
        /\ Fails(c, a, "timeout", IF streak >= StreakLimit THEN "streak" ELSE cause)
        /\ UNCHANGED <<now, day, joins, crowd, prep, row, wait, forgot, bounds>>

\* Any other error.  A full account blocks the joins; some refused joins only end the operation.
Refused(c, code) ==
    LET a == [acc EXCEPT !.streak = 0]
    IN  /\ req[c].at = "sent" /\ code \in {"auth", "other", "invalid", "too_much"}
        /\ code \in {"invalid", "too_much"} => req[c].m = "join"
        /\ joins' = [joins EXCEPT !.blocked = @ \/ code = "too_much"]
        /\ IF code \in {"invalid", "too_much"}
           THEN /\ acc' = a /\ req' = [req EXCEPT ![c] = Idle]
                /\ UNCHANGED <<connected, cause>>
           ELSE Fails(c, a, code, cause)
        /\ UNCHANGED <<now, day, prep, row, wait, forgot, crowd, bounds>>

\* retryAfterFloodWait: a wait of at most five minutes is waited for, once, and the request
\* sent again without being counted.
FloodShort(c) ==
    /\ req[c].at = "sent" /\ ~req[c].again
    /\ req' = [req EXCEPT ![c].again = TRUE]
    /\ UNCHANGED <<now, day, acc, connected, joins, crowd, prep, row, hist, bounds>>

\* The second FloodWait of a request is an error like any other, however long.
FloodAgain(c) ==
    /\ req[c].at = "sent" /\ req[c].again
    /\ Fails(c, [acc EXCEPT !.streak = 0], "other", cause)
    /\ UNCHANGED <<now, day, joins, crowd, prep, row, wait, forgot, bounds>>

\* A longer one stops the account: persistFloodWait up to the save of the row.
FloodLong(c, w) ==
    /\ req[c].at = "sent" /\ ~req[c].again /\ now + w <= MaxTime
    /\ acc' = [acc EXCEPT !.until = now + w, !.stopped = TRUE, !.error = "flood_wait"]
    /\ cause' = "flood_wait"
    /\ wait' = IF wait > now + w THEN wait ELSE now + w
    /\ forgot' = forgot \cup (IF wait > now + w THEN {"shorter"} ELSE {})
    /\ req' = [req EXCEPT ![c].at = "saving", ![c].until = now + w]
    /\ UNCHANGED <<now, day, connected, joins, crowd, prep, row, bounds>>

\* The row is saved, and FloodWaitTooLongError reaches the catch of the operation; or the
\* save fails, and its own error does.
FloodSaved(c) ==
    /\ req[c].at = "saving"
    /\ row' = req[c].until
    /\ forgot' = forgot \cup (IF row > req[c].until /\ row > now THEN {"overtaken"} ELSE {})
    /\ Fails(c, acc, "flood_wait", cause)
    /\ UNCHANGED <<now, day, joins, crowd, prep, wait, bounds>>

FloodNotSaved(c) ==
    /\ req[c].at = "saving"
    /\ forgot' = forgot \cup {"unsaved"}
    /\ Fails(c, acc, "other", cause)
    /\ UNCHANGED <<now, day, joins, crowd, prep, row, wait, bounds>>

-----------------------------------------------------------------------------
(* The nightly run, the store, restarts and time *)

\* Mutated: the run that begins does not start the account again.
MutPrepared(a) == IF Blocking(a.until) THEN [a EXCEPT !.stopped = TRUE, !.error = "flood_wait"] ELSE a

\* The end of prepareForCollectRun: a FloodWait keeps the account stopped, a stop by timeouts
\* or by a FloodWait that is over ends.
Prepared(a) ==
    IF Blocking(a.until) THEN [a EXCEPT !.stopped = TRUE, !.error = "flood_wait"]
    ELSE IF a.stopped /\ a.error \in {"streak", "flood_wait"}
    THEN [a EXCEPT !.stopped = FALSE, !.error = "none"] ELSE a

Decide(a) ==
    /\ acc' = Prepared(a)
    /\ cause' = IF ~acc'.stopped THEN "none" ELSE IF a.stopped THEN cause ELSE "flood_wait"
    /\ prep' = PrepIdle

\* prepareForCollectRun asks for the row,
PrepareBegins ==
    /\ prep.at = "idle"
    /\ prep' = [at |-> "read", until |-> row]
    /\ acc' = [acc EXCEPT !.streak = 0]
    /\ UNCHANGED <<now, day, connected, joins, crowd, req, row, hist, bounds>>

\* takes what it read over what is in memory,
PrepareReads ==
    /\ prep.at = "read"
    /\ forgot' = forgot \cup (IF acc.until > now /\ acc.until > prep.until THEN {"overtaken"} ELSE {})
    /\ IF prep.until # Never /\ ~Blocking(prep.until)
       THEN /\ acc' = [acc EXCEPT !.until = Never]
            /\ prep' = [at |-> "clear", until |-> Never]
            /\ UNCHANGED cause
       ELSE Decide([acc EXCEPT !.until = prep.until])
    /\ UNCHANGED <<now, day, connected, joins, crowd, req, row, wait, bounds>>

\* and clears a row that is over.
PrepareClears ==
    /\ prep.at = "clear"
    /\ row' = Never
    /\ forgot' = forgot \cup (IF row > now THEN {"overtaken"} ELSE {})
    /\ Decide(acc)
    /\ UNCHANGED <<now, day, connected, joins, crowd, req, wait, bounds>>

\* The server starts again: onModuleInit restores the counts of some earlier moment of today
\* (DailyCounters), and the FloodWait.
Restarted(used, today) ==
    LET full == used.all >= DailyLimit
        until == IF Blocking(row) THEN row ELSE Never
    IN  /\ acc' = [stopped |-> full \/ until # Never, day |-> day, used |-> used, until |-> until, streak |-> 0,
                   error |-> IF full THEN "daily_limit" ELSE IF until # Never THEN "flood_wait" ELSE "none"]
        /\ cause' = acc'.error
        /\ row' = until
        /\ joins' = [day |-> day, today |-> today, last |-> Never, blocked |-> FALSE]
        /\ connected' = FALSE
        /\ req' = [c \in Callers |-> Idle]
        /\ prep' = PrepIdle
        /\ forgot' = forgot \cup (IF acc.until > row /\ acc.until > now THEN {"unsaved"} ELSE {})

Restart ==
    /\ restarts < MaxRestarts
    /\ restarts' = restarts + 1
    /\ \E all \in 0..(IF acc.day = day THEN acc.used.all ELSE 0),
          resolve \in 0..acc.used.resolve, search \in 0..acc.used.search, check \in 0..acc.used.check,
          today \in 0..(IF joins.day = day THEN joins.today ELSE 0) :
          /\ resolve + search + check <= all   \* saved together
          /\ Restarted([all |-> all, resolve |-> resolve, search |-> search, check |-> check], today)
    /\ UNCHANGED <<now, day, wait, crowd, ops>>

Tick ==
    /\ now < MaxTime
    /\ now' = now + 1
    /\ UNCHANGED <<day, acc, connected, joins, crowd, req, prep, row, hist, bounds>>

NewDay ==
    /\ day + restarts < MaxDays
    /\ day' = day + 1
    /\ UNCHANGED <<now, acc, connected, joins, crowd, req, prep, row, hist, bounds>>

Init ==
    /\ now = 1 /\ day = 1
    /\ acc = [stopped |-> FALSE, error |-> "none", day |-> 1, used |-> NoCounts, until |-> Never, streak |-> 0]
    /\ connected = FALSE
    /\ joins = [day |-> 1, today |-> 0, last |-> Never, blocked |-> FALSE]
    /\ req = [c \in Callers |-> Idle]
    /\ prep = PrepIdle
    /\ row = Never
    /\ cause = "none" /\ wait = Never /\ forgot = {} /\ crowd = 0
    /\ ops = 0 /\ restarts = 0

Prepare == PrepareBegins \/ PrepareReads \/ PrepareClears

Next ==
    \/ \E c \in Callers :
        \/ \E op \in Ops : Begin(c, op)
        \/ Skip(c)
        \/ Request(c)
        \/ ConnectFails(c)
        \/ Send(c)
        \/ \E next \in Methods \cup {"end"} : Answer(c, next)
        \/ StoredInvalid(c)
        \/ TimedOut(c)
        \/ \E code \in {"auth", "other", "invalid", "too_much"} : Refused(c, code)
        \/ FloodShort(c)
        \/ FloodAgain(c)
        \/ \E w \in FloodWaits : FloodLong(c, w)
        \/ FloodSaved(c)
        \/ FloodNotSaved(c)
    \/ Prepare
    \/ Restart
    \/ Tick
    \/ NewDay

Spec == Init /\ [][Next]_vars

\* Time passes, and the nightly run is started by a timer and waits for queries that end.
FairSpec == Spec /\ WF_vars(Tick) /\ WF_vars(Prepare)

-----------------------------------------------------------------------------
(* Properties *)

Reasons == {"none", "flood_wait", "daily_limit", "timeout", "streak", "auth", "other"}
Counts == [DOMAIN NoCounts -> Nat]

\* Every variable keeps its shape.
TypeOK ==
    /\ now \in Nat /\ day \in Nat /\ row \in Nat /\ wait \in Nat
    /\ acc \in [stopped : BOOLEAN, error : Reasons, day : Nat, used : Counts, until : Nat, streak : Nat]
    /\ connected \in BOOLEAN
    /\ joins \in [day : Nat, today : Nat, last : Nat, blocked : BOOLEAN]
    /\ req \in [Callers -> [op : Ops \cup {"none"}, at : {"idle", "ready", "turn", "sent", "saving"},
                            m : Methods, stored : BOOLEAN, again : BOOLEAN, until : Nat]]
    /\ prep \in [at : {"idle", "read", "clear"}, until : Nat]
    /\ cause \in Reasons
    /\ forgot \subseteq {"shorter", "overtaken", "unsaved"}
    /\ crowd \in Nat
    /\ ops \in 0..MaxOps /\ restarts \in 0..MaxRestarts

LimitOf(k) == IF k = "all" THEN DailyLimit ELSE Limit[k]

\* The limits are tested before the wait for the client and the turn and counted after it,
\* so callers that wait together pass a limit together: whatever they do, the count of a day
\* is above a limit by no more than the other callers.
BudgetHeld == \A k \in DOMAIN acc.used : acc.used[k] <= LimitOf(k) + Cardinality(Callers) - 1

\* While a FloodWait of Telegram runs no further request passes the tests, through restarts
\* and the nightly run's reading of the row, unless the wait was forgotten: its row was not
\* saved in time, overtaken on its way, or a shorter wait took its place.
FloodRespected ==
    [][\A c \in Callers : req[c].at = "ready" /\ req'[c].at = "turn" => wait <= now \/ forgot # {}]_vars

\* A join is tested against the limit of the day before it is asked for and counted when it
\* is answered.  Joins one after another keep the limit, through restarts and over midnight;
\* joins that take longer than the gap, and overlap, pass it by at most the others that were
\* under way with one of them.
JoinsHeld == joins.today <= JoinDaily + (IF crowd > 1 THEN crowd - 1 ELSE 0)

\* A stop by a FloodWait or by timeouts always ends, if only because something else writes
\* over its reason.
StopsEnd == []<>~(acc.stopped /\ acc.error \in {"flood_wait", "streak"})

-----------------------------------------------------------------------------
(* What the texts of the repository say and the code does not do *)

\* mtproto-collector.service.ts:266: when the FloodWait is over the account is used again at
\* once, without waiting for the next nightly run (no query of the wait's row having failed).
FloodStopLifts ==
    forgot = {} /\ acc.stopped /\ cause = "flood_wait" /\ ~Blocking(acc.until) => Usable(Lifted(acc))
=============================================================================
