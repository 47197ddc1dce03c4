------------------------------ MODULE CollectRun ------------------------------
(***************************************************************************)
(* A collection and what it leaves in the channel rows                     *)
(* (channel-collector.service.ts, collect-pool.logic.ts).                  *)
(*                                                                         *)
(* A light run first reads new groups and invitations one by one, then     *)
(* shares the due channels out among workers; a full run goes through them *)
(* with one worker and tries the failures of the day again.  Beside it     *)
(* registrations and admins have single channels collected.  An attempt    *)
(* loads the whole row, reads pages, and saves the whole row: what others  *)
(* wrote in between is put back.  An attempt that takes two minutes is     *)
(* abandoned by its worker, but it goes on.                                *)
(*                                                                         *)
(* An answer and the save it leads to are one action, the save being the   *)
(* only thing others see.  Pages, posts and events are left out; so are    *)
(* the priorities of the queue and the dates: a row is due or it is not.   *)
(* Every row is active.  A definition whose name begins with Mut is a      *)
(* mutated form of the next one.                                           *)
(***************************************************************************)
EXTENDS Naturals, FiniteSets

CONSTANTS
    Channels, NoChannel,
    Invites,        \* channels known by an invitation link only
    Chat,           \* channel -> the Telegram chat it is a row of
    RealKind,       \* channel -> what Telegram says it is, a channel or a group
    Verdicts,       \* the answers against a channel that are considered
    Workers, Lead,  \* the workers of a light run; the only one of the other rounds
    Desk,           \* registrations, admins and single collections
    DeskWork,       \* the channels they have collected, and how
    QueueLimit,     \* channels taken by one round
    FirstRows,      \* rows the model begins with
    MaxRuns,        \* bound of runs
    MaxBeside       \* bound of what happens beside them: desk attempts, timeouts, errors, due dates

GoneAfter == 3

Kinds == {"channel", "group"}
Statuses == {"none", "ok", "failed", "private", "gone", "invalid", "expired", "merged"}
Errors == {"none", "other", "empty_once", "no_posts", "disabled"}
Hows == {"light", "full", "now"}
Rounds == {"first", "light", "full", "retry"}

\* The columns of a channel that its collection reads and writes.
Row == [kind : Kinds, status : Statuses, error : Errors, gone : 0..GoneAfter, seen : BOOLEAN, due : BOOLEAN]

ASSUME CollectAssumption ==
    /\ IsFiniteSet(Channels) /\ IsFiniteSet(Workers)
    /\ Invites \subseteq Channels /\ Lead \in Workers /\ NoChannel \notin Channels
    /\ Desk \cap Workers = {}
    /\ RealKind \in [Channels -> Kinds] /\ Verdicts \subseteq {"failed", "private", "invalid", "expired", "later"}
    /\ DeskWork \subseteq Channels \X {"now", "full"}
    /\ FirstRows \subseteq [Channels -> Row]
    /\ \A rows \in FirstRows : \A c \in Channels :
         /\ rows[c].status = "gone" => rows[c].gone = GoneAfter
         /\ rows[c].status = "ok" /\ rows[c].error = "none" => rows[c].gone = 0
         /\ \E d \in Channels : Chat[d] = Chat[c] /\ rows[d].status # "merged"
    /\ QueueLimit \in Nat \ {0}
    /\ {MaxRuns, MaxBeside} \subseteq Nat

VARIABLES
    row,      \* channel -> its row
    run,      \* the round under way and what is left of it
    wk,       \* worker -> where it stands
    att,      \* slot -> the attempt in it
    cooling,  \* the gate lets no request through
    misses,   \* history: not_found answers saved since the last success
    empties,  \* history: empty pages in a row
    raced,    \* history: a row was written from a stale copy since its last clean success
    mixed,    \* history: chats of which two merges were under way at once
    used      \* runs, and what happened beside them, so far: bounded

vars == <<row, run, wk, att, cooling, misses, empties, raced, mixed, used>>
hist == <<misses, empties, raced, mixed>>

\* An attempt is in the hand of its worker or has been abandoned; one per worker.
Slots == (Workers \X {"hand", "stray"}) \cup (Desk \X {"hand"})
NoAttempt == [at |-> "none", c |-> NoChannel, how |-> "now", s |-> CHOOSE r \in Row : TRUE,
              old |-> FALSE, live |-> {}]
NoRound == [mode |-> "idle", then |-> "idle", left |-> {}, total |-> 0, ok |-> 0, fail |-> 0, over |-> FALSE]

Taken == run.total - Cardinality(run.left)
Twins(c) == {d \in Channels : Chat[d] = Chat[c]}

-----------------------------------------------------------------------------
(* What an attempt makes of a row *)

\* Only whether the limit is reached matters.
Capped(n) == IF n > GoneAfter THEN GoneAfter ELSE n

\* applySuccessfulCollect and persist
Success(s) == [s EXCEPT !.status = "ok", !.error = "none", !.gone = 0, !.seen = TRUE, !.due = FALSE]

\* Mutated: every failure counts towards gone.
MutFailed(s, status, error) ==
    [s EXCEPT !.status = status, !.error = error, !.gone = Capped(@ + 1), !.due = FALSE]

\* markFailed: leaves the count of not_found answers as it is.
Failed(s, status, error) == [s EXCEPT !.status = status, !.error = error, !.due = FALSE]

\* markGoneProgress
Missing(s) == [s EXCEPT !.gone = Capped(@ + 1), !.error = "other", !.due = FALSE,
                        !.status = IF s.gone + 1 >= GoneAfter THEN "gone" ELSE "failed"]

\* What a final answer makes of the row: "invalid" is markInvalid, "expired"
\* markInviteExpired, "later" a reused verdict that only moves the date.
Outcome(s, o) ==
    CASE o = "ok"      -> Success(s)
      [] o = "missing" -> Missing(s)
      [] o = "later"   -> [s EXCEPT !.due = FALSE]
      [] OTHER         -> Failed(s, o, "other")

\* Mutated: the first empty page already blocks.
MutMissError(e) == IF e \in {"no_posts", "disabled"} THEN e ELSE "disabled"

\* previewMissError
MissError(e) ==
    CASE e = "empty_once" -> "disabled"
      [] e \in {"no_posts", "disabled"} -> e
      [] OTHER -> "empty_once"

\* isPreviewBlocked
Blocked(s) == s.error \in {"no_posts", "disabled"}

-----------------------------------------------------------------------------
(* The queue and the workers *)

\* selectDueChannels, selectFirstSeenNonLight and retrySameDayFailures
Eligible(mode) ==
    CASE mode = "light" -> {c \in Channels \ Invites : row[c].kind = "channel" /\ row[c].due /\ row[c].status # "merged"}
      [] mode = "full"  -> {c \in Channels : row[c].due /\ row[c].status # "merged"}
      [] mode = "first" -> {c \in Channels : /\ ~row[c].seen /\ row[c].status \in {"none", "failed", "private"}
                                             /\ row[c].kind = "group" \/ c \in Invites}
      [] mode = "retry" -> {c \in Channels : row[c].status = "failed"}

\* What one query returns.  The limit and the order keep some out; a failure that is not
\* of today is not tried again, nor a new room that was tried in the last twelve hours.
Selected(mode) == {S \in SUBSET Eligible(mode) :
    /\ mode # "retry" => Cardinality(S) <= QueueLimit
    /\ mode \in {"light", "full"} => Cardinality(S) = QueueLimit \/ S = Eligible(mode)}

\* collectFirstSeenNonLight, collectLightAll, collectAll and retrySameDayFailures up to
\* the first item.
StartRound(mode, then) ==
    /\ \E S \in Selected(mode) :
          run' = [NoRound EXCEPT !.mode = mode, !.then = then, !.left = S, !.total = Cardinality(S)]
    /\ wk' = [w \in Workers |-> IF mode = "light" \/ w = Lead THEN "loop" ELSE "off"]
    /\ UNCHANGED <<row, att, cooling, hist>>

StartRun ==
    /\ run.mode = "idle" /\ run.then = "idle" /\ used.runs < MaxRuns
    /\ used' = [used EXCEPT !.runs = @ + 1]
    /\ StartRound("first", "light") \/ StartRound("full", "retry")

\* The second half of a light run, and of a full one that has time left.
GoOn ==
    /\ run.mode = "idle" /\ run.then # "idle"
    /\ StartRound(run.then, "idle")
    /\ UNCHANGED used

Deadline == run.mode \in {"first", "light", "full"} /\ ~run.over

BudgetEnds ==
    /\ Deadline
    /\ run' = [run EXCEPT !.over = TRUE]
    /\ UNCHANGED <<row, wk, att, cooling, hist, used>>

\* A light worker begins nothing while t.me answers 429, unless the time is over.
WaitsForGate == run.mode = "light" /\ cooling /\ ~run.over

\* Mutated: the test of the budget without the rule for the first item.
MutOutOfTime == run.over

OutOfTime == run.over /\ Taken > 0

\* Mutated: a worker that is out of time waits for the items to be gone.
MutWorkerStops(w) ==
    /\ wk[w] = "loop" /\ ~WaitsForGate /\ run.left = {}
    /\ wk' = [wk EXCEPT ![w] = "off"]
    /\ UNCHANGED <<row, run, att, cooling, hist, used>>

WorkerStops(w) ==
    /\ wk[w] = "loop" /\ ~WaitsForGate
    /\ OutOfTime \/ run.left = {}
    /\ wk' = [wk EXCEPT ![w] = "off"]
    /\ UNCHANGED <<row, run, att, cooling, hist, used>>

\* The round is over and reports its counts; a full run out of time retries nothing.
RoundEnds ==
    /\ run.mode # "idle" /\ \A w \in Workers : wk[w] = "off"
    /\ run' = [NoRound EXCEPT !.then = IF run.mode = "full" /\ run.over THEN "idle" ELSE run.then]
    /\ UNCHANGED <<row, wk, att, cooling, hist, used>>

-----------------------------------------------------------------------------
(* Attempts *)

\* The attempt in slot p is over.  Only the one in the hand of a worker is counted.
Over(p, ok) ==
    IF p \in Workers \X {"hand"}
    THEN /\ run' = IF ok THEN [run EXCEPT !.ok = @ + 1] ELSE [run EXCEPT !.fail = @ + 1]
         /\ wk' = [wk EXCEPT ![p[1]] = "loop"]
    ELSE UNCHANGED <<run, wk>>

\* The copies that others hold of channel c are no longer what the row says.
Aged(a, p, c) == [q \in Slots |-> IF q # p /\ a[q].c = c THEN [a[q] EXCEPT !.old = TRUE] ELSE a[q]]

\* The attempt in slot p writes r and becomes next; m and e go to the history.  A success
\* owes nothing to the copy it began with, but the note of an empty feed that follows it may.
Write(p, r, next, m, e) ==
    LET a == att[p]
        good == r.status = "ok" /\ r.error = "none"
    IN  /\ row' = [row EXCEPT ![a.c] = r]
        /\ att' = [Aged(att, p, a.c) EXCEPT ![p] = next]
        /\ misses' = [misses EXCEPT ![a.c] = IF good THEN 0 ELSE m]
        /\ empties' = [empties EXCEPT ![a.c] = e]
        /\ raced' = [raced EXCEPT ![a.c] = ~(good /\ next.at # "mark") /\ (@ \/ a.old)]

\* Mutated: a full attempt that does not look whether the row was merged meanwhile.
MutSkips(a, s) == a.how = "light" /\ s.kind # "channel"

\* A light attempt leaves groups alone, a full one merged rows.
Skips(a, s) ==
    \/ a.how = "light" /\ s.kind # "channel"
    \/ a.how = "full" /\ s.status = "merged"

\* Where an attempt begins.  The account may be stopped or out of its budget, and may have
\* stored access to anything.
Begins(a, s) ==
    CASE a.how = "light"  -> {"preview"}
      [] a.c \in Invites  -> {"member", "invite"}
      [] a.how = "full"   -> {"member", "classify"}
      [] s.kind = "channel" /\ Blocked(s) -> {"member", "profile"}
      [] OTHER            -> {"profile"}

\* collectOne and collectPublicPageNow begin: the row is loaded again, whatever the queue
\* held.  Nothing others can see happens between the start of an attempt and this.
Loaded(c, how) ==
    LET a == [NoAttempt EXCEPT !.c = c, !.how = how, !.s = row[c]]
    IN  IF Skips(a, row[c]) THEN {[a EXCEPT !.at = "skip"]}
        ELSE {[a EXCEPT !.at = first] : first \in Begins(a, row[c])}

\* A worker takes the next item: the cursor moves before anything is awaited.
TakeItem(w) ==
    /\ wk[w] = "loop" /\ ~WaitsForGate /\ ~OutOfTime
    /\ \E c \in run.left :
          /\ run' = [run EXCEPT !.left = @ \ {c}]
          /\ \E a \in Loaded(c, CASE run.mode = "light" -> "light" [] run.mode = "first" -> "now" [] OTHER -> "full") :
                att' = [att EXCEPT ![<<w, "hand">>] = a]
    /\ wk' = [wk EXCEPT ![w] = "busy"]
    /\ UNCHANGED <<row, cooling, hist, used>>

\* A desk attempt: collectPublicPageNow after a registration, an approval or for an admin,
\* or collectOne for a single channel.
Ask(d) ==
    /\ att[<<d, "hand">>].at = "none" /\ used.beside < MaxBeside
    /\ \E t \in DeskWork :
          \E a \in Loaded(t[1], t[2]) : att' = [att EXCEPT ![<<d, "hand">>] = a]
    /\ used' = [used EXCEPT !.beside = @ + 1]
    /\ UNCHANGED <<row, run, wk, cooling, hist>>

\* The end of an attempt that had nothing to do.
Skip(p) ==
    /\ att[p].at = "skip"
    /\ att' = [att EXCEPT ![p] = NoAttempt] /\ Over(p, FALSE)
    /\ UNCHANGED <<row, cooling, hist, used>>

\* What a good answer says of the kind of the channel: the page of a name always, that of
\* an invitation sometimes, the others nothing.
KindSaid(a) ==
    CASE a.at = "profile" -> {RealKind[a.c]}
      [] a.at = "invite"  -> {RealKind[a.c], a.s.kind}
      [] OTHER            -> {a.s.kind}

\* The final answers of each stage.
Answers(at) ==
    CASE at = "preview"  -> {"ok", "missing", "failed", "private"}
      [] at = "classify" -> {"failed", "private", "invalid", "later"}
      [] at = "group"    -> {"ok", "missing"}
      [] at = "bot"      -> {"ok", "missing", "failed", "private"}
      [] at = "profile"  -> {"ok", "missing", "failed", "private", "invalid"}
      [] at = "invite"   -> {"ok", "failed", "expired"}
      [] OTHER           -> {}

\* collectPublicPreview, collectGroup, collectViaBot, collectPublicUsernameProfile,
\* collectInvitePreview and the last part of collectOne: a page answers, the row is saved.
Answer(p) ==
    LET a == att[p] IN
    /\ \E o \in Answers(a.at) \cap ({"ok", "missing"} \cup Verdicts), k \in KindSaid(a) :
          /\ Write(p, Outcome(IF o = "ok" THEN [a.s EXCEPT !.kind = k] ELSE a.s, o), NoAttempt,
                   CASE o = "ok" -> 0 [] o = "missing" -> Capped(misses[a.c] + 1) [] OTHER -> misses[a.c],
                   IF o = "later" THEN empties[a.c] ELSE 0)
          /\ Over(p, o = "ok")
    /\ UNCHANGED <<cooling, mixed, used>>

\* A 429 of t.me or of the bot is not the channel's fault: nothing is saved.
Limit(p) ==
    /\ att[p].at = "bot" \/ (att[p].at = "preview" /\ att[p].how = "light")
    /\ att' = [att EXCEPT ![p] = NoAttempt] /\ Over(p, FALSE)
    /\ cooling' = (cooling \/ att[p].at = "preview")
    /\ UNCHANGED <<row, hist, used>>

\* A page without posts.  In light a channel never seen fails, and counts as blocked at
\* once; one that was is noted and keeps its status.  A full attempt asks the bot.
EmptyPage(p) ==
    LET a == att[p] IN
    /\ a.at = "preview"
    /\ IF a.how = "full"
       THEN att' = [att EXCEPT ![p].at = "bot"] /\ UNCHANGED <<row, run, wk, misses, empties, raced>>
       ELSE /\ IF a.s.seen
               THEN Write(p, [row[a.c] EXCEPT !.error = MissError(a.s.error), !.due = FALSE], NoAttempt,
                          misses[a.c], Capped(empties[a.c] + 1))
               ELSE Write(p, Failed(a.s, "failed", "no_posts"), NoAttempt, misses[a.c], Capped(empties[a.c] + 1))
            /\ Over(p, FALSE)
    /\ UNCHANGED <<cooling, mixed, used>>

\* The page of a channel is good but its feed is empty: the success is saved first, and the
\* note of the empty feed afterwards.
EmptyFeed(p) ==
    LET a == att[p] IN
    /\ a.at = "profile" /\ RealKind[a.c] = "channel"
    /\ Write(p, [Success(a.s) EXCEPT !.kind = "channel"], [a EXCEPT !.at = "mark"], 0, empties[a.c])
    /\ UNCHANGED <<run, wk, cooling, mixed, used>>

MarkFeed(p) ==
    LET a == att[p] IN
    /\ a.at = "mark"
    /\ Write(p, [row[a.c] EXCEPT !.error = MissError(a.s.error)], NoAttempt, misses[a.c], Capped(empties[a.c] + 1))
    /\ Over(p, TRUE)
    /\ UNCHANGED <<cooling, mixed, used>>

\* A group whose page says nothing is asked of the bot; the account could not read it.
FallsBack(p) ==
    LET a == att[p] IN
    /\ \/ a.at = "group" /\ att' = [att EXCEPT ![p].at = "bot"]
       \/ a.at = "member" /\ att' = [att EXCEPT ![p].at =
              CASE a.c \in Invites -> "invite" [] a.how = "full" -> "classify" [] OTHER -> "profile"]
    /\ UNCHANGED <<row, run, wk, cooling, hist, used>>

\* classifyAccount: the kind is corrected and the row saved, unless a fresh verdict agrees.
Classified(p) ==
    LET a == att[p] IN
    /\ a.at = "classify"
    /\ LET k == RealKind[a.c]
           s == [a.s EXCEPT !.kind = k]
           b == [a EXCEPT !.s = s, !.at = IF k = "group" THEN "group" ELSE "preview"]
       IN  \/ Write(p, s, b, misses[a.c], empties[a.c])
           \/ /\ k = a.s.kind
              /\ att' = [att EXCEPT ![p] = b]
              /\ UNCHANGED <<row, misses, empties, raced>>
    /\ UNCHANGED <<run, wk, cooling, mixed, used>>

\* The account read the room: persist saves the row, then the rows of the same chat are
\* looked up.
MemberReads(p) ==
    LET a == att[p] IN
    /\ a.at = "member"
    /\ Write(p, [Success(a.s) EXCEPT !.kind = RealKind[a.c]], [a EXCEPT !.at = "chat"], 0, 0)
    /\ UNCHANGED <<run, wk, cooling, mixed, used>>

\* Mutated: merged rows are candidates too.
MutFindTwins(p) ==
    LET a == att[p] IN
    /\ a.at = "chat" /\ Cardinality(Twins(a.c)) > 1
    /\ att' = [att EXCEPT ![p].at = "merge", ![p].live = Twins(a.c)]
    /\ UNCHANGED <<row, run, wk, cooling, hist, used>>

\* mergeSameTelegramChat up to the count of the favourites.
FindTwins(p) ==
    LET a == att[p]
        live == {c \in Twins(a.c) : row[c].status # "merged"}
    IN  /\ a.at = "chat"
        /\ \/ /\ Cardinality(live) > 1
              /\ att' = [att EXCEPT ![p].at = "merge", ![p].live = live]
              /\ UNCHANGED <<run, wk>>
           \/ \* Alone, or the other row was never read and does not know its chat.
              /\ att' = [att EXCEPT ![p] = NoAttempt]
              /\ Over(p, TRUE)
        /\ UNCHANGED <<row, cooling, hist, used>>

\* mergeSameTelegramChat after it: the favourites say which row is kept, whatever became
\* of it meanwhile; the others are merged.
Merge(p) ==
    LET a == att[p] IN
    /\ a.at = "merge"
    /\ \E keep \in a.live :
          LET gone == a.live \ {keep} IN
          /\ row' = [c \in Channels |-> IF c \in gone THEN [row[c] EXCEPT !.status = "merged"] ELSE row[c]]
          /\ att' = [[q \in Slots |-> IF q # p /\ att[q].c \in gone THEN [att[q] EXCEPT !.old = TRUE] ELSE att[q]]
                        EXCEPT ![p] = NoAttempt]
          /\ mixed' = mixed \cup {Chat[a.c] : q \in {q \in Slots \ {p} : att[q].at = "merge" /\ Chat[att[q].c] = Chat[a.c]}}
    /\ Over(p, TRUE)
    /\ UNCHANGED <<cooling, misses, empties, raced, used>>

-----------------------------------------------------------------------------
(* Attempts that fail or take too long *)

Working(p) == att[p].at \notin {"none", "skip", "give up"}

\* What collectOneSafe does of a failure that is not an answer: it loads the row once more.
Reloaded(p) == [NoAttempt EXCEPT !.at = "give up", !.c = att[p].c, !.s = row[att[p].c], !.how = att[p].how]

\* withTimeout: the worker turns away and notes the failure; the attempt goes on.  For the
\* new rooms of a light run nothing is noted.
TimesOut(w) ==
    LET p == <<w, "hand">>
        q == <<w, "stray">>
    IN  /\ Working(p) /\ att[q].at = "none" /\ used.beside < MaxBeside
        /\ IF run.mode = "first"
           THEN att' = [att EXCEPT ![p] = NoAttempt, ![q] = att[p]] /\ Over(p, FALSE)
           ELSE /\ att' = [att EXCEPT ![p] = Reloaded(p), ![q] = att[p]]
                /\ UNCHANGED <<run, wk>>
        /\ used' = [used EXCEPT !.beside = @ + 1]
        /\ UNCHANGED <<row, cooling, hist>>

\* An attempt throws: collectOneSafe notes the failure too, the other callers do not.
Throws(p) ==
    /\ Working(p) /\ used.beside < MaxBeside
    /\ used' = [used EXCEPT !.beside = @ + 1]
    /\ IF p \in Workers \X {"hand"} /\ run.mode # "first"
       THEN att' = [att EXCEPT ![p] = Reloaded(p)] /\ UNCHANGED <<run, wk>>
       ELSE att' = [att EXCEPT ![p] = NoAttempt] /\ Over(p, FALSE)
    /\ UNCHANGED <<row, cooling, hist>>

\* The row loaded again is marked failed, or that fails too.
GivesUp(p) ==
    LET a == att[p] IN
    /\ a.at = "give up"
    /\ \/ Write(p, Failed(a.s, "failed", "other"), NoAttempt, misses[a.c], 0)
       \/ att' = [att EXCEPT ![p] = NoAttempt] /\ UNCHANGED <<row, misses, empties, raced>>
    /\ Over(p, FALSE)
    /\ UNCHANGED <<cooling, mixed, used>>

-----------------------------------------------------------------------------
(* Time: what is kept of a date is only whether it has come *)

ComesDue(c) ==
    /\ ~row[c].due /\ used.beside < MaxBeside
    /\ row' = [row EXCEPT ![c].due = TRUE]
    /\ att' = [q \in Slots |-> IF att[q].c = c THEN [att[q] EXCEPT !.s.due = TRUE] ELSE att[q]]
    /\ used' = [used EXCEPT !.beside = @ + 1]
    /\ UNCHANGED <<run, wk, cooling, hist>>

CoolingEnds ==
    /\ cooling /\ cooling' = FALSE
    /\ UNCHANGED <<row, run, wk, att, hist, used>>

-----------------------------------------------------------------------------
\* How many empty pages in a row block a channel.
PagesToBlock(s) == IF s.seen THEN 2 ELSE 1

Init ==
    /\ row \in FirstRows
    /\ run = NoRound
    /\ wk = [w \in Workers |-> "off"]
    /\ att = [p \in Slots |-> NoAttempt]
    /\ cooling = FALSE
    /\ misses = [c \in Channels |-> row[c].gone]
    /\ empties = [c \in Channels |-> CASE row[c].error = "disabled" -> 2 
                                       [] row[c].error = "no_posts" -> PagesToBlock(row[c])
                                       [] row[c].error = "empty_once" -> 1
                                       [] OTHER -> 0]
    /\ raced = [c \in Channels |-> FALSE]
    /\ mixed = {}
    /\ used = [runs |-> 0, beside |-> 0]

Step(p) ==
    \/ Skip(p) \/ Answer(p) \/ Limit(p) \/ EmptyPage(p) \/ EmptyFeed(p) \/ MarkFeed(p) \/ FallsBack(p)
    \/ Classified(p) \/ MemberReads(p) \/ FindTwins(p) \/ Merge(p) \/ Throws(p) \/ GivesUp(p)

Worker(w) == TakeItem(w) \/ WorkerStops(w) \/ TimesOut(w)

Next ==
    \/ StartRun \/ GoOn \/ RoundEnds \/ BudgetEnds \/ CoolingEnds
    \/ \E w \in Workers : Worker(w)
    \/ \E d \in Desk : Ask(d)
    \/ \E p \in Slots : Step(p)
    \/ \E c \in Channels : ComesDue(c)

Spec == Init /\ [][Next]_vars

\* A worker that can go on does, every attempt in a hand answers, fails or is abandoned
\* after its two minutes, and a cooldown has an end.
Fairness ==
    /\ \A w \in Workers : WF_vars(Worker(w)) /\ WF_vars(Step(<<w, "hand">>))
    /\ WF_vars(GoOn) /\ WF_vars(RoundEnds) /\ WF_vars(CoolingEnds)

FairSpec == Spec /\ Fairness

-----------------------------------------------------------------------------
(* Properties *)

Ats == {"none", "skip", "preview", "classify", "group", "bot", "profile", "mark", "invite", "member",
        "chat", "merge", "give up"}

\* Every variable keeps its type, and an attempt is in the hand of exactly the busy workers.
TypeOK ==
    /\ row \in [Channels -> Row]
    /\ run.mode \in Rounds \cup {"idle"} /\ run.then \in {"idle", "light", "retry"}
    /\ run.left \subseteq Channels /\ run.over \in BOOLEAN
    /\ {run.total, run.ok, run.fail} \subseteq Nat
    /\ \A w \in Workers : /\ wk[w] \in {"off", "loop", "busy"}
                          /\ (wk[w] = "busy") = (att[<<w, "hand">>].at # "none")
    /\ \A p \in Slots : /\ att[p].at \in Ats /\ att[p].how \in Hows /\ att[p].s \in Row
                        /\ att[p].c \in Channels \cup {NoChannel} /\ att[p].live \subseteq Channels
    /\ cooling \in BOOLEAN
    /\ mixed \subseteq {Chat[c] : c \in Channels}

\* A channel leaves the lists as gone only after three not_found answers with no success
\* between them, and counts as blocked only after two empty pages in a row, or after one
\* if it was never read before: unless one of its writes came from a copy older than
\* another write (markGoneProgress, previewMissError, collectPublicPreview).
VerdictsEarned == \A c \in Channels :
    \/ raced[c]
    \/ /\ row[c].gone = misses[c]
       /\ row[c].status = "gone" => misses[c] = GoneAfter
       /\ Blocked(row[c]) => empties[c] >= PagesToBlock(row[c])

\* Of the rows of one chat one stays visible, unless two merges of it overlapped
\* (mergeSameTelegramChat).
OneRowKept == \A c \in Channels :
    Chat[c] \in mixed \/ \E d \in Twins(c) : row[d].status # "merged"

\* A merged row comes back only through a stale copy, a light attempt, a single collection,
\* or the note of a failure: a full attempt that finds it merged leaves it so
\* (shouldSkipDailyCollect).
MergedStays == [][\A c \in Channels : row[c].status = "merged" /\ row'[c].status # "merged" =>
    \E p \in Slots : /\ att[p].c = c /\ att'[p] # att[p]
                     /\ att[p].old \/ att[p].how # "full" \/ att[p].at = "give up"]_vars

Busy == {w \in Workers : wk[w] = "busy"}

Pool == INSTANCE CollectPool WITH
    Items <- Channels, open <- run.mode # "idle", timed <- run.mode \in {"first", "light", "full"},
    late <- run.over, offered <- run.total, todo <- run.left, hands <- Cardinality(Busy),
    good <- run.ok, bad <- run.fail

\* Every round is a collection pool: each item is taken at most once and counted once, a
\* round over its time takes nothing but its first item, and its counts add up.
IsPool == Pool!PoolSpec

\* Every round that begins ends: no worker waits for ever for the gate, for an answer, or
\* for the others.
EveryRoundEnds == run.mode # "idle" ~> run.mode = "idle"

-----------------------------------------------------------------------------
(* What the texts of the repository say and the code does not do *)

\* stats-collect.logic.ts:147-149: a preview counts as blocked only when it was empty twice
\* in a row, as t.me may send an empty page when it is slow.
BlockedOnlyTwice == \A c \in Channels : Blocked(row[c]) => raced[c] \/ empties[c] >= 2
=============================================================================
