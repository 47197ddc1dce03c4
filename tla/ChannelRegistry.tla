---------------------------- MODULE ChannelRegistry ----------------------------
(***************************************************************************)
(* How a link becomes a row of the table channels, and what members and    *)
(* admins do with the row (channels.service.ts, link-duplicate.logic.ts,   *)
(* auto-expose.service.ts, payments.service.ts).                           *)
(*                                                                         *)
(* Every way to register a link first looks for the same link among the    *)
(* rows, and saves after other calls.  Every change of a row loads the     *)
(* whole row, calls Telegram or the database, and saves the whole row.  So *)
(* each request is one record, an action is the code between two awaits,   *)
(* and one statement of the database is atomic.                            *)
(*                                                                         *)
(* A link stands for what linkIdentityKey makes of it.  Names that invited *)
(* rows get from a collection are left out, and so are merged rows         *)
(* (CollectRun); of a row its link, its status, the count of its           *)
(* recommendations and the end of its promotion are kept.  Rows are        *)
(* numbered as they are created.  A definition whose name begins with Mut  *)
(* is a mutated form of the next one.                                      *)
(***************************************************************************)
EXTENDS Naturals, FiniteSets, FiniteSetsExt

CONSTANTS
    Links,
    Users,          \* the members who recommend
    Clients,        \* where requests come from
    NoRow,
    MaxRows,        \* bound of rows
    FirstRows,      \* tables the model begins with: functions from 1..n to rows
    PaidDays,       \* the days a payment promotes, 7 in the code
    AdminDays,      \* the ends an admin gives a promotion
    LastDay,        \* bound of days
    MaxEvents       \* bound of requests, new days and restarts together

Ids == 1..MaxRows
Statuses == {"pending", "active", "rejected"}
Row == [link : Links, status : Statuses, recs : Nat, until : Nat]

\* A client has the request itself and the preview that create leaves behind.
Tasks == Clients \X {"main", "preview"}

ASSUME RegistryAssumption ==
    /\ {MaxRows, PaidDays, LastDay, MaxEvents} \subseteq Nat
    /\ AdminDays \subseteq Nat
    /\ IsFiniteSet(Users) /\ IsFiniteSet(Clients)
    /\ NoRow \notin Row
    \* Nobody recommended these rows yet, and no two of them are active with one link.
    /\ \A first \in FirstRows :
         /\ \E n \in 0..MaxRows : first \in [1..n -> Row]
         /\ \A i \in DOMAIN first : first[i].recs = 0
         /\ \A i, j \in DOMAIN first :
              first[i].link = first[j].link /\ first[i].status = "active" /\ first[j].status = "active" => i = j

VARIABLES
    rows,           \* the table channels: id -> row
    used,           \* how many ids were given
    recommended,    \* the table channel_recommendations: id -> members
    task,           \* task -> the request under way
    today,
    events,         \* what the bound counts
    missed,         \* history: the tasks whose search is older than an active row of the link,
                    \* or than the link
    unseen,         \* history: the rows made active or given a link after such a search
    stale,          \* history: the tasks whose copy is older than the row
    overwritten,    \* history: the rows saved from such a copy
    cut,            \* history: id -> recommendations whose count a restart cut off
    paid            \* history: id -> the end of the last promotion that was paid

tableVars == <<rows, used, recommended>>
historyVars == <<missed, unseen, stale, overwritten, cut, paid>>
vars == <<tableVars, task, today, events, historyVars>>

Idle == [pc |-> "idle"]
Present == {i \in Ids : rows[i] # NoRow}
Event == events < MaxEvents /\ events' = events + 1

-----------------------------------------------------------------------------
(* The search for the same link.                                           *)

KindOrder == <<"active", "pending", "rejected">>

\* pickDuplicate: the active row before the pending one before the rejected one,
\* and the oldest of a kind.
Match(link, except) ==
    LET of(k) == {i \in Present \ {except} : rows[i].link = link /\ rows[i].status = KindOrder[k]}
        kinds == {k \in 1..3 : of(k) # {}}
    IN  IF kinds = {} THEN 0 ELSE Min(of(Min(kinds)))

HasActive(link, except) ==
    LET i == Match(link, except) IN i # 0 /\ rows[i].status = "active"

-----------------------------------------------------------------------------
(* Where a request begins.  A new one needs a client that waits for        *)
(* nothing.                                                                *)

Free(c) == task[<<c, "main">>] = Idle /\ task[<<c, "preview">>] = Idle

Start(c, request) ==
    /\ Free(c) /\ Event
    /\ task' = [task EXCEPT ![<<c, "main">>] = request]
    /\ missed' = missed \ {<<c, "main">>} /\ stale' = stale \ {<<c, "main">>}
    /\ UNCHANGED <<tableVars, today, unseen, overwritten, cut, paid>>

\* create: a member submits a link that no row has, whatever its status; the kind of
\* the chat is read from Telegram before the row is saved.
Submit(c) ==
    \E link \in Links :
        /\ Match(link, 0) = 0
        /\ Start(c, [pc |-> "insert", op |-> "submit", link |-> link])

\* createByAdmin: an unknown link becomes a new row; a rejected row is made active
\* again when the admin says so.
CreateByAdmin(c) ==
    \E link \in Links :
        LET i == Match(link, 0)
        IN  \/ i = 0 /\ Start(c, [pc |-> "insert", op |-> "admin", link |-> link])
            \/ /\ i # 0 /\ rows[i].status = "rejected"
               /\ Start(c, [pc |-> "save", op |-> "reactivate", id |-> i, copy |-> rows[i]])

\* tryRegisterCandidate: a link found elsewhere makes a pending row active.
RegisterCandidate(c) ==
    \E link \in Links :
        LET i == Match(link, 0)
        IN  /\ i # 0 /\ rows[i].status = "pending"
            /\ Start(c, [pc |-> "check", op |-> "activate", id |-> i, copy |-> rows[i]])

\* approve, reject, recordReporterReward and the like, incrementRecommend and promote
\* load the row first; so does an edit.
BeginApprove(c) == \E i \in Present : Start(c, [pc |-> "load", op |-> "approve", id |-> i])
BeginReject(c) == \E i \in Present : Start(c, [pc |-> "load", op |-> "reject", id |-> i])
BeginTouch(c) == \E i \in Present : Start(c, [pc |-> "load", op |-> "touch", id |-> i])
BeginRecommend(c) ==
    \E i \in Present, u \in Users : Start(c, [pc |-> "load", op |-> "recommend", id |-> i, user |-> u])
\* The webhook of a payment, which Telegram may deliver again.
BeginPayment(c) == \E i \in Present : Start(c, [pc |-> "load", op |-> "pay", id |-> i])
BeginPromote(c) ==
    \E i \in Present, d \in AdminDays : Start(c, [pc |-> "load", op |-> "promote", id |-> i, until |-> d])
\* updateAdmin: another link, or another status.
BeginEdit(c) ==
    \E i \in Present :
        \/ \E link \in Links : Start(c, [pc |-> "load", op |-> "relink", id |-> i, link |-> link])
        \/ \E status \in Statuses : Start(c, [pc |-> "load", op |-> "restatus", id |-> i, status |-> status])

-----------------------------------------------------------------------------
(* What follows.                                                           *)

Goes(t, next) ==
    /\ task' = [task EXCEPT ![t] = next]
    /\ UNCHANGED <<today, events, cut>>

\* Where a loaded request goes on: the link is looked for, a recommendation asked for,
\* or the row is saved.
AfterLoad(q, row) ==
    CASE q.op \in {"approve", "relink"} -> "check"
      [] q.op = "restatus" -> IF q.status = "active" /\ row.status # "active" THEN "check" ELSE "save"
      [] q.op = "recommend" -> "ask"
      [] OTHER -> "save"

\* findById; a removed row ends the request.  A payment counts its days from here.
Load(t) ==
    /\ task[t].pc = "load"
    /\ LET q == task[t]
           row == rows[q.id]
           loaded == [f \in DOMAIN q \union {"copy"} |->
                        IF f = "copy" THEN row ELSE IF f = "pc" THEN AfterLoad(q, row) ELSE q[f]]
       IN  Goes(t, IF row = NoRow THEN Idle
                   ELSE IF q.op = "pay" THEN [pc |-> "save", op |-> "pay", id |-> q.id, copy |-> row,
                                              until |-> today + PaidDays]
                   ELSE loaded)
    /\ stale' = stale \ {t}
    /\ UNCHANGED <<tableVars, missed, unseen, overwritten, paid>>

LinkOf(q) == IF q.op = "relink" THEN q.link ELSE q.copy.link

MutRefused(q) == q.op = "relink" /\ Match(q.link, q.id) # 0
Refused(q) == IF q.op = "relink" THEN Match(q.link, q.id) # 0 ELSE HasActive(q.copy.link, q.id)

\* findDuplicate without the row itself: a second active row of a link is refused; an
\* edit of the link refuses any other row.  An automatic activation may also find
\* the chat not to its taste.  approve may fetch the picture first.
Check(t) ==
    /\ task[t].pc = "check"
    /\ LET q == task[t]
       IN  \/ (Refused(q) \/ q.op = "activate") /\ Goes(t, Idle)
           \/ ~Refused(q) /\ Goes(t, [q EXCEPT !.pc = "save"])
           \/ ~Refused(q) /\ q.op = "approve" /\ Goes(t, [q EXCEPT !.pc = "reload"])
    /\ missed' = missed \ {t}
    /\ UNCHANGED <<tableVars, unseen, stale, overwritten, paid>>

\* refreshPreview inside approve: it loads the row anew and saves it after a call.
Reload(t) ==
    /\ task[t].pc = "reload"
    /\ LET q == task[t]
       IN  /\ Goes(t, IF rows[q.id] = NoRow THEN Idle ELSE [q EXCEPT !.pc = "resave", !.copy = rows[q.id]])
           /\ missed' = IF rows[q.id] # NoRow /\ rows[q.id].link # q.copy.link THEN missed \union {t} ELSE missed
    /\ stale' = stale \ {t}
    /\ UNCHANGED <<tableVars, unseen, overwritten, paid>>

\* A recommendation of the same member ends the request.
AskRecommended(t) ==
    /\ task[t].pc = "ask"
    /\ LET q == task[t]
       IN  Goes(t, IF q.user \in recommended[q.id] THEN Idle ELSE [q EXCEPT !.pc = "record"])
    /\ UNCHANGED <<tableVars, missed, unseen, stale, overwritten, paid>>

\* The insert fails when the pair is there.
RecordRecommendation(t) ==
    /\ task[t].pc = "record"
    /\ LET q == task[t]
       IN  \/ /\ q.user \notin recommended[q.id]
              /\ recommended' = [recommended EXCEPT ![q.id] = @ \union {q.user}]
              /\ Goes(t, [q EXCEPT !.pc = "save"])
           \/ q.user \in recommended[q.id] /\ Goes(t, Idle) /\ UNCHANGED recommended
    /\ UNCHANGED <<rows, used, missed, unseen, stale, overwritten, paid>>

-----------------------------------------------------------------------------
(* The saves.                                                              *)

\* The requests that look for the link before they save.
Searching == {"submit", "admin", "reactivate", "activate", "approve", "relink", "restatus"}

\* What a save of row i by task t makes of the histories.
Writes(t, i, row) ==
    /\ rows' = [rows EXCEPT ![i] = row]
    /\ stale' = stale \union {s \in Tasks \ {t} : "copy" \in DOMAIN task[s] /\ task[s].id = i}
    /\ missed' = missed \union
         {s \in Tasks \ {t} : /\ task[s].pc \in {"insert", "save", "reload", "resave"} /\ task[s].op \in Searching
                              /\ row.status = "active"
                              /\ IF "copy" \in DOMAIN task[s]
                                 THEN task[s].id # i /\ LinkOf(task[s]) = row.link
                                 ELSE task[s].link = row.link}
    /\ unseen' = IF row.status # "active" THEN unseen \ {i}
                 ELSE IF t \in missed THEN unseen \union {i} ELSE unseen
    /\ overwritten' = IF t \in stale THEN overwritten \union {i} ELSE overwritten

NewRow(link, status) == [link |-> link, status |-> status, recs |-> 0, until |-> 0]

\* A submission is saved as pending; then its preview is refreshed beside the request,
\* which goes on to make it active.  An admin's row is active; its picture is fetched.
InsertRow(t) ==
    /\ task[t].pc = "insert"
    /\ used < MaxRows /\ used' = used + 1
    /\ LET q == task[t]
           row == NewRow(q.link, IF q.op = "submit" THEN "pending" ELSE "active")
           load(op) == [pc |-> "load", op |-> op, id |-> used + 1]
       IN  /\ Writes(t, used + 1, row)
           /\ task' = IF q.op = "submit"
                      THEN [task EXCEPT ![t] = [pc |-> "check", op |-> "activate", id |-> used + 1, copy |-> row],
                                        ![<<t[1], "preview">>] = load("touch")]
                      ELSE [task EXCEPT ![t] = load("import")]
    /\ UNCHANGED <<recommended, today, events, cut, paid>>

MutEnd(q) == IF q.copy.until > 0 THEN q.copy.until ELSE q.until
\* The new end of a promotion, whatever the old one was.
End(q) == q.until

\* The copy, with the columns of the request changed.
Saved(q) ==
    CASE q.op \in {"approve", "activate", "reactivate"} -> [q.copy EXCEPT !.status = "active"]
      [] q.op = "reject" -> [q.copy EXCEPT !.status = "rejected"]
      [] q.op = "relink" -> [q.copy EXCEPT !.link = q.link]
      [] q.op = "restatus" -> [q.copy EXCEPT !.status = q.status]
      [] q.op = "recommend" -> [q.copy EXCEPT !.recs = @ + 1]
      [] q.op \in {"pay", "promote"} -> [q.copy EXCEPT !.until = End(q)]
      [] OTHER -> q.copy

\* A row an admin made active again has its picture imported; one that was approved
\* or imported is collected at once, and the same copy saved again.
Save(t) ==
    /\ task[t].pc = "save"
    /\ LET q == task[t]
       IN  /\ Writes(t, q.id, Saved(q))
           /\ Goes(t, IF q.op = "reactivate" THEN [pc |-> "load", op |-> "import", id |-> q.id]
                      ELSE IF q.op \in {"approve", "activate", "import"}
                      THEN [pc |-> "collect", op |-> "touch", id |-> q.id, copy |-> Saved(q)]
                      ELSE Idle)
           /\ paid' = IF q.op \in {"pay", "promote"} THEN [paid EXCEPT ![q.id] = IF q.op = "pay" THEN q.until ELSE 0]
                      ELSE paid
    /\ UNCHANGED <<used, recommended>>

SaveAgain(t) ==
    /\ task[t].pc \in {"resave", "collect"}
    /\ LET q == task[t]
       IN  /\ Writes(t, q.id, q.copy)
           /\ Goes(t, IF q.pc = "resave" THEN [q EXCEPT !.pc = "save"] ELSE Idle)
    /\ UNCHANGED <<used, recommended, paid>>

-----------------------------------------------------------------------------
RemoveRow ==
    /\ Event
    /\ \E i \in Present :
         /\ rows' = [rows EXCEPT ![i] = NoRow]
         /\ stale' = stale \union {s \in Tasks : "copy" \in DOMAIN task[s] /\ task[s].id = i}
    /\ UNCHANGED <<used, recommended, task, today, missed, unseen, overwritten, cut, paid>>

NextDay ==
    /\ today < LastDay /\ Event
    /\ today' = today + 1
    /\ UNCHANGED <<tableVars, task, historyVars>>

Counting(i) == {t \in Tasks : task[t].pc = "save" /\ task[t].op = "recommend" /\ task[t].id = i}

\* The process ends and starts again: the requests under way are gone.
Restart ==
    /\ Event
    /\ task' = [t \in Tasks |-> Idle]
    /\ cut' = [i \in Ids |-> cut[i] + Cardinality(Counting(i))]
    /\ missed' = {} /\ stale' = {}
    /\ UNCHANGED <<tableVars, today, unseen, overwritten, paid>>

Init ==
    /\ \E first \in FirstRows :
         /\ rows = [i \in Ids |-> IF i \in DOMAIN first THEN first[i] ELSE NoRow]
         /\ used = Cardinality(DOMAIN first)
    /\ recommended = [i \in Ids |-> {}]
    /\ task = [t \in Tasks |-> Idle]
    /\ today = 0
    /\ events = 0
    /\ missed = {} /\ unseen = {} /\ stale = {} /\ overwritten = {}
    /\ cut = [i \in Ids |-> 0]
    /\ paid = [i \in Ids |-> 0]

Next ==
    \/ \E c \in Clients : Submit(c) \/ CreateByAdmin(c) \/ RegisterCandidate(c)
    \/ \E c \in Clients : BeginApprove(c) \/ BeginReject(c) \/ BeginTouch(c) \/ BeginEdit(c)
    \/ \E c \in Clients : BeginRecommend(c) \/ BeginPayment(c) \/ BeginPromote(c)
    \/ \E t \in Tasks : Load(t) \/ Check(t) \/ Reload(t) \/ AskRecommended(t) \/ RecordRecommendation(t)
    \/ \E t \in Tasks : InsertRow(t) \/ Save(t) \/ SaveAgain(t)
    \/ RemoveRow
    \/ NextDay
    \/ Restart

Spec == Init /\ [][Next]_vars

-----------------------------------------------------------------------------
(* Properties                                                              *)

\* Two rows of one link are active only when one of them was activated, inserted or
\* given the link after a search that another request had overtaken, or was
\* saved from a copy older than the row: never by requests one after another,
\* even though several rows may wait with the same link.
OneActivePerLink ==
    \A i, j \in Present :
        i # j /\ rows[i].link = rows[j].link /\ rows[i].status = "active" /\ rows[j].status = "active"
            => {i, j} \cap (unseen \union overwritten) # {}

\* Unless it was saved from a copy older than itself, a row counts every recommendation
\* of its members, up to those not yet saved or cut off by a restart, and is
\* promoted to the end of the last promotion paid for it.
LostOnlyToOlderCopies ==
    \A i \in Present \ overwritten :
        /\ rows[i].recs + Cardinality(Counting(i)) + cut[i] = Cardinality(recommended[i])
        /\ rows[i].until >= paid[i]

===============================================================================
