-------------------------------- MODULE AdDesk --------------------------------
(***************************************************************************)
(* The advertisements (src/backend/src/ads): the rank ads an admin books   *)
(* on the first places of the channel lists and what a list shows of them, *)
(* their click counters, the notices before they end, and the cache of the *)
(* banners of the home page.                                               *)
(*                                                                         *)
(* Each admin request is one record of `desk'; an action is the code       *)
(* between two awaits, and a database call, one statement, is atomic.  A   *)
(* day without a limit is the first or the last day of the model.  Names,  *)
(* memos, payments and pictures are left out; of the banners only how many *)
(* times their table and their setting were written is kept, and of        *)
(* a notice its key.  A definition whose name begins with Mut is a mutated *)
(* form of the next one.                                                   *)
(***************************************************************************)
EXTENDS Naturals, FiniteSets, FiniteSetsExt, Folds

CONSTANTS
    Ads, NoAd, NoRow,
    Channels,
    Categories, NoCategory,
    CategoryOf,     \* channel -> its category
    LastSlot,       \* the places of a list that are sold, 1 to 5 in the code
    LastDay,        \* the days of the model are 0..LastDay - 1
    NoticeDays,     \* a notice goes out this many days before the last, 3 in the code
    Inputs,         \* what an admin types: records of some of the fields of an ad
    Booked,         \* the rows the model begins with
    Admins, Readers, Checkers, NoCache,
    MaxEvents       \* bound of requests, clicks, readings, checks, new days and restarts together

Slots == 1..LastSlot
Days == 0..(LastDay - 1)

Row == [scope : {"global", "category"}, category : Categories \union {NoCategory}, channel : Channels,
        slot : Slots, from : 0..LastDay, to : 0..LastDay, active : BOOLEAN, clicks : Nat]

\* What may be typed into each field; the clicks are no field of the form.
Typed == [scope |-> {"global", "category"}, category |-> Categories \union {NoCategory}, channel |-> Channels,
          slot |-> Slots, from |-> 0..LastDay, to |-> 0..LastDay, active |-> BOOLEAN]

SameList(a, b) == a.scope = b.scope /\ (a.scope = "category" => a.category = b.category)

MutRangesOverlap(a, b) == a.from <= b.from /\ b.from < a.to
RangesOverlap(a, b) == a.from < b.to /\ b.from < a.to

\* The rows booked at the beginning have no clicks yet and do not conflict.
ASSUME AdAssumption ==
    /\ IsFiniteSet(Ads) /\ NoAd \notin Ads /\ NoCategory \notin Categories
    /\ IsFiniteSet(Checkers)
    /\ CategoryOf \in [Channels -> Categories]
    /\ {LastSlot, LastDay} \subseteq Nat \ {0}
    /\ {NoticeDays, MaxEvents} \subseteq Nat
    /\ NoRow \notin Row
    /\ Booked \in [Ads -> Row \union {NoRow}]
    /\ \A a \in Ads : Booked[a] # NoRow => Booked[a].clicks = 0
    /\ \A a, b \in Ads :
         a # b /\ Booked[a] # NoRow /\ Booked[b] # NoRow /\ Booked[a].active /\ Booked[b].active
           /\ SameList(Booked[a], Booked[b]) /\ RangesOverlap(Booked[a], Booked[b])
           => Booked[a].slot # Booked[b].slot /\ Booked[a].channel # Booked[b].channel
    /\ \A input \in Inputs :
         /\ DOMAIN input \subseteq DOMAIN Typed
         /\ \A f \in DOMAIN input : input[f] \in Typed[f]

VARIABLES
    ads,        \* the table rank_ads
    daily,      \* ad -> its clicks in ad_daily_stats, over all days
    desk,       \* admin -> the request under way
    clicking,   \* ad -> clicks between their two statements
    table,      \* how often the banners and their setting were written
    cache,      \* AdsService.publicCache
    fill,       \* reader -> the listPublic under way
    today,
    bells,      \* the keys of the notices in the admin's list
    check,      \* checker -> the expiry check under way
    told,       \* key -> the notices sent to Telegram
    unused,     \* the ids randomUUID has still to give
    events,     \* what the bound counts
    missed,     \* history: the writes an admin's conflict check did not see
    unseen,     \* history: the ads written after such a check
    during,     \* history: ad -> clicks made while an update of it was under way
    failed,     \* history: ad -> clicks whose second statement failed or was lost
    lost        \* history: the keys in the list of which no check will tell any more

rankVars == <<ads, daily, clicking, during, failed>>
bannerVars == <<table, cache, fill>>
noticeVars == <<today, bells, check, told, lost>>
requestVars == <<desk, unused, missed, unseen>>
vars == <<rankVars, bannerVars, noticeVars, requestVars, events>>

Present == {a \in Ads : ads[a] # NoRow}

-----------------------------------------------------------------------------
(* What a list shows.                                                      *)

Live(a, d) == ads[a].active /\ ads[a].from <= d /\ d < ads[a].to

Used(placed, channel) == \E s \in Slots : placed[s] # NoAd /\ ads[placed[s]].channel = channel

PlaceGlobal(a, placed) ==
    IF placed[ads[a].slot] # NoAd THEN placed ELSE [placed EXCEPT ![ads[a].slot] = a]

PlaceCategory(a, placed) ==
    LET free == {s \in Slots : s >= ads[a].slot /\ placed[s] = NoAd}
    IN  IF free = {} THEN placed ELSE [placed EXCEPT ![Min(free)] = a]

Place(a, placed) ==
    IF Used(placed, ads[a].channel) THEN placed
    ELSE IF ads[a].scope = "global" THEN PlaceGlobal(a, placed) ELSE PlaceCategory(a, placed)

\* The places are given out in the order of what was booked: to one with the highest
\* when all the others have theirs.
LastBySlot(set) == CHOOSE a \in set : \A b \in set : ads[b].slot <= ads[a].slot
Self(a) == a
PlaceAll(placed, set) == MapThenFoldSet(Place, placed, Self, LastBySlot, set)

Nothing == [s \in Slots |-> NoAd]
ComposeAdSlots(globals, ofCategory) == PlaceAll(PlaceAll(Nothing, globals), ofCategory)

Globals(d, usable) == {a \in Present : Live(a, d) /\ ads[a].scope = "global" /\ ads[a].channel \in usable}
OfCategory(d, usable, c) ==
    {a \in Present : Live(a, d) /\ ads[a].scope = "category" /\ ads[a].category = c /\ ads[a].channel \in usable}

\* The list of a category on a day, of the channels that may be shown.
ListRankAds(d, usable, c) == ComposeAdSlots(Globals(d, usable), OfCategory(d, usable, c))

-----------------------------------------------------------------------------
(* The admins' requests.                                                   *)

Idle == [pc |-> "idle"]

Unlimited == [active |-> TRUE, clicks |-> 0, from |-> 0, to |-> LastDay, category |-> NoCategory]

\* The fields typed are put over those of the row.  An ad of a category takes
\* that of its channel when none is given; an ad for all lists has none.
Applied(row, input) ==
    LET next == [f \in DOMAIN row \union DOMAIN input |-> IF f \in DOMAIN input THEN input[f] ELSE row[f]]
        own == IF "channel" \in DOMAIN input /\ next.category = NoCategory
               THEN CategoryOf[next.channel] ELSE next.category
    IN  [next EXCEPT !.category = IF next.scope = "global" THEN NoCategory ELSE own]

MutConflicts(a, row) ==
    \E b \in Present \ {a} :
        /\ ads[b].active /\ SameList(ads[b], row) /\ RangesOverlap(ads[b], row)
        /\ ads[b].slot = row.slot
Conflicts(a, row) ==
    \E b \in Present \ {a} :
        /\ ads[b].active /\ SameList(ads[b], row) /\ RangesOverlap(ads[b], row)
        /\ ads[b].slot = row.slot \/ ads[b].channel = row.channel

Accepted(a, row) ==
    /\ row.scope = "category" => row.category # NoCategory
    /\ row.from < row.to
    /\ row.active => ~Conflicts(a, row)

Event == events < MaxEvents /\ events' = events + 1

\* create: the input is applied to an empty row; the checks that follow it await.
BeginCreate(p) ==
    /\ desk[p] = Idle /\ Event
    /\ \E a \in unused, input \in Inputs :
         /\ {"scope", "channel", "slot"} \subseteq DOMAIN input
         /\ unused' = unused \ {a}
         /\ desk' = [desk EXCEPT ![p] = [pc |-> "check", op |-> "create", ad |-> a, row |-> Applied(Unlimited, input)]]
    /\ missed' = [missed EXCEPT ![p] = FALSE]
    /\ UNCHANGED <<rankVars, bannerVars, noticeVars, unseen>>

\* update: the row is copied, and the input applied to the copy.
BeginUpdate(p) ==
    /\ desk[p] = Idle /\ Event
    /\ \E a \in Present, input \in Inputs :
         desk' = [desk EXCEPT ![p] = [pc |-> "check", op |-> "update", ad |-> a, row |-> Applied(ads[a], input)]]
    /\ missed' = [missed EXCEPT ![p] = FALSE]
    /\ UNCHANGED <<rankVars, bannerVars, noticeVars, unused, unseen>>

\* checkConflicts: the others are read and compared; a refusal ends the request.
CheckConflicts(p) ==
    /\ desk[p].pc = "check"
    /\ desk' = [desk EXCEPT ![p] = IF Accepted(@.ad, @.row) THEN [@ EXCEPT !.pc = "write"] ELSE Idle]
    /\ missed' = [missed EXCEPT ![p] = FALSE]
    /\ UNCHANGED <<rankVars, bannerVars, noticeVars, events, unused, unseen>>

\* insert of the new row, or save of the whole copy.
WriteAd(p) ==
    /\ desk[p].pc = "write"
    /\ ads' = [ads EXCEPT ![desk[p].ad] = desk[p].row]
    /\ desk' = [desk EXCEPT ![p] = Idle]
    /\ missed' = [q \in Admins |-> IF q # p /\ desk[q].pc = "write" THEN TRUE ELSE missed[q]]
    /\ unseen' = IF missed[p] THEN unseen \union {desk[p].ad} ELSE unseen \ {desk[p].ad}
    /\ UNCHANGED <<daily, clicking, during, failed, bannerVars, noticeVars, events, unused>>

RemoveAd ==
    /\ Event
    /\ \E a \in Present : ads' = [ads EXCEPT ![a] = NoRow] /\ unseen' = unseen \ {a}
    /\ UNCHANGED <<daily, clicking, during, failed, bannerVars, noticeVars, desk, unused, missed>>

-----------------------------------------------------------------------------
(* The clicks.                                                             *)

Busy(a, op) == \E p \in Admins : desk[p].pc \in {"check", "write"} /\ desk[p].op = op /\ desk[p].ad = a

\* The counter of the row is raised by one statement; a removed ad has none.
Click ==
    /\ Event
    /\ \E a \in Ads \ unused :
         /\ ~Busy(a, "create")
         /\ ads' = IF ads[a] = NoRow THEN ads ELSE [ads EXCEPT ![a].clicks = @ + 1]
         /\ clicking' = [clicking EXCEPT ![a] = @ + 1]
         /\ during' = IF Busy(a, "update") THEN [during EXCEPT ![a] = @ + 1] ELSE during
    /\ UNCHANGED <<daily, failed, bannerVars, noticeVars, requestVars>>

\* bump: the counter of the day is raised by another statement.
MutBump(a) == daily' = [daily EXCEPT ![a] = 1]
Bump(a) == daily' = [daily EXCEPT ![a] = @ + 1]

CountDay ==
    /\ \E a \in Ads :
         /\ clicking[a] > 0
         /\ clicking' = [clicking EXCEPT ![a] = @ - 1]
         /\ \/ Bump(a) /\ UNCHANGED failed
            \/ failed' = [failed EXCEPT ![a] = @ + 1] /\ UNCHANGED daily
    /\ UNCHANGED <<ads, during, bannerVars, noticeVars, requestVars, events>>

-----------------------------------------------------------------------------
(* The banners of the home page.                                           *)

\* A banner is created, changed or removed, or the seconds between two banners
\* are set: one statement.
BeginBanner(p) ==
    /\ desk[p] = Idle /\ Event
    /\ \E part \in DOMAIN table : table' = [table EXCEPT ![part] = @ + 1]
    /\ desk' = [desk EXCEPT ![p] = [pc |-> "clear"]]
    /\ UNCHANGED <<rankVars, cache, fill, noticeVars, unused, missed, unseen>>

MutCleared == cache
Cleared == NoCache

\* The statement has answered: the cache is dropped.
ClearCache(p) ==
    /\ desk[p].pc = "clear"
    /\ cache' = Cleared
    /\ desk' = [desk EXCEPT ![p] = Idle]
    /\ fill' = [r \in Readers |-> IF fill[r].pc = "idle" THEN fill[r] ELSE [fill[r] EXCEPT !.raced = TRUE]]
    /\ UNCHANGED <<rankVars, table, noticeVars, events, unused, missed, unseen>>

\* listPublic without a cache reads the banners, then the seconds, and keeps both.
ReadRows(r) ==
    /\ fill[r] = Idle /\ cache = NoCache /\ Event
    /\ fill' = [fill EXCEPT ![r] = [pc |-> "rows", seen |-> [rows |-> table.rows, rotate |-> 0], raced |-> FALSE]]
    /\ UNCHANGED <<rankVars, table, cache, noticeVars, requestVars>>

ReadRotate(r) ==
    /\ fill[r].pc = "rows"
    /\ fill' = [fill EXCEPT ![r].pc = "store", ![r].seen.rotate = table.rotate]
    /\ UNCHANGED <<rankVars, table, cache, noticeVars, requestVars, events>>

StoreCache(r) ==
    /\ fill[r].pc = "store"
    /\ cache' = [seen |-> fill[r].seen, raced |-> fill[r].raced]
    /\ fill' = [fill EXCEPT ![r] = Idle]
    /\ UNCHANGED <<rankVars, table, noticeVars, requestVars, events>>

\* A minute has passed.
CacheExpires ==
    /\ cache # NoCache
    /\ cache' = NoCache
    /\ UNCHANGED <<rankVars, table, fill, noticeVars, requestVars, events>>

-----------------------------------------------------------------------------
(* The notices before an ad ends.                                          *)

Keys == [ad : Ads, last : Days, left : 0..NoticeDays]

\* findExpiring: the active ads whose last day is near; one that has not begun
\* is among them, one without an end is not.
Expiring == {k \in Keys : /\ ads[k.ad] # NoRow
                          /\ ads[k.ad].active
                          /\ ads[k.ad].to = k.last + 1 /\ ads[k.ad].to < LastDay
                          /\ k.left + today = k.last}

\* check, at ten o'clock and a minute after a start.
BeginCheck(c) ==
    /\ check[c] = Idle /\ Expiring # {}
    /\ Event
    /\ check' = [check EXCEPT ![c] = [pc |-> "ask", todo |-> Expiring]]
    /\ UNCHANGED <<rankVars, bannerVars, requestVars, today, bells, told, lost>>

Done(c, k) == IF check[c].todo = {k} THEN Idle ELSE [pc |-> "ask", todo |-> check[c].todo \ {k}]

\* notifyOnce: is the key there already?  A question that fails ends the check.
AskBell(c) ==
    /\ check[c].pc = "ask"
    /\ \/ \E k \in check[c].todo :
            check' = [check EXCEPT ![c] = IF k \in bells THEN Done(c, k)
                                          ELSE [pc |-> "insert", todo |-> @.todo, key |-> k]]
       \/ check' = [check EXCEPT ![c] = Idle]
    /\ UNCHANGED <<rankVars, bannerVars, requestVars, today, bells, told, lost, events>>

MutUnique(k) == TRUE
Unique(k) == k \notin bells

\* The insert: a key that came in meanwhile, or another error, ends it.
InsertBell(c) ==
    /\ check[c].pc = "insert"
    /\ LET k == check[c].key
       IN  \/ /\ Unique(k)
              /\ bells' = bells \union {k}
              /\ check' = [check EXCEPT ![c].pc = "tell"]
           \/ check' = [check EXCEPT ![c] = Done(c, k)] /\ UNCHANGED bells
    /\ UNCHANGED <<rankVars, bannerVars, requestVars, today, told, lost, events>>

\* The insert is done and its answer is an error: the check takes the key for an old one.
BellUnheard(c) ==
    /\ check[c].pc = "insert"
    /\ LET k == check[c].key
       IN  /\ Unique(k)
           /\ bells' = bells \union {k}
           /\ lost' = lost \union {k}
           /\ check' = [check EXCEPT ![c] = Done(c, k)]
    /\ UNCHANGED <<rankVars, bannerVars, requestVars, today, told, events>>

\* Telegram: notifyText never throws, so the next key follows.
Tell(c) ==
    /\ check[c].pc = "tell"
    /\ told' = [told EXCEPT ![check[c].key] = @ + 1]
    /\ check' = [check EXCEPT ![c] = Done(c, check[c].key)]
    /\ UNCHANGED <<rankVars, bannerVars, requestVars, today, bells, lost, events>>

NextDay ==
    /\ today + 1 < LastDay /\ Event
    /\ today' = today + 1
    /\ UNCHANGED <<rankVars, bannerVars, requestVars, bells, check, told, lost>>

-----------------------------------------------------------------------------
\* The process ends and starts again: whatever was under way is gone.
Restart ==
    /\ Event
    /\ desk' = [p \in Admins |-> Idle]
    /\ fill' = [r \in Readers |-> Idle]
    /\ check' = [c \in Checkers |-> Idle]
    /\ cache' = NoCache
    /\ clicking' = [a \in Ads |-> 0]
    /\ failed' = [a \in Ads |-> failed[a] + clicking[a]]
    /\ lost' = lost \union {check[c].key : c \in {d \in Checkers : check[d].pc = "tell"}}
    /\ UNCHANGED <<ads, daily, during, table, today, bells, told, unused, missed, unseen>>

Init ==
    /\ ads = Booked
    /\ daily = [a \in Ads |-> 0]
    /\ clicking = [a \in Ads |-> 0]
    /\ during = [a \in Ads |-> 0]
    /\ failed = [a \in Ads |-> 0]
    /\ table = [rows |-> 0, rotate |-> 0]
    /\ cache = NoCache
    /\ fill = [r \in Readers |-> Idle]
    /\ today = 0
    /\ bells = {}
    /\ check = [c \in Checkers |-> Idle]
    /\ told = [k \in Keys |-> 0]
    /\ lost = {}
    /\ desk = [p \in Admins |-> Idle]
    /\ events = 0
    /\ unused = {a \in Ads : Booked[a] = NoRow}
    /\ missed = [p \in Admins |-> FALSE]
    /\ unseen = {}

Next ==
    \/ \E p \in Admins : BeginCreate(p) \/ BeginUpdate(p) \/ CheckConflicts(p) \/ WriteAd(p)
    \/ RemoveAd
    \/ Click
    \/ CountDay
    \/ \E p \in Admins : BeginBanner(p) \/ ClearCache(p)
    \/ \E r \in Readers : ReadRows(r) \/ ReadRotate(r) \/ StoreCache(r)
    \/ CacheExpires
    \/ \E c \in Checkers : BeginCheck(c) \/ AskBell(c) \/ InsertBell(c) \/ BellUnheard(c) \/ Tell(c)
    \/ NextDay
    \/ Restart

Spec == Init /\ [][Next]_vars

-----------------------------------------------------------------------------
(* Properties                                                              *)

\* Every live ad for all lists stands on the place that was booked, in the list of
\* every category and day, whichever channels may be shown; every live ad of a
\* category is there, on its place or after it, unless its channel is shown by an ad
\* for all lists or the places from its own on are taken; nothing else is there, and no
\* channel twice -- as long as no ad of the table was written after a conflict check
\* that missed another writer.
ShownAsBooked ==
    unseen = {} =>
        \A d \in Days, c \in Categories, usable \in SUBSET Channels :
            LET shown == ListRankAds(d, usable, c)
                globals == Globals(d, usable)
                own == OfCategory(d, usable, c)
            IN  /\ \A a \in globals : shown[ads[a].slot] = a
                /\ \A a \in own :
                     \/ \E s \in Slots : s >= ads[a].slot /\ shown[s] = a
                     \/ \E b \in globals : ads[b].channel = ads[a].channel
                     \/ \A s \in Slots : s >= ads[a].slot => shown[s] # NoAd
                /\ \A s \in Slots : shown[s] \in globals \union own \union {NoAd}
                /\ \A s, t \in Slots :
                     s # t /\ shown[s] # NoAd /\ shown[t] # NoAd
                       => ads[shown[s]].channel # ads[shown[t]].channel

\* No two ads of one list that are live on the same day share a place or a channel,
\* unless one was written after a conflict check that missed another writer.
PlacesApart ==
    \A a, b \in Present, d \in Days :
        /\ a # b /\ Live(a, d) /\ Live(b, d) /\ SameList(ads[a], ads[b])
        /\ ads[a].slot = ads[b].slot \/ ads[a].channel = ads[b].channel
        => {a, b} \cap unseen # {}

\* The counter of an ad and the sum of its days tell the same number of clicks, up
\* to those between their two statements, those whose second statement was lost,
\* and at most those that came while an update of the ad was under way.
ClicksAddUp ==
    \A a \in Present :
        LET counted == daily[a] + clicking[a] + failed[a]
        IN  counted - during[a] <= ads[a].clicks /\ ads[a].clicks <= counted

\* The cached banners and seconds are those of the database, once no admin waits to
\* clear the cache, unless it was filled while another request cleared it.
BannersOldOnlyByRace ==
    cache # NoCache /\ (\A p \in Admins : desk[p].pc # "clear") =>
        cache.raced \/ cache.seen = table

\* Of every key in the admin's list exactly one notice went to Telegram, is about to,
\* or was lost with the process or with the answer of the insert, however many checks ran at once.
OneNoticePerBell ==
    \A k \in Keys :
        LET sending == Cardinality({c \in Checkers : check[c].pc = "tell" /\ check[c].key = k})
        IN  told[k] + sending + (IF k \in lost THEN 1 ELSE 0) = (IF k \in bells THEN 1 ELSE 0)

\* The notices before an ad ends are a notice book: whatever checks overlap, and wherever
\* a restart cuts them off, no key is told of twice, and none that is not in the list.
Owed == {check[c].key : c \in {d \in Checkers : check[d].pc = "tell"}}
Notices == INSTANCE NoticeBook WITH listed <- bells, owed <- Owed, sent <- told
IsNoticeBook == Notices!BookSpec

===============================================================================
