----------------------------- MODULE AdDeskProofs -----------------------------
(***************************************************************************)
(* What holds of the ads' tables, clicks, caches and notices for any       *)
(* number of ads, lists, admins, visitors and checks.                      *)
(***************************************************************************)
EXTENDS AdDesk, Integers, FiniteSetTheorems, TLAPS

-----------------------------------------------------------------------------
(* Shape *)

Writing == [pc : {"check", "write"}, op : {"create", "update"}, ad : Ads, row : Row]
DeskRow == [pc : {"idle", "clear"}] \cup Writing

Seen == [rows : Nat, rotate : Nat]
FillRow == [pc : {"idle"}] \cup [pc : {"rows", "store"}, seen : Seen, raced : BOOLEAN]

CheckRow ==
    [pc : {"idle"}] \cup [pc : {"ask"}, todo : SUBSET Keys]
    \cup [pc : {"insert", "tell"}, todo : SUBSET Keys, key : Keys]

\* Every variable keeps its shape: what an admin's request, a filling of the cache and a
\* check have in memory at each of their steps.
TypeOK ==
    /\ ads \in [Ads -> Row \cup {NoRow}]
    /\ daily \in [Ads -> Nat] /\ clicking \in [Ads -> Nat]
    /\ during \in [Ads -> Nat] /\ failed \in [Ads -> Nat]
    /\ desk \in [Admins -> DeskRow]
    /\ table \in Seen
    /\ cache \in [seen : Seen, raced : BOOLEAN] \cup {NoCache}
    /\ fill \in [Readers -> FillRow]
    /\ today \in Nat
    /\ bells \subseteq Keys /\ lost \subseteq Keys
    /\ check \in [Checkers -> CheckRow]
    /\ told \in [Keys -> Nat]
    /\ unused \subseteq Ads /\ unseen \subseteq Ads
    /\ missed \in [Admins -> BOOLEAN]

LEMMA IdleShapes == Idle \in DeskRow /\ Idle \in FillRow /\ Idle \in CheckRow
  BY DEF Idle, DeskRow, FillRow, CheckRow

\* The fields typed, over those of a row or of the empty one, make a row.
LEMMA AppliedShape ==
    ASSUME NEW input \in Inputs, NEW row,
           \/ row \in Row
           \/ row = Unlimited /\ {"scope", "channel", "slot"} \subseteq DOMAIN input
    PROVE  /\ Applied(row, input) \in Row
           /\ Applied(row, input).clicks = row.clicks
  <1> DEFINE all == {"scope", "category", "channel", "slot", "from", "to", "active", "clicks"}
             value(f) == IF f \in DOMAIN input THEN input[f] ELSE row[f]
             next == [f \in DOMAIN row \union DOMAIN input |-> value(f)]
             category == IF next.scope = "global" THEN NoCategory
                         ELSE IF "channel" \in DOMAIN input /\ next.category = NoCategory
                         THEN CategoryOf[next.channel] ELSE next.category
  <1>1. /\ DOMAIN input \subseteq {"scope", "category", "channel", "slot", "from", "to", "active"}
        /\ "scope" \in DOMAIN input => input["scope"] \in {"global", "category"}
        /\ "category" \in DOMAIN input => input["category"] \in Categories \cup {NoCategory}
        /\ "channel" \in DOMAIN input => input["channel"] \in Channels
        /\ "slot" \in DOMAIN input => input["slot"] \in Slots
        /\ "from" \in DOMAIN input => input["from"] \in 0..LastDay
        /\ "to" \in DOMAIN input => input["to"] \in 0..LastDay
        /\ "active" \in DOMAIN input => input["active"] \in BOOLEAN
    <2>1. DOMAIN input \subseteq DOMAIN Typed /\ \A f \in DOMAIN input : input[f] \in Typed[f]
      BY AdAssumption
    <2> QED BY <2>1 DEF Typed
  <1>2. /\ DOMAIN row \union DOMAIN input = all
        /\ value("scope") \in {"global", "category"} /\ value("category") \in Categories \cup {NoCategory}
        /\ value("channel") \in Channels /\ value("slot") \in Slots
        /\ value("from") \in 0..LastDay /\ value("to") \in 0..LastDay
        /\ value("active") \in BOOLEAN /\ value("clicks") \in Nat /\ value("clicks") = row.clicks
    <2>1. CASE row \in Row
      BY <1>1, <2>1 DEF Row
    <2>2. CASE row = Unlimited /\ {"scope", "channel", "slot"} \subseteq DOMAIN input
      <3>1. 0 \in 0..LastDay /\ LastDay \in 0..LastDay
        BY AdAssumption
      <3>2. /\ DOMAIN row = {"active", "clicks", "from", "to", "category"}
            /\ row.active = TRUE /\ row.clicks = 0 /\ row.from = 0 /\ row.to = LastDay /\ row.category = NoCategory
        BY <2>2 DEF Unlimited
      <3>3. DOMAIN row \union DOMAIN input = all
        BY <1>1, <2>2, <3>2
      <3>4. value("scope") \in {"global", "category"} /\ value("channel") \in Channels /\ value("slot") \in Slots
        BY <1>1, <2>2
      <3>5. /\ value("category") \in Categories \cup {NoCategory}
            /\ value("from") \in 0..LastDay /\ value("to") \in 0..LastDay
        BY <1>1, <3>1, <3>2
      <3>6. value("active") \in BOOLEAN
        <4>1. CASE "active" \in DOMAIN input
          BY <1>1, <4>1
        <4>2. CASE "active" \notin DOMAIN input
          BY <3>2, <4>2
        <4> QED BY <4>1, <4>2
      <3>7. value("clicks") \in Nat /\ value("clicks") = row.clicks
        BY <1>1, <3>2
      <3> HIDE DEF value, all
      <3> QED BY <3>3, <3>4, <3>5, <3>6, <3>7
    <2> QED BY <2>1, <2>2
  <1> HIDE DEF value
  <1>3. next \in Row /\ next.clicks = row.clicks
    <2>1. next = [scope |-> value("scope"), category |-> value("category"), channel |-> value("channel"),
                  slot |-> value("slot"), from |-> value("from"), to |-> value("to"),
                  active |-> value("active"), clicks |-> value("clicks")]
      BY <1>2
    <2> QED BY <1>2, <2>1 DEF Row
  <1> HIDE DEF next
  <1>4. category \in Categories \cup {NoCategory}
    BY <1>3, AdAssumption DEF Row
  <1>5. Applied(row, input) = [next EXCEPT !.category = category]
    BY DEF Applied, next, value
  <1> HIDE DEF category
  <1> QED BY <1>3, <1>4, <1>5 DEF Row

LEMMA Writers ==
    ASSUME TypeOK, NEW p \in Admins, desk[p].pc \in {"check", "write"}
    PROVE  /\ desk[p] \in Writing /\ desk[p].ad \in Ads /\ desk[p].row \in Row
           /\ desk[p].op \in {"create", "update"}
  <1>1. desk[p] \in DeskRow
    BY DEF TypeOK
  <1>2. desk[p] \in Writing
    BY <1>1 DEF DeskRow
  <1> QED BY <1>2 DEF Writing

\* What a request becomes when it begins.
LEMMA BeginShape ==
    ASSUME TypeOK, NEW p \in Admins, BeginCreate(p) \/ BeginUpdate(p)
    PROVE  \E op \in {"create", "update"}, a \in Ads, row \in Row :
             /\ desk' = [desk EXCEPT ![p] = [pc |-> "check", op |-> op, ad |-> a, row |-> row]]
             /\ op = "create" => a \in unused /\ row.clicks = 0 /\ unused' = unused \ {a}
             /\ op = "update" => a \in Present /\ row.clicks = ads[a].clicks /\ unused' = unused
  <1>1. CASE BeginCreate(p)
    <2>1. PICK a \in unused, input \in Inputs :
            /\ {"scope", "channel", "slot"} \subseteq DOMAIN input
            /\ unused' = unused \ {a}
            /\ desk' = [desk EXCEPT ![p] = [pc |-> "check", op |-> "create", ad |-> a, row |-> Applied(Unlimited, input)]]
      BY <1>1 DEF BeginCreate
    <2>2. Applied(Unlimited, input) \in Row /\ Applied(Unlimited, input).clicks = Unlimited.clicks
      BY <2>1, AppliedShape
    <2>3. Unlimited.clicks = 0
      BY DEF Unlimited
    <2> QED BY <2>1, <2>2, <2>3 DEF TypeOK
  <1>2. CASE BeginUpdate(p)
    <2>1. PICK a \in Present, input \in Inputs :
            desk' = [desk EXCEPT ![p] = [pc |-> "check", op |-> "update", ad |-> a, row |-> Applied(ads[a], input)]]
      BY <1>2 DEF BeginUpdate
    <2>2. a \in Ads /\ ads[a] \in Row
      BY DEF Present, TypeOK
    <2>3. Applied(ads[a], input) \in Row /\ Applied(ads[a], input).clicks = ads[a].clicks
      BY <2>2, AppliedShape
    <2> QED BY <1>2, <2>1, <2>2, <2>3 DEF BeginUpdate
  <1> QED BY <1>1, <1>2

LEMMA CheckShape ==
    ASSUME TypeOK, NEW p \in Admins, CheckConflicts(p)
    PROVE  /\ desk[p] \in Writing /\ desk[p].pc = "check"
           /\ \/ desk' = [desk EXCEPT ![p] = Idle]
              \/ /\ Accepted(desk[p].ad, desk[p].row)
                 /\ desk' = [desk EXCEPT ![p] = [desk[p] EXCEPT !.pc = "write"]]
                 /\ [desk[p] EXCEPT !.pc = "write"] \in Writing
  <1>1. desk[p].pc = "check"
    BY DEF CheckConflicts
  <1>2. desk[p] \in Writing
    BY <1>1, Writers
  <1>3. [desk[p] EXCEPT !.pc = "write"] \in Writing
    BY <1>2 DEF Writing
  <1>4. p \in DOMAIN desk
    BY DEF TypeOK
  <1> QED BY <1>1, <1>2, <1>3, <1>4 DEF CheckConflicts

LEMMA DeskShape ==
    ASSUME TypeOK, NEW p \in Admins, BeginCreate(p) \/ BeginUpdate(p) \/ CheckConflicts(p) \/ WriteAd(p)
    PROVE  TypeOK'
  <1>0. Writing \subseteq DeskRow
    BY DEF DeskRow
  <1>1. CASE BeginCreate(p) \/ BeginUpdate(p)
    <2>1. PICK op \in {"create", "update"}, a \in Ads, row \in Row :
             desk' = [desk EXCEPT ![p] = [pc |-> "check", op |-> op, ad |-> a, row |-> row]]
      BY <1>1, BeginShape
    <2>2. [pc |-> "check", op |-> op, ad |-> a, row |-> row] \in DeskRow
      BY <1>0 DEF Writing
    <2>3. desk' \in [Admins -> DeskRow]
      BY <2>1, <2>2 DEF TypeOK
    <2>4. unused' \subseteq Ads /\ missed' \in [Admins -> BOOLEAN]
      BY <1>1 DEF BeginCreate, BeginUpdate, TypeOK
    <2> QED BY <1>1, <2>3, <2>4 DEF BeginCreate, BeginUpdate, TypeOK, rankVars, bannerVars, noticeVars
  <1>2. CASE CheckConflicts(p)
    <2>1. desk' \in [Admins -> DeskRow]
      BY <1>0, <1>2, CheckShape, IdleShapes DEF TypeOK
    <2>2. missed' \in [Admins -> BOOLEAN]
      BY <1>2 DEF CheckConflicts, TypeOK
    <2> QED BY <1>2, <2>1, <2>2 DEF CheckConflicts, TypeOK, rankVars, bannerVars, noticeVars
  <1>3. CASE WriteAd(p)
    <2>1. desk[p].ad \in Ads /\ desk[p].row \in Row
      BY <1>3, Writers DEF WriteAd
    <2>2. ads' \in [Ads -> Row \cup {NoRow}] /\ unseen' \subseteq Ads
      BY <1>3, <2>1 DEF WriteAd, TypeOK
    <2>3. desk' \in [Admins -> DeskRow]
      BY <1>3, IdleShapes DEF WriteAd, TypeOK
    <2>4. missed' \in [Admins -> BOOLEAN]
      BY <1>3 DEF WriteAd, TypeOK
    <2> QED BY <1>3, <2>2, <2>3, <2>4 DEF WriteAd, TypeOK, bannerVars, noticeVars
  <1> QED BY <1>1, <1>2, <1>3

LEMMA ClickShape ==
    ASSUME TypeOK, RemoveAd \/ Click \/ CountDay
    PROVE  TypeOK'
  <1>1. CASE RemoveAd
    BY <1>1 DEF RemoveAd, TypeOK, Present, bannerVars, noticeVars
  <1>2. CASE Click
    <2>1. PICK a \in Ads :
         /\ ads' = IF ads[a] = NoRow THEN ads ELSE [ads EXCEPT ![a].clicks = @ + 1]
         /\ clicking' = [clicking EXCEPT ![a] = @ + 1]
         /\ during' = IF Busy(a, "update") THEN [during EXCEPT ![a] = @ + 1] ELSE during
      BY <1>2 DEF Click
    <2>2. ads' \in [Ads -> Row \cup {NoRow}]
      <3>1. ads[a] # NoRow => [ads[a] EXCEPT !.clicks = ads[a].clicks + 1] \in Row
        BY DEF TypeOK, Row
      <3>2. ads[a] # NoRow => ads' = [ads EXCEPT ![a] = [ads[a] EXCEPT !.clicks = ads[a].clicks + 1]]
        BY <2>1 DEF TypeOK
      <3> QED BY <2>1, <3>1, <3>2 DEF TypeOK
    <2>3. clicking' \in [Ads -> Nat] /\ during' \in [Ads -> Nat]
      BY <2>1 DEF TypeOK
    <2> QED BY <1>2, <2>2, <2>3 DEF Click, TypeOK, bannerVars, noticeVars, requestVars
  <1>3. CASE CountDay
    <2>1. PICK a \in Ads :
            /\ clicking[a] > 0
            /\ clicking' = [clicking EXCEPT ![a] = @ - 1]
            /\ \/ Bump(a) /\ UNCHANGED failed
               \/ failed' = [failed EXCEPT ![a] = @ + 1] /\ UNCHANGED daily
      BY <1>3 DEF CountDay
    <2>2. clicking' \in [Ads -> Nat] /\ daily' \in [Ads -> Nat] /\ failed' \in [Ads -> Nat]
      BY <2>1 DEF TypeOK, Bump
    <2> QED BY <1>3, <2>2 DEF CountDay, TypeOK, bannerVars, noticeVars, requestVars
  <1> QED BY <1>1, <1>2, <1>3

LEMMA BannerShape ==
    ASSUME TypeOK,
           \/ \E p \in Admins : BeginBanner(p) \/ ClearCache(p)
           \/ \E r \in Readers : ReadRows(r) \/ ReadRotate(r) \/ StoreCache(r)
           \/ CacheExpires
    PROVE  TypeOK'
  <1>1. ASSUME NEW p \in Admins, BeginBanner(p) PROVE TypeOK'
    <2>1. PICK part \in DOMAIN table : table' = [table EXCEPT ![part] = @ + 1]
      BY <1>1 DEF BeginBanner
    <2>2. table' \in Seen
      BY <2>1 DEF TypeOK, Seen
    <2>3. desk' \in [Admins -> DeskRow]
      BY <1>1 DEF BeginBanner, TypeOK, DeskRow
    <2> QED BY <1>1, <2>2, <2>3 DEF BeginBanner, TypeOK, rankVars, noticeVars
  <1>2. ASSUME NEW p \in Admins, ClearCache(p) PROVE TypeOK'
    <2>1. \A r \in Readers : [fill[r] EXCEPT !.raced = TRUE] \in FillRow \/ fill[r].pc = "idle"
      BY DEF TypeOK, FillRow
    <2>2. fill' \in [Readers -> FillRow]
      BY <1>2, <2>1 DEF ClearCache, TypeOK
    <2>3. desk' \in [Admins -> DeskRow]
      BY <1>2, IdleShapes DEF ClearCache, TypeOK
    <2> QED BY <1>2, <2>2, <2>3 DEF ClearCache, Cleared, TypeOK, rankVars, noticeVars
  <1>3. ASSUME NEW r \in Readers, ReadRows(r) PROVE TypeOK'
    <2>1. [pc |-> "rows", seen |-> [rows |-> table.rows, rotate |-> 0], raced |-> FALSE] \in FillRow
      BY DEF TypeOK, FillRow, Seen
    <2>2. fill' \in [Readers -> FillRow]
      BY <1>3, <2>1 DEF ReadRows, TypeOK
    <2> QED BY <1>3, <2>2 DEF ReadRows, TypeOK, rankVars, noticeVars, requestVars
  <1>4. ASSUME NEW r \in Readers, ReadRotate(r) PROVE TypeOK'
    <2> DEFINE next == [fill[r] EXCEPT !.pc = "store", !.seen.rotate = table.rotate]
    <2>1. fill[r] \in [pc : {"rows", "store"}, seen : Seen, raced : BOOLEAN] /\ table.rotate \in Nat
      BY <1>4 DEF ReadRotate, TypeOK, FillRow, Seen
    <2>2. next \in [pc : {"rows", "store"}, seen : Seen, raced : BOOLEAN]
      BY <2>1 DEF Seen
    <2>3. fill' = [fill EXCEPT ![r] = next]
      BY <1>4 DEF ReadRotate, TypeOK
    <2>4. fill' \in [Readers -> FillRow]
      BY <2>2, <2>3 DEF TypeOK, FillRow
    <2> QED BY <1>4, <2>4 DEF ReadRotate, TypeOK, rankVars, noticeVars, requestVars
  <1>5. ASSUME NEW r \in Readers, StoreCache(r) PROVE TypeOK'
    <2>1. fill[r].seen \in Seen /\ fill[r].raced \in BOOLEAN
      BY <1>5 DEF StoreCache, TypeOK, FillRow
    <2>2. fill' \in [Readers -> FillRow]
      BY <1>5, IdleShapes DEF StoreCache, TypeOK
    <2>3. cache' \in [seen : Seen, raced : BOOLEAN]
      BY <1>5, <2>1 DEF StoreCache
    <2> QED BY <1>5, <2>2, <2>3 DEF StoreCache, TypeOK, rankVars, noticeVars, requestVars
  <1>6. CASE CacheExpires
    BY <1>6 DEF CacheExpires, TypeOK, rankVars, noticeVars, requestVars
  <1> QED BY <1>1, <1>2, <1>3, <1>4, <1>5, <1>6

\* What is left of a check when one of its keys has been dealt with.
LEMMA DoneShape ==
    ASSUME TypeOK, NEW c \in Checkers, check[c].pc # "idle", NEW k
    PROVE  Done(c, k) \in CheckRow /\ Done(c, k).pc \in {"idle", "ask"} /\ check[c].todo \subseteq Keys
  <1>1. check[c].todo \subseteq Keys
    BY DEF TypeOK, CheckRow
  <1>2. [pc |-> "ask", todo |-> check[c].todo \ {k}] \in CheckRow
    BY <1>1 DEF CheckRow
  <1> QED BY <1>1, <1>2, IdleShapes DEF Done, Idle

LEMMA NoticeShape ==
    ASSUME TypeOK, NEW c \in Checkers, BeginCheck(c) \/ AskBell(c) \/ InsertBell(c) \/ BellUnheard(c) \/ Tell(c)
    PROVE  TypeOK'
  <1>1. CASE BeginCheck(c)
    <2>1. [pc |-> "ask", todo |-> Expiring] \in CheckRow
      BY DEF CheckRow, Expiring
    <2>2. check' \in [Checkers -> CheckRow]
      BY <1>1, <2>1 DEF BeginCheck, TypeOK
    <2> QED BY <1>1, <2>2 DEF BeginCheck, TypeOK, rankVars, bannerVars, requestVars
  <1>2. CASE AskBell(c)
    <2>0. check[c].pc # "idle"
      BY <1>2 DEF AskBell
    <2>1. \A k \in check[c].todo :
            [pc |-> "insert", todo |-> check[c].todo, key |-> k] \in CheckRow /\ Done(c, k) \in CheckRow
      BY <2>0, DoneShape DEF CheckRow, TypeOK
    <2>2. PICK q \in CheckRow : check' = [check EXCEPT ![c] = q]
      BY <1>2, <2>1, IdleShapes DEF AskBell
    <2>3. check' \in [Checkers -> CheckRow]
      BY <2>2 DEF TypeOK
    <2> QED BY <1>2, <2>3 DEF AskBell, TypeOK, rankVars, bannerVars, requestVars
  <1>3. CASE InsertBell(c)
    <2>1. check[c] \in [pc : {"insert", "tell"}, todo : SUBSET Keys, key : Keys]
      BY <1>3 DEF InsertBell, TypeOK, CheckRow
    <2>2. [check[c] EXCEPT !.pc = "tell"] \in CheckRow /\ Done(c, check[c].key) \in CheckRow
      BY <1>3, <2>1, DoneShape DEF CheckRow, InsertBell
    <2>3. check' \in [Checkers -> CheckRow] /\ bells' \subseteq Keys
      BY <1>3, <2>1, <2>2 DEF InsertBell, TypeOK
    <2> QED BY <1>3, <2>3 DEF InsertBell, TypeOK, rankVars, bannerVars, requestVars
  <1>5. CASE BellUnheard(c)
    <2>1. check[c].key \in Keys /\ Done(c, check[c].key) \in CheckRow
      BY <1>5, DoneShape DEF BellUnheard, TypeOK, CheckRow
    <2>2. check' \in [Checkers -> CheckRow] /\ bells' \subseteq Keys /\ lost' \subseteq Keys
      BY <1>5, <2>1 DEF BellUnheard, TypeOK
    <2> QED BY <1>5, <2>2 DEF BellUnheard, TypeOK, rankVars, bannerVars, requestVars
  <1>4. CASE Tell(c)
    <2>1. Done(c, check[c].key) \in CheckRow
      BY <1>4, DoneShape DEF Tell
    <2>2. check' \in [Checkers -> CheckRow]
      BY <1>4, <2>1 DEF Tell, TypeOK
    <2>3. told \in [Keys -> Nat] /\ told' = [told EXCEPT ![check[c].key] = told[check[c].key] + 1]
      BY <1>4 DEF Tell, TypeOK
    <2>4. told' \in [Keys -> Nat]
      <3>1. check[c].key \in Keys
        BY <1>4 DEF Tell, TypeOK, CheckRow
      <3>2. told[check[c].key] + 1 \in Nat
        BY <2>3, <3>1
      <3> QED BY <2>3, <3>2
    <2> QED BY <1>4, <2>2, <2>4 DEF Tell, TypeOK, rankVars, bannerVars, requestVars
  <1> QED BY <1>1, <1>2, <1>3, <1>4, <1>5

LEMMA RestartShape ==
    ASSUME TypeOK, NextDay \/ Restart
    PROVE  TypeOK'
  <1>1. CASE NextDay
    BY <1>1 DEF NextDay, TypeOK, rankVars, bannerVars, requestVars
  <1>2. CASE Restart
    <2>1. desk' \in [Admins -> DeskRow] /\ fill' \in [Readers -> FillRow] /\ check' \in [Checkers -> CheckRow]
      BY <1>2, IdleShapes DEF Restart
    <2>2. clicking' \in [Ads -> Nat] /\ failed' \in [Ads -> Nat]
      BY <1>2 DEF Restart, TypeOK
    <2>3. \A c \in Checkers : check[c].pc = "tell" => check[c].key \in Keys
      BY DEF TypeOK, CheckRow
    <2>4. lost' \subseteq Keys
      BY <1>2, <2>3 DEF Restart, TypeOK
    <2> QED BY <1>2, <2>1, <2>2, <2>4 DEF Restart, TypeOK
  <1> QED BY <1>1, <1>2

LEMMA NextShape == TypeOK /\ [Next]_vars => TypeOK'
  <1> SUFFICES ASSUME TypeOK, [Next]_vars PROVE TypeOK'
    OBVIOUS
  <1>1. CASE UNCHANGED vars
    BY <1>1 DEF TypeOK, vars, rankVars, bannerVars, noticeVars, requestVars
  <1>2. CASE Next
    BY <1>2, DeskShape, ClickShape, BannerShape, NoticeShape, RestartShape DEF Next
  <1> QED BY <1>1, <1>2

LEMMA InitShape == Init => TypeOK
  BY AdAssumption, IdleShapes DEF Init, TypeOK, Seen

\* Every record, cached or under way, keeps the shape its code gives it: a row booked
\* from typed fields is a whole row, whatever fields were left out.
THEOREM DeskTypeCorrect == Spec => []TypeOK
  BY InitShape, NextShape, PTL DEF Spec

-----------------------------------------------------------------------------
(* The notices *)

Sending(k) == {c \in Checkers : check[c].pc = "tell" /\ check[c].key = k}
Bell(k) == IF k \in bells THEN 1 ELSE 0
Cut(k) == IF k \in lost THEN 1 ELSE 0

BellsTold == \A k \in Keys : told[k] + Cardinality(Sending(k)) + Cut(k) = Bell(k)

LEMMA BellsToldIsOneNotice == BellsTold <=> OneNoticePerBell
  BY DEF BellsTold, OneNoticePerBell, Sending, Bell, Cut

LEMMA SendingFinite ==
    \A k : IsFiniteSet(Sending(k)) /\ Cardinality(Sending(k)) \in Nat
  <1> SUFFICES ASSUME NEW k PROVE IsFiniteSet(Sending(k)) /\ Cardinality(Sending(k)) \in Nat
    OBVIOUS
  <1>1. IsFiniteSet(Checkers) /\ Sending(k) \subseteq Checkers
    BY AdAssumption DEF Sending
  <1> QED BY <1>1, FS_Subset, FS_CardinalityType

\* A check that asks, or whose insert fails, is not about to tell.
LEMMA QuietStep ==
    ASSUME TypeOK, NEW c \in Checkers,
           \/ BeginCheck(c) \/ AskBell(c)
           \/ InsertBell(c) /\ check' = [check EXCEPT ![c] = Done(c, check[c].key)] /\ UNCHANGED bells
    PROVE  /\ \A k : Sending(k)' = Sending(k)
           /\ UNCHANGED <<told, lost, bells>>
  <1>1. check[c].pc # "tell" /\ \A k : Done(c, k).pc # "tell"
    BY DEF BeginCheck, AskBell, InsertBell, Idle, Done
  <1>2. PICK q : q.pc # "tell" /\ check' = [check EXCEPT ![c] = q]
    <2>1. CASE BeginCheck(c)
      BY <2>1 DEF BeginCheck
    <2>2. CASE AskBell(c)
      <3>1. CASE check' = [check EXCEPT ![c] = Idle]
        BY <3>1 DEF Idle
      <3>2. CASE \E k \in check[c].todo :
                   check' = [check EXCEPT ![c] = IF k \in bells THEN Done(c, k)
                                                 ELSE [pc |-> "insert", todo |-> @.todo, key |-> k]]
        BY <1>1, <3>2
      <3> QED BY <2>2, <3>1, <3>2 DEF AskBell
    <2>3. CASE InsertBell(c) /\ check' = [check EXCEPT ![c] = Done(c, check[c].key)]
      BY <1>1, <2>3
    <2> QED BY <2>1, <2>2, <2>3
  <1>3. \A k : Sending(k)' = Sending(k)
    BY <1>1, <1>2 DEF Sending, TypeOK
  <1>4. UNCHANGED <<told, lost, bells>>
    BY DEF BeginCheck, AskBell, InsertBell
  <1> QED BY <1>3, <1>4

\* The insert that succeeds is of a new key, and its check tells next.
LEMMA InsertStep ==
    ASSUME TypeOK, NEW c \in Checkers, InsertBell(c), NEW key, key = check[c].key,
           ~(check' = [check EXCEPT ![c] = Done(c, key)] /\ UNCHANGED bells)
    PROVE  /\ key \in Keys /\ key \notin bells /\ bells' = bells \cup {key}
           /\ c \notin Sending(key) /\ Sending(key)' = Sending(key) \cup {c}
           /\ \A k \in Keys \ {key} : Sending(k)' = Sending(k)
           /\ UNCHANGED <<told, lost>>
  <1>1. key \in Keys /\ check[c].pc = "insert"
    BY DEF InsertBell, TypeOK, CheckRow
  <1>2. key \notin bells /\ bells' = bells \cup {key} /\ check' = [check EXCEPT ![c].pc = "tell"]
    BY DEF InsertBell, Unique
  <1>3. check[c] \in [pc : {"insert", "tell"}, todo : SUBSET Keys, key : Keys]
    BY <1>1 DEF TypeOK, CheckRow
  <1>4. check'[c].pc = "tell" /\ check'[c].key = key /\ \A d \in Checkers \ {c} : check'[d] = check[d]
    BY <1>2, <1>3 DEF TypeOK
  <1>5. c \notin Sending(key) /\ Sending(key)' = Sending(key) \cup {c}
    BY <1>1, <1>4 DEF Sending
  <1>6. \A k \in Keys \ {key} : Sending(k)' = Sending(k)
    BY <1>1, <1>4 DEF Sending
  <1> QED BY <1>1, <1>2, <1>5, <1>6 DEF InsertBell

\* The insert that is done unheard is of a new key, of which no check tells.
LEMMA UnheardStep ==
    ASSUME TypeOK, NEW c \in Checkers, BellUnheard(c), NEW key, key = check[c].key
    PROVE  /\ key \in Keys /\ key \notin bells
           /\ bells' = bells \cup {key} /\ lost' = lost \cup {key} /\ UNCHANGED told
           /\ \A k : Sending(k)' = Sending(k)
  <1>1. key \in Keys /\ check[c].pc # "tell"
    BY DEF BellUnheard, TypeOK, CheckRow
  <1>2. key \notin bells /\ bells' = bells \cup {key} /\ lost' = lost \cup {key} /\ UNCHANGED told
    BY DEF BellUnheard, Unique
  <1>3. check'[c].pc # "tell" /\ \A d \in Checkers \ {c} : check'[d] = check[d]
    <2>1. Done(c, key).pc # "tell"
      BY DEF Done, Idle
    <2> QED BY <2>1 DEF BellUnheard, TypeOK
  <1>4. \A k : Sending(k)' = Sending(k)
    BY <1>1, <1>3 DEF Sending
  <1> QED BY <1>1, <1>2, <1>4

\* One message is sent, and its check goes on.
LEMMA TellStep ==
    ASSUME TypeOK, NEW c \in Checkers, Tell(c), NEW key, key = check[c].key
    PROVE  /\ key \in Keys /\ told' = [told EXCEPT ![key] = told[key] + 1]
           /\ c \in Sending(key) /\ Sending(key)' = Sending(key) \ {c}
           /\ \A k \in Keys \ {key} : Sending(k)' = Sending(k)
           /\ UNCHANGED <<bells, lost>>
  <1>1. key \in Keys /\ check[c].pc = "tell"
    BY DEF Tell, TypeOK, CheckRow
  <1>2. told' = [told EXCEPT ![key] = told[key] + 1] /\ UNCHANGED <<bells, lost>>
    BY DEF Tell, TypeOK
  <1>3. check'[c].pc # "tell" /\ \A d \in Checkers \ {c} : check'[d] = check[d]
    <2>1. Done(c, key).pc # "tell"
      BY DEF Done, Idle
    <2> QED BY <2>1 DEF Tell, TypeOK
  <1>4. c \in Sending(key) /\ Sending(key)' = Sending(key) \ {c}
    BY <1>1, <1>3 DEF Sending
  <1>5. \A k \in Keys \ {key} : Sending(k)' = Sending(k)
    BY <1>1, <1>3 DEF Sending
  <1> QED BY <1>1, <1>2, <1>4, <1>5

\* Nothing is told of a key before its bell is inserted.
LEMMA AskKeepsBells ==
    ASSUME TypeOK, BellsTold, NEW c \in Checkers,
           \/ BeginCheck(c) \/ AskBell(c)
           \/ InsertBell(c) /\ check' = [check EXCEPT ![c] = Done(c, check[c].key)] /\ UNCHANGED bells
    PROVE  BellsTold'
  BY QuietStep DEF BellsTold, Bell, Cut

LEMMA InsertKeepsBells ==
    ASSUME TypeOK, BellsTold, NEW c \in Checkers, InsertBell(c)
    PROVE  BellsTold'
  <1>0. PICK key : key = check[c].key
    OBVIOUS
  <1>1. CASE check' = [check EXCEPT ![c] = Done(c, key)] /\ UNCHANGED bells
    BY <1>0, <1>1, AskKeepsBells
  <1>2. CASE ~(check' = [check EXCEPT ![c] = Done(c, key)] /\ UNCHANGED bells)
    <2>1. /\ key \in Keys /\ key \notin bells /\ bells' = bells \cup {key}
          /\ c \notin Sending(key) /\ Sending(key)' = Sending(key) \cup {c}
          /\ \A k \in Keys \ {key} : Sending(k)' = Sending(k)
          /\ UNCHANGED <<told, lost>>
      BY <1>0, <1>2, InsertStep
    <2>2. Cardinality(Sending(key)') = Cardinality(Sending(key)) + 1
      BY <2>1, SendingFinite, FS_AddElement
    <2> SUFFICES ASSUME NEW k \in Keys PROVE told'[k] + Cardinality(Sending(k)') + Cut(k)' = Bell(k)'
      BY DEF BellsTold
    <2>3. CASE k = key
      <3>1. told[k] + Cardinality(Sending(k)) + Cut(k) = 0 /\ Bell(k)' = 1 /\ Cut(k)' = Cut(k)
        BY <2>1, <2>3 DEF BellsTold, Bell, Cut
      <3>2. told[k] \in Nat /\ Cut(k) \in Nat /\ Cardinality(Sending(k)) \in Nat
        BY SendingFinite DEF TypeOK, Cut
      <3>3. told'[k] = told[k] /\ Cardinality(Sending(k)') = Cardinality(Sending(k)) + 1
        BY <2>1, <2>2, <2>3
      <3> QED BY <3>1, <3>2, <3>3
    <2>4. CASE k # key
      <3>1. Bell(k)' = Bell(k) /\ Cut(k)' = Cut(k)
        BY <2>1, <2>4 DEF Bell, Cut
      <3> QED BY <2>1, <2>4, <3>1 DEF BellsTold
    <2> QED BY <2>3, <2>4
  <1> QED BY <1>1, <1>2

LEMMA UnheardKeepsBells ==
    ASSUME TypeOK, BellsTold, NEW c \in Checkers, BellUnheard(c)
    PROVE  BellsTold'
  <1>0. PICK key : key = check[c].key
    OBVIOUS
  <1>1. /\ key \in Keys /\ key \notin bells
        /\ bells' = bells \cup {key} /\ lost' = lost \cup {key} /\ UNCHANGED told
        /\ \A k : Sending(k)' = Sending(k)
    BY <1>0, UnheardStep
  <1> SUFFICES ASSUME NEW k \in Keys PROVE told'[k] + Cardinality(Sending(k)') + Cut(k)' = Bell(k)'
    BY DEF BellsTold
  <1>2. told[k] + Cardinality(Sending(k)) + Cut(k) = Bell(k)
    BY DEF BellsTold
  <1>3. told'[k] = told[k] /\ Cardinality(Sending(k)') = Cardinality(Sending(k))
    BY <1>1
  <1>4. told[k] \in Nat /\ Cardinality(Sending(k)) \in Nat
    BY SendingFinite DEF TypeOK
  <1>5. CASE k = key
    <2>1. Bell(k) = 0 /\ Bell(k)' = 1 /\ Cut(k)' = 1 /\ Cut(k) \in Nat
      BY <1>1, <1>5 DEF Bell, Cut
    <2> QED BY <1>2, <1>3, <1>4, <2>1
  <1>6. CASE k # key
    <2>1. Bell(k)' = Bell(k) /\ Cut(k)' = Cut(k)
      BY <1>1, <1>6 DEF Bell, Cut
    <2> QED BY <1>2, <1>3, <2>1
  <1> QED BY <1>5, <1>6

LEMMA TellKeepsBells ==
    ASSUME TypeOK, BellsTold, NEW c \in Checkers, Tell(c)
    PROVE  BellsTold'
  <1>0. PICK key : key = check[c].key
    OBVIOUS
  <1>1. /\ key \in Keys /\ told' = [told EXCEPT ![key] = told[key] + 1]
        /\ c \in Sending(key) /\ Sending(key)' = Sending(key) \ {c}
        /\ \A k \in Keys \ {key} : Sending(k)' = Sending(k)
        /\ UNCHANGED <<bells, lost>>
    BY <1>0, TellStep
  <1>2. Cardinality(Sending(key)') = Cardinality(Sending(key)) - 1
    BY <1>1, SendingFinite, FS_RemoveElement
  <1> SUFFICES ASSUME NEW k \in Keys PROVE told'[k] + Cardinality(Sending(k)') + Cut(k)' = Bell(k)'
    BY DEF BellsTold
  <1>3. Bell(k)' = Bell(k) /\ Cut(k)' = Cut(k) /\ told[k] \in Nat /\ Cut(k) \in Nat
    BY <1>1 DEF Bell, Cut, TypeOK
  <1>4. told[k] + Cardinality(Sending(k)) + Cut(k) = Bell(k) /\ Cardinality(Sending(k)) \in Nat
    BY SendingFinite DEF BellsTold
  <1>5. told'[k] = (IF k = key THEN told[k] + 1 ELSE told[k])
    BY <1>1 DEF TypeOK
  <1>6. CASE k = key
    BY <1>2, <1>3, <1>4, <1>5, <1>6
  <1>7. CASE k # key
    BY <1>1, <1>3, <1>4, <1>5, <1>7
  <1> QED BY <1>6, <1>7

LEMMA RestartKeepsBells ==
    ASSUME TypeOK, BellsTold, Restart
    PROVE  BellsTold'
  <1>1. UNCHANGED <<told, bells>>
    BY DEF Restart
  <1>2. \A k : Sending(k)' = {}
    BY DEF Restart, Sending, Idle
  <1> SUFFICES ASSUME NEW k \in Keys PROVE told'[k] + Cardinality(Sending(k)') + Cut(k)' = Bell(k)'
    BY DEF BellsTold
  <1>3. Cardinality(Sending(k)') = 0
    BY <1>2, FS_EmptySet
  <1>4. k \in lost' <=> k \in lost \/ Sending(k) # {}
    BY DEF Restart, Sending
  <1>5. told[k] + Cardinality(Sending(k)) + Cut(k) = Bell(k) /\ told[k] \in Nat /\ Cardinality(Sending(k)) \in Nat
    BY SendingFinite DEF BellsTold, TypeOK
  <1>6. Cut(k) \in {0, 1} /\ Bell(k) \in {0, 1} /\ Cut(k)' \in {0, 1} /\ Bell(k)' = Bell(k)
    BY <1>1 DEF Cut, Bell
  <1>7. Cardinality(Sending(k)) = 0 <=> Sending(k) = {}
    BY SendingFinite, FS_EmptySet
  <1>8. CASE Sending(k) = {}
    <2>1. Cut(k)' = Cut(k)
      BY <1>4, <1>8 DEF Cut
    <2> QED BY <1>1, <1>3, <1>5, <1>6, <1>7, <1>8, <2>1
  <1>9. CASE Sending(k) # {}
    <2>1. Cut(k)' = 1
      BY <1>4, <1>9 DEF Cut
    <2> QED BY <1>1, <1>3, <1>5, <1>6, <1>7, <1>9, <2>1
  <1> QED BY <1>8, <1>9

LEMMA NextKeepsBells == TypeOK /\ BellsTold /\ [Next]_vars => BellsTold'
  <1> SUFFICES ASSUME TypeOK, BellsTold, [Next]_vars PROVE BellsTold'
    OBVIOUS
  <1>1. CASE UNCHANGED noticeVars
    BY <1>1 DEF noticeVars, BellsTold, Sending, Bell, Cut
  <1>2. ASSUME NEW p \in Admins,
               BeginCreate(p) \/ BeginUpdate(p) \/ CheckConflicts(p) \/ WriteAd(p) \/ BeginBanner(p) \/ ClearCache(p)
        PROVE  BellsTold'
    BY <1>1, <1>2 DEF BeginCreate, BeginUpdate, CheckConflicts, WriteAd, BeginBanner, ClearCache
  <1>3. CASE RemoveAd \/ Click \/ CountDay \/ CacheExpires
    BY <1>1, <1>3 DEF RemoveAd, Click, CountDay, CacheExpires
  <1>4. ASSUME NEW r \in Readers, ReadRows(r) \/ ReadRotate(r) \/ StoreCache(r)
        PROVE  BellsTold'
    BY <1>1, <1>4 DEF ReadRows, ReadRotate, StoreCache
  <1>5. ASSUME NEW c \in Checkers, BeginCheck(c) \/ AskBell(c) \/ InsertBell(c) \/ BellUnheard(c) \/ Tell(c)
        PROVE  BellsTold'
    BY <1>5, AskKeepsBells, InsertKeepsBells, UnheardKeepsBells, TellKeepsBells
  <1>6. CASE NextDay
    BY <1>6 DEF NextDay, BellsTold, Sending, Bell, Cut
  <1>7. CASE Restart
    BY <1>7, RestartKeepsBells
  <1>8. CASE UNCHANGED vars
    BY <1>1, <1>8 DEF vars
  <1> QED BY <1>2, <1>3, <1>4, <1>5, <1>6, <1>7, <1>8 DEF Next

LEMMA InitBells == Init => BellsTold
  <1> SUFFICES ASSUME Init, NEW k \in Keys PROVE told[k] + Cardinality(Sending(k)) + Cut(k) = Bell(k)
    BY DEF BellsTold
  <1>1. Sending(k) = {}
    BY DEF Init, Sending, Idle
  <1>2. Cardinality(Sending(k)) = 0
    BY <1>1, FS_EmptySet
  <1>3. told[k] = 0 /\ Cut(k) = 0 /\ Bell(k) = 0
    BY DEF Init, Cut, Bell
  <1> QED BY <1>2, <1>3

\* Of every key in the admin's list exactly one notice is sent, about to be or cut off,
\* however many checks look for the expiring ads at once: the unique key of the list
\* decides between them, not the question they asked before.
THEOREM OneNoticeEach == Spec => []OneNoticePerBell
  <1>1. Init => TypeOK /\ BellsTold
    BY InitShape, InitBells
  <1>2. TypeOK /\ BellsTold /\ [Next]_vars => TypeOK' /\ BellsTold'
    BY NextShape, NextKeepsBells
  <1> QED BY <1>1, <1>2, BellsToldIsOneNotice, PTL DEF Spec

\* A key is owed while some check is about to tell of it.
LEMMA OwedAreSent ==
    ASSUME TypeOK
    PROVE  Owed = {k \in Keys : Sending(k) # {}}
  <1>1. \A d \in Checkers : check[d].pc = "tell" => check[d].key \in Keys
    BY DEF TypeOK, CheckRow
  <1> QED BY <1>1 DEF Owed, Sending

\* Only one check is about to tell of a key.
LEMMA OneSender ==
    ASSUME TypeOK, BellsTold, NEW k \in Keys, NEW c \in Sending(k)
    PROVE  Sending(k) = {c}
  <1>1. /\ told[k] + Cardinality(Sending(k)) + Cut(k) = Bell(k)
        /\ told[k] \in Nat /\ Cut(k) \in Nat /\ Bell(k) \in {0, 1}
    BY DEF BellsTold, TypeOK, Cut, Bell
  <1>2. IsFiniteSet(Sending(k)) /\ Cardinality(Sending(k)) \in Nat
    BY SendingFinite
  <1>3. /\ IsFiniteSet(Sending(k) \ {c})
        /\ Cardinality(Sending(k) \ {c}) = Cardinality(Sending(k)) - 1
        /\ Cardinality(Sending(k) \ {c}) \in Nat
    BY <1>2, FS_RemoveElement, FS_CardinalityType
  <1>4. Cardinality(Sending(k) \ {c}) = 0
    BY <1>1, <1>2, <1>3
  <1>5. Sending(k) \ {c} = {}
    BY <1>3, <1>4, FS_EmptySet
  <1> QED BY <1>5

\* Every step of a check, and a restart, is one of the book or none.
LEMMA CheckKeepsBook ==
    ASSUME TypeOK, TypeOK', BellsTold, NEW c \in Checkers,
           BeginCheck(c) \/ AskBell(c) \/ InsertBell(c) \/ BellUnheard(c) \/ Tell(c)
    PROVE  [Notices!BookNext]_(Notices!bookVars)
  <1>0. PICK key : key = check[c].key
    OBVIOUS
  <1>1. Owed = {k \in Keys : Sending(k) # {}} /\ Owed' = {k \in Keys : Sending(k)' # {}}
    <2>1. Owed' = {k \in Keys : Sending(k)' # {}}
      <3>1. \A d \in Checkers : check'[d].pc = "tell" => check'[d].key \in Keys
        BY DEF TypeOK, CheckRow
      <3> QED BY <3>1 DEF Owed, Sending
    <2> QED BY <2>1, OwedAreSent
  <1>2. CASE \/ BeginCheck(c) \/ AskBell(c)
             \/ InsertBell(c) /\ check' = [check EXCEPT ![c] = Done(c, check[c].key)] /\ UNCHANGED bells
    <2>1. (\A k : Sending(k)' = Sending(k)) /\ UNCHANGED <<told, lost, bells>>
      BY <1>2, QuietStep
    <2>2. Owed' = Owed
      BY <1>1, <2>1
    <2> QED BY <2>1, <2>2 DEF Notices!bookVars
  <1>3. CASE InsertBell(c) /\ ~(check' = [check EXCEPT ![c] = Done(c, key)] /\ UNCHANGED bells)
    <2>1. /\ key \in Keys /\ key \notin bells /\ bells' = bells \cup {key}
          /\ Sending(key)' = Sending(key) \cup {c}
          /\ \A k \in Keys \ {key} : Sending(k)' = Sending(k)
          /\ UNCHANGED <<told, lost>>
      BY <1>0, <1>3, InsertStep
    <2>2. Owed' = Owed \cup {key}
      BY <1>1, <2>1
    <2>3. Notices!List(key)
      BY <2>1, <2>2 DEF Notices!List
    <2> QED BY <2>1, <2>3 DEF Notices!BookNext
  <1>4. CASE Tell(c)
    <2>1. /\ key \in Keys /\ told' = [told EXCEPT ![key] = told[key] + 1]
          /\ c \in Sending(key) /\ Sending(key)' = Sending(key) \ {c}
          /\ \A k \in Keys \ {key} : Sending(k)' = Sending(k)
          /\ UNCHANGED <<bells, lost>>
      BY <1>0, <1>4, TellStep
    <2>2. Sending(key) = {c}
      BY <2>1, OneSender
    <2>3. key \in Owed /\ Owed' = Owed \ {key}
      BY <1>1, <2>1, <2>2
    <2>4. Notices!Send(key)
      BY <2>1, <2>3 DEF Notices!Send
    <2> QED BY <2>1, <2>4 DEF Notices!BookNext
  <1>5. CASE BellUnheard(c)
    <2>1. /\ key \in Keys /\ key \notin bells /\ bells' = bells \cup {key} /\ UNCHANGED told
          /\ \A k : Sending(k)' = Sending(k)
      BY <1>0, <1>5, UnheardStep
    <2>2. Owed' = Owed
      BY <1>1, <2>1
    <2>3. Notices!ListUnheard(key)
      BY <2>1, <2>2 DEF Notices!ListUnheard
    <2> QED BY <2>1, <2>3 DEF Notices!BookNext
  <1> QED BY <1>0, <1>2, <1>3, <1>4, <1>5

LEMMA RestartKeepsBook ==
    ASSUME Restart
    PROVE  Notices!BookNext
  <1>1. Owed' = {}
    BY DEF Restart, Owed, Idle
  <1>2. UNCHANGED <<bells, told>>
    BY DEF Restart
  <1> QED BY <1>1, <1>2 DEF Notices!BookNext, Notices!Lose

LEMMA NextIsBook ==
    ASSUME TypeOK, TypeOK', BellsTold, [Next]_vars
    PROVE  [Notices!BookNext]_(Notices!bookVars)
  <1>1. CASE UNCHANGED <<bells, check, told>>
    BY <1>1 DEF Notices!bookVars, Owed
  <1>2. ASSUME NEW p \in Admins,
               BeginCreate(p) \/ BeginUpdate(p) \/ CheckConflicts(p) \/ WriteAd(p) \/ BeginBanner(p) \/ ClearCache(p)
        PROVE  UNCHANGED <<bells, check, told>>
    BY <1>2 DEF BeginCreate, BeginUpdate, CheckConflicts, WriteAd, BeginBanner, ClearCache, noticeVars
  <1>3. CASE RemoveAd \/ Click \/ CountDay \/ CacheExpires \/ NextDay
    BY <1>1, <1>3 DEF RemoveAd, Click, CountDay, CacheExpires, NextDay, noticeVars
  <1>4. ASSUME NEW r \in Readers, ReadRows(r) \/ ReadRotate(r) \/ StoreCache(r)
        PROVE  UNCHANGED <<bells, check, told>>
    BY <1>4 DEF ReadRows, ReadRotate, StoreCache, noticeVars
  <1>5. CASE \E c \in Checkers : BeginCheck(c) \/ AskBell(c) \/ InsertBell(c) \/ BellUnheard(c) \/ Tell(c)
    BY <1>5, CheckKeepsBook
  <1>6. CASE Restart
    BY <1>6, RestartKeepsBook
  <1>7. CASE UNCHANGED vars
    BY <1>1, <1>7 DEF vars, noticeVars
  <1> QED BY <1>1, <1>2, <1>3, <1>4, <1>5, <1>6, <1>7 DEF Next

\* For any checks at once and any restarts: the notices before an ad ends implement the
\* book of notices, in which no key is told of twice.
THEOREM ExpiryIsNoticeBook == Spec => IsNoticeBook
  <1>1. Init => TypeOK /\ BellsTold
    BY InitShape, InitBells
  <1>2. TypeOK /\ BellsTold /\ [Next]_vars => TypeOK' /\ BellsTold'
    BY NextShape, NextKeepsBells
  <1>3. Init => Notices!BookInit
    <2>1. Init => Owed = {}
      BY DEF Init, Owed, Idle
    <2> QED BY <2>1 DEF Init, Notices!BookInit
  <1>4. TypeOK /\ TypeOK' /\ BellsTold /\ [Next]_vars => [Notices!BookNext]_(Notices!bookVars)
    BY NextIsBook
  <1> QED BY <1>1, <1>2, <1>3, <1>4, PTL DEF Spec, IsNoticeBook, Notices!BookSpec

-----------------------------------------------------------------------------
(* The banners *)

NoClear == \A p \in Admins : desk[p].pc # "clear"

CacheFresh == cache # NoCache => cache.raced \/ cache.seen = table
FillFresh(r) ==
    /\ fill[r].pc = "rows" => fill[r].raced \/ fill[r].seen.rows = table.rows
    /\ fill[r].pc = "store" => fill[r].raced \/ fill[r].seen = table

\* While no admin waits to clear the cache, what a reader has read so far is still so,
\* unless a clearing has marked it.
BannersKnown == NoClear => CacheFresh /\ \A r \in Readers : FillFresh(r)

LEMMA OthersKeepBanners ==
    ASSUME BannersKnown, UNCHANGED bannerVars, NoClear' => NoClear
    PROVE  BannersKnown'
  BY DEF BannersKnown, CacheFresh, FillFresh, bannerVars

LEMMA AdminsKeepBanners ==
    ASSUME TypeOK, BannersKnown, NEW p \in Admins,
           \/ BeginCreate(p) \/ BeginUpdate(p) \/ CheckConflicts(p) \/ WriteAd(p)
           \/ BeginBanner(p) \/ ClearCache(p)
    PROVE  BannersKnown'
  <1>0. p \in DOMAIN desk
    BY DEF TypeOK
  <1>1. CASE BeginCreate(p) \/ BeginUpdate(p) \/ CheckConflicts(p) \/ WriteAd(p)
    <2>1. UNCHANGED bannerVars
      BY <1>1 DEF BeginCreate, BeginUpdate, CheckConflicts, WriteAd
    <2>2. desk[p].pc # "clear" /\ \A q \in Admins \ {p} : desk'[q] = desk[q]
      <3>1. CASE BeginCreate(p) \/ BeginUpdate(p)
        <4>1. PICK v : desk' = [desk EXCEPT ![p] = v]
          BY <3>1, BeginShape
        <4> QED BY <3>1, <4>1 DEF BeginCreate, BeginUpdate, Idle, TypeOK
      <3>2. CASE CheckConflicts(p) \/ WriteAd(p)
        BY <3>2 DEF CheckConflicts, WriteAd, TypeOK
      <3> QED BY <1>1, <3>1, <3>2
    <2>3. NoClear' => NoClear
      BY <2>2 DEF NoClear
    <2> QED BY <2>1, <2>3, OthersKeepBanners
  <1>2. CASE BeginBanner(p)
    <2>1. desk'[p].pc = "clear"
      BY <1>0, <1>2 DEF BeginBanner
    <2> QED BY <2>1 DEF BannersKnown, NoClear
  <1>3. CASE ClearCache(p)
    <2>1. cache' = NoCache
      BY <1>3 DEF ClearCache, Cleared
    <2>2. \A r \in Readers : fill'[r].pc = "idle" \/ fill'[r].raced
      BY <1>3 DEF ClearCache, TypeOK, FillRow
    <2> QED BY <2>1, <2>2 DEF BannersKnown, CacheFresh, FillFresh
  <1> QED BY <1>1, <1>2, <1>3

LEMMA ReadersKeepBanners ==
    ASSUME TypeOK, BannersKnown, NEW r \in Readers, ReadRows(r) \/ ReadRotate(r) \/ StoreCache(r)
    PROVE  BannersKnown'
  <1>0. UNCHANGED <<table, desk>> /\ r \in DOMAIN fill
    BY DEF ReadRows, ReadRotate, StoreCache, requestVars, TypeOK
  <1> SUFFICES ASSUME NoClear PROVE CacheFresh' /\ \A q \in Readers : FillFresh(q)'
    BY <1>0 DEF BannersKnown, NoClear
  <1>1. CacheFresh /\ \A q \in Readers : FillFresh(q)
    BY DEF BannersKnown
  <1>2. \A q \in Readers \ {r} : fill'[q] = fill[q]
    BY DEF ReadRows, ReadRotate, StoreCache, TypeOK
  <1>3. \A q \in Readers \ {r} : FillFresh(q)'
    BY <1>0, <1>1, <1>2 DEF FillFresh
  <1>4. CacheFresh' /\ FillFresh(r)'
    <2>1. CASE ReadRows(r)
      <3>1. UNCHANGED cache
        BY <2>1 DEF ReadRows
      <3>2. fill'[r] = [pc |-> "rows", seen |-> [rows |-> table.rows, rotate |-> 0], raced |-> FALSE]
        BY <1>0, <2>1 DEF ReadRows
      <3> QED BY <1>0, <1>1, <3>1, <3>2 DEF CacheFresh, FillFresh
    <2>2. CASE ReadRotate(r)
      <3>1. UNCHANGED cache /\ fill[r].pc = "rows"
        BY <2>2 DEF ReadRotate
      <3>2. fill[r] \in [pc : {"rows", "store"}, seen : Seen, raced : BOOLEAN] /\ table \in Seen
        BY <3>1 DEF TypeOK, FillRow
      <3>3. fill'[r] = [fill[r] EXCEPT !.pc = "store", !.seen.rotate = table.rotate]
        BY <1>0, <2>2 DEF ReadRotate
      <3>4. fill'[r].pc = "store" /\ fill'[r].raced = fill[r].raced
            /\ fill'[r].seen = [fill[r].seen EXCEPT !.rotate = table.rotate]
        BY <3>2, <3>3
      <3>5. fill[r].seen.rows = table.rows => fill'[r].seen = table
        BY <3>2, <3>4 DEF Seen
      <3> QED BY <1>0, <1>1, <3>1, <3>4, <3>5 DEF CacheFresh, FillFresh
    <2>3. CASE StoreCache(r)
      <3>1. fill[r].pc = "store" /\ fill'[r] = Idle /\ cache' = [seen |-> fill[r].seen, raced |-> fill[r].raced]
        BY <1>0, <2>3 DEF StoreCache
      <3>2. FillFresh(r)'
        BY <3>1 DEF FillFresh, Idle
      <3> QED BY <1>0, <1>1, <3>1, <3>2 DEF CacheFresh, FillFresh
    <2> QED BY <2>1, <2>2, <2>3
  <1> QED BY <1>3, <1>4

LEMMA NextKeepsBanners == TypeOK /\ BannersKnown /\ [Next]_vars => BannersKnown'
  <1> SUFFICES ASSUME TypeOK, BannersKnown, [Next]_vars PROVE BannersKnown'
    OBVIOUS
  <1>1. ASSUME NEW p \in Admins,
               BeginCreate(p) \/ BeginUpdate(p) \/ CheckConflicts(p) \/ WriteAd(p) \/ BeginBanner(p) \/ ClearCache(p)
        PROVE  BannersKnown'
    BY <1>1, AdminsKeepBanners
  <1>2. CASE UNCHANGED <<bannerVars, desk>>
    BY <1>2, OthersKeepBanners DEF NoClear
  <1>3. CASE RemoveAd \/ Click \/ CountDay \/ NextDay
    BY <1>2, <1>3 DEF RemoveAd, Click, CountDay, NextDay, requestVars
  <1>4. ASSUME NEW r \in Readers, ReadRows(r) \/ ReadRotate(r) \/ StoreCache(r)
        PROVE  BannersKnown'
    BY <1>4, ReadersKeepBanners
  <1>5. ASSUME NEW c \in Checkers, BeginCheck(c) \/ AskBell(c) \/ InsertBell(c) \/ BellUnheard(c) \/ Tell(c)
        PROVE  BannersKnown'
    BY <1>2, <1>5 DEF BeginCheck, AskBell, InsertBell, BellUnheard, Tell, requestVars
  <1>6. CASE CacheExpires
    BY <1>6 DEF CacheExpires, BannersKnown, NoClear, CacheFresh, FillFresh, requestVars
  <1>7. CASE Restart
    BY <1>7 DEF Restart, BannersKnown, CacheFresh, FillFresh, Idle
  <1>8. CASE UNCHANGED vars
    BY <1>2, <1>8 DEF vars, requestVars
  <1> QED BY <1>1, <1>3, <1>4, <1>5, <1>6, <1>7, <1>8 DEF Next

\* The cached banners are those of the database once no admin waits to clear the cache,
\* unless another clearing fell into the reading that filled it.
THEOREM CacheOldOnlyByRace == Spec => []BannersOldOnlyByRace
  <1>1. Init => TypeOK /\ BannersKnown
    BY InitShape DEF Init, BannersKnown, CacheFresh, FillFresh, Idle
  <1>2. TypeOK /\ BannersKnown /\ [Next]_vars => TypeOK' /\ BannersKnown'
    BY NextShape, NextKeepsBanners
  <1>3. BannersKnown => BannersOldOnlyByRace
    BY DEF BannersKnown, BannersOldOnlyByRace, NoClear, CacheFresh
  <1> QED BY <1>1, <1>2, <1>3, PTL DEF Spec

-----------------------------------------------------------------------------
(* The clicks *)

Counted(a) == daily[a] + clicking[a] + failed[a]
Within(a, n) == Counted(a) - during[a] <= n /\ n <= Counted(a)

\* An ad that is not in the table yet has no clicks; the copy an admin is about to save
\* is behind by at most the clicks made since it was taken.
CopyCounted(q) ==
    IF q.op = "create" THEN Counted(q.ad) = 0 /\ q.row.clicks = 0
    ELSE Within(q.ad, q.row.clicks)

ClicksKnown ==
    /\ \A a \in unused : Counted(a) = 0
    /\ \A p \in Admins, q \in Writing : desk[p] = q => CopyCounted(q)
    /\ \A a \in Present : Within(a, ads[a].clicks)

LEMMA CountedNat ==
    ASSUME TypeOK, NEW a \in Ads
    PROVE  /\ daily[a] \in Nat /\ clicking[a] \in Nat /\ failed[a] \in Nat /\ during[a] \in Nat
           /\ Counted(a) \in Nat
  BY DEF TypeOK, Counted

\* A step that leaves the counters alone and begins no copy.
LEMMA OthersKeepClicks ==
    ASSUME ClicksKnown, UNCHANGED <<daily, clicking, failed, during>>, unused' \subseteq unused,
           \A p \in Admins, q \in Writing : desk'[p] = q => desk[p] = q,
           \A a \in Ads : ads'[a] = ads[a] \/ ads'[a] = NoRow
    PROVE  ClicksKnown'
  BY DEF ClicksKnown, CopyCounted, Within, Counted, Present

LEMMA BeginKeepsClicks ==
    ASSUME TypeOK, ClicksKnown, NEW p \in Admins, BeginCreate(p) \/ BeginUpdate(p)
    PROVE  ClicksKnown'
  <1>1. PICK op \in {"create", "update"}, a \in Ads, row \in Row :
             /\ desk' = [desk EXCEPT ![p] = [pc |-> "check", op |-> op, ad |-> a, row |-> row]]
             /\ op = "create" => a \in unused /\ row.clicks = 0 /\ unused' = unused \ {a}
             /\ op = "update" => a \in Present /\ row.clicks = ads[a].clicks /\ unused' = unused
    BY BeginShape
  <1>2. UNCHANGED rankVars /\ unused' \subseteq unused
    BY <1>1 DEF BeginCreate, BeginUpdate
  <1>3. /\ \A b \in unused' : Counted(b)' = 0
        /\ \A b \in Present' : Within(b, ads[b].clicks)'
    BY <1>2 DEF ClicksKnown, Present, Within, Counted, rankVars
  <1>4. ASSUME NEW o \in Admins, NEW q \in Writing, desk'[o] = q PROVE CopyCounted(q)'
    <2>1. CopyCounted(q)
      <3>1. CASE o = p
        <4>1. q = [pc |-> "check", op |-> op, ad |-> a, row |-> row]
          BY <1>1, <1>4, <3>1 DEF TypeOK
        <4>2. CASE op = "create"
          BY <1>1, <4>1, <4>2 DEF ClicksKnown, CopyCounted
        <4>3. CASE op = "update"
          BY <1>1, <4>1, <4>3 DEF ClicksKnown, CopyCounted
        <4> QED BY <4>2, <4>3
      <3>2. CASE o # p
        BY <1>1, <1>4, <3>2 DEF ClicksKnown, TypeOK
      <3> QED BY <3>1, <3>2
    <2> QED BY <1>2, <2>1 DEF CopyCounted, Within, Counted, rankVars
  <1> QED BY <1>3, <1>4 DEF ClicksKnown

LEMMA CheckKeepsClicks ==
    ASSUME TypeOK, ClicksKnown, NEW p \in Admins, CheckConflicts(p)
    PROVE  ClicksKnown'
  <1>1. UNCHANGED <<rankVars, unused>>
    BY DEF CheckConflicts
  <1>2. /\ \A b \in unused' : Counted(b)' = 0
        /\ \A b \in Present' : Within(b, ads[b].clicks)'
    BY <1>1 DEF ClicksKnown, Present, Within, Counted, rankVars
  <1>3. ASSUME NEW o \in Admins, NEW q \in Writing, desk'[o] = q PROVE CopyCounted(q)'
    <2>1. CopyCounted(q)
      <3>1. CASE o = p
        <4>1. desk[p] \in Writing /\ CopyCounted(desk[p])
          BY CheckShape DEF ClicksKnown
        <4>2. q # Idle
          BY DEF Writing, Idle
        <4>3. q = [desk[p] EXCEPT !.pc = "write"]
          BY <1>3, <3>1, <4>2, CheckShape DEF TypeOK
        <4>4. q.op = desk[p].op /\ q.ad = desk[p].ad /\ q.row = desk[p].row
          BY <4>1, <4>3 DEF Writing
        <4> QED BY <4>1, <4>4 DEF CopyCounted
      <3>2. CASE o # p
        BY <1>3, <3>2 DEF ClicksKnown, TypeOK, CheckConflicts
      <3> QED BY <3>1, <3>2
    <2> QED BY <1>1, <2>1 DEF CopyCounted, Within, Counted, rankVars
  <1> QED BY <1>2, <1>3 DEF ClicksKnown

LEMMA WriteKeepsClicks ==
    ASSUME TypeOK, ClicksKnown, NEW p \in Admins, WriteAd(p)
    PROVE  ClicksKnown'
  <1>1. /\ desk[p] \in Writing /\ CopyCounted(desk[p])
        /\ desk[p].ad \in Ads /\ desk[p].row \in Row /\ desk[p].op \in {"create", "update"}
    BY Writers DEF WriteAd, ClicksKnown
  <1>2. /\ ads' = [ads EXCEPT ![desk[p].ad] = desk[p].row]
        /\ desk' = [desk EXCEPT ![p] = Idle]
        /\ UNCHANGED <<daily, clicking, during, failed, unused>>
    BY DEF WriteAd
  <1>3. \A o \in Admins, q \in Writing : desk'[o] = q => desk[o] = q
    BY <1>2 DEF TypeOK, Writing, Idle
  <1>4. /\ \A a \in unused' : Counted(a)' = 0
        /\ \A o \in Admins, q \in Writing : desk'[o] = q => CopyCounted(q)'
    BY <1>2, <1>3 DEF ClicksKnown, CopyCounted, Within, Counted
  <1>5. Within(desk[p].ad, desk[p].row.clicks)
    <2>1. CASE desk[p].op = "create"
      <3>1. Counted(desk[p].ad) = 0 /\ desk[p].row.clicks = 0 /\ during[desk[p].ad] \in Nat
        BY <1>1, <2>1, CountedNat DEF CopyCounted
      <3> QED BY <3>1 DEF Within
    <2>2. CASE desk[p].op = "update"
      BY <1>1, <2>2 DEF CopyCounted
    <2> QED BY <1>1, <2>1, <2>2
  <1>6. ASSUME NEW a \in Present' PROVE Within(a, ads'[a].clicks)
    <2>1. a \in Ads
      BY DEF Present
    <2>2. CASE a = desk[p].ad
      BY <1>1, <1>2, <1>5, <2>1, <2>2 DEF TypeOK
    <2>3. CASE a # desk[p].ad
      BY <1>2, <1>6, <2>1, <2>3 DEF ClicksKnown, Present, TypeOK
    <2> QED BY <2>2, <2>3
  <1>7. \A a \in Present' : Within(a, ads[a].clicks)'
    BY <1>2, <1>6 DEF Within, Counted
  <1> QED BY <1>4, <1>7 DEF ClicksKnown

\* A click raises what was counted of one ad by one, and the row's own counter with it;
\* a copy under way falls behind by one, and that is counted too.
LEMMA ClickKeepsClicks ==
    ASSUME TypeOK, ClicksKnown, Click
    PROVE  ClicksKnown'
  <1>1. PICK a \in Ads \ unused :
         /\ ~Busy(a, "create")
         /\ ads' = IF ads[a] = NoRow THEN ads ELSE [ads EXCEPT ![a].clicks = @ + 1]
         /\ clicking' = [clicking EXCEPT ![a] = @ + 1]
         /\ during' = IF Busy(a, "update") THEN [during EXCEPT ![a] = @ + 1] ELSE during
    BY DEF Click
  <1>2. UNCHANGED <<daily, failed, desk, unused>>
    BY DEF Click, requestVars
  <1>3. /\ Counted(a)' = Counted(a) + 1
        /\ during'[a] = (IF Busy(a, "update") THEN during[a] + 1 ELSE during[a])
        /\ Counted(a) \in Nat /\ during[a] \in Nat
    <2>1. /\ daily[a] \in Nat /\ clicking[a] \in Nat /\ failed[a] \in Nat
          /\ Counted(a) \in Nat /\ during[a] \in Nat
      BY CountedNat
    <2>2. clicking'[a] = clicking[a] + 1 /\ daily'[a] = daily[a] /\ failed'[a] = failed[a]
      BY <1>1, <1>2 DEF TypeOK
    <2>3. Counted(a)' = Counted(a) + 1
      BY <2>1, <2>2 DEF Counted
    <2>4. during'[a] = (IF Busy(a, "update") THEN during[a] + 1 ELSE during[a])
      BY <1>1 DEF TypeOK
    <2> QED BY <2>1, <2>3, <2>4
  <1>4. \A b \in Ads \ {a} : Counted(b)' = Counted(b) /\ during'[b] = during[b]
    BY <1>1, <1>2 DEF Counted, TypeOK
  <1>5. \A b \in unused' : Counted(b)' = 0
    BY <1>1, <1>2, <1>4 DEF ClicksKnown, TypeOK
  <1>6. ASSUME NEW o \in Admins, NEW q \in Writing, desk'[o] = q PROVE CopyCounted(q)'
    <2>1. desk[o] = q /\ CopyCounted(q) /\ q.ad \in Ads
      BY <1>2, <1>6 DEF ClicksKnown, Writing
    <2>2. CASE q.ad # a
      BY <1>4, <2>1, <2>2 DEF CopyCounted, Within
    <2>3. CASE q.ad = a
      <3>1. Busy(a, q.op)
        BY <2>1, <2>3 DEF Busy, Writing
      <3>2. q.op # "create" /\ Busy(a, "update")
        BY <1>1, <3>1 DEF Writing
      <3>3. Counted(a) - during[a] <= q.row.clicks /\ q.row.clicks <= Counted(a)
        BY <2>1, <2>3, <3>2 DEF CopyCounted, Within
      <3>4. q.row.clicks \in Nat
        BY DEF Writing, Row
      <3>5. Counted(a)' - during'[a] <= q.row.clicks /\ q.row.clicks <= Counted(a)'
        BY <1>3, <3>2, <3>3, <3>4
      <3> QED BY <2>3, <3>2, <3>5 DEF CopyCounted, Within
    <2> QED BY <2>2, <2>3
  <1>7. Present' = Present /\ \A b \in Present \ {a} : ads'[b] = ads[b]
    <2>1. ads[a] # NoRow => [ads[a] EXCEPT !.clicks = ads[a].clicks + 1] \in Row
      BY DEF TypeOK, Row
    <2>2. ads[a] # NoRow => ads' = [ads EXCEPT ![a] = [ads[a] EXCEPT !.clicks = ads[a].clicks + 1]]
      BY <1>1 DEF TypeOK
    <2>3. NoRow \notin Row
      BY AdAssumption
    <2> QED BY <1>1, <2>1, <2>2, <2>3 DEF Present, TypeOK
  <1>8. ASSUME NEW b \in Present PROVE Within(b, ads[b].clicks)'
    <2>1. b \in Ads /\ Within(b, ads[b].clicks)
      BY DEF Present, ClicksKnown
    <2>2. CASE b # a
      BY <1>4, <1>7, <2>1, <2>2 DEF Within
    <2>3. CASE b = a
      <3>1. ads[a] \in Row /\ ads[a].clicks \in Nat
        BY <2>3 DEF TypeOK, Present, Row
      <3>2. ads'[a].clicks = ads[a].clicks + 1
        BY <1>1, <2>3, <3>1 DEF TypeOK, Present, Row
      <3>3. Counted(a) - during[a] <= ads[a].clicks /\ ads[a].clicks <= Counted(a)
        BY <2>1, <2>3 DEF Within
      <3>4. during'[a] \in {during[a], during[a] + 1}
        BY <1>3
      <3>5. Counted(a)' - during'[a] <= ads'[a].clicks /\ ads'[a].clicks <= Counted(a)'
        BY <1>3, <3>1, <3>2, <3>3, <3>4
      <3> QED BY <2>3, <3>5 DEF Within
    <2> QED BY <2>2, <2>3
  <1> QED BY <1>5, <1>6, <1>7, <1>8 DEF ClicksKnown

\* The second statement, a failure of it and the end of the process only move a click
\* from one of the three counters to another.
LEMMA CountKeepsClicks ==
    ASSUME TypeOK, ClicksKnown, CountDay \/ Restart
    PROVE  ClicksKnown'
  <1>1. UNCHANGED <<ads, during, unused>>
    BY DEF CountDay, Restart, requestVars
  <1>2. \A o \in Admins, q \in Writing : desk'[o] = q => desk[o] = q
    <2>1. CASE CountDay
      BY <2>1 DEF CountDay, requestVars
    <2>2. CASE Restart
      BY <2>2 DEF Restart, Writing, Idle
    <2> QED BY <2>1, <2>2
  <1>3. \A a \in Ads : Counted(a)' = Counted(a)
    <2>1. CASE CountDay
      <3>1. PICK a \in Ads :
              /\ clicking[a] > 0
              /\ clicking' = [clicking EXCEPT ![a] = @ - 1]
              /\ \/ Bump(a) /\ UNCHANGED failed
                 \/ failed' = [failed EXCEPT ![a] = @ + 1] /\ UNCHANGED daily
        BY <2>1 DEF CountDay
      <3>2. CASE Bump(a) /\ UNCHANGED failed
        BY <3>1, <3>2 DEF Counted, TypeOK, Bump
      <3>3. CASE failed' = [failed EXCEPT ![a] = @ + 1] /\ UNCHANGED daily
        BY <3>1, <3>3 DEF Counted, TypeOK
      <3> QED BY <3>1, <3>2, <3>3
    <2>2. CASE Restart
      BY <2>2 DEF Restart, Counted, TypeOK
    <2> QED BY <2>1, <2>2
  <1>4. \A a \in unused' : Counted(a)' = 0
    BY <1>1, <1>3 DEF ClicksKnown, TypeOK
  <1>5. \A o \in Admins, q \in Writing : desk'[o] = q => CopyCounted(q)'
    BY <1>1, <1>2, <1>3 DEF ClicksKnown, CopyCounted, Within, Writing
  <1>6. \A a \in Present' : Within(a, ads[a].clicks)'
    BY <1>1, <1>3 DEF ClicksKnown, Within, Present
  <1> QED BY <1>4, <1>5, <1>6 DEF ClicksKnown

LEMMA NextKeepsClicks == TypeOK /\ ClicksKnown /\ [Next]_vars => ClicksKnown'
  <1> SUFFICES ASSUME TypeOK, ClicksKnown, [Next]_vars PROVE ClicksKnown'
    OBVIOUS
  <1>1. ASSUME NEW p \in Admins, BeginCreate(p) \/ BeginUpdate(p) \/ CheckConflicts(p) \/ WriteAd(p)
        PROVE  ClicksKnown'
    BY <1>1, BeginKeepsClicks, CheckKeepsClicks, WriteKeepsClicks
  <1>2. ASSUME NEW p \in Admins, BeginBanner(p) \/ ClearCache(p)
        PROVE  ClicksKnown'
    <2>1. UNCHANGED <<rankVars, unused>>
      BY <1>2 DEF BeginBanner, ClearCache
    <2>2. PICK v : v \in {Idle, [pc |-> "clear"]} /\ desk' = [desk EXCEPT ![p] = v]
      BY <1>2 DEF BeginBanner, ClearCache
    <2>3. \A o \in Admins, q \in Writing : desk'[o] = q => desk[o] = q
      BY <2>2 DEF TypeOK, Writing, Idle
    <2> QED BY <2>1, <2>3, OthersKeepClicks DEF rankVars
  <1>3. CASE RemoveAd
    <2>1. PICK a \in Present : ads' = [ads EXCEPT ![a] = NoRow]
      BY <1>3 DEF RemoveAd
    <2>2. \A b \in Ads : ads'[b] = ads[b] \/ ads'[b] = NoRow
      BY <2>1 DEF TypeOK
    <2> QED BY <1>3, <2>2, OthersKeepClicks DEF RemoveAd
  <1>4. CASE Click
    BY <1>4, ClickKeepsClicks
  <1>5. CASE CountDay \/ Restart
    BY <1>5, CountKeepsClicks
  <1>6. CASE UNCHANGED <<rankVars, requestVars>>
    BY <1>6, OthersKeepClicks DEF rankVars, requestVars
  <1>7. ASSUME NEW r \in Readers, ReadRows(r) \/ ReadRotate(r) \/ StoreCache(r)
        PROVE  ClicksKnown'
    BY <1>6, <1>7 DEF ReadRows, ReadRotate, StoreCache
  <1>8. ASSUME NEW c \in Checkers, BeginCheck(c) \/ AskBell(c) \/ InsertBell(c) \/ BellUnheard(c) \/ Tell(c)
        PROVE  ClicksKnown'
    BY <1>6, <1>8 DEF BeginCheck, AskBell, InsertBell, BellUnheard, Tell
  <1>9. CASE CacheExpires \/ NextDay \/ UNCHANGED vars
    BY <1>6, <1>9 DEF CacheExpires, NextDay, vars
  <1> QED BY <1>1, <1>2, <1>3, <1>4, <1>5, <1>7, <1>8, <1>9 DEF Next

LEMMA InitClicks == Init => ClicksKnown
  <1> SUFFICES ASSUME Init PROVE ClicksKnown
    OBVIOUS
  <1>1. \A a \in Ads : Counted(a) = 0 /\ during[a] = 0
    BY DEF Init, Counted
  <1>2. \A p \in Admins, q \in Writing : desk[p] # q
    BY DEF Init, Idle, Writing
  <1>3. \A a \in Present : a \in Ads /\ ads[a].clicks = 0
    BY AdAssumption DEF Init, Present
  <1>4. unused \subseteq Ads
    BY DEF Init
  <1> QED BY <1>1, <1>2, <1>3, <1>4 DEF ClicksKnown, Within

\* The counter of an ad and its days' sum never differ by more than the clicks under way,
\* those whose second statement was lost and those made while an update was saved over.
THEOREM ClicksAlwaysAddUp == Spec => []ClicksAddUp
  <1>1. Init => TypeOK /\ ClicksKnown
    BY InitShape, InitClicks
  <1>2. TypeOK /\ ClicksKnown /\ [Next]_vars => TypeOK' /\ ClicksKnown'
    BY NextShape, NextKeepsClicks
  <1>3. ClicksKnown => ClicksAddUp
    BY DEF ClicksKnown, ClicksAddUp, Within, Counted
  <1> QED BY <1>1, <1>2, <1>3, PTL DEF Spec

-----------------------------------------------------------------------------
(* The places *)

Clash(r, s) ==
    /\ r.active /\ s.active /\ SameList(r, s) /\ RangesOverlap(r, s)
    /\ r.slot = s.slot \/ r.channel = s.channel

\* Two rows that clash were written one after the other by admins neither of whose checks
\* saw the other; a row whose check saw every writer clashes with nothing in the table.
PairsKnown == \A a, b \in Present : a # b /\ Clash(ads[a], ads[b]) => {a, b} \cap unseen # {}
ChecksKnown ==
    \A p \in Admins, q \in Writing :
        desk[p] = q /\ q.pc = "write" /\ ~missed[p] =>
            \A b \in Present \ {q.ad} : ~Clash(ads[b], q.row)

LEMMA ClashTurns ==
    ASSUME NEW r \in Row, NEW s \in Row, Clash(r, s)
    PROVE  Clash(s, r)
  BY DEF Clash, SameList, RangesOverlap

LEMMA AcceptedIsClear ==
    ASSUME TypeOK, NEW a \in Ads, NEW row \in Row, Accepted(a, row)
    PROVE  \A b \in Present \ {a} : ~Clash(ads[b], row)
  BY DEF Accepted, Conflicts, Clash

\* A step that changes no row's place and lets no admin come to write.
LEMMA OthersKeepPlaces ==
    ASSUME PairsKnown, ChecksKnown, UNCHANGED unseen, Present' = Present,
           \A a \in Present : \A r : Clash(ads'[a], r) => Clash(ads[a], r),
           \A a, b \in Present : Clash(ads'[a], ads'[b]) => Clash(ads[a], ads[b]),
           \A p \in Admins, q \in Writing :
             desk'[p] = q /\ q.pc = "write" => desk[p] = q /\ missed'[p] = missed[p]
    PROVE  PairsKnown' /\ ChecksKnown'
  <1>1. PairsKnown'
    BY DEF PairsKnown
  <1>2. ChecksKnown'
    BY DEF ChecksKnown
  <1> QED BY <1>1, <1>2

LEMMA DeskKeepsPlaces ==
    ASSUME TypeOK, PairsKnown, ChecksKnown, NEW p \in Admins,
           BeginCreate(p) \/ BeginUpdate(p) \/ BeginBanner(p) \/ ClearCache(p)
    PROVE  PairsKnown' /\ ChecksKnown'
  <1>1. PICK v : v.pc # "write" /\ desk' = [desk EXCEPT ![p] = v]
    <2>1. CASE BeginCreate(p) \/ BeginUpdate(p)
      BY <2>1, BeginShape
    <2>2. CASE BeginBanner(p) \/ ClearCache(p)
      BY <2>2 DEF BeginBanner, ClearCache, Idle
    <2> QED BY <2>1, <2>2
  <1>2. UNCHANGED <<ads, unseen>> /\ \A q \in Admins \ {p} : missed'[q] = missed[q]
    BY DEF BeginCreate, BeginUpdate, BeginBanner, ClearCache, rankVars, TypeOK
  <1>3. \A o \in Admins, q \in Writing :
          desk'[o] = q /\ q.pc = "write" => desk[o] = q /\ missed'[o] = missed[o]
    BY <1>1, <1>2 DEF TypeOK
  <1> QED BY <1>2, <1>3, OthersKeepPlaces DEF Present

LEMMA CheckKeepsPlaces ==
    ASSUME TypeOK, PairsKnown, ChecksKnown, NEW p \in Admins, CheckConflicts(p)
    PROVE  PairsKnown' /\ ChecksKnown'
  <1>1. UNCHANGED <<ads, unseen>> /\ \A q \in Admins \ {p} : missed'[q] = missed[q]
    BY DEF CheckConflicts, rankVars, TypeOK
  <1>2. PairsKnown'
    BY <1>1 DEF PairsKnown, Present
  <1>3. ASSUME NEW o \in Admins, NEW q \in Writing, desk'[o] = q, q.pc = "write", ~missed'[o],
               NEW b \in Present \ {q.ad}
        PROVE  ~Clash(ads[b], q.row)
    <2>1. CASE o = p
      <3>1. q # Idle
        BY DEF Writing, Idle
      <3>2. Accepted(desk[p].ad, desk[p].row) /\ q = [desk[p] EXCEPT !.pc = "write"] /\ desk[p] \in Writing
        BY <1>3, <2>1, <3>1, CheckShape DEF TypeOK
      <3>3. q.ad = desk[p].ad /\ q.row = desk[p].row /\ desk[p].ad \in Ads /\ desk[p].row \in Row
        BY <3>2 DEF Writing
      <3> QED BY <1>3, <3>2, <3>3, AcceptedIsClear
    <2>2. CASE o # p
      <3>1. desk[o] = q /\ ~missed[o]
        BY <1>1, <1>3, <2>2 DEF CheckConflicts, TypeOK
      <3> QED BY <1>3, <3>1 DEF ChecksKnown
    <2> QED BY <2>1, <2>2
  <1>4. ChecksKnown'
    BY <1>1, <1>3 DEF ChecksKnown, Present
  <1> QED BY <1>2, <1>4

LEMMA WriteKeepsPlaces ==
    ASSUME TypeOK, PairsKnown, ChecksKnown, NEW p \in Admins, WriteAd(p)
    PROVE  PairsKnown' /\ ChecksKnown'
  <1>0. PICK w \in Writing : desk[p] = w /\ w.pc = "write" /\ w.ad \in Ads /\ w.row \in Row
    BY Writers DEF WriteAd
  <1>1. /\ ads' = [ads EXCEPT ![w.ad] = w.row]
        /\ desk' = [desk EXCEPT ![p] = Idle]
        /\ missed' = [q \in Admins |-> IF q # p /\ desk[q].pc = "write" THEN TRUE ELSE missed[q]]
        /\ unseen' = IF missed[p] THEN unseen \union {w.ad} ELSE unseen \ {w.ad}
    BY <1>0 DEF WriteAd
  <1>2. ChecksKnown'
    <2>1. \A o \in Admins, q \in Writing : desk'[o] = q /\ q.pc = "write" => missed'[o]
      <3>1. \A q \in Writing : q # Idle
        BY DEF Writing, Idle
      <3> QED BY <1>1, <3>1 DEF TypeOK
    <2> QED BY <2>1 DEF ChecksKnown
  <1>3. ASSUME NEW a \in Present', NEW b \in Present', a # b, Clash(ads'[a], ads'[b])
        PROVE  {a, b} \cap unseen' # {}
    <2>1. a \in Ads /\ b \in Ads /\ ads'[a] \in Row /\ ads'[b] \in Row
      BY <1>0, <1>1 DEF Present, TypeOK
    <2>2. \A c \in Present' : c # w.ad => c \in Present /\ ads'[c] = ads[c]
      BY <1>1 DEF Present, TypeOK
    <2>3. ads'[w.ad] = w.row
      BY <1>0, <1>1 DEF TypeOK
    <2>4. CASE a # w.ad /\ b # w.ad
      <3>1. {a, b} \cap unseen # {}
        BY <1>3, <2>2, <2>4 DEF PairsKnown
      <3> QED BY <1>1, <2>4, <3>1
    <2>5. CASE missed[p] /\ (a = w.ad \/ b = w.ad)
      BY <1>1, <2>5
    <2>6. CASE ~missed[p] /\ (a = w.ad \/ b = w.ad)
      <3>1. \A c \in Present \ {w.ad} : ~Clash(ads[c], w.row)
        BY <1>0, <2>6 DEF ChecksKnown
      <3>2. Clash(ads'[b], ads'[a])
        BY <1>3, <2>1, ClashTurns
      <3>3. CASE a = w.ad
        BY <1>3, <2>2, <2>3, <3>1, <3>2, <3>3
      <3>4. CASE b = w.ad
        BY <1>3, <2>2, <2>3, <3>1, <3>4
      <3> QED BY <2>6, <3>3, <3>4
    <2> QED BY <2>4, <2>5, <2>6
  <1>4. PairsKnown'
    BY <1>3 DEF PairsKnown
  <1> QED BY <1>2, <1>4

LEMMA RemoveKeepsPlaces ==
    ASSUME TypeOK, PairsKnown, ChecksKnown, RemoveAd
    PROVE  PairsKnown' /\ ChecksKnown'
  <1>1. PICK a \in Present : ads' = [ads EXCEPT ![a] = NoRow] /\ unseen' = unseen \ {a}
    BY DEF RemoveAd
  <1>2. \A b \in Present' : b # a /\ b \in Present /\ ads'[b] = ads[b]
    BY <1>1 DEF Present, TypeOK
  <1>3. PairsKnown'
    BY <1>1, <1>2 DEF PairsKnown
  <1>4. UNCHANGED <<desk, missed>>
    BY DEF RemoveAd
  <1>5. ChecksKnown'
    BY <1>2, <1>4 DEF ChecksKnown
  <1> QED BY <1>3, <1>5

LEMMA ClickKeepsPlaces ==
    ASSUME TypeOK, PairsKnown, ChecksKnown, Click
    PROVE  PairsKnown' /\ ChecksKnown'
  <1>1. PICK a \in Ads : ads' = IF ads[a] = NoRow THEN ads ELSE [ads EXCEPT ![a].clicks = @ + 1]
    BY DEF Click
  <1>2. ads[a] # NoRow =>
          /\ ads[a] \in Row /\ [ads[a] EXCEPT !.clicks = ads[a].clicks + 1] \in Row
          /\ ads' = [ads EXCEPT ![a] = [ads[a] EXCEPT !.clicks = ads[a].clicks + 1]]
    BY <1>1 DEF TypeOK, Row
  <1>3. Present' = Present
    BY <1>1, <1>2, AdAssumption DEF Present, TypeOK
  <1>4. ASSUME NEW b \in Present
        PROVE  /\ ads'[b].active = ads[b].active /\ ads'[b].scope = ads[b].scope
               /\ ads'[b].category = ads[b].category /\ ads'[b].channel = ads[b].channel
               /\ ads'[b].slot = ads[b].slot /\ ads'[b].from = ads[b].from /\ ads'[b].to = ads[b].to
    <2>1. CASE b = a
      <3>1. ads[a] \in Row /\ ads'[a] = [ads[a] EXCEPT !.clicks = ads[a].clicks + 1]
        BY <1>2, <2>1 DEF Present, TypeOK
      <3> QED BY <2>1, <3>1 DEF Row
    <2>2. CASE b # a
      BY <1>1, <1>2, <2>2 DEF Present, TypeOK
    <2> QED BY <2>1, <2>2
  <1>5. /\ \A b \in Present : \A r : Clash(ads'[b], r) => Clash(ads[b], r)
        /\ \A b, c \in Present : Clash(ads'[b], ads'[c]) => Clash(ads[b], ads[c])
    BY <1>4 DEF Clash, SameList, RangesOverlap
  <1>6. UNCHANGED <<unseen, desk, missed>>
    BY DEF Click, requestVars
  <1> QED BY <1>3, <1>5, <1>6, OthersKeepPlaces

LEMMA NextKeepsPlaces == TypeOK /\ PairsKnown /\ ChecksKnown /\ [Next]_vars => PairsKnown' /\ ChecksKnown'
  <1> SUFFICES ASSUME TypeOK, PairsKnown, ChecksKnown, [Next]_vars PROVE PairsKnown' /\ ChecksKnown'
    OBVIOUS
  <1>1. ASSUME NEW p \in Admins,
               \/ BeginCreate(p) \/ BeginUpdate(p) \/ CheckConflicts(p) \/ WriteAd(p)
               \/ BeginBanner(p) \/ ClearCache(p)
        PROVE  PairsKnown' /\ ChecksKnown'
    BY <1>1, DeskKeepsPlaces, CheckKeepsPlaces, WriteKeepsPlaces
  <1>2. CASE RemoveAd \/ Click
    BY <1>2, RemoveKeepsPlaces, ClickKeepsPlaces
  <1>3. CASE UNCHANGED <<ads, requestVars>>
    BY <1>3, OthersKeepPlaces DEF Present, requestVars
  <1>4. CASE CountDay \/ CacheExpires \/ NextDay \/ UNCHANGED vars
    BY <1>3, <1>4 DEF CountDay, CacheExpires, NextDay, vars, rankVars
  <1>5. ASSUME NEW r \in Readers, ReadRows(r) \/ ReadRotate(r) \/ StoreCache(r)
        PROVE  PairsKnown' /\ ChecksKnown'
    BY <1>3, <1>5 DEF ReadRows, ReadRotate, StoreCache, rankVars
  <1>6. ASSUME NEW c \in Checkers, BeginCheck(c) \/ AskBell(c) \/ InsertBell(c) \/ BellUnheard(c) \/ Tell(c)
        PROVE  PairsKnown' /\ ChecksKnown'
    BY <1>3, <1>6 DEF BeginCheck, AskBell, InsertBell, BellUnheard, Tell, rankVars
  <1>7. CASE Restart
    <2>1. UNCHANGED <<ads, unseen, missed>> /\ \A o \in Admins, q \in Writing : desk'[o] # q
      BY <1>7 DEF Restart, Writing, Idle
    <2> QED BY <2>1, OthersKeepPlaces DEF Present
  <1> QED BY <1>1, <1>2, <1>4, <1>5, <1>6, <1>7 DEF Next

LEMMA InitPlaces == Init => PairsKnown /\ ChecksKnown
  <1> SUFFICES ASSUME Init PROVE PairsKnown /\ ChecksKnown
    OBVIOUS
  <1>1. \A a, b \in Present : a # b => ~Clash(ads[a], ads[b])
    BY AdAssumption DEF Init, Present, Clash
  <1>2. \A p \in Admins, q \in Writing : desk[p] # q
    BY DEF Init, Idle, Writing
  <1> QED BY <1>1, <1>2 DEF PairsKnown, ChecksKnown

\* No two live ads of one list share a place or a channel on the same day, unless one of
\* them was written after a check that missed another writer: two admins at once are the
\* only way past the conflict check.
THEOREM PlacesStayApart == Spec => []PlacesApart
  <1>1. Init => TypeOK /\ PairsKnown /\ ChecksKnown
    BY InitShape, InitPlaces
  <1>2. TypeOK /\ PairsKnown /\ ChecksKnown /\ [Next]_vars => TypeOK' /\ PairsKnown' /\ ChecksKnown'
    BY NextShape, NextKeepsPlaces
  <1>3. TypeOK /\ PairsKnown => PlacesApart
    <2> SUFFICES ASSUME TypeOK, PairsKnown, NEW a \in Present, NEW b \in Present, NEW d \in Days,
                        a # b, Live(a, d), Live(b, d), SameList(ads[a], ads[b]),
                        ads[a].slot = ads[b].slot \/ ads[a].channel = ads[b].channel
                 PROVE  {a, b} \cap unseen # {}
      BY DEF PlacesApart
    <2>1. ads[a] \in Row /\ ads[b] \in Row /\ d \in Nat /\ LastDay \in Nat
      BY AdAssumption DEF Present, TypeOK, Days
    <2>2. RangesOverlap(ads[a], ads[b])
      <3>1. /\ ads[a].from \in Nat /\ ads[a].to \in Nat /\ ads[b].from \in Nat /\ ads[b].to \in Nat
        BY <2>1 DEF Row
      <3>2. ads[a].from <= d /\ d < ads[a].to /\ ads[b].from <= d /\ d < ads[b].to
        BY DEF Live
      <3> QED BY <2>1, <3>1, <3>2 DEF RangesOverlap
    <2>3. Clash(ads[a], ads[b])
      BY <2>2 DEF Live, Clash
    <2> QED BY <2>3 DEF PairsKnown
  <1> QED BY <1>1, <1>2, <1>3, PTL DEF Spec

-----------------------------------------------------------------------------
(* What the lists show *)

\* Any set of finite sets has a smallest one: induction over what a fold has dealt with.
LEMMA SmallestSubset ==
    ASSUME NEW S, IsFiniteSet(S), NEW F, F \subseteq SUBSET S, F # {}
    PROVE  \E T \in F : \A U \in F : U \subseteq T => U = T
  <1>1. FiniteSubsetsOf(S) = SUBSET S
    BY FS_FiniteSubsetsOfFinite, Zenon
  <1>2. IsWellFoundedOn(StrictSubsetOrdering(S), SUBSET S)
    BY <1>1, FS_StrictSubsetOrderingWellFounded, Zenon
  <1>3. PICK T \in F : \A U \in F : ~ (<<U, T>> \in StrictSubsetOrdering(S))
    BY <1>2, WFMin, Zenon
  <1>4. ASSUME NEW U \in F, U \subseteq T PROVE U = T
    BY <1>3, <1>4 DEF StrictSubsetOrdering
  <1> QED
    BY <1>3, <1>4

LEMMA SmallestNumber ==
    ASSUME NEW N \in SUBSET Nat, N # {}
    PROVE  \E n \in N : \A m \in N : n <= m
  <1>1. PICK n \in N : \A m \in N : ~ (<<m, n>> \in OpToRel(<, Nat))
    BY NatLessThanWellFounded, WFMin, Zenon
  <1>2. \A m \in N : ~ (m < n)
    BY <1>1 DEF OpToRel
  <1> QED
    BY <1>2

LEMMA AllNumbers ==
    ASSUME NEW N \in SUBSET Nat, 0 \in N, \A n \in N : n + 1 \in N
    PROVE  N = Nat
  <1> SUFFICES ASSUME Nat \ N # {} PROVE FALSE
    OBVIOUS
  <1>1. PICK n \in Nat \ N : \A m \in Nat \ N : n <= m
    BY SmallestNumber
  <1>2. n # 0 /\ n - 1 \in Nat /\ n - 1 \notin Nat \ N
    BY <1>1
  <1>3. (n - 1) + 1 \in N
    BY <1>2
  <1> QED
    BY <1>1, <1>3

LEMMA PlacesCounted == IsFiniteSet(Ads) /\ LastSlot \in Nat /\ Slots = 1..LastSlot /\ Slots \in SUBSET Nat
  BY AdAssumption DEF Slots

LEMMA LastOfSet ==
    ASSUME TypeOK, NEW set \in SUBSET Present, set # {}
    PROVE  LastBySlot(set) \in set
  <1> DEFINE N == {LastSlot - ads[a].slot : a \in set}
  <1>1. \A a \in set : ads[a] \in Row
    BY DEF Present, TypeOK
  <1>2. \A a \in set : ads[a].slot \in 1..LastSlot
    BY <1>1 DEF Row, Slots
  <1>3. N \in SUBSET Nat /\ N # {}
    BY <1>2, PlacesCounted
  <1>4. PICK n \in N : \A m \in N : n <= m
    BY <1>3, SmallestNumber
  <1>5. PICK a \in set : n = LastSlot - ads[a].slot
    BY <1>4
  <1>6. \A b \in set : ads[b].slot <= ads[a].slot
    <2> SUFFICES ASSUME NEW b \in set PROVE ads[b].slot <= ads[a].slot
      OBVIOUS
    <2>1. n <= LastSlot - ads[b].slot
      BY <1>4
    <2>2. ads[a].slot \in Nat /\ ads[b].slot \in Nat /\ LastSlot \in Nat
      BY <1>2, PlacesCounted
    <2> QED
      BY <1>5, <2>1, <2>2
  <1> QED
    BY <1>6 DEF LastBySlot

\* The function that the fold over a set takes its value from: what is placed once the
\* ads of each subset are.
IsPlacing(f, start, sets) ==
    f = [s \in sets |-> IF s = {} THEN start ELSE Place(LastBySlot(s), f[s \ {LastBySlot(s)}])]

LEMMA PlacingExists ==
    ASSUME TypeOK, NEW set \in SUBSET Present, NEW start
    PROVE  \E f : IsPlacing(f, start, SUBSET set)
  <1> DEFINE To(n) == {s \in SUBSET set : Cardinality(s) <= n}
             N == {n \in Nat : \E f : IsPlacing(f, start, To(n))}
  <1>1. IsFiniteSet(set) /\ \A s \in SUBSET set : IsFiniteSet(s) /\ Cardinality(s) \in Nat
    BY FS_Subset, FS_CardinalityType, AdAssumption DEF Present
  <1>2. 0 \in N
    <2>1. \A s \in To(0) : s = {}
      BY <1>1, FS_EmptySet
    <2>2. IsPlacing([s \in To(0) |-> start], start, To(0))
      BY <2>1 DEF IsPlacing
    <2> QED
      BY <2>2
  <1>3. ASSUME NEW n \in Nat, \E f : IsPlacing(f, start, To(n))
        PROVE  \E f : IsPlacing(f, start, To(n + 1))
    <2>1. PICK f : IsPlacing(f, start, To(n))
      BY <1>3
    <2> DEFINE value(h, s) == IF s = {} THEN start ELSE Place(LastBySlot(s), h[s \ {LastBySlot(s)}])
               g == [s \in To(n + 1) |-> value(f, s)]
    <2>2. \A s \in To(n) : s \in To(n + 1) /\ f[s] = value(f, s)
      <3>1. \A s \in To(n) : s \in To(n + 1)
        BY <1>1
      <3>2. \A s \in To(n) : f[s] = value(f, s)
        BY <2>1 DEF IsPlacing
      <3> QED
        BY <3>1, <3>2
    <2>3. \A s \in To(n) : g[s] = f[s]
      BY <2>2
    <2>4. ASSUME NEW s \in To(n + 1), s # {}
          PROVE  s \ {LastBySlot(s)} \in To(n)
      <3>1. LastBySlot(s) \in s
        BY <2>4, LastOfSet
      <3>2. Cardinality(s \ {LastBySlot(s)}) = Cardinality(s) - 1
        BY <1>1, <3>1, FS_RemoveElement
      <3> QED
        BY <1>1, <3>2
    <2>5. \A s \in To(n + 1) : value(f, s) = value(g, s)
      BY <2>3, <2>4
    <2>6. IsPlacing(g, start, To(n + 1))
      BY <2>5 DEF IsPlacing
    <2> QED
      BY <2>6, Zenon
  <1>4. N = Nat
    <2> HIDE DEF To
    <2>1. N \in SUBSET Nat /\ 0 \in N /\ \A n \in N : n + 1 \in N
      BY <1>2, <1>3
    <2> HIDE DEF N
    <2> QED
      BY <2>1, AllNumbers
  <1>5. To(Cardinality(set)) = SUBSET set
    BY <1>1, FS_Subset
  <1>6. Cardinality(set) \in N
    BY <1>1, <1>4
  <1>7. PICK f : IsPlacing(f, start, To(Cardinality(set)))
    BY <1>6
  <1> HIDE DEF To
  <1> QED
    BY <1>5, <1>7

\* What PlaceAll returns is what this function says of the whole set.
LEMMA PlaceAllPlaces ==
    ASSUME TypeOK, NEW set \in SUBSET Present, NEW start
    PROVE  \E f : IsPlacing(f, start, SUBSET set) /\ PlaceAll(start, set) = f[set]
  <1> DEFINE Def(g) == g = [s \in SUBSET set |-> IF s = {} THEN start
                                                 ELSE Place(Self(LastBySlot(s)), g[s \ {LastBySlot(s)}])]
             f == CHOOSE g : Def(g)
  <1>1. PlaceAll(start, set) = f[set]
    BY Zenon DEF PlaceAll, MapThenFoldSet
  <1>2. \A g : Def(g) <=> IsPlacing(g, start, SUBSET set)
    BY Zenon DEF IsPlacing, Self
  <1>3. \E g : Def(g)
    BY <1>2, PlacingExists
  <1> HIDE DEF Def
  <1>4. Def(f)
    BY <1>3
  <1> HIDE DEF f
  <1> QED
    BY <1>1, <1>2, <1>4

\* Places given to ads of a set, and no channel twice.
Placement(set) ==
    {p \in [Slots -> set \cup {NoAd}] :
        \A x, y \in Slots : x # y /\ p[x] # NoAd /\ p[y] # NoAd => ads[p[x]].channel # ads[p[y]].channel}

Later(a) == {x \in Slots : ads[a].slot <= x}

LEMMA AdShape ==
    ASSUME TypeOK, NEW a \in Present
    PROVE  /\ a \in Ads /\ a # NoAd /\ ads[a] \in Row
           /\ ads[a].slot \in Slots /\ ads[a].scope \in {"global", "category"}
  BY AdAssumption DEF Present, TypeOK, Row

\* One more ad in its place.
LEMMA OneMorePlaced ==
    ASSUME TypeOK, NEW set \in SUBSET Present, NEW a \in Present, NEW p \in Placement(set),
           ~ Used(p, ads[a].channel), NEW x \in Slots, p[x] = NoAd,
           NEW q, q = [p EXCEPT ![x] = a]
    PROVE  q \in Placement(set \cup {a})
  <1>1. p \in [Slots -> set \cup {NoAd}]
    BY DEF Placement
  <1>2. q \in [Slots -> (set \cup {a}) \cup {NoAd}]
    BY <1>1
  <1>3. \A y \in Slots : q[y] = IF y = x THEN a ELSE p[y]
    BY <1>1
  <1>4. \A y \in Slots : p[y] # NoAd => ads[p[y]].channel # ads[a].channel
    BY DEF Used
  <1>5. ASSUME NEW y \in Slots, NEW z \in Slots, y # z, q[y] # NoAd, q[z] # NoAd
        PROVE  ads[q[y]].channel # ads[q[z]].channel
    <2>1. CASE y # x /\ z # x
      BY <1>3, <1>5, <2>1 DEF Placement
    <2>2. CASE y = x /\ z # x
      BY <1>3, <1>4, <1>5, <2>2
    <2>3. CASE y # x /\ z = x
      BY <1>3, <1>4, <1>5, <2>3
    <2> QED
      BY <1>5, <2>1, <2>2, <2>3
  <1> QED
    BY <1>2, <1>5 DEF Placement

\* The places q are those of p, and one for the ad a if it may have one.
Adds(q, a, p, set) ==
    /\ q \in Placement(set \cup {a})
    /\ \A x \in Slots : p[x] # NoAd => q[x] = p[x]
    /\ \A x \in Slots : q[x] # p[x] => q[x] = a /\ x \in Later(a)
                                       /\ (ads[a].scope = "global" => ads[a].slot = x)
    /\ ads[a].scope = "global" /\ ~ Used(p, ads[a].channel) /\ p[ads[a].slot] = NoAd
         => q[ads[a].slot] = a
    /\ ads[a].scope = "category" => Used(q, ads[a].channel) \/ \A x \in Later(a) : q[x] # NoAd

LEMMA PlaceAdds ==
    ASSUME TypeOK, NEW set \in SUBSET Present, NEW a \in Present, NEW p \in Placement(set)
    PROVE  Adds(Place(a, p), a, p, set)
  <1> DEFINE q == Place(a, p)
  <1> DEFINE home == ads[a].slot
             free == {s \in Slots : s >= ads[a].slot /\ p[s] = NoAd}
  <1>1. a # NoAd /\ home \in Slots /\ ads[a].scope \in {"global", "category"}
    BY AdShape
  <1>2. p \in [Slots -> set \cup {NoAd}] /\ p \in Placement(set \cup {a})
    BY DEF Placement
  <1>3. Slots \in SUBSET Nat /\ home <= home
    BY <1>1, PlacesCounted
  <1>4. CASE Used(p, ads[a].channel)
    <2>1. q = p
      BY <1>4 DEF Place
    <2> QED
      BY <1>2, <1>4, <2>1 DEF Adds
  <1>5. CASE ~ Used(p, ads[a].channel) /\ ads[a].scope = "global"
    <2>1. CASE p[home] # NoAd
      <3>1. q = p
        BY <1>5, <2>1 DEF Place, PlaceGlobal
      <3> QED
        BY <1>2, <1>5, <2>1, <3>1 DEF Adds
    <2>2. CASE p[home] = NoAd
      <3>1. q = [p EXCEPT ![home] = a]
        BY <1>5, <2>2 DEF Place, PlaceGlobal
      <3>2. q \in Placement(set \cup {a})
        BY <1>1, <1>5, <2>2, <3>1, OneMorePlaced
      <3>3. \A x \in Slots : q[x] = IF x = home THEN a ELSE p[x]
        BY <1>2, <3>1
      <3>4. home \in Later(a)
        BY <1>1, <1>3, Zenon DEF Later
      <3> QED
        BY <1>1, <1>5, <2>2, <3>2, <3>3, <3>4 DEF Adds
    <2> QED
      BY <2>1, <2>2
  <1>6. CASE ~ Used(p, ads[a].channel) /\ ads[a].scope = "category"
    <2>1. CASE free = {}
      <3>1. q = p
        BY <1>6, <2>1 DEF Place, PlaceCategory
      <3>2. \A x \in Later(a) : p[x] # NoAd
        BY <1>1, <1>3, <2>1 DEF Later
      <3> QED
        BY <1>2, <1>6, <3>1, <3>2 DEF Adds
    <2>2. CASE free # {}
      <3>1. PICK x \in free : \A y \in free : x <= y
        BY <1>3, <2>2, SmallestNumber
      <3>2. Min(free) \in free
        BY <3>1 DEF Min
      <3> DEFINE m == Min(free)
      <3>3. q = [p EXCEPT ![m] = a]
        BY <1>6, <2>2 DEF Place, PlaceCategory
      <3> HIDE DEF m
      <3>4. m \in Slots /\ m \in Later(a) /\ p[m] = NoAd
        BY <1>1, <1>3, <3>2 DEF m, Later
      <3>5. q \in Placement(set \cup {a})
        BY <1>6, <3>3, <3>4, OneMorePlaced
      <3>6. \A y \in Slots : q[y] = IF y = m THEN a ELSE p[y]
        BY <1>2, <3>3
      <3>7. Used(q, ads[a].channel)
        BY <1>1, <3>4, <3>6 DEF Used
      <3> QED
        BY <1>1, <1>6, <3>4, <3>5, <3>6, <3>7 DEF Adds
    <2> QED
      BY <2>1, <2>2
  <1> QED
    BY <1>1, <1>4, <1>5, <1>6

\* What a set of ads adds to the places given before.
Fills(f, p, base, s) ==
    /\ f[s] \in Placement(base \cup s)
    /\ \A x \in Slots : p[x] # NoAd => f[s][x] = p[x]
    /\ \A x \in Slots : f[s][x] # p[x] => /\ f[s][x] \in s /\ x \in Later(f[s][x])
                                          /\ ads[f[s][x]].scope = "global" => ads[f[s][x]].slot = x
    /\ \A a \in s : ads[a].scope = "category" =>
                        Used(f[s], ads[a].channel) \/ \A x \in Later(a) : f[s][x] # NoAd

LEMMA PlacingFills ==
    ASSUME TypeOK, NEW base \in SUBSET Present, NEW p \in Placement(base),
           NEW set \in SUBSET Present, NEW f, IsPlacing(f, p, SUBSET set)
    PROVE  \A s \in SUBSET set : Fills(f, p, base, s)
  <1> DEFINE bad == {s \in SUBSET set : ~ Fills(f, p, base, s)}
  <1> SUFFICES ASSUME bad # {} PROVE FALSE
    OBVIOUS
  <1>1. IsFiniteSet(set)
    BY FS_Subset, AdAssumption DEF Present
  <1>2. PICK s \in bad : \A u \in bad : u \subseteq s => u = s
    <2> HIDE DEF bad
    <2>1. bad \subseteq SUBSET set
      BY DEF bad
    <2> QED
      BY <1>1, <2>1, SmallestSubset
  <1>3. f[s] = IF s = {} THEN p ELSE Place(LastBySlot(s), f[s \ {LastBySlot(s)}])
    BY DEF IsPlacing
  <1>4. s # {}
    <2> SUFFICES ASSUME s = {} PROVE FALSE
      OBVIOUS
    <2>1. f[s] = p
      BY <1>3
    <2>2. Fills(f, p, base, s)
      BY <2>1 DEF Fills
    <2> QED
      BY <2>2
  <1> DEFINE a == LastBySlot(s)
             r == s \ {a}
  <1>5. a \in s /\ a \in Present /\ s = r \cup {a}
    BY <1>4, LastOfSet
  <1>6. f[s] = Place(a, f[r])
    BY <1>3, <1>4
  <1> HIDE DEF a
  <1>7. r \in SUBSET set /\ r # s /\ r \subseteq s
    BY <1>5
  <1> HIDE DEF r
  <1>8. Fills(f, p, base, r)
    BY <1>2, <1>7
  <1>9. (base \cup r) \in SUBSET Present /\ (base \cup r) \cup {a} = base \cup s
    BY <1>5, <1>7
  <1> DEFINE q == f[s]
             o == f[r]
  <1>10. /\ o \in Placement(base \cup r)
         /\ \A x \in Slots : p[x] # NoAd => o[x] = p[x]
         /\ \A x \in Slots : o[x] # p[x] => /\ o[x] \in r /\ x \in Later(o[x])
                                            /\ ads[o[x]].scope = "global" => ads[o[x]].slot = x
         /\ \A b \in r : ads[b].scope = "category" =>
                             Used(o, ads[b].channel) \/ \A x \in Later(b) : o[x] # NoAd
    BY <1>8 DEF Fills
  <1> HIDE DEF q, o
  <1>11. /\ q \in Placement(base \cup s)
         /\ \A x \in Slots : o[x] # NoAd => q[x] = o[x]
         /\ \A x \in Slots : q[x] # o[x] => q[x] = a /\ x \in Later(a)
                                            /\ (ads[a].scope = "global" => ads[a].slot = x)
         /\ ads[a].scope = "category" => Used(q, ads[a].channel) \/ \A x \in Later(a) : q[x] # NoAd
    <2>1. q = Place(a, o)
      BY <1>6 DEF q, o
    <2> DEFINE known == base \cup r
    <2>2. known \in SUBSET Present /\ o \in Placement(known) /\ known \cup {a} = base \cup s
      BY <1>9, <1>10
    <2> HIDE DEF known
    <2>3. Adds(q, a, o, known)
      BY <1>5, <2>1, <2>2, PlaceAdds
    <2> QED
      BY <2>2, <2>3 DEF Adds
  <1>12. \A x \in Slots : p[x] # NoAd => q[x] = p[x]
    BY <1>10, <1>11
  <1>13. \A x \in Slots : q[x] # p[x] => /\ q[x] \in s /\ x \in Later(q[x])
                                         /\ ads[q[x]].scope = "global" => ads[q[x]].slot = x
    BY <1>5, <1>10, <1>11
  <1>14. \A b \in s : ads[b].scope = "category" =>
                          Used(q, ads[b].channel) \/ \A x \in Later(b) : q[x] # NoAd
    <2>1. \A channel : Used(o, channel) => Used(q, channel)
      BY <1>11 DEF Used
    <2>2. \A b : (\A x \in Later(b) : o[x] # NoAd) => \A x \in Later(b) : q[x] # NoAd
      BY <1>11 DEF Later
    <2> QED
      BY <1>5, <1>10, <1>11, <2>1, <2>2
  <1>15. Fills(f, p, base, s)
    BY <1>11, <1>12, <1>13, <1>14 DEF Fills, q
  <1> QED
    BY <1>15

\* Ads for all lists, each with a place and a channel of its own.
Spread(set) ==
    /\ \A a \in set : ads[a].scope = "global"
    /\ \A a, b \in set : a # b => ads[a].slot # ads[b].slot /\ ads[a].channel # ads[b].channel

\* They all stand on their places.
LEMMA GlobalsOnTheirPlaces ==
    ASSUME TypeOK, NEW set \in SUBSET Present, Spread(set), NEW f, IsPlacing(f, Nothing, SUBSET set)
    PROVE  \A s \in SUBSET set : \A a \in s : f[s][ads[a].slot] = a
  <1> DEFINE bad == {s \in SUBSET set : ~ \A a \in s : f[s][ads[a].slot] = a}
  <1> SUFFICES ASSUME bad # {} PROVE FALSE
    OBVIOUS
  <1>1. IsFiniteSet(set)
    BY FS_Subset, AdAssumption DEF Present
  <1>2. PICK s \in bad : \A u \in bad : u \subseteq s => u = s
    <2> HIDE DEF bad
    <2>1. bad \subseteq SUBSET set
      BY DEF bad
    <2> QED
      BY <1>1, <2>1, SmallestSubset
  <1>3. s # {}
    OBVIOUS
  <1>0. /\ \A a \in set : ads[a].scope = "global"
        /\ \A a, b \in set : a # b => ads[a].slot # ads[b].slot /\ ads[a].channel # ads[b].channel
    BY DEF Spread
  <1> DEFINE a == LastBySlot(s)
             r == s \ {a}
  <1>4. a \in s /\ a \in Present /\ r \in SUBSET set /\ r # s /\ r \subseteq s /\ s = r \cup {a}
    BY <1>3, LastOfSet
  <1>5. f[s] = Place(a, f[r])
    BY <1>3 DEF IsPlacing
  <1> HIDE DEF a
  <1>6. a \notin r
    OBVIOUS
  <1> HIDE DEF r
  <1>7. \A b \in r : f[r][ads[b].slot] = b
    BY <1>2, <1>4
  <1>8. Nothing \in Placement({})
    BY DEF Placement, Nothing
  <1>9. Fills(f, Nothing, {}, r)
    BY <1>4, <1>8, PlacingFills
  <1>10. \A x \in Slots : f[r][x] # NoAd => f[r][x] \in r /\ ads[f[r][x]].slot = x
    BY <1>0, <1>4, <1>9 DEF Fills, Nothing
  <1>11. ~ Used(f[r], ads[a].channel) /\ f[r][ads[a].slot] = NoAd
    BY <1>0, <1>4, <1>6, <1>10, AdShape DEF Used
  <1>12. /\ f[s][ads[a].slot] = a
         /\ \A x \in Slots : f[r][x] # NoAd => f[s][x] = f[r][x]
    <2>1. f[r] \in Placement(r)
      BY <1>9 DEF Fills
    <2>2. r \in SUBSET Present
      BY <1>4
    <2> DEFINE o == f[r]
               q == f[s]
    <2>3. q = Place(a, o) /\ o \in Placement(r) /\ ads[a].scope = "global"
          /\ ~ Used(o, ads[a].channel) /\ o[ads[a].slot] = NoAd
      BY <1>0, <1>4, <1>5, <1>11, <2>1
    <2> HIDE DEF o, q
    <2>4. Adds(q, a, o, r)
      BY <1>4, <2>2, <2>3, PlaceAdds
    <2>5. q[ads[a].slot] = a /\ \A x \in Slots : o[x] # NoAd => q[x] = o[x]
      BY <2>3, <2>4 DEF Adds
    <2> QED
      BY <2>5 DEF o, q
  <1>13. \A b \in r : f[s][ads[b].slot] = b
    <2> SUFFICES ASSUME NEW b \in r PROVE f[s][ads[b].slot] = b
      OBVIOUS
    <2>1. ads[b].slot \in Slots /\ b # NoAd
      BY <1>4, AdShape
    <2> QED
      BY <1>7, <1>12, <2>1
  <1> QED
    BY <1>4, <1>12, <1>13

\* Where the places are apart, every list shows what was booked.
LEMMA ShownWhenApart ==
    ASSUME TypeOK, PlacesApart
    PROVE  ShownAsBooked
  <1> SUFFICES ASSUME unseen = {}, NEW d \in Days, NEW c \in Categories, NEW usable \in SUBSET Channels
               PROVE  LET shown == ListRankAds(d, usable, c)
                          globals == Globals(d, usable)
                          own == OfCategory(d, usable, c)
                      IN  /\ \A a \in globals : shown[ads[a].slot] = a
                          /\ \A a \in own :
                               \/ \E s \in Slots : s >= ads[a].slot /\ shown[s] = a
                               \/ \E b \in globals : ads[b].channel = ads[a].channel
                               \/ \A s \in Slots : s >= ads[a].slot => shown[s] # NoAd
                          /\ \A s \in Slots : shown[s] \in globals \union own \union {NoAd}
                          /\ \A s, t \in Slots :
                               s # t /\ shown[s] # NoAd /\ shown[t] # NoAd
                                 => ads[shown[s]].channel # ads[shown[t]].channel
    BY DEF ShownAsBooked
  <1> DEFINE shown == ListRankAds(d, usable, c)
             globals == Globals(d, usable)
             own == OfCategory(d, usable, c)
             first == PlaceAll(Nothing, globals)
  <1>1. /\ globals \in SUBSET Present /\ own \in SUBSET Present
        /\ \A a \in globals : Live(a, d) /\ ads[a].scope = "global"
        /\ \A a \in own : Live(a, d) /\ ads[a].scope = "category" /\ ads[a].category = c
    BY DEF Globals, OfCategory
  <1>2. shown = PlaceAll(first, own)
    BY DEF ListRankAds, ComposeAdSlots
  <1>3. \A a, b \in globals : a # b => ads[a].slot # ads[b].slot /\ ads[a].channel # ads[b].channel
    BY <1>1 DEF PlacesApart, SameList
  <1>4. \A a, b \in own : a # b => ads[a].channel # ads[b].channel
    BY <1>1 DEF PlacesApart, SameList
  <1> HIDE DEF globals, own, shown
  <1>5. Nothing \in Placement({})
    BY DEF Placement, Nothing
  <1> HIDE DEF first
  <1>6. PICK f : IsPlacing(f, Nothing, SUBSET globals) /\ first = f[globals]
    BY <1>1, PlaceAllPlaces DEF first
  <1>7. \A a \in globals : first[ads[a].slot] = a
    <2>1. \A s \in SUBSET globals : \A a \in s : f[s][ads[a].slot] = a
      <3>1. Spread(globals)
        BY <1>1, <1>3 DEF Spread
      <3>2. globals \in SUBSET Present /\ IsPlacing(f, Nothing, SUBSET globals)
        BY <1>1, <1>6
      <3> QED
        BY <3>1, <3>2, GlobalsOnTheirPlaces
    <2> QED
      BY <1>6, <2>1
  <1>8. first \in Placement(globals)
    <2>1. Fills(f, Nothing, {}, globals)
      BY <1>1, <1>5, <1>6, PlacingFills
    <2> QED
      BY <1>6, <2>1 DEF Fills
  <1>9. PICK g : IsPlacing(g, first, SUBSET own) /\ shown = g[own]
    BY <1>1, <1>2, PlaceAllPlaces
  <1>10. Fills(g, first, globals, own)
    BY <1>1, <1>8, <1>9, PlacingFills
  <1>11. shown \in Placement(globals \cup own)
    BY <1>9, <1>10 DEF Fills
  <1>12. \A a \in globals : shown[ads[a].slot] = a
    BY <1>1, <1>7, <1>9, <1>10, AdShape DEF Fills
  <1>13. ASSUME NEW a \in own,
                ~ \E b \in globals : ads[b].channel = ads[a].channel,
                ~ \A s \in Slots : s >= ads[a].slot => shown[s] # NoAd
         PROVE  \E s \in Slots : s >= ads[a].slot /\ shown[s] = a
    <2>1. Slots \in SUBSET Nat /\ ads[a].slot \in Slots
      BY <1>1, AdShape, AdAssumption DEF Slots
    <2>2. ~ \A x \in Later(a) : shown[x] # NoAd
      BY <1>13, <2>1 DEF Later
    <2>3. Used(shown, ads[a].channel)
      BY <1>1, <1>9, <1>10, <2>2 DEF Fills
    <2>4. PICK s \in Slots : shown[s] # NoAd /\ ads[shown[s]].channel = ads[a].channel
      BY <2>3 DEF Used
    <2>5. shown[s] = a
      BY <1>4, <1>11, <1>13, <2>4 DEF Placement
    <2>6. first[s] # a
      BY <1>8, <1>13, <2>4, <2>5 DEF Placement
    <2>7. s \in Later(a)
      BY <1>9, <1>10, <2>5, <2>6 DEF Fills
    <2> QED
      BY <2>1, <2>5, <2>7 DEF Later
  <1>14. \A s \in Slots : shown[s] \in globals \union own \union {NoAd}
    BY <1>11 DEF Placement
  <1>15. \A s, t \in Slots :
             s # t /\ shown[s] # NoAd /\ shown[t] # NoAd => ads[shown[s]].channel # ads[shown[t]].channel
    BY <1>11 DEF Placement
  <1> QED
    BY <1>12, <1>13, <1>14, <1>15 DEF globals, own, shown

\* Every list of every day shows the live ads as they were booked, with any number of
\* places, ads, lists and requests, as long as no conflict check missed another writer.
THEOREM ListsShowBookings == Spec => []ShownAsBooked
  <1>1. TypeOK /\ PlacesApart => ShownAsBooked
    BY ShownWhenApart
  <1> QED
    BY <1>1, DeskTypeCorrect, PlacesStayApart, PTL
===============================================================================
