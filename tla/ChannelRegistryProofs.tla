------------------------- MODULE ChannelRegistryProofs -------------------------
(***************************************************************************)
(* What holds of the table of channels for any number of links, members,   *)
(* clients, rows, requests and restarts.                                   *)
(***************************************************************************)
EXTENDS ChannelRegistry, Integers, FiniteSetTheorems, TLAPS

-----------------------------------------------------------------------------
(* Shape *)

\* A request that has not loaded its row yet.
LoadRow ==
    [pc : {"load"}, op : {"approve", "reject", "touch", "pay", "import"}, id : Ids]
    \cup [pc : {"load"}, op : {"recommend"}, id : Ids, user : Users]
    \cup [pc : {"load"}, op : {"promote"}, id : Ids, until : Nat]
    \cup [pc : {"load"}, op : {"relink"}, id : Ids, link : Links]
    \cup [pc : {"load"}, op : {"restatus"}, id : Ids, status : Statuses]

\* A request with its copy of the row.
CopyRow ==
    [pc : {"save"}, op : {"reactivate", "reject", "touch", "import"}, id : Ids, copy : Row]
    \cup [pc : {"check", "save"}, op : {"activate"}, id : Ids, copy : Row]
    \cup [pc : {"check", "save", "reload", "resave"}, op : {"approve"}, id : Ids, copy : Row]
    \cup [pc : {"collect"}, op : {"touch"}, id : Ids, copy : Row]
    \cup [pc : {"ask", "record", "save"}, op : {"recommend"}, id : Ids, user : Users, copy : Row]
    \cup [pc : {"save"}, op : {"pay", "promote"}, id : Ids, until : Nat, copy : Row]
    \cup [pc : {"check", "save"}, op : {"relink"}, id : Ids, link : Links, copy : Row]
    \cup [pc : {"check", "save"}, op : {"restatus"}, id : Ids, status : Statuses, copy : Row]

InsertShape == [pc : {"insert"}, op : {"submit", "admin"}, link : Links]

TaskRow == [pc : {"idle"}] \cup InsertShape \cup LoadRow \cup CopyRow

\* Every variable keeps its shape: what each request has in memory at each of its steps.
TypeOK ==
    /\ rows \in [Ids -> Row \cup {NoRow}]
    /\ used \in 0..MaxRows
    /\ recommended \in [Ids -> SUBSET Users]
    /\ task \in [Tasks -> TaskRow]
    /\ today \in Nat
    /\ missed \subseteq Tasks /\ stale \subseteq Tasks
    /\ unseen \subseteq Ids /\ overwritten \subseteq Ids
    /\ cut \in [Ids -> Nat] /\ paid \in [Ids -> Nat]

LEMMA IdsAreNumbers == MaxRows \in Nat /\ Ids \subseteq Nat /\ 0 \notin Ids
  BY RegistryAssumption DEF Ids

LEMMA TasksAreFinite == IsFiniteSet(Tasks)
  <1>1. IsFiniteSet(Clients) /\ IsFiniteSet({"main", "preview"})
    <2>1. {"main", "preview"} = {"main"} \cup {"preview"}
      OBVIOUS
    <2>2. IsFiniteSet({"main"} \cup {"preview"})
      BY FS_Singleton, FS_AddElement
    <2> QED BY <2>1, <2>2, RegistryAssumption
  <1> QED BY <1>1, FS_Product DEF Tasks

\* Which shape a request has where it is.
LEMMA Loading ==
    ASSUME NEW q \in TaskRow, q.pc = "load"
    PROVE  q \in LoadRow /\ q.id \in Ids
  BY DEF TaskRow, InsertShape, LoadRow, CopyRow

LEMMA Inserting ==
    ASSUME NEW q \in TaskRow, q.pc = "insert"
    PROVE  q \in InsertShape /\ q.link \in Links
  BY DEF TaskRow, InsertShape, LoadRow, CopyRow

LEMMA Holding ==
    ASSUME NEW q \in TaskRow, q.pc \in {"save", "check", "reload", "resave", "collect", "ask", "record"}
    PROVE  /\ q \in CopyRow /\ q.id \in Ids /\ q.copy \in Row
           /\ "copy" \in DOMAIN q
  BY DEF TaskRow, InsertShape, LoadRow, CopyRow

\* Loading the row gives a copy.
LEMMA LoadedShape ==
    ASSUME NEW q \in LoadRow, q.op # "pay", NEW row \in Row
    PROVE  [f \in DOMAIN q \union {"copy"} |->
               IF f = "copy" THEN row ELSE IF f = "pc" THEN AfterLoad(q, row) ELSE q[f]] \in CopyRow
  <1> DEFINE r == [f \in DOMAIN q \union {"copy"} |->
               IF f = "copy" THEN row ELSE IF f = "pc" THEN AfterLoad(q, row) ELSE q[f]]
  <1>1. CASE q \in [pc : {"load"}, op : {"approve", "reject", "touch", "pay", "import"}, id : Ids]
    <2>1. DOMAIN q = {"pc", "op", "id"}
      BY <1>1
    <2>2. r = [pc |-> AfterLoad(q, row), op |-> q.op, id |-> q.id, copy |-> row]
      BY <2>1
    <2>3. AfterLoad(q, row) = IF q.op = "approve" THEN "check" ELSE "save"
      BY <1>1 DEF AfterLoad
    <2> HIDE DEF r
    <2> QED BY <1>1, <2>2, <2>3 DEF CopyRow, r
  <1>2. CASE q \in [pc : {"load"}, op : {"recommend"}, id : Ids, user : Users]
    <2>1. DOMAIN q = {"pc", "op", "id", "user"}
      BY <1>2
    <2>2. r = [pc |-> AfterLoad(q, row), op |-> q.op, id |-> q.id, user |-> q.user, copy |-> row]
      BY <2>1
    <2>3. AfterLoad(q, row) = "ask"
      BY <1>2 DEF AfterLoad
    <2> QED BY <1>2, <2>2, <2>3 DEF CopyRow
  <1>3. CASE q \in [pc : {"load"}, op : {"promote"}, id : Ids, until : Nat]
    <2>1. DOMAIN q = {"pc", "op", "id", "until"}
      BY <1>3
    <2>2. r = [pc |-> AfterLoad(q, row), op |-> q.op, id |-> q.id, until |-> q.until, copy |-> row]
      BY <2>1
    <2>3. AfterLoad(q, row) = "save"
      BY <1>3 DEF AfterLoad
    <2> QED BY <1>3, <2>2, <2>3 DEF CopyRow
  <1>4. CASE q \in [pc : {"load"}, op : {"relink"}, id : Ids, link : Links]
    <2>1. DOMAIN q = {"pc", "op", "id", "link"}
      BY <1>4
    <2>2. r = [pc |-> AfterLoad(q, row), op |-> q.op, id |-> q.id, link |-> q.link, copy |-> row]
      BY <2>1
    <2>3. AfterLoad(q, row) = "check"
      BY <1>4 DEF AfterLoad
    <2> QED BY <1>4, <2>2, <2>3 DEF CopyRow
  <1>5. CASE q \in [pc : {"load"}, op : {"restatus"}, id : Ids, status : Statuses]
    <2>1. DOMAIN q = {"pc", "op", "id", "status"}
      BY <1>5
    <2>2. r = [pc |-> AfterLoad(q, row), op |-> q.op, id |-> q.id, status |-> q.status, copy |-> row]
      BY <2>1
    <2>3. AfterLoad(q, row) \in {"check", "save"}
      BY <1>5 DEF AfterLoad
    <2> QED BY <1>5, <2>2, <2>3 DEF CopyRow
  <1> QED BY <1>1, <1>2, <1>3, <1>4, <1>5 DEF LoadRow

LEMMA SavedShape ==
    ASSUME NEW q \in TaskRow, q.pc = "save"
    PROVE  Saved(q) \in Row
  <1>1. q \in CopyRow /\ q.copy \in Row
    BY Holding
  <1>2. \A s \in Statuses : [q.copy EXCEPT !.status = s] \in Row
    BY <1>1 DEF Row
  <1>3. \A l \in Links : [q.copy EXCEPT !.link = l] \in Row
    BY <1>1 DEF Row
  <1>4. [q.copy EXCEPT !.recs = q.copy.recs + 1] \in Row
    BY <1>1 DEF Row
  <1>5. \A n \in Nat : [q.copy EXCEPT !.until = n] \in Row
    BY <1>1 DEF Row
  <1>6. CASE q.op \in {"approve", "activate", "reactivate", "reject"}
    BY <1>2, <1>6 DEF Saved, Statuses
  <1>7. CASE q.op = "relink"
    <2>1. q.link \in Links
      BY <1>1, <1>7 DEF CopyRow
    <2> QED BY <1>3, <1>7, <2>1 DEF Saved
  <1>8. CASE q.op = "restatus"
    <2>1. q.status \in Statuses
      BY <1>1, <1>8 DEF CopyRow
    <2> QED BY <1>2, <1>8, <2>1 DEF Saved
  <1>9. CASE q.op = "recommend"
    BY <1>4, <1>9 DEF Saved
  <1>10. CASE q.op \in {"pay", "promote"}
    <2>1. q.until \in Nat
      BY <1>1, <1>10 DEF CopyRow
    <2> QED BY <1>5, <1>10, <2>1 DEF Saved, End
  <1>11. CASE q.op \in {"touch", "import"}
    BY <1>1, <1>11 DEF Saved
  <1>12. q.op \in {"approve", "activate", "reactivate", "reject", "relink", "restatus", "recommend",
                   "pay", "promote", "touch", "import"}
    BY <1>1 DEF CopyRow
  <1> QED BY <1>6, <1>7, <1>8, <1>9, <1>10, <1>11, <1>12

\* A save changes one row, and the histories within their bounds.
LEMMA WritesShape ==
    ASSUME TypeOK, NEW t \in Tasks, NEW i \in Ids, NEW row \in Row, Writes(t, i, row)
    PROVE  /\ rows' \in [Ids -> Row \cup {NoRow}] /\ rows'[i] = row
           /\ \A j \in Ids : j # i => rows'[j] = rows[j]
           /\ missed' \subseteq Tasks /\ stale' \subseteq Tasks
           /\ unseen' \subseteq Ids /\ overwritten' \subseteq Ids
  BY DEF TypeOK, Writes

LEMMA StartShape ==
    ASSUME TypeOK, NEW c \in Clients, NEW r \in TaskRow, Start(c, r)
    PROVE  TypeOK'
  <1>1. <<c, "main">> \in Tasks
    BY DEF Tasks
  <1>2. task' \in [Tasks -> TaskRow]
    BY <1>1 DEF TypeOK, Start
  <1> QED BY <1>2 DEF TypeOK, Start, tableVars

\* The oldest row of the best kind: Min of sets of ids and of kinds.
LEMMA MinIsLeast ==
    ASSUME NEW S \in SUBSET Nat, S # {}
    PROVE  Min(S) \in S /\ \A x \in S : Min(S) <= x
  <1> DEFINE below == {1..x : x \in S}
  <1>1. below \subseteq FiniteSubsetsOf(Nat) /\ below # {}
    <2>1. ASSUME NEW x \in S PROVE 1..x \in FiniteSubsetsOf(Nat)
      <3>1. x \in Int /\ 1 \in Int /\ 1..x \subseteq Nat
        OBVIOUS
      <3>2. IsFiniteSet(1..x)
        BY <3>1, FS_Interval
      <3> QED BY <3>1, <3>2 DEF FiniteSubsetsOf
    <2> QED BY <2>1
  <1>2. IsWellFoundedOn(StrictSubsetOrdering(Nat), FiniteSubsetsOf(Nat))
    BY FS_StrictSubsetOrderingWellFounded
  <1>3. \E low \in below : \A b \in below : <<b, low>> \notin StrictSubsetOrdering(Nat)
    BY <1>1, <1>2, WFMin
  <1>4. PICK x \in S : \A y \in S : <<1..y, 1..x>> \notin StrictSubsetOrdering(Nat)
    BY <1>3
  <1>5. \A y \in S : x <= y
    <2> SUFFICES ASSUME NEW y \in S, y < x PROVE FALSE
      OBVIOUS
    <2>1. 1..y \subseteq 1..x /\ 1..y # 1..x /\ 1..x \subseteq Nat /\ 1..y \subseteq Nat
      OBVIOUS
    <2>2. <<1..y, 1..x>> \in StrictSubsetOrdering(Nat)
      BY <2>1 DEF StrictSubsetOrdering
    <2> QED BY <1>4, <2>2
  <1> QED BY <1>5 DEF Min

Of(link, except, status) == {i \in Present \ {except} : rows[i].link = link /\ rows[i].status = status}

\* pickDuplicate finds a row of the link if there is one, and an active one first.
LEMMA MatchFinds ==
    ASSUME TypeOK, NEW link \in Links, NEW e \in Nat
    PROVE  /\ Match(link, e) = 0 => \A i \in Present \ {e} : rows[i].link # link
           /\ Match(link, e) # 0 =>
                /\ Match(link, e) \in Present \ {e}
                /\ rows[Match(link, e)].link = link
                /\ Of(link, e, "active") # {} => rows[Match(link, e)].status = "active"
  <1> DEFINE of(k) == {i \in Present \ {e} : rows[i].link = link /\ rows[i].status = KindOrder[k]}
             kinds == {k \in 1..3 : of(k) # {}}
  <1>1. Match(link, e) = IF kinds = {} THEN 0 ELSE Min(of(Min(kinds)))
    BY DEF Match
  <1>2. Present \subseteq Ids /\ \A i \in Present : rows[i] \in Row
    BY DEF Present, TypeOK
  <1>3. KindOrder[1] = "active" /\ KindOrder[2] = "pending" /\ KindOrder[3] = "rejected"
    BY DEF KindOrder
  <1>4. CASE kinds = {}
    <2>1. of(1) = {} /\ of(2) = {} /\ of(3) = {}
      BY <1>4
    <2>2. ASSUME NEW i \in Present \ {e}, rows[i].link = link PROVE FALSE
      <3>1. rows[i].status \in {"active", "pending", "rejected"}
        BY <1>2, <2>2 DEF Row, Statuses
      <3>2. i \in of(1) \/ i \in of(2) \/ i \in of(3)
        BY <1>3, <2>2, <3>1
      <3> QED BY <2>1, <3>2
    <2> QED BY <1>1, <1>4, <2>2
  <1>5. CASE kinds # {}
    <2> DEFINE k == Min(kinds)
               i == Min(of(k))
    <2>1. k \in kinds /\ \A n \in kinds : k <= n
      <3>1. kinds \in SUBSET Nat
        OBVIOUS
      <3> HIDE DEF kinds
      <3> QED BY <1>5, <3>1, MinIsLeast
    <2>2. k \in 1..3 /\ of(k) # {}
      BY <2>1
    <2>3. of(k) \in SUBSET Nat
      BY <1>2, IdsAreNumbers
    <2>4. i \in of(k)
      BY <2>2, <2>3, MinIsLeast
    <2>5. Match(link, e) = i
      BY <1>1, <1>5
    <2>6. i # 0
      BY <1>2, <2>4, IdsAreNumbers
    <2>7. Of(link, e, "active") # {} => k = 1
      <3>1. Of(link, e, "active") = of(1)
        BY <1>3 DEF Of
      <3>2. of(1) # {} => 1 \in kinds
        OBVIOUS
      <3> QED BY <2>1, <2>2, <3>1, <3>2
    <2>8. i \in Present \ {e} /\ rows[i].link = link /\ rows[i].status = KindOrder[k]
      BY <2>4
    <2> HIDE DEF i, k
    <2> QED BY <1>3, <2>5, <2>6, <2>7, <2>8
  <1> QED BY <1>4, <1>5

\* What a request may begin with: a link without a row, a row to load, or the row that
\* the search has found.
Opening(r) ==
    \/ r \in InsertShape /\ Match(r.link, 0) = 0
    \/ r \in LoadRow /\ r.id \in Present
    \/ /\ r \in CopyRow /\ r.id \in Present /\ r.copy = rows[r.id]
       /\ \/ r.pc = "check" /\ r.op = "activate"
          \/ r.pc = "save" /\ r.op = "reactivate" /\ Of(r.copy.link, 0, "active") = {}

LEMMA BeginShape ==
    ASSUME TypeOK, NEW c \in Clients,
           \/ Submit(c) \/ CreateByAdmin(c) \/ RegisterCandidate(c)
           \/ BeginApprove(c) \/ BeginReject(c) \/ BeginTouch(c) \/ BeginEdit(c)
           \/ BeginRecommend(c) \/ BeginPayment(c) \/ BeginPromote(c)
    PROVE  \E r \in TaskRow : Start(c, r) /\ Opening(r)
  <1>0. CopyRow \subseteq TaskRow /\ LoadRow \subseteq TaskRow /\ InsertShape \subseteq TaskRow
    BY DEF TaskRow
  <1>1. Present \subseteq Ids /\ \A i \in Present : rows[i] \in Row
    BY DEF Present, TypeOK
  <1>2. ASSUME NEW link \in Links, Match(link, 0) = 0, NEW op \in {"submit", "admin"}
        PROVE  Opening([pc |-> "insert", op |-> op, link |-> link])
    BY <1>2 DEF Opening, InsertShape
  <1>3. ASSUME NEW i \in Present
        PROVE  /\ Opening([pc |-> "check", op |-> "activate", id |-> i, copy |-> rows[i]])
               /\ Of(rows[i].link, 0, "active") = {} =>
                    Opening([pc |-> "save", op |-> "reactivate", id |-> i, copy |-> rows[i]])
    <2> DEFINE r1 == [pc |-> "check", op |-> "activate", id |-> i, copy |-> rows[i]]
               r2 == [pc |-> "save", op |-> "reactivate", id |-> i, copy |-> rows[i]]
    <2>1. r1 \in CopyRow /\ r1.id = i /\ r1.copy = rows[i] /\ r1.pc = "check" /\ r1.op = "activate"
      BY <1>1 DEF CopyRow
    <2>2. r2 \in CopyRow /\ r2.id = i /\ r2.copy = rows[i] /\ r2.pc = "save" /\ r2.op = "reactivate"
      BY <1>1 DEF CopyRow
    <2> HIDE DEF r1, r2
    <2>3. Opening(r1) /\ (Of(rows[i].link, 0, "active") = {} => Opening(r2))
      BY <2>1, <2>2 DEF Opening
    <2> QED BY <2>3 DEF r1, r2
  <1>4. ASSUME NEW i \in Present
        PROVE  /\ \A op \in {"approve", "reject", "touch", "pay"} : Opening([pc |-> "load", op |-> op, id |-> i])
               /\ \A u \in Users : Opening([pc |-> "load", op |-> "recommend", id |-> i, user |-> u])
               /\ \A d \in AdminDays : Opening([pc |-> "load", op |-> "promote", id |-> i, until |-> d])
               /\ \A l \in Links : Opening([pc |-> "load", op |-> "relink", id |-> i, link |-> l])
               /\ \A s \in Statuses : Opening([pc |-> "load", op |-> "restatus", id |-> i, status |-> s])
    <2>1. /\ \A op \in {"approve", "reject", "touch", "pay"} : [pc |-> "load", op |-> op, id |-> i] \in LoadRow
          /\ \A u \in Users : [pc |-> "load", op |-> "recommend", id |-> i, user |-> u] \in LoadRow
          /\ \A d \in AdminDays : [pc |-> "load", op |-> "promote", id |-> i, until |-> d] \in LoadRow
          /\ \A l \in Links : [pc |-> "load", op |-> "relink", id |-> i, link |-> l] \in LoadRow
          /\ \A s \in Statuses : [pc |-> "load", op |-> "restatus", id |-> i, status |-> s] \in LoadRow
      BY <1>1, RegistryAssumption DEF LoadRow
    <2>2. \A r \in LoadRow : r.id = i => Opening(r)
      BY DEF Opening
    <2> QED BY <2>1, <2>2
  <1>5. ASSUME NEW r, Opening(r) PROVE r \in TaskRow
    BY <1>0, <1>5 DEF Opening
  <1> HIDE DEF Opening
  <1>6. CASE Submit(c)
    BY <1>2, <1>5, <1>6 DEF Submit
  <1>7. CASE CreateByAdmin(c)
    <2>1. PICK link \in Links :
            \/ /\ Match(link, 0) = 0
               /\ Start(c, [pc |-> "insert", op |-> "admin", link |-> link])
            \/ /\ Match(link, 0) # 0 /\ rows[Match(link, 0)].status = "rejected"
               /\ Start(c, [pc |-> "save", op |-> "reactivate", id |-> Match(link, 0), copy |-> rows[Match(link, 0)]])
      BY <1>7 DEF CreateByAdmin
    <2>2. ASSUME Match(link, 0) # 0, rows[Match(link, 0)].status = "rejected"
          PROVE  Match(link, 0) \in Present /\ Of(rows[Match(link, 0)].link, 0, "active") = {}
      BY <2>2, MatchFinds
    <2> QED BY <1>2, <1>3, <1>5, <2>1, <2>2
  <1>8. CASE RegisterCandidate(c)
    <2>1. PICK link \in Links :
            /\ Match(link, 0) # 0
            /\ Start(c, [pc |-> "check", op |-> "activate", id |-> Match(link, 0), copy |-> rows[Match(link, 0)]])
      BY <1>8 DEF RegisterCandidate
    <2>2. Match(link, 0) \in Present
      BY <2>1, MatchFinds
    <2> QED BY <1>3, <1>5, <2>1, <2>2
  <1>9. CASE BeginApprove(c) \/ BeginReject(c) \/ BeginTouch(c) \/ BeginPayment(c)
    BY <1>4, <1>5, <1>9 DEF BeginApprove, BeginReject, BeginTouch, BeginPayment
  <1>10. CASE BeginEdit(c)
    BY <1>4, <1>5, <1>10 DEF BeginEdit
  <1>11. CASE BeginRecommend(c) \/ BeginPromote(c)
    BY <1>4, <1>5, <1>11 DEF BeginRecommend, BeginPromote
  <1> QED BY <1>6, <1>7, <1>8, <1>9, <1>10, <1>11

LEMMA Going ==
    ASSUME TypeOK, NEW t \in Tasks, NEW r \in TaskRow, Goes(t, r)
    PROVE  /\ task' \in [Tasks -> TaskRow] /\ task'[t] = r
           /\ \A s \in Tasks : s # t => task'[s] = task[s]
           /\ UNCHANGED <<today, events, cut>>
  BY DEF Goes, TypeOK

LEMMA IdleShape == Idle \in TaskRow
  BY DEF Idle, TaskRow

\* What a request may become without a save.
LEMMA LoadGoes ==
    ASSUME TypeOK, NEW t \in Tasks, Load(t)
    PROVE  \E r \in TaskRow :
             /\ Goes(t, r)
             /\ \/ r = Idle
                \/ /\ r \in CopyRow /\ rows[task[t].id] # NoRow
                   /\ r.id = task[t].id /\ r.op = task[t].op /\ r.copy = rows[task[t].id]
                   /\ r.pc = AfterLoad(task[t], rows[task[t].id])
                   /\ r.op = "restatus" => r.status = task[t].status
  <1> DEFINE q == task[t]
             row == rows[q.id]
             loaded == [f \in DOMAIN q \union {"copy"} |->
                        IF f = "copy" THEN row ELSE IF f = "pc" THEN AfterLoad(q, row) ELSE q[f]]
             due == [pc |-> "save", op |-> "pay", id |-> q.id, copy |-> row, until |-> today + PaidDays]
  <1>1. q \in TaskRow /\ q.pc = "load"
    BY DEF Load, TypeOK
  <1>2. q \in LoadRow /\ q.id \in Ids
    BY <1>1, Loading
  <1>3. Goes(t, IF row = NoRow THEN Idle ELSE IF q.op = "pay" THEN due ELSE loaded)
    BY DEF Load
  <1>4. CASE row = NoRow
    BY <1>3, <1>4, IdleShape
  <1>5. CASE row # NoRow /\ q.op = "pay"
    <2>1. row \in Row
      BY <1>2, <1>5 DEF TypeOK
    <2>2. today + PaidDays \in Nat
      BY RegistryAssumption DEF TypeOK
    <2>3. due \in CopyRow
      BY <1>2, <2>1, <2>2 DEF CopyRow
    <2>4. AfterLoad(q, row) = "save"
      BY <1>5 DEF AfterLoad
    <2> QED BY <1>3, <1>5, <2>3, <2>4 DEF TaskRow
  <1>6. CASE row # NoRow /\ q.op # "pay"
    <2>1. row \in Row
      BY <1>2, <1>6 DEF TypeOK
    <2>2. loaded \in CopyRow
      BY <1>2, <1>6, <2>1, LoadedShape
    <2>3. {"pc", "op", "id"} \subseteq DOMAIN q /\ (q.op = "restatus" => "status" \in DOMAIN q)
      BY <1>2 DEF LoadRow
    <2>4. /\ loaded.id = q.id /\ loaded.op = q.op /\ loaded.copy = row /\ loaded.pc = AfterLoad(q, row)
          /\ q.op = "restatus" => loaded.status = q.status
      BY <2>3
    <2> HIDE DEF loaded
    <2> QED BY <1>3, <1>6, <2>2, <2>4 DEF TaskRow
  <1> QED BY <1>4, <1>5, <1>6

LEMMA CheckGoes ==
    ASSUME TypeOK, NEW t \in Tasks, Check(t)
    PROVE  \/ Goes(t, Idle)
           \/ /\ ~Refused(task[t]) /\ task[t].op \in {"activate", "approve", "relink", "restatus"}
              /\ \E pc \in {"save", "reload"} :
                   /\ Goes(t, [task[t] EXCEPT !.pc = pc])
                   /\ [task[t] EXCEPT !.pc = pc] \in CopyRow
  <1>1. task[t] \in CopyRow /\ task[t].pc = "check"
    BY Holding DEF Check, TypeOK
  <1>2. task[t].op \in {"activate", "approve", "relink", "restatus"}
    BY <1>1 DEF CopyRow
  <1>3. [task[t] EXCEPT !.pc = "save"] \in CopyRow
    BY <1>1 DEF CopyRow
  <1>4. task[t].op = "approve" => [task[t] EXCEPT !.pc = "reload"] \in CopyRow
    BY <1>1 DEF CopyRow
  <1>5. \/ Goes(t, Idle)
        \/ ~Refused(task[t]) /\ Goes(t, [task[t] EXCEPT !.pc = "save"])
        \/ ~Refused(task[t]) /\ task[t].op = "approve" /\ Goes(t, [task[t] EXCEPT !.pc = "reload"])
    BY DEF Check
  <1> QED BY <1>2, <1>3, <1>4, <1>5

LEMMA ReloadGoes ==
    ASSUME TypeOK, NEW t \in Tasks, Reload(t)
    PROVE  /\ task[t] \in CopyRow /\ task[t].op = "approve" /\ task[t].pc = "reload"
           /\ \/ Goes(t, Idle)
              \/ /\ rows[task[t].id] \in Row /\ rows[task[t].id] # NoRow
                 /\ Goes(t, [task[t] EXCEPT !.pc = "resave", !.copy = rows[task[t].id]])
                 /\ [task[t] EXCEPT !.pc = "resave", !.copy = rows[task[t].id]] \in CopyRow
  <1>1. task[t] \in CopyRow /\ task[t].id \in Ids /\ task[t].pc = "reload"
    BY Holding DEF Reload, TypeOK
  <1>2. task[t] \in [pc : {"check", "save", "reload", "resave"}, op : {"approve"}, id : Ids, copy : Row]
    BY <1>1 DEF CopyRow
  <1>3. ASSUME rows[task[t].id] # NoRow
        PROVE  /\ rows[task[t].id] \in Row
               /\ [task[t] EXCEPT !.pc = "resave", !.copy = rows[task[t].id]] \in CopyRow
    <2>1. rows[task[t].id] \in Row
      BY <1>1, <1>3 DEF TypeOK
    <2>2. [task[t] EXCEPT !.pc = "resave", !.copy = rows[task[t].id]]
             \in [pc : {"check", "save", "reload", "resave"}, op : {"approve"}, id : Ids, copy : Row]
      BY <1>2, <2>1
    <2> QED BY <2>1, <2>2 DEF CopyRow
  <1>4. Goes(t, IF rows[task[t].id] = NoRow THEN Idle
                ELSE [task[t] EXCEPT !.pc = "resave", !.copy = rows[task[t].id]])
    BY DEF Reload
  <1> QED BY <1>1, <1>2, <1>3, <1>4

LEMMA RecommendGoes ==
    ASSUME TypeOK, NEW t \in Tasks, AskRecommended(t) \/ RecordRecommendation(t)
    PROVE  /\ task[t] \in CopyRow /\ task[t].op = "recommend" /\ task[t].user \in Users
           /\ task[t].pc \in {"ask", "record"} /\ task[t].id \in Ids
           /\ \A pc \in {"record", "save"} : [task[t] EXCEPT !.pc = pc] \in CopyRow
           /\ \/ Goes(t, Idle)
              \/ \E pc \in {"record", "save"} : Goes(t, [task[t] EXCEPT !.pc = pc])
  <1>1. task[t] \in CopyRow /\ task[t].pc \in {"ask", "record"} /\ task[t].id \in Ids
    BY Holding DEF AskRecommended, RecordRecommendation, TypeOK
  <1>2. task[t] \in [pc : {"ask", "record", "save"}, op : {"recommend"}, id : Ids, user : Users, copy : Row]
    BY <1>1 DEF CopyRow
  <1>3. \A pc \in {"record", "save"} : [task[t] EXCEPT !.pc = pc] \in CopyRow
    BY <1>2 DEF CopyRow
  <1>4. \/ Goes(t, Idle)
        \/ Goes(t, [task[t] EXCEPT !.pc = "record"])
        \/ Goes(t, [task[t] EXCEPT !.pc = "save"])
    BY DEF AskRecommended, RecordRecommendation
  <1> QED BY <1>1, <1>2, <1>3, <1>4

LEMMA InsertGoes ==
    ASSUME TypeOK, NEW t \in Tasks, InsertRow(t)
    PROVE  LET q == task[t]
               row == NewRow(q.link, IF q.op = "submit" THEN "pending" ELSE "active")
           IN  /\ q \in InsertShape /\ row \in Row /\ used + 1 \in Ids /\ used' = used + 1
               /\ Writes(t, used + 1, row)
               /\ <<t[1], "preview">> \in Tasks
               /\ task' \in [Tasks -> TaskRow]
               /\ \A s \in Tasks : s # t /\ s # <<t[1], "preview">> => task'[s] = task[s]
               /\ \A s \in Tasks : task'[s] # task[s] =>
                    \/ task'[s] \in LoadRow /\ task'[s].id = used + 1
                    \/ /\ s = t /\ task'[s].id = used + 1 /\ task'[s].copy = row
                       /\ task'[s] \in CopyRow /\ task'[s].pc = "check" /\ task'[s].op = "activate"
  <1> DEFINE q == task[t]
             row == NewRow(q.link, IF q.op = "submit" THEN "pending" ELSE "active")
             load(op) == [pc |-> "load", op |-> op, id |-> used + 1]
             new == [pc |-> "check", op |-> "activate", id |-> used + 1, copy |-> row]
             p == <<t[1], "preview">>
  <1>1. q \in InsertShape /\ q.link \in Links
    BY Inserting DEF InsertRow, TypeOK
  <1>2. used + 1 \in Ids /\ used' = used + 1 /\ Writes(t, used + 1, row)
    BY IdsAreNumbers DEF InsertRow, TypeOK, Ids
  <1>3. row \in Row
    BY <1>1 DEF NewRow, Row, Statuses
  <1>4. p \in Tasks
    BY DEF Tasks
  <1>5. load("touch") \in LoadRow /\ load("import") \in LoadRow /\ new \in CopyRow
    BY <1>2, <1>3 DEF LoadRow, CopyRow
  <1>6. \/ task' = [task EXCEPT ![t] = new, ![p] = load("touch")]
        \/ task' = [task EXCEPT ![t] = load("import")]
    BY DEF InsertRow
  <1>7. /\ load("touch").id = used + 1 /\ load("import").id = used + 1
        /\ new.id = used + 1 /\ new.copy = row /\ new.pc = "check" /\ new.op = "activate"
    OBVIOUS
  <1> HIDE DEF load, new, p, row
  <1>8. /\ task' \in [Tasks -> TaskRow]
        /\ \A s \in Tasks : s # t /\ s # p => task'[s] = task[s]
        /\ \A s \in Tasks : task'[s] # task[s] =>
             \/ task'[s] \in {load("touch"), load("import")}
             \/ s = t /\ task'[s] = new
    BY <1>4, <1>5, <1>6 DEF TypeOK, TaskRow
  <1>9. \A s \in Tasks : task'[s] # task[s] =>
             \/ task'[s] \in LoadRow /\ task'[s].id = used + 1
             \/ /\ s = t /\ task'[s].id = used + 1 /\ task'[s].copy = row
                /\ task'[s] \in CopyRow /\ task'[s].pc = "check" /\ task'[s].op = "activate"
    BY <1>5, <1>7, <1>8
  <1> QED BY <1>1, <1>2, <1>3, <1>4, <1>8, <1>9 DEF row, p

LEMMA SaveGoes ==
    ASSUME TypeOK, NEW t \in Tasks, Save(t)
    PROVE  LET q == task[t]
           IN  /\ q \in CopyRow /\ q.pc = "save" /\ q.id \in Ids /\ q.copy \in Row /\ Saved(q) \in Row
               /\ Writes(t, q.id, Saved(q))
               /\ UNCHANGED <<used, recommended>>
               /\ paid' = IF q.op \in {"pay", "promote"}
                          THEN [paid EXCEPT ![q.id] = IF q.op = "pay" THEN q.until ELSE 0] ELSE paid
               /\ q.op \in {"pay", "promote"} => q.until \in Nat
               /\ \E r \in TaskRow :
                    /\ Goes(t, r)
                    /\ \/ r = Idle
                       \/ r \in LoadRow /\ r.id = q.id
                       \/ r \in CopyRow /\ r.id = q.id /\ r.copy = Saved(q) /\ r.pc = "collect" /\ r.op = "touch"
  <1> DEFINE q == task[t]
             again == [pc |-> "load", op |-> "import", id |-> q.id]
             next == [pc |-> "collect", op |-> "touch", id |-> q.id, copy |-> Saved(q)]
  <1>1. q.pc = "save" /\ q \in TaskRow
    BY DEF Save, TypeOK
  <1>2. q \in CopyRow /\ q.id \in Ids /\ q.copy \in Row /\ Saved(q) \in Row
    BY <1>1, Holding, SavedShape
  <1>3. q.op \in {"pay", "promote"} => q.until \in Nat
    BY <1>2 DEF CopyRow
  <1>4. again \in LoadRow /\ again.id = q.id
    BY <1>2 DEF LoadRow
  <1>5. next \in CopyRow /\ next.id = q.id /\ next.copy = Saved(q) /\ next.pc = "collect" /\ next.op = "touch"
    BY <1>2 DEF CopyRow
  <1>6. Goes(t, again) \/ Goes(t, next) \/ Goes(t, Idle)
    BY DEF Save
  <1>7. again \in TaskRow /\ next \in TaskRow
    BY <1>4, <1>5 DEF TaskRow
  <1>8. /\ Writes(t, q.id, Saved(q))
        /\ UNCHANGED <<used, recommended>>
        /\ paid' = IF q.op \in {"pay", "promote"}
                   THEN [paid EXCEPT ![q.id] = IF q.op = "pay" THEN q.until ELSE 0] ELSE paid
    BY DEF Save
  <1> HIDE DEF again, next, q
  <1>9. \E r \in TaskRow :
           /\ Goes(t, r)
           /\ \/ r = Idle
              \/ r \in LoadRow /\ r.id = q.id
              \/ r \in CopyRow /\ r.id = q.id /\ r.copy = Saved(q) /\ r.pc = "collect" /\ r.op = "touch"
    BY <1>4, <1>5, <1>6, <1>7, IdleShape
  <1> QED BY <1>1, <1>2, <1>3, <1>8, <1>9 DEF q

LEMMA SaveAgainGoes ==
    ASSUME TypeOK, NEW t \in Tasks, SaveAgain(t)
    PROVE  LET q == task[t]
           IN  /\ q \in CopyRow /\ q.pc \in {"resave", "collect"} /\ q.id \in Ids /\ q.copy \in Row
               /\ Writes(t, q.id, q.copy)
               /\ UNCHANGED <<used, recommended, paid>>
               /\ \/ Goes(t, Idle)
                  \/ /\ q.op = "approve" /\ q.pc = "resave"
                     /\ Goes(t, [q EXCEPT !.pc = "save"]) /\ [q EXCEPT !.pc = "save"] \in CopyRow
  <1> DEFINE q == task[t]
  <1>1. q \in CopyRow /\ q.pc \in {"resave", "collect"} /\ q.id \in Ids /\ q.copy \in Row
    BY Holding DEF SaveAgain, TypeOK
  <1>2. q.pc = "resave" => q.op = "approve" /\ [q EXCEPT !.pc = "save"] \in CopyRow
    BY <1>1 DEF CopyRow
  <1>3. /\ Writes(t, q.id, q.copy)
        /\ UNCHANGED <<used, recommended, paid>>
        /\ Goes(t, IF q.pc = "resave" THEN [q EXCEPT !.pc = "save"] ELSE Idle)
    BY DEF SaveAgain
  <1> QED BY <1>1, <1>2, <1>3

LEMMA TaskShape ==
    ASSUME TypeOK, NEW t \in Tasks,
           \/ Load(t) \/ Check(t) \/ Reload(t) \/ AskRecommended(t) \/ RecordRecommendation(t)
           \/ InsertRow(t) \/ Save(t) \/ SaveAgain(t)
    PROVE  TypeOK'
  <1>0. CopyRow \subseteq TaskRow /\ Idle \in TaskRow
    BY IdleShape DEF TaskRow
  <1>1. ASSUME NEW r \in TaskRow, Goes(t, r) PROVE task' \in [Tasks -> TaskRow] /\ UNCHANGED <<today, cut>>
    BY <1>1, Going
  <1>2. CASE Load(t)
    <2>1. task' \in [Tasks -> TaskRow] /\ UNCHANGED <<today, cut>>
      BY <1>1, <1>2, LoadGoes
    <2> QED BY <1>2, <2>1 DEF Load, TypeOK, tableVars
  <1>3. CASE Check(t)
    <2>1. task' \in [Tasks -> TaskRow] /\ UNCHANGED <<today, cut>>
      BY <1>0, <1>1, <1>3, CheckGoes
    <2> QED BY <1>3, <2>1 DEF Check, TypeOK, tableVars
  <1>4. CASE Reload(t)
    <2>1. task' \in [Tasks -> TaskRow] /\ UNCHANGED <<today, cut>>
      BY <1>0, <1>1, <1>4, ReloadGoes
    <2> QED BY <1>4, <2>1 DEF Reload, TypeOK, tableVars
  <1>5. CASE AskRecommended(t) \/ RecordRecommendation(t)
    <2>1. task' \in [Tasks -> TaskRow] /\ UNCHANGED <<today, cut>>
      BY <1>0, <1>1, <1>5, RecommendGoes
    <2>2. recommended' \in [Ids -> SUBSET Users]
      BY <1>5, RecommendGoes DEF AskRecommended, RecordRecommendation, TypeOK, tableVars
    <2> QED BY <1>5, <2>1, <2>2 DEF AskRecommended, RecordRecommendation, TypeOK, tableVars
  <1>6. CASE InsertRow(t)
    <2> DEFINE row == NewRow(task[t].link, IF task[t].op = "submit" THEN "pending" ELSE "active")
    <2>1. /\ row \in Row /\ used + 1 \in Ids /\ used' = used + 1 /\ Writes(t, used + 1, row)
          /\ task' \in [Tasks -> TaskRow]
      BY <1>6, InsertGoes
    <2> HIDE DEF row
    <2>2. used' \in 0..MaxRows
      BY <2>1, IdsAreNumbers DEF Ids
    <2> QED BY <1>6, <2>1, <2>2, WritesShape DEF InsertRow, TypeOK
  <1>7. CASE Save(t)
    <2> DEFINE q == task[t]
    <2>1. /\ q.id \in Ids /\ Saved(q) \in Row /\ Writes(t, q.id, Saved(q)) /\ UNCHANGED <<used, recommended>>
          /\ paid' = IF q.op \in {"pay", "promote"}
                     THEN [paid EXCEPT ![q.id] = IF q.op = "pay" THEN q.until ELSE 0] ELSE paid
          /\ q.op \in {"pay", "promote"} => q.until \in Nat
          /\ \E r \in TaskRow : Goes(t, r)
      BY <1>7, SaveGoes
    <2> HIDE DEF q
    <2>2. task' \in [Tasks -> TaskRow] /\ UNCHANGED <<today, cut>>
      BY <1>1, <2>1
    <2>3. paid' \in [Ids -> Nat]
      BY <2>1 DEF TypeOK
    <2>4. /\ rows' \in [Ids -> Row \cup {NoRow}] /\ missed' \subseteq Tasks /\ stale' \subseteq Tasks
          /\ unseen' \subseteq Ids /\ overwritten' \subseteq Ids
      BY <2>1, WritesShape
    <2> QED BY <2>1, <2>2, <2>3, <2>4 DEF TypeOK
  <1>8. CASE SaveAgain(t)
    <2>1. task' \in [Tasks -> TaskRow] /\ UNCHANGED <<today, cut>>
      BY <1>0, <1>1, <1>8, SaveAgainGoes
    <2> DEFINE q == task[t]
    <2>2. q.id \in Ids /\ q.copy \in Row /\ Writes(t, q.id, q.copy) /\ UNCHANGED <<used, recommended, paid>>
      BY <1>8, SaveAgainGoes
    <2> HIDE DEF q
    <2> QED BY <2>1, <2>2, WritesShape DEF TypeOK
  <1> QED BY <1>2, <1>3, <1>4, <1>5, <1>6, <1>7, <1>8

LEMMA CountingIsFinite ==
    ASSUME NEW i \in Ids
    PROVE  IsFiniteSet(Counting(i)) /\ Cardinality(Counting(i)) \in Nat
  <1>1. Counting(i) \subseteq Tasks
    BY DEF Counting
  <1>2. IsFiniteSet(Counting(i))
    BY <1>1, TasksAreFinite, FS_Subset
  <1> QED BY <1>2, FS_CardinalityType

LEMMA NextShape == TypeOK /\ [Next]_vars => TypeOK'
  <1> SUFFICES ASSUME TypeOK, [Next]_vars PROVE TypeOK'
    OBVIOUS
  <1>1. ASSUME NEW c \in Clients,
               \/ Submit(c) \/ CreateByAdmin(c) \/ RegisterCandidate(c)
               \/ BeginApprove(c) \/ BeginReject(c) \/ BeginTouch(c) \/ BeginEdit(c)
               \/ BeginRecommend(c) \/ BeginPayment(c) \/ BeginPromote(c)
        PROVE  TypeOK'
    BY <1>1, BeginShape, StartShape
  <1>2. CASE RemoveRow
    <2>1. rows' \in [Ids -> Row \cup {NoRow}] /\ stale' \subseteq Tasks
      BY <1>2 DEF RemoveRow, TypeOK
    <2> QED BY <1>2, <2>1 DEF RemoveRow, TypeOK
  <1>3. CASE NextDay
    BY <1>3 DEF NextDay, TypeOK, tableVars, historyVars
  <1>4. CASE Restart
    <2>1. cut' \in [Ids -> Nat]
      <3>1. \A i \in Ids : cut[i] + Cardinality(Counting(i)) \in Nat
        BY CountingIsFinite DEF TypeOK
      <3> QED BY <1>4, <3>1 DEF Restart
    <2>2. task' \in [Tasks -> TaskRow]
      BY <1>4, IdleShape DEF Restart
    <2> QED BY <1>4, <2>1, <2>2 DEF Restart, TypeOK, tableVars
  <1>5. CASE UNCHANGED vars
    BY <1>5 DEF vars, tableVars, historyVars, TypeOK
  <1> QED BY <1>1, <1>2, <1>3, <1>4, <1>5, TaskShape DEF Next

LEMMA InitShape == Init => TypeOK
  <1> SUFFICES ASSUME Init PROVE TypeOK
    OBVIOUS
  <1>1. PICK first \in FirstRows :
          /\ rows = [i \in Ids |-> IF i \in DOMAIN first THEN first[i] ELSE NoRow]
          /\ used = Cardinality(DOMAIN first)
    BY DEF Init
  <1>2. PICK n \in 0..MaxRows : first \in [1..n -> Row]
    BY RegistryAssumption
  <1>3. rows \in [Ids -> Row \cup {NoRow}]
    BY <1>1, <1>2
  <1>4. used \in 0..MaxRows
    <2>1. Cardinality(1..n) = n
      BY <1>2, FS_Interval
    <2> QED BY <1>1, <1>2, <2>1
  <1> QED BY <1>3, <1>4, IdleShape DEF Init, TypeOK

\* The tables and the requests under way keep their shape, in whatever order requests
\* come, load, search, save, and are cut off.
THEOREM RegistryTypeCorrect == Spec => []TypeOK
  BY InitShape, NextShape, PTL DEF Spec

-----------------------------------------------------------------------------
(* Copies and rows *)

HasCopy(t) == "copy" \in DOMAIN task[t]

LEMMA WhoHasCopies ==
    ASSUME NEW q \in TaskRow
    PROVE  /\ "copy" \in DOMAIN q <=> q \in CopyRow
           /\ "id" \in DOMAIN q <=> q \in LoadRow \cup CopyRow
           /\ q \in CopyRow => q.id \in Ids /\ q.copy \in Row
           /\ q \in LoadRow => q.id \in Ids /\ q \notin CopyRow
           /\ Idle \notin LoadRow \cup CopyRow
  BY DEF TaskRow, InsertShape, LoadRow, CopyRow, Idle

\* A step between two awaits that saves nothing: the request ends or goes on with a
\* copy, which is the row's as it is or the one it had.
LEMMA QuietMoves ==
    ASSUME TypeOK, NEW t \in Tasks,
           Load(t) \/ Check(t) \/ Reload(t) \/ AskRecommended(t) \/ RecordRecommendation(t)
    PROVE  /\ UNCHANGED <<rows, used, unseen, overwritten, cut, paid, today>>
           /\ stale' \subseteq stale /\ stale \ {t} \subseteq stale'
           /\ \A s \in Tasks : s # t => task'[s] = task[s]
           /\ \/ task'[t] = Idle
              \/ /\ task'[t] \in CopyRow /\ task[t] \in LoadRow \cup CopyRow
                 /\ task'[t].id = task[t].id /\ task'[t].op = task[t].op
                 /\ \/ rows[task[t].id] = task'[t].copy
                    \/ task[t] \in CopyRow /\ task'[t].copy = task[t].copy /\ stale' = stale
  <1>0. CopyRow \subseteq TaskRow /\ Idle \in TaskRow
    BY IdleShape DEF TaskRow
  <1>1. /\ UNCHANGED <<rows, used, unseen, overwritten, paid>>
        /\ stale' \subseteq stale /\ stale \ {t} \subseteq stale'
    BY DEF Load, Check, Reload, AskRecommended, RecordRecommendation, tableVars
  <1>2. CASE Load(t)
    <2>1. task[t] \in LoadRow
      BY <1>2, Loading DEF Load, TypeOK
    <2>2. PICK r \in TaskRow :
             /\ Goes(t, r)
             /\ \/ r = Idle
                \/ r \in CopyRow /\ r.id = task[t].id /\ r.op = task[t].op /\ r.copy = rows[task[t].id]
      BY <1>2, LoadGoes
    <2> QED BY <1>1, <2>1, <2>2, Going
  <1>3. CASE Reload(t)
    <2>1. task[t] \in CopyRow
      BY <1>3, ReloadGoes
    <2> DEFINE next == [task[t] EXCEPT !.pc = "resave", !.copy = rows[task[t].id]]
    <2>2. Goes(t, Idle) \/ (Goes(t, next) /\ next \in CopyRow)
      BY <1>3, ReloadGoes
    <2>3. next.id = task[t].id /\ next.op = task[t].op /\ next.copy = rows[task[t].id]
      BY <2>1 DEF CopyRow
    <2> HIDE DEF next
    <2> QED BY <1>0, <1>1, <2>1, <2>2, <2>3, Going
  <1>4. CASE Check(t) \/ AskRecommended(t) \/ RecordRecommendation(t)
    <2>1. stale' = stale
      BY <1>4 DEF Check, AskRecommended, RecordRecommendation
    <2>2. task[t] \in CopyRow
      BY <1>4, Holding DEF Check, AskRecommended, RecordRecommendation, TypeOK
    <2>3. Goes(t, Idle) \/ \E pc \in {"save", "reload", "record"} :
            Goes(t, [task[t] EXCEPT !.pc = pc]) /\ [task[t] EXCEPT !.pc = pc] \in CopyRow
      BY <1>4, CheckGoes, RecommendGoes
    <2>4. CASE Goes(t, Idle)
      BY <1>0, <1>1, <2>4, Going
    <2>5. ASSUME NEW pc \in {"save", "reload", "record"}, Goes(t, [task[t] EXCEPT !.pc = pc]),
                 [task[t] EXCEPT !.pc = pc] \in CopyRow
          PROVE  /\ \A s \in Tasks : s # t => task'[s] = task[s]
                 /\ task'[t] \in CopyRow
                 /\ task'[t].id = task[t].id /\ task'[t].op = task[t].op /\ task'[t].copy = task[t].copy
                 /\ UNCHANGED <<today, cut>>
      <3> DEFINE next == [task[t] EXCEPT !.pc = pc]
      <3>1. next.id = task[t].id /\ next.op = task[t].op /\ next.copy = task[t].copy
        BY <2>2 DEF CopyRow
      <3>2. next \in CopyRow /\ Goes(t, next)
        BY <2>5
      <3> HIDE DEF next
      <3> QED BY <1>0, <3>1, <3>2, Going
    <2> QED BY <1>1, <2>1, <2>2, <2>3, <2>4, <2>5
  <1> QED BY <1>2, <1>3, <1>4

\* The request that created a row goes on with another step.
LEMMA InsertMoves ==
    ASSUME TypeOK, NEW t \in Tasks, InsertRow(t)
    PROVE  task'[t] # task[t]
  <1> DEFINE row == NewRow(task[t].link, IF task[t].op = "submit" THEN "pending" ELSE "active")
             p == <<t[1], "preview">>
  <1>1. /\ task[t].op = "submit" =>
             task' = [task EXCEPT ![t] = [pc |-> "check", op |-> "activate", id |-> used + 1, copy |-> row],
                                  ![p] = [pc |-> "load", op |-> "touch", id |-> used + 1]]
        /\ task[t].op # "submit" => task' = [task EXCEPT ![t] = [pc |-> "load", op |-> "import", id |-> used + 1]]
        /\ task[t].pc = "insert"
    BY DEF InsertRow
  <1>2. p \in Tasks
    BY DEF Tasks
  <1> HIDE DEF row, p
  <1>3. task'[t].pc \in {"check", "load"}
    BY <1>1, <1>2 DEF TypeOK
  <1> QED BY <1>1, <1>3

\* A step that saves: one row, a new one or the request's.
LEMMA WriteMoves ==
    ASSUME TypeOK, NEW t \in Tasks, InsertRow(t) \/ Save(t) \/ SaveAgain(t)
    PROVE  \E i \in Ids, row \in Row :
             /\ Writes(t, i, row)
             /\ \/ task[t] \in InsertShape /\ i = used + 1 /\ used' = used + 1
                \/ task[t] \in CopyRow /\ i = task[t].id /\ used' = used
             /\ UNCHANGED <<recommended, cut, today>>
             /\ \A s \in Tasks : s # t => task'[s] = task[s] \/ (task'[s] \in LoadRow /\ task'[s].id = i)
             /\ \/ task'[t] = Idle
                \/ task'[t] \in LoadRow /\ task'[t].id = i
                \/ task'[t] \in CopyRow /\ task'[t].id = i /\ task'[t].copy = row
  <1>0. CopyRow \subseteq TaskRow /\ Idle \in TaskRow
    BY IdleShape DEF TaskRow
  <1>1. CASE InsertRow(t)
    <2> DEFINE row == NewRow(task[t].link, IF task[t].op = "submit" THEN "pending" ELSE "active")
    <2>1. /\ task[t] \in InsertShape /\ row \in Row /\ used + 1 \in Ids /\ used' = used + 1
          /\ Writes(t, used + 1, row)
          /\ \A s \in Tasks : task'[s] # task[s] =>
                    \/ task'[s] \in LoadRow /\ task'[s].id = used + 1
                    \/ /\ s = t /\ task'[s].id = used + 1 /\ task'[s].copy = row
                       /\ task'[s] \in CopyRow
      BY <1>1, InsertGoes
    <2>2. task'[t] # task[t]
      BY <1>1, InsertMoves
    <2> HIDE DEF row
    <2>3. UNCHANGED <<recommended, cut, today>>
      BY <1>1 DEF InsertRow
    <2> QED BY <2>1, <2>2, <2>3
  <1>2. CASE Save(t)
    <2> DEFINE q == task[t]
    <2>1. /\ q \in CopyRow /\ q.id \in Ids /\ Saved(q) \in Row /\ Writes(t, q.id, Saved(q))
          /\ UNCHANGED <<used, recommended>>
          /\ \E r \in TaskRow :
                    /\ Goes(t, r)
                    /\ \/ r = Idle
                       \/ r \in LoadRow /\ r.id = q.id
                       \/ r \in CopyRow /\ r.id = q.id /\ r.copy = Saved(q)
      BY <1>2, SaveGoes
    <2> HIDE DEF q
    <2> QED BY <2>1, Going DEF q
  <1>3. CASE SaveAgain(t)
    <2> DEFINE q == task[t]
               next == [q EXCEPT !.pc = "save"]
    <2>1. /\ q \in CopyRow /\ q.id \in Ids /\ q.copy \in Row /\ Writes(t, q.id, q.copy)
          /\ UNCHANGED <<used, recommended, paid>>
          /\ Goes(t, Idle) \/ (Goes(t, next) /\ next \in CopyRow)
      BY <1>3, SaveAgainGoes
    <2>2. next.id = q.id /\ next.copy = q.copy
      BY <2>1 DEF CopyRow
    <2> HIDE DEF next
    <2> QED BY <1>0, <2>1, <2>2, Going
  <1> QED BY <1>1, <1>2, <1>3

\* Nothing is known of an id not yet given.
Untouched ==
    /\ \A i \in Ids : i > used => rows[i] = NoRow /\ recommended[i] = {} /\ cut[i] = 0 /\ paid[i] = 0
    /\ \A t \in Tasks : task[t] \in LoadRow \cup CopyRow => task[t].id <= used

\* A copy is the row as it is, unless the row was saved or removed since.
CopiesFresh == \A t \in Tasks \ stale : task[t] \in CopyRow => rows[task[t].id] = task[t].copy

CopiesKnown == TypeOK /\ Untouched /\ CopiesFresh

LEMMA StartKeepsCopies ==
    ASSUME CopiesKnown, NEW c \in Clients, NEW r \in TaskRow, Start(c, r), Opening(r)
    PROVE  CopiesKnown'
  <1>1. TypeOK'
    BY StartShape DEF CopiesKnown
  <1>2. /\ UNCHANGED <<rows, used, recommended, cut, paid>>
        /\ \A s \in Tasks : s # <<c, "main">> => task'[s] = task[s]
        /\ task'[<<c, "main">>] = r /\ <<c, "main">> \in Tasks
        /\ stale' = stale \ {<<c, "main">>}
    BY DEF Start, tableVars, CopiesKnown, TypeOK, Tasks
  <1>3. Untouched'
    <2>1. r \in LoadRow \cup CopyRow => r.id \in Ids /\ rows[r.id] # NoRow
      <3>1. r \in InsertShape => r \notin LoadRow \cup CopyRow
        BY DEF InsertShape, LoadRow, CopyRow
      <3> QED BY <3>1 DEF Opening, Present
    <2>2. r \in LoadRow \cup CopyRow => r.id <= used
      <3>1. used \in Nat /\ Ids \subseteq Nat
        BY IdsAreNumbers DEF CopiesKnown, TypeOK
      <3>2. \A i \in Ids : rows[i] # NoRow => ~(i > used)
        BY DEF CopiesKnown, Untouched
      <3>3. \A i \in Ids : ~(i > used) => i <= used
        BY <3>1
      <3> QED BY <2>1, <3>2, <3>3
    <2> QED BY <1>2, <2>2 DEF CopiesKnown, Untouched
  <1>4. CopiesFresh'
    <2>1. r \in CopyRow => rows[r.id] = r.copy
      BY DEF Opening, InsertShape, LoadRow, CopyRow
    <2> QED BY <1>2, <2>1 DEF CopiesKnown, CopiesFresh
  <1> QED BY <1>1, <1>3, <1>4 DEF CopiesKnown

LEMMA QuietKeepsCopies ==
    ASSUME CopiesKnown, NEW t \in Tasks,
           Load(t) \/ Check(t) \/ Reload(t) \/ AskRecommended(t) \/ RecordRecommendation(t)
    PROVE  CopiesKnown'
  <1>1. TypeOK'
    BY TaskShape DEF CopiesKnown
  <1>2. /\ UNCHANGED <<rows, used, cut, paid>>
        /\ stale' \subseteq stale /\ stale \ {t} \subseteq stale'
        /\ \A s \in Tasks : s # t => task'[s] = task[s]
        /\ \/ task'[t] = Idle
           \/ /\ task'[t] \in CopyRow /\ task[t] \in LoadRow \cup CopyRow
              /\ task'[t].id = task[t].id
              /\ \/ rows[task[t].id] = task'[t].copy
                 \/ task[t] \in CopyRow /\ task'[t].copy = task[t].copy /\ stale' = stale
    BY QuietMoves DEF CopiesKnown
  <1>3. Idle \notin LoadRow \cup CopyRow
    BY WhoHasCopies, IdleShape
  <1>4. \A i \in Ids : i > used => recommended'[i] = {}
    <2>1. ASSUME RecordRecommendation(t) PROVE \A i \in Ids : i > used => recommended'[i] = {}
      <3>1. task[t] \in CopyRow /\ task[t].id \in Ids
        BY <2>1, RecommendGoes DEF CopiesKnown
      <3>2. task[t].id <= used
        BY <3>1 DEF CopiesKnown, Untouched
      <3>3. \A i \in Ids : i # task[t].id => recommended'[i] = recommended[i]
        BY <2>1 DEF RecordRecommendation, CopiesKnown, TypeOK
      <3> QED BY <3>1, <3>2, <3>3, IdsAreNumbers DEF CopiesKnown, Untouched, TypeOK
    <2>2. ASSUME ~RecordRecommendation(t) PROVE UNCHANGED recommended
      BY <2>2 DEF Load, Check, Reload, AskRecommended, tableVars
    <2> QED BY <2>1, <2>2 DEF CopiesKnown, Untouched
  <1>5. Untouched'
    BY <1>2, <1>3, <1>4 DEF CopiesKnown, Untouched
  <1>6. CopiesFresh'
    BY <1>2, <1>3 DEF CopiesKnown, CopiesFresh
  <1> QED BY <1>1, <1>5, <1>6 DEF CopiesKnown

LEMMA WriteKeepsCopies ==
    ASSUME CopiesKnown, NEW t \in Tasks, InsertRow(t) \/ Save(t) \/ SaveAgain(t)
    PROVE  CopiesKnown'
  <1>1. TypeOK'
    BY TaskShape DEF CopiesKnown
  <1>2. PICK i \in Ids, row \in Row :
             /\ Writes(t, i, row)
             /\ \/ task[t] \in InsertShape /\ i = used + 1 /\ used' = used + 1
                \/ task[t] \in CopyRow /\ i = task[t].id /\ used' = used
             /\ UNCHANGED <<recommended, cut, today>>
             /\ \A s \in Tasks : s # t => task'[s] = task[s] \/ (task'[s] \in LoadRow /\ task'[s].id = i)
             /\ \/ task'[t] = Idle
                \/ task'[t] \in LoadRow /\ task'[t].id = i
                \/ task'[t] \in CopyRow /\ task'[t].id = i /\ task'[t].copy = row
    BY WriteMoves DEF CopiesKnown
  <1>3. Idle \notin LoadRow \cup CopyRow /\ \A q \in LoadRow : q \notin CopyRow
    BY WhoHasCopies, IdleShape DEF TaskRow
  <1>4. used \in Nat /\ used' \in Nat /\ Ids \subseteq Nat
    BY <1>1, IdsAreNumbers DEF CopiesKnown, TypeOK
  <1>5. i <= used' /\ used <= used'
    BY <1>2, <1>4 DEF CopiesKnown, Untouched
  <1>6. /\ rows'[i] = row /\ \A j \in Ids : j # i => rows'[j] = rows[j]
        /\ stale' = stale \union {s \in Tasks \ {t} : "copy" \in DOMAIN task[s] /\ task[s].id = i}
    BY <1>2, WritesShape DEF CopiesKnown, Writes
  <1>7. Untouched'
    <2>1. \A j \in Ids : j > used' => paid'[j] = paid[j]
      <3>1. CASE Save(t)
        <4>1. paid' = IF task[t].op \in {"pay", "promote"}
                      THEN [paid EXCEPT ![task[t].id] = IF task[t].op = "pay" THEN task[t].until ELSE 0] ELSE paid
          BY <3>1, SaveGoes DEF CopiesKnown
        <4>2. task[t] \in CopyRow /\ task[t].id <= used /\ task[t].id \in Ids
          BY <3>1, SaveGoes DEF CopiesKnown, Untouched
        <4> QED BY <1>4, <1>5, <4>1, <4>2 DEF CopiesKnown, TypeOK
      <3>2. CASE InsertRow(t) \/ SaveAgain(t)
        BY <3>2 DEF InsertRow, SaveAgain
      <3> QED BY <3>1, <3>2
    <2>2. \A j \in Ids : j > used' => j > used /\ j # i
      BY <1>4, <1>5
    <2>3. \A s \in Tasks : task[s] \in LoadRow \cup CopyRow => task[s].id <= used'
      <3>1. \A s \in Tasks : task[s] \in LoadRow \cup CopyRow => task[s].id \in Nat /\ task[s].id <= used
        BY <1>4, WhoHasCopies DEF CopiesKnown, Untouched, TypeOK
      <3> QED BY <1>4, <1>5, <3>1
    <2>4. \A s \in Tasks : task'[s] \in LoadRow \cup CopyRow => task'[s].id <= used'
      BY <1>2, <1>3, <1>5, <2>3
    <2> QED BY <1>2, <1>6, <2>1, <2>2, <2>4 DEF CopiesKnown, Untouched
  <1>8. CopiesFresh'
    <2> SUFFICES ASSUME NEW s \in Tasks, s \notin stale', task'[s] \in CopyRow
                 PROVE  rows'[task'[s].id] = task'[s].copy
      BY DEF CopiesFresh
    <2>1. CASE s = t
      BY <1>2, <1>3, <1>6, <2>1
    <2>2. CASE s # t
      <3>1. task'[s] = task[s] /\ task[s] \in TaskRow
        BY <1>2, <1>3, <2>2 DEF CopiesKnown, TypeOK
      <3>2. "copy" \in DOMAIN task[s] /\ task[s].id \in Ids
        BY <3>1, WhoHasCopies
      <3>3. task[s].id # i /\ s \notin stale
        BY <1>6, <2>2, <3>2
      <3> QED BY <1>6, <3>1, <3>2, <3>3 DEF CopiesKnown, CopiesFresh
    <2> QED BY <2>1, <2>2
  <1> QED BY <1>1, <1>7, <1>8 DEF CopiesKnown

LEMMA InitKnows == Init => CopiesKnown
  <1> SUFFICES ASSUME Init PROVE CopiesKnown
    OBVIOUS
  <1>1. PICK first \in FirstRows :
            /\ rows = [i \in Ids |-> IF i \in DOMAIN first THEN first[i] ELSE NoRow]
            /\ used = Cardinality(DOMAIN first)
    BY DEF Init
  <1>2. PICK n \in 0..MaxRows : first \in [1..n -> Row]
    BY RegistryAssumption
  <1>3. used = n
    <2>1. Cardinality(1..n) = n
      BY <1>2, FS_Interval
    <2> QED BY <1>1, <1>2, <2>1
  <1>4. \A t \in Tasks : task[t] \notin LoadRow \cup CopyRow
    BY WhoHasCopies, IdleShape DEF Init
  <1>5. \A i \in Ids : i > used => rows[i] = NoRow
    BY <1>1, <1>2, <1>3, IdsAreNumbers
  <1>6. TypeOK
    BY InitShape
  <1> QED BY <1>4, <1>5, <1>6 DEF Init, CopiesKnown, Untouched, CopiesFresh

LEMMA NextKnows == CopiesKnown /\ [Next]_vars => CopiesKnown'
  <1> SUFFICES ASSUME CopiesKnown, [Next]_vars PROVE CopiesKnown'
    OBVIOUS
  <1>0. TypeOK'
    BY NextShape DEF CopiesKnown
  <1>1. ASSUME NEW c \in Clients,
               \/ Submit(c) \/ CreateByAdmin(c) \/ RegisterCandidate(c)
               \/ BeginApprove(c) \/ BeginReject(c) \/ BeginTouch(c) \/ BeginEdit(c)
               \/ BeginRecommend(c) \/ BeginPayment(c) \/ BeginPromote(c)
        PROVE  CopiesKnown'
    BY <1>1, BeginShape, StartKeepsCopies DEF CopiesKnown
  <1>2. CASE RemoveRow
    <2>1. PICK i \in Present :
            /\ rows' = [rows EXCEPT ![i] = NoRow]
            /\ stale' = stale \union {s \in Tasks : "copy" \in DOMAIN task[s] /\ task[s].id = i}
            /\ UNCHANGED <<used, recommended, task, cut, paid>>
      BY <1>2 DEF RemoveRow
    <2>2. \A s \in Tasks : task[s] \in CopyRow => "copy" \in DOMAIN task[s] /\ task[s].id \in Ids
      BY WhoHasCopies DEF CopiesKnown, TypeOK
    <2>3. CopiesFresh'
      BY <2>1, <2>2 DEF CopiesKnown, CopiesFresh, TypeOK, Present
    <2>4. Untouched'
      BY <2>1 DEF CopiesKnown, Untouched, TypeOK, Present
    <2> QED BY <1>0, <2>3, <2>4 DEF CopiesKnown
  <1>3. CASE NextDay
    BY <1>0, <1>3 DEF NextDay, CopiesKnown, Untouched, CopiesFresh, tableVars, historyVars
  <1>4. CASE Restart
    <2>1. \A s \in Tasks : task'[s] \notin LoadRow \cup CopyRow
      BY <1>4, WhoHasCopies, IdleShape DEF Restart
    <2>2. \A i \in Ids : i > used => Counting(i) = {}
      <3> SUFFICES ASSUME NEW i \in Ids, i > used, NEW s \in Tasks, task[s].pc = "save", task[s].id = i
                   PROVE  FALSE
        BY DEF Counting
      <3>1. task[s] \in CopyRow
        BY Holding DEF CopiesKnown, TypeOK
      <3>2. i <= used
        BY <3>1 DEF CopiesKnown, Untouched
      <3> QED BY <3>2, IdsAreNumbers DEF CopiesKnown, TypeOK
    <2>3. \A i \in Ids : i > used => cut'[i] = 0
      BY <1>4, <2>2, FS_EmptySet DEF Restart, CopiesKnown, Untouched
    <2>4. Untouched'
      BY <1>4, <2>1, <2>3 DEF Restart, CopiesKnown, Untouched, tableVars
    <2>5. CopiesFresh'
      BY <2>1 DEF CopiesFresh
    <2> QED BY <1>0, <2>4, <2>5 DEF CopiesKnown
  <1>5. CASE UNCHANGED vars
    BY <1>0, <1>5 DEF vars, tableVars, historyVars, CopiesKnown, Untouched, CopiesFresh
  <1> QED BY <1>1, <1>2, <1>3, <1>4, <1>5, QuietKeepsCopies, WriteKeepsCopies DEF Next

-----------------------------------------------------------------------------
(* Recommendations and promotions *)

\* A preview only touches the row.
Previews ==
    \A t \in Tasks : t[2] = "preview" =>
        task[t] = Idle \/ (task[t] \in LoadRow \cup CopyRow /\ task[t].op = "touch")

\* A request between its recommendation and the save that counts it.
Counts(q, i) == q.pc = "save" /\ q.op = "recommend" /\ q.id = i

LEMMA WhoCounts ==
    ASSUME NEW q \in TaskRow, NEW i
    PROVE  /\ Counts(q, i) => q \in CopyRow
           /\ ~Counts(Idle, i)
           /\ q \in LoadRow \cup InsertShape => ~Counts(q, i)
  BY DEF Counts, TaskRow, InsertShape, LoadRow, CopyRow, Idle

\* Only the recording and the save of a recommendation, and a restart, change who is
\* about to be counted.
LEMMA SameCounting ==
    ASSUME NEW i, \A s \in Tasks : Counts(task[s], i) <=> Counts(task'[s], i)
    PROVE  Counting(i)' = Counting(i)
  BY DEF Counting, Counts

\* What LostOnlyToOlderCopies says of one row.
Kept(i) ==
    /\ rows[i].recs + Cardinality(Counting(i)) + cut[i] = Cardinality(recommended[i])
    /\ rows[i].until >= paid[i]

AllCounted == CopiesKnown /\ Previews /\ LostOnlyToOlderCopies

LEMMA KeptIsEnough ==
    /\ LostOnlyToOlderCopies <=> \A i \in Present \ overwritten : Kept(i)
    /\ LostOnlyToOlderCopies' <=> \A i \in Present' \ overwritten' : Kept(i)'
  BY DEF LostOnlyToOlderCopies, Kept

LEMMA KeptAsItWas ==
    ASSUME NEW i \in Ids, Kept(i), Counting(i)' = Counting(i),
           rows'[i].recs = rows[i].recs, rows'[i].until = rows[i].until,
           cut'[i] = cut[i], recommended'[i] = recommended[i], paid'[i] = paid[i]
    PROVE  Kept(i)'
  BY DEF Kept

LEMMA StartKeepsCount ==
    ASSUME AllCounted, NEW c \in Clients, NEW r \in TaskRow, Start(c, r), Opening(r)
    PROVE  AllCounted'
  <1>1. CopiesKnown'
    BY StartKeepsCopies DEF AllCounted
  <1>2. /\ UNCHANGED <<rows, recommended, cut, paid, overwritten>>
        /\ \A s \in Tasks : s # <<c, "main">> => task'[s] = task[s]
        /\ <<c, "main">> \in Tasks /\ task[<<c, "main">>] = Idle /\ task'[<<c, "main">>] = r
    BY DEF Start, Free, tableVars, AllCounted, CopiesKnown, TypeOK, Tasks
  <1>3. Previews'
    BY <1>2 DEF AllCounted, Previews
  <1>4. \A i : ~Counts(r, i)
    BY DEF Opening, Counts, InsertShape, LoadRow
  <1>5. \A i : Counting(i)' = Counting(i)
    BY <1>2, <1>4, SameCounting, WhoCounts, IdleShape
  <1>6. \A i \in Present' \ overwritten' : i \in Ids /\ Kept(i)
    BY <1>2, KeptIsEnough DEF AllCounted, Present
  <1>7. \A i \in Present' \ overwritten' : Kept(i)'
    BY <1>2, <1>5, <1>6, KeptAsItWas
  <1> QED BY <1>1, <1>3, <1>7, KeptIsEnough DEF AllCounted

\* A member is added to those who recommended, and to the count.
LEMMA RecordKeepsCount ==
    ASSUME AllCounted, NEW t \in Tasks, RecordRecommendation(t), NEW i \in Ids, Kept(i),
           rows[i] \in Row
    PROVE  Kept(i)'
  <1>0. TypeOK
    BY DEF AllCounted, CopiesKnown
  <1> DEFINE q == task[t]
             next == [q EXCEPT !.pc = "save"]
  <1>1. /\ q \in CopyRow /\ q.op = "recommend" /\ q.user \in Users /\ q.pc = "record" /\ q.id \in Ids
        /\ next \in CopyRow
    BY <1>0, RecommendGoes DEF RecordRecommendation
  <1>2. UNCHANGED <<rows, cut, paid>>
    BY DEF RecordRecommendation, Goes
  <1>3. CASE q.user \in recommended[q.id]
    <2>1. Goes(t, Idle) /\ UNCHANGED recommended
      BY <1>3 DEF RecordRecommendation
    <2>2. task'[t] = Idle /\ \A s \in Tasks : s # t => task'[s] = task[s]
      BY <1>0, <2>1, IdleShape, Going
    <2>3. ~Counts(q, i) /\ ~Counts(Idle, i)
      BY <1>1, WhoCounts, IdleShape DEF Counts
    <2>4. Counting(i)' = Counting(i)
      BY <2>2, <2>3, SameCounting
    <2> QED BY <1>2, <2>1, <2>4, KeptAsItWas
  <1>4. CASE q.user \notin recommended[q.id]
    <2>1. Goes(t, next) /\ recommended' = [recommended EXCEPT ![q.id] = recommended[q.id] \union {q.user}]
      BY <1>4 DEF RecordRecommendation
    <2>2. next \in TaskRow
      BY <1>1 DEF TaskRow
    <2>3. next.pc = "save" /\ next.op = "recommend" /\ next.id = q.id
      BY <1>1 DEF CopyRow
    <2> HIDE DEF next
    <2>4. task'[t] = next /\ \A s \in Tasks : s # t => task'[s] = task[s]
      BY <1>0, <2>1, <2>2, Going
    <2>5. CASE i = q.id
      <3>1. Counting(i)' = Counting(i) \union {t} /\ t \notin Counting(i)
        BY <1>1, <2>3, <2>4, <2>5 DEF Counting
      <3>2. IsFiniteSet(Counting(i)) /\ Cardinality(Counting(i)) \in Nat
        BY CountingIsFinite
      <3>3. Cardinality(Counting(i)') = Cardinality(Counting(i)) + 1
        BY <3>1, <3>2, FS_AddElement
      <3>4. recommended'[i] = recommended[i] \union {q.user}
        BY <1>0, <2>1, <2>5 DEF TypeOK
      <3>5. Cardinality(recommended'[i]) = Cardinality(recommended[i]) + 1 /\ Cardinality(recommended[i]) \in Nat
        <4>1. IsFiniteSet(recommended[i])
          BY <1>0, RegistryAssumption, FS_Subset DEF TypeOK
        <4> QED BY <1>4, <2>5, <3>4, <4>1, FS_AddElement, FS_CardinalityType
      <3>6. rows[i].recs + Cardinality(Counting(i)) + cut[i] = Cardinality(recommended[i])
            /\ rows[i].until >= paid[i]
        BY DEF Kept
      <3>7. rows'[i].recs + Cardinality(Counting(i)') + cut'[i] = Cardinality(recommended'[i])
        <4>1. rows[i].recs \in Nat /\ cut[i] \in Nat
          BY <1>0 DEF TypeOK, Row
        <4> QED BY <1>2, <3>2, <3>3, <3>5, <3>6, <4>1
      <3> QED BY <1>2, <3>6, <3>7 DEF Kept
    <2>6. CASE i # q.id
      <3>1. \A s \in Tasks : Counts(task[s], i) <=> Counts(task'[s], i)
        BY <1>1, <2>3, <2>4, <2>6 DEF Counts
      <3>2. Counting(i)' = Counting(i)
        BY <3>1, SameCounting
      <3>3. recommended'[i] = recommended[i]
        BY <1>0, <2>1, <2>6 DEF TypeOK
      <3> QED BY <1>2, <3>2, <3>3, KeptAsItWas
    <2> QED BY <2>5, <2>6
  <1> QED BY <1>3, <1>4

LEMMA QuietCounts ==
    ASSUME TypeOK, NEW t \in Tasks, Load(t) \/ Check(t) \/ Reload(t) \/ AskRecommended(t), NEW i
    PROVE  Counting(i)' = Counting(i)
  <1>1. \A s \in Tasks : s # t => task'[s] = task[s]
    BY QuietMoves
  <1>2. ~Counts(task[t], i)
    BY DEF Load, Check, Reload, AskRecommended, Counts
  <1>3. ~Counts(task'[t], i)
    <2>1. CASE Load(t)
      <3>1. PICK r \in TaskRow :
             /\ Goes(t, r)
             /\ r = Idle \/ (r.op = task[t].op /\ r.pc = AfterLoad(task[t], rows[task[t].id]))
        BY <2>1, LoadGoes
      <3>2. r.op = "recommend" /\ r # Idle => r.pc = "ask"
        BY <3>1 DEF AfterLoad
      <3>3. ~Counts(r, i)
        BY <3>2, WhoCounts DEF Counts
      <3> QED BY <3>1, <3>3, Going
    <2>2. CASE Check(t) \/ Reload(t)
      <3>1. task[t].op # "recommend"
        <4>1. CASE Check(t)
          <5>1. task[t] \in CopyRow /\ task[t].pc = "check"
            BY <4>1, Holding DEF Check, TypeOK
          <5> QED BY <5>1 DEF CopyRow
        <4>2. CASE Reload(t)
          BY <4>2, ReloadGoes
        <4> QED BY <2>2, <4>1, <4>2
      <3>2. task'[t] = Idle \/ task'[t].op = task[t].op
        BY <2>2, QuietMoves
      <3> QED BY <3>1, <3>2, WhoCounts, IdleShape DEF Counts
    <2>3. CASE AskRecommended(t)
      <3>1. task[t] \in CopyRow /\ [task[t] EXCEPT !.pc = "record"] \in TaskRow
        BY <2>3, RecommendGoes DEF TaskRow
      <3>2. Goes(t, Idle) \/ Goes(t, [task[t] EXCEPT !.pc = "record"])
        BY <2>3 DEF AskRecommended
      <3>3. [task[t] EXCEPT !.pc = "record"].pc = "record"
        BY <3>1 DEF CopyRow
      <3>4. task'[t] = Idle \/ task'[t] = [task[t] EXCEPT !.pc = "record"]
        BY <3>1, <3>2, IdleShape, Going
      <3> QED BY <3>3, <3>4, WhoCounts, IdleShape DEF Counts
    <2> QED BY <2>1, <2>2, <2>3
  <1> QED BY <1>1, <1>2, <1>3, SameCounting

LEMMA QuietKeepsCount ==
    ASSUME AllCounted, NEW t \in Tasks,
           Load(t) \/ Check(t) \/ Reload(t) \/ AskRecommended(t) \/ RecordRecommendation(t)
    PROVE  AllCounted'
  <1>0. TypeOK
    BY DEF AllCounted, CopiesKnown
  <1>1. CopiesKnown'
    BY QuietKeepsCopies DEF AllCounted
  <1>2. /\ UNCHANGED <<rows, overwritten, cut, paid>>
        /\ \A s \in Tasks : s # t => task'[s] = task[s]
        /\ \/ task'[t] = Idle
           \/ task[t] \in LoadRow \cup CopyRow /\ task'[t] \in CopyRow /\ task'[t].op = task[t].op
    BY <1>0, QuietMoves
  <1>3. Previews'
    <2>1. Idle \notin LoadRow \cup CopyRow
      BY WhoHasCopies, IdleShape
    <2> QED BY <1>2, <2>1 DEF AllCounted, Previews
  <1>4. ASSUME NEW i \in Present' \ overwritten' PROVE Kept(i)'
    <2>1. i \in Ids /\ Kept(i) /\ rows[i] \in Row
      BY <1>0, <1>2, KeptIsEnough DEF AllCounted, Present, TypeOK
    <2>2. CASE RecordRecommendation(t)
      BY <2>1, <2>2, RecordKeepsCount
    <2>3. CASE Load(t) \/ Check(t) \/ Reload(t) \/ AskRecommended(t)
      <3>1. Counting(i)' = Counting(i)
        BY <1>0, <2>3, QuietCounts
      <3>2. UNCHANGED recommended
        BY <2>3 DEF Load, Check, Reload, AskRecommended, tableVars
      <3> QED BY <1>2, <2>1, <3>1, <3>2, KeptAsItWas
    <2> QED BY <2>2, <2>3
  <1> QED BY <1>1, <1>3, <1>4, KeptIsEnough DEF AllCounted

\* What a save does to the columns that count.
LEMMA SavedColumns ==
    ASSUME NEW q \in CopyRow, q.pc = "save"
    PROVE  /\ Saved(q).recs = IF q.op = "recommend" THEN q.copy.recs + 1 ELSE q.copy.recs
           /\ Saved(q).until = IF q.op \in {"pay", "promote"} THEN q.until ELSE q.copy.until
  <1>1. q.copy \in Row
    BY DEF CopyRow
  <1>2. q.op \in {"approve", "activate", "reactivate", "reject", "relink", "restatus", "recommend",
                  "pay", "promote", "touch", "import"}
    BY DEF CopyRow
  <1>3. /\ \A s : [q.copy EXCEPT !.status = s].recs = q.copy.recs /\ [q.copy EXCEPT !.status = s].until = q.copy.until
        /\ \A l : [q.copy EXCEPT !.link = l].recs = q.copy.recs /\ [q.copy EXCEPT !.link = l].until = q.copy.until
        /\ [q.copy EXCEPT !.recs = @ + 1].recs = q.copy.recs + 1 /\ [q.copy EXCEPT !.recs = @ + 1].until = q.copy.until
        /\ \A n : [q.copy EXCEPT !.until = n].recs = q.copy.recs /\ [q.copy EXCEPT !.until = n].until = n
    BY <1>1 DEF Row
  <1>4. CASE q.op \in {"approve", "activate", "reactivate", "reject", "relink", "restatus", "touch", "import"}
    BY <1>3, <1>4 DEF Saved
  <1>5. CASE q.op = "recommend"
    BY <1>3, <1>5 DEF Saved
  <1>6. CASE q.op \in {"pay", "promote"}
    BY <1>3, <1>6 DEF Saved, End
  <1> QED BY <1>2, <1>4, <1>5, <1>6

LEMMA InsertKeepsCount ==
    ASSUME AllCounted, NEW t \in Tasks, InsertRow(t)
    PROVE  AllCounted'
  <1> DEFINE row == NewRow(task[t].link, IF task[t].op = "submit" THEN "pending" ELSE "active")
             p == <<t[1], "preview">>
  <1>0. TypeOK
    BY DEF AllCounted, CopiesKnown
  <1>1. CopiesKnown'
    BY WriteKeepsCopies DEF AllCounted
  <1>2. /\ task[t] \in InsertShape /\ row \in Row /\ used + 1 \in Ids /\ Writes(t, used + 1, row)
        /\ p \in Tasks
        /\ \A s \in Tasks : s # t /\ s # p => task'[s] = task[s]
        /\ \A s \in Tasks : task'[s] # task[s] =>
             \/ task'[s] \in LoadRow /\ task'[s].id = used + 1
             \/ s = t /\ task'[s].pc = "check"
    BY <1>0, InsertGoes
  <1>3. row.recs = 0 /\ row.until = 0
    BY DEF NewRow
  <1>4. /\ task[t].op = "submit" =>
             task' = [task EXCEPT ![t] = [pc |-> "check", op |-> "activate", id |-> used + 1, copy |-> row],
                                  ![p] = [pc |-> "load", op |-> "touch", id |-> used + 1]]
        /\ task[t].op # "submit" => task' = [task EXCEPT ![t] = [pc |-> "load", op |-> "import", id |-> used + 1]]
        /\ UNCHANGED <<recommended, cut, paid>>
    BY DEF InsertRow
  <1> HIDE DEF row
  <1>5. Previews'
    <2>1. t[2] = "main"
      <3>1. task[t] # Idle /\ task[t] \notin LoadRow \cup CopyRow
        BY <1>2 DEF InsertShape, Idle, LoadRow, CopyRow
      <3> QED BY <3>1 DEF Tasks, AllCounted, Previews
    <2> QED BY <1>0, <1>2, <1>4, <2>1 DEF AllCounted, Previews, TypeOK
  <1>6. \A s \in Tasks, i \in Ids : Counts(task[s], i) <=> Counts(task'[s], i)
    <2> SUFFICES ASSUME NEW s \in Tasks, NEW i \in Ids, task'[s] # task[s]
                 PROVE  ~Counts(task[s], i) /\ ~Counts(task'[s], i)
      OBVIOUS
    <2>1. ~Counts(task'[s], i)
      BY <1>2, WhoCounts DEF Counts, TaskRow
    <2>2. CASE s = t
      BY <1>2, <2>1, <2>2, WhoCounts DEF TaskRow
    <2>3. CASE s # t
      <3>1. s = p /\ task[s] \in TaskRow
        BY <1>0, <1>2, <2>3 DEF TypeOK
      <3>2. task[s] = Idle \/ task[s].op = "touch"
        BY <3>1 DEF AllCounted, Previews
      <3> QED BY <2>1, <3>1, <3>2, WhoCounts DEF Counts
    <2> QED BY <2>2, <2>3
  <1>7. ASSUME NEW i \in Present' \ overwritten' PROVE Kept(i)'
    <2>1. i \in Ids /\ Counting(i)' = Counting(i)
      BY <1>6, SameCounting DEF Present
    <2>2. CASE i = used + 1
      <3>1. i > used
        BY <1>0, <2>2, IdsAreNumbers DEF TypeOK
      <3>2. recommended[i] = {} /\ cut[i] = 0 /\ paid[i] = 0
        BY <2>1, <3>1 DEF AllCounted, CopiesKnown, Untouched
      <3>3. Counting(i) = {}
        <4> SUFFICES ASSUME NEW s \in Tasks, Counts(task[s], i) PROVE FALSE
          BY DEF Counting, Counts
        <4>1. task[s] \in CopyRow /\ task[s].id = i
          BY <1>0, WhoCounts DEF TypeOK, Counts
        <4>2. i <= used
          BY <4>1 DEF AllCounted, CopiesKnown, Untouched
        <4> QED BY <1>0, <2>2, <4>2 DEF TypeOK
      <3>4. rows'[i] = row
        BY <1>0, <1>2, <2>2, WritesShape
      <3> QED BY <1>3, <1>4, <2>1, <3>2, <3>3, <3>4, FS_EmptySet DEF Kept
    <2>3. CASE i # used + 1
      <3>1. rows'[i] = rows[i] /\ overwritten \subseteq overwritten'
        BY <1>0, <1>2, <2>1, <2>3, WritesShape DEF Writes
      <3>2. i \in Present \ overwritten
        BY <3>1 DEF Present
      <3>3. Kept(i)
        BY <3>2, KeptIsEnough DEF AllCounted
      <3> QED BY <1>4, <2>1, <3>1, <3>3, KeptAsItWas
    <2> QED BY <2>2, <2>3
  <1> QED BY <1>1, <1>5, <1>7, KeptIsEnough DEF AllCounted

LEMMA SaveKeepsCount ==
    ASSUME AllCounted, NEW t \in Tasks, Save(t) \/ SaveAgain(t)
    PROVE  AllCounted'
  <1> DEFINE q == task[t]
             row == IF q.pc = "save" THEN Saved(q) ELSE q.copy
  <1>0. TypeOK
    BY DEF AllCounted, CopiesKnown
  <1>1. CopiesKnown'
    BY WriteKeepsCopies DEF AllCounted
  <1>2. /\ q \in CopyRow /\ q.id \in Ids /\ q.copy \in Row /\ row \in Row
        /\ Writes(t, q.id, row) /\ UNCHANGED <<used, recommended>>
        /\ q.pc = "save" \/ q.pc \in {"resave", "collect"}
    <2>1. CASE Save(t)
      BY <1>0, <2>1, SaveGoes
    <2>2. CASE SaveAgain(t)
      BY <1>0, <2>2, SaveAgainGoes
    <2> QED BY <2>1, <2>2
  <1>3. /\ \E r \in TaskRow : Goes(t, r)
        /\ \A i : ~Counts(task'[t], i)
        /\ t[2] = "preview" => task'[t] = Idle
    <2>1. CASE Save(t)
      <3>1. PICK r \in TaskRow :
              Goes(t, r) /\ (r = Idle \/ r \in LoadRow \/ r.pc = "collect")
        BY <1>0, <2>1, SaveGoes
      <3>2. \A i : ~Counts(r, i)
        BY <3>1, WhoCounts DEF Counts
      <3>3. task'[t] = r
        BY <1>0, <3>1, Going
      <3>4. t[2] = "preview" => q.op = "touch"
        <4>1. q # Idle
          BY <1>2, WhoHasCopies, IdleShape
        <4> QED BY <4>1 DEF AllCounted, Previews
      <3>5. q.op = "touch" => Goes(t, Idle)
        BY <2>1 DEF Save
      <3>6. q.op = "touch" => task'[t] = Idle
        BY <1>0, <3>5, IdleShape, Going
      <3> QED BY <3>1, <3>2, <3>3, <3>4, <3>6
    <2>2. CASE SaveAgain(t)
      <3> DEFINE next == [q EXCEPT !.pc = "save"]
      <3>1. Goes(t, Idle) \/ (Goes(t, next) /\ q.op = "approve" /\ next \in CopyRow)
        BY <1>0, <2>2, SaveAgainGoes
      <3>2. next.op = q.op
        BY <1>2 DEF CopyRow
      <3> HIDE DEF next
      <3>3. task'[t] = Idle \/ (task'[t] = next /\ q.op = "approve")
        BY <1>0, <3>1, IdleShape, Going DEF TaskRow
      <3>4. \A i : ~Counts(task'[t], i)
        BY <3>2, <3>3, WhoCounts, IdleShape DEF Counts
      <3>5. t[2] = "preview" => q.op = "touch"
        <4>1. q # Idle
          BY <1>2, WhoHasCopies, IdleShape
        <4> QED BY <4>1 DEF AllCounted, Previews
      <3>6. next \in CopyRow => next \in TaskRow
        BY DEF TaskRow
      <3> QED BY <3>1, <3>3, <3>4, <3>5, <3>6, IdleShape
    <2> QED BY <2>1, <2>2, <1>2 DEF Save, SaveAgain
  <1>4. /\ \A s \in Tasks : s # t => task'[s] = task[s]
        /\ UNCHANGED cut
    BY <1>0, <1>3, Going
  <1>5. Previews'
    BY <1>3, <1>4 DEF AllCounted, Previews
  <1>6. /\ paid' = IF q.pc = "save" /\ q.op \in {"pay", "promote"}
                   THEN [paid EXCEPT ![q.id] = IF q.op = "pay" THEN q.until ELSE 0] ELSE paid
        /\ q.pc = "save" /\ q.op \in {"pay", "promote"} => q.until \in Nat
    BY <1>0, <1>2, SaveGoes DEF Save, SaveAgain
  <1>7. /\ row.recs = IF Counts(q, q.id) THEN q.copy.recs + 1 ELSE q.copy.recs
        /\ row.until = IF q.pc = "save" /\ q.op \in {"pay", "promote"} THEN q.until ELSE q.copy.until
    BY <1>2, SavedColumns DEF Counts
  <1> HIDE DEF row
  <1>8. ASSUME NEW i \in Present' \ overwritten' PROVE Kept(i)'
    <2>1. i \in Ids /\ overwritten \subseteq overwritten'
      BY <1>2 DEF Present, Writes
    <2>2. CASE i # q.id
      <3>1. rows'[i] = rows[i] /\ paid'[i] = paid[i]
        BY <1>0, <1>2, <1>6, <2>1, <2>2, WritesShape DEF TypeOK
      <3>2. i \in Present \ overwritten
        BY <2>1, <3>1 DEF Present
      <3>3. Kept(i)
        BY <3>2, KeptIsEnough DEF AllCounted
      <3>4. \A s \in Tasks : Counts(task[s], i) <=> Counts(task'[s], i)
        BY <1>3, <1>4, <2>2 DEF Counts
      <3>5. Counting(i)' = Counting(i)
        BY <3>4, SameCounting
      <3> QED BY <1>2, <1>4, <2>1, <3>1, <3>3, <3>5, KeptAsItWas
    <2>3. CASE i = q.id
      <3>1. t \notin stale
        BY <1>2, <2>3 DEF Writes
      <3>2. rows[i] = q.copy
        BY <1>2, <2>3, <3>1 DEF AllCounted, CopiesKnown, CopiesFresh
      <3>3. i \in Present \ overwritten
        BY <1>2, <2>1, <3>2, RegistryAssumption DEF Present
      <3>4. Kept(i)
        BY <3>3, KeptIsEnough DEF AllCounted
      <3>5. rows'[i] = row
        BY <1>0, <1>2, <2>3, WritesShape
      <3>6. rows'[i].until >= paid'[i]
        <4>1. CASE q.pc = "save" /\ q.op \in {"pay", "promote"}
          <5>1. rows'[i].until = q.until /\ q.until \in Nat /\ paid'[i] \in {q.until, 0}
            BY <1>0, <1>2, <1>6, <1>7, <2>3, <3>5, <4>1 DEF TypeOK
          <5> QED BY <5>1
        <4>2. CASE ~(q.pc = "save" /\ q.op \in {"pay", "promote"})
          BY <1>6, <1>7, <3>2, <3>4, <3>5, <4>2 DEF Kept
        <4> QED BY <4>1, <4>2
      <3>7. rows'[i].recs + Cardinality(Counting(i)') = rows[i].recs + Cardinality(Counting(i))
        <4>1. IsFiniteSet(Counting(i)) /\ Cardinality(Counting(i)) \in Nat /\ rows[i].recs \in Nat
          BY <1>2, <2>1, <3>2, CountingIsFinite DEF Row
        <4>2. CASE Counts(q, i)
          <5>1. Counting(i)' = Counting(i) \ {t} /\ t \in Counting(i)
            BY <1>3, <1>4, <4>2 DEF Counting, Counts
          <5>2. Cardinality(Counting(i)') = Cardinality(Counting(i)) - 1
            BY <4>1, <5>1, FS_RemoveElement
          <5> QED BY <1>7, <2>3, <3>2, <3>5, <4>1, <4>2, <5>2
        <4>3. CASE ~Counts(q, i)
          <5>1. \A s \in Tasks : Counts(task[s], i) <=> Counts(task'[s], i)
            BY <1>3, <1>4, <4>3
          <5>2. Counting(i)' = Counting(i)
            BY <5>1, SameCounting
          <5> QED BY <1>7, <2>3, <3>2, <3>5, <4>3, <5>2
        <4> QED BY <4>2, <4>3
      <3> QED BY <1>2, <1>4, <3>4, <3>6, <3>7 DEF Kept
    <2> QED BY <2>2, <2>3
  <1> QED BY <1>1, <1>5, <1>8, KeptIsEnough DEF AllCounted

LEMMA InitCounted == Init => AllCounted
  <1> SUFFICES ASSUME Init PROVE AllCounted
    OBVIOUS
  <1>1. CopiesKnown
    BY InitKnows
  <1>2. PICK first \in FirstRows : rows = [i \in Ids |-> IF i \in DOMAIN first THEN first[i] ELSE NoRow]
    BY DEF Init
  <1>3. \A i \in Present : rows[i].recs = 0 /\ rows[i].until \in Nat
    <2>1. \A i \in Present : i \in DOMAIN first /\ rows[i] = first[i] /\ rows[i] \in Row
      BY <1>1, <1>2 DEF Present, CopiesKnown, TypeOK
    <2>2. \A i \in Present : rows[i].until \in Nat
      BY <2>1 DEF Row
    <2> QED BY <2>1, <2>2, RegistryAssumption
  <1>4. \A i \in Ids : Counting(i) = {}
    BY DEF Init, Counting, Idle
  <1>5. ASSUME NEW i \in Present PROVE Kept(i)
    <2>1. cut[i] = 0 /\ paid[i] = 0 /\ recommended[i] = {} /\ i \in Ids
      BY DEF Init, Present
    <2>2. Cardinality(Counting(i)) = 0 /\ Cardinality(recommended[i]) = 0
      BY <1>4, <2>1, FS_EmptySet
    <2> QED BY <1>3, <2>1, <2>2 DEF Kept
  <1> QED BY <1>1, <1>5, KeptIsEnough DEF AllCounted, Previews, Init

LEMMA NextCounted == AllCounted /\ [Next]_vars => AllCounted'
  <1> SUFFICES ASSUME AllCounted, [Next]_vars PROVE AllCounted'
    OBVIOUS
  <1>0. CopiesKnown' /\ TypeOK
    BY NextKnows DEF AllCounted, CopiesKnown
  <1>1. ASSUME NEW c \in Clients,
               \/ Submit(c) \/ CreateByAdmin(c) \/ RegisterCandidate(c)
               \/ BeginApprove(c) \/ BeginReject(c) \/ BeginTouch(c) \/ BeginEdit(c)
               \/ BeginRecommend(c) \/ BeginPayment(c) \/ BeginPromote(c)
        PROVE  AllCounted'
    BY <1>0, <1>1, BeginShape, StartKeepsCount
  <1>2. CASE UNCHANGED <<recommended, task, cut, paid, overwritten>>
             /\ \A i \in Present' : i \in Present /\ rows'[i] = rows[i]
    <2>1. Previews'
      BY <1>2 DEF AllCounted, Previews
    <2>2. ASSUME NEW i \in Present' \ overwritten' PROVE Kept(i)'
      <3>1. i \in Ids /\ Kept(i) /\ rows'[i] = rows[i]
        BY <1>2, KeptIsEnough DEF AllCounted, Present
      <3>2. Counting(i)' = Counting(i)
        BY <1>2, SameCounting
      <3> QED BY <1>2, <3>1, <3>2, KeptAsItWas
    <2> QED BY <1>0, <2>1, <2>2, KeptIsEnough DEF AllCounted
  <1>3. CASE RemoveRow
    BY <1>0, <1>2, <1>3 DEF RemoveRow, Present, TypeOK
  <1>4. CASE NextDay \/ UNCHANGED vars
    BY <1>2, <1>4 DEF NextDay, vars, tableVars, historyVars, Present
  <1>5. CASE Restart
    <2>1. Previews'
      BY <1>5 DEF Restart, Previews
    <2>2. ASSUME NEW i \in Present' \ overwritten' PROVE Kept(i)'
      <3>1. i \in Ids /\ Kept(i) /\ rows'[i] = rows[i] /\ rows[i] \in Row
            /\ recommended'[i] = recommended[i] /\ paid'[i] = paid[i]
        BY <1>0, <1>5, KeptIsEnough DEF AllCounted, Present, Restart, tableVars, TypeOK
      <3>2. Counting(i)' = {}
        BY <1>5 DEF Restart, Counting, Idle
      <3>3. cut'[i] = cut[i] + Cardinality(Counting(i)) /\ cut[i] \in Nat /\ Cardinality(Counting(i)) \in Nat
        BY <1>0, <1>5, <3>1, CountingIsFinite DEF Restart, TypeOK
      <3>4. rows[i].recs \in Nat /\ Cardinality({}) = 0
        BY <3>1, FS_EmptySet DEF Row
      <3> QED BY <3>1, <3>2, <3>3, <3>4 DEF Kept
    <2> QED BY <1>0, <2>1, <2>2, KeptIsEnough DEF AllCounted
  <1> QED BY <1>1, <1>3, <1>4, <1>5, QuietKeepsCount, InsertKeepsCount, SaveKeepsCount DEF Next

\* Whatever the order of loads, saves, removals and restarts, a row that was never saved
\* from an older copy has counted every recommendation, but those a restart cut off,
\* and keeps the promotion that was paid for it last.
THEOREM OnlyOldCopiesLose == Spec => []LostOnlyToOlderCopies
  <1>1. AllCounted => LostOnlyToOlderCopies
    BY DEF AllCounted
  <1> QED BY <1>1, InitCounted, NextCounted, PTL DEF Spec

-----------------------------------------------------------------------------
(* One active row of a link *)

\* The requests that are about to make a row active, or to give an active row a link,
\* because a search found nothing against it.
Claims(q) ==
    \/ q \in InsertShape /\ q.op = "admin"
    \/ /\ q \in CopyRow /\ q.pc \in {"save", "reload", "resave"}
       /\ \/ q.op \in {"reactivate", "activate", "approve", "relink"}
          \/ q.op = "restatus" /\ q.status = "active" /\ q.copy.status # "active"

Claimed(q) == IF q \in CopyRow THEN LinkOf(q) ELSE q.link
Own(q) == IF q \in CopyRow THEN q.id ELSE 0

\* What the search found still holds, unless it is known to be overtaken.
Clear(q) == Of(Claimed(q), Own(q), "active") = {}
Searched == \A t \in Tasks \ missed, q \in TaskRow : q = task[t] /\ Claims(q) => Clear(q)

LinksKnown == CopiesKnown /\ Searched /\ OneActivePerLink

LEMMA WhoClaims ==
    ASSUME NEW q \in TaskRow
    PROVE  /\ q = Idle \/ q \in LoadRow => ~Claims(q)
           /\ q.pc \in {"check", "collect", "load", "idle", "ask", "record"} => ~Claims(q)
           /\ q.op \in {"reject", "touch", "import", "recommend", "pay", "promote", "submit"} => ~Claims(q)
           /\ Claims(q) => /\ q.pc \in {"insert", "save", "reload", "resave"} /\ q.op \in Searching
                           /\ q \in InsertShape \cup CopyRow
           /\ q \in InsertShape => q \notin CopyRow
  BY DEF Claims, Searching, TaskRow, InsertShape, LoadRow, CopyRow, Idle

\* What a save does to the columns of the search.
LEMMA SavedClaim ==
    ASSUME NEW q \in CopyRow, q.pc = "save"
    PROVE  \/ Claims(q) /\ Saved(q).link = Claimed(q)
           \/ Saved(q).status # "active"
           \/ Saved(q).status = q.copy.status /\ Saved(q).link = q.copy.link
  <1>1. q.copy \in Row
    BY DEF CopyRow
  <1>2. q.op \in {"approve", "activate", "reactivate", "reject", "relink", "restatus", "recommend",
                  "pay", "promote", "touch", "import"}
    BY DEF CopyRow
  <1>3. /\ \A s : [q.copy EXCEPT !.status = s].status = s /\ [q.copy EXCEPT !.status = s].link = q.copy.link
        /\ \A l : [q.copy EXCEPT !.link = l].link = l
        /\ /\ [q.copy EXCEPT !.recs = @ + 1].status = q.copy.status
           /\ [q.copy EXCEPT !.recs = @ + 1].link = q.copy.link
        /\ \A n : [q.copy EXCEPT !.until = n].status = q.copy.status /\ [q.copy EXCEPT !.until = n].link = q.copy.link
    BY <1>1 DEF Row
  <1>4. CASE q.op \in {"approve", "activate", "reactivate"}
    BY <1>3, <1>4 DEF Saved, Claims, Claimed, LinkOf
  <1>5. CASE q.op = "relink"
    <2>1. Saved(q) = [q.copy EXCEPT !.link = q.link]
      BY <1>5 DEF Saved
    <2>2. [q.copy EXCEPT !.link = q.link].link = q.link
      BY <1>3
    <2>3. Claims(q) /\ Claimed(q) = q.link
      BY <1>5 DEF Claims, Claimed, LinkOf
    <2> QED BY <2>1, <2>2, <2>3
  <1>6. CASE q.op = "restatus"
    BY <1>3, <1>6 DEF Saved, Claims, Claimed, LinkOf
  <1>7. CASE q.op = "reject"
    BY <1>3, <1>7 DEF Saved
  <1>8. CASE q.op \in {"recommend", "pay", "promote", "touch", "import"}
    BY <1>3, <1>8 DEF Saved, End
  <1> QED BY <1>2, <1>4, <1>5, <1>6, <1>7, <1>8

\* What a save adds to the rows a search would find.
LEMMA OfAfterSave ==
    ASSUME TypeOK, NEW t \in Tasks, NEW i \in Ids, NEW row \in Row, Writes(t, i, row), NEW link, NEW e,
           NEW j \in Of(link, e, "active")'
    PROVE  /\ j = i => i # e /\ row.status = "active" /\ row.link = link
           /\ j # i => j \in Of(link, e, "active")
  <1>1. /\ rows'[i] = row /\ \A k \in Ids : k # i => rows'[k] = rows[k]
    BY WritesShape
  <1>2. j \in Ids /\ rows'[j] # NoRow /\ j # e /\ rows'[j].link = link /\ rows'[j].status = "active"
    BY DEF Of, Present
  <1> QED BY <1>1, <1>2 DEF Of, Present

\* The others' searches: a save they ought to have seen marks them.
LEMMA WriteKeepsOthers ==
    ASSUME LinksKnown, NEW t \in Tasks, NEW i \in Ids, NEW row \in Row, Writes(t, i, row),
           NEW s \in Tasks, s # t, s \notin missed', NEW q \in TaskRow, q = task[s], Claims(q)
    PROVE  Clear(q)'
  <1> SUFFICES ASSUME NEW j \in Of(Claimed(q), Own(q), "active")' PROVE FALSE
    BY DEF Clear
  <1>0. TypeOK
    BY DEF LinksKnown, CopiesKnown
  <1>1. s \notin missed
    BY DEF Writes
  <1>2. Of(Claimed(q), Own(q), "active") = {}
    BY <1>1 DEF LinksKnown, Searched, Clear
  <1>3. q.pc \in {"insert", "save", "reload", "resave"} /\ q.op \in Searching /\ q \in InsertShape \cup CopyRow
    BY WhoClaims
  <1>4. j = i /\ i # Own(q) /\ row.status = "active" /\ row.link = Claimed(q)
    BY <1>0, <1>2, OfAfterSave
  <1>5. "copy" \in DOMAIN q <=> q \in CopyRow
    BY WhoHasCopies
  <1>6. IF "copy" \in DOMAIN q THEN q.id # i /\ LinkOf(q) = row.link ELSE q.link = row.link
    BY <1>4, <1>5 DEF Claimed, Own
  <1>7. s \in missed'
    BY <1>3, <1>4, <1>6 DEF Writes
  <1> QED BY <1>7

\* A save makes a second active row of a link only if it is marked.
LEMMA WriteKeepsOne ==
    ASSUME LinksKnown, NEW t \in Tasks, NEW i \in Ids, NEW row \in Row, Writes(t, i, row),
           \/ row.status # "active"
           \/ Claims(task[t]) /\ row.link = Claimed(task[t]) /\ Own(task[t]) \in {0, i}
           \/ /\ task[t] \in CopyRow /\ i = task[t].id
              /\ row.status = task[t].copy.status /\ row.link = task[t].copy.link
    PROVE  OneActivePerLink'
  <1>0. TypeOK
    BY DEF LinksKnown, CopiesKnown
  <1>1. rows'[i] = row /\ \A k \in Ids : k # i => rows'[k] = rows[k]
    BY <1>0, WritesShape
  <1>2. /\ unseen' = IF row.status # "active" THEN unseen \ {i}
                     ELSE IF t \in missed THEN unseen \union {i} ELSE unseen
        /\ overwritten' = IF t \in stale THEN overwritten \union {i} ELSE overwritten
    BY DEF Writes
  <1>3. \A k, j \in Present : k # j /\ rows[k].link = rows[j].link /\ rows[k].status = "active" /\ rows[j].status = "active"
           => {k, j} \cap (unseen \union overwritten) # {}
    BY DEF LinksKnown, OneActivePerLink
  <1>4. ASSUME NEW j \in Present', j # i, row.status = "active", rows'[j].status = "active", rows'[j].link = row.link
        PROVE  {i, j} \cap (unseen' \union overwritten') # {}
    <2>1. j \in Present /\ rows'[j] = rows[j]
      BY <1>1, <1>4 DEF Present
    <2>2. CASE t \in missed \/ t \in stale
      BY <1>2, <1>4, <2>2
    <2>3. CASE t \notin missed /\ t \notin stale
      <3>1. CASE Claims(task[t]) /\ row.link = Claimed(task[t]) /\ Own(task[t]) \in {0, i}
        <4>1. Of(Claimed(task[t]), Own(task[t]), "active") = {}
          BY <1>0, <2>3, <3>1 DEF LinksKnown, Searched, Clear, TypeOK
        <4>2. j # Own(task[t])
          BY <1>4, <2>1, <3>1, IdsAreNumbers DEF Present
        <4>3. j \in Of(Claimed(task[t]), Own(task[t]), "active")
          BY <1>4, <2>1, <3>1, <4>2 DEF Of
        <4> QED BY <4>1, <4>3
      <3>2. CASE /\ task[t] \in CopyRow /\ i = task[t].id
                 /\ row.status = task[t].copy.status /\ row.link = task[t].copy.link
        <4>1. rows[i] = task[t].copy /\ task[t].copy \in Row
          BY <1>0, <2>3, <3>2, WhoHasCopies DEF LinksKnown, CopiesKnown, CopiesFresh, TypeOK
        <4>2. i \in Present
          BY <4>1, RegistryAssumption DEF Present
        <4>3. {i, j} \cap (unseen \union overwritten) # {}
          BY <1>3, <1>4, <2>1, <3>2, <4>1, <4>2
        <4> QED BY <1>2, <1>4, <2>3, <4>3
      <3> QED BY <1>4, <3>1, <3>2
    <2> QED BY <2>2, <2>3
  <1>5. ASSUME NEW k \in Present', NEW j \in Present', k # j, k # i, j # i,
               rows'[k].link = rows'[j].link, rows'[k].status = "active", rows'[j].status = "active"
        PROVE  {k, j} \cap (unseen' \union overwritten') # {}
    <2>1. k \in Present /\ j \in Present /\ rows'[k] = rows[k] /\ rows'[j] = rows[j]
      BY <1>1, <1>5 DEF Present
    <2>2. {k, j} \cap (unseen \union overwritten) # {}
      BY <1>3, <1>5, <2>1
    <2> QED BY <1>2, <1>5, <2>2
  <1>6. ASSUME NEW k \in Present', NEW j \in Present', k # j,
               rows'[k].link = rows'[j].link, rows'[k].status = "active", rows'[j].status = "active"
        PROVE  {k, j} \cap (unseen' \union overwritten') # {}
    <2>1. CASE k = i
      BY <1>1, <1>4, <1>6, <2>1
    <2>2. CASE j = i
      <3>1. {i, k} \cap (unseen' \union overwritten') # {}
        BY <1>1, <1>4, <1>6, <2>2
      <3> QED BY <2>2, <3>1
    <2>3. CASE k # i /\ j # i
      BY <1>5, <1>6, <2>3
    <2> QED BY <2>1, <2>2, <2>3
  <1> QED BY <1>6 DEF OneActivePerLink

LEMMA StartKeepsLinks ==
    ASSUME LinksKnown, NEW c \in Clients, NEW r \in TaskRow, Start(c, r), Opening(r)
    PROVE  LinksKnown'
  <1>0. TypeOK /\ CopiesKnown'
    BY StartKeepsCopies DEF LinksKnown, CopiesKnown
  <1> DEFINE t == <<c, "main">>
  <1>1. /\ UNCHANGED <<rows, unseen, overwritten>>
        /\ \A s \in Tasks : s # t => task'[s] = task[s]
        /\ t \in Tasks /\ task'[t] = r /\ missed' = missed \ {t}
    BY <1>0 DEF Start, tableVars, TypeOK, Tasks
  <1>2. OneActivePerLink'
    BY <1>1 DEF LinksKnown, OneActivePerLink, Present
  <1>3. Claims(r) => Clear(r)
    <2>1. CASE r \in InsertShape /\ Match(r.link, 0) = 0
      <3>1. r.link \in Links /\ Claimed(r) = r.link /\ Own(r) = 0
        BY <2>1, WhoClaims DEF Claimed, Own, InsertShape
      <3>2. \A i \in Present \ {0} : rows[i].link # r.link
        BY <1>0, <2>1, <3>1, MatchFinds
      <3> QED BY <3>1, <3>2 DEF Of, Clear
    <2>2. CASE r \in LoadRow \/ r.pc = "check"
      BY <2>2, WhoClaims
    <2>3. CASE r \in CopyRow /\ r.op = "reactivate" /\ Of(r.copy.link, 0, "active") = {}
      <3>1. Claimed(r) = r.copy.link
        BY <2>3 DEF Claimed, LinkOf
      <3> QED BY <2>3, <3>1, IdsAreNumbers DEF Of, Present, Clear
    <2> QED BY <2>1, <2>2, <2>3 DEF Opening
  <1>4. Searched'
    <2> SUFFICES ASSUME NEW s \in Tasks, s \notin missed', NEW q \in TaskRow, q = task'[s], Claims(q)
                 PROVE  Clear(q)'
      BY DEF Searched
    <2>1. Clear(q)
      BY <1>1, <1>3 DEF LinksKnown, Searched
    <2> QED BY <1>1, <2>1 DEF Clear, Of, Present
  <1> QED BY <1>0, <1>2, <1>4 DEF LinksKnown

\* A step without a save keeps the rule when the request that takes it does.
LEMMA SearchedWhen ==
    ASSUME LinksKnown, TypeOK', NEW t \in Tasks, UNCHANGED <<rows, unseen, overwritten>>,
           \A s \in Tasks : s # t => task'[s] = task[s],
           missed' \subseteq missed \union {t}, missed \ {t} \subseteq missed',
           \A q \in TaskRow : q = task'[t] /\ t \notin missed' /\ Claims(q) => Clear(q),
           CopiesKnown'
    PROVE  LinksKnown'
  <1>1. OneActivePerLink'
    BY DEF LinksKnown, OneActivePerLink, Present
  <1>2. Searched'
    <2> SUFFICES ASSUME NEW s \in Tasks, s \notin missed', NEW q \in TaskRow, q = task'[s], Claims(q)
                 PROVE  Clear(q)'
      BY DEF Searched
    <2>1. Clear(q)
      BY DEF LinksKnown, Searched
    <2> QED BY <2>1 DEF Clear, Of, Present
  <1> QED BY <1>1, <1>2 DEF LinksKnown

LEMMA LoadKeepsLinks ==
    ASSUME LinksKnown, NEW t \in Tasks, Load(t)
    PROVE  LinksKnown'
  <1>0. TypeOK /\ CopiesKnown' /\ TypeOK'
    BY QuietKeepsCopies DEF LinksKnown, CopiesKnown
  <1>1. /\ UNCHANGED <<rows, unseen, overwritten, missed>>
        /\ \A s \in Tasks : s # t => task'[s] = task[s]
    BY <1>0, QuietMoves DEF Load
  <1>2. task[t] \in LoadRow
    BY <1>0, Loading DEF Load, TypeOK
  <1>3. PICK r \in TaskRow :
             /\ Goes(t, r)
             /\ \/ r = Idle
                \/ /\ r \in CopyRow /\ r.op = task[t].op /\ r.copy = rows[task[t].id]
                   /\ r.pc = AfterLoad(task[t], rows[task[t].id])
                   /\ r.op = "restatus" => r.status = task[t].status
    BY <1>0, LoadGoes
  <1>4. ~Claims(r)
    <2>1. CASE r = Idle
      BY <2>1, WhoClaims
    <2>2. CASE r # Idle /\ r.op \in {"approve", "relink"}
      <3>1. r.pc = "check"
        BY <1>3, <2>2 DEF AfterLoad
      <3> QED BY <3>1, WhoClaims
    <2>3. CASE r # Idle /\ r.op = "restatus"
      <3>1. r.pc = IF r.status = "active" /\ r.copy.status # "active" THEN "check" ELSE "save"
        BY <1>3, <2>3 DEF AfterLoad
      <3>2. r.pc = "save" => ~(r.status = "active" /\ r.copy.status # "active")
        BY <3>1
      <3>3. r \notin InsertShape
        BY <1>3, <2>3, WhoClaims
      <3> QED BY <2>3, <3>1, <3>2, <3>3, WhoClaims DEF Claims
    <2>4. CASE r # Idle /\ r.op \notin {"approve", "relink", "restatus"}
      <3>1. r.op \in {"reject", "touch", "pay", "import", "recommend", "promote"}
        BY <1>2, <1>3, <2>4 DEF LoadRow
      <3> QED BY <3>1, WhoClaims
    <2> QED BY <2>1, <2>2, <2>3, <2>4
  <1>5. task'[t] = r
    BY <1>0, <1>3, Going
  <1> QED BY <1>0, <1>1, <1>4, <1>5, SearchedWhen

\* The search finds no other active row of the link; for an edit, no other row at all.
LEMMA SearchIsClear ==
    ASSUME TypeOK, NEW q \in CopyRow, q.pc = "check", ~Refused(q)
    PROVE  Of(LinkOf(q), q.id, "active") = {}
  <1>1. q.id \in Nat /\ q.id \in Ids /\ q.copy \in Row
    BY IdsAreNumbers, WhoHasCopies DEF TaskRow
  <1>2. CASE q.op = "relink"
    <2>1. q.link \in Links
      BY <1>2 DEF CopyRow
    <2>2. Match(q.link, q.id) = 0
      BY <1>2 DEF Refused
    <2>3. \A i \in Present \ {q.id} : rows[i].link # q.link
      BY <1>1, <2>1, <2>2, MatchFinds
    <2> QED BY <1>2, <2>3 DEF Of, LinkOf
  <1>3. CASE q.op # "relink"
    <2> DEFINE l == q.copy.link
    <2>1. l \in Links /\ LinkOf(q) = l
      BY <1>1, <1>3 DEF Row, LinkOf
    <2>2. Match(l, q.id) = 0 \/ rows[Match(l, q.id)].status # "active"
      BY <1>3 DEF Refused, HasActive
    <2> HIDE DEF l
    <2>3. CASE Match(l, q.id) = 0
      <3>1. \A i \in Present \ {q.id} : rows[i].link # l
        BY <1>1, <2>1, <2>3, MatchFinds
      <3> QED BY <2>1, <3>1 DEF Of
    <2>4. CASE Match(l, q.id) # 0
      <3>1. Of(l, q.id, "active") # {} => rows[Match(l, q.id)].status = "active"
        BY <1>1, <2>1, <2>4, MatchFinds
      <3> QED BY <2>1, <2>2, <2>4, <3>1
    <2> QED BY <2>3, <2>4
  <1> QED BY <1>2, <1>3

LEMMA CheckKeepsLinks ==
    ASSUME LinksKnown, NEW t \in Tasks, Check(t)
    PROVE  LinksKnown'
  <1>0. TypeOK /\ CopiesKnown' /\ TypeOK'
    BY QuietKeepsCopies DEF LinksKnown, CopiesKnown
  <1>1. /\ UNCHANGED <<rows, unseen, overwritten>> /\ missed' = missed \ {t}
        /\ \A s \in Tasks : s # t => task'[s] = task[s]
    BY <1>0, QuietMoves DEF Check
  <1>2. task[t] \in CopyRow /\ task[t].pc = "check"
    BY <1>0, Holding DEF Check, TypeOK
  <1>3. ASSUME NEW pc \in {"save", "reload"}, Goes(t, [task[t] EXCEPT !.pc = pc]),
               [task[t] EXCEPT !.pc = pc] \in CopyRow, ~Refused(task[t])
        PROVE  \A q \in TaskRow : q = task'[t] => Clear(q)
    <2> DEFINE next == [task[t] EXCEPT !.pc = pc]
    <2>1. LinkOf(next) = LinkOf(task[t]) /\ next.id = task[t].id
      BY <1>2 DEF CopyRow, LinkOf
    <2>2. next \in CopyRow /\ Goes(t, next)
      BY <1>3
    <2> HIDE DEF next
    <2>3. task'[t] = next
      BY <1>0, <2>2, Going DEF TaskRow
    <2>4. Of(LinkOf(task[t]), task[t].id, "active") = {}
      BY <1>0, <1>2, <1>3, SearchIsClear
    <2> QED BY <2>1, <2>2, <2>3, <2>4 DEF Clear, Claimed, Own
  <1>4. CASE Goes(t, Idle)
    <2>1. task'[t] = Idle
      BY <1>0, <1>4, IdleShape, Going
    <2>2. ~Claims(Idle)
      BY IdleShape, WhoClaims
    <2> QED BY <1>0, <1>1, <2>1, <2>2, SearchedWhen
  <1>5. CASE ~Goes(t, Idle)
    <2>1. \A q \in TaskRow : q = task'[t] => Clear(q)
      BY <1>0, <1>3, <1>5, CheckGoes
    <2> QED BY <1>0, <1>1, <2>1, SearchedWhen
  <1> QED BY <1>4, <1>5

LEMMA ReloadKeepsLinks ==
    ASSUME LinksKnown, NEW t \in Tasks, Reload(t)
    PROVE  LinksKnown'
  <1>0. TypeOK /\ CopiesKnown' /\ TypeOK'
    BY QuietKeepsCopies DEF LinksKnown, CopiesKnown
  <1> DEFINE q == task[t]
             next == [q EXCEPT !.pc = "resave", !.copy = rows[q.id]]
  <1>1. /\ UNCHANGED <<rows, unseen, overwritten>>
        /\ missed' = IF rows[q.id] # NoRow /\ rows[q.id].link # q.copy.link THEN missed \union {t} ELSE missed
        /\ \A s \in Tasks : s # t => task'[s] = task[s]
    BY <1>0, QuietMoves DEF Reload
  <1>2. /\ q \in CopyRow /\ q.op = "approve" /\ q.pc = "reload"
        /\ \/ Goes(t, Idle)
           \/ rows[q.id] # NoRow /\ Goes(t, next) /\ next \in CopyRow
    BY <1>0, ReloadGoes
  <1>3. CASE Goes(t, Idle)
    <2>1. task'[t] = Idle
      BY <1>0, <1>3, IdleShape, Going
    <2>2. ~Claims(Idle)
      BY IdleShape, WhoClaims
    <2> QED BY <1>0, <1>1, <2>1, <2>2, SearchedWhen
  <1>4. CASE rows[q.id] # NoRow /\ Goes(t, next) /\ next \in CopyRow
    <2>1. next.op = "approve" /\ next.copy = rows[q.id] /\ next.id = q.id
      BY <1>2 DEF CopyRow
    <2> HIDE DEF next
    <2>2. task'[t] = next
      BY <1>0, <1>4, Going DEF TaskRow
    <2>3. ASSUME t \notin missed' PROVE Clear(next)
      <3>1. t \notin missed /\ rows[q.id].link = q.copy.link
        BY <1>1, <1>4, <2>3
      <3>2. Claims(q) /\ Claimed(q) = q.copy.link /\ Own(q) = q.id
        BY <1>2 DEF Claims, Claimed, Own, LinkOf
      <3>3. Clear(q)
        BY <1>0, <3>1, <3>2 DEF LinksKnown, Searched, TypeOK
      <3>4. Claimed(next) = Claimed(q) /\ Own(next) = Own(q)
        BY <1>4, <2>1, <3>1, <3>2 DEF Claimed, Own, LinkOf
      <3> QED BY <3>3, <3>4 DEF Clear
    <2> QED BY <1>0, <1>1, <2>2, <2>3, SearchedWhen
  <1> QED BY <1>2, <1>3, <1>4

LEMMA RecommendKeepsLinks ==
    ASSUME LinksKnown, NEW t \in Tasks, AskRecommended(t) \/ RecordRecommendation(t)
    PROVE  LinksKnown'
  <1>0. TypeOK /\ CopiesKnown' /\ TypeOK'
    BY QuietKeepsCopies DEF LinksKnown, CopiesKnown
  <1>1. /\ UNCHANGED <<rows, unseen, overwritten, missed>>
        /\ \A s \in Tasks : s # t => task'[s] = task[s]
        /\ task'[t] = Idle \/ task'[t].op = task[t].op
    BY <1>0, QuietMoves DEF AskRecommended, RecordRecommendation
  <1>2. task[t].op = "recommend"
    BY <1>0, RecommendGoes
  <1>3. \A q \in TaskRow : q = task'[t] => ~Claims(q)
    BY <1>1, <1>2, WhoClaims
  <1> QED BY <1>0, <1>1, <1>3, SearchedWhen

LEMMA InsertKeepsLinks ==
    ASSUME LinksKnown, NEW t \in Tasks, InsertRow(t)
    PROVE  LinksKnown'
  <1> DEFINE row == NewRow(task[t].link, IF task[t].op = "submit" THEN "pending" ELSE "active")
  <1>0. TypeOK /\ CopiesKnown' /\ TypeOK'
    BY WriteKeepsCopies DEF LinksKnown, CopiesKnown
  <1>1. /\ task[t] \in InsertShape /\ row \in Row /\ used + 1 \in Ids /\ Writes(t, used + 1, row)
        /\ \A s \in Tasks : task'[s] # task[s] =>
             \/ task'[s] \in LoadRow
             \/ s = t /\ task'[s].pc = "check"
    BY <1>0, InsertGoes
  <1>2. task'[t] # task[t]
    BY <1>0, InsertMoves
  <1>3. row.status # "active" \/ (Claims(task[t]) /\ row.link = Claimed(task[t]) /\ Own(task[t]) = 0)
    <2>1. task[t] \notin CopyRow
      BY <1>0, <1>1, WhoClaims DEF TypeOK
    <2>2. task[t].op \in {"submit", "admin"}
      BY <1>1 DEF InsertShape
    <2> QED BY <1>1, <2>1, <2>2 DEF NewRow, Claims, Claimed, Own
  <1> HIDE DEF row
  <1>4. OneActivePerLink'
    BY <1>1, <1>3, WriteKeepsOne
  <1>5. Searched'
    <2> SUFFICES ASSUME NEW s \in Tasks, s \notin missed', NEW q \in TaskRow, q = task'[s], Claims(q)
                 PROVE  Clear(q)'
      BY DEF Searched
    <2>1. task'[s] = task[s] /\ s # t
      BY <1>1, <1>2, WhoClaims
    <2> QED BY <1>1, <2>1, WriteKeepsOthers
  <1> QED BY <1>0, <1>4, <1>5 DEF LinksKnown

LEMMA SaveKeepsLinks ==
    ASSUME LinksKnown, NEW t \in Tasks, Save(t) \/ SaveAgain(t)
    PROVE  LinksKnown'
  <1> DEFINE q == task[t]
             row == IF q.pc = "save" THEN Saved(q) ELSE q.copy
             next == [q EXCEPT !.pc = "save"]
  <1>0. TypeOK /\ CopiesKnown' /\ TypeOK'
    BY WriteKeepsCopies DEF LinksKnown, CopiesKnown
  <1>1. /\ q \in CopyRow /\ q.id \in Ids /\ q.copy \in Row /\ row \in Row
        /\ Writes(t, q.id, row)
        /\ q.pc = "save" \/ q.pc \in {"resave", "collect"}
    <2>1. CASE Save(t)
      BY <1>0, <2>1, SaveGoes
    <2>2. CASE SaveAgain(t)
      BY <1>0, <2>2, SaveAgainGoes
    <2> QED BY <2>1, <2>2
  <1>2. /\ \A s \in Tasks : s # t => task'[s] = task[s]
        /\ \/ \A r \in TaskRow : r = task'[t] => ~Claims(r)
           \/ q.op = "approve" /\ q.pc = "resave" /\ task'[t] = next /\ next \in CopyRow
    <2>1. CASE Save(t)
      <3>1. PICK r \in TaskRow : Goes(t, r) /\ (r = Idle \/ r \in LoadRow \/ r.pc = "collect")
        BY <1>0, <2>1, SaveGoes
      <3>2. ~Claims(r)
        BY <3>1, WhoClaims
      <3>3. task'[t] = r /\ \A s \in Tasks : s # t => task'[s] = task[s]
        BY <1>0, <3>1, Going
      <3> QED BY <3>2, <3>3
    <2>2. CASE SaveAgain(t)
      <3>1. Goes(t, Idle) \/ (q.op = "approve" /\ q.pc = "resave" /\ Goes(t, next) /\ next \in CopyRow)
        BY <1>0, <2>2, SaveAgainGoes
      <3> HIDE DEF next
      <3>2. next \in CopyRow => next \in TaskRow
        BY DEF TaskRow
      <3>3. ~Claims(Idle)
        BY IdleShape, WhoClaims
      <3> QED BY <1>0, <3>1, <3>2, <3>3, IdleShape, Going
    <2> QED BY <2>1, <2>2
  <1>3. \/ row.status # "active"
        \/ Claims(q) /\ row.link = Claimed(q) /\ Own(q) = q.id
        \/ row.status = q.copy.status /\ row.link = q.copy.link
    BY <1>1, SavedClaim DEF Own
  <1>4. q.op = "approve" /\ q.pc = "resave" /\ next \in CopyRow =>
            /\ Claims(q) /\ Claimed(next) = Claimed(q) /\ Own(next) = Own(q) /\ Own(q) = q.id
    <2>1. next.op = q.op /\ next.id = q.id /\ next.copy = q.copy
      BY <1>1 DEF CopyRow
    <2> HIDE DEF next
    <2> QED BY <1>1, <2>1 DEF Claims, Claimed, Own, LinkOf
  <1> HIDE DEF row, next
  <1>5. OneActivePerLink'
    BY <1>1, <1>3, WriteKeepsOne
  <1>6. Searched'
    <2> SUFFICES ASSUME NEW s \in Tasks, s \notin missed', NEW r \in TaskRow, r = task'[s], Claims(r)
                 PROVE  Clear(r)'
      BY DEF Searched
    <2>1. CASE s # t
      BY <1>1, <1>2, <2>1, WriteKeepsOthers
    <2>2. CASE s = t
      <3>1. r = next /\ Claims(q) /\ Claimed(r) = Claimed(q) /\ Own(r) = Own(q) /\ Own(q) = q.id
        BY <1>2, <1>4, <2>2
      <3>2. t \notin missed
        BY <1>1, <2>2 DEF Writes
      <3>3. Clear(q)
        BY <1>0, <3>1, <3>2 DEF LinksKnown, Searched, TypeOK
      <3> SUFFICES ASSUME NEW j \in Of(Claimed(r), Own(r), "active")' PROVE FALSE
        BY DEF Clear
      <3>4. j \in Of(Claimed(r), Own(r), "active")
        BY <1>0, <1>1, <3>1, OfAfterSave
      <3> QED BY <3>1, <3>3, <3>4 DEF Clear
    <2> QED BY <2>1, <2>2
  <1> QED BY <1>0, <1>5, <1>6 DEF LinksKnown

LEMMA InitLinked == Init => LinksKnown
  <1> SUFFICES ASSUME Init PROVE LinksKnown
    OBVIOUS
  <1>1. CopiesKnown
    BY InitKnows
  <1>2. PICK first \in FirstRows : rows = [i \in Ids |-> IF i \in DOMAIN first THEN first[i] ELSE NoRow]
    BY DEF Init
  <1>3. \A i \in Present : i \in DOMAIN first /\ rows[i] = first[i]
    BY <1>2 DEF Present
  <1>4. OneActivePerLink
    BY <1>3, RegistryAssumption DEF OneActivePerLink
  <1>5. Searched
    BY IdleShape, WhoClaims DEF Searched, Init
  <1> QED BY <1>1, <1>4, <1>5 DEF LinksKnown

LEMMA NextLinked == LinksKnown /\ [Next]_vars => LinksKnown'
  <1> SUFFICES ASSUME LinksKnown, [Next]_vars PROVE LinksKnown'
    OBVIOUS
  <1>0. CopiesKnown' /\ TypeOK
    BY NextKnows DEF LinksKnown, CopiesKnown
  <1>1. ASSUME NEW c \in Clients,
               \/ Submit(c) \/ CreateByAdmin(c) \/ RegisterCandidate(c)
               \/ BeginApprove(c) \/ BeginReject(c) \/ BeginTouch(c) \/ BeginEdit(c)
               \/ BeginRecommend(c) \/ BeginPayment(c) \/ BeginPromote(c)
        PROVE  LinksKnown'
    BY <1>0, <1>1, BeginShape, StartKeepsLinks
  <1>2. CASE UNCHANGED <<task, missed, unseen, overwritten>>
             /\ \A i \in Present' : i \in Present /\ rows'[i] = rows[i]
    <2>1. OneActivePerLink'
      BY <1>2 DEF LinksKnown, OneActivePerLink
    <2>2. Searched'
      <3> SUFFICES ASSUME NEW s \in Tasks, s \notin missed', NEW q \in TaskRow, q = task'[s], Claims(q)
                   PROVE  Clear(q)'
        BY DEF Searched
      <3>1. Clear(q)
        BY <1>2 DEF LinksKnown, Searched
      <3> QED BY <1>2, <3>1 DEF Clear, Of
    <2> QED BY <1>0, <2>1, <2>2 DEF LinksKnown
  <1>3. CASE RemoveRow
    BY <1>0, <1>2, <1>3 DEF RemoveRow, Present, TypeOK
  <1>4. CASE NextDay \/ UNCHANGED vars
    BY <1>2, <1>4 DEF NextDay, vars, tableVars, historyVars, Present
  <1>5. CASE Restart
    <2>1. OneActivePerLink'
      BY <1>5 DEF Restart, tableVars, LinksKnown, OneActivePerLink, Present
    <2>2. Searched'
      <3> SUFFICES ASSUME NEW s \in Tasks, NEW q \in TaskRow, q = task'[s], Claims(q)
                   PROVE  FALSE
        BY DEF Searched
      <3>1. q = Idle
        BY <1>5 DEF Restart
      <3> QED BY <3>1, WhoClaims
    <2> QED BY <1>0, <2>1, <2>2 DEF LinksKnown
  <1> QED BY <1>1, <1>3, <1>4, <1>5, LoadKeepsLinks, CheckKeepsLinks, ReloadKeepsLinks, RecommendKeepsLinks,
             InsertKeepsLinks, SaveKeepsLinks DEF Next

\* However requests that register, approve, activate and edit links overtake each other,
\* a second active row of a link comes only from a search that another request
\* overtook, or from the save of an older copy.
THEOREM OneActiveRow == Spec => []OneActivePerLink
  <1>1. LinksKnown => OneActivePerLink
    BY DEF LinksKnown
  <1> QED BY <1>1, InitLinked, NextLinked, PTL DEF Spec
===============================================================================
