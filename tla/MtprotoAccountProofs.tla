------------------------- MODULE MtprotoAccountProofs -------------------------
(***************************************************************************)
(* What holds of the collecting account for any callers, limits, days and  *)
(* restarts: how far the limits may be passed, and that a FloodWait is     *)
(* respected.                                                              *)
(***************************************************************************)
EXTENDS MtprotoAccount, FiniteSetTheorems, TLAPS

-----------------------------------------------------------------------------
(* Shape *)

Account == [stopped : BOOLEAN, error : Reasons, day : Nat, used : Counts, until : Nat, streak : Nat]
Joins == [day : Nat, today : Nat, last : Nat, blocked : BOOLEAN]
Call == [op : Ops \cup {"none"}, at : {"idle", "ready", "turn", "sent", "saving"},
         m : Methods, stored : BOOLEAN, again : BOOLEAN, until : Nat]
PrepState == [at : {"idle", "read", "clear"}, until : Nat]

LEMMA Keys == DOMAIN NoCounts = {"all", "resolve", "search", "check"} /\ NoCounts \in Counts
  BY DEF NoCounts, Counts

LEMMA Typed ==
    TypeOK <=>
      /\ now \in Nat /\ day \in Nat /\ row \in Nat /\ wait \in Nat
      /\ acc \in Account
      /\ connected \in BOOLEAN
      /\ joins \in Joins
      /\ req \in [Callers -> Call]
      /\ prep \in PrepState
      /\ cause \in Reasons
      /\ forgot \subseteq {"shorter", "overtaken", "unsaved"}
      /\ crowd \in Nat
      /\ ops \in 0..MaxOps /\ restarts \in 0..MaxRestarts
  BY DEF TypeOK, Account, Joins, Call, PrepState

LEMMA TypedNext ==
    TypeOK' <=> (
      /\ now \in Nat /\ day \in Nat /\ row \in Nat /\ wait \in Nat
      /\ acc \in Account
      /\ connected \in BOOLEAN
      /\ joins \in Joins
      /\ req \in [Callers -> Call]
      /\ prep \in PrepState
      /\ cause \in Reasons
      /\ forgot \subseteq {"shorter", "overtaken", "unsaved"}
      /\ crowd \in Nat
      /\ ops \in 0..MaxOps /\ restarts \in 0..MaxRestarts)'
  BY DEF TypeOK, Account, Joins, Call, PrepState

LEMMA IdleTyped == Idle \in Call /\ PrepIdle \in PrepState
  BY DEF Idle, Call, Methods, Limited, Never, PrepIdle, PrepState

LEMMA RolledTyped ==
    ASSUME NEW a \in Account, day \in Nat
    PROVE  /\ Rolled(a) \in Account
           /\ Rolled(a).until = a.until
           /\ Rolled(a).used = (IF a.day = day THEN a.used ELSE NoCounts)
  <1>1. NoCounts \in Counts /\ "none" \in Reasons
    BY Keys DEF Reasons
  <1> QED
    BY <1>1 DEF Rolled, Account

LEMMA LiftedTyped ==
    ASSUME NEW a \in Account
    PROVE  Lifted(a) \in Account /\ Lifted(a).until = a.until /\ Lifted(a).used = a.used
  <1>1. "none" \in Reasons
    BY DEF Reasons
  <1> QED
    BY <1>1 DEF Lifted, Account

LEMMA PreparedTyped ==
    ASSUME NEW a \in Account
    PROVE  Prepared(a) \in Account /\ Prepared(a).until = a.until /\ Prepared(a).used = a.used
  <1>1. {"none", "flood_wait"} \subseteq Reasons
    BY DEF Reasons
  <1> QED
    BY <1>1 DEF Prepared, Account

LEMMA CaughtTyped ==
    ASSUME NEW a \in Account, NEW op, NEW code
    PROVE  /\ Caught(a, op, code) \in Account
           /\ Caught(a, op, code).until = a.until /\ Caught(a, op, code).used = a.used
  <1>1. {"auth", "other"} \subseteq Reasons
    BY DEF Reasons
  <1> QED
    BY <1>1 DEF Caught, Account

\* An operation that fails leaves the account's counts and FloodWait as they were.
LEMMA FailsTyped ==
    ASSUME TypeOK, NEW c \in Callers, NEW a \in Account, NEW code, NEW why \in Reasons, Fails(c, a, code, why)
    PROVE  /\ acc' \in Account /\ acc'.until = a.until /\ acc'.used = a.used
           /\ cause' \in Reasons /\ connected' \in BOOLEAN
           /\ req' \in [Callers -> Call] /\ req' = [req EXCEPT ![c] = Idle]
  <1>1. "auth" \in Reasons /\ "none" \in Reasons
    BY DEF Reasons
  <1>2. connected' \in BOOLEAN
    BY Zenon DEF Fails
  <1>3. req' \in [Callers -> Call]
    BY Typed, IdleTyped DEF Fails
  <1> QED
    BY <1>1, <1>2, <1>3, CaughtTyped DEF Fails

LEMMA InitType == Init => TypeOK
  <1> SUFFICES ASSUME Init PROVE TypeOK
    OBVIOUS
  <1>1. acc \in Account
    BY Keys DEF Init, Account, Reasons, Never
  <1>2. joins \in Joins /\ req \in [Callers -> Call] /\ prep \in PrepState
    BY IdleTyped DEF Init, Joins, Never
  <1>3. 0 \in 0..MaxOps /\ 0 \in 0..MaxRestarts
    BY AccountAssumption
  <1> QED
    BY <1>1, <1>2, <1>3, Typed DEF Init, Never, Reasons

LEMMA BeginType ==
    ASSUME TypeOK, NEW c \in Callers, NEW op \in Ops, Begin(c, op)
    PROVE  TypeOK'
  <1> DEFINE a == Lifted(acc)
             b == IF op = "test" \/ op = "invite" THEN a ELSE Rolled(a)
  <1>1. a \in Account /\ b \in Account
    BY LiftedTyped, RolledTyped, Typed
  <1>2. acc' \in Account
    BY <1>1 DEF Begin
  <1>3. req' \in [Callers -> Call]
    <2>1. ASSUME NEW m \in First(op)
          PROVE  [Idle EXCEPT !.op = op, !.at = "ready", !.m = m, !.stored = (m = "full")] \in Call
      <3>1. m \in Methods
        BY DEF First, Methods, Limited
      <3>2. (m = "full") \in BOOLEAN
        OBVIOUS
      <3> QED
        BY <3>1, <3>2, IdleTyped, Zenon DEF Idle, Call, Never
    <2> QED
      BY <2>1, Typed DEF Begin
  <1>4. cause' \in Reasons
    BY Typed DEF Begin, Reasons
  <1>5. ops' \in 0..MaxOps
    <2>1. ops < MaxOps /\ ops' = ops + 1
      BY DEF Begin
    <2> QED
      BY <2>1, Typed, AccountAssumption
  <1> QED
    BY <1>2, <1>3, <1>4, <1>5, Typed, TypedNext DEF Begin

LEMMA SkipType ==
    ASSUME TypeOK, NEW c \in Callers, Skip(c)
    PROVE  TypeOK'
  <1>1. acc' \in Account
    BY LiftedTyped, RolledTyped, Typed DEF Skip
  <1>2. cause' \in Reasons
    BY Typed DEF Skip, Reasons
  <1>3. req' \in [Callers -> Call]
    BY Typed, IdleTyped DEF Skip
  <1> QED
    BY <1>1, <1>2, <1>3, Typed, TypedNext DEF Skip, bounds

\* The branches of call's tests: the request goes on to its turn, is refused by the limit of
\* searches, or fails with an account that still has its counts and its FloodWait.
LEMMA Requested ==
    ASSUME TypeOK, NEW c \in Callers, Request(c)
    PROVE  /\ acc' \in Account /\ acc'.until = acc.until /\ acc'.used = Rolled(acc).used
           /\ cause' \in Reasons /\ connected' \in BOOLEAN
           /\ \/ req' = [req EXCEPT ![c] = Idle]
              \/ /\ Refusal(Rolled(acc), req[c].m) = "none"
                 /\ req' = [req EXCEPT ![c].at = "turn"]
  <1> DEFINE a == Rolled(acc)
             r == Refusal(a, req[c].m)
             b == IF r = "daily_limit" THEN [a EXCEPT !.stopped = TRUE, !.error = "daily_limit"] ELSE a
  <1>0. "daily_limit" \in Reasons /\ "none" \in Reasons /\ cause \in Reasons /\ connected \in BOOLEAN
    BY Typed DEF Reasons
  <1>1. a \in Account /\ a.until = acc.until
    BY RolledTyped, Typed
  <1>2. b \in Account /\ b.until = acc.until /\ b.used = a.used
    BY <1>0, <1>1 DEF Account
  <1>3. CASE r = "none"
    BY <1>0, <1>1, <1>3 DEF Request
  <1>4. CASE r = "search_limit"
    BY <1>0, <1>1, <1>4 DEF Request
  <1>5. CASE r \notin {"none", "search_limit"}
    <2>1. PICK why \in Reasons : Fails(c, b, "other", why)
      BY <1>0, <1>5 DEF Request
    <2> QED
      BY <1>2, <2>1, FailsTyped
  <1> QED
    BY <1>3, <1>4, <1>5

LEMMA RequestType ==
    ASSUME TypeOK, NEW c \in Callers, Request(c)
    PROVE  TypeOK'
  <1>1. req' \in [Callers -> Call]
    <2>1. [req[c] EXCEPT !.at = "turn"] \in Call
      BY Typed DEF Call
    <2> QED
      BY <2>1, Requested, Typed, IdleTyped
  <1> QED
    BY <1>1, Requested, Typed, TypedNext DEF Request, bounds

LEMMA ConnectType ==
    ASSUME TypeOK, NEW c \in Callers, ConnectFails(c)
    PROVE  /\ TypeOK' /\ acc'.until = acc.until /\ acc'.used = acc.used
           /\ req' = [req EXCEPT ![c] = Idle]
  <1>0. {"auth", "other"} \subseteq Reasons /\ cause \in Reasons
    BY Typed DEF Reasons
  <1>1. PICK a, why : /\ a \in {[acc EXCEPT !.error = "other"], [acc EXCEPT !.stopped = TRUE, !.error = "auth"]}
                      /\ why \in {cause, "auth"} /\ Fails(c, a, "other", why)
    BY DEF ConnectFails
  <1>2. a \in Account /\ a.until = acc.until /\ a.used = acc.used /\ why \in Reasons
    BY <1>0, <1>1, Typed DEF Account
  <1>3. /\ acc' \in Account /\ acc'.until = a.until /\ acc'.used = a.used
        /\ cause' \in Reasons /\ connected' \in BOOLEAN
        /\ req' \in [Callers -> Call] /\ req' = [req EXCEPT ![c] = Idle]
    BY <1>1, <1>2, FailsTyped
  <1> QED
    BY <1>2, <1>3, Typed, TypedNext DEF ConnectFails, bounds

LEMMA PlusTyped ==
    ASSUME NEW u \in Counts, NEW m
    PROVE  /\ Plus(u, m) \in Counts
           /\ \A k \in DOMAIN NoCounts : Plus(u, m)[k] = u[k] + (IF k \in {"all", m} THEN 1 ELSE 0)
  BY DEF Plus, Counts

LEMMA SendType ==
    ASSUME TypeOK, NEW c \in Callers, Send(c)
    PROVE  TypeOK'
  <1>1. acc' \in Account
    <2>1. Plus(acc.used, req[c].m) \in Counts
      BY PlusTyped, Typed DEF Account
    <2> QED
      BY <2>1, Typed DEF Send, Account
  <1>2. req' \in [Callers -> Call]
    BY Typed DEF Send, Call
  <1> QED
    BY <1>1, <1>2, Typed, TypedNext DEF Send, hist, bounds

LEMMA AnswerType ==
    ASSUME TypeOK, NEW c \in Callers, NEW next \in Methods \cup {"end"}, Answer(c, next)
    PROVE  TypeOK'
  <1>1. acc' \in Account
    BY Typed DEF Answer, Account
  <1>2. req' \in [Callers -> Call]
    <2>1. ASSUME next # "end" PROVE [req[c] EXCEPT !.at = "ready", !.m = next, !.stored = FALSE, !.again = FALSE] \in Call
      BY <2>1, Typed DEF Call
    <2> QED
      BY <2>1, IdleTyped, Typed DEF Answer
  <1>3. joins' \in Joins
    <2>1. joins \in Joins /\ day \in Nat /\ now \in Nat
      BY Typed
    <2>2. joins.today + 1 \in Nat
      BY <2>1 DEF Joins
    <2>3. CASE Joined
      BY <2>1, <2>2, <2>3 DEF Joined, Joins
    <2>4. CASE StartJoin
      BY <2>1, <2>4 DEF StartJoin, Joins
    <2> QED
      BY <2>1, <2>3, <2>4 DEF Answer
  <1>4. crowd' \in Nat
    <2>1. Joining \in SUBSET Callers /\ IsFiniteSet(Callers)
      BY AccountAssumption DEF Joining
    <2>2. Cardinality(Joining) \in Nat
      BY <2>1, FS_Subset, FS_CardinalityType
    <2> QED
      BY <2>2, Typed DEF Answer
  <1> QED
    BY <1>1, <1>2, <1>3, <1>4, Typed, TypedNext DEF Answer, hist, bounds

LEMMA StoredInvalidType ==
    ASSUME TypeOK, NEW c \in Callers, StoredInvalid(c)
    PROVE  TypeOK'
  <1>1. acc' \in Account
    BY Typed DEF StoredInvalid, Account
  <1>2. req' \in [Callers -> Call]
    <2>1. ASSUME NEW m \in {"check", "resolve"}
          PROVE  [req[c] EXCEPT !.at = "ready", !.stored = FALSE, !.again = FALSE, !.m = m] \in Call
      BY <2>1, Typed DEF Call, Methods, Limited
    <2> QED
      BY <2>1, Typed DEF StoredInvalid
  <1> QED
    BY <1>1, <1>2, Typed, TypedNext DEF StoredInvalid, hist, bounds

\* A request that times out ends its operation.
LEMMA TimedOutType ==
    ASSUME TypeOK, NEW c \in Callers, TimedOut(c)
    PROVE  /\ TypeOK' /\ acc'.until = acc.until /\ acc'.used = acc.used
           /\ req' = [req EXCEPT ![c] = Idle]
  <1>0. {"streak", "timeout"} \subseteq Reasons /\ cause \in Reasons
    BY Typed DEF Reasons
  <1> DEFINE streak == acc.streak + 1
             a == IF streak >= StreakLimit
                  THEN [acc EXCEPT !.streak = streak, !.stopped = TRUE, !.error = "streak"]
                  ELSE [acc EXCEPT !.streak = streak, !.error = "timeout"]
             why == IF streak >= StreakLimit THEN "streak" ELSE cause
  <1>1. a \in Account /\ a.until = acc.until /\ a.used = acc.used /\ why \in Reasons
    <2>1. streak \in Nat
      BY Typed DEF Account
    <2> HIDE DEF streak
    <2> QED
      BY <1>0, <2>1, Typed DEF Account
  <1>2. Fails(c, a, "timeout", why)
    BY DEF TimedOut
  <1> HIDE DEF a, why
  <1>3. /\ acc' \in Account /\ acc'.until = a.until /\ acc'.used = a.used
        /\ cause' \in Reasons /\ connected' \in BOOLEAN
        /\ req' \in [Callers -> Call] /\ req' = [req EXCEPT ![c] = Idle]
    BY <1>1, <1>2, FailsTyped
  <1> QED
    BY <1>1, <1>3, Typed, TypedNext DEF TimedOut, bounds

LEMMA RefusedType ==
    ASSUME TypeOK, NEW c \in Callers, NEW code, Refused(c, code)
    PROVE  /\ TypeOK' /\ acc'.until = acc.until /\ acc'.used = acc.used
           /\ req' = [req EXCEPT ![c] = Idle]
  <1> DEFINE a == [acc EXCEPT !.streak = 0]
  <1>1. a \in Account /\ a.until = acc.until /\ a.used = acc.used /\ cause \in Reasons
    BY Typed DEF Account
  <1>2. joins' \in Joins
    <2>1. (joins.blocked \/ code = "too_much") \in BOOLEAN
      OBVIOUS
    <2> QED
      BY <2>1, Typed, Zenon DEF Refused, Joins
  <1>3. /\ acc' \in Account /\ acc'.until = acc.until /\ acc'.used = acc.used
        /\ cause' \in Reasons /\ connected' \in BOOLEAN
        /\ req' \in [Callers -> Call] /\ req' = [req EXCEPT ![c] = Idle]
    <2>1. CASE code \in {"invalid", "too_much"}
      BY <1>1, <2>1, Typed, IdleTyped DEF Refused
    <2>2. CASE code \notin {"invalid", "too_much"}
      BY <1>1, <2>2, FailsTyped DEF Refused
    <2> QED
      BY <2>1, <2>2
  <1> QED
    BY <1>2, <1>3, Typed, TypedNext DEF Refused, bounds

LEMMA FloodAgainType ==
    ASSUME TypeOK, NEW c \in Callers, FloodAgain(c)
    PROVE  /\ TypeOK' /\ acc'.until = acc.until /\ acc'.used = acc.used
           /\ req' = [req EXCEPT ![c] = Idle]
  <1> DEFINE a == [acc EXCEPT !.streak = 0]
  <1>1. a \in Account /\ a.until = acc.until /\ a.used = acc.used /\ cause \in Reasons
    BY Typed DEF Account
  <1>2. Fails(c, a, "other", cause)
    BY DEF FloodAgain
  <1>3. /\ acc' \in Account /\ acc'.until = a.until /\ acc'.used = a.used
        /\ cause' \in Reasons /\ connected' \in BOOLEAN
        /\ req' \in [Callers -> Call] /\ req' = [req EXCEPT ![c] = Idle]
    BY <1>1, <1>2, FailsTyped
  <1> QED
    BY <1>1, <1>3, Typed, TypedNext DEF FloodAgain, bounds

LEMMA FloodShortType ==
    ASSUME TypeOK, NEW c \in Callers, FloodShort(c)
    PROVE  TypeOK'
  <1>1. req' \in [Callers -> Call]
    BY Typed DEF FloodShort, Call
  <1> QED
    BY <1>1, Typed, TypedNext DEF FloodShort, hist, bounds

LEMMA FloodLongType ==
    ASSUME TypeOK, NEW c \in Callers, NEW w \in FloodWaits, FloodLong(c, w)
    PROVE  TypeOK'
  <1>1. now + w \in Nat
    BY Typed, AccountAssumption
  <1>2. acc' \in Account
    BY <1>1, Typed DEF FloodLong, Account, Reasons
  <1>3. req' \in [Callers -> Call]
    <2>1. [req[c] EXCEPT !.at = "saving", !.until = now + w] \in Call
      BY <1>1, Typed DEF Call
    <2> QED
      BY <2>1, Typed DEF FloodLong
  <1>4. wait' \in Nat /\ cause' \in Reasons /\ forgot' \subseteq {"shorter", "overtaken", "unsaved"}
    BY <1>1, Typed DEF FloodLong, Reasons
  <1> QED
    BY <1>2, <1>3, <1>4, Typed, TypedNext DEF FloodLong, bounds

\* Saved or not, the operation that met the long FloodWait ends.
LEMMA FloodSavedType ==
    ASSUME TypeOK, NEW c \in Callers, FloodSaved(c) \/ FloodNotSaved(c)
    PROVE  /\ TypeOK' /\ acc'.until = acc.until /\ acc'.used = acc.used
           /\ req' = [req EXCEPT ![c] = Idle]
  <1>1. acc \in Account /\ cause \in Reasons
    BY Typed
  <1>2. PICK code : Fails(c, acc, code, cause)
    BY DEF FloodSaved, FloodNotSaved
  <1>3. /\ acc' \in Account /\ acc'.until = acc.until /\ acc'.used = acc.used
        /\ cause' \in Reasons /\ connected' \in BOOLEAN
        /\ req' \in [Callers -> Call] /\ req' = [req EXCEPT ![c] = Idle]
    BY <1>1, <1>2, FailsTyped
  <1>4. row' \in Nat /\ forgot' \subseteq {"shorter", "overtaken", "unsaved"}
    BY Typed DEF FloodSaved, FloodNotSaved, Call
  <1> QED
    BY <1>3, <1>4, Typed, TypedNext DEF FloodSaved, FloodNotSaved, bounds

\* The nightly run's preparation may take the row's FloodWait, never the counts.
LEMMA DecideTyped ==
    ASSUME TypeOK, NEW a \in Account, Decide(a)
    PROVE  /\ acc' \in Account /\ acc'.until = a.until /\ acc'.used = a.used
           /\ cause' \in Reasons /\ prep' \in PrepState
  BY PreparedTyped, IdleTyped, Typed DEF Decide, Reasons

LEMMA PrepareType ==
    ASSUME TypeOK, Prepare
    PROVE  TypeOK' /\ acc'.used = acc.used
  <1>1. CASE PrepareBegins
    BY <1>1, Typed, TypedNext DEF PrepareBegins, hist, bounds, Account, PrepState
  <1>2. CASE PrepareReads
    <2>1. forgot' \subseteq {"shorter", "overtaken", "unsaved"}
      BY <1>2, Typed DEF PrepareReads
    <2>2. /\ acc' \in Account /\ acc'.used = acc.used
          /\ cause' \in Reasons /\ prep' \in PrepState
      <3>1. CASE prep.until # Never /\ ~Blocking(prep.until)
        BY <1>2, <3>1, Typed DEF PrepareReads, Account, PrepState, Never
      <3>2. CASE ~(prep.until # Never /\ ~Blocking(prep.until))
        <4>1. [acc EXCEPT !.until = prep.until] \in Account
          BY Typed DEF Account, PrepState
        <4>2. Decide([acc EXCEPT !.until = prep.until])
          BY <1>2, <3>2 DEF PrepareReads
        <4>3. [acc EXCEPT !.until = prep.until].used = acc.used
          BY Typed DEF Account
        <4> QED
          BY <4>1, <4>2, <4>3, DecideTyped
      <3> QED
        BY <3>1, <3>2
    <2> QED
      BY <1>2, <2>1, <2>2, Typed, TypedNext DEF PrepareReads, bounds
  <1>3. CASE PrepareClears
    <2>1. forgot' \subseteq {"shorter", "overtaken", "unsaved"} /\ row' \in Nat
      BY <1>3, Typed DEF PrepareClears, Never
    <2>2. /\ acc' \in Account /\ acc'.used = acc.used
          /\ cause' \in Reasons /\ prep' \in PrepState
      BY <1>3, DecideTyped, Typed DEF PrepareClears
    <2> QED
      BY <1>3, <2>1, <2>2, Typed, TypedNext DEF PrepareClears, bounds
  <1> QED
    BY <1>1, <1>2, <1>3 DEF Prepare

\* A restart goes on from the counts of an earlier moment, with nobody under way.
LEMMA RestartType ==
    ASSUME TypeOK, Restart
    PROVE  /\ TypeOK'
           /\ req' = [c \in Callers |-> Idle]
           /\ \A k \in DOMAIN NoCounts : acc'.used[k] <= acc.used[k]
           /\ joins'.today <= joins.today /\ crowd' = crowd
           /\ acc'.until = IF Blocking(row) THEN row ELSE Never
           /\ forgot' = forgot \cup (IF acc.until > row /\ acc.until > now THEN {"unsaved"} ELSE {})
  <1>1. PICK used \in Counts, today \in 0..(IF joins.day = day THEN joins.today ELSE 0) :
               /\ \A k \in DOMAIN NoCounts : used[k] <= acc.used[k]
               /\ Restarted(used, today)
    <2>1. /\ acc.used.all \in Nat /\ acc.used.resolve \in Nat
          /\ acc.used.search \in Nat /\ acc.used.check \in Nat
      BY Keys, Typed DEF Account, Counts
    <2>2. PICK all \in 0..(IF acc.day = day THEN acc.used.all ELSE 0), resolve \in 0..acc.used.resolve,
               search \in 0..acc.used.search, check \in 0..acc.used.check,
               today \in 0..(IF joins.day = day THEN joins.today ELSE 0) :
                 Restarted([all |-> all, resolve |-> resolve, search |-> search, check |-> check], today)
      BY DEF Restart
    <2>3. /\ all \in Nat /\ all <= acc.used.all /\ resolve \in Nat /\ resolve <= acc.used.resolve
          /\ search \in Nat /\ search <= acc.used.search /\ check \in Nat /\ check <= acc.used.check
      BY <2>1, <2>2
    <2> DEFINE used == [all |-> all, resolve |-> resolve, search |-> search, check |-> check]
    <2>4. used \in Counts
      BY <2>3, Keys DEF Counts
    <2>5. \A k \in DOMAIN NoCounts : used[k] <= acc.used[k]
      BY <2>3, Keys
    <2>6. Restarted(used, today) /\ today \in 0..(IF joins.day = day THEN joins.today ELSE 0)
      BY <2>2
    <2> HIDE DEF used
    <2> QED
      BY <2>4, <2>5, <2>6
  <1>2. used \in Counts /\ \A k \in DOMAIN NoCounts : used[k] <= acc.used[k]
    BY <1>1
  <1>3. today \in Nat /\ today <= joins.today
    BY <1>1, Typed DEF Joins
  <1> DEFINE until == IF Blocking(row) THEN row ELSE Never
             full == used.all >= DailyLimit
             stopped == full \/ until # Never
             error == IF full THEN "daily_limit" ELSE IF until # Never THEN "flood_wait" ELSE "none"
  <1>4. acc' = [stopped |-> stopped, day |-> day, used |-> used, until |-> until, streak |-> 0, error |-> error]
    BY <1>1 DEF Restarted
  <1>5. until \in Nat /\ stopped \in BOOLEAN /\ error \in Reasons
    BY Typed DEF Never, Reasons
  <1> HIDE DEF full, stopped, error
  <1>6. acc' \in Account /\ acc'.used = used /\ acc'.until = until
    BY <1>2, <1>4, <1>5, Typed, Zenon DEF Account
  <1>7. joins' \in Joins /\ joins'.today = today
    BY <1>1, <1>3, Typed DEF Restarted, Joins, Never
  <1>8. cause' \in Reasons
    <2>1. acc'.error \in Reasons
      BY <1>6 DEF Account
    <2> QED
      BY <1>1, <2>1 DEF Restarted
  <1>9. restarts' \in 0..MaxRestarts /\ ops' = ops
    BY Typed, AccountAssumption DEF Restart
  <1>10. /\ req' = [c \in Callers |-> Idle] /\ prep' = PrepIdle /\ row' = until /\ connected' = FALSE
         /\ forgot' = forgot \cup (IF acc.until > row /\ acc.until > now THEN {"unsaved"} ELSE {})
         /\ UNCHANGED <<now, day, wait, crowd>>
    BY <1>1 DEF Restarted, Restart
  <1>11. req' \in [Callers -> Call] /\ prep' \in PrepState /\ row' \in Nat /\ connected' \in BOOLEAN
         /\ forgot' \subseteq {"shorter", "overtaken", "unsaved"}
    BY <1>5, <1>10, IdleTyped, Typed
  <1>12. TypeOK'
    BY <1>6, <1>7, <1>8, <1>9, <1>10, <1>11, Typed, TypedNext
  <1> QED
    BY <1>2, <1>3, <1>6, <1>7, <1>10, <1>12

LEMMA NextType == TypeOK /\ [Next]_vars => TypeOK'
  <1> SUFFICES ASSUME TypeOK, [Next]_vars PROVE TypeOK'
    OBVIOUS
  <1>1. ASSUME NEW c \in Callers, NEW op \in Ops, Begin(c, op) PROVE TypeOK'
    BY <1>1, BeginType
  <1>2. ASSUME NEW c \in Callers, Skip(c) PROVE TypeOK'
    BY <1>2, SkipType
  <1>3. ASSUME NEW c \in Callers, Request(c) PROVE TypeOK'
    BY <1>3, RequestType
  <1>4. ASSUME NEW c \in Callers, ConnectFails(c) PROVE TypeOK'
    BY <1>4, ConnectType
  <1>5. ASSUME NEW c \in Callers, Send(c) PROVE TypeOK'
    BY <1>5, SendType
  <1>6. ASSUME NEW c \in Callers, NEW next \in Methods \cup {"end"}, Answer(c, next) PROVE TypeOK'
    BY <1>6, AnswerType
  <1>7. ASSUME NEW c \in Callers, StoredInvalid(c) PROVE TypeOK'
    BY <1>7, StoredInvalidType
  <1>8. ASSUME NEW c \in Callers, TimedOut(c) PROVE TypeOK'
    BY <1>8, TimedOutType
  <1>9. ASSUME NEW c \in Callers, NEW code, Refused(c, code) PROVE TypeOK'
    BY <1>9, RefusedType
  <1>10. ASSUME NEW c \in Callers, FloodShort(c) PROVE TypeOK'
    BY <1>10, FloodShortType
  <1>11. ASSUME NEW c \in Callers, FloodAgain(c) PROVE TypeOK'
    BY <1>11, FloodAgainType
  <1>12. ASSUME NEW c \in Callers, NEW w \in FloodWaits, FloodLong(c, w) PROVE TypeOK'
    BY <1>12, FloodLongType
  <1>13. ASSUME NEW c \in Callers, FloodSaved(c) \/ FloodNotSaved(c) PROVE TypeOK'
    BY <1>13, FloodSavedType
  <1>14. CASE Prepare
    BY <1>14, PrepareType
  <1>15. CASE Restart
    BY <1>15, RestartType
  <1>16. CASE Tick \/ NewDay
    BY <1>16, Typed, TypedNext DEF Tick, NewDay, hist, bounds
  <1>17. CASE UNCHANGED vars
    BY <1>17 DEF vars, TypeOK
  <1> QED
    BY <1>1, <1>2, <1>3, <1>4, <1>5, <1>6, <1>7, <1>8, <1>9, <1>10, <1>11, <1>12, <1>13,
       <1>14, <1>15, <1>16, <1>17 DEF Next

\* Every variable keeps its shape, whatever the callers, answers, days and restarts.
THEOREM AccountTypeCorrect == Spec => []TypeOK
  <1> QED
    BY InitType, NextType, PTL DEF Spec

-----------------------------------------------------------------------------
(* How far a limit may be passed                                           *)

\* Who has passed the test for limit k and is not counted yet.
Past(k) == {c \in Callers : req[c].at = "turn" /\ k \in {"all", req[c].m}}

\* The reason the budget is held: what is counted and what will be without another look at
\* the limit together stay below the bound.
Budgeted ==
    \A k \in DOMAIN NoCounts :
        acc.used[k] + Cardinality(Past(k)) <= LimitOf(k) + Cardinality(Callers) - 1

LEMMA CallersCounted == IsFiniteSet(Callers) /\ Cardinality(Callers) \in Nat \ {0}
  <1>1. IsFiniteSet(Callers) /\ Callers # {}
    BY AccountAssumption
  <1> QED
    BY <1>1, FS_CardinalityType, FS_EmptySet

LEMMA PastCounted ==
    ASSUME NEW k
    PROVE  /\ IsFiniteSet(Past(k)) /\ Cardinality(Past(k)) \in Nat
           /\ IsFiniteSet(Past(k)') /\ Cardinality(Past(k)') \in Nat
  <1>1. Past(k) \in SUBSET Callers /\ Past(k)' \in SUBSET Callers
    BY DEF Past
  <1> QED
    BY <1>1, CallersCounted, FS_Subset, FS_CardinalityType

LEMMA LimitTyped == ASSUME NEW k \in DOMAIN NoCounts PROVE LimitOf(k) \in Nat
  BY Keys, AccountAssumption DEF LimitOf, Limited

LEMMA UsedTyped == ASSUME NEW k \in DOMAIN NoCounts PROVE TypeOK => acc.used[k] \in Nat
  BY Typed DEF Account, Counts

\* A step that counts nothing and lets nobody past the tests keeps within the bound.
LEMMA NoneSpent ==
    ASSUME TypeOK, TypeOK', Budgeted,
           \A k \in DOMAIN NoCounts : acc'.used[k] <= acc.used[k],
           \A d \in Callers : req'[d].at = "turn" => req'[d] = req[d]
    PROVE  Budgeted'
  <1> SUFFICES ASSUME NEW k \in DOMAIN NoCounts
               PROVE  acc'.used[k] + Cardinality(Past(k)') <= LimitOf(k) + Cardinality(Callers) - 1
    BY DEF Budgeted
  <1>1. Past(k)' \in SUBSET Past(k)
    BY DEF Past
  <1>2. Cardinality(Past(k)') <= Cardinality(Past(k))
    BY <1>1, PastCounted, FS_Subset
  <1>3. acc.used[k] + Cardinality(Past(k)) <= LimitOf(k) + Cardinality(Callers) - 1
    BY DEF Budgeted
  <1>4. acc.used[k] \in Nat /\ acc'.used[k] \in Nat
    BY UsedTyped, Typed, TypedNext DEF Account, Counts
  <1> QED
    BY <1>2, <1>3, <1>4, PastCounted, CallersCounted, LimitTyped

\* The tests of a request: those of its operation, and those of call.
LEMMA Tested ==
    ASSUME TypeOK, NEW c \in Callers, Request(c), Refusal(Rolled(acc), req[c].m) = "none",
           NEW k \in DOMAIN NoCounts, k \in {"all", req[c].m}
    PROVE  acc'.used[k] < LimitOf(k)
  <1>1. acc'.used = Rolled(acc).used /\ Rolled(acc).used = (IF acc.day = day THEN acc.used ELSE NoCounts)
    BY Requested, RolledTyped, Typed
  <1>2. CASE k = "all"
    <2>1. ~(Rolled(acc).used.all >= DailyLimit)
      BY DEF Refusal
    <2>2. Rolled(acc).used.all \in Nat /\ DailyLimit \in Nat
      BY Keys, AccountAssumption, RolledTyped, Typed DEF Account, Counts
    <2> QED
      BY <1>1, <1>2, <2>1, <2>2 DEF LimitOf
  <1>3. CASE k = "search"
    <2>1. ~(Rolled(acc).used.search >= Limit["search"])
      BY <1>3 DEF Refusal
    <2>2. Rolled(acc).used.search \in Nat /\ Limit["search"] \in Nat
      BY Keys, AccountAssumption, RolledTyped, Typed DEF Account, Counts, Limited
    <2> QED
      BY <1>1, <1>3, <2>1, <2>2 DEF LimitOf
  <1>4. CASE k \in {"resolve", "check"}
    <2>1. ~(acc.used[k] >= Limit[k])
      BY <1>4 DEF Request, SkippedBefore
    <2>2. acc.used[k] \in Nat /\ Limit[k] \in Nat /\ NoCounts[k] = 0
      BY <1>4, AccountAssumption, UsedTyped DEF Limited, NoCounts
    <2> QED
      BY <1>1, <1>4, <2>1, <2>2 DEF LimitOf
  <1> QED
    BY <1>2, <1>3, <1>4, Keys

LEMMA RequestBudgeted ==
    ASSUME TypeOK, TypeOK', Budgeted, NEW c \in Callers, Request(c)
    PROVE  Budgeted'
  <1>1. \A k \in DOMAIN NoCounts : acc'.used[k] <= acc.used[k]
    <2> SUFFICES ASSUME NEW k \in DOMAIN NoCounts PROVE acc'.used[k] <= acc.used[k]
      OBVIOUS
    <2>1. acc.used[k] \in Nat /\ NoCounts[k] = 0
      BY Keys, UsedTyped DEF NoCounts
    <2>2. acc'.used = Rolled(acc).used
      BY Requested
    <2>3. Rolled(acc).used \in {acc.used, NoCounts}
      BY RolledTyped, Typed
    <2> QED
      BY <2>1, <2>2, <2>3
  <1>2. CASE req' = [req EXCEPT ![c] = Idle]
    BY <1>1, <1>2, NoneSpent, Typed DEF Idle
  <1>3. CASE /\ Refusal(Rolled(acc), req[c].m) = "none"
             /\ req' = [req EXCEPT ![c].at = "turn"]
    <2>1. req[c].at = "ready" /\ req'[c].at = "turn" /\ req'[c].m = req[c].m
      BY <1>3, Typed DEF Request, Call
    <2>2. \A d \in Callers \ {c} : req'[d] = req[d]
      BY <1>3, Typed
    <2> SUFFICES ASSUME NEW k \in DOMAIN NoCounts
                 PROVE  acc'.used[k] + Cardinality(Past(k)') <= LimitOf(k) + Cardinality(Callers) - 1
      BY DEF Budgeted
    <2>3. acc.used[k] \in Nat /\ acc'.used[k] \in Nat
      BY UsedTyped, Typed, TypedNext DEF Account, Counts
    <2>4. CASE k \in {"all", req[c].m}
      <3>1. Past(k)' \in SUBSET Callers /\ Cardinality(Past(k)') <= Cardinality(Callers)
        <4>1. Past(k)' \in SUBSET Callers
          BY DEF Past
        <4> QED
          BY <4>1, CallersCounted, FS_Subset
      <3>2. acc'.used[k] < LimitOf(k)
        BY <1>3, <2>4, Tested
      <3> QED
        BY <2>3, <3>1, <3>2, PastCounted, CallersCounted, LimitTyped
    <2>5. CASE k \notin {"all", req[c].m}
      <3>1. Past(k)' = Past(k)
        BY <2>1, <2>2, <2>5 DEF Past
      <3> QED
        BY <1>1, <2>3, <3>1, PastCounted, CallersCounted, LimitTyped DEF Budgeted
    <2> QED
      BY <2>4, <2>5
  <1> QED
    BY <1>2, <1>3, Requested

LEMMA SendBudgeted ==
    ASSUME TypeOK, TypeOK', Budgeted, NEW c \in Callers, Send(c)
    PROVE  Budgeted'
  <1> SUFFICES ASSUME NEW k \in DOMAIN NoCounts
               PROVE  acc'.used[k] + Cardinality(Past(k)') <= LimitOf(k) + Cardinality(Callers) - 1
    BY DEF Budgeted
  <1>1. req[c].at = "turn" /\ req'[c].at = "sent" /\ \A d \in Callers \ {c} : req'[d] = req[d]
    BY Typed DEF Send, Call
  <1>2. acc'.used[k] = acc.used[k] + (IF k \in {"all", req[c].m} THEN 1 ELSE 0)
    <2>1. acc'.used = Plus(acc.used, req[c].m)
      BY Typed DEF Send, Account
    <2> QED
      BY <2>1, PlusTyped, Typed DEF Account
  <1>3. Past(k)' = Past(k) \ {c} /\ (c \in Past(k) <=> k \in {"all", req[c].m})
    BY <1>1 DEF Past
  <1>4. Cardinality(Past(k)') = IF c \in Past(k) THEN Cardinality(Past(k)) - 1 ELSE Cardinality(Past(k))
    BY <1>3, PastCounted, FS_RemoveElement
  <1>5. acc.used[k] + Cardinality(Past(k)) <= LimitOf(k) + Cardinality(Callers) - 1
    BY DEF Budgeted
  <1> QED
    BY <1>2, <1>3, <1>4, <1>5, PastCounted, CallersCounted, LimitTyped, UsedTyped

LEMMA NextBudgeted == TypeOK /\ TypeOK' /\ Budgeted /\ [Next]_vars => Budgeted'
  <1> SUFFICES ASSUME TypeOK, TypeOK', Budgeted, [Next]_vars PROVE Budgeted'
    OBVIOUS
  <1>0. ASSUME acc'.used = acc.used \/ acc'.used = Rolled(acc).used \/ acc'.used = Rolled(Lifted(acc)).used
        PROVE  \A k \in DOMAIN NoCounts : acc'.used[k] <= acc.used[k]
    <2> SUFFICES ASSUME NEW k \in DOMAIN NoCounts PROVE acc'.used[k] <= acc.used[k]
      OBVIOUS
    <2>1. acc.used[k] \in Nat /\ NoCounts[k] = 0
      BY Keys, UsedTyped DEF NoCounts
    <2> QED
      BY <1>0, <2>1, RolledTyped, LiftedTyped, Typed
  <1>1. ASSUME acc'.used = acc.used, \A d \in Callers : req'[d].at = "turn" => req'[d] = req[d] PROVE Budgeted'
    BY <1>0, <1>1, NoneSpent
  <1>2. ASSUME acc'.used = acc.used, NEW c \in Callers, req' = [req EXCEPT ![c] = Idle] PROVE Budgeted'
    BY <1>1, <1>2, Typed DEF Idle
  <1>3. ASSUME NEW c \in Callers, NEW op \in Ops, Begin(c, op) PROVE Budgeted'
    <2>1. acc'.used = acc.used \/ acc'.used = Rolled(Lifted(acc)).used
      BY <1>3, LiftedTyped, Typed DEF Begin
    <2>2. \A d \in Callers : req'[d].at = "turn" => req'[d] = req[d]
      BY <1>3, Typed DEF Begin, Idle
    <2> QED
      BY <1>0, <2>1, <2>2, NoneSpent
  <1>4. ASSUME NEW c \in Callers, Skip(c) PROVE Budgeted'
    <2>1. acc'.used = acc.used \/ acc'.used = Rolled(acc).used
      BY <1>4, LiftedTyped, RolledTyped, Typed DEF Skip
    <2>2. \A d \in Callers : req'[d].at = "turn" => req'[d] = req[d]
      BY <1>4, Typed DEF Skip, Idle
    <2> QED
      BY <1>0, <2>1, <2>2, NoneSpent
  <1>5. ASSUME NEW c \in Callers, Request(c) PROVE Budgeted'
    BY <1>5, RequestBudgeted
  <1>6. ASSUME NEW c \in Callers, ConnectFails(c) PROVE Budgeted'
    BY <1>2, <1>6, ConnectType
  <1>7. ASSUME NEW c \in Callers, Send(c) PROVE Budgeted'
    BY <1>7, SendBudgeted
  <1>8. ASSUME NEW c \in Callers, NEW next \in Methods \cup {"end"}, Answer(c, next) PROVE Budgeted'
    <2>1. acc'.used = acc.used
      BY <1>8, Typed DEF Answer, Account
    <2>2. \A d \in Callers : req'[d].at = "turn" => req'[d] = req[d]
      BY <1>8, Typed DEF Answer, Idle, Call
    <2> QED
      BY <1>1, <2>1, <2>2
  <1>9. ASSUME NEW c \in Callers, StoredInvalid(c) PROVE Budgeted'
    <2>1. acc'.used = acc.used
      BY <1>9, Typed DEF StoredInvalid, Account
    <2>2. \A d \in Callers : req'[d].at = "turn" => req'[d] = req[d]
      BY <1>9, Typed DEF StoredInvalid, Call
    <2> QED
      BY <1>1, <2>1, <2>2
  <1>10. ASSUME NEW c \in Callers, TimedOut(c) PROVE Budgeted'
    BY <1>2, <1>10, TimedOutType
  <1>11. ASSUME NEW c \in Callers, NEW code, Refused(c, code) PROVE Budgeted'
    BY <1>2, <1>11, RefusedType
  <1>12. ASSUME NEW c \in Callers, FloodShort(c) PROVE Budgeted'
    BY <1>1, <1>12, Typed DEF FloodShort, Call
  <1>13. ASSUME NEW c \in Callers, FloodAgain(c) PROVE Budgeted'
    BY <1>2, <1>13, FloodAgainType
  <1>14. ASSUME NEW c \in Callers, NEW w \in FloodWaits, FloodLong(c, w) PROVE Budgeted'
    <2>1. acc'.used = acc.used
      BY <1>14, Typed DEF FloodLong, Account
    <2>2. \A d \in Callers : req'[d].at = "turn" => req'[d] = req[d]
      BY <1>14, Typed DEF FloodLong, Call
    <2> QED
      BY <1>1, <2>1, <2>2
  <1>15. ASSUME NEW c \in Callers, FloodSaved(c) \/ FloodNotSaved(c) PROVE Budgeted'
    BY <1>2, <1>15, FloodSavedType
  <1>16. CASE Prepare
    <2>1. req' = req
      BY <1>16 DEF Prepare, PrepareBegins, PrepareReads, PrepareClears
    <2> QED
      BY <1>1, <1>16, <2>1, PrepareType
  <1>17. CASE Restart
    BY <1>17, RestartType, NoneSpent DEF Idle
  <1>18. CASE Tick \/ NewDay \/ UNCHANGED vars
    BY <1>1, <1>18 DEF Tick, NewDay, vars
  <1> QED
    BY <1>3, <1>4, <1>5, <1>6, <1>7, <1>8, <1>9, <1>10, <1>11, <1>12, <1>13,
       <1>14, <1>15, <1>16, <1>17, <1>18 DEF Next

\* However callers wait together for the client and their turn, over midnights and restarts,
\* a limit of the day is passed by less than their number.
THEOREM BudgetNeverFarPassed == Spec => []BudgetHeld
  <1>1. Init => Budgeted
    <2> SUFFICES ASSUME Init, NEW k \in DOMAIN NoCounts
                 PROVE  acc.used[k] + Cardinality(Past(k)) <= LimitOf(k) + Cardinality(Callers) - 1
      BY DEF Budgeted
    <2>1. Past(k) = {}
      BY DEF Init, Idle, Past
    <2>2. acc.used[k] = 0
      BY Keys DEF Init, NoCounts
    <2> QED
      BY <2>1, <2>2, FS_EmptySet, CallersCounted, LimitTyped
  <1>2. TypeOK /\ Budgeted => BudgetHeld
    <2> SUFFICES ASSUME TypeOK, Budgeted, NEW k \in DOMAIN acc.used
                 PROVE  acc.used[k] <= LimitOf(k) + Cardinality(Callers) - 1
      BY DEF BudgetHeld
    <2>1. DOMAIN acc.used = DOMAIN NoCounts
      BY Typed DEF Account, Counts
    <2> QED
      BY <2>1, PastCounted, UsedTyped, CallersCounted, LimitTyped DEF Budgeted
  <1> QED
    BY <1>1, <1>2, InitType, NextType, NextBudgeted, PTL DEF Spec

-----------------------------------------------------------------------------
(* The joins                                                               *)

\* Only an operation on an invitation checks it or joins, and only whoever may begin one.
Owned ==
    \A c \in Callers : req[c].at # "idle" =>
        /\ req[c].op \in OpsOf[c]
        /\ req[c].m \in {"check", "join"} => req[c].op = "invite"

\* Whoever may collect an invitation.
Inviters == {c \in Callers : "invite" \in OpsOf[c]}

\* How far overlapping joins may pass the limit of the day.
Over == IF crowd > 1 THEN crowd - 1 ELSE 0

\* The joins counted and those under way are below the bound together, and no more joins
\* were under way at once than there are callers to begin them.
JoinsBudgeted ==
    /\ joins.today + Cardinality(Joining) <= JoinDaily + Over
    /\ Cardinality(Joining) <= crowd
    /\ crowd <= Cardinality(Inviters)

LEMMA InvitersCounted == IsFiniteSet(Inviters) /\ Cardinality(Inviters) \in Nat \ {0}
  <1>1. Inviters \in SUBSET Callers /\ Inviters # {}
    BY AccountAssumption DEF Inviters
  <1> QED
    BY <1>1, CallersCounted, FS_Subset, FS_CardinalityType, FS_EmptySet

LEMMA JoiningCounted ==
    /\ IsFiniteSet(Joining) /\ Cardinality(Joining) \in Nat
    /\ IsFiniteSet(Joining') /\ Cardinality(Joining') \in Nat
  <1>1. Joining \in SUBSET Callers /\ Joining' \in SUBSET Callers
    BY DEF Joining
  <1> QED
    BY <1>1, CallersCounted, FS_Subset, FS_CardinalityType

\* A step that only ends operations or lets them go on keeps them owned and joins nothing.
LEMMA NoneJoins ==
    ASSUME TypeOK, TypeOK', Owned, JoinsBudgeted, joins'.today <= joins.today, crowd' = crowd,
           \A d \in Callers : \/ req'[d].at = "idle"
                              \/ /\ req[d].at # "idle" /\ req'[d].op = req[d].op
                                 /\ req'[d].m # "join"
                                 /\ req'[d].m = "check" => req[d].op = "invite"
                              \/ req[d].at # "idle" /\ req'[d].op = req[d].op /\ req'[d].m = req[d].m
    PROVE  Owned' /\ JoinsBudgeted'
  <1>1. Owned'
    BY DEF Owned
  <1>2. Joining' \in SUBSET Joining
    BY DEF Joining
  <1>3. Cardinality(Joining') <= Cardinality(Joining)
    BY <1>2, JoiningCounted, FS_Subset
  <1>4. joins.today \in Nat /\ joins'.today \in Nat /\ JoinDaily \in Nat /\ crowd \in Nat
    BY Typed, TypedNext, AccountAssumption DEF Joins
  <1>5. JoinsBudgeted'
    <2>1. Inviters' = Inviters /\ Over' = Over
      BY DEF Inviters, Over
    <2> QED
      BY <1>3, <1>4, <2>1, JoiningCounted, InvitersCounted DEF JoinsBudgeted, Over
  <1> QED
    BY <1>1, <1>5

LEMMA BeginJoins ==
    ASSUME TypeOK, TypeOK', Owned, JoinsBudgeted, NEW c \in Callers, NEW op \in Ops, Begin(c, op)
    PROVE  Owned' /\ JoinsBudgeted'
  <1>1. joins' = joins /\ crowd' = crowd /\ op \in OpsOf[c]
    BY DEF Begin
  <1>2. \A d \in Callers \ {c} : req'[d] = req[d]
    BY Typed DEF Begin
  <1>3. \/ req'[c] = req[c]
        \/ /\ req'[c].op = op /\ req'[c].m \in {"full", "resolve", "check", "search"}
           /\ req'[c].m = "check" => op = "invite"
    <2>1. CASE req' = req
      BY <2>1
    <2>2. CASE req' # req
      <3>1. PICK m \in First(op) :
              req' = [req EXCEPT ![c] = [Idle EXCEPT !.op = op, !.at = "ready", !.m = m, !.stored = (m = "full")]]
        BY <2>2 DEF Begin
      <3>2. req'[c].op = op /\ req'[c].m = m
        BY <3>1, Typed DEF Idle
      <3> QED
        BY <3>2 DEF First
    <2> QED
      BY <2>1, <2>2
  <1>4. Owned'
    BY <1>1, <1>2, <1>3 DEF Owned
  <1>5. Joining' \in SUBSET Joining
    BY <1>2, <1>3 DEF Joining
  <1>6. Cardinality(Joining') <= Cardinality(Joining)
    BY <1>5, JoiningCounted, FS_Subset
  <1>7. joins.today \in Nat /\ JoinDaily \in Nat /\ crowd \in Nat
    BY Typed, AccountAssumption DEF Joins
  <1>8. Inviters' = Inviters /\ Over' = Over
    BY <1>1 DEF Inviters, Over
  <1> QED
    BY <1>1, <1>4, <1>6, <1>7, <1>8, JoiningCounted, InvitersCounted DEF JoinsBudgeted, Over

LEMMA AnswerJoins ==
    ASSUME TypeOK, TypeOK', Owned, JoinsBudgeted,
           NEW c \in Callers, NEW next \in Methods \cup {"end"}, Answer(c, next)
    PROVE  Owned' /\ JoinsBudgeted'
  <1>1. req[c].at = "sent" /\ next \in Following(req[c].op, req[c].m) /\ \A d \in Callers \ {c} : req'[d] = req[d]
    BY Typed DEF Answer
  <1>2. \/ next = "end" /\ req'[c].at = "idle"
        \/ next # "end" /\ req'[c].at = "ready" /\ req'[c].op = req[c].op /\ req'[c].m = next
    BY Typed DEF Answer, Idle, Call
  <1>3. next \notin {"check", "resolve"} /\ (next = "join" => req[c].m = "check")
    BY <1>1 DEF Following
  <1>4. joins.today \in Nat /\ joins'.today \in Nat /\ JoinDaily \in Nat /\ crowd \in Nat /\ Inviters' = Inviters
    BY Typed, TypedNext, AccountAssumption DEF Joins, Inviters
  <1>5. CASE req[c].m = "join"
    <2>1. joins'.today <= joins.today + 1 /\ crowd' = crowd
      <3>1. Joined /\ crowd' = crowd
        BY <1>3, <1>5 DEF Answer
      <3> QED
        BY <3>1, <1>4, Typed DEF Joined, Joins
    <2>2. Joining' = Joining \ {c} /\ c \in Joining
      BY <1>1, <1>2, <1>3, <1>5 DEF Joining
    <2>3. Cardinality(Joining') = Cardinality(Joining) - 1
      BY <2>2, JoiningCounted, FS_RemoveElement
    <2>4. JoinsBudgeted'
      <3>1. Over' = Over /\ Over \in Nat
        BY <1>4, <2>1 DEF Over
      <3> QED
        BY <1>4, <2>1, <2>3, <3>1, JoiningCounted, InvitersCounted DEF JoinsBudgeted
    <2>5. Owned'
      BY <1>1, <1>2, <1>3, <1>5 DEF Owned
    <2> QED
      BY <2>4, <2>5
  <1>6. CASE next = "join"
    <2>1. /\ CanJoin /\ joins'.today = (IF joins.day = day THEN joins.today ELSE 0)
          /\ crowd' = (IF crowd <= Cardinality(Joining) THEN Cardinality(Joining) + 1 ELSE crowd)
      <3>1. StartJoin
        BY <1>3, <1>6 DEF Answer
      <3> QED
        BY <3>1, <1>6, Typed DEF StartJoin, Joins, Answer
    <2>2. joins'.today < JoinDaily
      BY <2>1 DEF CanJoin
    <2>3. Owned'
      BY <1>1, <1>2, <1>3, <1>6 DEF Owned
    <2>4. Joining' = Joining \cup {c} /\ c \notin Joining
      BY <1>1, <1>2, <1>3, <1>6 DEF Joining
    <2>5. Cardinality(Joining') = Cardinality(Joining) + 1
      BY <2>4, JoiningCounted, FS_AddElement
    <2>6. Cardinality(Joining') <= Cardinality(Inviters)
      <3>1. Joining' \in SUBSET Inviters
        BY <2>3 DEF Owned, Joining, Inviters
      <3> QED
        BY <3>1, InvitersCounted, FS_Subset
    <2>7. crowd' \in Nat /\ Cardinality(Joining') <= crowd' /\ crowd' <= Cardinality(Inviters)
      BY <1>4, <2>1, <2>5, <2>6, JoiningCounted, InvitersCounted DEF JoinsBudgeted
    <2>8. Cardinality(Joining') <= Over' + 1
      BY <2>7, JoiningCounted DEF Over
    <2>9. joins'.today + Cardinality(Joining') <= JoinDaily + Over'
      <3>1. Over' \in Nat
        <4>1. \A n \in Nat : (IF n > 1 THEN n - 1 ELSE 0) \in Nat
          OBVIOUS
        <4>2. crowd' \in Nat
          BY TypedNext
        <4> QED
          BY <4>1, <4>2, Zenon DEF Over
      <3> QED
        BY <1>4, <2>2, <2>8, <3>1, JoiningCounted
    <2> QED
      BY <1>4, <2>3, <2>7, <2>9 DEF JoinsBudgeted
  <1>7. CASE req[c].m # "join" /\ next # "join"
    <2>1. joins' = joins /\ crowd' = crowd
      BY <1>7 DEF Answer
    <2> QED
      BY <1>1, <1>2, <1>3, <1>4, <1>7, <2>1, NoneJoins
  <1> QED
    BY <1>5, <1>6, <1>7

LEMMA NextJoins == TypeOK /\ TypeOK' /\ Owned /\ JoinsBudgeted /\ [Next]_vars => Owned' /\ JoinsBudgeted'
  <1> SUFFICES ASSUME TypeOK, TypeOK', Owned, JoinsBudgeted, [Next]_vars PROVE Owned' /\ JoinsBudgeted'
    OBVIOUS
  <1>0. joins.today \in Nat
    BY Typed DEF Joins
  <1>1. ASSUME joins'.today <= joins.today, crowd' = crowd, NEW c \in Callers, req' = [req EXCEPT ![c] = Idle]
        PROVE  Owned' /\ JoinsBudgeted'
    <2>1. \A d \in Callers : req'[d].at = "idle" \/ req'[d] = req[d]
      BY <1>1, Typed DEF Idle
    <2> QED
      BY <1>1, <2>1, NoneJoins
  <1>2. ASSUME joins' = joins, req' = req, crowd' = crowd PROVE Owned' /\ JoinsBudgeted'
    BY <1>2 DEF Owned, JoinsBudgeted, Joining, Over, Inviters
  <1>3. ASSUME NEW c \in Callers, NEW op \in Ops, Begin(c, op) PROVE Owned' /\ JoinsBudgeted'
    BY <1>3, BeginJoins
  <1>4. ASSUME NEW c \in Callers, Skip(c) PROVE Owned' /\ JoinsBudgeted'
    <2>1. joins'.today <= joins.today /\ crowd' = crowd /\ req' = [req EXCEPT ![c] = Idle]
      BY <1>0, <1>4 DEF Skip
    <2> QED
      BY <1>1, <2>1
  <1>5. ASSUME NEW c \in Callers, Request(c) PROVE Owned' /\ JoinsBudgeted'
    <2>1. joins' = joins /\ crowd' = crowd /\ req[c].at = "ready"
      BY <1>5 DEF Request
    <2>2. CASE req' = [req EXCEPT ![c].at = "turn"]
      <3>1. \A d \in Callers : req'[d] = req[d] \/ (req[d].at # "idle" /\ req'[d].op = req[d].op /\ req'[d].m = req[d].m)
        BY <2>1, <2>2, Typed DEF Call
      <3> QED
        BY <1>0, <2>1, <3>1, NoneJoins
    <2> QED
      BY <1>0, <1>1, <1>5, <2>1, <2>2, Requested
  <1>6. ASSUME NEW c \in Callers, ConnectFails(c) PROVE Owned' /\ JoinsBudgeted'
    BY <1>0, <1>1, <1>6, ConnectType DEF ConnectFails
  <1>7. ASSUME NEW c \in Callers, Send(c) \/ FloodShort(c) PROVE Owned' /\ JoinsBudgeted'
    <2>1. joins' = joins /\ crowd' = crowd /\ req[c].at # "idle"
      BY <1>7 DEF Send, FloodShort
    <2>2. \A d \in Callers : req'[d] = req[d] \/ (req[d].at # "idle" /\ req'[d].op = req[d].op /\ req'[d].m = req[d].m)
      BY <1>7, <2>1, Typed DEF Send, FloodShort, Call
    <2> QED
      BY <1>0, <2>1, <2>2, NoneJoins
  <1>8. ASSUME NEW c \in Callers, NEW next \in Methods \cup {"end"}, Answer(c, next) PROVE Owned' /\ JoinsBudgeted'
    BY <1>8, AnswerJoins
  <1>9. ASSUME NEW c \in Callers, StoredInvalid(c) PROVE Owned' /\ JoinsBudgeted'
    <2>1. joins' = joins /\ crowd' = crowd /\ req[c].at # "idle" /\ \A d \in Callers \ {c} : req'[d] = req[d]
      BY <1>9, Typed DEF StoredInvalid
    <2>2. req'[c].op = req[c].op /\ req'[c].m = (IF req[c].op = "invite" THEN "check" ELSE "resolve")
      BY <1>9, Typed DEF StoredInvalid, Call
    <2> QED
      BY <1>0, <2>1, <2>2, NoneJoins
  <1>10. ASSUME NEW c \in Callers, TimedOut(c) PROVE Owned' /\ JoinsBudgeted'
    BY <1>0, <1>1, <1>10, TimedOutType DEF TimedOut
  <1>11. ASSUME NEW c \in Callers, NEW code, Refused(c, code) PROVE Owned' /\ JoinsBudgeted'
    <2>1. joins'.today = joins.today /\ crowd' = crowd
      BY <1>11, Typed DEF Refused, Joins
    <2> QED
      BY <1>0, <1>1, <1>11, <2>1, RefusedType
  <1>12. ASSUME NEW c \in Callers, FloodAgain(c) PROVE Owned' /\ JoinsBudgeted'
    BY <1>0, <1>1, <1>12, FloodAgainType DEF FloodAgain
  <1>13. ASSUME NEW c \in Callers, NEW w \in FloodWaits, FloodLong(c, w) PROVE Owned' /\ JoinsBudgeted'
    <2>1. joins' = joins /\ crowd' = crowd /\ req[c].at # "idle"
      BY <1>13 DEF FloodLong
    <2>2. \A d \in Callers : req'[d] = req[d] \/ (req[d].at # "idle" /\ req'[d].op = req[d].op /\ req'[d].m = req[d].m)
      BY <1>13, <2>1, Typed DEF FloodLong, Call
    <2> QED
      BY <1>0, <2>1, <2>2, NoneJoins
  <1>14. ASSUME NEW c \in Callers, FloodSaved(c) \/ FloodNotSaved(c) PROVE Owned' /\ JoinsBudgeted'
    BY <1>0, <1>1, <1>14, FloodSavedType DEF FloodSaved, FloodNotSaved
  <1>15. CASE Prepare
    BY <1>2, <1>15 DEF Prepare, PrepareBegins, PrepareReads, PrepareClears
  <1>16. CASE Restart
    BY <1>16, RestartType, NoneJoins DEF Idle
  <1>17. CASE Tick \/ NewDay \/ UNCHANGED vars
    BY <1>2, <1>17 DEF Tick, NewDay, vars
  <1> QED
    BY <1>3, <1>4, <1>5, <1>6, <1>7, <1>8, <1>9, <1>10, <1>11, <1>12, <1>13,
       <1>14, <1>15, <1>16, <1>17 DEF Next

\* Joins one after another keep the limit of the day; overlapping ones pass it by less than
\* were under way at once, and so by less than the number of callers that may join.
THEOREM JoinsNeverFarPassed ==
    Spec => [](JoinsHeld /\ joins.today <= JoinDaily + Cardinality(Inviters) - 1)
  <1>1. Init => Owned /\ JoinsBudgeted
    <2> SUFFICES ASSUME Init PROVE Owned /\ JoinsBudgeted
      OBVIOUS
    <2>1. Joining = {} /\ Owned
      BY DEF Init, Idle, Joining, Owned
    <2>2. joins.today = 0 /\ crowd = 0 /\ JoinDaily \in Nat
      BY AccountAssumption DEF Init
    <2> QED
      BY <2>1, <2>2, FS_EmptySet, InvitersCounted DEF JoinsBudgeted, Over
  <1>2. TypeOK /\ JoinsBudgeted => JoinsHeld /\ joins.today <= JoinDaily + Cardinality(Inviters) - 1
    <2> SUFFICES ASSUME TypeOK, JoinsBudgeted
                 PROVE  JoinsHeld /\ joins.today <= JoinDaily + Cardinality(Inviters) - 1
      OBVIOUS
    <2>1. joins.today \in Nat /\ crowd \in Nat /\ JoinDaily \in Nat
      BY Typed, AccountAssumption DEF Joins
    <2>2. joins.today <= JoinDaily + Over /\ Over \in Nat
      BY <2>1, JoiningCounted DEF JoinsBudgeted, Over
    <2>3. Over <= Cardinality(Inviters) - 1
      BY <2>1, InvitersCounted DEF JoinsBudgeted, Over
    <2> QED
      BY <2>1, <2>2, <2>3, InvitersCounted DEF JoinsHeld, Over
  <1> QED
    BY <1>1, <1>2, InitType, NextType, NextJoins, PTL DEF Spec

-----------------------------------------------------------------------------
(* FloodWait                                                               *)

\* The reason a FloodWait is respected: unless the history says how it was forgotten, the
\* account's own FloodWait reaches as far as Telegram's.
FloodKnown == forgot = {} => wait <= now \/ wait <= acc.until

LEMMA NextFloodKnown == TypeOK /\ FloodKnown /\ [Next]_vars => FloodKnown'
  <1> SUFFICES ASSUME TypeOK, FloodKnown, [Next]_vars PROVE FloodKnown'
    OBVIOUS
  <1>0. now \in Nat /\ wait \in Nat /\ row \in Nat /\ acc.until \in Nat /\ prep.until \in Nat
    BY Typed DEF Account, PrepState
  <1>1. ASSUME now' = now, wait' = wait, acc'.until = acc.until, forgot \subseteq forgot' PROVE FloodKnown'
    BY <1>1 DEF FloodKnown
  <1>2. ASSUME NEW c \in Callers, NEW op \in Ops, Begin(c, op) PROVE FloodKnown'
    <2>1. acc'.until = acc.until
      BY <1>2, LiftedTyped, RolledTyped, Typed DEF Begin
    <2> QED
      BY <1>1, <1>2, <2>1 DEF Begin
  <1>3. ASSUME NEW c \in Callers, Skip(c) PROVE FloodKnown'
    <2>1. acc'.until = acc.until
      BY <1>3, LiftedTyped, RolledTyped, Typed DEF Skip
    <2> QED
      BY <1>1, <1>3, <2>1 DEF Skip
  <1>4. ASSUME NEW c \in Callers, Request(c) PROVE FloodKnown'
    BY <1>1, <1>4, Requested DEF Request
  <1>5. ASSUME NEW c \in Callers, ConnectFails(c) PROVE FloodKnown'
    BY <1>1, <1>5, ConnectType DEF ConnectFails
  <1>6. ASSUME NEW c \in Callers,
               Send(c) \/ (\E next \in Methods \cup {"end"} : Answer(c, next)) \/ StoredInvalid(c) \/ FloodShort(c)
        PROVE  FloodKnown'
    <2>1. acc'.until = acc.until
      BY <1>6, Typed DEF Send, Answer, StoredInvalid, FloodShort, Account
    <2> QED
      BY <1>1, <1>6, <2>1 DEF Send, Answer, StoredInvalid, FloodShort, hist
  <1>7. ASSUME NEW c \in Callers, TimedOut(c) PROVE FloodKnown'
    BY <1>1, <1>7, TimedOutType DEF TimedOut
  <1>8. ASSUME NEW c \in Callers, NEW code, Refused(c, code) PROVE FloodKnown'
    BY <1>1, <1>8, RefusedType DEF Refused
  <1>9. ASSUME NEW c \in Callers, FloodAgain(c) PROVE FloodKnown'
    BY <1>1, <1>9, FloodAgainType DEF FloodAgain
  <1>10. ASSUME NEW c \in Callers, NEW w \in FloodWaits, FloodLong(c, w) PROVE FloodKnown'
    <2>1. acc'.until = now + w /\ now' = now
      BY <1>10, Typed DEF FloodLong, Account
    <2>2. forgot' = {} => wait' <= now + w
      BY <1>0, <1>10, AccountAssumption DEF FloodLong
    <2> QED
      BY <2>1, <2>2 DEF FloodKnown
  <1>11. ASSUME NEW c \in Callers, FloodSaved(c) \/ FloodNotSaved(c) PROVE FloodKnown'
    <2>1. forgot \subseteq forgot'
      BY <1>11 DEF FloodSaved, FloodNotSaved
    <2> QED
      BY <1>1, <1>11, <2>1, FloodSavedType DEF FloodSaved, FloodNotSaved
  <1>12. CASE PrepareBegins
    BY <1>1, <1>12, Typed DEF PrepareBegins, Account, hist
  <1>13. CASE PrepareReads
    <2>1. now' = now /\ wait' = wait
      BY <1>13 DEF PrepareReads
    <2>2. forgot' = {} => forgot = {} /\ (acc.until <= now \/ acc.until <= prep.until)
      BY <1>0, <1>13 DEF PrepareReads
    <2>3. acc'.until = prep.until \/ prep.until <= now
      <3>1. CASE prep.until # Never /\ ~Blocking(prep.until)
        BY <1>0, <3>1 DEF Blocking
      <3>2. CASE ~(prep.until # Never /\ ~Blocking(prep.until))
        <4>1. /\ [acc EXCEPT !.until = prep.until] \in Account
              /\ [acc EXCEPT !.until = prep.until].until = prep.until
          BY Typed DEF Account, PrepState
        <4>2. Decide([acc EXCEPT !.until = prep.until])
          BY <1>13, <3>2 DEF PrepareReads
        <4> QED
          BY <4>1, <4>2, DecideTyped
      <3> QED
        BY <3>1, <3>2
    <2> QED
      BY <1>0, <2>1, <2>2, <2>3 DEF FloodKnown
  <1>14. CASE PrepareClears
    <2>1. Decide(acc) /\ acc \in Account
      BY <1>14, Typed DEF PrepareClears
    <2>2. acc'.until = acc.until
      BY <2>1, DecideTyped
    <2> QED
      BY <1>1, <1>14, <2>2 DEF PrepareClears
  <1>15. CASE Restart
    <2>1. forgot' = {} => forgot = {} /\ (acc.until <= row \/ acc.until <= now)
      BY <1>0, <1>15, RestartType
    <2>2. acc'.until = row \/ row <= now
      BY <1>0, <1>15, RestartType DEF Blocking
    <2>3. now' = now /\ wait' = wait
      BY <1>15 DEF Restart
    <2> QED
      BY <1>0, <2>1, <2>2, <2>3 DEF FloodKnown
  <1>16. CASE Tick
    BY <1>0, <1>16 DEF Tick, hist, FloodKnown
  <1>17. CASE NewDay \/ UNCHANGED vars
    BY <1>17 DEF NewDay, vars, hist, FloodKnown
  <1> QED
    BY <1>2, <1>3, <1>4, <1>5, <1>6, <1>7, <1>8, <1>9, <1>10, <1>11, <1>12, <1>13,
       <1>14, <1>15, <1>16, <1>17 DEF Next, Prepare

\* Only a request that call has tested goes to its turn.
LEMMA TurnIsTested ==
    ASSUME TypeOK, [Next]_vars, NEW c \in Callers, req[c].at = "ready", req'[c].at = "turn"
    PROVE  Refusal(Rolled(acc), req[c].m) = "none"
  <1>1. ASSUME NEW d \in Callers, req' = [req EXCEPT ![d] = Idle] PROVE FALSE
    BY <1>1, Typed DEF Idle
  <1>2. ASSUME req' = req \/ (\E d \in Callers : \E r : req' = [req EXCEPT ![d] = r] /\ r.at # "turn")
        PROVE  FALSE
    BY <1>2, Typed
  <1>3. ASSUME NEW d \in Callers, Request(d) PROVE Refusal(Rolled(acc), req[c].m) = "none"
    <2>1. CASE req' = [req EXCEPT ![d] = Idle]
      BY <1>1, <2>1
    <2>2. CASE /\ Refusal(Rolled(acc), req[d].m) = "none"
               /\ req' = [req EXCEPT ![d].at = "turn"]
      <3>1. d = c
        BY <2>2, Typed
      <3> QED
        BY <2>2, <3>1
    <2> QED
      BY <1>3, <2>1, <2>2, Requested
  <1>4. ASSUME NEW d \in Callers, NEW op \in Ops, Begin(d, op) PROVE FALSE
    <2>1. CASE req' # req
      <3>1. PICK m : req' = [req EXCEPT ![d] = [Idle EXCEPT !.op = op, !.at = "ready", !.m = m, !.stored = (m = "full")]]
        BY <1>4, <2>1 DEF Begin
      <3> QED
        BY <3>1, Typed DEF Idle
    <2> QED
      BY <1>2, <2>1
  <1>5. ASSUME NEW d \in Callers, NEW next \in Methods \cup {"end"}, Answer(d, next) PROVE FALSE
    BY <1>5, Typed DEF Answer, Idle, Call
  <1>6. ASSUME NEW d \in Callers,
               Send(d) \/ StoredInvalid(d) \/ FloodShort(d) \/ (\E w \in FloodWaits : FloodLong(d, w))
        PROVE  FALSE
    BY <1>6, Typed DEF Send, StoredInvalid, FloodShort, FloodLong, Call
  <1>7. ASSUME NEW d \in Callers,
               Skip(d) \/ ConnectFails(d) \/ TimedOut(d) \/ FloodAgain(d) \/ FloodSaved(d) \/ FloodNotSaved(d)
        PROVE  FALSE
    BY <1>1, <1>7, ConnectType, TimedOutType, FloodAgainType, FloodSavedType DEF Skip
  <1>8. ASSUME NEW d \in Callers, NEW code, Refused(d, code) PROVE FALSE
    BY <1>1, <1>8, RefusedType
  <1>9. CASE Prepare \/ Tick \/ NewDay \/ UNCHANGED vars
    BY <1>2, <1>9 DEF Prepare, PrepareBegins, PrepareReads, PrepareClears, Tick, NewDay, vars
  <1>10. CASE Restart
    BY <1>10, RestartType DEF Idle
  <1> QED
    BY <1>3, <1>4, <1>5, <1>6, <1>7, <1>8, <1>9, <1>10 DEF Next

\* While a FloodWait of Telegram runs no request passes the tests, unless it was forgotten in
\* one of the ways the history names.
THEOREM NoRequestInFloodWait == Spec => FloodRespected
  <1>1. Init => FloodKnown
    BY DEF Init, FloodKnown, Never
  <1>2. ASSUME TypeOK, FloodKnown, [Next]_vars, NEW c \in Callers, req[c].at = "ready", req'[c].at = "turn"
        PROVE  wait <= now \/ forgot # {}
    <2>1. Refusal(Rolled(acc), req[c].m) = "none"
      BY <1>2, TurnIsTested
    <2>2. ~Blocking(Rolled(acc).until)
      BY <2>1 DEF Refusal
    <2>3. ~Blocking(acc.until)
      BY <1>2, <2>2, RolledTyped, Typed
    <2> QED
      BY <1>2, <2>3, Typed DEF Blocking, FloodKnown, Account
  <1>3. TypeOK /\ FloodKnown /\ [Next]_vars
          => [\A c \in Callers : req[c].at = "ready" /\ req'[c].at = "turn" => wait <= now \/ forgot # {}]_vars
    BY <1>2
  <1> QED
    BY <1>1, <1>3, InitType, NextType, NextFloodKnown, PTL DEF Spec, FloodRespected
==============================================================================
