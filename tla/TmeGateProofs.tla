---------------------------- MODULE TmeGateProofs ----------------------------
(***************************************************************************)
(* What holds of the t.me gate for any number of callers, and any limits,  *)
(* cooldowns and thresholds the assumption of TmeGate allows; and, in the  *)
(* second half, of the numbers of the day it counts, over any number of    *)
(* days, answers, restarts and saves on their way.                         *)
(***************************************************************************)
EXTENDS TmeGate, DailyCounters, FiniteSetTheorems, SequenceTheorems, TLAPS

-----------------------------------------------------------------------------
(* The pace *)

\* What report may do to the pace, whatever the answer: a lowered pace starts a cooldown
\* where there was none, and no cooldown gets shorter.
Reported(p, q) ==
    /\ q \in Pace
    /\ q.cool >= p.cool
    /\ Lowered(p, q) => p.cool = 0 /\ q.cool >= CoolMin

LEMMA Zeros == 0 \in 0..(TimeoutLimit - 1) /\ 0 \in 0..IncreaseEvery /\ 0 \in 0..CoolMax
  BY GateAssumption

LEMMA HalfMore == ASSUME NEW n \in Nat PROVE (3 * n + 1) \div 2 \in Nat /\ (3 * n + 1) \div 2 >= n
  BY SMT

LEMMA Halved == ASSUME NEW n \in Nat PROVE n \div 2 \in Nat /\ n \div 2 <= n
  BY SMT

LEMMA SlowerPace ==
    ASSUME NEW p \in Pace
    PROVE  Slower(p) \in Pace /\ Slower(p).cool = p.cool
  <1>1. p.limit \in 1..CollectMax /\ p.gap \in GapMin..GapMax
    BY DEF Pace
  <1>2. Larger(1, p.limit \div 2) \in 1..CollectMax
    BY <1>1, GateAssumption, Halved, p.limit \in Nat DEF Larger
  <1>3. Smaller(GapMax, (3 * p.gap + 1) \div 2) \in GapMin..GapMax
    BY <1>1, GateAssumption, HalfMore, p.gap \in Nat DEF Smaller
  <1> QED
    BY <1>2, <1>3, Zeros DEF Pace, Slower

LEMMA FasterPace ==
    ASSUME NEW p \in Pace
    PROVE  Faster(p) \in Pace /\ Faster(p).cool = p.cool /\ ~Lowered(p, Faster(p))
  <1>1. p.limit \in 1..CollectMax /\ p.gap \in GapMin..GapMax
    BY DEF Pace
  <1>2. /\ Smaller(CollectMax, p.limit + 1) \in 1..CollectMax
        /\ Smaller(CollectMax, p.limit + 1) >= p.limit
    BY <1>1, GateAssumption DEF Smaller
  <1> DEFINE g == IF p.gap < GapMin + GapStep THEN GapMin ELSE p.gap - GapStep
  <1>3. g \in GapMin..GapMax /\ g <= p.gap
    BY <1>1, GateAssumption
  <1>5. /\ Faster(p).limit = Smaller(CollectMax, p.limit + 1)
        /\ Faster(p).gap = g
    BY DEF Faster, Pace
  <1>6. Faster(p) \in Pace /\ Faster(p).cool = p.cool
    BY <1>2, <1>3, Zeros DEF Pace, Faster
  <1> QED
    BY <1>1, <1>2, <1>3, <1>5, <1>6, GateAssumption DEF Lowered

LEMMA CooldownPace ==
    ASSUME NEW p \in Pace, NEW retryAfter \in Nat
    PROVE  Reported(p, StartCooldown(p, retryAfter))
  <1> DEFINE wait == Smaller(Larger(retryAfter, CoolMin), CoolMax)
             cooling == [p EXCEPT !.cool = Larger(@, wait), !.successes = 0]
  <1>1. wait \in CoolMin..CoolMax
    BY GateAssumption DEF Smaller, Larger
  <1>2. p.cool \in 0..CoolMax
    BY DEF Pace
  <1>3. Larger(p.cool, wait) \in CoolMin..CoolMax /\ Larger(p.cool, wait) >= p.cool
    BY <1>1, <1>2, GateAssumption DEF Larger
  <1>4. CoolMin..CoolMax \subseteq 0..CoolMax
    BY GateAssumption
  <1>5. cooling \in Pace
    BY <1>3, <1>4 DEF Pace
  <1>6. /\ cooling.cool = Larger(p.cool, wait)
        /\ cooling.limit = p.limit /\ cooling.gap = p.gap
    BY DEF Pace
  <1>7. CASE p.cool > 0
    <2>1. StartCooldown(p, retryAfter) = cooling
      BY <1>7 DEF StartCooldown
    <2>2. ~Lowered(p, cooling)
      BY <1>6, GateAssumption DEF Lowered, Pace
    <2> QED
      BY <2>1, <2>2, <1>3, <1>5, <1>6 DEF Reported
  <1>8. CASE ~(p.cool > 0)
    <2>1. StartCooldown(p, retryAfter) = Slower(cooling)
      BY <1>8 DEF StartCooldown
    <2>2. Slower(cooling) \in Pace /\ Slower(cooling).cool = cooling.cool
      BY <1>5, SlowerPace
    <2>3. p.cool = 0
      BY <1>2, <1>8
    <2> QED
      BY <2>1, <2>2, <2>3, <1>3, <1>6, GateAssumption DEF Reported
  <1> QED
    BY <1>7, <1>8

LEMMA TimeoutPace == ASSUME NEW p \in Pace PROVE Reported(p, OnTimeout(p))
  <1> DEFINE q == [p EXCEPT !.timeouts = 0]
             r == [p EXCEPT !.timeouts = @ + 1, !.successes = 0]
  <1>1. p.timeouts \in 0..(TimeoutLimit - 1) /\ p.cool \in 0..CoolMax
    BY DEF Pace
  <1>2. q \in Pace
    BY Zeros DEF Pace
  <1>3. q.cool = p.cool /\ q.limit = p.limit /\ q.gap = p.gap
    BY DEF Pace
  <1>4. CASE p.timeouts + 1 < TimeoutLimit
    <2>1. p.timeouts + 1 \in 0..(TimeoutLimit - 1)
      BY <1>1, <1>4, GateAssumption
    <2>2. r \in Pace /\ r.cool = p.cool /\ r.limit = p.limit /\ r.gap = p.gap
      BY <2>1 DEF Pace
    <2>3. ~Lowered(p, r)
      BY <2>2, GateAssumption DEF Lowered, Pace
    <2>4. OnTimeout(p) = r
      BY <1>4 DEF OnTimeout
    <2> QED
      BY <1>1, <2>2, <2>3, <2>4 DEF Reported
  <1>5. CASE ~(p.timeouts + 1 < TimeoutLimit)
    <2>1. OnTimeout(p) = StartCooldown(q, 0)
      BY <1>5 DEF OnTimeout
    <2>2. Reported(q, StartCooldown(q, 0))
      BY <1>2, CooldownPace
    <2> QED
      BY <1>3, <2>1, <2>2 DEF Reported, Lowered
  <1> QED
    BY <1>4, <1>5

LEMMA SuccessPace ==
    ASSUME NEW p \in Pace, NEW locked \in BOOLEAN
    PROVE  Reported(p, OnSuccess(p, locked))
  <1> DEFINE q == [p EXCEPT !.timeouts = 0, !.successes = @ + 1]
  <1>1. q \in Pace /\ q.cool = p.cool /\ q.limit = p.limit /\ q.gap = p.gap
    <2>1. p.successes + 1 \in Nat
      BY DEF Pace
    <2> QED
      BY <2>1, Zeros DEF Pace
  <1>2. ~Lowered(p, q) /\ q.cool >= p.cool
    BY <1>1, GateAssumption DEF Lowered, Pace
  <1>3. /\ Faster(q) \in Pace /\ Faster(q).cool = q.cool
        /\ ~Lowered(q, Faster(q))
    BY <1>1, FasterPace
  <1>4. ~Lowered(p, Faster(q))
    BY <1>1, <1>3 DEF Lowered
  <1>5. OnSuccess(p, locked) = IF MayIncrease(q, locked) THEN Faster(q) ELSE q
    BY DEF OnSuccess
  <1> QED
    BY <1>1, <1>2, <1>3, <1>4, <1>5 DEF Reported

LEMMA ErrorPace == ASSUME NEW p \in Pace PROVE Reported(p, OnError(p))
  <1>1. /\ OnError(p) \in Pace /\ OnError(p).cool = p.cool
        /\ OnError(p).limit = p.limit /\ OnError(p).gap = p.gap
    BY Zeros DEF Pace, OnError
  <1> QED
    BY <1>1, GateAssumption DEF Reported, Lowered, Pace

-----------------------------------------------------------------------------
(* Slots and callers *)

LEMMA KindsTyped == \A c \in Clients : KindOf[c] \in Kinds
  BY DEF KindOf, Kinds

LEMMA Finite == \A k \in Kinds : IsFiniteSet(Using(k))
  BY GateAssumption, FS_Subset DEF Using

LEMMA WakeTyped ==
    ASSUME NEW cl \in [Clients -> Caller]
    PROVE  /\ Wake(cl) \in [Clients -> Caller]
           /\ \A c \in Clients :
                 /\ Wake(cl)[c].pc # "waiting"
                 /\ Wake(cl)[c].pc = "using" <=> cl[c].pc = "using"
                 /\ Wake(cl)[c].pc = "outside" <=> cl[c].pc = "outside"
                 /\ cl[c].pc # "waiting" => Wake(cl)[c] = cl[c]
  BY DEF Wake, Caller

\* The callers that use a slot after one of them has moved.
LEMMA Moved ==
    ASSUME NEW c \in Clients, NEW k \in Kinds,
           \A d \in Clients \ {c} : client'[d].pc = "using" <=> client[d].pc = "using"
    PROVE  /\ KindOf[c] # k => Using(k)' = Using(k)
           /\ KindOf[c] = k /\ client'[c].pc = "using" => Using(k)' = Using(k) \cup {c}
           /\ KindOf[c] = k /\ client'[c].pc # "using" => Using(k)' = Using(k) \ {c}
  BY DEF Using

LEMMA RolledTyped ==
    ASSUME TypeOK
    PROVE  /\ Rolled \in Daily
           /\ RolledClients \in [Clients -> Caller]
           /\ \A c \in Clients :
                 /\ RolledClients[c].pc = "using" <=> client[c].pc = "using"
                 /\ RolledClients[c].pc = "outside" <=> client[c].pc = "outside"
                 /\ RolledClients[c].pc = "waiting" =>
                       client[c].pc = "waiting" /\ Rolled = daily
  <1>1. Rolled \in Daily
    BY DEF TypeOK, Rolled, RollDay, FreshDay, Daily
  <1>2. CASE daily.ymd = today
    BY <1>1, <1>2 DEF TypeOK, Rolled, RolledClients, RollDay
  <1>3. CASE daily.ymd # today
    BY <1>1, <1>3, WakeTyped DEF TypeOK, RolledClients
  <1> QED
    BY <1>2, <1>3

LEMMA TryType ==
    ASSUME TypeOK, NEW c \in Clients, NEW patience \in Nat, Try(c, patience),
           client[c].pc # "using", requests' \in 0..MaxRequests
    PROVE  TypeOK'
  <1>1. PICK to \in Caller : client' = [RolledClients EXCEPT ![c] = to]
    <2>1. Outside \in Caller /\ [pc |-> "using"] \in Caller
      BY DEF Caller, Outside
    <2>2. pace.cool \in 0..CoolMax
      BY DEF TypeOK, Pace
    <2>3. /\ [pc |-> "sleeping", patience |-> patience, left |-> pace.cool] \in Caller
          /\ [pc |-> "waiting", patience |-> patience] \in Caller
      BY <2>2 DEF Caller
    <2> QED
      BY <2>1, <2>3 DEF Try
  <1>2. client' \in [Clients -> Caller] /\ client'[c] = to
    BY <1>1, RolledTyped
  <1>3. \A d \in Clients \ {c} : client'[d].pc = "using" <=> client[d].pc = "using"
    BY <1>1, RolledTyped
  <1>4. \/ active' = active /\ to.pc # "using"
        \/ active' = [active EXCEPT ![KindOf[c]] = @ + 1] /\ to.pc = "using"
    BY <1>2, RolledTyped DEF Try, Outside
  <1>5. active' \in [Kinds -> Nat]
    BY <1>4, KindsTyped DEF TypeOK
  <1>6. ASSUME NEW k \in Kinds PROVE active'[k] = Cardinality(Using(k)')
    <2>1. c \notin Using(k) /\ IsFiniteSet(Using(k))
      BY Finite DEF Using
    <2>2. active[k] = Cardinality(Using(k)) /\ active \in [Kinds -> Nat]
      BY DEF TypeOK
    <2>3. CASE to.pc # "using" \/ KindOf[c] # k
      <3>1. Using(k)' = Using(k)
        BY <1>2, <1>3, <2>1, <2>3, Moved
      <3>2. active'[k] = active[k]
        BY <1>4, <2>2, <2>3, KindsTyped
      <3> QED
        BY <2>2, <3>1, <3>2
    <2>4. CASE to.pc = "using" /\ KindOf[c] = k
      <3>1. Using(k)' = Using(k) \cup {c}
        BY <1>2, <1>3, <2>4, Moved
      <3>2. Cardinality(Using(k)') = Cardinality(Using(k)) + 1
        BY <2>1, <3>1, FS_AddElement
      <3>3. active'[k] = active[k] + 1
        BY <1>4, <2>2, <2>4
      <3> QED
        BY <2>2, <3>2, <3>3
    <2> QED
      BY <2>3, <2>4
  <1>7. daily' \in Daily /\ pace' \in Pace /\ today' \in 0..MaxDays /\ sinceSlow' \in 0..CoolMin
    BY RolledTyped DEF TypeOK, Try
  <1> QED
    BY <1>2, <1>5, <1>6, <1>7 DEF TypeOK

\* Each way a request ends reports to a legal pace and a day that is today's.
LEMMA AnswerReports ==
    ASSUME TypeOK, NEW c \in Clients, Answer(c)
    PROVE  \E p \in Pace, d \in Daily :
              /\ Finish(c, p, d)
              /\ Reported(pace, p)
              /\ d = Rolled \/ d = CountRateLimit(Rolled)
  <1>1. Rolled \in Daily /\ Rolled.locked \in BOOLEAN /\ pace \in Pace
    BY RolledTyped DEF TypeOK, Daily
  <1>2. CountRateLimit(Rolled) \in Daily
    <2>1. Rolled.tme429 + 1 \in Nat
      BY <1>1 DEF Daily
    <2>2. (Rolled.locked \/ Rolled.tme429 + 1 > DailyLock) \in BOOLEAN
      OBVIOUS
    <2> QED
      BY <1>1, <2>1, <2>2, Zenon DEF CountRateLimit, Daily
  <1>3. CASE Succeed(c)
    BY <1>1, <1>3, SuccessPace DEF Succeed, Reported
  <1>4. CASE Fail(c)
    BY <1>1, <1>4, ErrorPace DEF Fail, Reported
  <1>5. CASE TimeOut(c)
    BY <1>1, <1>5, TimeoutPace DEF TimeOut, Reported
  <1>6. CASE RateLimit(c)
    <2>1. PICK retryAfter \in RetryAfters :
             Finish(c, StartCooldown(pace, retryAfter), CountRateLimit(Rolled))
      BY <1>6 DEF RateLimit
    <2>2. Reported(pace, StartCooldown(pace, retryAfter))
      BY <1>1, CooldownPace, GateAssumption
    <2> QED
      BY <1>2, <2>1, <2>2 DEF Reported
  <1> QED
    BY <1>3, <1>4, <1>5, <1>6 DEF Answer

LEMMA FinishType ==
    ASSUME TypeOK, NEW c \in Clients, NEW p \in Pace, NEW d \in Daily, Finish(c, p, d)
    PROVE  TypeOK'
  <1> DEFINE left == [client EXCEPT ![c] = Outside]
  <1>1. left \in [Clients -> Caller] /\ left[c].pc = "outside"
    BY DEF TypeOK, Caller, Outside
  <1>2. client' \in [Clients -> Caller] /\ client'[c].pc # "using"
    BY <1>1, WakeTyped DEF Finish
  <1>3. \A e \in Clients \ {c} : client'[e].pc = "using" <=> client[e].pc = "using"
    <2>1. \A e \in Clients \ {c} : left[e] = client[e]
      BY DEF TypeOK
    <2>2. client' = Wake(left)
      BY DEF Finish
    <2> HIDE DEF left
    <2>3. \A e \in Clients : Wake(left)[e].pc = "using" <=> left[e].pc = "using"
      BY <1>1, WakeTyped
    <2> QED
      BY <2>1, <2>2, <2>3
  <1>4. active' = [active EXCEPT ![KindOf[c]] = Less(@)] /\ active \in [Kinds -> Nat]
    BY DEF Finish, TypeOK
  <1>5. active' \in [Kinds -> Nat]
    BY <1>4, KindsTyped DEF Less
  <1>6. ASSUME NEW k \in Kinds PROVE active'[k] = Cardinality(Using(k)')
    <2>1. IsFiniteSet(Using(k)) /\ active[k] = Cardinality(Using(k))
      BY Finite DEF TypeOK
    <2>2. CASE KindOf[c] # k
      <3>1. Using(k)' = Using(k)
        BY <1>3, <2>2, Moved
      <3> QED
        BY <1>4, <2>1, <2>2, <3>1
    <2>3. CASE KindOf[c] = k
      <3>1. Using(k)' = Using(k) \ {c} /\ c \in Using(k)
        BY <1>2, <1>3, <2>3, Moved DEF Finish, Using
      <3>2. Cardinality(Using(k)') = Cardinality(Using(k)) - 1
        BY <2>1, <3>1, FS_RemoveElement
      <3>3. active[k] # 0
        BY <2>1, <3>1, FS_EmptySet
      <3>4. active'[k] = active[k] - 1
        BY <1>4, <2>3, <3>3 DEF Less
      <3> QED
        BY <2>1, <3>2, <3>4
    <2> QED
      BY <2>2, <2>3
  <1>7. today' \in 0..MaxDays /\ sinceSlow' \in 0..CoolMin /\ requests' \in 0..MaxRequests
    BY GateAssumption DEF TypeOK, Finish
  <1>8. pace' \in Pace /\ daily' \in Daily
    BY DEF Finish
  <1> QED
    BY <1>2, <1>5, <1>6, <1>7, <1>8 DEF TypeOK

LEMMA PatienceTyped == \A c \in Clients : Patience(c) \subseteq Nat
  BY GateAssumption DEF Patience

\* What a step of the gate is: a turn of acquire, an answer, a new day noticed, or time.
LEMMA AcquireTries ==
    ASSUME TypeOK, NEW c \in Clients, Acquire(c)
    PROVE  /\ client[c].pc = "outside"
           /\ \E patience \in Nat : Try(c, patience)
           /\ requests' \in 0..MaxRequests
  <1>1. client[c].pc = "outside"
    BY DEF Acquire, Outside
  <1>2. requests' \in 0..MaxRequests
    BY GateAssumption DEF Acquire, TypeOK
  <1> QED
    BY <1>1, <1>2, PatienceTyped DEF Acquire

LEMMA ResumeTries ==
    ASSUME TypeOK, NEW c \in Clients, Resume(c)
    PROVE  /\ client[c].pc \in {"sleeping", "woken"}
           /\ \E patience \in Nat : Try(c, patience)
           /\ requests' \in 0..MaxRequests
  <1>1. client[c] \in Caller
    BY DEF TypeOK
  <1>2. client[c].pc \in {"sleeping", "woken"}
    BY DEF Resume
  <1>3. client[c].patience \in Nat
    BY <1>1, <1>2 DEF Caller
  <1> QED
    BY <1>2, <1>3 DEF Resume, TypeOK

LEMMA LookType == TypeOK /\ Look => TypeOK'
  <1> SUFFICES ASSUME TypeOK, Look PROVE TypeOK'
    OBVIOUS
  <1>1. \A k \in Kinds : Using(k)' = Using(k)
    BY RolledTyped DEF Look, Using
  <1> QED
    BY <1>1, RolledTyped DEF TypeOK, Look

LEMMA TickType == TypeOK /\ Tick => TypeOK'
  <1> SUFFICES ASSUME TypeOK, Tick PROVE TypeOK'
    OBVIOUS
  <1>1. pace' \in Pace
    <2>1. pace.cool \in 0..CoolMax /\ pace.since \in 0..IncreaseEvery
      BY DEF TypeOK, Pace
    <2>2. /\ Less(pace.cool) \in 0..CoolMax
          /\ Smaller(pace.since + 1, IncreaseEvery) \in 0..IncreaseEvery
      BY <2>1, GateAssumption DEF Less, Smaller
    <2> QED
      BY <2>2 DEF TypeOK, Pace, Tick
  <1>2. client' \in [Clients -> Caller]
    <2>1. ASSUME NEW c \in Clients PROVE client'[c] \in Caller
      <3>1. CASE client[c].pc = "sleeping"
        <4>1. /\ client[c] \in [pc : {"sleeping"}, patience : Nat, left : 0..CoolMax]
              /\ client[c].left \in 0..CoolMax
          BY <3>1 DEF TypeOK, Caller
        <4>2. Less(client[c].left) \in 0..CoolMax
          BY <4>1, GateAssumption DEF Less
        <4>3. client'[c] = [client[c] EXCEPT !.left = Less(@)]
          BY <3>1 DEF Tick
        <4> QED
          BY <4>1, <4>2, <4>3 DEF Caller
      <3>2. CASE client[c].pc # "sleeping"
        BY <3>2 DEF Tick, TypeOK
      <3> QED
        BY <3>1, <3>2
    <2> QED
      BY <2>1 DEF Tick
  <1>3. \A k \in Kinds : Using(k)' = Using(k)
    <2>1. \A c \in Clients : client'[c].pc = client[c].pc
      BY DEF Tick, TypeOK, Caller
    <2> QED
      BY <2>1 DEF Using
  <1>4. sinceSlow' \in 0..CoolMin
    BY GateAssumption DEF Tick, TypeOK, Smaller
  <1> QED
    BY <1>1, <1>2, <1>3, <1>4 DEF TypeOK, Tick

LEMMA NewDayType == TypeOK /\ NewDay => TypeOK'
  <1> SUFFICES ASSUME TypeOK, NewDay PROVE TypeOK'
    OBVIOUS
  <1>1. today' \in 0..MaxDays
    BY GateAssumption DEF TypeOK, NewDay
  <1> QED
    BY <1>1 DEF TypeOK, NewDay, Using

LEMMA InitType == Init => TypeOK
  <1> SUFFICES ASSUME Init PROVE TypeOK
    OBVIOUS
  <1>1. pace \in Pace
    <2>1. Smaller(CollectStart, CollectMax) \in 1..CollectMax
      BY GateAssumption DEF Smaller
    <2>2. GapStart \in GapMin..GapMax
      BY GateAssumption
    <2> QED
      BY <2>1, <2>2, Zeros DEF Init, Pace
  <1>2. daily \in Daily
    <2>1. PICK n \in 0..(DailyLock + 1) :
             daily = RestoreDaily(FreshDay(0), [tme429 |-> n, locked |-> n > DailyLock])
      BY DEF Init
    <2>2. n \in Nat /\ (n > DailyLock) \in BOOLEAN
      BY DailyLockAssumption
    <2>3. daily.ymd = 0 /\ daily.tme429 \in Nat /\ daily.locked \in BOOLEAN
      BY <2>1, <2>2 DEF RestoreDaily, FreshDay
    <2> QED
      BY <2>1, <2>2, <2>3 DEF Daily, RestoreDaily, FreshDay
  <1>3. client \in [Clients -> Caller] /\ \A k \in Kinds : Using(k) = {}
    BY DEF Init, Caller, Outside, Using
  <1>4. active \in [Kinds -> Nat] /\ \A k \in Kinds : active[k] = Cardinality(Using(k))
    BY <1>3, FS_EmptySet DEF Init
  <1> QED
    BY <1>1, <1>2, <1>3, <1>4, GateAssumption DEF Init, TypeOK

LEMMA NextType == TypeOK /\ [Next]_vars => TypeOK'
  <1> SUFFICES ASSUME TypeOK, [Next]_vars PROVE TypeOK'
    OBVIOUS
  <1>1. ASSUME NEW c \in Clients, Acquire(c) PROVE TypeOK'
    BY <1>1, AcquireTries, TryType
  <1>2. ASSUME NEW c \in Clients, Resume(c) PROVE TypeOK'
    BY <1>2, ResumeTries, TryType
  <1>3. ASSUME NEW c \in Clients, Answer(c) PROVE TypeOK'
    BY <1>3, AnswerReports, FinishType
  <1>4. CASE UNCHANGED vars
    BY <1>4 DEF vars, TypeOK, Using
  <1> QED
    BY <1>1, <1>2, <1>3, <1>4, LookType, TickType, NewDayType DEF Next

\* For any callers, limits and thresholds: the pace stays within its bounds, and the
\* slots counted as in use are those of the callers that use one.
THEOREM GateTypeCorrect == Spec => []TypeOK
  <1> QED
    BY InitType, NextType, PTL DEF Spec

-----------------------------------------------------------------------------
(* No lost wake-up *)

LEMMA LimitsPositive == TypeOK => \A k \in Kinds, d \in Daily : KindLimit(k, d) \in Nat \ {0}
  BY GateAssumption DEF TypeOK, Pace, KindLimit, CollectLimit, Smaller, Kinds

LEMMA TotalPositive == TotalMax \in Nat \ {0}
  BY GateAssumption DEF TotalMax, Larger

\* A gate without a slot for somebody has a slot in use.
LEMMA FullIsInUse ==
    ASSUME NEW a \in [Kinds -> Nat], NEW k \in Kinds, NEW limit \in Nat \ {0},
           ~(a["collect"] + a["preview"] + a["inspect"] < TotalMax /\ a[k] < limit)
    PROVE  \E j \in Kinds : a[j] > 0
  <1>1. \A j \in {"collect", "preview", "inspect"} : a[j] \in Nat
    BY DEF Kinds
  <1>2. CASE ~(a[k] < limit)
    BY <1>2
  <1>3. CASE ~(a["collect"] + a["preview"] + a["inspect"] < TotalMax)
    <2>1. a["collect"] > 0 \/ a["preview"] > 0 \/ a["inspect"] > 0
      BY <1>1, <1>3, TotalPositive
    <2> QED
      BY <2>1 DEF Kinds
  <1> QED
    BY <1>2, <1>3

\* What keeps the waiters right: none is left, or nothing changed for those that are but
\* slots taken.
LEMMA StillFull ==
    ASSUME TypeOK, TypeOK', NoLostWakeup, pace'.limit = pace.limit,
           \A k \in Kinds : active'[k] >= active[k],
           NEW c \in Clients, client[c].pc = "waiting", daily' = daily
    PROVE  ~CanStart(KindOf[c], daily)'
  <1> DEFINE k == KindOf[c]
  <1>1. k \in Kinds /\ ~CanStart(k, daily)
    BY KindsTyped DEF NoLostWakeup, Waiting
  <1>2. KindLimit(k, daily)' = KindLimit(k, daily) /\ KindLimit(k, daily) \in Nat
    BY <1>1, LimitsPositive DEF KindLimit, CollectLimit, TypeOK
  <1>3. \A j \in {"collect", "preview", "inspect", k} :
           active[j] \in Nat /\ active'[j] \in Nat /\ active'[j] >= active[j]
    BY <1>1 DEF TypeOK, Kinds
  <1>4. TotalMax \in Nat
    BY TotalPositive
  <1>5. CASE ~(active[k] < KindLimit(k, daily))
    <2>1. ~(active'[k] < KindLimit(k, daily)')
      BY <1>2, <1>3, <1>5
    <2> QED
      BY <2>1 DEF CanStart
  <1>6. CASE ~(active["collect"] + active["preview"] + active["inspect"] < TotalMax)
    <2>1. ~(active'["collect"] + active'["preview"] + active'["inspect"] < TotalMax)
      BY <1>3, <1>4, <1>6
    <2> QED
      BY <2>1 DEF CanStart
  <1> QED
    BY <1>1, <1>5, <1>6 DEF CanStart

LEMMA WaitersFull ==
    ASSUME TypeOK, TypeOK',
           \A c \in Clients : client'[c].pc = "waiting" => ~CanStart(KindOf[c], daily)'
    PROVE  NoLostWakeup'
  <1> SUFFICES ASSUME NEW c \in Clients, client'[c].pc = "waiting"
               PROVE  ~CanStart(KindOf[c], daily)' /\ (\E k \in Kinds : active[k] > 0)'
    BY DEF NoLostWakeup, Waiting
  <1>1. ~CanStart(KindOf[c], daily)'
    OBVIOUS
  <1>2. active' \in [Kinds -> Nat] /\ KindOf[c] \in Kinds
    BY KindsTyped DEF TypeOK
  <1>3. KindLimit(KindOf[c], daily)' \in Nat \ {0}
    BY GateAssumption DEF TypeOK, Pace, KindLimit, CollectLimit, Smaller
  <1>4. (\E k \in Kinds : active[k] > 0)'
    BY <1>1, <1>2, <1>3, FullIsInUse DEF CanStart
  <1> QED
    BY <1>1, <1>4

LEMMA TryWaiters ==
    ASSUME TypeOK, TypeOK', NoLostWakeup, NEW c \in Clients, NEW patience \in Nat,
           Try(c, patience), client[c].pc # "waiting"
    PROVE  NoLostWakeup'
  <1> SUFFICES ASSUME NEW e \in Clients, client'[e].pc = "waiting"
               PROVE  ~CanStart(KindOf[e], daily)'
    BY WaitersFull
  <1>1. daily' = Rolled /\ pace' = pace
    BY DEF Try
  <1>2. \A k \in Kinds : active'[k] >= active[k]
    BY DEF Try, TypeOK
  <1>3. PICK to : client' = [RolledClients EXCEPT ![c] = to]
    BY DEF Try
  <1>4. CASE e = c
    <2>1. client'[c] = to /\ to.pc = "waiting"
      BY <1>3, <1>4, RolledTyped
    <2>2. ~CanStart(KindOf[c], Rolled) /\ active' = active
      BY <2>1, RolledTyped DEF Try, Outside
    <2> QED
      BY <1>1, <1>4, <2>2 DEF CanStart, KindLimit, CollectLimit
  <1>5. CASE e # c
    <2>1. RolledClients[e].pc = "waiting"
      BY <1>3, <1>5, RolledTyped
    <2>2. client[e].pc = "waiting" /\ Rolled = daily
      BY <2>1, RolledTyped
    <2> QED
      BY <1>1, <1>2, <2>2, StillFull
  <1> QED
    BY <1>4, <1>5

LEMMA WakeupNext == TypeOK /\ NoLostWakeup /\ [Next]_vars => NoLostWakeup'
  <1> SUFFICES ASSUME TypeOK, NoLostWakeup, [Next]_vars
               PROVE  NoLostWakeup'
    OBVIOUS
  <1>1. TypeOK'
    BY NextType
  <1>2. ASSUME NEW c \in Clients, Acquire(c) PROVE NoLostWakeup'
    BY <1>1, <1>2, AcquireTries, TryWaiters
  <1>3. ASSUME NEW c \in Clients, Resume(c) PROVE NoLostWakeup'
    BY <1>1, <1>3, ResumeTries, TryWaiters
  <1>4. ASSUME NEW c \in Clients, NEW p, NEW d, Finish(c, p, d) PROVE NoLostWakeup'
    <2>1. [client EXCEPT ![c] = Outside] \in [Clients -> Caller]
      BY DEF TypeOK, Caller, Outside
    <2>2. \A e \in Clients : client'[e].pc # "waiting"
      BY <1>4, <2>1, WakeTyped DEF Finish
    <2> QED
      BY <2>2 DEF NoLostWakeup, Waiting
  <1>5. ASSUME NEW c \in Clients, Answer(c) PROVE NoLostWakeup'
    BY <1>4, <1>5, AnswerReports
  <1>6. CASE Look
    <2>1. \A e \in Clients : client'[e].pc # "waiting"
      BY <1>6, RolledTyped DEF Look
    <2> QED
      BY <2>1 DEF NoLostWakeup, Waiting
  <1>7. ASSUME pace'.limit = pace.limit, UNCHANGED <<daily, active>>,
               \A e \in Clients : client'[e].pc = client[e].pc
        PROVE  NoLostWakeup'
    <2>1. \A k \in Kinds : active'[k] >= active[k]
      BY <1>7 DEF TypeOK
    <2> QED
      BY <1>1, <1>7, <2>1, StillFull, WaitersFull
  <1>8. CASE Tick
    BY <1>7, <1>8 DEF Tick, TypeOK, Pace, Caller
  <1>9. CASE NewDay \/ UNCHANGED vars
    BY <1>7, <1>9 DEF NewDay, vars
  <1> QED
    BY <1>2, <1>3, <1>5, <1>6, <1>8, <1>9 DEF Next

\* For any callers, limits and thresholds, and whenever the day turns: a caller waits in
\* the list only while there is no slot for it and some caller is there to release one.
THEOREM NobodyForgotten == Spec => []NoLostWakeup
  <1>1. Init => NoLostWakeup
    BY DEF Init, NoLostWakeup, Waiting, Outside
  <1> QED
    BY <1>1, InitType, NextType, WakeupNext, PTL DEF Spec

-----------------------------------------------------------------------------
(* Slowing down, cooldowns and the lock of the day *)

\* The pace was lowered at least the shortest cooldown ago, or is cooling down since.
Spaced == sinceSlow + pace.cool >= CoolMin

\* A day with too many 429 answers is locked.
LockCounted == daily.tme429 > DailyLock => daily.locked

\* A step answers, lets time pass, or leaves the pace alone.
LEMMA PaceSteps ==
    ASSUME TypeOK, [Next]_vars
    PROVE  \/ \E c \in Clients, p \in Pace, d \in Daily :
                 /\ Finish(c, p, d)
                 /\ Reported(pace, p)
                 /\ d = Rolled \/ d = CountRateLimit(Rolled)
           \/ Tick
           \/ pace' = pace /\ sinceSlow' = sinceSlow
  <1>1. ASSUME NEW c \in Clients, Acquire(c) \/ Resume(c)
        PROVE  pace' = pace /\ sinceSlow' = sinceSlow
    BY <1>1 DEF Acquire, Resume, Try
  <1>2. CASE Look \/ NewDay \/ UNCHANGED vars
    BY <1>2 DEF Look, NewDay, vars
  <1> QED
    BY <1>1, <1>2, AnswerReports DEF Next

LEMMA TickPace ==
    ASSUME TypeOK, Tick
    PROVE  /\ ~Lowered(pace, pace')
           /\ pace'.cool = Less(pace.cool)
           /\ sinceSlow' = Smaller(sinceSlow + 1, CoolMin)
  <1>1. pace'.cool = Less(pace.cool) /\ pace'.limit = pace.limit /\ pace'.gap = pace.gap
    BY DEF Tick, TypeOK, Pace
  <1> QED
    BY <1>1, GateAssumption DEF Tick, Lowered, TypeOK, Pace

LEMMA SpacedNext ==
    ASSUME TypeOK, Spaced, [Next]_vars
    PROVE  Spaced' /\ (Lowered(pace, pace') => sinceSlow >= CoolMin)
  <1>1. /\ pace.cool \in 0..CoolMax /\ sinceSlow \in 0..CoolMin
        /\ CoolMin \in Nat \ {0} /\ CoolMax \in Nat
        /\ pace.limit \in Nat /\ pace.gap \in Nat
    BY GateAssumption DEF TypeOK, Pace
  <1>2. ASSUME NEW c \in Clients, NEW p \in Pace, NEW d \in Daily,
               Finish(c, p, d), Reported(pace, p)
        PROVE  Spaced' /\ (Lowered(pace, pace') => sinceSlow >= CoolMin)
    <2>1. /\ pace' = p /\ p.cool \in 0..CoolMax /\ p.cool >= pace.cool
          /\ sinceSlow' = IF Lowered(pace, p) THEN 0 ELSE sinceSlow
          /\ Lowered(pace, p) => pace.cool = 0 /\ p.cool >= CoolMin
      BY <1>2 DEF Finish, Reported, Pace
    <2>2. CASE Lowered(pace, p)
      BY <1>1, <2>1, <2>2 DEF Spaced
    <2>3. CASE ~Lowered(pace, p)
      BY <1>1, <2>1, <2>3 DEF Spaced
    <2> QED
      BY <2>2, <2>3
  <1>3. CASE Tick
    BY <1>1, <1>3, TickPace DEF Spaced, Less, Smaller
  <1>4. CASE pace' = pace /\ sinceSlow' = sinceSlow
    BY <1>1, <1>4 DEF Spaced, Lowered
  <1> QED
    BY <1>2, <1>3, <1>4, PaceSteps

\* For any callers and any burst of bad answers: one slowing down per shortest cooldown.
THEOREM SlowedOnce == Spec => SlowsDownOncePerCooldown
  <1>1. Init => Spaced
    BY GateAssumption DEF Init, Spaced
  <1>2. TypeOK /\ Spaced /\ [Next]_vars => Spaced'
    BY SpacedNext
  <1>3. TypeOK /\ Spaced /\ [Next]_vars => [Lowered(pace, pace') => sinceSlow >= CoolMin]_vars
    BY SpacedNext
  <1> QED
    BY <1>1, <1>2, <1>3, GateTypeCorrect, PTL DEF Spec, SlowsDownOncePerCooldown

\* For any callers and answers: only time shortens a cooldown.
THEOREM CooldownOnlyPasses == Spec => CooldownKept
  <1>1. ASSUME TypeOK, [Next]_vars PROVE [pace'.cool < pace.cool => Tick]_vars
    <2>1. pace.cool \in Nat
      BY <1>1 DEF TypeOK, Pace
    <2>2. ASSUME NEW c \in Clients, NEW p \in Pace, NEW d \in Daily,
                 Finish(c, p, d), Reported(pace, p)
          PROVE  ~(pace'.cool < pace.cool)
      BY <2>1, <2>2 DEF Finish, Reported, Pace
    <2> QED
      BY <1>1, <2>1, <2>2, PaceSteps
  <1>2. TypeOK /\ [Next]_vars => [pace'.cool < pace.cool => Tick]_vars
    BY <1>1
  <1> QED
    BY <1>2, GateTypeCorrect, PTL DEF Spec, CooldownKept

LEMMA LockCountedNext == TypeOK /\ LockCounted /\ [Next]_vars => LockCounted'
  <1> SUFFICES ASSUME TypeOK, LockCounted, [Next]_vars PROVE LockCounted'
    OBVIOUS
  <1>1. Rolled.tme429 > DailyLock => Rolled.locked
    BY DailyLockAssumption DEF Rolled, RollDay, FreshDay, LockCounted
  <1>2. CASE daily' = Rolled
    BY <1>1, <1>2 DEF LockCounted
  <1>3. CASE daily' = CountRateLimit(Rolled)
    <2>1. Rolled \in Daily
      BY RolledTyped
    <2>2. /\ daily'.tme429 = Rolled.tme429 + 1
          /\ daily'.locked = (Rolled.locked \/ Rolled.tme429 + 1 > DailyLock)
      BY <1>3, <2>1, Zenon DEF CountRateLimit, Daily
    <2> QED
      BY <2>2 DEF LockCounted
  <1>4. CASE daily' = daily
    BY <1>4 DEF LockCounted
  <1>5. daily' = Rolled \/ daily' = CountRateLimit(Rolled) \/ daily' = daily
    <2>1. ASSUME NEW c \in Clients, Acquire(c) \/ Resume(c) PROVE daily' = Rolled
      BY <2>1 DEF Acquire, Resume, Try
    <2>2. ASSUME NEW c \in Clients, Answer(c)
          PROVE  daily' = Rolled \/ daily' = CountRateLimit(Rolled)
      BY <2>2, AnswerReports DEF Finish
    <2> QED
      BY <2>1, <2>2 DEF Next, Look, Tick, NewDay, vars
  <1> QED
    BY <1>2, <1>3, <1>4, <1>5

\* For any callers, and whatever was restored at the start: after too many 429 answers
\* the collector takes slots one at a time for the rest of the day.
THEOREM OneAtATimeWhenLocked == Spec => LockedForTheDay
  <1>1. Init => LockCounted
    <2> SUFFICES ASSUME Init PROVE LockCounted
      OBVIOUS
    <2>1. PICK n \in 0..(DailyLock + 1) :
             daily = RestoreDaily(FreshDay(0), [tme429 |-> n, locked |-> n > DailyLock])
      BY DEF Init
    <2>2. n > 0 \/ n = 0
      BY DailyLockAssumption
    <2>3. daily.tme429 = n
      BY <2>1, <2>2 DEF RestoreDaily, FreshDay
    <2>4. daily.locked <=> n > DailyLock
      BY <2>1, Zenon DEF RestoreDaily, FreshDay
    <2> QED
      BY <2>3, <2>4 DEF LockCounted
  <1>2. ASSUME TypeOK, LockCounted, [Next]_vars,
               daily.ymd = today, daily.tme429 > DailyLock,
               active'["collect"] > active["collect"]
        PROVE  active["collect"] = 0
    <2>1. active["collect"] \in Nat /\ active \in [Kinds -> Nat]
      BY <1>2 DEF TypeOK, Kinds
    <2>2. ASSUME NEW c \in Clients, NEW patience, Try(c, patience) PROVE active["collect"] = 0
      <3>1. KindOf[c] = "collect" /\ CanStart(KindOf[c], Rolled)
        <4>1. active' # active
          BY <1>2, <2>1
        <4>2. /\ CanStart(KindOf[c], Rolled)
              /\ active' = [active EXCEPT ![KindOf[c]] = @ + 1]
          BY <2>2, <4>1, Zenon DEF Try
        <4> QED
          BY <1>2, <2>1, <4>2
      <3>2. Rolled.locked
        BY <1>2 DEF Rolled, RollDay, LockCounted
      <3>3. KindLimit("collect", Rolled) = 1
        BY <3>2 DEF KindLimit, CollectLimit
      <3>4. active["collect"] < 1
        BY <3>1, <3>3 DEF CanStart
      <3> QED
        BY <2>1, <3>4
    <2>3. ASSUME NEW c \in Clients, NEW p, NEW d, Finish(c, p, d) PROVE FALSE
      BY <1>2, <2>1, <2>3 DEF Finish, Less
    <2>4. ASSUME active' = active PROVE FALSE
      BY <1>2, <2>1, <2>4
    <2>5. ASSUME NEW c \in Clients, Acquire(c) \/ Resume(c) PROVE active["collect"] = 0
      BY <2>2, <2>5 DEF Acquire, Resume
    <2>6. ASSUME NEW c \in Clients, Answer(c) PROVE FALSE
      BY <1>2, <2>3, <2>6, AnswerReports
    <2>7. CASE Look \/ Tick \/ NewDay \/ UNCHANGED vars
      BY <2>4, <2>7 DEF Look, Tick, NewDay, vars
    <2> QED
      BY <1>2, <2>5, <2>6, <2>7 DEF Next
  <1>3. TypeOK /\ LockCounted /\ [Next]_vars =>
          [(/\ daily.ymd = today /\ daily.tme429 > DailyLock
            /\ active'["collect"] > active["collect"]) => active["collect"] = 0]_vars
    BY <1>2
  <1> QED
    BY <1>1, <1>3, LockCountedNext, GateTypeCorrect, PTL DEF Spec, LockedForTheDay

\* No day of the gate is still to come.
DayKnown == daily.ymd <= today

LEMMA DaySteps ==
    ASSUME TypeOK, [Next]_vars
    PROVE  /\ daily' \in {daily, Rolled, CountRateLimit(Rolled)}
           /\ today' = today \/ (today' = today + 1 /\ daily' = daily)
  <1>1. ASSUME NEW c \in Clients, Acquire(c) \/ Resume(c) PROVE daily' = Rolled /\ today' = today
    BY <1>1 DEF Acquire, Resume, Try
  <1>2. ASSUME NEW c \in Clients, Answer(c)
        PROVE  daily' \in {Rolled, CountRateLimit(Rolled)} /\ today' = today
    BY <1>2, AnswerReports DEF Finish
  <1> QED
    BY <1>1, <1>2 DEF Next, Look, Tick, NewDay, vars

LEMMA DayGrows ==
    ASSUME TypeOK, DayKnown, [Next]_vars
    PROVE  /\ daily.ymd <= daily'.ymd /\ daily'.ymd <= today
           /\ daily'.ymd = daily.ymd =>
                daily.tme429 <= daily'.tme429 /\ (daily.locked => daily'.locked)
  <1>1. daily \in Daily /\ daily.ymd \in Nat /\ daily.tme429 \in Nat /\ today \in Nat
    BY DEF TypeOK, Daily
  <1>2. Rolled.ymd = today /\ (today = daily.ymd => Rolled = daily) /\ Rolled \in Daily
    BY RolledTyped DEF Rolled, RollDay, FreshDay
  <1>3. CASE daily' = daily
    BY <1>1, <1>3 DEF DayKnown
  <1>4. CASE daily' = Rolled
    BY <1>1, <1>2, <1>4 DEF DayKnown
  <1>5. CASE daily' = CountRateLimit(Rolled)
    <2>1. /\ daily'.ymd = today
          /\ daily'.tme429 = Rolled.tme429 + 1
      BY <1>2, <1>5 DEF CountRateLimit, Daily
    <2>2. Rolled.locked => daily'.locked
      BY <1>2, <1>5, Zenon DEF CountRateLimit, Daily
    <2>3. today = daily.ymd => daily.tme429 <= daily'.tme429
      BY <1>1, <1>2, <2>1
    <2>4. today = daily.ymd => (daily.locked => daily'.locked)
      BY <1>2, <2>2
    <2> QED
      BY <1>1, <2>1, <2>3, <2>4 DEF DayKnown
  <1> QED
    BY <1>3, <1>4, <1>5, DaySteps

\* For any callers, answers and midnights: the numbers of the day change in the ways
\* DailyCounters stores, and within a day they never go back.
THEOREM DayNeverGoesBack == Spec => DayOnlyGrows
  <1>1. Init => DayKnown
    BY DEF Init, DayKnown, RestoreDaily, FreshDay
  <1>2. TypeOK /\ DayKnown /\ [Next]_vars => DayKnown'
    <2> SUFFICES ASSUME TypeOK, DayKnown, [Next]_vars PROVE DayKnown'
      OBVIOUS
    <2>1. daily'.ymd <= today /\ today \in Nat /\ daily'.ymd \in Nat
      BY DayGrows, NextType DEF TypeOK, Daily
    <2> QED
      BY <2>1, DaySteps DEF DayKnown
  <1>3. TypeOK /\ DayKnown /\ [Next]_vars =>
          [/\ daily' \in {daily, Rolled, CountRateLimit(Rolled)}
           /\ daily.ymd <= daily'.ymd /\ daily'.ymd <= today
           /\ daily'.ymd = daily.ymd =>
                daily.tme429 <= daily'.tme429 /\ (daily.locked => daily'.locked)]_vars
    BY DaySteps, DayGrows
  <1> QED
    BY <1>1, <1>2, <1>3, GateTypeCorrect, PTL DEF Spec, DayOnlyGrows

-----------------------------------------------------------------------------
(* The gate is a slot pool *)

LEMMA PlaceOf ==
    ASSUME NEW c \in Clients
    PROVE  /\ Place[c] = "inside" <=> client[c].pc = "using"
           /\ Place[c] = "outside" <=> client[c].pc = "outside"
           /\ Place[c] \in {"inside", "outside", "asking"}
  BY DEF Place

LEMMA PlaceOfNext ==
    ASSUME NEW c \in Clients
    PROVE  /\ Place'[c] = "inside" <=> client'[c].pc = "using"
           /\ Place'[c] = "outside" <=> client'[c].pc = "outside"
           /\ Place'[c] \in {"inside", "outside", "asking"}
  BY DEF Place

LEMMA InsideUsing == \A k \in Kinds : Pool!InsideOf(k) = Using(k)
  BY PlaceOf DEF Pool!InsideOf, Pool!Inside, Using

LEMMA InsideCount ==
    ASSUME TypeOK
    PROVE  Cardinality(Pool!Inside) = active["collect"] + active["preview"] + active["inspect"]
  <1> DEFINE U == Using("collect")
             V == Using("preview")
             W == Using("inspect")
  <1>1. IsFiniteSet(U) /\ IsFiniteSet(V) /\ IsFiniteSet(W)
    BY Finite DEF Kinds
  <1>2. Pool!Inside = (U \cup V) \cup W
    BY PlaceOf, KindsTyped DEF Pool!Inside, Using, Kinds
  <1>3. U \cap V = {} /\ (U \cup V) \cap W = {}
    BY DEF Using
  <1>4. IsFiniteSet(U \cup V) /\ Cardinality(U \cup V) = Cardinality(U) + Cardinality(V) - 0
    BY <1>1, <1>3, FS_Union, FS_EmptySet
  <1>5. Cardinality((U \cup V) \cup W) = Cardinality(U \cup V) + Cardinality(W) - 0
    BY <1>1, <1>3, <1>4, FS_Union, FS_EmptySet
  <1>6. /\ active["collect"] = Cardinality(U) /\ active["preview"] = Cardinality(V)
        /\ active["inspect"] = Cardinality(W)
    BY DEF TypeOK, Kinds
  <1>7. active["collect"] \in Nat /\ active["preview"] \in Nat /\ active["inspect"] \in Nat
    BY DEF TypeOK, Kinds
  <1> HIDE DEF U, V, W
  <1> QED
    BY <1>2, <1>4, <1>5, <1>6, <1>7

\* The pool's module has its own copy of the standard operator.
LEMMA SameCardinality == ASSUME NEW S PROVE Pool!Cardinality(S) = Cardinality(S)
  BY DEF Pool!Cardinality, Cardinality

LEMMA RoomToStart ==
    ASSUME TypeOK, NEW k \in Kinds, CanStart(k, Rolled)
    PROVE  Pool!Room(k)
  <1>1. Cardinality(Pool!Inside) < TotalMax
    BY InsideCount DEF CanStart
  <1>2. Cardinality(Pool!InsideOf(k)) = active[k] /\ active[k] \in Nat
    BY InsideUsing DEF TypeOK
  <1>3. /\ KindLimit(k, Rolled) <= Capacity[k]
        /\ KindLimit(k, Rolled) \in Nat /\ Capacity[k] \in Nat
    BY GateAssumption DEF KindLimit, CollectLimit, Capacity, Smaller, TypeOK, Pace, Kinds
  <1>4. active[k] < KindLimit(k, Rolled)
    BY DEF CanStart
  <1>5. Cardinality(Pool!InsideOf(k)) < Capacity[k]
    BY <1>2, <1>3, <1>4
  <1> QED
    BY <1>1, <1>5, SameCardinality DEF Pool!Room

\* A caller moves and the others stay where the pool sees them.
LEMMA OnlyMoves ==
    ASSUME NEW c \in Clients,
           \A d \in Clients \ {c} :
              /\ client'[d].pc = "using" <=> client[d].pc = "using"
              /\ client'[d].pc = "outside" <=> client[d].pc = "outside"
    PROVE  \A to : Place'[c] = to => Place' = [Place EXCEPT ![c] = to]
  <1>1. \A d \in Clients \ {c} : Place'[d] = Place[d]
    BY PlaceOf, PlaceOfNext
  <1>2. Place = [d \in Clients |-> Place[d]] /\ Place' = [d \in Clients |-> Place'[d]]
    BY DEF Place
  <1> QED
    BY <1>1, <1>2

LEMMA TryMaps ==
    ASSUME TypeOK, NEW c \in Clients, NEW patience \in Nat, Try(c, patience),
           client[c].pc # "using"
    PROVE  [Pool!PoolNext]_Pool!poolVars
  <1>1. (pace.cool > 0)' = (pace.cool > 0)
    BY DEF Try
  <1>2. PICK to : client' = [RolledClients EXCEPT ![c] = to]
    BY DEF Try
  <1>3. client'[c] = to
    BY <1>2, RolledTyped
  <1>4. \A d \in Clients \ {c} :
           /\ client'[d].pc = "using" <=> client[d].pc = "using"
           /\ client'[d].pc = "outside" <=> client[d].pc = "outside"
    BY <1>2, RolledTyped
  <1>5. Place' = [Place EXCEPT ![c] = Place'[c]]
    BY <1>4, OnlyMoves
  <1>6. Place[c] \in {"outside", "asking"}
    BY PlaceOf
  <1>7. Place'[c] \in {"inside", "outside", "asking"}
    BY PlaceOfNext
  <1>8. CASE Place'[c] = Place[c]
    <2>1. Place' = Place
      BY <1>5, <1>8 DEF Place
    <2> QED
      BY <1>1, <2>1 DEF Pool!poolVars
  <1>9. CASE Place'[c] = "inside"
    <2>1. to.pc = "using"
      BY <1>3, <1>9, PlaceOfNext
    <2>2. pace.cool = 0 /\ CanStart(KindOf[c], Rolled)
      <3>1. \A other : other.pc # "using" =>
               client' # [RolledClients EXCEPT ![c] = other]
        BY <1>3, <2>1, RolledTyped
      <3> QED
        BY <3>1, Zenon DEF Try, Outside
    <2>3. Pool!Room(KindOf[c])
      BY <2>2, RoomToStart, KindsTyped
    <2>4. Pool!Enter(c)
      BY <1>5, <1>6, <1>9, <2>2, <2>3 DEF Pool!Enter
    <2> QED
      BY <1>1, <2>4 DEF Pool!PoolNext
  <1>10. CASE Place[c] = "outside" /\ Place'[c] = "asking"
    BY <1>1, <1>5, <1>10 DEF Pool!PoolNext, Pool!Ask
  <1>11. CASE Place[c] = "asking" /\ Place'[c] = "outside"
    BY <1>1, <1>5, <1>11 DEF Pool!PoolNext, Pool!TurnAway
  <1> QED
    BY <1>6, <1>7, <1>8, <1>9, <1>10, <1>11

LEMMA FinishMaps ==
    ASSUME TypeOK, NEW c \in Clients, NEW p \in Pace, NEW d \in Daily,
           Finish(c, p, d), Reported(pace, p)
    PROVE  [Pool!PoolNext]_Pool!poolVars
  <1> DEFINE left == [client EXCEPT ![c] = Outside]
  <1>1. left \in [Clients -> Caller] /\ left[c].pc = "outside"
    BY DEF TypeOK, Caller, Outside
  <1>2. \A e \in Clients \ {c} : left[e] = client[e]
    BY DEF TypeOK
  <1>3. client' = Wake(left)
    BY DEF Finish
  <1> HIDE DEF left
  <1>4. \A e \in Clients :
           /\ client'[e].pc = "using" <=> left[e].pc = "using"
           /\ client'[e].pc = "outside" <=> left[e].pc = "outside"
    BY <1>1, <1>3, WakeTyped
  <1>5. Place'[c] = "outside" /\ Place[c] = "inside"
    BY <1>1, <1>4, PlaceOf, PlaceOfNext DEF Finish
  <1>6. Place' = [Place EXCEPT ![c] = "outside"]
    BY <1>2, <1>4, <1>5, OnlyMoves
  <1>7. pace'.cool > 0 \/ ~(pace.cool > 0)
    BY DEF Finish, Reported, TypeOK, Pace
  <1>8. Pool!Leave(c)
    BY <1>5, <1>6 DEF Pool!Leave
  <1>9. (pace.cool > 0)' = TRUE \/ (pace.cool > 0)' = (pace.cool > 0)
    BY <1>7
  <1> QED
    BY <1>8, <1>9 DEF Pool!PoolNext

\* For any callers, limits and thresholds: the gate implements the slot pool, with each
\* kind's capacity, the total, and nobody let in during a cooldown.
THEOREM GateIsSlotPool == Spec => IsSlotPool
  <1>1. Init => Pool!PoolInit
    <2>1. ASSUME Init PROVE Place = [c \in Clients |-> "outside"]
      BY <2>1 DEF Init, Place, Outside
    <2>2. ASSUME Init PROVE (pace.cool > 0) = FALSE
      BY <2>2 DEF Init
    <2> QED
      BY <2>1, <2>2 DEF Pool!PoolInit
  <1>2. TypeOK /\ [Next]_vars => [Pool!PoolNext]_Pool!poolVars
    <2> SUFFICES ASSUME TypeOK, [Next]_vars PROVE [Pool!PoolNext]_Pool!poolVars
      OBVIOUS
    <2>1. ASSUME NEW c \in Clients, Acquire(c) PROVE [Pool!PoolNext]_Pool!poolVars
      BY <2>1, AcquireTries, TryMaps
    <2>2. ASSUME NEW c \in Clients, Resume(c) PROVE [Pool!PoolNext]_Pool!poolVars
      BY <2>2, ResumeTries, TryMaps
    <2>3. ASSUME NEW c \in Clients, Answer(c) PROVE [Pool!PoolNext]_Pool!poolVars
      BY <2>3, AnswerReports, FinishMaps
    <2>4. CASE Look
      <3>1. Place' = Place /\ (pace.cool > 0)' = (pace.cool > 0)
        BY <2>4, RolledTyped DEF Look, Place
      <3> QED
        BY <3>1 DEF Pool!poolVars
    <2>5. CASE Tick
      <3>1. Place' = Place
        BY <2>5 DEF Tick, Place, TypeOK, Caller
      <3>2. (pace.cool > 0)' = FALSE \/ (pace.cool > 0)' = (pace.cool > 0)
        BY <2>5, TickPace DEF TypeOK, Pace, Less
      <3> QED
        BY <3>1, <3>2 DEF Pool!poolVars, Pool!PoolNext
    <2>6. CASE NewDay \/ UNCHANGED vars
      <3>1. Place' = Place /\ (pace.cool > 0)' = (pace.cool > 0)
        BY <2>6 DEF NewDay, vars, Place
      <3> QED
        BY <3>1 DEF Pool!poolVars
    <2> QED
      BY <2>1, <2>2, <2>3, <2>4, <2>5, <2>6 DEF Next
  <1> QED
    BY <1>1, <1>2, GateTypeCorrect, PTL DEF Spec, IsSlotPool, Pool!PoolSpec

-----------------------------------------------------------------------------
(* What a slot pool promises, and the gate with it *)

LEMMA CapacityTyped == TotalMax \in Nat /\ \A k \in Kinds : Capacity[k] \in Nat
  BY GateAssumption DEF TotalMax, Larger, Capacity, Kinds

\* Fewer callers are no more than there were.
LEMMA FewerInside ==
    ASSUME Pool!LimitsKept, Pool!Inside' \subseteq Pool!Inside
    PROVE  Pool!LimitsKept'
  <1>1. IsFiniteSet(Pool!Inside) /\ \A k : IsFiniteSet(Pool!InsideOf(k))
    BY GateAssumption, FS_Subset DEF Pool!Inside, Pool!InsideOf
  <1>2. \A k : Pool!InsideOf(k)' \subseteq Pool!InsideOf(k)
    BY DEF Pool!InsideOf
  <1>3. Cardinality(Pool!Inside) <= TotalMax /\ Cardinality(Pool!Inside) \in Nat
    BY <1>1, SameCardinality, FS_CardinalityType DEF Pool!LimitsKept
  <1>4. Cardinality(Pool!Inside') <= Cardinality(Pool!Inside) /\ Cardinality(Pool!Inside') \in Nat
    BY <1>1, FS_Subset, FS_CardinalityType
  <1>5. ASSUME NEW k \in Kinds PROVE Cardinality(Pool!InsideOf(k)') <= Capacity[k]
    <2>1. Cardinality(Pool!InsideOf(k)) <= Capacity[k] /\ Cardinality(Pool!InsideOf(k)) \in Nat
      BY <1>1, SameCardinality, FS_CardinalityType DEF Pool!LimitsKept
    <2>2. /\ Cardinality(Pool!InsideOf(k)') <= Cardinality(Pool!InsideOf(k))
          /\ Cardinality(Pool!InsideOf(k)') \in Nat
      BY <1>1, <1>2, FS_Subset, FS_CardinalityType
    <2> QED
      BY <2>1, <2>2, CapacityTyped
  <1>6. Cardinality(Pool!Inside') <= TotalMax
    BY <1>3, <1>4, CapacityTyped
  <1>7. Capacity' = Capacity
    BY DEF Capacity
  <1> QED
    BY <1>5, <1>6, <1>7, SameCardinality DEF Pool!LimitsKept

\* One more finds room, for all callers and for those of its kind.
LEMMA OneMoreInside ==
    ASSUME Pool!LimitsKept, NEW c \in Clients, Pool!Enter(c)
    PROVE  Pool!LimitsKept'
  <1>1. /\ c \notin Pool!Inside /\ Pool!Inside' = Pool!Inside \cup {c}
        /\ c \notin Pool!InsideOf(KindOf[c]) /\ Pool!InsideOf(KindOf[c])' = Pool!InsideOf(KindOf[c]) \cup {c}
        /\ \A k \in Kinds \ {KindOf[c]} : Pool!InsideOf(k)' = Pool!InsideOf(k)
    BY DEF Pool!Enter, Pool!Inside, Pool!InsideOf, Place
  <1>2. IsFiniteSet(Pool!Inside) /\ \A k : IsFiniteSet(Pool!InsideOf(k))
    BY GateAssumption, FS_Subset DEF Pool!Inside, Pool!InsideOf
  <1>3. /\ Cardinality(Pool!Inside) \in Nat
        /\ \A k : Cardinality(Pool!InsideOf(k)) \in Nat
    BY <1>2, FS_CardinalityType
  <1>4. /\ Cardinality(Pool!Inside') = Cardinality(Pool!Inside) + 1
        /\ Cardinality(Pool!InsideOf(KindOf[c])') = Cardinality(Pool!InsideOf(KindOf[c])) + 1
    BY <1>1, <1>2, FS_AddElement
  <1>5. Cardinality(Pool!Inside) < TotalMax /\ Cardinality(Pool!InsideOf(KindOf[c])) < Capacity[KindOf[c]]
    BY SameCardinality DEF Pool!Enter, Pool!Room
  <1>6. Cardinality(Pool!Inside') <= TotalMax
    BY <1>3, <1>4, <1>5, CapacityTyped
  <1>7. ASSUME NEW k \in Kinds PROVE Cardinality(Pool!InsideOf(k)') <= Capacity[k]
    <2>1. CASE k = KindOf[c]
      BY <1>3, <1>4, <1>5, <2>1, CapacityTyped
    <2>2. CASE k # KindOf[c]
      BY <1>1, <2>2, SameCardinality DEF Pool!LimitsKept
    <2> QED
      BY <2>1, <2>2
  <1>8. Capacity' = Capacity
    BY DEF Capacity
  <1> QED
    BY <1>6, <1>7, <1>8, SameCardinality DEF Pool!LimitsKept

LEMMA PoolStaysWithin ==
    ASSUME Pool!LimitsKept, [Pool!PoolNext]_Pool!poolVars
    PROVE  Pool!LimitsKept'
  <1>1. ASSUME NEW c \in Clients, Pool!Ask(c) \/ Pool!TurnAway(c) \/ Pool!Leave(c)
        PROVE  Pool!LimitsKept'
    <2>1. Pool!Inside' \subseteq Pool!Inside
      BY <1>1 DEF Pool!Ask, Pool!TurnAway, Pool!Leave, Pool!Inside, Place
    <2> QED
      BY <2>1, FewerInside
  <1>2. ASSUME Place' = Place PROVE Pool!LimitsKept'
    <2>1. Pool!Inside' \subseteq Pool!Inside
      BY <1>2 DEF Pool!Inside
    <2> QED
      BY <2>1, FewerInside
  <1> QED
    BY <1>1, <1>2, OneMoreInside DEF Pool!PoolNext, Pool!poolVars

\* Whatever implements a slot pool lets no more callers in than all slots and those of
\* each kind: the promise follows from the abstract specification alone.
THEOREM SlotPoolsKeepLimits == IsSlotPool => []Pool!LimitsKept
  <1>1. Pool!PoolInit => Pool!LimitsKept
    <2> SUFFICES ASSUME Pool!PoolInit PROVE Pool!LimitsKept
      OBVIOUS
    <2>1. Pool!Inside = {} /\ \A k : Pool!InsideOf(k) = {}
      BY DEF Pool!PoolInit, Pool!Inside, Pool!InsideOf
    <2> QED
      BY <2>1, FS_EmptySet, SameCardinality, CapacityTyped DEF Pool!LimitsKept
  <1>2. Pool!LimitsKept /\ [Pool!PoolNext]_Pool!poolVars => Pool!LimitsKept'
    BY PoolStaysWithin
  <1> QED
    BY <1>1, <1>2, PTL DEF IsSlotPool, Pool!PoolSpec

\* For any callers and thresholds: the gate never has more requests under way than all its
\* slots, nor more of a kind than the most that kind may ever have (tme-gate.ts, canStart).
THEOREM LimitsAlwaysKept == Spec => []LimitsKept
  <1>1. TypeOK /\ Pool!LimitsKept => LimitsKept
    <2> SUFFICES ASSUME TypeOK, Pool!LimitsKept PROVE LimitsKept
      OBVIOUS
    <2>1. active["collect"] + active["preview"] + active["inspect"] <= TotalMax
      BY InsideCount, SameCardinality DEF Pool!LimitsKept
    <2>2. \A k \in Kinds : active[k] <= Capacity[k]
      BY InsideUsing, SameCardinality DEF TypeOK, Pool!LimitsKept
    <2>3. /\ Capacity["collect"] = CollectMax
          /\ Capacity["preview"] = PreviewLimit
          /\ Capacity["inspect"] = InspectLimit
      BY DEF Capacity, Kinds
    <2> QED
      BY <2>1, <2>2, <2>3 DEF LimitsKept, Kinds
  <1> QED
    BY <1>1, GateTypeCorrect, GateIsSlotPool, SlotPoolsKeepLimits, PTL

-----------------------------------------------------------------------------
(* The numbers of the day over restarts: the theorems of DailyCounters. *)

LEMMA FreshGate == ASSUME NEW day \in Nat PROVE FreshDay(day) \in Daily
  BY DEF FreshDay, Daily

LEMMA RolledGateTyped == StoreTypeOK => RolledGate \in Daily
  BY FreshGate DEF StoreTypeOK, RolledGate, RollDay

LEMMA CountGateTyped == ASSUME NEW d \in Daily PROVE CountRateLimit(d) \in Daily
  <1>1. d.tme429 + 1 \in Nat
    BY DEF Daily
  <1>2. (d.locked \/ d.tme429 + 1 > DailyLock) \in BOOLEAN
    OBVIOUS
  <1> QED
    BY <1>1, <1>2, Zenon DEF CountRateLimit, Daily

LEMMA RestoredGateTyped == StoreTypeOK => Restored \in Daily
  <1> SUFFICES ASSUME StoreTypeOK PROVE Restored \in Daily
    OBVIOUS
  <1>1. RolledGate \in Daily /\ Saved \in Daily
    BY RolledGateTyped, FreshGate DEF StoreTypeOK, Saved
  <1> QED
    BY <1>1, Zenon DEF Restored, RestoreDaily, Daily

\* The saves that are left when one has ended.
LEMMA Removed ==
    ASSUME NEW S, NEW s \in Seq(S), NEW i \in DOMAIN s
    PROVE  /\ RemoveAt(s, i) \in Seq(S) /\ Len(RemoveAt(s, i)) = Len(s) - 1
           /\ \A j \in DOMAIN RemoveAt(s, i) : \E k \in DOMAIN s : RemoveAt(s, i)[j] = s[k]
           /\ \A j \in i..(Len(s) - 1) : RemoveAt(s, i)[j] = s[j + 1]
  <1>1. i \in 1..Len(s) /\ Len(s) \in Nat
    OBVIOUS
  <1> DEFINE a == SubSeq(s, 1, i - 1)
             b == SubSeq(s, i + 1, Len(s))
  <1>2. a \in Seq(S) /\ Len(a) = i - 1 /\ \A j \in 1..(i - 1) : a[j] = s[j]
    BY <1>1
  <1>3. b \in Seq(S) /\ Len(b) = Len(s) - i /\ \A j \in 1..(Len(s) - i) : b[j] = s[i + j]
    BY <1>1
  <1>4. RemoveAt(s, i) = a \o b
    BY DEF RemoveAt
  <1> HIDE DEF a, b
  <1>5. /\ a \o b \in Seq(S) /\ Len(a \o b) = Len(s) - 1
        /\ \A j \in 1..(Len(s) - 1) : (a \o b)[j] = IF j < i THEN a[j] ELSE b[j - (i - 1)]
    <2>1. Len(a) + Len(b) = Len(s) - 1
      BY <1>1, <1>2, <1>3
    <2>2. \A j \in 1..(Len(s) - 1) :
             (a \o b)[j] = IF j <= i - 1 THEN a[j] ELSE b[j - (i - 1)]
      BY <1>2, <1>3, <2>1, ConcatProperties
    <2>3. a \o b \in Seq(S) /\ Len(a \o b) = Len(s) - 1
      BY <1>2, <1>3, <2>1, ConcatProperties
    <2> QED
      BY <1>1, <2>2, <2>3
  <1>6. ASSUME NEW j \in 1..(Len(s) - 1)
        PROVE  (\E k \in 1..Len(s) : (a \o b)[j] = s[k]) /\ (j >= i => (a \o b)[j] = s[j + 1])
    <2>1. CASE j < i
      BY <1>1, <1>2, <1>5, <2>1
    <2>2. CASE ~(j < i)
      <3>1. j - (i - 1) \in 1..(Len(s) - i) /\ i + (j - (i - 1)) = j + 1
        BY <1>1, <2>2
      <3>2. (a \o b)[j] = s[j + 1]
        BY <1>3, <1>5, <2>2, <3>1
      <3> QED
        BY <1>1, <3>2
    <2> QED
      BY <2>1, <2>2
  <1>7. DOMAIN (a \o b) = 1..(Len(s) - 1) /\ DOMAIN s = 1..Len(s)
    BY <1>5
  <1>8. ASSUME NEW j \in i..(Len(s) - 1) PROVE (a \o b)[j] = s[j + 1]
    <2>1. j \in 1..(Len(s) - 1) /\ j >= i
      BY <1>1
    <2> QED
      BY <1>6, <2>1
  <1> QED
    BY <1>4, <1>5, <1>6, <1>7, <1>8

-----------------------------------------------------------------------------
(* Shape *)

LEMMA StoreInitType == StoreInit => StoreTypeOK
  <1> SUFFICES ASSUME StoreInit PROVE StoreTypeOK
    OBVIOUS
  <1>1. row \in Daily
    <2>1. PICK n \in 0..MaxCount : row = [ymd |-> 0, tme429 |-> n, locked |-> n > DailyLock]
      BY DEF StoreInit
    <2>2. n \in Nat /\ (n > DailyLock) \in BOOLEAN
      BY StoreAssumption
    <2> QED
      BY <2>1, <2>2, Zenon DEF Daily
  <1>2. gate \in Daily
    BY FreshGate DEF StoreInit
  <1>3. 0 \in 0..MaxCount /\ 0 \in 0..MaxStops /\ 1 \in Nat
    BY StoreAssumption
  <1>4. saving \in Seq(Daily)
    BY EmptySeq DEF StoreInit
  <1> QED
    BY <1>1, <1>2, <1>3, <1>4, Zenon DEF StoreInit, StoreTypeOK

LEMMA StoreNextType == StoreTypeOK /\ [StoreNext]_storeVars => StoreTypeOK'
  <1> SUFFICES ASSUME StoreTypeOK, [StoreNext]_storeVars PROVE StoreTypeOK'
    OBVIOUS
  <1>1. CASE Count429
    <2>1. gate' \in Daily
      BY <1>1, RolledGateTyped, CountGateTyped DEF Count429
    <2>2. counted' \in 0..MaxCount
      BY <1>1, StoreAssumption DEF Count429, StoreTypeOK
    <2>3. scheduled' \in BOOLEAN
      BY <1>1 DEF Count429
    <2> QED
      BY <1>1, <2>1, <2>2, <2>3 DEF Count429, StoreTypeOK
  <1>2. CASE Flush
    <2>1. saving' \in Seq(Daily)
      BY <1>2, RolledGateTyped DEF Flush, StoreTypeOK
    <2> QED
      BY <1>2, <2>1, RolledGateTyped DEF Flush, StoreTypeOK
  <1>3. ASSUME NEW i \in DOMAIN saving, SaveLands(i) PROVE StoreTypeOK'
    <2>1. saving' \in Seq(Daily) /\ row' \in Daily
      BY <1>3, Removed DEF SaveLands, StoreTypeOK
    <2> QED
      BY <1>3, <2>1 DEF SaveLands, StoreTypeOK, Causes
  <1>4. ASSUME NEW i \in DOMAIN saving, SaveFails(i) PROVE StoreTypeOK'
    <2>1. saving' \in Seq(Daily)
      BY <1>4, Removed DEF SaveFails, StoreTypeOK
    <2> QED
      BY <1>4, <2>1 DEF SaveFails, StoreTypeOK, Causes
  <1>5. CASE Stop
    <2>1. gate' \in Daily /\ stops' \in 0..MaxStops
      BY <1>5, FreshGate, StoreAssumption DEF Stop, StoreTypeOK
    <2> QED
      BY <1>5, <2>1 DEF Stop, StoreTypeOK, Causes
  <1>6. CASE ModuleInit
    BY <1>6, RestoredGateTyped DEF ModuleInit, StoreTypeOK
  <1>7. CASE ModuleInitFails
    BY <1>7, RolledGateTyped DEF ModuleInitFails, StoreTypeOK, Causes
  <1>8. CASE NewDate
    BY <1>8, StoreAssumption DEF NewDate, StoreTypeOK
  <1>9. CASE UNCHANGED storeVars
    BY <1>9 DEF storeVars, StoreTypeOK
  <1> QED
    BY <1>1, <1>2, <1>3, <1>4, <1>5, <1>6, <1>7, <1>8, <1>9 DEF StoreNext, SaveEnds, Start

\* Every variable keeps its shape.
THEOREM StoreTypeCorrect == StoreSpec => []StoreTypeOK
  <1> QED
    BY StoreInitType, StoreNextType, PTL DEF StoreSpec

-----------------------------------------------------------------------------
(* No day counts more than it saw *)

\* Where the numbers of the day come from: the day's rollover, the saved row, a 429 more.
LEMMA SourcesNotAhead ==
    StoreTypeOK /\ NeverOvercounts
      => NeverAhead(RolledGate) /\ NeverAhead(Saved) /\ NeverAhead(Restored)
  <1> SUFFICES ASSUME StoreTypeOK, NeverOvercounts
               PROVE  NeverAhead(RolledGate) /\ NeverAhead(Saved) /\ NeverAhead(Restored)
    OBVIOUS
  <1>1. NeverAhead(RolledGate) /\ RolledGate.ymd = date
    BY DEF StoreTypeOK, NeverOvercounts, NeverAhead, RolledGate, RollDay, FreshDay
  <1>2. NeverAhead(Saved) /\ Saved.ymd = date
    BY DEF StoreTypeOK, NeverOvercounts, NeverAhead, Saved, FreshDay
  <1>3. /\ Restored.ymd = RolledGate.ymd
        /\ Restored.tme429 \in {RolledGate.tme429, Saved.tme429}
    BY RolledGateTyped DEF Restored, RestoreDaily, Daily
  <1> QED
    BY <1>1, <1>2, <1>3 DEF NeverAhead

LEMMA NextNotAhead == StoreTypeOK /\ NeverOvercounts /\ [StoreNext]_storeVars => NeverOvercounts'
  <1> SUFFICES ASSUME StoreTypeOK, NeverOvercounts, [StoreNext]_storeVars PROVE NeverOvercounts'
    OBVIOUS
  <1>1. CASE Count429
    <2>1. NeverAhead(gate)'
      <3>1. gate'.ymd = RolledGate.ymd /\ gate'.tme429 = RolledGate.tme429 + 1
        BY <1>1, RolledGateTyped DEF Count429, CountRateLimit, Daily
      <3> QED
        BY <1>1, <3>1, RolledGateTyped, SourcesNotAhead DEF Count429, NeverAhead, StoreTypeOK, Daily
    <2>2. NeverAhead(row)'
      BY <1>1 DEF Count429, NeverOvercounts, NeverAhead, StoreTypeOK, Daily
    <2>3. ASSUME NEW j \in DOMAIN saving PROVE NeverAhead(saving[j])'
      <3>1. saving[j] \in Daily
        BY <2>3 DEF StoreTypeOK
      <3> QED
        BY <1>1, <2>3, <3>1 DEF Count429, NeverOvercounts, NeverAhead, StoreTypeOK, Daily
    <2> QED
      BY <1>1, <2>1, <2>2, <2>3 DEF Count429, NeverOvercounts
  <1>2. CASE Flush
    <2>1. \A j \in DOMAIN saving' :
             (j \in DOMAIN saving /\ saving'[j] = saving[j]) \/ saving'[j] = RolledGate
      BY <1>2, RolledGateTyped DEF Flush, StoreTypeOK
    <2> QED
      BY <1>2, <2>1, SourcesNotAhead DEF Flush, NeverOvercounts, NeverAhead
  <1>3. ASSUME NEW i \in DOMAIN saving, SaveLands(i) PROVE NeverOvercounts'
    <2>1. \A j \in DOMAIN saving' : \E k \in DOMAIN saving : saving'[j] = saving[k]
      BY <1>3, Removed DEF SaveLands, StoreTypeOK
    <2> QED
      BY <1>3, <2>1 DEF SaveLands, NeverOvercounts, NeverAhead
  <1>4. ASSUME NEW i \in DOMAIN saving, SaveFails(i) PROVE NeverOvercounts'
    <2>1. \A j \in DOMAIN saving' : \E k \in DOMAIN saving : saving'[j] = saving[k]
      BY <1>4, Removed DEF SaveFails, StoreTypeOK
    <2> QED
      BY <1>4, <2>1 DEF SaveFails, NeverOvercounts, NeverAhead
  <1>5. CASE Stop
    BY <1>5 DEF Stop, NeverOvercounts, NeverAhead, FreshDay, StoreTypeOK
  <1>6. CASE ModuleInit
    BY <1>6, SourcesNotAhead DEF ModuleInit, NeverOvercounts, NeverAhead
  <1>7. CASE ModuleInitFails
    BY <1>7, SourcesNotAhead DEF ModuleInitFails, NeverOvercounts, NeverAhead
  <1>8. CASE NewDate
    <2>1. ASSUME NEW d \in Daily, NeverAhead(d) PROVE NeverAhead(d)'
      BY <1>8, <2>1 DEF NewDate, NeverAhead, StoreTypeOK, Daily
    <2>2. \A j \in DOMAIN saving : saving[j] \in Daily
      BY DEF StoreTypeOK
    <2> QED
      BY <1>8, <2>1, <2>2 DEF NewDate, NeverOvercounts, NeverAhead, StoreTypeOK
  <1>9. CASE UNCHANGED storeVars
    BY <1>9 DEF storeVars, NeverOvercounts, NeverAhead
  <1> QED
    BY <1>1, <1>2, <1>3, <1>4, <1>5, <1>6, <1>7, <1>8, <1>9 DEF StoreNext, SaveEnds, Start

\* However saves, stops, failures and midnights interleave, neither the gate nor the row
\* nor a save on its way ever counts more 429 answers for today than there were.
THEOREM NoDayOvercounted == StoreSpec => []NeverOvercounts
  <1>1. StoreInit => NeverOvercounts
    BY StoreAssumption DEF StoreInit, NeverOvercounts, NeverAhead, FreshDay
  <1> QED
    BY <1>1, StoreInitType, StoreNextType, NextNotAhead, PTL DEF StoreSpec

-----------------------------------------------------------------------------
(* The lock of the day *)

\* The reason the lock holds: no record of a day, wherever it is kept, has a count above
\* the limit and is open.
LockKept(d) == d.tme429 > DailyLock => d.locked = TRUE

LocksKept ==
    /\ LockKept(gate)
    /\ LockKept(row)
    /\ \A i \in DOMAIN saving : LockKept(saving[i])

LEMMA SourcesLocked ==
    StoreTypeOK /\ LocksKept => LockKept(RolledGate) /\ LockKept(Saved) /\ LockKept(Restored)
  <1> SUFFICES ASSUME StoreTypeOK, LocksKept
               PROVE  LockKept(RolledGate) /\ LockKept(Saved) /\ LockKept(Restored)
    OBVIOUS
  <1>1. LockKept(FreshDay(date))
    BY DailyLockAssumption DEF LockKept, FreshDay
  <1>2. LockKept(RolledGate) /\ LockKept(Saved)
    BY <1>1 DEF LocksKept, RolledGate, RollDay, Saved
  <1>3. RolledGate \in Daily /\ Saved \in Daily
    BY RolledGateTyped, FreshGate DEF StoreTypeOK, Saved
  <1>4. Restored.tme429 = RolledGate.tme429 \/ Restored.tme429 = Saved.tme429
    BY <1>3 DEF Restored, RestoreDaily, Daily
  <1>5. Restored.locked = (RolledGate.locked \/ Saved.locked)
    BY <1>3, Zenon DEF Restored, RestoreDaily, Daily
  <1> QED
    BY <1>2, <1>4, <1>5 DEF LockKept

LEMMA CountLocked == ASSUME NEW d \in Daily, LockKept(d) PROVE LockKept(CountRateLimit(d))
  <1>1. CountRateLimit(d).tme429 = d.tme429 + 1
    BY DEF CountRateLimit, Daily
  <1>2. CountRateLimit(d).locked = (d.locked \/ d.tme429 + 1 > DailyLock)
    BY Zenon DEF CountRateLimit, Daily
  <1> QED
    BY <1>1, <1>2 DEF LockKept

LEMMA NextLocksKept == StoreTypeOK /\ LocksKept /\ [StoreNext]_storeVars => LocksKept'
  <1> SUFFICES ASSUME StoreTypeOK, LocksKept, [StoreNext]_storeVars PROVE LocksKept'
    OBVIOUS
  <1>0. LockKept(FreshDay(date))
    BY DailyLockAssumption DEF LockKept, FreshDay
  <1>1. CASE Count429
    BY <1>1, RolledGateTyped, SourcesLocked, CountLocked DEF Count429, LocksKept
  <1>2. CASE Flush
    <2>1. \A j \in DOMAIN saving' :
             (j \in DOMAIN saving /\ saving'[j] = saving[j]) \/ saving'[j] = RolledGate
      BY <1>2, RolledGateTyped DEF Flush, StoreTypeOK
    <2> QED
      BY <1>2, <2>1, SourcesLocked DEF Flush, LocksKept
  <1>3. ASSUME NEW i \in DOMAIN saving, SaveLands(i) PROVE LocksKept'
    <2>1. \A j \in DOMAIN saving' : \E k \in DOMAIN saving : saving'[j] = saving[k]
      BY <1>3, Removed DEF SaveLands, StoreTypeOK
    <2> QED
      BY <1>3, <2>1 DEF SaveLands, LocksKept
  <1>4. ASSUME NEW i \in DOMAIN saving, SaveFails(i) PROVE LocksKept'
    <2>1. \A j \in DOMAIN saving' : \E k \in DOMAIN saving : saving'[j] = saving[k]
      BY <1>4, Removed DEF SaveFails, StoreTypeOK
    <2> QED
      BY <1>4, <2>1 DEF SaveFails, LocksKept
  <1>5. CASE Stop
    BY <1>0, <1>5 DEF Stop, LocksKept
  <1>6. CASE ModuleInit
    BY <1>6, SourcesLocked DEF ModuleInit, LocksKept
  <1>7. CASE ModuleInitFails
    BY <1>7, SourcesLocked DEF ModuleInitFails, LocksKept
  <1>8. CASE NewDate
    BY <1>8 DEF NewDate, LocksKept
  <1>9. CASE UNCHANGED storeVars
    BY <1>9 DEF storeVars, LocksKept
  <1> QED
    BY <1>1, <1>2, <1>3, <1>4, <1>5, <1>6, <1>7, <1>8, <1>9 DEF StoreNext, SaveEnds, Start

\* A day above the limit stays locked over every restart, whichever save it goes on from.
THEOREM LockOutlivesRestart == StoreSpec => []LockSurvives
  <1>1. StoreInit => LocksKept
    <2> SUFFICES ASSUME StoreInit PROVE LocksKept
      OBVIOUS
    <2>1. LockKept(gate)
      BY DailyLockAssumption DEF StoreInit, LockKept, FreshDay
    <2>2. LockKept(row)
      <3>1. PICK n \in 0..MaxCount : row = [ymd |-> 0, tme429 |-> n, locked |-> n > DailyLock]
        BY DEF StoreInit
      <3>2. row.tme429 = n
        BY <3>1
      <3>3. row.locked = (n > DailyLock)
        BY <3>1, Zenon
      <3> QED
        BY <3>2, <3>3 DEF LockKept
    <2> QED
      BY <2>1, <2>2 DEF StoreInit, LocksKept
  <1>2. StoreTypeOK /\ LocksKept => LockSurvives
    BY SourcesLocked DEF LockKept, LockSurvives
  <1> QED
    BY <1>1, <1>2, StoreInitType, StoreNextType, NextLocksKept, PTL DEF StoreSpec

-----------------------------------------------------------------------------
(* Nothing of the day is lost on the quiet *)

\* What a record says of today, and the newest record on its way to the database or in it.
OfToday(d) == IF d.ymd = date THEN d.tme429 ELSE 0
Newest == IF saving = <<>> THEN row ELSE saving[Len(saving)]

\* The reason the count is exact: as long as nothing went wrong, the gate has the count of
\* the day while it is up, and whatever is not scheduled to be saved is saved already.
Accounted ==
    /\ up => listening
    /\ ~up => ~scheduled
    /\ lost = {} => /\ up => OfToday(gate) = counted
                    /\ ~up => saving = <<>> /\ gate.tme429 = 0
                    /\ ~scheduled => OfToday(Newest) = counted

LEMMA RolledOfToday == StoreTypeOK => RolledGate.ymd = date /\ RolledGate.tme429 = OfToday(gate)
  BY DEF StoreTypeOK, RolledGate, RollDay, FreshDay, OfToday

\* What is left when the oldest of the saves has ended.
LEMMA OldestRemoved ==
    ASSUME NEW S, NEW s \in Seq(S), NEW i \in DOMAIN s, i = 1
    PROVE  /\ RemoveAt(s, i) = <<>> => Len(s) = 1
           /\ RemoveAt(s, i) # <<>> => RemoveAt(s, i)[Len(RemoveAt(s, i))] = s[Len(s)]
  <1>1. Len(s) \in Nat /\ i \in 1..Len(s)
    OBVIOUS
  <1> DEFINE r == RemoveAt(s, i)
  <1>2. r \in Seq(S) /\ Len(r) = Len(s) - 1 /\ \A j \in 1..(Len(s) - 1) : r[j] = s[j + 1]
    <2>1. r \in Seq(S) /\ Len(r) = Len(s) - 1 /\ \A j \in i..(Len(s) - 1) : r[j] = s[j + 1]
      BY Removed
    <2> QED
      BY <2>1
  <1> HIDE DEF r
  <1>3. r = <<>> => Len(s) = 1
    BY <1>1, <1>2
  <1>4. r # <<>> => r[Len(r)] = s[Len(s)]
    <2> SUFFICES ASSUME r # <<>> PROVE r[Len(r)] = s[Len(s)]
      OBVIOUS
    <2>1. Len(r) # 0
      BY <1>2, EmptySeq
    <2>2. Len(r) \in 1..(Len(s) - 1) /\ Len(r) + 1 = Len(s)
      BY <1>1, <1>2, <2>1
    <2> QED
      BY <1>2, <2>2
  <1> QED
    BY <1>3, <1>4 DEF r

LEMMA NextAccounted ==
    StoreTypeOK /\ NeverOvercounts /\ Accounted /\ [StoreNext]_storeVars => Accounted'
  <1> SUFFICES ASSUME StoreTypeOK, NeverOvercounts, Accounted, [StoreNext]_storeVars PROVE Accounted'
    OBVIOUS
  <1>1. CASE Count429
    <2>1. gate'.ymd = date /\ gate'.tme429 = RolledGate.tme429 + 1
      BY <1>1, RolledGateTyped, RolledOfToday DEF Count429, CountRateLimit, Daily
    <2>2. up /\ scheduled'
      BY <1>1 DEF Count429, Accounted
    <2> QED
      BY <1>1, <2>1, <2>2, RolledOfToday DEF Count429, Accounted, OfToday
  <1>2. CASE Flush
    <2>1. up
      BY <1>2 DEF Flush, Accounted
    <2>2. saving' # <<>> /\ saving'[Len(saving')] = RolledGate
      BY <1>2, RolledGateTyped DEF Flush, StoreTypeOK
    <2>3. Newest' = RolledGate
      BY <2>2 DEF Newest
    <2> QED
      BY <1>2, <2>1, <2>3, RolledOfToday DEF Flush, Accounted, OfToday
  <1>3. ASSUME NEW i \in DOMAIN saving, SaveLands(i) PROVE Accounted'
    <2>1. CASE i = 1
      <3>1. saving # <<>> /\ saving' = RemoveAt(saving, i) /\ row' = saving[1]
        BY <1>3, <2>1 DEF SaveLands
      <3>2. Newest' = Newest
        <4>1. CASE saving' = <<>>
          <5>1. Len(saving) = 1
            BY <2>1, <3>1, <4>1, OldestRemoved DEF StoreTypeOK
          <5> QED
            BY <3>1, <4>1, <5>1 DEF Newest
        <4>2. CASE saving' # <<>>
          BY <2>1, <3>1, <4>2, OldestRemoved DEF StoreTypeOK, Newest
        <4> QED
          BY <4>1, <4>2
      <3>3. up \/ lost # {}
        BY <3>1 DEF Accounted
      <3> QED
        BY <1>3, <2>1, <3>2, <3>3 DEF SaveLands, Accounted, OfToday
    <2>2. CASE i # 1
      BY <1>3, <2>2 DEF SaveLands, Accounted
    <2> QED
      BY <2>1, <2>2
  <1>4. ASSUME NEW i \in DOMAIN saving, SaveFails(i) PROVE Accounted'
    BY <1>4 DEF SaveFails, Accounted
  <1>5. CASE Stop
    <2>1. lost' = {} => lost = {} /\ ~scheduled /\ saving = <<>>
      BY <1>5 DEF Stop
    <2> QED
      BY <1>5, <2>1 DEF Stop, Accounted, OfToday, Newest, FreshDay
  <1>6. CASE ModuleInit
    <2>1. Saved.tme429 = OfToday(row) /\ OfToday(row) \in Nat
      BY DEF Saved, OfToday, FreshDay, StoreTypeOK, Daily
    <2>2. lost = {} => Newest = row /\ gate.tme429 = 0
      BY <1>6 DEF ModuleInit, Accounted, Newest
    <2>3. gate'.ymd = date /\ (lost = {} => gate'.tme429 = OfToday(row))
      <3>1. /\ Restored.ymd = RolledGate.ymd
            /\ Restored.tme429 = IF Saved.tme429 > RolledGate.tme429 THEN Saved.tme429 ELSE RolledGate.tme429
        BY RolledGateTyped DEF Restored, RestoreDaily, Daily
      <3>2. lost = {} => RolledGate.tme429 = 0
        BY <2>2, RolledOfToday DEF OfToday
      <3> QED
        BY <1>6, <2>1, <3>1, <3>2, RolledOfToday DEF ModuleInit
    <2> QED
      BY <1>6, <2>2, <2>3 DEF ModuleInit, Accounted, OfToday, Newest
  <1>7. CASE ModuleInitFails
    BY <1>7 DEF ModuleInitFails, Accounted
  <1>8. CASE NewDate
    <2>1. ASSUME NEW d \in Daily, NeverAhead(d) PROVE OfToday(d)' = 0
      BY <1>8, <2>1 DEF NewDate, NeverAhead, OfToday, StoreTypeOK, Daily
    <2>2. Newest \in Daily /\ NeverAhead(Newest) /\ Newest' = Newest
      <3>1. CASE saving = <<>>
        BY <1>8, <3>1 DEF NewDate, Newest, StoreTypeOK, NeverOvercounts
      <3>2. CASE saving # <<>>
        <4>1. Len(saving) \in DOMAIN saving
          BY <3>2 DEF StoreTypeOK
        <4> QED
          BY <1>8, <3>2, <4>1 DEF NewDate, Newest, StoreTypeOK, NeverOvercounts
      <3> QED
        BY <3>1, <3>2
    <2>3. OfToday(Newest)' = 0 /\ OfToday(gate)' = 0
      BY <1>8, <2>1, <2>2 DEF NewDate, StoreTypeOK, NeverOvercounts, OfToday
    <2> QED
      BY <1>8, <2>3 DEF NewDate, Accounted
  <1>9. CASE UNCHANGED storeVars
    BY <1>9 DEF storeVars, Accounted, OfToday, Newest
  <1> QED
    BY <1>1, <1>2, <1>3, <1>4, <1>5, <1>6, <1>7, <1>8, <1>9 DEF StoreNext, SaveEnds, Start

\* Over midnights, late saves and restarts the count of the day is exact, unless a save
\* failed or was overtaken or the process ended with numbers not yet saved.
THEOREM CountIsExact == StoreSpec => []ExactUnlessDisturbed
  <1>1. StoreInit => Accounted
    <2> SUFFICES ASSUME StoreInit PROVE Accounted
      OBVIOUS
    <2>1. PICK n \in 0..MaxCount : row = [ymd |-> 0, tme429 |-> n, locked |-> n > DailyLock]
      BY DEF StoreInit
    <2>2. row.ymd = 0
      BY <2>1
    <2> QED
      BY <2>2 DEF StoreInit, Accounted, OfToday, Newest, FreshDay
  <1>2. StoreInit => NeverOvercounts
    BY StoreAssumption DEF StoreInit, NeverOvercounts, NeverAhead, FreshDay
  <1>3. StoreTypeOK /\ Accounted => ExactUnlessDisturbed
    BY RolledOfToday DEF Accounted, ExactUnlessDisturbed
  <1> QED
    BY <1>1, <1>2, <1>3, StoreInitType, StoreNextType, NextNotAhead, NextAccounted, PTL DEF StoreSpec
=============================================================================
