------------------------------- MODULE TmeGate -------------------------------
(***************************************************************************)
(* The gate every request of this server to t.me goes through              *)
(* (backend/src/stats/tme-gate.ts) and its callers: the collector, the     *)
(* previews and the bulk inspection.  A caller acquires a slot, waits for  *)
(* one or for the end of a cooldown, sends its request, reports the answer *)
(* and releases the slot; 429 answers and timeouts slow the gate down,     *)
(* long runs of successes speed it up.                                     *)
(*                                                                         *)
(* One Node process: an action is the code between two awaits.  Report and *)
(* release are one action, since every caller does both without an await   *)
(* between them.  Time is relative: what is left of the cooldown and of    *)
(* each sleep, and how long ago the pace was adjusted.  The statistics of  *)
(* a run (beginRun, endRun, peak, cooldown sum) only count, and are left   *)
(* out.  A definition whose name begins with Mut is a mutated form of the  *)
(* one after it: a bug that the properties are there to catch.             *)
(***************************************************************************)
EXTENDS Naturals, FiniteSets, GateDaily

CONSTANTS
    Collectors,       \* callers of kind "collect"
    Previewers,       \* callers of kind "preview"
    Inspectors,       \* callers of kind "inspect"
    CollectPatience,  \* maxWaitMs of the collector: 0 (light) or FULL_GATE_MAX_WAIT_MS
    CollectStart, CollectMax,     \* collect slots at the start, and at most
    PreviewLimit, InspectLimit,   \* slots of the other kinds
    TotalMin, TotalSpare,         \* all kinds: max(TotalMin, CollectMax + TotalSpare)
    GapStart, GapMin, GapMax, GapStep,  \* pause between two items of the collector
    CoolMin, CoolMax,   \* shortest and longest cooldown
    RetryAfters,        \* Retry-After values of a 429 answer, 0 if it has none
    TimeoutLimit,       \* timeouts in a row that slow the gate down
    SuccessesNeeded, IncreaseEvery,  \* what a speed-up takes: successes, and time
    MaxRequests,        \* bound: requests for a slot
    MaxDays             \* bound: days that begin

Clients == Collectors \cup Previewers \cup Inspectors
Kinds == {"collect", "preview", "inspect"}
KindOf == [c \in Clients |-> CASE c \in Collectors -> "collect"
                               [] c \in Previewers -> "preview"
                               [] OTHER -> "inspect"]

ASSUME GateAssumption ==
    /\ IsFiniteSet(Clients)
    /\ Collectors \cap Previewers = {}
    /\ (Collectors \cup Previewers) \cap Inspectors = {}
    /\ CollectPatience \subseteq Nat
    /\ CollectStart \in Nat \ {0} /\ CollectMax \in Nat \ {0}
    /\ PreviewLimit \in Nat \ {0} /\ InspectLimit \in Nat \ {0}
    /\ TotalMin \in Nat \ {0} /\ TotalSpare \in Nat
    /\ GapMin \in Nat /\ GapStep \in Nat
    /\ GapStart \in GapMin..GapMax /\ GapMax \in Nat
    /\ CoolMin \in Nat \ {0} /\ CoolMax \in Nat /\ CoolMin <= CoolMax
    /\ RetryAfters \subseteq Nat
    /\ TimeoutLimit \in Nat \ {0} /\ SuccessesNeeded \in Nat \ {0}
    /\ IncreaseEvery \in Nat
    /\ MaxRequests \in Nat /\ MaxDays \in Nat

VARIABLES
    pace,       \* limit, gap, cooldown and the two streaks
    daily,      \* the numbers of the day (GateDaily)
    active,     \* slots in use, by kind
    client,     \* the callers
    today,      \* the calendar day
    sinceSlow,  \* history: time since the pace was last lowered, counted up to CoolMin
    requests    \* requests for a slot made so far, bounded by MaxRequests

vars == <<pace, daily, active, client, today, sinceSlow, requests>>

Smaller(a, b) == IF a < b THEN a ELSE b
Larger(a, b) == IF a > b THEN a ELSE b
Less(n) == IF n > 0 THEN n - 1 ELSE 0

-----------------------------------------------------------------------------
(* Slots *)

\* cool: cooldownUntil - now; since: now - lastAdjustAt, counted up to IncreaseEvery.
Pace == [limit : 1..CollectMax, gap : GapMin..GapMax, cool : 0..CoolMax,
         since : 0..IncreaseEvery, successes : Nat, timeouts : 0..(TimeoutLimit - 1)]

\* A caller is outside, sleeping through a cooldown, waiting in the gate's list, woken
\* from it, or using a slot.  patience is its maxWaitMs; 0..CoolMax covers "for ever",
\* since no cooldown is longer.
Outside == [pc |-> "outside"]
Caller == [pc : {"outside", "using"}]
          \cup [pc : {"waiting", "woken"}, patience : Nat]
          \cup [pc : {"sleeping"}, patience : Nat, left : 0..CoolMax]

Waiting == {c \in Clients : client[c].pc = "waiting"}
Using(k) == {c \in Clients : client[c].pc = "using" /\ KindOf[c] = k}

Patience(c) == CASE KindOf[c] = "collect" -> CollectPatience
                 [] KindOf[c] = "preview" -> {0}
                 [] OTHER -> {CoolMax}

TotalMax == Larger(TotalMin, CollectMax + TotalSpare)

\* Mutated: kindLimit that forgets the lock of the day.
MutCollectLimit(d) == Smaller(pace.limit, CollectMax)

CollectLimit(d) == IF d.locked THEN 1 ELSE Smaller(pace.limit, CollectMax)

KindLimit(k, d) == CASE k = "collect" -> CollectLimit(d)
                     [] k = "preview" -> PreviewLimit
                     [] OTHER -> InspectLimit

\* Mutated: canStart that looks at the kind alone.
MutCanStart(k, d) == active[k] < KindLimit(k, d)

CanStart(k, d) ==
    /\ active["collect"] + active["preview"] + active["inspect"] < TotalMax
    /\ active[k] < KindLimit(k, d)

\* Mutated: wake that resolves one of the callers.
MutWake(cl) ==
    LET waits == {c \in Clients : cl[c].pc = "waiting"}
        one == CHOOSE c \in waits : TRUE
    IN  IF waits = {} THEN cl
        ELSE [cl EXCEPT ![one] = [pc |-> "woken", patience |-> cl[one].patience]]

\* wake: every caller in the list looks again.
Wake(cl) ==
    [c \in Clients |-> IF cl[c].pc = "waiting"
                       THEN [pc |-> "woken", patience |-> cl[c].patience] ELSE cl[c]]

\* rollDay: the gate's day, and what it does to the callers when the day is new.
Rolled == RollDay(daily, today)

\* Mutated: rollDay that opens the lock and wakes nobody.
MutRolledClients == client

RolledClients == IF daily.ymd = today THEN client ELSE Wake(client)

-----------------------------------------------------------------------------
(* Pace: what report does *)

Slower(p) ==
    [p EXCEPT !.limit = Larger(1, @ \div 2),
              !.gap = Smaller(GapMax, (3 * @ + 1) \div 2),
              !.since = 0]

Faster(p) ==
    [p EXCEPT !.limit = Smaller(CollectMax, @ + 1),
              !.gap = IF @ < GapMin + GapStep THEN GapMin ELSE @ - GapStep,
              !.successes = 0, !.since = 0]

\* Mutated: startCooldown that lowers the pace at every 429.
MutStartCooldown(p, retryAfter) ==
    LET wait == Smaller(Larger(retryAfter, CoolMin), CoolMax)
    IN  Slower([p EXCEPT !.cool = Larger(@, wait), !.successes = 0])

\* startCooldown: only the first of overlapping cooldowns lowers the pace.
StartCooldown(p, retryAfter) ==
    LET wait == Smaller(Larger(retryAfter, CoolMin), CoolMax)
        cooling == [p EXCEPT !.cool = Larger(@, wait), !.successes = 0]
    IN  IF p.cool > 0 THEN cooling ELSE Slower(cooling)

OnTimeout(p) ==
    IF p.timeouts + 1 < TimeoutLimit
    THEN [p EXCEPT !.timeouts = @ + 1, !.successes = 0]
    ELSE StartCooldown([p EXCEPT !.timeouts = 0], 0)

\* maybeIncrease.
MayIncrease(p, locked) ==
    /\ p.cool = 0
    /\ ~locked
    /\ p.successes >= SuccessesNeeded
    /\ p.since >= IncreaseEvery

OnSuccess(p, locked) ==
    LET q == [p EXCEPT !.timeouts = 0, !.successes = @ + 1]
    IN  IF MayIncrease(q, locked) THEN Faster(q) ELSE q

OnError(p) == [p EXCEPT !.timeouts = 0, !.successes = 0]

-----------------------------------------------------------------------------
(* acquire *)

\* One turn of the loop of acquire: refused, put to sleep, given a slot or made to wait.
Try(c, patience) ==
    LET moved(to) == client' = [RolledClients EXCEPT ![c] = to] IN
    /\ daily' = Rolled
    /\ UNCHANGED <<pace, today, sinceSlow>>
    /\ \/ /\ pace.cool > patience
          /\ moved(Outside)
          /\ UNCHANGED active
       \/ /\ pace.cool > 0 /\ pace.cool <= patience
          /\ moved([pc |-> "sleeping", patience |-> patience, left |-> pace.cool])
          /\ UNCHANGED active
       \/ /\ pace.cool = 0 /\ CanStart(KindOf[c], Rolled)
          /\ moved([pc |-> "using"])
          /\ active' = [active EXCEPT ![KindOf[c]] = @ + 1]
       \/ /\ pace.cool = 0 /\ ~CanStart(KindOf[c], Rolled)
          /\ moved([pc |-> "waiting", patience |-> patience])
          /\ UNCHANGED active

Acquire(c) ==
    /\ client[c] = Outside
    /\ requests < MaxRequests
    /\ requests' = requests + 1
    /\ \E patience \in Patience(c) : Try(c, patience)

\* The sleep or the wait is over, and the loop turns again.
Resume(c) ==
    /\ \/ client[c].pc = "sleeping" /\ client[c].left = 0
       \/ client[c].pc = "woken"
    /\ Try(c, client[c].patience)
    /\ UNCHANGED requests

-----------------------------------------------------------------------------
(* report and release *)

Lowered(p, q) == q.limit < p.limit \/ q.gap > p.gap

\* The answer came, or the request failed or timed out: report, which leaves the pace at
\* p and the day at d, then release.
Finish(c, p, d) ==
    /\ client[c].pc = "using"
    /\ pace' = p
    /\ daily' = d
    /\ sinceSlow' = IF Lowered(pace, p) THEN 0 ELSE sinceSlow
    /\ active' = [active EXCEPT ![KindOf[c]] = Less(@)]
    /\ client' = Wake([client EXCEPT ![c] = Outside])
    /\ UNCHANGED <<today, requests>>

Succeed(c) == Finish(c, OnSuccess(pace, Rolled.locked), Rolled)
Fail(c) == Finish(c, OnError(pace), Rolled)
TimeOut(c) == Finish(c, OnTimeout(pace), Rolled)
RateLimit(c) ==
    \E retryAfter \in RetryAfters :
        Finish(c, StartCooldown(pace, retryAfter), CountRateLimit(Rolled))

\* The other calls that roll the day: snapshot, exportDaily, collectLimit, noteBot429.
Look ==
    /\ daily # Rolled
    /\ daily' = Rolled
    /\ client' = RolledClients
    /\ UNCHANGED <<pace, active, today, sinceSlow, requests>>

-----------------------------------------------------------------------------
(* Time *)

Tick ==
    /\ pace' = [pace EXCEPT !.cool = Less(@), !.since = Smaller(@ + 1, IncreaseEvery)]
    /\ client' = [c \in Clients |-> IF client[c].pc = "sleeping"
                                    THEN [client[c] EXCEPT !.left = Less(@)] ELSE client[c]]
    /\ sinceSlow' = Smaller(sinceSlow + 1, CoolMin)
    /\ UNCHANGED <<daily, active, today, requests>>

NewDay ==
    /\ today < MaxDays
    /\ today' = today + 1
    /\ UNCHANGED <<pace, daily, active, client, sinceSlow, requests>>

-----------------------------------------------------------------------------
\* The server has started: the pace is the initial one, the day what was restored.
Init ==
    /\ pace = [limit |-> Smaller(CollectStart, CollectMax), gap |-> GapStart, cool |-> 0,
               since |-> 0, successes |-> 0, timeouts |-> 0]
    /\ \E n \in 0..(DailyLock + 1) :
          daily = RestoreDaily(FreshDay(0), [tme429 |-> n, locked |-> n > DailyLock])
    /\ active = [k \in Kinds |-> 0]
    /\ client = [c \in Clients |-> Outside]
    /\ today = 0
    /\ sinceSlow = CoolMin
    /\ requests = 0

Answer(c) == Succeed(c) \/ Fail(c) \/ TimeOut(c) \/ RateLimit(c)

Next ==
    \/ \E c \in Clients : Acquire(c) \/ Resume(c) \/ Answer(c)
    \/ Look
    \/ Tick
    \/ NewDay

\* Timers fire and woken callers run; a request is answered or ended by its timeout
\* (AbortSignal.timeout).  Nothing forces a caller to ask, nor a day to begin.
Fairness ==
    /\ WF_vars(Tick)
    /\ \A c \in Clients : WF_vars(Resume(c)) /\ WF_vars(Answer(c))

Spec == Init /\ [][Next]_vars
FairSpec == Spec /\ Fairness

-----------------------------------------------------------------------------
(* Properties *)

\* Every variable keeps its shape, the pace stays within its bounds, and the slots in use
\* are those of the callers that use one.
TypeOK ==
    /\ pace \in Pace
    /\ daily \in Daily
    /\ active \in [Kinds -> Nat]
    /\ client \in [Clients -> Caller]
    /\ today \in 0..MaxDays
    /\ sinceSlow \in 0..CoolMin
    /\ requests \in 0..MaxRequests
    /\ \A k \in Kinds : active[k] = Cardinality(Using(k))

\* No lost wake-up: a caller is in the list of waiters only while the gate has no slot
\* for it, so whoever can start was woken; and somebody is there to wake the others.
NoLostWakeup ==
    \A c \in Waiting : ~CanStart(KindOf[c], daily) /\ \E k \in Kinds : active[k] > 0

\* A burst of 429 answers and timeouts of several callers slows the gate down once: it
\* is slowed down again only when the shortest cooldown has passed.
SlowsDownOncePerCooldown == [][Lowered(pace, pace') => sinceSlow >= CoolMin]_vars

\* A cooldown that has been announced is kept: no answer of another caller shortens it.
CooldownKept == [][pace'.cool < pace.cool => Tick]_vars

\* Once a day has seen more than DailyLock 429 answers, the collector gets a slot only
\* when it uses none, until that day is over, whatever speeds the gate up meanwhile.
LockedForTheDay ==
    [][(/\ daily.ymd = today /\ daily.tme429 > DailyLock
        /\ active'["collect"] > active["collect"]) => active["collect"] = 0]_vars

\* No more requests are under way than the gate allows, of all kinds together and of each:
\* however often the limits of the collector shrink and grow while it holds slots.
LimitsKept ==
    /\ active["collect"] + active["preview"] + active["inspect"] <= TotalMax
    /\ active["collect"] <= CollectMax
    /\ active["preview"] <= PreviewLimit
    /\ active["inspect"] <= InspectLimit

\* The numbers of the day change as DailyCounters says: by the roll of a day or by a
\* counted 429, and within a day the count only grows and the lock only closes.
DayOnlyGrows ==
    [][/\ daily' \in {daily, Rolled, CountRateLimit(Rolled)}
       /\ daily.ymd <= daily'.ymd /\ daily'.ymd <= today
       /\ daily'.ymd = daily.ymd =>
                daily.tme429 <= daily'.tme429 /\ (daily.locked => daily'.locked)]_vars

\* A caller that asks gets its answer, once no new requests come: it does not sleep and
\* wait for ever, however the cooldown is extended and whoever is faster to a free slot.
EveryRequestEnds == \A c \in Clients : client[c] # Outside ~> client[c] = Outside

\* The gate is a slot pool, closed during a cooldown: where it sees its callers, and how
\* many of each kind it lets in at most.
Place == [c \in Clients |-> CASE client[c].pc = "using" -> "inside"
                              [] client[c].pc = "outside" -> "outside"
                              [] OTHER -> "asking"]
Capacity == [k \in Kinds |-> CASE k = "collect" -> CollectMax
                               [] k = "preview" -> PreviewLimit
                               [] OTHER -> InspectLimit]
Pool == INSTANCE SlotPool WITH Total <- TotalMax, place <- Place, closed <- pace.cool > 0

\* Callers of the gate may rely on what SlotPool promises.
IsSlotPool == Pool!PoolSpec
=============================================================================
