------------------------------ MODULE GateDaily ------------------------------
(***************************************************************************)
(* The numbers the t.me gate keeps for one calendar day (Korean time): how *)
(* many 429 answers t.me has given and whether the day is locked.  Pure    *)
(* operators on the record [ymd, tme429, locked], shared by TmeGate and    *)
(* DailyCounters.  Days are numbered; bot429, which nothing reads but a    *)
(* screen, is left out.                                                    *)
(***************************************************************************)
EXTENDS Naturals

CONSTANT DailyLock  \* TME_DAILY_429_LOCK: the day is locked above this many 429

ASSUME DailyLockAssumption == DailyLock \in Nat

Daily == [ymd : Nat, tme429 : Nat, locked : BOOLEAN]

FreshDay(day) == [ymd |-> day, tme429 |-> 0, locked |-> FALSE]

\* rollDay: every call of the gate begins with it, and nothing else notices midnight.
RollDay(d, today) == IF d.ymd = today THEN d ELSE FreshDay(today)

\* onRateLimit, as far as the day is concerned: the lock closes above DailyLock.
CountRateLimit(d) ==
    [d EXCEPT !.tme429 = @ + 1, !.locked = @ \/ d.tme429 + 1 > DailyLock]

\* restoreDaily: the larger count, not the sum; a saved lock closes this day.
RestoreDaily(d, saved) ==
    [d EXCEPT !.tme429 = IF saved.tme429 > @ THEN saved.tme429 ELSE @,
              !.locked = @ \/ saved.locked]
=============================================================================
