---------------------------- MODULE DailyCounters ----------------------------
(***************************************************************************)
(* How the t.me gate's numbers of the day survive a restart                *)
(* (backend/src/daily-counters): every 429 schedules a save some seconds   *)
(* later, a start restores the saved row if it is today's.  The counters   *)
(* of MTProto and of the category AI use the same store, each in a row of  *)
(* its own.                                                                *)
(*                                                                         *)
(* A save is on its way to the database between the flush and its end; two *)
(* of them travel on two connections.  onModuleDestroy would flush what is *)
(* pending when the server is told to stop, but main.ts never enables      *)
(* Nest's shutdown hooks and nothing closes the application, so stopping   *)
(* is no different from dying.  A definition whose name begins with Mut is *)
(* a mutated form of the next one: a bug the properties would catch.  No   *)
(* name but those of GateDaily is also one of TmeGate: the theorems about  *)
(* both are in TmeGateProofs.                                              *)
(***************************************************************************)
EXTENDS Naturals, Sequences, SequencesExt, GateDaily

CONSTANTS
    MaxDates,   \* bound: days that begin
    MaxCount,   \* bound: 429 answers in a day
    MaxStops,   \* bound: times the process ends
    MaxSaves    \* bound: saves on their way at one time

ASSUME StoreAssumption ==
    MaxDates \in Nat /\ MaxCount \in Nat /\ MaxStops \in Nat /\ MaxSaves \in Nat

VARIABLES
    date,       \* the calendar day
    up,         \* the module is initialised: the saved row was looked at
    gate,       \* the gate's numbers of the day, in memory
    listening,  \* setDailyListener was called
    scheduled,  \* a save is pending and its timer set: the two always change together
    saving,     \* saves on their way, oldest first
    row,        \* the row in app_settings
    counted,    \* history: 429 answers since midnight
    lost,       \* history: what may have cost counts
    stops       \* times the process ended, bounded by MaxStops

storeVars == <<date, up, gate, listening, scheduled, saving, row, counted, lost, stops>>

\* rollDay, at the beginning of every call.
RolledGate == RollDay(gate, date)

\* report of a 429: count, then tell the listener, who calls schedule.
Count429 ==
    /\ up
    /\ counted < MaxCount
    /\ gate' = CountRateLimit(RolledGate)
    /\ counted' = counted + 1
    /\ scheduled' = (scheduled \/ listening)
    /\ UNCHANGED <<date, up, listening, saving, row, lost, stops>>

\* The timer of schedule fires: flush exports the numbers of this moment.
Flush ==
    /\ scheduled
    /\ Len(saving) < MaxSaves
    /\ scheduled' = FALSE
    /\ gate' = RolledGate
    /\ saving' = Append(saving, RolledGate)
    /\ UNCHANGED <<date, up, listening, row, counted, lost, stops>>

\* A save ends, not always the oldest first.
SaveLands(i) ==
    /\ row' = saving[i]
    /\ saving' = RemoveAt(saving, i)
    /\ lost' = lost \cup (IF i = 1 THEN {} ELSE {"overtaken"})
    /\ UNCHANGED <<date, up, gate, listening, scheduled, counted, stops>>

\* The database refuses it: the error is logged, and nothing is tried again.
SaveFails(i) ==
    /\ saving' = RemoveAt(saving, i)
    /\ lost' = lost \cup {"failed"}
    /\ UNCHANGED <<date, up, gate, listening, scheduled, row, counted, stops>>

\* The process is stopped, replaced or killed: the timers go with it, the saves already
\* with the database may still land.
Stop ==
    /\ stops < MaxStops
    /\ stops' = stops + 1
    /\ up' = FALSE
    /\ listening' = FALSE
    /\ scheduled' = FALSE
    /\ gate' = FreshDay(date)
    /\ lost' = lost \cup (IF scheduled \/ saving # <<>> THEN {"stopped"} ELSE {})
    /\ UNCHANGED <<date, saving, row, counted>>

\* Mutated: load that does not compare the dates.
MutSaved == row

\* Mutated: load whose row is never used.
MutNothingSaved == FreshDay(date)

\* load and decodeDailyForToday: the saved numbers, if they are today's.
Saved == IF row.ymd = date THEN row ELSE FreshDay(date)

\* Mutated: restoreDaily without the lock.
MutRestored == [RestoreDaily(RolledGate, Saved) EXCEPT !.locked = FALSE]

Restored == RestoreDaily(RolledGate, Saved)

\* Mutated: onModuleInit that sets the listener only when it restores something.
MutModuleInit ==
    /\ ~up
    /\ up' = TRUE
    /\ listening' = (row.ymd = date)
    /\ gate' = Restored
    /\ UNCHANGED <<date, scheduled, saving, row, counted, lost, stops>>

\* DailyCountersModule.onModuleInit; nothing uses the gate before it.
ModuleInit ==
    /\ ~up
    /\ up' = TRUE
    /\ listening' = TRUE
    /\ gate' = Restored
    /\ UNCHANGED <<date, scheduled, saving, row, counted, lost, stops>>

\* The same when load cannot read the row, and returns nothing.
ModuleInitFails ==
    /\ ~up
    /\ up' = TRUE
    /\ listening' = TRUE
    /\ gate' = RolledGate
    /\ lost' = lost \cup {"failed"}
    /\ UNCHANGED <<date, scheduled, saving, row, counted, stops>>

NewDate ==
    /\ date < MaxDates
    /\ date' = date + 1
    /\ counted' = 0
    /\ UNCHANGED <<up, gate, listening, scheduled, saving, row, lost, stops>>

\* The first start of day 1; the row is yesterday's, with any count.
StoreInit ==
    /\ date = 1
    /\ up = FALSE
    /\ gate = FreshDay(1)
    /\ listening = FALSE
    /\ scheduled = FALSE
    /\ saving = <<>>
    /\ \E n \in 0..MaxCount : row = [ymd |-> 0, tme429 |-> n, locked |-> n > DailyLock]
    /\ counted = 0
    /\ lost = {}
    /\ stops = 0

SaveEnds == \E i \in DOMAIN saving : SaveLands(i) \/ SaveFails(i)
Start == ModuleInit \/ ModuleInitFails

StoreNext ==
    \/ Count429
    \/ Flush
    \/ SaveEnds
    \/ Stop
    \/ Start
    \/ NewDate

StoreSpec == StoreInit /\ [][StoreNext]_storeVars

\* Timers fire, queries end, a started server initialises its modules.
FairStoreSpec == StoreSpec /\ WF_storeVars(Flush) /\ WF_storeVars(SaveEnds) /\ WF_storeVars(Start)

-----------------------------------------------------------------------------
(* Properties *)

Causes == {"overtaken", "failed", "stopped"}

\* Every variable keeps its shape.
StoreTypeOK ==
    /\ date \in Nat
    /\ up \in BOOLEAN /\ listening \in BOOLEAN /\ scheduled \in BOOLEAN
    /\ gate \in Daily /\ row \in Daily
    /\ saving \in Seq(Daily)
    /\ counted \in 0..MaxCount
    /\ lost \subseteq Causes
    /\ stops \in 0..MaxStops

NeverAhead(d) == d.ymd <= date /\ (d.ymd = date => d.tme429 <= counted)

\* Whatever is saved late, restored, overtaken or carried over midnight, no count of the
\* day is larger than the number of 429 answers of that day.
NeverOvercounts ==
    /\ NeverAhead(gate)
    /\ NeverAhead(row)
    /\ \A i \in DOMAIN saving : NeverAhead(saving[i])

\* Where it is not too late: saved late, restored and carried over midnight, the count of
\* the day is exact as long as no save failed or was overtaken and no stop met a save.
ExactUnlessDisturbed == up /\ lost = {} => RolledGate.tme429 = counted

\* Above the limit the day is locked, also after a restart in the middle of it.
LockSurvives == up /\ RolledGate.tme429 > DailyLock => RolledGate.locked

\* Every 429 answer reaches the database, unless its day is over, a save failed or was
\* overtaken, or the process stopped first.
EveryCountSaved ==
    \A n \in 1..MaxCount :
        counted >= n ~> \/ counted < n
                        \/ lost # {}
                        \/ row.ymd = date /\ row.tme429 >= n

-----------------------------------------------------------------------------
(* What the texts of the repository say and the code does not do *)

\* daily-counter-store.service.ts:15-16 and 70: the numbers of the day go on when the
\* server is started again, because what is pending is saved just before it stops.
RestartKeepsCounts == up /\ lost \subseteq {"stopped"} => RolledGate.tme429 = counted
=============================================================================
