# Formal models of NEWLINK (TellLink)

NEWLINK is a directory of Telegram channels: a NestJS backend (one Node process, SQLite or
PostgreSQL through TypeORM), a React frontend and scheduled jobs that read public Telegram pages.
This directory holds TLA+ models of the parts of the backend whose correctness depends on the order
of things: database calls of concurrent requests, crashes and restarts, timers, limits shared by
many callers. TLC checks the models on small instances; TLAPS proves theorems about them for every
value of the constants.

How to run:

    tlc -config PayoutRaces.cfg MCPayoutLedger     # any run of the table below
    tlapm PayoutLedgerProofs.tla                   # any module whose name ends in Proofs

## The model of concurrency

There is one process and one thread. Code runs alone until it awaits; every query, HTTP request and
timer is an await. An **action is therefore the code between two awaits**, and what a handler keeps
in local variables over an await is part of the state (`req` in PayoutLedger, MtprotoAccount and
BulkInspect, `request` in StatsJob, `client` in TmeGate, `att` in CollectRun, `desk` in AdDesk,
`task` in ChannelRegistry). An entity that is loaded, changed and given to `repository.save` after an
await puts its old columns back; the models keep the loaded copy for that reason. A crash loses the
memory and all requests, and leaves the tables.

## Inventory

Paths are below `src/backend/src`.

| Component | State | Operations | What makes it correct | Module |
|---|---|---|---|---|
| Reward payout ledger (`payments/reward-payout.service.ts`, `ton-payment.service.ts`) | `payout_records`, `ton_payments`, reward and payout columns of `channels`, the rewards toggle | open, settle, confirm, fail, skip, void a payout; remove a TON payment | no channel is paid twice; the tables tell one story | PayoutLedger |
| Start-up backfill (`payments/reward-seed.service.ts`) | the same tables | three loops at every start | complete, idempotent, no payment invented | PayoutLedger |
| Channel registry (`channels/channels.service.ts`) | `channels` | submit, approve, reject, edit, recommend, promote, refresh, merge | one row per link, no lost update, counters exact | ChannelRegistry; PayoutLedger (payout columns) |
| Stats job (`stats/stats-job.service.ts`) | `running`, `currentRunId`, `currentRunMode`, `lastStartedAt`; `stats_runs` | start, wait, finish, repair and report at start-up | one run at a time, every row closed, interruptions reported | StatsJob |
| Admin notifications (`notifications/admin-notification.service.ts`) | `admin_notifications`, unique keys | notifyOnce, list, mark read | once per key | NoticeBook; StatsJob and AdDesk (notifyOnce) |
| t.me gate (`stats/tme-gate.ts`) | slots in use, waiters, pace, cooldown, numbers of the day | acquire, report, release | limits kept, no lost wake-up, cooldowns kept, the day's lock kept | TmeGate, SlotPool, GateDaily |
| Daily counters (`daily-counters/`) | pending saves, one row of `app_settings` per counter | schedule, flush, load | counts survive a restart, never exceed the truth | DailyCounters |
| Collect pool and queue (`stats/collect-pool.logic.ts`, `collect-queue.logic.ts`, `collect-tier.logic.ts`) | cursor, deadline, cooldown per run | workers take items | every item once, stops at the deadline | CollectRun, CollectPool |
| MTProto collector and budgets (`stats/mtproto-*.ts`) | requests of the day, joins, flood wait | prepare, spend, reserve | the budget of the day is kept, a FloodWait respected, a stop ends | MtprotoAccount; its writes to channels: CollectRun |
| Channel collector (`stats/channel-collector.service.ts`) | collect status and failure count of a channel | collect a channel, parse pages | verdicts earned by answers, one row per chat stays | CollectRun; its request path is in TmeGate |
| Discovery and import (`stats/channel-discovery.service.ts`, `auto-manage/`) | queue of invite links | inspect, register | no link inspected for ever | not modelled; `tryRegisterCandidate` is in ChannelRegistry |
| Category AI (`auto-manage/category-ai.service.ts`) | requests of the day | classify | within the daily limit | not modelled; its counter is stored as in DailyCounters |
| Rank ads and banners (`ads/`) | `rank_ads`, `ads`, a cache | book, edit, expire, place | lists show what was booked; clicks add up; the cache follows the table; a notice goes out once | AdDesk |
| Promotion payments (`payments/payments.service.ts`) | promotion dates of a channel | invoice, webhook | no paid promotion is lost | ChannelRegistry |
| Metrics, ranking, public statistics | derived tables, caches | compute, serve | floating-point computations | not modelled; `listRankAds` is in AdDesk |
| Admin login and guards (`auth/`, `security/`) | attempt counters, one-time codes | login, second step | lock after failures | not modelled |
| Bulk inspection (`admin/admin-inspect.service.ts`) | `admin_inspect_jobs`, `admin_inspect_items`, `workerRunning` | start, work, resume, clear, register | every job ends, completed means done, a link is registered once | BulkInspect |
| Members, analytics, categories, images, SEO, server status, admin screens, frontend | single rows | reads, inserts | no protocol between steps | not modelled |

How they interact: the schedules and the admin screen start **runs** (StatsJob). A run's workers
take channels from the **pool**, ask the **gate** for a slot for every page, and report the answer to
it; previews and bulk inspection use the same gate. The gate's numbers of the day go through the
**daily counters** to the database and come back at the next start. Members submit channels to the
**registry**; an administrator approves them and pays the submitter through the **ledger**, which
writes the channel row and `ton_payments` as well; every start runs the **backfill** over the three.
Collections ask Telegram through the **account** when the public page does not answer; collections,
discovery, bulk inspections and payments all write rows of the registry. **Rank ads** refer to its
channels and put them on places of the lists. StatsJob, CollectRun and TmeGate are three views of one
nightly run: that a run is on, what it does to rows, and how it waits for its pages; CollectRun keeps
of the gate whether it is cooling, and StatsJob keeps of a collection that it ends (`EveryRoundEnds`
is why it may).

What is hard here, and where it bites, is listed as the hazards of `PROJECT.json`: check-then-act
over an await (payout records, running runs, duplicate links, ad slots, the account's limits, inspections), whole-row saves of stale
entities, four separate writes where one transaction is needed, start-up repairs that are cut short
or run again, state cleared in the wrong order by overlapping runs, wake-ups, cooldowns and midnight
in the gate, late saves of counters, attempts that were given up but go on, a reason kept as a text
that any later error writes over.

## Modules

### PayoutLedger (with MCPayoutLedger, PayoutLedgerProofs)

State: `rewardsOn`, `channel` (the columns payouts use), `records` (`payout_records` in insertion
order), `tonPay` (`ton_payments`, removed rows included), `node` and `todo` (up, or which loop of the
backfill and what it has still to visit), `req` (handlers between two awaits). History: `disturbed`
(what happened to a channel that the plain course of one request after the other would not do),
`quiet` (nothing written since a complete backfill).

| Code | Actions |
|---|---|
| `ChannelsService.create`, `approve`, `reject`, `refreshPreview`, `clearSubmitter` | `Submit`, `Approve`, `Reject`, `RefreshPreview` (`LoadEdit` to `SaveEdit`), `ClearSubmitter` |
| `recordChannelPayout` and `dualWritePaid` | `RecordPayout`, `SaveRecord`, `LoadReward`, `SaveReward`, `CreateTon`, `MarkPaid` |
| `finishExisting`, `confirmRecord`, `failRecord` | `FinishPayout`, `ConfirmRecord`, `FailRecord`, `SaveFinish` |
| `skipPayout`, `voidRecord`, `TonPaymentService.remove` | `SkipPayout`, `SaveSkip`, `VoidRecord`, `SaveVoid`, `CountPaid`, `Reopen`, `RemoveTonPayment` |
| `RewardSeedService.onModuleInit`, `backfillLocal` | `BackfillChannel`, `CopyTonPayment`, `GapFill`, `NextStage` |
| the process dies | `Crash`, at any point, the backfill included |

Properties: `NoDoublePayout` (what can get a second payout past the 409 and nothing else can),
`StatusMatchesLedger` and `DualWriteExactlyOnce` (the tables agree when a channel is at rest and
nothing irregular happened to it), `OneCopyPerTonPayment`, `BackfillCompletes`,
`SecondRestartChangesNothing`. There is no fairness: all are safety properties.

Not modelled: deletion of channels, payout methods and wallets, the wallet kinds of the backfill,
records an administrator creates without a channel, texts and amounts, two instances of the server
at once during a deployment.

### TmeGate (with SlotPool, GateDaily, MCTmeGate, TmeGateProofs)

State: `pace` (limit, gap, remaining cooldown, time since the last adjustment, the two streaks),
`daily` (GateDaily's record), `active`, `client` (outside, sleeping through a cooldown, in the list of
waiters, woken, using a slot). Time is relative, as `Tick`; midnight is `NewDay`, which the gate only
notices in its next call (`RollDay`). `Try` is one turn of the loop of `acquire`; `Finish` is a
caller's report followed by its release, one action because no caller awaits in between.

SlotPool is the abstract specification: callers ask, are let in or turned away, and leave; no more
are inside than the total and their kind allow; nobody is let in while it is closed. `IsSlotPool`
says that the gate implements it, with `closed` meaning a cooldown. What a slot pool promises,
`LimitsKept`, is proved of the abstract specification alone, and so holds of the gate.

Properties: `NoLostWakeup` (whoever is in the list has no slot waiting for it, and somebody is there
to wake it: the rollover at midnight has to wake, too), `SlowsDownOncePerCooldown`, `CooldownKept`,
`LockedForTheDay`, `EveryRequestEnds` (liveness), `IsSlotPool`, `LimitsKept` (the gate's own form of the
pool's promise: the collector's limit shrinks while it holds slots), `DayOnlyGrows` (the numbers of the
day change only in the two ways DailyCounters has actions for, so that its view of the gate is sound).

Fairness: timers fire (`Tick`), woken callers run, requests are answered or ended by
`AbortSignal.timeout`, which every caller passes to `fetch`. `MaxRequests` is more than a bound for
`EveryRequestEnds`: the gate has no queue order, a newcomer may take the slot a woken waiter was
about to take, so a steady stream of newcomers may keep a waiter waiting. The property says that a
waiter gets its turn once no new requests come.

Left out: the statistics of a run and the bot's 429 count, which no decision reads. The comment
`tme-gate.ts:14` (state only in memory, from 0 after a restart) predates `restoreDaily` and is not
what the code does; the model follows the code.

### DailyCounters (with GateDaily; proofs in TmeGateProofs)

State: the gate's numbers of the day, `listening`, `scheduled` (pending entry and its timer),
`saving` (saves on their way; two may travel at once and land in any order), `row`, the calendar.
History: `counted` (429 answers since midnight) and `lost` (what may have cost counts). A process
that is stopped loses its timers, but not the saves already with the database.

Properties: `NeverOvercounts`, `ExactUnlessDisturbed` (restoring, late saves and midnight lose
nothing by themselves), `LockSurvives`, `EveryCountSaved` (liveness, given that timers fire, queries
end and a started server initialises its modules).

### StatsJob (with NoticeBook, StatsJobProofs)

State: `row` (`stats_runs`), `work` (what the process does for each run), `job` (`running`,
`currentRunId`, `currentRunMode`), `closing` (the row a finishing run is closing: whichever was
current), `recent` (`lastStartedAt` within its window), `request` (callers waiting for an insert or
for a light run to end), `boot` (stage of `onModuleInit`), `bell`, `told`. History: `mixed` (runs at
work while another one began or finished), `failed` and `cut` (reports that failed or were cut off).

Properties: `NeverStuck` and `BootClosesOldRuns` hold of all runs, however they overlap;
`UnmixedRunsTell` says what the rows and the status can be trusted for when they do not;
`ReportedOnce`; `EveryRunCloses` (liveness: inserts and updates come back, a run ends because its
phases have deadlines, a server that died is started again). An update that fails in `finishRun`
rejects a promise nobody handles, which ends a Node process: that is a `Crash`.

NoticeBook is the abstract specification of `notifyOnce` and the message after it: a key is listed
once, whoever listed it and heard so owes one message, and a message is sent or, when the process ends,
lost. An insert may be done while its answer is an error: then the key is listed and nobody owes. Its
promise, `ToldOnce`, is proved of it alone. `IsNoticeBook` says that the reports of interrupted runs
implement it; AdDesk says the same of the notices before an ad ends, where several checks race for
one key and the unique index decides between them.

### MtprotoAccount (with MCMtprotoAccount, MtprotoAccountProofs)

State: `acc` (stopped, the reason, the counts of the day, the end of the FloodWait, timeouts in a row),
`connected`, `joins`, `req` (each caller's operation and where it stands in `call`), `prep` (the
nightly refresh), `row` (the FloodWait row of `mtproto_state`), time and calendar.
History: `cause`, `wait` (the end of the wait Telegram asked for), `forgot`, `crowd` (the most joins that
were under way at one time).

| Code | Actions |
|---|---|
| `collectAndSave`, `collectInviteAndSave`, `inspectPublicUsername`, `searchPublicByKeyword`, `testPublicUsername` | `Begin`, `Skip`, `Answer`, `StoredInvalid` (what is asked next) |
| `call` | `Request` (tests), `Send` (after the client and its turn: counts), `ConnectFails`, `TimedOut`, `Refused` |
| `retryAfterFloodWait`, `persistFloodWait` | `FloodShort`, `FloodAgain`, `FloodLong`, `FloodSaved`, `FloodNotSaved` |
| `tryJoinInvite` | `Request`, `Answer`, `Refused` with the method `join` |
| `prepareForCollectRun`, `refreshFloodWaitFromDb` | `Prepare` (begins, reads, clears, decides) |
| `onModuleInit`, `restoreDailyCounters`, midnight | `Restart`, `NewDay` |

Properties: `BudgetHeld` and `JoinsHeld` (limits are tested before an await and counted after it: the
budget is passed by the other callers at most, the joins of a day by fewer than were ever under way at
once, so not at all while joins do not overlap), `FloodRespected` (no request during a FloodWait unless
the wait was forgotten in one of three ways), `StopsEnd` (liveness: time passes, the nightly run comes).
`Init` is the account after a first `onModuleInit`, its counters of today. A restart restores counts that
were saved together, so the kinds never exceed the total.

Left out: the total of all joins, the pauses between requests, three of the four reads of a group's
history, and the split of the budget between the phases of a run.

### CollectRun (with CollectPool, MCCollectRun, CollectRunProofs)

State: `row` (collect status, error, not-found count, kind, due or not), `run` (the round, what is left
of it, its counts, whether its time is over), `wk`, `att` (attempts; a worker has one in its hand and
one that timed out and goes on), `cooling`. History: `misses`, `empties` (empty pages in a row), `raced`,
`mixed`.

| Code | Actions |
|---|---|
| `collectAll`, `collectLightAll`, `collectFirstSeenNonLight`, `runCollectPool` | `StartRun`, `GoOn`, `RoundEnds`, `BudgetEnds`, `Worker` (`TakeItem`, `WorkerStops`, ...) |
| `collectOneSafe`, `collectOne` and all they call | `Step`: each page, answer, fallback and save of an attempt; `TimesOut`, `Throws`, `GivesUp` |
| registration, admin: one channel | `Ask` |
| `mergeSameTelegramChat` | `FindTwins`, `Merge` |
| `nextCollectAt`, the gate's cooldown | `ComesDue`, `CoolingEnds` |

CollectPool is the abstract specification of a round: each item is taken at most once and counted
once, a round over its time takes nothing but its first item, nobody works when it closes. `IsPool`
is the refinement; `CountsAddUp` (left, in hand and counted make what was offered, at every moment) is
what every such pool promises. Other properties: `VerdictsEarned` (gone after three answers, blocked,
with either error that `isPreviewBlocked` knows, after two empty pages in a row, or after one if the
channel was never read before, unless an old copy was saved; see Findings 8 for the one), `OneRowKept`,
`MergedStays`, `EveryRoundEnds` (liveness).

Fairness: workers run, an attempt in a worker's hand ends (each has two minutes), a cooldown ends.
Abandoned attempts and single collections need not end. Left out: pages, posts, events, priorities
and dates of the queue; all rows are active.

### AdDesk (with NoticeBook, MCAdDesk, AdDeskProofs)

State: the tables of rank ads and their daily clicks, `desk` (an admin's request), `clicking`, the
banner cache and the `listPublic` that fill it, `bells`, `check` and `told` for expiry notices.

| Code | Actions |
|---|---|
| `RankAdsService.create`, `update`, `remove`, `checkConflicts` | `BeginCreate`, `BeginUpdate`, `CheckConflicts`, `WriteAd`, `RemoveAd` |
| `AdStatsService.recordClick` | `Click`, `CountDay` |
| `AdsService` | `BeginBanner`, `ClearCache`, `ReadRows`, `ReadRotate`, `StoreCache`, `CacheExpires` |
| `AdExpiryService.check`, `notifyOnce` | `BeginCheck`, `AskBell`, `InsertBell`, `BellUnheard` (done, but its answer is an error), `Tell` |

`ListRankAds` and `ComposeAdSlots` are the placement algorithm of the lists: a fold over the set of ads,
in the order of the places booked (`LastBySlot` picks who comes last; among ads of one place, of which the
code keeps the order of the query, the order is left open). Properties:
`ShownAsBooked` (placement and conflict check together: what was booked is what every list of every
category and day shows, whichever channels are visible), `PlacesApart` (the same conflict check seen
in the table alone: no two live ads of a list share a place or a channel), `ClicksAddUp`,
`BannersOldOnlyByRace`, `OneNoticePerBell`, `IsNoticeBook`. Left out: the thirty seconds `listRankAds` is
cached, the banners themselves, payments, impressions, listings.

### ChannelRegistry (with MCChannelRegistry, ChannelRegistryProofs)

State: `rows` (link, status, recommendations, end of promotion), `recommended`, `task` (a client's
request, and the preview that a submission leaves behind). History: `missed` and `unseen` (searches
that were overtaken), `stale` and `overwritten` (old copies), `cut`, `paid`.

| Code | Actions |
|---|---|
| `create`, `createByAdmin`, `tryRegisterCandidate` | `Submit`, `CreateByAdmin`, `RegisterCandidate`, `InsertRow` |
| `approve`, `reject`, `updateAdmin`, `promote`, `recordReporterReward` | `Begin...`, `Load`, `Check`, `Save` |
| `incrementRecommend` | `BeginRecommend`, `AskRecommended`, `RecordRecommendation`, `Save` |
| payment webhook, repeated or not | `BeginPayment`, `Load`, `Save` |
| `refreshPreview`, `collectPublicPageAfterRegister` | `Reload`, `SaveAgain` |

Properties: `OneActivePerLink` and `LostOnlyToOlderCopies` say exactly which race each wrong outcome
needs; requests one after another never reach one. Left out: merged rows (CollectRun), names of
invited rows, sort order, visibility, favourites, listings.

### BulkInspect (with MCBulkInspect, BulkInspectProofs)

State: `jobs` and `items` (the two tables), `busy` (`workerRunning`), `req` (a request between two
awaits), `work` (each `runJob` under way, of which there may be two), `loop` (registrations: the
server's own loop and requests), `channels` (how many rows a link has). History: `bare` (jobs whose
lines were not inserted), `cut`, `crossed`.

| Code | Actions |
|---|---|
| `startInspect`, `assertCanStart`, `pruneOldJobs` | `BeginStart`, `CountRunning`, `InsertJob`, `InsertLines`, `LinesFail` |
| `resumeInspect` | `BeginResume`, `CountRunning`, `FindInterrupted`, `Reopen` |
| `clearJob` | `BeginClear`, `ListFinished`, `ClearItems`, `ClearJobs` |
| `runJob`, `inspectItem` | `ListLines`, `LookAtLink`, `NoteResult`, `CountLeft`, `SaveProgress`, `CountForStatus`, `CountForProgress`, `Close`, `Throws`, `Catch` |
| `startRegister`, `registerMany`, `registerOne`, `createByAdmin` | `StartRegister`, `RegisterMany`, `ReadItem`, `FindExisting`, `NoteKnown`, `SearchAgain`, `SaveChannel`, `MarkItem`, `RegisterFails` |
| the process dies, `onModuleInit` | `Crash`, `BootMarks`, `BootEnds` |

Properties: `JobsEnd` (liveness: a job shown as running ends, unless its lines could not be inserted:
such a job keeps all later ones out until the next start of the server), `CompletedMeansDone` (also
when two clients resume one job and two `runJob` work on it), `RegisteredOnce`. Fairness: queries and
pages answer or fail, a server that ended starts again; registrations need not go on. Left out: how
a page is judged, the inspection of a single link, the counts of the registration loop and its bell.
The running collection that also refuses a start is a refusal that may always come.

## Runs and bounds

| Run | Instance | Shows |
|---|---|---|
| `payout_races` | one channel, two requests, two records, no crash | all interleavings of two handlers of any kind; a third adds no new pair of neighbours to a check and a save |
| `payout_restarts` | one channel, one request, TON and Stars, force, one payment older than the ledger, two crashes | a crash anywhere, then another in the repair of the first |
| `payout_doubled_by_restart` | the smallest that shows it | violation, see Findings |
| `tme_gate` | two collectors, a preview, an inspection; total 2; cooldowns of 2 or 3 ticks; 4 requests; one midnight; lock above one 429 | every limit is reached: total, kind, lock, streaks; cooldowns overlap |
| `daily_counters` | a midnight, two counts a day, two stops, two saves at once | saves that overtake each other, land on another day or after a stop |
| `stats_job` | two requests, three runs, two crashes | two overlapping runs and a third after them; a crash in the repair of a crash |
| `mtproto_account` | the job (collects, opens invitations, inspects) and another caller (the admin's test, a collect that was abandoned and still opens an invitation); two requests a day, one of each limited kind, one join; FloodWaits of a tick; a midnight or a restart | every limit is met by both callers at once, and their joins overlap and pass the limit; a wait is saved, read, lost and refreshed in every order. An invitation takes both requests of a day, its check and its join, so joins overlap over midnight |
| `collect_run` | two rows of one chat, from three first tables, two workers, one single collection; one timeout, error or due date beside them; one run of two rounds | an abandoned attempt against its retry, a merge against either |
| `ad_desk` | three ads, two channels, two places, two admins, two checks, one reader; three events | any two requests overlap, on the slots of the third ad |
| `channel_registry` | two links, up to three rows, two clients with their previews; three events | any two requests on one link or one row, with what they leave behind |
| `bulk_inspect` | two jobs (two links, or one line that is no link), two clients, two `runJob`; three events, one fault | an interrupted job resumed twice; two loops at one line; a crash at any point of either |
| `mtproto_flood_stop` | as `mtproto_account` | violation, see Findings |

Each `MaxX` constant is a bound in a guard and is named so in its module. `CHECK_DEADLOCK FALSE`
appears where the bounds stop the model. The mutants in `PROJECT.json` are plausible bugs; each
property is violated by one of them.

## Findings

Each of the two violation runs shows a disagreement between the code and what the repository says.

1. **A restart adds a paid record** (`payout_doubled_by_restart`): the payout's own `ton_payments` row is
   not cited by its record, so the next start's backfill copies it as a second payment.
2. **A stop that should have ended stays** (`mtproto_flood_stop`): looking at a name writes
   `FLOOD_WAIT_TOO_LONG` over the reason `flood_wait`, and what lifts a stop looks for that reason.

Other statements of the repository that the code does not keep are properties of the modules, under
"What the texts ... say" or beside the others, and no run checks them. TLC shows each violated when
it is put into the cfg of its module's run instead of the properties there:

3. **Two payouts for one channel** (`NoSecondPayout`, PayoutRaces.cfg): `recordChannelPayout` checks for
   blocking records, awaits, and then saves; two requests pass the check together.
   `NoDoublePayout` is what still holds.
4. **A restart overrides the submission's status** (`SubmissionDecisionKept`, PayoutRestarts.cfg).
5. **Counts of the last seconds are lost at an ordinary stop** (`RestartKeepsCounts`,
   DailyCountersAll.cfg): the hook that would save them needs Nest's shutdown hooks, which `main.ts`
   does not enable.
6. **Two runs at a time** (`OneRunAtATime`, StatsJobAll.cfg): `running` is set after the insert of the row;
   the cron and the GitHub schedule fire in the same minute. The first to finish closes the other's row.
7. **Interruptions nobody hears of** (`EveryInterruptionTold`, StatsJobAll.cfg): rows are closed before
   they are reported.
8. **Blocked after one empty page** (`BlockedOnlyTwice`, CollectRunAll.cfg): the comment of
   `previewMissError` (stats-collect.logic.ts:147-149) counts a preview as blocked only when it was empty
   twice in a row, but light writes `preview:no_posts` at the first empty page of a channel that was never
   read before (channel-collector.service.ts:727-728), and `isPreviewBlocked` counts that too.

## Proofs

Eight modules hold the theorems. Each proof has the same course: a lemma for each action, or group of
actions that change the same things, says that the inductive invariant outlasts it; these meet in one
lemma about `[Next]_vars`; a temporal step ends it. Every inductive invariant below was first checked by
TLC on the instance of its module's run. Where an invariant is not the property itself, the table
says what it adds and why the property needs it.

| Theorem | Says | Argument |
|---|---|---|
| PayoutLedgerProofs `TypeCorrect` | `[]TypeOK` | one lemma per group of actions; `OwnRecord` is part of it because settling needs the record's channel |
| `PaymentsCopiedOnce` | `[]OneCopyPerTonPayment` | `LedgerSteps`: a step adds one record that cites nothing cited before, or changes a status |
| `PaidOnce` | `[]NoDoublePayout` | not inductive: a handler between check and save matters. `OpeningAlone` adds that such a handler is alone and nothing blocks |
| `BackfillLeavesNothingOut` | `[]BackfillCompletes` | `DealtWith`: each loop has seen to what is no longer in `todo`, earlier loops to all; needs `KnownChannels` (a request never writes the row of a channel that does not exist) and `QuietIsIdle` |
| `SecondRestartIsIdle` | `SecondRestartChangesNothing` | from the same invariant: what is dealt with is not rewritten |
| `StatusAlwaysMatches`, `DualWritesExact` | `[]StatusMatchesLedger`, `[]DualWriteExactlyOnce` | `CourseKept`: while nothing irregular happened to a channel one request at most is busy with it, and `Midway` says for each place where that one may wait what it still owes: the status, one `ton_payments` row, the reward columns. `Backed` says what a start finds, so that the loops of the backfill keep it; `SendingIsNew` that a settled record was never paid |
| TmeGateProofs `GateTypeCorrect` | `[]TypeOK` | slots counted are slots used, by cardinalities of `Using` |
| `NobodyForgotten` | `[]NoLostWakeup` | inductive with `TypeOK`; wakes at release and at rollover |
| `SlowedOnce` | `SlowsDownOncePerCooldown` | `Spaced`: time since the last slowing down plus the remaining cooldown is at least `CoolMin` |
| `CooldownOnlyPasses` | `CooldownKept` | case by case |
| `OneAtATimeWhenLocked` | `LockedForTheDay` | `LockCounted`: above the limit the record is locked |
| `DayNeverGoesBack` | `DayOnlyGrows` | `DayKnown`: the record's day is never after today, so a roll only goes forward |
| `GateIsSlotPool` | `IsSlotPool` | refinement: every step is a step of the pool or leaves it alone |
| `SlotPoolsKeepLimits`, `LimitsAlwaysKept` | `IsSlotPool => []Pool!LimitsKept`, `[]LimitsKept` | induction over the pool's own steps, by cardinalities of who is inside; the second is the first through `GateIsSlotPool` and the type, which ties the gate's counters to the pool's sets |
| `StoreTypeCorrect`, `NoDayOvercounted`, `LockOutlivesRestart` (DailyCounters) | `[]StoreTypeOK`, `[]NeverOvercounts`, `[]LockSurvives` | the last from `LocksKept`: no record of a day, in memory, on its way or stored, is above the limit and open |
| `CountIsExact` (DailyCounters) | `[]ExactUnlessDisturbed` | `Accounted`: while nothing was lost the gate has the whole count of the day, and so has the newest of what is saved or on its way, unless a save is scheduled |
| StatsJobProofs `JobTypeCorrect` | `[]TypeOK` | needs `RoomKept`: every waiting request has a number left for its run |
| `NeverBusyForEver` | `[]NeverStuck` | inductive with the type: `running` is set with a working run and cleared by the first that ends |
| `RestartClosesRows` | `[]BootClosesOldRuns` | `DeadRunsFound`: an open row of a dead run is before the start-up or in what it has still to mark |
| `LoneRunsTell` | `[]UnmixedRunsTell` | `CurrentRun`: a run that overlapped no other is the only live one and the current one; rows closed by others belong to mixed runs |
| `InterruptionsToldOnce` | `[]ReportedOnce` | `BootInOrder` and `ToldInOrder`: the notification comes first, and what was not told of is before the start-up, failed or cut off |
| `ReportsAreNotices` | `IsNoticeBook` | refinement: while the start-up tells of a run, that run is what is owed; a crash loses it |
| `BooksTellOnce` | `IsNoticeBook => []Notices!ToldOnce` | `OwedIsListed`: what is owed is in the list, so it is not listed, and not owed, again |
| MtprotoAccountProofs `AccountTypeCorrect` | `[]TypeOK` | what a caller has in hand at each place of `call` |
| `BudgetNeverFarPassed` | `[]BudgetHeld` | `Budgeted`: what is counted and the callers past the test together are below limit plus callers; the test lets one more in only while fewer than the limit are counted |
| `JoinsNeverFarPassed` | `[](JoinsHeld /\ joins.today <= JoinDaily + Cardinality(Inviters) - 1)` | `JoinsBudgeted`: joins counted and under way together pass the limit by less than `crowd`, and `crowd` is at most the number of callers that may open invitations (`Owned`) |
| `NoRequestInFloodWait` | `FloodRespected` | `FloodKnown`: unless it was forgotten, the account's wait reaches as far as Telegram's |
| CollectRunProofs `CollectTypeCorrect` | `[]TypeOK` | `Crew`: the busy workers are those with an attempt in hand |
| `RoundsArePools` | `IsPool` | refinement; `Tally`: done, in hand and left make the total, and a lead that stopped left items only because the time was over |
| `PoolsAddUp`, `RoundsAddUp` | `IsPool => []Pool!CountsAddUp`, `Spec => []Pool!CountsAddUp` | induction over the pool's own steps; the second is the first through `RoundsArePools` |
| `VerdictsAlwaysEarned` | `[]VerdictsEarned` | `Copies`: a copy nobody wrote past is the row; a row last written from such a copy says what was answered: how many not-found answers in a row, and how many empty pages for each of the errors that an empty page leaves |
| `OneRowAlwaysKept` | `[]OneRowKept` | from `Copies`: a merge that met no other knows rows that are still visible, and hides all of them but one |
| `MergedRowsStay` | `MergedStays` | from `Copies`: a full attempt with a fresh copy is never one of a merged row |
| ChannelRegistryProofs `RegistryTypeCorrect` | `[]TypeOK` | the shape of a request at each of its places; rows that will be given numbers are left over |
| `OnlyOldCopiesLose` | `[]LostOnlyToOlderCopies` | `CopiesFresh`: a copy that is not stale is the row, so its save loses nothing; `Previews`: a preview counts nothing; a save that counts takes its own recommendation out of those still to be counted |
| `OneActiveRow` | `[]OneActivePerLink` | `Searched`: a request that is about to make a row active, and was not overtaken, has no active row of its link against it |
| BulkInspectProofs `InspectTypeCorrect` | `[]TypeOK` | the shape of the tables, of requests, runs and loops |
| `RegistersOnce` | `[]RegisteredOnce` | `Sought` and `Noted`: a registration that is to save found no row, unless crossed; one that is to note its line saw a row |
| `CompletedIsDone` | `[]CompletedMeansDone` | `RoomKept` (an idle run for each request that may start one), `Numbered` (no job number twice), `Awaited` (a job whose lines are being inserted is of one request), `Judged` (a run about to complete a job has counted right) |
| AdDeskProofs `DeskTypeCorrect` | `[]TypeOK` | `AppliedShape`: what is typed, over a row or the empty one, is a whole row |
| `PlacesStayApart` | `[]PlacesApart` | `ChecksKnown`: a row whose check saw every other writer clashes with nothing in the table until it is written; `PairsKnown`: two rows that clash are known by one of them |
| `ClicksAlwaysAddUp` | `[]ClicksAddUp` | `ClicksKnown`: the copy an admin is about to save is behind by the clicks made since it was taken, at most; an ad that is not in the table has none |
| `CacheOldOnlyByRace` | `[]BannersOldOnlyByRace` | `BannersKnown` extends it from the cache to what each reader has read so far |
| `ListsShowBookings` | `[]ShownAsBooked` | `PlacesApart` gives `Spread` (ads of a list live on one day have places and channels of their own); what the fold has placed when it has dealt with a set is `PlacingFills`, by induction over finite sets; see below |
| `OneNoticeEach` | `[]OneNoticePerBell` | inductive with `TypeOK`, by cardinalities of `Sending` |
| `ExpiryIsNoticeBook` | `IsNoticeBook` | refinement; `OneSender`, from the invariant of `OneNoticeEach`: of a key one check at most is about to tell, so its message takes the key out of what is owed |

What a fold computes for every finite set is proved without the induction theorems that take an operator,
by the least counterexample: of the sets that break the claim one has no smaller one among its subsets
(`WFMin`, with the well-foundedness of strict inclusion on finite sets, is lemma `SmallestSubset`; the same
of numbers is `SmallestNumber`). That the recursive function behind `MapThenFoldSet` exists at all is
`PlacingExists`, by the same argument.

They hold for any sets of channels, links, ads, callers, workers and requests (finite where they are
counted), any limits that satisfy the named assumptions, and any value of the bounds. The assumptions
say of the constants what the code or the beginning of the model fixes: limits are numbers, a
FloodWait is not zero, the placeholder of an empty row is not a row, some caller opens invitations (the
nightly run does), single collections are not workers. Of the rows a model begins with they say that
its histories begin there: no recommendations or clicks yet, and none of the wrong outcomes a property
excludes, such as two active rows of one link or two ads on one place. The type invariants,
`CooldownKept`, `LimitsKept`, `DayOnlyGrows`, the promises of the three abstract specifications and
AdDesk's `IsNoticeBook` are proved, so no run checks them; TLC found no counterexample to them on the
instances of their modules' runs before.

Only model-checked:

- liveness: `EveryRequestEnds`, `EveryCountSaved`, `EveryRunCloses`, `StopsEnd`, `EveryRoundEnds`, `JobsEnd`;
  the prover has no rules for fairness;
- the two runs that expect a violation: a counterexample needs no proof.

## Not modelled

- **Discovery and import**: crawling heuristics over pages of others; what they find goes through
  `tryRegisterCandidate`, which is an action of ChannelRegistry. The import desk
  (`auto-manage/auto-manage.service.ts`) is a provider that no controller or service calls any more:
  the program has no step of it.
- **Category AI**: what it decides is the answer of an external model; its requests of the day are
  stored as those of DailyCounters are.
- **Metrics, ranking, public statistics**: pure computations over floating-point numbers, and caches of
  results; TLC has no reals, and a bounded integer version would not say what the code computes.
- **Admin login, member login, guards**: access control is outside the questions asked here, which are
  about data and scheduling.
- **Admin screens, members and analytics, categories, images, SEO, server status**: single inserts, updates
  and reads, each one statement; nothing happens between two steps.
- **Frontend**: what matters of it is which requests it sends and repeats; these are the inputs of the
  models (a payout settled twice, two admins at one ad, a job resumed twice). A third of the
  repository's lines is this and rendering.
- **Lengths of texts**: the reason of a skipped payout is cut at 500 characters where its column holds
  200 (`reward-payout.service.ts:448`, `channel.entity.ts:403`); texts are not in the model.
- **The split of the MTProto budget** between the phases of a run (`mtproto-budget.logic.ts`): whatever it
  gives, `BudgetHeld` bounds what the account spends.
- **Migrations and scripts**: only the columns the ledger's model begins from.

## Plan

All modules of the plan are written, and every safety property, action property and refinement of
the modules is proved, but for those that the code violates (see Findings). What is left:

1. Lemmas about `Slower`, `Faster` and `OnTimeout` of the gate and about the operators of the pool are
   proved where they are used; those that other modules could cite may be stated once.
2. The components under "Not modelled" whose counters or queues are more than a store: the queue of
   invite links of the discovery first.
