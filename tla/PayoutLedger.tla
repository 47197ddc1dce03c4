---------------------------- MODULE PayoutLedger ----------------------------
(***************************************************************************)
(* The reward payout ledger of backend/src/payments: member submissions,   *)
(* the payout records an admin opens, settles and voids, the dual write of *)
(* a paid record to the channel row and to ton_payments, and the backfill  *)
(* that every server start runs over the three tables.                     *)
(*                                                                         *)
(* The server is one Node process: code runs alone until it awaits.  A     *)
(* request is therefore a record in `req` whose pc names the next database *)
(* call to make, and each action is the code between two such calls.       *)
(* Entities loaded before an await and saved after it are copied into the  *)
(* request: repository.save writes every column of the entity that differs *)
(* from the row, so a saved copy puts its old columns back.                *)
(***************************************************************************)
EXTENDS Naturals, Sequences, FiniteSets

CONSTANTS
    Channels,      \* channel ids
    Requests,      \* slots for admin requests being handled
    Currencies,    \* currencies a payout may use
    ForceChoices,  \* values of the `force` field an admin may send
    MaxLegacy,     \* ton_payments rows older than the ledger
    MaxLive,       \* bound: payout records opened by requests
    MaxPayments,   \* bound: rows ever written to ton_payments
    MaxRestarts    \* bound: times the process dies

ASSUME LedgerAssumption ==
    /\ ForceChoices \subseteq BOOLEAN
    /\ MaxLegacy \in Nat /\ MaxLive \in Nat /\ MaxPayments \in Nat
    /\ MaxRestarts \in Nat

VARIABLES
    rewardsOn,  \* reward_settings.enabled
    channel,    \* channels: the columns a payout reads or writes
    records,    \* payout_records, in order of insertion (rows are never deleted)
    tonPay,     \* ton_payments, in order of insertion, with the rows removed since
    node,       \* "up", or the stage of the start-up backfill
    todo,       \* what the loop of that stage has still to visit
    req,        \* the requests being handled
    disturbed,  \* history: the irregularities each channel met
    quiet,      \* history: nothing was written since the last complete backfill
    restarts    \* times the process died, bounded by MaxRestarts

vars == <<rewardsOn, channel, records, tonPay, node, todo, req, disturbed, quiet, restarts>>

-----------------------------------------------------------------------------
(* Rows *)

\* listed: PENDING or ACTIVE, which no payout tells apart.
ChannelStatuses == {"absent", "listed", "rejected"}
PayoutStatuses == {"not_eligible", "pending", "paid", "skipped"}
RecordStatuses == {"sending", "paid", "failed", "void"}

\* submitted: submittedBy is set; rewarded: rewardTonAmount > 0.
ChannelRow == [status : ChannelStatuses, payout : PayoutStatuses,
               submitted : BOOLEAN, rewarded : BOOLEAN]
NoChannel == [status |-> "absent", payout |-> "not_eligible",
              submitted |-> FALSE, rewarded |-> FALSE]

\* ton is the index of the row sourceTonPaymentId names, 0 when it is null;
\* everPaid says that the record was saved as paid at some time.
PayoutRecord == [ch : Channels, cur : Currencies \cup {"TON"}, status : RecordStatuses,
                 source : {"live", "ton_payment", "channel_reward"},
                 ton : Nat, everPaid : BOOLEAN]
TonPayment == [ch : Channels, legacy : BOOLEAN, removed : BOOLEAN]

NewRecord(c, cur, status, source, ton) ==
    [ch |-> c, cur |-> cur, status |-> status, source |-> source, ton |-> ton,
     everPaid |-> status = "paid"]

\* Saving a record with a new status.
WithStatus(row, status) ==
    [row EXCEPT !.status = status, !.everPaid = @ \/ status = "paid"]
SetStatus(i, status) == records' = [records EXCEPT ![i] = WithStatus(@, status)]

IsBlocking(i) == records[i].status \in {"paid", "sending"}
RecordsOf(c) == {i \in DOMAIN records : records[i].ch = c}
Blocking(c) == {i \in RecordsOf(c) : IsBlocking(i)}
PaidOn(c) == {i \in RecordsOf(c) : records[i].status = "paid"}
LiveBlocking(c) == {i \in Blocking(c) : records[i].source = "live"}

-----------------------------------------------------------------------------
(* Requests *)

Idle == [pc |-> "idle"]
SettlePc == {"loadReward", "createTon", "markPaid"}
Request ==
    [pc : {"idle"}]
    \cup [pc : {"saveRecord"}, ch : Channels, cur : Currencies,
          status : {"sending", "paid"}]
    \cup [pc : {"saveFinish"}, ch : Channels, rec : Nat, status : {"paid", "failed"}]
    \cup [pc : SettlePc, ch : Channels]
    \cup [pc : {"saveReward"}, ch : Channels, row : ChannelRow]
    \cup [pc : {"saveSkip", "countPaid", "reopen"}, ch : Channels]
    \cup [pc : {"saveVoid"}, ch : Channels, rec : Nat, wasPaid : BOOLEAN]
    \cup [pc : {"saveEdit"}, ch : Channels, row : ChannelRow]

\* What can happen to a channel that the plain course of one request after the other
\* would not do.  Doubling: a payout was sent with force, two payout requests were
\* between check and save together, or a failed or void record was settled as paid.
\* Irregular: that, or two requests of the channel were in flight together, a paid record
\* was settled again, the process died during a request, or a restart changed the
\* channel or its ledger although it had records.
Irregular == {"irregular"}
Doubling == {"doubling", "irregular"}

Busy(c) == {q \in Requests : req[q].pc # "idle" /\ req[q].ch = c}
Opening(c) == {q \in Requests : req[q].pc = "saveRecord" /\ req[q].ch = c}

Mark(c, why) == disturbed' = [disturbed EXCEPT ![c] = @ \cup why]

\* A free slot takes the request r; why are the irregularities it brings.
Begin(q, r, why) ==
    /\ node = "up"
    /\ req[q] = Idle
    /\ req' = [req EXCEPT ![q] = r]
    /\ Mark(r.ch, why \cup (IF Busy(r.ch) = {} THEN {} ELSE Irregular))
    /\ quiet' = FALSE

Continue(q, r) == req' = [req EXCEPT ![q] = r]
Finished(q) == Continue(q, Idle)

\* Bounds: room is reserved when a request begins, so that no request stops half way.
RoomForRecord ==
    Cardinality({i \in DOMAIN records : records[i].source = "live"})
      + Cardinality({q \in Requests : req[q].pc = "saveRecord"}) < MaxLive
RoomForPayment ==
    Len(tonPay)
      + Cardinality({q \in Requests : req[q].pc \in
            {"saveRecord", "saveFinish", "loadReward", "saveReward", "createTon"}})
      < MaxPayments

-----------------------------------------------------------------------------
(* Mutated forms of definitions below: bugs the properties are there to catch. *)

\* assertNoBlocking that forgets the records still sending.
MutNoBlocking(c, force) == force \/ PaidOn(c) = {}

\* dualWritePaid that skips the TON tables.
MutDualWrite(c, cur) == [pc |-> "markPaid", ch |-> c]

\* dualWritePaid that fails to mark the channel of a payout.
MutMarkPaid(q) ==
    /\ req[q].pc = "markPaid"
    /\ Finished(q)
    /\ UNCHANGED <<rewardsOn, channel, records, tonPay, node, disturbed, quiet, todo, restarts>>

\* voidRecord that never looks at the other records of the channel.
MutSaveVoid(q) ==
    /\ req[q].pc = "saveVoid"
    /\ SetStatus(req[q].rec, "void")
    /\ Finished(q)
    /\ UNCHANGED <<rewardsOn, channel, tonPay, node, disturbed, quiet, todo, restarts>>

\* A backfill that looks for paid copies only.
MutShouldCopyTonPayment(t) ==
    \A i \in DOMAIN records : records[i].ton # t \/ records[i].status # "paid"

\* A backfill that copies a payment only to a channel without records.
MutCopyWhenEmpty(t) == RecordsOf(tonPay[t].ch) = {}

\* A gap fill that counts the records of requests only.
MutShouldGapFill(c) == \A i \in RecordsOf(c) : records[i].source # "live"

-----------------------------------------------------------------------------
(* Submissions and channel edits *)

\* payoutStatusForSubmission: decided by the toggle at the time of submission.
PayoutStatusForSubmission(on) == IF on THEN "pending" ELSE "not_eligible"

\* ChannelsService.create, up to its save.
Submit(c) ==
    /\ node = "up"
    /\ channel[c] = NoChannel
    /\ channel' = [channel EXCEPT ![c] =
          [status |-> "listed", payout |-> PayoutStatusForSubmission(rewardsOn),
           submitted |-> TRUE, rewarded |-> FALSE]]
    /\ quiet' = FALSE
    /\ UNCHANGED <<rewardsOn, records, tonPay, node, req, disturbed, todo, restarts>>

\* RewardPayoutService.setEnabled.  Only a submission reads the toggle, so it stays put
\* once every channel is there.
SetEnabled ==
    /\ node = "up"
    /\ \E c \in Channels : channel[c] = NoChannel
    /\ rewardsOn' = ~rewardsOn
    /\ UNCHANGED <<channel, records, tonPay, node, req, disturbed, quiet, todo, restarts>>

\* ChannelsService.clearSubmitter, when the submitting member is deleted.
ClearSubmitter(c) ==
    /\ node = "up"
    /\ channel[c].submitted
    /\ channel' = [channel EXCEPT ![c].submitted = FALSE]
    /\ quiet' = FALSE
    /\ UNCHANGED <<rewardsOn, records, tonPay, node, req, disturbed, todo, restarts>>

\* ChannelsService.approve, reject and refreshPreview load the whole row, await, and
\* save it: the copy in the request is the row to be saved.
LoadEdit(q, c, to) ==
    /\ channel[c].status # "absent"
    /\ Begin(q, [pc |-> "saveEdit", ch |-> c,
                 row |-> [channel[c] EXCEPT !.status = to]], {})
    /\ UNCHANGED <<rewardsOn, channel, records, tonPay, node, todo, restarts>>
Approve(q, c) == LoadEdit(q, c, "listed")
Reject(q, c) == LoadEdit(q, c, "rejected")
RefreshPreview(q, c) == LoadEdit(q, c, channel[c].status)

SaveEdit(q) ==
    /\ req[q].pc = "saveEdit"
    /\ channel' = [channel EXCEPT ![req[q].ch] = req[q].row]
    /\ Finished(q)
    /\ UNCHANGED <<rewardsOn, records, tonPay, node, disturbed, quiet, todo, restarts>>

-----------------------------------------------------------------------------
(* Opening a payout record *)

\* assertNoBlocking.
NoBlocking(c, force) == force \/ Blocking(c) = {}

\* recordChannelPayout without payoutRecordId, up to the awaits after the check.
RecordPayout(q, c, cur, status, force) ==
    /\ channel[c].status # "absent"
    /\ NoBlocking(c, force)
    /\ RoomForRecord
    /\ status = "paid" /\ cur = "TON" => RoomForPayment
    /\ Begin(q, [pc |-> "saveRecord", ch |-> c, cur |-> cur, status |-> status],
             IF force \/ Opening(c) # {} THEN Doubling ELSE {})
    /\ UNCHANGED <<rewardsOn, channel, records, tonPay, node, todo, restarts>>

\* Where dualWritePaid starts: only TON goes through the reward columns and ton_payments.
DualWrite(c, cur) ==
    [pc |-> IF cur = "TON" THEN "loadReward" ELSE "markPaid", ch |-> c]

SaveRecord(q) ==
    LET r == req[q] IN
    /\ r.pc = "saveRecord"
    /\ records' = Append(records, NewRecord(r.ch, r.cur, r.status, "live", 0))
    /\ Continue(q, IF r.status = "paid" THEN DualWrite(r.ch, r.cur) ELSE Idle)
    /\ UNCHANGED <<rewardsOn, channel, tonPay, node, disturbed, quiet, todo, restarts>>

-----------------------------------------------------------------------------
(* Settling a record *)

CanSettle(i) == records[i].cur = "TON" => RoomForPayment

LoadFinish(q, i, status) ==
    /\ status = "paid" => CanSettle(i)
    /\ Begin(q, [pc |-> "saveFinish", ch |-> records[i].ch, rec |-> i,
                 status |-> status], {})
    /\ UNCHANGED <<rewardsOn, channel, records, tonPay, node, todo, restarts>>

\* recordChannelPayout with payoutRecordId: finishExisting looks at no status.
FinishPayout(q, i, status) == LoadFinish(q, i, status)

\* confirmRecord and failRecord check the status, then await before finishExisting.
AwaitsConfirmation(i) == records[i].status = "sending"
ConfirmRecord(q, i) == AwaitsConfirmation(i) /\ LoadFinish(q, i, "paid")
FailRecord(q, i) == AwaitsConfirmation(i) /\ LoadFinish(q, i, "failed")

\* What settling a record in a status it does not expect does to the ledger.
SettleCause(from, to) ==
    CASE to = "paid" /\ from \in {"failed", "void"} -> Doubling
      [] from = "paid" -> Irregular
      [] OTHER -> {}

SaveFinish(q) ==
    LET r == req[q] IN
    /\ r.pc = "saveFinish"
    /\ SetStatus(r.rec, r.status)
    /\ Mark(r.ch, SettleCause(records[r.rec].status, r.status))
    /\ Continue(q, IF r.status = "paid" THEN DualWrite(r.ch, records[r.rec].cur)
                                        ELSE Idle)
    /\ UNCHANGED <<rewardsOn, channel, tonPay, node, quiet, todo, restarts>>

-----------------------------------------------------------------------------
(* dualWritePaid *)

\* recordReporterReward: findById, then up to eight seconds of fetchTonUsdRate.
LoadReward(q) ==
    LET c == req[q].ch IN
    /\ req[q].pc = "loadReward"
    /\ Continue(q, [pc |-> "saveReward", ch |-> c,
                    row |-> [channel[c] EXCEPT !.rewarded = TRUE]])
    /\ UNCHANGED <<rewardsOn, channel, records, tonPay, node, disturbed, quiet, todo, restarts>>

SaveReward(q) ==
    /\ req[q].pc = "saveReward"
    /\ channel' = [channel EXCEPT ![req[q].ch] = req[q].row]
    /\ Continue(q, [pc |-> "createTon", ch |-> req[q].ch])
    /\ UNCHANGED <<rewardsOn, records, tonPay, node, disturbed, quiet, todo, restarts>>

\* TonPaymentService.create.
CreateTon(q) ==
    /\ req[q].pc = "createTon"
    /\ tonPay' = Append(tonPay, [ch |-> req[q].ch, legacy |-> FALSE, removed |-> FALSE])
    /\ Continue(q, [pc |-> "markPaid", ch |-> req[q].ch])
    /\ UNCHANGED <<rewardsOn, channel, records, node, disturbed, quiet, todo, restarts>>

MarkPaid(q) ==
    /\ req[q].pc = "markPaid"
    /\ channel' = [channel EXCEPT ![req[q].ch].payout = "paid"]
    /\ Finished(q)
    /\ UNCHANGED <<rewardsOn, records, tonPay, node, disturbed, quiet, todo, restarts>>

-----------------------------------------------------------------------------
(* Skipping a payout and voiding a record *)

SkipPayout(q, c, force) ==
    /\ channel[c].status # "absent"
    /\ NoBlocking(c, force)
    /\ Begin(q, [pc |-> "saveSkip", ch |-> c], IF force THEN Irregular ELSE {})
    /\ UNCHANGED <<rewardsOn, channel, records, tonPay, node, todo, restarts>>

SaveSkip(q) ==
    /\ req[q].pc = "saveSkip"
    /\ channel' = [channel EXCEPT ![req[q].ch].payout = "skipped"]
    /\ Finished(q)
    /\ UNCHANGED <<rewardsOn, records, tonPay, node, disturbed, quiet, todo, restarts>>

VoidRecord(q, i) ==
    /\ records[i].status # "void"
    /\ Begin(q, [pc |-> "saveVoid", ch |-> records[i].ch, rec |-> i,
                 wasPaid |-> records[i].status = "paid"], {})
    /\ UNCHANGED <<rewardsOn, channel, records, tonPay, node, todo, restarts>>

SaveVoid(q) ==
    LET r == req[q] IN
    /\ r.pc = "saveVoid"
    /\ SetStatus(r.rec, "void")
    /\ Continue(q, IF r.wasPaid THEN [pc |-> "countPaid", ch |-> r.ch] ELSE Idle)
    /\ UNCHANGED <<rewardsOn, channel, tonPay, node, disturbed, quiet, todo, restarts>>

\* Is another record of the channel still paid?
CountPaid(q) ==
    /\ req[q].pc = "countPaid"
    /\ Continue(q, IF PaidOn(req[q].ch) = {} THEN [pc |-> "reopen", ch |-> req[q].ch]
                                             ELSE Idle)
    /\ UNCHANGED <<rewardsOn, channel, records, tonPay, node, disturbed, quiet, todo, restarts>>

Reopen(q) ==
    /\ req[q].pc = "reopen"
    /\ channel' = [channel EXCEPT ![req[q].ch].payout = "pending"]
    /\ Finished(q)
    /\ UNCHANGED <<rewardsOn, records, tonPay, node, disturbed, quiet, todo, restarts>>

\* TonPaymentService.remove, from the admin list of TON payments.
RemoveTonPayment(t) ==
    /\ node = "up"
    /\ ~tonPay[t].removed
    /\ tonPay' = [tonPay EXCEPT ![t].removed = TRUE]
    /\ quiet' = FALSE
    /\ UNCHANGED <<rewardsOn, channel, records, node, req, disturbed, todo, restarts>>

-----------------------------------------------------------------------------
(* Crash, restart and the start-up backfill (RewardSeedService) *)

\* The process dies, or is replaced by a deploy, and the next one starts its backfill.
Crash ==
    /\ restarts < MaxRestarts
    /\ restarts' = restarts + 1
    /\ node' = "channels"
    /\ todo' = Channels
    /\ req' = [q \in Requests |-> Idle]
    /\ disturbed' = [c \in Channels |->
          disturbed[c] \cup (IF Busy(c) = {} THEN {} ELSE Irregular)]
    /\ UNCHANGED <<rewardsOn, channel, records, tonPay, quiet>>

\* The next item x of the loop that stage runs.
Visit(stage, x) ==
    /\ node = stage
    /\ x \in todo
    /\ todo' = todo \ {x}
    /\ UNCHANGED <<rewardsOn, tonPay, node, req, quiet, restarts>>

Rewritten(c) == Mark(c, IF RecordsOf(c) = {} THEN {} ELSE Irregular)

\* backfillPayoutStatus.
BackfillPayoutStatus(row) ==
    IF row.rewarded THEN "paid"
    ELSE IF ~row.submitted \/ row.status = "rejected" THEN "not_eligible"
    ELSE "pending"

NeedsStatus(c) ==
    /\ channel[c].status # "absent"
    /\ channel[c].payout # "skipped"
    /\ channel[c].payout # BackfillPayoutStatus(channel[c])

BackfillChannel(c) ==
    /\ Visit("channels", c)
    /\ IF NeedsStatus(c)
       THEN /\ channel' = [channel EXCEPT ![c].payout = BackfillPayoutStatus(channel[c])]
            /\ Rewritten(c)
       ELSE UNCHANGED <<channel, disturbed>>
    /\ UNCHANGED records

\* shouldCopyTonPayment: no record cites the row.  (The unique index on the citation backs
\* it: a second insert would stop the start-up with an error.)
ShouldCopyTonPayment(t) == \A i \in DOMAIN records : records[i].ton # t

CopyTonPayment(t) ==
    /\ Visit("payments", t)
    /\ IF ~tonPay[t].removed /\ ShouldCopyTonPayment(t)
       THEN /\ records' = Append(records,
                  NewRecord(tonPay[t].ch, "TON", "paid", "ton_payment", t))
            /\ Rewritten(tonPay[t].ch)
       ELSE UNCHANGED <<records, disturbed>>
    /\ UNCHANGED channel

\* shouldGapFillRewardChannel: the channel has no record at all.
ShouldGapFillRewardChannel(c) == RecordsOf(c) = {}

GapFill(c) ==
    /\ Visit("rewards", c)
    /\ records' = IF channel[c].rewarded /\ ShouldGapFillRewardChannel(c)
                  THEN Append(records, NewRecord(c, "TON", "paid", "channel_reward", 0))
                  ELSE records
    /\ UNCHANGED <<channel, disturbed>>

\* Each loop ends before the next one starts; after the last the server listens.
NextStage ==
    /\ todo = {}
    /\ \/ node = "channels" /\ node' = "payments" /\ todo' = DOMAIN tonPay /\ UNCHANGED quiet
       \/ node = "payments" /\ node' = "rewards" /\ todo' = Channels /\ UNCHANGED quiet
       \/ node = "rewards" /\ node' = "up" /\ quiet' = TRUE /\ UNCHANGED todo
    /\ UNCHANGED <<rewardsOn, channel, records, tonPay, req, disturbed, restarts>>

Backfill ==
    \/ \E c \in Channels : BackfillChannel(c) \/ GapFill(c)
    \/ \E t \in DOMAIN tonPay : CopyTonPayment(t)
    \/ NextStage

-----------------------------------------------------------------------------
\* The first start on a database older than the ledger: channels rewarded before it, with
\* or without their ton_payments row, no record, and every payout status at the default of
\* the column just added.  (The migration of a deployed server runs this same backfill
\* once itself, so there the first run is already a second one.)
LegacyChannel == [status |-> "listed", payout |-> "not_eligible",
                  submitted |-> TRUE, rewarded |-> TRUE]
LegacyPayment == [ch : Channels, legacy : {TRUE}, removed : {FALSE}]

Init ==
    /\ rewardsOn = TRUE
    /\ channel \in [Channels -> {NoChannel, LegacyChannel}]
    /\ \E n \in 0..MaxLegacy : tonPay \in [1..n -> LegacyPayment]
    /\ \A t \in DOMAIN tonPay : channel[tonPay[t].ch].rewarded
    /\ records = <<>>
    /\ node = "channels"
    /\ todo = Channels
    /\ req = [q \in Requests |-> Idle]
    /\ disturbed = [c \in Channels |-> {}]
    /\ quiet = FALSE
    /\ restarts = 0

Arrive(q) ==
    \/ \E c \in Channels :
          \/ Approve(q, c) \/ Reject(q, c) \/ RefreshPreview(q, c)
          \/ \E force \in ForceChoices :
                \/ SkipPayout(q, c, force)
                \/ \E cur \in Currencies, status \in {"sending", "paid"} :
                      RecordPayout(q, c, cur, status, force)
    \/ \E i \in DOMAIN records :
          \/ ConfirmRecord(q, i) \/ FailRecord(q, i) \/ VoidRecord(q, i)
          \/ \E status \in {"paid", "failed"} : FinishPayout(q, i, status)

Proceed(q) ==
    \/ SaveEdit(q) \/ SaveRecord(q) \/ SaveFinish(q)
    \/ LoadReward(q) \/ SaveReward(q) \/ CreateTon(q) \/ MarkPaid(q)
    \/ SaveSkip(q) \/ SaveVoid(q) \/ CountPaid(q) \/ Reopen(q)

Next ==
    \/ \E c \in Channels : Submit(c) \/ ClearSubmitter(c)
    \/ SetEnabled
    \/ \E q \in Requests : Arrive(q) \/ Proceed(q)
    \/ \E t \in DOMAIN tonPay : RemoveTonPayment(t)
    \/ Crash
    \/ Backfill

Spec == Init /\ [][Next]_vars

-----------------------------------------------------------------------------
(* Properties *)

\* A request that settles or voids a record names one of its own channel.
OwnRecord(q) ==
    req[q].pc \in {"saveFinish", "saveVoid"} => req[q].rec \in RecordsOf(req[q].ch)

\* Every variable keeps its shape, the boot loops visit what their tables hold, and a
\* request never points at a record of another channel.
TypeOK ==
    /\ rewardsOn \in BOOLEAN
    /\ channel \in [Channels -> ChannelRow]
    /\ records \in Seq(PayoutRecord)
    /\ tonPay \in Seq(TonPayment)
    /\ node \in {"channels", "payments", "rewards", "up"}
    /\ node = "payments" => todo \subseteq DOMAIN tonPay
    /\ node \in {"channels", "rewards"} => todo \subseteq Channels
    /\ node = "up" => todo = {}
    /\ req \in [Requests -> Request]
    /\ disturbed \in [Channels -> SUBSET Doubling]
    /\ quiet \in BOOLEAN
    /\ restarts \in 0..MaxRestarts
    /\ \A q \in Requests : OwnRecord(q)

\* A channel has at most one payout record of a request that is sending or paid, whatever
\* requests, crashes and restarts interleave, unless an admin forced a second one, two
\* payout requests passed the check together, or a closed record was settled as paid.
\* (The 409 of assertNoBlocking; what can get past it.)
NoDoublePayout ==
    \A c \in Channels : "doubling" \notin disturbed[c] =>
        \A i, j \in LiveBlocking(c) : i = j

\* Its inductive form: while a payout request is between check and save, the channel has
\* no other such request and nothing blocking.
OneAtATime(c) ==
    "doubling" \notin disturbed[c] =>
        /\ \A i, j \in LiveBlocking(c) : i = j
        /\ \A q \in Opening(c) : LiveBlocking(c) = {} /\ Opening(c) = {q}
OpeningAlone == \A c \in Channels : OneAtATime(c)

Settled(c) == node = "up" /\ Busy(c) = {} /\ disturbed[c] = {}

\* When the requests of a channel came one after the other and none was forced, cut
\* short or out of protocol, the channel says paid exactly when its ledger holds a paid
\* record: dualWritePaid, skipPayout and voidRecord leave the two tables in step.
StatusMatchesLedger ==
    \A c \in Channels : Settled(c) =>
        (channel[c].payout = "paid" <=> PaidOn(c) # {})

\* Under the same conditions each TON record that was ever paid wrote one ton_payments
\* row and no other did, and the reward columns are set if there was one.
DualWriteExactlyOnce ==
    \A c \in Channels : Settled(c) =>
        LET paidTon == {i \in RecordsOf(c) : /\ records[i].source = "live"
                                             /\ records[i].cur = "TON"
                                             /\ records[i].everPaid}
            written == {t \in DOMAIN tonPay : tonPay[t].ch = c /\ ~tonPay[t].legacy}
        IN  /\ Cardinality(paidTon) = Cardinality(written)
            /\ paidTon # {} => channel[c].rewarded

\* However often the process dies in the middle of the backfill and starts it again, a
\* ton_payments row is copied into the ledger at most once.
OneCopyPerTonPayment ==
    \A i, j \in DOMAIN records :
        records[i].ton # 0 /\ records[i].ton = records[j].ton => i = j

\* A complete backfill leaves nothing out: every payment is cited by a record, every
\* rewarded channel has one, every status that is not skipped is the derived one.
BackfillCompletes ==
    quiet =>
        /\ \A t \in DOMAIN tonPay : tonPay[t].removed
              \/ \E i \in DOMAIN records : records[i].ton = t
        /\ \A c \in Channels :
              /\ channel[c].rewarded => RecordsOf(c) # {}
              /\ channel[c].payout \in {"skipped", BackfillPayoutStatus(channel[c])}

\* Restarting again changes nothing: after a complete backfill with no request since,
\* no later backfill, complete or not, touches a channel or the ledger.
SecondRestartChangesNothing ==
    [][quiet /\ node # "up" => UNCHANGED <<channel, records>>]_vars

-----------------------------------------------------------------------------
(* What the texts of the repository say and the code does not do *)

\* reward-payout.service.spec.ts:54-64: a channel with a payout record gets no second
\* one from a request that does not force it.
NoSecondPayout == \A c \in Channels : \A i, j \in LiveBlocking(c) : i = j

\* reward-seed.service.ts:49: rows that are already filled in are skipped, so running
\* the backfill again does no harm: a channel with a paid record gets no other from it.
RestartAddsNoPayout ==
    [][node # "up" => \A c \in Channels :
          PaidOn(c) # {} => Cardinality(PaidOn(c)') = Cardinality(PaidOn(c))]_vars

\* payout-status.logic.ts:49-52: a submission made while rewards are off stays out of
\* the payouts, whatever happens to the toggle or the server later.
SubmissionDecisionKept ==
    [][\A c \in Channels :
          channel[c].status # "absent" /\ channel[c].payout = "not_eligible"
            => channel'[c].payout # "pending"]_vars
=============================================================================
