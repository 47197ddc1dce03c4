------------------------- MODULE PayoutLedgerProofs -------------------------
(***************************************************************************)
(* What holds of the payout ledger for any number of channels, admin       *)
(* requests, currencies, payments and restarts.  In this order: the shape  *)
(* of the state, one copy of each payment, one payout per channel, the     *)
(* start-up backfill, and the dual write of a payout.                      *)
(***************************************************************************)
EXTENDS PayoutLedger, FiniteSetTheorems, TLAPS

-----------------------------------------------------------------------------
(* Shape *)

\* What a request does before its handler's first await: it takes a free slot.
LEMMA BeginType ==
    ASSUME TypeOK, NEW q \in Requests, NEW r \in Request, NEW why \in SUBSET Doubling,
           r.pc # "idle", r.ch \in Channels,
           r.pc \in {"saveFinish", "saveVoid"} => r.rec \in RecordsOf(r.ch),
           Begin(q, r, why),
           UNCHANGED <<rewardsOn, channel, records, tonPay, node, todo, restarts>>
    PROVE  TypeOK'
  <1>1. req' \in [Requests -> Request]
    BY DEF TypeOK, Begin
  <1>2. disturbed' \in [Channels -> SUBSET Doubling]
    BY DEF TypeOK, Begin, Mark, Irregular, Doubling
  <1>3. ASSUME NEW p \in Requests PROVE OwnRecord(p)'
    <2>1. CASE p = q
      <3>1. req'[p] = r
        BY <2>1 DEF TypeOK, Begin
      <3> QED
        BY <3>1 DEF OwnRecord, RecordsOf
    <2>2. CASE p # q
      <3>1. req'[p] = req[p] /\ OwnRecord(p)
        BY <2>2 DEF TypeOK, Begin
      <3> QED
        BY <3>1 DEF OwnRecord, RecordsOf
    <2> QED
      BY <2>1, <2>2
  <1>4. quiet' \in BOOLEAN
    BY DEF Begin
  <1> QED
    BY <1>1, <1>2, <1>3, <1>4 DEF TypeOK

\* A request that goes on to r, or ends, and leaves the records alone.
LEMMA ContinueType ==
    ASSUME TypeOK, NEW q \in Requests, NEW r \in Request,
           r.pc \notin {"saveFinish", "saveVoid"}, Continue(q, r),
           \A c \in Channels : RecordsOf(c) \subseteq RecordsOf(c)'
    PROVE  req' \in [Requests -> Request] /\ \A p \in Requests : OwnRecord(p)'
  <1>1. req' \in [Requests -> Request]
    BY DEF TypeOK, Continue
  <1>2. ASSUME NEW p \in Requests PROVE OwnRecord(p)'
    <2>1. CASE p = q
      BY <2>1 DEF TypeOK, Continue, OwnRecord
    <2>2. CASE p # q
      <3>1. req'[p] = req[p] /\ OwnRecord(p)
        BY <2>2 DEF TypeOK, Continue
      <3>2. req[p].pc \in {"saveFinish", "saveVoid"} => req[p].ch \in Channels
        BY DEF TypeOK, Request
      <3> QED
        BY <3>1, <3>2 DEF OwnRecord
    <2> QED
      BY <2>1, <2>2
  <1> QED
    BY <1>1, <1>2

LEMMA IdleRequest == Idle \in Request /\ Idle.pc \notin {"saveFinish", "saveVoid"}
  BY DEF Idle, Request

LEMMA LoadEditType ==
    ASSUME TypeOK, NEW q \in Requests, NEW c \in Channels, NEW to \in ChannelStatuses,
           LoadEdit(q, c, to)
    PROVE  TypeOK'
  <1> DEFINE row == [channel[c] EXCEPT !.status = to]
             r == [pc |-> "saveEdit", ch |-> c, row |-> row]
  <1>1. row \in ChannelRow
    BY DEF TypeOK, ChannelRow
  <1>2. r \in Request
    BY <1>1 DEF Request
  <1>3. {} \in SUBSET Doubling
    OBVIOUS
  <1> QED
    BY <1>2, <1>3, BeginType DEF LoadEdit

LEMMA RecordShape ==
    ASSUME TypeOK, NEW i \in DOMAIN records
    PROVE  /\ i \in 1..Len(records)
           /\ records[i] \in PayoutRecord
           /\ records[i].ch \in Channels
           /\ i \in RecordsOf(records[i].ch)
  <1>1. i \in 1..Len(records) /\ records[i] \in PayoutRecord
    BY DEF TypeOK
  <1> QED
    BY <1>1 DEF PayoutRecord, RecordsOf

LEMMA LoadFinishType ==
    ASSUME TypeOK, NEW q \in Requests, NEW i \in DOMAIN records,
           NEW status \in {"paid", "failed"}, LoadFinish(q, i, status)
    PROVE  TypeOK'
  <1> DEFINE r == [pc |-> "saveFinish", ch |-> records[i].ch, rec |-> i, status |-> status]
  <1>1. records[i].ch \in Channels /\ i \in Nat /\ i \in RecordsOf(records[i].ch)
    BY RecordShape
  <1>2. r \in Request
    BY <1>1 DEF Request
  <1>3. {} \in SUBSET Doubling
    OBVIOUS
  <1> QED
    BY <1>1, <1>2, <1>3, BeginType DEF LoadFinish

LEMMA LoadVoidType ==
    ASSUME TypeOK, NEW q \in Requests, NEW i \in DOMAIN records, VoidRecord(q, i)
    PROVE  TypeOK'
  <1> DEFINE r == [pc |-> "saveVoid", ch |-> records[i].ch, rec |-> i,
                   wasPaid |-> records[i].status = "paid"]
  <1>1. records[i].ch \in Channels /\ i \in Nat /\ i \in RecordsOf(records[i].ch)
    BY RecordShape
  <1>2. r \in Request
    BY <1>1 DEF Request
  <1>3. {} \in SUBSET Doubling
    OBVIOUS
  <1> QED
    BY <1>1, <1>2, <1>3, BeginType DEF VoidRecord

LEMMA RecordPayoutType ==
    ASSUME TypeOK, NEW q \in Requests, NEW c \in Channels, NEW cur \in Currencies,
           NEW status \in {"sending", "paid"}, NEW force \in BOOLEAN,
           RecordPayout(q, c, cur, status, force)
    PROVE  TypeOK'
  <1> DEFINE r == [pc |-> "saveRecord", ch |-> c, cur |-> cur, status |-> status]
             why == IF force \/ Opening(c) # {} THEN Doubling ELSE {}
  <1>1. r \in Request
    BY DEF Request
  <1>2. why \in SUBSET Doubling
    OBVIOUS
  <1>3. Begin(q, r, why) /\ UNCHANGED <<rewardsOn, channel, records, tonPay, node, todo, restarts>>
    BY DEF RecordPayout
  <1> HIDE DEF why
  <1> QED
    BY <1>1, <1>2, <1>3, BeginType

LEMMA SkipPayoutType ==
    ASSUME TypeOK, NEW q \in Requests, NEW c \in Channels, NEW force \in BOOLEAN,
           SkipPayout(q, c, force)
    PROVE  TypeOK'
  <1> DEFINE r == [pc |-> "saveSkip", ch |-> c]
             why == IF force THEN Irregular ELSE {}
  <1>1. r \in Request
    BY DEF Request
  <1>2. why \in SUBSET Doubling
    BY DEF Irregular, Doubling
  <1>3. Begin(q, r, why) /\ UNCHANGED <<rewardsOn, channel, records, tonPay, node, todo, restarts>>
    BY DEF SkipPayout
  <1> HIDE DEF why
  <1> QED
    BY <1>1, <1>2, <1>3, BeginType

-----------------------------------------------------------------------------
(* The ledger grows at its end and keeps each record on its channel *)

LEMMA AppendRecord ==
    ASSUME TypeOK, NEW r \in PayoutRecord, records' = Append(records, r)
    PROVE  /\ records' \in Seq(PayoutRecord)
           /\ DOMAIN records' = DOMAIN records \cup {Len(records) + 1}
           /\ \A i \in DOMAIN records : records'[i] = records[i]
           /\ records'[Len(records) + 1] = r
           /\ \A c \in Channels : RecordsOf(c) \subseteq RecordsOf(c)'
  <1>1. records \in Seq(PayoutRecord)
    BY DEF TypeOK
  <1>2. /\ records' \in Seq(PayoutRecord)
        /\ DOMAIN records' = DOMAIN records \cup {Len(records) + 1}
        /\ \A i \in DOMAIN records : records'[i] = records[i]
        /\ records'[Len(records) + 1] = r
    BY <1>1
  <1> QED
    BY <1>2 DEF RecordsOf

LEMMA UpdateRecord ==
    ASSUME TypeOK, NEW i \in DOMAIN records, NEW status \in RecordStatuses,
           SetStatus(i, status)
    PROVE  /\ records' \in Seq(PayoutRecord)
           /\ DOMAIN records' = DOMAIN records
           /\ records'[i] = WithStatus(records[i], status)
           /\ \A j \in DOMAIN records : j # i => records'[j] = records[j]
           /\ \A c \in Channels : RecordsOf(c)' = RecordsOf(c)
  <1> DEFINE new == WithStatus(records[i], status)
  <1>1. records \in Seq(PayoutRecord) /\ i \in 1..Len(records)
    BY DEF TypeOK
  <1>2. new \in PayoutRecord /\ new.ch = records[i].ch
    BY RecordShape DEF PayoutRecord, WithStatus
  <1>3. records' = [records EXCEPT ![i] = new]
    BY DEF SetStatus
  <1> HIDE DEF new
  <1>4. /\ records' \in Seq(PayoutRecord)
        /\ DOMAIN records' = DOMAIN records
        /\ records'[i] = new
        /\ \A j \in DOMAIN records : j # i => records'[j] = records[j]
    BY <1>1, <1>2, <1>3
  <1>5. \A c \in Channels : RecordsOf(c)' = RecordsOf(c)
    BY <1>2, <1>4 DEF RecordsOf
  <1> QED
    BY <1>4, <1>5 DEF new

-----------------------------------------------------------------------------
(* Type correctness *)

\* The steps after an await that write a channel row and nothing else.
LEMMA ChannelStepType ==
    ASSUME TypeOK, NEW q \in Requests,
           SaveEdit(q) \/ SaveReward(q) \/ MarkPaid(q) \/ SaveSkip(q) \/ Reopen(q)
    PROVE  TypeOK'
  <1> DEFINE c == req[q].ch
  <1>1. req[q] \in Request /\ req[q].pc # "idle"
    BY DEF TypeOK, SaveEdit, SaveReward, MarkPaid, SaveSkip, Reopen
  <1>2. c \in Channels
    BY <1>1 DEF Request
  <1>3. \A d \in Channels : RecordsOf(d) \subseteq RecordsOf(d)'
    BY DEF RecordsOf, SaveEdit, SaveReward, MarkPaid, SaveSkip, Reopen
  <1>4. \E r \in Request : r.pc \notin {"saveFinish", "saveVoid"} /\ Continue(q, r)
    <2>1. [pc |-> "createTon", ch |-> c] \in Request
      BY <1>2 DEF Request, SettlePc
    <2> QED
      BY <2>1, IdleRequest
         DEF Finished, SaveEdit, SaveReward, MarkPaid, SaveSkip, Reopen
  <1>5. req' \in [Requests -> Request] /\ \A p \in Requests : OwnRecord(p)'
    BY <1>3, <1>4, ContinueType
  <1>6. channel' \in [Channels -> ChannelRow]
    <2>1. req[q].pc \in {"saveEdit", "saveReward"} => req[q].row \in ChannelRow
      BY <1>1 DEF Request, SettlePc
    <2>2. \A s \in PayoutStatuses : [channel[c] EXCEPT !.payout = s] \in ChannelRow
      BY <1>2 DEF TypeOK, ChannelRow
    <2> QED
      BY <1>2, <2>1, <2>2
         DEF TypeOK, SaveEdit, SaveReward, MarkPaid, SaveSkip, Reopen, PayoutStatuses
  <1>7. UNCHANGED <<rewardsOn, records, tonPay, node, disturbed, quiet, todo, restarts>>
    BY DEF SaveEdit, SaveReward, MarkPaid, SaveSkip, Reopen
  <1> QED
    BY <1>5, <1>6, <1>7 DEF TypeOK

LEMMA SaveRecordType ==
    ASSUME TypeOK, NEW q \in Requests, SaveRecord(q)
    PROVE  TypeOK'
  <1> DEFINE r == req[q]
             row == NewRecord(r.ch, r.cur, r.status, "live", 0)
             next == IF r.status = "paid" THEN DualWrite(r.ch, r.cur) ELSE Idle
  <1>1. /\ r.pc = "saveRecord" /\ records' = Append(records, row) /\ Continue(q, next)
        /\ UNCHANGED <<rewardsOn, channel, tonPay, node, disturbed, quiet, todo, restarts>>
    BY DEF SaveRecord
  <1>2. r \in Request
    BY DEF TypeOK
  <1>3. r.ch \in Channels /\ r.cur \in Currencies /\ r.status \in {"sending", "paid"}
    BY <1>1, <1>2 DEF Request, SettlePc
  <1>4. row \in PayoutRecord
    BY <1>3 DEF PayoutRecord, NewRecord, RecordStatuses
  <1>5. next \in Request /\ next.pc \notin {"saveFinish", "saveVoid"}
    BY <1>3, IdleRequest DEF DualWrite, Request, SettlePc
  <1> HIDE DEF r, row, next
  <1>6. records' \in Seq(PayoutRecord) /\ \A c \in Channels : RecordsOf(c) \subseteq RecordsOf(c)'
    BY <1>1, <1>4, AppendRecord
  <1>7. req' \in [Requests -> Request] /\ \A p \in Requests : OwnRecord(p)'
    BY <1>1, <1>5, <1>6, ContinueType
  <1> QED
    BY <1>1, <1>6, <1>7 DEF TypeOK

LEMMA SaveFinishType ==
    ASSUME TypeOK, NEW q \in Requests, SaveFinish(q)
    PROVE  TypeOK'
  <1> DEFINE r == req[q]
             next == IF r.status = "paid" THEN DualWrite(r.ch, records[r.rec].cur) ELSE Idle
             why == SettleCause(records[r.rec].status, r.status)
  <1>1. /\ r.pc = "saveFinish" /\ SetStatus(r.rec, r.status) /\ Continue(q, next)
        /\ Mark(r.ch, why)
        /\ UNCHANGED <<rewardsOn, channel, tonPay, node, quiet, todo, restarts>>
    BY DEF SaveFinish
  <1>2. r \in Request /\ OwnRecord(q)
    BY DEF TypeOK
  <1>3. r.ch \in Channels /\ r.status \in {"paid", "failed"} /\ r.rec \in DOMAIN records
    BY <1>1, <1>2 DEF Request, SettlePc, OwnRecord, RecordsOf
  <1>4. next \in Request /\ next.pc \notin {"saveFinish", "saveVoid"}
    BY <1>3, IdleRequest DEF DualWrite, Request, SettlePc
  <1>5. why \in SUBSET Doubling
    BY <1>3 DEF SettleCause, Doubling, Irregular
  <1> HIDE DEF r, next, why
  <1>6. /\ records' \in Seq(PayoutRecord)
        /\ \A c \in Channels : RecordsOf(c) \subseteq RecordsOf(c)'
    BY <1>1, <1>3, UpdateRecord DEF RecordStatuses
  <1>7. req' \in [Requests -> Request] /\ \A p \in Requests : OwnRecord(p)'
    BY <1>1, <1>4, <1>6, ContinueType
  <1>8. disturbed' \in [Channels -> SUBSET Doubling]
    BY <1>1, <1>3, <1>5 DEF TypeOK, Mark
  <1> QED
    BY <1>1, <1>6, <1>7, <1>8 DEF TypeOK

LEMMA SaveVoidType ==
    ASSUME TypeOK, NEW q \in Requests, SaveVoid(q)
    PROVE  TypeOK'
  <1> DEFINE r == req[q]
             next == IF r.wasPaid THEN [pc |-> "countPaid", ch |-> r.ch] ELSE Idle
  <1>1. /\ r.pc = "saveVoid" /\ SetStatus(r.rec, "void") /\ Continue(q, next)
        /\ UNCHANGED <<rewardsOn, channel, tonPay, node, disturbed, quiet, todo, restarts>>
    BY DEF SaveVoid
  <1>2. r \in Request /\ OwnRecord(q)
    BY DEF TypeOK
  <1>3. r.ch \in Channels /\ r.rec \in DOMAIN records
    BY <1>1, <1>2 DEF Request, SettlePc, OwnRecord, RecordsOf
  <1>4. next \in Request /\ next.pc \notin {"saveFinish", "saveVoid"}
    BY <1>3, IdleRequest DEF Request, SettlePc
  <1> HIDE DEF r, next
  <1>6. /\ records' \in Seq(PayoutRecord)
        /\ \A c \in Channels : RecordsOf(c) \subseteq RecordsOf(c)'
    BY <1>1, <1>3, UpdateRecord DEF RecordStatuses
  <1>7. req' \in [Requests -> Request] /\ \A p \in Requests : OwnRecord(p)'
    BY <1>1, <1>4, <1>6, ContinueType
  <1> QED
    BY <1>1, <1>6, <1>7 DEF TypeOK

\* The other steps of a request, which change no row but a new ton_payments one.
LEMMA OtherStepType ==
    ASSUME TypeOK, NEW q \in Requests, LoadReward(q) \/ CreateTon(q) \/ CountPaid(q)
    PROVE  TypeOK'
  <1> DEFINE c == req[q].ch
             row == [channel[c] EXCEPT !.rewarded = TRUE]
             new == [ch |-> c, legacy |-> FALSE, removed |-> FALSE]
  <1>1. req[q] \in Request /\ req[q].pc \in {"loadReward", "createTon", "countPaid"}
    BY DEF TypeOK, LoadReward, CreateTon, CountPaid
  <1>2. c \in Channels
    BY <1>1 DEF Request
  <1>3. \A d \in Channels : RecordsOf(d) \subseteq RecordsOf(d)'
    BY DEF RecordsOf, LoadReward, CreateTon, CountPaid
  <1>4. \E r \in Request : r.pc \notin {"saveFinish", "saveVoid"} /\ Continue(q, r)
    <2>1. row \in ChannelRow
      BY <1>2 DEF TypeOK, ChannelRow
    <2>2. /\ [pc |-> "saveReward", ch |-> c, row |-> row] \in Request
          /\ [pc |-> "markPaid", ch |-> c] \in Request
          /\ [pc |-> "reopen", ch |-> c] \in Request
      BY <1>2, <2>1 DEF Request, SettlePc
    <2> QED
      BY <2>2, IdleRequest DEF LoadReward, CreateTon, CountPaid
  <1>5. req' \in [Requests -> Request] /\ \A p \in Requests : OwnRecord(p)'
    BY <1>3, <1>4, ContinueType
  <1>6. tonPay' \in Seq(TonPayment) /\ DOMAIN tonPay \subseteq DOMAIN tonPay'
    <2>1. new \in TonPayment
      BY <1>2 DEF TonPayment
    <2>2. tonPay \in Seq(TonPayment) /\ tonPay' \in {tonPay, Append(tonPay, new)}
      BY DEF TypeOK, LoadReward, CreateTon, CountPaid
    <2> QED
      BY <2>1, <2>2
  <1>7. UNCHANGED <<rewardsOn, channel, records, node, disturbed, quiet, todo, restarts>>
    BY DEF LoadReward, CreateTon, CountPaid
  <1> QED
    BY <1>5, <1>6, <1>7 DEF TypeOK

LEMMA OwnRecordKept ==
    ASSUME TypeOK, UNCHANGED req, \A c \in Channels : RecordsOf(c) \subseteq RecordsOf(c)'
    PROVE  \A p \in Requests : OwnRecord(p)'
  <1> SUFFICES ASSUME NEW p \in Requests PROVE OwnRecord(p)'
    OBVIOUS
  <1>1. req[p] \in Request /\ OwnRecord(p) /\ req'[p] = req[p]
    BY DEF TypeOK
  <1>2. req[p].pc \in {"saveFinish", "saveVoid"} => req[p].ch \in Channels
    BY <1>1 DEF Request, SettlePc
  <1> QED
    BY <1>1, <1>2 DEF OwnRecord

LEMMA TableStepType ==
    ASSUME TypeOK,
           \/ SetEnabled
           \/ \E c \in Channels : Submit(c) \/ ClearSubmitter(c)
           \/ \E t \in DOMAIN tonPay : RemoveTonPayment(t)
    PROVE  TypeOK'
  <1>1. /\ UNCHANGED <<records, node, req, disturbed, todo, restarts>>
        /\ rewardsOn' \in BOOLEAN /\ quiet' \in BOOLEAN
    BY DEF TypeOK, SetEnabled, Submit, ClearSubmitter, RemoveTonPayment
  <1>2. channel' \in [Channels -> ChannelRow]
    <2>1. ASSUME NEW c \in Channels, Submit(c) PROVE channel' \in [Channels -> ChannelRow]
      <3> DEFINE row == [status |-> "listed", payout |-> PayoutStatusForSubmission(rewardsOn),
                         submitted |-> TRUE, rewarded |-> FALSE]
      <3>1. row \in ChannelRow
        BY DEF ChannelRow, ChannelStatuses, PayoutStatuses, PayoutStatusForSubmission
      <3>2. channel' = [channel EXCEPT ![c] = row]
        BY <2>1 DEF Submit
      <3> HIDE DEF row
      <3> QED
        BY <3>1, <3>2 DEF TypeOK
    <2>2. ASSUME NEW c \in Channels, ClearSubmitter(c)
          PROVE channel' \in [Channels -> ChannelRow]
      BY <2>2 DEF TypeOK, ClearSubmitter, ChannelRow
    <2>3. CASE UNCHANGED channel
      BY <2>3 DEF TypeOK
    <2> QED
      BY <2>1, <2>2, <2>3 DEF SetEnabled, RemoveTonPayment
  <1>3. tonPay' \in Seq(TonPayment) /\ DOMAIN tonPay' = DOMAIN tonPay
    <2>1. CASE \E t \in DOMAIN tonPay : RemoveTonPayment(t)
      <3>1. PICK t \in DOMAIN tonPay : RemoveTonPayment(t)
        BY <2>1
      <3>2. tonPay \in Seq(TonPayment) /\ t \in 1..Len(tonPay) /\ tonPay[t] \in TonPayment
        BY DEF TypeOK
      <3> DEFINE new == [tonPay[t] EXCEPT !.removed = TRUE]
      <3>3. new \in TonPayment
        BY <3>2 DEF TonPayment
      <3>4. tonPay' = [tonPay EXCEPT ![t] = new]
        BY <3>1 DEF RemoveTonPayment
      <3> HIDE DEF new
      <3> QED
        BY <3>2, <3>3, <3>4
    <2>2. CASE UNCHANGED tonPay
      BY <2>2 DEF TypeOK
    <2> QED
      BY <2>1, <2>2 DEF SetEnabled, Submit, ClearSubmitter
  <1>4. \A p \in Requests : OwnRecord(p)'
    BY <1>1, OwnRecordKept DEF RecordsOf
  <1> QED
    BY <1>1, <1>2, <1>3, <1>4 DEF TypeOK

LEMMA CrashType ==
    ASSUME TypeOK, Crash
    PROVE  TypeOK'
  <1>1. /\ node' = "channels" /\ todo' = Channels /\ restarts' \in 0..MaxRestarts
        /\ UNCHANGED <<rewardsOn, channel, records, tonPay, quiet>>
    BY LedgerAssumption DEF TypeOK, Crash
  <1>2. disturbed' \in [Channels -> SUBSET Doubling]
    BY DEF TypeOK, Crash, Irregular, Doubling
  <1>3. req' \in [Requests -> Request] /\ \A p \in Requests : OwnRecord(p)'
    BY IdleRequest DEF Crash, OwnRecord
  <1> QED
    BY <1>1, <1>2, <1>3 DEF TypeOK

LEMMA RewrittenType ==
    ASSUME TypeOK, NEW c \in Channels, Rewritten(c)
    PROVE  disturbed' \in [Channels -> SUBSET Doubling]
  BY DEF TypeOK, Rewritten, Mark, Irregular, Doubling

LEMMA BackfillType ==
    ASSUME TypeOK, Backfill
    PROVE  TypeOK'
  <1>1. ASSUME NEW c \in Channels, BackfillChannel(c) PROVE TypeOK'
    <2>1. /\ node = "channels" /\ todo' \subseteq todo
          /\ UNCHANGED <<rewardsOn, records, tonPay, node, req, quiet, restarts>>
      BY <1>1 DEF BackfillChannel, Visit
    <2>2. channel' \in [Channels -> ChannelRow]
      BY <1>1 DEF TypeOK, BackfillChannel, BackfillPayoutStatus, ChannelRow, PayoutStatuses
    <2>3. disturbed' \in [Channels -> SUBSET Doubling]
      BY <1>1, RewrittenType DEF TypeOK, BackfillChannel
    <2>4. \A p \in Requests : OwnRecord(p)'
      BY <2>1, OwnRecordKept DEF RecordsOf
    <2> QED
      BY <2>1, <2>2, <2>3, <2>4 DEF TypeOK
  <1>2. ASSUME NEW t \in DOMAIN tonPay, CopyTonPayment(t) PROVE TypeOK'
    <2> DEFINE c == tonPay[t].ch
               row == NewRecord(c, "TON", "paid", "ton_payment", t)
    <2>1. /\ node = "payments" /\ todo' \subseteq todo
          /\ UNCHANGED <<rewardsOn, channel, tonPay, node, req, quiet, restarts>>
      BY <1>2 DEF CopyTonPayment, Visit
    <2>2. t \in Nat /\ tonPay[t] \in TonPayment
      BY DEF TypeOK
    <2>3. c \in Channels /\ row \in PayoutRecord
      BY <2>2 DEF TonPayment, PayoutRecord, NewRecord, RecordStatuses
    <2>4. disturbed' \in [Channels -> SUBSET Doubling]
      BY <1>2, <2>3, RewrittenType DEF TypeOK, CopyTonPayment
    <2>5. \/ records' = Append(records, row)
          \/ records' = records
      BY <1>2 DEF CopyTonPayment
    <2> HIDE DEF row
    <2>6. /\ records' \in Seq(PayoutRecord)
          /\ \A d \in Channels : RecordsOf(d) \subseteq RecordsOf(d)'
      BY <2>3, <2>5, AppendRecord DEF TypeOK, RecordsOf
    <2>7. \A p \in Requests : OwnRecord(p)'
      BY <2>1, <2>6, OwnRecordKept
    <2> QED
      BY <2>1, <2>4, <2>6, <2>7 DEF TypeOK
  <1>3. ASSUME NEW c \in Channels, GapFill(c) PROVE TypeOK'
    <2> DEFINE row == NewRecord(c, "TON", "paid", "channel_reward", 0)
    <2>1. /\ node = "rewards" /\ todo' \subseteq todo
          /\ UNCHANGED <<rewardsOn, channel, tonPay, node, req, disturbed, quiet, restarts>>
      BY <1>3 DEF GapFill, Visit
    <2>2. row \in PayoutRecord
      BY DEF PayoutRecord, NewRecord, RecordStatuses
    <2>3. records' = Append(records, row) \/ records' = records
      BY <1>3 DEF GapFill
    <2> HIDE DEF row
    <2>4. /\ records' \in Seq(PayoutRecord)
          /\ \A d \in Channels : RecordsOf(d) \subseteq RecordsOf(d)'
      BY <2>2, <2>3, AppendRecord DEF TypeOK, RecordsOf
    <2>5. \A p \in Requests : OwnRecord(p)'
      BY <2>1, <2>4, OwnRecordKept
    <2> QED
      BY <2>1, <2>4, <2>5 DEF TypeOK
  <1>4. ASSUME NextStage PROVE TypeOK'
    <2>1. \A p \in Requests : OwnRecord(p)'
      BY <1>4, OwnRecordKept DEF NextStage, RecordsOf
    <2> QED
      BY <1>4, <2>1 DEF TypeOK, NextStage
  <1> QED
    BY <1>1, <1>2, <1>3, <1>4 DEF Backfill

LEMMA ArriveType ==
    ASSUME TypeOK, NEW q \in Requests, Arrive(q)
    PROVE  TypeOK'
  <1>1. CASE \E c \in Channels : Approve(q, c) \/ Reject(q, c) \/ RefreshPreview(q, c)
    <2>1. /\ {"listed", "rejected"} \subseteq ChannelStatuses
          /\ \A c \in Channels : channel[c].status \in ChannelStatuses
      BY DEF TypeOK, ChannelRow, ChannelStatuses
    <2> QED
      BY <1>1, <2>1, LoadEditType DEF Approve, Reject, RefreshPreview
  <1>2. CASE \E c \in Channels, force \in ForceChoices : SkipPayout(q, c, force)
    BY <1>2, SkipPayoutType, LedgerAssumption
  <1>3. CASE \E c \in Channels, force \in ForceChoices, cur \in Currencies,
               status \in {"sending", "paid"} : RecordPayout(q, c, cur, status, force)
    BY <1>3, RecordPayoutType, LedgerAssumption
  <1>4. CASE \E i \in DOMAIN records : VoidRecord(q, i)
    BY <1>4, LoadVoidType
  <1>5. CASE \E i \in DOMAIN records, status \in {"paid", "failed"} :
               LoadFinish(q, i, status)
    BY <1>5, LoadFinishType
  <1> QED
    BY <1>1, <1>2, <1>3, <1>4, <1>5
       DEF Arrive, ConfirmRecord, FailRecord, FinishPayout

LEMMA ProceedType ==
    ASSUME TypeOK, NEW q \in Requests, Proceed(q)
    PROVE  TypeOK'
  BY ChannelStepType, SaveRecordType, SaveFinishType, SaveVoidType, OtherStepType
     DEF Proceed

LEMMA InitType == Init => TypeOK
  <1> SUFFICES ASSUME Init PROVE TypeOK
    OBVIOUS
  <1>1. tonPay \in Seq(TonPayment)
    <2>1. PICK n \in 0..MaxLegacy : tonPay \in [1..n -> LegacyPayment]
      BY DEF Init
    <2>2. \A x \in LegacyPayment : x \in TonPayment
      BY DEF LegacyPayment, TonPayment
    <2>3. n \in Nat /\ tonPay \in [1..n -> TonPayment]
      BY <2>1, <2>2, LedgerAssumption
    <2> QED
      BY <2>3
  <1>2. channel \in [Channels -> ChannelRow]
    <2>1. NoChannel \in ChannelRow /\ LegacyChannel \in ChannelRow
      BY DEF NoChannel, LegacyChannel, ChannelRow, ChannelStatuses, PayoutStatuses
    <2>2. channel \in [Channels -> {NoChannel, LegacyChannel}]
      BY DEF Init
    <2> QED
      BY <2>1, <2>2
  <1>3. records \in Seq(PayoutRecord)
    BY DEF Init
  <1>4. req \in [Requests -> Request] /\ \A p \in Requests : OwnRecord(p)
    BY IdleRequest DEF Init, OwnRecord
  <1>5. disturbed \in [Channels -> SUBSET Doubling] /\ restarts \in 0..MaxRestarts
    BY LedgerAssumption DEF Init
  <1> QED
    BY <1>1, <1>2, <1>3, <1>4, <1>5 DEF Init, TypeOK

\* Every step keeps every variable's shape, and no request ever holds a record of
\* another channel.
LEMMA NextType == TypeOK /\ [Next]_vars => TypeOK'
  <1> SUFFICES ASSUME TypeOK, [Next]_vars PROVE TypeOK'
    OBVIOUS
  <1>1. CASE UNCHANGED vars
    <2>1. \A p \in Requests : OwnRecord(p)'
      BY <1>1, OwnRecordKept DEF vars, RecordsOf
    <2> QED
      BY <1>1, <2>1 DEF TypeOK, vars
  <1>2. CASE \E q \in Requests : Arrive(q) \/ Proceed(q)
    BY <1>2, ArriveType, ProceedType
  <1>3. CASE Crash \/ Backfill
    BY <1>3, CrashType, BackfillType
  <1>4. CASE SetEnabled \/ (\E c \in Channels : Submit(c) \/ ClearSubmitter(c))
               \/ (\E t \in DOMAIN tonPay : RemoveTonPayment(t))
    BY <1>4, TableStepType
  <1> QED
    BY <1>1, <1>2, <1>3, <1>4 DEF Next

\* The ledger's tables, requests and history keep their types forever.
THEOREM TypeCorrect == Spec => []TypeOK
  BY InitType, NextType, PTL DEF Spec

-----------------------------------------------------------------------------
(* One copy of a payment *)

\* All that a step does to the ledger: nothing, one new record at its end that cites no
\* payment already cited, or a new status for one record.
LEMMA LedgerSteps ==
    ASSUME TypeOK, [Next]_vars
    PROVE  \/ UNCHANGED records
           \/ \E r \in PayoutRecord : /\ records' = Append(records, r)
                                      /\ r.ton = 0 \/ ShouldCopyTonPayment(r.ton)
           \/ \E i \in DOMAIN records, status \in RecordStatuses : SetStatus(i, status)
  <1>1. ASSUME NEW q \in Requests, Arrive(q) PROVE UNCHANGED records
    BY <1>1 DEF Arrive, Approve, Reject, RefreshPreview, LoadEdit, SkipPayout, RecordPayout,
                ConfirmRecord, FailRecord, FinishPayout, LoadFinish, VoidRecord
  <1>2. ASSUME NEW q \in Requests, SaveRecord(q)
        PROVE \E r \in PayoutRecord : records' = Append(records, r) /\ r.ton = 0
    <2> DEFINE row == NewRecord(req[q].ch, req[q].cur, req[q].status, "live", 0)
    <2>1. req[q] \in Request /\ req[q].pc = "saveRecord"
      BY <1>2 DEF TypeOK, SaveRecord
    <2>2. row \in PayoutRecord /\ row.ton = 0
      BY <2>1 DEF Request, SettlePc, PayoutRecord, NewRecord, RecordStatuses
    <2> QED
      BY <1>2, <2>2 DEF SaveRecord
  <1>3. ASSUME NEW q \in Requests, SaveFinish(q) \/ SaveVoid(q)
        PROVE \E i \in DOMAIN records, status \in RecordStatuses : SetStatus(i, status)
    <2>1. req[q] \in Request /\ OwnRecord(q) /\ req[q].pc \in {"saveFinish", "saveVoid"}
      BY <1>3 DEF TypeOK, SaveFinish, SaveVoid
    <2>2. /\ req[q].rec \in DOMAIN records
          /\ req[q].pc = "saveFinish" => req[q].status \in RecordStatuses
      BY <2>1 DEF Request, SettlePc, OwnRecord, RecordsOf, RecordStatuses
    <2> QED
      BY <1>3, <2>2 DEF SaveFinish, SaveVoid, RecordStatuses
  <1>4. ASSUME NEW t \in DOMAIN tonPay, CopyTonPayment(t), records' # records
        PROVE \E r \in PayoutRecord : /\ records' = Append(records, r)
                                      /\ ShouldCopyTonPayment(r.ton)
    <2> DEFINE row == NewRecord(tonPay[t].ch, "TON", "paid", "ton_payment", t)
    <2>1. t \in Nat /\ tonPay[t] \in TonPayment
      BY DEF TypeOK
    <2>2. row \in PayoutRecord /\ row.ton = t
      BY <2>1 DEF TonPayment, PayoutRecord, NewRecord, RecordStatuses
    <2>3. records' = Append(records, row) /\ ShouldCopyTonPayment(t)
      BY <1>4 DEF CopyTonPayment
    <2> QED
      BY <2>2, <2>3
  <1>5. ASSUME NEW c \in Channels, GapFill(c), records' # records
        PROVE \E r \in PayoutRecord : records' = Append(records, r) /\ r.ton = 0
    <2> DEFINE row == NewRecord(c, "TON", "paid", "channel_reward", 0)
    <2>1. row \in PayoutRecord /\ row.ton = 0
      BY DEF PayoutRecord, NewRecord, RecordStatuses
    <2> QED
      BY <1>5, <2>1 DEF GapFill
  <1>6. ASSUME NEW q \in Requests, Proceed(q), ~SaveRecord(q), ~SaveFinish(q), ~SaveVoid(q)
        PROVE UNCHANGED records
    BY <1>6 DEF Proceed, SaveEdit, LoadReward, SaveReward, CreateTon, MarkPaid, SaveSkip,
                CountPaid, Reopen
  <1> QED
    BY <1>1, <1>2, <1>3, <1>4, <1>5, <1>6
       DEF Next, vars, Submit, ClearSubmitter, SetEnabled, RemoveTonPayment, Crash,
           Backfill, BackfillChannel, NextStage

LEMMA OneCopyNext == TypeOK /\ OneCopyPerTonPayment /\ [Next]_vars => OneCopyPerTonPayment'
  <1> SUFFICES ASSUME TypeOK, OneCopyPerTonPayment, [Next]_vars
               PROVE  OneCopyPerTonPayment'
    OBVIOUS
  <1>1. CASE UNCHANGED records
    BY <1>1 DEF OneCopyPerTonPayment
  <1>2. ASSUME NEW r \in PayoutRecord, records' = Append(records, r),
               r.ton = 0 \/ ShouldCopyTonPayment(r.ton)
        PROVE  OneCopyPerTonPayment'
    BY <1>2, AppendRecord DEF OneCopyPerTonPayment, ShouldCopyTonPayment
  <1>3. ASSUME NEW i \in DOMAIN records, NEW status \in RecordStatuses, SetStatus(i, status)
        PROVE  OneCopyPerTonPayment'
    <2>1. \A j \in DOMAIN records : records'[j].ton = records[j].ton
      <3>1. WithStatus(records[i], status).ton = records[i].ton
        BY RecordShape DEF WithStatus, PayoutRecord
      <3> QED
        BY <1>3, <3>1, UpdateRecord
    <2>2. DOMAIN records' = DOMAIN records
      BY <1>3, UpdateRecord
    <2> QED
      BY <2>1, <2>2 DEF OneCopyPerTonPayment
  <1> QED
    BY <1>1, <1>2, <1>3, LedgerSteps

\* However often a start-up backfill is cut short and run again, no ton_payments row is
\* copied into the ledger twice.
THEOREM PaymentsCopiedOnce == Spec => []OneCopyPerTonPayment
  <1>1. Init => OneCopyPerTonPayment
    BY DEF Init, OneCopyPerTonPayment
  <1> QED
    BY <1>1, OneCopyNext, TypeCorrect, PTL DEF Spec

-----------------------------------------------------------------------------
(* No channel is paid twice *)

\* A step that can only take payout requests, blocking records and innocence away.
Narrowing(c) ==
    /\ LiveBlocking(c)' \subseteq LiveBlocking(c)
    /\ Opening(c)' \subseteq Opening(c)
    /\ disturbed[c] \subseteq disturbed'[c]

LEMMA NarrowingKeeps ==
    ASSUME NEW c \in Channels, OneAtATime(c), Narrowing(c)
    PROVE  OneAtATime(c)'
  <1> SUFFICES ASSUME "doubling" \notin disturbed'[c]
               PROVE  /\ \A i, j \in LiveBlocking(c)' : i = j
                      /\ \A q \in Opening(c)' : LiveBlocking(c)' = {} /\ Opening(c)' = {q}
    BY DEF OneAtATime
  <1>1. /\ \A i, j \in LiveBlocking(c) : i = j
        /\ \A q \in Opening(c) : LiveBlocking(c) = {} /\ Opening(c) = {q}
    BY DEF Narrowing, OneAtATime
  <1> QED
    BY <1>1 DEF Narrowing

LEMMA RecordsUnchanged ==
    ASSUME UNCHANGED records
    PROVE  \A c \in Channels : LiveBlocking(c)' = LiveBlocking(c)
  BY DEF LiveBlocking, Blocking, RecordsOf, IsBlocking

LEMMA MarkGrows ==
    ASSUME TypeOK, NEW d, NEW why, Mark(d, why)
    PROVE  \A c \in Channels : disturbed[c] \subseteq disturbed'[c]
  BY DEF TypeOK, Mark

LEMMA BeginNarrows ==
    ASSUME TypeOK, NEW q \in Requests, NEW r, NEW why, Begin(q, r, why),
           r.pc # "saveRecord", UNCHANGED records
    PROVE  \A c \in Channels : Narrowing(c)
  <1>1. \A c \in Channels : Opening(c)' \subseteq Opening(c)
    BY DEF TypeOK, Begin, Opening
  <1>2. \A c \in Channels : disturbed[c] \subseteq disturbed'[c]
    BY MarkGrows DEF Begin
  <1> QED
    BY <1>1, <1>2, RecordsUnchanged DEF Narrowing

LEMMA ContinueNarrows ==
    ASSUME TypeOK, NEW q \in Requests, NEW r, Continue(q, r), r.pc # "saveRecord",
           \A c \in Channels : /\ LiveBlocking(c)' \subseteq LiveBlocking(c)
                               /\ disturbed[c] \subseteq disturbed'[c]
    PROVE  \A c \in Channels : Narrowing(c)
  <1>1. \A c \in Channels : Opening(c)' \subseteq Opening(c)
    BY DEF TypeOK, Continue, Opening
  <1> QED
    BY <1>1 DEF Narrowing

LEMMA SetStatusBlocking ==
    ASSUME TypeOK, NEW i \in DOMAIN records, NEW status \in RecordStatuses,
           SetStatus(i, status), NEW c \in Channels
    PROVE  LiveBlocking(c)' \subseteq LiveBlocking(c) \cup {i}
           /\ (status \in {"failed", "void"} \/ IsBlocking(i) \/ records[i].ch # c
                 => LiveBlocking(c)' \subseteq LiveBlocking(c))
  <1>1. /\ WithStatus(records[i], status).ch = records[i].ch
        /\ WithStatus(records[i], status).source = records[i].source
        /\ WithStatus(records[i], status).status = status
    BY RecordShape DEF WithStatus, PayoutRecord
  <1>2. /\ DOMAIN records' = DOMAIN records
        /\ records'[i] = WithStatus(records[i], status)
        /\ \A j \in DOMAIN records : j # i => records'[j] = records[j]
    BY UpdateRecord
  <1> HIDE DEF WithStatus
  <1> QED
    BY <1>1, <1>2 DEF LiveBlocking, Blocking, RecordsOf, IsBlocking

LEMMA AppendBlocking ==
    ASSUME TypeOK, NEW r \in PayoutRecord, records' = Append(records, r), NEW c \in Channels
    PROVE  /\ LiveBlocking(c)' \subseteq LiveBlocking(c) \cup {Len(records) + 1}
           /\ r.source # "live" \/ r.ch # c => LiveBlocking(c)' \subseteq LiveBlocking(c)
  BY AppendRecord DEF LiveBlocking, Blocking, RecordsOf, IsBlocking

LEMMA ArriveOpening ==
    ASSUME TypeOK, OpeningAlone, NEW q \in Requests, Arrive(q)
    PROVE  OpeningAlone'
  <1>1. ASSUME NEW c \in Channels, NEW cur \in Currencies, NEW status \in {"sending", "paid"},
               NEW force \in ForceChoices, RecordPayout(q, c, cur, status, force)
        PROVE  OpeningAlone'
    <2> DEFINE r == [pc |-> "saveRecord", ch |-> c, cur |-> cur, status |-> status]
    <2>1. UNCHANGED records /\ req[q] = Idle /\ req' = [req EXCEPT ![q] = r]
      BY <1>1 DEF RecordPayout, Begin
    <2>2. \A d \in Channels : Opening(d)' \subseteq Opening(d) \cup (IF d = c THEN {q} ELSE {})
      BY <2>1 DEF TypeOK, Opening
    <2>3. \A d \in Channels : disturbed[d] \subseteq disturbed'[d]
      BY <1>1, MarkGrows DEF RecordPayout, Begin
    <2>4. ASSUME NEW d \in Channels PROVE OneAtATime(d)'
      <3>1. CASE d # c
        BY <2>1, <2>2, <2>3, <3>1, RecordsUnchanged, NarrowingKeeps DEF OpeningAlone, Narrowing
      <3>2. CASE d = c /\ "doubling" \notin disturbed'[c]
        <4>1. ~force /\ Opening(c) = {}
          BY <1>1, <3>2 DEF RecordPayout, Begin, Mark, Doubling, TypeOK
        <4>2. LiveBlocking(c) = {}
          BY <1>1, <4>1 DEF RecordPayout, NoBlocking, LiveBlocking
        <4>3. LiveBlocking(c)' = {} /\ Opening(c)' \subseteq {q}
          BY <2>1, <2>2, <4>1, <4>2, RecordsUnchanged
        <4> QED
          BY <3>2, <4>3 DEF OneAtATime
      <3>3. CASE d = c /\ "doubling" \in disturbed'[c]
        BY <3>3 DEF OneAtATime
      <3> QED
        BY <3>1, <3>2, <3>3
    <2> QED
      BY <2>4 DEF OpeningAlone
  <1>2. ASSUME \A c \in Channels : Narrowing(c) PROVE OpeningAlone'
    BY <1>2, NarrowingKeeps DEF OpeningAlone
  <1>3. ASSUME NEW c \in Channels, NEW to, LoadEdit(q, c, to) PROVE OpeningAlone'
    BY <1>3, <1>2, BeginNarrows DEF LoadEdit
  <1>4. ASSUME NEW c \in Channels, NEW force, SkipPayout(q, c, force) PROVE OpeningAlone'
    BY <1>4, <1>2, BeginNarrows DEF SkipPayout
  <1>5. ASSUME NEW i, NEW status, LoadFinish(q, i, status) PROVE OpeningAlone'
    BY <1>5, <1>2, BeginNarrows DEF LoadFinish
  <1>6. ASSUME NEW i, VoidRecord(q, i) PROVE OpeningAlone'
    BY <1>6, <1>2, BeginNarrows DEF VoidRecord
  <1> QED
    BY <1>1, <1>3, <1>4, <1>5, <1>6
       DEF Arrive, Approve, Reject, RefreshPreview, ConfirmRecord, FailRecord, FinishPayout

LEMMA SaveRecordOpening ==
    ASSUME TypeOK, OpeningAlone, NEW q \in Requests, SaveRecord(q)
    PROVE  OpeningAlone'
  <1> DEFINE c == req[q].ch
             row == NewRecord(c, req[q].cur, req[q].status, "live", 0)
  <1>1. req[q] \in Request /\ req[q].pc = "saveRecord" /\ UNCHANGED disturbed
    BY DEF TypeOK, SaveRecord
  <1>2. c \in Channels /\ row \in PayoutRecord /\ row.ch = c
    BY <1>1 DEF Request, SettlePc, PayoutRecord, NewRecord, RecordStatuses
  <1>3. records' = Append(records, row)
    BY DEF SaveRecord
  <1> HIDE DEF row
  <1>4. \A d \in Channels : Opening(d)' \subseteq Opening(d) \ {q}
    BY <1>1 DEF TypeOK, SaveRecord, Continue, DualWrite, Idle, Opening
  <1>5. ASSUME NEW d \in Channels PROVE OneAtATime(d)'
    <2>1. CASE d # c
      BY <1>1, <1>2, <1>3, <1>4, <2>1, AppendBlocking, NarrowingKeeps
         DEF OpeningAlone, Narrowing
    <2>2. CASE d = c
      <3>1. SUFFICES ASSUME "doubling" \notin disturbed[d]
                     PROVE  /\ \A i, j \in LiveBlocking(d)' : i = j
                            /\ Opening(d)' = {}
        BY <1>1 DEF OneAtATime
      <3>2. q \in Opening(d)
        BY <1>1, <2>2 DEF Opening
      <3>3. LiveBlocking(d) = {} /\ Opening(d) = {q}
        BY <3>1, <3>2 DEF OpeningAlone, OneAtATime
      <3>4. LiveBlocking(d)' \subseteq {Len(records) + 1}
        BY <1>2, <1>3, <3>3, AppendBlocking
      <3> QED
        BY <1>4, <3>3, <3>4
    <2> QED
      BY <2>1, <2>2
  <1> QED
    BY <1>5 DEF OpeningAlone

LEMMA SaveFinishOpening ==
    ASSUME TypeOK, OpeningAlone, NEW q \in Requests, SaveFinish(q)
    PROVE  OpeningAlone'
  <1> DEFINE c == req[q].ch
             i == req[q].rec
             status == req[q].status
             next == IF status = "paid" THEN DualWrite(c, records[i].cur) ELSE Idle
  <1>1. /\ req[q].pc = "saveFinish" /\ SetStatus(i, status) /\ Continue(q, next)
        /\ Mark(c, SettleCause(records[i].status, status))
    BY DEF SaveFinish
  <1>2. /\ c \in Channels /\ i \in DOMAIN records /\ records[i].ch = c
        /\ status \in {"paid", "failed"} /\ status \in RecordStatuses
    <2>1. req[q] \in Request /\ OwnRecord(q)
      BY DEF TypeOK
    <2> QED
      BY <1>1, <2>1 DEF Request, SettlePc, OwnRecord, RecordsOf, RecordStatuses
  <1>3. next.pc # "saveRecord"
    BY DEF DualWrite, Idle
  <1> HIDE DEF next
  <1>4. \A d \in Channels : disturbed[d] \subseteq disturbed'[d]
    BY <1>1, MarkGrows
  <1>5. \A d \in Channels : Opening(d)' \subseteq Opening(d)
    BY <1>1, <1>3 DEF TypeOK, Continue, Opening
  <1>6. ASSUME NEW d \in Channels PROVE OneAtATime(d)'
    <2>1. CASE status = "failed" \/ IsBlocking(i) \/ d # c
      <3>1. LiveBlocking(d)' \subseteq LiveBlocking(d)
        BY <1>1, <1>2, <2>1, SetStatusBlocking
      <3> QED
        BY <1>4, <1>5, <3>1, NarrowingKeeps DEF OpeningAlone, Narrowing
    <2>2. CASE status = "paid" /\ ~IsBlocking(i) /\ d = c
      <3>1. records[i].status \in {"failed", "void"}
        BY <1>2, <2>2, RecordShape DEF PayoutRecord, RecordStatuses, IsBlocking
      <3>2. "doubling" \in disturbed'[c]
        BY <1>1, <1>2, <2>2, <3>1 DEF TypeOK, Mark, SettleCause, Doubling
      <3> QED
        BY <2>2, <3>2 DEF OneAtATime
    <2> QED
      BY <1>2, <2>1, <2>2
  <1> QED
    BY <1>6 DEF OpeningAlone

\* The requests that change no record and open none.
LEMMA SettlingOpening ==
    ASSUME TypeOK, OpeningAlone, NEW q \in Requests,
           \/ SaveEdit(q) \/ LoadReward(q) \/ SaveReward(q) \/ CreateTon(q) \/ MarkPaid(q)
           \/ SaveSkip(q) \/ CountPaid(q) \/ Reopen(q)
    PROVE  OpeningAlone'
  <1>1. UNCHANGED <<records, disturbed>>
    BY DEF SaveEdit, LoadReward, SaveReward, CreateTon, MarkPaid, SaveSkip, CountPaid, Reopen
  <1>2. \A d \in Channels : /\ LiveBlocking(d)' \subseteq LiveBlocking(d)
                            /\ disturbed[d] \subseteq disturbed'[d]
    BY <1>1, RecordsUnchanged
  <1>3. \E r : Continue(q, r) /\ r.pc # "saveRecord"
    BY DEF SaveEdit, LoadReward, SaveReward, CreateTon, MarkPaid, SaveSkip, CountPaid, Reopen,
           Finished, Idle
  <1> QED
    BY <1>2, <1>3, ContinueNarrows, NarrowingKeeps DEF OpeningAlone

LEMMA SaveVoidOpening ==
    ASSUME TypeOK, OpeningAlone, NEW q \in Requests, SaveVoid(q)
    PROVE  OpeningAlone'
  <1>1. req[q].rec \in DOMAIN records /\ SetStatus(req[q].rec, "void") /\ UNCHANGED disturbed
    BY DEF TypeOK, OwnRecord, RecordsOf, SaveVoid
  <1>2. \A d \in Channels : /\ LiveBlocking(d)' \subseteq LiveBlocking(d)
                            /\ disturbed[d] \subseteq disturbed'[d]
    BY <1>1, SetStatusBlocking DEF RecordStatuses
  <1>3. \E r : Continue(q, r) /\ r.pc # "saveRecord"
    BY DEF SaveVoid, Idle
  <1> QED
    BY <1>2, <1>3, ContinueNarrows, NarrowingKeeps DEF OpeningAlone

LEMMA CrashOpening ==
    ASSUME TypeOK, OpeningAlone, Crash
    PROVE  OpeningAlone'
  <1>1. \A d \in Channels : Opening(d)' = {}
    BY DEF Crash, Opening, Idle
  <1>2. \A d \in Channels : disturbed[d] \subseteq disturbed'[d]
    BY DEF Crash
  <1>3. UNCHANGED records
    BY DEF Crash
  <1> QED
    BY <1>1, <1>2, <1>3, RecordsUnchanged, NarrowingKeeps DEF OpeningAlone, Narrowing

LEMMA BackfillOpening ==
    ASSUME TypeOK, OpeningAlone, Backfill
    PROVE  OpeningAlone'
  <1>1. UNCHANGED req
    BY DEF Backfill, BackfillChannel, CopyTonPayment, GapFill, NextStage, Visit
  <1>2. \A d \in Channels : Opening(d)' = Opening(d)
    BY <1>1 DEF Opening
  <1>3. \A d \in Channels : disturbed[d] \subseteq disturbed'[d]
    BY MarkGrows
       DEF Backfill, BackfillChannel, CopyTonPayment, GapFill, NextStage, Rewritten
  <1>4. ASSUME NEW d \in Channels PROVE LiveBlocking(d)' \subseteq LiveBlocking(d)
    <2>1. CASE UNCHANGED records
      BY <2>1, RecordsUnchanged
    <2>2. ASSUME NEW r \in PayoutRecord, records' = Append(records, r), r.source # "live"
          PROVE  LiveBlocking(d)' \subseteq LiveBlocking(d)
      BY <2>2, AppendBlocking
    <2>3. ASSUME NEW t \in DOMAIN tonPay, CopyTonPayment(t), records' # records
          PROVE  LiveBlocking(d)' \subseteq LiveBlocking(d)
      <3> DEFINE row == NewRecord(tonPay[t].ch, "TON", "paid", "ton_payment", t)
      <3>1. t \in Nat /\ tonPay[t] \in TonPayment
        BY DEF TypeOK
      <3>2. row \in PayoutRecord /\ row.source # "live"
        BY <3>1 DEF TonPayment, PayoutRecord, NewRecord, RecordStatuses
      <3>3. records' = Append(records, row)
        BY <2>3 DEF CopyTonPayment
      <3> QED
        BY <2>2, <3>2, <3>3
    <2>4. ASSUME NEW c \in Channels, GapFill(c), records' # records
          PROVE  LiveBlocking(d)' \subseteq LiveBlocking(d)
      <3> DEFINE row == NewRecord(c, "TON", "paid", "channel_reward", 0)
      <3>1. row \in PayoutRecord /\ row.source # "live"
        BY DEF PayoutRecord, NewRecord, RecordStatuses
      <3> QED
        BY <2>2, <2>4, <3>1 DEF GapFill
    <2> QED
      BY <2>1, <2>3, <2>4 DEF Backfill, BackfillChannel, NextStage
  <1> QED
    BY <1>2, <1>3, <1>4, NarrowingKeeps DEF OpeningAlone, Narrowing

LEMMA OpeningNext == TypeOK /\ OpeningAlone /\ [Next]_vars => OpeningAlone'
  <1> SUFFICES ASSUME TypeOK, OpeningAlone, [Next]_vars
               PROVE  OpeningAlone'
    OBVIOUS
  <1>1. ASSUME UNCHANGED <<req, records, disturbed>> PROVE OpeningAlone'
    BY <1>1 DEF OpeningAlone, OneAtATime, Opening, LiveBlocking, Blocking, RecordsOf, IsBlocking
  <1>2. ASSUME NEW c \in Channels, Submit(c) \/ ClearSubmitter(c) PROVE OpeningAlone'
    BY <1>1, <1>2 DEF Submit, ClearSubmitter
  <1>3. ASSUME SetEnabled PROVE OpeningAlone'
    BY <1>1, <1>3 DEF SetEnabled
  <1>4. ASSUME NEW q \in Requests, Proceed(q) PROVE OpeningAlone'
    BY <1>4, SaveRecordOpening, SaveFinishOpening, SaveVoidOpening, SettlingOpening DEF Proceed
  <1>5. ASSUME NEW t \in DOMAIN tonPay, RemoveTonPayment(t) PROVE OpeningAlone'
    BY <1>1, <1>5 DEF RemoveTonPayment
  <1>6. ASSUME UNCHANGED vars PROVE OpeningAlone'
    BY <1>1, <1>6 DEF vars
  <1> QED
    BY <1>2, <1>3, <1>4, <1>5, <1>6, ArriveOpening, CrashOpening, BackfillOpening DEF Next

\* For any channels, requests, currencies and bounds: a channel gets a second blocking
\* payout record only from a forced request, from two requests that passed the check of
\* assertNoBlocking together, or from a failed or void record settled as paid.
THEOREM PaidOnce == Spec => []NoDoublePayout
  <1>1. Init => OpeningAlone
    BY DEF Init, OpeningAlone, OneAtATime, Opening, LiveBlocking, Blocking, RecordsOf, Idle
  <1>2. OpeningAlone => NoDoublePayout
    BY DEF OpeningAlone, OneAtATime, NoDoublePayout
  <1> QED
    BY <1>1, <1>2, OpeningNext, TypeCorrect, PTL DEF Spec

-----------------------------------------------------------------------------
(* The start-up backfill: however often the process dies, one that comes   *)
(* to its end has left nothing out, and one that follows it with no        *)
(* request in between changes nothing.                                     *)

Exists(c) == channel[c].status # "absent"

\* Requests, records and payments are of channels that exist, and one that does not has
\* the row of a channel never submitted.
KnownChannels ==
    /\ \A c \in Channels : Exists(c) \/ channel[c] = NoChannel
    /\ \A q \in Requests : req[q].pc # "idle" => Exists(req[q].ch)
    /\ \A q \in Requests :
          req[q].pc \in {"saveEdit", "saveReward"} => req[q].row.status # "absent"
    /\ \A i \in DOMAIN records : Exists(records[i].ch)
    /\ \A t \in DOMAIN tonPay : Exists(tonPay[t].ch)

\* Nothing is served during a backfill, and what was served since ends the quiet.
QuietIsIdle == node # "up" \/ quiet => \A q \in Requests : req[q].pc = "idle"

\* What each loop of the backfill sees to.
Derived(c) == channel[c].payout \in {"skipped", BackfillPayoutStatus(channel[c])}
Cited(t) == tonPay[t].removed \/ \E i \in DOMAIN records : records[i].ton = t
HasRecord(c) == channel[c].rewarded => RecordsOf(c) # {}

\* A loop has seen to what it no longer has to visit, and the loops before it to all.
DealtWith ==
    /\ node = "channels" => \A c \in Channels \ todo : Derived(c)
    /\ node \in {"payments", "rewards"} => \A c \in Channels : Derived(c)
    /\ node = "payments" => \A t \in DOMAIN tonPay \ todo : Cited(t)
    /\ node = "rewards" => /\ \A t \in DOMAIN tonPay : Cited(t)
                           /\ \A c \in Channels \ todo : HasRecord(c)
    /\ BackfillCompletes

-----------------------------------------------------------------------------
(* Channels that exist *)

\* A step leaves a channel's row alone or writes one that exists.
LEMMA ChannelSteps ==
    ASSUME TypeOK, KnownChannels, [Next]_vars, NEW c \in Channels
    PROVE  channel'[c] = channel[c] \/ Exists(c)'
  <1>1. ASSUME NEW d \in Channels, Submit(d) \/ ClearSubmitter(d)
        PROVE  channel'[c] = channel[c] \/ Exists(c)'
    <2>1. CASE Submit(d)
      BY <2>1 DEF TypeOK, Submit, Exists
    <2>2. CASE ClearSubmitter(d)
      <3>1. channel[d].status # "absent"
        BY <2>2 DEF ClearSubmitter, KnownChannels, Exists, NoChannel
      <3> QED BY <2>2, <3>1 DEF TypeOK, ClearSubmitter, Exists, ChannelRow
    <2> QED BY <1>1, <2>1, <2>2
  <1>2. ASSUME NEW q \in Requests, SaveEdit(q) \/ SaveReward(q)
        PROVE  channel'[c] = channel[c] \/ Exists(c)'
    <2>1. req[q].row.status # "absent"
      BY <1>2 DEF SaveEdit, SaveReward, KnownChannels
    <2>2. channel' = [channel EXCEPT ![req[q].ch] = req[q].row]
      BY <1>2 DEF SaveEdit, SaveReward
    <2> QED BY <2>1, <2>2 DEF TypeOK, Exists
  <1>3. ASSUME NEW q \in Requests, MarkPaid(q) \/ SaveSkip(q) \/ Reopen(q)
        PROVE  channel'[c] = channel[c] \/ Exists(c)'
    <2>1. channel[req[q].ch].status # "absent"
      BY <1>3 DEF MarkPaid, SaveSkip, Reopen, KnownChannels, Exists
    <2>2. PICK p : channel' = [channel EXCEPT ![req[q].ch].payout = p]
      BY <1>3 DEF MarkPaid, SaveSkip, Reopen
    <2> QED BY <2>1, <2>2 DEF TypeOK, Exists, ChannelRow
  <1>4. ASSUME NEW d \in Channels, BackfillChannel(d)
        PROVE  channel'[c] = channel[c] \/ Exists(c)'
    BY <1>4 DEF TypeOK, BackfillChannel, NeedsStatus, Exists, ChannelRow
  <1>5. ASSUME NEW q \in Requests, Arrive(q) PROVE channel' = channel
    BY <1>5 DEF Arrive, Approve, Reject, RefreshPreview, LoadEdit, SkipPayout, RecordPayout,
                ConfirmRecord, FailRecord, FinishPayout, LoadFinish, VoidRecord
  <1> QED BY <1>1, <1>2, <1>3, <1>4, <1>5
       DEF Next, vars, SetEnabled, Proceed, SaveRecord, SaveFinish, LoadReward, CreateTon,
           SaveVoid, CountPaid, RemoveTonPayment, Crash, Backfill, GapFill, CopyTonPayment,
           NextStage

LEMMA ExistingStay ==
    ASSUME TypeOK, KnownChannels, [Next]_vars, NEW c \in Channels, Exists(c)
    PROVE  Exists(c)'
  BY ChannelSteps DEF Exists

\* A request that begins, or one that goes on, is of a channel that exists and carries
\* the row of one.
LEMMA RequestSteps ==
    ASSUME TypeOK, KnownChannels, NEW q \in Requests, Arrive(q) \/ Proceed(q)
    PROVE  \E r \in Request :
              /\ req' = [req EXCEPT ![q] = r]
              /\ r.pc # "idle" => r.ch \in Channels /\ Exists(r.ch)
              /\ r.pc \in {"saveEdit", "saveReward"} => r.row.status # "absent"
  <1> SUFFICES \E r : /\ req' = [req EXCEPT ![q] = r]
                      /\ r.pc # "idle" => r.ch \in Channels /\ Exists(r.ch)
                      /\ r.pc \in {"saveEdit", "saveReward"} => r.row.status # "absent"
    <2>1. TypeOK'
      BY ArriveType, ProceedType
    <2>2. ASSUME NEW r, req' = [req EXCEPT ![q] = r] PROVE r \in Request
      BY <2>1, <2>2 DEF TypeOK
    <2> QED BY <2>2
  <1>1. req[q].pc # "idle" => req[q].ch \in Channels /\ Exists(req[q].ch)
    BY DEF TypeOK, KnownChannels, Request, SettlePc
  <1>2. ASSUME NEW c \in Channels, NEW to \in {"listed", "rejected", channel[c].status},
               LoadEdit(q, c, to)
        PROVE  \E r : /\ req' = [req EXCEPT ![q] = r]
                      /\ r.pc # "idle" => r.ch \in Channels /\ Exists(r.ch)
                      /\ r.pc \in {"saveEdit", "saveReward"} => r.row.status # "absent"
    <2> DEFINE r == [pc |-> "saveEdit", ch |-> c, row |-> [channel[c] EXCEPT !.status = to]]
    <2>1. req' = [req EXCEPT ![q] = r] /\ r.ch = c /\ Exists(c)
      BY <1>2 DEF LoadEdit, Begin, Exists
    <2>2. r.row.status # "absent"
      BY <1>2, <2>1 DEF TypeOK, ChannelRow, Exists
    <2> QED BY <2>1, <2>2
  <1>3. ASSUME NEW c \in Channels, Exists(c), NEW r, NEW why, r.ch = c,
               r.pc \notin {"saveEdit", "saveReward"}, Begin(q, r, why)
        PROVE  \E s : /\ req' = [req EXCEPT ![q] = s]
                      /\ s.pc # "idle" => s.ch \in Channels /\ Exists(s.ch)
                      /\ s.pc \in {"saveEdit", "saveReward"} => s.row.status # "absent"
    BY <1>3 DEF Begin
  <1>4. ASSUME NEW c \in Channels, NEW force \in ForceChoices, SkipPayout(q, c, force)
        PROVE  \E s : /\ req' = [req EXCEPT ![q] = s]
                      /\ s.pc # "idle" => s.ch \in Channels /\ Exists(s.ch)
                      /\ s.pc \in {"saveEdit", "saveReward"} => s.row.status # "absent"
    BY <1>3, <1>4 DEF SkipPayout, Exists
  <1>5. ASSUME NEW c \in Channels, NEW force \in ForceChoices, NEW cur \in Currencies,
               NEW status \in {"sending", "paid"}, RecordPayout(q, c, cur, status, force)
        PROVE  \E s : /\ req' = [req EXCEPT ![q] = s]
                      /\ s.pc # "idle" => s.ch \in Channels /\ Exists(s.ch)
                      /\ s.pc \in {"saveEdit", "saveReward"} => s.row.status # "absent"
    BY <1>3, <1>5 DEF RecordPayout, Exists
  <1>6. ASSUME NEW i \in DOMAIN records, NEW status \in {"paid", "failed"},
               LoadFinish(q, i, status) \/ VoidRecord(q, i)
        PROVE  \E s : /\ req' = [req EXCEPT ![q] = s]
                      /\ s.pc # "idle" => s.ch \in Channels /\ Exists(s.ch)
                      /\ s.pc \in {"saveEdit", "saveReward"} => s.row.status # "absent"
    <2>1. records[i].ch \in Channels /\ Exists(records[i].ch)
      BY RecordShape DEF KnownChannels
    <2> QED BY <1>3, <1>6, <2>1 DEF LoadFinish, VoidRecord
  <1>7. CASE Arrive(q)
    BY <1>2, <1>4, <1>5, <1>6, <1>7
       DEF Arrive, Approve, Reject, RefreshPreview, FinishPayout, ConfirmRecord, FailRecord
  <1>8. CASE LoadReward(q)
    <2> DEFINE r == [pc |-> "saveReward", ch |-> req[q].ch,
                     row |-> [channel[req[q].ch] EXCEPT !.rewarded = TRUE]]
    <2>1. req' = [req EXCEPT ![q] = r] /\ req[q].pc # "idle"
      BY <1>8 DEF LoadReward, Continue
    <2>2. r.row.status # "absent" /\ r.ch = req[q].ch
      BY <1>1, <2>1 DEF TypeOK, ChannelRow, Exists
    <2> QED BY <1>1, <2>1, <2>2
  <1>9. CASE Proceed(q) /\ ~LoadReward(q)
    <2>1. PICK r : /\ Continue(q, r) /\ req[q].pc # "idle"
                   /\ r.pc # "idle" => r.ch = req[q].ch
                   /\ r.pc \notin {"saveEdit", "saveReward"}
      BY <1>9 DEF Proceed, SaveEdit, SaveRecord, SaveFinish, SaveReward, CreateTon, MarkPaid,
                  SaveSkip, SaveVoid, CountPaid, Reopen, Finished, DualWrite, Idle
    <2> QED BY <1>1, <2>1 DEF Continue
  <1> QED BY <1>7, <1>8, <1>9

\* Records are never deleted and keep their channel and what they cite; a new one is of a
\* channel that exists.
LEMMA RecordsGrow ==
    ASSUME TypeOK, [Next]_vars, NEW i \in DOMAIN records
    PROVE  /\ i \in DOMAIN records'
           /\ records'[i].ch = records[i].ch /\ records'[i].ton = records[i].ton
  <1>1. CASE UNCHANGED records
    BY <1>1
  <1>2. ASSUME NEW r \in PayoutRecord, records' = Append(records, r)
        PROVE  i \in DOMAIN records' /\ records'[i] = records[i]
    BY <1>2, AppendRecord
  <1>3. ASSUME NEW j \in DOMAIN records, NEW status \in RecordStatuses, SetStatus(j, status)
        PROVE  /\ i \in DOMAIN records'
               /\ records'[i].ch = records[i].ch /\ records'[i].ton = records[i].ton
    <2>1. /\ DOMAIN records' = DOMAIN records
          /\ records'[j] = WithStatus(records[j], status)
          /\ i # j => records'[i] = records[i]
      BY <1>3, UpdateRecord
    <2>2. /\ WithStatus(records[j], status).ch = records[j].ch
          /\ WithStatus(records[j], status).ton = records[j].ton
      BY RecordShape DEF WithStatus, PayoutRecord
    <2> QED BY <2>1, <2>2
  <1> QED BY <1>1, <1>2, <1>3, LedgerSteps

\* The channel of the new record exists.
LEMMA NewRecordsKnown ==
    ASSUME TypeOK, KnownChannels, [Next]_vars,
           NEW i \in DOMAIN records'
    PROVE  records'[i].ch \in Channels /\ Exists(records'[i].ch)
  <1>1. ASSUME NEW c \in Channels, Exists(c), NEW r \in PayoutRecord, r.ch = c,
               records' = Append(records, r)
        PROVE  records'[i].ch \in Channels /\ Exists(records'[i].ch)
    BY <1>1, AppendRecord, RecordShape DEF KnownChannels
  <1>2. CASE DOMAIN records' = DOMAIN records
    BY <1>2, RecordsGrow, RecordShape DEF KnownChannels
  <1>3. ASSUME NEW q \in Requests, SaveRecord(q)
        PROVE  records'[i].ch \in Channels /\ Exists(records'[i].ch)
    <2> DEFINE row == NewRecord(req[q].ch, req[q].cur, req[q].status, "live", 0)
    <2>1. req[q] \in Request /\ req[q].pc = "saveRecord" /\ Exists(req[q].ch)
      BY <1>3 DEF TypeOK, SaveRecord, KnownChannels
    <2>2. row \in PayoutRecord /\ row.ch = req[q].ch /\ req[q].ch \in Channels
      BY <2>1 DEF Request, SettlePc, PayoutRecord, NewRecord, RecordStatuses
    <2> QED BY <1>1, <1>3, <2>1, <2>2 DEF SaveRecord
  <1>4. ASSUME NEW t \in DOMAIN tonPay, CopyTonPayment(t), records' # records
        PROVE  records'[i].ch \in Channels /\ Exists(records'[i].ch)
    <2> DEFINE row == NewRecord(tonPay[t].ch, "TON", "paid", "ton_payment", t)
    <2>1. t \in Nat /\ tonPay[t] \in TonPayment
      BY DEF TypeOK
    <2>2. row \in PayoutRecord /\ row.ch = tonPay[t].ch /\ tonPay[t].ch \in Channels
      BY <2>1 DEF TonPayment, PayoutRecord, NewRecord, RecordStatuses
    <2> QED BY <1>1, <1>4, <2>2 DEF CopyTonPayment, KnownChannels
  <1>5. ASSUME NEW c \in Channels, GapFill(c), records' # records
        PROVE  records'[i].ch \in Channels /\ Exists(records'[i].ch)
    <2> DEFINE row == NewRecord(c, "TON", "paid", "channel_reward", 0)
    <2>1. row \in PayoutRecord /\ row.ch = c
      BY DEF PayoutRecord, NewRecord, RecordStatuses
    <2>2. Exists(c)
      BY <1>5 DEF GapFill, KnownChannels, Exists, NoChannel
    <2> QED BY <1>1, <1>5, <2>1, <2>2 DEF GapFill
  <1>6. ASSUME NEW q \in Requests, SaveFinish(q) \/ SaveVoid(q)
        PROVE  DOMAIN records' = DOMAIN records
    <2>1. records \in Seq(PayoutRecord)
      BY DEF TypeOK
    <2> QED BY <1>6, <2>1 DEF SaveFinish, SaveVoid, SetStatus
  <1>7. ASSUME NEW q \in Requests, Arrive(q) PROVE UNCHANGED records
    BY <1>7 DEF Arrive, Approve, Reject, RefreshPreview, LoadEdit, SkipPayout, RecordPayout,
                ConfirmRecord, FailRecord, FinishPayout, LoadFinish, VoidRecord
  <1>8. ASSUME NEW q \in Requests, Proceed(q), ~SaveRecord(q), ~SaveFinish(q), ~SaveVoid(q)
        PROVE UNCHANGED records
    BY <1>8 DEF Proceed, SaveEdit, LoadReward, SaveReward, CreateTon, MarkPaid, SaveSkip,
                CountPaid, Reopen
  <1>9. CASE UNCHANGED records
    BY <1>2, <1>9
  <1> QED BY <1>2, <1>3, <1>4, <1>5, <1>6, <1>7, <1>8, <1>9
       DEF Next, vars, Submit, ClearSubmitter, SetEnabled, RemoveTonPayment, Crash, Backfill,
           BackfillChannel, NextStage

LEMMA PaymentsKnown ==
    ASSUME TypeOK, KnownChannels, [Next]_vars
    PROVE  \A t \in DOMAIN tonPay' : tonPay'[t].ch \in Channels /\ Exists(tonPay'[t].ch)
  <1>1. tonPay \in Seq(TonPayment)
    BY DEF TypeOK
  <1>2. \A t \in DOMAIN tonPay : tonPay[t].ch \in Channels /\ Exists(tonPay[t].ch)
    <2> TAKE t \in DOMAIN tonPay
    <2>1. tonPay[t] \in TonPayment
      BY <1>1
    <2> QED BY <2>1 DEF TonPayment, KnownChannels
  <1>3. ASSUME NEW q \in Requests, CreateTon(q)
        PROVE  \A t \in DOMAIN tonPay' : tonPay'[t].ch \in Channels /\ Exists(tonPay'[t].ch)
    <2>1. req[q].ch \in Channels /\ Exists(req[q].ch)
      BY <1>3 DEF TypeOK, CreateTon, KnownChannels, Request, SettlePc
    <2> QED BY <1>1, <1>2, <1>3, <2>1 DEF CreateTon
  <1>4. ASSUME NEW t \in DOMAIN tonPay, RemoveTonPayment(t)
        PROVE  \A u \in DOMAIN tonPay' : tonPay'[u].ch \in Channels /\ Exists(tonPay'[u].ch)
    BY <1>1, <1>2, <1>4 DEF RemoveTonPayment, TonPayment
  <1>5. CASE UNCHANGED tonPay
    BY <1>2, <1>5
  <1>6. ASSUME NEW q \in Requests, Arrive(q) PROVE UNCHANGED tonPay
    BY <1>6 DEF Arrive, Approve, Reject, RefreshPreview, LoadEdit, SkipPayout, RecordPayout,
                ConfirmRecord, FailRecord, FinishPayout, LoadFinish, VoidRecord
  <1>7. ASSUME NEW q \in Requests, Proceed(q), ~CreateTon(q) PROVE UNCHANGED tonPay
    BY <1>7 DEF Proceed, SaveEdit, SaveRecord, SaveFinish, LoadReward, SaveReward, MarkPaid,
                SaveSkip, SaveVoid, CountPaid, Reopen
  <1>8. CASE Backfill
    BY <1>5, <1>8 DEF Backfill, BackfillChannel, CopyTonPayment, GapFill, NextStage, Visit
  <1> QED BY <1>3, <1>4, <1>5, <1>6, <1>7, <1>8
       DEF Next, vars, Submit, ClearSubmitter, SetEnabled, Crash

LEMMA KnownStay ==
    ASSUME TypeOK, KnownChannels, [Next]_vars
    PROVE  KnownChannels'
  <1>1. \A c \in Channels : Exists(c) => channel'[c].status # "absent"
    BY ExistingStay DEF Exists
  <1>2. \A c \in Channels : Exists(c)' \/ channel'[c] = NoChannel
    BY ChannelSteps DEF KnownChannels, Exists
  <1>3. ASSUME NEW p \in Requests
        PROVE  /\ req'[p].pc # "idle" => req'[p].ch \in Channels /\ Exists(req'[p].ch)
               /\ req'[p].pc \in {"saveEdit", "saveReward"} => req'[p].row.status # "absent"
    <2>1. req[p].pc # "idle" => req[p].ch \in Channels
      BY DEF TypeOK, Request, SettlePc
    <2>2. CASE UNCHANGED req
      BY <2>1, <2>2 DEF KnownChannels
    <2>3. CASE Crash
      BY <2>3 DEF Crash, Idle
    <2>4. ASSUME NEW q \in Requests, Arrive(q) \/ Proceed(q)
          PROVE  /\ req'[p].pc # "idle" => req'[p].ch \in Channels /\ Exists(req'[p].ch)
                 /\ req'[p].pc \in {"saveEdit", "saveReward"} => req'[p].row.status # "absent"
      <3>1. PICK r \in Request :
              /\ req' = [req EXCEPT ![q] = r]
              /\ r.pc # "idle" => r.ch \in Channels /\ Exists(r.ch)
              /\ r.pc \in {"saveEdit", "saveReward"} => r.row.status # "absent"
        BY <2>4, RequestSteps
      <3>2. req'[p] = IF p = q THEN r ELSE req[p]
        BY <3>1 DEF TypeOK
      <3> QED BY <2>1, <3>1, <3>2 DEF KnownChannels
    <2>5. CASE Backfill
      BY <2>2, <2>5 DEF Backfill, BackfillChannel, CopyTonPayment, GapFill, NextStage, Visit
    <2> QED BY <2>2, <2>3, <2>4, <2>5
         DEF Next, vars, Submit, ClearSubmitter, SetEnabled, RemoveTonPayment
  <1>4. \A q \in Requests : req'[q].pc # "idle" => channel'[req'[q].ch].status # "absent"
    BY <1>1, <1>3
  <1>5. \A i \in DOMAIN records' : channel'[records'[i].ch].status # "absent"
    BY <1>1, NewRecordsKnown
  <1>6. \A t \in DOMAIN tonPay' : channel'[tonPay'[t].ch].status # "absent"
    BY <1>1, PaymentsKnown
  <1> QED BY <1>2, <1>3, <1>4, <1>5, <1>6 DEF KnownChannels, Exists

-----------------------------------------------------------------------------
(* The loops *)

\* During a backfill, and in a step that keeps the quiet, only the backfill and a crash do
\* anything to the tables.
LEMMA OnlyBackfillWrites ==
    ASSUME TypeOK, QuietIsIdle, [Next]_vars, node # "up" \/ quiet', ~Backfill, ~Crash
    PROVE  UNCHANGED <<channel, records, tonPay, node, todo, quiet, req>>
  <1>1. ASSUME NEW q \in Requests, Arrive(q) PROVE FALSE
    <2>1. PICK r, why : Begin(q, r, why)
      BY <1>1 DEF Arrive, Approve, Reject, RefreshPreview, LoadEdit, SkipPayout, RecordPayout,
                  ConfirmRecord, FailRecord, FinishPayout, LoadFinish, VoidRecord
    <2>2. node = "up" /\ quiet' = FALSE
      BY <2>1 DEF Begin
    <2> QED BY <2>2
  <1>2. ASSUME NEW q \in Requests, Proceed(q) PROVE FALSE
    <2>1. req[q].pc # "idle" /\ quiet' = quiet
      BY <1>2 DEF Proceed, SaveEdit, SaveRecord, SaveFinish, LoadReward, SaveReward, CreateTon,
                  MarkPaid, SaveSkip, SaveVoid, CountPaid, Reopen
    <2>2. node = "up" /\ ~quiet
      BY <2>1 DEF QuietIsIdle
    <2> QED BY <2>1, <2>2
  <1>3. ASSUME NEW c \in Channels, Submit(c) \/ ClearSubmitter(c) PROVE FALSE
    <2>1. node = "up" /\ quiet' = FALSE
      BY <1>3 DEF Submit, ClearSubmitter
    <2> QED BY <2>1
  <1>4. ASSUME NEW t \in DOMAIN tonPay, RemoveTonPayment(t) PROVE FALSE
    <2>1. node = "up" /\ quiet' = FALSE
      BY <1>4 DEF RemoveTonPayment
    <2> QED BY <2>1
  <1> QED BY <1>1, <1>2, <1>3, <1>4 DEF Next, vars, SetEnabled

LEMMA UpStaysUp ==
    ASSUME [Next]_vars, node = "up", ~Backfill, ~Crash
    PROVE  node' = "up"
  <1>1. ASSUME NEW q \in Requests, Arrive(q) PROVE UNCHANGED node
    BY <1>1 DEF Arrive, Approve, Reject, RefreshPreview, LoadEdit, SkipPayout, RecordPayout,
                ConfirmRecord, FailRecord, FinishPayout, LoadFinish, VoidRecord
  <1>2. ASSUME NEW q \in Requests, Proceed(q) PROVE UNCHANGED node
    BY <1>2 DEF Proceed, SaveEdit, SaveRecord, SaveFinish, LoadReward, SaveReward, CreateTon,
                MarkPaid, SaveSkip, SaveVoid, CountPaid, Reopen
  <1> QED BY <1>1, <1>2 DEF Next, vars, Submit, ClearSubmitter, SetEnabled, RemoveTonPayment

LEMMA QuietStaysIdle ==
    ASSUME TypeOK, QuietIsIdle, [Next]_vars
    PROVE  QuietIsIdle'
  <1>1. CASE Crash
    BY <1>1 DEF QuietIsIdle, Crash, Idle
  <1>2. CASE Backfill
    <2>1. node # "up" /\ UNCHANGED req
      BY <1>2 DEF Backfill, BackfillChannel, CopyTonPayment, GapFill, NextStage, Visit
    <2> QED BY <2>1 DEF QuietIsIdle
  <1>3. CASE ~Crash /\ ~Backfill
    <2>1. CASE node # "up" \/ quiet'
      BY <1>3, <2>1, OnlyBackfillWrites DEF QuietIsIdle
    <2>2. CASE node = "up" /\ ~quiet'
      <3>1. node' = "up"
        BY <1>3, <2>2, UpStaysUp
      <3> QED BY <2>2, <3>1 DEF QuietIsIdle
    <2> QED BY <2>1, <2>2
  <1> QED BY <1>1, <1>2, <1>3

\* The status loop leaves a channel derived, and one that was derived alone.
LEMMA BackfillDerives ==
    ASSUME TypeOK, KnownChannels, NEW c \in Channels, BackfillChannel(c)
    PROVE  /\ Derived(c)'
           /\ \A d \in Channels : Derived(d) => channel'[d] = channel[d]
           /\ \A d \in Channels : channel'[d].rewarded = channel[d].rewarded
  <1>1. \A d \in Channels : d # c => channel'[d] = channel[d]
    BY DEF TypeOK, BackfillChannel
  <1>2. CASE NeedsStatus(c)
    <2>1. channel' = [channel EXCEPT ![c].payout = BackfillPayoutStatus(channel[c])]
      BY <1>2 DEF BackfillChannel
    <2>2. /\ channel'[c].payout = BackfillPayoutStatus(channel[c])
          /\ channel'[c].rewarded = channel[c].rewarded
          /\ channel'[c].submitted = channel[c].submitted
          /\ channel'[c].status = channel[c].status
      BY <2>1 DEF TypeOK, ChannelRow
    <2>3. Derived(c)'
      BY <2>2 DEF Derived, BackfillPayoutStatus
    <2>4. ~Derived(c)
      BY <1>2 DEF Derived, NeedsStatus
    <2> QED BY <1>1, <2>2, <2>3, <2>4
  <1>3. CASE ~NeedsStatus(c)
    <2>1. channel' = channel
      BY <1>3 DEF BackfillChannel
    <2>2. Derived(c)
      BY <1>3 DEF Derived, NeedsStatus, KnownChannels, Exists, NoChannel, BackfillPayoutStatus
    <2> QED BY <2>1, <2>2 DEF Derived
  <1> QED BY <1>2, <1>3

LEMMA CrashKeepsDealt ==
    ASSUME DealtWith, Crash
    PROVE  DealtWith'
  <1>1. /\ node' = "channels" /\ todo' = Channels
        /\ UNCHANGED <<channel, records, tonPay, quiet>>
    BY DEF Crash
  <1> QED BY <1>1 DEF DealtWith, BackfillCompletes, RecordsOf, BackfillPayoutStatus

LEMMA CompleteSaysAll ==
    /\ BackfillCompletes <=>
          (quiet => /\ \A t \in DOMAIN tonPay : Cited(t)
                    /\ \A c \in Channels : HasRecord(c) /\ Derived(c))
    /\ BackfillCompletes' <=>
          (quiet' => /\ \A t \in DOMAIN tonPay' : Cited(t)'
                     /\ \A c \in Channels : HasRecord(c)' /\ Derived(c)')
  BY DEF BackfillCompletes, Cited, HasRecord, Derived

\* What the loops see to stays so while they go on.
LEMMA BackfillUndoesNothing ==
    ASSUME TypeOK, KnownChannels, Backfill
    PROVE  /\ UNCHANGED tonPay
           /\ \A t \in DOMAIN tonPay : Cited(t) => Cited(t)'
           /\ \A c \in Channels : HasRecord(c) => HasRecord(c)'
           /\ \A c \in Channels : Derived(c) => Derived(c)'
  <1>1. UNCHANGED tonPay
    BY DEF Backfill, BackfillChannel, CopyTonPayment, GapFill, NextStage, Visit
  <1>2. \A i \in DOMAIN records : /\ i \in DOMAIN records'
                                  /\ records'[i].ch = records[i].ch
                                  /\ records'[i].ton = records[i].ton
    BY RecordsGrow DEF Next
  <1>3. \A t \in DOMAIN tonPay : Cited(t) => Cited(t)'
    BY <1>1, <1>2 DEF Cited
  <1>4. /\ \A c \in Channels : channel'[c].rewarded = channel[c].rewarded
        /\ \A c \in Channels : Derived(c) => channel'[c] = channel[c]
    BY BackfillDerives DEF Backfill, CopyTonPayment, GapFill, NextStage
  <1>5. \A c \in Channels : HasRecord(c) => HasRecord(c)'
    BY <1>2, <1>4 DEF HasRecord, RecordsOf
  <1>6. \A c \in Channels : Derived(c) => Derived(c)'
    BY <1>4 DEF Derived, BackfillPayoutStatus
  <1> QED BY <1>1, <1>3, <1>5, <1>6

\* The payment and the channel a loop visits are seen to.
LEMMA CopyCites ==
    ASSUME TypeOK, NEW t \in DOMAIN tonPay, CopyTonPayment(t)
    PROVE  Cited(t)'
  <1>1. tonPay' = tonPay
    BY DEF CopyTonPayment, Visit
  <1>2. CASE ~tonPay[t].removed /\ ShouldCopyTonPayment(t)
    <2> DEFINE row == NewRecord(tonPay[t].ch, "TON", "paid", "ton_payment", t)
    <2>1. t \in Nat /\ tonPay[t] \in TonPayment
      BY DEF TypeOK
    <2>2. row \in PayoutRecord /\ row.ton = t
      BY <2>1 DEF TonPayment, PayoutRecord, NewRecord, RecordStatuses
    <2>3. records' = Append(records, row)
      BY <1>2 DEF CopyTonPayment
    <2> HIDE DEF row
    <2> QED BY <2>2, <2>3, AppendRecord DEF Cited
  <1>3. CASE tonPay[t].removed
    BY <1>1, <1>3 DEF Cited
  <1>4. CASE ~tonPay[t].removed /\ ~ShouldCopyTonPayment(t)
    <2>1. records' = records
      BY <1>4 DEF CopyTonPayment
    <2> QED BY <1>4, <2>1 DEF Cited, ShouldCopyTonPayment
  <1> QED BY <1>2, <1>3, <1>4

LEMMA GapFills ==
    ASSUME TypeOK, NEW c \in Channels, GapFill(c)
    PROVE  HasRecord(c)'
  <1>1. channel' = channel
    BY DEF GapFill
  <1>2. CASE channel[c].rewarded /\ ShouldGapFillRewardChannel(c)
    <2> DEFINE row == NewRecord(c, "TON", "paid", "channel_reward", 0)
    <2>1. row \in PayoutRecord /\ row.ch = c
      BY DEF PayoutRecord, NewRecord, RecordStatuses
    <2>2. records' = Append(records, row)
      BY <1>2 DEF GapFill
    <2> HIDE DEF row
    <2>3. Len(records) + 1 \in RecordsOf(c)'
      BY <2>1, <2>2, AppendRecord DEF RecordsOf
    <2> QED BY <2>3 DEF HasRecord
  <1>3. CASE ~(channel[c].rewarded /\ ShouldGapFillRewardChannel(c))
    <2>1. records' = records
      BY <1>3 DEF GapFill
    <2> QED BY <1>1, <1>3, <2>1 DEF HasRecord, ShouldGapFillRewardChannel, RecordsOf
  <1> QED BY <1>2, <1>3

LEMMA BackfillDeals ==
    ASSUME TypeOK, KnownChannels, DealtWith, Backfill
    PROVE  DealtWith'
  <1>1. ASSUME UNCHANGED quiet PROVE BackfillCompletes'
    BY <1>1, BackfillUndoesNothing, CompleteSaysAll DEF DealtWith
  <1>2. ASSUME NEW c \in Channels, BackfillChannel(c) PROVE DealtWith'
    <2>1. /\ node = "channels" /\ todo' = todo \ {c} /\ UNCHANGED <<node, quiet>>
      BY <1>2 DEF BackfillChannel, Visit
    <2>2. \A d \in Channels \ todo' : Derived(d)'
      BY <1>2, <2>1, BackfillDerives, BackfillUndoesNothing DEF DealtWith
    <2> QED BY <1>1, <2>1, <2>2 DEF DealtWith
  <1>3. ASSUME NEW t \in DOMAIN tonPay, CopyTonPayment(t) PROVE DealtWith'
    <2>1. /\ node = "payments" /\ todo' = todo \ {t} /\ UNCHANGED <<node, quiet, tonPay>>
      BY <1>3 DEF CopyTonPayment, Visit
    <2>2. \A u \in DOMAIN tonPay' \ todo' : Cited(u)'
      BY <1>3, <2>1, CopyCites, BackfillUndoesNothing DEF DealtWith
    <2>3. \A d \in Channels : Derived(d)'
      BY <2>1, BackfillUndoesNothing DEF DealtWith
    <2> QED BY <1>1, <2>1, <2>2, <2>3 DEF DealtWith
  <1>4. ASSUME NEW c \in Channels, GapFill(c) PROVE DealtWith'
    <2>1. /\ node = "rewards" /\ todo' = todo \ {c} /\ UNCHANGED <<node, quiet, tonPay>>
      BY <1>4 DEF GapFill, Visit
    <2>2. \A u \in DOMAIN tonPay' : Cited(u)'
      BY <2>1, BackfillUndoesNothing DEF DealtWith
    <2>3. \A d \in Channels : Derived(d)'
      BY <2>1, BackfillUndoesNothing DEF DealtWith
    <2>4. \A d \in Channels \ todo' : HasRecord(d)'
      BY <1>4, <2>1, GapFills, BackfillUndoesNothing DEF DealtWith
    <2> QED BY <1>1, <2>1, <2>2, <2>3, <2>4 DEF DealtWith
  <1>5. CASE NextStage
    <2>1. todo = {} /\ UNCHANGED <<channel, records, tonPay>>
      BY <1>5 DEF NextStage
    <2>2. /\ \A t \in DOMAIN tonPay : Cited(t)' <=> Cited(t)
          /\ \A c \in Channels : HasRecord(c)' <=> HasRecord(c)
          /\ \A c \in Channels : Derived(c)' <=> Derived(c)
      BY <2>1 DEF Cited, HasRecord, Derived, RecordsOf, BackfillPayoutStatus
    <2>3. CASE node = "channels" /\ node' = "payments" /\ todo' = DOMAIN tonPay /\ UNCHANGED quiet
      BY <1>1, <2>1, <2>2, <2>3 DEF DealtWith
    <2>4. CASE node = "payments" /\ node' = "rewards" /\ todo' = Channels /\ UNCHANGED quiet
      BY <1>1, <2>1, <2>2, <2>4 DEF DealtWith
    <2>5. CASE node = "rewards" /\ node' = "up"
      <3>1. /\ \A t \in DOMAIN tonPay : Cited(t)
            /\ \A c \in Channels : HasRecord(c) /\ Derived(c)
        BY <2>1, <2>5 DEF DealtWith
      <3> QED BY <2>1, <2>2, <2>5, <3>1, CompleteSaysAll DEF DealtWith
    <2> QED BY <1>5, <2>3, <2>4, <2>5 DEF NextStage
  <1> QED BY <1>2, <1>3, <1>4, <1>5 DEF Backfill

LEMMA DealtStays ==
    ASSUME TypeOK, KnownChannels, QuietIsIdle, DealtWith, [Next]_vars
    PROVE  DealtWith'
  <1>1. CASE ~Backfill /\ ~Crash /\ (node # "up" \/ quiet')
    <2>1. UNCHANGED <<channel, records, tonPay, node, todo, quiet>>
      BY <1>1, OnlyBackfillWrites
    <2> QED BY <2>1 DEF DealtWith, BackfillCompletes, Derived, Cited, HasRecord, RecordsOf,
                        BackfillPayoutStatus
  <1>2. CASE ~Backfill /\ ~Crash /\ node = "up" /\ ~quiet'
    <2>1. node' = "up"
      BY <1>2, UpStaysUp
    <2> QED BY <1>2, <2>1 DEF DealtWith, BackfillCompletes
  <1> QED BY <1>1, <1>2, CrashKeepsDealt, BackfillDeals

-----------------------------------------------------------------------------
LEMMA BackfillInvariant == Spec => [](TypeOK /\ KnownChannels /\ QuietIsIdle /\ DealtWith)
  <1>1. ASSUME Init PROVE KnownChannels /\ QuietIsIdle /\ DealtWith
    <2>1. \A c \in Channels : channel[c] \in {NoChannel, LegacyChannel}
      BY <1>1 DEF Init
    <2>2. \A t \in DOMAIN tonPay : tonPay[t].ch \in Channels /\ channel[tonPay[t].ch].rewarded
      <3>1. tonPay \in Seq(TonPayment)
        BY <1>1, InitType DEF TypeOK
      <3>2. \A t \in DOMAIN tonPay : tonPay[t] \in TonPayment
        BY <3>1
      <3>3. \A t \in DOMAIN tonPay : channel[tonPay[t].ch].rewarded
        BY <1>1 DEF Init
      <3> QED BY <3>2, <3>3 DEF TonPayment
    <2>3. KnownChannels
      BY <1>1, <2>1, <2>2 DEF Init, KnownChannels, Exists, NoChannel, LegacyChannel, Idle
    <2> QED BY <1>1, <2>3 DEF Init, QuietIsIdle, DealtWith, BackfillCompletes, Idle
  <1>2. ASSUME TypeOK, KnownChannels, QuietIsIdle, DealtWith, [Next]_vars
        PROVE  TypeOK' /\ KnownChannels' /\ QuietIsIdle' /\ DealtWith'
    BY <1>2, NextType, KnownStay, QuietStaysIdle, DealtStays
  <1> QED BY <1>1, <1>2, InitType, PTL DEF Spec

\* RewardSeedService: after a backfill that was not cut short, however many before it
\* were, every payment is cited, every rewarded channel has a record, and every payout
\* status is the derived one.
THEOREM BackfillLeavesNothingOut == Spec => []BackfillCompletes
  <1>1. DealtWith => BackfillCompletes
    BY DEF DealtWith
  <1> QED BY <1>1, BackfillInvariant, PTL

\* RewardSeedService: a backfill after a complete one, with no request in between,
\* rewrites no channel and adds no record, wherever it is cut.
THEOREM SecondRestartIsIdle == Spec => SecondRestartChangesNothing
  <1>1. ASSUME TypeOK, KnownChannels, QuietIsIdle, DealtWith, [Next]_vars
        PROVE  [quiet /\ node # "up" => UNCHANGED <<channel, records>>]_vars
    <2> SUFFICES ASSUME quiet, node # "up"
                 PROVE  UNCHANGED <<channel, records>>
      OBVIOUS
    <2>1. /\ \A t \in DOMAIN tonPay : Cited(t)
          /\ \A c \in Channels : HasRecord(c) /\ Derived(c)
      BY <1>1, CompleteSaysAll DEF DealtWith
    <2>2. ASSUME NEW c \in Channels, BackfillChannel(c)
          PROVE  UNCHANGED <<channel, records>>
      <3>1. ~NeedsStatus(c)
        BY <2>1 DEF NeedsStatus, Derived
      <3> QED BY <2>2, <3>1 DEF BackfillChannel
    <2>3. ASSUME NEW t \in DOMAIN tonPay, CopyTonPayment(t)
          PROVE  UNCHANGED <<channel, records>>
      <3>1. tonPay[t].removed \/ ~ShouldCopyTonPayment(t)
        BY <2>1 DEF Cited, ShouldCopyTonPayment
      <3> QED BY <2>3, <3>1 DEF CopyTonPayment
    <2>4. ASSUME NEW c \in Channels, GapFill(c)
          PROVE  UNCHANGED <<channel, records>>
      <3>1. ~(channel[c].rewarded /\ ShouldGapFillRewardChannel(c))
        BY <2>1 DEF HasRecord, ShouldGapFillRewardChannel
      <3> QED BY <2>4, <3>1 DEF GapFill
    <2>5. CASE ~Backfill /\ ~Crash
      BY <1>1, <2>5, OnlyBackfillWrites
    <2> QED BY <2>2, <2>3, <2>4, <2>5 DEF Backfill, NextStage, Crash
  <1> QED BY <1>1, BackfillInvariant, PTL DEF Spec, SecondRestartChangesNothing

-----------------------------------------------------------------------------
(* The dual write: for a channel whose requests came one after the other,  *)
(* the channel row, the ledger and ton_payments agree between the          *)
(* requests, and what each request still owes says how they differ during  *)
(* one.                                                                    *)

LiveTonPaid(c) == {i \in RecordsOf(c) : /\ records[i].source = "live"
                                        /\ records[i].cur = "TON"
                                        /\ records[i].everPaid}
Written(c) == {t \in DOMAIN tonPay : tonPay[t].ch = c /\ ~tonPay[t].legacy}

InStep(c) == channel[c].payout = "paid" <=> PaidOn(c) # {}
SameCount(c) == Cardinality(LiveTonPaid(c)) = Cardinality(Written(c))
RewardShown(c) == LiveTonPaid(c) # {} => channel[c].rewarded

\* One payment is still to be written.
OneShort(c) == Cardinality(LiveTonPaid(c)) = Cardinality(Written(c)) + 1

\* What a request r of the channel c that waits at its pc relies on, and what it still owes: the status,
\* one ton_payments row, the reward columns.
NotBegun == {"saveRecord", "saveEdit", "saveFinish", "saveSkip", "saveVoid"}
OwesPayment == {"loadReward", "saveReward", "createTon"}
Counted(c, r) ==
    IF r.pc \in OwesPayment THEN OneShort(c) ELSE SameCount(c) /\ RewardShown(c)
StatusDue(c, r) ==
    /\ r.pc \in NotBegun => InStep(c)
    /\ r.pc \in OwesPayment \cup {"markPaid"} => PaidOn(c) # {}
    /\ r.pc \in {"saveSkip", "reopen"} => PaidOn(c) = {}
    /\ r.pc = "countPaid" => channel[c].payout = "paid"
Carried(c, r) ==
    /\ r.pc = "saveEdit" => /\ r.row.payout = "paid" <=> channel[c].payout = "paid"
                            /\ r.row.rewarded <=> channel[c].rewarded
    /\ r.pc = "saveReward" => r.row.rewarded
    /\ r.pc = "createTon" => channel[c].rewarded
    /\ r.pc = "saveVoid" => (r.wasPaid <=> records[r.rec].status = "paid")
Midway(c, r) == Counted(c, r) /\ StatusDue(c, r) /\ Carried(c, r)

\* Between requests; a backfill may not have given the channel its first record yet.
AtRest(c) ==
    /\ SameCount(c) /\ RewardShown(c)
    /\ RecordsOf(c) # {} => InStep(c)

\* At all times.
Backed(c) ==
    /\ RecordsOf(c) = {} =>
          /\ channel[c].payout = "paid" => channel[c].rewarded
          /\ channel[c].rewarded => channel[c].payout # "skipped"
    /\ node = "up" /\ channel[c].rewarded => RecordsOf(c) # {}
    /\ \A t \in DOMAIN tonPay : tonPay[t].ch = c => channel[c].rewarded

Alone(c) == \A p, q \in Busy(c) : p = q

OnCourse(c) ==
    /\ Alone(c)
    /\ \A q \in Busy(c) : Midway(c, req[q])
    /\ Busy(c) = {} => AtRest(c)
    /\ Backed(c)

CourseKept == \A c \in Channels : disturbed[c] = {} => OnCourse(c)

\* A record that is still sending came from a request and was never paid.
SendingIsNew ==
    \A i \in DOMAIN records :
        records[i].status = "sending" => records[i].source = "live" /\ ~records[i].everPaid

-----------------------------------------------------------------------------
(* What the writes of a step do to the three tables *)

LEMMA FiniteLedger ==
    ASSUME TypeOK, NEW c \in Channels
    PROVE  IsFiniteSet(LiveTonPaid(c)) /\ IsFiniteSet(Written(c))
  <1>1. IsFiniteSet(1..Len(records)) /\ IsFiniteSet(1..Len(tonPay))
    BY FS_Interval DEF TypeOK
  <1>2. LiveTonPaid(c) \subseteq 1..Len(records) /\ Written(c) \subseteq 1..Len(tonPay)
    BY DEF TypeOK, LiveTonPaid, Written, RecordsOf
  <1> QED BY <1>1, <1>2, FS_Subset

LEMMA SameRecords ==
    ASSUME NEW c \in Channels, UNCHANGED records
    PROVE  /\ RecordsOf(c)' = RecordsOf(c)
           /\ PaidOn(c)' = PaidOn(c)
           /\ LiveTonPaid(c)' = LiveTonPaid(c)
  BY DEF RecordsOf, PaidOn, LiveTonPaid

LEMMA SamePayments ==
    ASSUME NEW c \in Channels, UNCHANGED tonPay
    PROVE  Written(c)' = Written(c)
  BY DEF Written

LEMMA NewStatus ==
    ASSUME TypeOK, NEW i \in DOMAIN records, NEW status \in RecordStatuses,
           SetStatus(i, status), NEW c \in Channels
    PROVE  /\ RecordsOf(c)' = RecordsOf(c)
           /\ i \notin RecordsOf(c) => /\ PaidOn(c)' = PaidOn(c)
                                       /\ LiveTonPaid(c)' = LiveTonPaid(c)
           /\ i \in RecordsOf(c) /\ status = "paid" => PaidOn(c)' = PaidOn(c) \cup {i}
           /\ i \in RecordsOf(c) /\ status # "paid" =>
                  /\ PaidOn(c)' = PaidOn(c) \ {i}
                  /\ LiveTonPaid(c)' = LiveTonPaid(c)
           /\ i \in RecordsOf(c) /\ status = "paid"
                /\ records[i].source = "live" /\ records[i].cur = "TON"
                => LiveTonPaid(c)' = LiveTonPaid(c) \cup {i}
           /\ i \in RecordsOf(c) /\ (records[i].source # "live" \/ records[i].cur # "TON")
                => LiveTonPaid(c)' = LiveTonPaid(c)
  <1> DEFINE new == WithStatus(records[i], status)
  <1>1. /\ new.ch = records[i].ch /\ new.source = records[i].source
        /\ new.cur = records[i].cur /\ new.status = status
    BY RecordShape DEF WithStatus, PayoutRecord
  <1>2. new.everPaid <=> records[i].everPaid \/ status = "paid"
    BY RecordShape DEF WithStatus, PayoutRecord
  <1>3. /\ DOMAIN records' = DOMAIN records
        /\ records'[i] = new
        /\ \A j \in DOMAIN records : j # i => records'[j] = records[j]
        /\ RecordsOf(c)' = RecordsOf(c)
    BY UpdateRecord
  <1> HIDE DEF new
  <1>4. ASSUME i \notin RecordsOf(c)
        PROVE  PaidOn(c)' = PaidOn(c) /\ LiveTonPaid(c)' = LiveTonPaid(c)
    BY <1>3, <1>4 DEF PaidOn, LiveTonPaid, RecordsOf
  <1>5. ASSUME i \in RecordsOf(c), status = "paid"
        PROVE  PaidOn(c)' = PaidOn(c) \cup {i}
    BY <1>1, <1>3, <1>5 DEF PaidOn, RecordsOf
  <1>6. ASSUME i \in RecordsOf(c), status # "paid"
        PROVE  PaidOn(c)' = PaidOn(c) \ {i} /\ LiveTonPaid(c)' = LiveTonPaid(c)
    <2>1. PaidOn(c)' = PaidOn(c) \ {i}
      BY <1>1, <1>3, <1>6 DEF PaidOn, RecordsOf
    <2>2. LiveTonPaid(c)' = LiveTonPaid(c)
      BY <1>1, <1>2, <1>3, <1>6 DEF LiveTonPaid, RecordsOf
    <2> QED BY <2>1, <2>2
  <1>7. ASSUME i \in RecordsOf(c), status = "paid", records[i].source = "live",
               records[i].cur = "TON"
        PROVE  LiveTonPaid(c)' = LiveTonPaid(c) \cup {i}
    BY <1>1, <1>2, <1>3, <1>7 DEF LiveTonPaid, RecordsOf
  <1>8. ASSUME i \in RecordsOf(c), records[i].source # "live" \/ records[i].cur # "TON"
        PROVE  LiveTonPaid(c)' = LiveTonPaid(c)
    BY <1>1, <1>2, <1>3, <1>8 DEF LiveTonPaid, RecordsOf
  <1> QED BY <1>3, <1>4, <1>5, <1>6, <1>7, <1>8

LEMMA NewRow ==
    ASSUME TypeOK, NEW row \in PayoutRecord, records' = Append(records, row),
           row.everPaid <=> row.status = "paid", NEW c \in Channels
    PROVE  /\ row.ch # c => /\ RecordsOf(c)' = RecordsOf(c)
                            /\ PaidOn(c)' = PaidOn(c)
                            /\ LiveTonPaid(c)' = LiveTonPaid(c)
           /\ row.ch = c => RecordsOf(c)' = RecordsOf(c) \cup {Len(records) + 1}
           /\ row.ch = c /\ row.status = "paid" =>
                  PaidOn(c)' = PaidOn(c) \cup {Len(records) + 1}
           /\ row.status # "paid" => /\ PaidOn(c)' = PaidOn(c)
                                     /\ LiveTonPaid(c)' = LiveTonPaid(c)
           /\ row.ch = c /\ row.status = "paid" /\ row.source = "live" /\ row.cur = "TON" =>
                  LiveTonPaid(c)' = LiveTonPaid(c) \cup {Len(records) + 1}
           /\ row.source # "live" \/ row.cur # "TON" => LiveTonPaid(c)' = LiveTonPaid(c)
           /\ Len(records) + 1 \notin RecordsOf(c)
  <1> DEFINE n == Len(records) + 1
  <1>1. /\ DOMAIN records' = DOMAIN records \cup {n}
        /\ \A i \in DOMAIN records : records'[i] = records[i]
        /\ records'[n] = row
    BY AppendRecord
  <1>2. n \notin DOMAIN records
    BY DEF TypeOK
  <1> HIDE DEF n
  <1>3. RecordsOf(c)' = RecordsOf(c) \cup (IF row.ch = c THEN {n} ELSE {})
    BY <1>1, <1>2 DEF RecordsOf
  <1>4. PaidOn(c)' = PaidOn(c) \cup (IF row.ch = c /\ row.status = "paid" THEN {n} ELSE {})
    BY <1>1, <1>2 DEF PaidOn, RecordsOf
  <1>5. LiveTonPaid(c)' = LiveTonPaid(c)
          \cup (IF row.ch = c /\ row.source = "live" /\ row.cur = "TON" /\ row.status = "paid"
                THEN {n} ELSE {})
    BY <1>1, <1>2 DEF LiveTonPaid, RecordsOf
  <1>6. n \notin RecordsOf(c)
    BY <1>2 DEF RecordsOf
  <1> QED BY <1>3, <1>4, <1>5, <1>6 DEF n

LEMMA NewPayment ==
    ASSUME TypeOK, NEW d \in Channels, NEW c \in Channels,
           tonPay' = Append(tonPay, [ch |-> d, legacy |-> FALSE, removed |-> FALSE])
    PROVE  /\ Written(c)' = IF c = d THEN Written(c) \cup {Len(tonPay) + 1} ELSE Written(c)
           /\ Len(tonPay) + 1 \notin Written(c)
           /\ \A t \in DOMAIN tonPay' : tonPay'[t].ch = c =>
                  c = d \/ \E u \in DOMAIN tonPay : tonPay[u].ch = c
  <1> DEFINE n == Len(tonPay) + 1
             row == [ch |-> d, legacy |-> FALSE, removed |-> FALSE]
  <1>1. row \in TonPayment /\ row.ch = d /\ ~row.legacy
    BY DEF TonPayment
  <1> HIDE DEF row
  <1>2. tonPay \in Seq(TonPayment) /\ tonPay' = Append(tonPay, row)
    BY DEF TypeOK, row
  <1>3. /\ DOMAIN tonPay' = DOMAIN tonPay \cup {n}
        /\ \A t \in DOMAIN tonPay : tonPay'[t] = tonPay[t]
        /\ tonPay'[n] = row
        /\ n \notin DOMAIN tonPay
    BY <1>1, <1>2
  <1> HIDE DEF n
  <1>4. Written(c)' = IF c = d THEN Written(c) \cup {n} ELSE Written(c)
    BY <1>1, <1>3 DEF Written
  <1>5. n \notin Written(c)
    BY <1>3 DEF Written
  <1>6. \A t \in DOMAIN tonPay' : tonPay'[t].ch = c =>
            c = d \/ \E u \in DOMAIN tonPay : tonPay[u].ch = c
    BY <1>1, <1>3
  <1> QED BY <1>4, <1>5, <1>6 DEF n

-----------------------------------------------------------------------------
(* A step and a channel *)

\* What a step leaves alone of a channel c it is not about.
Untouched(c) ==
    /\ channel'[c].payout = channel[c].payout /\ channel'[c].rewarded = channel[c].rewarded
    /\ RecordsOf(c)' = RecordsOf(c) /\ PaidOn(c)' = PaidOn(c)
    /\ LiveTonPaid(c)' = LiveTonPaid(c) /\ Written(c)' = Written(c)
    /\ \A t \in DOMAIN tonPay' : tonPay'[t].ch = c => \E u \in DOMAIN tonPay : tonPay[u].ch = c
    /\ Busy(c)' = Busy(c)
    /\ \A q \in Busy(c) :
          /\ req'[q] = req[q]
          /\ req[q].pc = "saveVoid" => records'[req[q].rec].status = records[req[q].rec].status
    /\ node' = "up" => node = "up"

LEMMA CourseUntouched ==
    ASSUME NEW c \in Channels, OnCourse(c), Untouched(c)
    PROVE  OnCourse(c)'
  <1>1. Alone(c)'
    BY DEF OnCourse, Alone, Untouched
  <1>2. /\ SameCount(c)' <=> SameCount(c)
        /\ OneShort(c)' <=> OneShort(c)
        /\ RewardShown(c)' <=> RewardShown(c)
        /\ InStep(c)' <=> InStep(c)
    BY DEF Untouched, SameCount, OneShort, RewardShown, InStep
  <1>3. ASSUME NEW q \in Busy(c)' PROVE Midway(c, req[q])'
    <2>1. q \in Busy(c) /\ req'[q] = req[q] /\ Midway(c, req[q])
      BY <1>3 DEF Untouched, OnCourse
    <2>2. Counted(c, req[q])'
      BY <1>2, <2>1 DEF Midway, Counted
    <2>3. StatusDue(c, req[q])'
      BY <1>2, <2>1 DEF Midway, StatusDue, Untouched
    <2>4. Carried(c, req[q])'
      <3>1. Carried(c, req[q])
        BY <2>1 DEF Midway
      <3>2. req[q].pc = "saveVoid" =>
                records'[req[q].rec].status = records[req[q].rec].status
        BY <2>1 DEF Untouched
      <3>3. channel'[c].payout = channel[c].payout /\ channel'[c].rewarded = channel[c].rewarded
        BY DEF Untouched
      <3> QED BY <2>1, <3>1, <3>2, <3>3 DEF Carried
    <2> QED BY <2>2, <2>3, <2>4 DEF Midway
  <1>4. Busy(c)' = {} => AtRest(c)'
    BY <1>2 DEF OnCourse, AtRest, Untouched
  <1>5. Backed(c)'
    BY DEF OnCourse, Backed, Untouched
  <1> QED BY <1>1, <1>3, <1>4, <1>5 DEF OnCourse

\* A step of the request q of c, the only one c may have, which turns it into r.
LEMMA CourseMoves ==
    ASSUME TypeOK, NEW c \in Channels, NEW q \in Requests, NEW r,
           req' = [req EXCEPT ![q] = r], Busy(c) \subseteq {q},
           r.pc = "idle" \/ r.ch = c,
           r.pc # "idle" => Midway(c, req[q])',
           r.pc = "idle" => AtRest(c)',
           Backed(c)'
    PROVE  OnCourse(c)'
  <1>1. req'[q] = r /\ \A p \in Requests : p # q => req'[p] = req[p]
    BY DEF TypeOK
  <1>2. Busy(c)' = IF r.pc = "idle" THEN {} ELSE {q}
    BY <1>1 DEF Busy
  <1> QED BY <1>2 DEF OnCourse, Alone

LEMMA Unblamed ==
    ASSUME TypeOK, NEW c \in Channels, NEW d \in Channels, NEW why,
           Mark(d, why) \/ UNCHANGED disturbed, disturbed'[c] = {}
    PROVE  disturbed[c] = {} /\ (d = c /\ Mark(d, why) => why = {})
  BY DEF TypeOK, Mark

\* A request that begins with r leaves the other channels alone.
LEMMA BeginUntouched ==
    ASSUME TypeOK, NEW q \in Requests, NEW r, NEW why, NEW d \in Channels, r.ch = d,
           Begin(q, r, why),
           UNCHANGED <<rewardsOn, channel, records, tonPay, node, todo, restarts>>,
           NEW c \in Channels, c # d
    PROVE  Untouched(c)
  <1>1. req'[q] = r /\ req[q] = Idle /\ \A p \in Requests : p # q => req'[p] = req[p]
    BY DEF TypeOK, Begin
  <1>2. Busy(c)' = Busy(c) /\ \A p \in Busy(c) : p # q /\ req'[p] = req[p]
    BY <1>1 DEF Busy, Idle
  <1> QED BY <1>2, SameRecords, SamePayments DEF Untouched

\* A request that begins in good order finds its channel at rest.
LEMMA BeginAtRest ==
    ASSUME TypeOK, NEW c \in Channels, OnCourse(c), NEW q \in Requests, NEW r, r.ch = c,
           NEW why, Begin(q, r, why), disturbed'[c] = {}
    PROVE  /\ why = {} /\ Busy(c) = {} /\ AtRest(c) /\ InStep(c) /\ disturbed[c] = {}
           /\ req' = [req EXCEPT ![q] = r] /\ node = "up"
  <1>1. why = {} /\ Busy(c) = {} /\ disturbed[c] = {}
    BY DEF TypeOK, Begin, Mark, Irregular
  <1>2. AtRest(c) /\ node = "up"
    BY <1>1 DEF OnCourse, Begin
  <1>3. InStep(c)
    <2>1. CASE RecordsOf(c) # {}
      BY <1>2, <2>1 DEF AtRest
    <2>2. CASE RecordsOf(c) = {}
      BY <1>2, <2>2 DEF OnCourse, Backed, InStep, PaidOn
    <2> QED BY <2>1, <2>2
  <1> QED BY <1>1, <1>2, <1>3 DEF Begin

\* What holds at rest holds for a request of c that has just begun with r.
LEMMA BegunOnCourse ==
    ASSUME TypeOK, NEW c \in Channels, OnCourse(c), NEW q \in Requests, NEW r, r.ch = c,
           r.pc \in NotBegun, NEW why, Begin(q, r, why), disturbed'[c] = {},
           UNCHANGED <<rewardsOn, channel, records, tonPay, node, todo, restarts>>,
           r.pc = "saveSkip" => PaidOn(c) = {},
           Carried(c, r)
    PROVE  OnCourse(c)'
  <1>1. /\ Busy(c) = {} /\ AtRest(c) /\ InStep(c) /\ req' = [req EXCEPT ![q] = r]
    BY BeginAtRest
  <1>2. req'[q] = r
    BY <1>1 DEF TypeOK
  <1>3. /\ SameCount(c)' /\ RewardShown(c)' /\ InStep(c)' /\ PaidOn(c)' = PaidOn(c)
    BY <1>1, SameRecords, SamePayments DEF AtRest, SameCount, RewardShown, InStep
  <1>4. Counted(c, req[q])'
    BY <1>2, <1>3 DEF Counted, NotBegun, OwesPayment
  <1>5. StatusDue(c, req[q])'
    BY <1>2, <1>3 DEF StatusDue, NotBegun, OwesPayment
  <1>6. Carried(c, req[q])'
    BY <1>2 DEF Carried
  <1>7. Backed(c)'
    BY SameRecords DEF OnCourse, Backed
  <1>8. r.pc # "idle"
    BY DEF NotBegun
  <1> QED BY <1>1, <1>4, <1>5, <1>6, <1>7, <1>8, CourseMoves DEF Midway

-----------------------------------------------------------------------------
(* Requests that begin *)

LEMMA BeginKeeps ==
    ASSUME TypeOK, CourseKept, NEW q \in Requests, NEW r, NEW why, NEW d \in Channels,
           r.ch = d, r.pc \in NotBegun, Begin(q, r, why),
           UNCHANGED <<rewardsOn, channel, records, tonPay, node, todo, restarts>>,
           why = {} /\ OnCourse(d) => (r.pc = "saveSkip" => PaidOn(d) = {}) /\ Carried(d, r)
    PROVE  CourseKept'
  <1> SUFFICES ASSUME NEW c \in Channels, disturbed'[c] = {} PROVE OnCourse(c)'
    BY DEF CourseKept
  <1>1. OnCourse(c)
    <2>1. disturbed[c] = {}
      BY Unblamed DEF Begin
    <2> QED BY <2>1 DEF CourseKept
  <1>2. CASE c # d
    BY <1>1, <1>2, BeginUntouched, CourseUntouched
  <1>3. CASE c = d
    <2>1. why = {}
      BY <1>1, <1>3, BeginAtRest
    <2> QED BY <1>1, <1>3, <2>1, BegunOnCourse
  <1> QED BY <1>2, <1>3

LEMMA ArriveKeeps ==
    ASSUME TypeOK, CourseKept, NEW q \in Requests, Arrive(q)
    PROVE  CourseKept'
  <1>1. ASSUME NEW c \in Channels, NEW to, LoadEdit(q, c, to)
        PROVE  CourseKept'
    <2> DEFINE row == [channel[c] EXCEPT !.status = to]
               r == [pc |-> "saveEdit", ch |-> c, row |-> row]
    <2>1. row.payout = channel[c].payout /\ row.rewarded = channel[c].rewarded
      BY DEF TypeOK, ChannelRow
    <2>2. Carried(c, r)
      BY <2>1 DEF Carried
    <2> HIDE DEF row
    <2>3. Begin(q, r, {}) /\ UNCHANGED <<rewardsOn, channel, records, tonPay, node, todo, restarts>>
      BY <1>1 DEF LoadEdit, row
    <2>4. r.ch = c /\ r.pc \in NotBegun /\ r.pc # "saveSkip"
      BY DEF NotBegun
    <2> HIDE DEF r
    <2> QED BY <2>2, <2>3, <2>4, BeginKeeps
  <1>2. ASSUME NEW c \in Channels, NEW force \in ForceChoices, SkipPayout(q, c, force)
        PROVE  CourseKept'
    <2> DEFINE r == [pc |-> "saveSkip", ch |-> c]
               why == IF force THEN Irregular ELSE {}
    <2>1. Begin(q, r, why) /\ UNCHANGED <<rewardsOn, channel, records, tonPay, node, todo, restarts>>
      BY <1>2 DEF SkipPayout
    <2>2. why = {} => PaidOn(c) = {}
      BY <1>2 DEF SkipPayout, NoBlocking, Blocking, PaidOn, IsBlocking, Irregular
    <2>3. r.ch = c /\ r.pc \in NotBegun /\ Carried(c, r)
      BY DEF NotBegun, Carried
    <2> HIDE DEF r, why
    <2> QED BY <2>1, <2>2, <2>3, BeginKeeps
  <1>3. ASSUME NEW c \in Channels, NEW cur \in Currencies, NEW status \in {"sending", "paid"},
               NEW force \in ForceChoices, RecordPayout(q, c, cur, status, force)
        PROVE  CourseKept'
    <2> DEFINE r == [pc |-> "saveRecord", ch |-> c, cur |-> cur, status |-> status]
               why == IF force \/ Opening(c) # {} THEN Doubling ELSE {}
    <2>1. Begin(q, r, why) /\ UNCHANGED <<rewardsOn, channel, records, tonPay, node, todo, restarts>>
      BY <1>3 DEF RecordPayout
    <2>2. r.ch = c /\ r.pc \in NotBegun /\ Carried(c, r) /\ r.pc # "saveSkip"
      BY DEF NotBegun, Carried
    <2> HIDE DEF r, why
    <2> QED BY <2>1, <2>2, BeginKeeps
  <1>4. ASSUME NEW i \in DOMAIN records, NEW status \in {"paid", "failed"},
               LoadFinish(q, i, status)
        PROVE  CourseKept'
    <2> DEFINE r == [pc |-> "saveFinish", ch |-> records[i].ch, rec |-> i, status |-> status]
    <2>1. Begin(q, r, {}) /\ UNCHANGED <<rewardsOn, channel, records, tonPay, node, todo, restarts>>
      BY <1>4 DEF LoadFinish
    <2>2. /\ r.ch = records[i].ch /\ r.pc \in NotBegun /\ Carried(r.ch, r) /\ r.pc # "saveSkip"
          /\ r.ch \in Channels
      BY RecordShape DEF NotBegun, Carried
    <2> HIDE DEF r
    <2> QED BY <2>1, <2>2, BeginKeeps
  <1>5. ASSUME NEW i \in DOMAIN records, VoidRecord(q, i)
        PROVE  CourseKept'
    <2> DEFINE was == records[i].status = "paid"
               r == [pc |-> "saveVoid", ch |-> records[i].ch, rec |-> i, wasPaid |-> was]
    <2>1. Begin(q, r, {}) /\ UNCHANGED <<rewardsOn, channel, records, tonPay, node, todo, restarts>>
      BY <1>5 DEF VoidRecord
    <2>2. /\ r.ch = records[i].ch /\ r.pc \in NotBegun /\ r.pc # "saveSkip"
          /\ r.ch \in Channels
      BY RecordShape DEF NotBegun
    <2>3. Carried(r.ch, r)
      BY DEF Carried
    <2> HIDE DEF r
    <2> QED BY <2>1, <2>2, <2>3, BeginKeeps
  <1> QED BY <1>1, <1>2, <1>3, <1>4, <1>5
       DEF Arrive, Approve, Reject, RefreshPreview, ConfirmRecord, FailRecord, FinishPayout

-----------------------------------------------------------------------------
(* Requests that go on *)

\* A request that goes on leaves the other channels alone.
LEMMA ProceedUntouched ==
    ASSUME TypeOK, NEW q \in Requests, Proceed(q), NEW c \in Channels, c # req[q].ch
    PROVE  Untouched(c)
  <1>1. /\ req[q] \in Request /\ req[q].pc # "idle" /\ node' = node
        /\ \E r : req' = [req EXCEPT ![q] = r] /\ (r.pc = "idle" \/ r.ch = req[q].ch)
    <2>1. req[q] \in Request
      BY DEF TypeOK
    <2>2. req[q].pc # "idle" /\ node' = node
      BY DEF Proceed, SaveEdit, SaveRecord, SaveFinish, LoadReward, SaveReward, CreateTon,
             MarkPaid, SaveSkip, SaveVoid, CountPaid, Reopen
    <2>3. \E r : req' = [req EXCEPT ![q] = r] /\ (r.pc = "idle" \/ r.ch = req[q].ch)
      <3>1. CASE SaveEdit(q) \/ MarkPaid(q) \/ SaveSkip(q) \/ Reopen(q)
        BY <3>1 DEF SaveEdit, MarkPaid, SaveSkip, Reopen, Finished, Continue, Idle
      <3>2. CASE SaveRecord(q) \/ SaveFinish(q)
        BY <3>2 DEF SaveRecord, SaveFinish, DualWrite, Continue, Idle
      <3>3. CASE LoadReward(q) \/ SaveReward(q) \/ CreateTon(q)
        BY <3>3 DEF LoadReward, SaveReward, CreateTon, Continue
      <3>4. CASE SaveVoid(q) \/ CountPaid(q)
        BY <3>4 DEF SaveVoid, CountPaid, Continue, Idle
      <3> QED BY <3>1, <3>2, <3>3, <3>4 DEF Proceed
    <2> QED BY <2>1, <2>2, <2>3
  <1>2. req[q].ch \in Channels
    BY <1>1 DEF Request, SettlePc
  <1>3. Busy(c)' = Busy(c) /\ \A p \in Busy(c) : p # q /\ req'[p] = req[p]
    BY <1>1 DEF Busy, TypeOK
  <1>4. channel'[c] = channel[c]
    BY <1>2 DEF TypeOK, Proceed, SaveEdit, SaveRecord, SaveFinish, LoadReward, SaveReward,
                CreateTon, MarkPaid, SaveSkip, SaveVoid, CountPaid, Reopen
  <1>5. /\ Written(c)' = Written(c)
        /\ \A t \in DOMAIN tonPay' : tonPay'[t].ch = c => \E u \in DOMAIN tonPay : tonPay[u].ch = c
    <2>1. CASE CreateTon(q)
      BY <1>2, <2>1, NewPayment DEF CreateTon
    <2>2. CASE UNCHANGED tonPay
      BY <2>2, SamePayments
    <2> QED BY <2>1, <2>2 DEF Proceed, SaveEdit, SaveRecord, SaveFinish, LoadReward,
                              SaveReward, MarkPaid, SaveSkip, SaveVoid, CountPaid, Reopen
  <1>6. /\ RecordsOf(c)' = RecordsOf(c) /\ PaidOn(c)' = PaidOn(c)
        /\ LiveTonPaid(c)' = LiveTonPaid(c)
        /\ \A i \in RecordsOf(c) : records'[i] = records[i]
    <2>1. CASE SaveRecord(q)
      <3> DEFINE row == NewRecord(req[q].ch, req[q].cur, req[q].status, "live", 0)
      <3>1. row \in PayoutRecord /\ row.ch = req[q].ch /\ (row.everPaid <=> row.status = "paid")
        <4>1. req[q].cur \in Currencies /\ req[q].status \in {"sending", "paid"}
          BY <1>1, <2>1 DEF SaveRecord, Request, SettlePc
        <4> QED BY <1>2, <4>1 DEF NewRecord, PayoutRecord, RecordStatuses
      <3>2. records' = Append(records, row)
        BY <2>1 DEF SaveRecord
      <3> HIDE DEF row
      <3> QED BY <3>1, <3>2, NewRow, AppendRecord DEF RecordsOf
    <2>2. CASE SaveFinish(q) \/ SaveVoid(q)
      <3>1. PICK i \in DOMAIN records, status \in RecordStatuses :
                SetStatus(i, status) /\ i \in RecordsOf(req[q].ch)
        <4>1. req[q].rec \in RecordsOf(req[q].ch)
          BY <2>2 DEF TypeOK, OwnRecord, SaveFinish, SaveVoid
        <4>2. req[q].pc = "saveFinish" => req[q].status \in RecordStatuses
          BY <1>1 DEF Request, SettlePc, RecordStatuses
        <4> QED BY <2>2, <4>1, <4>2 DEF SaveFinish, SaveVoid, RecordStatuses, RecordsOf
      <3>2. i \notin RecordsOf(c)
        BY <3>1 DEF RecordsOf
      <3> QED BY <3>1, <3>2, NewStatus, UpdateRecord DEF RecordsOf
    <2>3. CASE UNCHANGED records
      BY <2>3, SameRecords
    <2> QED BY <2>1, <2>2, <2>3 DEF Proceed, SaveEdit, LoadReward, SaveReward, CreateTon,
                                    MarkPaid, SaveSkip, CountPaid, Reopen
  <1>7. \A p \in Busy(c) : req[p].pc = "saveVoid" =>
            records'[req[p].rec].status = records[req[p].rec].status
    BY <1>6 DEF Busy, TypeOK, OwnRecord
  <1> QED BY <1>1, <1>3, <1>4, <1>5, <1>6, <1>7 DEF Untouched

\* What a request knows of its own channel as it goes on.
LEMMA OwnCourse ==
    ASSUME TypeOK, NEW q \in Requests, req[q].pc # "idle", OnCourse(req[q].ch)
    PROVE  /\ req[q] \in Request /\ req[q].ch \in Channels /\ Busy(req[q].ch) \subseteq {q}
           /\ Midway(req[q].ch, req[q]) /\ Backed(req[q].ch)
  <1>1. req[q] \in Request /\ req[q].ch \in Channels
    BY DEF TypeOK, Request, SettlePc
  <1>2. q \in Busy(req[q].ch)
    BY DEF Busy
  <1> QED BY <1>1, <1>2 DEF OnCourse, Alone

LEMMA SaveEditCourse ==
    ASSUME TypeOK, NEW q \in Requests, NEW c \in Channels, c = req[q].ch, OnCourse(c),
           SaveEdit(q), node = "up"
    PROVE  OnCourse(c)'
  <1>1. /\ req[q].pc = "saveEdit" /\ channel'[c] = req[q].row
        /\ req' = [req EXCEPT ![q] = Idle] /\ UNCHANGED <<records, tonPay, node>>
    BY DEF SaveEdit, Finished, Continue, TypeOK
  <1>2. Busy(c) \subseteq {q} /\ Midway(c, req[q]) /\ Backed(c)
    BY <1>1, OwnCourse
  <1>3. /\ SameCount(c) /\ RewardShown(c) /\ InStep(c)
        /\ req[q].row.payout = "paid" <=> channel[c].payout = "paid"
        /\ req[q].row.rewarded <=> channel[c].rewarded
    BY <1>1, <1>2 DEF Midway, Counted, StatusDue, Carried, NotBegun, OwesPayment
  <1>4. AtRest(c)'
    BY <1>1, <1>3, SameRecords, SamePayments DEF AtRest, SameCount, RewardShown, InStep
  <1>5. Backed(c)'
    BY <1>1, <1>2, <1>3, SameRecords DEF Backed
  <1> QED BY <1>1, <1>2, <1>4, <1>5, CourseMoves DEF Idle

LEMMA SaveRecordCourse ==
    ASSUME TypeOK, NEW q \in Requests, NEW c \in Channels, c = req[q].ch, OnCourse(c),
           SaveRecord(q)
    PROVE  OnCourse(c)'
  <1> DEFINE row == NewRecord(req[q].ch, req[q].cur, req[q].status, "live", 0)
             next == IF req[q].status = "paid" THEN DualWrite(c, req[q].cur) ELSE Idle
  <1>1. /\ req[q].pc = "saveRecord" /\ records' = Append(records, row)
        /\ req' = [req EXCEPT ![q] = next] /\ UNCHANGED <<channel, tonPay, node>>
    BY DEF SaveRecord, Continue
  <1>2. Busy(c) \subseteq {q} /\ Midway(c, req[q]) /\ Backed(c) /\ req[q] \in Request
    BY <1>1, OwnCourse
  <1>3. SameCount(c) /\ RewardShown(c) /\ InStep(c)
    BY <1>1, <1>2 DEF Midway, Counted, StatusDue, NotBegun, OwesPayment
  <1>4. /\ row \in PayoutRecord /\ row.ch = c /\ (row.everPaid <=> row.status = "paid")
        /\ row.source = "live" /\ row.cur = req[q].cur /\ row.status = req[q].status
        /\ row.status \in {"sending", "paid"}
    <2>1. req[q].cur \in Currencies /\ req[q].status \in {"sending", "paid"}
      BY <1>1, <1>2 DEF Request, SettlePc
    <2> QED BY <2>1 DEF NewRecord, PayoutRecord, RecordStatuses
  <1> HIDE DEF row
  <1>5. Backed(c)'
    BY <1>1, <1>2, <1>4, NewRow DEF Backed
  <1>6. Written(c)' = Written(c)
    BY <1>1, SamePayments
  <1>7. CASE req[q].status = "sending"
    <2>1. next = Idle /\ PaidOn(c)' = PaidOn(c) /\ LiveTonPaid(c)' = LiveTonPaid(c)
      BY <1>1, <1>4, <1>7, NewRow
    <2>2. AtRest(c)'
      BY <1>1, <1>3, <1>6, <2>1 DEF AtRest, SameCount, RewardShown, InStep
    <2> HIDE DEF next
    <2> QED BY <1>1, <1>2, <1>5, <2>1, <2>2, CourseMoves DEF Idle
  <1>8. CASE req[q].status = "paid" /\ req[q].cur = "TON"
    <2>1. next = [pc |-> "loadReward", ch |-> c]
      BY <1>8 DEF DualWrite
    <2>2. /\ PaidOn(c)' # {} /\ LiveTonPaid(c)' = LiveTonPaid(c) \cup {Len(records) + 1}
          /\ Len(records) + 1 \notin LiveTonPaid(c)
      BY <1>1, <1>4, <1>8, NewRow DEF LiveTonPaid
    <2>3. OneShort(c)'
      <3>1. Cardinality(LiveTonPaid(c)') = Cardinality(LiveTonPaid(c)) + 1
        BY <2>2, FiniteLedger, FS_AddElement
      <3> QED BY <1>3, <1>6, <3>1 DEF OneShort, SameCount
    <2> HIDE DEF next
    <2>4. req'[q] = [pc |-> "loadReward", ch |-> c]
      BY <1>1, <2>1 DEF TypeOK
    <2>5. Midway(c, req[q])'
      BY <2>2, <2>3, <2>4 DEF Midway, Counted, StatusDue, Carried, NotBegun, OwesPayment
    <2> QED BY <1>1, <1>2, <1>5, <2>1, <2>5, CourseMoves
  <1>9. CASE req[q].status = "paid" /\ req[q].cur # "TON"
    <2>1. next = [pc |-> "markPaid", ch |-> c]
      BY <1>9 DEF DualWrite
    <2>2. PaidOn(c)' # {} /\ LiveTonPaid(c)' = LiveTonPaid(c)
      BY <1>1, <1>4, <1>9, NewRow
    <2>3. SameCount(c)' /\ RewardShown(c)'
      BY <1>1, <1>3, <1>6, <2>2 DEF SameCount, RewardShown
    <2> HIDE DEF next
    <2>4. req'[q] = [pc |-> "markPaid", ch |-> c]
      BY <1>1, <2>1 DEF TypeOK
    <2>5. Midway(c, req[q])'
      BY <2>2, <2>3, <2>4 DEF Midway, Counted, StatusDue, Carried, NotBegun, OwesPayment
    <2> QED BY <1>1, <1>2, <1>5, <2>1, <2>5, CourseMoves
  <1> QED BY <1>4, <1>7, <1>8, <1>9

LEMMA SaveFinishCourse ==
    ASSUME TypeOK, SendingIsNew, NEW q \in Requests, NEW c \in Channels, c = req[q].ch,
           OnCourse(c), SaveFinish(q), disturbed'[c] = {}
    PROVE  OnCourse(c)'
  <1> DEFINE i == req[q].rec
             next == IF req[q].status = "paid" THEN DualWrite(c, records[i].cur) ELSE Idle
  <1>1. /\ req[q].pc = "saveFinish" /\ SetStatus(i, req[q].status)
        /\ req' = [req EXCEPT ![q] = next] /\ UNCHANGED <<channel, tonPay, node>>
        /\ SettleCause(records[i].status, req[q].status) = {}
    BY Unblamed DEF SaveFinish, Continue, Mark, TypeOK
  <1>2. Busy(c) \subseteq {q} /\ Midway(c, req[q]) /\ Backed(c) /\ req[q] \in Request
    BY <1>1, OwnCourse
  <1>3. SameCount(c) /\ RewardShown(c) /\ InStep(c)
    BY <1>1, <1>2 DEF Midway, Counted, StatusDue, NotBegun, OwesPayment
  <1>4. /\ i \in RecordsOf(c) /\ i \in DOMAIN records
        /\ req[q].status \in {"paid", "failed"} /\ req[q].status \in RecordStatuses
    BY <1>1, <1>2 DEF TypeOK, OwnRecord, Request, SettlePc, RecordStatuses, RecordsOf
  <1>5. records[i].status # "paid" /\ (req[q].status = "paid" => records[i].status = "sending")
    <2>1. records[i].status \in RecordStatuses
      BY <1>4, RecordShape DEF PayoutRecord
    <2> QED BY <1>1, <1>4, <2>1 DEF SettleCause, Doubling, Irregular, RecordStatuses
  <1>6. i \notin PaidOn(c)
    BY <1>5 DEF PaidOn
  <1> HIDE DEF i
  <1>7. Backed(c)'
    BY <1>1, <1>2, <1>4, NewStatus DEF Backed
  <1>8. Written(c)' = Written(c)
    BY <1>1, SamePayments
  <1>9. CASE req[q].status = "failed"
    <2>1. /\ next = Idle /\ PaidOn(c)' = PaidOn(c) /\ LiveTonPaid(c)' = LiveTonPaid(c)
          /\ RecordsOf(c)' = RecordsOf(c)
      BY <1>1, <1>4, <1>6, <1>9, NewStatus
    <2>2. AtRest(c)'
      BY <1>1, <1>3, <1>8, <2>1 DEF AtRest, SameCount, RewardShown, InStep
    <2> HIDE DEF next
    <2> QED BY <1>1, <1>2, <1>7, <2>1, <2>2, CourseMoves DEF Idle
  <1>10. CASE req[q].status = "paid" /\ records[i].cur = "TON"
    <2>1. next = [pc |-> "loadReward", ch |-> c]
      BY <1>10 DEF DualWrite
    <2>2. records[i].source = "live" /\ i \notin LiveTonPaid(c)
      BY <1>4, <1>5, <1>10 DEF SendingIsNew, LiveTonPaid
    <2>3. PaidOn(c)' # {} /\ LiveTonPaid(c)' = LiveTonPaid(c) \cup {i}
      BY <1>1, <1>4, <1>10, <2>2, NewStatus
    <2>4. OneShort(c)'
      <3>1. Cardinality(LiveTonPaid(c)') = Cardinality(LiveTonPaid(c)) + 1
        BY <2>2, <2>3, FiniteLedger, FS_AddElement
      <3> QED BY <1>3, <1>8, <3>1 DEF OneShort, SameCount
    <2> HIDE DEF next
    <2>5. req'[q] = [pc |-> "loadReward", ch |-> c]
      BY <1>1, <2>1 DEF TypeOK
    <2>6. Midway(c, req[q])'
      BY <2>3, <2>4, <2>5 DEF Midway, Counted, StatusDue, Carried, NotBegun, OwesPayment
    <2> QED BY <1>1, <1>2, <1>7, <2>1, <2>6, CourseMoves
  <1>11. CASE req[q].status = "paid" /\ records[i].cur # "TON"
    <2>1. next = [pc |-> "markPaid", ch |-> c]
      BY <1>11 DEF DualWrite
    <2>2. PaidOn(c)' # {} /\ LiveTonPaid(c)' = LiveTonPaid(c)
      BY <1>1, <1>4, <1>11, NewStatus
    <2>3. SameCount(c)' /\ RewardShown(c)'
      BY <1>1, <1>3, <1>8, <2>2 DEF SameCount, RewardShown
    <2> HIDE DEF next
    <2>4. req'[q] = [pc |-> "markPaid", ch |-> c]
      BY <1>1, <2>1 DEF TypeOK
    <2>5. Midway(c, req[q])'
      BY <2>2, <2>3, <2>4 DEF Midway, Counted, StatusDue, Carried, NotBegun, OwesPayment
    <2> QED BY <1>1, <1>2, <1>7, <2>1, <2>5, CourseMoves
  <1> QED BY <1>4, <1>9, <1>10, <1>11

LEMMA RewardCourse ==
    ASSUME TypeOK, NEW q \in Requests, NEW c \in Channels, c = req[q].ch, OnCourse(c),
           LoadReward(q) \/ SaveReward(q) \/ CreateTon(q)
    PROVE  OnCourse(c)'
  <1>1. Busy(c) \subseteq {q} /\ Midway(c, req[q]) /\ Backed(c) /\ req[q] \in Request
    BY OwnCourse DEF LoadReward, SaveReward, CreateTon
  <1>2. /\ PaidOn(c) # {} /\ OneShort(c) /\ UNCHANGED <<records, node>>
        /\ req[q].pc \in OwesPayment
    BY <1>1 DEF LoadReward, SaveReward, CreateTon, Midway, Counted, StatusDue, OwesPayment
  <1>3. /\ RecordsOf(c)' = RecordsOf(c) /\ PaidOn(c)' = PaidOn(c)
        /\ LiveTonPaid(c)' = LiveTonPaid(c) /\ RecordsOf(c) # {}
    BY <1>2, SameRecords DEF PaidOn
  <1>4. CASE LoadReward(q)
    <2> DEFINE row == [channel[c] EXCEPT !.rewarded = TRUE]
               r == [pc |-> "saveReward", ch |-> c, row |-> row]
    <2>1. row.rewarded
      BY DEF TypeOK, ChannelRow
    <2>2. req' = [req EXCEPT ![q] = r] /\ UNCHANGED <<channel, tonPay>>
      BY <1>4 DEF LoadReward, Continue
    <2> HIDE DEF row
    <2>3. req'[q] = r
      BY <2>2 DEF TypeOK
    <2>4. OneShort(c)'
      BY <1>2, <1>3, <2>2, SamePayments DEF OneShort
    <2>5. Midway(c, req[q])'
      BY <1>2, <1>3, <2>1, <2>3, <2>4
         DEF Midway, Counted, StatusDue, Carried, NotBegun, OwesPayment
    <2>6. Backed(c)'
      BY <1>1, <1>2, <1>3, <2>2 DEF Backed
    <2> QED BY <1>1, <2>2, <2>5, <2>6, CourseMoves
  <1>5. CASE SaveReward(q)
    <2> DEFINE r == [pc |-> "createTon", ch |-> c]
    <2>1. /\ req' = [req EXCEPT ![q] = r] /\ channel'[c] = req[q].row /\ UNCHANGED tonPay
          /\ req[q].pc = "saveReward"
      BY <1>5 DEF SaveReward, Continue, TypeOK
    <2>2. req'[q] = r
      BY <2>1 DEF TypeOK
    <2>3. channel'[c].rewarded
      BY <1>1, <2>1 DEF Midway, Carried
    <2>4. OneShort(c)'
      BY <1>2, <1>3, <2>1, SamePayments DEF OneShort
    <2>5. Midway(c, req[q])'
      BY <1>2, <1>3, <2>2, <2>3, <2>4
         DEF Midway, Counted, StatusDue, Carried, NotBegun, OwesPayment
    <2>6. Backed(c)'
      BY <1>1, <1>2, <1>3, <2>1, <2>3 DEF Backed
    <2> QED BY <1>1, <2>1, <2>5, <2>6, CourseMoves
  <1>6. CASE CreateTon(q)
    <2> DEFINE r == [pc |-> "markPaid", ch |-> c]
               n == Len(tonPay) + 1
    <2>1. /\ req' = [req EXCEPT ![q] = r] /\ UNCHANGED channel
          /\ tonPay' = Append(tonPay, [ch |-> c, legacy |-> FALSE, removed |-> FALSE])
          /\ req[q].pc = "createTon"
      BY <1>6 DEF CreateTon, Continue
    <2>2. req'[q] = r
      BY <2>1 DEF TypeOK
    <2>3. channel[c].rewarded
      BY <1>1, <2>1 DEF Midway, Carried
    <2>4. Written(c)' = Written(c) \cup {n} /\ n \notin Written(c)
      BY <2>1, NewPayment
    <2> HIDE DEF n
    <2>5. Cardinality(Written(c)') = Cardinality(Written(c)) + 1
      BY <2>4, FiniteLedger, FS_AddElement
    <2>6. SameCount(c)' /\ RewardShown(c)'
      BY <1>2, <1>3, <2>1, <2>3, <2>5 DEF OneShort, SameCount, RewardShown
    <2>7. Midway(c, req[q])'
      BY <1>2, <1>3, <2>2, <2>6 DEF Midway, Counted, StatusDue, Carried, NotBegun, OwesPayment
    <2>8. Backed(c)'
      BY <1>2, <1>3, <2>1, <2>3 DEF Backed
    <2> QED BY <1>1, <2>1, <2>7, <2>8, CourseMoves
  <1> QED BY <1>4, <1>5, <1>6

LEMMA StatusCourse ==
    ASSUME TypeOK, NEW q \in Requests, NEW c \in Channels, c = req[q].ch, OnCourse(c),
           MarkPaid(q) \/ SaveSkip(q) \/ Reopen(q), node = "up"
    PROVE  OnCourse(c)'
  <1>1. Busy(c) \subseteq {q} /\ Midway(c, req[q]) /\ Backed(c) /\ req[q] \in Request
    BY OwnCourse DEF MarkPaid, SaveSkip, Reopen
  <1>2. /\ req' = [req EXCEPT ![q] = Idle] /\ UNCHANGED <<records, tonPay, node>>
        /\ req[q].pc \in {"markPaid", "saveSkip", "reopen"}
    BY DEF MarkPaid, SaveSkip, Reopen, Finished, Continue
  <1>3. /\ RecordsOf(c)' = RecordsOf(c) /\ PaidOn(c)' = PaidOn(c)
        /\ LiveTonPaid(c)' = LiveTonPaid(c) /\ Written(c)' = Written(c)
    BY <1>2, SameRecords, SamePayments
  <1>4. SameCount(c) /\ RewardShown(c)
    BY <1>1, <1>2 DEF Midway, Counted, OwesPayment
  <1>5. PaidOn(c) # {} <=> req[q].pc = "markPaid"
    BY <1>1, <1>2 DEF Midway, StatusDue
  <1>6. /\ channel'[c].payout = "paid" <=> req[q].pc = "markPaid"
        /\ channel'[c].rewarded = channel[c].rewarded
    <2>1. channel[c] \in ChannelRow /\ channel \in [Channels -> ChannelRow]
      BY DEF TypeOK
    <2>2. PICK p \in PayoutStatuses : /\ channel' = [channel EXCEPT ![c].payout = p]
                                      /\ p = "paid" <=> req[q].pc = "markPaid"
      BY DEF MarkPaid, SaveSkip, Reopen, PayoutStatuses
    <2>3. channel'[c] = [channel[c] EXCEPT !.payout = p]
      BY <2>1, <2>2
    <2>4. channel'[c].payout = p /\ channel'[c].rewarded = channel[c].rewarded
      BY <2>1, <2>3 DEF ChannelRow
    <2> QED BY <2>2, <2>4
  <1>7. AtRest(c)'
    BY <1>3, <1>4, <1>5, <1>6 DEF AtRest, SameCount, RewardShown, InStep
  <1>8. PaidOn(c) # {} => RecordsOf(c) # {}
    BY DEF PaidOn
  <1>9. Backed(c)'
    BY <1>1, <1>2, <1>3, <1>5, <1>6, <1>8 DEF Backed
  <1> QED BY <1>1, <1>2, <1>7, <1>9, CourseMoves DEF Idle

LEMMA VoidCourse ==
    ASSUME TypeOK, NEW q \in Requests, NEW c \in Channels, c = req[q].ch, OnCourse(c),
           SaveVoid(q) \/ CountPaid(q)
    PROVE  OnCourse(c)'
  <1>1. Busy(c) \subseteq {q} /\ Midway(c, req[q]) /\ Backed(c) /\ req[q] \in Request
    BY OwnCourse DEF SaveVoid, CountPaid
  <1>2. /\ UNCHANGED <<channel, tonPay, node>> /\ Written(c)' = Written(c)
        /\ req[q].pc \in {"saveVoid", "countPaid"}
    BY SamePayments DEF SaveVoid, CountPaid
  <1>3. SameCount(c) /\ RewardShown(c)
    BY <1>1, <1>2 DEF Midway, Counted, OwesPayment
  <1>4. CASE SaveVoid(q)
    <2> DEFINE i == req[q].rec
               next == IF req[q].wasPaid THEN [pc |-> "countPaid", ch |-> c] ELSE Idle
    <2>1. /\ SetStatus(i, "void") /\ req' = [req EXCEPT ![q] = next]
          /\ req[q].pc = "saveVoid"
      BY <1>4 DEF SaveVoid, Continue
    <2>2. i \in RecordsOf(c) /\ i \in DOMAIN records
      BY <2>1 DEF TypeOK, OwnRecord, RecordsOf
    <2>3. InStep(c) /\ (req[q].wasPaid <=> records[i].status = "paid")
      BY <1>1, <2>1 DEF Midway, StatusDue, Carried, NotBegun
    <2>4. i \in PaidOn(c) <=> records[i].status = "paid"
      BY <2>2 DEF PaidOn
    <2> HIDE DEF i
    <2>5. /\ RecordsOf(c)' = RecordsOf(c) /\ PaidOn(c)' = PaidOn(c) \ {i}
          /\ LiveTonPaid(c)' = LiveTonPaid(c)
      BY <2>1, <2>2, NewStatus DEF RecordStatuses
    <2>6. SameCount(c)' /\ RewardShown(c)' /\ Backed(c)'
      BY <1>1, <1>2, <1>3, <2>5 DEF SameCount, RewardShown, Backed
    <2>7. CASE req[q].wasPaid
      <3>1. next = [pc |-> "countPaid", ch |-> c]
        BY <2>7
      <3> HIDE DEF next
      <3>2. req'[q] = [pc |-> "countPaid", ch |-> c]
        BY <2>1, <3>1 DEF TypeOK
      <3>3. channel'[c].payout = "paid"
        BY <1>2, <2>3, <2>4, <2>7 DEF InStep
      <3>4. Midway(c, req[q])'
        BY <2>6, <3>2, <3>3 DEF Midway, Counted, StatusDue, Carried, NotBegun, OwesPayment
      <3> QED BY <1>1, <2>1, <2>6, <3>1, <3>4, CourseMoves
    <2>8. CASE ~req[q].wasPaid
      <3>1. next = Idle
        BY <2>8
      <3> HIDE DEF next
      <3>2. PaidOn(c)' = PaidOn(c)
        BY <2>3, <2>4, <2>5, <2>8
      <3>3. AtRest(c)'
        BY <1>2, <2>3, <2>6, <3>2 DEF AtRest, InStep
      <3> QED BY <1>1, <2>1, <2>6, <3>1, <3>3, CourseMoves DEF Idle
    <2> QED BY <2>7, <2>8
  <1>5. CASE CountPaid(q)
    <2> DEFINE next == IF PaidOn(c) = {} THEN [pc |-> "reopen", ch |-> c] ELSE Idle
    <2>1. /\ req' = [req EXCEPT ![q] = next] /\ UNCHANGED records
          /\ req[q].pc = "countPaid"
      BY <1>5 DEF CountPaid, Continue
    <2>2. /\ RecordsOf(c)' = RecordsOf(c) /\ PaidOn(c)' = PaidOn(c)
          /\ LiveTonPaid(c)' = LiveTonPaid(c)
      BY <2>1, SameRecords
    <2>3. SameCount(c)' /\ RewardShown(c)' /\ Backed(c)'
      BY <1>1, <1>2, <1>3, <2>2 DEF SameCount, RewardShown, Backed
    <2>4. channel'[c].payout = "paid"
      BY <1>1, <1>2, <2>1 DEF Midway, StatusDue
    <2>5. CASE PaidOn(c) = {}
      <3>1. next = [pc |-> "reopen", ch |-> c]
        BY <2>5
      <3> HIDE DEF next
      <3>2. req'[q] = [pc |-> "reopen", ch |-> c]
        BY <2>1, <3>1 DEF TypeOK
      <3>3. Midway(c, req[q])'
        BY <2>2, <2>3, <2>5, <3>2 DEF Midway, Counted, StatusDue, Carried, NotBegun, OwesPayment
      <3> QED BY <1>1, <2>1, <2>3, <3>1, <3>3, CourseMoves
    <2>6. CASE PaidOn(c) # {}
      <3>1. next = Idle
        BY <2>6
      <3> HIDE DEF next
      <3>2. AtRest(c)'
        BY <2>2, <2>3, <2>4, <2>6 DEF AtRest, InStep
      <3> QED BY <1>1, <2>1, <2>3, <3>1, <3>2, CourseMoves DEF Idle
    <2> QED BY <2>5, <2>6
  <1> QED BY <1>4, <1>5

LEMMA ProceedKeeps ==
    ASSUME TypeOK, QuietIsIdle, SendingIsNew, CourseKept, NEW q \in Requests, Proceed(q)
    PROVE  CourseKept'
  <1> SUFFICES ASSUME NEW c \in Channels, disturbed'[c] = {} PROVE OnCourse(c)'
    BY DEF CourseKept
  <1>1. disturbed[c] = {}
    <2>1. CASE SaveFinish(q)
      <3>1. req[q].ch \in Channels
        BY <2>1 DEF SaveFinish, TypeOK, Request, SettlePc
      <3> QED BY <2>1, <3>1, Unblamed DEF SaveFinish
    <2>2. CASE UNCHANGED disturbed
      BY <2>2
    <2> QED BY <2>1, <2>2 DEF Proceed, SaveEdit, SaveRecord, LoadReward, SaveReward, CreateTon,
                              MarkPaid, SaveSkip, SaveVoid, CountPaid, Reopen
  <1>2. OnCourse(c)
    BY <1>1 DEF CourseKept
  <1>3. node = "up"
    BY DEF QuietIsIdle, Proceed, SaveEdit, SaveRecord, SaveFinish, LoadReward, SaveReward,
           CreateTon, MarkPaid, SaveSkip, SaveVoid, CountPaid, Reopen
  <1>4. CASE c # req[q].ch
    BY <1>2, <1>4, ProceedUntouched, CourseUntouched
  <1>5. CASE c = req[q].ch
    BY <1>2, <1>3, <1>5, SaveEditCourse, SaveRecordCourse, SaveFinishCourse, RewardCourse,
       StatusCourse, VoidCourse DEF Proceed
  <1> QED BY <1>4, <1>5

-----------------------------------------------------------------------------
(* Steps of no request *)

LEMMA TableStepKeeps ==
    ASSUME TypeOK, KnownChannels, CourseKept,
           \/ SetEnabled
           \/ \E c \in Channels : Submit(c) \/ ClearSubmitter(c)
           \/ \E t \in DOMAIN tonPay : RemoveTonPayment(t)
    PROVE  CourseKept'
  <1> SUFFICES ASSUME NEW c \in Channels, disturbed'[c] = {} PROVE OnCourse(c)'
    BY DEF CourseKept
  <1>1. UNCHANGED <<records, node, req, disturbed>>
    BY DEF SetEnabled, Submit, ClearSubmitter, RemoveTonPayment
  <1>2. OnCourse(c) /\ Busy(c)' = Busy(c)
    BY <1>1 DEF CourseKept, Busy
  <1>3. CASE Submit(c)
    <2>1. channel[c] = NoChannel /\ ~Exists(c)
      BY <1>3 DEF Submit, Exists, NoChannel
    <2>2. RecordsOf(c) = {} /\ Busy(c) = {} /\ \A t \in DOMAIN tonPay : tonPay[t].ch # c
      BY <2>1 DEF KnownChannels, RecordsOf, Busy
    <2>3. UNCHANGED tonPay /\ channel'[c].payout # "paid" /\ ~channel'[c].rewarded
      BY <1>3 DEF Submit, TypeOK, PayoutStatusForSubmission
    <2>4. AtRest(c)'
      <3>1. AtRest(c)
        BY <1>2, <2>2 DEF OnCourse
      <3>2. LiveTonPaid(c) = {}
        BY <2>2 DEF LiveTonPaid
      <3> QED BY <1>1, <2>2, <2>3, <3>1, <3>2, SameRecords, SamePayments
              DEF AtRest, SameCount, RewardShown
    <2>5. Backed(c)'
      BY <2>2, <2>3 DEF Backed
    <2> QED BY <1>2, <2>2, <2>4, <2>5 DEF OnCourse, Alone
  <1>4. CASE ~Submit(c)
    <2>1. channel'[c].payout = channel[c].payout /\ channel'[c].rewarded = channel[c].rewarded
      <3>1. ASSUME NEW d \in Channels, Submit(d), d # c PROVE channel'[c] = channel[c]
        BY <3>1 DEF Submit, TypeOK
      <3>2. ASSUME NEW d \in Channels, ClearSubmitter(d)
            PROVE  /\ channel'[c].payout = channel[c].payout
                   /\ channel'[c].rewarded = channel[c].rewarded
        BY <3>2 DEF ClearSubmitter, TypeOK, ChannelRow
      <3> QED BY <1>4, <3>1, <3>2 DEF SetEnabled, RemoveTonPayment
    <2>2. /\ Written(c)' = Written(c)
          /\ \A t \in DOMAIN tonPay' : tonPay'[t].ch = c =>
                \E u \in DOMAIN tonPay : tonPay[u].ch = c
      <3>1. ASSUME NEW t \in DOMAIN tonPay, RemoveTonPayment(t)
            PROVE  /\ DOMAIN tonPay' = DOMAIN tonPay
                   /\ \A u \in DOMAIN tonPay : /\ tonPay'[u].ch = tonPay[u].ch
                                               /\ tonPay'[u].legacy = tonPay[u].legacy
        <4> DEFINE new == [tonPay[t] EXCEPT !.removed = TRUE]
        <4>1. tonPay \in Seq(TonPayment) /\ tonPay[t] \in TonPayment
          BY DEF TypeOK
        <4>2. new.ch = tonPay[t].ch /\ new.legacy = tonPay[t].legacy
          BY <4>1 DEF TonPayment
        <4>3. tonPay' = [tonPay EXCEPT ![t] = new]
          BY <3>1 DEF RemoveTonPayment
        <4> HIDE DEF new
        <4> QED BY <4>1, <4>2, <4>3
      <3>2. CASE \E t \in DOMAIN tonPay : RemoveTonPayment(t)
        BY <3>1, <3>2 DEF Written
      <3>3. CASE UNCHANGED tonPay
        BY <3>3 DEF Written
      <3> QED BY <3>2, <3>3 DEF SetEnabled, Submit, ClearSubmitter
    <2> QED BY <1>1, <1>2, <2>1, <2>2, SameRecords, CourseUntouched DEF Untouched
  <1> QED BY <1>3, <1>4

LEMMA CrashKeeps ==
    ASSUME TypeOK, CourseKept, Crash
    PROVE  CourseKept'
  <1> SUFFICES ASSUME NEW c \in Channels, disturbed'[c] = {} PROVE OnCourse(c)'
    BY DEF CourseKept
  <1>1. disturbed[c] = {} /\ Busy(c) = {}
    BY DEF Crash, Irregular
  <1>2. OnCourse(c) /\ AtRest(c)
    BY <1>1 DEF CourseKept, OnCourse
  <1>3. UNCHANGED <<channel, records, tonPay>> /\ Busy(c)' = {} /\ node' = "channels"
    BY DEF Crash, Busy, Idle
  <1>4. AtRest(c)'
    BY <1>2, <1>3, SameRecords, SamePayments DEF AtRest, SameCount, RewardShown, InStep
  <1>5. Backed(c)'
    BY <1>2, <1>3, SameRecords DEF OnCourse, Backed
  <1> QED BY <1>3, <1>4, <1>5 DEF OnCourse, Alone

\* A backfill gives a channel without records the status that its reward columns ask for
\* before it copies a payment or fills a gap, and disturbs one that has records.
LEMMA BackfillKeeps ==
    ASSUME TypeOK, KnownChannels, QuietIsIdle, DealtWith, CourseKept, Backfill
    PROVE  CourseKept'
  <1> SUFFICES ASSUME NEW c \in Channels, disturbed'[c] = {} PROVE OnCourse(c)'
    BY DEF CourseKept
  <1>1. node # "up" /\ UNCHANGED <<req, tonPay>>
    BY DEF TypeOK, Backfill, BackfillChannel, GapFill, CopyTonPayment, NextStage, Visit
  <1>2. Busy(c) = {} /\ Busy(c)' = {}
    BY <1>1 DEF QuietIsIdle, Busy
  <1>3. Written(c)' = Written(c)
    BY <1>1, SamePayments
  <1>4. ASSUME NEW d \in Channels, BackfillChannel(d)
        PROVE  OnCourse(c)'
    <2>1. UNCHANGED records /\ node' # "up"
      BY <1>1, <1>4 DEF BackfillChannel, Visit
    <2>2. disturbed[c] = {}
      BY <1>4, Unblamed DEF BackfillChannel, Rewritten
    <2>3. OnCourse(c) /\ AtRest(c)
      BY <1>2, <2>2 DEF CourseKept, OnCourse
    <2>4. CASE channel'[c] = channel[c]
      <3>1. AtRest(c)'
        BY <1>3, <2>1, <2>3, <2>4, SameRecords DEF AtRest, SameCount, RewardShown, InStep
      <3>2. Backed(c)'
        BY <1>1, <2>1, <2>3, <2>4, SameRecords DEF OnCourse, Backed
      <3> QED BY <1>2, <3>1, <3>2 DEF OnCourse, Alone
    <2>5. CASE channel'[c] # channel[c]
      <3>1. /\ d = c /\ Rewritten(c)
            /\ channel' = [channel EXCEPT ![c].payout = BackfillPayoutStatus(channel[c])]
        BY <1>4, <2>5 DEF BackfillChannel, TypeOK
      <3>2. RecordsOf(c) = {}
        BY <3>1, Unblamed DEF Rewritten, Irregular
      <3>3. /\ channel'[c].payout = BackfillPayoutStatus(channel[c])
            /\ channel'[c].rewarded = channel[c].rewarded
        BY <3>1 DEF TypeOK, ChannelRow
      <3>4. AtRest(c)'
        BY <1>3, <2>1, <2>3, <3>2, <3>3, SameRecords DEF AtRest, SameCount, RewardShown
      <3>5. /\ channel'[c].payout = "paid" => channel'[c].rewarded
            /\ channel'[c].payout # "skipped"
        BY <3>3 DEF BackfillPayoutStatus
      <3>6. Backed(c)'
        BY <1>1, <2>1, <2>3, <3>2, <3>3, <3>5, SameRecords DEF OnCourse, Backed
      <3> QED BY <1>2, <3>4, <3>6 DEF OnCourse, Alone
    <2> QED BY <2>4, <2>5
  <1>5. ASSUME NEW row \in PayoutRecord, records' = Append(records, row), row.status = "paid",
               row.everPaid, row.source # "live", UNCHANGED channel,
               OnCourse(c), node' = node,
               row.ch = c => RecordsOf(c) = {} /\ channel[c].rewarded /\ Derived(c)
        PROVE  OnCourse(c)'
    <2>1. LiveTonPaid(c)' = LiveTonPaid(c) /\ AtRest(c)
      BY <1>2, <1>5, NewRow DEF OnCourse
    <2>2. SameCount(c)' /\ RewardShown(c)'
      BY <1>3, <1>5, <2>1 DEF AtRest, SameCount, RewardShown
    <2>3. CASE row.ch # c
      <3>1. RecordsOf(c)' = RecordsOf(c) /\ PaidOn(c)' = PaidOn(c)
        BY <1>5, <2>3, NewRow
      <3>2. AtRest(c)'
        BY <1>5, <2>1, <2>2, <3>1 DEF AtRest, InStep
      <3>3. Backed(c)'
        BY <1>1, <1>5, <3>1 DEF OnCourse, Backed
      <3> QED BY <1>2, <3>2, <3>3 DEF OnCourse, Alone
    <2>4. CASE row.ch = c
      <3>1. RecordsOf(c)' # {} /\ PaidOn(c)' # {}
        BY <1>5, <2>4, NewRow
      <3>2. channel[c].payout = "paid"
        BY <1>5, <2>4 DEF Derived, BackfillPayoutStatus, OnCourse, Backed
      <3>3. AtRest(c)'
        BY <1>5, <2>2, <3>1, <3>2 DEF AtRest, InStep
      <3>4. Backed(c)'
        BY <1>1, <1>5, <3>1 DEF OnCourse, Backed
      <3> QED BY <1>2, <3>3, <3>4 DEF OnCourse, Alone
    <2> QED BY <2>3, <2>4
  <1>6. ASSUME OnCourse(c), UNCHANGED <<channel, records>>,
               node' = "up" => node = "rewards" /\ todo = {}
        PROVE  OnCourse(c)'
    <2>1. AtRest(c)'
      BY <1>2, <1>3, <1>6, SameRecords DEF OnCourse, AtRest, SameCount, RewardShown, InStep
    <2>2. node' = "up" => HasRecord(c)
      BY <1>6 DEF DealtWith
    <2>3. Backed(c)'
      BY <1>1, <1>6, <2>2, SameRecords DEF OnCourse, Backed, HasRecord
    <2> QED BY <1>2, <2>1, <2>3 DEF OnCourse, Alone
  <1>7. ASSUME NEW t \in DOMAIN tonPay, CopyTonPayment(t)
        PROVE  OnCourse(c)'
    <2> DEFINE row == NewRecord(tonPay[t].ch, "TON", "paid", "ton_payment", t)
    <2>1. tonPay[t] \in TonPayment /\ tonPay[t].ch \in Channels /\ t \in Nat
      <3>1. tonPay[t] \in TonPayment /\ t \in Nat
        BY DEF TypeOK
      <3> QED BY <3>1 DEF TonPayment
    <2>2. OnCourse(c)
      <3>1. disturbed[c] = {}
        BY <1>7, <2>1, Unblamed DEF CopyTonPayment, Rewritten
      <3> QED BY <3>1 DEF CourseKept
    <2>3. /\ row \in PayoutRecord /\ row.ch = tonPay[t].ch /\ row.status = "paid"
          /\ row.everPaid /\ row.source # "live"
      BY <2>1 DEF PayoutRecord, NewRecord, RecordStatuses
    <2>4. node = "payments" /\ node' = node /\ UNCHANGED channel
      BY <1>7 DEF CopyTonPayment, Visit
    <2>5. CASE UNCHANGED records
      BY <1>1, <1>6, <2>2, <2>4, <2>5
    <2>6. CASE ~UNCHANGED records
      <3>1. records' = Append(records, row) /\ Rewritten(tonPay[t].ch)
        BY <1>7, <2>6 DEF CopyTonPayment
      <3>2. tonPay[t].ch = c => RecordsOf(c) = {} /\ channel[c].rewarded /\ Derived(c)
        <4>1. tonPay[t].ch = c => RecordsOf(c) = {}
          BY <2>1, <3>1, Unblamed DEF Rewritten, Irregular
        <4>2. tonPay[t].ch = c => channel[c].rewarded
          BY <2>2 DEF OnCourse, Backed
        <4> QED BY <2>4, <4>1, <4>2 DEF DealtWith
      <3> HIDE DEF row
      <3> QED BY <1>5, <2>2, <2>3, <2>4, <3>1, <3>2
    <2> QED BY <2>5, <2>6
  <1>8. ASSUME NEW d \in Channels, GapFill(d)
        PROVE  OnCourse(c)'
    <2> DEFINE row == NewRecord(d, "TON", "paid", "channel_reward", 0)
    <2>1. OnCourse(c)
      BY <1>8 DEF GapFill, CourseKept
    <2>2. /\ row \in PayoutRecord /\ row.ch = d /\ row.status = "paid"
          /\ row.everPaid /\ row.source # "live"
      BY DEF PayoutRecord, NewRecord, RecordStatuses
    <2>3. node = "rewards" /\ node' = node /\ UNCHANGED channel
      BY <1>8 DEF GapFill, Visit
    <2>4. CASE UNCHANGED records
      BY <1>1, <1>6, <2>1, <2>3, <2>4
    <2>5. CASE ~UNCHANGED records
      <3>1. /\ records' = Append(records, row) /\ channel[d].rewarded
            /\ RecordsOf(d) = {} /\ Derived(d)
        BY <1>8, <2>3, <2>5 DEF GapFill, ShouldGapFillRewardChannel, DealtWith
      <3> HIDE DEF row
      <3> QED BY <1>5, <2>1, <2>2, <2>3, <3>1
    <2> QED BY <2>4, <2>5
  <1>9. ASSUME NextStage
        PROVE  OnCourse(c)'
    <2>1. UNCHANGED <<channel, records, disturbed>> /\ (node' = "up" => node = "rewards" /\ todo = {})
      BY <1>1, <1>9 DEF NextStage
    <2> QED BY <1>6, <2>1 DEF CourseKept
  <1> QED BY <1>4, <1>7, <1>8, <1>9 DEF Backfill

-----------------------------------------------------------------------------
LEMMA SendingNext == TypeOK /\ SendingIsNew /\ [Next]_vars => SendingIsNew'
  <1> SUFFICES ASSUME TypeOK, SendingIsNew, [Next]_vars PROVE SendingIsNew'
    OBVIOUS
  <1>1. CASE UNCHANGED records
    BY <1>1 DEF SendingIsNew
  <1>2. ASSUME NEW row \in PayoutRecord, records' = Append(records, row),
               row.status = "sending" => row.source = "live" /\ ~row.everPaid
        PROVE  SendingIsNew'
    BY <1>2, AppendRecord DEF SendingIsNew
  <1>3. ASSUME NEW i \in DOMAIN records, NEW status \in RecordStatuses, status # "sending",
               SetStatus(i, status)
        PROVE  SendingIsNew'
    <2>1. WithStatus(records[i], status).status = status
      BY RecordShape DEF WithStatus, PayoutRecord
    <2> QED BY <1>3, <2>1, UpdateRecord DEF SendingIsNew
  <1>4. ASSUME NEW q \in Requests, SaveRecord(q) PROVE SendingIsNew'
    <2> DEFINE row == NewRecord(req[q].ch, req[q].cur, req[q].status, "live", 0)
    <2>1. req[q] \in Request /\ req[q].pc = "saveRecord"
      BY <1>4 DEF TypeOK, SaveRecord
    <2>2. req[q].ch \in Channels /\ req[q].cur \in Currencies /\ req[q].status \in {"sending", "paid"}
      BY <2>1 DEF Request, SettlePc
    <2>3. row \in PayoutRecord /\ row.source = "live" /\ (row.status = "sending" => ~row.everPaid)
      BY <2>2 DEF PayoutRecord, NewRecord, RecordStatuses
    <2>4. records' = Append(records, row)
      BY <1>4 DEF SaveRecord
    <2> HIDE DEF row
    <2> QED BY <1>2, <2>3, <2>4
  <1>5. ASSUME NEW q \in Requests, SaveFinish(q) \/ SaveVoid(q) PROVE SendingIsNew'
    <2>1. req[q] \in Request /\ OwnRecord(q) /\ req[q].pc \in {"saveFinish", "saveVoid"}
      BY <1>5 DEF TypeOK, SaveFinish, SaveVoid
    <2>2. req[q].rec \in DOMAIN records
      BY <2>1 DEF OwnRecord, RecordsOf
    <2>3. req[q].pc = "saveFinish" => req[q].status \in {"paid", "failed"}
      BY <2>1 DEF Request, SettlePc
    <2> QED BY <1>3, <1>5, <2>2, <2>3 DEF SaveFinish, SaveVoid, RecordStatuses
  <1>6. ASSUME NEW t \in DOMAIN tonPay, CopyTonPayment(t), ~UNCHANGED records PROVE SendingIsNew'
    <2> DEFINE row == NewRecord(tonPay[t].ch, "TON", "paid", "ton_payment", t)
    <2>1. t \in Nat /\ tonPay[t] \in TonPayment
      BY DEF TypeOK
    <2>2. row \in PayoutRecord /\ row.status = "paid"
      BY <2>1 DEF TonPayment, PayoutRecord, NewRecord, RecordStatuses
    <2>3. records' = Append(records, row)
      BY <1>6 DEF CopyTonPayment
    <2> HIDE DEF row
    <2> QED BY <1>2, <2>2, <2>3
  <1>7. ASSUME NEW c \in Channels, GapFill(c), ~UNCHANGED records PROVE SendingIsNew'
    <2> DEFINE row == NewRecord(c, "TON", "paid", "channel_reward", 0)
    <2>1. row \in PayoutRecord /\ row.status = "paid"
      BY DEF PayoutRecord, NewRecord, RecordStatuses
    <2>2. records' = Append(records, row)
      BY <1>7 DEF GapFill
    <2> HIDE DEF row
    <2> QED BY <1>2, <2>1, <2>2
  <1>8. ASSUME NEW q \in Requests, Arrive(q) PROVE UNCHANGED records
    BY <1>8 DEF Arrive, Approve, Reject, RefreshPreview, LoadEdit, SkipPayout, RecordPayout,
                ConfirmRecord, FailRecord, FinishPayout, LoadFinish, VoidRecord
  <1>9. ASSUME NEW q \in Requests, Proceed(q), ~SaveRecord(q), ~SaveFinish(q), ~SaveVoid(q)
        PROVE UNCHANGED records
    BY <1>9 DEF Proceed, SaveEdit, LoadReward, SaveReward, CreateTon, MarkPaid, SaveSkip,
                CountPaid, Reopen
  <1> QED BY <1>1, <1>4, <1>5, <1>6, <1>7, <1>8, <1>9
          DEF Next, vars, Submit, ClearSubmitter, SetEnabled, RemoveTonPayment, Crash,
              Backfill, BackfillChannel, NextStage

LEMMA CourseNext ==
    ASSUME TypeOK, KnownChannels, QuietIsIdle, DealtWith, SendingIsNew, CourseKept, [Next]_vars
    PROVE  CourseKept'
  <1>1. CASE UNCHANGED vars
    <2> SUFFICES ASSUME NEW c \in Channels, disturbed'[c] = {} PROVE OnCourse(c)'
      BY DEF CourseKept
    <2>1. OnCourse(c) /\ UNCHANGED <<channel, records, tonPay, node, req>>
      BY <1>1 DEF CourseKept, vars
    <2>2. Busy(c)' = Busy(c)
      BY <2>1 DEF Busy
    <2> QED BY <2>1, <2>2, SameRecords, SamePayments, CourseUntouched DEF Untouched
  <1>2. CASE Next
    BY <1>2, ArriveKeeps, ProceedKeeps, TableStepKeeps, CrashKeeps, BackfillKeeps DEF Next
  <1> QED BY <1>1, <1>2

LEMMA CourseInit == Init => CourseKept /\ SendingIsNew
  <1> SUFFICES ASSUME Init PROVE CourseKept /\ SendingIsNew
    OBVIOUS
  <1>1. SendingIsNew
    BY DEF Init, SendingIsNew
  <1>2. ASSUME NEW c \in Channels PROVE OnCourse(c)
    <2>1. tonPay \in Seq(TonPayment) /\ records = <<>> /\ node = "channels"
      BY InitType DEF TypeOK, Init
    <2>2. \A t \in DOMAIN tonPay : tonPay[t].legacy /\ channel[tonPay[t].ch].rewarded
      <3>1. PICK n \in 0..MaxLegacy : tonPay \in [1..n -> LegacyPayment]
        BY DEF Init
      <3>2. \A t \in DOMAIN tonPay : tonPay[t] \in LegacyPayment
        BY <3>1
      <3>3. \A t \in DOMAIN tonPay : channel[tonPay[t].ch].rewarded
        BY DEF Init
      <3> QED BY <3>2, <3>3 DEF LegacyPayment
    <2>3. RecordsOf(c) = {} /\ LiveTonPaid(c) = {} /\ Written(c) = {} /\ Busy(c) = {}
      BY <2>1, <2>2 DEF Init, RecordsOf, LiveTonPaid, Written, Busy, Idle
    <2>4. channel[c].payout = "not_eligible"
      BY DEF Init, NoChannel, LegacyChannel
    <2>5. AtRest(c)
      BY <2>3 DEF AtRest, SameCount, RewardShown
    <2>6. Backed(c)
      BY <2>1, <2>2, <2>4 DEF Backed
    <2> QED BY <2>3, <2>5, <2>6 DEF OnCourse, Alone
  <1> QED BY <1>1, <1>2 DEF CourseKept

LEMMA CourseInvariant == Spec => [](CourseKept /\ SendingIsNew)
  <1>1. ASSUME TypeOK, KnownChannels, QuietIsIdle, DealtWith, CourseKept, SendingIsNew, [Next]_vars
        PROVE  CourseKept' /\ SendingIsNew'
    BY <1>1, CourseNext, SendingNext
  <1> QED BY <1>1, CourseInit, BackfillInvariant, PTL DEF Spec

\* dualWritePaid, skipPayout and voidRecord leave the channel and the ledger in step:
\* between the requests of a channel that came one after the other, it says paid exactly
\* when the ledger holds a paid record, whatever backfills came in between.
THEOREM StatusAlwaysMatches == Spec => []StatusMatchesLedger
  <1>1. ASSUME CourseKept PROVE StatusMatchesLedger
    <2> SUFFICES ASSUME NEW c \in Channels, Settled(c) PROVE InStep(c)
      BY DEF StatusMatchesLedger, InStep
    <2>1. OnCourse(c) /\ AtRest(c) /\ node = "up"
      BY <1>1 DEF CourseKept, OnCourse, Settled
    <2>2. CASE RecordsOf(c) # {}
      BY <2>1, <2>2 DEF AtRest
    <2>3. CASE RecordsOf(c) = {}
      BY <2>1, <2>3 DEF OnCourse, Backed, InStep, PaidOn
    <2> QED BY <2>2, <2>3
  <1> QED BY <1>1, CourseInvariant, PTL

\* dualWritePaid writes one ton_payments row for each TON record that is paid and no
\* other, and sets the reward columns.
THEOREM DualWritesExact == Spec => []DualWriteExactlyOnce
  <1>1. ASSUME CourseKept PROVE DualWriteExactlyOnce
    <2>1. \A c \in Channels : Settled(c) => SameCount(c) /\ RewardShown(c)
      BY <1>1 DEF CourseKept, OnCourse, Settled, AtRest
    <2> QED BY <2>1 DEF DualWriteExactlyOnce, SameCount, RewardShown, LiveTonPaid, Written
  <1> QED BY <1>1, CourseInvariant, PTL
=============================================================================
