--------------------------- MODULE CollectRunProofs ---------------------------
(***************************************************************************)
(* What holds of a collection for any channels, workers and desks, and any *)
(* number of runs, timeouts and failures: every round is a collection      *)
(* pool, verdicts are earned, and of a chat one row stays visible.         *)
(***************************************************************************)
EXTENDS CollectRun, FiniteSetTheorems, TLAPS

-----------------------------------------------------------------------------
(* Shape *)

Attempt == [at : Ats, c : Channels \cup {NoChannel}, how : Hows, s : Row, old : BOOLEAN, live : SUBSET Channels]
RoundState == [mode : Rounds \cup {"idle"}, then : {"idle", "light", "retry"}, left : SUBSET Channels,
               total : Nat, ok : Nat, fail : Nat, over : BOOLEAN]
WorkerState == {"off", "loop", "busy"}

\* Rows, attempts and histories have their types; an attempt is about a channel.
Books ==
    /\ row \in [Channels -> Row]
    /\ att \in [Slots -> Attempt]
    /\ \A p \in Slots : att[p].at # "none" => att[p].c \in Channels
    /\ cooling \in BOOLEAN
    /\ misses \in [Channels -> 0..GoneAfter]
    /\ empties \in [Channels -> 0..GoneAfter]
    /\ raced \in [Channels -> BOOLEAN]
    /\ mixed \subseteq {Chat[c] : c \in Channels}
    /\ used \in [runs : Nat, beside : Nat]

\* A worker is busy with the attempt in its hand, and between rounds no worker does
\* anything.
Crew ==
    /\ run \in RoundState
    /\ wk \in [Workers -> WorkerState]
    /\ \A w \in Workers : wk[w] = "busy" <=> att[<<w, "hand">>].at # "none"
    /\ run.mode = "idle" => \A w \in Workers : wk[w] = "off"

LEMMA ShapeIsType == Books /\ Crew => TypeOK
  <1> SUFFICES ASSUME Books, Crew PROVE TypeOK
    OBVIOUS
  <1>2. \A w \in Workers : (wk[w] = "busy") = (att[<<w, "hand">>].at # "none")
    BY DEF Crew
  <1>3. \A p \in Slots : /\ att[p].at \in Ats /\ att[p].how \in Hows /\ att[p].s \in Row
                         /\ att[p].c \in Channels \cup {NoChannel} /\ att[p].live \subseteq Channels
    BY DEF Books, Attempt
  <1>4. /\ run.mode \in Rounds \cup {"idle"} /\ run.then \in {"idle", "light", "retry"}
        /\ run.left \subseteq Channels /\ run.over \in BOOLEAN
        /\ {run.total, run.ok, run.fail} \subseteq Nat
    BY DEF Crew, RoundState
  <1>5. \A w \in Workers : wk[w] \in {"off", "loop", "busy"}
    BY DEF Crew, WorkerState
  <1> QED
    BY <1>2, <1>3, <1>4, <1>5 DEF Books, TypeOK

LEMMA RowExists == NoAttempt.s \in Row
  <1>1. [kind |-> "channel", status |-> "none", error |-> "none", gone |-> 0, seen |-> FALSE, due |-> FALSE] \in Row
    BY DEF Row, Kinds, Statuses, Errors, GoneAfter
  <1>2. (CHOOSE r \in Row : TRUE) \in Row
    BY <1>1
  <1> QED
    BY <1>2 DEF NoAttempt

LEMMA NoAttemptTyped == NoAttempt \in Attempt /\ NoAttempt.at = "none"
  <1>1. (CHOOSE r \in Row : TRUE) \in Row
    BY RowExists DEF NoAttempt
  <1> QED
    BY <1>1 DEF NoAttempt, Attempt, Ats, Hows

LEMMA NoRoundTyped == NoRound \in RoundState
  BY DEF NoRound, RoundState, Rounds

LEMMA CappedTyped == ASSUME NEW n \in Nat PROVE Capped(n) \in 0..GoneAfter /\ (n < GoneAfter => Capped(n) = n)
  BY DEF Capped, GoneAfter

\* An answer says nothing of a kind that is none.
LEMMA KindsSaid ==
    ASSUME NEW a, a.c \in Channels, a.s \in Row
    PROVE  KindSaid(a) \subseteq Kinds
  <1>1. RealKind[a.c] \in Kinds /\ a.s.kind \in Kinds
    BY CollectAssumption DEF Row
  <1> QED
    BY <1>1 DEF KindSaid

\* What an attempt may make of a row is a row.
LEMMA RowsTyped ==
    ASSUME NEW s \in Row
    PROVE  /\ Success(s) \in Row
           /\ Missing(s) \in Row
           /\ \A status \in Statuses, error \in Errors : Failed(s, status, error) \in Row
           /\ \A o \in {"ok", "missing"} \cup Verdicts : Outcome(s, o) \in Row
           /\ \A e \in Errors : MissError(e) \in Errors
           /\ \A k \in Kinds : [s EXCEPT !.kind = k] \in Row
           /\ \A e \in Errors : [s EXCEPT !.error = e] \in Row /\ [s EXCEPT !.error = e, !.due = FALSE] \in Row
           /\ [s EXCEPT !.due = TRUE] \in Row
           /\ [s EXCEPT !.status = "merged"] \in Row
  <1>1. Success(s) \in Row
    <2>1. "ok" \in Statuses /\ "none" \in Errors /\ 0 \in 0..GoneAfter
      BY DEF Statuses, Errors, GoneAfter
    <2> QED
      BY <2>1 DEF Success, Row
  <1>2. Missing(s) \in Row
    <2>1. s.gone + 1 \in Nat
      BY DEF Row, GoneAfter
    <2>2. Capped(s.gone + 1) \in 0..GoneAfter
      BY <2>1, CappedTyped
    <2>3. (IF s.gone + 1 >= GoneAfter THEN "gone" ELSE "failed") \in Statuses /\ "other" \in Errors
      BY DEF Statuses, Errors
    <2> HIDE DEF Statuses, Errors
    <2> QED
      BY <2>2, <2>3 DEF Missing, Row
  <1>3. \A status \in Statuses, error \in Errors : Failed(s, status, error) \in Row
    BY DEF Failed, Row
  <1>4. \A o \in {"ok", "missing"} \cup Verdicts : Outcome(s, o) \in Row
    <2>1. Verdicts \subseteq {"failed", "private", "invalid", "expired", "later"}
      BY CollectAssumption
    <2>2. [s EXCEPT !.due = FALSE] \in Row
      BY DEF Row
    <2>3. {"failed", "private", "invalid", "expired"} \subseteq Statuses /\ "other" \in Errors
      BY DEF Statuses, Errors
    <2> QED
      BY <1>1, <1>2, <1>3, <2>1, <2>2, <2>3 DEF Outcome
  <1>5. \A e \in Errors : MissError(e) \in Errors
    BY DEF MissError, Errors
  <1>6. /\ \A k \in Kinds : [s EXCEPT !.kind = k] \in Row
        /\ \A e \in Errors : [s EXCEPT !.error = e] \in Row /\ [s EXCEPT !.error = e, !.due = FALSE] \in Row
        /\ [s EXCEPT !.due = TRUE] \in Row
        /\ [s EXCEPT !.status = "merged"] \in Row
    BY DEF Row, Statuses
  <1> QED
    BY <1>1, <1>2, <1>3, <1>4, <1>5, <1>6

-----------------------------------------------------------------------------
(* What a step does to the attempts and to the hands *)

\* Nothing begins or ends in the hands other than p.
OthersStay(p) == \A q \in (Workers \X {"hand"}) \ {p} : (att'[q].at = "none") = (att[q].at = "none")

\* The attempt in slot p is over, or goes on.
Ends(p) == /\ att[p].at # "none" /\ att'[p].at = "none" /\ OthersStay(p)
           /\ Over(p, TRUE) \/ Over(p, FALSE)
Lasts(p) == att[p].at # "none" /\ att'[p].at # "none" /\ OthersStay(p) /\ UNCHANGED <<run, wk>>

LEMMA HandsAreSlots == \A w \in Workers : <<w, "hand">> \in Slots /\ <<w, "stray">> \in Slots
  BY DEF Slots

LEMMA AgedTyped ==
    ASSUME Books, NEW p \in Slots, NEW c
    PROVE  /\ Aged(att, p, c) \in [Slots -> Attempt]
           /\ \A q \in Slots : /\ Aged(att, p, c)[q].at = att[q].at /\ Aged(att, p, c)[q].c = att[q].c
                               /\ Aged(att, p, c)[q].how = att[q].how /\ Aged(att, p, c)[q].s = att[q].s
                               /\ Aged(att, p, c)[q].live = att[q].live
                               /\ ~Aged(att, p, c)[q].old => ~att[q].old /\ ~(q # p /\ att[q].c = c)
  <1>1. ASSUME NEW q \in Slots
        PROVE  /\ [att[q] EXCEPT !.old = TRUE] \in Attempt
               /\ [att[q] EXCEPT !.old = TRUE].old = TRUE
               /\ [att[q] EXCEPT !.old = TRUE].at = att[q].at /\ [att[q] EXCEPT !.old = TRUE].c = att[q].c
               /\ [att[q] EXCEPT !.old = TRUE].how = att[q].how /\ [att[q] EXCEPT !.old = TRUE].s = att[q].s
               /\ [att[q] EXCEPT !.old = TRUE].live = att[q].live
    <2>1. att[q] \in Attempt
      BY DEF Books
    <2> QED
      BY <2>1 DEF Attempt
  <1>2. \A q \in Slots : Aged(att, p, c)[q] = IF q # p /\ att[q].c = c THEN [att[q] EXCEPT !.old = TRUE] ELSE att[q]
    BY DEF Aged
  <1>3. \A q \in Slots : att[q] \in Attempt
    BY DEF Books
  <1>4. Aged(att, p, c) \in [Slots -> Attempt]
    BY <1>1, <1>3 DEF Aged
  <1> QED
    BY <1>1, <1>2, <1>4

LEMMA AgedSame ==
    ASSUME Books, NEW p \in Slots, NEW c, NEW q \in Slots
    PROVE  /\ Aged(att, p, c)[q].at = att[q].at /\ Aged(att, p, c)[q].c = att[q].c
           /\ Aged(att, p, c)[q].how = att[q].how /\ Aged(att, p, c)[q].s = att[q].s
           /\ Aged(att, p, c)[q].live = att[q].live
  BY AgedTyped

\* A write leaves the types as they are, and of the other attempts everything but the age.
LEMMA WriteTyped ==
    ASSUME Books, NEW p \in Slots, att[p].at # "none", NEW r \in Row,
           NEW next \in Attempt, next.at # "none" => next.c \in Channels,
           NEW m \in 0..GoneAfter, NEW e \in 0..GoneAfter, Write(p, r, next, m, e)
    PROVE  /\ row' \in [Channels -> Row]
           /\ att' \in [Slots -> Attempt]
           /\ \A q \in Slots : att'[q].at # "none" => att'[q].c \in Channels
           /\ misses' \in [Channels -> 0..GoneAfter]
           /\ empties' \in [Channels -> 0..GoneAfter]
           /\ raced' \in [Channels -> BOOLEAN]
           /\ att'[p] = next
           /\ OthersStay(p)
  <1> DEFINE c == att[p].c
             good == r.status = "ok" /\ r.error = "none"
  <1>1. c \in Channels /\ 0 \in 0..GoneAfter
    BY DEF Books, GoneAfter
  <1>2. row' = [row EXCEPT ![c] = r] /\ att' = [Aged(att, p, c) EXCEPT ![p] = next]
    BY DEF Write
  <1>3. misses' = [misses EXCEPT ![c] = IF good THEN 0 ELSE m] /\ empties' = [empties EXCEPT ![c] = e]
    BY DEF Write
  <1>4. raced' = [raced EXCEPT ![c] = ~(good /\ next.at # "mark") /\ (@ \/ att[p].old)]
    BY DEF Write
  <1> HIDE DEF c, good
  <1>5. row' \in [Channels -> Row]
    BY <1>1, <1>2 DEF Books
  <1>6. /\ att' \in [Slots -> Attempt] /\ att'[p] = next
        /\ \A q \in Slots \ {p} : att'[q] = Aged(att, p, c)[q]
    BY <1>2, AgedTyped
  <1>7. \A q \in Slots : att'[q].at # "none" => att'[q].c \in Channels
    BY <1>6, AgedTyped DEF Books
  <1>8. misses' \in [Channels -> 0..GoneAfter]
    BY <1>1, <1>3 DEF Books
  <1>9. empties' \in [Channels -> 0..GoneAfter]
    BY <1>1, <1>3 DEF Books
  <1>10. raced' \in [Channels -> BOOLEAN]
    <2>1. (~(good /\ next.at # "mark") /\ (raced[c] \/ att[p].old)) \in BOOLEAN
      OBVIOUS
    <2>2. raced' = [raced EXCEPT ![c] = (~(good /\ next.at # "mark") /\ (raced[c] \/ att[p].old))]
      BY <1>1, <1>4 DEF Books
    <2> QED
      BY <2>1, <2>2 DEF Books
  <1>11. OthersStay(p)
    <2>1. \A q \in (Workers \X {"hand"}) \ {p} : q \in Slots \ {p}
      BY DEF Slots
    <2>2. \A q \in Slots \ {p} : att'[q].at = att[q].at
      BY <1>6, AgedTyped
    <2> QED
      BY <2>1, <2>2 DEF OthersStay
  <1> QED
    BY <1>5, <1>6, <1>7, <1>8, <1>9, <1>10, <1>11

\* So does a change of the attempt alone.
LEMMA AlterTyped ==
    ASSUME Books, NEW p \in Slots, NEW next \in Attempt, next.at # "none" => next.c \in Channels,
           att' = [att EXCEPT ![p] = next]
    PROVE  /\ att' \in [Slots -> Attempt]
           /\ \A q \in Slots : att'[q].at # "none" => att'[q].c \in Channels
           /\ att'[p] = next /\ OthersStay(p)
  <1>1. att'[p] = next /\ \A q \in Slots \ {p} : att'[q] = att[q]
    BY DEF Books
  <1> QED
    BY <1>1, HandsAreSlots DEF Books, OthersStay

\* Only one step in an attempt's life concerns its worker: the last.
LEMMA EveryStep ==
    ASSUME Books, NEW p \in Slots, Step(p)
    PROVE  Books' /\ (Ends(p) \/ Lasts(p))
  <1> DEFINE a == att[p]
             Else == UNCHANGED <<cooling, mixed, used>>
             Idle == UNCHANGED <<row, misses, empties, raced>>
  <1>0. /\ a \in Attempt /\ a.s \in Row /\ a.at \in Ats
        /\ a.at # "none" => /\ a.c \in Channels /\ row[a.c] \in Row
                            /\ misses[a.c] \in 0..GoneAfter /\ empties[a.c] \in 0..GoneAfter
    BY DEF Books, Attempt
  <1>1. NoAttempt \in Attempt /\ NoAttempt.at = "none" /\ 0 \in 0..GoneAfter
    BY NoAttemptTyped DEF GoneAfter
  <1>2. \A n \in 0..GoneAfter : Capped(n + 1) \in 0..GoneAfter
    BY CappedTyped DEF GoneAfter
  <1>3. ASSUME NEW r \in Row, NEW m \in 0..GoneAfter, NEW e \in 0..GoneAfter, a.at # "none",
               Write(p, r, NoAttempt, m, e), Over(p, TRUE) \/ Over(p, FALSE), Else
        PROVE  Books' /\ Ends(p)
    <2>1. NoAttempt.at # "none" => NoAttempt.c \in Channels
      BY <1>1
    <2>2. a.at # "none" /\ r \in Row /\ Write(p, r, NoAttempt, m, e)
      BY <1>3
    <2>3. /\ row' \in [Channels -> Row]
          /\ att' \in [Slots -> Attempt]
          /\ \A q \in Slots : att'[q].at # "none" => att'[q].c \in Channels
          /\ misses' \in [Channels -> 0..GoneAfter]
          /\ empties' \in [Channels -> 0..GoneAfter]
          /\ raced' \in [Channels -> BOOLEAN]
          /\ att'[p] = NoAttempt /\ OthersStay(p)
      BY <1>1, <2>1, <2>2, WriteTyped
    <2> QED
      BY <1>1, <1>3, <2>3 DEF Books, Ends
  <1>4. ASSUME NEW r \in Row, NEW m \in 0..GoneAfter, NEW e \in 0..GoneAfter, a.at # "none",
               NEW b \in Attempt, b.c = a.c, b.at # "none",
               Write(p, r, b, m, e), UNCHANGED <<run, wk>>, Else
        PROVE  Books' /\ Lasts(p)
    BY <1>0, <1>4, WriteTyped DEF Books, Lasts
  <1>5. ASSUME a.at # "none", att' = [att EXCEPT ![p] = NoAttempt], Over(p, TRUE) \/ Over(p, FALSE),
               cooling' \in BOOLEAN, UNCHANGED mixed, used' \in [runs : Nat, beside : Nat], Idle
        PROVE  Books' /\ Ends(p)
    BY <1>1, <1>5, AlterTyped DEF Books, Ends
  <1>6. ASSUME a.at # "none", NEW b \in Attempt, b.c = a.c, b.at # "none", att' = [att EXCEPT ![p] = b],
               UNCHANGED <<run, wk, cooling, mixed>>, used' \in [runs : Nat, beside : Nat], Idle
        PROVE  Books' /\ Lasts(p)
    BY <1>0, <1>6, AlterTyped DEF Books, Lasts
  <1>7. used \in [runs : Nat, beside : Nat] /\ cooling \in BOOLEAN
    BY DEF Books
  <1> HIDE DEF a, Else, Idle
  <1>8. CASE Skip(p)
    <2>1. att' = [att EXCEPT ![p] = NoAttempt] /\ Over(p, FALSE) /\ a.at = "skip" /\ used' = used
      BY <1>8 DEF Skip, a
    <2>2. UNCHANGED <<cooling, mixed>> /\ Idle
      BY <1>8 DEF Skip, hist, Idle
    <2> QED
      BY <1>5, <1>7, <2>1, <2>2
  <1>9. CASE Answer(p)
    <2>1. PICK o \in Answers(a.at) \cap ({"ok", "missing"} \cup Verdicts), k \in KindSaid(a) :
          /\ Write(p, Outcome(IF o = "ok" THEN [a.s EXCEPT !.kind = k] ELSE a.s, o), NoAttempt,
                   CASE o = "ok" -> 0 [] o = "missing" -> Capped(misses[a.c] + 1) [] OTHER -> misses[a.c],
                   IF o = "later" THEN empties[a.c] ELSE 0)
          /\ Over(p, o = "ok")
      BY <1>9 DEF Answer, a
    <2>2. a.at # "none"
      BY <2>1 DEF Answers
    <2>3. Outcome(IF o = "ok" THEN [a.s EXCEPT !.kind = k] ELSE a.s, o) \in Row
      <3>1. k \in Kinds
        BY <1>0, <2>1, <2>2, KindsSaid
      <3>2. (IF o = "ok" THEN [a.s EXCEPT !.kind = k] ELSE a.s) \in Row
        BY <1>0, <3>1, RowsTyped
      <3> QED
        BY <2>1, <3>2, RowsTyped
    <2>4. (CASE o = "ok" -> 0 [] o = "missing" -> Capped(misses[a.c] + 1) [] OTHER -> misses[a.c]) \in 0..GoneAfter
      BY <1>0, <1>1, <1>2, <2>2
    <2>5. (IF o = "later" THEN empties[a.c] ELSE 0) \in 0..GoneAfter
      BY <1>0, <1>1, <2>2
    <2>6. Over(p, TRUE) \/ Over(p, FALSE)
      <3>1. CASE o = "ok"
        BY <2>1, <3>1 DEF Over
      <3>2. CASE o # "ok"
        BY <2>1, <3>2 DEF Over
      <3> QED
        BY <3>1, <3>2
    <2>7. Else
      BY <1>9 DEF Answer, Else
    <2> QED
      BY <1>3, <2>1, <2>2, <2>3, <2>4, <2>5, <2>6, <2>7
  <1>10. CASE Limit(p)
    <2>1. att' = [att EXCEPT ![p] = NoAttempt] /\ Over(p, FALSE) /\ a.at # "none" /\ used' = used
      BY <1>10 DEF Limit, a
    <2>2. mixed' = mixed /\ Idle /\ cooling' \in BOOLEAN
      BY <1>10, <1>7 DEF Limit, hist, Idle
    <2> QED
      BY <1>5, <1>7, <2>1, <2>2
  <1>11. CASE EmptyPage(p)
    <2>0. a.at = "preview" /\ Else
      BY <1>11 DEF EmptyPage, a, Else
    <2>1. CASE a.how = "full"
      <3>1. att' = [att EXCEPT ![p].at = "bot"] /\ UNCHANGED <<run, wk>> /\ Idle
        BY <1>11, <2>1 DEF EmptyPage, a, Idle
      <3>2. att' = [att EXCEPT ![p] = [a EXCEPT !.at = "bot"]]
        BY <3>1 DEF a
      <3>3. [a EXCEPT !.at = "bot"] \in Attempt /\ [a EXCEPT !.at = "bot"].c = a.c /\ [a EXCEPT !.at = "bot"].at # "none"
        BY <1>0 DEF Attempt, Ats
      <3> QED
        BY <1>6, <1>7, <2>0, <3>1, <3>2, <3>3 DEF Else
    <2>2. CASE a.how # "full" /\ a.s.seen
      <3>1. /\ Write(p, [row[a.c] EXCEPT !.error = MissError(a.s.error), !.due = FALSE], NoAttempt,
                          misses[a.c], Capped(empties[a.c] + 1))
            /\ Over(p, FALSE)
        BY <1>11, <2>2 DEF EmptyPage, a
      <3>2. a.s.error \in Errors
        BY <1>0 DEF Row
      <3>3. [row[a.c] EXCEPT !.error = MissError(a.s.error), !.due = FALSE] \in Row
        BY <1>0, <2>0, <3>2, RowsTyped
      <3>4. misses[a.c] \in 0..GoneAfter /\ Capped(empties[a.c] + 1) \in 0..GoneAfter /\ a.at # "none"
        BY <1>0, <1>2, <2>0
      <3> QED
        BY <1>3, <2>0, <3>1, <3>3, <3>4
    <2>3. CASE a.how # "full" /\ ~a.s.seen
      <3>1. /\ Write(p, Failed(a.s, "failed", "no_posts"), NoAttempt, misses[a.c], Capped(empties[a.c] + 1))
            /\ Over(p, FALSE)
        BY <1>11, <2>3 DEF EmptyPage, a
      <3>2. "failed" \in Statuses /\ "no_posts" \in Errors
        BY DEF Statuses, Errors
      <3>3. Failed(a.s, "failed", "no_posts") \in Row
        BY <1>0, <3>2, RowsTyped
      <3>4. misses[a.c] \in 0..GoneAfter /\ Capped(empties[a.c] + 1) \in 0..GoneAfter /\ a.at # "none"
        BY <1>0, <1>2, <2>0
      <3> QED
        BY <1>1, <1>3, <2>0, <3>1, <3>3, <3>4
    <2> QED
      BY <2>1, <2>2, <2>3
  <1>12. CASE EmptyFeed(p)
    <2>1. /\ a.at = "profile"
          /\ Write(p, [Success(a.s) EXCEPT !.kind = "channel"], [a EXCEPT !.at = "mark"], 0, empties[a.c])
          /\ UNCHANGED <<run, wk>> /\ Else
      BY <1>12 DEF EmptyFeed, a, Else
    <2>2. [a EXCEPT !.at = "mark"] \in Attempt /\ [a EXCEPT !.at = "mark"].c = a.c /\ [a EXCEPT !.at = "mark"].at # "none"
      BY <1>0 DEF Attempt, Ats
    <2>3. [Success(a.s) EXCEPT !.kind = "channel"] \in Row /\ a.at # "none" /\ empties[a.c] \in 0..GoneAfter
      <3>1. Success(a.s) \in Row /\ "channel" \in Kinds
        BY <1>0, RowsTyped DEF Kinds
      <3> QED
        BY <1>0, <2>1, <3>1, RowsTyped
    <2> QED
      BY <1>1, <1>4, <2>1, <2>2, <2>3
  <1>13. CASE MarkFeed(p)
    <2>1. /\ a.at = "mark" /\ Over(p, TRUE) /\ Else
          /\ Write(p, [row[a.c] EXCEPT !.error = MissError(a.s.error)], NoAttempt, misses[a.c], Capped(empties[a.c] + 1))
      BY <1>13 DEF MarkFeed, a, Else
    <2>2. a.s.error \in Errors
      BY <1>0 DEF Row
    <2>3. /\ [row[a.c] EXCEPT !.error = MissError(a.s.error)] \in Row /\ a.at # "none"
          /\ misses[a.c] \in 0..GoneAfter /\ Capped(empties[a.c] + 1) \in 0..GoneAfter
      BY <1>0, <1>2, <2>1, <2>2, RowsTyped
    <2> QED
      BY <1>3, <2>1, <2>3
  <1>14. CASE FallsBack(p)
    <2>1. PICK at \in {"bot", "invite", "classify", "profile"} : a.at # "none" /\ att' = [att EXCEPT ![p].at = at]
      BY <1>14 DEF FallsBack, a
    <2>2. UNCHANGED <<run, wk, cooling, mixed, used>> /\ Idle
      BY <1>14 DEF FallsBack, hist, Idle
    <2>3. [a EXCEPT !.at = at] \in Attempt /\ [a EXCEPT !.at = at].c = a.c /\ [a EXCEPT !.at = at].at # "none"
      BY <1>0, <2>1 DEF Attempt, Ats
    <2>4. att' = [att EXCEPT ![p] = [a EXCEPT !.at = at]]
      BY <2>1 DEF a
    <2> QED
      BY <1>6, <1>7, <2>1, <2>2, <2>3, <2>4
  <1>15. CASE Classified(p)
    <2> DEFINE k == RealKind[a.c]
               s == [a.s EXCEPT !.kind = k]
               at == IF k = "group" THEN "group" ELSE "preview"
               b == [a EXCEPT !.s = s, !.at = at]
    <2>1. a.at = "classify" /\ UNCHANGED <<run, wk>> /\ Else
      BY <1>15 DEF Classified, a, Else
    <2>2. \/ Write(p, s, b, misses[a.c], empties[a.c])
          \/ att' = [att EXCEPT ![p] = b] /\ Idle
      BY <1>15 DEF Classified, a, Idle
    <2>3. k \in Kinds /\ at \in Ats /\ at # "none"
      BY <1>0, <2>1, CollectAssumption DEF Ats
    <2>4. s \in Row
      BY <1>0, <2>3, RowsTyped
    <2> HIDE DEF k, at, s
    <2>5. b \in Attempt /\ b.c = a.c /\ b.at # "none"
      BY <1>0, <2>3, <2>4 DEF Attempt
    <2> HIDE DEF b
    <2> QED
      BY <1>0, <1>4, <1>6, <1>7, <2>1, <2>2, <2>4, <2>5 DEF Else
  <1>16. CASE MemberReads(p)
    <2> DEFINE k == RealKind[a.c]
               b == [a EXCEPT !.at = "chat"]
               r == [Success(a.s) EXCEPT !.kind = k]
    <2>1. a.at = "member" /\ UNCHANGED <<run, wk>> /\ Else /\ Write(p, r, b, 0, 0)
      BY <1>16 DEF MemberReads, a, Else
    <2>2. k \in Kinds /\ Success(a.s) \in Row
      BY <1>0, <2>1, CollectAssumption, RowsTyped
    <2>3. r \in Row
      BY <2>2, RowsTyped
    <2>4. b \in Attempt /\ b.c = a.c /\ b.at # "none"
      BY <1>0 DEF Attempt, Ats
    <2> HIDE DEF b, r
    <2> QED
      BY <1>1, <1>4, <2>1, <2>3, <2>4
  <1>17. CASE FindTwins(p)
    <2> DEFINE live == {c \in Twins(a.c) : row[c].status # "merged"}
               b == [a EXCEPT !.at = "merge", !.live = live]
    <2>1. a.at = "chat" /\ UNCHANGED <<cooling, mixed, used>> /\ Idle
      BY <1>17 DEF FindTwins, a, hist, Idle
    <2>2. \/ att' = [att EXCEPT ![p] = b] /\ UNCHANGED <<run, wk>>
          \/ att' = [att EXCEPT ![p] = NoAttempt] /\ Over(p, TRUE)
      BY <1>17 DEF FindTwins, a
    <2>3. live \in SUBSET Channels /\ "merge" \in Ats
      BY DEF Twins, Ats
    <2> HIDE DEF live
    <2>4. b \in Attempt /\ b.c = a.c /\ b.at # "none"
      BY <1>0, <2>3 DEF Attempt
    <2> HIDE DEF b
    <2> QED
      BY <1>5, <1>6, <1>7, <2>1, <2>2, <2>4
  <1>18. CASE Merge(p)
    <2>1. PICK keep \in a.live :
          LET gone == a.live \ {keep} IN
          /\ row' = [c \in Channels |-> IF c \in gone THEN [row[c] EXCEPT !.status = "merged"] ELSE row[c]]
          /\ att' = [[q \in Slots |-> IF q # p /\ att[q].c \in gone THEN [att[q] EXCEPT !.old = TRUE] ELSE att[q]]
                        EXCEPT ![p] = NoAttempt]
          /\ mixed' = mixed \cup {Chat[a.c] : q \in {q \in Slots \ {p} : att[q].at = "merge" /\ Chat[att[q].c] = Chat[a.c]}}
      BY <1>18 DEF Merge, a
    <2> DEFINE gone == a.live \ {keep}
               aged == [q \in Slots |-> IF q # p /\ att[q].c \in gone THEN [att[q] EXCEPT !.old = TRUE] ELSE att[q]]
    <2>2. a.at = "merge" /\ Over(p, TRUE) /\ UNCHANGED <<cooling, misses, empties, raced, used>>
      BY <1>18 DEF Merge, a
    <2>3. row' \in [Channels -> Row]
      <3>1. \A c \in Channels : row[c] \in Row /\ [row[c] EXCEPT !.status = "merged"] \in Row
        BY RowsTyped DEF Books
      <3> QED
        BY <2>1, <3>1
    <2>4. /\ aged \in [Slots -> Attempt]
          /\ \A q \in Slots : aged[q].at = att[q].at /\ aged[q].c = att[q].c
      <3>1. \A q \in Slots : LET b == [att[q] EXCEPT !.old = TRUE]
                             IN att[q] \in Attempt /\ b \in Attempt /\ b.at = att[q].at /\ b.c = att[q].c
        BY DEF Books, Attempt
      <3> QED
        BY <3>1
    <2>5. att' = [aged EXCEPT ![p] = NoAttempt]
      BY <2>1
    <2> HIDE DEF aged
    <2>6. /\ att' \in [Slots -> Attempt] /\ att'[p].at = "none"
          /\ \A q \in Slots \ {p} : att'[q].at = att[q].at /\ att'[q].c = att[q].c
      BY <1>1, <2>4, <2>5
    <2>7. OthersStay(p)
      <3>1. \A q \in (Workers \X {"hand"}) \ {p} : q \in Slots \ {p}
        BY DEF Slots
      <3> QED
        BY <2>6, <3>1 DEF OthersStay
    <2>8. \A q \in Slots : att'[q].at # "none" => att'[q].c \in Channels
      BY <2>6 DEF Books
    <2>9. mixed' \subseteq {Chat[c] : c \in Channels}
      BY <1>0, <2>1, <2>2 DEF Books
    <2>10. a.at # "none"
      BY <2>2
    <2> QED
      BY <2>2, <2>3, <2>6, <2>7, <2>8, <2>9 DEF Books, Ends, a
  <1>19. CASE Throws(p)
    <2>1. a.at # "none" /\ UNCHANGED <<cooling, mixed>> /\ Idle
      BY <1>19 DEF Throws, Working, a, hist, Idle
    <2>2. used' \in [runs : Nat, beside : Nat]
      <3>1. used' = [used EXCEPT !.beside = @ + 1]
        BY <1>19 DEF Throws
      <3> QED
        BY <3>1, <1>7
    <2>3. \/ att' = [att EXCEPT ![p] = Reloaded(p)] /\ UNCHANGED <<run, wk>>
          \/ att' = [att EXCEPT ![p] = NoAttempt] /\ Over(p, FALSE)
      BY <1>19 DEF Throws
    <2>4. Reloaded(p) \in Attempt /\ Reloaded(p).c = a.c /\ Reloaded(p).at # "none"
      BY <1>0, <1>1, <2>1 DEF Reloaded, a, Attempt, Ats
    <2> QED
      BY <1>5, <1>6, <1>7, <2>1, <2>2, <2>3, <2>4
  <1>20. CASE GivesUp(p)
    <2>1. a.at = "give up" /\ Over(p, FALSE) /\ Else
      BY <1>20 DEF GivesUp, a, Else
    <2>2. \/ Write(p, Failed(a.s, "failed", "other"), NoAttempt, misses[a.c], 0)
          \/ att' = [att EXCEPT ![p] = NoAttempt] /\ Idle
      BY <1>20 DEF GivesUp, a, Idle
    <2>3. "failed" \in Statuses /\ "other" \in Errors
      BY DEF Statuses, Errors
    <2>4. Failed(a.s, "failed", "other") \in Row /\ misses[a.c] \in 0..GoneAfter /\ a.at # "none"
      BY <1>0, <2>1, <2>3, RowsTyped
    <2> QED
      BY <1>1, <1>3, <1>5, <1>7, <2>1, <2>2, <2>4 DEF Else
  <1> QED
    BY <1>8, <1>9, <1>10, <1>11, <1>12, <1>13, <1>14, <1>15, <1>16, <1>17, <1>18, <1>19, <1>20 DEF Step

\* A worker reports its item and is free.
HandsBack(w) ==
    /\ wk[w] = "busy" /\ run.mode # "idle"
    /\ wk' = [wk EXCEPT ![w] = "loop"]
    /\ run' = [run EXCEPT !.ok = @ + 1] \/ run' = [run EXCEPT !.fail = @ + 1]

LEMMA CrewKept ==
    ASSUME Crew, NEW p \in Slots, Ends(p) \/ Lasts(p)
    PROVE  Crew' /\ (UNCHANGED <<run, wk>> \/ \E w \in Workers : HandsBack(w))
  <1>1. \A q \in Workers \X {"hand"} : q # p => (att'[q].at = "none") = (att[q].at = "none")
    BY DEF Ends, Lasts, OthersStay
  <1>2. CASE UNCHANGED <<run, wk>> /\ (att'[p].at = "none") = (att[p].at = "none")
    <2>1. \A w \in Workers : (att'[<<w, "hand">>].at = "none") = (att[<<w, "hand">>].at = "none")
      BY <1>1, <1>2
    <2> QED
      BY <1>2, <2>1 DEF Crew
  <1>3. CASE UNCHANGED <<run, wk>> /\ p \notin Workers \X {"hand"}
    <2>1. \A w \in Workers : (att'[<<w, "hand">>].at = "none") = (att[<<w, "hand">>].at = "none")
      BY <1>1, <1>3
    <2> QED
      BY <1>3, <2>1 DEF Crew
  <1>4. CASE Ends(p) /\ p \in Workers \X {"hand"}
    <2>1. PICK w \in Workers : p = <<w, "hand">>
      BY <1>4
    <2>2. wk[w] = "busy" /\ run.mode # "idle" /\ wk \in [Workers -> WorkerState] /\ run \in RoundState
      BY <1>4, <2>1 DEF Ends, Crew
    <2>3. wk' = [wk EXCEPT ![w] = "loop"]
      BY <1>4, <2>1 DEF Ends, Over
    <2>4. run' = [run EXCEPT !.ok = @ + 1] \/ run' = [run EXCEPT !.fail = @ + 1]
      BY <1>4 DEF Ends, Over
    <2>5. run' \in RoundState /\ run'.mode = run.mode
      <3>1. run.ok + 1 \in Nat /\ run.fail + 1 \in Nat
        BY <2>2 DEF RoundState
      <3> QED
        BY <2>2, <2>4, <3>1 DEF RoundState
    <2>6. wk' \in [Workers -> WorkerState]
      BY <2>2, <2>3 DEF WorkerState
    <2>7. ASSUME NEW v \in Workers PROVE wk'[v] = "busy" <=> att'[<<v, "hand">>].at # "none"
      <3>1. CASE v = w
        BY <1>4, <2>1, <2>2, <2>3, <3>1 DEF Ends
      <3>2. CASE v # w
        <4>1. (att'[<<v, "hand">>].at = "none") = (att[<<v, "hand">>].at = "none")
          BY <1>1, <2>1, <3>2
        <4> QED
          BY <2>2, <2>3, <3>2, <4>1 DEF Crew
      <3> QED
        BY <3>1, <3>2
    <2>8. Crew'
      BY <2>2, <2>5, <2>6, <2>7 DEF Crew
    <2> QED
      BY <2>2, <2>3, <2>4, <2>8 DEF HandsBack
  <1>5. Lasts(p) => UNCHANGED <<run, wk>> /\ (att'[p].at = "none") = (att[p].at = "none")
    BY DEF Lasts
  <1>6. Ends(p) /\ p \notin Workers \X {"hand"} => UNCHANGED <<run, wk>>
    BY DEF Ends, Over
  <1> QED
    BY <1>2, <1>3, <1>4, <1>5, <1>6

\* An attempt that begins is an attempt on that channel, with a copy of its row.
LEMMA LoadedTyped ==
    ASSUME Books, NEW c \in Channels, NEW how \in Hows, NEW a \in Loaded(c, how)
    PROVE  /\ a \in Attempt /\ a.c = c /\ a.how = how /\ a.s = row[c] /\ ~a.old /\ a.live = {}
           /\ a.at \in {"skip", "preview", "member", "invite", "classify", "profile"}
           /\ Skips(a, a.s) => a.at = "skip"
  <1> DEFINE b == [NoAttempt EXCEPT !.c = c, !.how = how, !.s = row[c]]
  <1>1. row[c] \in Row
    BY DEF Books
  <1>2. /\ b \in Attempt /\ b.c = c /\ b.how = how /\ b.s = row[c] /\ ~b.old /\ b.live = {}
        /\ \A at \in Ats : LET d == [b EXCEPT !.at = at]
                           IN  /\ d \in Attempt /\ d.c = c /\ d.how = how /\ d.s = row[c] /\ ~d.old /\ d.live = {}
                               /\ d.at = at
    BY <1>1, RowExists DEF NoAttempt, Attempt, Ats, Hows
  <1>3. Begins(b, row[c]) \subseteq {"preview", "member", "invite", "classify", "profile"}
    BY DEF Begins
  <1>4. {"skip", "preview", "member", "invite", "classify", "profile"} \subseteq Ats
    BY DEF Ats
  <1>5. Loaded(c, how) = IF Skips(b, row[c]) THEN {[b EXCEPT !.at = "skip"]}
                         ELSE {[b EXCEPT !.at = first] : first \in Begins(b, row[c])}
    BY DEF Loaded
  <1> HIDE DEF b
  <1>6. \E at \in {"skip", "preview", "member", "invite", "classify", "profile"} :
           a = [b EXCEPT !.at = at] /\ (Skips(b, row[c]) => at = "skip")
    BY <1>3, <1>5
  <1>7. Skips(a, a.s) = Skips(b, row[c])
    BY <1>2, <1>4, <1>6 DEF Skips
  <1> QED
    BY <1>2, <1>4, <1>6, <1>7

\* A worker that turns away from its attempt leaves it to itself.
LEMMA TurnsAway ==
    ASSUME Books, NEW w \in Workers, TimesOut(w)
    PROVE  Books' /\ (Ends(<<w, "hand">>) \/ Lasts(<<w, "hand">>))
  <1> DEFINE p == <<w, "hand">>
             q == <<w, "stray">>
  <1>1. p \in Slots /\ q \in Slots /\ p # q /\ q \notin Workers \X {"hand"}
    BY HandsAreSlots
  <1>2. att[p].at \notin {"none", "skip", "give up"} /\ used.beside < MaxBeside
    BY DEF TimesOut, Working
  <1>3. used' \in [runs : Nat, beside : Nat] /\ UNCHANGED <<row, cooling, misses, empties, raced, mixed>>
    <2>1. used' = [used EXCEPT !.beside = @ + 1]
      BY DEF TimesOut
    <2> QED
      BY <2>1 DEF TimesOut, hist, Books
  <1>4. att[p] \in Attempt /\ att[p].c \in Channels
    BY <1>1, <1>2 DEF Books
  <1>5. NoAttempt \in Attempt /\ NoAttempt.at = "none"
    BY NoAttemptTyped
  <1>6. Reloaded(p) \in Attempt /\ Reloaded(p).c = att[p].c /\ Reloaded(p).at = "give up"
    <2>1. row[att[p].c] \in Row
      BY <1>4 DEF Books
    <2> QED
      BY <1>4, <1>5, <2>1 DEF Reloaded, Attempt, Ats
  <1>7. \/ att' = [att EXCEPT ![p] = NoAttempt, ![q] = att[p]] /\ Over(p, FALSE)
        \/ att' = [att EXCEPT ![p] = Reloaded(p), ![q] = att[p]] /\ UNCHANGED <<run, wk>>
    BY DEF TimesOut
  <1> HIDE DEF p, q
  <1>8. /\ att' \in [Slots -> Attempt] /\ att'[q] = att[p]
        /\ \A o \in Slots \ {p, q} : att'[o] = att[o]
        /\ \/ att'[p] = NoAttempt /\ Over(p, FALSE)
           \/ att'[p] = Reloaded(p) /\ UNCHANGED <<run, wk>>
    BY <1>1, <1>4, <1>5, <1>6, <1>7 DEF Books
  <1>9. \A o \in Slots : att'[o].at # "none" => att'[o].c \in Channels
    BY <1>4, <1>5, <1>6, <1>8 DEF Books
  <1>10. OthersStay(p)
    <2>1. \A o \in (Workers \X {"hand"}) \ {p} : o \in Slots \ {p, q}
      BY <1>1 DEF Slots
    <2> QED
      BY <1>8, <2>1 DEF OthersStay
  <1>11. Books'
    BY <1>3, <1>8, <1>9 DEF Books
  <1>12. Ends(p) \/ Lasts(p)
    BY <1>2, <1>5, <1>6, <1>8, <1>10 DEF Ends, Lasts
  <1> QED
    BY <1>11, <1>12 DEF p

\* What a round that begins leaves alone, and what it sets.
LEMMA RoundBegins ==
    ASSUME NEW mode \in Rounds, NEW then \in {"idle", "light", "retry"}, StartRound(mode, then)
    PROVE  /\ \E S \in SUBSET Channels :
                 run' = [NoRound EXCEPT !.mode = mode, !.then = then, !.left = S, !.total = Cardinality(S)]
           /\ run' \in RoundState /\ run'.mode = mode /\ run'.total = Cardinality(run'.left)
           /\ run'.ok = 0 /\ run'.fail = 0 /\ run'.over = FALSE
           /\ wk' \in [Workers -> WorkerState] /\ \A w \in Workers : wk'[w] # "busy"
           /\ wk'[Lead] = "loop"
           /\ UNCHANGED <<row, att, cooling, misses, empties, raced, mixed>>
  <1>1. PICK S \in Selected(mode) :
           run' = [NoRound EXCEPT !.mode = mode, !.then = then, !.left = S, !.total = Cardinality(S)]
    BY DEF StartRound
  <1>2. S \in SUBSET Channels
    <2>1. Eligible(mode) \subseteq Channels
      BY CollectAssumption DEF Eligible, Rounds
    <2> QED
      BY <1>1, <2>1 DEF Selected
  <1>3. Cardinality(S) \in Nat
    BY <1>2, CollectAssumption, FS_Subset, FS_CardinalityType
  <1>4. /\ run' \in RoundState /\ run'.mode = mode /\ run'.total = Cardinality(S) /\ run'.left = S
        /\ run'.ok = 0 /\ run'.fail = 0 /\ run'.over = FALSE
    BY <1>1, <1>2, <1>3 DEF NoRound, RoundState
  <1>5. wk' = [w \in Workers |-> IF mode = "light" \/ w = Lead THEN "loop" ELSE "off"] /\ Lead \in Workers
    BY CollectAssumption DEF StartRound
  <1>6. wk' \in [Workers -> WorkerState] /\ (\A w \in Workers : wk'[w] # "busy") /\ wk'[Lead] = "loop"
    BY <1>5 DEF WorkerState
  <1>7. UNCHANGED <<row, att, cooling, misses, empties, raced, mixed>>
    BY DEF StartRound, hist
  <1> QED
    BY <1>1, <1>2, <1>4, <1>6, <1>7

LEMMA RoundStarts ==
    ASSUME Books, Crew, StartRun \/ GoOn
    PROVE  /\ run.mode = "idle" /\ used' \in [runs : Nat, beside : Nat]
           /\ \E mode \in Rounds, then \in {"idle", "light", "retry"} : StartRound(mode, then)
  <1>1. CASE StartRun
    <2>1. used' = [used EXCEPT !.runs = @ + 1]
      BY <1>1 DEF StartRun
    <2>2. used' \in [runs : Nat, beside : Nat]
      BY <2>1 DEF Books
    <2> QED
      BY <1>1, <2>2 DEF StartRun, Rounds
  <1>2. CASE GoOn
    <2>1. run.then \in {"light", "retry"}
      BY <1>2 DEF GoOn, Crew, RoundState
    <2> QED
      BY <1>2, <2>1 DEF GoOn, Rounds, Books
  <1> QED
    BY <1>1, <1>2

LEMMA ShapeKept ==
    ASSUME Books, Crew, [Next]_vars
    PROVE  Books' /\ Crew'
  <1>1. CASE StartRun \/ GoOn
    <2>1. run.mode = "idle" /\ used' \in [runs : Nat, beside : Nat]
      BY <1>1, RoundStarts
    <2>2. PICK mode \in Rounds, then \in {"idle", "light", "retry"} : StartRound(mode, then)
      BY <1>1, RoundStarts
    <2>3. /\ run' \in RoundState /\ run'.mode = mode /\ mode # "idle"
          /\ wk' \in [Workers -> WorkerState] /\ \A w \in Workers : wk'[w] # "busy"
          /\ UNCHANGED <<row, att, cooling, misses, empties, raced, mixed>>
      BY <2>2, RoundBegins DEF Rounds
    <2>4. Books'
      BY <2>1, <2>3 DEF Books
    <2>5. \A w \in Workers : att[<<w, "hand">>].at = "none"
      BY <2>1 DEF Crew
    <2> QED
      BY <2>3, <2>4, <2>5 DEF Crew
  <1>2. CASE RoundEnds
    <2>1. /\ run' \in RoundState
          /\ UNCHANGED <<row, wk, att, cooling, misses, empties, raced, mixed, used>>
          /\ \A w \in Workers : wk[w] = "off"
      <3>1. run' = [NoRound EXCEPT !.then = IF run.mode = "full" /\ run.over THEN "idle" ELSE run.then]
        BY <1>2 DEF RoundEnds
      <3>2. run.then \in {"idle", "light", "retry"}
        BY DEF Crew, RoundState
      <3> QED
        BY <1>2, <3>1, <3>2, NoRoundTyped DEF RoundEnds, RoundState, hist
    <2> QED
      BY <2>1 DEF Books, Crew
  <1>3. CASE BudgetEnds
    <2>1. run' = [run EXCEPT !.over = TRUE] /\ UNCHANGED <<row, wk, att, cooling, misses, empties, raced, mixed, used>>
      BY <1>3 DEF BudgetEnds, hist
    <2>2. run' \in RoundState /\ run'.mode = run.mode
      BY <2>1 DEF Crew, RoundState
    <2> QED
      BY <2>1, <2>2 DEF Books, Crew
  <1>4. CASE CoolingEnds
    BY <1>4 DEF CoolingEnds, hist, Books, Crew
  <1>5. ASSUME NEW w \in Workers, TakeItem(w) PROVE Books' /\ Crew'
    <2>1. wk[w] = "loop" /\ wk' = [wk EXCEPT ![w] = "busy"] /\ UNCHANGED <<row, cooling, misses, empties, raced, mixed, used>>
      BY <1>5 DEF TakeItem, hist
    <2>2. PICK c \in run.left, how \in Hows : \E a \in Loaded(c, how) :
            run' = [run EXCEPT !.left = @ \ {c}] /\ att' = [att EXCEPT ![<<w, "hand">>] = a]
      BY <1>5 DEF TakeItem, Hows
    <2>3. PICK a \in Loaded(c, how) :
            run' = [run EXCEPT !.left = @ \ {c}] /\ att' = [att EXCEPT ![<<w, "hand">>] = a]
      BY <2>2
    <2>4. c \in Channels
      BY <2>2 DEF Crew, RoundState
    <2>5. a \in Attempt /\ a.c = c /\ a.at # "none"
      <3>1. how \in Hows /\ a \in Loaded(c, how)
        BY <2>2, <2>3, <2>4
      <3>2. a \in Attempt /\ a.c = c /\ a.at \in {"skip", "preview", "member", "invite", "classify", "profile"}
        BY <2>4, <3>1, LoadedTyped
      <3> QED
        BY <3>2
    <2>6. /\ att' \in [Slots -> Attempt] /\ att'[<<w, "hand">>] = a /\ OthersStay(<<w, "hand">>)
          /\ \A q \in Slots : att'[q].at # "none" => att'[q].c \in Channels
      BY <2>3, <2>4, <2>5, AlterTyped, HandsAreSlots
    <2>7. Books'
      BY <2>1, <2>6 DEF Books
    <2>8. run' \in RoundState /\ run'.mode = run.mode /\ run.mode # "idle"
      BY <2>1, <2>3 DEF Crew, RoundState
    <2>9. wk' \in [Workers -> WorkerState] /\ \A v \in Workers : v # w => wk'[v] = wk[v]
      BY <2>1 DEF Crew, WorkerState
    <2>10. ASSUME NEW v \in Workers PROVE wk'[v] = "busy" <=> att'[<<v, "hand">>].at # "none"
      <3>1. CASE v = w
        BY <2>1, <2>5, <2>6, <3>1 DEF Crew
      <3>2. CASE v # w
        <4>1. (att'[<<v, "hand">>].at = "none") = (att[<<v, "hand">>].at = "none")
          BY <2>6, <3>2 DEF OthersStay
        <4> QED
          BY <2>9, <3>2, <4>1 DEF Crew
      <3> QED
        BY <3>1, <3>2
    <2> QED
      BY <2>7, <2>8, <2>9, <2>10 DEF Crew
  <1>6. ASSUME NEW w \in Workers, WorkerStops(w) PROVE Books' /\ Crew'
    <2>1. wk[w] = "loop" /\ wk' = [wk EXCEPT ![w] = "off"]
          /\ UNCHANGED <<row, run, att, cooling, misses, empties, raced, mixed, used>>
      BY <1>6 DEF WorkerStops, hist
    <2>2. wk' \in [Workers -> WorkerState] /\ wk'[w] = "off" /\ \A v \in Workers : v # w => wk'[v] = wk[v]
      BY <2>1 DEF Crew, WorkerState
    <2> QED
      BY <2>1, <2>2 DEF Books, Crew
  <1>7. ASSUME NEW w \in Workers, TimesOut(w) PROVE Books' /\ Crew'
    BY <1>7, TurnsAway, CrewKept, HandsAreSlots
  <1>8. ASSUME NEW d \in Desk, Ask(d) PROVE Books' /\ Crew'
    <2>1. /\ used' = [used EXCEPT !.beside = @ + 1]
          /\ UNCHANGED <<row, run, wk, cooling, misses, empties, raced, mixed>>
      BY <1>8 DEF Ask, hist
    <2>2. PICK t \in DeskWork : \E a \in Loaded(t[1], t[2]) : att' = [att EXCEPT ![<<d, "hand">>] = a]
      BY <1>8 DEF Ask
    <2>3. PICK a \in Loaded(t[1], t[2]) : att' = [att EXCEPT ![<<d, "hand">>] = a]
      BY <2>2
    <2>4. t[1] \in Channels /\ t[2] \in Hows
      BY <2>2, CollectAssumption DEF Hows
    <2>5. a \in Attempt /\ a.c = t[1] /\ a.at # "none"
      <3>1. t[2] \in Hows /\ a \in Loaded(t[1], t[2])
        BY <2>2, <2>3, <2>4
      <3>2. a \in Attempt /\ a.c = t[1] /\ a.at \in {"skip", "preview", "member", "invite", "classify", "profile"}
        BY <2>4, <3>1, LoadedTyped
      <3> QED
        BY <3>2
    <2>6. <<d, "hand">> \in Slots
      BY DEF Slots
    <2>7. /\ att' \in [Slots -> Attempt] /\ OthersStay(<<d, "hand">>)
          /\ \A q \in Slots : att'[q].at # "none" => att'[q].c \in Channels
      BY <2>3, <2>4, <2>5, <2>6, AlterTyped
    <2>8. used' \in [runs : Nat, beside : Nat]
      BY <2>1 DEF Books
    <2>9. Books'
      BY <2>1, <2>7, <2>8 DEF Books
    <2>10. \A w \in Workers : (att'[<<w, "hand">>].at = "none") = (att[<<w, "hand">>].at = "none")
      BY <2>7, CollectAssumption DEF OthersStay
    <2> QED
      BY <2>1, <2>9, <2>10 DEF Crew
  <1>9. ASSUME NEW p \in Slots, Step(p) PROVE Books' /\ Crew'
    BY <1>9, EveryStep, CrewKept
  <1>10. ASSUME NEW c \in Channels, ComesDue(c) PROVE Books' /\ Crew'
    <2>1. /\ row' = [row EXCEPT ![c].due = TRUE] /\ used' = [used EXCEPT !.beside = @ + 1]
          /\ att' = [q \in Slots |-> IF att[q].c = c THEN [att[q] EXCEPT !.s.due = TRUE] ELSE att[q]]
          /\ UNCHANGED <<run, wk, cooling, misses, empties, raced, mixed>>
      BY <1>10 DEF ComesDue, hist
    <2>2. \A q \in Slots : LET b == [att[q] EXCEPT !.s.due = TRUE]
                           IN att[q] \in Attempt /\ b \in Attempt /\ b.at = att[q].at /\ b.c = att[q].c
      <3>1. ASSUME NEW q \in Slots
            PROVE  att[q] \in Attempt /\ att[q].s \in Row /\ [att[q].s EXCEPT !.due = TRUE] \in Row
        BY RowsTyped DEF Books, Attempt
      <3>2. \A q \in Slots : [att[q] EXCEPT !.s.due = TRUE] = [att[q] EXCEPT !.s = [att[q].s EXCEPT !.due = TRUE]]
        BY <3>1 DEF Attempt
      <3> QED
        BY <3>1, <3>2 DEF Attempt
    <2>3. att' \in [Slots -> Attempt] /\ \A q \in Slots : att'[q].at = att[q].at /\ att'[q].c = att[q].c
      BY <2>1, <2>2
    <2>4. row' \in [Channels -> Row]
      <3>1. row' = [row EXCEPT ![c] = [row[c] EXCEPT !.due = TRUE]] /\ row[c] \in Row
        BY <2>1 DEF Books
      <3> QED
        BY <3>1, RowsTyped DEF Books
    <2>5. used' \in [runs : Nat, beside : Nat]
      BY <2>1 DEF Books
    <2>6. Books'
      BY <2>1, <2>3, <2>4, <2>5 DEF Books
    <2> QED
      BY <2>1, <2>3, <2>6, HandsAreSlots DEF Crew
  <1>11. CASE UNCHANGED vars
    BY <1>11 DEF vars, hist, Books, Crew
  <1> QED
    BY <1>1, <1>2, <1>3, <1>4, <1>5, <1>6, <1>7, <1>8, <1>9, <1>10, <1>11 DEF Next, Worker

LEMMA ShapeBegins == Init => Books /\ Crew
  <1> SUFFICES ASSUME Init PROVE Books /\ Crew
    OBVIOUS
  <1>1. row \in [Channels -> Row] /\ cooling \in BOOLEAN /\ mixed = {} /\ used \in [runs : Nat, beside : Nat]
    BY CollectAssumption DEF Init
  <1>2. att \in [Slots -> Attempt] /\ \A p \in Slots : att[p].at = "none"
    BY NoAttemptTyped DEF Init
  <1>3. misses \in [Channels -> 0..GoneAfter]
    BY <1>1 DEF Init, Row
  <1>4. empties \in [Channels -> 0..GoneAfter]
    <2>1. {0, 1, 2} \subseteq 0..GoneAfter
      BY DEF GoneAfter
    <2>2. \A c \in Channels : empties[c] \in {0, 1, 2}
      BY DEF Init, PagesToBlock
    <2>3. empties = [c \in Channels |-> empties[c]]
      BY DEF Init
    <2> QED
      BY <2>1, <2>2, <2>3
  <1>5. raced \in [Channels -> BOOLEAN]
    BY DEF Init
  <1>6. run \in RoundState /\ run.mode = "idle"
    BY NoRoundTyped DEF Init, NoRound
  <1>7. wk \in [Workers -> WorkerState] /\ \A w \in Workers : wk[w] = "off"
    BY DEF Init, WorkerState
  <1>8. Books
    BY <1>1, <1>2, <1>3, <1>4, <1>5 DEF Books
  <1> QED
    BY <1>2, <1>6, <1>7, <1>8, HandsAreSlots DEF Crew

LEMMA ShapeAlways == Spec => [](Books /\ Crew)
  BY ShapeBegins, ShapeKept, PTL DEF Spec

\* Every variable keeps its type, and attempts are in the hands of exactly the workers that
\* are busy, however the timeouts fall.
THEOREM CollectTypeCorrect == Spec => []TypeOK
  BY ShapeAlways, ShapeIsType, PTL

-----------------------------------------------------------------------------
(* A round is a collection pool *)

\* What was offered is with somebody, done, or still to be taken; only a timed round has a
\* deadline; and a lead that has stopped leaves items only when the time is over, and never
\* the first one.
Tally ==
    /\ IsFiniteSet(Busy) /\ IsFiniteSet(run.left)
    /\ run.ok + run.fail + Cardinality(Busy) + Cardinality(run.left) = run.total
    /\ run.mode = "idle" => run = [NoRound EXCEPT !.then = run.then]
    /\ run.over => run.mode \in {"first", "light", "full"}
    /\ run.mode # "idle" /\ wk[Lead] = "off" => run.left = {} \/ OutOfTime

LEMMA LeftFinite ==
    ASSUME Crew
    PROVE  /\ IsFiniteSet(run.left) /\ Cardinality(run.left) \in Nat
           /\ IsFiniteSet(Busy) /\ Cardinality(Busy) \in Nat
           /\ (run.left # {} => Cardinality(run.left) > 0)
           /\ (run.left = {} => Cardinality(run.left) = 0)
  <1>1. run.left \in SUBSET Channels /\ Busy \in SUBSET Workers
    BY DEF Crew, RoundState, Busy
  <1>2. IsFiniteSet(run.left) /\ IsFiniteSet(Busy)
    BY <1>1, CollectAssumption, FS_Subset
  <1>3. Cardinality(run.left) \in Nat /\ Cardinality(Busy) \in Nat
    BY <1>2, FS_CardinalityType
  <1>4. (Cardinality(run.left) = 0) <=> (run.left = {})
    BY <1>2, FS_EmptySet
  <1> QED
    BY <1>2, <1>3, <1>4

LEMMA OneMoreBusy ==
    ASSUME Crew, NEW w \in Workers, wk[w] # "busy", wk' = [wk EXCEPT ![w] = "busy"]
    PROVE  IsFiniteSet(Busy') /\ Cardinality(Busy') = Cardinality(Busy) + 1
  <1>1. Busy' = Busy \cup {w} /\ w \notin Busy
    BY DEF Busy, Crew
  <1> QED
    BY <1>1, LeftFinite, FS_AddElement

LEMMA OneLessBusy ==
    ASSUME Crew, NEW w \in Workers, wk[w] = "busy", wk' = [wk EXCEPT ![w] = "loop"]
    PROVE  IsFiniteSet(Busy') /\ Cardinality(Busy') = Cardinality(Busy) - 1
  <1>1. Busy' = Busy \ {w} /\ w \in Busy
    BY DEF Busy, Crew
  <1> QED
    BY <1>1, LeftFinite, FS_RemoveElement

LEMMA SameBusy ==
    ASSUME Crew, NEW w \in Workers, wk[w] # "busy", wk' = [wk EXCEPT ![w] = "off"]
    PROVE  Busy' = Busy
  BY DEF Busy, Crew

LEMMA PoolBegins == Init => Tally /\ Pool!PoolInit
  <1> SUFFICES ASSUME Init PROVE Tally /\ Pool!PoolInit
    OBVIOUS
  <1>1. Busy = {}
    BY DEF Init, Busy
  <1>2. IsFiniteSet({}) /\ Cardinality({}) = 0
    BY FS_EmptySet
  <1>3. run = NoRound /\ run.mode = "idle" /\ run.then = "idle" /\ run.left = {} /\ run.total = 0
        /\ run.ok = 0 /\ run.fail = 0 /\ run.over = FALSE
    BY DEF Init, NoRound
  <1>4. run = [NoRound EXCEPT !.then = run.then]
    BY <1>3 DEF NoRound
  <1> QED
    BY <1>1, <1>2, <1>3, <1>4 DEF Tally, Pool!PoolInit

\* Every step of a collection is a step of the pool, or leaves it alone.
LEMMA PoolKept ==
    ASSUME Books, Crew, Tally, Books', Crew', [Next]_vars
    PROVE  Tally' /\ [Pool!PoolNext]_(Pool!poolVars)
  <1>0. /\ run.ok \in Nat /\ run.fail \in Nat /\ run.total \in Nat
        /\ Cardinality(Busy) \in Nat /\ Cardinality(run.left) \in Nat /\ Lead \in Workers
        /\ run.over \in BOOLEAN /\ run \in RoundState
    BY LeftFinite, CollectAssumption DEF Crew, RoundState
  <1>1. CASE UNCHANGED <<run, wk>>
    BY <1>1 DEF Tally, Pool!poolVars, Busy, OutOfTime, Taken
  <1>2. CASE StartRun \/ GoOn
    <2>1. run.mode = "idle"
      BY <1>2, RoundStarts
    <2>2. PICK mode \in Rounds, then \in {"idle", "light", "retry"} : StartRound(mode, then)
      BY <1>2, RoundStarts
    <2>3. /\ run' \in RoundState /\ run'.mode = mode /\ run'.total = Cardinality(run'.left)
          /\ run'.ok = 0 /\ run'.fail = 0 /\ run'.over = FALSE /\ wk'[Lead] = "loop"
          /\ \A w \in Workers : wk'[w] # "busy"
      BY <2>2, RoundBegins
    <2>4. Busy' = {} /\ Cardinality({}) = 0 /\ IsFiniteSet({})
      BY <2>3, FS_EmptySet DEF Busy
    <2>5. mode # "idle"
      BY <2>2 DEF Rounds
    <2>6. run'.left \in SUBSET Channels /\ IsFiniteSet(run'.left) /\ Cardinality(run'.left) \in Nat
      BY <2>3, CollectAssumption, FS_Subset, FS_CardinalityType DEF RoundState
    <2>7. Tally'
      BY <2>3, <2>4, <2>5, <2>6 DEF Tally
    <2>8. Pool!Open
      <3>1. ~(run.mode # "idle") /\ (run.mode # "idle")'
        BY <2>1, <2>3, <2>5
      <3>2. (run.mode \in {"first", "light", "full"})' \in BOOLEAN
        OBVIOUS
      <3>3. /\ run.left' \in SUBSET Channels /\ run.total' = Cardinality(run.left') /\ run.over' = FALSE
            /\ Cardinality(Busy)' = 0 /\ run.ok' = 0 /\ run.fail' = 0
        BY <2>3, <2>4, <2>6
      <3> QED
        BY <3>1, <3>2, <3>3 DEF Pool!Open, Cardinality, Pool!Cardinality
    <2> QED
      BY <2>7, <2>8 DEF Pool!PoolNext
  <1>3. CASE RoundEnds
    <2>1. /\ run.mode # "idle" /\ UNCHANGED wk /\ \A w \in Workers : wk[w] = "off"
          /\ run' = [NoRound EXCEPT !.then = IF run.mode = "full" /\ run.over THEN "idle" ELSE run.then]
      BY <1>3 DEF RoundEnds
    <2>2. /\ run'.mode = "idle" /\ run'.left = {} /\ run'.total = 0 /\ run'.ok = 0 /\ run'.fail = 0
          /\ run'.over = FALSE /\ run' = [NoRound EXCEPT !.then = run'.then]
      BY <2>1 DEF NoRound
    <2>3. Busy = {} /\ Busy' = {} /\ Cardinality({}) = 0 /\ IsFiniteSet({})
      BY <2>1, FS_EmptySet DEF Busy
    <2>4. Tally'
      BY <2>2, <2>3 DEF Tally
    <2>5. run.left = {} \/ OutOfTime
      BY <1>0, <2>1 DEF Tally
    <2>6. run.ok + run.fail + Cardinality(run.left) = run.total
      BY <1>0, <2>3 DEF Tally
    <2>7. run.left # {} => run.mode \in {"first", "light", "full"} /\ run.over
      BY <2>5 DEF OutOfTime, Tally
    <2>8. run.total > 0 => run.ok + run.fail > 0
      <3>1. run.left = {} => Cardinality(run.left) = 0
        BY LeftFinite
      <3>2. OutOfTime => run.total - Cardinality(run.left) > 0
        BY DEF OutOfTime, Taken
      <3> QED
        BY <1>0, <2>5, <2>6, <3>1, <3>2
    <2>9. Pool!Close
      <3>1. run.mode # "idle" /\ Cardinality(Busy) = 0 /\ (run.mode # "idle")' = FALSE
            /\ (run.mode \in {"first", "light", "full"})' = FALSE
        BY <2>1, <2>2, <2>3
      <3>2. /\ run.left' = {} /\ run.total' = 0 /\ run.over' = FALSE
            /\ Cardinality(Busy)' = 0 /\ run.ok' = 0 /\ run.fail' = 0
        BY <2>2, <2>3
      <3> QED
        BY <2>6, <2>7, <2>8, <3>1, <3>2 DEF Pool!Close, Cardinality, Pool!Cardinality
    <2> QED
      BY <2>4, <2>9 DEF Pool!PoolNext
  <1>4. CASE BudgetEnds
    <2>1. /\ run.mode \in {"first", "light", "full"} /\ ~run.over
          /\ run' = [run EXCEPT !.over = TRUE] /\ UNCHANGED wk
      BY <1>4 DEF BudgetEnds, Deadline
    <2>2. /\ run'.mode = run.mode /\ run'.left = run.left /\ run'.total = run.total /\ run'.ok = run.ok
          /\ run'.fail = run.fail /\ run'.over = TRUE /\ UNCHANGED Busy
      BY <1>0, <2>1 DEF RoundState, Busy
    <2>3. Tally'
      BY <2>1, <2>2 DEF Tally, OutOfTime
    <2>4. Pool!TimeIsUp
      BY <2>1, <2>2 DEF Pool!TimeIsUp
    <2> QED
      BY <2>3, <2>4 DEF Pool!PoolNext
  <1>5. ASSUME NEW w \in Workers, TakeItem(w)
        PROVE  Tally' /\ [Pool!PoolNext]_(Pool!poolVars)
    <2>1. /\ wk[w] = "loop" /\ ~OutOfTime /\ wk' = [wk EXCEPT ![w] = "busy"]
          /\ \E c \in run.left : run' = [run EXCEPT !.left = @ \ {c}]
      BY <1>5 DEF TakeItem
    <2>2. PICK c \in run.left : run' = [run EXCEPT !.left = @ \ {c}]
      BY <2>1
    <2>3. /\ run'.mode = run.mode /\ run'.left = run.left \ {c} /\ run'.total = run.total /\ run'.ok = run.ok
          /\ run'.fail = run.fail /\ run'.over = run.over
      BY <1>0, <2>2 DEF RoundState
    <2>4. IsFiniteSet(Busy') /\ Cardinality(Busy') = Cardinality(Busy) + 1
      BY <2>1, OneMoreBusy
    <2>5. IsFiniteSet(run'.left) /\ Cardinality(run'.left) = Cardinality(run.left) - 1
      BY <2>2, <2>3, LeftFinite, FS_RemoveElement
    <2>6. run.mode # "idle"
      BY <2>1 DEF Crew
    <2>7. run.ok + run.fail + Cardinality(Busy) + Cardinality(run.left) = run.total
      BY DEF Tally
    <2>8. run.over => Cardinality(run.left) = run.total
      BY <1>0, <2>1, <2>7 DEF OutOfTime, Taken
    <2>9. run'.ok + run'.fail + Cardinality(Busy') + Cardinality(run'.left) = run'.total
      BY <1>0, <2>3, <2>4, <2>5, <2>7
    <2>10. ASSUME wk'[Lead] = "off" PROVE (run.left = {} \/ OutOfTime)
      <3>1. wk[Lead] = "off"
        BY <1>0, <2>1, <2>10 DEF Crew
      <3> QED
        BY <2>6, <3>1 DEF Tally
    <2>11. wk'[Lead] # "off"
      BY <2>1, <2>2, <2>10
    <2>12. Tally'
      BY <2>3, <2>4, <2>5, <2>6, <2>9, <2>11 DEF Tally
    <2>13. Pool!Take
      <3>1. run.left' = run.left \ {c} /\ Cardinality(Busy)' = Cardinality(Busy) + 1
        BY <2>3, <2>4
      <3>2. /\ (run.mode # "idle")' = (run.mode # "idle") /\ run.over' = run.over /\ run.total' = run.total
            /\ (run.mode \in {"first", "light", "full"})' = (run.mode \in {"first", "light", "full"})
            /\ run.ok' = run.ok /\ run.fail' = run.fail
        BY <2>3
      <3> QED
        BY <2>2, <2>6, <2>8, <3>1, <3>2 DEF Pool!Take, Cardinality, Pool!Cardinality
    <2> QED
      BY <2>12, <2>13 DEF Pool!PoolNext
  <1>6. ASSUME NEW w \in Workers, WorkerStops(w)
        PROVE  Tally' /\ [Pool!PoolNext]_(Pool!poolVars)
    <2>1. /\ wk[w] = "loop" /\ (OutOfTime \/ run.left = {}) /\ wk' = [wk EXCEPT ![w] = "off"] /\ run' = run
      BY <1>6 DEF WorkerStops
    <2>2. Busy' = Busy
      BY <2>1, SameBusy
    <2>3. Tally'
      BY <2>1, <2>2 DEF Tally, OutOfTime, Taken
    <2> QED
      BY <2>1, <2>2, <2>3 DEF Pool!poolVars
  <1>7. ASSUME NEW w \in Workers, HandsBack(w)
        PROVE  Tally' /\ [Pool!PoolNext]_(Pool!poolVars)
    <2>1. /\ wk[w] = "busy" /\ run.mode # "idle" /\ wk' = [wk EXCEPT ![w] = "loop"]
          /\ run' = [run EXCEPT !.ok = @ + 1] \/ run' = [run EXCEPT !.fail = @ + 1]
      BY <1>7 DEF HandsBack
    <2>2. /\ run'.mode = run.mode /\ run'.left = run.left /\ run'.total = run.total /\ run'.over = run.over
          /\ \/ run'.ok = run.ok + 1 /\ run'.fail = run.fail
             \/ run'.ok = run.ok /\ run'.fail = run.fail + 1
      BY <1>0, <2>1 DEF RoundState
    <2>3. IsFiniteSet(Busy') /\ Cardinality(Busy') = Cardinality(Busy) - 1
      BY <2>1, OneLessBusy
    <2>4. Cardinality(Busy) > 0
      <3>1. w \in Busy
        BY <2>1 DEF Busy
      <3> QED
        BY <3>1, LeftFinite, FS_EmptySet
    <2>5. run'.ok + run'.fail + Cardinality(Busy') + Cardinality(run'.left) = run'.total
      BY <1>0, <2>2, <2>3 DEF Tally
    <2>6. wk'[Lead] = "off" => wk[Lead] = "off"
      BY <1>0, <2>1 DEF Crew
    <2>7. OutOfTime' = OutOfTime
      BY <2>2 DEF OutOfTime, Taken
    <2>8. Tally'
      BY <2>1, <2>2, <2>3, <2>5, <2>6, <2>7 DEF Tally
    <2>9. Pool!GiveBack
      BY <2>1, <2>2, <2>3, <2>4 DEF Pool!GiveBack
    <2> QED
      BY <2>8, <2>9 DEF Pool!PoolNext
  <1>8. ASSUME NEW p \in Slots, Ends(p) \/ Lasts(p)
        PROVE  Tally' /\ [Pool!PoolNext]_(Pool!poolVars)
    BY <1>1, <1>7, <1>8, CrewKept
  <1>9. ASSUME NEW p \in Slots, Step(p)
        PROVE  Tally' /\ [Pool!PoolNext]_(Pool!poolVars)
    BY <1>8, <1>9, EveryStep
  <1>10. ASSUME NEW w \in Workers, TimesOut(w)
         PROVE  Tally' /\ [Pool!PoolNext]_(Pool!poolVars)
    BY <1>8, <1>10, TurnsAway, HandsAreSlots
  <1>11. ASSUME NEW d \in Desk, Ask(d)
         PROVE  UNCHANGED <<run, wk>>
    BY <1>11 DEF Ask
  <1>12. ASSUME NEW c \in Channels, ComesDue(c)
         PROVE  UNCHANGED <<run, wk>>
    BY <1>12 DEF ComesDue
  <1>13. CoolingEnds \/ UNCHANGED vars => UNCHANGED <<run, wk>>
    BY DEF CoolingEnds, vars
  <1> QED
    BY <1>1, <1>2, <1>3, <1>4, <1>5, <1>6, <1>9, <1>10, <1>11, <1>12, <1>13 DEF Next, Worker

\* Every round is a collection pool: each item is taken at most once and counted once, a
\* round over its time takes nothing but its first item, and when it ends its counts add up,
\* whatever is abandoned, thrown or answered late (collect-pool.logic.ts).
THEOREM RoundsArePools == Spec => IsPool
  <1>1. Init => Tally /\ Pool!PoolInit
    BY PoolBegins
  <1>2. (Books /\ Crew) /\ (Books /\ Crew)' /\ Tally /\ [Next]_vars => Tally' /\ [Pool!PoolNext]_(Pool!poolVars)
    BY PoolKept
  <1> QED
    BY <1>1, <1>2, ShapeAlways, PTL DEF Spec, IsPool, Pool!PoolSpec

\* The pool's module has its own copies of the standard operators.
LEMMA SameFinite ==
    ASSUME NEW S
    PROVE  Pool!Cardinality(S) = Cardinality(S) /\ (Pool!IsFiniteSet(S) <=> IsFiniteSet(S))
  BY DEF Cardinality, Pool!Cardinality, IsFiniteSet, Pool!IsFiniteSet

LEMMA PoolStepAddsUp ==
    ASSUME Pool!CountsAddUp, [Pool!PoolNext]_(Pool!poolVars)
    PROVE  Pool!CountsAddUp'
  <1>0. /\ run.total \in Nat /\ Cardinality(Busy) \in Nat /\ run.ok \in Nat /\ run.fail \in Nat
        /\ IsFiniteSet(run.left) /\ Cardinality(run.left) \in Nat
        /\ run.ok + run.fail + Cardinality(Busy) + Cardinality(run.left) = run.total
    BY FS_CardinalityType, SameFinite DEF Pool!CountsAddUp
  <1>1. CASE Pool!Open
    <2>1. IsFiniteSet(run'.left) /\ Cardinality(run'.left) \in Nat
      BY <1>1, CollectAssumption, FS_Subset, FS_CardinalityType DEF Pool!Open
    <2> QED
      BY <1>1, <2>1, SameFinite DEF Pool!Open, Pool!CountsAddUp
  <1>2. CASE Pool!Take
    <2>1. PICK i \in run.left : run'.left = run.left \ {i}
      BY <1>2 DEF Pool!Take
    <2>2. IsFiniteSet(run'.left) /\ Cardinality(run'.left) = Cardinality(run.left) - 1
      <3>1. IsFiniteSet(run.left) /\ i \in run.left
        BY <1>0
      <3> QED
        BY <2>1, <3>1, FS_RemoveElement
    <2> QED
      BY <1>0, <1>2, <2>2, SameFinite DEF Pool!Take, Pool!CountsAddUp
  <1>3. CASE Pool!GiveBack
    BY <1>0, <1>3 DEF Pool!GiveBack, Pool!CountsAddUp
  <1>4. CASE Pool!TimeIsUp \/ UNCHANGED Pool!poolVars
    BY <1>0, <1>4 DEF Pool!TimeIsUp, Pool!CountsAddUp, Pool!poolVars
  <1>5. CASE Pool!Close
    BY <1>5, FS_EmptySet, SameFinite DEF Pool!Close, Pool!CountsAddUp
  <1> QED
    BY <1>1, <1>2, <1>3, <1>4, <1>5 DEF Pool!PoolNext

\* Whatever implements a collection pool counts each item once: the promise follows from
\* the abstract specification alone.
THEOREM PoolsAddUp == IsPool => []Pool!CountsAddUp
  <1>1. Pool!PoolInit => Pool!CountsAddUp
    BY FS_EmptySet, SameFinite DEF Pool!PoolInit, Pool!CountsAddUp
  <1>2. Pool!CountsAddUp /\ [Pool!PoolNext]_(Pool!poolVars) => Pool!CountsAddUp'
    BY PoolStepAddsUp
  <1> QED
    BY <1>1, <1>2, PTL DEF IsPool, Pool!PoolSpec

\* So does a round of collections, whatever is abandoned, thrown or answered late
\* (collect-pool.logic.ts: ok, failed and remaining make up the total).
THEOREM RoundsAddUp == Spec => []Pool!CountsAddUp
  BY RoundsArePools, PoolsAddUp, PTL

-----------------------------------------------------------------------------
(* Copies and rows *)

\* A clean success has no not_found answers on its account.
Clean(s) == s.status = "ok" /\ s.error = "none" => s.gone = 0

\* The note of an empty page is worth so many empty pages.
ErrorEarned(s, n) ==
    /\ s.error = "empty_once" => n >= 1
    /\ s.error = "disabled" => n >= 2
    /\ s.error = "no_posts" => n >= PagesToBlock(s)

\* A row whose last write was not from a stale copy says what was answered.
RowEarned(c) ==
    /\ row[c].gone = misses[c]
    /\ row[c].status = "gone" => row[c].gone = GoneAfter
    /\ ErrorEarned(row[c], empties[c])

\* A copy that nobody wrote past is the row, until its attempt has saved it.
CopyFresh(a) == ~a.old =>
    /\ a.at \notin {"mark", "chat", "merge"} => a.s = row[a.c]
    /\ a.at = "mark" => raced[a.c] \/ ErrorEarned(a.s, empties[a.c])

\* A merge knows rows of its chat that are visible, unless another merge met it.
MergeKnows(a) == a.at = "merge" =>
    /\ a.live \subseteq Twins(a.c)
    /\ Chat[a.c] \notin mixed => \A d \in a.live : row[d].status # "merged"

\* Only a full attempt is classified, and it is not one of a merged row.
NotMerged(a) ==
    /\ a.at = "classify" => a.how = "full"
    /\ a.how = "full" /\ a.at \notin {"skip", "give up"} => a.s.status # "merged"

CopyGood(a) == a.at # "none" => Clean(a.s) /\ CopyFresh(a) /\ MergeKnows(a) /\ NotMerged(a)

Copies ==
    /\ \A c \in Channels : Clean(row[c]) /\ (raced[c] \/ RowEarned(c))
    /\ \A p \in Slots : CopyGood(att[p])

\* From a fresh copy comes a row that says what was answered.
TrueToRow(p, r, m, e) == ~att[p].old /\ ~raced[att[p].c] =>
    /\ r.gone = m \/ (r.status = "ok" /\ r.error = "none")
    /\ r.status = "gone" => r.gone = GoneAfter
    /\ ErrorEarned(r, e)

\* The attempt that wrote r goes on with a copy of it, or remembers the row before it for
\* the note of the empty feed.
GoesOnFrom(p, r, next, e) == next.at # "none" =>
    /\ next.at # "merge" /\ next.c = att[p].c /\ Clean(next.s)
    /\ next.at = "classify" => next.how = "full"
    /\ next.how = "full" /\ next.at \notin {"skip", "give up"} => next.s.status # "merged"
    /\ ~next.old =>
         /\ next.at \notin {"mark", "chat", "merge"} => next.s = r
         /\ next.at = "mark" => raced[att[p].c] \/ ErrorEarned(next.s, e)

LEMMA WriteKept ==
    ASSUME Books, Copies, NEW p \in Slots, att[p].at # "none", NEW r \in Row,
           NEW next \in Attempt, NEW m \in 0..GoneAfter, NEW e \in 0..GoneAfter,
           Write(p, r, next, m, e), mixed' = mixed,
           Clean(r), r.status = "merged" => row[att[p].c].status = "merged",
           TrueToRow(p, r, m, e), GoesOnFrom(p, r, next, e)
    PROVE  Copies'
  <1> DEFINE c == att[p].c
             good == r.status = "ok" /\ r.error = "none"
  <1>1. c \in Channels
    BY DEF Books
  <1>2. row' = [row EXCEPT ![c] = r] /\ att' = [Aged(att, p, c) EXCEPT ![p] = next]
    BY DEF Write
  <1>3. misses' = [misses EXCEPT ![c] = IF good THEN 0 ELSE m] /\ empties' = [empties EXCEPT ![c] = e]
    BY DEF Write
  <1>4. raced' = [raced EXCEPT ![c] = ~(good /\ next.at # "mark") /\ (raced[c] \/ att[p].old)]
    BY <1>1 DEF Write, Books
  <1>5. /\ att'[p] = next
        /\ \A q \in Slots \ {p} : /\ att'[q].at = att[q].at /\ att'[q].c = att[q].c
                                  /\ att'[q].how = att[q].how /\ att'[q].s = att[q].s /\ att'[q].live = att[q].live
                                  /\ ~att'[q].old => ~att[q].old /\ att[q].c # c
    <2>1. att'[p] = next /\ \A q \in Slots \ {p} : att'[q] = Aged(att, p, c)[q]
      BY <1>2, AgedTyped
    <2>2. ASSUME NEW q \in Slots \ {p}
          PROVE  /\ att'[q].at = att[q].at /\ att'[q].c = att[q].c
                 /\ att'[q].how = att[q].how /\ att'[q].s = att[q].s /\ att'[q].live = att[q].live
      <3>1. att'[q] = Aged(att, p, c)[q]
        BY <2>1
      <3> HIDE DEF c
      <3> QED
        BY <3>1, AgedSame
    <2>3. ASSUME NEW q \in Slots \ {p}, ~att'[q].old PROVE ~att[q].old /\ att[q].c # c
      <3>1. att'[q] = Aged(att, p, c)[q]
        BY <2>1
      <3>2. ~Aged(att, p, c)[q].old
        BY <2>3, <3>1
      <3>3. ~att[q].old /\ ~(q # p /\ att[q].c = c)
        BY <1>1, <3>2, AgedTyped
      <3> QED
        BY <3>3
    <2> QED
      BY <2>1, <2>2, <2>3
  <1>6. /\ row'[c] = r /\ misses'[c] = (IF good THEN 0 ELSE m) /\ empties'[c] = e
        /\ raced'[c] = (~(good /\ next.at # "mark") /\ (raced[c] \/ att[p].old))
        /\ \A d \in Channels \ {c} : /\ row'[d] = row[d] /\ misses'[d] = misses[d] /\ empties'[d] = empties[d]
                                     /\ raced'[d] = raced[d]
    BY <1>1, <1>2, <1>3, <1>4 DEF Books
  <1>7. r.gone = 0 \/ ~good
    BY DEF Clean
  <1>8. \A d \in Channels : row'[d].status = "merged" => row[d].status = "merged"
    BY <1>6
  <1>9. ASSUME NEW d \in Channels PROVE Clean(row[d])' /\ (raced[d] \/ RowEarned(d))'
    <2>1. CASE d # c
      BY <1>6, <2>1 DEF Copies, Clean, RowEarned
    <2>2. CASE d = c
      <3>1. Clean(row[d])'
        BY <1>6, <2>2 DEF Clean
      <3>2. CASE good
        BY <1>6, <1>7, <2>2, <3>2 DEF RowEarned, ErrorEarned
      <3>3. CASE ~good /\ ~raced'[c]
        <4>1. ~att[p].old /\ ~raced[c]
          BY <1>6, <3>3
        <4>2. r.gone = m /\ (r.status = "gone" => r.gone = GoneAfter) /\ ErrorEarned(r, e)
          BY <3>3, <4>1 DEF TrueToRow
        <4> QED
          BY <1>6, <2>2, <3>1, <3>3, <4>2 DEF RowEarned
      <3> QED
        BY <2>2, <3>1, <3>2, <3>3
    <2> QED
      BY <2>1, <2>2
  <1>10. ASSUME NEW q \in Slots, q # p, att'[q].at # "none"
         PROVE  Clean(att[q].s)' /\ CopyFresh(att[q])' /\ MergeKnows(att[q])' /\ NotMerged(att[q])'
    <2>1. att[q].at # "none" /\ att[q].c \in Channels
      BY <1>5, <1>10 DEF Books
    <2>2. Clean(att[q].s) /\ CopyFresh(att[q]) /\ MergeKnows(att[q]) /\ NotMerged(att[q])
      BY <2>1 DEF Copies, CopyGood
    <2>3. Clean(att[q].s)'
      BY <1>5, <1>10, <2>2 DEF Clean
    <2>4. NotMerged(att[q])'
      BY <1>5, <1>10, <2>2 DEF NotMerged
    <2>5. CopyFresh(att[q])'
      <3>1. SUFFICES ASSUME ~att'[q].old
                     PROVE  /\ att'[q].at \notin {"mark", "chat", "merge"} => att'[q].s = row'[att'[q].c]
                            /\ att'[q].at = "mark" => raced'[att'[q].c] \/ ErrorEarned(att'[q].s, empties'[att'[q].c])
        BY DEF CopyFresh, ErrorEarned
      <3>2. ~att[q].old /\ att[q].c # c
        BY <1>5, <1>10, <3>1
      <3>3. /\ att[q].at \notin {"mark", "chat", "merge"} => att[q].s = row[att[q].c]
            /\ att[q].at = "mark" => raced[att[q].c] \/ ErrorEarned(att[q].s, empties[att[q].c])
        BY <2>2, <3>2 DEF CopyFresh
      <3>4. att[q].c \in Channels \ {c}
        BY <2>1, <3>2
      <3>5. /\ row'[att[q].c] = row[att[q].c] /\ raced'[att[q].c] = raced[att[q].c]
            /\ empties'[att[q].c] = empties[att[q].c]
        BY <1>6, <3>4
      <3>6. att'[q].at = att[q].at /\ att'[q].c = att[q].c /\ att'[q].s = att[q].s
        BY <1>5, <1>10
      <3> QED
        BY <3>3, <3>5, <3>6
    <2>6. MergeKnows(att[q])'
      <3>1. Twins(att[q].c)' = Twins(att[q].c) /\ Twins(att[q].c) \subseteq Channels
        BY <1>5, <1>10 DEF Twins
      <3> QED
        BY <1>5, <1>8, <1>10, <2>2, <3>1 DEF MergeKnows
    <2> QED
      BY <2>3, <2>4, <2>5, <2>6
  <1>11. ASSUME next.at # "none"
         PROVE  Clean(att[p].s)' /\ CopyFresh(att[p])' /\ MergeKnows(att[p])' /\ NotMerged(att[p])'
    <2>1. Clean(att[p].s)'
      BY <1>5, <1>11 DEF Clean, GoesOnFrom
    <2>2. NotMerged(att[p])'
      BY <1>5, <1>11 DEF NotMerged, GoesOnFrom
    <2>3. MergeKnows(att[p])'
      BY <1>5, <1>11 DEF MergeKnows, GoesOnFrom
    <2>4. CASE next.old
      BY <1>5, <2>1, <2>2, <2>3, <2>4 DEF CopyFresh, GoesOnFrom
    <2>5. CASE ~next.old
      <3>1. next.at = "mark" /\ raced[c] => raced'[c]
        BY <1>6
      <3>2. CopyFresh(att[p])'
        BY <1>5, <1>6, <1>11, <2>5, <3>1 DEF CopyFresh, GoesOnFrom
      <3> QED
        BY <2>1, <2>2, <2>3, <3>2
    <2> QED
      BY <2>4, <2>5
  <1> HIDE DEF c, good
  <1>12. \A q \in Slots : CopyGood(att[q])'
    BY <1>5, <1>10, <1>11 DEF CopyGood
  <1> QED
    BY <1>9, <1>12 DEF Copies

\* When no row is written, an attempt may begin, move on or end.
LEMMA AlterKept ==
    ASSUME Copies, UNCHANGED <<row, misses, empties, raced, mixed>>,
           NEW f \in [Slots -> Attempt], att' = f, \A q \in Slots : CopyGood(f[q])
    PROVE  Copies'
  <1>1. ASSUME NEW q \in Slots PROVE CopyGood(att[q])'
    <2>1. CopyGood(f[q]) /\ att'[q] = f[q]
      OBVIOUS
    <2>2. Twins(f[q].c)' = Twins(f[q].c)
      BY DEF Twins
    <2> QED
      BY <2>1, <2>2 DEF CopyGood, CopyFresh, MergeKnows, NotMerged, Clean, ErrorEarned, Twins
  <1>2. \A c \in Channels : Clean(row[c])' /\ (raced[c] \/ RowEarned(c))'
    BY DEF Copies, Clean, RowEarned, ErrorEarned
  <1> QED
    BY <1>1, <1>2 DEF Copies

\* A copy just loaded is good.
LEMMA LoadedGood ==
    ASSUME Books, Copies, NEW c \in Channels, NEW how \in Hows, NEW a \in Loaded(c, how)
    PROVE  CopyGood(a)
  <1>1. /\ a.c = c /\ a.how = how /\ a.s = row[c]
        /\ a.at \in {"skip", "preview", "member", "invite", "classify", "profile"}
        /\ Skips(a, a.s) => a.at = "skip"
    BY LoadedTyped
  <1>2. Clean(row[c])
    BY DEF Copies
  <1>3. CopyFresh(a)
    BY <1>1 DEF CopyFresh
  <1>4. MergeKnows(a)
    BY <1>1 DEF MergeKnows
  <1>5. a.at = "classify" => a.how = "full"
    <2> DEFINE b == [NoAttempt EXCEPT !.c = c, !.how = how, !.s = row[c]]
    <2>1. a.at = "classify" => "classify" \in Begins(b, row[c])
      BY RowExists DEF Loaded, NoAttempt
    <2>2. b.how = how
      BY DEF NoAttempt
    <2> HIDE DEF b
    <2>3. "classify" \in Begins(b, row[c]) => b.how = "full"
      BY DEF Begins
    <2> QED
      BY <1>1, <2>1, <2>2, <2>3
  <1>6. NotMerged(a)
    BY <1>1, <1>5 DEF NotMerged, Skips
  <1> QED
    BY <1>1, <1>2, <1>3, <1>4, <1>6 DEF CopyGood

\* So is the copy for the note of a failure.
LEMMA ReloadedGood ==
    ASSUME Books, Copies, NEW p \in Slots, att[p].at # "none"
    PROVE  Reloaded(p) \in Attempt /\ CopyGood(Reloaded(p))
  <1>1. att[p].c \in Channels /\ row[att[p].c] \in Row /\ att[p].how \in Hows
    BY DEF Books, Attempt
  <1>2. /\ Reloaded(p) \in Attempt /\ Reloaded(p).at = "give up" /\ Reloaded(p).c = att[p].c
        /\ Reloaded(p).s = row[att[p].c]
    BY <1>1, NoAttemptTyped DEF Reloaded, Attempt, Ats
  <1>3. Clean(row[att[p].c])
    BY <1>1 DEF Copies
  <1> QED
    BY <1>2, <1>3 DEF CopyGood, CopyFresh, MergeKnows, NotMerged

LEMMA CopiesBegin == Init => Copies
  <1> SUFFICES ASSUME Init PROVE Copies
    OBVIOUS
  <1>1. row \in FirstRows /\ row \in [Channels -> Row]
    BY CollectAssumption DEF Init
  <1>2. ASSUME NEW c \in Channels PROVE Clean(row[c]) /\ RowEarned(c)
    <2>1. /\ row[c].status = "gone" => row[c].gone = GoneAfter
          /\ row[c].status = "ok" /\ row[c].error = "none" => row[c].gone = 0
      BY <1>1, CollectAssumption
    <2>2. misses[c] = row[c].gone
      BY DEF Init
    <2>3. empties[c] = CASE row[c].error = "disabled" -> 2
                         [] row[c].error = "no_posts" -> PagesToBlock(row[c])
                         [] row[c].error = "empty_once" -> 1
                         [] OTHER -> 0
      BY DEF Init
    <2>4. ErrorEarned(row[c], empties[c])
      BY <2>3 DEF ErrorEarned, PagesToBlock
    <2> QED
      BY <2>1, <2>2, <2>4 DEF Clean, RowEarned
  <1>3. \A p \in Slots : CopyGood(att[p])
    BY NoAttemptTyped DEF Init, CopyGood
  <1> QED
    BY <1>2, <1>3 DEF Copies

\* The attempt in slot p writes r: it makes no row merged, and the note of an empty feed
\* leaves the status as it is.
Rewrites(p, r) ==
    /\ row' = [row EXCEPT ![att[p].c] = r]
    /\ att[p].at \notin {"none", "chat", "merge"} /\ att'[p].at # att[p].at
    /\ r.status = "merged" => row[att[p].c].status = "merged"
    /\ att[p].at = "mark" => r.status = row[att[p].c].status

Writes(p) == UNCHANGED row \/ Merge(p) \/ \E r \in Row : Rewrites(p, r)

LEMMA RewritesRow ==
    ASSUME Books, NEW p \in Slots, NEW r \in Row, NEW b \in Attempt, NEW m, NEW e, Write(p, r, b, m, e),
           att[p].at \notin {"none", "chat", "merge"}, b.at # att[p].at,
           r.status = "merged" => row[att[p].c].status = "merged",
           att[p].at = "mark" => r.status = row[att[p].c].status
    PROVE  Writes(p)
  <1>1. row' = [row EXCEPT ![att[p].c] = r] /\ att' = [Aged(att, p, att[p].c) EXCEPT ![p] = b]
    BY DEF Write
  <1>2. att'[p] = b
    BY <1>1, AgedTyped
  <1> QED
    BY <1>1, <1>2 DEF Writes, Rewrites

\* What an attempt does with its copy.
LEMMA StepKeepsCopies ==
    ASSUME Books, Copies, NEW p \in Slots, Step(p)
    PROVE  Copies' /\ Writes(p)
  <1> DEFINE a == att[p]
             NoWrite == UNCHANGED <<row, misses, empties, raced, mixed>>
  <1>0. /\ a \in Attempt /\ a.s \in Row /\ a.at \in Ats
        /\ a.at # "none" => /\ a.c \in Channels /\ row[a.c] \in Row
                            /\ misses[a.c] \in 0..GoneAfter /\ empties[a.c] \in 0..GoneAfter
                            /\ Clean(a.s) /\ CopyFresh(a) /\ MergeKnows(a) /\ NotMerged(a)
                            /\ Clean(row[a.c]) /\ (raced[a.c] \/ RowEarned(a.c))
    BY DEF Books, Attempt, Copies, CopyGood
  <1>1. NoAttempt \in Attempt /\ NoAttempt.at = "none" /\ 0 \in 0..GoneAfter
    BY NoAttemptTyped DEF GoneAfter
  <1>2. \A n \in 0..GoneAfter : /\ Capped(n + 1) \in 0..GoneAfter
                                /\ Capped(n + 1) >= 1 /\ (n >= 1 => Capped(n + 1) >= 2)
    BY CappedTyped DEF GoneAfter, Capped
  <1>3. ASSUME NEW r \in Row, NEW m \in 0..GoneAfter, NEW e \in 0..GoneAfter, a.at # "none",
               Write(p, r, NoAttempt, m, e), mixed' = mixed,
               Clean(r), r.status = "merged" => row[a.c].status = "merged", TrueToRow(p, r, m, e),
               a.at \notin {"chat", "merge"}, a.at = "mark" => r.status = row[a.c].status
        PROVE  Copies' /\ Writes(p)
    <2>1. GoesOnFrom(p, r, NoAttempt, e)
      BY <1>1 DEF GoesOnFrom
    <2>2. Copies'
      BY <1>1, <1>3, <2>1, WriteKept
    <2>3. Writes(p)
      BY <1>1, <1>3, RewritesRow
    <2> QED
      BY <2>2, <2>3
  <1>4. ASSUME NEW b \in Attempt, CopyGood(b), att' = [att EXCEPT ![p] = b], NoWrite
        PROVE  Copies' /\ Writes(p)
    <2> DEFINE f == [att EXCEPT ![p] = b]
    <2>1. f \in [Slots -> Attempt] /\ f[p] = b /\ \A q \in Slots \ {p} : f[q] = att[q]
      BY DEF Books
    <2>2. att' = f
      BY <1>4
    <2> HIDE DEF f
    <2>3. \A q \in Slots : CopyGood(f[q])
      BY <1>4, <2>1 DEF Copies
    <2> QED
      BY <1>4, <2>1, <2>2, <2>3, AlterKept DEF Writes
  <1>5. ASSUME att' = [att EXCEPT ![p] = NoAttempt], NoWrite
        PROVE  Copies' /\ Writes(p)
    <2>1. CopyGood(NoAttempt)
      BY <1>1 DEF CopyGood
    <2> QED
      BY <1>1, <1>4, <1>5, <2>1
  <1>6. a.at \notin {"none", "mark", "chat", "merge"} /\ ~a.old => a.s = row[a.c]
    BY <1>0 DEF CopyFresh
  <1>7. ASSUME a.at # "none", ~a.old, ~raced[a.c]
        PROVE  /\ row[a.c].gone = misses[a.c]
               /\ row[a.c].status = "gone" => row[a.c].gone = GoneAfter
               /\ ErrorEarned(row[a.c], empties[a.c])
    BY <1>0, <1>7 DEF RowEarned
  <1> HIDE DEF a, NoWrite
  <1>8. CASE Skip(p)
    BY <1>5, <1>8 DEF Skip, hist, NoWrite
  <1>9. CASE Answer(p)
    <2> DEFINE m(o) == CASE o = "ok" -> 0 [] o = "missing" -> Capped(misses[a.c] + 1) [] OTHER -> misses[a.c]
               e(o) == IF o = "later" THEN empties[a.c] ELSE 0
    <2>1. PICK o \in Answers(a.at) \cap ({"ok", "missing"} \cup Verdicts), k \in KindSaid(a) :
             Write(p, Outcome(IF o = "ok" THEN [a.s EXCEPT !.kind = k] ELSE a.s, o), NoAttempt, m(o), e(o))
      BY <1>9 DEF Answer, a
    <2> DEFINE t == IF o = "ok" THEN [a.s EXCEPT !.kind = k] ELSE a.s
               r == Outcome(t, o)
    <2>2. /\ a.at \in {"preview", "classify", "group", "bot", "profile", "invite"}
          /\ o = "later" => a.at = "classify"
          /\ o \in {"ok", "missing", "failed", "private", "invalid", "expired", "later"}
      BY <2>1 DEF Answers
    <2>9. t \in Row /\ (o # "ok" => t = a.s)
      <3>1. k \in Kinds
        BY <1>0, <2>1, <2>2, KindsSaid
      <3> QED
        BY <1>0, <2>2, <3>1, RowsTyped
    <2> HIDE DEF t
    <2>3. r \in Row /\ m(o) \in 0..GoneAfter /\ e(o) \in 0..GoneAfter
      BY <1>0, <1>1, <1>2, <2>1, <2>2, <2>9, RowsTyped
    <2>4. mixed' = mixed
      BY <1>9 DEF Answer
    <2>5. /\ o = "later" => /\ r.status = a.s.status /\ r.error = a.s.error
                            /\ r.gone = a.s.gone /\ r.seen = a.s.seen
          /\ o = "ok" => r.status = "ok" /\ r.error = "none" /\ r.gone = 0
          /\ o = "missing" => /\ r.error = "other" /\ r.gone = Capped(a.s.gone + 1)
                              /\ r.status = IF a.s.gone + 1 >= GoneAfter THEN "gone" ELSE "failed"
          /\ o \in {"failed", "private", "invalid", "expired"} =>
                r.status = o /\ r.error = "other" /\ r.gone = a.s.gone
      BY <1>0, <2>2, <2>9 DEF Outcome, Success, Missing, Failed, Row
    <2>6. Clean(r)
      BY <1>0, <2>2, <2>5 DEF Clean
    <2>7. r.status # "merged"
      <3>1. o = "later" => a.s.status # "merged"
        BY <1>0, <2>2 DEF NotMerged
      <3> QED
        BY <2>2, <2>5, <3>1
    <2>8. TrueToRow(p, r, m(o), e(o))
      <3>1. SUFFICES ASSUME ~a.old, ~raced[a.c]
                     PROVE  /\ r.gone = m(o) \/ (r.status = "ok" /\ r.error = "none")
                            /\ r.status = "gone" => r.gone = GoneAfter
                            /\ ErrorEarned(r, e(o))
        BY DEF TrueToRow, a
      <3>2. /\ a.s.gone = misses[a.c] /\ (a.s.status = "gone" => a.s.gone = GoneAfter)
            /\ ErrorEarned(a.s, empties[a.c])
        BY <1>6, <1>7, <2>2, <3>1
      <3> HIDE DEF r
      <3>3. CASE o = "later"
        BY <2>5, <3>2, <3>3 DEF ErrorEarned, PagesToBlock
      <3>4. CASE o = "ok"
        BY <2>5, <3>4 DEF ErrorEarned
      <3>5. CASE o = "missing"
        <4>1. a.s.gone \in 0..GoneAfter
          BY <1>0 DEF Row
        <4>2. a.s.gone + 1 >= GoneAfter => Capped(a.s.gone + 1) = GoneAfter
          BY <4>1 DEF Capped, GoneAfter
        <4> QED
          BY <2>5, <3>2, <3>5, <4>2 DEF ErrorEarned
      <3>6. CASE o \in {"failed", "private", "invalid", "expired"}
        BY <2>5, <3>2, <3>6 DEF ErrorEarned
      <3> QED
        BY <2>2, <3>3, <3>4, <3>5, <3>6
    <2>10. Write(p, r, NoAttempt, m(o), e(o))
      BY <2>1 DEF t
    <2> HIDE DEF r, m, e
    <2> QED
      BY <1>3, <2>2, <2>3, <2>4, <2>6, <2>7, <2>8, <2>10
  <1>10. CASE Limit(p)
    BY <1>5, <1>10 DEF Limit, hist, NoWrite
  <1>11. ASSUME NEW at \in {"bot", "invite", "classify", "profile"}, a.at \in {"preview", "group", "member"},
                at = "classify" => a.how = "full", att' = [att EXCEPT ![p].at = at], NoWrite
         PROVE  Copies' /\ Writes(p)
    <2> DEFINE b == [a EXCEPT !.at = at]
    <2>1. /\ b \in Attempt /\ b.at = at /\ b.c = a.c /\ b.how = a.how /\ b.s = a.s /\ b.live = a.live
          /\ (b.old <=> a.old)
      BY <1>0 DEF Attempt, Ats
    <2>2. att' = [att EXCEPT ![p] = b]
      BY <1>11 DEF a
    <2> HIDE DEF b
    <2>3. Clean(b.s)
      BY <1>0, <1>11, <2>1
    <2>4. CopyFresh(b)
      BY <1>6, <1>11, <2>1 DEF CopyFresh
    <2>5. MergeKnows(b) /\ NotMerged(b)
      BY <1>0, <1>11, <2>1 DEF MergeKnows, NotMerged
    <2> QED
      BY <1>4, <1>11, <2>1, <2>2, <2>3, <2>4, <2>5 DEF CopyGood
  <1>12. ASSUME a.at # "none" PROVE a.s.error \in Errors /\ MissError(a.s.error) \in Errors
    BY <1>0, RowsTyped DEF Row
  <1>13. ASSUME NEW s, NEW t, t.error = MissError(s.error), NEW n \in 0..GoneAfter, ErrorEarned(s, n)
         PROVE  ErrorEarned(t, Capped(n + 1))
    <2>1. n \in Nat /\ PagesToBlock(s) >= 1 /\ PagesToBlock(s) \in {1, 2} /\ PagesToBlock(t) \in {1, 2}
      BY DEF PagesToBlock
    <2>2. (n >= 1 => Capped(n + 1) >= 2) /\ Capped(n + 1) >= 1
      BY <2>1 DEF Capped, GoneAfter
    <2>3. n \in {0, 1, 2, 3} /\ Capped(n + 1) \in {1, 2, 3}
      BY <2>1 DEF Capped, GoneAfter
    <2> QED
      BY <1>13, <2>1, <2>2, <2>3 DEF ErrorEarned, MissError
  <1>14. CASE EmptyPage(p)
    <2>0. a.at = "preview" /\ mixed' = mixed
      BY <1>14 DEF EmptyPage, a
    <2>1. CASE a.how = "full"
      <3>1. att' = [att EXCEPT ![p].at = "bot"] /\ NoWrite
        BY <1>14, <2>1 DEF EmptyPage, a, NoWrite
      <3> QED
        BY <1>11, <2>0, <3>1
    <2>2. CASE a.how # "full" /\ a.s.seen
      <3> DEFINE r == [row[a.c] EXCEPT !.error = MissError(a.s.error), !.due = FALSE]
      <3>1. Write(p, r, NoAttempt, misses[a.c], Capped(empties[a.c] + 1))
        BY <1>14, <2>2 DEF EmptyPage, a
      <3>2. r \in Row /\ misses[a.c] \in 0..GoneAfter /\ Capped(empties[a.c] + 1) \in 0..GoneAfter
        BY <1>0, <1>2, <1>12, <2>0, RowsTyped
      <3>3. r.status = row[a.c].status /\ r.error = MissError(a.s.error) /\ r.gone = row[a.c].gone
        BY <1>0, <2>0 DEF Row
      <3> HIDE DEF r
      <3>4. MissError(a.s.error) # "none"
        BY <1>12, <2>0 DEF MissError
      <3>5. Clean(r)
        BY <3>3, <3>4 DEF Clean
      <3>6. ASSUME ~a.old, ~raced[a.c]
            PROVE  /\ r.gone = misses[a.c]
                   /\ r.status = "gone" => r.gone = GoneAfter
                   /\ ErrorEarned(r, Capped(empties[a.c] + 1))
        <4>1. ErrorEarned(a.s, empties[a.c])
          BY <1>6, <1>7, <2>0, <3>6
        <4>2. ErrorEarned(r, Capped(empties[a.c] + 1))
          BY <1>0, <1>13, <2>0, <3>3, <4>1
        <4> QED
          BY <1>7, <2>0, <3>3, <3>6, <4>2
      <3>7. TrueToRow(p, r, misses[a.c], Capped(empties[a.c] + 1))
        BY <3>6 DEF TrueToRow, a
      <3> QED
        BY <1>3, <2>0, <3>1, <3>2, <3>3, <3>5, <3>7
    <2>3. CASE a.how # "full" /\ ~a.s.seen
      <3> DEFINE r == Failed(a.s, "failed", "no_posts")
      <3>1. Write(p, r, NoAttempt, misses[a.c], Capped(empties[a.c] + 1))
        BY <1>14, <2>3 DEF EmptyPage, a
      <3>2. "failed" \in Statuses /\ "no_posts" \in Errors
        BY DEF Statuses, Errors
      <3>3. r \in Row /\ misses[a.c] \in 0..GoneAfter /\ Capped(empties[a.c] + 1) \in 0..GoneAfter
        BY <1>0, <1>2, <2>0, <3>2, RowsTyped
      <3>4. r.status = "failed" /\ r.error = "no_posts" /\ r.gone = a.s.gone /\ ~r.seen
        BY <1>0, <2>3 DEF Failed, Row
      <3> HIDE DEF r
      <3>5. Clean(r) /\ r.status # "merged"
        BY <3>4 DEF Clean
      <3>6. ~a.old /\ ~raced[a.c] => r.gone = misses[a.c]
        BY <1>6, <1>7, <2>0, <3>4
      <3>7. Capped(empties[a.c] + 1) >= 1
        <4>1. empties[a.c] \in 0..GoneAfter
          BY <1>0, <2>0
        <4> QED
          BY <4>1 DEF Capped, GoneAfter
      <3>8. TrueToRow(p, r, misses[a.c], Capped(empties[a.c] + 1))
        <4>1. ErrorEarned(r, Capped(empties[a.c] + 1))
          BY <3>4, <3>7 DEF ErrorEarned, PagesToBlock
        <4> QED
          BY <3>4, <3>6, <4>1 DEF TrueToRow, a
      <3> QED
        BY <1>3, <2>0, <3>1, <3>3, <3>5, <3>8
    <2> QED
      BY <2>1, <2>2, <2>3
  <1>15. CASE EmptyFeed(p)
    <2> DEFINE r == [Success(a.s) EXCEPT !.kind = "channel"]
               b == [a EXCEPT !.at = "mark"]
    <2>1. a.at = "profile" /\ Write(p, r, b, 0, empties[a.c]) /\ mixed' = mixed
      BY <1>15 DEF EmptyFeed, a
    <2>2. /\ b \in Attempt /\ b.at = "mark" /\ b.c = a.c /\ b.how = a.how /\ b.s = a.s
          /\ (b.old <=> a.old)
      BY <1>0 DEF Attempt, Ats
    <2>3. r \in Row /\ r.status = "ok" /\ r.error = "none" /\ r.gone = 0
      <3>1. Success(a.s) \in Row /\ "channel" \in Kinds
        BY <1>0, <2>1, RowsTyped DEF Kinds
      <3>2. Success(a.s).status = "ok" /\ Success(a.s).error = "none" /\ Success(a.s).gone = 0
        BY <1>0 DEF Success, Row
      <3> QED
        BY <3>1, <3>2, RowsTyped DEF Row
    <2> HIDE DEF r, b
    <2>4. Clean(r) /\ TrueToRow(p, r, 0, empties[a.c])
      BY <2>3 DEF Clean, TrueToRow, ErrorEarned
    <2>5. ~a.old => raced[a.c] \/ ErrorEarned(a.s, empties[a.c])
      BY <1>6, <1>7, <2>1
    <2>6. GoesOnFrom(p, r, b, empties[a.c])
      <3>1. a.how = "full" => a.s.status # "merged"
        BY <1>0, <2>1 DEF NotMerged
      <3>2. ~b.old => raced[a.c] \/ ErrorEarned(b.s, empties[a.c])
        BY <2>2, <2>5
      <3>3. Clean(b.s)
        BY <1>0, <2>1, <2>2
      <3> QED
        BY <2>2, <3>1, <3>2, <3>3 DEF GoesOnFrom, a
    <2>7. a.at # "none" /\ empties[a.c] \in 0..GoneAfter
      BY <1>0, <2>1
    <2>8. Writes(p)
      BY <2>1, <2>2, <2>3, RewritesRow DEF a
    <2> QED
      BY <1>1, <2>1, <2>2, <2>3, <2>4, <2>6, <2>7, <2>8, WriteKept DEF a
  <1>16. CASE MarkFeed(p)
    <2> DEFINE r == [row[a.c] EXCEPT !.error = MissError(a.s.error)]
    <2>1. a.at = "mark" /\ Write(p, r, NoAttempt, misses[a.c], Capped(empties[a.c] + 1)) /\ mixed' = mixed
      BY <1>16 DEF MarkFeed, a
    <2>2. r \in Row /\ misses[a.c] \in 0..GoneAfter /\ Capped(empties[a.c] + 1) \in 0..GoneAfter
      BY <1>0, <1>2, <1>12, <2>1, RowsTyped
    <2>3. r.status = row[a.c].status /\ r.error = MissError(a.s.error) /\ r.gone = row[a.c].gone
      BY <1>0, <2>1 DEF Row
    <2> HIDE DEF r
    <2>4. MissError(a.s.error) # "none"
      BY <1>12, <2>1 DEF MissError
    <2>5. Clean(r)
      BY <2>3, <2>4 DEF Clean
    <2>6. ASSUME ~a.old, ~raced[a.c]
          PROVE  /\ r.gone = misses[a.c]
                 /\ r.status = "gone" => r.gone = GoneAfter
                 /\ ErrorEarned(r, Capped(empties[a.c] + 1))
      <3>1. ErrorEarned(a.s, empties[a.c])
        BY <1>0, <2>1, <2>6 DEF CopyFresh
      <3>2. ErrorEarned(r, Capped(empties[a.c] + 1))
        BY <1>0, <1>13, <2>1, <2>3, <3>1
      <3> QED
        BY <1>7, <2>1, <2>3, <2>6, <3>2
    <2>7. TrueToRow(p, r, misses[a.c], Capped(empties[a.c] + 1))
      BY <2>6 DEF TrueToRow, a
    <2> QED
      BY <1>3, <2>1, <2>2, <2>3, <2>5, <2>7
  <1>17. CASE FallsBack(p)
    <2>1. NoWrite
      BY <1>17 DEF FallsBack, hist, NoWrite
    <2>2. PICK at \in {"bot", "invite", "classify", "profile"} :
             /\ a.at \in {"group", "member"} /\ att' = [att EXCEPT ![p].at = at]
             /\ at = "classify" => a.how = "full"
      <3>1. CASE a.at = "group" /\ att' = [att EXCEPT ![p].at = "bot"]
        BY <3>1
      <3>2. CASE a.at = "member" /\ att' = [att EXCEPT ![p].at =
                    CASE a.c \in Invites -> "invite" [] a.how = "full" -> "classify" [] OTHER -> "profile"]
        <4> DEFINE n == CASE a.c \in Invites -> "invite" [] a.how = "full" -> "classify" [] OTHER -> "profile"
        <4>1. n \in {"bot", "invite", "classify", "profile"} /\ (n = "classify" => a.how = "full")
          OBVIOUS
        <4>2. a.at = "member" /\ att' = [att EXCEPT ![p].at = n]
          BY <3>2
        <4> HIDE DEF n
        <4> QED
          BY <4>1, <4>2
      <3> QED
        BY <1>17, <3>1, <3>2 DEF FallsBack, a
    <2> QED
      BY <1>11, <2>1, <2>2
  <1>18. CASE Classified(p)
    <2> DEFINE k == RealKind[a.c]
               s == [a.s EXCEPT !.kind = k]
               at == IF k = "group" THEN "group" ELSE "preview"
               b == [a EXCEPT !.s = s, !.at = at]
    <2>1. a.at = "classify" /\ mixed' = mixed
      BY <1>18 DEF Classified, a
    <2>2. \/ Write(p, s, b, misses[a.c], empties[a.c])
          \/ k = a.s.kind /\ att' = [att EXCEPT ![p] = b] /\ NoWrite
      BY <1>18 DEF Classified, a, NoWrite
    <2>3. k \in Kinds /\ at \in {"group", "preview"}
      BY <1>0, <2>1, CollectAssumption
    <2>4. /\ s \in Row /\ s.status = a.s.status /\ s.error = a.s.error /\ s.gone = a.s.gone /\ s.seen = a.s.seen
          /\ k = a.s.kind => s = a.s
      <3>1. s \in Row
        BY <1>0, <2>3, RowsTyped
      <3> QED
        BY <1>0, <3>1 DEF Row
    <2> HIDE DEF k, at, s
    <2>5. /\ b \in Attempt /\ b.at = at /\ b.c = a.c /\ b.how = a.how /\ b.s = s
          /\ (b.old <=> a.old)
      BY <1>0, <2>3, <2>4 DEF Attempt, Ats
    <2> HIDE DEF b
    <2>6. Clean(s) /\ Clean(b.s) /\ s.status # "merged"
      BY <1>0, <2>1, <2>4, <2>5 DEF Clean, NotMerged
    <2>7. CASE Write(p, s, b, misses[a.c], empties[a.c])
      <3>1. ~a.old /\ ~raced[a.c] =>
               /\ s.gone = misses[a.c]
               /\ s.status = "gone" => s.gone = GoneAfter
               /\ ErrorEarned(s, empties[a.c])
        BY <1>6, <1>7, <2>1, <2>4 DEF ErrorEarned, PagesToBlock
      <3>2. TrueToRow(p, s, misses[a.c], empties[a.c])
        BY <3>1 DEF TrueToRow, a
      <3>3. GoesOnFrom(p, s, b, empties[a.c])
        BY <2>3, <2>5, <2>6 DEF GoesOnFrom, a
      <3>4. a.at # "none" /\ misses[a.c] \in 0..GoneAfter /\ empties[a.c] \in 0..GoneAfter
        BY <1>0, <2>1
      <3>5. Writes(p)
        BY <2>1, <2>3, <2>4, <2>5, <2>6, <2>7, RewritesRow DEF a
      <3> QED
        BY <2>1, <2>4, <2>5, <2>6, <2>7, <3>2, <3>3, <3>4, <3>5, WriteKept DEF a
    <2>8. CASE k = a.s.kind /\ att' = [att EXCEPT ![p] = b] /\ NoWrite
      <3>1. CopyFresh(b)
        BY <1>6, <2>1, <2>4, <2>5, <2>8, <2>3 DEF CopyFresh
      <3>2. MergeKnows(b) /\ NotMerged(b)
        BY <2>3, <2>5, <2>6 DEF MergeKnows, NotMerged
      <3> QED
        BY <1>4, <2>5, <2>6, <2>8, <3>1, <3>2 DEF CopyGood
    <2> QED
      BY <2>2, <2>7, <2>8
  <1>19. CASE MemberReads(p)
    <2> DEFINE k == RealKind[a.c]
               r == [Success(a.s) EXCEPT !.kind = k]
               b == [a EXCEPT !.at = "chat"]
    <2>1. a.at = "member" /\ Write(p, r, b, 0, 0) /\ mixed' = mixed
      BY <1>19 DEF MemberReads, a
    <2>2. k \in Kinds /\ Success(a.s) \in Row
      BY <1>0, <2>1, CollectAssumption, RowsTyped
    <2>3. r \in Row /\ r.status = "ok" /\ r.error = "none" /\ r.gone = 0
      <3>1. r \in Row
        BY <2>2, RowsTyped
      <3>2. Success(a.s).status = "ok" /\ Success(a.s).error = "none" /\ Success(a.s).gone = 0
        BY <1>0 DEF Success, Row
      <3> QED
        BY <2>2, <3>1, <3>2 DEF Row
    <2>4. /\ b \in Attempt /\ b.at = "chat" /\ b.c = a.c /\ b.how = a.how /\ b.s = a.s
      BY <1>0 DEF Attempt, Ats
    <2> HIDE DEF r, b
    <2>5. Clean(r) /\ TrueToRow(p, r, 0, 0)
      BY <2>3 DEF Clean, TrueToRow, ErrorEarned
    <2>6. GoesOnFrom(p, r, b, 0)
      <3>1. Clean(b.s) /\ (a.how = "full" => a.s.status # "merged")
        BY <1>0, <2>1, <2>4 DEF NotMerged
      <3> QED
        BY <2>4, <3>1 DEF GoesOnFrom, a
    <2>7. a.at # "none"
      BY <2>1
    <2>8. Writes(p)
      BY <2>1, <2>3, <2>4, RewritesRow DEF a
    <2> QED
      BY <1>1, <2>1, <2>3, <2>4, <2>5, <2>6, <2>7, <2>8, WriteKept DEF a
  <1>20. CASE FindTwins(p)
    <2> DEFINE live == {c \in Twins(a.c) : row[c].status # "merged"}
               b == [a EXCEPT !.at = "merge", !.live = live]
    <2>1. a.at = "chat" /\ NoWrite
      BY <1>20 DEF FindTwins, a, hist, NoWrite
    <2>2. att' = [att EXCEPT ![p] = b] \/ att' = [att EXCEPT ![p] = NoAttempt]
      BY <1>20 DEF FindTwins, a
    <2>3. live \in SUBSET Channels /\ live \subseteq Twins(a.c) /\ \A d \in live : row[d].status # "merged"
      BY DEF Twins
    <2> HIDE DEF live
    <2>4. /\ b \in Attempt /\ b.at = "merge" /\ b.c = a.c /\ b.how = a.how /\ b.s = a.s /\ b.live = live
      BY <1>0, <2>3 DEF Attempt, Ats
    <2> HIDE DEF b
    <2>5. CopyGood(b)
      <3>1. Clean(b.s) /\ CopyFresh(b)
        BY <1>0, <2>1, <2>4 DEF CopyFresh
      <3>2. MergeKnows(b)
        BY <2>3, <2>4 DEF MergeKnows
      <3>3. NotMerged(b)
        BY <1>0, <2>1, <2>4 DEF NotMerged
      <3> QED
        BY <3>1, <3>2, <3>3 DEF CopyGood
    <2> QED
      BY <1>4, <1>5, <2>1, <2>2, <2>4, <2>5
  <1>21. CASE Throws(p)
    <2>1. a.at # "none" /\ NoWrite
      BY <1>21 DEF Throws, Working, a, hist, NoWrite
    <2>2. att' = [att EXCEPT ![p] = Reloaded(p)] \/ att' = [att EXCEPT ![p] = NoAttempt]
      BY <1>21 DEF Throws
    <2>3. Reloaded(p) \in Attempt /\ CopyGood(Reloaded(p))
      BY <2>1, ReloadedGood DEF a
    <2> QED
      BY <1>4, <1>5, <2>1, <2>2, <2>3
  <1>22. CASE GivesUp(p)
    <2> DEFINE r == Failed(a.s, "failed", "other")
    <2>1. a.at = "give up" /\ mixed' = mixed
      BY <1>22 DEF GivesUp, a
    <2>2. \/ Write(p, r, NoAttempt, misses[a.c], 0)
          \/ att' = [att EXCEPT ![p] = NoAttempt] /\ NoWrite
      BY <1>22 DEF GivesUp, a, NoWrite
    <2>3. "failed" \in Statuses /\ "other" \in Errors
      BY DEF Statuses, Errors
    <2>4. r \in Row /\ misses[a.c] \in 0..GoneAfter
      BY <1>0, <2>1, <2>3, RowsTyped
    <2>5. r.status = "failed" /\ r.error = "other" /\ r.gone = a.s.gone
      BY <1>0 DEF Failed, Row
    <2> HIDE DEF r
    <2>6. Clean(r) /\ r.status # "merged"
      BY <2>5 DEF Clean
    <2>7. ~a.old /\ ~raced[a.c] => r.gone = misses[a.c]
      BY <1>6, <1>7, <2>1, <2>5
    <2>8. TrueToRow(p, r, misses[a.c], 0)
      BY <2>5, <2>7 DEF TrueToRow, a, ErrorEarned
    <2> QED
      BY <1>1, <1>3, <1>5, <2>1, <2>2, <2>4, <2>6, <2>8
  <1>23. CASE Merge(p)
    <2>1. PICK keep \in a.live :
          LET gone == a.live \ {keep} IN
          /\ row' = [c \in Channels |-> IF c \in gone THEN [row[c] EXCEPT !.status = "merged"] ELSE row[c]]
          /\ att' = [[q \in Slots |-> IF q # p /\ att[q].c \in gone THEN [att[q] EXCEPT !.old = TRUE] ELSE att[q]]
                        EXCEPT ![p] = NoAttempt]
          /\ mixed' = mixed \cup {Chat[a.c] : q \in {q \in Slots \ {p} : att[q].at = "merge" /\ Chat[att[q].c] = Chat[a.c]}}
      BY <1>23 DEF Merge, a
    <2> DEFINE gone == a.live \ {keep}
    <2>2. a.at = "merge" /\ UNCHANGED <<misses, empties, raced>>
      BY <1>23 DEF Merge, a
    <2>3. gone \subseteq Twins(a.c) /\ Twins(a.c) \subseteq Channels
      BY <1>0, <2>2 DEF MergeKnows, Twins
    <2>4. \A c \in Channels : row'[c] = IF c \in gone THEN [row[c] EXCEPT !.status = "merged"] ELSE row[c]
      BY <2>1
    <2>5. \A c \in gone : /\ row'[c].status = "merged" /\ row'[c].gone = row[c].gone
                       /\ row'[c].error = row[c].error /\ row'[c].seen = row[c].seen
      <3>1. \A c \in Channels : row[c] \in Row
        BY DEF Books
      <3> QED
        BY <2>3, <2>4, <3>1 DEF Row
    <2>6. att'[p] = NoAttempt
      BY <2>1 DEF Books
    <2>7. \A q \in Slots \ {p} : att'[q] = IF att[q].c \in gone THEN [att[q] EXCEPT !.old = TRUE] ELSE att[q]
      BY <2>1
    <2>8. mixed \subseteq mixed' /\ \A q \in Slots \ {p} : att[q].at = "merge" /\ Chat[att[q].c] = Chat[a.c] => Chat[a.c] \in mixed'
      BY <2>1
    <2> HIDE DEF gone
    <2>9. ASSUME NEW c \in Channels PROVE Clean(row[c])' /\ (raced[c] \/ RowEarned(c))'
      <3>1. Clean(row[c]) /\ (raced[c] \/ RowEarned(c))
        BY DEF Copies
      <3>2. CASE c \in gone
        BY <2>2, <2>5, <3>1, <3>2 DEF Clean, RowEarned, ErrorEarned, PagesToBlock
      <3>3. CASE c \notin gone
        BY <2>2, <2>4, <3>1, <3>3 DEF Clean, RowEarned, ErrorEarned, PagesToBlock
      <3> QED
        BY <3>2, <3>3
    <2>10. ASSUME NEW q \in Slots, q # p, att'[q].at # "none" PROVE CopyGood(att[q])'
      <3>1. att[q] \in Attempt
        BY DEF Books
      <3>2. /\ att'[q].at = att[q].at /\ att'[q].c = att[q].c /\ att'[q].how = att[q].how
            /\ att'[q].s = att[q].s /\ att'[q].live = att[q].live
            /\ ~att'[q].old => ~att[q].old /\ att[q].c \notin gone
        <4>1. CASE att[q].c \in gone
          <5>1. att'[q] = [att[q] EXCEPT !.old = TRUE]
            BY <2>7, <2>10, <4>1
          <5> QED
            BY <3>1, <5>1 DEF Attempt
        <4>2. CASE att[q].c \notin gone
          <5>1. att'[q] = att[q]
            BY <2>7, <2>10, <4>2
          <5> QED
            BY <4>2, <5>1
        <4> QED
          BY <4>1, <4>2
      <3>3. Clean(att[q].s) /\ CopyFresh(att[q]) /\ MergeKnows(att[q]) /\ NotMerged(att[q])
        BY <2>10, <3>2 DEF Copies, CopyGood
      <3>4. att[q].c \in Channels
        BY <2>10, <3>2 DEF Books
      <3>5. Clean(att[q].s)' /\ NotMerged(att[q])'
        BY <3>2, <3>3 DEF Clean, NotMerged
      <3>6. CopyFresh(att[q])'
        <4>1. ~att'[q].old => row'[att[q].c] = row[att[q].c]
          BY <2>4, <3>2, <3>4
        <4> QED
          BY <2>2, <3>2, <3>3, <4>1 DEF CopyFresh, ErrorEarned
      <3>7. MergeKnows(att[q])'
        <4>1. CASE att[q].at # "merge"
          BY <3>2, <4>1 DEF MergeKnows
        <4>2. CASE att[q].at = "merge"
          <5>1. att[q].live \subseteq Twins(att[q].c) /\ Twins(att[q].c)' = Twins(att[q].c)
            BY <3>2, <3>3, <4>2 DEF MergeKnows, Twins
          <5>2. ASSUME Chat[att[q].c] \notin mixed', NEW d \in att[q].live PROVE row'[d].status # "merged"
            <6>1. Chat[att[q].c] # Chat[a.c] /\ Chat[att[q].c] \notin mixed
              BY <2>8, <2>10, <4>2, <5>2
            <6>2. row[d].status # "merged"
              BY <3>3, <4>2, <5>2, <6>1 DEF MergeKnows
            <6>3. d \in Channels /\ Chat[d] = Chat[att[q].c]
              BY <5>1, <5>2 DEF Twins
            <6>4. d \notin gone
              BY <2>3, <6>1, <6>3 DEF Twins
            <6> QED
              BY <2>4, <6>2, <6>3, <6>4
          <5> QED
            BY <3>2, <5>1, <5>2 DEF MergeKnows
        <4> QED
          BY <4>1, <4>2
      <3> QED
        BY <3>5, <3>6, <3>7 DEF CopyGood
    <2>11. \A q \in Slots : CopyGood(att[q])'
      BY <1>1, <2>6, <2>10 DEF CopyGood
    <2> QED
      BY <1>23, <2>9, <2>11 DEF Copies, Writes
  <1> QED
    BY <1>8, <1>9, <1>10, <1>14, <1>15, <1>16, <1>17, <1>18, <1>19, <1>20, <1>21, <1>22, <1>23 DEF Step

LEMMA CopiesKept ==
    ASSUME Books, Crew, Copies, [Next]_vars
    PROVE  Copies'
  <1> DEFINE NoWrite == UNCHANGED <<row, misses, empties, raced, mixed>>
  <1>1. ASSUME NEW p \in Slots, NEW b \in Attempt, CopyGood(b), att' = [att EXCEPT ![p] = b], NoWrite
        PROVE  Copies'
    <2> DEFINE f == [att EXCEPT ![p] = b]
    <2>1. f \in [Slots -> Attempt] /\ f[p] = b /\ \A q \in Slots \ {p} : f[q] = att[q]
      BY DEF Books
    <2>2. att' = f
      BY <1>1
    <2> HIDE DEF f
    <2>3. \A q \in Slots : CopyGood(f[q])
      BY <1>1, <2>1 DEF Copies
    <2> QED
      BY <1>1, <2>1, <2>2, <2>3, AlterKept
  <1>2. ASSUME UNCHANGED att, NoWrite PROVE Copies'
    BY <1>2, AlterKept DEF Books, Copies
  <1>3. ASSUME NEW p \in Slots, Step(p) PROVE Copies'
    BY <1>3, StepKeepsCopies
  <1>4. CASE StartRun \/ GoOn
    <2>1. UNCHANGED <<row, att, cooling, misses, empties, raced, mixed>>
      BY <1>4 DEF StartRun, GoOn, StartRound, hist
    <2> QED
      BY <1>2, <2>1
  <1>5. CASE RoundEnds \/ BudgetEnds \/ CoolingEnds \/ UNCHANGED vars
    <2>1. UNCHANGED att /\ NoWrite
      BY <1>5 DEF RoundEnds, BudgetEnds, CoolingEnds, vars, hist
    <2> QED
      BY <1>2, <2>1
  <1>6. ASSUME NEW w \in Workers, TakeItem(w) PROVE Copies'
    <2>1. NoWrite
      BY <1>6 DEF TakeItem, hist
    <2>2. PICK c \in run.left, how \in Hows : \E a \in Loaded(c, how) : att' = [att EXCEPT ![<<w, "hand">>] = a]
      BY <1>6 DEF TakeItem, Hows
    <2>3. PICK a \in Loaded(c, how) : att' = [att EXCEPT ![<<w, "hand">>] = a]
      BY <2>2
    <2>4. c \in Channels
      BY <2>2 DEF Crew, RoundState
    <2>5. a \in Attempt /\ CopyGood(a)
      BY <2>4, LoadedTyped, LoadedGood
    <2> QED
      BY <1>1, <2>1, <2>3, <2>5, HandsAreSlots
  <1>7. ASSUME NEW w \in Workers, WorkerStops(w) PROVE Copies'
    <2>1. UNCHANGED att /\ NoWrite
      BY <1>7 DEF WorkerStops, hist
    <2> QED
      BY <1>2, <2>1
  <1>8. ASSUME NEW d \in Desk, Ask(d) PROVE Copies'
    <2>1. NoWrite
      BY <1>8 DEF Ask, hist
    <2>2. PICK t \in DeskWork : \E a \in Loaded(t[1], t[2]) : att' = [att EXCEPT ![<<d, "hand">>] = a]
      BY <1>8 DEF Ask
    <2>3. PICK a \in Loaded(t[1], t[2]) : att' = [att EXCEPT ![<<d, "hand">>] = a]
      BY <2>2
    <2>4. t[1] \in Channels /\ t[2] \in Hows
      BY <2>2, CollectAssumption DEF Hows
    <2>5. a \in Attempt /\ CopyGood(a)
      BY <2>4, LoadedTyped, LoadedGood
    <2>6. <<d, "hand">> \in Slots
      BY DEF Slots
    <2> QED
      BY <1>1, <2>1, <2>3, <2>5, <2>6
  <1>9. ASSUME NEW w \in Workers, TimesOut(w) PROVE Copies'
    <2> DEFINE p == <<w, "hand">>
               q == <<w, "stray">>
    <2>1. p \in Slots /\ q \in Slots /\ att[p].at # "none" /\ NoWrite
      BY <1>9, HandsAreSlots DEF TimesOut, Working, hist
    <2>2. PICK b \in {NoAttempt, Reloaded(p)} : att' = [att EXCEPT ![p] = b, ![q] = att[p]]
      BY <1>9 DEF TimesOut
    <2>3. NoAttempt \in Attempt /\ CopyGood(NoAttempt)
      BY NoAttemptTyped DEF CopyGood
    <2>4. b \in Attempt /\ CopyGood(b)
      BY <2>1, <2>2, <2>3, ReloadedGood
    <2>5. \A o \in Slots : CopyGood(att[o]) /\ att[o] \in Attempt
      BY DEF Copies, Books
    <2> DEFINE f == [att EXCEPT ![p] = b, ![q] = att[p]]
    <2> HIDE DEF p, q
    <2>6. f \in [Slots -> Attempt] /\ \A o \in Slots : f[o] \in {b, att[p], att[o]}
      BY <2>1, <2>4, <2>5 DEF Books
    <2>7. \A o \in Slots : CopyGood(f[o])
      BY <2>1, <2>4, <2>5, <2>6
    <2>8. att' = f
      BY <2>2
    <2> HIDE DEF f
    <2> QED
      BY <2>1, <2>6, <2>7, <2>8, AlterKept
  <1>10. ASSUME NEW c \in Channels, ComesDue(c) PROVE Copies'
    <2>1. /\ row' = [row EXCEPT ![c].due = TRUE] /\ UNCHANGED <<misses, empties, raced, mixed>>
          /\ att' = [q \in Slots |-> IF att[q].c = c THEN [att[q] EXCEPT !.s.due = TRUE] ELSE att[q]]
      BY <1>10 DEF ComesDue, hist
    <2>2. \A d \in Channels : row[d] \in Row
      BY DEF Books
    <2>3. /\ row'[c] = [row[c] EXCEPT !.due = TRUE]
          /\ \A d \in Channels \ {c} : row'[d] = row[d]
      BY <2>1 DEF Books
    <2>4. \A d \in Channels : /\ row'[d].status = row[d].status /\ row'[d].error = row[d].error
                              /\ row'[d].gone = row[d].gone /\ row'[d].seen = row[d].seen
      BY <2>2, <2>3 DEF Row
    <2>5. \A d \in Channels : Clean(row[d])' /\ (raced[d] \/ RowEarned(d))'
      BY <2>1, <2>4 DEF Copies, Clean, RowEarned, ErrorEarned, PagesToBlock
    <2>6. ASSUME NEW q \in Slots PROVE CopyGood(att[q])'
      <3>1. att[q] \in Attempt /\ att[q].s \in Row /\ (att[q].at # "none" => att[q].c \in Channels) /\ CopyGood(att[q])
        BY DEF Books, Attempt, Copies
      <3>2. CASE att[q].c # c
        <4>1. att'[q] = att[q]
          BY <2>1, <3>2
        <4>2. att[q].at # "none" => row'[att[q].c] = row[att[q].c]
          BY <2>3, <3>1, <3>2
        <4>3. Twins(att[q].c)' = Twins(att[q].c) /\ Twins(att[q].c) \subseteq Channels
          BY <4>1 DEF Twins
        <4>4. Clean(att[q].s)' = Clean(att[q].s) /\ NotMerged(att[q])' = NotMerged(att[q])
          BY <4>1 DEF Clean, NotMerged
        <4>5. att[q].at # "none" /\ CopyFresh(att[q]) => CopyFresh(att[q])'
          BY <2>1, <4>1, <4>2 DEF CopyFresh, ErrorEarned
        <4>6. MergeKnows(att[q]) => MergeKnows(att[q])'
          BY <2>1, <2>4, <4>1, <4>3 DEF MergeKnows
        <4> QED
          BY <3>1, <4>1, <4>4, <4>5, <4>6 DEF CopyGood
      <3>3. CASE att[q].c = c
        <4>1. att'[q] = [att[q] EXCEPT !.s.due = TRUE]
          BY <2>1, <3>3
        <4>2. att'[q] = [att[q] EXCEPT !.s = [att[q].s EXCEPT !.due = TRUE]]
          BY <3>1, <4>1 DEF Attempt
        <4>3. /\ att'[q].at = att[q].at /\ att'[q].c = c /\ att'[q].how = att[q].how /\ att'[q].live = att[q].live
              /\ att'[q].s = [att[q].s EXCEPT !.due = TRUE] /\ (att'[q].old <=> att[q].old)
          BY <3>1, <3>3, <4>2 DEF Attempt
        <4>4. /\ att'[q].s.status = att[q].s.status /\ att'[q].s.error = att[q].s.error
              /\ att'[q].s.gone = att[q].s.gone /\ att'[q].s.seen = att[q].s.seen
          BY <3>1, <4>3 DEF Row
        <4>5. att[q].s = row[c] => att'[q].s = row'[c]
          BY <2>3, <4>3
        <4>6. Twins(att[q].c)' = Twins(att[q].c) /\ Twins(att[q].c) \subseteq Channels
          BY <3>3, <4>3 DEF Twins
        <4>7. Clean(att[q].s)' = Clean(att[q].s) /\ NotMerged(att[q])' = NotMerged(att[q])
          BY <4>3, <4>4 DEF Clean, NotMerged
        <4>8. CopyFresh(att[q]) => CopyFresh(att[q])'
          BY <2>1, <3>3, <4>3, <4>4, <4>5 DEF CopyFresh, ErrorEarned, PagesToBlock
        <4>9. MergeKnows(att[q]) => MergeKnows(att[q])'
          BY <2>1, <2>4, <3>3, <4>3, <4>6 DEF MergeKnows
        <4> QED
          BY <3>1, <4>3, <4>7, <4>8, <4>9 DEF CopyGood
      <3> QED
        BY <3>2, <3>3
    <2> QED
      BY <2>5, <2>6 DEF Copies
  <1> QED
    BY <1>3, <1>4, <1>5, <1>6, <1>7, <1>8, <1>9, <1>10 DEF Next, Worker

LEMMA CopiesAlways == Spec => []Copies
  BY CopiesBegin, CopiesKept, ShapeAlways, PTL DEF Spec

\* A channel is off the lists as gone only after three not_found answers with no success
\* between them, and blocked only after two empty pages in a row, or after one if it was
\* never read before; unless one of its writes came from a copy older than another write
\* (markGoneProgress, previewMissError, collectPublicPreview).
THEOREM VerdictsAlwaysEarned == Spec => []VerdictsEarned
  <1>1. Books /\ Copies => VerdictsEarned
    <2> SUFFICES ASSUME Books, Copies, NEW c \in Channels, ~raced[c]
                 PROVE  /\ row[c].gone = misses[c]
                        /\ row[c].status = "gone" => misses[c] = GoneAfter
                        /\ Blocked(row[c]) => empties[c] >= PagesToBlock(row[c])
      BY DEF VerdictsEarned
    <2>1. RowEarned(c)
      BY DEF Copies
    <2>2. empties[c] >= 2 => empties[c] >= PagesToBlock(row[c])
      <3>1. empties[c] \in 0..GoneAfter
        BY DEF Books
      <3> QED
        BY <3>1 DEF PagesToBlock, GoneAfter
    <2> QED
      BY <2>1, <2>2 DEF RowEarned, ErrorEarned, Blocked
  <1> QED
    BY <1>1, ShapeAlways, CopiesAlways, PTL

\* What the steps of a collection do to rows.
LEMMA RowsWritten ==
    ASSUME [Next]_vars
    PROVE  \/ UNCHANGED row
           \/ \E p \in Slots : Step(p)
           \/ \E c \in Channels : ComesDue(c)
  BY DEF Next, Worker, StartRun, GoOn, StartRound, RoundEnds, BudgetEnds, CoolingEnds, TakeItem, WorkerStops,
         TimesOut, Ask, vars

\* Only Merge makes rows merged.
LEMMA OnlyMergeMerges ==
    ASSUME Books, Copies, [Next]_vars
    PROVE  \/ \E p \in Slots : Merge(p)
           \/ \A c \in Channels : row'[c].status = "merged" => row[c].status = "merged"
  <1>1. CASE UNCHANGED row
    BY <1>1
  <1>2. ASSUME NEW c \in Channels, ComesDue(c)
        PROVE  \A d \in Channels : row'[d].status = "merged" => row[d].status = "merged"
    <2>1. row' = [row EXCEPT ![c] = [row[c] EXCEPT !.due = TRUE]] /\ row[c] \in Row
      BY <1>2 DEF ComesDue, Books
    <2>2. [row[c] EXCEPT !.due = TRUE].status = row[c].status
      BY <2>1 DEF Row
    <2> QED
      BY <2>1, <2>2 DEF Books
  <1>3. ASSUME NEW p \in Slots, Step(p)
        PROVE  \/ Merge(p)
               \/ \A c \in Channels : row'[c].status = "merged" => row[c].status = "merged"
    <2>1. CASE Merge(p)
      BY <2>1
    <2>2. CASE UNCHANGED row
      BY <2>2
    <2>3. ASSUME NEW r \in Row, Rewrites(p, r)
          PROVE  \A c \in Channels : row'[c].status = "merged" => row[c].status = "merged"
      <3>1. att[p].c \in Channels
        BY <2>3 DEF Rewrites, Books
      <3> QED
        BY <2>3, <3>1 DEF Rewrites, Books
    <2> QED
      BY <1>3, <2>1, <2>2, <2>3, StepKeepsCopies DEF Writes
  <1> QED
    BY <1>1, <1>2, <1>3, RowsWritten

LEMMA RowKeptKept ==
    ASSUME Books, Copies, OneRowKept, [Next]_vars
    PROVE  OneRowKept'
  <1>1. mixed \subseteq mixed'
    BY DEF Next, Worker, Step, StartRun, GoOn, StartRound, RoundEnds, BudgetEnds, CoolingEnds, TakeItem, WorkerStops,
           TimesOut, Ask, ComesDue, Skip, Answer, Limit, EmptyPage, EmptyFeed, MarkFeed, FallsBack, Classified,
           MemberReads, FindTwins, Merge, Throws, GivesUp, hist, vars
  <1>2. CASE \A c \in Channels : row'[c].status = "merged" => row[c].status = "merged"
    BY <1>1, <1>2 DEF OneRowKept, Twins
  <1>3. ASSUME NEW p \in Slots, Merge(p) PROVE OneRowKept'
    <2> DEFINE a == att[p]
    <2>1. a.at = "merge" /\ a.c \in Channels
      BY <1>3 DEF Merge, Books
    <2>2. PICK keep \in a.live :
             row' = [c \in Channels |-> IF c \in a.live \ {keep} THEN [row[c] EXCEPT !.status = "merged"] ELSE row[c]]
      BY <1>3 DEF Merge
    <2>3. MergeKnows(a)
      BY <2>1 DEF Copies, CopyGood
    <2>4. a.live \subseteq Twins(a.c) /\ keep \in Channels /\ Chat[keep] = Chat[a.c]
      BY <2>1, <2>2, <2>3 DEF MergeKnows, Twins
    <2>5. Chat[a.c] \notin mixed => row'[keep].status # "merged"
      BY <2>1, <2>2, <2>3, <2>4 DEF MergeKnows
    <2>6. SUFFICES ASSUME NEW c \in Channels, Chat[c] \notin mixed
                   PROVE  \E d \in Channels : Chat[d] = Chat[c] /\ row'[d].status # "merged"
      BY <1>1 DEF OneRowKept, Twins
    <2>7. CASE Chat[c] = Chat[a.c]
      BY <2>4, <2>5, <2>6, <2>7
    <2>8. CASE Chat[c] # Chat[a.c]
      <3>1. PICK d \in Channels : Chat[d] = Chat[c] /\ row[d].status # "merged"
        BY <2>6 DEF OneRowKept, Twins
      <3>2. d \notin a.live
        BY <2>4, <2>8, <3>1 DEF Twins
      <3> QED
        BY <2>2, <3>1, <3>2
    <2> QED
      BY <2>7, <2>8
  <1> QED
    BY <1>2, <1>3, OnlyMergeMerges

\* Of the rows of one Telegram chat one stays visible, unless two merges of the chat were
\* under way at once (mergeSameTelegramChat).
THEOREM OneRowAlwaysKept == Spec => []OneRowKept
  <1>1. Init => OneRowKept
    <2> SUFFICES ASSUME Init, NEW c \in Channels
                 PROVE  \E d \in Channels : Chat[d] = Chat[c] /\ row[d].status # "merged"
      BY DEF OneRowKept, Twins
    <2>1. row \in FirstRows
      BY DEF Init
    <2> QED
      BY <2>1, CollectAssumption
  <1>2. Books /\ Crew /\ Copies /\ OneRowKept /\ [Next]_vars => OneRowKept'
    BY RowKeptKept
  <1> QED
    BY <1>1, <1>2, ShapeAlways, CopiesAlways, PTL DEF Spec

\* A merged row comes back only through a stale copy, a light attempt or a single
\* collection, or the note of a failure (shouldSkipDailyCollect).
THEOREM MergedRowsStay == Spec => MergedStays
  <1> DEFINE Returns(c) == row[c].status = "merged" /\ row'[c].status # "merged"
             Excused(c) == \E p \in Slots : /\ att[p].c = c /\ att'[p] # att[p]
                                            /\ att[p].old \/ att[p].how # "full" \/ att[p].at = "give up"
  <1>1. ASSUME Books, Copies, [Next]_vars, NEW c \in Channels, Returns(c)
        PROVE  Excused(c)
    <2>1. ~UNCHANGED row
      BY <1>1
    <2>2. ASSUME NEW d \in Channels, ComesDue(d) PROVE FALSE
      <3>1. row' = [row EXCEPT ![d] = [row[d] EXCEPT !.due = TRUE]] /\ row[d] \in Row
        BY <2>2, <1>1 DEF ComesDue, Books
      <3>2. [row[d] EXCEPT !.due = TRUE].status = row[d].status
        BY <3>1 DEF Row
      <3> QED
        BY <1>1, <3>1, <3>2 DEF Books
    <2>3. PICK p \in Slots : Step(p)
      BY <1>1, <2>1, <2>2, RowsWritten
    <2>4. ~Merge(p)
      <3> SUFFICES ASSUME Merge(p) PROVE FALSE
        OBVIOUS
      <3>1. PICK gone \in SUBSET att[p].live :
               row' = [d \in Channels |-> IF d \in gone THEN [row[d] EXCEPT !.status = "merged"] ELSE row[d]]
        BY DEF Merge
      <3>2. row[c] \in Row
        BY <1>1 DEF Books
      <3>3. [row[c] EXCEPT !.status = "merged"].status = "merged"
        BY <3>2 DEF Row
      <3> QED
        BY <1>1, <3>1, <3>3
    <2>5. PICK r \in Row : Rewrites(p, r)
      BY <1>1, <2>1, <2>3, <2>4, StepKeepsCopies DEF Writes
    <2>6. att[p].c = c /\ row[c].status = "merged" /\ r.status # "merged"
      BY <1>1, <2>5 DEF Rewrites, Books
    <2>7. att'[p] # att[p] /\ att[p].at \notin {"none", "mark", "chat", "merge"}
      BY <2>5, <2>6 DEF Rewrites
    <2>8. CopyFresh(att[p]) /\ NotMerged(att[p])
      BY <1>1, <2>7 DEF Copies, CopyGood
    <2>9. att[p].at # "skip"
      <3> SUFFICES ASSUME att[p].at = "skip" PROVE FALSE
        OBVIOUS
      <3>1. Skip(p) \/ Throws(p)
        BY <2>3, <2>7 DEF Step, Answer, Answers, Limit, EmptyPage, EmptyFeed, MarkFeed, FallsBack, Classified,
              MemberReads, FindTwins, Merge, GivesUp
      <3> QED
        BY <2>1, <3>1 DEF Skip, Throws
    <2>10. att[p].old \/ att[p].how # "full" \/ att[p].at = "give up"
      <3> SUFFICES ASSUME ~att[p].old, att[p].how = "full", att[p].at # "give up" PROVE FALSE
        OBVIOUS
      <3>1. att[p].s = row[c]
        BY <2>6, <2>7, <2>8 DEF CopyFresh
      <3>2. att[p].s.status # "merged"
        BY <2>8, <2>9 DEF NotMerged
      <3> QED
        BY <2>6, <3>1, <3>2
    <2> QED
      BY <2>6, <2>7, <2>10
  <1>2. Books /\ Crew /\ Copies /\ [Next]_vars => \A c \in Channels : Returns(c) => Excused(c)
    BY <1>1
  <1>3. UNCHANGED vars => \A c \in Channels : ~Returns(c)
    BY DEF vars
  <1> QED
    BY <1>2, ShapeAlways, CopiesAlways, PTL DEF Spec, MergedStays
==============================================================================
