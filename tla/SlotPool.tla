------------------------------ MODULE SlotPool ------------------------------
(***************************************************************************)
(* What callers may rely on when they ask for one of a limited number of   *)
(* slots: a caller asks, and is let in or turned away later; no more       *)
(* callers are inside than the pool and the caller's kind allow, and while *)
(* the pool is closed nobody is let in.  Nothing is said of when a pool    *)
(* closes, of whom it lets in first, or of why it turns a caller away.     *)
(***************************************************************************)
EXTENDS Naturals, FiniteSets

CONSTANTS
    Clients,   \* callers
    Kinds,     \* kinds of callers
    KindOf,    \* the kind of each caller
    Capacity,  \* how many callers of each kind may be inside
    Total      \* how many callers may be inside

VARIABLES
    place,   \* where each caller is: outside, asking or inside
    closed   \* TRUE while nobody is let in

poolVars == <<place, closed>>

Inside == {c \in Clients : place[c] = "inside"}
InsideOf(k) == {c \in Inside : KindOf[c] = k}

PoolInit ==
    /\ place = [c \in Clients |-> "outside"]
    /\ closed = FALSE

Room(k) == Cardinality(Inside) < Total /\ Cardinality(InsideOf(k)) < Capacity[k]

Ask(c) == place[c] = "outside" /\ place' = [place EXCEPT ![c] = "asking"]

Enter(c) ==
    /\ place[c] # "inside"
    /\ ~closed
    /\ Room(KindOf[c])
    /\ place' = [place EXCEPT ![c] = "inside"]

TurnAway(c) == place[c] = "asking" /\ place' = [place EXCEPT ![c] = "outside"]

Leave(c) == place[c] = "inside" /\ place' = [place EXCEPT ![c] = "outside"]

\* A caller moves while the pool stays as it is; a caller that leaves may close the pool
\* behind it; the pool opens again by itself.
PoolNext ==
    \/ \E c \in Clients : (Ask(c) \/ Enter(c) \/ TurnAway(c)) /\ UNCHANGED closed
    \/ \E c \in Clients : Leave(c) /\ closed' \in {closed, TRUE}
    \/ closed' = FALSE /\ UNCHANGED place

PoolSpec == PoolInit /\ [][PoolNext]_poolVars

-----------------------------------------------------------------------------
(* Properties *)

\* No more callers are inside than there are slots, of all kinds together and of each.
LimitsKept ==
    /\ Cardinality(Inside) <= Total
    /\ \A k \in Kinds : Cardinality(InsideOf(k)) <= Capacity[k]
=============================================================================
