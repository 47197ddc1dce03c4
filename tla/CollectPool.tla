------------------------------ MODULE CollectPool ------------------------------
(***************************************************************************)
(* What whoever starts a collection may rely on: a round offers some       *)
(* items, each is taken at most once and comes out as a success or a       *)
(* failure, a round over its time takes no further item except its first   *)
(* one, and when it closes nobody still works on an item and the counts    *)
(* add up to what was offered.  Nothing is said of who works, in which     *)
(* order, or of what working on an item does.                              *)
(***************************************************************************)
EXTENDS Naturals, FiniteSets

CONSTANT Items

VARIABLES
    open,      \* a round is under way
    timed,     \* it has a deadline
    late,      \* the deadline has passed
    offered,   \* how many items it began with
    todo,      \* those nobody has taken
    hands,     \* how many are being worked on
    good, bad  \* how many came out well, and badly

poolVars == <<open, timed, late, offered, todo, hands, good, bad>>

PoolInit ==
    /\ ~open /\ ~timed /\ ~late
    /\ todo = {}
    /\ offered = 0 /\ hands = 0 /\ good = 0 /\ bad = 0

Open ==
    /\ ~open /\ open'
    /\ timed' \in BOOLEAN /\ late' = FALSE
    /\ todo' \in SUBSET Items /\ offered' = Cardinality(todo')
    /\ hands' = 0 /\ good' = 0 /\ bad' = 0

Take ==
    /\ open
    /\ timed /\ late => Cardinality(todo) = offered
    /\ \E i \in todo : todo' = todo \ {i}
    /\ hands' = hands + 1
    /\ UNCHANGED <<open, timed, late, offered, good, bad>>

GiveBack ==
    /\ open /\ hands > 0
    /\ hands' = hands - 1
    /\ \/ good' = good + 1 /\ bad' = bad
       \/ bad' = bad + 1 /\ good' = good
    /\ UNCHANGED <<open, timed, late, offered, todo>>

TimeIsUp == open /\ late' = TRUE /\ UNCHANGED <<open, timed, offered, todo, hands, good, bad>>

\* What is reported as remaining is what was offered and did not come out.
Close ==
    /\ open /\ hands = 0
    /\ good + bad + Cardinality(todo) = offered
    /\ todo # {} => timed /\ late
    /\ offered > 0 => good + bad > 0
    /\ open' = FALSE /\ timed' = FALSE /\ late' = FALSE
    /\ offered' = 0 /\ todo' = {} /\ hands' = 0 /\ good' = 0 /\ bad' = 0

PoolNext == Open \/ Take \/ GiveBack \/ TimeIsUp \/ Close

PoolSpec == PoolInit /\ [][PoolNext]_poolVars

-----------------------------------------------------------------------------
(* Properties *)

\* At every moment of a round each item is with those nobody has taken, in somebody's
\* hands, or counted, and in one of the three only.
CountsAddUp ==
    /\ {offered, hands, good, bad} \subseteq Nat
    /\ IsFiniteSet(todo)
    /\ good + bad + hands + Cardinality(todo) = offered
=============================================================================
