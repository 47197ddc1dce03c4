------------------------------- MODULE MCAdDesk -------------------------------
(***************************************************************************)
(* Two ads are booked, one for all lists and one of a category, on places  *)
(* of their own and of two channels.                                       *)
(***************************************************************************)
EXTENDS AdDesk, TLC

CONSTANTS a1, a2, ch1, ch2, news

Symmetry == Permutations(Admins) \union Permutations(Checkers)

MCCategoryOf == [c \in Channels |-> news]

Base == [scope |-> "global", category |-> NoCategory, channel |-> ch1, slot |-> 1,
         from |-> 0, to |-> LastDay, active |-> TRUE, clicks |-> 0]

MCBooked == [a \in Ads |-> IF a = a1 THEN [Base EXCEPT !.to = 1]
                           ELSE IF a = a2
                                THEN [Base EXCEPT !.scope = "category", !.category = news, !.channel = ch2]
                                ELSE NoRow]

MCInputs == {[scope |-> "global", channel |-> ch1, slot |-> 2],
             [scope |-> "global", channel |-> ch2, slot |-> 1, from |-> 1],
             [scope |-> "category", channel |-> ch1, slot |-> 2],
             [slot |-> 2],
             [to |-> 2],
             [active |-> FALSE]}

===============================================================================
