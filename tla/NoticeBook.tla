------------------------------ MODULE NoticeBook ------------------------------
(***************************************************************************)
(* What an administrator may rely on who is told of something twice: by a  *)
(* notification in the list and by a message to Telegram.  A key is listed *)
(* once; whoever has listed it and heard so, and nobody else, owes one     *)
(* message; a message that is owed is sent or, when the process ends,      *)
(* never sent.                                                             *)
(* Nothing is said of what the keys are, of who lists them, or of when.    *)
(***************************************************************************)
EXTENDS Naturals

CONSTANT Keys

VARIABLES
    listed,  \* the keys in the list
    owed,    \* those whose message is still to be sent
    sent     \* how often Telegram was told of each key

bookVars == <<listed, owed, sent>>

BookInit == listed = {} /\ owed = {} /\ sent = [k \in Keys |-> 0]

List(k) ==
    /\ k \notin listed
    /\ listed' = listed \cup {k}
    /\ owed' = owed \cup {k}
    /\ UNCHANGED sent

\* The list took the key, and whoever asked for that heard of an error: nobody owes a
\* message of it.
ListUnheard(k) ==
    /\ k \notin listed
    /\ listed' = listed \cup {k}
    /\ UNCHANGED <<owed, sent>>

Send(k) ==
    /\ k \in owed
    /\ sent' = [sent EXCEPT ![k] = @ + 1]
    /\ owed' = owed \ {k}
    /\ UNCHANGED listed

Lose == owed' = {} /\ UNCHANGED <<listed, sent>>

BookNext == (\E k \in Keys : List(k) \/ ListUnheard(k) \/ Send(k)) \/ Lose

BookSpec == BookInit /\ [][BookNext]_bookVars

-----------------------------------------------------------------------------
(* Properties *)

\* Whoever implements the book tells Telegram of no key twice, and of none that is not in
\* the list.
ToldOnce ==
    \A k \in Keys : sent[k] = 0 \/ (sent[k] = 1 /\ k \in listed /\ k \notin owed)
===============================================================================
