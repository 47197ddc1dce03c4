--------------------------- MODULE MCMtprotoAccount ---------------------------
(* A small instance of MtprotoAccount: the job's own calls, and beside them    *)
(* the admin's test of a name and a collect of an invitation that outlived its *)
(* two minutes.                                                                *)
EXTENDS MtprotoAccount, TLC

CONSTANTS job, other

MCOpsOf == (job :> {"collect", "invite", "inspect"}) @@ (other :> {"test", "invite"})
MCLimit == [m \in Limited |-> 1]
=============================================================================
