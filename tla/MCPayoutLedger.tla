--------------------------- MODULE MCPayoutLedger ---------------------------
(* Small instances of PayoutLedger.  Requests are interchangeable. *)
EXTENDS PayoutLedger, TLC

Symmetry == Permutations(Requests)
=============================================================================
