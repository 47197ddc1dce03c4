----------------------------- MODULE MCTmeGate -----------------------------
(* A small instance of TmeGate.  Lengths of time are ticks. *)
EXTENDS TmeGate
=============================================================================
