----------------------------- MODULE MCBulkInspect -----------------------------
(* Two texts: two links, or a single line that is no link. *)
EXTENDS BulkInspect

CONSTANTS l1, l2

MCTexts == {{l1, l2}, {Malformed}}
=============================================================================
