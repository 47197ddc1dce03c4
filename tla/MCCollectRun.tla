----------------------------- MODULE MCCollectRun -----------------------------
(* Two rows of one Telegram chat: the first was found missing twice or is new, *)
(* the second answered with an empty page before, or is a new group.           *)
EXTENDS CollectRun

CONSTANTS one, two, w1, w2, desk

R(kind, status, error, gone, seen, due) ==
    [kind |-> kind, status |-> status, error |-> error, gone |-> gone, seen |-> seen, due |-> due]

MCChat == [c \in {one, two} |-> "chat"]
MCRealKind == [c \in {one, two} |-> IF c = two THEN "group" ELSE "channel"]
MCDeskWork == {<<one, "now">>, <<one, "full">>, <<two, "now">>}
MCMissing(due) == R("channel", "failed", "other", 2, TRUE, due)
MCRows == {
    [c \in {one, two} |-> IF c = one THEN MCMissing(TRUE) ELSE R("channel", "ok", "empty_once", 0, TRUE, TRUE)],
    [c \in {one, two} |-> IF c = one THEN MCMissing(FALSE) ELSE R("group", "none", "none", 0, FALSE, TRUE)],
    [c \in {one, two} |-> IF c = one THEN R("channel", "none", "none", 0, FALSE, TRUE)
                          ELSE R("channel", "ok", "empty_once", 0, TRUE, FALSE)]}
=============================================================================
