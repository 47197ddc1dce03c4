--------------------------- MODULE MCChannelRegistry ---------------------------
(***************************************************************************)
(* The model begins with two submissions of one link, which two members    *)
(* can bring about at the same moment, or with an active and a rejected    *)
(* row of two links.                                                       *)
(***************************************************************************)
EXTENDS ChannelRegistry, TLC

CONSTANTS one, two

RowOf(link, status) == NewRow(link, status)

MCFirstRows == {<<RowOf(one, "pending"), RowOf(one, "pending")>>,
                <<RowOf(one, "active"), RowOf(two, "rejected")>>}

Symmetry == Permutations(Clients) \union Permutations(Users)

===============================================================================
