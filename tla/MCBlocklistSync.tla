--------------------------- MODULE MCBlocklistSync ---------------------------
(***************************************************************************)
(* Two domains that hash to different ids, the larger hash beyond the range *)
(* of ids, and two sets of details, so that an entry can be refreshed.      *)
(***************************************************************************)
EXTENDS BlocklistSync, TLC

CONSTANTS d1, d2, old, new, t1, t2

MCDomain  == {d1, d2}
MCDetails == {old, new}
MCHash    == (d1 :> 3) @@ (d2 :> 8)
MCTask    == {t1, t2}
=============================================================================
