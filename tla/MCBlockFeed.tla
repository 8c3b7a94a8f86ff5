----------------------------- MODULE MCBlockFeed -----------------------------
(***************************************************************************)
(* One domain, as the feed treats each alike; two ticks to a second, so that *)
(* a cursor and a blocked_at fall in one second; two adapters, so that one   *)
(* replaces the other or, when two starts overlap, runs beside it.           *)
(***************************************************************************)
EXTENDS BlockFeed

CONSTANTS d1

OneDomain == {d1}
=============================================================================
