--------------------------- MODULE MCLayer1Growth ---------------------------
(***************************************************************************)
(* Two hosts, one nameserver, and dates that are 4.5 hours apart: rounded   *)
(* up to five, two members are too sparse for a burst and three make one;   *)
(* rounded down, two would do.  Four records make two clusters.             *)
(***************************************************************************)
EXTENDS Layer1Growth, TLC

CONSTANTS ip1, ip2, ns1, reg1, site, shop

MCIPs   == {ip1, ip2}
MCNames == {ns1}
MCRegs  == {reg1}
MCTimes == {0, 270}
MCSites == {site}
MCShops == {shop}

HostSymmetry == Permutations(IPs)
=============================================================================
