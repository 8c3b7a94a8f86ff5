--------------------------- MODULE MCRealtimeRelay ---------------------------
(***************************************************************************)
(* Two clients and a channel of one, so that one payload in the channel and *)
(* one in the writer's hands make the next one overflow.                    *)
(***************************************************************************)
EXTENDS RealtimeRelay, TLC

CONSTANTS c1, c2

TwoClients == {c1, c2}
OneClient  == {c1}

ClientSymmetry == Permutations(Client)
=============================================================================
