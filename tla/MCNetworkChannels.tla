------------------------- MODULE MCNetworkChannels -------------------------
(***************************************************************************)
(* Channels that one message fills.                                        *)
(***************************************************************************)
EXTENDS NetworkChannels, TLC

CONSTANTS r1, r2

OneEach == [c \in Channels |-> 1]
=============================================================================
