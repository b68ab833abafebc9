--------------------------- MODULE MCHashBroadcast ---------------------------
(***************************************************************************)
(* HashBroadcast for TLC: a sender and two others, who are the receivers   *)
(* together with it or without it.                                         *)
(***************************************************************************)
EXTENDS HashBroadcast

CONSTANTS p1, p2, p3

MCReceivers == <<p1, p2, p3>>
==============================================================================
