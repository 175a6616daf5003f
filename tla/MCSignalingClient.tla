--------------------------- MODULE MCSignalingClient ---------------------------
(***************************************************************************)
(* SignalingClient with one offer of either program, a channel of one and   *)
(* up to three other messages, two of which may come before hello.          *)
(***************************************************************************)
EXTENDS SignalingClient
CONSTANTS o1
BothUsers == {"app", "cli"}
=============================================================================
