----------------------------- MODULE MCPollServer -----------------------------
(***************************************************************************)
(* Instances of PollServer for TLC.                                        *)
(***************************************************************************)
EXTENDS PollServer

CONSTANTS w1, w2, c1, c2, f1, f2, s1, s2

AllItems == [session : Heap, conn : Conns, n : 1..MaxCommands]
==============================================================================
