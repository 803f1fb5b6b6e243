---------------------------- MODULE MCPostService ----------------------------
(***************************************************************************)
(* An instance of ForkServer, with its clients, for TLC.                   *)
(***************************************************************************)
EXTENDS ForkServer

CONSTANTS c1, c2, alice, bob, mallory
==============================================================================
