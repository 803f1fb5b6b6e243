----------------------------- MODULE MCSyncThread -----------------------------
(***************************************************************************)
(* Three producers, four items, one consumer.                              *)
(***************************************************************************)
EXTENDS SyncThread

CONSTANTS p1, p2, p3
==============================================================================
