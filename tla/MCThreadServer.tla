---------------------------- MODULE MCThreadServer ----------------------------
(***************************************************************************)
(* Instances of ThreadServer for TLC.                                      *)
(***************************************************************************)
EXTENDS ThreadServer, TLC

CONSTANTS h1, h2, h3, f1, f2, f3, stdin, alice, bob

\* Of the threads only: HeapFds may tell descriptors apart.
Symmetry == Permutations(Handlers)
==============================================================================
