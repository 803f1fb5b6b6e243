------------------------------ MODULE MCMtServer ------------------------------
(***************************************************************************)
(* Instances of MtServer for TLC.                                          *)
(***************************************************************************)
EXTENDS MtServer, TLC

CONSTANTS h1, h2, h3, f1, f2, f3, alice, bob, mallory

\* Handlers differ in nothing but their name, and so do the descriptors.
Symmetry == Permutations(Handlers) \cup Permutations(Fds)
==============================================================================
