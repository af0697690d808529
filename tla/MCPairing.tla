------------------------------ MODULE MCPairing ------------------------------
(***************************************************************************)
(* Pairing with a handful of invocations, alike but for Insistent.         *)
(***************************************************************************)
EXTENDS PairingRefinement, TLC

Invocations == Permutations(Proc)
==============================================================================
