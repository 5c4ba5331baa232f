---------------------------- MODULE MCLifecycle ----------------------------
(***************************************************************************)
(* The instance of SFunctionLifecycle for TLC: up to three connectors, in  *)
(* one simulation that makes all of them or in several, and models with up *)
(* to two Configure and two Receive blocks.                                *)
(***************************************************************************)
EXTENDS SFunctionLifecycle, TLC

(* No property depends on which of two blocks of a kind is which. *)
BlocksAreAlike == Permutations(Configures) \cup Permutations(Receives)
=============================================================================
