--------------------------- MODULE MCNativeBridge ---------------------------
(***************************************************************************)
(* NativeBridge for TLC: threads are alike, and so are the modules the     *)
(* bridge hooks.                                                           *)
(***************************************************************************)
EXTENDS NativeBridge, TLC

Symmetry == Permutations(Threads) \union Permutations(Candidates)

=============================================================================
