------------------------- MODULE MCProviderBreaker -------------------------
(***************************************************************************)
(* A provider that opens at the third failure, degraded at the second.     *)
(***************************************************************************)
EXTENDS ProviderBreaker, TLC

Symmetry == Permutations(Request)

=============================================================================
