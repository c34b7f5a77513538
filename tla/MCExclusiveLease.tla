-------------------------- MODULE MCExclusiveLease --------------------------
(***************************************************************************)
(* Two owners with two keys contend for two connections.  The requested    *)
(* TTL is clamped down, and long enough to be prolonged before it is over. *)
(***************************************************************************)
EXTENDS ExclusiveLeaseRefinement, TLC

Symmetry == Permutations(Owner) \union Permutations(Key) \union Permutations(Connection)

=============================================================================
