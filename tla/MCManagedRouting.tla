-------------------------- MODULE MCManagedRouting --------------------------
(***************************************************************************)
(* Owners contend for two connections while a few requests are under way.  *)
(***************************************************************************)
EXTENDS ManagedRouting, TLC

\* Only the permutations that leave the constant subsets as they are.
Fixes(p, S) == {p[x] : x \in S} = S

Symmetry ==
  Permutations(Owner)
    \union {p \in Permutations(Connection) : Fixes(p, OAuth) /\ Fixes(p, Emergency)}
    \union {p \in Permutations(Request) : Fixes(p, Anonymous)}

=============================================================================
