---------------------- MODULE ExclusiveLeaseRefinement ----------------------
(***************************************************************************)
(* The lease store implements LeaseRegistry.  In the registry a lease ends *)
(* at its deadline; in the store the row stays ACTIVE until a transaction  *)
(* happens to sweep it.  The mapping reads the table through Live, so lazy *)
(* expiry is invisible and every sweep is a stuttering step.               *)
(***************************************************************************)
EXTENDS ExclusiveLease

LeaseOf(row) ==
  [owner |-> row.owner, key |-> row.key, conn |-> row.conn, gen |-> row.gen,
   until |-> row.expires]

LiveLeases == {LeaseOf(rows[i]) : i \in {j \in Ids : Live(j)}}

LastGenerations == [o \in Owner |-> LastGeneration(o)]

Registry == INSTANCE LeaseRegistry WITH
  time <- now,
  held <- LiveLeases,
  last <- LastGenerations

\* Every transaction of the store is one step of the registry, or none: a
\* grant, an extension, a move or an end of one lease, and deadlines take
\* effect at the tick they fall on although the code expires rows lazily.
ImplementsRegistry == Registry!Spec

=============================================================================
