--------------------------- MODULE LeaseRegistry ---------------------------
(***************************************************************************)
(* What the exclusive-lease store promises, without tables, row states or  *)
(* lazy expiry: a set of leases, each ending by itself at its deadline.    *)
(* An owner holds at most one connection, a connection has at most one     *)
(* owner, and every new tenancy of an owner gets the next generation.      *)
(* ExclusiveLeaseRefinement shows that the store in                        *)
(* src/src/lib/db/exclusiveConnectionLeases.ts implements it.              *)
(***************************************************************************)
EXTENDS Integers

CONSTANTS Owner, Key, Connection, MinTTL, MaxTTL

VARIABLES
  time,   \* the clock
  held,   \* the leases in force
  last    \* last[o]: the generation of the last tenancy of owner o

vars == <<time, held, last>>

Lease == [owner : Owner, key : Key, conn : Connection, gen : Nat, until : Nat]

TypeOK ==
  /\ time \in Nat
  /\ held \subseteq Lease
  /\ last \in [Owner -> Nat]

Init == time = 0 /\ held = {} /\ last = [o \in Owner |-> 0]

Deadlines == (time + MinTTL)..(time + MaxTTL)

FreeConnection(c) == \A l \in held : l.conn # c

\* Time passes and every lease whose deadline is reached is over.
Tick ==
  /\ time' = time + 1
  /\ held' = {l \in held : l.until > time'}
  /\ UNCHANGED last

\* A new tenancy: the owner holds nothing, the connection is free.
Grant(o, k, c) ==
  /\ \A l \in held : l.owner # o
  /\ FreeConnection(c)
  /\ \E u \in Deadlines :
       held' = held \union
         {[owner |-> o, key |-> k, conn |-> c, gen |-> last[o] + 1, until |-> u]}
  /\ last' = [last EXCEPT ![o] = @ + 1]
  /\ UNCHANGED time

\* The same tenancy, a later (or earlier) deadline.
Extend(l) ==
  /\ \E u \in Deadlines : held' = (held \ {l}) \union {[l EXCEPT !.until = u]}
  /\ UNCHANGED <<time, last>>

\* The same tenancy continues on another connection.
Move(l, c) ==
  /\ FreeConnection(c)
  /\ \E u \in Deadlines :
       held' = (held \ {l}) \union {[l EXCEPT !.conn = c, !.until = u]}
  /\ UNCHANGED <<time, last>>

End(l) ==
  /\ held' = held \ {l}
  /\ UNCHANGED <<time, last>>

Next ==
  \/ Tick
  \/ \E o \in Owner, k \in Key, c \in Connection : Grant(o, k, c)
  \/ \E l \in held : Extend(l) \/ End(l) \/ \E c \in Connection : Move(l, c)

Spec == Init /\ [][Next]_vars

=============================================================================
