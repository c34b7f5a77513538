--------------------------- MODULE ExclusiveLease ---------------------------
(***************************************************************************)
(* The exclusive connection lease store,                                   *)
(* src/src/lib/db/exclusiveConnectionLeases.ts, over the table of          *)
(* src/src/lib/db/migrations/157_exclusive_connection_leases.sql.          *)
(*                                                                         *)
(* Every exported function runs in one IMMEDIATE transaction whose first   *)
(* statement expires the ACTIVE rows whose deadline has passed, so each is *)
(* one atomic action that starts from Expired.  Rows are appended with an  *)
(* AUTOINCREMENT id and never deleted.                                     *)
(***************************************************************************)
EXTENDS Integers, FiniteSets

CONSTANTS
  Owner,        \* lease_owner_hash values
  Key,          \* api_key_id values
  Connection,   \* connection_id values
  MinTTL,       \* MIN_EXCLUSIVE_LEASE_TTL_MS
  MaxTTL,       \* MAX_EXCLUSIVE_LEASE_TTL_MS
  RequestedTTL, \* the ttlMs values callers pass
  MaxTime,      \* bound: the clock stops here
  MaxRows       \* bound: no row is inserted beyond this one

ASSUME TTLAssumption ==
  /\ MinTTL \in Nat \ {0}
  /\ MaxTTL \in Nat
  /\ MinTTL <= MaxTTL
  /\ RequestedTTL \subseteq Int

ASSUME BoundAssumption == MaxTime \in Nat /\ MaxRows \in Nat

VARIABLES
  now,     \* Date.now() as the transactions see it
  rows,    \* the table: id -> row
  lastId   \* the AUTOINCREMENT counter

leaseVars == <<now, rows, lastId>>

Ids == 1..lastId

State == {"ACTIVE", "RELEASED", "EXPIRED", "INVALIDATED"}

Row == [owner : Owner, key : Key, conn : Connection, gen : Nat \ {0},
        state : State, expires : Nat]

\* One type invariant: the table has a well-formed row for every id issued.
TypeOK ==
  /\ now \in Nat
  /\ lastId \in Nat
  /\ rows \in [Ids -> Row]

-----------------------------------------------------------------------------
\* Reading the table, as it is after expire(now).

Lesser(a, b) == IF a < b THEN a ELSE b
Greater(a, b) == IF a > b THEN a ELSE b

ExpiryUncapped(ttl) == now + Greater(MinTTL, ttl) \* mutant: no upper clamp

Expiry(ttl) == now + Lesser(MaxTTL, Greater(MinTTL, ttl))

ExpiredAnyState == \* mutant: the sweep forgets state = 'ACTIVE'
  [i \in Ids |-> IF rows[i].expires <= now THEN [rows[i] EXCEPT !.state = "EXPIRED"]
                                           ELSE rows[i]]

Expired ==
  [i \in Ids |->
     IF rows[i].state = "ACTIVE" /\ rows[i].expires <= now
       THEN [rows[i] EXCEPT !.state = "EXPIRED"]
       ELSE rows[i]]

\* A row still ACTIVE once expire(now) has run.
Live(i) == rows[i].state = "ACTIVE" /\ rows[i].expires > now

ActiveOf(o) == {i \in Ids : Live(i) /\ rows[i].owner = o}
ActiveOn(c) == {i \in Ids : Live(i) /\ rows[i].conn = c}

\* Mutants of Matching: one column of the WHERE clause is forgotten.
MatchingAnyKey(o, g, k) == {i \in ActiveOf(o) : rows[i].gen = g}
MatchingAnyGeneration(o, g, k) == {i \in ActiveOf(o) : rows[i].key = k}
MatchingAnyState(o, g, k) ==
  {i \in Ids : rows[i].owner = o /\ rows[i].gen = g /\ rows[i].key = k}

\* The live rows that carry this owner, generation and API key: the WHERE
\* clause of renew, release and invalidate.
Matching(o, g, k) ==
  {i \in ActiveOf(o) : rows[i].gen = g /\ rows[i].key = k}

\* historical(): the newest row of the owner's generation.
Historical(o, g) ==
  {i \in Ids : /\ rows[i].owner = o /\ rows[i].gen = g
               /\ \A j \in Ids : rows[j].owner = o /\ rows[j].gen = g => j <= i}

Generations(o) == {0} \union {rows[i].gen : i \in {j \in Ids : rows[j].owner = o}}

LastGeneration(o) == CHOOSE g \in Generations(o) : \A h \in Generations(o) : h <= g

NextGenerationReused(o) == Greater(1, LastGeneration(o)) \* mutant: no increment

NextGeneration(o) == LastGeneration(o) + 1

-----------------------------------------------------------------------------
\* What each function answers, from the state its transaction starts in.

AcquireKindAnyOwner(o, k, c) == \* mutant: the owner's own lease is not looked up
  IF ActiveOn(c) # {} THEN "CONNECTION_BUSY" ELSE "ACQUIRED"

AcquireKind(o, k, c) ==
  IF ActiveOf(o) # {}
    THEN IF \E i \in ActiveOf(o) : rows[i].key = k /\ rows[i].conn = c
           THEN "REUSED" ELSE "OWNER_ALREADY_ACTIVE"
    ELSE IF ActiveOn(c) # {} THEN "CONNECTION_BUSY" ELSE "ACQUIRED"

TransitionKindUnguarded(o, g, k, c) == \* mutant: the target is not looked up
  IF Matching(o, g, k) = {} THEN "STALE"
  ELSE IF \E i \in Matching(o, g, k) : rows[i].conn = c THEN "REUSED"
  ELSE "TRANSITIONED"

TransitionKind(o, g, k, c) ==
  IF Matching(o, g, k) = {} THEN "STALE"
  ELSE IF \E i \in Matching(o, g, k) : rows[i].conn = c THEN "REUSED"
  ELSE IF ActiveOn(c) # {} THEN "CONNECTION_BUSY" ELSE "TRANSITIONED"

RenewKind(o, g, k) == IF Matching(o, g, k) # {} THEN "RENEWED" ELSE "STALE"

\* Releasing twice is accepted: the newest row of the generation may already
\* be RELEASED under the same key.
ReleasedBefore(o, g, k) ==
  \E i \in Historical(o, g) : rows[i].state = "RELEASED" /\ rows[i].key = k

FenceKindAnyGeneration(o, g, k, c) == \* mutant: the generation is not compared
  IF ActiveOf(o) = {} THEN "REQUIRED"
  ELSE IF \E i \in ActiveOf(o) : rows[i].conn = c THEN "VALID" ELSE "CONNECTION_MISMATCH"

FenceKind(o, g, k, c) ==
  IF ActiveOf(o) = {} THEN "REQUIRED"
  ELSE LET i == CHOOSE j \in ActiveOf(o) : TRUE
       IN  IF rows[i].gen # g THEN "STALE"
           ELSE IF rows[i].key # k THEN "AUTHORIZATION_MISMATCH"
           ELSE IF rows[i].conn = c THEN "VALID" ELSE "CONNECTION_MISMATCH"

-----------------------------------------------------------------------------
\* The writes of a transaction.

NewRow(o, k, c, g, ttl) ==
  [owner |-> o, key |-> k, conn |-> c, gen |-> g, state |-> "ACTIVE",
   expires |-> Expiry(ttl)]

InsertOverLast(t, r) == \* mutant: the counter is not advanced
  lastId' = lastId /\ rows' = [i \in 1..(lastId + 1) |-> IF i <= lastId THEN t[i] ELSE r]

\* INSERT of row r into table t.
Insert(t, r) ==
  /\ lastId < MaxRows
  /\ lastId' = lastId + 1
  /\ rows' = [i \in 1..(lastId + 1) |-> IF i <= lastId THEN t[i] ELSE r]

\* UPDATE of the rows in S: state s.
Ended(S, s) ==
  [i \in Ids |-> IF i \in S THEN [rows[i] EXCEPT !.state = s] ELSE Expired[i]]

\* UPDATE of the rows in S: expires_at.
Renewed(S, ttl) ==
  [i \in Ids |-> IF i \in S THEN [rows[i] EXCEPT !.expires = Expiry(ttl)] ELSE Expired[i]]

OnlyRows(t) == rows' = t /\ UNCHANGED <<now, lastId>>

\* reconcileExpiredExclusiveConnectionLeases, and every reader that calls it:
\* status, fence, getActive, occupancy, isExclusiveConnectionActivelyLeased.
Reconcile == OnlyRows(Expired)

Acquire(o, k, c, ttl) ==
  \/ /\ AcquireKind(o, k, c) \in {"OWNER_ALREADY_ACTIVE", "CONNECTION_BUSY"}
     /\ OnlyRows(Expired)
  \/ /\ AcquireKind(o, k, c) = "REUSED"
     /\ OnlyRows(Renewed(ActiveOf(o), ttl))
  \/ /\ AcquireKind(o, k, c) = "ACQUIRED"
     /\ Insert(Expired, NewRow(o, k, c, NextGeneration(o), ttl))
     /\ UNCHANGED now

Transition(o, g, k, c, ttl) ==
  \/ /\ TransitionKind(o, g, k, c) \in {"STALE", "REUSED", "CONNECTION_BUSY"}
     /\ OnlyRows(Expired)
  \/ /\ TransitionKind(o, g, k, c) = "TRANSITIONED"
     /\ Insert(Ended(Matching(o, g, k), "INVALIDATED"), NewRow(o, k, c, g, ttl))
     /\ UNCHANGED now

Renew(o, g, k, ttl) == OnlyRows(Renewed(Matching(o, g, k), ttl))

Release(o, g, k) == OnlyRows(Ended(Matching(o, g, k), "RELEASED"))

Invalidate(o, g, k) == OnlyRows(Ended(Matching(o, g, k), "INVALIDATED"))

\* Time passes between transactions.
Tick == now < MaxTime /\ now' = now + 1 /\ UNCHANGED <<rows, lastId>>

-----------------------------------------------------------------------------

LeaseInit == now = 0 /\ lastId = 0 /\ rows = [i \in {} |-> 0]

Next ==
  \/ Tick
  \/ Reconcile
  \/ \E o \in Owner, k \in Key, c \in Connection, ttl \in RequestedTTL :
       Acquire(o, k, c, ttl)
  \/ \E o \in Owner, k \in Key, g \in 1..MaxRows :
       \/ \E c \in Connection, ttl \in RequestedTTL : Transition(o, g, k, c, ttl)
       \/ \E ttl \in RequestedTTL : Renew(o, g, k, ttl)
       \/ Release(o, g, k)
       \/ Invalidate(o, g, k)

Spec == LeaseInit /\ [][Next]_leaseVars

-----------------------------------------------------------------------------
\* Properties.

\* Between transactions at most one row per owner and one per connection has
\* state ACTIVE, counting rows whose deadline has passed but that no
\* transaction has swept yet: these are what the two partial unique indexes
\* see, so acquire and transition never run into a constraint failure and the
\* isLeaseConflict branches are only a second line of defence.
ActiveUnique ==
  \A i, j \in Ids :
    /\ i # j
    /\ rows[i].state = "ACTIVE"
    /\ rows[j].state = "ACTIVE"
    => rows[i].owner # rows[j].owner /\ rows[i].conn # rows[j].conn

\* A generation belongs to one API key for good: all rows of an owner's
\* generation carry the same key, across transitions.  release() relies on it
\* when it accepts a historical row.
GenerationHasOneKey ==
  \A i, j \in Ids :
    rows[i].owner = rows[j].owner /\ rows[i].gen = rows[j].gen
      => rows[i].key = rows[j].key

\* The row that is ACTIVE for an owner is the newest row of that owner and has
\* the owner's highest generation: no lookup by generation can reach past it.
ActiveIsNewest ==
  \A i, j \in Ids :
    rows[i].state = "ACTIVE" /\ rows[j].owner = rows[i].owner
      => j <= i /\ rows[j].gen <= rows[i].gen

\* The fence token never comes back: a generation of an owner that was used
\* and is no longer in force is never in force again, whatever sequence of
\* expiry, release, re-acquisition and transition follows.
GenerationNeverReturns ==
  [][\A i \in Ids' : Live(i)' =>
       \/ rows'[i].gen > LastGeneration(rows'[i].owner)
       \/ \E j \in ActiveOf(rows'[i].owner) : rows[j].gen = rows'[i].gen]_leaseVars

\* A release that was accepted stays accepted: no later transaction, by this
\* owner or another, makes the repeated release of the same generation STALE.
ReleaseIsFinal ==
  [][\A o \in Owner, g \in 1..MaxRows, k \in Key :
       ReleasedBefore(o, g, k) => ReleasedBefore(o, g, k)']_leaseVars

\* A row is written once: it never changes owner, key, connection or
\* generation, and after it has ended (in whatever way) nothing rewrites how
\* or when it ended.
HistoryIsFrozen ==
  [][\A i \in Ids :
       /\ rows'[i].owner = rows[i].owner /\ rows'[i].key = rows[i].key
       /\ rows'[i].conn = rows[i].conn /\ rows'[i].gen = rows[i].gen
       /\ rows[i].state # "ACTIVE" => rows'[i] = rows[i]]_leaseVars

=============================================================================
