------------------- MODULE ExclusiveLeaseRefinementProofs -------------------
(***************************************************************************)
(* The lease store implements LeaseRegistry, for every set of owners, keys *)
(* and connections and every TTL range.                                    *)
(*                                                                         *)
(* The argument: the sweep that opens a transaction touches no live row,   *)
(* and beyond the sweep a transaction touches at most the one row that     *)
(* carries the owner (ActiveUnique) and the row it appends (lemma          *)
(* OneLeaseChanges).  What becomes of that one lease is the step of the    *)
(* registry.                                                               *)
(***************************************************************************)
EXTENDS ExclusiveLeaseRefinement, ExclusiveLeaseProofs

\* Table t agrees with the current one on the live rows outside S.
AgreesOutside(t, S) ==
  \A i \in Ids \ S : /\ t[i].state = "ACTIVE" /\ t[i].expires > now <=> Live(i)
                     /\ Live(i) => t[i] = rows[i]

-----------------------------------------------------------------------------
\* What the writes leave alone.

\* The sweep changes no live row and makes none.
LEMMA ExpiredAgrees ==
  ASSUME TypeOK
  PROVE  AgreesOutside(Expired, {})
BY DEF TypeOK, AgreesOutside, Expired, Live, Row, State

\* Nor does a transaction outside the rows it updates.
LEMMA UpdatesAgree ==
  ASSUME TypeOK, NEW S \in SUBSET Ids
  PROVE  /\ \A s : AgreesOutside(Ended(S, s), S)
         /\ \A ttl : AgreesOutside(Renewed(S, ttl), S)
BY ExpiredAgrees DEF AgreesOutside, Ended, Renewed

\* A deadline that a transaction sets is one that the registry allows.
LEMMA ExpiryIsDeadline ==
  ASSUME now \in Nat, NEW ttl \in RequestedTTL
  PROVE  Expiry(ttl) \in Registry!Deadlines
BY TTLAssumption DEF Expiry, Lesser, Greater, Registry!Deadlines

\* A step that keeps the generations of an owner keeps the last one.
LEMMA LastGenerationKept ==
  ASSUME NEW o \in Owner, Generations(o)' = Generations(o)
  PROVE  LastGeneration(o)' = LastGeneration(o)
BY DEF LastGeneration

\* A maximum of the generations an owner has after a step is its last one then.
LEMMA LastGenerationAfter ==
  ASSUME NEW o \in Owner, Generations(o)' \subseteq Nat,
         NEW g \in Generations(o)', \A h \in Generations(o)' : h <= g
  PROVE  LastGeneration(o)' = g
BY DEF LastGeneration

\* A lapse keeps all last generations.
LEMMA LapseKeepsLast ==
  ASSUME TypeOK, lastId' = lastId, Lapse(rows')
  PROVE  LastGenerations' = LastGenerations
<1>1. Ids' = Ids
  BY DEF Ids
<1>2. \A i \in Ids : rows'[i].owner = rows[i].owner /\ rows'[i].gen = rows[i].gen
  BY LapseKeeps
<1>3. \A o \in Owner : Generations(o)' = Generations(o)
  BY <1>1, <1>2 DEF Generations
<1> QED
  BY <1>3, LastGenerationKept DEF LastGenerations

\* The rows an owner's request can reach are one live row or none.
LEMMA AtMostOneRow ==
  ASSUME LeaseInv, NEW o, NEW S \in SUBSET ActiveOf(o), S # {}
  PROVE  \E m \in Ids : S = {m} /\ Live(m) /\ rows[m].owner = o
<1>1. PICK m \in S : TRUE
  OBVIOUS
<1>2. \A i \in S : i \in Ids /\ Live(i) /\ rows[i].state = "ACTIVE" /\ rows[i].owner = o
  BY DEF ActiveOf, Live
<1>3. \A i \in S : i = m
  BY <1>2 DEF LeaseInv, ActiveUnique
<1> QED
  BY <1>1, <1>2, <1>3

-----------------------------------------------------------------------------
\* What becomes of the leases.

\* A transaction that updates the live rows S and appends the rows N replaces
\* the leases of S by those of what S and N have become; no other lease is lost
\* with them, because the leases of S have owners of their own.
LEMMA OneLeaseChanges ==
  ASSUME LeaseInv, now' = now, NEW N, Ids' = Ids \union N,
         NEW S \in SUBSET {i \in Ids : Live(i)},
         AgreesOutside(rows', S)
  PROVE  LiveLeases' =
           (LiveLeases \ {LeaseOf(rows[i]) : i \in S})
             \union {LeaseOf(rows'[i]) : i \in {j \in S \union N : Live(j)'}}
<1> DEFINE gone == {LeaseOf(rows[i]) : i \in S}
           new  == {LeaseOf(rows'[i]) : i \in {j \in S \union N : Live(j)'}}
<1>1. ASSUME NEW i \in Ids \ S
      PROVE  /\ Live(i)' <=> Live(i)
             /\ Live(i) => LeaseOf(rows'[i]) = LeaseOf(rows[i])
             /\ Live(i) => LeaseOf(rows[i]) \notin gone
  <2>1. (Live(i)' <=> Live(i)) /\ (Live(i) => rows'[i] = rows[i])
    BY DEF AgreesOutside, Live
  <2>2. ASSUME NEW j \in S, Live(i) PROVE LeaseOf(rows[i]) # LeaseOf(rows[j])
    <3>1. rows[i].owner # rows[j].owner
      BY <2>2 DEF Live, LeaseInv, ActiveUnique
    <3> QED
      BY <3>1 DEF LeaseOf
  <2> QED
    BY <2>1, <2>2
<1>2. ASSUME NEW l \in LiveLeases' PROVE l \in (LiveLeases \ gone) \union new
  <2>1. PICK i \in Ids' : Live(i)' /\ l = LeaseOf(rows'[i])
    BY <1>2 DEF LiveLeases
  <2>2. CASE i \in Ids \ S
    BY <1>1, <2>1, <2>2 DEF LiveLeases
  <2>3. CASE i \in S \union N
    BY <2>1, <2>3
  <2> QED
    BY <2>2, <2>3
<1>3. ASSUME NEW l \in LiveLeases \ gone PROVE l \in LiveLeases'
  <2>1. PICK i \in Ids : Live(i) /\ l = LeaseOf(rows[i])
    BY DEF LiveLeases
  <2>2. i \in Ids \ S
    BY <2>1
  <2>3. i \in Ids' /\ Live(i)' /\ l = LeaseOf(rows'[i])
    BY <1>1, <2>1, <2>2
  <2> QED
    BY <2>3 DEF LiveLeases
<1>4. new \subseteq LiveLeases'
  BY DEF LiveLeases
<1> QED
  BY <1>2, <1>3, <1>4

\* An update of one live row replaces its lease by what the row has become.
LEMMA LeaseReplaced ==
  ASSUME LeaseInv, now' = now, Ids' = Ids, NEW m \in Ids, Live(m),
         AgreesOutside(rows', {m})
  PROVE  LiveLeases' =
           (LiveLeases \ {LeaseOf(rows[m])})
             \union (IF Live(m)' THEN {LeaseOf(rows'[m])} ELSE {})
<1>1. LiveLeases' =
        (LiveLeases \ {LeaseOf(rows[i]) : i \in {m}})
          \union {LeaseOf(rows'[i]) : i \in {j \in {m} \union {} : Live(j)'}}
  <2>1. Ids' = Ids \union {} /\ {m} \in SUBSET {i \in Ids : Live(i)}
    OBVIOUS
  <2> QED
    BY <2>1, OneLeaseChanges
<1>2. {LeaseOf(rows[i]) : i \in {m}} = {LeaseOf(rows[m])}
  OBVIOUS
<1>3. {LeaseOf(rows'[i]) : i \in {j \in {m} \union {} : Live(j)'}}
        = IF Live(m)' THEN {LeaseOf(rows'[m])} ELSE {}
  OBVIOUS
<1> QED
  BY <1>1, <1>2, <1>3

-----------------------------------------------------------------------------
\* The steps of the store as steps of the registry.

\* A sweep is not seen.
LEMMA SweepStutters ==
  ASSUME LeaseInv, OnlyRows(Expired)
  PROVE  UNCHANGED Registry!vars
<1>1. Lapse(rows') /\ LastGenerations' = LastGenerations
  BY ExpiredLapses, LapseKeepsLast DEF OnlyRows, LeaseInv
<1>2. AgreesOutside(rows', {}) /\ Ids' = Ids \union {} /\ now' = now
  BY ExpiredAgrees DEF OnlyRows, LeaseInv, Ids
<1>3. LiveLeases' = LiveLeases
  BY <1>2, OneLeaseChanges
<1> QED
  BY <1>1, <1>2, <1>3 DEF Registry!vars

\* Moving the deadline of an owner's live row extends its lease.
LEMMA RenewalExtends ==
  ASSUME LeaseInv, NEW o, NEW S \in SUBSET ActiveOf(o), NEW ttl \in RequestedTTL,
         OnlyRows(Renewed(S, ttl))
  PROVE  [Registry!Next]_Registry!vars
<1>1. CASE S = {}
  <2>1. OnlyRows(Expired)
    BY <1>1 DEF OnlyRows, Renewed, Expired
  <2> QED
    BY <2>1, SweepStutters
<1>2. ASSUME NEW m \in Ids, S = {m}, Live(m)
      PROVE  Registry!Extend(LeaseOf(rows[m])) /\ LeaseOf(rows[m]) \in LiveLeases
  <2>1. /\ now' = now /\ Ids' = Ids
        /\ rows' = Renewed(S, ttl) /\ AgreesOutside(rows', S)
    BY <1>2, UpdatesAgree DEF OnlyRows, Ids, LeaseInv
  <2>2. LastGenerations' = LastGenerations
    BY <1>2, RenewedLapses, LapseKeepsLast DEF OnlyRows, LeaseInv
  <2>3. rows'[m] = [rows[m] EXCEPT !.expires = Expiry(ttl)] /\ rows[m] \in Row
    BY <1>2, <2>1 DEF Renewed, LeaseInv, TypeOK
  <2>4. Expiry(ttl) > now /\ Expiry(ttl) \in Registry!Deadlines
    BY ExpiryIsLater, ExpiryIsDeadline DEF LeaseInv, TypeOK
  <2>5. Live(m)' /\ LeaseOf(rows'[m]) = [LeaseOf(rows[m]) EXCEPT !.until = Expiry(ttl)]
    BY <1>2, <2>1, <2>3, <2>4 DEF Live, LeaseOf, Row
  <2>6. LiveLeases' = (LiveLeases \ {LeaseOf(rows[m])}) \union {LeaseOf(rows'[m])}
    BY <1>2, <2>1, <2>5, LeaseReplaced
  <2> QED
    BY <1>2, <2>1, <2>2, <2>4, <2>5, <2>6 DEF Registry!Extend, LiveLeases
<1> QED
  BY <1>1, <1>2, AtMostOneRow DEF Registry!Next

\* Ending an owner's live row ends its lease.
LEMMA EndingEnds ==
  ASSUME LeaseInv, NEW o, NEW S \in SUBSET ActiveOf(o), NEW s \in State \ {"ACTIVE"},
         OnlyRows(Ended(S, s))
  PROVE  [Registry!Next]_Registry!vars
<1>1. CASE S = {}
  <2>1. OnlyRows(Expired)
    BY <1>1 DEF OnlyRows, Ended, Expired
  <2> QED
    BY <2>1, SweepStutters
<1>2. ASSUME NEW m \in Ids, S = {m}, Live(m)
      PROVE  Registry!End(LeaseOf(rows[m])) /\ LeaseOf(rows[m]) \in LiveLeases
  <2>1. /\ now' = now /\ Ids' = Ids
        /\ rows' = Ended(S, s) /\ AgreesOutside(rows', S)
    BY <1>2, UpdatesAgree DEF OnlyRows, Ids, LeaseInv
  <2>2. LastGenerations' = LastGenerations /\ rows'[m].state # "ACTIVE"
    BY <1>2, EndedLapses, LapseKeepsLast DEF OnlyRows, LeaseInv
  <2>3. ~Live(m)'
    BY <2>2 DEF Live
  <2>4. LiveLeases' = LiveLeases \ {LeaseOf(rows[m])}
    BY <1>2, <2>1, <2>2, <2>3, LeaseReplaced
  <2> QED
    BY <1>2, <2>1, <2>2, <2>4 DEF Registry!End, LiveLeases
<1> QED
  BY <1>1, <1>2, AtMostOneRow DEF Registry!Next

\* What acquire and transition insert is in force, under the arguments given.
LEMMA NewLease ==
  ASSUME TypeOK, now' = now, NEW o \in Owner, NEW k \in Key, NEW c \in Connection,
         NEW g \in Nat \ {0}, NEW ttl \in RequestedTTL,
         NEW t, Insert(t, NewRow(o, k, c, g, ttl)),
         NEW S, AgreesOutside(t, S), NEW n, n = lastId + 1
  PROVE  /\ Live(n)'
         /\ LeaseOf(rows'[n]) =
              [owner |-> o, key |-> k, conn |-> c, gen |-> g, until |-> Expiry(ttl)]
         /\ AgreesOutside(rows', S)
<1>1. rows'[n] = NewRow(o, k, c, g, ttl)
  BY InsertAppends
<1>2. Expiry(ttl) > now
  BY ExpiryIsLater DEF TypeOK
<1>3. \A i \in Ids : rows'[i] = t[i]
  BY InsertAppends
<1>4. Live(n)'
  BY <1>1, <1>2 DEF NewRow, Live
<1>5. LeaseOf(rows'[n]) =
        [owner |-> o, key |-> k, conn |-> c, gen |-> g, until |-> Expiry(ttl)]
  BY <1>1 DEF NewRow, LeaseOf
<1>6. AgreesOutside(rows', S)
  BY <1>3 DEF AgreesOutside
<1> QED
  BY <1>4, <1>5, <1>6

\* Acquiring grants the owner its next generation.
LEMMA AcquisitionGrants ==
  ASSUME LeaseInv,
         NEW o \in Owner, NEW k \in Key, NEW c \in Connection, NEW ttl \in RequestedTTL,
         AcquireKind(o, k, c) = "ACQUIRED",
         Insert(Expired, NewRow(o, k, c, NextGeneration(o), ttl)), now' = now
  PROVE  Registry!Grant(o, k, c)
<1> DEFINE g == NextGeneration(o)
           r == NewRow(o, k, c, g, ttl)
           l == [owner |-> o, key |-> k, conn |-> c, gen |-> LastGenerations[o] + 1,
                 until |-> Expiry(ttl)]
<1>1. /\ LastGeneration(o) \in Nat /\ g = LastGeneration(o) + 1 /\ g \in Nat \ {0}
      /\ LastGenerations[o] = LastGeneration(o)
      /\ \A h \in Generations(o) : h <= LastGeneration(o)
  BY LastGenerationIsLast DEF LeaseInv, NextGeneration, LastGenerations
<1>2. PICK n : n = lastId + 1
  OBVIOUS
<1>3. TypeOK /\ AgreesOutside(Expired, {}) /\ Lapse(Expired)
  BY ExpiredAgrees, ExpiredLapses DEF LeaseInv
<1>4. Live(n)' /\ LeaseOf(rows'[n]) = l /\ AgreesOutside(rows', {})
  BY <1>1, <1>3, <1>2, NewLease
<1>5. LiveLeases' = LiveLeases \union {l}
  <2>1. Ids' = Ids \union {n}
    BY <1>3, <1>2, InsertAppends
  <2>2. LiveLeases' =
          (LiveLeases \ {LeaseOf(rows[i]) : i \in {}})
            \union {LeaseOf(rows'[i]) : i \in {j \in {} \union {n} : Live(j)'}}
    BY <1>4, <2>1, OneLeaseChanges
  <2>3. {LeaseOf(rows[i]) : i \in {}} = {}
    OBVIOUS
  <2>4. {j \in {} \union {n} : Live(j)'} = {n}
    BY <1>4
  <2>5. {LeaseOf(rows'[i]) : i \in {n}} = {LeaseOf(rows'[n])}
    OBVIOUS
  <2> QED
    BY <1>4, <2>2, <2>3, <2>4, <2>5
<1>6. LastGenerations' = [LastGenerations EXCEPT ![o] = @ + 1]
  <2>1. r.owner = o /\ r.gen = g
    BY DEF NewRow
  <2>2. ASSUME NEW p \in Owner, p # o PROVE LastGeneration(p)' = LastGeneration(p)
    BY <1>3, <2>1, <2>2, InsertGenerations, LastGenerationKept
  <2>3. LastGeneration(o)' = g
    <3>1. Generations(o)' = Generations(o) \union {g}
      BY <1>3, <2>1, InsertGenerations
    <3>2. Generations(o) \subseteq Nat
      BY DEF LeaseInv, TypeOK, Generations, Row
    <3> QED
      BY <1>1, <3>1, <3>2, LastGenerationAfter
  <2> QED
    BY <1>1, <2>2, <2>3 DEF LastGenerations
<1>7. /\ \A m \in LiveLeases : m.owner # o
      /\ Registry!FreeConnection(c)
  BY DEF AcquireKind, ActiveOf, ActiveOn, LiveLeases, LeaseOf, Registry!FreeConnection
<1>8. Expiry(ttl) \in Registry!Deadlines
  BY ExpiryIsDeadline DEF LeaseInv, TypeOK
<1> QED
  BY <1>5, <1>6, <1>7, <1>8 DEF Registry!Grant

\* A transition moves the lease of the row it ends.
LEMMA TransitionMoves ==
  ASSUME LeaseInv,
         NEW o \in Owner, NEW k \in Key, NEW c \in Connection, NEW g \in Nat \ {0},
         NEW ttl \in RequestedTTL,
         TransitionKind(o, g, k, c) = "TRANSITIONED",
         Insert(Ended(Matching(o, g, k), "INVALIDATED"), NewRow(o, k, c, g, ttl)),
         now' = now
  PROVE  \E l \in LiveLeases : Registry!Move(l, c)
<1> DEFINE t == Ended(Matching(o, g, k), "INVALIDATED")
           r == NewRow(o, k, c, g, ttl)
<1>1. PICK m \in Ids : Matching(o, g, k) = {m} /\ Live(m)
  <2>1. Matching(o, g, k) # {} /\ Matching(o, g, k) \in SUBSET ActiveOf(o)
    BY DEF TransitionKind, Matching
  <2> QED
    BY <2>1, AtMostOneRow
<1>2. rows[m].owner = o /\ rows[m].gen = g /\ rows[m].key = k
  BY <1>1 DEF Matching, ActiveOf
<1>3. PICK n : n = lastId + 1
  OBVIOUS
<1>4. TypeOK /\ AgreesOutside(t, {m}) /\ Lapse(t) /\ t[m].state # "ACTIVE"
  BY <1>1, UpdatesAgree, EndedLapses DEF LeaseInv, State
<1>5. /\ Live(n)'
      /\ LeaseOf(rows'[n]) =
           [LeaseOf(rows[m]) EXCEPT !.conn = c, !.until = Expiry(ttl)]
      /\ AgreesOutside(rows', {m})
  <2>1. /\ Live(n)' /\ AgreesOutside(rows', {m})
        /\ LeaseOf(rows'[n]) =
             [owner |-> o, key |-> k, conn |-> c, gen |-> g, until |-> Expiry(ttl)]
    BY <1>4, <1>3, NewLease
  <2>2. [LeaseOf(rows[m]) EXCEPT !.conn = c, !.until = Expiry(ttl)] =
          [owner |-> o, key |-> k, conn |-> c, gen |-> g, until |-> Expiry(ttl)]
    <3>1. LeaseOf(rows[m]) = [owner |-> o, key |-> k, conn |-> rows[m].conn, gen |-> g,
                              until |-> rows[m].expires]
      BY <1>2 DEF LeaseOf
    <3>2. PICK moved : moved = [LeaseOf(rows[m]) EXCEPT !.conn = c]
      OBVIOUS
    <3>3. moved = [owner |-> o, key |-> k, conn |-> c, gen |-> g, until |-> rows[m].expires]
      BY <3>1, <3>2
    <3>4. [LeaseOf(rows[m]) EXCEPT !.conn = c, !.until = Expiry(ttl)]
            = [moved EXCEPT !.until = Expiry(ttl)]
      BY <3>2
    <3> QED
      BY <3>3, <3>4
  <2> QED
    BY <2>1, <2>2
<1>6. LiveLeases' =
        (LiveLeases \ {LeaseOf(rows[m])})
          \union {[LeaseOf(rows[m]) EXCEPT !.conn = c, !.until = Expiry(ttl)]}
  <2>1. Ids' = Ids \union {n} /\ rows'[m] = t[m]
    BY <1>4, <1>3, InsertAppends
  <2>2. LiveLeases' =
          (LiveLeases \ {LeaseOf(rows[i]) : i \in {m}})
            \union {LeaseOf(rows'[i]) : i \in {j \in {m} \union {n} : Live(j)'}}
    <3>1. {m} \in SUBSET {i \in Ids : Live(i)}
      BY <1>1
    <3> QED
      BY <1>5, <2>1, <3>1, OneLeaseChanges
  <2>3. {LeaseOf(rows[i]) : i \in {m}} = {LeaseOf(rows[m])}
    OBVIOUS
  <2>4. ~Live(m)'
    BY <1>4, <2>1 DEF Live
  <2>5. {j \in {m} \union {n} : Live(j)'} = {n}
    BY <1>5, <2>4
  <2>6. {LeaseOf(rows'[i]) : i \in {n}} = {LeaseOf(rows'[n])}
    OBVIOUS
  <2> QED
    BY <1>5, <2>2, <2>3, <2>5, <2>6
<1>7. LastGenerations' = LastGenerations
  <2>1. r.owner = o /\ r.gen = g /\ g \in Generations(o)
    BY <1>2, GenerationOfRow DEF NewRow
  <2>2. \A p \in Owner : Generations(p)' = Generations(p)
    BY <1>4, <2>1, InsertGenerations
  <2> QED
    BY <2>2, LastGenerationKept DEF LastGenerations
<1>8. Registry!FreeConnection(c)
  BY DEF TransitionKind, ActiveOn, LiveLeases, LeaseOf, Registry!FreeConnection
<1>9. Expiry(ttl) \in Registry!Deadlines
  BY ExpiryIsDeadline DEF LeaseInv, TypeOK
<1>10. LeaseOf(rows[m]) \in LiveLeases
  BY <1>1 DEF LiveLeases
<1> QED
  BY <1>6, <1>7, <1>8, <1>9, <1>10 DEF Registry!Move

\* Every step of the store is a step of the registry, or none.
LEMMA StepImplements ==
  ASSUME LeaseInv, [Next]_leaseVars
  PROVE  [Registry!Next]_Registry!vars
<1>1. CASE Tick
  <2>1. now' = now + 1 /\ rows' = rows /\ Ids' = Ids /\ now \in Nat
    BY <1>1 DEF Tick, Ids, LeaseInv, TypeOK
  <2>2. \A i \in Ids : LeaseOf(rows'[i]) = LeaseOf(rows[i])
    BY <2>1
  <2>3. \A i \in Ids : Live(i)' <=> Live(i) /\ rows[i].expires > now'
    BY <2>1 DEF Live, LeaseInv, TypeOK, Row
  <2>4. \A i \in Ids : LeaseOf(rows[i]).until = rows[i].expires
    BY DEF LeaseOf
  <2>5. LiveLeases' = {l \in LiveLeases : l.until > now'}
    BY <2>1, <2>2, <2>3, <2>4 DEF LiveLeases
  <2>6. \A o \in Owner : Generations(o)' = Generations(o)
    BY <2>1 DEF Generations
  <2>7. LastGenerations' = LastGenerations
    BY <2>6, LastGenerationKept DEF LastGenerations
  <2> QED
    BY <2>1, <2>5, <2>7 DEF Registry!Tick, Registry!Next
<1>2. CASE Reconcile
  BY <1>2, SweepStutters DEF Reconcile
<1>3. ASSUME NEW o \in Owner, NEW k \in Key, NEW c \in Connection, NEW ttl \in RequestedTTL,
             Acquire(o, k, c, ttl)
      PROVE  [Registry!Next]_Registry!vars
  <2>1. CASE OnlyRows(Expired)
    BY <2>1, SweepStutters
  <2>2. CASE OnlyRows(Renewed(ActiveOf(o), ttl))
    BY <2>2, RenewalExtends
  <2>3. CASE /\ AcquireKind(o, k, c) = "ACQUIRED"
             /\ Insert(Expired, NewRow(o, k, c, NextGeneration(o), ttl))
             /\ UNCHANGED now
    BY <2>3, AcquisitionGrants DEF Registry!Next
  <2> QED
    BY <1>3, <2>1, <2>2, <2>3 DEF Acquire
<1>4. ASSUME NEW o \in Owner, NEW k \in Key, NEW g \in 1..MaxRows, NEW c \in Connection,
             NEW ttl \in RequestedTTL, Transition(o, g, k, c, ttl)
      PROVE  [Registry!Next]_Registry!vars
  <2>1. CASE OnlyRows(Expired)
    BY <2>1, SweepStutters
  <2>2. CASE /\ TransitionKind(o, g, k, c) = "TRANSITIONED"
             /\ Insert(Ended(Matching(o, g, k), "INVALIDATED"), NewRow(o, k, c, g, ttl))
             /\ UNCHANGED now
    <3>1. g \in Nat \ {0}
      BY BoundAssumption
    <3> QED
      BY <2>2, <3>1, TransitionMoves DEF Registry!Next
  <2> QED
    BY <1>4, <2>1, <2>2 DEF Transition
<1>5. ASSUME NEW o \in Owner, NEW k \in Key, NEW g \in 1..MaxRows, NEW ttl \in RequestedTTL,
             Renew(o, g, k, ttl)
      PROVE  [Registry!Next]_Registry!vars
  BY <1>5, RenewalExtends DEF Renew, Matching
<1>6. ASSUME NEW o \in Owner, NEW k \in Key, NEW g \in 1..MaxRows,
             Release(o, g, k) \/ Invalidate(o, g, k)
      PROVE  [Registry!Next]_Registry!vars
  BY <1>6, EndingEnds DEF Release, Invalidate, Matching, State
<1>7. CASE UNCHANGED leaseVars
  <2>1. Ids' = Ids /\ rows' = rows /\ now' = now
    BY <1>7 DEF leaseVars, Ids
  <2>2. LiveLeases' = LiveLeases
    BY <2>1 DEF LiveLeases, Live, LeaseOf
  <2>3. \A o \in Owner : Generations(o)' = Generations(o)
    BY <2>1 DEF Generations
  <2> QED
    BY <2>1, <2>2, <2>3, LastGenerationKept DEF LastGenerations, Registry!vars
<1> QED
  BY <1>1, <1>2, <1>3, <1>4, <1>5, <1>6, <1>7 DEF Next

\* The store implements the registry: at most one connection per owner and one
\* owner per connection, a fresh generation for every tenancy, and deadlines
\* that take effect when they fall, although rows expire lazily.
THEOREM Refinement == Spec => ImplementsRegistry
<1>1. LeaseInit => Registry!Init
  <2> SUFFICES ASSUME LeaseInit PROVE Registry!Init
    OBVIOUS
  <2>1. now = 0 /\ Ids = {}
    BY DEF LeaseInit, Ids
  <2>2. LiveLeases = {}
    BY <2>1 DEF LiveLeases
  <2>3. \A o \in Owner : Generations(o) = {0}
    BY <2>1 DEF Generations
  <2>4. \A o \in Owner : LastGeneration(o) = 0
    BY <2>3 DEF LastGeneration
  <2> QED
    BY <2>1, <2>2, <2>4 DEF Registry!Init, LastGenerations
<1>2. LeaseInv /\ [Next]_leaseVars => [Registry!Next]_Registry!vars
  BY StepImplements
<1> QED
  BY <1>1, <1>2, LeaseInvariant, PTL DEF Spec, ImplementsRegistry, Registry!Spec

=============================================================================
