------------------------ MODULE ExclusiveLeaseProofs ------------------------
(***************************************************************************)
(* The invariants and action properties of ExclusiveLease hold for every   *)
(* set of owners, keys and connections, every TTL range, every bound.      *)
(*                                                                         *)
(* The argument: whatever transaction runs, the table it leaves is a       *)
(* lapse of the old one (rows keep their identity, some stop being         *)
(* ACTIVE), to which at most one row is appended, and that row fits        *)
(* (lemma StepShape, one step per transaction).  Every property follows    *)
(* from this shape and from the inductive invariant LeaseInv.              *)
(***************************************************************************)
EXTENDS ExclusiveLease, TLAPS

\* Every owner has a last generation, so that the next one is a number.
LastExists ==
  \A o \in Owner : \E g \in Generations(o) : \A h \in Generations(o) : h <= g

LeaseInv == TypeOK /\ LastExists /\ ActiveUnique /\ GenerationHasOneKey /\ ActiveIsNewest

\* Rows p and q are the same tenancy of the same connection.
SameTenancy(p, q) ==
  p.owner = q.owner /\ p.key = q.key /\ p.conn = q.conn /\ p.gen = q.gen

\* Table t has the rows of the current one; only live rows are still ACTIVE,
\* and rows that had ended are as they were.
Lapse(t) ==
  /\ t \in [Ids -> Row]
  /\ \A i \in Ids : /\ SameTenancy(t[i], rows[i])
                    /\ t[i].state = "ACTIVE" => Live(i)
                    /\ rows[i].state # "ACTIVE" => t[i] = rows[i]

\* Row r may be appended to t: nobody in t contends with it, no generation of
\* its owner is later, and it either starts a generation or continues one that
\* is in force under the same key.
Fits(t, r) ==
  /\ r \in Row
  /\ \A i \in Ids : t[i].state = "ACTIVE" => t[i].owner # r.owner /\ t[i].conn # r.conn
  /\ \A i \in Ids : rows[i].owner = r.owner =>
       rows[i].gen <= r.gen /\ (rows[i].gen = r.gen => rows[i].key = r.key)
  /\ \/ \A g \in Generations(r.owner) : g < r.gen
     \/ \E j \in ActiveOf(r.owner) : rows[j].gen = r.gen

Shape ==
  \/ UNCHANGED <<rows, lastId>> /\ now' \in Nat /\ now' >= now
  \/ now' = now /\ lastId' = lastId /\ Lapse(rows')
  \/ now' = now /\ \E t, r : Lapse(t) /\ Fits(t, r) /\ Insert(t, r)

-----------------------------------------------------------------------------
\* What the helpers return.

\* A deadline set now lies in the future: the TTL is clamped from below.
LEMMA ExpiryIsLater ==
  ASSUME now \in Nat, NEW ttl \in RequestedTTL
  PROVE  Expiry(ttl) \in Nat /\ Expiry(ttl) > now
BY TTLAssumption DEF Expiry, Lesser, Greater

\* LastGeneration is the maximum of the owner's generations, 0 if it has none.
LEMMA LastGenerationIsLast ==
  ASSUME TypeOK, LastExists, NEW o \in Owner
  PROVE  /\ LastGeneration(o) \in Nat
         /\ LastGeneration(o) \in Generations(o)
         /\ \A h \in Generations(o) : h <= LastGeneration(o)
<1>1. \E g \in Generations(o) : \A h \in Generations(o) : h <= g
  BY DEF LastExists
<1>2. Generations(o) \subseteq Nat
  BY DEF TypeOK, Generations, Row
<1> QED
  BY <1>1, <1>2 DEF LastGeneration

\* The generation of every row counts among its owner's.
LEMMA GenerationOfRow ==
  ASSUME NEW i \in Ids
  PROVE  rows[i].gen \in Generations(rows[i].owner)
BY DEF Generations

\* The sweep of overdue rows is a lapse.
LEMMA ExpiredLapses ==
  ASSUME TypeOK
  PROVE  Lapse(Expired)
<1>1. Expired \in [Ids -> Row]
  BY DEF TypeOK, Expired, Row, State
<1>2. ASSUME NEW i \in Ids
      PROVE  /\ SameTenancy(Expired[i], rows[i])
             /\ Expired[i].state = "ACTIVE" => Live(i)
             /\ rows[i].state # "ACTIVE" => Expired[i] = rows[i]
  BY DEF TypeOK, Expired, Row, State, SameTenancy, Live
<1> QED
  BY <1>1, <1>2 DEF Lapse

\* Ending some live rows, with the sweep, is a lapse that leaves none of them ACTIVE.
LEMMA EndedLapses ==
  ASSUME TypeOK, NEW S \in SUBSET {i \in Ids : Live(i)}, NEW s \in State \ {"ACTIVE"}
  PROVE  /\ Lapse(Ended(S, s))
         /\ \A i \in S : Ended(S, s)[i].state # "ACTIVE"
<1>1. /\ Expired \in [Ids -> Row]
      /\ \A i \in Ids : /\ SameTenancy(Expired[i], rows[i])
                        /\ Expired[i].state = "ACTIVE" => Live(i)
                        /\ rows[i].state # "ACTIVE" => Expired[i] = rows[i]
  BY ExpiredLapses DEF Lapse
<1>2. ASSUME NEW i \in Ids
      PROVE  /\ Ended(S, s)[i] \in Row
             /\ SameTenancy(Ended(S, s)[i], rows[i])
             /\ Ended(S, s)[i].state = "ACTIVE" => Live(i)
             /\ rows[i].state # "ACTIVE" => Ended(S, s)[i] = rows[i]
             /\ i \in S => Ended(S, s)[i].state # "ACTIVE"
  <2>1. CASE i \in S
    BY <2>1 DEF TypeOK, Ended, Row, State, SameTenancy, Live
  <2>2. CASE i \notin S
    BY <2>2, <1>1 DEF Ended
  <2> QED BY <2>1, <2>2
<1>3. Ended(S, s) \in [Ids -> Row]
  BY <1>2 DEF Ended
<1> QED
  BY <1>2, <1>3 DEF Lapse

\* Moving the deadline of some live rows, with the sweep, is a lapse.
LEMMA RenewedLapses ==
  ASSUME TypeOK, NEW S \in SUBSET {i \in Ids : Live(i)}, NEW ttl \in RequestedTTL
  PROVE  Lapse(Renewed(S, ttl))
<1>1. /\ Expired \in [Ids -> Row]
      /\ \A i \in Ids : /\ SameTenancy(Expired[i], rows[i])
                        /\ Expired[i].state = "ACTIVE" => Live(i)
                        /\ rows[i].state # "ACTIVE" => Expired[i] = rows[i]
  BY ExpiredLapses DEF Lapse
<1>2. Expiry(ttl) \in Nat
  BY ExpiryIsLater DEF TypeOK
<1>3. ASSUME NEW i \in Ids
      PROVE  /\ Renewed(S, ttl)[i] \in Row
             /\ SameTenancy(Renewed(S, ttl)[i], rows[i])
             /\ Renewed(S, ttl)[i].state = "ACTIVE" => Live(i)
             /\ rows[i].state # "ACTIVE" => Renewed(S, ttl)[i] = rows[i]
  <2>1. CASE i \in S
    BY <1>2, <2>1 DEF TypeOK, Renewed, Row, State, SameTenancy, Live
  <2>2. CASE i \notin S
    BY <2>2, <1>1 DEF Renewed
  <2> QED BY <2>1, <2>2
<1>4. Renewed(S, ttl) \in [Ids -> Row]
  BY <1>3 DEF Renewed
<1> QED
  BY <1>3, <1>4 DEF Lapse

\* The rows that the look-ups of the store return are live.
LEMMA LiveSets ==
  ASSUME NEW o, NEW g, NEW k
  PROVE  /\ ActiveOf(o) \in SUBSET {i \in Ids : Live(i)}
         /\ Matching(o, g, k) \in SUBSET {i \in Ids : Live(i)}
BY DEF ActiveOf, Matching

\* The row that a transaction inserts is well formed and carries its arguments.
LEMMA NewRowIsRow ==
  ASSUME TypeOK, NEW o \in Owner, NEW k \in Key, NEW c \in Connection,
         NEW g \in Nat \ {0}, NEW ttl \in RequestedTTL
  PROVE  /\ NewRow(o, k, c, g, ttl) \in Row
         /\ NewRow(o, k, c, g, ttl).owner = o /\ NewRow(o, k, c, g, ttl).key = k
         /\ NewRow(o, k, c, g, ttl).conn = c /\ NewRow(o, k, c, g, ttl).gen = g
BY ExpiryIsLater DEF TypeOK, NewRow, Row, State

-----------------------------------------------------------------------------
\* The rows that acquire and transition append fit.

\* The row of a new tenancy fits the swept table: its generation is a new one.
LEMMA AcquiredFits ==
  ASSUME LeaseInv,
         NEW o \in Owner, NEW k \in Key, NEW c \in Connection, NEW ttl \in RequestedTTL,
         AcquireKind(o, k, c) = "ACQUIRED"
  PROVE  Fits(Expired, NewRow(o, k, c, NextGeneration(o), ttl))
<1> DEFINE r == NewRow(o, k, c, NextGeneration(o), ttl)
<1>1. ActiveOf(o) = {} /\ ActiveOn(c) = {}
  BY DEF AcquireKind
<1>2. NextGeneration(o) \in Nat \ {0} /\ \A h \in Generations(o) : h < NextGeneration(o)
  <2>1. Generations(o) \subseteq Nat
    BY DEF LeaseInv, TypeOK, Generations, Row
  <2> QED
    BY <2>1, LastGenerationIsLast DEF LeaseInv, NextGeneration
<1>3. r \in Row /\ r.owner = o /\ r.key = k /\ r.conn = c /\ r.gen = NextGeneration(o)
  BY <1>2, NewRowIsRow DEF LeaseInv
<1>4. ASSUME NEW i \in Ids, Expired[i].state = "ACTIVE"
      PROVE  Expired[i].owner # o /\ Expired[i].conn # c
  <2>1. Live(i) /\ SameTenancy(Expired[i], rows[i])
    BY <1>4, ExpiredLapses DEF LeaseInv, Lapse
  <2> QED
    BY <2>1, <1>1 DEF SameTenancy, ActiveOf, ActiveOn
<1>5. ASSUME NEW i \in Ids, rows[i].owner = o
      PROVE  rows[i].gen < NextGeneration(o) /\ rows[i].gen \in Nat
  BY <1>2, <1>5, GenerationOfRow DEF LeaseInv, TypeOK, Row
<1>6. \A i \in Ids : rows[i].owner = r.owner =>
        rows[i].gen <= r.gen /\ (rows[i].gen = r.gen => rows[i].key = r.key)
  BY <1>2, <1>3, <1>5
<1>7. \A g \in Generations(r.owner) : g < r.gen
  BY <1>2, <1>3
<1> HIDE DEF r
<1> QED
  BY <1>3, <1>4, <1>6, <1>7 DEF Fits, r

\* The row of a transition fits the table in which the row it continues is ended.
LEMMA TransitionedFits ==
  ASSUME LeaseInv,
         NEW o \in Owner, NEW k \in Key, NEW c \in Connection, NEW g \in Nat \ {0},
         NEW ttl \in RequestedTTL,
         TransitionKind(o, g, k, c) = "TRANSITIONED"
  PROVE  Fits(Ended(Matching(o, g, k), "INVALIDATED"), NewRow(o, k, c, g, ttl))
<1> DEFINE t == Ended(Matching(o, g, k), "INVALIDATED")
           r == NewRow(o, k, c, g, ttl)
<1>1. Matching(o, g, k) # {} /\ ActiveOn(c) = {}
  BY DEF TransitionKind
<1>2. PICK m \in Ids : /\ Live(m) /\ rows[m].state = "ACTIVE"
                       /\ rows[m].owner = o /\ rows[m].gen = g /\ rows[m].key = k
                       /\ m \in Matching(o, g, k) /\ m \in ActiveOf(o)
  BY <1>1 DEF Matching, ActiveOf, Live
<1>3. r \in Row /\ r.owner = o /\ r.key = k /\ r.conn = c /\ r.gen = g
  BY NewRowIsRow DEF LeaseInv
<1>4. Lapse(t) /\ t[m].state # "ACTIVE"
  BY <1>2, EndedLapses, LiveSets DEF LeaseInv, State
<1>5. ASSUME NEW i \in Ids, t[i].state = "ACTIVE"
      PROVE  t[i].owner # o /\ t[i].conn # c
  <2>1. Live(i) /\ rows[i].state = "ACTIVE" /\ SameTenancy(t[i], rows[i])
    BY <1>4, <1>5 DEF Lapse, Live
  <2>2. i # m
    BY <1>4, <1>5
  <2>3. rows[i].owner # o
    BY <1>2, <2>1, <2>2 DEF LeaseInv, ActiveUnique
  <2>4. rows[i].conn # c
    BY <1>1, <2>1 DEF ActiveOn
  <2> QED
    BY <2>1, <2>3, <2>4 DEF SameTenancy
<1>6. ASSUME NEW i \in Ids, rows[i].owner = o
      PROVE  rows[i].gen <= g /\ (rows[i].gen = g => rows[i].key = k)
  BY <1>2, <1>6 DEF LeaseInv, ActiveIsNewest, GenerationHasOneKey
<1>7. \E j \in ActiveOf(o) : rows[j].gen = g
  BY <1>2
<1> HIDE DEF t, r
<1>8. Fits(t, r)
  BY <1>3, <1>5, <1>6, <1>7 DEF Fits
<1> QED
  BY <1>8 DEF t, r

\* Every transaction has the shape described above.
LEMMA StepShape ==
  ASSUME LeaseInv, [Next]_leaseVars
  PROVE  Shape
<1> USE DEF LeaseInv
<1>1. CASE Tick
  BY <1>1 DEF Tick, Shape, TypeOK
<1>2. CASE Reconcile
  BY <1>2, ExpiredLapses DEF Reconcile, OnlyRows, Shape
<1>3. ASSUME NEW o \in Owner, NEW k \in Key, NEW c \in Connection, NEW ttl \in RequestedTTL,
             Acquire(o, k, c, ttl)
      PROVE  Shape
  <2>1. CASE OnlyRows(Expired)
    BY <2>1, ExpiredLapses DEF OnlyRows, Shape
  <2>2. CASE OnlyRows(Renewed(ActiveOf(o), ttl))
    BY <2>2, RenewedLapses, LiveSets DEF OnlyRows, Shape
  <2>3. CASE /\ AcquireKind(o, k, c) = "ACQUIRED"
             /\ Insert(Expired, NewRow(o, k, c, NextGeneration(o), ttl))
             /\ UNCHANGED now
    BY <2>3, ExpiredLapses, AcquiredFits DEF Shape
  <2> QED
    BY <1>3, <2>1, <2>2, <2>3 DEF Acquire
<1>4. ASSUME NEW o \in Owner, NEW k \in Key, NEW g \in 1..MaxRows, NEW c \in Connection,
             NEW ttl \in RequestedTTL, Transition(o, g, k, c, ttl)
      PROVE  Shape
  <2>1. CASE OnlyRows(Expired)
    BY <2>1, ExpiredLapses DEF OnlyRows, Shape
  <2>2. CASE /\ TransitionKind(o, g, k, c) = "TRANSITIONED"
             /\ Insert(Ended(Matching(o, g, k), "INVALIDATED"), NewRow(o, k, c, g, ttl))
             /\ UNCHANGED now
    <3>1. Lapse(Ended(Matching(o, g, k), "INVALIDATED"))
      BY EndedLapses, LiveSets DEF State
    <3>2. g \in Nat \ {0}
      BY BoundAssumption
    <3>3. Fits(Ended(Matching(o, g, k), "INVALIDATED"), NewRow(o, k, c, g, ttl))
      BY <2>2, <3>2, TransitionedFits
    <3> QED
      BY <2>2, <3>1, <3>3 DEF Shape
  <2> QED
    BY <1>4, <2>1, <2>2 DEF Transition
<1>5. ASSUME NEW o \in Owner, NEW k \in Key, NEW g \in 1..MaxRows, NEW ttl \in RequestedTTL,
             Renew(o, g, k, ttl)
      PROVE  Shape
  BY <1>5, RenewedLapses, LiveSets DEF Renew, OnlyRows, Shape
<1>6. ASSUME NEW o \in Owner, NEW k \in Key, NEW g \in 1..MaxRows, Release(o, g, k)
      PROVE  Shape
  BY <1>6, EndedLapses, LiveSets DEF Release, OnlyRows, Shape, State
<1>7. ASSUME NEW o \in Owner, NEW k \in Key, NEW g \in 1..MaxRows, Invalidate(o, g, k)
      PROVE  Shape
  BY <1>7, EndedLapses, LiveSets DEF Invalidate, OnlyRows, Shape, State
<1>8. CASE UNCHANGED leaseVars
  BY <1>8 DEF leaseVars, Shape, TypeOK
<1> QED
  BY <1>1, <1>2, <1>3, <1>4, <1>5, <1>6, <1>7, <1>8 DEF Next


-----------------------------------------------------------------------------
\* What a step of that shape does to the table.

\* A lapse keeps owners, keys and generations and makes no row ACTIVE.
LEMMA LapseKeeps ==
  ASSUME TypeOK, NEW t, Lapse(t), NEW i \in Ids
  PROVE  /\ t[i] \in Row
         /\ t[i].owner = rows[i].owner /\ t[i].key = rows[i].key
         /\ t[i].conn = rows[i].conn /\ t[i].gen = rows[i].gen
         /\ t[i].state = "ACTIVE" => Live(i) /\ rows[i].state = "ACTIVE"
         /\ rows[i].state # "ACTIVE" => t[i] = rows[i]
BY DEF Lapse, SameTenancy, Live

\* An insert keeps table t and adds row r under the next id.
LEMMA InsertAppends ==
  ASSUME TypeOK, NEW t, NEW r, Insert(t, r)
  PROVE  /\ lastId' = lastId + 1 /\ lastId' \in Nat
         /\ Ids' = Ids \union {lastId + 1} /\ lastId + 1 \notin Ids
         /\ DOMAIN rows' = Ids'
         /\ \A i \in Ids : rows'[i] = t[i] /\ i < lastId + 1
         /\ rows'[lastId + 1] = r
<1>1. lastId \in Nat /\ lastId' = lastId + 1
  BY DEF TypeOK, Insert
<1>2. rows' = [i \in 1..(lastId + 1) |-> IF i <= lastId THEN t[i] ELSE r]
  BY DEF Insert
<1>3. Ids' = 1..(lastId + 1) /\ Ids' = Ids \union {lastId + 1} /\ lastId + 1 \notin Ids
  BY <1>1 DEF Ids
<1>4. \A i \in Ids : i \in 1..(lastId + 1) /\ i <= lastId /\ i < lastId + 1
  BY <1>1 DEF Ids
<1>5. lastId + 1 \in 1..(lastId + 1) /\ ~(lastId + 1 <= lastId)
  BY <1>1
<1> QED
  BY <1>1, <1>2, <1>3, <1>4, <1>5

\* An insert adds its generation to those of its owner, and to no others.
LEMMA InsertGenerations ==
  ASSUME TypeOK, NEW t, NEW r, Lapse(t), Insert(t, r), NEW o
  PROVE  Generations(o)' =
           IF o = r.owner THEN Generations(o) \union {r.gen} ELSE Generations(o)
<1>1. \A i \in Ids : rows'[i].owner = rows[i].owner /\ rows'[i].gen = rows[i].gen
  BY LapseKeeps, InsertAppends
<1>2. Ids' = Ids \union {lastId + 1} /\ rows'[lastId + 1] = r
  BY InsertAppends
<1> QED
  BY <1>1, <1>2 DEF Generations

\* A step of the given shape keeps the table well formed.
LEMMA TypeStep ==
  ASSUME LeaseInv, Shape
  PROVE  TypeOK'
<1> USE DEF LeaseInv
<1>1. CASE UNCHANGED <<rows, lastId>> /\ now' \in Nat /\ now' >= now
  BY <1>1 DEF TypeOK, Ids
<1>2. CASE now' = now /\ lastId' = lastId /\ Lapse(rows')
  BY <1>2 DEF TypeOK, Ids, Lapse
<1>3. ASSUME now' = now, NEW t, NEW r, Lapse(t), Fits(t, r), Insert(t, r)
      PROVE  TypeOK'
  <2>1. \A i \in Ids : t[i] \in Row
    BY <1>3, LapseKeeps
  <2>2. \A i \in Ids' : rows'[i] \in Row
    BY <1>3, <2>1, InsertAppends DEF Fits
  <2>3. rows' \in [Ids' -> Row]
    <3>1. rows' = [i \in Ids' |-> rows'[i]]
      BY <1>3 DEF Insert, TypeOK, Ids
    <3> QED BY <2>2, <3>1
  <2> QED
    BY <1>3, <2>3, InsertAppends DEF TypeOK
<1> QED
  BY <1>1, <1>2, <1>3 DEF Shape

\* A step of the given shape leaves no owner and no connection with two ACTIVE rows.
LEMMA ActiveUniqueStep ==
  ASSUME LeaseInv, Shape
  PROVE  ActiveUnique'
<1> USE DEF LeaseInv
<1>1. CASE UNCHANGED <<rows, lastId>>
  BY <1>1 DEF ActiveUnique, Ids
<1>2. CASE lastId' = lastId /\ Lapse(rows')
  <2>1. Ids' = Ids
    BY <1>2 DEF Ids
  <2> QED
    BY <1>2, <2>1, LapseKeeps DEF ActiveUnique
<1>3. ASSUME NEW t, NEW r, Lapse(t), Fits(t, r), Insert(t, r)
      PROVE  ActiveUnique'
  <2>1. \A i, j \in Ids : /\ i # j
                          /\ t[i].state = "ACTIVE" /\ t[j].state = "ACTIVE"
                          => t[i].owner # t[j].owner /\ t[i].conn # t[j].conn
    BY <1>3, LapseKeeps DEF ActiveUnique
  <2>2. \A i \in Ids : t[i].state = "ACTIVE" => t[i].owner # r.owner /\ t[i].conn # r.conn
    BY <1>3 DEF Fits
  <2> QED
    BY <1>3, <2>1, <2>2, InsertAppends DEF ActiveUnique
<1> QED
  BY <1>1, <1>2, <1>3 DEF Shape

\* A step of the given shape keeps one key per generation.
LEMMA OneKeyStep ==
  ASSUME LeaseInv, Shape
  PROVE  GenerationHasOneKey'
<1> USE DEF LeaseInv
<1>1. CASE UNCHANGED <<rows, lastId>>
  BY <1>1 DEF GenerationHasOneKey, Ids
<1>2. CASE lastId' = lastId /\ Lapse(rows')
  <2>1. Ids' = Ids
    BY <1>2 DEF Ids
  <2> QED
    BY <1>2, <2>1, LapseKeeps DEF GenerationHasOneKey
<1>3. ASSUME NEW t, NEW r, Lapse(t), Fits(t, r), Insert(t, r)
      PROVE  GenerationHasOneKey'
  <2>1. \A i, j \in Ids : t[i].owner = t[j].owner /\ t[i].gen = t[j].gen
                            => t[i].key = t[j].key
    BY <1>3, LapseKeeps DEF GenerationHasOneKey
  <2>2. \A i \in Ids : t[i].owner = r.owner /\ t[i].gen = r.gen => t[i].key = r.key
    BY <1>3, LapseKeeps DEF Fits
  <2> QED
    BY <1>3, <2>1, <2>2, InsertAppends DEF GenerationHasOneKey
<1> QED
  BY <1>1, <1>2, <1>3 DEF Shape

\* A step of the given shape leaves the ACTIVE row of an owner its newest.
LEMMA NewestStep ==
  ASSUME LeaseInv, Shape
  PROVE  ActiveIsNewest'
<1> USE DEF LeaseInv
<1>1. CASE UNCHANGED <<rows, lastId>>
  BY <1>1 DEF ActiveIsNewest, Ids
<1>2. CASE lastId' = lastId /\ Lapse(rows')
  <2>1. Ids' = Ids
    BY <1>2 DEF Ids
  <2> QED
    BY <1>2, <2>1, LapseKeeps DEF ActiveIsNewest
<1>3. ASSUME NEW t, NEW r, Lapse(t), Fits(t, r), Insert(t, r)
      PROVE  ActiveIsNewest'
  <2>1. \A i, j \in Ids : t[i].state = "ACTIVE" /\ t[j].owner = t[i].owner
                            => j <= i /\ t[j].gen <= t[i].gen
    BY <1>3, LapseKeeps DEF ActiveIsNewest
  <2>2. \A i \in Ids : t[i].state = "ACTIVE" => t[i].owner # r.owner
    BY <1>3 DEF Fits
  <2>3. \A i \in Ids : t[i].owner = r.owner => t[i].gen <= r.gen
    BY <1>3, LapseKeeps DEF Fits
  <2>4. lastId + 1 <= lastId + 1 /\ r.gen <= r.gen
    BY <1>3 DEF Fits, Row, TypeOK
  <2>5. \A i \in Ids : i <= lastId + 1
    BY DEF Ids, TypeOK
  <2> QED
    BY <1>3, <2>1, <2>2, <2>3, <2>4, <2>5, InsertAppends DEF ActiveIsNewest
<1> QED
  BY <1>1, <1>2, <1>3 DEF Shape

\* After a step of the given shape every owner still has a last generation.
LEMMA LastStep ==
  ASSUME LeaseInv, Shape
  PROVE  LastExists'
<1> USE DEF LeaseInv
<1>1. CASE UNCHANGED <<rows, lastId>>
  BY <1>1 DEF LastExists, Generations, Ids
<1>2. CASE lastId' = lastId /\ Lapse(rows')
  <2>1. Ids' = Ids
    BY <1>2 DEF Ids
  <2>2. \A o \in Owner : Generations(o)' = Generations(o)
    BY <1>2, <2>1, LapseKeeps DEF Generations
  <2> QED
    BY <2>2 DEF LastExists
<1>3. ASSUME NEW t, NEW r, Lapse(t), Fits(t, r), Insert(t, r)
      PROVE  LastExists'
  <2> SUFFICES ASSUME NEW o \in Owner
               PROVE  \E g \in Generations(o)' : \A h \in Generations(o)' : h <= g
    BY DEF LastExists
  <2>1. CASE o # r.owner
    <3>1. Generations(o)' = Generations(o)
      BY <1>3, <2>1, InsertGenerations
    <3> QED
      BY <3>1 DEF LastExists
  <2>2. CASE o = r.owner
    <3>1. Generations(o)' = Generations(o) \union {r.gen}
      BY <1>3, <2>2, InsertGenerations
    <3>2. r.gen \in Nat /\ Generations(o) \subseteq Nat
      BY <1>3 DEF Fits, Row, TypeOK, Generations
    <3>3. \A h \in Generations(o) : h <= r.gen
      BY <1>3, <2>2, <3>2 DEF Fits, Generations
    <3> QED
      BY <3>1, <3>2, <3>3
  <2> QED BY <2>1, <2>2
<1> QED
  BY <1>1, <1>2, <1>3 DEF Shape

-----------------------------------------------------------------------------
\* The theorems.

\* The empty table satisfies the inductive invariant.
LEMMA InitEstablishes == LeaseInit => LeaseInv
<1> SUFFICES ASSUME LeaseInit PROVE LeaseInv
  OBVIOUS
<1>1. Ids = {} /\ lastId = 0 /\ now = 0 /\ rows = [i \in {} |-> 0]
  BY DEF LeaseInit, Ids
<1>2. rows \in [Ids -> Row]
  BY <1>1
<1>3. \A o \in Owner : Generations(o) = {0}
  BY <1>1 DEF Generations
<1>4. LastExists
  BY <1>3 DEF LastExists
<1> QED
  BY <1>1, <1>2, <1>4
     DEF LeaseInv, TypeOK, ActiveUnique, GenerationHasOneKey, ActiveIsNewest

\* Every behaviour of the store keeps the inductive invariant.
THEOREM LeaseInvariant == Spec => []LeaseInv
<1>1. LeaseInit => LeaseInv
  BY InitEstablishes
<1>2. LeaseInv /\ [Next]_leaseVars => LeaseInv'
  <2> SUFFICES ASSUME LeaseInv, [Next]_leaseVars PROVE LeaseInv'
    OBVIOUS
  <2>1. Shape
    BY StepShape
  <2> QED
    BY <2>1, TypeStep, LastStep, ActiveUniqueStep, OneKeyStep, NewestStep DEF LeaseInv
<1> QED
  BY <1>1, <1>2, PTL DEF Spec

\* The table is well formed: every id issued has a row, for good.
THEOREM TypeCorrect == Spec => []TypeOK
<1>1. LeaseInv => TypeOK
  BY DEF LeaseInv
<1> QED
  BY <1>1, LeaseInvariant, PTL

\* acquire and transition never run into the unique indexes: an owner has at
\* most one ACTIVE row, and so has a connection, swept or not.
THEOREM Exclusive == Spec => []ActiveUnique
<1>1. LeaseInv => ActiveUnique
  BY DEF LeaseInv
<1> QED
  BY <1>1, LeaseInvariant, PTL

\* A generation belongs to one API key, across all its transitions.
THEOREM OneKey == Spec => []GenerationHasOneKey
<1>1. LeaseInv => GenerationHasOneKey
  BY DEF LeaseInv
<1> QED
  BY <1>1, LeaseInvariant, PTL

\* An owner's ACTIVE row is its newest and carries its highest generation.
THEOREM Newest == Spec => []ActiveIsNewest
<1>1. LeaseInv => ActiveIsNewest
  BY DEF LeaseInv
<1> QED
  BY <1>1, LeaseInvariant, PTL

\* No transaction changes whose tenancy a row records, or anything of a row
\* that has ended.
THEOREM HistoryFrozen == Spec => HistoryIsFrozen
<1>1. LeaseInv /\ [Next]_leaseVars
      => [\A i \in Ids :
            /\ rows'[i].owner = rows[i].owner /\ rows'[i].key = rows[i].key
            /\ rows'[i].conn = rows[i].conn /\ rows'[i].gen = rows[i].gen
            /\ rows[i].state # "ACTIVE" => rows'[i] = rows[i]]_leaseVars
  <2> SUFFICES ASSUME LeaseInv, [Next]_leaseVars, NEW i \in Ids
               PROVE  /\ rows'[i].owner = rows[i].owner /\ rows'[i].key = rows[i].key
                      /\ rows'[i].conn = rows[i].conn /\ rows'[i].gen = rows[i].gen
                      /\ rows[i].state # "ACTIVE" => rows'[i] = rows[i]
    OBVIOUS
  <2>1. CASE UNCHANGED <<rows, lastId>>
    BY <2>1
  <2>2. CASE Lapse(rows')
    BY <2>2, LapseKeeps DEF LeaseInv
  <2>3. ASSUME NEW t, NEW r, Lapse(t), Insert(t, r)
        PROVE  t[i] = rows'[i]
    BY <2>3, InsertAppends DEF LeaseInv
  <2> QED
    BY <2>1, <2>2, <2>3, StepShape, LapseKeeps DEF Shape, LeaseInv
<1> QED
  BY <1>1, LeaseInvariant, PTL DEF Spec, HistoryIsFrozen

\* A generation that is no longer in force never is again: a row that is live
\* after a step has a new generation or continues a live one.
THEOREM NeverReturns == Spec => GenerationNeverReturns
<1>1. LeaseInv /\ [Next]_leaseVars
      => [\A i \in Ids' : Live(i)' =>
            \/ rows'[i].gen > LastGeneration(rows'[i].owner)
            \/ \E j \in ActiveOf(rows'[i].owner) : rows[j].gen = rows'[i].gen]_leaseVars
  <2> SUFFICES ASSUME LeaseInv, [Next]_leaseVars, NEW i \in Ids', Live(i)'
               PROVE  \/ rows'[i].gen > LastGeneration(rows'[i].owner)
                      \/ \E j \in ActiveOf(rows'[i].owner) : rows[j].gen = rows'[i].gen
    OBVIOUS
  <2>1. CASE UNCHANGED <<rows, lastId>> /\ now' \in Nat /\ now' >= now
    <3>1. i \in Ids /\ rows[i] \in Row /\ now \in Nat
      BY <2>1 DEF Ids, LeaseInv, TypeOK
    <3>2. Live(i)
      BY <2>1, <3>1 DEF Live, Row
    <3> QED
      BY <2>1, <3>1, <3>2 DEF ActiveOf
  <2>2. CASE lastId' = lastId /\ Lapse(rows')
    <3>1. i \in Ids /\ Live(i) /\ rows'[i].owner = rows[i].owner /\ rows'[i].gen = rows[i].gen
      BY <2>2, LapseKeeps DEF LeaseInv, Ids, Live
    <3> QED
      BY <3>1 DEF ActiveOf
  <2>3. ASSUME NEW t, NEW r, Lapse(t), Fits(t, r), Insert(t, r)
        PROVE  \/ rows'[i].gen > LastGeneration(rows'[i].owner)
               \/ \E j \in ActiveOf(rows'[i].owner) : rows[j].gen = rows'[i].gen
    <3>1. CASE i \in Ids
      <4>1. Live(i) /\ rows'[i].owner = rows[i].owner /\ rows'[i].gen = rows[i].gen
        BY <2>3, <3>1, LapseKeeps, InsertAppends DEF LeaseInv, Live
      <4> QED
        BY <3>1, <4>1 DEF ActiveOf
    <3>2. CASE i = lastId + 1
      <4>1. rows'[i] = r
        BY <2>3, <3>2, InsertAppends DEF LeaseInv
      <4>2. r.owner \in Owner /\ r.gen \in Nat
        BY <2>3 DEF Fits, Row
      <4>3. LastGeneration(r.owner) \in Generations(r.owner) /\ LastGeneration(r.owner) \in Nat
        BY <4>2, LastGenerationIsLast DEF LeaseInv
      <4> QED
        BY <2>3, <4>1, <4>2, <4>3 DEF Fits
    <3> QED
      BY <2>3, <3>1, <3>2, InsertAppends DEF LeaseInv
  <2> QED
    BY <2>1, <2>2, <2>3, StepShape DEF Shape
<1> QED
  BY <1>1, LeaseInvariant, PTL DEF Spec, GenerationNeverReturns

\* A release that was accepted once is accepted for ever.
THEOREM ReleaseFinal == Spec => ReleaseIsFinal
<1>1. LeaseInv /\ [Next]_leaseVars
      => [\A o \in Owner, g \in 1..MaxRows, k \in Key :
            ReleasedBefore(o, g, k) => ReleasedBefore(o, g, k)']_leaseVars
  <2> SUFFICES ASSUME LeaseInv, [Next]_leaseVars,
                      NEW o \in Owner, NEW g \in 1..MaxRows, NEW k \in Key,
                      ReleasedBefore(o, g, k)
               PROVE  ReleasedBefore(o, g, k)'
    OBVIOUS
  <2>1. PICK i \in Ids : /\ rows[i].owner = o /\ rows[i].gen = g
                         /\ \A j \in Ids : rows[j].owner = o /\ rows[j].gen = g => j <= i
                         /\ rows[i].state = "RELEASED" /\ rows[i].key = k
    BY DEF ReleasedBefore, Historical
  <2>2. CASE UNCHANGED <<rows, lastId>>
    BY <2>1, <2>2 DEF ReleasedBefore, Historical, Ids
  <2>3. CASE lastId' = lastId /\ Lapse(rows')
    <3>1. Ids' = Ids /\ rows'[i] = rows[i]
      BY <2>1, <2>3, LapseKeeps DEF Ids, LeaseInv
    <3>2. \A j \in Ids : rows'[j].owner = rows[j].owner /\ rows'[j].gen = rows[j].gen
      BY <2>3, LapseKeeps DEF LeaseInv
    <3> QED
      BY <2>1, <3>1, <3>2 DEF ReleasedBefore, Historical
  <2>4. ASSUME NEW t, NEW r, Lapse(t), Fits(t, r), Insert(t, r)
        PROVE  ReleasedBefore(o, g, k)'
    <3>1. rows'[i] = rows[i] /\ i \in Ids'
      BY <2>1, <2>4, LapseKeeps, InsertAppends DEF LeaseInv
    <3>2. \A j \in Ids : rows'[j].owner = rows[j].owner /\ rows'[j].gen = rows[j].gen
      BY <2>4, LapseKeeps, InsertAppends DEF LeaseInv
    <3>3. ~(r.owner = o /\ r.gen = g)
      <4> SUFFICES ASSUME r.owner = o, r.gen = g PROVE FALSE
        OBVIOUS
      <4>1. g \in Generations(o) /\ ~(g < g)
        BY <2>1, BoundAssumption DEF Generations
      <4>2. PICK j \in ActiveOf(o) : rows[j].gen = g
        BY <2>4, <4>1 DEF Fits
      <4>3. j \in Ids /\ rows[j].state = "ACTIVE" /\ rows[j].owner = o
        BY DEF ActiveOf, Live
      <4>4. i <= j /\ j <= i
        BY <2>1, <4>2, <4>3 DEF LeaseInv, ActiveIsNewest
      <4>5. i = j
        BY <4>3, <4>4 DEF Ids
      <4> QED
        BY <2>1, <4>3, <4>5
    <3> QED
      BY <2>1, <2>4, <3>1, <3>2, <3>3, InsertAppends DEF ReleasedBefore, Historical, LeaseInv
  <2> QED
    BY <2>2, <2>3, <2>4, StepShape DEF Shape
<1> QED
  BY <1>1, LeaseInvariant, PTL DEF Spec, ReleaseIsFinal

=============================================================================
