------------------------ MODULE ManagedRoutingProofs ------------------------
(***************************************************************************)
(* Requests over the lease store, for every set of owners, connections and *)
(* request slots and every bound.                                          *)
(*                                                                         *)
(* The argument has three layers.  A request that is past its selection    *)
(* names a connection, and a managed one an owner and a key (RequestsFit). *)
(* So whatever it asks of the store is one of the store's own transactions *)
(* (lemma StoreStep), and the store's invariant holds below the requests   *)
(* too.  The fence then compares with the newest row on its connection and *)
(* the newest generation of its owner, which is what orders dispatches.    *)
(***************************************************************************)
EXTENDS ManagedRouting, ExclusiveLeaseRefinementProofs

\* The generations of the table do not outrun its rows.
GenerationsBounded == lastId <= MaxRows /\ \A i \in Ids : rows[i].gen <= i

\* On each connection the ACTIVE row is the newest one.
ActiveIsLastOnConnection ==
  \A i, j \in Ids :
    rows[i].state = "ACTIVE" /\ rows[j].conn = rows[i].conn => j <= i

StoreInv == LeaseInv /\ GenerationsBounded /\ ActiveIsLastOnConnection

\* What a request knows at each await.
Fit(q) ==
  /\ Managed(q) => q.owner \in Owner /\ q.key \in Key
  /\ q.pc = "idle" => q.mode = "unmanaged"
  /\ q.pc \in {"preflight", "claimed", "inflight", "failed"} => q.conn \in Connection
  /\ q.reserved => q.conn \in OAuth

RequestsFit == \A r \in Request : Fit(req[r])

\* The last dispatch on a connection was authorised by a row on it, the last
\* one of an owner by a generation of its own.
DispatchesRecorded ==
  /\ \A c \in Connection :
       lastRow[c] # 0 => lastRow[c] \in Ids /\ rows[lastRow[c]].conn = c
  /\ \A o \in Owner : lastGen[o] \in Generations(o)

RoutingInv == StoreInv /\ RoutingTypeOK /\ RequestsFit /\ DispatchesRecorded

-----------------------------------------------------------------------------
\* The store below the requests.

\* A step of the store keeps its generations within its rows.
LEMMA BoundedStep ==
  ASSUME StoreInv, [Next]_leaseVars
  PROVE  GenerationsBounded'
<1> USE DEF StoreInv, LeaseInv
<1>1. CASE UNCHANGED <<rows, lastId>>
  BY <1>1 DEF GenerationsBounded, Ids
<1>2. CASE lastId' = lastId /\ Lapse(rows')
  BY <1>2, LapseKeeps DEF GenerationsBounded, Ids
<1>3. ASSUME NEW t, NEW r, Lapse(t), Insert(t, r), r.gen <= lastId + 1
      PROVE  GenerationsBounded'
  <2>1. lastId' = lastId + 1 /\ lastId \in Nat /\ lastId < MaxRows /\ MaxRows \in Nat
    BY <1>3, BoundAssumption DEF Insert, TypeOK
  <2>2. \A i \in Ids' : rows'[i].gen <= i
    BY <1>3, InsertAppends, LapseKeeps DEF GenerationsBounded
  <2> QED
    BY <2>1, <2>2 DEF GenerationsBounded
<1>4. ASSUME NEW o \in Owner, NEW k \in Key, NEW c \in Connection, NEW ttl \in RequestedTTL,
             Acquire(o, k, c, ttl)
      PROVE  GenerationsBounded'
  <2>1. CASE AcquireKind(o, k, c) # "ACQUIRED"
    <3>1. lastId' = lastId /\ Lapse(rows')
      BY <1>4, <2>1, ExpiredLapses, RenewedLapses, LiveSets DEF Acquire, OnlyRows
    <3> QED
      BY <1>2, <3>1
  <2>2. CASE AcquireKind(o, k, c) = "ACQUIRED"
    <3>1. Insert(Expired, NewRow(o, k, c, NextGeneration(o), ttl))
      BY <1>4, <2>2 DEF Acquire
    <3>2. LastGeneration(o) \in Generations(o) /\ LastGeneration(o) \in Nat
      BY LastGenerationIsLast
    <3>3. lastId \in Nat /\ \A g \in Generations(o) : g <= lastId
      BY DEF Generations, GenerationsBounded, Ids, TypeOK, Row
    <3>4. NewRow(o, k, c, NextGeneration(o), ttl).gen <= lastId + 1
      BY <3>2, <3>3 DEF NewRow, NextGeneration
    <3> QED
      BY <1>3, <3>1, <3>4, ExpiredLapses
  <2> QED
    BY <2>1, <2>2
<1>5. ASSUME NEW o \in Owner, NEW k \in Key, NEW g \in 1..MaxRows, NEW c \in Connection,
             NEW ttl \in RequestedTTL, Transition(o, g, k, c, ttl)
      PROVE  GenerationsBounded'
  <2>1. CASE TransitionKind(o, g, k, c) # "TRANSITIONED"
    <3>1. lastId' = lastId /\ Lapse(rows')
      BY <1>5, <2>1, ExpiredLapses DEF Transition, OnlyRows
    <3> QED
      BY <1>2, <3>1
  <2>2. CASE TransitionKind(o, g, k, c) = "TRANSITIONED"
    <3>1. Insert(Ended(Matching(o, g, k), "INVALIDATED"), NewRow(o, k, c, g, ttl))
      BY <1>5, <2>2 DEF Transition
    <3>2. PICK i \in Ids : rows[i].gen = g
      BY <2>2 DEF TransitionKind, Matching, ActiveOf
    <3>3. NewRow(o, k, c, g, ttl).gen <= lastId + 1
      BY <3>2 DEF NewRow, GenerationsBounded, Ids, TypeOK
    <3>4. Lapse(Ended(Matching(o, g, k), "INVALIDATED"))
      BY EndedLapses, LiveSets DEF State
    <3> QED
      BY <1>3, <3>1, <3>3, <3>4
  <2> QED
    BY <2>1, <2>2
<1>6. CASE Tick
  BY <1>1, <1>6 DEF Tick
<1>7. CASE Reconcile
  BY <1>2, <1>7, ExpiredLapses DEF Reconcile, OnlyRows
<1>8. ASSUME NEW o \in Owner, NEW k \in Key, NEW g \in 1..MaxRows, NEW ttl \in RequestedTTL,
             Renew(o, g, k, ttl)
      PROVE  GenerationsBounded'
  BY <1>2, <1>8, RenewedLapses, LiveSets DEF Renew, OnlyRows
<1>9. ASSUME NEW o \in Owner, NEW k \in Key, NEW g \in 1..MaxRows,
             Release(o, g, k) \/ Invalidate(o, g, k)
      PROVE  GenerationsBounded'
  BY <1>2, <1>9, EndedLapses, LiveSets DEF Release, Invalidate, OnlyRows, State
<1>10. CASE UNCHANGED leaseVars
  BY <1>1, <1>10 DEF leaseVars
<1> QED
  BY <1>4, <1>5, <1>6, <1>7, <1>8, <1>9, <1>10 DEF Next

\* A row is appended to a connection only when no row on it is ACTIVE.
LEMMA LastOnConnectionStep ==
  ASSUME StoreInv, [Next]_leaseVars
  PROVE  ActiveIsLastOnConnection'
<1> USE DEF StoreInv, LeaseInv
<1>1. CASE UNCHANGED <<rows, lastId>>
  BY <1>1 DEF ActiveIsLastOnConnection, Ids
<1>2. CASE lastId' = lastId /\ Lapse(rows')
  BY <1>2, LapseKeeps DEF ActiveIsLastOnConnection, Ids
<1>3. ASSUME NEW t, NEW r, Lapse(t), Fits(t, r), Insert(t, r)
      PROVE  ActiveIsLastOnConnection'
  <2> SUFFICES ASSUME NEW i \in Ids', NEW j \in Ids',
                      rows'[i].state = "ACTIVE", rows'[j].conn = rows'[i].conn
               PROVE  j <= i
    BY DEF ActiveIsLastOnConnection
  <2>1. CASE i = lastId + 1
    BY <1>3, <2>1, InsertAppends DEF Ids, TypeOK
  <2>2. CASE i \in Ids /\ j \in Ids
    BY <1>3, <2>2, InsertAppends, LapseKeeps DEF ActiveIsLastOnConnection
  <2>3. CASE i \in Ids /\ j = lastId + 1
    BY <1>3, <2>3, InsertAppends DEF Fits
  <2> QED
    BY <1>3, <2>1, <2>2, <2>3, InsertAppends
<1> QED
  BY <1>1, <1>2, <1>3, StepShape DEF Shape

LEMMA StoreInvStep ==
  ASSUME StoreInv, [Next]_leaseVars
  PROVE  StoreInv'
<1>1. Shape
  BY StepShape DEF StoreInv
<1>2. LeaseInv'
  BY <1>1, TypeStep, LastStep, ActiveUniqueStep, OneKeyStep, NewestStep DEF StoreInv, LeaseInv
<1> QED
  BY <1>2, BoundedStep, LastOnConnectionStep DEF StoreInv

-----------------------------------------------------------------------------
\* What a request asks of the store.

\* Invalidation with any generation: outside the store's range it finds no row.
LEMMA InvalidateIsOwn ==
  ASSUME StoreInv, NEW o \in Owner, NEW k \in Key, NEW g, Invalidate(o, g, k)
  PROVE  Next
<1>1. CASE Matching(o, g, k) = {}
  BY <1>1 DEF Invalidate, OnlyRows, Ended, Expired, Reconcile, Next
<1>2. CASE Matching(o, g, k) # {}
  <2>1. PICK i \in Ids : rows[i].gen = g
    BY <1>2 DEF Matching, ActiveOf
  <2>2. g \in 1..MaxRows
    BY <2>1, BoundAssumption DEF StoreInv, LeaseInv, GenerationsBounded, TypeOK, Row, Ids
  <2> QED
    BY <2>2 DEF Next
<1> QED
  BY <1>1, <1>2

\* Renewal and release likewise.
LEMMA RenewIsOwn ==
  ASSUME StoreInv, NEW o \in Owner, NEW k \in Key, NEW g, NEW ttl \in RequestedTTL,
         Renew(o, g, k, ttl)
  PROVE  Next
<1>1. CASE Matching(o, g, k) = {}
  BY <1>1 DEF Renew, OnlyRows, Renewed, Expired, Reconcile, Next
<1>2. CASE Matching(o, g, k) # {}
  <2>1. PICK i \in Ids : rows[i].gen = g
    BY <1>2 DEF Matching, ActiveOf
  <2>2. g \in 1..MaxRows
    BY <2>1, BoundAssumption DEF StoreInv, LeaseInv, GenerationsBounded, TypeOK, Row, Ids
  <2> QED
    BY <2>2 DEF Next
<1> QED
  BY <1>1, <1>2

LEMMA ReleaseIsOwn ==
  ASSUME StoreInv, NEW o \in Owner, NEW k \in Key, NEW g, Release(o, g, k)
  PROVE  Next
<1>1. CASE Matching(o, g, k) = {}
  BY <1>1 DEF Release, OnlyRows, Ended, Expired, Reconcile, Next
<1>2. CASE Matching(o, g, k) # {}
  <2>1. PICK i \in Ids : rows[i].gen = g
    BY <1>2 DEF Matching, ActiveOf
  <2>2. g \in 1..MaxRows
    BY <2>1, BoundAssumption DEF StoreInv, LeaseInv, GenerationsBounded, TypeOK, Row, Ids
  <2> QED
    BY <2>2 DEF Next
<1> QED
  BY <1>1, <1>2

\* The claim is an acquisition, or a transition of a generation of the table;
\* of any other generation it is refused, after the sweep.
LEMMA ClaimIsOwn ==
  ASSUME StoreInv, NEW q, q.owner \in Owner, q.key \in Key, q.conn \in Connection,
         NEW ttl \in RequestedTTL, Claim(q, ttl)
  PROVE  Next
<1>1. CASE ActiveOf(q.owner) = {}
  BY <1>1 DEF Claim, Next
<1>2. CASE ActiveOf(q.owner) # {}
  <2> DEFINE g == PresentedGeneration(q)
  <2>1. Transition(q.owner, g, q.key, q.conn, ttl)
    BY <1>2 DEF Claim
  <2>2. CASE Matching(q.owner, g, q.key) = {}
    BY <2>1, <2>2 DEF Transition, TransitionKind, Reconcile, Next
  <2>3. CASE Matching(q.owner, g, q.key) # {}
    <3>1. PICK i \in Ids : rows[i].gen = g
      BY <2>3 DEF Matching, ActiveOf
    <3>2. g \in 1..MaxRows
      BY <3>1, BoundAssumption DEF StoreInv, LeaseInv, GenerationsBounded, TypeOK, Row, Ids
    <3> HIDE DEF g
    <3> QED
      BY <2>1, <3>2 DEF Next
  <2> QED
    BY <2>2, <2>3
<1> QED
  BY <1>1, <1>2

\* Request p claims in the name of q, on a connection it has selected.
ClaimsFor(p, q) ==
  /\ p.owner = q.owner /\ p.key = q.key /\ p.gen = q.gen /\ p.mode = q.mode
  /\ p.conn \in Connection

\* All that a request asks of the store between two awaits.
Asks(q) ==
  \/ LeaseUnchanged
  \/ Reconcile
  \/ q.mode = "request" /\ Invalidate(q.owner, q.gen, q.key)
  \/ Managed(q) /\ \E p \in RequestState, ttl \in RequestedTTL : ClaimsFor(p, q) /\ Claim(p, ttl)

\* A selection ends with one of the connections.
LEMMA SelectedFits ==
  ASSUME RoutingInv, NEW r \in Request, NEW c \in Choices(r), req[r].pc = "select"
  PROVE  /\ c \in Connection /\ Usable(req[r]) \subseteq Connection
         /\ Selected(req[r], c) \in RequestState /\ Fit(Selected(req[r], c))
         /\ ClaimsFor(Selected(req[r], c), req[r])
<1>1. Usable(req[r]) \subseteq Connection
  BY DEF Usable, Candidates, Open, Accounts, RoutingInv, RoutingTypeOK
<1>2. c \in Connection
  BY <1>1 DEF Choices, AvailablePeers, Preferred
<1>3. req[r] \in RequestState /\ Fit(req[r])
  BY DEF RoutingInv, RoutingTypeOK, RequestsFit
<1> QED
  BY <1>1, <1>2, <1>3 DEF Selected, RequestState, Fit, Managed, ClaimsFor

LEMMA StepAsks ==
  ASSUME RoutingInv, NEW r \in Request, Arrive(r) \/ Step(r)
  PROVE  Asks(req[r])
<1>1. CASE Arrive(r)
  BY <1>1 DEF Arrive, BeginAcquire, BeginManaged, BeginUnmanaged, Begin, Asks
<1>2. CASE Select(r)
  <2>1. CASE SelectNothing(r)
    BY <2>1 DEF SelectNothing, GiveUp, Asks
  <2>2. CASE SelectRefused(r) \/ SelectOne(r) \/ SelectAgain(r)
    BY <2>2 DEF SelectRefused, SelectOne, SelectAgain, Asks
  <2>3. CASE SelectWaits(r)
    BY <2>3 DEF SelectWaits, Asks
  <2> QED
    BY <1>2, <2>1, <2>2, <2>3 DEF Select
<1>3. CASE Commit(r)
  <2>1. req[r] \in RequestState /\ ClaimsFor(req[r], req[r])
    BY <1>3 DEF Commit, RoutingInv, RoutingTypeOK, RequestsFit, Fit, ClaimsFor
  <2> QED
    BY <1>3, <2>1 DEF Commit, Asks
<1>4. CASE SelectAndClaim(r)
  <2>1. PICK c \in Choices(r), ttl \in RequestedTTL : Claim(Selected(req[r], c), ttl)
    BY <1>4 DEF SelectAndClaim
  <2> QED
    BY <1>4, <2>1, SelectedFits DEF SelectAndClaim, Asks
<1>5. CASE DispatchManaged(r)
  BY <1>5 DEF DispatchManaged, Fenced, FencedOff, Asks
<1>6. CASE PreflightBlocked(r) \/ Proceed(r) \/ AcquireReply(r) \/ DispatchUnmanaged(r)
  BY <1>6 DEF PreflightBlocked, Proceed, AcquireReply, DispatchUnmanaged, Asks
<1>7. CASE \/ Redo(r) \/ Reopen(r) \/ TransportRetry(r) \/ EmergencyHop(r)
           \/ Fallback(r) \/ Complete(r)
  BY <1>7 DEF Redo, Reopen, TransportRetry, EmergencyHop, Fallback, Complete, Asks
<1> QED
  BY <1>1, <1>2, <1>3, <1>4, <1>5, <1>6, <1>7 DEF Step

LEMMA AskedIsOwn ==
  ASSUME StoreInv, NEW q, Fit(q), Asks(q)
  PROVE  [Next]_leaseVars
<1>1. CASE LeaseUnchanged
  BY <1>1 DEF LeaseUnchanged
<1>2. CASE Reconcile
  BY <1>2 DEF Next
<1>3. CASE q.mode = "request" /\ Invalidate(q.owner, q.gen, q.key)
  BY <1>3, InvalidateIsOwn DEF Fit, Managed
<1>4. ASSUME Managed(q), NEW p \in RequestState, NEW ttl \in RequestedTTL,
             ClaimsFor(p, q), Claim(p, ttl)
      PROVE  Next
  BY <1>4, ClaimIsOwn DEF Fit, ClaimsFor
<1> QED
  BY <1>1, <1>2, <1>3, <1>4 DEF Asks

\* Whatever happens above the store is one of its transactions, or none.
LEMMA StoreStep ==
  ASSUME RoutingInv, [RoutingNext]_vars
  PROVE  [Next]_leaseVars
<1>1. ASSUME NEW r \in Request, Arrive(r) \/ Step(r)
      PROVE  [Next]_leaseVars
  BY <1>1, StepAsks, AskedIsOwn DEF RoutingInv, RequestsFit
<1>2. ASSUME NEW o \in Owner, Client(o)
      PROVE  [Next]_leaseVars
  BY <1>2, RenewIsOwn, ReleaseIsOwn
     DEF RoutingInv, Client, ClientRenew, ClientRelease, ClientCrash, LeaseUnchanged
<1>3. CASE \E c \in Connection : Recover(c)
  BY <1>3 DEF Recover, LeaseUnchanged
<1>4. CASE \E x \in leaked : ReservationLapses(x)
  BY <1>4 DEF ReservationLapses, LeaseUnchanged
<1>5. CASE ClockTick
  BY <1>5 DEF ClockTick, Next
<1>6. CASE UNCHANGED vars
  BY <1>6 DEF vars, leaseVars
<1> QED
  BY <1>1, <1>2, <1>3, <1>4, <1>5, <1>6 DEF RoutingNext

-----------------------------------------------------------------------------
\* What becomes of the request.

\* Slot r goes on with a well-formed request.
Goes(r) == \E p \in RequestState : Fit(p) /\ Goto(r, p)

LEMMA IdleFits == Idle \in RequestState /\ Fit(Idle)
<1> DEFINE n == NewRequest("unmanaged", None, None, 0)
<1>1. n \in RequestState /\ n.mode = "unmanaged" /\ ~n.reserved
  BY RoutingAssumption DEF NewRequest, RequestState
<1>2. Idle = [n EXCEPT !.pc = "idle"]
  BY DEF Idle
<1> HIDE DEF n
<1> QED
  BY <1>1, <1>2 DEF RequestState, Fit, Managed

LEMMA FinishGoes ==
  ASSUME NEW r \in Request, Finish(r)
  PROVE  Goes(r)
BY IdleFits DEF Finish, Goes

\* A refused hop resumes the request it came from, on that one's connection.
LEMMA RefuseGoes ==
  ASSUME RoutingInv, NEW r \in Request, Refuse(r)
  PROVE  Goes(r)
<1>1. req[r] \in RequestState /\ Fit(req[r])
  BY DEF RoutingInv, RoutingTypeOK, RequestsFit
<1>2. CASE req[r].outer = None
  BY <1>2, FinishGoes DEF Refuse
<1>3. CASE req[r].outer # None
  <2>1. req[r].outer \in Suspended
    BY <1>1, <1>3 DEF RequestState
  <2>2. Resumed(req[r]) \in RequestState /\ Fit(Resumed(req[r]))
    BY <1>1, <2>1 DEF Resumed, Suspended, RequestState, Fit, Managed
  <2> QED
    BY <1>3, <2>2 DEF Refuse, Goes
<1> QED
  BY <1>2, <1>3

LEMMA ArriveGoes ==
  ASSUME RoutingInv, NEW r \in Request, Arrive(r)
  PROVE  Goes(r) /\ req[r].mode = "unmanaged"
<1>1. req[r].mode = "unmanaged"
  BY DEF Arrive, BeginAcquire, BeginManaged, BeginUnmanaged, Begin, RoutingInv, RequestsFit, Fit
<1>2. ASSUME NEW mode \in {"acquire", "request"}, NEW o \in Owner, NEW k \in Key, NEW g \in Nat
      PROVE  NewRequest(mode, o, k, g) \in RequestState /\ Fit(NewRequest(mode, o, k, g))
  BY RoutingAssumption DEF NewRequest, RequestState, Fit, Managed
<1>3. NewRequest("unmanaged", None, None, 0) \in RequestState
      /\ Fit(NewRequest("unmanaged", None, None, 0))
  BY RoutingAssumption DEF NewRequest, RequestState, Fit, Managed
<1>4. \A o \in Owner : known[o] \in Nat
  BY DEF RoutingInv, RoutingTypeOK
<1>5. ASSUME NEW o \in Owner, NEW k \in Key, BeginAcquire(r, o, k) \/ BeginManaged(r, o, k)
      PROVE  Goes(r)
  BY <1>2, <1>4, <1>5 DEF BeginAcquire, BeginManaged, Begin, Goes
<1>6. ASSUME BeginUnmanaged(r)
      PROVE  Goes(r)
  BY <1>3, <1>6 DEF BeginUnmanaged, Begin, Goes
<1> QED
  BY <1>1, <1>5, <1>6 DEF Arrive

\* Whatever a request excludes on its way back to selection is a connection.
LEMMA NewSelectionFits ==
  ASSUME NEW q \in RequestState, Fit(q)
  PROVE  /\ NewSelection(q) \in RequestState /\ Fit(NewSelection(q))
         /\ q.conn \in Connection => PassOver(q) \in RequestState /\ Fit(PassOver(q))
<1>1. NewSelection(q) \in RequestState /\ Fit(NewSelection(q))
  BY DEF NewSelection, RequestState, Fit, Managed
<1>2. NewSelection(q).passed = q.passed
  BY DEF NewSelection, RequestState
<1>3. ASSUME q.conn \in Connection
      PROVE  PassOver(q) \in RequestState /\ Fit(PassOver(q))
  BY <1>1, <1>2, <1>3 DEF PassOver, RequestState, Fit, Managed
<1> QED
  BY <1>1, <1>3

LEMMA SparingFits ==
  ASSUME NEW q \in RequestState, Fit(q), q.conn \in Connection
  PROVE  Sparing(q) \in RequestState /\ Fit(Sparing(q)) /\ Sparing(q).conn = q.conn
BY DEF Sparing, RequestState, Fit, Managed

LEMMA SelectGoes ==
  ASSUME RoutingInv, NEW r \in Request, Select(r)
  PROVE  Goes(r)
<1> DEFINE q == req[r]
<1>1. q \in RequestState /\ Fit(q) /\ q.pc = "select"
  BY DEF RoutingInv, RoutingTypeOK, RequestsFit, Select
<1>2. ASSUME WaitForCooldown(r)
      PROVE  Goes(r)
  <2> DEFINE p == [q EXCEPT !.tried = {}, !.passed = {}, !.pool = Connection, !.waits = @ + 1]
  <2>1. q.waits + 1 \in 0..MaxWaits
    BY <1>1, <1>2, RoutingAssumption DEF WaitForCooldown, RequestState
  <2>2. p \in RequestState /\ Fit(p)
    BY <1>1, <2>1 DEF RequestState, Fit, Managed
  <2>3. Goto(r, p)
    BY <1>2 DEF WaitForCooldown
  <2> QED
    BY <2>2, <2>3 DEF Goes
<1>3. ASSUME SelectOne(r)
      PROVE  Goes(r)
  <2>1. PICK c \in Choices(r) :
          Goto(r, [Selected(q, c) EXCEPT !.pc = "preflight",
                                         !.pool = IF Managed(q) THEN Usable(q) ELSE @])
    BY <1>3 DEF SelectOne
  <2> DEFINE s == Selected(q, c)
  <2>2. s \in RequestState /\ Fit(s) /\ s.conn \in Connection /\ Usable(q) \subseteq Connection
    BY <1>1, SelectedFits DEF ClaimsFor
  <2> HIDE DEF s
  <2> DEFINE p == [s EXCEPT !.pc = "preflight", !.pool = IF Managed(q) THEN Usable(q) ELSE @]
  <2>3. p \in RequestState /\ Fit(p)
    BY <2>2 DEF RequestState, Fit, Managed
  <2> QED
    BY <2>1, <2>3 DEF Goes, s
<1>4. ASSUME SelectAgain(r)
      PROVE  Goes(r)
  <2> DEFINE p == [q EXCEPT !.pool = Connection]
  <2>1. p \in RequestState /\ Fit(p)
    BY <1>1 DEF RequestState, Fit, Managed
  <2> QED
    BY <1>4, <2>1 DEF SelectAgain, Goes
<1> QED
  BY <1>2, <1>3, <1>4, RefuseGoes DEF Select, SelectNothing, SelectRefused, SelectWaits

LEMMA ClaimedGenerationIsNat ==
  ASSUME StoreInv, NEW q \in RequestState, Fit(q), Managed(q)
  PROVE  ClaimedGeneration(q) \in Nat
<1>1. LastGeneration(q.owner) \in Nat
  BY LastGenerationIsLast DEF StoreInv, LeaseInv, Fit
<1> QED
  BY <1>1 DEF ClaimedGeneration, NextGeneration, RequestState

LEMMA ClaimedGoes ==
  ASSUME RoutingInv, NEW r \in Request, NEW q \in RequestState, Fit(q), Managed(q),
         q.conn \in Connection, Claimed(r, q)
  PROVE  /\ Goes(r)
         /\ leaked' \subseteq OAuth \X Owner
         /\ invited' \subseteq Owner \X Nat
<1>1. ClaimedGeneration(q) \in Nat /\ q.owner \in Owner
  BY ClaimedGenerationIsNat DEF RoutingInv, Fit
<1>2. leaked \subseteq OAuth \X Owner /\ invited \subseteq Owner \X Nat
  BY DEF RoutingInv, RoutingTypeOK
<1>3. Won(q) \in RequestState /\ Fit(Won(q))
  BY DEF Won, RequestState, Fit, Managed
<1> DEFINE p == [Won(q) EXCEPT !.gen = ClaimedGeneration(q)]
<1>4. p \in RequestState /\ Fit(p)
  BY <1>1, <1>3 DEF RequestState, Fit, Managed
<1>5. Goes(r)
  BY <1>4 DEF Claimed, Goes
<1>6. <<q.owner, ClaimedGeneration(q)>> \in Owner \X Nat
  BY <1>1
<1> QED
  BY <1>2, <1>5, <1>6 DEF Claimed

LEMMA CommitGoes ==
  ASSUME RoutingInv, NEW r \in Request, Commit(r)
  PROVE  /\ Goes(r)
         /\ leaked' \subseteq OAuth \X Owner
         /\ invited' \subseteq Owner \X Nat
<1> DEFINE q == req[r]
<1>1. q \in RequestState /\ Fit(q) /\ q.pc = "preflight" /\ Managed(q)
  BY DEF RoutingInv, RoutingTypeOK, RequestsFit, Commit
<1>2. q.conn \in Connection /\ q.owner \in Owner
  BY <1>1 DEF Fit
<1>3. leaked \subseteq OAuth \X Owner /\ invited \subseteq Owner \X Nat
  BY DEF RoutingInv, RoutingTypeOK
<1>4. CASE CommitLost(r)
  BY <1>1, <1>2, <1>3, <1>4, NewSelectionFits DEF CommitLost, Goes
<1>5. CASE CommitStale(r)
  <2>1. q.reserved => <<q.conn, q.owner>> \in OAuth \X Owner
    BY <1>1, <1>2 DEF Fit
  <2> QED
    BY <1>3, <1>5, <2>1, RefuseGoes DEF CommitStale
<1>6. CASE Claimed(r, q)
  BY <1>1, <1>2, <1>6, ClaimedGoes
<1> QED
  BY <1>4, <1>5, <1>6 DEF Commit

LEMMA SelectAndClaimGoes ==
  ASSUME RoutingInv, NEW r \in Request, SelectAndClaim(r)
  PROVE  /\ Goes(r)
         /\ leaked' \subseteq OAuth \X Owner
         /\ invited' \subseteq Owner \X Nat
<1>1. PICK c \in Choices(r) : Claimed(r, Selected(req[r], c))
  BY DEF SelectAndClaim
<1> DEFINE q == Selected(req[r], c)
<1>2. q \in RequestState /\ Fit(q) /\ ClaimsFor(q, req[r])
  BY SelectedFits DEF SelectAndClaim
<1>3. Managed(q) /\ q.conn \in Connection
  BY <1>2 DEF SelectAndClaim, ClaimsFor, Managed
<1> HIDE DEF q
<1> QED
  BY <1>1, <1>2, <1>3, ClaimedGoes DEF q

\* An await that ends without a selection or a claim.
LEMMA OtherGoes ==
  ASSUME RoutingInv, NEW r \in Request,
         \/ PreflightBlocked(r) \/ Proceed(r) \/ AcquireReply(r)
         \/ DispatchManaged(r) \/ DispatchUnmanaged(r)
  PROVE  Goes(r)
<1> DEFINE q == req[r]
<1>1. q \in RequestState /\ Fit(q)
  BY DEF RoutingInv, RoutingTypeOK, RequestsFit
<1>2. CASE PreflightBlocked(r)
  <2>1. q.conn \in Connection /\ Goto(r, PassOver(q))
    BY <1>1, <1>2 DEF PreflightBlocked, Fit
  <2> QED
    BY <1>1, <2>1, NewSelectionFits DEF Goes
<1>3. CASE Proceed(r)
  <2>1. Won(q) \in RequestState /\ Fit(Won(q))
    BY <1>1, <1>3 DEF Proceed, Won, RequestState, Fit, Managed
  <2> QED
    BY <1>3, <2>1 DEF Proceed, Goes
<1>4. CASE DispatchUnmanaged(r) \/ (DispatchManaged(r) /\ Fenced(r))
  <2>1. q.pc = "claimed" /\ Goto(r, [q EXCEPT !.pc = "inflight"])
    BY <1>4 DEF DispatchUnmanaged, DispatchManaged, Fenced
  <2>2. [q EXCEPT !.pc = "inflight"] \in RequestState /\ Fit([q EXCEPT !.pc = "inflight"])
    BY <1>1, <2>1 DEF RequestState, Fit, Managed
  <2> QED
    BY <2>1, <2>2 DEF Goes
<1>5. CASE AcquireReply(r) \/ (DispatchManaged(r) /\ FencedOff(r))
  BY <1>5, FinishGoes, RefuseGoes DEF AcquireReply, FencedOff
<1> QED
  BY <1>2, <1>3, <1>4, <1>5 DEF DispatchManaged

\* A dispatch that has failed, or is answered.
LEMMA AnswerGoes ==
  ASSUME RoutingInv, NEW r \in Request,
         \/ Redo(r) \/ Reopen(r) \/ TransportRetry(r) \/ EmergencyHop(r)
         \/ Fallback(r) \/ Complete(r)
  PROVE  Goes(r)
<1> DEFINE q == req[r]
<1>1. q \in RequestState /\ Fit(q) /\ q.pc \in {"claimed", "inflight", "failed"}
  BY DEF RoutingInv, RoutingTypeOK, RequestsFit, Redo, Reopen, TransportRetry, EmergencyHop,
         Fallback, Complete, Dispatching
<1>2. q.conn \in Connection
  BY <1>1 DEF Fit
<1> DEFINE n == NewSelection(q)
<1>3. n \in RequestState /\ Fit(n) /\ n.pc = "select"
  BY <1>1, NewSelectionFits DEF NewSelection, RequestState
<1> HIDE DEF n
<1>4. CASE Redo(r)
  <2> DEFINE p == [q EXCEPT !.pc = "claimed", !.redone = TRUE]
  <2>1. p \in RequestState /\ Fit(p)
    BY <1>1, <1>2 DEF RequestState, Fit, Managed
  <2> QED
    BY <1>4, <2>1 DEF Redo, Goes
<1>5. CASE Reopen(r)
  <2> DEFINE p == [n EXCEPT !.reopened = TRUE]
  <2>1. p \in RequestState /\ Fit(p)
    BY <1>3 DEF RequestState, Fit, Managed
  <2> QED
    BY <1>5, <2>1 DEF Reopen, Goes, n
<1>6. CASE TransportRetry(r)
  <2> DEFINE s == Sparing(q)
  <2>1. s \in RequestState /\ Fit(s) /\ s.conn \in Connection
    BY <1>1, <1>2, SparingFits
  <2> HIDE DEF s
  <2> DEFINE p == [s EXCEPT !.pc = "claimed", !.reserved = FALSE, !.redone = FALSE]
  <2>2. p \in RequestState /\ Fit(p)
    BY <2>1 DEF RequestState, Fit, Managed
  <2>3. NewSelection(s) \in RequestState /\ Fit(NewSelection(s))
    BY <2>1, NewSelectionFits
  <2> QED
    BY <1>6, <2>2, <2>3 DEF TransportRetry, Goes, s
<1>7. CASE EmergencyHop(r)
  <2> DEFINE o == [conn |-> q.conn, tried |-> q.tried, reopened |-> q.reopened]
             h == [n EXCEPT !.tried = {}, !.reopened = FALSE, !.outer = o]
             p == [q EXCEPT !.pc = "failed", !.reserved = FALSE, !.redone = FALSE]
  <2>1. o \in Suspended
    BY <1>1, <1>2 DEF Suspended, RequestState
  <2> HIDE DEF o
  <2>2. h \in RequestState /\ Fit(h)
    BY <1>3, <2>1 DEF RequestState, Fit, Managed
  <2>3. p \in RequestState /\ Fit(p)
    BY <1>1, <1>2 DEF RequestState, Fit, Managed
  <2> QED
    BY <1>7, <2>2, <2>3 DEF EmergencyHop, Goes, n, o
<1>8. CASE Fallback(r)
  <2> DEFINE p == [n EXCEPT !.tried = @ \union {q.conn}]
  <2>1. p \in RequestState /\ Fit(p)
    BY <1>2, <1>3 DEF RequestState, Fit, Managed
  <2> QED
    BY <1>8, <2>1 DEF Fallback, Goes, n
<1>9. CASE Complete(r)
  BY <1>9, FinishGoes, RefuseGoes DEF Complete
<1> QED
  BY <1>4, <1>5, <1>6, <1>7, <1>8, <1>9

LEMMA StepGoes ==
  ASSUME RoutingInv, NEW r \in Request, Arrive(r) \/ Step(r)
  PROVE  Goes(r)
BY ArriveGoes, SelectGoes, CommitGoes, SelectAndClaimGoes, OtherGoes, AnswerGoes DEF Step

-----------------------------------------------------------------------------
\* The invariant.

LEMMA GoesKeepsRequests ==
  ASSUME RoutingInv, NEW r \in Request, Goes(r)
  PROVE  req' \in [Request -> RequestState] /\ RequestsFit'
<1>1. PICK p \in RequestState : Fit(p) /\ req' = [req EXCEPT ![r] = p]
  BY DEF Goes, Goto
<1>2. req \in [Request -> RequestState] /\ \A x \in Request : Fit(req[x])
  BY DEF RoutingInv, RoutingTypeOK, RequestsFit
<1>3. \A x \in Request : Fit(req'[x])
  BY <1>1, <1>2
<1>4. RequestsFit'
  BY <1>3 DEF RequestsFit, Fit, Managed
<1> QED
  BY <1>1, <1>2, <1>4

\* The rows of the table stay, with whose and on what they are.
LEMMA RowsStay ==
  ASSUME StoreInv, [Next]_leaseVars
  PROVE  /\ Ids \subseteq Ids'
         /\ \A i \in Ids : rows'[i].owner = rows[i].owner /\ rows'[i].conn = rows[i].conn
                           /\ rows'[i].gen = rows[i].gen
<1> USE DEF StoreInv, LeaseInv
<1>1. CASE UNCHANGED <<rows, lastId>>
  BY <1>1 DEF Ids
<1>2. CASE lastId' = lastId /\ Lapse(rows')
  BY <1>2, LapseKeeps DEF Ids
<1>3. ASSUME NEW t, NEW r, Lapse(t), Insert(t, r)
      PROVE  /\ Ids \subseteq Ids'
             /\ \A i \in Ids : rows'[i].owner = rows[i].owner /\ rows'[i].conn = rows[i].conn
                               /\ rows'[i].gen = rows[i].gen
  BY <1>3, InsertAppends, LapseKeeps
<1> QED
  BY <1>1, <1>2, <1>3, StepShape DEF Shape

LEMMA RecordsStay ==
  ASSUME RoutingInv, [Next]_leaseVars, UNCHANGED <<lastRow, lastGen>>
  PROVE  DispatchesRecorded'
<1>1. /\ Ids \subseteq Ids'
      /\ \A i \in Ids : rows'[i].owner = rows[i].owner /\ rows'[i].conn = rows[i].conn
                        /\ rows'[i].gen = rows[i].gen
  BY RowsStay DEF RoutingInv
<1>2. \A o \in Owner : Generations(o) \subseteq Generations(o)'
  BY <1>1 DEF Generations
<1> QED
  BY <1>1, <1>2 DEF RoutingInv, DispatchesRecorded

\* A dispatch the fence lets through is covered by the one live row of its
\* owner, on its connection and of its generation; so no row on that connection
\* and no generation of that owner is later.
LEMMA FenceIsLatest ==
  ASSUME StoreInv, NEW o \in Owner, NEW g, NEW k, NEW c \in Connection,
         FenceKind(o, g, k, c) = "VALID", NEW i \in ActiveOf(o)
  PROVE  /\ i \in Ids /\ rows[i].owner = o /\ rows[i].gen = g /\ rows[i].conn = c
         /\ \A j \in Ids : rows[j].conn = c => j <= i
         /\ \A h \in Generations(o) : h <= g
<1> DEFINE m == CHOOSE j \in ActiveOf(o) : TRUE
<1>1. i \in Ids /\ rows[i].state = "ACTIVE" /\ rows[i].owner = o
  BY DEF ActiveOf, Live
<1>2. m \in ActiveOf(o)
  OBVIOUS
<1>3. m \in Ids /\ rows[m].state = "ACTIVE" /\ rows[m].owner = o
  BY <1>2 DEF ActiveOf, Live
<1>4. rows[m].gen = g /\ rows[m].conn = c
  BY DEF FenceKind
<1> HIDE DEF m
<1>5. m = i
  BY <1>1, <1>3 DEF StoreInv, LeaseInv, ActiveUnique
<1>6. \A j \in Ids : rows[j].conn = c => j <= i
  BY <1>1, <1>4, <1>5 DEF StoreInv, ActiveIsLastOnConnection
<1>7. ASSUME NEW h \in Generations(o)
      PROVE  h <= g
  <2>1. CASE h = 0
    BY <1>1, <1>4, <1>5, <2>1 DEF StoreInv, LeaseInv, TypeOK, Row
  <2>2. ASSUME NEW j \in Ids, rows[j].owner = o, h = rows[j].gen
        PROVE  h <= g
    BY <1>1, <1>4, <1>5, <2>2 DEF StoreInv, LeaseInv, ActiveIsNewest
  <2> QED
    BY <2>1, <2>2 DEF Generations
<1> QED
  BY <1>1, <1>4, <1>5, <1>6, <1>7

\* What a dispatch records, and that it comes after the dispatches before it.
LEMMA FencedRecords ==
  ASSUME RoutingInv, NEW r \in Request, DispatchManaged(r), Fenced(r)
  PROVE  /\ lastRow' \in [Connection -> Nat] /\ lastGen' \in [Owner -> Nat]
         /\ DispatchesRecorded'
         /\ \A c \in Connection : lastRow'[c] >= lastRow[c]
         /\ \A o \in Owner : lastGen'[o] >= lastGen[o]
<1> DEFINE q == req[r]
<1>1. /\ q.owner \in Owner /\ q.conn \in Connection /\ q.gen \in Nat
  BY DEF RoutingInv, RoutingTypeOK, RequestsFit, RequestState, Fit, Managed, DispatchManaged
<1>2. PICK i \in ActiveOf(q.owner) : lastRow' = [lastRow EXCEPT ![q.conn] = i]
  BY DEF Fenced
<1>3. lastGen' = [lastGen EXCEPT ![q.owner] = q.gen]
  BY DEF Fenced
<1>4. /\ i \in Ids /\ rows[i].owner = q.owner /\ rows[i].gen = q.gen /\ rows[i].conn = q.conn
      /\ \A j \in Ids : rows[j].conn = q.conn => j <= i
      /\ \A h \in Generations(q.owner) : h <= q.gen
  BY <1>1, <1>2, FenceIsLatest DEF Fenced, RoutingInv
<1>5. i \in Nat /\ i # 0 /\ q.gen \in Generations(q.owner)
  BY <1>4 DEF Ids, Generations
<1>6. /\ lastRow \in [Connection -> Nat] /\ lastGen \in [Owner -> Nat]
      /\ \A c \in Connection : lastRow[c] # 0 => lastRow[c] \in Ids /\ rows[lastRow[c]].conn = c
      /\ \A o \in Owner : lastGen[o] \in Generations(o)
  BY DEF RoutingInv, RoutingTypeOK, DispatchesRecorded
<1>7. /\ Ids' = Ids /\ rows' \in [Ids -> Row]
      /\ \A j \in Ids : rows'[j].owner = rows[j].owner /\ rows'[j].conn = rows[j].conn
                        /\ rows'[j].gen = rows[j].gen
  BY ExpiredLapses, LapseKeeps
     DEF Fenced, Reconcile, OnlyRows, Ids, RoutingInv, StoreInv, LeaseInv, Lapse
<1>8. \A o \in Owner : Generations(o)' = Generations(o)
  BY <1>7 DEF Generations
<1> HIDE DEF q
<1>9. lastRow' \in [Connection -> Nat] /\ lastGen' \in [Owner -> Nat]
  BY <1>1, <1>2, <1>3, <1>5, <1>6
<1>10. \A c \in Connection : lastRow'[c] # 0 => lastRow'[c] \in Ids' /\ rows'[lastRow'[c]].conn = c
  BY <1>1, <1>2, <1>4, <1>6, <1>7
<1>11. \A o \in Owner : lastGen'[o] \in Generations(o)'
  BY <1>1, <1>3, <1>5, <1>6, <1>8
<1>12. \A c \in Connection : lastRow'[c] >= lastRow[c]
  BY <1>1, <1>2, <1>4, <1>5, <1>6
<1>13. \A o \in Owner : lastGen'[o] >= lastGen[o]
  <2>1. Generations(q.owner) \subseteq Nat
    BY DEF RoutingInv, StoreInv, LeaseInv, TypeOK, Generations, Row
  <2> QED
    BY <1>1, <1>3, <1>4, <1>6, <2>1
<1> QED
  BY <1>9, <1>10, <1>11, <1>12, <1>13 DEF DispatchesRecorded

\* Every other step leaves the records of dispatches alone.
LEMMA OnlyDispatchesRecord ==
  ASSUME [RoutingNext]_vars
  PROVE  \/ UNCHANGED <<lastRow, lastGen>>
         \/ \E r \in Request : DispatchManaged(r) /\ Fenced(r)
<1>1. ASSUME NEW r \in Request, Arrive(r) \/ Step(r), ~(DispatchManaged(r) /\ Fenced(r))
      PROVE  UNCHANGED <<lastRow, lastGen>>
  <2>1. CASE Arrive(r)
    BY <2>1 DEF Arrive, BeginAcquire, BeginManaged, BeginUnmanaged, Begin, HistoryUnchanged
  <2>2. CASE \/ Select(r) \/ PreflightBlocked(r) \/ Commit(r) \/ SelectAndClaim(r)
             \/ Proceed(r) \/ AcquireReply(r)
    BY <2>2 DEF Select, PreflightBlocked, Commit, SelectAndClaim, Proceed, AcquireReply,
                HistoryUnchanged
  <2>3. CASE DispatchManaged(r)
    BY <1>1, <2>3 DEF DispatchManaged, FencedOff
  <2>4. CASE \/ DispatchUnmanaged(r) \/ Redo(r) \/ Reopen(r) \/ TransportRetry(r)
             \/ EmergencyHop(r) \/ Fallback(r) \/ Complete(r)
    BY <2>4 DEF DispatchUnmanaged, Redo, Reopen, TransportRetry, EmergencyHop, Fallback, Complete,
                HistoryUnchanged
  <2> QED
    BY <1>1, <2>1, <2>2, <2>3, <2>4 DEF Step
<1>2. ASSUME NEW o \in Owner, Client(o)
      PROVE  UNCHANGED <<lastRow, lastGen>>
  BY <1>2 DEF Client, ClientRenew, ClientRelease, ClientCrash, HistoryUnchanged
<1>3. CASE \E c \in Connection : Recover(c)
  BY <1>3 DEF Recover, HistoryUnchanged
<1>4. CASE \E x \in leaked : ReservationLapses(x)
  BY <1>4 DEF ReservationLapses, HistoryUnchanged
<1>5. CASE ClockTick \/ UNCHANGED vars
  BY <1>5 DEF ClockTick, routingVars, vars
<1> QED
  BY <1>1, <1>2, <1>3, <1>4, <1>5 DEF RoutingNext

\* A step keeps requests and the bookkeeping around them well formed.
LEMMA RoutingTypeStep ==
  ASSUME RoutingInv, [RoutingNext]_vars
  PROVE  /\ req' \in [Request -> RequestState] /\ RequestsFit'
         /\ budget' \in 0..MaxRequests /\ eligible' \subseteq Connection
         /\ leaked' \subseteq OAuth \X Owner /\ known' \in [Owner -> Nat]
         /\ invited' \subseteq Owner \X Nat
<1> USE DEF RoutingInv, RoutingTypeOK
<1>1. ASSUME NEW r \in Request, Arrive(r) \/ Step(r)
      PROVE  req' \in [Request -> RequestState] /\ RequestsFit'
  BY <1>1, StepGoes, GoesKeepsRequests
<1>2. ASSUME NEW r \in Request, Arrive(r)
      PROVE  budget' \in 0..MaxRequests /\ UNCHANGED <<eligible, leaked, known, invited>>
  BY <1>2, RoutingAssumption
     DEF Arrive, BeginAcquire, BeginManaged, BeginUnmanaged, Begin, HistoryUnchanged
<1>3. ASSUME NEW r \in Request,
             \/ Select(r) \/ Proceed(r) \/ DispatchUnmanaged(r) \/ Redo(r) \/ Reopen(r)
             \/ TransportRetry(r) \/ EmergencyHop(r) \/ Complete(r)
      PROVE  UNCHANGED <<budget, eligible, leaked, known, invited>>
  BY <1>3 DEF Select, Proceed, DispatchUnmanaged, Redo, Reopen, TransportRetry, EmergencyHop,
              Complete, HistoryUnchanged
<1>4. ASSUME NEW r \in Request, PreflightBlocked(r) \/ Fallback(r)
      PROVE  eligible' \subseteq Connection /\ UNCHANGED <<budget, leaked, known, invited>>
  BY <1>4 DEF PreflightBlocked, Fallback, HistoryUnchanged
<1>5. ASSUME NEW r \in Request, Commit(r) \/ SelectAndClaim(r)
      PROVE  /\ leaked' \subseteq OAuth \X Owner /\ invited' \subseteq Owner \X Nat
             /\ UNCHANGED <<budget, eligible, known>>
  BY <1>5, CommitGoes, SelectAndClaimGoes DEF Commit, SelectAndClaim
<1>6. ASSUME NEW r \in Request, DispatchManaged(r)
      PROVE  UNCHANGED <<budget, eligible, leaked, known, invited>>
  BY <1>6 DEF DispatchManaged
<1>7. ASSUME NEW r \in Request, AcquireReply(r)
      PROVE  known' \in [Owner -> Nat] /\ UNCHANGED <<budget, eligible, leaked, invited>>
  <2>1. req[r].gen \in Nat
    BY DEF RequestState
  <2> QED
    BY <1>7, <2>1 DEF AcquireReply, HistoryUnchanged
<1>8. ASSUME NEW o \in Owner, Client(o)
      PROVE  known' \in [Owner -> Nat] /\ UNCHANGED <<req, budget, eligible, leaked, invited>>
  BY <1>8 DEF Client, ClientRenew, ClientRelease, ClientCrash, HistoryUnchanged
<1>9. ASSUME NEW c \in Connection, Recover(c)
      PROVE  eligible' \subseteq Connection /\ UNCHANGED <<req, budget, leaked, known, invited>>
  BY <1>9 DEF Recover, HistoryUnchanged
<1>10. ASSUME NEW x \in leaked, ReservationLapses(x)
       PROVE  leaked' \subseteq leaked /\ UNCHANGED <<req, budget, eligible, known, invited>>
  BY <1>10 DEF ReservationLapses, HistoryUnchanged
<1>11. CASE ClockTick \/ UNCHANGED vars
  BY <1>11 DEF ClockTick, routingVars, vars, RequestsFit, Fit, Managed
<1>12. UNCHANGED req => RequestsFit'
  BY DEF RequestsFit, Fit, Managed
<1>13. ASSUME NEW r \in Request, Step(r)
       PROVE  /\ budget' \in 0..MaxRequests /\ eligible' \subseteq Connection
              /\ leaked' \subseteq OAuth \X Owner /\ known' \in [Owner -> Nat]
              /\ invited' \subseteq Owner \X Nat
  BY <1>3, <1>4, <1>5, <1>6, <1>7, <1>13 DEF Step
<1>14. ASSUME NEW r \in Request, Arrive(r) \/ Step(r)
       PROVE  /\ budget' \in 0..MaxRequests /\ eligible' \subseteq Connection
              /\ leaked' \subseteq OAuth \X Owner /\ known' \in [Owner -> Nat]
              /\ invited' \subseteq Owner \X Nat
  BY <1>2, <1>13, <1>14
<1> QED
  BY <1>1, <1>8, <1>9, <1>10, <1>11, <1>12, <1>14 DEF RoutingNext

LEMMA RoutingInitial == Init => RoutingInv
<1> SUFFICES ASSUME Init PROVE RoutingInv
  OBVIOUS
<1>1. LeaseInv /\ Ids = {} /\ lastId = 0
  BY InitEstablishes DEF Init, LeaseInit, Ids
<1>2. StoreInv
  BY <1>1, BoundAssumption DEF StoreInv, GenerationsBounded, ActiveIsLastOnConnection
<1>3. RequestsFit
  BY IdleFits DEF Init, RequestsFit
<1>4. RoutingTypeOK
  BY <1>1, IdleFits, RoutingAssumption DEF Init, RoutingTypeOK, LeaseInv
<1>5. DispatchesRecorded
  BY DEF Init, DispatchesRecorded, Generations
<1> QED
  BY <1>2, <1>3, <1>4, <1>5 DEF RoutingInv

LEMMA RoutingInvStep ==
  ASSUME RoutingInv, [RoutingNext]_vars
  PROVE  RoutingInv'
<1>1. [Next]_leaseVars
  BY StoreStep
<1>2. StoreInv'
  BY <1>1, StoreInvStep DEF RoutingInv
<1>3. /\ lastRow' \in [Connection -> Nat] /\ lastGen' \in [Owner -> Nat]
      /\ DispatchesRecorded'
  <2>1. CASE UNCHANGED <<lastRow, lastGen>>
    BY <1>1, <2>1, RecordsStay DEF RoutingInv, RoutingTypeOK
  <2>2. CASE \E r \in Request : DispatchManaged(r) /\ Fenced(r)
    BY <2>2, FencedRecords
  <2> QED
    BY <2>1, <2>2, OnlyDispatchesRecord
<1> QED
  BY <1>2, <1>3, RoutingTypeStep DEF RoutingInv, RoutingTypeOK, StoreInv, LeaseInv

-----------------------------------------------------------------------------
\* The theorems.

\* Every behaviour of clients, requests and connection health keeps the
\* inductive invariant.
THEOREM RoutingInvariant == RoutingSpec => []RoutingInv
BY RoutingInitial, RoutingInvStep, PTL DEF RoutingSpec

\* Requests and their bookkeeping are well formed at every await.
THEOREM RoutingTypeCorrect == RoutingSpec => []RoutingTypeOK
<1>1. RoutingInv => RoutingTypeOK
  BY DEF RoutingInv
<1> QED
  BY <1>1, RoutingInvariant, PTL

\* The store below the requests behaves as the store alone.
LEMMA StoreBelow == RoutingSpec => Spec
<1>1. Init => LeaseInit
  BY DEF Init
<1>2. RoutingInv /\ [RoutingNext]_vars => [Next]_leaseVars
  BY StoreStep
<1> QED
  BY <1>1, <1>2, RoutingInvariant, PTL DEF RoutingSpec, Spec

\* So what is proved of the store alone holds of it under any load of requests:
\* no two owners share a connection, and no fence token comes back.
THEOREM ExclusiveUnderRequests ==
  RoutingSpec => []ActiveUnique /\ GenerationNeverReturns
BY StoreBelow, Exclusive, NeverReturns, PTL

\* So do tenancies under any load of requests what the registry promises: one
\* connection per owner and one owner per connection, a new generation for every
\* tenancy, which ends at its deadline although rows expire lazily and requests
\* act on what they read before an await.
THEOREM RegistryUnderRequests == RoutingSpec => ImplementsRegistry
BY StoreBelow, Refinement, PTL

\* A request touches no live lease of another owner or another generation.
THEOREM StaleHarmless == RoutingSpec => StaleRequestIsHarmless
<1>1. RoutingInv /\ [RoutingNext]_vars
      => [\A r \in Request, i \in Ids :
            /\ req'[r] # req[r] /\ req[r].mode = "request"
            /\ Live(i)
            /\ rows[i].owner # req[r].owner \/ rows[i].gen # req[r].gen
            => rows'[i] = rows[i]]_vars
  <2> SUFFICES ASSUME RoutingInv, [RoutingNext]_vars, NEW r \in Request, NEW i \in Ids,
                      req'[r] # req[r], req[r].mode = "request", Live(i),
                      rows[i].owner # req[r].owner \/ rows[i].gen # req[r].gen
               PROVE  rows'[i] = rows[i]
    OBVIOUS
  <2> DEFINE q == req[r]
  <2>1. Step(r)
    <3>1. ASSUME NEW x \in Request, Arrive(x) \/ Step(x)
          PROVE  x = r
      <4>1. Goes(x)
        BY <3>1, StepGoes
      <4> QED
        BY <4>1 DEF Goes, Goto, RoutingInv, RoutingTypeOK
    <3>2. ~Arrive(r)
      BY ArriveGoes
    <3>3. \A o \in Owner : ~Client(o)
      BY DEF Client, ClientRenew, ClientRelease, ClientCrash
    <3>4. \A c \in Connection : ~Recover(c)
      BY DEF Recover
    <3>5. \A x \in leaked : ~ReservationLapses(x)
      BY DEF ReservationLapses
    <3>6. ~ClockTick /\ ~UNCHANGED vars
      BY DEF ClockTick, routingVars, vars
    <3> QED
      BY <3>1, <3>2, <3>3, <3>4, <3>5, <3>6 DEF RoutingNext
  <2>2. Expired[i] = rows[i]
    BY DEF Expired, Live, RoutingInv, RoutingTypeOK, TypeOK, Row
  <2>3. i \notin Matching(q.owner, q.gen, q.key)
    BY DEF Matching, ActiveOf
  <2>4. \A s : Ended(Matching(q.owner, q.gen, q.key), s)[i] = rows[i]
    BY <2>2, <2>3 DEF Ended
  <2>5. CASE LeaseUnchanged
    BY <2>5 DEF LeaseUnchanged, leaseVars
  <2>6. CASE Reconcile
    BY <2>2, <2>6 DEF Reconcile, OnlyRows
  <2>7. CASE Invalidate(q.owner, q.gen, q.key)
    BY <2>4, <2>7 DEF Invalidate, OnlyRows
  <2>8. ASSUME NEW p \in RequestState, NEW ttl \in RequestedTTL, ClaimsFor(p, q), Claim(p, ttl)
        PROVE  rows'[i] = rows[i]
    <3>1. ASSUME NEW t, NEW row, Insert(t, row), t[i] = rows[i]
          PROVE  rows'[i] = rows[i]
      BY <3>1, InsertAppends DEF RoutingInv, RoutingTypeOK
    <3>2. p.owner = q.owner /\ p.key = q.key /\ p.gen = q.gen /\ p.mode = "request"
      BY <2>8 DEF ClaimsFor
    <3>3. CASE ActiveOf(q.owner) = {}
      <4>1. Acquire(p.owner, p.key, p.conn, ttl) /\ AcquireKind(p.owner, p.key, p.conn) # "REUSED"
        BY <2>8, <3>2, <3>3 DEF Claim, AcquireKind
      <4> QED
        BY <2>2, <3>1, <4>1 DEF Acquire, OnlyRows
    <3>4. CASE ActiveOf(q.owner) # {}
      <4>1. Transition(q.owner, q.gen, q.key, p.conn, ttl)
        BY <2>8, <3>2, <3>4 DEF Claim, PresentedGeneration
      <4> QED
        BY <2>2, <2>4, <3>1, <4>1 DEF Transition, OnlyRows
    <3> QED
      BY <3>3, <3>4
  <2> QED
    BY <2>1, <2>5, <2>6, <2>7, <2>8, StepAsks DEF Asks
<1> QED
  BY <1>1, RoutingInvariant, PTL DEF RoutingSpec, StaleRequestIsHarmless

\* Dispatches reach a connection in the order of its tenancies, and those of an
\* owner in the order of its generations, across every await and retry.
THEOREM DispatchOrder == RoutingSpec => FencedDispatchOrder
<1>1. RoutingInv /\ [RoutingNext]_vars
      => [/\ \A c \in Connection : lastRow'[c] >= lastRow[c]
          /\ \A o \in Owner : lastGen'[o] >= lastGen[o]]_vars
  <2> SUFFICES ASSUME RoutingInv, [RoutingNext]_vars
               PROVE  /\ \A c \in Connection : lastRow'[c] >= lastRow[c]
                      /\ \A o \in Owner : lastGen'[o] >= lastGen[o]
    OBVIOUS
  <2>1. CASE UNCHANGED <<lastRow, lastGen>>
    BY <2>1 DEF RoutingInv, RoutingTypeOK
  <2>2. CASE \E r \in Request : DispatchManaged(r) /\ Fenced(r)
    BY <2>2, FencedRecords
  <2> QED
    BY <2>1, <2>2, OnlyDispatchesRecord
<1> QED
  BY <1>1, RoutingInvariant, PTL DEF RoutingSpec, FencedDispatchOrder

=============================================================================
