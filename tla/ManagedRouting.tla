--------------------------- MODULE ManagedRouting ---------------------------
(***************************************************************************)
(* Requests that select, claim and dispatch over the exclusive lease       *)
(* store.  A request is a chain of synchronous blocks separated by awaits: *)
(*   select     getProviderCredentials, up to the deferred claim           *)
(*   preflight  the live quota preflight is awaited                        *)
(*   claimed    the lease is claimed; semaphore and rate limiter awaited   *)
(*   inflight   the executor is talking to the provider                    *)
(*   failed     the emergency fallback of a failed dispatch has failed too  *)
(* Each block is one action; lease lifecycle calls, other requests and the *)
(* clock interleave at every await.                                        *)
(*   src/src/sse/services/auth.ts, exclusiveConnectionLeasePolicy.ts       *)
(*   src/src/sse/handlers/chat.ts, src/open-sse/handlers/chatCore.ts       *)
(*   src/src/app/api/v1/session-leases/route.ts                            *)
(***************************************************************************)
EXTENDS ExclusiveLease

CONSTANTS
  Request,       \* concurrent request slots
  Anonymous,     \* bound: the slots that requests without a lease context may take
  OAuth,         \* the connections whose authType is "oauth"
  Emergency,     \* the connections of the emergency fallback's provider
  Retries,       \* the retries that may happen: "hop" when the flag
                 \* OMNIROUTE_EMERGENCY_FALLBACK is on, the others always
  None,          \* no connection, no owner
  MaxWaits,      \* maxRetries of the cooldown-aware retry
  MaxRequests    \* bound: HTTP requests begun in a behaviour

ASSUME RoutingAssumption ==
  /\ Anonymous \subseteq Request
  /\ OAuth \subseteq Connection /\ Emergency \subseteq Connection
  /\ Retries \subseteq {"redo", "reopen", "transport", "hop"}
  /\ None \notin Connection \union Owner
  /\ MaxWaits \in Nat /\ MaxRequests \in Nat

VARIABLES
  req,       \* req[r]: the request running in slot r
  budget,    \* requests still to come
  eligible,  \* the connections ordinary routing considers usable
  leaked,    \* OAuth reservations <<c, session>> whose request has ended
  known,     \* known[o]: the generation client o was last told, 0 if none
  invited,   \* history: the generations created by an acquire call
  lastRow,   \* history: lastRow[c], the row that authorised c's last dispatch
  lastGen    \* history: lastGen[o], the generation of o's last dispatch

routingVars == <<req, budget, eligible, leaked, known, invited, lastRow, lastGen>>
vars == <<now, rows, lastId, req, budget, eligible, leaked, known, invited, lastRow, lastGen>>

\* tried: excluded by the account fallback; passed: excluded within the current
\* selection only; pool: the candidates a lost claim falls back on; spared: the
\* connections that had their transport retry; reopened: the early-EOF retry is
\* spent; redone: the dispatch has been executed again; outer: the request that
\* hopped to the emergency provider, while the hop is under way.
NewRequest(mode, o, k, g) ==
  [pc |-> "select", mode |-> mode, owner |-> o, key |-> k, gen |-> g,
   conn |-> None, tried |-> {}, passed |-> {}, pool |-> Connection, spared |-> {},
   reopened |-> FALSE, redone |-> FALSE, waits |-> 0, reserved |-> FALSE, outer |-> None]

Idle == [NewRequest("unmanaged", None, None, 0) EXCEPT !.pc = "idle"]

Suspended == [conn : Connection, tried : SUBSET Connection, reopened : BOOLEAN]

RequestState ==
  [pc : {"idle", "select", "preflight", "claimed", "inflight", "failed"},
   mode : {"acquire", "request", "unmanaged"},
   owner : Owner \union {None}, key : Key \union {None}, gen : Nat,
   conn : Connection \union {None}, tried : SUBSET Connection,
   passed : SUBSET Connection, pool : SUBSET Connection, spared : SUBSET Connection,
   reopened : BOOLEAN, redone : BOOLEAN, waits : 0..MaxWaits, reserved : BOOLEAN,
   outer : Suspended \union {None}]

\* One type invariant: well-formed requests over a well-formed table.
RoutingTypeOK ==
  /\ TypeOK
  /\ req \in [Request -> RequestState]
  /\ budget \in 0..MaxRequests
  /\ eligible \subseteq Connection
  /\ leaked \subseteq OAuth \X Owner
  /\ known \in [Owner -> Nat]
  /\ invited \subseteq Owner \X Nat
  /\ lastRow \in [Connection -> Nat]
  /\ lastGen \in [Owner -> Nat]

Managed(q) == q.mode # "unmanaged"

Goto(r, q) == req' = [req EXCEPT ![r] = q]

\* The request is answered (with a result or an error) and its slot is free.
Finish(r) == Goto(r, Idle)

\* A hop that is answered with an error returns to the request it came from,
\* which goes on with its own failure.
Resumed(q) ==
  [q EXCEPT !.pc = "failed", !.conn = q.outer.conn, !.tried = q.outer.tried,
            !.reopened = q.outer.reopened, !.outer = None, !.passed = {},
            !.pool = Connection, !.reserved = FALSE, !.redone = FALSE]

\* handleSingleModelChat returns an error.
Refuse(r) == IF req[r].outer = None THEN Finish(r) ELSE Goto(r, Resumed(req[r]))

LeaseUnchanged == UNCHANGED leaseVars
HistoryUnchanged == UNCHANGED <<invited, lastRow, lastGen>>

-----------------------------------------------------------------------------
\* Requests arrive.

Begin(r, q) ==
  /\ req[r].pc = "idle"
  /\ budget > 0
  /\ budget' = budget - 1
  /\ Goto(r, q)
  /\ UNCHANGED <<eligible, leaked, known>>
  /\ LeaseUnchanged /\ HistoryUnchanged

\* POST /api/v1/session-leases, action acquire, with placeholder generation 1.
BeginAcquire(r, o, k) == Begin(r, NewRequest("acquire", o, k, 1))

\* A managed inference request carries the generation its client was given.
BeginManaged(r, o, k) == known[o] > 0 /\ Begin(r, NewRequest("request", o, k, known[o]))

BeginUnmanaged(r) == r \in Anonymous /\ Begin(r, NewRequest("unmanaged", None, None, 0))

-----------------------------------------------------------------------------
\* Selection.

\* The usable connections of the provider the request is for at the moment.
Accounts(q) == eligible \cap (IF q.outer = None THEN Connection \ Emergency ELSE Emergency)

Open(q) == Accounts(q) \ (q.tried \union q.passed)

\* Retries inside one selection stay among the candidates of the first try.
Candidates(q) == Open(q) \cap q.pool

\* The request-mode checks of applyExclusiveConnectionLeasePolicy.
PolicyRefuses(q) ==
  /\ Managed(q)
  /\ IF ActiveOf(q.owner) = {}
       THEN q.mode = "request"
       ELSE \E i \in ActiveOf(q.owner) :
              \/ q.mode = "request" /\ rows[i].gen # q.gen
              \/ rows[i].key # q.key

\* Candidates not leased to anybody else.
Usable(q) ==
  {c \in Candidates(q) :
     IF Managed(q) THEN ActiveOn(c) \subseteq ActiveOf(q.owner) ELSE ActiveOn(c) = {}}

\* A live binding among the candidates comes before any routing strategy.
Preferred(q) ==
  LET bound == {c \in Usable(q) : Managed(q) /\ ActiveOn(c) # {}}
  IN  IF bound # {} THEN bound ELSE Usable(q)

\* OAuth occupancy: the sessions other than q's that hold a reservation on c.
\* Requests of one managed client share a session key, others have their own.
Session(r) == IF Managed(req[r]) THEN req[r].owner ELSE r

ForeignSessions(c, r) ==
  LET holders == {x \in Request : req[x].conn = c /\ req[x].reserved}
  IN  ({Session(x) : x \in holders} \union {o \in Owner : <<c, o>> \in leaked}) \ {Session(r)}

Busier(c, d, r) == Cardinality(ForeignSessions(c, r)) > Cardinality(ForeignSessions(d, r))

\* With reserveOAuthSession (every inference request), a selected OAuth
\* connection gives way to the usable OAuth peer with the fewest foreign
\* sessions, if it has fewer; all connections have the same priority here.
AvailablePeers(c, r) ==
  IF c \notin OAuth \/ req[r].mode = "acquire" THEN {}
  ELSE {p \in Usable(req[r]) \cap OAuth :
          Busier(c, p, r) /\ \A d \in Usable(req[r]) \cap OAuth : ~Busier(p, d, r)}

Choices(r) ==
  UNION {IF AvailablePeers(c, r) = {} THEN {c} ELSE AvailablePeers(c, r)
           : c \in Preferred(req[r])}

\* The request goes back to selection.
NewSelection(q) ==
  [q EXCEPT !.pc = "select", !.conn = None, !.reserved = FALSE, !.redone = FALSE]

\* invalidateManagedLease on the early exits that give up on the account pool;
\* some of them (terminal connections, an exhausted pool of a retry) skip it.
GiveUp(q) ==
  \/ q.mode = "request" /\ Invalidate(q.owner, q.gen, q.key)
  \/ LeaseUnchanged

\* Cooldown-aware retry: an inference request waits for the cooldown of the
\* whole pool and starts over with every account allowed again.
WaitForCooldown(r) ==
  LET q == req[r] IN
  /\ q.mode # "acquire" /\ q.outer = None /\ q.waits < MaxWaits
  /\ Goto(r, [q EXCEPT !.tried = {}, !.passed = {}, !.pool = Connection, !.waits = @ + 1])

SelectNothing(r) ==
  /\ Open(req[r]) = {}
  /\ GiveUp(req[r])
  /\ WaitForCooldown(r) \/ Refuse(r)

\* The candidates of the first try are used up: the preflight loop selects
\* again, among all that it has not passed over.
SelectAgain(r) ==
  /\ Open(req[r]) # {} /\ Candidates(req[r]) = {}
  /\ Goto(r, [req[r] EXCEPT !.pool = Connection])
  /\ LeaseUnchanged

SelectRefused(r) ==
  /\ Candidates(req[r]) # {}
  /\ PolicyRefuses(req[r])
  /\ Reconcile
  /\ Refuse(r)

\* WAITING_FOR_CAPACITY: a request that still holds a lease loses it.  Without
\* a lease context there are no credentials, or the quota's cooldown.
SelectWaits(r) ==
  LET q == req[r] IN
  /\ Candidates(q) # {} /\ ~PolicyRefuses(q) /\ Usable(q) = {}
  /\ IF q.mode = "request" THEN Invalidate(q.owner, q.gen, q.key) ELSE Reconcile
  /\ Refuse(r) \/ (~Managed(q) /\ q.passed # {} /\ WaitForCooldown(r))

Selected(q, c) == [q EXCEPT !.conn = c, !.reserved = c \in OAuth /\ q.mode # "acquire"]

SelectOne(r) ==
  /\ ~PolicyRefuses(req[r])
  /\ Reconcile
  /\ \E c \in Choices(r) :
       Goto(r, [Selected(req[r], c) EXCEPT
                  !.pc = "preflight",
                  !.pool = IF Managed(req[r]) THEN Usable(req[r]) ELSE @])

Select(r) ==
  /\ req[r].pc = "select"
  /\ \/ SelectNothing(r) \/ SelectAgain(r) \/ SelectRefused(r) \/ SelectWaits(r)
     \/ SelectOne(r)
  /\ UNCHANGED <<budget, eligible, leaked, known>>
  /\ HistoryUnchanged

PassOverCleared(q) == \* mutant: the connection is cleared before it is noted
  [NewSelection(q) EXCEPT !.passed = @ \union {None}]

\* This selection goes on without the connection.
PassOver(q) == [NewSelection(q) EXCEPT !.passed = @ \union {q.conn}]

\* The preflight says no: the account is marked unavailable and the next
\* candidate is tried.
PreflightBlocked(r) ==
  /\ req[r].pc = "preflight"
  /\ eligible' = eligible \ {req[r].conn}
  /\ Goto(r, PassOver(req[r]))
  /\ UNCHANGED <<budget, leaked, known>>
  /\ LeaseUnchanged /\ HistoryUnchanged

-----------------------------------------------------------------------------
\* commitLease: the claim, after the preflight, on a fresh read of the lease.

\* In acquire mode the generation of the lease just read is presented.
PresentedGeneration(q) ==
  IF q.mode = "acquire" THEN LastGeneration(q.owner) ELSE q.gen

ClaimKind(q) ==
  IF ActiveOf(q.owner) # {}
    THEN TransitionKind(q.owner, PresentedGeneration(q), q.key, q.conn)
    ELSE AcquireKind(q.owner, q.key, q.conn)

\* mutateExclusiveConnectionLease, with the default TTL.
Claim(q, ttl) ==
  IF ActiveOf(q.owner) # {}
    THEN Transition(q.owner, PresentedGeneration(q), q.key, q.conn, ttl)
    ELSE Acquire(q.owner, q.key, q.conn, ttl)

\* The generation the request goes on with: in acquire mode that of the claim.
ClaimedGeneration(q) ==
  IF q.mode # "acquire" THEN q.gen
  ELSE IF ActiveOf(q.owner) # {} THEN LastGeneration(q.owner) ELSE NextGeneration(q.owner)

CommitLost(r) ==
  /\ ClaimKind(req[r]) = "CONNECTION_BUSY"
  /\ Goto(r, PassOver(req[r]))
  /\ UNCHANGED <<invited, leaked>>

\* This exit forgets releaseOAuthSession: the reservation outlives the request.
CommitStale(r) ==
  LET q == req[r] IN
  /\ ClaimKind(q) \in {"STALE", "OWNER_ALREADY_ACTIVE"}
  /\ Refuse(r)
  /\ leaked' = IF q.reserved
                 THEN leaked \union {<<q.conn, q.owner>>} ELSE leaked
  /\ UNCHANGED invited

\* The selection is over, its exclusions with it.
Won(q) == [q EXCEPT !.pc = "claimed", !.passed = {}, !.pool = Connection]

\* Slot r goes on as request q with the lease it has claimed.
Claimed(r, q) ==
  /\ ClaimKind(q) \in {"ACQUIRED", "REUSED", "TRANSITIONED"}
  /\ Goto(r, [Won(q) EXCEPT !.gen = ClaimedGeneration(q)])
  /\ UNCHANGED leaked
  /\ invited' = IF q.mode = "acquire"
                  THEN invited \union {<<q.owner, ClaimedGeneration(q)>>} ELSE invited

Commit(r) ==
  /\ req[r].pc = "preflight" /\ Managed(req[r])
  /\ \E ttl \in RequestedTTL : Claim(req[r], ttl)
  /\ CommitLost(r) \/ CommitStale(r) \/ Claimed(r, req[r])
  /\ UNCHANGED <<budget, eligible, known, lastRow, lastGen>>

\* bypassQuotaPolicy: no preflight, the selection claims at once.
SelectAndClaim(r) ==
  /\ req[r].pc = "select" /\ Managed(req[r]) /\ ~PolicyRefuses(req[r])
  /\ \E c \in Choices(r), ttl \in RequestedTTL :
       /\ Claim(Selected(req[r], c), ttl)
       /\ Claimed(r, Selected(req[r], c))
  /\ UNCHANGED <<budget, eligible, known, lastRow, lastGen>>

\* Unmanaged requests have nothing to claim.
Proceed(r) ==
  /\ req[r].pc = "preflight" /\ ~Managed(req[r])
  /\ Goto(r, Won(req[r]))
  /\ UNCHANGED <<budget, eligible, leaked, known>>
  /\ LeaseUnchanged /\ HistoryUnchanged

\* The acquire handler answers; the answer may be lost with its client.
AcquireReply(r) ==
  /\ req[r].pc = "claimed" /\ req[r].mode = "acquire"
  /\ \/ known' = [known EXCEPT ![req[r].owner] = req[r].gen]
     \/ known' = known
  /\ Finish(r)
  /\ UNCHANGED <<budget, eligible, leaked>>
  /\ LeaseUnchanged /\ HistoryUnchanged

-----------------------------------------------------------------------------
\* Dispatch, behind the fence.

\* assertManagedLeaseFence returns: the request reaches the executor.
Fenced(r) ==
  LET q == req[r] IN
  /\ FenceKind(q.owner, q.gen, q.key, q.conn) = "VALID"
  /\ Reconcile
  /\ Goto(r, [q EXCEPT !.pc = "inflight"])
  /\ \E i \in ActiveOf(q.owner) : lastRow' = [lastRow EXCEPT ![q.conn] = i]
  /\ lastGen' = [lastGen EXCEPT ![q.owner] = q.gen]

\* assertManagedLeaseFence throws: a 409, without account fallback.
FencedOff(r) ==
  LET q == req[r] IN
  /\ FenceKind(q.owner, q.gen, q.key, q.conn) # "VALID"
  /\ Reconcile
  /\ Refuse(r)
  /\ UNCHANGED <<lastRow, lastGen>>

DispatchManaged(r) ==
  /\ req[r].pc = "claimed" /\ req[r].mode = "request"
  /\ Fenced(r) \/ FencedOff(r)
  /\ UNCHANGED <<budget, eligible, leaked, known, invited>>

\* No fence for a request without a lease context.
DispatchUnmanaged(r) ==
  /\ req[r].pc = "claimed" /\ ~Managed(req[r])
  /\ Goto(r, [req[r] EXCEPT !.pc = "inflight"])
  /\ UNCHANGED <<budget, eligible, leaked, known>>
  /\ LeaseUnchanged /\ HistoryUnchanged

\* chatCore executes the dispatch again on the same connection, behind the fence:
\* with a refreshed token, a smaller body, another model.  Each of these is
\* bounded; one round stands for the series.
Redo(r) ==
  /\ "redo" \in Retries /\ req[r].pc = "inflight" /\ ~req[r].redone
  /\ Goto(r, [req[r] EXCEPT !.pc = "claimed", !.redone = TRUE])
  /\ UNCHANGED <<budget, eligible, leaked, known>>
  /\ LeaseUnchanged /\ HistoryUnchanged

\* Once per request, a stream that closed before any content sends the request
\* back to selection, with no account excluded for it.
Reopen(r) ==
  /\ "reopen" \in Retries /\ req[r].pc = "inflight" /\ ~req[r].reopened
  /\ Goto(r, [NewSelection(req[r]) EXCEPT !.reopened = TRUE])
  /\ UNCHANGED <<budget, eligible, leaked, known>>
  /\ LeaseUnchanged /\ HistoryUnchanged

SparingForgotten(q) == q \* mutant: the transport retry is not counted
Sparing(q) == [q EXCEPT !.spared = @ \union {q.conn}]

\* Once per connection and request, a transport failure is retried after a
\* pause: with the same credentials, whose reservation was given back, or, once
\* any account is excluded, through selection.  A hop does not retry.
TransportRetry(r) ==
  LET q == req[r] IN
  /\ "transport" \in Retries
  /\ q.pc \in {"inflight", "failed"} /\ q.outer = None /\ q.conn \notin q.spared
  /\ Goto(r, IF q.tried = {} THEN [Sparing(q) EXCEPT !.pc = "claimed", !.reserved = FALSE,
                                                          !.redone = FALSE]
              ELSE NewSelection(Sparing(q)))
  /\ UNCHANGED <<budget, eligible, leaked, known>>
  /\ LeaseUnchanged /\ HistoryUnchanged

\* A dispatch whose budget is exhausted tries the emergency provider, with the
\* same lease context and exclusions of its own; the gates of that provider may
\* refuse.  Every failed dispatch of the request may hop.
EmergencyHop(r) ==
  LET q == req[r] IN
  /\ "hop" \in Retries /\ q.pc = "inflight" /\ q.outer = None
  /\ \/ Goto(r, [NewSelection(q) EXCEPT
                   !.tried = {}, !.reopened = FALSE,
                   !.outer = [conn |-> q.conn, tried |-> q.tried, reopened |-> q.reopened]])
     \/ Goto(r, [q EXCEPT !.pc = "failed", !.reserved = FALSE, !.redone = FALSE])
  /\ UNCHANGED <<budget, eligible, leaked, known>>
  /\ LeaseUnchanged /\ HistoryUnchanged

Dispatching(r) == req[r].pc \in {"claimed", "inflight", "failed"} /\ req[r].mode # "acquire"

\* The account failed, or its queues are full: the next account is selected,
\* and this one may be marked unavailable.
Fallback(r) ==
  LET q == req[r] IN
  /\ Dispatching(r)
  /\ eligible' \in {eligible, eligible \ {q.conn}}
  /\ Goto(r, [NewSelection(q) EXCEPT !.tried = @ \union {q.conn}])
  /\ UNCHANGED <<budget, leaked, known>>
  /\ LeaseUnchanged /\ HistoryUnchanged

\* The provider has answered, with a result or an error that is final, or the
\* client has gone away.
Complete(r) ==
  /\ Dispatching(r)
  /\ Finish(r) \/ Refuse(r)
  /\ UNCHANGED <<budget, eligible, leaked, known>>
  /\ LeaseUnchanged /\ HistoryUnchanged

-----------------------------------------------------------------------------
\* Clients, connection health and the clock.

\* POST action renew; a STALE answer makes the client forget its lease.
ClientRenew(o, k, ttl) ==
  /\ known[o] > 0
  /\ Renew(o, known[o], k, ttl)
  /\ known' = IF RenewKind(o, known[o], k) = "STALE" THEN [known EXCEPT ![o] = 0] ELSE known
  /\ UNCHANGED <<req, budget, eligible, leaked>> /\ HistoryUnchanged

\* POST action release.  The client may keep requests open.
ClientRelease(o, k) ==
  /\ known[o] > 0
  /\ Release(o, known[o], k)
  /\ known' = [known EXCEPT ![o] = 0]
  /\ UNCHANGED <<req, budget, eligible, leaked>> /\ HistoryUnchanged

\* The client dies without releasing.
ClientCrash(o) ==
  /\ known[o] > 0
  /\ known' = [known EXCEPT ![o] = 0]
  /\ UNCHANGED <<req, budget, eligible, leaked>> /\ LeaseUnchanged /\ HistoryUnchanged

\* A cooldown ends.
Recover(c) ==
  /\ c \notin eligible
  /\ eligible' = eligible \union {c}
  /\ UNCHANGED <<req, budget, leaked, known>> /\ LeaseUnchanged /\ HistoryUnchanged

\* The ten minutes of a leaked reservation are over.
ReservationLapses(x) ==
  /\ leaked' = leaked \ {x}
  /\ UNCHANGED <<req, budget, eligible, known>> /\ LeaseUnchanged /\ HistoryUnchanged

ClockTick == Tick /\ UNCHANGED routingVars

-----------------------------------------------------------------------------

Init ==
  /\ LeaseInit
  /\ req = [r \in Request |-> Idle]
  /\ budget = MaxRequests
  /\ eligible = Connection
  /\ leaked = {}
  /\ known = [o \in Owner |-> 0]
  /\ invited = {}
  /\ lastRow = [c \in Connection |-> 0]
  /\ lastGen = [o \in Owner |-> 0]

Arrive(r) ==
  \/ \E o \in Owner, k \in Key : BeginAcquire(r, o, k) \/ BeginManaged(r, o, k)
  \/ BeginUnmanaged(r)

\* What the server does for request r between two awaits.
Step(r) ==
  \/ Select(r) \/ PreflightBlocked(r) \/ Commit(r) \/ SelectAndClaim(r)
  \/ Proceed(r) \/ AcquireReply(r)
  \/ DispatchManaged(r) \/ DispatchUnmanaged(r)
  \/ Redo(r) \/ Reopen(r) \/ TransportRetry(r) \/ EmergencyHop(r)
  \/ Fallback(r) \/ Complete(r)

Client(o) ==
  \/ \E k \in Key, ttl \in RequestedTTL : ClientRenew(o, k, ttl)
  \/ \E k \in Key : ClientRelease(o, k)
  \/ ClientCrash(o)

RoutingNext ==
  \/ \E r \in Request : Arrive(r) \/ Step(r)
  \/ \E o \in Owner : Client(o)
  \/ \E c \in Connection : Recover(c)
  \/ \E x \in leaked : ReservationLapses(x)
  \/ ClockTick

RoutingSpec == Init /\ [][RoutingNext]_vars

\* Every await of a request ends: preflight, queue waits and upstream calls
\* have timeouts.
FairRoutingSpec == RoutingSpec /\ \A r \in Request : WF_vars(Step(r))

-----------------------------------------------------------------------------
\* Properties.

\* Fencing: dispatches reach a connection in the order of the tenancies on it,
\* and the dispatches of an owner in the order of its generations.  Once a
\* later tenancy has dispatched, a request of an earlier one that was waiting
\* in a preflight, a queue or a retry never reaches the provider any more.
FencedDispatchOrder ==
  [][/\ \A c \in Connection : lastRow'[c] >= lastRow[c]
     /\ \A o \in Owner : lastGen'[o] >= lastGen[o]]_vars

\* A request never ends, moves or prolongs a lease of another owner or of
\* another generation than the one it carries, however long it waited and on
\* whichever of its exits it invalidates "its" lease.
StaleRequestIsHarmless ==
  [][\A r \in Request, i \in Ids :
       /\ req'[r] # req[r] /\ req[r].mode = "request"
       /\ Live(i)
       /\ rows[i].owner # req[r].owner \/ rows[i].gen # req[r].gen
       => rows'[i] = rows[i]]_vars

\* No request circles between selection, preflight, claim and fallback for
\* ever, although recovering connections keep refilling the candidates.
RequestTerminates == \A r \in Request : req[r].pc # "idle" ~> req[r].pc = "idle"

\* "The lifecycle is POST /api/v1/session-leases with JSON actions acquire,
\* renew, and release": only an acquire call starts a tenancy.
NoUninvitedLease == \A i \in Ids : <<rows[i].owner, rows[i].gen>> \in invited

\* "A model change retains the binding while the connection remains ordinarily
\* eligible": the claim of an inference request moves a lease away only from a
\* connection that is not eligible, or that this request has tried in vain.
BindingRetained ==
  [][\A r \in Request, i \in Ids :
       /\ req[r].mode = "request" /\ req[r].pc = "preflight" /\ req'[r].pc = "claimed"
       /\ rows[i].owner = req[r].owner /\ Live(i) /\ rows'[i].state # "ACTIVE"
       => rows[i].conn \notin eligible \/ rows[i].conn \in req[r].tried]_vars

=============================================================================
