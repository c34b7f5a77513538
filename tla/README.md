# OmniRoute: a TLA+ model of its admission, lease and resilience core

OmniRoute is a gateway in TypeScript that receives LLM requests and routes each
of them to one of many provider accounts ("connections").  What is hard about
it is not the translation of formats but the state that requests share: who may
use which connection, how many may run at once, which provider is healthy.
Besides, rotating OAuth tokens must be refreshed by one caller at a time, and
batch jobs must survive restarts.  That state is kept in memory and in SQLite by
synchronous functions, and used by request handlers that read it, await
something, and act on it later.  This directory models that core, checks it with
TLC, and proves with TLAPS what holds of the lease store, the requests above it,
the admission semaphore, the provider breaker, the refresh lane, the token
refresh and the batch processor for every number of owners, connections,
callers, gates and batches.

Paths below are relative to the repository; line numbers are those of the
commit the model was made from (they are listed for every definition in
`PROJECT.json`, "map").

## 1. Inventory

| Component | Source | State | Operations | Hard behaviour | Model |
|---|---|---|---|---|---|
| Exclusive lease store | `src/lib/db/exclusiveConnectionLeases.ts`, migration 157 | table of leases: owner hash, API key, connection, generation, state, deadline | acquire, transition, renew, release, invalidate, fence, status, occupancy | lazy expiry, unique indexes over unswept rows, fence tokens derived from history, repeated release | `ExclusiveLease`, `LeaseRegistry`, `ExclusiveLeaseRefinement`, `ExclusiveLeaseProofs`, `ExclusiveLeaseRefinementProofs` |
| Managed routing | `src/sse/services/auth.ts`, `exclusiveConnectionLeasePolicy.ts`, `src/app/api/v1/session-leases/route.ts`, `src/sse/handlers/chat.ts`, `open-sse/handlers/chatCore.ts` | per request: chosen connection, exclusions, candidate pool, retries | selection, quota preflight, deferred or immediate claim, dispatch fence, repeated execution, early-EOF and transport retries, emergency hop, account fallback, cooldown-aware retry, lifecycle endpoint | everything read before an await is stale after it | `ManagedRouting`, `ManagedRoutingProofs` |
| OAuth session occupancy | `open-sse/services/oauthSessionOccupancy.ts` | reservations per connection and session | reserve, release, prune | a reservation must be given back on every exit | part of `ManagedRouting` |
| Admission semaphore | `open-sse/services/accountSemaphore.ts` | gates (running, limit, FIFO queue, blockedUntil, cleanup timer) and the queued requests | acquireMany, release, timeout, abort, markBlocked, unblock, cleanup, reset, resetAll | all-or-nothing admission over several gates, limits that change, timers that fire late | `AccountSemaphore`, `AccountSemaphoreProofs` |
| Provider circuit breaker | `src/shared/utils/circuitBreaker.ts`, `src/sse/handlers/chatHelpers.ts`, `chatPredicates.ts`, `chat.ts`, `open-sse/services/accountFallback.ts`, `combo.ts` | state, failure count, time and kind of the last failure, open cycles, probe slots; a database row | gate check, execute, success, failure, refresh, reset, restore | outcomes accounted long after the state they belong to, three call paths with different rules, restarts | `ProviderBreaker`, `ProviderBreakerProofs` |
| Model lockout, account cooldown | `open-sse/services/accountFallback.ts`, `src/domain/lockoutPolicy.ts` | cooldowns and backoff levels | mark unavailable, clear, decay | late failures after a recovery | planned |
| Combo routing | `open-sse/services/combo.ts`, `combo/` | target order, exhausted sets | target loop, retries | partial exhaustion | planned |
| Token refresh | `open-sse/services/tokenRefresh.ts`, `refreshSerializer.ts`, `tokenRefresh/`, `src/lib/tokenHealthCheck.ts`, `src/sse/services/tokenRefresh.ts`, `src/lib/usage/providerLimits/credentialRefresh.ts`, `chatCore.ts` | the refresh in flight of each connection, rotation map, stored row, tail of each rotation group | refresh, share, redirect, serialise, persist, deactivate | a refresh token may be presented once; five kinds of callers hold old ones | `TokenRefresh`, `TokenRefreshProofs`, `RefreshLane`, `RefreshLaneProofs`, `QuotaRefresh` |
| Batch processing | `open-sse/services/batchProcessor.ts`, `src/lib/db/batches.ts`, `src/app/api/v1/batches/` | batch rows, item checkpoints, processors at work | create, poll, recover, start, work off, cancel, delete, finalise | a kill between any two writes; poll, processor and routes on one row | `BatchProcessor`, `BatchProcessorProofs` |
| Request deduplication, idempotency | `open-sse/services/requestDedup.ts`, `src/lib/idempotencyLayer.ts` | in-flight calls, cached answers | join, settle, expire | failure of the leader | planned |
| Rate limiting | `open-sse/services/rateLimitManager.ts`, `rollingRpmGate.ts`, `slidingWindowLimiter.ts` | windows, limiter per connection | reserve, drain, recover | wedged limiters | planned |
| Background jobs | `src/lib/jobRegistry`, `src/lib/a2a` | job rows, task states | claim, run, finish, expire | restarts between two steps | planned |

`PROJECT.json` "components" lists the rest (translators, executors, user
interface, session affinity, quota caches, admission lanes, lease isolation,
shutdown) with the reason each is left out.

How they interact.  A request of a managed client (an API key with the scope
`lease:exclusive`) carries an owner id and a *generation*, the fence token.
Selection asks the lease store which connections are taken, chooses one, awaits
the provider's quota, then claims the connection in the store.  Next it awaits
the gates of the admission semaphore and a rate limiter, and the dispatch fence
asks the store again whether the generation is still in force, immediately before the
executor is called.  The dispatch itself runs inside the provider's breaker.
A failed dispatch excludes the connection and goes back to selection.

A request answered 401 or 403 refreshes the connection's token, and so do, near
expiry, the executor before it dispatches, the health sweep, the proactive
check and the credential export, all through `getAccessToken`; the one that leads enters the lane of its rotation
group.  A batch is worked off beside the requests: its processor shares the
database with the poll that started it and the routes that cancel and delete.

Functions of the store, the semaphore and the breaker are synchronous, hence
atomic; handlers and processors interleave at every `await`, and each module has
one action for each synchronous block between two awaits.  (`BatchProcessor`
divides these blocks at every write, where the process may be killed.)

## 2. Modules

### LeaseRegistry
The abstract specification of the lease store: a clock, the set of leases in
force, and each owner's last generation.  A lease ends by itself on the tick of
its deadline.  There are no rows, no row states and no sweeps.

### ExclusiveLease
The store as it is written.  `rows` is the table (`1..lastId` to records),
`lastId` the AUTOINCREMENT counter, `now` the clock.  Every exported function
opens an IMMEDIATE transaction and expires overdue rows first, so each action
is stated over `Expired` (the swept table) and the look-ups over `Live` rows.
`AcquireKind`, `TransitionKind`, `RenewKind`, `FenceKind` are the answers of
the functions; `Acquire`, `Transition`, `Renew`, `Release`, `Invalidate` their
effects; `Reconcile` stands for every function that only reads after the sweep.
`isLeaseConflict` branches are not modelled because `ActiveUnique`
(proved) makes them unreachable.  `provider`, timestamps other than the
deadline, and end reasons are left out: nothing depends on them.

### ExclusiveLeaseRefinement
`ImplementsRegistry`: with the live rows as the leases in force, every
transaction is one step of `LeaseRegistry` or none.  Proved in
`ExclusiveLeaseRefinementProofs`.

### ManagedRouting
Extends the store with requests.  `req[r].pc` names the await a request is in:
`select` → `preflight` → `claimed` → `inflight`.  `eligible` are the connections
without a cooldown, `known[o]` the generation the client of owner `o` believes
in, `leaked` the OAuth reservations that outlive their request.  `invited`,
`lastRow` and `lastGen` are history variables used by properties only.

A request excludes connections in two ways: `tried` by the account fallback of
`chat.ts`, `passed` within one selection of `auth.ts`, where `pool` are the
candidates that a lost claim falls back on.  `Select` has the exits
`SelectNothing`, `SelectAgain` (the pool is used up: all other connections are
candidates again), `SelectRefused`, `SelectWaits` and `SelectOne`.  A managed
request claims after its preflight (`Commit`: `CommitLost`, `CommitStale`,
`Claimed`), or, where the quota policy is bypassed, with the selection
(`SelectAndClaim`).  `DispatchManaged` (`Fenced`, `FencedOff`) and
`DispatchUnmanaged` reach the executor.  Then the loops, each with the bound of
its own that the code gives it:

* `Redo`: `chatCore.ts` executes again, on the same connection and behind the
  fence (one round for the series of such repetitions);
* `Reopen`: a stream that closed early, once per request (`reopened`), back to
  selection without an exclusion;
* `TransportRetry`: once per connection and request (`spared`), with the same
  credentials as long as no account is excluded, through selection afterwards;
* `EmergencyHop`: the request runs again for the connections of the emergency
  provider, with the same lease and exclusions of its own; `outer` keeps what it
  returns to (`Resumed`, `pc = "failed"`) when the hop is refused (`Refuse`);
* `Fallback`: the account is excluded (`tried`), and may be marked unavailable;
* `WaitForCooldown`: starts over without exclusions, `MaxWaits` times.

`Complete` ends a request at any await of its dispatch.  `ClientRenew`,
`ClientRelease` and `ClientCrash` are its client's, `Recover` ends a cooldown.
The constant `Retries` says which of `Redo`, `Reopen`, `TransportRetry` and
`EmergencyHop` an instance has: the proofs are for any, a run affords some.
Routing strategies, session affinity and connection priorities are abstracted
to a free choice among the connections the code considers usable; the two rules
that matter here, the preference for the live binding and the OAuth occupancy
rule that may override it, are modelled as they are.

### AccountSemaphore
A gate key is its place in the sort order, since `acquireMany` treats keys in
that order.  `gates` is the Map, `order` the insertion-ordered set of queued
requests, `call[p]` what became of caller p's request.  One turn of the loop of
`drainQueues` is `Round`, which admits the first request in arrival order that
can go; `Drained` is a recursive function of rounds, as many as there are
requests, since a round that makes progress takes one of them.  The loop of
`reset` over its gate's queue is `Rejected`.  Both work on a record of `gates`,
`call` and `order` (`Tables`), which the step then becomes.  The time of
`blockedUntil` is reduced to whether it lies ahead.  `Unblock` drains, and tidies
up, any gate there is, blocked or not.

### ProviderBreaker
`mem` is the breaker object, `db` its row, `call[c]` the request in slot c.
`Success`, `Failure`, `Refreshed`, `CanExecute` and `Cooldown` are the methods
of the class.  A request passes the gate (`Gate`), enters `execute` (`Enter`,
`Reject`; `Bypass` when its connection is forced), ends there (`Throw`,
`Resolve`) and is accounted later by its path (`Succeed`, `Fail`).  There are
four paths: a single-model request or the target of a combo, each with a
connection chosen or forced (`"forced"`, `"pinned"`).  `Bypassing` ones skip the
breaker; those `OfCombo` are accounted through `recordProviderSuccess/Failure`,
the others directly.  After a restart the breaker has default settings until a
gate gives it those of its provider (`configured`): its cooldown is
`DefaultTimeout` and has no hint.  `probes` is a history variable: who took a slot of the current
HALF_OPEN period.  The time since the last failure is kept while OPEN only,
where alone it is read, and counters stop where nothing tells larger values
apart.

### RefreshLane
`serializeRefresh` has no queue: each refresh awaits the promise it found as
`tail` of its group and becomes the tail.  `lane[k]` is a refresh with the
promise it awaits (`prev`) and its place (`waiting`, `running`, `settling`).
`EnterLane`, `TakeTurn`, `KeepsLane` (the settle gap) and `LeaveLane` are its
steps, and `line`, the order of arrival, a history variable against which the
chain is checked.

### QuotaRefresh
Extends the lane with the on-demand quota read, which holds the lane while it
calls the executor's `refreshCredentials`.  That call is answered without the
lane (`AnswerDirectly`), starts a refresh that enters the same lane (`Nest`), or
shares one of its connection that waits there (`Share`); `nested` says how far
it is, `inner` which refresh it waits for.

### TokenRefresh
`row[c]` is the stored connection, `server[c]` the provider's view of it, `memo`
the rotation map, `mutex[c]` the leader of the refresh in flight, `call[k]` a
caller: a request answered 401 or 403, the executor before it dispatches, the
sweep, the proactive check or the export.  `Load` is a caller that reads the row
and finds a refresh due, by its own lead time: the row may be `fresh` (good for
the minute that `getAccessToken` asks for) all the same.  It shares
a refresh (`Join`), is answered from the map or the row (`ReuseRotation`,
`UseStoredToken`), or leads one (`Lead`).  The provider `Grants`, `Refuses` or
is `Unreachable`.  `Conclude` is everything the leader does before the mutex is
deleted: recording, persisting, resolving the promise for those who joined.
`AcceptReply`, `MissReply` and `SufferRefusal` are what answered callers do
then, each kind of caller in its own way; a request's refusal may reach it as no
answer (Codex), and is retried then.  The rest is what goes wrong, at most once
each, and at most `MaxFaults` kinds in one behaviour: an answer of the provider is
lost (`"lost"`), a request stops waiting for good (`"gaveUp"`, `GiveUp`: the timeout
cancels nothing), an attempt times out and the next one runs beside it
(`"overlap"`, `Overlap`: the refresh that goes on moves to a free slot, `left`
links the two), a write of the row fails and nobody notices (`"unsaved"`,
`Write`), the operator signs in again (`"reauth"`, `Reauthenticate`).
Tokens are numbered as the provider issues them, so that "older" is `<`.  Between
`Conclude` and the last write of a caller it answered there are only microtasks;
`Quiet` keeps other callers out meanwhile.  The lane is not composed in:
to a connection it is delay, which any interleaving of leaders already has.

### BatchProcessor
`row` and `ck` are the tables, `input` the input files, `active` and `proc` the
memory of the process, which `Crash` wipes out.  `Poll` is
`processPendingBatches` as a whole: recovery (`Recovered`), cancellations, expiry
and starts (`StartedRow`).  A processor goes from `starting` through its lines
(`walking`, `throttled`, `sent`, `recorded`) to `ending` and `finalizing`; at
`starting`, `throttled` and `sent` it awaits, elsewhere only a kill may
intervene (`Quiet`).  `Break` is a failing database call, `Create`, `Cancel`,
`Delete`, `DeleteCompleted` and `LoseInput` are the routes and the cleanup.  The
history variables `begun` and `late` count what properties speak of.

### MC modules
`MCExclusiveLease`, `MCManagedRouting`, `MCAccountSemaphore`,
`MCProviderBreaker`, `MCRefreshLane`, `MCQuotaRefresh`, `MCTokenRefresh` and
`MCBatchProcessor` extend the modules above and add symmetry sets, or the inputs
(requirements of callers, lines of batches).  Definitions marked `mutant` in the modules are
plausible bugs; `PROJECT.json` "mutants" says which property each breaks when it
takes the place of the definition that follows it.

## 3. What is checked

| Run | Bounds | Shows |
|---|---|---|
| `lease_store` | 2 owners, 2 keys, 2 connections, TTL 1..2 with a request above it, 3 rows, time 0..2 | `ActiveUnique`, `GenerationHasOneKey`, `ActiveIsNewest`; nothing rewrites history, brings a fence token back or revokes an accepted release; the store implements the registry |
| `managed_routing` | 2 owners, 2 OAuth connections, 2 concurrent requests, 3 requests, 5 rows, time 0..1, transport retries | stale requests are harmless (`StaleRequestIsHarmless`) |
| `routing_fence` | 1 ordinary and 1 emergency connection, 2 owners, 2 concurrent requests, 4 requests, 5 rows, time 0..1, repeated executions and hops | tenancies follow one another and dispatches keep their order (`FencedDispatchOrder`) |
| `routing_terminates` | 2 owners, 2 connections, 2 concurrent requests of which one may be unmanaged, 3 rows, all retries, one cooldown wait, fairness | `RequestTerminates` |
| `semaphore` | 3 callers, parent and child gate, limits 1 and 2, queue of 2, one cooldown, one reset | `RunningIsHeld` (the counters are the permits, and after a reset never exceed them), `QueuesAgree`, `WaitersAwaitPermits` (no standstill), admissions fit their limits, nobody is overtaken or left behind, nobody starves (`WaitersSettle`); `TypeOK` is proved |
| `breaker` | 3 requests, of all four paths, thresholds 2 and 3, 2 probe slots, timeout 1 (2 before it is configured), escalation up to 2 | probes bounded, state and count agree, restarts lose nothing, escalation and cooldown survive |
| `refresh_lane` | 3 refreshes at once, 2 rotation groups, settle gap | one refresh per group at a time, in order of arrival, and everybody gets a turn |
| `token_refresh` | 2 callers of any kind, 1 connection, 3 tokens, 2 attempts; two of: a lost answer, requests that give up, an attempt that overlaps the next, a failed write, a sign-in | no token presented twice, every rotation reaches the row and none is undone, no account given up by the caller that got a refusal of another token, every caller settles |
| `batches` | a batch of 2 lines and one of 1, 1 slot, 2 attempts, 1 crash | nothing replayed, completed batches complete, cancellation bounded and final, slots, every batch ends |
| `routing_uninvited` | 2 owners, 2 requests, time 0..2 | disagreement, see 5 |
| `breaker_wedge` | 2 requests, 1 probe slot | disagreement, see 5 |
| `quota_refresh` | 1 quota read, 2 other refreshes, 1 group | disagreement, see 5 |

Why these bounds are enough to be interesting.  Three rows allow an acquisition,
a transition of the same generation and a new generation, or two owners'
histories side by side; two ticks and a TTL of 2 make a lease overdue but
unswept, renewed, or swept by somebody else.  Two concurrent requests, one of
which may be from a finished tenancy, are what a stale request needs; the third
and fourth are the acquisitions in between.  `routing_fence` narrows to one
ordinary connection to afford four requests: acquire, request, acquire by the
other owner, request.  The loops of a request multiply the states, so each run has
those its question turns on: `routing_terminates` has them all, for two requests
and without the clock (leases end by release and transition), and keeps one slot
for managed requests (`Anonymous`); what a lease store in time does to requests
is the matter of the two others.  Three callers are the least that can barge
(one runs, one waits for two gates, one overtakes).  Three requests at a
breaker are a probe, a stale answer, and a rejected request; two slots let one
HALF_OPEN period admit more than one probe, although production leaves the
default of one.

Three refreshes in a lane are one that leaves, one that waits and one that
arrives while the tail is deleted; two groups let a call change groups between
turns.  Three tokens of one connection allow two rotations, or a sign-in and a
rotation of the old or the new family while an answer is under way; two
callers are a leader and one who joins, a leader and one who holds what was
rotated away, or a request and the refresh it left behind.  Any two kinds of
fault meet.  Connections share nothing above the lane, which the proof says for
any number.  Two batches compete for one slot; two lines put an item behind and
an item ahead of the processor when it is killed, and one crash is enough for
every state of the tables to be met by recovery, since a second processor starts
from nothing but them.  Bounds in the models' constants (`MaxTime`, `MaxRows`,
`MaxRequests`, `MaxWaits`, `Anonymous`, `MaxBlocks`, `MaxResets`, `MaxCycles`,
`MaxTokens`, `MaxFaults`, `MaxCrashes`) say so where they are declared.

Deadlock is checked for the semaphore, the breaker and the lane.  It is switched
off where the system stops by itself: for the lease store and the routing when
the clock, the rows or the requests are used up, for the token refresh when the
tokens are, for the batches when all have ended; and for `quota_refresh`, whose
subject is a lane that stops.

### Fairness
* `FairRoutingSpec` assumes weak fairness of each request's own steps: the
  preflight, the gate queues and upstream calls all have timeouts.  Clients,
  recovering connections and the clock are not assumed to do anything.
* `FairSpec` of the semaphore assumes that permits are released: the release
  function is called in `finally` blocks and stream ends.  It is written
  `[]<>(call[p].pc # "held")`, which says the same as weak fairness of
  `Release(p)`: that action is enabled exactly while p holds a permit, and no
  other ends this.  (TLC would evaluate ENABLED by draining the queues.)  Timeouts of waiters
  are *not* assumed, so `WaitersSettle` speaks of waiters as patient as they
  like.  It is stated for behaviours without `markBlocked`, because the passing
  of `blockedUntil` wakes nobody (`isBlocked` is only evaluated when something
  else drains), and `NoWaiterLeftBehind` names the two steps that leave an
  admissible waiter behind.
* `FairLaneSpec` assumes weak fairness of each refresh's turn and of its end: a
  resolved promise runs its continuation, fetches have timeouts, timers fire.
  `FairQuotaSpec` assumes the same and that the executor goes on, so that the
  wedge is not the fault of a step nobody took.
* `FairSpec` of `TokenRefresh` assumes strong fairness of the steps of each
  caller.  They are disabled while others deal with an answer (`Quiet`), which is
  a finite run of microtasks; the event loop does run a callback that fell due,
  however often others ran before.  `GiveUp` and all faults are free.
* `FairSpec` of `BatchProcessor` assumes that the poll's timer fires (a poll that
  expires nothing) and that each await of a processor ends: pauses are timers
  and a dispatch is raced against its own timeout.
* The breaker has safety properties only: it moves when somebody calls it.

## 4. What is proved

`ExclusiveLeaseProofs` proves, for every value of the constants that satisfies
`TTLAssumption` (a positive minimum TTL not above the maximum) and any bounds:

| Theorem | Statement |
|---|---|
| `LeaseInvariant` | `Spec => []LeaseInv`, the inductive invariant |
| `TypeCorrect`, `Exclusive`, `OneKey`, `Newest` | `TypeOK`, `ActiveUnique`, `GenerationHasOneKey`, `ActiveIsNewest` are invariants |
| `HistoryFrozen`, `NeverReturns`, `ReleaseFinal` | the three action properties |
| `Refinement` (`ExclusiveLeaseRefinementProofs`) | `Spec => ImplementsRegistry` |

The argument.  None of the invariants is inductive alone.  A new generation is
larger than all the owner's earlier ones only if the maximum exists
(`LastExists`: the generations of an owner have one).  A transition leaves its
new row the newest of the owner, with the one key of its generation, only
because the row it continues was the owner's only ACTIVE row (`ActiveUnique`)
and its newest (`ActiveIsNewest`).  `LeaseInv` is their conjunction.  The proof does not
go through the actions for each conjunct.  `StepShape` shows once that every
transaction either only lets rows lapse (`Lapse`: ACTIVE rows may end or change
their deadline, nothing else changes) or lets rows lapse and appends one ACTIVE
row that `Fits` (a fresh generation of an owner without live rows, or the
generation and key of a row just ended, on a connection nobody holds).  Each conjunct is then
preserved by these two shapes (`ActiveUniqueStep`, `OneKeyStep`, `NewestStep`,
`LastStep`), and so are the action properties.

`Refinement` needs `ActiveUnique` again.  A transaction updates the rows an owner's
request can reach, and these are one live row or none (`AtMostOneRow`); the
rest of the table agrees before and after on what is live (`AgreesOutside`).
So at most one lease of the registry changes (`OneLeaseChanges`), and one lemma
per kind of write says how: `SweepStutters`, `RenewalExtends`, `EndingEnds`,
`AcquisitionGrants`, `TransitionMoves`.  That `last` grows by one with a grant and not
otherwise comes from `LastExists`.

`ProviderBreakerProofs` proves, for any set of requests and all values that
satisfy `BreakerAssumption`:

| Theorem | Statement |
|---|---|
| `BreakerInvariant` | `Spec => []BreakerInv`, the inductive invariant |
| `BreakerTypeCorrect`, `ProbesStayBounded`, `CountAgrees` | `TypeOK`, `ProbesBounded`, `StateMatchesCount` are invariants |
| `RestartHarmless`, `EscalationKept`, `CooldownKept` | the three action properties |

The argument.  `BreakerInv` adds two facts to the invariants the run checks: the
saved row is the breaker without its probe slots (`db = Persisted(mem)`),
without which nothing is known after a restart, and the probes are finitely
many.  `NextMoves` shows once that every step but a restart has the
shape `Moves`: the new breaker `Follows` the old one (state and count agree, a
probing period gives no slot back, the escalation is forgotten only by
closing), it is saved, and at most one request becomes a probe, against a slot.
`ProbesStep` and `RestartKeeps` conclude.

`ManagedRoutingProofs` proves, for any owners, connections and request slots:

| Theorem | Statement |
|---|---|
| `RoutingInvariant` | `RoutingSpec => []RoutingInv`, the inductive invariant |
| `RoutingTypeCorrect`, `ExclusiveUnderRequests` | `RoutingTypeOK`, and the store's `ActiveUnique` below the requests |
| `RegistryUnderRequests` | `RoutingSpec => ImplementsRegistry`: so the system implements the abstract registry |
| `StaleHarmless` | `StaleRequestIsHarmless` |
| `DispatchOrder` | `FencedDispatchOrder` |

The argument has three layers.  `RequestsFit` says what a request knows at each
await (a managed one has an owner and a key, one past selection a connection, and
so has one that is suspended while it hops).
So whatever a request or client asks of the store is one of the store's own
transactions (`StoreStep`), and the store's invariant, proved once in
`ExclusiveLeaseProofs`, holds below them.  The order of dispatches needs two more facts about
the store: generations do not outrun rows, and on each connection the ACTIVE row
is the newest.  Whoever passes the fence therefore holds the newest row of its
connection and the newest generation of its owner (`FenceIsLatest`), and what was
dispatched before is no newer.

`RefreshLaneProofs` proves, for any number of refreshes and groups, `LaneInvariant`,
`OneAtATime` (`LaneExclusive`) and `FirstComeFirstServed` (`TurnsInOrder`).  The
invariant is that the chain of promises is the line of arrivals: number i awaits
number i - 1, and the first awaits nobody (`Chain`).  Awaiting nobody thus means
being first (`FirstInLine`); the work is in `LeaveKeepsInv`, where everybody moves up.

Of quota reads, which are among the refreshes (`Quota \subseteq Calls`), the same
module proves `QuotaInvariant` and `QuotaReadsQueueUp`: they change the lane only by
its own steps, so that `LaneExclusive` and `TurnsInOrder` hold with them too.
`WedgeForGood` proves more than the run of section 5 shows: as soon as a quota read
waits for a refresh its lane is wedged, and from then on no order of events,
fair or not, gives a turn to anybody who waits in it.  To run, the refresh would have
to be first in a line whose first is the quota read (`HeldLaneWaits`).

`TokenRefreshProofs` proves, for any number of callers, connections, tokens and
attempts:

| Theorem | Statement |
|---|---|
| `TokenTypeCorrect` | `Spec => []TokenTypeOK`, without further assumption |
| `TokenInvariant` | if `~QuickRotations` and `"overlap" \notin Faults`: `Spec => []TokenInv`, the inductive invariant |
| `TokensSpentOnce`, `RotationsReachRow` | under the same assumptions `NoReuse` and `RowIsCurrent` are invariants |
| `NoPersistReverts`, `LeadersSpare` | and the action properties `RowNeverReverts`, `LeaderSparesAccount` |

`~QuickRotations` says that no token becomes due while its rotation is still
remembered: the map keeps a rotation for a minute, and providers issue tokens for
an hour and more, so only a request that is answered 401 within the minute
breaks it (section 5).  Attempts of one request that overlap share the flag and the
token of their request, which the invariant does not describe: with them,
`RowNeverReverts`, `LeaderSparesAccount` and `RefreshSettles` are model-checked only
(the other two make no claim once it has happened).  The argument: `Sound(c)` says what the row, the provider,
the rotation map and the callers of one connection know of one another, and a
step concerns one connection (`Untouched`).  A remembered rotation leads to
the newest token, which no caller holds yet (`MemoSound`); an answer on its way
is newer than whatever it may overwrite, or the row's own (`AnswerSound`); and as
long as nothing was lost, either the row or the map leads everybody to the newest
token, or a caller is about to write it (`RotatedSound`).  A sign-in starts a new
family beside answers of the old one, which is why most parts speak of families.

`BatchProcessorProofs` proves, for any number of batches, lines, slots, attempts
and restarts, `BatchInvariant`, `NothingReplayed` (`NoReplay`),
`CompletedAccounts` (`OutputComplete`), `CancellationStops` (`CancelBounds`),
`SlotsNeverShared` (`SlotsRespected`) and `EndedStaysEnded` (`StatusIsFinal`).  The
invariant is again batch by batch: what has begun is marked until the marks go
with the batch (`Marked`), a processor has collected exactly what is recorded of
the lines it has passed (`Collects`), its place and the status agree
(`InStep`), and the active batches are those with a processor.

`AccountSemaphoreProofs` proves, for any callers, gates, requirements and limits
that satisfy `SemaphoreAssumption`, and any number of cooldowns and resets:

| Theorem | Statement |
|---|---|
| `SemaphoreInvariant` | `Spec => []SemaphoreInv`, the inductive invariant |
| `SemaphoreTypeCorrect`, `QueuesFollowRequests`, `CountersAreTrue`, `NobodyWaitsForNothing` | `TypeOK`, `QueuesAgree`, `RunningIsHeld`, `WaitersAwaitPermits` are invariants |
| `LimitsRespected`, `FirstComeFirstAdmitted`, `DrainsLeaveNobody` | the action properties `AdmissionsFitUntilReset`, `NoOvertaking`, `NoWaiterLeftBehind` |

The argument is about loops.  A drain admits any number of waiters in one step,
and each admission changes who can go next.  `Drains(s, t)` is the loop's invariant:
from tables s, the admissions so far have led to sound tables t, took only waiters,
kept the order of arrival, overtook nobody, fitted every limit, and changed
counters and permits by the same amount.  One round keeps it (`RoundDrains`), and
either shortens `order` or finds nobody to admit (`RoundShortens`), so that after as many
rounds as there are requests nobody is admissible (`Stuck`, in `DrainedFacts`).  The induction over
rounds, here and for the loop of `reset` (`RejectedFacts`), is one over a *set* of
naturals (`SetInduction`, from the least element of its complement), because a
theorem about an operator could not be applied.  What follows a drain only sets
timers and deletes idle gates (`Tidied`).  Each action is then shown once to be a
`Step` to tables that keep the invariant and the action properties (`NextSteps`).

The invariant says of the counters what survives a reset.  Until then they equal the
permits.  Afterwards a permit may be released on a gate created anew, on which it
was never counted, so that a counter may fall short of the permits (`Missing`) but
never exceed them.  `WaitersAwaitPermits` follows from the end of every drain: if the first
in the order of arrival is at the head of all its queues, existing gates without
cooldown can hold it back only by being full (`StuckAwaits`), and a full gate whose
counter does not exceed its permits has permits out.  Therefore the invariant carries both, as long
as no cooldown was set.

Only model-checked are the liveness properties (`RequestTerminates`,
`WaitersSettle`, `LaneServes`, `RefreshSettles`, `BatchSettles`): fairness and
ENABLED are out of the installed provers' reach.  So are the refutations of section 5,
except that `WedgeForGood` states the third as a theorem.
All other properties of the passing runs are stated by a theorem.

## 5. Where code and documentation disagree

Three runs end in a counterexample:

* **Uninvited tenancy** (`routing_uninvited`).  A request whose lease ends during
  its preflight claims a *new* tenancy, because the claim re-reads the lease and
  acquires when there is none, also for inference requests.  Its own fence
  stops it, and the connection stays leased to a client that does not know it.
* **Wedged HALF_OPEN** (`breaker_wedge`).  A probe that ends in a neutral outcome
  (a plain 400, an aborted client, a local error) takes the last slot with it.
* **Wedged rotation lane** (`quota_refresh`).  The on-demand quota read holds the
  lane of its group while the executor it calls waits for the same lane
  (`credentialRefresh.ts:122`, `tokenRefresh.ts:700`): the group refreshes no
  token again until the process restarts (proved as `WedgeForGood`).

What else was met is stated in the modules or here, without a run of its own:

* `BindingRetained`: the OAuth occupancy rule overrides the preference for the
  live binding, although the bound connection is eligible.
* `AdmissionsFit`: a permit from before `resetAll` is released on the gate created
  after it, and one request too many is admitted; `AdmissionsFitUntilReset` holds.
* `RejectionIsNoFailure`: the breaker's own 503 is counted as a provider failure
  when the request runs out of accounts.
* `SparesHealthyAccount`: a request that joined a refresh shares its refusal,
  compares the row with the token *it* loaded, and deactivates an account that
  was re-authenticated while the refresh was under way (`chatCore.ts:4105`);
  `LeaderSparesAccount` holds.
* An attempt of a request that times out is not cancelled, and the next one runs
  beside it (`Overlap`).  If both rotate, the guard of the second compares the row
  with the token the request loaded first and skips the persist
  (`chatCore.ts:4019`), and the flag of the first suppresses the write outside the
  mutex (`chatCore.ts:4037`): the row keeps a spent token.  `RowIsCurrent` therefore
  speaks of behaviours without faults.
* A failed write of a rotated token is logged and forgotten
  (`src/sse/services/tokenRefresh.ts:190`): the row keeps the spent token, which is
  then presented again.  `NoReuse` and `RowIsCurrent` exclude it; `RowNeverReverts`
  and `LeaderSparesAccount` hold with it.
* With `QuickRotations = TRUE` a token can be presented twice: the map redirects a
  caller to a token that has itself been rotated within the minute
  (`tokenRefresh.ts:634`), and the row takes it (`chatCore.ts:4037`).
* The compare-and-swap guard compares the row with the token the request loaded,
  not with the one that was presented (`chatCore.ts:4020`), and what it skips
  inside the mutex the request writes outside it afterwards.
* A batch's output and error files are recorded only with its completion, so the
  deletion of such files in `recoverStaleBatch` never finds any; a batch without lines
  that is killed while finalizing is failed; one recovered without a free slot
  may expire; `failBatch` overwrites a cancellation; attempts of an item go on
  after one.  `StatusIsFinal` and `CancelBounds` say how far this goes.

## 6. Not modelled

Of the modelled components:

* Routing: forced connections and connection priorities, the lapse of an OAuth
  reservation whose request still runs (that of one which outlived its request
  is `ReservationLapses`), key-policy changes and the migrations that invalidate
  leases.  A combo is several calls of `handleSingleModelChat` for one HTTP request,
  the first selection of each made beforehand (`preselectedCredentials`); the model
  has one call per request, so that exclusions and retries never outlive it.
  Requests for the emergency provider's own models (they would be requests whose
  ordinary pool is `Emergency`), the second hop that follows a failed combo, and
  the account rotation inside the Antigravity executor, which claims nothing and
  which the fence stops, are left out.  When the selection claims at once
  (`SelectAndClaim`) it holds the selection lock and only microtasks pass between the
  look and the claim: a claim lost in them is not modelled.  An unmanaged request is never fenced, so it may use a connection that
  was leased while it waited.
* Semaphore: `isAccountSemaphoreFull` and statistics, which change nothing.
* Breaker: the registry (eviction, `resetAllCircuitBreakers`), `maxBackoffMultiplier`
  and `backoffEscalationCount` differing before combo accounting first sets them
  (the model has one value of each), changes of
  thresholds in the settings, failing database writes (the code swallows them),
  and `kindThresholds`, which no caller configures.
* Token refresh: the refresh circuit breaker (five failures stop a provider's
  refreshes for half an hour), callers without a connection id (none in
  production), Copilot sub-tokens, the manual refresh route, the sweep's backoff,
  writes that deactivate an account and fail.
* Batches: result files, usage totals and rate-limit headers (a pause is a free
  choice).  A kill within a poll: what its writes leave behind (a batch recovered
  but not started, or checkpoints marked pending before the row says
  `in_progress`) the next poll treats as it treats any waiting batch.

Hazards without a property are marked as such in `PROJECT.json`, with the reason.

Of the rest: model lockouts, combo routing, request deduplication, rate
limiting and background jobs have state worth modelling and are in the plan.
Session affinity, quota caches and admission lanes only restrict choices that
are free in the models above.  Translators, executors, the command line and the
user interface, which are by far the greater part of the repository's lines,
convert data or do I/O and share no state of the kind modelled here.

## 7. Plan

In order of importance:

1. `ProviderBreaker`: the registry with eviction and reset (breaker objects
   still held by running requests).
2. `TokenRefresh`: the refresh circuit breaker, and the rotation map without the
   assumption `~QuickRotations` if the map is made to follow chains of rotations.
3. `RequestDedup` and `RollingGate`: small modules with a reference definition.
4. `ModelLockout`: backoff and decay of account and model cooldowns, composed
   with `ManagedRouting` in place of the free `eligible`.
5. `JobRegistry`: claims, crashes and recovery of background jobs.
6. Combo routing: the target loop with its exhausted sets, composed with
   `ProviderBreaker`.
