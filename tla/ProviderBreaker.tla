-------------------------- MODULE ProviderBreaker --------------------------
(***************************************************************************)
(* The circuit breaker of one provider and the requests that use it.       *)
(*   src/src/shared/utils/circuitBreaker.ts                                *)
(*   src/src/sse/handlers/chatHelpers.ts, chat.ts, chatPredicates.ts       *)
(*   src/open-sse/services/accountFallback.ts (combo accounting)           *)
(* A request passes the gate, awaits its credentials, enters               *)
(* breaker.execute() and, another await later, is accounted by its call    *)
(* site.  The breaker's own methods are synchronous; requests, time,       *)
(* operators and restarts interleave between them.                         *)
(***************************************************************************)
EXTENDS Integers, FiniteSets

CONSTANTS
  Request,               \* concurrent requests for the provider
  FailureThreshold,      \* failureThreshold
  DegradationThreshold,  \* degradationThreshold
  HalfOpenRequests,      \* halfOpenRequests
  ResetTimeout,          \* resetTimeout, as the gate configures it
  DefaultTimeout,        \* resetTimeout of a breaker not configured yet
  EscalationCount,       \* backoffEscalationCount
  MaxMultiplier,         \* maxBackoffMultiplier
  HintCooldown,          \* cooldownByKind of a hinted 429
  MaxCycles              \* bound: openCycleCount is not told apart beyond

ASSUME BreakerAssumption ==
  /\ FailureThreshold \in Nat \ {0} /\ DegradationThreshold \in 1..FailureThreshold
  /\ HalfOpenRequests \in Nat \ {0}
  /\ ResetTimeout \in Nat \ {0} /\ DefaultTimeout \in Nat \ {0} /\ HintCooldown \in Nat
  /\ EscalationCount \in Nat /\ MaxMultiplier \in Nat \ {0}
  /\ MaxCycles \in Nat /\ MaxCycles > EscalationCount
  /\ 2 ^ (MaxCycles - EscalationCount) >= MaxMultiplier

VARIABLES
  mem,    \* the breaker object
  db,     \* its row in domain_circuit_breakers
  call,   \* call[c]: the request running in slot c
  probes  \* history: the requests that took a slot of the current HALF_OPEN
          \* period and have not ended

vars == <<mem, db, call, probes>>

Lesser(a, b) == IF a < b THEN a ELSE b
Greater(a, b) == IF a > b THEN a ELSE b

LongestCooldown ==
  Greater(HintCooldown, Greater(ResetTimeout, DefaultTimeout) * MaxMultiplier)

\* failures counts to the threshold, where nothing tells more failures apart;
\* since is the time since lastFailureTime, counted while OPEN, where alone it
\* is read; hinted: lastFailureKind has a cooldown of its own; configured: a gate
\* of this process has given the breaker its thresholds, timeout and cooldowns.
BreakerState ==
  [state : {"CLOSED", "DEGRADED", "OPEN", "HALF_OPEN"}, failures : 0..FailureThreshold,
   since : 0..LongestCooldown, hinted : BOOLEAN, cycles : 0..MaxCycles,
   slots : 0..HalfOpenRequests, configured : BOOLEAN]

\* Paths: a single-model request and a target of a combo, either of which may
\* have its connection forced ("forced", "pinned"): such a request bypasses the
\* breaker but is accounted.
Paths == {"single", "combo", "forced", "pinned"}
Bypassing == {"forced", "pinned"}
OfCombo == {"combo", "pinned"}

\* last: what became of the request's last attempt.
CallState ==
  [pc : {"idle", "admitted", "running", "succeeded", "failed"},
   path : Paths, last : {"none", "rejected", "sent"}]

NewCall(pc, path) == [pc |-> pc, path |-> path, last |-> "none"]

Idle == NewCall("idle", "single")

\* One type invariant.
TypeOK ==
  /\ mem \in BreakerState /\ db \in BreakerState
  /\ call \in [Request -> CallState]
  /\ probes \subseteq Request

-----------------------------------------------------------------------------
\* The breaker: what its methods make of a breaker b.

Fresh == [state |-> "CLOSED", failures |-> 0, since |-> 0, hinted |-> FALSE,
          cycles |-> 0, slots |-> 0, configured |-> FALSE]

\* getCircuitBreaker with the options of checkPipelineGates.
Configured(b) == [b EXCEPT !.configured = TRUE]

\* _effectiveResetTimeout: doubled for each cycle beyond EscalationCount.
EffectiveResetTimeout(b) ==
  (IF b.configured THEN ResetTimeout ELSE DefaultTimeout)
    * Lesser(MaxMultiplier, 2 ^ Greater(0, b.cycles - EscalationCount))

\* _effectiveCooldown.
Cooldown(b) ==
  IF b.hinted /\ b.configured THEN HintCooldown ELSE EffectiveResetTimeout(b)

\* _refreshOpenState.
Refreshed(b) ==
  IF b.state = "OPEN" /\ b.since >= Cooldown(b)
    THEN [b EXCEPT !.state = "HALF_OPEN", !.slots = HalfOpenRequests]
    ELSE b

CanExecuteAnySlot(b) == b.state # "OPEN" \* mutant: halfOpenAllowed is not looked at

\* canExecute, after its refresh.
CanExecute(b) == b.state \in {"CLOSED", "DEGRADED"} \/ (b.state = "HALF_OPEN" /\ b.slots > 0)

SuccessKeepsCount(b) == \* mutant: a successful probe leaves the failures counted
  IF b.state \in {"OPEN", "HALF_OPEN"} THEN [b EXCEPT !.state = "CLOSED", !.cycles = 0]
  ELSE [b EXCEPT !.failures = Greater(0, @ - 1)]

\* _onSuccess: a slow answer closes even an OPEN breaker.
Success(b) ==
  IF b.state \in {"OPEN", "HALF_OPEN"}
    THEN [b EXCEPT !.state = "CLOSED", !.failures = 0, !.hinted = FALSE, !.cycles = 0]
    ELSE LET f == Greater(0, b.failures - 1)
         IN  [b EXCEPT !.failures = f,
                       !.state = IF @ = "DEGRADED" /\ f <= DegradationThreshold
                                   THEN "CLOSED" ELSE @]

\* _onFailure.
Failure(b, hint) ==
  LET f == Lesser(b.failures + 1, FailureThreshold)
  IN  [b EXCEPT
         !.failures = f, !.since = 0, !.hinted = hint,
         !.cycles = IF b.state = "HALF_OPEN" THEN Lesser(@ + 1, MaxCycles) ELSE @,
         !.state = IF @ \in {"OPEN", "HALF_OPEN"} \/ f >= FailureThreshold THEN "OPEN"
                   ELSE IF f >= DegradationThreshold THEN "DEGRADED" ELSE @]

\* _persistToDb: the probe slots are not saved, the settings not read back.
Persisted(b) == [b EXCEPT !.slots = 0, !.configured = FALSE]

RestoredCold(b) == [b EXCEPT !.cycles = 0] \* mutant: openCycleCount is not restored

\* _restoreFromDb.
Restored(b) == IF b.state = "HALF_OPEN" THEN [b EXCEPT !.slots = HalfOpenRequests] ELSE b

-----------------------------------------------------------------------------
\* Steps of requests.

BecomeUnsaved(b) == \* mutant: the change to HALF_OPEN is not saved
  mem' = b /\ db' = IF b.state = "HALF_OPEN" THEN db ELSE Persisted(b)

\* The breaker becomes b; every method that changes more than slots saves.
Become(b) == mem' = b /\ db' = Persisted(b)

\* The probes of an earlier HALF_OPEN period do not count for a new one.
Current(b) == IF b.state = "HALF_OPEN" /\ mem.state # "HALF_OPEN" THEN {} ELSE probes

\* Request c goes on as k after the breaker became b.
Step(c, k, b) ==
  /\ Become(b)
  /\ call' = [call EXCEPT ![c] = k]
  /\ probes' = Current(b) \ (IF k.pc = "idle" THEN {c} ELSE {})

At(c, pc) == [call[c] EXCEPT !.pc = pc]

\* checkPipelineGates, which configures the breaker first.  A single-model
\* request just answers the 503, a combo accounts it as a failed target.
Gate(c, path) ==
  LET b == Refreshed(Configured(mem)) IN
  /\ call[c].pc = "idle"
  /\ Step(c, IF path \in Bypassing \/ CanExecute(b) THEN NewCall("admitted", path)
             ELSE IF path \in OfCombo THEN NewCall("failed", path) ELSE Idle, b)

SlotsNotTaken(b) == b \* mutant: halfOpenAllowed is not counted down

\* A probe takes a slot.
SlotsAfter(b) == IF b.state = "HALF_OPEN" THEN [b EXCEPT !.slots = @ - 1] ELSE b

\* breaker.execute() begins.
Enter(c) ==
  LET b == Refreshed(mem) IN
  /\ call[c].pc = "admitted" /\ call[c].path \notin Bypassing /\ CanExecute(b)
  /\ Become(SlotsAfter(b))
  /\ call' = [call EXCEPT ![c].pc = "running", ![c].last = "sent"]
  /\ probes' = Current(b) \union (IF b.state = "HALF_OPEN" THEN {c} ELSE {})

\* breaker.execute() throws CircuitBreakerOpenError, answered with a 503 that
\* has no error code; like a provider's 503 it is tried on another account.
Reject(c) ==
  LET b == Refreshed(mem) IN
  /\ call[c].pc = "admitted" /\ call[c].path \notin Bypassing /\ ~CanExecute(b)
  /\ Step(c, [call[c] EXCEPT !.last = "rejected"], b)

Bypass(c) ==
  /\ call[c].pc = "admitted" /\ call[c].path \in Bypassing
  /\ Step(c, [At(c, "running") EXCEPT !.last = "sent"], mem)

\* No account is left to try.  If the last error, or that of the accounts in
\* cooldown, had a provider status, the request counts as a failure here, and
\* for a combo once more at its target.  The breaker's own 503 is such a status.
Exhausted(c) ==
  /\ call[c].pc = "admitted"
  /\ \E b \in {mem, Failure(mem, FALSE)} :
       Step(c, IF call[c].path \in OfCombo THEN At(c, "failed") ELSE Idle, b)

\* The dispatched request throws.  Only isFailure errors count; an unreachable
\* proxy counts and is then answered with a 503 that the call site sees too.
Throw(c) ==
  /\ call[c].pc = "running"
  /\ \E b \in {mem} \union (IF call[c].path \in Bypassing THEN {}
                            ELSE {Failure(mem, hint) : hint \in BOOLEAN}) :
       \E k \in {Idle, At(c, "failed")} : Step(c, k, b)

\* The dispatched request resolves, which execute() ignores: an answer, a
\* provider failure, anything else (a 4xx, an aborted client, ...), or a
\* failure that moves the request on to another account or a second try.
Resolve(c) ==
  /\ call[c].pc = "running"
  /\ \E k \in {At(c, "succeeded"), At(c, "failed"), Idle}
              \union (IF call[c].path \in Bypassing THEN {} ELSE {At(c, "admitted")}) :
       Step(c, k, mem)

-----------------------------------------------------------------------------
\* Accounting at the call site.

\* recordProviderSuccess: nothing while OPEN.
ComboSuccess == LET b == Refreshed(mem) IN IF b.state = "OPEN" THEN b ELSE Success(b)

ComboFailureAnyway == Failure(Refreshed(mem), FALSE) \* mutant: OPEN is not looked at

\* recordProviderFailure: nothing while the breaker lets nobody in.
ComboFailure ==
  LET b == Refreshed(mem) IN IF CanExecute(b) THEN Failure(b, FALSE) ELSE b

Succeed(c) ==
  /\ call[c].pc = "succeeded"
  /\ Step(c, Idle, IF call[c].path \in OfCombo THEN ComboSuccess ELSE Success(mem))

\* Combos drop failures repeated within a short time and those followed by a
\* target of the same provider.
Fail(c) ==
  /\ call[c].pc = "failed"
  /\ IF call[c].path \in OfCombo
       THEN \E b \in {mem, ComboFailure} : Step(c, Idle, b)
       ELSE Step(c, Idle, Failure(mem, FALSE))

-----------------------------------------------------------------------------

\* getStatus and getRetryAfterMs, called by dashboards and routing, also of a
\* breaker restored from its row that no gate has configured yet.
Observe == Become(Refreshed(mem)) /\ probes' = Current(Refreshed(mem)) /\ UNCHANGED call

\* reset, by an operator.
Reset ==
  /\ Become([Fresh EXCEPT !.slots = mem.slots, !.configured = mem.configured])
  /\ UNCHANGED <<call, probes>>

\* The process dies and a new one reads the row.
Restart ==
  /\ mem' = Restored(db) /\ db' = db
  /\ call' = [c \in Request |-> Idle]
  /\ probes' = {}

Aged(b) ==
  [b EXCEPT !.since = IF b.state = "OPEN" THEN Lesser(@ + 1, LongestCooldown) ELSE @]

Tick == mem' = Aged(mem) /\ db' = Aged(db) /\ UNCHANGED <<call, probes>>

Init ==
  /\ mem = Fresh /\ db = Fresh
  /\ call = [c \in Request |-> Idle]
  /\ probes = {}

Next ==
  \/ \E c \in Request :
       \/ \E path \in Paths : Gate(c, path)
       \/ Enter(c) \/ Reject(c) \/ Bypass(c) \/ Exhausted(c)
       \/ Throw(c) \/ Resolve(c)
       \/ Succeed(c) \/ Fail(c)
  \/ Observe \/ Reset \/ Restart \/ Tick

Spec == Init /\ [][Next]_vars

-----------------------------------------------------------------------------
\* Properties.

\* "Probing: limited requests allowed to test recovery": the probes under way
\* and the slots still free never exceed the limit, whatever stale requests of
\* earlier periods, restarts and retries on other accounts go through.
ProbesBounded ==
  mem.state = "HALF_OPEN" => mem.slots + Cardinality(probes) <= HalfOpenRequests

\* The state and the count that is to bring about the next state agree, also
\* after out-of-order answers: a closed breaker never carries a count that
\* should have degraded or opened it.
StateMatchesCount ==
  /\ mem.state = "CLOSED" => mem.failures <= DegradationThreshold
  /\ mem.state \in {"CLOSED", "DEGRADED"} => mem.failures < FailureThreshold
  /\ mem.state = "DEGRADED" => mem.failures >= DegradationThreshold

\* A restart, at whatever moment, loses nothing but the probe slots taken and
\* the settings, which the next gate brings back.
RestartIsInvisible ==
  [][Restart => Persisted(mem') = Persisted(mem)]_vars

\* A provider that keeps failing its probes waits longer and longer: its
\* escalation is forgotten only by a success or an operator.
EscalationSurvives == [][mem'.cycles < mem.cycles => mem'.state = "CLOSED"]_vars

\* "If the breaker is already OPEN (in cooldown), we skip recording the failure
\* to prevent resetting the cooldown timer": a combo never prolongs a cooldown
\* by accounting a target.
ComboKeepsCooldown ==
  [][\A c \in Request :
       /\ call[c].path \in OfCombo /\ call[c].pc = "failed"
       /\ call'[c] # call[c] /\ Refreshed(mem).state = "OPEN"
       => mem'.state = "OPEN" /\ mem'.since = mem.since]_vars

\* "HALF_OPEN - Probing": while it lets nobody in, a probe is under way whose
\* outcome decides.
HalfOpenHasProbe == mem.state = "HALF_OPEN" /\ mem.slots = 0 => probes # {}

\* A "circuit-breaker-open response ... is an OmniRoute resilience signal, NOT a
\* per-connection upstream failure": a request whose last attempt was rejected
\* by the breaker neither prolongs the cooldown nor fails the probe under way
\* when it gives up.
RejectionIsNoFailure ==
  [][\A c \in Request :
       /\ call[c].pc = "admitted" /\ call[c].last = "rejected" /\ ~CanExecute(mem)
       /\ call'[c].pc \in {"idle", "failed"} /\ ~Restart
       => mem' = mem]_vars

=============================================================================
