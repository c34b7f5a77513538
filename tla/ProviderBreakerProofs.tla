------------------------ MODULE ProviderBreakerProofs ------------------------
(***************************************************************************)
(* The safety properties of ProviderBreaker hold for every set of          *)
(* concurrent requests, every threshold, probe limit and cooldown.         *)
(*                                                                         *)
(* The argument: whatever a step does, the breaker becomes a state that    *)
(* follows from the current one (operator Follows), and what keeps the     *)
(* inductive invariant BreakerInv is only that.  A restart is such a step  *)
(* because the saved row is always the breaker without its probe slots.    *)
(***************************************************************************)
EXTENDS ProviderBreaker, FiniteSetTheorems, TLAPS

\* State and failure count of breaker b agree, as StateMatchesCount has it.
Consistent(b) ==
  /\ b.state = "CLOSED" => b.failures <= DegradationThreshold
  /\ b.state \in {"CLOSED", "DEGRADED"} => b.failures < FailureThreshold
  /\ b.state = "DEGRADED" => b.failures >= DegradationThreshold

\* Breaker b may come after breaker a: a probing period gives no slot back, and
\* the escalation is forgotten only by closing.
Follows(a, b) ==
  /\ b \in BreakerState
  /\ Consistent(b)
  /\ a.state = "HALF_OPEN" /\ b.state = "HALF_OPEN" => b.slots <= a.slots
  /\ b.cycles < a.cycles => b.state = "CLOSED"

BreakerInv ==
  /\ TypeOK
  /\ db = Persisted(mem)
  /\ IsFiniteSet(probes)
  /\ ProbesBounded
  /\ StateMatchesCount

-----------------------------------------------------------------------------
\* What the methods of the breaker return.

\* The longest cooldown bounds a range of numbers.
LEMMA LongestIsNat == LongestCooldown \in Nat
BY BreakerAssumption DEF LongestCooldown, Greater

\* A refresh changes at most the state and the slots.
LEMMA RefreshFollows ==
  ASSUME NEW b \in BreakerState, Consistent(b)
  PROVE  /\ Follows(b, Refreshed(b))
         /\ Refreshed(b).state = "HALF_OPEN" /\ b.state # "HALF_OPEN"
              => Refreshed(b).slots = HalfOpenRequests
         /\ Refreshed(b).state = "OPEN" => Refreshed(b) = b
         /\ b.state = "HALF_OPEN" => Refreshed(b) = b
         /\ Refreshed(b).cycles = b.cycles
<1>1. CASE b.state = "OPEN" /\ b.since >= Cooldown(b)
  <2>1. Refreshed(b) =
          [state |-> "HALF_OPEN", failures |-> b.failures, since |-> b.since,
           hinted |-> b.hinted, cycles |-> b.cycles, slots |-> HalfOpenRequests,
           configured |-> b.configured]
    BY <1>1 DEF BreakerState, Refreshed
  <2> QED
    BY <1>1, <2>1, BreakerAssumption DEF BreakerState, Consistent, Follows
<1>2. CASE ~(b.state = "OPEN" /\ b.since >= Cooldown(b))
  <2>1. Refreshed(b) = b
    BY <1>2 DEF Refreshed
  <2> QED
    BY <2>1 DEF BreakerState, Follows
<1> QED
  BY <1>1, <1>2

\* A success closes the breaker or lowers the count; it never makes it probe.
LEMMA SuccessFollows ==
  ASSUME NEW b \in BreakerState, Consistent(b)
  PROVE  Follows(b, Success(b)) /\ Success(b).state # "HALF_OPEN"
<1>1. CASE b.state \in {"OPEN", "HALF_OPEN"}
  <2>1. Success(b) =
          [state |-> "CLOSED", failures |-> 0, since |-> b.since,
           hinted |-> FALSE, cycles |-> 0, slots |-> b.slots,
           configured |-> b.configured]
    BY <1>1 DEF BreakerState, Success
  <2> QED
    BY <2>1, BreakerAssumption DEF BreakerState, Consistent, Follows
<1>2. CASE b.state \in {"CLOSED", "DEGRADED"}
  <2> DEFINE f == Greater(0, b.failures - 1)
  <2>1. f \in 0..FailureThreshold /\ f <= b.failures /\ (b.failures > f \/ f = 0)
        /\ b.failures <= f + 1
    BY BreakerAssumption DEF BreakerState, Greater
  <2>2. Success(b) =
          [state |-> IF b.state = "DEGRADED" /\ f <= DegradationThreshold THEN "CLOSED"
                     ELSE b.state,
           failures |-> f, since |-> b.since,
           hinted |-> b.hinted, cycles |-> b.cycles, slots |-> b.slots,
           configured |-> b.configured]
    BY <1>2 DEF BreakerState, Success
  <2> HIDE DEF f
  <2> QED
    BY <1>2, <2>1, <2>2, BreakerAssumption DEF BreakerState, Consistent, Follows
<1> QED
  BY <1>1, <1>2 DEF BreakerState

\* A failure keeps state and count in step; it never makes the breaker probe.
LEMMA FailureFollows ==
  ASSUME NEW b \in BreakerState, Consistent(b), NEW hint \in BOOLEAN
  PROVE  Follows(b, Failure(b, hint)) /\ Failure(b, hint).state # "HALF_OPEN"
<1> DEFINE f == Lesser(b.failures + 1, FailureThreshold)
           n == IF b.state = "HALF_OPEN" THEN Lesser(b.cycles + 1, MaxCycles) ELSE b.cycles
           s == IF b.state \in {"OPEN", "HALF_OPEN"} \/ f >= FailureThreshold THEN "OPEN"
                ELSE IF f >= DegradationThreshold THEN "DEGRADED" ELSE b.state
<1>1. f \in 0..FailureThreshold
  BY BreakerAssumption DEF BreakerState, Lesser
<1>2. n \in 0..MaxCycles /\ n >= b.cycles
  BY BreakerAssumption DEF BreakerState, Lesser
<1>3. Failure(b, hint) =
        [state |-> s, failures |-> f, since |-> 0, hinted |-> hint, cycles |-> n,
         slots |-> b.slots, configured |-> b.configured]
  <2>1. Failure(b, hint) = [b EXCEPT !.failures = f, !.since = 0, !.hinted = hint,
                                     !.cycles = n, !.state = s]
    BY DEF Failure
  <2> HIDE DEF f, n, s
  <2> QED
    BY <2>1 DEF BreakerState
<1>4. /\ s \in {"CLOSED", "DEGRADED", "OPEN"}
      /\ s = "CLOSED" => f <= DegradationThreshold
      /\ s \in {"CLOSED", "DEGRADED"} => f < FailureThreshold
      /\ s = "DEGRADED" => f >= DegradationThreshold
  <2> HIDE DEF f
  <2>1. b.state \in {"CLOSED", "DEGRADED", "OPEN", "HALF_OPEN"}
    BY DEF BreakerState
  <2>2. b.state = "DEGRADED" => f >= DegradationThreshold
    BY BreakerAssumption DEF f, BreakerState, Consistent, Lesser
  <2> QED
    BY <1>1, <2>1, <2>2, BreakerAssumption
<1>5. 0 \in 0..LongestCooldown
  BY LongestIsNat
<1> HIDE DEF f, n, s
<1> QED
  BY <1>1, <1>2, <1>3, <1>4, <1>5, BreakerAssumption DEF BreakerState, Consistent, Follows

\* A request that may execute takes a slot if there are slots to take.
LEMMA SlotFollows ==
  ASSUME NEW b \in BreakerState, Consistent(b), CanExecute(b)
  PROVE  /\ Follows(b, SlotsAfter(b))
         /\ SlotsAfter(b).state = b.state
         /\ b.state = "HALF_OPEN" => SlotsAfter(b).slots = b.slots - 1
BY BreakerAssumption DEF BreakerState, Consistent, Follows, SlotsAfter, CanExecute

\* Time changes no state and no slot.
LEMMA AgeFollows ==
  ASSUME NEW b \in BreakerState, Consistent(b)
  PROVE  Follows(b, Aged(b)) /\ Aged(b).state = b.state /\ Aged(b).slots = b.slots
BY LongestIsNat DEF BreakerState, Consistent, Follows, Aged, Lesser

\* A breaker with other slots and settings, field by field.
LEMMA FieldsOf ==
  ASSUME NEW b \in BreakerState, NEW n, NEW z
  PROVE  [b EXCEPT !.slots = n, !.configured = z] =
           [state |-> b.state, failures |-> b.failures, since |-> b.since,
            hinted |-> b.hinted, cycles |-> b.cycles, slots |-> n, configured |-> z]
<1>1. PICK d : d = [b EXCEPT !.slots = n]
  OBVIOUS
<1>2. d = [state |-> b.state, failures |-> b.failures, since |-> b.since,
           hinted |-> b.hinted, cycles |-> b.cycles, slots |-> n,
           configured |-> b.configured]
  BY <1>1 DEF BreakerState
<1>3. [d EXCEPT !.configured = z] =
        [state |-> b.state, failures |-> b.failures, since |-> b.since,
         hinted |-> b.hinted, cycles |-> b.cycles, slots |-> n, configured |-> z]
  BY <1>2
<1>4. [b EXCEPT !.slots = n, !.configured = z] = [d EXCEPT !.configured = z]
  BY <1>1
<1> QED
  BY <1>3, <1>4

\* What is saved is a breaker that agrees with the one in memory but for slots.
LEMMA PersistedIs ==
  ASSUME NEW b \in BreakerState
  PROVE  /\ Persisted(b) \in BreakerState
         /\ Persisted(b).state = b.state /\ Persisted(b).failures = b.failures
         /\ Persisted(b).since = b.since /\ Persisted(b).hinted = b.hinted
         /\ Persisted(b).cycles = b.cycles /\ Persisted(b).slots = 0
         /\ Persisted(b).configured = FALSE
<1>1. Persisted(b) =
        [state |-> b.state, failures |-> b.failures, since |-> b.since,
         hinted |-> b.hinted, cycles |-> b.cycles, slots |-> 0, configured |-> FALSE]
  BY FieldsOf DEF Persisted
<1> QED
  BY <1>1, BreakerAssumption DEF BreakerState

\* Breakers that differ in slots and settings only are saved alike.
LEMMA PersistedAlike ==
  ASSUME NEW a \in BreakerState, NEW b \in BreakerState,
         a.state = b.state, a.failures = b.failures, a.since = b.since,
         a.hinted = b.hinted, a.cycles = b.cycles
  PROVE  Persisted(a) = Persisted(b)
<1>1. \A d \in BreakerState : Persisted(d) =
        [state |-> d.state, failures |-> d.failures, since |-> d.since,
         hinted |-> d.hinted, cycles |-> d.cycles, slots |-> 0, configured |-> FALSE]
  BY FieldsOf DEF Persisted
<1> QED
  BY <1>1

\* What follows from the refreshed breaker follows from the breaker.
LEMMA AfterRefresh ==
  ASSUME NEW a \in BreakerState, Consistent(a), NEW b, Follows(Refreshed(a), b)
  PROVE  Follows(a, b)
BY RefreshFollows DEF Follows

\* A gate changes nothing of a breaker but its settings.
LEMMA ConfiguredFollows ==
  ASSUME NEW b \in BreakerState, Consistent(b)
  PROVE  /\ Configured(b) \in BreakerState /\ Consistent(Configured(b))
         /\ Follows(b, Refreshed(Configured(b)))
<1>1. /\ Configured(b) \in BreakerState
      /\ Configured(b).state = b.state /\ Configured(b).failures = b.failures
      /\ Configured(b).cycles = b.cycles /\ Configured(b).slots = b.slots
  BY DEF Configured, BreakerState
<1>2. Consistent(Configured(b))
  BY <1>1 DEF Consistent
<1>3. Follows(Configured(b), Refreshed(Configured(b)))
  BY <1>1, <1>2, RefreshFollows
<1> QED
  BY <1>1, <1>2, <1>3 DEF Follows

\* A breaker may stay as it is.
LEMMA SameFollows ==
  ASSUME NEW b \in BreakerState, Consistent(b)
  PROVE  Follows(b, b)
BY BreakerAssumption DEF Follows, BreakerState

\* What a combo's accounting makes of the breaker follows from it.
LEMMA ComboFollows ==
  ASSUME mem \in BreakerState, Consistent(mem)
  PROVE  Follows(mem, ComboSuccess) /\ Follows(mem, ComboFailure)
<1> DEFINE b == Refreshed(mem)
<1>1. b \in BreakerState /\ Consistent(b) /\ Follows(mem, b)
  BY RefreshFollows DEF Follows
<1>2. Follows(b, Success(b)) /\ Follows(b, Failure(b, FALSE))
  BY <1>1, SuccessFollows, FailureFollows
<1>3. Follows(mem, Success(b)) /\ Follows(mem, Failure(b, FALSE))
  BY <1>2, AfterRefresh
<1> QED
  BY <1>1, <1>3 DEF ComboSuccess, ComboFailure

-----------------------------------------------------------------------------
\* What a step does, seen from the breaker and from the probes.

\* A step other than a restart: the breaker follows, it is saved, requests go
\* on or end, and at most one request becomes a probe, which takes a slot.
Moves ==
  /\ Follows(mem, mem')
  /\ db' = Persisted(mem')
  /\ call' \in [Request -> CallState]
  /\ \/ \E D : probes' = Current(mem') \ D
     \/ \E c \in Request :
          /\ probes' = Current(mem') \union {c}
          /\ mem'.slots + 1 <= IF mem.state = "HALF_OPEN" THEN mem.slots ELSE HalfOpenRequests

\* A request that goes on after an answer, a refusal or a failure.
LEMMA StepMoves ==
  ASSUME BreakerInv, NEW c \in Request, NEW k \in CallState, NEW b, Follows(mem, b),
         Step(c, k, b)
  PROVE  Moves
<1>1. mem' = b /\ db' = Persisted(b)
  BY DEF Step, Become
<1>2. call' \in [Request -> CallState]
  BY DEF Step, BreakerInv, TypeOK
<1>3. \E D : probes' = Current(mem') \ D
  BY <1>1 DEF Step
<1> QED
  BY <1>1, <1>2, <1>3 DEF Moves

\* The states that requests go on in are well formed.
LEMMA CallStates ==
  ASSUME BreakerInv, NEW c \in Request
  PROVE  /\ Idle \in CallState
         /\ \A pc \in {"admitted", "failed"}, path \in Paths :
              NewCall(pc, path) \in CallState
         /\ \A pc \in {"idle", "admitted", "running", "succeeded", "failed"} :
              At(c, pc) \in CallState
         /\ [call[c] EXCEPT !.last = "rejected"] \in CallState
         /\ [At(c, "running") EXCEPT !.last = "sent"] \in CallState
<1>1. call[c] \in CallState
  BY DEF BreakerInv, TypeOK
<1>2. Idle \in CallState
      /\ \A pc \in {"admitted", "failed"}, path \in Paths :
           NewCall(pc, path) \in CallState
  BY DEF Idle, NewCall, CallState, Paths
<1>3. \A pc \in {"idle", "admitted", "running", "succeeded", "failed"} :
        At(c, pc) \in CallState
  BY <1>1 DEF At, CallState
<1>4. \A k \in CallState : \A what \in {"rejected", "sent"} :
        [k EXCEPT !.last = what] \in CallState
  BY DEF CallState
<1> QED
  BY <1>1, <1>2, <1>3, <1>4

\* The breaker under BreakerInv, its refresh, and what may come of both.
LEMMA Successors ==
  ASSUME BreakerInv
  PROVE  /\ mem \in BreakerState /\ Consistent(mem)
         /\ Follows(mem, mem) /\ Follows(mem, Refreshed(mem)) /\ Follows(mem, Success(mem))
         /\ Follows(mem, Refreshed(Configured(mem)))
         /\ \A hint \in BOOLEAN : Follows(mem, Failure(mem, hint))
         /\ Follows(mem, ComboSuccess) /\ Follows(mem, ComboFailure)
<1>1. mem \in BreakerState /\ Consistent(mem)
  BY DEF BreakerInv, TypeOK, StateMatchesCount, Consistent
<1> QED
  BY <1>1, SameFollows, RefreshFollows, ConfiguredFollows, SuccessFollows, FailureFollows, ComboFollows

\* The request that enters execute() takes a slot of the probing period.
LEMMA EnterMoves ==
  ASSUME BreakerInv, NEW c \in Request, Enter(c)
  PROVE  Moves
<1> DEFINE b == Refreshed(mem)
<1>1. mem \in BreakerState /\ Consistent(mem) /\ b \in BreakerState /\ Consistent(b)
  BY Successors DEF Follows
<1>2. CanExecute(b) /\ mem' = SlotsAfter(b) /\ db' = Persisted(mem')
  BY DEF Enter, Become
<1>3. Follows(mem, mem')
  <2>1. Follows(b, SlotsAfter(b))
    BY <1>1, <1>2, SlotFollows
  <2> QED
    BY <1>1, <1>2, <2>1, AfterRefresh
<1>4. call' \in [Request -> CallState]
  <2>1. \A k \in CallState : [k EXCEPT !.pc = "running", !.last = "sent"] \in CallState
    <3> SUFFICES ASSUME NEW k \in CallState
                 PROVE  [k EXCEPT !.pc = "running", !.last = "sent"] \in CallState
      OBVIOUS
    <3>1. PICK running : running = [k EXCEPT !.pc = "running"]
      OBVIOUS
    <3>2. running \in CallState
      BY <3>1 DEF CallState
    <3>3. [k EXCEPT !.pc = "running", !.last = "sent"] = [running EXCEPT !.last = "sent"]
      BY <3>1
    <3> QED
      BY <3>2, <3>3 DEF CallState
  <2>2. call' = [call EXCEPT ![c] = [call[c] EXCEPT !.pc = "running", !.last = "sent"]]
    BY DEF Enter, BreakerInv, TypeOK, CallState
  <2> QED
    BY <2>1, <2>2 DEF BreakerInv, TypeOK
<1>5. mem'.state = b.state /\ (b.state = "HALF_OPEN" => mem'.slots = b.slots - 1)
  BY <1>1, <1>2, SlotFollows
<1>6. Current(b) = Current(mem')
  BY <1>5 DEF Current
<1>7. CASE b.state = "HALF_OPEN"
  <2>1. probes' = Current(mem') \union {c}
    BY <1>6, <1>7 DEF Enter
  <2>2. b.slots <= IF mem.state = "HALF_OPEN" THEN mem.slots ELSE HalfOpenRequests
    BY <1>1, <1>7, RefreshFollows, BreakerAssumption DEF BreakerState
  <2>3. mem'.slots + 1 = b.slots
    BY <1>1, <1>5, <1>7 DEF BreakerState
  <2> QED
    BY <1>2, <1>3, <1>4, <2>1, <2>2, <2>3 DEF Moves
<1>8. CASE b.state # "HALF_OPEN"
  <2>1. probes' = Current(mem') \ {}
    BY <1>6, <1>8 DEF Enter
  <2> QED
    BY <1>2, <1>3, <1>4, <2>1 DEF Moves
<1> QED
  BY <1>7, <1>8

\* Every step of the specification moves, or is a restart.
LEMMA NextMoves ==
  ASSUME BreakerInv, [Next]_vars
  PROVE  Restart \/ Moves
<1> USE Successors
<1>1. ASSUME NEW c \in Request, NEW path \in Paths, Gate(c, path)
      PROVE  Moves
  BY <1>1, CallStates, StepMoves DEF Gate
<1>2. ASSUME NEW c \in Request, Reject(c)
      PROVE  Moves
  BY <1>2, CallStates, StepMoves DEF Reject
<1>3. ASSUME NEW c \in Request, Bypass(c)
      PROVE  Moves
  BY <1>3, CallStates, StepMoves DEF Bypass
<1>4. ASSUME NEW c \in Request, Exhausted(c)
      PROVE  Moves
  BY <1>4, CallStates, StepMoves DEF Exhausted
<1>5. ASSUME NEW c \in Request, Throw(c)
      PROVE  Moves
  BY <1>5, CallStates, StepMoves DEF Throw
<1>6. ASSUME NEW c \in Request, Resolve(c)
      PROVE  Moves
  BY <1>6, CallStates, StepMoves DEF Resolve
<1>7. ASSUME NEW c \in Request, Succeed(c)
      PROVE  Moves
  BY <1>7, CallStates, StepMoves DEF Succeed
<1>8. ASSUME NEW c \in Request, Fail(c)
      PROVE  Moves
  BY <1>8, CallStates, StepMoves DEF Fail
<1>9. CASE Observe
  <2>1. probes' = Current(mem') \ {}
    BY <1>9 DEF Observe, Become
  <2> QED
    BY <1>9, <2>1 DEF Observe, Become, Moves, BreakerInv, TypeOK
<1>10. CASE Reset
  <2>1. [Fresh EXCEPT !.slots = mem.slots, !.configured = mem.configured] =
          [state |-> "CLOSED", failures |-> 0, since |-> 0, hinted |-> FALSE,
           cycles |-> 0, slots |-> mem.slots, configured |-> mem.configured]
    <3>1. Fresh \in BreakerState
      BY BreakerAssumption, LongestIsNat DEF Fresh, BreakerState
    <3>2. \A b \in BreakerState :
            [b EXCEPT !.slots = mem.slots, !.configured = mem.configured] =
              [state |-> b.state, failures |-> b.failures, since |-> b.since,
               hinted |-> b.hinted, cycles |-> b.cycles, slots |-> mem.slots,
               configured |-> mem.configured]
      BY FieldsOf
    <3> QED
      BY <3>1, <3>2 DEF Fresh
  <2>2. mem' = [Fresh EXCEPT !.slots = mem.slots, !.configured = mem.configured]
        /\ db' = Persisted(mem')
    BY <1>10 DEF Reset, Become
  <2>3. Follows(mem, mem')
    <3>1. mem.slots \in 0..HalfOpenRequests
      BY DEF BreakerState
    <3>2. mem' = [state |-> "CLOSED", failures |-> 0, since |-> 0, hinted |-> FALSE,
                  cycles |-> 0, slots |-> mem.slots, configured |-> mem.configured]
      BY <2>1, <2>2
    <3>3. mem' \in BreakerState
      BY <3>1, <3>2, BreakerAssumption, LongestIsNat DEF BreakerState
    <3> QED
      BY <3>2, <3>3, BreakerAssumption DEF Follows, Consistent
  <2>4. probes' = Current(mem') \ {}
    BY <1>10, <2>1, <2>2 DEF Reset, Current
  <2> QED
    BY <1>10, <2>2, <2>3, <2>4 DEF Reset, Moves, BreakerInv, TypeOK
<1>11. CASE Tick
  <2>1. mem' = Aged(mem) /\ db' = Aged(Persisted(mem))
    BY <1>11 DEF Tick, BreakerInv
  <2>2. Follows(mem, mem') /\ mem'.state = mem.state
    BY <2>1, AgeFollows
  <2>3. db' = Persisted(mem')
    BY <2>1, LongestIsNat DEF Aged, Persisted, BreakerState
  <2>4. probes' = Current(mem') \ {}
    BY <1>11, <2>2 DEF Tick, Current
  <2> QED
    BY <1>11, <2>2, <2>3, <2>4 DEF Tick, Moves, BreakerInv, TypeOK
<1>12. CASE UNCHANGED vars
  <2>1. probes' = Current(mem') \ {}
    BY <1>12 DEF vars, Current
  <2> QED
    BY <1>12, <2>1 DEF vars, Moves, BreakerInv, TypeOK
<1> QED
  BY <1>1, <1>2, <1>3, <1>4, <1>5, <1>6, <1>7, <1>8, <1>9, <1>10, <1>11, <1>12, EnterMoves
     DEF Next

-----------------------------------------------------------------------------
\* Such steps keep the inductive invariant.

\* The probes that count, in the new state, leave room for the slots left.
LEMMA CurrentFits ==
  ASSUME BreakerInv, Moves
  PROVE  /\ Current(mem') \subseteq Request /\ IsFiniteSet(Current(mem'))
         /\ Cardinality(Current(mem')) \in Nat
         /\ mem'.state = "HALF_OPEN" =>
              Cardinality(Current(mem'))
                + (IF mem.state = "HALF_OPEN" THEN mem.slots ELSE HalfOpenRequests)
                  <= HalfOpenRequests
<1>1. Current(mem') \subseteq Request /\ IsFiniteSet(Current(mem'))
  BY FS_EmptySet DEF Current, BreakerInv, TypeOK
<1>2. Cardinality(Current(mem')) \in Nat
  BY <1>1, FS_CardinalityType
<1>3. CASE mem.state = "HALF_OPEN"
  <2>1. Current(mem') = probes
    BY <1>3 DEF Current
  <2>2. mem.slots + Cardinality(probes) <= HalfOpenRequests /\ mem.slots \in Nat
    BY <1>3 DEF BreakerInv, ProbesBounded, TypeOK, BreakerState
  <2> QED
    BY <1>1, <1>2, <1>3, <2>1, <2>2, BreakerAssumption
<1>4. CASE mem.state # "HALF_OPEN"
  <2>1. mem'.state = "HALF_OPEN" => Current(mem') = {}
    BY <1>4 DEF Current
  <2> QED
    BY <1>1, <1>2, <1>4, <2>1, FS_EmptySet, BreakerAssumption
<1> QED
  BY <1>3, <1>4

\* A step that moves keeps the probes within the limit.
LEMMA ProbesStep ==
  ASSUME BreakerInv, Moves
  PROVE  probes' \subseteq Request /\ IsFiniteSet(probes') /\ ProbesBounded'
<1>1. mem' \in BreakerState /\ mem \in BreakerState
      /\ (mem.state = "HALF_OPEN" /\ mem'.state = "HALF_OPEN" => mem'.slots <= mem.slots)
  BY DEF Moves, Follows, BreakerInv, TypeOK
<1>2. mem'.slots \in Nat /\ mem.slots \in Nat /\ mem'.slots <= HalfOpenRequests
  BY <1>1, BreakerAssumption DEF BreakerState
<1>3. ASSUME NEW D, probes' = Current(mem') \ D
      PROVE  probes' \subseteq Request /\ IsFiniteSet(probes') /\ ProbesBounded'
  <2>1. /\ IsFiniteSet(probes') /\ Cardinality(probes') \in Nat
        /\ Cardinality(probes') <= Cardinality(Current(mem'))
    BY <1>3, CurrentFits, FS_Subset, FS_CardinalityType
  <2> QED
    BY <1>1, <1>2, <1>3, <2>1, CurrentFits, BreakerAssumption DEF ProbesBounded
<1>4. ASSUME NEW c \in Request, probes' = Current(mem') \union {c},
             mem'.slots + 1 <= IF mem.state = "HALF_OPEN" THEN mem.slots ELSE HalfOpenRequests
      PROVE  probes' \subseteq Request /\ IsFiniteSet(probes') /\ ProbesBounded'
  <2>1. /\ IsFiniteSet(probes') /\ Cardinality(probes') \in Nat
        /\ Cardinality(probes') <= Cardinality(Current(mem')) + 1
    <3>1. IsFiniteSet(Current(mem')) /\ Cardinality(Current(mem')) \in Nat
      BY CurrentFits
    <3>2. /\ IsFiniteSet(Current(mem') \union {c})
          /\ Cardinality(Current(mem') \union {c}) =
               IF c \in Current(mem') THEN Cardinality(Current(mem'))
               ELSE Cardinality(Current(mem')) + 1
      BY <3>1, FS_AddElement
    <3> QED
      BY <1>4, <3>1, <3>2
  <2> QED
    BY <1>2, <1>4, <2>1, CurrentFits, BreakerAssumption DEF ProbesBounded
<1> QED
  BY <1>3, <1>4 DEF Moves

\* A restart finds the breaker as it was, with all probe slots free.
LEMMA RestartKeeps ==
  ASSUME BreakerInv, Restart
  PROVE  BreakerInv' /\ Persisted(mem') = Persisted(mem)
         /\ mem'.state = mem.state /\ mem'.since = mem.since /\ mem'.cycles = mem.cycles
<1>1. mem \in BreakerState /\ db = Persisted(mem) /\ db \in BreakerState
  BY DEF BreakerInv, TypeOK
<1>2. PICK n \in 0..HalfOpenRequests : mem' = [db EXCEPT !.slots = n]
  <2>1. mem' = IF db.state = "HALF_OPEN" THEN [db EXCEPT !.slots = HalfOpenRequests] ELSE db
    BY DEF Restart, Restored
  <2>2. db = [db EXCEPT !.slots = db.slots] /\ db.slots \in 0..HalfOpenRequests
    BY <1>1 DEF BreakerState
  <2>3. HalfOpenRequests \in 0..HalfOpenRequests
    BY BreakerAssumption
  <2> QED
    BY <2>1, <2>2, <2>3
<1>3. /\ mem' \in BreakerState
      /\ mem'.state = mem.state /\ mem'.failures = mem.failures /\ mem'.since = mem.since
      /\ mem'.hinted = mem.hinted /\ mem'.cycles = mem.cycles
  <2>1. /\ mem' \in BreakerState
        /\ mem'.state = db.state /\ mem'.failures = db.failures /\ mem'.since = db.since
        /\ mem'.hinted = db.hinted /\ mem'.cycles = db.cycles
    BY <1>1, <1>2 DEF BreakerState
  <2> QED
    BY <1>1, <2>1, PersistedIs
<1>4. Persisted(mem') = Persisted(mem)
  BY <1>1, <1>3, PersistedAlike
<1>5. db' = Persisted(mem') /\ db' \in BreakerState
  BY <1>1, <1>4 DEF Restart
<1>6. call' \in [Request -> CallState] /\ probes' = {}
  BY DEF Restart, Idle, NewCall, CallState, Paths
<1>7. mem'.slots \in Nat /\ mem'.slots <= HalfOpenRequests
  BY <1>3, BreakerAssumption DEF BreakerState
<1>8. IsFiniteSet(probes') /\ ProbesBounded'
  BY <1>6, <1>7, FS_EmptySet DEF ProbesBounded
<1>9. StateMatchesCount'
  BY <1>3 DEF BreakerInv, StateMatchesCount
<1> QED
  BY <1>3, <1>4, <1>5, <1>6, <1>8, <1>9 DEF BreakerInv, TypeOK

\* Every step keeps the inductive invariant.
LEMMA BreakerInvStep ==
  ASSUME BreakerInv, [Next]_vars
  PROVE  BreakerInv'
<1>1. CASE Moves
  <2>1. mem' \in BreakerState /\ db' \in BreakerState /\ db' = Persisted(mem')
    BY <1>1, PersistedIs DEF Moves, Follows
  <2>2. StateMatchesCount'
    BY <1>1 DEF Moves, Follows, Consistent, StateMatchesCount
  <2> QED
    BY <1>1, <2>1, <2>2, ProbesStep DEF Moves, BreakerInv, TypeOK
<1> QED
  BY <1>1, NextMoves, RestartKeeps

-----------------------------------------------------------------------------
\* The theorems.

\* A fresh breaker satisfies the inductive invariant.
LEMMA BreakerInvInit == Init => BreakerInv
<1> SUFFICES ASSUME Init PROVE BreakerInv
  OBVIOUS
<1>1. Fresh \in BreakerState /\ Consistent(Fresh) /\ Fresh.state = "CLOSED"
  BY BreakerAssumption, LongestIsNat DEF Fresh, BreakerState, Consistent
<1>2. Persisted(Fresh) = Fresh
  BY <1>1, FieldsOf DEF Persisted, Fresh
<1>3. call \in [Request -> CallState]
  BY DEF Init, Idle, NewCall, CallState, Paths
<1> QED
  BY <1>1, <1>2, <1>3, FS_EmptySet
     DEF Init, BreakerInv, TypeOK, ProbesBounded, StateMatchesCount, Consistent

\* Every behaviour of the breaker and its requests keeps the inductive invariant.
THEOREM BreakerInvariant == Spec => []BreakerInv
BY BreakerInvInit, BreakerInvStep, PTL DEF Spec

\* Breaker, row and requests stay well formed; no counter leaves its range.
THEOREM BreakerTypeCorrect == Spec => []TypeOK
<1>1. BreakerInv => TypeOK
  BY DEF BreakerInv
<1> QED
  BY <1>1, BreakerInvariant, PTL

\* No more probes than allowed test a recovering provider at any time.
THEOREM ProbesStayBounded == Spec => []ProbesBounded
<1>1. BreakerInv => ProbesBounded
  BY DEF BreakerInv
<1> QED
  BY <1>1, BreakerInvariant, PTL

\* The state of the breaker and its failure count agree at all times.
THEOREM CountAgrees == Spec => []StateMatchesCount
<1>1. BreakerInv => StateMatchesCount
  BY DEF BreakerInv
<1> QED
  BY <1>1, BreakerInvariant, PTL

\* A restart loses nothing of the breaker but the probe slots taken and settings.
THEOREM RestartHarmless == Spec => RestartIsInvisible
<1>1. BreakerInv /\ [Next]_vars => [Restart => Persisted(mem') = Persisted(mem)]_vars
  BY RestartKeeps
<1> QED
  BY <1>1, BreakerInvariant, PTL DEF Spec, RestartIsInvisible

\* Only a success or an operator, both of which close the breaker, forget how
\* often it has opened again.
THEOREM EscalationKept == Spec => EscalationSurvives
<1>1. BreakerInv /\ [Next]_vars => [mem'.cycles < mem.cycles => mem'.state = "CLOSED"]_vars
  <2> SUFFICES ASSUME BreakerInv, [Next]_vars, mem'.cycles < mem.cycles
               PROVE  mem'.state = "CLOSED"
    OBVIOUS
  <2>1. CASE Restart
    <3>1. mem'.cycles = mem.cycles /\ mem.cycles \in Nat
      BY <2>1, RestartKeeps, BreakerAssumption DEF BreakerInv, TypeOK, BreakerState
    <3> QED
      BY <3>1
  <2>2. CASE Moves
    BY <2>2 DEF Moves, Follows
  <2> QED
    BY <2>1, <2>2, NextMoves
<1> QED
  BY <1>1, BreakerInvariant, PTL DEF Spec, EscalationSurvives

\* While the breaker is open, accounting a failed target of a combo changes
\* neither its state nor the start of its cooldown.
THEOREM CooldownKept == Spec => ComboKeepsCooldown
<1>1. BreakerInv /\ [Next]_vars
      => [\A c \in Request :
            /\ call[c].path \in OfCombo /\ call[c].pc = "failed"
            /\ call'[c] # call[c] /\ Refreshed(mem).state = "OPEN"
            => mem'.state = "OPEN" /\ mem'.since = mem.since]_vars
  <2> SUFFICES ASSUME BreakerInv, [Next]_vars, NEW c \in Request,
                      call[c].path \in OfCombo, call[c].pc = "failed",
                      call'[c] # call[c], Refreshed(mem).state = "OPEN"
               PROVE  mem'.state = "OPEN" /\ mem'.since = mem.since
    OBVIOUS
  <2>1. Refreshed(mem) = mem /\ mem.state = "OPEN"
    BY Successors, RefreshFollows
  <2>2. CASE Fail(c)
    <3>1. ComboFailure = mem
      BY <2>1 DEF ComboFailure, CanExecute
    <3>2. mem' = mem
      BY <2>2, <3>1 DEF Fail, Step, Become
    <3> QED
      BY <2>1, <3>2
  <2>3. CASE Restart
    BY <2>1, <2>3, RestartKeeps
  <2>4. CASE Observe \/ Reset \/ Tick \/ UNCHANGED vars
    BY <2>4 DEF Observe, Reset, Tick, vars
  <2>5. ASSUME NEW d \in Request,
               \/ \E path \in Paths : Gate(d, path)
               \/ Enter(d) \/ Reject(d) \/ Bypass(d) \/ Exhausted(d)
               \/ Throw(d) \/ Resolve(d) \/ Succeed(d) \/ Fail(d)
        PROVE  Fail(c)
    <3>1. CASE d # c
      <4>1. \A k : [call EXCEPT ![d] = k][c] = call[c]
        BY <3>1 DEF BreakerInv, TypeOK
      <4>2. \E k : call' = [call EXCEPT ![d] = k]
        BY <2>5 DEF Gate, Enter, Reject, Bypass, Exhausted, Throw, Resolve, Succeed, Fail, Step
      <4> QED
        BY <4>1, <4>2
    <3>2. CASE d = c
      BY <2>5, <3>2 DEF Gate, Enter, Reject, Bypass, Exhausted, Throw, Resolve, Succeed
    <3> QED
      BY <3>1, <3>2
  <2> QED
    BY <2>2, <2>3, <2>4, <2>5 DEF Next
<1> QED
  BY <1>1, BreakerInvariant, PTL DEF Spec, ComboKeepsCooldown

=============================================================================
