-------------------------- MODULE AccountSemaphore --------------------------
(***************************************************************************)
(* Hierarchical in-memory admission,                                       *)
(* src/open-sse/services/accountSemaphore.ts.  A caller asks for a permit  *)
(* of several gates at once (global, provider, account).  JavaScript runs  *)
(* each call and each timer callback to its end, so each is one action.    *)
(*                                                                         *)
(* A gate key is represented by its place in the sort order of the keys,   *)
(* blockedUntil by whether it lies in the future.                          *)
(***************************************************************************)
EXTENDS Integers, Sequences, FiniteSets, SequencesExt

CONSTANTS
  Caller,      \* callers; each has at most one request at a time
  NumGates,    \* the gate keys are 1..NumGates
  Requirement, \* what callers ask for: maps from some gate keys to limits
  MaxQueue,    \* maxQueueSize
  MaxBlocks,   \* bound: markBlocked calls
  KeyReset,    \* whether reset(key), which no production code calls, is called
  MaxResets    \* bound: reset and resetAll calls

Gate == 1..NumGates

ASSUME SemaphoreAssumption ==
  /\ NumGates \in Nat \ {0}
  /\ \A q \in Requirement : /\ DOMAIN q \subseteq Gate /\ DOMAIN q # {}
                            /\ \A k \in DOMAIN q : q[k] \in Nat \ {0}
  /\ MaxQueue \in Nat \ {0}
  /\ KeyReset \in BOOLEAN
  /\ MaxBlocks \in Nat /\ MaxResets \in Nat

VARIABLES
  gates,   \* the Map: key -> gate, for the keys that have one
  call,    \* call[p]: what became of p's last acquireMany
  order,   \* queuedRequests, in insertion order
  blocks,  \* markBlocked calls so far
  resets   \* reset calls so far

vars == <<gates, call, order, blocks, resets>>

NewGate(limit) ==
  [running |-> 0, max |-> limit, queue |-> <<>>, blocked |-> FALSE, cleanup |-> FALSE]

\* counted: the keys of a permit whose gate has not been reset since.
Call(pc, keys, counted) == [pc |-> pc, keys |-> keys, counted |-> counted]
NoCall == Call("idle", {}, {})

GateState == [running : Nat, max : Nat \ {0}, queue : Seq(Caller),
              blocked : BOOLEAN, cleanup : BOOLEAN]
CallState ==
  {c \in [pc : {"idle", "waiting", "held"}, keys : SUBSET Gate, counted : SUBSET Gate] :
     c.counted \subseteq c.keys}

Holding(k) == {p \in Caller : call[p].pc = "held" /\ k \in call[p].counted}

\* One type invariant.
TypeOK ==
  /\ DOMAIN gates \subseteq Gate
  /\ \A k \in DOMAIN gates : gates[k] \in GateState
  /\ call \in [Caller -> CallState]
  /\ order \in Seq(Caller)
  /\ blocks \in 0..MaxBlocks /\ resets \in 0..MaxResets

-----------------------------------------------------------------------------
\* Helpers on a table g of gates.

Idle(gate) == gate.running = 0 /\ gate.queue = <<>>

\* Replaces the gates of keys ks that exist in g by F of them.
Update(g, ks, F(_)) == [k \in DOMAIN g |-> IF k \in ks THEN F(g[k]) ELSE g[k]]

ScheduleCleanup(gate) == IF Idle(gate) THEN [gate EXCEPT !.cleanup = TRUE] ELSE gate

Drop(p, gate) == [gate EXCEPT !.queue = RemoveFirst(@, p)]

DropFirstOnly(p, g, ks) == \* mutant: only the first gate forgets the request
  LET first == CHOOSE k \in ks : \A l \in ks : k <= l
  IN  Update(g, {first}, LAMBDA gate : ScheduleCleanup(Drop(p, gate)))

\* removeRequest: out of the queue of each of its gates.
RemoveRequest(p, g, ks) == Update(g, ks, LAMBDA gate : ScheduleCleanup(Drop(p, gate)))

CountUp(gate) == [gate EXCEPT !.running = @ + 1]
CountDownUnguarded(gate) == [gate EXCEPT !.running = @ - 1] \* mutant: below 0
CountDown(gate) == [gate EXCEPT !.running = IF @ > 0 THEN @ - 1 ELSE 0]

HasRoomOffByOne(gate) == ~gate.blocked /\ gate.running <= gate.max \* mutant
HasRoom(gate) == ~gate.blocked /\ gate.running < gate.max

CanAcquire(g, p, ks) ==
  \A k \in ks : k \in DOMAIN g /\ HasRoom(g[k]) /\ g[k].queue # <<>> /\ Head(g[k].queue) = p

Tables(g, c, o) == [gates |-> g, call |-> c, order |-> o]
Now == Tables(gates, call, order)
Become(s) == gates' = s.gates /\ call' = s.call /\ order' = s.order

AdmitWaiter(s, p) ==
  LET ks == s.call[p].keys
  IN  Tables(Update(RemoveRequest(p, s.gates, ks), ks, CountUp),
             [s.call EXCEPT ![p] = Call("held", ks, ks)],
             RemoveFirst(s.order, p))

\* One round of the loop of drainQueues: the first queued request, in insertion
\* order, that can acquire is admitted.
Round(s) ==
  LET i == SelectInSeq(s.order, LAMBDA p : CanAcquire(s.gates, p, s.call[p].keys))
  IN  IF i = 0 THEN s ELSE AdmitWaiter(s, s.order[i])

\* drainQueues from tables s, rounds until one makes no progress.  A round that
\* does shortens `order`: as many rounds as there are requests are enough.
Drained(s) ==
  LET after[n \in 0..Len(s.order)] == IF n = 0 THEN s ELSE Round(after[n - 1])
  IN  after[Len(s.order)]

\* A queued request is settled without a permit.
Dismissed(s, p) ==
  Tables(RemoveRequest(p, s.gates, s.call[p].keys),
         [s.call EXCEPT ![p] = NoCall],
         RemoveFirst(s.order, p))

-----------------------------------------------------------------------------
\* acquireMany

\* ensureGate and clearCleanupTimer for the keys ks of requirement q: a limit
\* asked for replaces the gate's limit.
Ensured(q, ks) ==
  [k \in DOMAIN gates \union ks |->
     IF k \notin ks THEN gates[k]
     ELSE IF k \in DOMAIN gates THEN [gates[k] EXCEPT !.max = q[k], !.cleanup = FALSE]
     ELSE NewGate(q[k])]

Full(q) == {k \in DOMAIN q : k \in DOMAIN gates /\ Len(gates[k].queue) >= MaxQueue}

\* The loop over the sorted keys stops at the first full queue; the gates up
\* to it have been created or given their new limit, and no queue is drained.
AcquireQueueFull(p, q) ==
  /\ call[p].pc = "idle" /\ Full(q) # {}
  /\ gates' = Ensured(q, {k \in DOMAIN q : \A f \in Full(q) : k <= f})
  /\ UNCHANGED <<call, order, blocks, resets>>

ImmediateBarging(g, q) == \A k \in DOMAIN q : HasRoom(g[k]) \* mutant: the queue is ignored

Immediate(g, q) == \A k \in DOMAIN q : g[k].queue = <<>> /\ HasRoom(g[k])

AcquireAtOnce(p, q) ==
  LET g == Ensured(q, DOMAIN q) IN
  /\ call[p].pc = "idle" /\ Full(q) = {} /\ Immediate(g, q)
  /\ gates' = Update(g, DOMAIN q, CountUp)
  /\ call' = [call EXCEPT ![p] = Call("held", DOMAIN q, DOMAIN q)]
  /\ UNCHANGED <<order, blocks, resets>>

AcquireQueued(p, q) ==
  LET g == Ensured(q, DOMAIN q) IN
  /\ call[p].pc = "idle" /\ Full(q) = {} /\ ~Immediate(g, q)
  /\ Become(Drained(Tables(
       Update(g, DOMAIN q, LAMBDA gate : [gate EXCEPT !.queue = Append(@, p)]),
       [call EXCEPT ![p] = Call("waiting", DOMAIN q, {})],
       Append(order, p))))
  /\ UNCHANGED <<blocks, resets>>

-----------------------------------------------------------------------------
\* The ends of a request.

GiveUpSilently(p) == \* mutant: those behind it are not looked at
  /\ call[p].pc = "waiting"
  /\ Become(Dismissed(Now, p))
  /\ UNCHANGED <<blocks, resets>>

\* The timer of a queued request, or the abort of its signal.
GiveUp(p) ==
  /\ call[p].pc = "waiting"
  /\ Become(Drained(Dismissed(Now, p)))
  /\ UNCHANGED <<blocks, resets>>

ReleasedUndrained(p) == \* mutant: release does not drain
  Tables(Update(gates, call[p].keys, LAMBDA gate : ScheduleCleanup(CountDown(gate))),
         [call EXCEPT ![p] = NoCall], order)

\* The tables after the release function of p's permit.
Released(p) ==
  LET s == Drained(Tables(Update(gates, call[p].keys, CountDown),
                          [call EXCEPT ![p] = NoCall], order))
  IN  Tables(Update(s.gates, call[p].keys, ScheduleCleanup), s.call, s.order)

\* The release function of p's permit, called for the first time.
Release(p) ==
  /\ call[p].pc = "held"
  /\ Become(Released(p))
  /\ UNCHANGED <<blocks, resets>>

-----------------------------------------------------------------------------
\* Cooldowns, timers and operators.

MarkBlocked(k) ==
  /\ blocks < MaxBlocks
  /\ LET g == IF k \in DOMAIN gates THEN gates[k] ELSE NewGate(1)
     IN  gates' = [l \in DOMAIN gates \union {k} |->
                     IF l = k THEN [g EXCEPT !.blocked = TRUE, !.cleanup = FALSE] ELSE gates[l]]
  /\ blocks' = blocks + 1
  /\ UNCHANGED <<call, order, resets>>

\* blockedUntil passes: nothing is called, nothing is drained.
Elapse(k) ==
  /\ k \in DOMAIN gates /\ gates[k].blocked
  /\ gates' = [gates EXCEPT ![k].blocked = FALSE]
  /\ UNCHANGED <<call, order, blocks, resets>>

Without(g, ks) == [k \in DOMAIN g \ ks |-> g[k]]

IdleKeys(g, ks) == {k \in ks \intersect DOMAIN g : Idle(g[k]) /\ ~g[k].blocked}

\* unblock: any gate, blocked or not, lets in whoever fits.
Unblock(k) ==
  /\ k \in DOMAIN gates
  /\ LET s == Drained(Tables([gates EXCEPT ![k].blocked = FALSE], call, order))
     IN  Become(Tables(Without(s.gates, IdleKeys(s.gates, {k})), s.call, s.order))
  /\ UNCHANGED <<blocks, resets>>

\* The zero-delay timer of scheduleCleanup.
Cleanup(k) ==
  /\ k \in DOMAIN gates /\ gates[k].cleanup
  /\ gates' = Without([gates EXCEPT ![k].cleanup = FALSE], IdleKeys(gates, {k}))
  /\ UNCHANGED <<call, order, blocks, resets>>

\* Permits are counted no longer on the gates ks, which are deleted.
Uncounted(c, ks) == [p \in Caller |-> [c[p] EXCEPT !.counted = @ \ ks]]

Reject(s, p) == IF s.call[p].pc = "waiting" THEN Dismissed(s, p) ELSE s

\* The loop of reset over a copy q of the queue of its gate.
Rejected(s, q) ==
  LET after[n \in 0..Len(q)] == IF n = 0 THEN s ELSE Reject(after[n - 1], q[n])
  IN  after[Len(q)]

\* The timer that the loop may leave on the deleted gate is left out: it finds
\* no gate, or a successor that it deletes only if that is idle.
Reset(k) ==
  /\ KeyReset /\ k \in DOMAIN gates /\ resets < MaxResets
  /\ LET s == Rejected(Now, gates[k].queue)
     IN  Become(Drained(Tables(Without(s.gates, {k}), Uncounted(s.call, {k}), s.order)))
  /\ resets' = resets + 1 /\ UNCHANGED blocks

ResetAll ==
  /\ resets < MaxResets
  /\ gates' = [k \in {} |-> 0]
  /\ call' = [p \in Caller |-> IF call[p].pc = "waiting" THEN NoCall
                               ELSE Uncounted(call, Gate)[p]]
  /\ order' = <<>>
  /\ resets' = resets + 1 /\ UNCHANGED blocks

-----------------------------------------------------------------------------

Init ==
  /\ gates = [k \in {} |-> 0]
  /\ call = [p \in Caller |-> NoCall]
  /\ order = <<>>
  /\ blocks = 0 /\ resets = 0

Next ==
  \/ \E p \in Caller, q \in Requirement :
       AcquireQueueFull(p, q) \/ AcquireAtOnce(p, q) \/ AcquireQueued(p, q)
  \/ \E p \in Caller : GiveUp(p) \/ Release(p)
  \/ \E k \in Gate : MarkBlocked(k) \/ Elapse(k) \/ Unblock(k) \/ Cleanup(k) \/ Reset(k)
  \/ ResetAll

Spec == Init /\ [][Next]_vars

\* Permits are released when their response has been streamed or has failed:
\* no permit is held for ever.  This is WF_vars(Release(p)), which is enabled
\* exactly while p holds a permit, and Release(p) alone ends that.  Nothing is
\* assumed of timeouts and aborts: waiters may be patient.
FairSpec == Spec /\ \A p \in Caller : []<>(call[p].pc # "held")

-----------------------------------------------------------------------------
\* Properties.

\* The counters are the truth: as long as no gate was reset, the running count
\* of every gate is the number of permits outstanding on it, and a waiter is
\* counted nowhere, whatever mixture of timeouts, aborts, cleanups and limit
\* changes went before.  After a reset a permit may count down a gate it was
\* never counted on: no counter exceeds its permits even then.
RunningIsHeld ==
  \A k \in Gate :
    LET running == IF k \in DOMAIN gates THEN gates[k].running ELSE 0
    IN  /\ running \in 0..Cardinality(Holding(k))
        /\ resets = 0 => running = Cardinality(Holding(k))

Before(p, w, s) == \E i, j \in DOMAIN s : s[i] = p /\ s[j] = w /\ i < j

Queue(g, k) == IF k \in DOMAIN g THEN g[k].queue ELSE <<>>

\* The queues of the gates agree with the set of queued requests.
Agree(s) ==
  /\ IsInjective(s.order)
  /\ Range(s.order) = {p \in Caller : s.call[p].pc = "waiting"}
  /\ \A k \in Gate :
       /\ IsInjective(Queue(s.gates, k))
       /\ Range(Queue(s.gates, k)) =
            {p \in Caller : s.call[p].pc = "waiting" /\ k \in s.call[p].keys}
       /\ \A p, w \in Caller :
            Before(p, w, Queue(s.gates, k)) => Before(p, w, s.order)

\* A request that is waiting stands once in the queue of each of its gates, in
\* the order of arrival, and one that has been settled stands in none.
QueuesAgree == Agree(Now)

\* Nobody waits for nothing: as long as no cooldown was set, the first in the
\* order of arrival waits for a permit that somebody holds on one of its gates,
\* whose release will drain the queues.
WaitersAwaitPermits ==
  blocks = 0 /\ order # <<>> => \E k \in call[Head(order)].keys : Holding(k) # {}

Became(p, pc) == call[p].pc # pc /\ call'[p].pc = pc

FitsAtAdmission(p) ==
  Became(p, "held") =>
    \A k \in call'[p].keys : Cardinality(Holding(k)') <= gates'[k].max

\* "admits one request only when every applicable global/provider/account gate
\* has room": the permits outstanding after an admission fit the limit.
AdmissionsFit == [][\A p \in Caller : FitsAtAdmission(p)]_vars

\* The same, as long as no gate was reset.
AdmissionsFitUntilReset == [][resets = 0 => \A p \in Caller : FitsAtAdmission(p)]_vars

\* "one FIFO reservation": nobody is admitted past a waiter that arrived
\* earlier and wants one of the same gates.
NoOvertaking ==
  [][\A p, w \in Caller :
       /\ Became(p, "held")
       /\ call[w].pc = "waiting" /\ call'[w].pc = "waiting"
       /\ call[w].keys \intersect call'[p].keys # {}
       => Before(p, w, order)]_vars

Admissible(p) == call[p].pc = "waiting" /\ CanAcquire(gates, p, call[p].keys)

BecameAdmissible(w) == ~Admissible(w) /\ Admissible(w)'

\* The passing of blockedUntil runs no code, and a queue-full rejection returns
\* after it may have raised a limit.
Undrained ==
  \/ \E k \in DOMAIN gates : Elapse(k)
  \/ \E p \in Caller, q \in Requirement : AcquireQueueFull(p, q)

\* No other step leaves a waiter behind that it made admissible.
NoWaiterLeftBehind == [][\A w \in Caller : BecameAdmissible(w) => Undrained]_vars

\* Nobody starves: if permits are always given back, every waiter is admitted,
\* or gives up, although other callers keep coming and each request needs all
\* its gates at once; unless a cooldown is set, whose passing wakes nobody.
WaitersSettle ==
  \A p \in Caller : call[p].pc = "waiting" ~> call[p].pc # "waiting" \/ blocks > 0

=============================================================================
