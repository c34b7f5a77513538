---------------------------- MODULE BatchProcessor ----------------------------
(***************************************************************************)
(* Batch jobs: open-sse/services/batchProcessor.ts, the rows and item       *)
(* checkpoints of src/lib/db/batches.ts and the routes under                *)
(* src/app/api/v1/batches.                                                 *)
(*                                                                         *)
(* A poll recovers what an earlier process left behind and starts batches   *)
(* while slots are free; each started batch is worked off by a processor    *)
(* (processBatchItems) that runs beside the poll and the routes.  They share *)
(* the database.  The process may be killed between any two writes.         *)
(*                                                                         *)
(* JavaScript interleaves only where a processor awaits: "starting" (the    *)
(* key), "throttled" (the pause before a dispatch) and "sent" (the dispatch *)
(* and its retries).  At its other places nothing but a kill comes between  *)
(* (Quiet).                                                                *)
(***************************************************************************)
EXTENDS Naturals, FiniteSets

CONSTANTS Batch,
          Items,          \* lines of each batch's input file
          MaxItems,       \* the most of them
          MaxConcurrent,  \* BATCH_MAX_CONCURRENT
          MaxAttempts,    \* maxRetries of processSingleItemWithRetry
          MaxCrashes      \* bound on restarts

ASSUME BatchAssumption ==
    /\ IsFiniteSet(Batch)
    /\ {MaxItems, MaxConcurrent, MaxAttempts, MaxCrashes} \subseteq Nat
    /\ Items \in [Batch -> 0..MaxItems]

VARIABLES
    row,      \* table batches
    ck,       \* table batch_item_checkpoints
    input,    \* the input file of each batch
    active,   \* activeBatches
    proc,     \* the processors: place, line, results so far, attempt
    begun,    \* history: how often the work on each item was begun
    late,     \* history: items begun although the batch was cancelled
    crashes   \* restarts so far

vars == <<row, ck, input, active, proc, begun, late, crashes>>

Line == 1..MaxItems
Lines(b) == 1..Items[b]
Outcome == {"done", "bad", "errored"}   \* a result, a result >= 400, an exception
Terminal == {"completed", "failed", "cancelled", "expired"}
Status == {"unborn", "validating", "in_progress", "finalizing", "cancelling", "deleted"}
             \cup Terminal
Checkpoint == {"none", "pending", "processing"} \cup Outcome

NoResults == [l \in Line |-> "none"]
Off == [pc |-> "off", line |-> 1, results |-> NoResults, tries |-> 1]
Micro == {"walking", "recorded", "ending", "finalizing"}
Awaiting == {"starting", "throttled", "sent"}

EmptyRow(status) ==
    [status |-> status, total |-> 0, completed |-> 0, failed |-> 0, output |-> NoResults]

BatchTypeOK ==
    /\ row \in [Batch -> [status : Status, total : 0..MaxItems,
                          completed : 0..MaxItems, failed : 0..MaxItems,
                          output : [Line -> Outcome \cup {"none"}]]]
    /\ ck \in [Batch -> [Line -> Checkpoint]]
    /\ input \in [Batch -> {"valid", "invalid", "gone"}]
    /\ active \subseteq Batch
    /\ proc \in [Batch -> [pc : {"off"} \cup Micro \cup Awaiting, line : 1..(MaxItems + 1),
                           results : [Line -> Outcome \cup {"none"}], tries : Nat]]
    /\ begun \in [Batch -> [Line -> Nat]]
    /\ late \in [Batch -> Nat]
    /\ crashes \in 0..MaxCrashes

Init ==
    /\ row = [b \in Batch |-> EmptyRow("unborn")]
    /\ ck = [b \in Batch |-> NoResults]
    /\ input = [b \in Batch |-> "gone"]
    /\ active = {}
    /\ proc = [b \in Batch |-> Off]
    /\ begun = [b \in Batch |-> [l \in Line |-> 0]]
    /\ late = [b \in Batch |-> 0]
    /\ crashes = 0

Quiet == \A b \in Batch : proc[b].pc \notin Micro
Exists(b) == row[b].status \notin {"unborn", "deleted"}

\* updateBatch, which changes nothing when the row is gone
Updated(b, r) == IF Exists(b) THEN [row EXCEPT ![b] = r] ELSE row

Good(results) == Cardinality({l \in Line : results[l] = "done"})
Poor(results) == Cardinality({l \in Line : results[l] \in {"bad", "errored"}})

WithCounts(r, results) == [r EXCEPT !.completed = Good(results), !.failed = Poor(results)]

-----------------------------------------------------------------------------
(* The poll.                                                               *)

Stale == {b \in Batch : row[b].status \in {"in_progress", "finalizing"} /\ b \notin active}

HasCheckpoints(b) == \E l \in Line : ck[b][l] # "none"

\* recoverStaleBatch
Recovered(b) ==
    LET r == row[b] IN
    IF HasCheckpoints(b) THEN [r EXCEPT !.status = "validating"]
    ELSE IF r.total + r.completed + r.failed > 0 \/ r.status = "finalizing"
    THEN [r EXCEPT !.status = "failed"]
    ELSE [r EXCEPT !.status = "validating", !.completed = 0, !.failed = 0]

AfterRecovery(b) == IF b \in Stale THEN Recovered(b) ELSE row[b]

Waiting == {b \in Batch : AfterRecovery(b).status = "validating"}

\* mutant: batches in progress are counted instead of processors at work
FreeSlotsByStatus ==
    LET working == {b \in Batch : row[b].status = "in_progress"} IN
    IF Cardinality(working) >= MaxConcurrent THEN 0 ELSE MaxConcurrent - Cardinality(working)

\* activeCount < BATCH_MAX_CONCURRENT
FreeSlots ==
    IF Cardinality(active) >= MaxConcurrent THEN 0 ELSE MaxConcurrent - Cardinality(active)

\* The query has no order: any of the waiting batches may come first.
Chosen(S) ==
    /\ S \subseteq Waiting
    /\ Cardinality(S) <= FreeSlots
    /\ S = Waiting \/ Cardinality(S) = FreeSlots

\* startBatch, up to the processor it leaves running
StartedRow(b) ==
    LET r == AfterRecovery(b) IN
    CASE input[b] = "gone"    -> [r EXCEPT !.status = "failed"]
      [] input[b] = "invalid" -> [r EXCEPT !.status = "failed", !.total = Items[b],
                                           !.failed = Items[b]]
      [] input[b] = "valid"   -> [r EXCEPT !.status = "in_progress", !.total = Items[b]]

\* INSERT OR IGNORE ... 'pending'
EnsuredCheckpoints(b) ==
    [l \in Line |-> IF l \in Lines(b) /\ ck[b][l] = "none" THEN "pending" ELSE ck[b][l]]

\* Batches that are not started: cancelled by the poll, or expired by its cleanup
\* when they are older than their completion window.
PassedOver(b, overdue) ==
    LET r == AfterRecovery(b) IN
    CASE r.status = "cancelling" -> [r EXCEPT !.status = "cancelled"]
      [] r.status = "validating" /\ b \in overdue -> [r EXCEPT !.status = "expired"]
      [] OTHER -> r

\* processPendingBatches runs without giving way to the routes.
Poll(S, overdue) ==
    LET started == {b \in S : input[b] = "valid"} IN
    /\ Quiet /\ Chosen(S)
    /\ row' = [b \in Batch |-> IF b \in S THEN StartedRow(b) ELSE PassedOver(b, overdue)]
    /\ ck' = [b \in Batch |-> IF b \in started THEN EnsuredCheckpoints(b) ELSE ck[b]]
    /\ active' = active \cup started
    /\ proc' = [b \in Batch |-> IF b \in started THEN [Off EXCEPT !.pc = "starting"] ELSE proc[b]]
    /\ UNCHANGED <<input, begun, late, crashes>>

-----------------------------------------------------------------------------
(* The processor of a batch.                                               *)

At(b, pc) == proc[b].pc = pc
Goes(b, pc) == proc' = [proc EXCEPT ![b].pc = pc]

\* mutant: the slot of a batch that ended is not given back
LeavesSlotTaken(b) == /\ proc' = [proc EXCEPT ![b] = Off]
                      /\ active' = active

\* The promise of processBatchItems settles: activeBatches.delete(batch.id).
Leaves(b) == /\ proc' = [proc EXCEPT ![b] = Off]
             /\ active' = active \ {b}

\* await resolveApiKey(batch)
KeyResolved(b) ==
    /\ Quiet /\ At(b, "starting") /\ Goes(b, "walking")
    /\ UNCHANGED <<row, ck, input, active, begun, late, crashes>>

\* mutant: the status the poll has moved on to is forgotten
CancelSeenBeforePoll(b) == row[b].status \in {"deleted", "cancelling"}

\* isBatchCancelled
CancelSeen(b) == row[b].status \in {"deleted", "cancelling", "cancelled"}

StopWalking(b) ==
    /\ At(b, "walking")
    /\ proc[b].line > Items[b] \/ CancelSeen(b)
    /\ Goes(b, "ending")
    /\ UNCHANGED <<row, ck, input, active, begun, late, crashes>>

WalksOn(b) == At(b, "walking") /\ proc[b].line <= Items[b] /\ ~CancelSeen(b)
Item(b) == ck[b][proc[b].line]

\* mutant: an interrupted item is sent again
ReusedReplaying(b) == Item(b) \in Outcome

Reused(b) == Item(b) \in Outcome \cup {"processing"}

\* mutant: what an earlier process recorded is skipped but not collected
CollectedFresh(b, outcome) == proc[b].results

Collected(b, outcome) == [proc[b].results EXCEPT ![proc[b].line] = outcome]

\* applyRecoveredCheckpoint: a recorded outcome is taken over, an interrupted
\* item becomes an error.  (Only this processor writes the checkpoints of its
\* batch, so the list it has read at its start is still true.)
ReuseCheckpoint(b) ==
    LET outcome == IF Item(b) \in Outcome THEN Item(b) ELSE "errored" IN
    /\ WalksOn(b) /\ Reused(b)
    /\ ck' = [ck EXCEPT ![b][proc[b].line] = outcome]
    /\ proc' = [proc EXCEPT ![b].results = Collected(b, outcome), ![b].line = @ + 1]
    /\ row' = Updated(b, WithCounts(row[b], Collected(b, outcome)))
    /\ UNCHANGED <<input, active, begun, late, crashes>>

\* The provider's last headers ask for a pause: await sleep(delay).
Throttle(b) ==
    /\ WalksOn(b) /\ ~Reused(b) /\ Goes(b, "throttled")
    /\ UNCHANGED <<row, ck, input, active, begun, late, crashes>>

\* markBatchItemProcessing and the first dispatch.  There is no second look at
\* the status after the pause.  If the batch was deleted meanwhile the insert
\* goes through where the driver does not enforce foreign keys.
BeginItem(b) ==
    LET l == proc[b].line IN
    /\ \/ WalksOn(b) /\ ~Reused(b)
       \/ Quiet /\ At(b, "throttled")
    /\ ck' = [ck EXCEPT ![b][l] = "processing"]
    /\ begun' = [begun EXCEPT ![b][l] = @ + 1]
    /\ late' = IF row[b].status \in {"cancelling", "cancelled", "deleted"}
               THEN [late EXCEPT ![b] = @ + 1] ELSE late
    /\ proc' = [proc EXCEPT ![b].pc = "sent", ![b].tries = 1]
    /\ UNCHANGED <<row, input, active, crashes>>

\* 429, 502 or 504: sent again after a pause, whatever became of the batch.
RetryItem(b) ==
    /\ Quiet /\ At(b, "sent") /\ proc[b].tries < MaxAttempts
    /\ proc' = [proc EXCEPT ![b].tries = @ + 1]
    /\ UNCHANGED <<row, ck, input, active, begun, late, crashes>>

\* markBatchItemResult or, after a timeout or an exception, markBatchItemError:
\* updates that find nothing when the batch was deleted.
RecordOutcome(b, outcome) ==
    LET l == proc[b].line IN
    /\ Quiet /\ At(b, "sent")
    /\ ck' = IF ck[b][l] = "none" THEN ck ELSE [ck EXCEPT ![b][l] = outcome]
    /\ proc' = [proc EXCEPT ![b].pc = "recorded",
                            ![b].results[l] = outcome]
    /\ UNCHANGED <<row, input, active, begun, late, crashes>>

\* maybePersistProgress
PersistProgress(b) ==
    /\ At(b, "recorded")
    /\ row' = Updated(b, WithCounts(row[b], proc[b].results))
    /\ proc' = [proc EXCEPT ![b].pc = "walking", ![b].line = @ + 1]
    /\ UNCHANGED <<ck, input, active, begun, late, crashes>>

\* mutant: the last items are not followed by another look at the status
HandledCancellationNever(b) == ~Exists(b)

HandledCancellation(b) == CancelSeen(b)

\* finalizeBatch ends with handleCancellation.
EndCancelled(b) ==
    /\ At(b, "ending") /\ HandledCancellation(b)
    /\ row' = IF row[b].status = "cancelling"
              THEN [row EXCEPT ![b].status = "cancelled"] ELSE row
    /\ Leaves(b)
    /\ UNCHANGED <<ck, input, begun, late, crashes>>

MarkFinalizing(b) ==
    /\ At(b, "ending") /\ ~HandledCancellation(b)
    /\ row' = [row EXCEPT ![b].status = "finalizing"]
    /\ Goes(b, "finalizing")
    /\ UNCHANGED <<ck, input, active, begun, late, crashes>>

\* Counts, output and error file, and completeBatch.
Complete(b) ==
    /\ At(b, "finalizing")
    /\ row' = [row EXCEPT ![b] =
                 [WithCounts(@, proc[b].results) EXCEPT !.status = "completed",
                                                        !.output = proc[b].results]]
    /\ Leaves(b)
    /\ UNCHANGED <<ck, input, begun, late, crashes>>

\* A database call throws (or, in finalizeBatch, creating a file does): failBatch,
\* whatever the status is by now.
Break(b) ==
    /\ \/ proc[b].pc \in Micro
       \/ Quiet /\ proc[b].pc \in Awaiting
    /\ row' = Updated(b, [row[b] EXCEPT !.status = "failed"])
    /\ Leaves(b)
    /\ UNCHANGED <<ck, input, begun, late, crashes>>

-----------------------------------------------------------------------------
(* The routes, and the end of the process.                                 *)

Create(b) ==
    /\ Quiet /\ row[b].status = "unborn"
    /\ row' = [row EXCEPT ![b].status = "validating"]
    /\ \E kind \in {"valid", "invalid"} : input' = [input EXCEPT ![b] = kind]
    /\ UNCHANGED <<ck, active, proc, begun, late, crashes>>

Cancel(b) ==
    /\ Quiet /\ row[b].status \in {"validating", "in_progress", "finalizing"}
    /\ row' = [row EXCEPT ![b].status = "cancelling"]
    /\ UNCHANGED <<ck, input, active, proc, begun, late, crashes>>

\* DELETE of one batch, and of all completed ones.
DeleteBatches(D) ==
    /\ Quiet
    /\ row' = [b \in Batch |-> IF b \in D
                 THEN EmptyRow("deleted") ELSE row[b]]
    /\ ck' = [b \in Batch |-> IF b \in D THEN NoResults ELSE ck[b]]
    /\ input' = [b \in Batch |-> IF b \in D THEN "gone" ELSE input[b]]
    /\ UNCHANGED <<active, proc, begun, late, crashes>>

Delete(b) == row[b].status \in Terminal /\ DeleteBatches({b})

DeleteCompleted ==
    LET D == {b \in Batch : row[b].status = "completed"} IN D # {} /\ DeleteBatches(D)

\* The input file is deleted by its owner, with another batch that shares it, or
\* by the poll's cleanup when it is thirty days old.  (A processor has read it.)
LoseInput(b) ==
    /\ Quiet /\ row[b].status \in {"validating", "in_progress", "finalizing"}
    /\ b \notin active /\ input[b] = "valid"
    /\ input' = [input EXCEPT ![b] = "gone"]
    /\ UNCHANGED <<row, ck, active, proc, begun, late, crashes>>

Crash ==
    /\ crashes < MaxCrashes
    /\ crashes' = crashes + 1
    /\ active' = {} /\ proc' = [b \in Batch |-> Off]
    /\ UNCHANGED <<row, ck, input, begun, late>>

-----------------------------------------------------------------------------
Process(b) ==
    \/ KeyResolved(b) \/ StopWalking(b) \/ ReuseCheckpoint(b) \/ Throttle(b)
    \/ BeginItem(b) \/ RetryItem(b) \/ \E outcome \in Outcome : RecordOutcome(b, outcome)
    \/ PersistProgress(b) \/ EndCancelled(b) \/ MarkFinalizing(b) \/ Complete(b)

Next ==
    \/ \E S, overdue \in SUBSET Batch : Poll(S, overdue)
    \/ \E b \in Batch : Process(b) \/ Break(b)
    \/ \E b \in Batch : Create(b) \/ Cancel(b) \/ Delete(b) \/ LoseInput(b)
    \/ DeleteCompleted
    \/ Crash

Spec == Init /\ [][Next]_vars

\* The poll's timer fires while the process runs, and a batch need not wait for its
\* window to pass; every await of a processor ends: pauses are timers, and a
\* dispatch is raced against its own timeout.
FairSpec ==
    /\ Spec
    /\ WF_vars(\E S \in SUBSET Batch : Poll(S, {}))
    /\ \A b \in Batch : WF_vars(Process(b))

-----------------------------------------------------------------------------
(* Properties.                                                             *)

\* The work on an item is begun once, however often the process is killed and the
\* batch recovered: what may have reached the provider is never replayed
\* (batchProcessor.ts:80-82, 441-445).
NoReplay == \A b \in Batch, l \in Line : begun[b][l] <= 1

\* A completed batch has accounted for every line of its input: its files hold what
\* the checkpoints of all its processors recorded, and its counts add up.
OutputComplete ==
    \A b \in Batch : row[b].status = "completed" =>
        /\ \A l \in Lines(b) : row[b].output[l] \in Outcome /\ row[b].output[l] = ck[b][l]
        /\ row[b].completed = Good(ck[b]) /\ row[b].failed = Poor(ck[b])
        /\ row[b].completed + row[b].failed = row[b].total

\* A cancelled batch begins at most the one item whose pause had started, also
\* when the poll or a deletion overtakes its processor.
CancelBounds == \A b \in Batch : late[b] <= 1

\* Never more processors than BATCH_MAX_CONCURRENT, those of batches that were
\* cancelled, failed or deleted under their hands included (ENVIRONMENT.md:122).
SlotsRespected == Cardinality({b \in Batch : proc[b].pc # "off"}) <= MaxConcurrent

\* No ended batch comes back, and one whose cancellation was accepted never
\* completes, in whatever order poll, processor, recovery and routes meet it.
\* Only a failing database turns it into a failed one.
StatusIsFinal ==
    [][\A b \in Batch :
          /\ row[b].status \in {"completed", "failed", "expired", "deleted"}
                => row'[b].status \in {row[b].status, "deleted"}
          /\ row[b].status \in {"cancelling", "cancelled"}
                => \/ row'[b].status \in {row[b].status, "cancelled", "deleted"}
                   \/ row'[b].status = "failed" /\ proc'[b] # proc[b]]_vars

\* Every batch comes to an end, without having to expire: no slot is lost and no
\* batch left behind by a restart, a cancellation, a missing file or an error.
BatchSettles ==
    \A b \in Batch : row[b].status = "validating" ~> row[b].status \in Terminal \cup {"deleted"}
=============================================================================
