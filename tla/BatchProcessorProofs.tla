------------------------- MODULE BatchProcessorProofs -------------------------
(***************************************************************************)
(* The safety properties of BatchProcessor hold for any number of batches,  *)
(* lines, slots, retries and restarts.                                     *)
(*                                                                         *)
(* The argument is made batch by batch: Sound says of the row, checkpoints  *)
(* and processor of one batch what they know of one another.  A processor   *)
(* touches its own batch only, so a step keeps the invariant when it keeps  *)
(* Sound of the batches it touches, and the slots.                         *)
(***************************************************************************)
EXTENDS BatchProcessor, FiniteSetTheorems, TLAPS

RowRecord == [status : Status, total : 0..MaxItems, completed : 0..MaxItems,
              failed : 0..MaxItems, output : [Line -> Outcome \cup {"none"}]]
ProcRecord == [pc : {"off"} \cup Micro \cup Awaiting, line : 1..(MaxItems + 1),
               results : [Line -> Outcome \cup {"none"}], tries : Nat]

Gone == {"cancelling", "cancelled", "deleted"}

\* Where a processor can be while its row has a status.
InStep(b, r, p) ==
  /\ p.pc \notin {"off", "finalizing"} => r.status \in Gone \cup {"in_progress"}
  /\ p.pc = "finalizing" => r.status = "finalizing" /\ p.line = Items[b] + 1
  /\ p.pc = "ending" => p.line = Items[b] + 1 \/ r.status \in Gone
  /\ p.pc # "off" => p.line <= Items[b] + 1
  /\ p.pc \in {"throttled", "sent", "recorded"} => p.line <= Items[b]

\* What has begun is marked, until the marks go with the batch.
Marked(r, c, p, beg) ==
  /\ \A l \in Line : beg[l] <= 1
  /\ \A l \in Line : beg[l] = 1 => r.status = "deleted" \/ c[l] \in {"processing"} \cup Outcome
  /\ p.pc = "throttled" => beg[p.line] = 0
  /\ p.pc = "sent" => beg[p.line] = 1

\* The one item begun too late was begun by a processor that has no other pause.
Belated(r, p, lt) ==
  /\ lt <= 1
  /\ lt = 1 => r.status \in Gone \cup {"failed"} /\ p.pc # "throttled"

\* A processor has collected what is recorded of the lines it has passed.
Passed(l, p) == l < p.line \/ (l = p.line /\ p.pc = "recorded")
Collects(b, r, c, p) ==
  p.pc # "off" /\ r.status # "deleted" =>
    /\ r.total = Items[b]
    /\ \A l \in Line : IF Passed(l, p) THEN p.results[l] \in Outcome /\ p.results[l] = c[l]
                       ELSE p.results[l] = "none"

\* A completed batch holds what its checkpoints say.
Delivered(b, r, c) ==
  r.status = "completed" =>
    /\ \A l \in Lines(b) : r.output[l] \in Outcome /\ r.output[l] = c[l]
    /\ r.completed = Good(c) /\ r.failed = Poor(c)
    /\ r.completed + r.failed = r.total

Sound(b, r, c, p, beg, lt) ==
  /\ r \in RowRecord /\ c \in [Line -> Checkpoint] /\ p \in ProcRecord
  /\ beg \in [Line -> Nat] /\ lt \in Nat
  /\ \A l \in Line : l \notin Lines(b) => c[l] = "none"
  /\ InStep(b, r, p) /\ Marked(r, c, p, beg) /\ Belated(r, p, lt)
  /\ Collects(b, r, c, p) /\ Delivered(b, r, c)

Slots == active \subseteq Batch /\ IsFiniteSet(active) /\ Cardinality(active) <= MaxConcurrent

Shapes ==
  /\ row \in [Batch -> RowRecord] /\ ck \in [Batch -> [Line -> Checkpoint]]
  /\ proc \in [Batch -> ProcRecord] /\ begun \in [Batch -> [Line -> Nat]]
  /\ late \in [Batch -> Nat] /\ input \in [Batch -> {"valid", "invalid", "gone"}]

SoundAt(b) ==
  /\ Sound(b, row[b], ck[b], proc[b], begun[b], late[b])
  /\ b \in active <=> proc[b].pc # "off"

BatchInv == Shapes /\ Slots /\ \A b \in Batch : SoundAt(b)

-----------------------------------------------------------------------------
\* Facts about counts.

LEMMA UpTo == ASSUME NEW n \in Nat PROVE IsFiniteSet(1..n) /\ Cardinality(1..n) = n
BY FS_Interval

LEMMA TwoParts ==
  ASSUME NEW G, NEW P, IsFiniteSet(G), IsFiniteSet(P), G \cap P = {}
  PROVE  Cardinality(G \cup P) = Cardinality(G) + Cardinality(P)
<1>1. Cardinality(G) \in Nat /\ Cardinality(P) \in Nat /\ Cardinality(G \cap P) = 0
  BY FS_CardinalityType, FS_EmptySet
<1>2. Cardinality(G \cup P) = Cardinality(G) + Cardinality(P) - Cardinality(G \cap P)
  BY FS_Union
<1> QED
  BY <1>1, <1>2

LEMMA LineFinite == IsFiniteSet(Line) /\ Cardinality(Line) = MaxItems
BY UpTo, BatchAssumption DEF Line

LEMMA CountsTyped ==
  ASSUME NEW f
  PROVE  Good(f) \in 0..MaxItems /\ Poor(f) \in 0..MaxItems
<1>1. ASSUME NEW T \in SUBSET Line PROVE Cardinality(T) \in 0..MaxItems
  <2>1. IsFiniteSet(T) /\ Cardinality(T) <= Cardinality(Line)
    BY LineFinite, FS_Subset
  <2>2. Cardinality(T) \in Nat
    BY <2>1, FS_CardinalityType
  <2> QED
    BY <2>1, <2>2, LineFinite, BatchAssumption
<1> QED
  BY <1>1 DEF Good, Poor

LEMMA WithCountsTyped ==
  ASSUME NEW r \in RowRecord, NEW f
  PROVE  /\ WithCounts(r, f) \in RowRecord
         /\ WithCounts(r, f).status = r.status
         /\ WithCounts(r, f).total = r.total
         /\ WithCounts(r, f).output = r.output
         /\ WithCounts(r, f).completed = Good(f)
         /\ WithCounts(r, f).failed = Poor(f)
BY CountsTyped DEF WithCounts, RowRecord

\* The outcomes of the lines of a batch are as many as its lines.
LEMMA CountsAddUp ==
  ASSUME NEW b \in Batch, NEW f, \A l \in Lines(b) : f[l] \in Outcome,
         \A l \in Line : l \notin Lines(b) => f[l] = "none"
  PROVE  Good(f) + Poor(f) = Items[b]
<1> DEFINE G == {l \in Line : f[l] = "done"}
           P == {l \in Line : f[l] \in {"bad", "errored"}}
<1>1. Items[b] \in Nat /\ Items[b] <= MaxItems /\ MaxItems \in Nat
  BY BatchAssumption
<1>2. Lines(b) \subseteq Line /\ IsFiniteSet(Lines(b)) /\ Cardinality(Lines(b)) = Items[b]
  <2>1. Lines(b) \subseteq Line
    BY <1>1 DEF Lines, Line
  <2>2. IsFiniteSet(1..Items[b]) /\ Cardinality(1..Items[b]) = Items[b]
    BY <1>1, UpTo
  <2> QED
    BY <2>1, <2>2 DEF Lines
<1>3. IsFiniteSet(G) /\ IsFiniteSet(P)
  BY LineFinite, FS_Subset
<1>4. \A l : l \in G \cup P <=> l \in Lines(b)
  <2>1. \A l \in Line : l \in G \cup P <=> f[l] \in Outcome
    BY DEF Outcome
  <2>2. \A l \in Line : f[l] \in Outcome <=> l \in Lines(b)
    BY <1>2 DEF Outcome
  <2> QED
    BY <1>2, <2>1, <2>2
<1>5. G \cap P = {} /\ G \cup P = Lines(b)
  BY <1>4
<1>6. Good(f) = Cardinality(G) /\ Poor(f) = Cardinality(P)
  BY DEF Good, Poor
<1> HIDE DEF G, P
<1>7. Cardinality(Lines(b)) = Cardinality(G) + Cardinality(P)
  BY <1>3, <1>5, TwoParts
<1> QED
  BY <1>2, <1>6, <1>7

\* Counts depend on the outcomes only.
LEMMA SameCounts ==
  ASSUME NEW f, NEW h, \A l \in Line : f[l] = h[l]
  PROVE  Good(f) = Good(h) /\ Poor(f) = Poor(h)
<1>1. {l \in Line : f[l] = "done"} = {l \in Line : h[l] = "done"}
  OBVIOUS
<1> DEFINE P(g) == {l \in Line : g[l] \in {"bad", "errored"}}
<1>2. P(f) = P(h)
  <2>1. \A l : l \in P(f) <=> l \in P(h)
    OBVIOUS
  <2> QED
    BY <2>1
<1> QED
  BY <1>1, <1>2 DEF Good, Poor

-----------------------------------------------------------------------------
\* A step that touches one batch, and leaves it with these values.
Touches(b, r, c, p, beg, lt) ==
  /\ row' = [row EXCEPT ![b] = r] /\ ck' = [ck EXCEPT ![b] = c]
  /\ proc' = [proc EXCEPT ![b] = p] /\ begun' = [begun EXCEPT ![b] = beg]
  /\ late' = [late EXCEPT ![b] = lt]
  /\ active' = active \/ active' = active \ {b}
  /\ b \in active' <=> p.pc # "off"
  /\ input' \in [Batch -> {"valid", "invalid", "gone"}]

\* Such a step keeps the invariant if it leaves the batch sound.
LEMMA OneTouched ==
  ASSUME BatchInv, NEW b \in Batch, NEW r, NEW c, NEW p, NEW beg, NEW lt,
         Touches(b, r, c, p, beg, lt), Sound(b, r, c, p, beg, lt)
  PROVE  BatchInv'
<1>1. r \in RowRecord /\ c \in [Line -> Checkpoint] /\ p \in ProcRecord
      /\ beg \in [Line -> Nat] /\ lt \in Nat
  BY DEF Sound
<1>2. Shapes'
  BY <1>1 DEF BatchInv, Shapes, Touches
<1>3. Slots'
  <2>1. IsFiniteSet(active) /\ active \subseteq Batch /\ Cardinality(active) <= MaxConcurrent
    BY DEF BatchInv, Slots
  <2>2. IsFiniteSet(active \ {b}) /\ Cardinality(active \ {b}) <= Cardinality(active)
    BY <2>1, FS_Subset
  <2>3. Cardinality(active) \in Nat /\ Cardinality(active \ {b}) \in Nat /\ MaxConcurrent \in Nat
    BY <2>1, <2>2, FS_CardinalityType, BatchAssumption
  <2>4. CASE active' = active
    BY <2>1, <2>4 DEF Slots
  <2>5. CASE active' = active \ {b}
    <3>1. Cardinality(active \ {b}) <= MaxConcurrent
      BY <2>1, <2>2, <2>3
    <3> QED
      BY <2>1, <2>2, <2>5, <3>1 DEF Slots
  <2> QED
    BY <2>4, <2>5 DEF Touches
<1>4. SoundAt(b)'
  <2>1. row'[b] = r /\ ck'[b] = c /\ proc'[b] = p /\ begun'[b] = beg /\ late'[b] = lt
    BY DEF BatchInv, Shapes, Touches
  <2> QED
    BY <2>1 DEF SoundAt, Touches
<1>5. ASSUME NEW x \in Batch, x # b PROVE SoundAt(x)'
  <2>1. /\ row'[x] = row[x] /\ ck'[x] = ck[x] /\ proc'[x] = proc[x] /\ begun'[x] = begun[x]
        /\ late'[x] = late[x]
    BY <1>5 DEF BatchInv, Shapes, Touches
  <2>2. x \in active' <=> x \in active
    BY <1>5 DEF Touches
  <2>3. SoundAt(x)
    BY DEF BatchInv
  <2> QED
    BY <2>1, <2>2, <2>3 DEF SoundAt
<1> QED
  BY <1>2, <1>3, <1>4, <1>5 DEF BatchInv

\* What a step leaves alone.
LEMMA LeftAlone ==
  ASSUME BatchInv, NEW b \in Batch
  PROVE  /\ row = [row EXCEPT ![b] = row[b]] /\ ck = [ck EXCEPT ![b] = ck[b]]
         /\ proc = [proc EXCEPT ![b] = proc[b]] /\ begun = [begun EXCEPT ![b] = begun[b]]
         /\ late = [late EXCEPT ![b] = late[b]]
BY DEF BatchInv, Shapes

Place == {"off"} \cup Micro \cup Awaiting

LEMMA Moved ==
  ASSUME NEW q \in ProcRecord, NEW pc \in Place
  PROVE  /\ [q EXCEPT !.pc = pc] \in ProcRecord
         /\ [q EXCEPT !.pc = pc].pc = pc
         /\ [q EXCEPT !.pc = pc].line = q.line
         /\ [q EXCEPT !.pc = pc].results = q.results
BY DEF ProcRecord, Place

LEMMA SoundNow ==
  ASSUME BatchInv, NEW b \in Batch
  PROVE  /\ Sound(b, row[b], ck[b], proc[b], begun[b], late[b])
         /\ b \in active <=> proc[b].pc # "off"
         /\ input \in [Batch -> {"valid", "invalid", "gone"}]
BY DEF BatchInv, Shapes, SoundAt

LEMMA ItemCounts ==
  ASSUME NEW b \in Batch
  PROVE  Items[b] \in Nat /\ Items[b] <= MaxItems /\ MaxItems \in Nat
BY BatchAssumption

\* A step that only moves the processor of one batch, which goes on.
LEMMA OnlyMoves ==
  ASSUME BatchInv, NEW b \in Batch, NEW p, Sound(b, row[b], ck[b], p, begun[b], late[b]),
         proc[b].pc # "off", p.pc # "off", proc' = [proc EXCEPT ![b] = p],
         UNCHANGED <<row, ck, input, active, begun, late>>
  PROVE  BatchInv'
<1>1. Touches(b, row[b], ck[b], p, begun[b], late[b])
  BY LeftAlone, SoundNow DEF Touches
<1> QED
  BY <1>1, OneTouched

-----------------------------------------------------------------------------
\* The steps of a processor.

LEMMA InPlace ==
  ASSUME NEW q \in ProcRecord
  PROVE  /\ q.line \in Nat /\ q.line >= 1 /\ q.line <= MaxItems + 1
         /\ q.pc \in Place /\ q.results \in [Line -> Outcome \cup {"none"}]
BY BatchAssumption DEF ProcRecord, Place

\* A processor may move on between its awaits, to a pause only with an item that
\* was never begun, to its end only when it has nothing left to do.
LEMMA MovesSoundly ==
  ASSUME NEW b \in Batch, NEW r, NEW c, NEW q, NEW p, NEW beg, NEW lt,
         Sound(b, r, c, q, beg, lt),
         p \in ProcRecord, p.line = q.line, p.results = q.results,
         q.pc \notin {"off", "recorded", "finalizing"},
         p.pc \notin {"off", "recorded", "finalizing"},
         p.pc = "throttled" => q.line <= Items[b] /\ beg[q.line] = 0 /\ lt # 1,
         p.pc = "sent" => q.pc = "sent",
         p.pc = "ending" => q.line = Items[b] + 1 \/ r.status \in Gone
  PROVE  Sound(b, r, c, p, beg, lt)
<1>1. InStep(b, r, q) /\ Marked(r, c, q, beg) /\ Belated(r, q, lt) /\ Collects(b, r, c, q)
  BY DEF Sound
<1>2. InStep(b, r, p)
  BY <1>1 DEF InStep
<1>3. Marked(r, c, p, beg)
  BY <1>1 DEF Marked
<1>4. Belated(r, p, lt)
  BY <1>1 DEF Belated
<1>5. Collects(b, r, c, p)
  BY <1>1 DEF Collects, Passed
<1> QED
  BY <1>2, <1>3, <1>4, <1>5 DEF Sound

LEMMA KeyResolvedKeeps ==
  ASSUME BatchInv, NEW b \in Batch, KeyResolved(b)
  PROVE  BatchInv'
<1> DEFINE p == [proc[b] EXCEPT !.pc = "walking"]
<1>1. Sound(b, row[b], ck[b], proc[b], begun[b], late[b]) /\ proc[b] \in ProcRecord
  BY SoundNow DEF Sound
<1>2. p \in ProcRecord /\ p.pc = "walking" /\ p.line = proc[b].line /\ p.results = proc[b].results
  BY <1>1, Moved DEF Place, Micro
<1>3. proc[b].pc = "starting" /\ proc' = [proc EXCEPT ![b] = p]
      /\ UNCHANGED <<row, ck, input, active, begun, late>>
  BY DEF KeyResolved, At, Goes
<1> HIDE DEF p
<1>4. Sound(b, row[b], ck[b], p, begun[b], late[b])
  BY <1>1, <1>2, <1>3, MovesSoundly
<1> QED
  BY <1>2, <1>3, <1>4, OnlyMoves

LEMMA StopWalkingKeeps ==
  ASSUME BatchInv, NEW b \in Batch, StopWalking(b)
  PROVE  BatchInv'
<1> DEFINE p == [proc[b] EXCEPT !.pc = "ending"]
<1>1. Sound(b, row[b], ck[b], proc[b], begun[b], late[b]) /\ proc[b] \in ProcRecord
  BY SoundNow DEF Sound
<1>2. p \in ProcRecord /\ p.pc = "ending" /\ p.line = proc[b].line /\ p.results = proc[b].results
  BY <1>1, Moved DEF Place, Micro
<1>3. proc[b].pc = "walking" /\ proc' = [proc EXCEPT ![b] = p]
      /\ UNCHANGED <<row, ck, input, active, begun, late>>
  BY DEF StopWalking, At, Goes
<1>4. proc[b].line = Items[b] + 1 \/ row[b].status \in Gone
  <2>1. proc[b].line > Items[b] \/ row[b].status \in Gone
    BY DEF StopWalking, CancelSeen, Gone
  <2>2. proc[b].line <= Items[b] + 1
    BY <1>1, <1>3 DEF Sound, InStep
  <2> QED
    BY <1>1, <2>1, <2>2, InPlace, ItemCounts
<1> HIDE DEF p
<1>5. Sound(b, row[b], ck[b], p, begun[b], late[b])
  BY <1>1, <1>2, <1>3, <1>4, MovesSoundly
<1> QED
  BY <1>2, <1>3, <1>5, OnlyMoves

\* An item that a processor is about to begin was never begun before, and the
\* batch is not cancelled.
LEMMA AboutToBegin ==
  ASSUME BatchInv, NEW b \in Batch, WalksOn(b), ~Reused(b)
  PROVE  /\ proc[b].pc = "walking" /\ proc[b].line \in Lines(b) /\ proc[b].line \in Line
         /\ row[b].status = "in_progress"
         /\ begun[b][proc[b].line] = 0 /\ late[b] = 0
<1> DEFINE l == proc[b].line
<1>1. Sound(b, row[b], ck[b], proc[b], begun[b], late[b]) /\ proc[b] \in ProcRecord
  BY SoundNow DEF Sound
<1>2. proc[b].pc = "walking" /\ l <= Items[b] /\ row[b].status \notin Gone
      /\ ck[b][l] \notin {"processing"} \cup Outcome
  BY DEF WalksOn, At, CancelSeen, Reused, Item, Gone
<1>3. l \in Lines(b) /\ l \in Line
  BY <1>1, <1>2, InPlace, ItemCounts DEF Lines, Line
<1>4. row[b].status = "in_progress"
  BY <1>1, <1>2 DEF Sound, InStep
<1>5. begun[b] \in [Line -> Nat] /\ Marked(row[b], ck[b], proc[b], begun[b])
      /\ late[b] \in Nat /\ Belated(row[b], proc[b], late[b])
  BY <1>1 DEF Sound
<1>6. begun[b][l] \in Nat /\ begun[b][l] <= 1 /\ begun[b][l] # 1
  BY <1>2, <1>3, <1>4, <1>5 DEF Marked
<1>7. late[b] <= 1 /\ late[b] # 1
  BY <1>4, <1>5 DEF Belated, Gone
<1> QED
  BY <1>2, <1>3, <1>4, <1>5, <1>6, <1>7

LEMMA ThrottleKeeps ==
  ASSUME BatchInv, NEW b \in Batch, Throttle(b)
  PROVE  BatchInv'
<1> DEFINE p == [proc[b] EXCEPT !.pc = "throttled"]
<1>1. Sound(b, row[b], ck[b], proc[b], begun[b], late[b]) /\ proc[b] \in ProcRecord
  BY SoundNow DEF Sound
<1>2. p \in ProcRecord /\ p.pc = "throttled" /\ p.line = proc[b].line /\ p.results = proc[b].results
  BY <1>1, Moved DEF Place, Awaiting
<1>3. proc' = [proc EXCEPT ![b] = p] /\ UNCHANGED <<row, ck, input, active, begun, late>>
  BY DEF Throttle, Goes
<1>4. /\ proc[b].pc = "walking" /\ proc[b].line \in Lines(b)
      /\ begun[b][proc[b].line] = 0 /\ late[b] = 0
  BY AboutToBegin DEF Throttle
<1>5. proc[b].line <= Items[b]
  BY <1>4, ItemCounts DEF Lines
<1> HIDE DEF p
<1>6. Sound(b, row[b], ck[b], p, begun[b], late[b])
  BY <1>1, <1>2, <1>4, <1>5, MovesSoundly
<1> QED
  BY <1>2, <1>3, <1>4, <1>6, OnlyMoves

LEMMA RetryItemKeeps ==
  ASSUME BatchInv, NEW b \in Batch, RetryItem(b)
  PROVE  BatchInv'
<1> DEFINE p == [proc[b] EXCEPT !.tries = @ + 1]
<1>1. Sound(b, row[b], ck[b], proc[b], begun[b], late[b]) /\ proc[b] \in ProcRecord
  BY SoundNow DEF Sound
<1>2. proc[b].pc = "sent" /\ proc' = [proc EXCEPT ![b] = p]
      /\ UNCHANGED <<row, ck, input, active, begun, late>>
  BY DEF RetryItem, At
<1>3. p \in ProcRecord /\ p.pc = "sent" /\ p.line = proc[b].line /\ p.results = proc[b].results
  BY <1>1, <1>2 DEF ProcRecord
<1> HIDE DEF p
<1>4. Sound(b, row[b], ck[b], p, begun[b], late[b])
  BY <1>1, <1>2, <1>3, MovesSoundly
<1> QED
  BY <1>2, <1>3, <1>4, OnlyMoves

\* BeginItem: the item is marked before it is sent, and late only out of a pause.
LEMMA BeginItemKeeps ==
  ASSUME BatchInv, NEW b \in Batch, BeginItem(b)
  PROVE  BatchInv'
<1> DEFINE r == row[b]
           c == ck[b]
           q == proc[b]
           l == proc[b].line
           d == [ck[b] EXCEPT ![l] = "processing"]
           p == [proc[b] EXCEPT !.pc = "sent", !.tries = 1]
           beg == begun[b]
           bag == [begun[b] EXCEPT ![l] = @ + 1]
           lt == late[b]
           lu == IF row[b].status \in Gone THEN late[b] + 1 ELSE late[b]
<1>1. Sound(b, r, c, q, beg, lt)
  BY SoundNow
<1>2. q \in ProcRecord /\ c \in [Line -> Checkpoint] /\ beg \in [Line -> Nat] /\ lt \in Nat
  BY <1>1 DEF Sound
<1>3. p \in ProcRecord /\ p.pc = "sent" /\ p.line = l /\ p.results = q.results
  BY <1>2 DEF ProcRecord, Awaiting
<1>4. q.pc \in {"walking", "throttled"} /\ l \in Lines(b) /\ l \in Line /\ l = q.line
      /\ beg[l] = 0 /\ lt <= 1 /\ (lt = 0 \/ r.status \notin Gone)
      /\ r.status \in Gone \cup {"in_progress"}
  <2>1. CASE WalksOn(b) /\ ~Reused(b)
    BY <2>1, AboutToBegin DEF Gone
  <2>2. CASE q.pc = "throttled"
    <3>1. l <= Items[b] /\ beg[l] = 0 /\ r.status \in Gone \cup {"in_progress"}
      BY <1>1, <2>2 DEF Sound, InStep, Marked
    <3>2. lt <= 1 /\ lt # 1
      BY <1>1, <2>2 DEF Sound, Belated
    <3> QED
      BY <1>2, <2>2, <3>1, <3>2, InPlace, ItemCounts DEF Lines, Line
  <2> QED
    BY <2>1, <2>2 DEF BeginItem, At
<1>5. /\ late' = [late EXCEPT ![b] = lu] /\ ck' = [ck EXCEPT ![b] = d]
      /\ begun' = [begun EXCEPT ![b] = bag] /\ proc' = [proc EXCEPT ![b] = p]
      /\ UNCHANGED <<row, input, active>>
  BY LeftAlone DEF BeginItem, Gone
<1>6. Touches(b, r, d, p, bag, lu)
  <2>1. b \in active' <=> p.pc # "off"
    BY <1>3, <1>4, <1>5, SoundNow
  <2> QED
    BY <1>5, <2>1, SoundNow, LeftAlone DEF Touches
<1>7. d \in [Line -> Checkpoint] /\ d[l] = "processing" /\ \A k \in Line : k # l => d[k] = c[k]
  BY <1>2, <1>4 DEF Checkpoint
<1>8. bag \in [Line -> Nat] /\ bag[l] = 1 /\ \A k \in Line : k # l => bag[k] = beg[k]
  BY <1>2, <1>4
<1>9. lu \in Nat /\ lu <= 1 /\ (lu = 1 => r.status \in Gone \/ lt = 1)
  BY <1>2, <1>4
<1> HIDE DEF r, c, q, l, d, p, beg, bag, lt, lu
<1>10. Sound(b, r, d, p, bag, lu)
  <2>1. InStep(b, r, p)
    BY <1>1, <1>2, <1>3, <1>4, InPlace, ItemCounts DEF Sound, InStep, Lines
  <2>2. Marked(r, d, p, bag)
    BY <1>1, <1>3, <1>4, <1>7, <1>8 DEF Sound, Marked
  <2>3. Belated(r, p, lu)
    BY <1>1, <1>3, <1>9 DEF Sound, Belated
  <2>4. Collects(b, r, d, p)
    BY <1>1, <1>2, <1>3, <1>4, <1>7, InPlace DEF Sound, Collects, Passed, Line
  <2>5. Delivered(b, r, d)
    BY <1>4 DEF Delivered, Gone
  <2>6. \A k \in Line : k \notin Lines(b) => d[k] = "none"
    BY <1>1, <1>4, <1>7 DEF Sound
  <2>7. r \in RowRecord
    BY <1>1 DEF Sound
  <2> QED
    BY <1>3, <1>7, <1>8, <1>9, <2>1, <2>2, <2>3, <2>4, <2>5, <2>6, <2>7 DEF Sound
<1> QED
  BY <1>6, <1>10, OneTouched

\* RecordOutcome: the checkpoint and the result of the item agree.
LEMMA RecordOutcomeKeeps ==
  ASSUME BatchInv, NEW b \in Batch, NEW outcome \in Outcome, RecordOutcome(b, outcome)
  PROVE  BatchInv'
<1> DEFINE r == row[b]
           c == ck[b]
           q == proc[b]
           l == proc[b].line
           d == IF ck[b][l] = "none" THEN ck[b] ELSE [ck[b] EXCEPT ![l] = outcome]
           p == [proc[b] EXCEPT !.pc = "recorded", !.results[l] = outcome]
           beg == begun[b]
           lt == late[b]
<1>1. Sound(b, r, c, q, beg, lt)
  BY SoundNow
<1>2. q \in ProcRecord /\ c \in [Line -> Checkpoint] /\ beg \in [Line -> Nat] /\ lt \in Nat
  BY <1>1 DEF Sound
<1>3. q.pc = "sent"
  BY DEF RecordOutcome, At
<1>4. l \in Lines(b) /\ l \in Line /\ l = q.line
  <2>1. l <= Items[b]
    BY <1>1, <1>3 DEF Sound, InStep
  <2> QED
    BY <1>2, <2>1, InPlace, ItemCounts DEF Lines, Line
<1>5. /\ p \in ProcRecord /\ p.pc = "recorded" /\ p.line = l /\ p.results[l] = outcome
      /\ \A k \in Line : k # l => p.results[k] = q.results[k]
  BY <1>2, <1>4 DEF ProcRecord, Micro
<1>6. /\ ck' = [ck EXCEPT ![b] = d] /\ proc' = [proc EXCEPT ![b] = p]
      /\ UNCHANGED <<row, input, active, begun, late>>
  <2>1. proc' = [proc EXCEPT ![b] = p]
    BY <1>2 DEF RecordOutcome, BatchInv, Shapes, ProcRecord
  <2>2. ck' = [ck EXCEPT ![b] = d]
    BY LeftAlone DEF RecordOutcome
  <2> QED
    BY <2>1, <2>2 DEF RecordOutcome
<1>7. Touches(b, r, d, p, beg, lt)
  <2>1. b \in active' <=> p.pc # "off"
    BY <1>3, <1>5, <1>6, SoundNow
  <2> QED
    BY <1>6, <2>1, SoundNow, LeftAlone DEF Touches
<1>8. d \in [Line -> Checkpoint] /\ (c[l] # "none" => d[l] = outcome) /\ d[l] \in {outcome, "none"}
      /\ \A k \in Line : k # l => d[k] = c[k]
  BY <1>2, <1>4 DEF Checkpoint
<1> HIDE DEF r, c, q, l, d, p, beg, lt
<1>9. beg[l] = 1 /\ (c[l] # "none" \/ r.status = "deleted")
  BY <1>1, <1>3, <1>4 DEF Sound, Marked, Outcome
<1>10. Sound(b, r, d, p, beg, lt)
  <2>1. InStep(b, r, p)
    BY <1>1, <1>3, <1>4, <1>5 DEF Sound, InStep
  <2>2. Marked(r, d, p, beg)
    BY <1>1, <1>4, <1>5, <1>8, <1>9 DEF Sound, Marked
  <2>3. Belated(r, p, lt)
    BY <1>1, <1>5 DEF Sound, Belated
  <2>4. Collects(b, r, d, p)
    BY <1>1, <1>2, <1>3, <1>4, <1>5, <1>8, <1>9, InPlace DEF Sound, Collects, Passed, Line
  <2>5. Delivered(b, r, d)
    BY <1>1, <1>3 DEF Sound, InStep, Delivered, Gone
  <2>6. \A k \in Line : k \notin Lines(b) => d[k] = "none"
    BY <1>1, <1>4, <1>8 DEF Sound
  <2>7. r \in RowRecord
    BY <1>1 DEF Sound
  <2> QED
    BY <1>2, <1>5, <1>8, <2>1, <2>2, <2>3, <2>4, <2>5, <2>6, <2>7 DEF Sound
<1> QED
  BY <1>7, <1>10, OneTouched

\* What writing the counts of a batch leaves of its row.
Counted(b, f) == IF Exists(b) THEN WithCounts(row[b], f) ELSE row[b]

LEMMA CountsWritten ==
  ASSUME BatchInv, NEW b \in Batch, NEW f
  PROVE  /\ Updated(b, WithCounts(row[b], f)) = [row EXCEPT ![b] = Counted(b, f)]
         /\ Counted(b, f) \in RowRecord
         /\ Counted(b, f).status = row[b].status
         /\ Counted(b, f).total = row[b].total
<1>1. row[b] \in RowRecord
  BY SoundNow DEF Sound
<1>2. WithCounts(row[b], f) \in RowRecord /\ WithCounts(row[b], f).status = row[b].status
      /\ WithCounts(row[b], f).total = row[b].total
  BY <1>1, WithCountsTyped
<1>3. row = [row EXCEPT ![b] = row[b]]
  BY LeftAlone
<1> QED
  BY <1>1, <1>2, <1>3 DEF Updated, Counted

LEMMA PersistProgressKeeps ==
  ASSUME BatchInv, NEW b \in Batch, PersistProgress(b)
  PROVE  BatchInv'
<1> DEFINE r == row[b]
           c == ck[b]
           q == proc[b]
           s == Counted(b, proc[b].results)
           p == [proc[b] EXCEPT !.pc = "walking", !.line = @ + 1]
           beg == begun[b]
           lt == late[b]
<1>1. Sound(b, r, c, q, beg, lt)
  BY SoundNow
<1>2. q \in ProcRecord /\ c \in [Line -> Checkpoint] /\ beg \in [Line -> Nat] /\ lt \in Nat
  BY <1>1 DEF Sound
<1>3. q.pc = "recorded"
  BY DEF PersistProgress, At
<1>4. q.line <= Items[b]
  BY <1>1, <1>3 DEF Sound, InStep
<1>5. p \in ProcRecord /\ p.pc = "walking" /\ p.line = q.line + 1 /\ p.results = q.results
  <2>1. q.line + 1 \in 1..(MaxItems + 1)
    BY <1>2, <1>4, InPlace, ItemCounts
  <2> QED
    BY <1>2, <2>1 DEF ProcRecord, Micro
<1>6. proc' = [proc EXCEPT ![b] = p] /\ row' = [row EXCEPT ![b] = s]
      /\ UNCHANGED <<ck, input, active, begun, late>>
  BY CountsWritten DEF PersistProgress
<1>7. Touches(b, s, c, p, beg, lt)
  <2>1. b \in active' <=> p.pc # "off"
    BY <1>3, <1>5, <1>6, SoundNow
  <2> QED
    BY <1>6, <2>1, SoundNow, LeftAlone DEF Touches
<1>8. s \in RowRecord /\ s.status = r.status /\ s.total = r.total
  BY CountsWritten
<1> HIDE DEF r, c, q, s, p, beg, lt
<1>9. Sound(b, s, c, p, beg, lt)
  <2>1. InStep(b, s, p)
    BY <1>1, <1>2, <1>3, <1>4, <1>5, <1>8, InPlace, ItemCounts DEF Sound, InStep
  <2>2. Marked(s, c, p, beg)
    BY <1>1, <1>5, <1>8 DEF Sound, Marked
  <2>3. Belated(s, p, lt)
    BY <1>1, <1>5, <1>8 DEF Sound, Belated
  <2>4. Collects(b, s, c, p)
    BY <1>1, <1>2, <1>3, <1>5, <1>8, InPlace DEF Sound, Collects, Passed, Line
  <2>5. Delivered(b, s, c)
    BY <1>1, <1>3, <1>8 DEF Sound, InStep, Delivered, Gone
  <2> QED
    BY <1>1, <1>5, <1>8, <2>1, <2>2, <2>3, <2>4, <2>5 DEF Sound
<1> QED
  BY <1>7, <1>9, OneTouched

LEMMA ReuseCheckpointKeeps ==
  ASSUME BatchInv, NEW b \in Batch, ReuseCheckpoint(b)
  PROVE  BatchInv'
<1> DEFINE r == row[b]
           c == ck[b]
           q == proc[b]
           l == proc[b].line
           outcome == IF Item(b) \in Outcome THEN Item(b) ELSE "errored"
           s == Counted(b, Collected(b, outcome))
           d == [ck[b] EXCEPT ![l] = outcome]
           p == [proc[b] EXCEPT !.results = Collected(b, outcome), !.line = @ + 1]
           beg == begun[b]
           lt == late[b]
<1>1. Sound(b, r, c, q, beg, lt)
  BY SoundNow
<1>2. q \in ProcRecord /\ c \in [Line -> Checkpoint] /\ beg \in [Line -> Nat] /\ lt \in Nat
  BY <1>1 DEF Sound
<1>3. q.pc = "walking" /\ l <= Items[b] /\ l = q.line /\ outcome \in Outcome
      /\ r.status = "in_progress"
  <2>1. q.pc = "walking" /\ l <= Items[b] /\ r.status \notin Gone
    BY DEF ReuseCheckpoint, WalksOn, At, CancelSeen, Gone
  <2> QED
    BY <1>1, <2>1 DEF Sound, InStep, Outcome
<1>4. l \in Lines(b) /\ l \in Line /\ l + 1 \in 1..(MaxItems + 1)
  BY <1>2, <1>3, InPlace, ItemCounts DEF Lines, Line
<1>5. /\ p \in ProcRecord /\ p.pc = "walking" /\ p.line = l + 1 /\ p.results[l] = outcome
      /\ \A k \in Line : k # l => p.results[k] = q.results[k]
  BY <1>2, <1>3, <1>4 DEF ProcRecord, Collected
<1>6. /\ row' = [row EXCEPT ![b] = s] /\ ck' = [ck EXCEPT ![b] = d]
      /\ proc' = [proc EXCEPT ![b] = p] /\ UNCHANGED <<input, active, begun, late>>
  <2>1. proc' = [proc EXCEPT ![b] = p]
    BY DEF ReuseCheckpoint
  <2>2. ck' = [ck EXCEPT ![b] = d]
    BY DEF ReuseCheckpoint
  <2>3. row' = [row EXCEPT ![b] = s]
    BY CountsWritten DEF ReuseCheckpoint
  <2> QED
    BY <2>1, <2>2, <2>3 DEF ReuseCheckpoint
<1>7. Touches(b, s, d, p, beg, lt)
  <2>1. b \in active' <=> p.pc # "off"
    BY <1>3, <1>5, <1>6, SoundNow
  <2> QED
    BY <1>6, <2>1, SoundNow, LeftAlone DEF Touches
<1>8. d \in [Line -> Checkpoint] /\ d[l] = outcome /\ \A k \in Line : k # l => d[k] = c[k]
  BY <1>2, <1>3, <1>4 DEF Checkpoint
<1>9. s \in RowRecord /\ s.status = r.status /\ s.total = r.total
  BY CountsWritten
<1> HIDE DEF r, c, q, l, outcome, s, d, p, beg, lt
<1>10. Sound(b, s, d, p, beg, lt)
  <2>1. InStep(b, s, p)
    BY <1>1, <1>2, <1>3, <1>4, <1>5, <1>9, InPlace, ItemCounts DEF Sound, InStep
  <2>2. Marked(s, d, p, beg)
    BY <1>1, <1>3, <1>5, <1>8, <1>9 DEF Sound, Marked
  <2>3. Belated(s, p, lt)
    BY <1>1, <1>5, <1>9 DEF Sound, Belated
  <2>4. Collects(b, s, d, p)
    BY <1>1, <1>2, <1>3, <1>4, <1>5, <1>8, <1>9, InPlace DEF Sound, Collects, Passed, Line
  <2>5. Delivered(b, s, d)
    BY <1>3, <1>9 DEF Delivered
  <2>6. \A k \in Line : k \notin Lines(b) => d[k] = "none"
    BY <1>1, <1>4, <1>8 DEF Sound
  <2> QED
    BY <1>2, <1>5, <1>8, <1>9, <2>1, <2>2, <2>3, <2>4, <2>5, <2>6 DEF Sound
<1> QED
  BY <1>7, <1>10, OneTouched

\* A row whose status is changed and nothing else.
LEMMA StatusSet ==
  ASSUME NEW r \in RowRecord, NEW st \in Status
  PROVE  /\ [r EXCEPT !.status = st] \in RowRecord
         /\ [r EXCEPT !.status = st].status = st
         /\ [r EXCEPT !.status = st].total = r.total
BY DEF RowRecord

LEMMA ResetTyped ==
  ASSUME NEW r \in RowRecord
  PROVE  /\ [r EXCEPT !.status = "validating", !.completed = 0, !.failed = 0] \in RowRecord
         /\ [r EXCEPT !.status = "validating", !.completed = 0, !.failed = 0].status = "validating"
<1>1. 0 \in 0..MaxItems
  BY BatchAssumption
<1> QED
  BY <1>1 DEF RowRecord, Status

LEMMA RejectedTyped ==
  ASSUME NEW r \in RowRecord, NEW n \in 0..MaxItems
  PROVE  /\ [r EXCEPT !.status = "failed", !.total = n, !.failed = n] \in RowRecord
         /\ [r EXCEPT !.status = "failed", !.total = n, !.failed = n].status = "failed"
BY DEF RowRecord, Status, Terminal

LEMMA MarkFinalizingKeeps ==
  ASSUME BatchInv, NEW b \in Batch, MarkFinalizing(b)
  PROVE  BatchInv'
<1> DEFINE r == row[b]
           c == ck[b]
           q == proc[b]
           s == [row[b] EXCEPT !.status = "finalizing"]
           p == [proc[b] EXCEPT !.pc = "finalizing"]
           beg == begun[b]
           lt == late[b]
<1>1. Sound(b, r, c, q, beg, lt)
  BY SoundNow
<1>2. q \in ProcRecord /\ r \in RowRecord
  BY <1>1 DEF Sound
<1>3. q.pc = "ending" /\ r.status \notin Gone
  BY DEF MarkFinalizing, At, HandledCancellation, CancelSeen, Gone
<1>4. r.status = "in_progress" /\ q.line = Items[b] + 1
  BY <1>1, <1>3 DEF Sound, InStep
<1>5. p \in ProcRecord /\ p.pc = "finalizing" /\ p.line = q.line /\ p.results = q.results
  BY <1>2, Moved DEF Place, Micro
<1>6. s \in RowRecord /\ s.status = "finalizing" /\ s.total = r.total
  BY <1>2, StatusSet DEF Status
<1>7. row' = [row EXCEPT ![b] = s] /\ proc' = [proc EXCEPT ![b] = p]
      /\ UNCHANGED <<ck, input, active, begun, late>>
  BY DEF MarkFinalizing, Goes
<1>8. Touches(b, s, c, p, beg, lt)
  <2>1. b \in active' <=> p.pc # "off"
    BY <1>3, <1>5, <1>7, SoundNow
  <2> QED
    BY <1>7, <2>1, SoundNow, LeftAlone DEF Touches
<1> HIDE DEF r, c, q, s, p, beg, lt
<1>9. Sound(b, s, c, p, beg, lt)
  <2>1. InStep(b, s, p)
    BY <1>1, <1>2, <1>4, <1>5, <1>6, InPlace, ItemCounts DEF InStep
  <2>2. Marked(s, c, p, beg)
    BY <1>1, <1>4, <1>5, <1>6 DEF Sound, Marked
  <2>3. Belated(s, p, lt)
    BY <1>1, <1>4, <1>5, <1>6 DEF Sound, Belated, Gone
  <2>4. Collects(b, s, c, p)
    BY <1>1, <1>3, <1>4, <1>5, <1>6 DEF Sound, Collects, Passed
  <2>5. Delivered(b, s, c)
    BY <1>6 DEF Delivered
  <2> QED
    BY <1>1, <1>5, <1>6, <2>1, <2>2, <2>3, <2>4, <2>5 DEF Sound
<1> QED
  BY <1>8, <1>9, OneTouched

\* A batch without a processor is sound when its row is.
LEMMA OffTyped == Off \in ProcRecord /\ Off.pc = "off"
BY BatchAssumption DEF Off, ProcRecord, NoResults

LEMMA EndsSoundly ==
  ASSUME NEW b \in Batch, NEW r, NEW c, NEW q, NEW beg, NEW lt, NEW s \in RowRecord,
         Sound(b, r, c, q, beg, lt),
         r.status = "deleted" => s.status = "deleted",
         lt = 1 => s.status \in Gone \cup {"failed"},
         Delivered(b, s, c)
  PROVE  Sound(b, s, c, Off, beg, lt)
<1>1. InStep(b, s, Off)
  BY OffTyped DEF InStep
<1>2. Marked(s, c, Off, beg)
  BY OffTyped DEF Sound, Marked
<1>3. Belated(s, Off, lt)
  BY OffTyped DEF Sound, Belated
<1>4. Collects(b, s, c, Off)
  BY OffTyped DEF Collects
<1> QED
  BY <1>1, <1>2, <1>3, <1>4, OffTyped DEF Sound

LEMMA LeavesTouches ==
  ASSUME BatchInv, NEW b \in Batch, NEW s, Leaves(b), row' = [row EXCEPT ![b] = s],
         UNCHANGED <<ck, input, begun, late>>
  PROVE  Touches(b, s, ck[b], Off, begun[b], late[b])
BY LeftAlone, SoundNow, OffTyped DEF Touches, Leaves

LEMMA EndCancelledKeeps ==
  ASSUME BatchInv, NEW b \in Batch, EndCancelled(b)
  PROVE  BatchInv'
<1> DEFINE s == IF row[b].status = "cancelling" THEN [row[b] EXCEPT !.status = "cancelled"]
                ELSE row[b]
<1>1. Sound(b, row[b], ck[b], proc[b], begun[b], late[b]) /\ row[b] \in RowRecord
  BY SoundNow DEF Sound
<1>2. s \in RowRecord /\ (row[b].status \in Gone => s.status \in Gone)
      /\ (row[b].status = "deleted" => s.status = "deleted")
  BY <1>1, StatusSet DEF Status, Terminal, Gone
<1>3. row[b].status \in Gone
  BY DEF EndCancelled, HandledCancellation, CancelSeen, Gone
<1>4. row' = [row EXCEPT ![b] = s] /\ Leaves(b) /\ UNCHANGED <<ck, input, begun, late>>
  BY LeftAlone DEF EndCancelled
<1>5. Touches(b, s, ck[b], Off, begun[b], late[b])
  BY <1>4, LeavesTouches
<1> HIDE DEF s
<1>6. Delivered(b, s, ck[b])
  BY <1>2, <1>3 DEF Delivered, Gone
<1>7. Sound(b, s, ck[b], Off, begun[b], late[b])
  BY <1>1, <1>2, <1>3, <1>6, EndsSoundly
<1> QED
  BY <1>5, <1>7, OneTouched

LEMMA BreakKeeps ==
  ASSUME BatchInv, NEW b \in Batch, Break(b)
  PROVE  BatchInv'
<1> DEFINE s == IF Exists(b) THEN [row[b] EXCEPT !.status = "failed"] ELSE row[b]
<1>1. Sound(b, row[b], ck[b], proc[b], begun[b], late[b]) /\ row[b] \in RowRecord
  BY SoundNow DEF Sound
<1>2. /\ s \in RowRecord /\ (row[b].status = "deleted" => s.status = "deleted")
      /\ s.status \in {"failed", "unborn", "deleted"}
  BY <1>1, StatusSet DEF Status, Terminal, Exists
<1>3. row[b].status # "unborn"
  BY <1>1 DEF Sound, InStep, Break, Micro, Awaiting, Gone
<1>4. row' = [row EXCEPT ![b] = s] /\ Leaves(b) /\ UNCHANGED <<ck, input, begun, late>>
  BY LeftAlone DEF Break, Updated
<1>5. Touches(b, s, ck[b], Off, begun[b], late[b])
  BY <1>4, LeavesTouches
<1>6. s.status \in Gone \cup {"failed"}
  BY <1>2, <1>3 DEF Exists, Gone
<1> HIDE DEF s
<1>7. Delivered(b, s, ck[b])
  BY <1>2 DEF Delivered
<1>8. Sound(b, s, ck[b], Off, begun[b], late[b])
  BY <1>1, <1>2, <1>6, <1>7, EndsSoundly
<1> QED
  BY <1>5, <1>8, OneTouched

\* Complete: what was collected is what is recorded, so output and counts add up.
LEMMA CompleteKeeps ==
  ASSUME BatchInv, NEW b \in Batch, Complete(b)
  PROVE  BatchInv'
<1> DEFINE r == row[b]
           c == ck[b]
           f == proc[b].results
           s == [WithCounts(row[b], proc[b].results)
                   EXCEPT !.status = "completed", !.output = proc[b].results]
<1>1. Sound(b, r, c, proc[b], begun[b], late[b]) /\ r \in RowRecord /\ proc[b] \in ProcRecord
  BY SoundNow DEF Sound
<1>2. proc[b].pc = "finalizing"
  BY DEF Complete, At
<1>3. r.status = "finalizing" /\ proc[b].line = Items[b] + 1
  BY <1>1, <1>2 DEF Sound, InStep
<1>4. f \in [Line -> Outcome \cup {"none"}]
  BY <1>1, InPlace
<1>5. /\ s \in RowRecord /\ s.status = "completed" /\ s.output = f /\ s.total = r.total
      /\ s.completed = Good(f) /\ s.failed = Poor(f)
  <2>1. WithCounts(r, f) \in RowRecord /\ WithCounts(r, f).total = r.total
        /\ WithCounts(r, f).completed = Good(f) /\ WithCounts(r, f).failed = Poor(f)
    BY <1>1, WithCountsTyped
  <2> HIDE DEF r, f
  <2>2. [WithCounts(r, f) EXCEPT !.status = "completed", !.output = f] \in RowRecord
    BY <1>4, <2>1 DEF RowRecord, Status, Terminal
  <2> QED
    BY <1>4, <2>1, <2>2 DEF RowRecord, r, f
<1>6. row' = [row EXCEPT ![b] = s] /\ Leaves(b) /\ UNCHANGED <<ck, input, begun, late>>
  BY DEF Complete
<1>7. Touches(b, s, c, Off, begun[b], late[b])
  BY <1>6, LeavesTouches
<1>8. Collects(b, r, c, proc[b]) /\ \A l \in Line : l \notin Lines(b) => c[l] = "none"
  BY <1>1 DEF Sound
<1> HIDE DEF r, c, f, s
<1>9. r.total = Items[b] /\ \A l \in Line :
        IF l \in Lines(b) THEN f[l] \in Outcome /\ f[l] = c[l] ELSE f[l] = "none" /\ f[l] = c[l]
  <2>1. \A l \in Line : Passed(l, proc[b]) <=> l \in Lines(b)
    BY <1>2, <1>3, ItemCounts DEF Passed, Line, Lines
  <2> QED
    BY <1>2, <1>3, <1>8, <2>1 DEF Collects, f
<1>10. Lines(b) \subseteq Line
  BY ItemCounts DEF Lines, Line
<1>11. Good(f) + Poor(f) = Items[b]
  BY <1>9, <1>10, CountsAddUp
<1>12. Good(f) = Good(c) /\ Poor(f) = Poor(c)
  BY <1>9, SameCounts
<1>13. Delivered(b, s, c)
  BY <1>5, <1>9, <1>10, <1>11, <1>12 DEF Delivered
<1>14. late[b] # 1
  BY <1>1, <1>3 DEF Sound, Belated, Gone
<1>15. Sound(b, s, c, Off, begun[b], late[b])
  BY <1>1, <1>3, <1>5, <1>13, <1>14, EndsSoundly
<1> QED
  BY <1>7, <1>15, OneTouched DEF c

-----------------------------------------------------------------------------
\* The routes.

\* A step of a route that writes the status of one row, in a quiet moment.
LEMMA StatusWrites ==
  ASSUME BatchInv, Quiet, NEW b \in Batch, NEW st \in Status,
         row' = [row EXCEPT ![b].status = st],
         UNCHANGED <<ck, active, proc, begun, late>>,
         input' \in [Batch -> {"valid", "invalid", "gone"}],
         st # "completed", row[b].status # "deleted",
         proc[b].pc # "off" \/ late[b] = 1 => st \in Gone
  PROVE  BatchInv'
<1> DEFINE s == [row[b] EXCEPT !.status = st]
<1>1. Sound(b, row[b], ck[b], proc[b], begun[b], late[b]) /\ row[b] \in RowRecord
  BY SoundNow DEF Sound
<1>2. s \in RowRecord /\ s.status = st /\ s.total = row[b].total
  BY <1>1, StatusSet
<1>3. Touches(b, s, ck[b], proc[b], begun[b], late[b])
  BY LeftAlone, SoundNow DEF Touches
<1>4. proc[b].pc # "finalizing"
  BY DEF Quiet, Micro
<1> HIDE DEF s
<1>5. Sound(b, s, ck[b], proc[b], begun[b], late[b])
  <2>1. InStep(b, s, proc[b])
    BY <1>1, <1>2, <1>4 DEF Sound, InStep
  <2>2. Marked(s, ck[b], proc[b], begun[b])
    BY <1>1, <1>2 DEF Sound, Marked
  <2>3. Belated(s, proc[b], late[b])
    BY <1>1, <1>2 DEF Sound, Belated
  <2>4. Collects(b, s, ck[b], proc[b])
    BY <1>1, <1>2 DEF Sound, Collects
  <2>5. Delivered(b, s, ck[b])
    BY <1>2 DEF Delivered
  <2> QED
    BY <1>1, <1>2, <2>1, <2>2, <2>3, <2>4, <2>5 DEF Sound
<1> QED
  BY <1>3, <1>5, OneTouched

LEMMA CreateKeeps ==
  ASSUME BatchInv, NEW b \in Batch, Create(b)
  PROVE  BatchInv'
<1>1. Sound(b, row[b], ck[b], proc[b], begun[b], late[b])
  BY SoundNow
<1>2. proc[b].pc = "off" /\ late[b] # 1
  BY <1>1 DEF Sound, InStep, Belated, Gone, Create
<1>3. input' \in [Batch -> {"valid", "invalid", "gone"}]
  BY SoundNow DEF Create
<1>4. "validating" \in Status
  BY DEF Status
<1> QED
  BY <1>2, <1>3, <1>4, StatusWrites DEF Create

LEMMA CancelKeeps ==
  ASSUME BatchInv, NEW b \in Batch, Cancel(b)
  PROVE  BatchInv'
<1>1. "cancelling" \in Status /\ "cancelling" \in Gone
  BY DEF Status, Gone
<1> QED
  BY <1>1, SoundNow, StatusWrites DEF Cancel

LEMMA LoseInputKeeps ==
  ASSUME BatchInv, NEW b \in Batch, LoseInput(b)
  PROVE  BatchInv'
<1>1. Sound(b, row[b], ck[b], proc[b], begun[b], late[b])
  BY SoundNow
<1>2. Touches(b, row[b], ck[b], proc[b], begun[b], late[b])
  BY LeftAlone, SoundNow DEF Touches, LoseInput
<1> QED
  BY <1>1, <1>2, OneTouched

\* Only ended batches are deleted.
LEMMA DeleteBatchesKeeps ==
  ASSUME BatchInv, NEW D \in SUBSET Batch, DeleteBatches(D),
         \A b \in D : row[b].status \in Terminal
  PROVE  BatchInv'
<1>1. EmptyRow("deleted") \in RowRecord /\ EmptyRow("deleted").status = "deleted"
  BY BatchAssumption DEF EmptyRow, RowRecord, Status, NoResults
<1>2. NoResults \in [Line -> Checkpoint] /\ \A l \in Line : NoResults[l] = "none"
  BY DEF NoResults, Checkpoint
<1>3. /\ row' = [b \in Batch |-> IF b \in D THEN EmptyRow("deleted") ELSE row[b]]
      /\ ck' = [b \in Batch |-> IF b \in D THEN NoResults ELSE ck[b]]
      /\ input' = [b \in Batch |-> IF b \in D THEN "gone" ELSE input[b]]
      /\ UNCHANGED <<active, proc, begun, late>>
  BY DEF DeleteBatches
<1> HIDE DEF EmptyRow, NoResults
<1>4. Shapes'
  BY <1>1, <1>2, <1>3 DEF BatchInv, Shapes
<1>5. Slots'
  BY <1>3 DEF BatchInv, Slots
<1>6. ASSUME NEW b \in Batch PROVE SoundAt(b)'
  <2>1. SoundAt(b)
    BY DEF BatchInv
  <2>2. CASE b \notin D
    BY <1>3, <2>1, <2>2 DEF SoundAt
  <2>3. CASE b \in D
    <3> DEFINE r == EmptyRow("deleted")
               c == NoResults
               p == proc[b]
               beg == begun[b]
               lt == late[b]
    <3>1. /\ row'[b] = r /\ ck'[b] = c /\ proc'[b] = p /\ begun'[b] = beg /\ late'[b] = lt
          /\ (b \in active' <=> b \in active)
      BY <1>3, <2>3
    <3>2. Sound(b, row[b], ck[b], p, beg, lt) /\ (b \in active <=> p.pc # "off")
      BY <2>1 DEF SoundAt
    <3>3. r \in RowRecord /\ r.status = "deleted"
      BY <1>1
    <3>4. c \in [Line -> Checkpoint] /\ \A l \in Line : c[l] = "none"
      BY <1>2
    <3>5. row[b].status \in Terminal
      BY <2>3
    <3> HIDE DEF r, c, p, beg, lt
    <3>6. InStep(b, r, p)
      BY <3>2, <3>3, <3>5 DEF Sound, InStep, Terminal, Gone
    <3>7. Marked(r, c, p, beg)
      BY <3>2, <3>3 DEF Sound, Marked
    <3>8. Belated(r, p, lt)
      BY <3>2, <3>3 DEF Sound, Belated, Gone
    <3>9. Collects(b, r, c, p) /\ Delivered(b, r, c)
      BY <3>3 DEF Collects, Delivered
    <3>10. Sound(b, r, c, p, beg, lt)
      BY <3>2, <3>3, <3>4, <3>6, <3>7, <3>8, <3>9 DEF Sound
    <3> QED
      BY <3>1, <3>2, <3>10 DEF SoundAt
  <2> QED
    BY <2>2, <2>3
<1> QED
  BY <1>4, <1>5, <1>6 DEF BatchInv

LEMMA CrashKeeps ==
  ASSUME BatchInv, Crash
  PROVE  BatchInv'
<1>1. active' = {} /\ proc' = [b \in Batch |-> Off] /\ UNCHANGED <<row, ck, input, begun, late>>
  BY DEF Crash
<1>2. Shapes'
  BY <1>1, OffTyped DEF BatchInv, Shapes
<1>3. Slots'
  BY <1>1, FS_EmptySet, BatchAssumption DEF Slots
<1>4. ASSUME NEW b \in Batch PROVE SoundAt(b)'
  <2>1. Sound(b, row[b], ck[b], proc[b], begun[b], late[b])
    BY SoundNow
  <2>2. row[b] \in RowRecord /\ Delivered(b, row[b], ck[b])
        /\ (late[b] = 1 => row[b].status \in Gone \cup {"failed"})
    BY <2>1 DEF Sound, Belated
  <2>3. Sound(b, row[b], ck[b], Off, begun[b], late[b])
    BY <2>1, <2>2, EndsSoundly
  <2> QED
    BY <1>1, <2>3, OffTyped DEF SoundAt
<1> QED
  BY <1>2, <1>3, <1>4 DEF BatchInv

-----------------------------------------------------------------------------
\* The poll.

\* Recovery concerns only batches without a processor, and starts none over that
\* has ended or was cancelled.
LEMMA RecoveryTyped ==
  ASSUME BatchInv, NEW b \in Batch
  PROVE  /\ AfterRecovery(b) \in RowRecord
         /\ b \notin Stale => AfterRecovery(b) = row[b]
         /\ b \in Stale => /\ row[b].status \in {"in_progress", "finalizing"} /\ b \notin active
                          /\ AfterRecovery(b).status \in {"validating", "failed"}
<1>1. row[b] \in RowRecord
  BY SoundNow DEF Sound
<1> DEFINE r == row[b]
<1>2. [r EXCEPT !.status = "validating"] \in RowRecord
      /\ [r EXCEPT !.status = "validating"].status = "validating"
  BY <1>1, StatusSet DEF Status
<1>3. [r EXCEPT !.status = "failed"] \in RowRecord /\ [r EXCEPT !.status = "failed"].status = "failed"
  BY <1>1, StatusSet DEF Status, Terminal
<1>4. /\ [r EXCEPT !.status = "validating", !.completed = 0, !.failed = 0] \in RowRecord
      /\ [r EXCEPT !.status = "validating", !.completed = 0, !.failed = 0].status = "validating"
  BY <1>1, ResetTyped
<1>5. Recovered(b) \in RowRecord /\ Recovered(b).status \in {"validating", "failed"}
  BY <1>2, <1>3, <1>4 DEF Recovered
<1> QED
  BY <1>1, <1>5 DEF AfterRecovery, Stale

LEMMA WaitingIdle ==
  ASSUME BatchInv, Quiet, NEW b \in Waiting
  PROVE  /\ b \in Batch /\ b \notin active /\ proc[b].pc = "off" /\ late[b] # 1
         /\ row[b].status \in {"validating", "in_progress", "finalizing"}
<1>1. b \in Batch /\ AfterRecovery(b).status = "validating"
  BY DEF Waiting
<1>2. row[b].status \in {"validating", "in_progress", "finalizing"}
      /\ (b \in active => row[b].status = "validating")
  BY <1>1, RecoveryTyped
<1>3. Sound(b, row[b], ck[b], proc[b], begun[b], late[b]) /\ (b \in active <=> proc[b].pc # "off")
  BY <1>1, SoundNow
<1>4. proc[b].pc \notin Micro
  BY <1>1 DEF Quiet
<1>5. InStep(b, row[b], proc[b]) /\ Belated(row[b], proc[b], late[b])
  BY <1>3 DEF Sound
<1>6. b \notin active
  BY <1>2, <1>3, <1>4, <1>5 DEF InStep, Gone, Micro
<1> QED
  BY <1>1, <1>2, <1>3, <1>5, <1>6 DEF Belated, Gone

LEMMA PollFillsSlots ==
  ASSUME BatchInv, Quiet, NEW S, Chosen(S), NEW T, T \subseteq S
  PROVE  IsFiniteSet(active \cup T) /\ Cardinality(active \cup T) <= MaxConcurrent
<1>1. S \subseteq Waiting /\ Waiting \subseteq Batch /\ Cardinality(S) <= FreeSlots
  BY DEF Chosen, Waiting
<1>2. IsFiniteSet(S) /\ IsFiniteSet(T) /\ Cardinality(T) <= Cardinality(S)
  BY <1>1, BatchAssumption, FS_Subset
<1>3. IsFiniteSet(active) /\ Cardinality(active) <= MaxConcurrent
  BY DEF BatchInv, Slots
<1>4. active \cap T = {}
  BY <1>1, WaitingIdle
<1>5. /\ Cardinality(S) \in Nat /\ Cardinality(T) \in Nat /\ Cardinality(active) \in Nat
      /\ MaxConcurrent \in Nat
  BY <1>2, <1>3, FS_CardinalityType, BatchAssumption
<1>6. Cardinality(active \cup T) = Cardinality(active) + Cardinality(T)
  BY <1>2, <1>3, <1>4, TwoParts
<1>7. IsFiniteSet(active \cup T)
  BY <1>2, <1>3, FS_Union
<1>8. FreeSlots \in Nat /\ Cardinality(active) + FreeSlots <= MaxConcurrent
  BY <1>3, <1>5 DEF FreeSlots
<1> QED
  BY <1>1, <1>2, <1>5, <1>6, <1>7, <1>8

\* A batch the poll starts.
LEMMA StartsSoundly ==
  ASSUME BatchInv, Quiet, NEW b \in Waiting, input[b] = "valid"
  PROVE  Sound(b, StartedRow(b), EnsuredCheckpoints(b), [Off EXCEPT !.pc = "starting"],
               begun[b], late[b])
<1> DEFINE r == StartedRow(b)
           c == EnsuredCheckpoints(b)
           p == [Off EXCEPT !.pc = "starting"]
           old == row[b]
           was == ck[b]
           q == proc[b]
           beg == begun[b]
           lt == late[b]
<1>1. b \in Batch /\ q.pc = "off" /\ lt # 1
      /\ old.status \in {"validating", "in_progress", "finalizing"}
  BY WaitingIdle
<1>2. Sound(b, old, was, q, beg, lt)
  BY <1>1, SoundNow
<1>3. r \in RowRecord /\ r.status = "in_progress" /\ r.total = Items[b]
  <2>1. AfterRecovery(b) \in RowRecord /\ Items[b] \in 0..MaxItems
    BY <1>1, RecoveryTyped, ItemCounts
  <2>2. r = [AfterRecovery(b) EXCEPT !.status = "in_progress", !.total = Items[b]]
    BY DEF StartedRow
  <2> QED
    BY <2>1, <2>2 DEF RowRecord, Status
<1>4. /\ c \in [Line -> Checkpoint] /\ \A l \in Line : l \notin Lines(b) => c[l] = "none"
      /\ \A l \in Line : was[l] \in {"processing"} \cup Outcome => c[l] = was[l]
  <2>1. /\ was \in [Line -> Checkpoint] /\ \A l \in Line : l \notin Lines(b) => was[l] = "none"
    BY <1>2 DEF Sound
  <2> HIDE DEF was
  <2>2. c = [l \in Line |-> IF l \in Lines(b) /\ was[l] = "none" THEN "pending" ELSE was[l]]
    BY DEF EnsuredCheckpoints, was
  <2> HIDE DEF c
  <2> QED
    BY <2>1, <2>2 DEF Checkpoint, Outcome
<1>5. /\ p \in ProcRecord /\ p.pc = "starting" /\ p.line = 1
      /\ \A l \in Line : p.results[l] = "none"
  BY OffTyped DEF Off, ProcRecord, NoResults, Awaiting
<1> HIDE DEF r, c, p, old, was, q, beg, lt
<1>6. InStep(b, r, p)
  BY <1>1, <1>3, <1>5, ItemCounts DEF InStep
<1>7. Marked(r, c, p, beg)
  BY <1>1, <1>2, <1>4, <1>5 DEF Sound, Marked
<1>8. Belated(r, p, lt)
  BY <1>1, <1>2 DEF Sound, Belated
<1>9. Collects(b, r, c, p)
  BY <1>3, <1>5 DEF Collects, Passed, Line
<1>10. Delivered(b, r, c)
  BY <1>3 DEF Delivered
<1>11. Sound(b, r, c, p, beg, lt)
  BY <1>2, <1>3, <1>4, <1>5, <1>6, <1>7, <1>8, <1>9, <1>10 DEF Sound
<1> QED
  BY <1>11 DEF r, c, p, beg, lt

\* What the poll makes of the row of a batch that it does not start.
LEMMA UnstartedRow ==
  ASSUME BatchInv, Quiet, NEW b \in Batch, NEW S, S \subseteq Waiting, NEW overdue,
         NEW s, s = IF b \in S THEN StartedRow(b) ELSE PassedOver(b, overdue),
         b \in S => input[b] # "valid"
  PROVE  /\ s \in RowRecord
         /\ b \in active => s.total = row[b].total /\ s.status # "completed"
                          /\ s.status \in Gone \cup {"in_progress"}
         /\ row[b].status = "deleted" => s = row[b]
         /\ row[b].status \in Gone \cup {"failed"} => s.status \in Gone \cup {"failed"}
         /\ s.status = "completed" => s = row[b]
<1> DEFINE a == AfterRecovery(b)
<1>1. /\ a \in RowRecord
      /\ b \notin Stale => a = row[b]
      /\ b \in Stale => /\ row[b].status \in {"in_progress", "finalizing"} /\ b \notin active
                       /\ a.status \in {"validating", "failed"}
  BY RecoveryTyped
<1>0. /\ [a EXCEPT !.status = "failed"] \in RowRecord
      /\ [a EXCEPT !.status = "failed"].status = "failed"
      /\ [a EXCEPT !.status = "expired"] \in RowRecord
      /\ [a EXCEPT !.status = "expired"].status = "expired"
      /\ [a EXCEPT !.status = "cancelled"] \in RowRecord
      /\ [a EXCEPT !.status = "cancelled"].status = "cancelled"
      /\ [a EXCEPT !.status = "cancelled"].total = a.total
  <2>1. a \in RowRecord
    BY <1>1
  <2>2. "failed" \in Status /\ "expired" \in Status /\ "cancelled" \in Status
    BY DEF Status, Terminal
  <2> HIDE DEF a
  <2> QED
    BY <2>1, <2>2, StatusSet
<1>2. b \in active => b \notin S /\ row[b].status \in Gone \cup {"in_progress"}
  <2>1. Sound(b, row[b], ck[b], proc[b], begun[b], late[b])
        /\ (b \in active <=> proc[b].pc # "off") /\ proc[b].pc \notin Micro
    BY SoundNow DEF Quiet
  <2> QED
    BY <2>1, WaitingIdle DEF Sound, InStep, Micro
<1>3. CASE b \in S
  <2>1. a.status = "validating" /\ row[b].status \in {"validating", "in_progress", "finalizing"}
    BY <1>3, WaitingIdle DEF Waiting
  <2>2. CASE input[b] = "gone"
    <3>1. s = [a EXCEPT !.status = "failed"]
      BY <1>3, <2>2 DEF StartedRow
    <3> HIDE DEF a
    <3>2. s \in RowRecord /\ s.status = "failed"
      BY <1>0, <3>1
    <3> QED
      BY <1>2, <1>3, <2>1, <3>2 DEF Gone
  <2>3. CASE input[b] = "invalid"
    <3>1. s = [a EXCEPT !.status = "failed", !.total = Items[b], !.failed = Items[b]]
      BY <1>3, <2>3 DEF StartedRow
    <3> HIDE DEF a
    <3>2. s \in RowRecord /\ s.status = "failed"
      <4>1. Items[b] \in 0..MaxItems /\ a \in RowRecord
        BY <1>1, ItemCounts
      <4>2. /\ [a EXCEPT !.status = "failed", !.total = Items[b], !.failed = Items[b]] \in RowRecord
            /\ [a EXCEPT !.status = "failed", !.total = Items[b], !.failed = Items[b]].status = "failed"
        BY <4>1, RejectedTyped
      <4> QED
        BY <3>1, <4>2
    <3> QED
      BY <1>2, <1>3, <2>1, <3>2 DEF Gone
  <2> QED
    BY <1>3, <2>2, <2>3, SoundNow
<1>4. CASE b \notin S
  <2> HIDE DEF a
  <2>1. s = CASE a.status = "cancelling" -> [a EXCEPT !.status = "cancelled"]
              [] a.status = "validating" /\ b \in overdue -> [a EXCEPT !.status = "expired"]
              [] OTHER -> a
    BY <1>4 DEF PassedOver, a
  <2>2. CASE a.status = "cancelling"
    <3>1. s \in RowRecord /\ s.status = "cancelled" /\ s.total = a.total
      BY <1>0, <2>1, <2>2
    <3> QED
      BY <1>1, <2>2, <3>1 DEF Gone
  <2>3. CASE a.status = "validating" /\ b \in overdue
    <3>1. s \in RowRecord /\ s.status = "expired"
      BY <1>0, <2>1, <2>3
    <3>2. row[b].status \in {"validating", "in_progress", "finalizing"}
      BY <1>1, <2>3
    <3>3. b \notin active
      BY <1>1, <1>2, <2>3 DEF Gone
    <3> QED
      BY <3>1, <3>2, <3>3 DEF Gone
  <2>4. CASE a.status # "cancelling" /\ ~(a.status = "validating" /\ b \in overdue)
    <3>1. s = a
      BY <2>1, <2>4
    <3> QED
      BY <1>1, <1>2, <3>1 DEF Gone
  <2> QED
    BY <2>2, <2>3, <2>4
<1> QED
  BY <1>3, <1>4

\* A batch the poll does not start stays sound.
LEMMA PassesSoundly ==
  ASSUME BatchInv, Quiet, NEW b \in Batch, NEW S, S \subseteq Waiting, NEW overdue,
         NEW s, s = IF b \in S THEN StartedRow(b) ELSE PassedOver(b, overdue),
         b \in S => input[b] # "valid"
  PROVE  Sound(b, s, ck[b], proc[b], begun[b], late[b])
<1> DEFINE r == row[b]
           c == ck[b]
           p == proc[b]
           beg == begun[b]
           lt == late[b]
<1>1. /\ s \in RowRecord
      /\ b \in active => s.total = r.total /\ s.status # "completed"
                       /\ s.status \in Gone \cup {"in_progress"}
      /\ r.status = "deleted" => s = r
      /\ r.status \in Gone \cup {"failed"} => s.status \in Gone \cup {"failed"}
      /\ s.status = "completed" => s = r
  BY UnstartedRow
<1>2. Sound(b, r, c, p, beg, lt) /\ (b \in active <=> p.pc # "off") /\ p.pc # "finalizing"
  BY SoundNow DEF Quiet, Micro
<1>3. p.pc = "ending" => FALSE
  BY DEF Quiet, Micro
<1> HIDE DEF r, c, p, beg, lt
<1>4. InStep(b, s, p)
  BY <1>1, <1>2, <1>3 DEF Sound, InStep
<1>5. Marked(s, c, p, beg)
  BY <1>1, <1>2 DEF Sound, Marked
<1>6. Belated(s, p, lt)
  BY <1>1, <1>2 DEF Sound, Belated
<1>7. Collects(b, s, c, p)
  BY <1>1, <1>2 DEF Sound, Collects
<1>8. Delivered(b, s, c)
  <2>1. SUFFICES ASSUME s.status = "completed" PROVE Delivered(b, s, c)
    BY DEF Delivered
  <2>2. s = r
    BY <1>1, <2>1
  <2> QED
    BY <1>2, <2>2 DEF Sound
<1>9. Sound(b, s, c, p, beg, lt)
  BY <1>1, <1>2, <1>4, <1>5, <1>6, <1>7, <1>8 DEF Sound
<1> QED
  BY <1>9 DEF c, p, beg, lt

LEMMA PollKeeps ==
  ASSUME BatchInv, NEW S \in SUBSET Batch, NEW overdue \in SUBSET Batch, Poll(S, overdue)
  PROVE  BatchInv'
<1> DEFINE started == {b \in S : input[b] = "valid"}
           p == [Off EXCEPT !.pc = "starting"]
<1>1. Quiet /\ Chosen(S) /\ S \subseteq Waiting
  BY DEF Poll, Chosen
<1>2. /\ row' = [b \in Batch |-> IF b \in S THEN StartedRow(b) ELSE PassedOver(b, overdue)]
      /\ ck' = [b \in Batch |-> IF b \in started THEN EnsuredCheckpoints(b) ELSE ck[b]]
      /\ active' = active \cup started
      /\ proc' = [b \in Batch |-> IF b \in started THEN p ELSE proc[b]]
      /\ UNCHANGED <<input, begun, late>>
  BY DEF Poll
<1>3. p.pc = "starting"
  BY DEF Off
<1> HIDE DEF p
<1>4. ASSUME NEW b \in Batch
      PROVE  /\ Sound(b, row'[b], ck'[b], proc'[b], begun[b], late[b])
             /\ b \in active' <=> proc'[b].pc # "off"
  <2>1. CASE b \in started
    <3>1. row'[b] = StartedRow(b) /\ ck'[b] = EnsuredCheckpoints(b) /\ proc'[b] = p
      BY <1>2, <2>1
    <3>2. Sound(b, StartedRow(b), EnsuredCheckpoints(b), p, begun[b], late[b])
      BY <1>1, <2>1, StartsSoundly DEF p
    <3> QED
      BY <1>2, <1>3, <2>1, <3>1, <3>2
  <2>2. CASE b \notin started
    <3>1. /\ row'[b] = IF b \in S THEN StartedRow(b) ELSE PassedOver(b, overdue)
          /\ ck'[b] = ck[b] /\ proc'[b] = proc[b]
      BY <1>2, <2>2
    <3>2. b \in S => input[b] # "valid"
      BY <2>2
    <3>3. Sound(b, row'[b], ck[b], proc[b], begun[b], late[b])
      BY <1>1, <3>1, <3>2, PassesSoundly
    <3> QED
      BY <1>2, <2>2, <3>1, <3>3, SoundNow
  <2> QED
    BY <2>1, <2>2
<1>5. \A b \in Batch : row'[b] \in RowRecord /\ ck'[b] \in [Line -> Checkpoint]
                      /\ proc'[b] \in ProcRecord
  BY <1>4 DEF Sound
<1>6. Shapes'
  <2> HIDE DEF started
  <2>1. row' \in [Batch -> RowRecord]
    BY <1>2, <1>5
  <2>2. ck' \in [Batch -> [Line -> Checkpoint]]
    BY <1>2, <1>5
  <2>3. proc' \in [Batch -> ProcRecord]
    BY <1>2, <1>5
  <2> QED
    BY <1>2, <2>1, <2>2, <2>3 DEF BatchInv, Shapes
<1>7. Slots'
  <2>1. IsFiniteSet(active') /\ Cardinality(active') <= MaxConcurrent
    BY <1>1, <1>2, PollFillsSlots
  <2>2. active \subseteq Batch /\ started \subseteq Batch
    BY DEF BatchInv, Slots
  <2> QED
    BY <1>2, <2>1, <2>2 DEF Slots
<1>8. \A b \in Batch : SoundAt(b)'
  BY <1>2, <1>4 DEF SoundAt
<1> QED
  BY <1>6, <1>7, <1>8 DEF BatchInv

-----------------------------------------------------------------------------
LEMMA BatchInitial == Init => BatchInv
<1> SUFFICES ASSUME Init PROVE BatchInv
  OBVIOUS
<1>1. EmptyRow("unborn") \in RowRecord /\ EmptyRow("unborn").status = "unborn"
  BY BatchAssumption DEF EmptyRow, RowRecord, Status, NoResults
<1>2. NoResults \in [Line -> Checkpoint] /\ \A l \in Line : NoResults[l] = "none"
  BY DEF NoResults, Checkpoint
<1>3. /\ row = [b \in Batch |-> EmptyRow("unborn")] /\ ck = [b \in Batch |-> NoResults]
      /\ active = {} /\ proc = [b \in Batch |-> Off] /\ late = [b \in Batch |-> 0]
      /\ begun = [b \in Batch |-> [l \in Line |-> 0]] /\ input = [b \in Batch |-> "gone"]
  BY DEF Init
<1> DEFINE zero == [l \in Line |-> 0]
<1>4. zero \in [Line -> Nat] /\ \A l \in Line : zero[l] = 0
  OBVIOUS
<1> HIDE DEF EmptyRow, NoResults, Off, zero
<1>5. Shapes
  BY <1>1, <1>2, <1>3, <1>4, OffTyped DEF Shapes, zero
<1>6. Slots
  BY <1>3, FS_EmptySet, BatchAssumption DEF Slots
<1>7. ASSUME NEW b \in Batch PROVE SoundAt(b)
  <2> DEFINE r == EmptyRow("unborn")
  <2>1. r \in RowRecord /\ r.status = "unborn"
    BY <1>1
  <2> HIDE DEF r
  <2>2. InStep(b, r, Off) /\ Belated(r, Off, 0) /\ Collects(b, r, NoResults, Off)
        /\ Delivered(b, r, NoResults)
    BY <2>1, OffTyped DEF InStep, Belated, Collects, Delivered
  <2>3. Marked(r, NoResults, Off, zero)
    BY <1>4, OffTyped DEF Marked
  <2>4. Sound(b, r, NoResults, Off, zero, 0)
    BY <1>2, <1>4, <2>1, <2>2, <2>3, OffTyped DEF Sound
  <2> QED
    BY <1>3, <2>4, OffTyped DEF SoundAt, r, zero
<1> QED
  BY <1>5, <1>6, <1>7 DEF BatchInv

LEMMA BatchStep == BatchInv /\ [Next]_vars => BatchInv'
<1> SUFFICES ASSUME BatchInv, [Next]_vars PROVE BatchInv'
  OBVIOUS
<1>1. ASSUME NEW S \in SUBSET Batch, NEW overdue \in SUBSET Batch, Poll(S, overdue)
      PROVE  BatchInv'
  BY <1>1, PollKeeps
<1>2. ASSUME NEW b \in Batch, Process(b) PROVE BatchInv'
  BY <1>2, KeyResolvedKeeps, StopWalkingKeeps, ReuseCheckpointKeeps, ThrottleKeeps,
     BeginItemKeeps, RetryItemKeeps, RecordOutcomeKeeps, PersistProgressKeeps,
     EndCancelledKeeps, MarkFinalizingKeeps, CompleteKeeps DEF Process
<1>3. ASSUME NEW b \in Batch, Break(b) PROVE BatchInv'
  BY <1>3, BreakKeeps
<1>4. ASSUME NEW b \in Batch, Create(b) \/ Cancel(b) \/ LoseInput(b) PROVE BatchInv'
  BY <1>4, CreateKeeps, CancelKeeps, LoseInputKeeps
<1>5. ASSUME NEW b \in Batch, Delete(b) PROVE BatchInv'
  BY <1>5, DeleteBatchesKeeps DEF Delete
<1>6. CASE DeleteCompleted
  BY <1>6, DeleteBatchesKeeps DEF DeleteCompleted, Terminal
<1>7. CASE Crash
  BY <1>7, CrashKeeps
<1>8. CASE UNCHANGED vars
  <2>1. UNCHANGED <<row, ck, input, active, proc, begun, late>>
    BY <1>8 DEF vars
  <2>2. Shapes' /\ Slots'
    BY <2>1 DEF BatchInv, Shapes, Slots
  <2>3. ASSUME NEW b \in Batch PROVE SoundAt(b)'
    BY <2>1 DEF BatchInv, SoundAt
  <2> QED
    BY <2>2, <2>3 DEF BatchInv
<1> QED
  BY <1>1, <1>2, <1>3, <1>4, <1>5, <1>6, <1>7, <1>8 DEF Next

-----------------------------------------------------------------------------
\* Rows, checkpoints, processors and slots agree in every reachable state, for any
\* number of batches, lines, slots and restarts (poll, processor and routes of
\* batchProcessor.ts, db/batches.ts).
THEOREM BatchInvariant == Spec => []BatchInv
<1> QED
  BY BatchInitial, BatchStep, PTL DEF Spec

\* The work on an item is begun at most once, whatever crashes and recoveries
\* intervene (markBatchItemProcessing before the dispatch, applyRecoveredCheckpoint).
THEOREM NothingReplayed == Spec => []NoReplay
<1>1. BatchInv => NoReplay
  BY DEF BatchInv, SoundAt, Sound, Marked, NoReplay
<1> QED
  BY <1>1, BatchInvariant, PTL

\* A completed batch holds the recorded outcome of every line and counts that add up
\* (finalizeBatch after any number of recoveries).
THEOREM CompletedAccounts == Spec => []OutputComplete
<1>1. BatchInv => OutputComplete
  BY DEF BatchInv, SoundAt, Sound, Delivered, OutputComplete
<1> QED
  BY <1>1, BatchInvariant, PTL

\* After a cancellation at most the item whose pause had begun is sent
\* (the look at the status before the pause in processBatchItems).
THEOREM CancellationStops == Spec => []CancelBounds
<1>1. BatchInv => CancelBounds
  BY DEF BatchInv, SoundAt, Sound, Belated, CancelBounds
<1> QED
  BY <1>1, BatchInvariant, PTL

\* There are never more processors than slots (activeBatches against
\* BATCH_MAX_CONCURRENT).
THEOREM SlotsNeverShared == Spec => []SlotsRespected
<1>1. BatchInv => SlotsRespected
  <2> SUFFICES ASSUME BatchInv PROVE SlotsRespected
    OBVIOUS
  <2>1. {b \in Batch : proc[b].pc # "off"} = active
    BY DEF BatchInv, Slots, SoundAt
  <2> QED
    BY <2>1 DEF BatchInv, Slots, SlotsRespected
<1> QED
  BY <1>1, BatchInvariant, PTL

-----------------------------------------------------------------------------
\* What one step may do to the status of a batch.
FinalAt(b) ==
  /\ row[b].status \in {"completed", "failed", "expired", "deleted"}
        => row'[b].status \in {row[b].status, "deleted"}
  /\ row[b].status \in {"cancelling", "cancelled"}
        => \/ row'[b].status \in {row[b].status, "cancelled", "deleted"}
           \/ row'[b].status = "failed" /\ proc'[b] # proc[b]

LEMMA ProcessFinal ==
  ASSUME BatchInv, NEW b \in Batch, Process(b), NEW x \in Batch
  PROVE  FinalAt(x)
<1>1. row \in [Batch -> RowRecord] /\ row[b] \in RowRecord
  BY DEF BatchInv, Shapes
<1>2. CASE row'[x] = row[x] \/ row'[x].status = row[x].status
  BY <1>2 DEF FinalAt
<1>3. CASE KeyResolved(b) \/ StopWalking(b) \/ Throttle(b) \/ BeginItem(b) \/ RetryItem(b)
           \/ \E outcome \in Outcome : RecordOutcome(b, outcome)
  BY <1>2, <1>3 DEF KeyResolved, StopWalking, Throttle, BeginItem, RetryItem, RecordOutcome
<1>4. ASSUME NEW f, row' = Updated(b, WithCounts(row[b], f)) PROVE FinalAt(x)
  <2>1. row' = [row EXCEPT ![b] = Counted(b, f)] /\ Counted(b, f).status = row[b].status
    BY <1>4, CountsWritten
  <2>2. row'[x].status = row[x].status
    BY <1>1, <2>1
  <2> QED
    BY <1>2, <2>2
<1>5. CASE ReuseCheckpoint(b)
  BY <1>4, <1>5 DEF ReuseCheckpoint
<1>6. CASE PersistProgress(b)
  BY <1>4, <1>6 DEF PersistProgress
<1>7. CASE EndCancelled(b)
  <2>1. CASE row[b].status = "cancelling"
    <3>1. row' = [row EXCEPT ![b].status = "cancelled"]
      BY <1>7, <2>1 DEF EndCancelled
    <3>2. row'[b].status = "cancelled" /\ (x # b => row'[x] = row[x])
      BY <1>1, <3>1 DEF RowRecord
    <3> QED
      BY <1>2, <2>1, <3>2 DEF FinalAt
  <2>2. CASE row[b].status # "cancelling"
    BY <1>2, <1>7, <2>2 DEF EndCancelled
  <2> QED
    BY <2>1, <2>2
<1>8. CASE MarkFinalizing(b) \/ Complete(b)
  <2>1. InStep(b, row[b], proc[b])
    BY SoundNow DEF Sound
  <2>2. row[b].status \in {"in_progress", "finalizing"}
    BY <1>8, <2>1 DEF InStep, MarkFinalizing, Complete, At, HandledCancellation, CancelSeen, Gone
  <2>3. x # b => row'[x] = row[x]
    BY <1>1, <1>8 DEF MarkFinalizing, Complete
  <2> QED
    BY <1>2, <2>2, <2>3 DEF FinalAt
<1> QED
  BY <1>3, <1>5, <1>6, <1>7, <1>8 DEF Process

LEMMA BreakFinal ==
  ASSUME BatchInv, NEW b \in Batch, Break(b), NEW x \in Batch
  PROVE  FinalAt(x)
<1>1. row \in [Batch -> RowRecord] /\ row[b] \in RowRecord /\ proc \in [Batch -> ProcRecord]
  BY DEF BatchInv, Shapes
<1>2. proc' = [proc EXCEPT ![b] = Off]
  BY DEF Break, Leaves
<1>3. proc[b].pc # "off" /\ InStep(b, row[b], proc[b])
  BY SoundNow DEF Sound, Break, Micro, Awaiting
<1>4. proc'[b] # proc[b]
  BY <1>1, <1>2, <1>3, OffTyped
<1>5. row[b].status \in Gone \cup {"in_progress", "finalizing"}
  BY <1>3 DEF InStep
<1>6. CASE row[b].status = "deleted"
  BY <1>6 DEF Break, Updated, Exists, FinalAt
<1>7. CASE row[b].status # "deleted"
  <2>1. row' = [row EXCEPT ![b] = [row[b] EXCEPT !.status = "failed"]]
    BY <1>5, <1>7 DEF Break, Updated, Exists, Gone
  <2>2. row'[b].status = "failed" /\ (x # b => row'[x] = row[x])
    BY <1>1, <2>1 DEF RowRecord
  <2> QED
    BY <1>4, <1>5, <1>7, <2>2 DEF FinalAt, Gone
<1> QED
  BY <1>6, <1>7

LEMMA PollFinal ==
  ASSUME BatchInv, NEW S \in SUBSET Batch, NEW overdue \in SUBSET Batch, Poll(S, overdue),
         NEW x \in Batch
  PROVE  FinalAt(x)
<1>1. S \subseteq Waiting /\ Quiet
  BY DEF Poll, Chosen
<1>2. row'[x] = IF x \in S THEN StartedRow(x) ELSE PassedOver(x, overdue)
  BY DEF Poll
<1>3. CASE x \in S
  <2>1. row[x].status \in {"validating", "in_progress", "finalizing"}
    BY <1>1, <1>3, WaitingIdle
  <2> QED
    BY <2>1 DEF FinalAt
<1>4. CASE x \notin S
  <2> DEFINE a == AfterRecovery(x)
  <2>1. x \notin Stale => a = row[x]
    BY RecoveryTyped
  <2>2. x \in Stale => row[x].status \in {"in_progress", "finalizing"}
    BY RecoveryTyped
  <2>3. a \in RowRecord
    BY RecoveryTyped
  <2> HIDE DEF a
  <2>4. row'[x] = CASE a.status = "cancelling" -> [a EXCEPT !.status = "cancelled"]
                    [] a.status = "validating" /\ x \in overdue -> [a EXCEPT !.status = "expired"]
                    [] OTHER -> a
    BY <1>2, <1>4 DEF PassedOver, a
  <2>5. CASE x \in Stale
    BY <2>2, <2>5 DEF FinalAt
  <2>6. CASE x \notin Stale /\ a.status = "cancelling"
    <3>1. row'[x] = [a EXCEPT !.status = "cancelled"]
      BY <2>4, <2>6
    <3>2. row'[x].status = "cancelled"
      BY <2>3, <3>1 DEF RowRecord
    <3> QED
      BY <2>1, <2>6, <3>2 DEF FinalAt
  <2>7. CASE x \notin Stale /\ a.status = "validating"
    BY <2>1, <2>7 DEF FinalAt
  <2>8. CASE x \notin Stale /\ a.status \notin {"cancelling", "validating"}
    <3>1. row'[x] = row[x]
      BY <2>1, <2>4, <2>8
    <3> QED
      BY <3>1 DEF FinalAt
  <2> QED
    BY <2>5, <2>6, <2>7, <2>8
<1> QED
  BY <1>3, <1>4

LEMMA RouteFinal ==
  ASSUME BatchInv, NEW b \in Batch, Create(b) \/ Cancel(b) \/ LoseInput(b), NEW x \in Batch
  PROVE  FinalAt(x)
<1>1. row \in [Batch -> RowRecord]
  BY DEF BatchInv, Shapes
<1>2. CASE LoseInput(b)
  BY <1>2 DEF LoseInput, FinalAt
<1>3. CASE Create(b) \/ Cancel(b)
  <2>1. x # b => row'[x] = row[x]
    BY <1>1, <1>3 DEF Create, Cancel
  <2>2. row[b].status \in {"unborn", "validating", "in_progress", "finalizing"}
    BY <1>3 DEF Create, Cancel
  <2> QED
    BY <2>1, <2>2 DEF FinalAt
<1> QED
  BY <1>2, <1>3

LEMMA DeleteFinal ==
  ASSUME NEW D \in SUBSET Batch, DeleteBatches(D), NEW x \in Batch
  PROVE  FinalAt(x)
<1>1. row'[x] = IF x \in D THEN EmptyRow("deleted") ELSE row[x]
  BY DEF DeleteBatches
<1>2. EmptyRow("deleted").status = "deleted"
  BY DEF EmptyRow
<1> QED
  BY <1>1, <1>2 DEF FinalAt

\* No ended batch comes back, and an accepted cancellation never ends in completion
\* (isBatchCancelled, handleCancellation, failBatch and the routes, in any order).
THEOREM EndedStaysEnded == Spec => StatusIsFinal
<1>1. BatchInv /\ [Next]_vars => [\A b \in Batch : FinalAt(b)]_vars
  <2> SUFFICES ASSUME BatchInv, Next, NEW x \in Batch PROVE FinalAt(x)
    OBVIOUS
  <2>1. CASE Crash
    BY <2>1 DEF Crash, FinalAt
  <2>2. ASSUME NEW b \in Batch, Delete(b) PROVE FinalAt(x)
    BY <2>2, DeleteFinal DEF Delete
  <2>3. CASE DeleteCompleted
    BY <2>3, DeleteFinal DEF DeleteCompleted
  <2> QED
    BY <2>1, <2>2, <2>3, PollFinal, ProcessFinal, BreakFinal, RouteFinal DEF Next
<1>2. [\A b \in Batch : FinalAt(b)]_vars =>
      [\A b \in Batch :
          /\ row[b].status \in {"completed", "failed", "expired", "deleted"}
                => row'[b].status \in {row[b].status, "deleted"}
          /\ row[b].status \in {"cancelling", "cancelled"}
                => \/ row'[b].status \in {row[b].status, "cancelled", "deleted"}
                   \/ row'[b].status = "failed" /\ proc'[b] # proc[b]]_vars
  BY DEF FinalAt
<1> QED
  BY <1>1, <1>2, BatchInvariant, PTL DEF Spec, StatusIsFinal
=============================================================================
