------------------------------ MODULE RefreshLane ------------------------------
(***************************************************************************)
(* Serialisation of token refreshes: open-sse/services/refreshSerializer.ts *)
(*                                                                         *)
(* Refreshes of one rotation group chain on a promise: each remembers the   *)
(* tail it found, becomes the tail, and starts when that promise resolves.  *)
(* There is no queue in the code; `line` is a history variable, the order   *)
(* of arrival, against which the chain of promises is checked.              *)
(***************************************************************************)
EXTENDS Naturals, Sequences

CONSTANTS Calls,      \* refreshes that may be under way at once
          Groups,     \* rotation groups: ROTATION_LOCK_GROUP
          NoCall,     \* no promise to wait for, no tail
          Spacing     \* TRUE: CODEX_REFRESH_SPACING_MS is positive

ASSUME LaneAssumption == NoCall \notin Calls /\ Groups # {} /\ Spacing \in BOOLEAN

VARIABLES
    tail,   \* groupTail: the last refresh chained in each group
    lane,   \* the refreshes: group, promise awaited, and how far they are
    line    \* history: the refreshes of each group in order of arrival

laneVars == <<tail, lane, line>>

Stage == {"out", "waiting", "running", "settling"}
LaneRecord == [stage : Stage, group : Groups, prev : Calls \cup {NoCall}]

LaneTypeOK ==
    /\ tail \in [Groups -> Calls \cup {NoCall}]
    /\ lane \in [Calls -> LaneRecord]
    /\ line \in [Groups -> Seq(Calls)]
    /\ \A g \in Groups :   \* the tail is the last arrival still in the lane
          tail[g] = IF line[g] = <<>> THEN NoCall ELSE line[g][Len(line[g])]

LaneInit ==
    /\ tail = [g \in Groups |-> NoCall]
    /\ lane \in [Calls -> [stage : {"out"}, group : {CHOOSE g \in Groups : TRUE},
                           prev : {NoCall}]]
    /\ line = [g \in Groups |-> <<>>]

-----------------------------------------------------------------------------
(* Steps of serializeRefresh.                                              *)

\* const prevTail = groupTail.get(group); groupTail.set(group, myTail)
EnterLane(k, g) ==
    /\ lane[k].stage = "out"
    /\ lane' = [lane EXCEPT ![k] = [stage |-> "waiting", group |-> g, prev |-> tail[g]]]
    /\ tail' = [tail EXCEPT ![g] = k]
    /\ line' = [line EXCEPT ![g] = Append(@, k)]

\* mutant: the promise found in the map is not awaited
TakeTurnAtOnce(k) ==
    /\ lane[k].stage = "waiting"
    /\ lane' = [lane EXCEPT ![k].stage = "running"]
    /\ UNCHANGED <<tail, line>>

\* await prevTail has returned: fn() starts.
TakeTurn(k) ==
    /\ lane[k].stage = "waiting"
    /\ lane[k].prev = NoCall
    /\ lane' = [lane EXCEPT ![k].stage = "running"]
    /\ UNCHANGED <<tail, line>>

HasSuccessor(k) == tail[lane[k].group] # k

\* A refresh with a successor holds the lane for the settle gap.
KeepsLane(k) ==
    /\ lane[k].stage = "running"
    /\ Spacing /\ HasSuccessor(k)
    /\ lane' = [lane EXCEPT ![k].stage = "settling"]
    /\ UNCHANGED <<tail, line>>

MayLeave(k) ==
    \/ lane[k].stage = "settling"
    \/ lane[k].stage = "running" /\ ~(Spacing /\ HasSuccessor(k))

\* mutant: the lane is deleted although somebody has chained on it
ReleasedTailAlways(k) == [tail EXCEPT ![lane[k].group] = NoCall]

\* if (groupTail.get(group) === myTail) groupTail.delete(group)
ReleasedTail(k) ==
    IF HasSuccessor(k) THEN tail ELSE [tail EXCEPT ![lane[k].group] = NoCall]

\* mutant: a refresh that fails does not resolve its promise
ReleasedUnresolved(k) == [lane EXCEPT ![k].stage = "out"]

\* releaseMine(): the promise of k resolves for whoever awaits it.
Released(k) ==
    [j \in Calls |->
        IF j = k THEN [lane[k] EXCEPT !.stage = "out", !.prev = NoCall]
        ELSE IF lane[j].prev = k THEN [lane[j] EXCEPT !.prev = NoCall] ELSE lane[j]]

LeaveLane(k) ==
    /\ MayLeave(k)
    /\ lane' = Released(k)
    /\ tail' = ReleasedTail(k)
    /\ line' = [line EXCEPT ![lane[k].group] = Tail(@)]

-----------------------------------------------------------------------------
LaneNext ==
    \E k \in Calls :
        \/ \E g \in Groups : EnterLane(k, g)
        \/ TakeTurn(k)
        \/ KeepsLane(k)
        \/ LeaveLane(k)

\* Network refreshes end (fetch fails on its own timeout) and timers fire.
LaneFairness ==
    \A k \in Calls : WF_laneVars(TakeTurn(k)) /\ WF_laneVars(KeepsLane(k) \/ LeaveLane(k))

LaneSpec == LaneInit /\ [][LaneNext]_laneVars
FairLaneSpec == LaneSpec /\ LaneFairness

-----------------------------------------------------------------------------
(* Properties.                                                             *)

Holds(k) == lane[k].stage \in {"running", "settling"}

\* Two accounts of one rotation group never refresh concurrently, nor within
\* the settle gap of one another (refreshSerializer.ts:11-18).
LaneExclusive ==
    \A j, k \in Calls :
        Holds(j) /\ Holds(k) /\ lane[j].group = lane[k].group => j = k

\* The chain of promises is the order of arrival: nobody is overtaken, whatever
\* tails were deleted and re-created meanwhile.
TurnsInOrder ==
    [][\A k \in Calls :
          lane[k].stage = "waiting" /\ lane'[k].stage = "running"
              => k = Head(line[lane[k].group])]_laneVars

\* A failed or slow refresh never wedges its lane: whoever waits gets a turn.
LaneServes == \A k \in Calls : lane[k].stage = "waiting" ~> lane[k].stage = "running"
=============================================================================
