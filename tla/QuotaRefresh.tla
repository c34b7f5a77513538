------------------------------ MODULE QuotaRefresh ------------------------------
(***************************************************************************)
(* A quota read that refreshes a token                                     *)
(* (src/lib/usage/providerLimits/credentialRefresh.ts): it enters the lane  *)
(* of the rotation group and calls the executor's refreshCredentials inside. *)
(* For most providers of a group that is getAccessToken (open-sse/executors *)
(* /codex.ts, default.ts), which enters the same lane for its network call;  *)
(* kiro.ts calls the provider directly.                                    *)
(***************************************************************************)
EXTENDS RefreshLane

CONSTANT Quota   \* quota reads, among the calls

VARIABLES
    nested,   \* how far the executor's refreshCredentials is, per quota read
    inner     \* the refresh it waits for

quotaVars == <<laneVars, nested, inner>>

QuotaTypeOK ==
    /\ nested \in [Quota -> {"none", "inner", "done"}]
    /\ inner \in [Quota -> Calls \cup {NoCall}]

QuotaInit ==
    /\ LaneInit
    /\ nested = [q \in Quota |-> "none"]
    /\ inner = [q \in Quota |-> NoCall]

\* serializeRefresh(provider, () => executor.refreshCredentials(...))
ReadQuota(q, g) ==
    /\ EnterLane(q, g)
    /\ nested' = [nested EXCEPT ![q] = "none"]
    /\ UNCHANGED inner

\* refreshCredentials is called: the lane is q's, nothing is answered.
Asks(q) == lane[q].stage = "running" /\ nested[q] = "none"

\* The executor answers without the lane: kiro.ts, a rotation just recorded, a
\* newer token in the row, or a shared refresh that has left the lane.
AnswerDirectly(q) ==
    /\ Asks(q)
    /\ nested' = [nested EXCEPT ![q] = "done"]
    /\ UNCHANGED <<laneVars, inner>>

Awaits(q, k) ==
    /\ nested' = [nested EXCEPT ![q] = "inner"]
    /\ inner' = [inner EXCEPT ![q] = k]

\* getAccessToken -> _getAccessTokenWithStalenessCheck -> serializeRefresh.
Nest(q, k) ==
    /\ Asks(q) /\ k \notin Quota
    /\ EnterLane(k, lane[q].group)
    /\ Awaits(q, k)

\* getAccessToken shares the refresh of the connection in flight, which entered
\* the lane while q was in it.
Share(q, k) ==
    /\ Asks(q) /\ k \notin Quota
    /\ lane[k].stage = "waiting" /\ lane[k].group = lane[q].group
    /\ Awaits(q, k)
    /\ UNCHANGED laneVars

\* A refresh that no quota read started.
Refresh(k, g) == k \notin Quota /\ EnterLane(k, g) /\ UNCHANGED <<nested, inner>>

Run(k) == TakeTurn(k) /\ UNCHANGED <<nested, inner>>

\* The lane is kept or left when what was to run in it has run.
Finished(k) == k \in Quota => nested[k] = "done"

\* When a refresh leaves the lane, the quota reads that wait for it go on.
Finish(k) ==
    /\ Finished(k)
    /\ KeepsLane(k) \/ LeaveLane(k)
    /\ nested' = [q \in Quota |->
                    IF nested[q] = "inner" /\ inner[q] = k /\ lane'[k].stage = "out"
                    THEN "done" ELSE nested[q]]
    /\ UNCHANGED inner

QuotaNext ==
    \/ \E q \in Quota :
          \/ \E g \in Groups : ReadQuota(q, g)
          \/ AnswerDirectly(q)
          \/ \E k \in Calls : Nest(q, k) \/ Share(q, k)
    \/ \E k \in Calls : (\E g \in Groups : Refresh(k, g)) \/ Run(k) \/ Finish(k)

QuotaSpec == QuotaInit /\ [][QuotaNext]_quotaVars

\* As LaneFairness; the executor's refreshCredentials goes on.
QuotaFairness ==
    /\ \A q \in Quota :
          WF_quotaVars(AnswerDirectly(q) \/ \E k \in Calls : Nest(q, k) \/ Share(q, k))
    /\ \A k \in Calls : WF_quotaVars(Run(k)) /\ WF_quotaVars(Finish(k))

FairQuotaSpec == QuotaSpec /\ QuotaFairness

-----------------------------------------------------------------------------
(* Properties.                                                             *)

\* The quota read holds the lane for a refresh that waits for the same lane.
Wedged(q) ==
    /\ lane[q].stage = "running"
    /\ nested[q] = "inner" /\ inner[q] \in Calls \ Quota
    /\ lane[inner[q]].stage = "waiting" /\ lane[inner[q]].group = lane[q].group

\* A quota read whose executor waits for a refresh holds the lane it waits for:
\* there is no order of events in which the refresh runs first.
NestingWedges == \A q \in Quota : nested[q] = "inner" => Wedged(q)

\* A wedged lane stays wedged whatever happens, and nobody who waits in it gets
\* a turn again.
WedgeIsFinal ==
    [][\A q \in Quota : Wedged(q) =>
         /\ Wedged(q)'
         /\ \A k \in Calls :
              lane[k].stage = "waiting" /\ lane[k].group = lane[q].group
                => lane'[k].stage = "waiting" /\ lane'[k].group = lane[k].group]_quotaVars

=============================================================================
