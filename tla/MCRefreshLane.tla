---------------------------- MODULE MCRefreshLane -----------------------------
(* Small instance of RefreshLane: three refreshes, two rotation groups.      *)
EXTENDS RefreshLane
=============================================================================
