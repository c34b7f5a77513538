---------------------------- MODULE MCQuotaRefresh ----------------------------
(* Small instance of QuotaRefresh: one quota read and other refreshes.      *)
EXTENDS QuotaRefresh

CONSTANTS q1, k1, k2
=============================================================================
