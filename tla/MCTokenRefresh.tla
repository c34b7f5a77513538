---------------------------- MODULE MCTokenRefresh ----------------------------
(* Small instance of TokenRefresh: two callers of one connection, any kinds. *)
EXTENDS TokenRefresh
=============================================================================
