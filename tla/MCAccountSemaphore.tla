------------------------- MODULE MCAccountSemaphore -------------------------
(***************************************************************************)
(* Gate 1 is a parent (global, provider), gate 2 an account under it.  The *)
(* limits of the parent and of the account are switched on and off in the  *)
(* settings, and requests disagree on the limit of the parent.             *)
(***************************************************************************)
EXTENDS AccountSemaphore, TLC

MCRequirement == {1 :> 1 @@ 2 :> 1, 1 :> 2, 2 :> 1}

=============================================================================
