--------------------------- MODULE MCBatchProcessor ---------------------------
(* Small instance of BatchProcessor: a batch of two lines and one of one.    *)
EXTENDS BatchProcessor, TLC

CONSTANTS b1, b2

MCItems == (b1 :> 2) @@ (b2 :> 1)
=============================================================================
