----------------------------- MODULE MCSyncSema -----------------------------
(* Instances of the semaphore for TLC.                                     *)
EXTENDS SyncSema, TLC

CONSTANTS t1, t2, t3
Three == t1 :> 1 @@ t2 :> 0 @@ t3 :> 1
=============================================================================
