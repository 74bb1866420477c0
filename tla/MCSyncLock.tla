----------------------------- MODULE MCSyncLock -----------------------------
(* Lock sets: three threads and one ulock, without preemption.             *)
EXTENDS SyncLock
=============================================================================
