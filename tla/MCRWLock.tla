------------------------------ MODULE MCRWLock ------------------------------
(* The complex lock with a small set of threads.                           *)
EXTENDS RWLock
=============================================================================
