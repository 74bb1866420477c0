----------------------------- MODULE MCTimeout ------------------------------
(* Timeouts: three drivers, a thread's private timer, and a pool of two.  *)
EXTENDS Timeout, TLC

Symmetry == Permutations(Drivers) \union Permutations(Pool)
=============================================================================
