---------------------------- MODULE MCPortTransit ---------------------------
(* PortTransit for TLC: ports and threads are interchangeable.             *)
EXTENDS PortTransit, TLC

Symmetry == Permutations(Ports) \union Permutations(Threads)
=============================================================================
