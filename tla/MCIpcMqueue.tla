---------------------------- MODULE MCIpcMqueue -----------------------------
(* Instances of the message queues for TLC.                                *)
EXTENDS IpcMqueue, TLC

Symmetry == Permutations(Threads) \union Permutations(Ports) \union Permutations(Psets)

(* Several processors with port sets and waits that are never cut short,   *)
(* and one processor with receives that time out and are interrupted.      *)
MPAndUP ==
  {[mp |-> TRUE, sendGivesUp |-> FALSE, rcvGivesUp |-> FALSE, psets |-> Psets],
   [mp |-> FALSE, sendGivesUp |-> FALSE, rcvGivesUp |-> TRUE, psets |-> {}]}

(* One processor with sends that time out and are interrupted.             *)
SendsTimed == {[mp |-> FALSE, sendGivesUp |-> TRUE, rcvGivesUp |-> FALSE, psets |-> Psets]}
=============================================================================
