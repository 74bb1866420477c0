------------------------------- MODULE Queues -------------------------------
(***************************************************************************)
(* The doubly linked queues of kern/queue.h, as sequences: what the        *)
(* semaphores, lock sets, wait buckets and timers do to them beyond taking *)
(* the first element and adding at an end.                                 *)
(***************************************************************************)
EXTENDS Integers, Sequences, Functions

(* SequencesExt has these two; its many definitions would be carried along *)
(* by every step of the proofs that use this module.                       *)
RemoveAt(q, i) == SubSeq(q, 1, i - 1) \o SubSeq(q, i + 1, Len(q))
InsertAt(q, i, e) == SubSeq(q, 1, i - 1) \o <<e>> \o SubSeq(q, i, Len(q))

(* remqueue, queue_remove, of an element of q.  One that was taken off     *)
(* before has the links it had then, and to remove it again joins its old  *)
(* neighbours wherever they are now: not this operator, and whoever may do *)
(* it says what happens.                                                   *)
QueueRemove(q, e) == RemoveAt(q, CHOOSE i \in DOMAIN q : q[i] = e)

(* What sync_policy_enqueue and set_timeout do after their walk from the   *)
(* head to the first element of a set, or to the end.                      *)
InsertBefore(q, e, Later) ==
  InsertAt(q, CHOOSE i \in 1 .. Len(q) + 1 : /\ \A j \in 1 .. i - 1 : q[j] \notin Later
                                             /\ i <= Len(q) => q[i] \in Later, e)
=============================================================================
