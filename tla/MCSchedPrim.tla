---------------------------- MODULE MCSchedPrim -----------------------------
(* Instances of the wait and wakeup primitives for TLC.                    *)
EXTENDS SchedPrim

CONSTANTS s1, s2, k1, k2, c1, c2

(* Two threads that wait, one with timeouts and aborts, and two processors *)
(* that wake them; one that waits and two that stop it, one of these       *)
(* interrupted at times.                                                   *)
WaitAndStop ==
  {[threads |-> {s1, s2}, contexts |-> {c1, c2}, ipcWaits |-> TRUE, unintWaits |-> TRUE,
    timed |-> {s1}, abortable |-> {s1}],
   [threads |-> {s1, k1, k2}, contexts |-> {c1}, ipcWaits |-> FALSE, unintWaits |-> FALSE,
    timed |-> {}, abortable |-> {k1}]}
=============================================================================
