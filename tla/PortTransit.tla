----------------------------- MODULE PortTransit ----------------------------
(***************************************************************************)
(* Receive rights in transit: ipc_port_check_circularity of                *)
(* ipc/ipc_port.c and the steps that put a port into a message, take it    *)
(* out, or destroy it.                                                     *)
(*                                                                         *)
(* A port whose receive right is in a message queued to another port is    *)
(* "in transit" to that port.  A circle of ports, each queued at the next, *)
(* could never be received from or destroyed, so the kernel looks for one  *)
(* before it links a port to its destination, locking the ports it looks   *)
(* at one by one.  A step of the check is one lock operation and what is   *)
(* done until the next one.                                                *)
(***************************************************************************)

CONSTANTS Ports, Threads,
          None          \* IP_NULL; a lock nobody holds

ASSUME NoneApart == None \notin Ports \union Threads

VARIABLES
  active,               \* ip_active
  named,                \* ip_receiver_name # MACH_PORT_NULL: held in a space
  destination,          \* ip_destination; None in limbo, in a space and when dead
  lock,                 \* the holder of each port lock
  multiple,             \* the holder of ipc_port_multiple_lock
  th                    \* what each thread does in ipc_port_check_circularity

vars == <<active, named, destination, lock, multiple, th>>
ports == <<active, named, destination>>

InTransit(p) == active[p] /\ ~named[p] /\ destination[p] # None

Rest == [pc |-> "idle", port |-> None, dest |-> None, base |-> None, backup |-> FALSE]

Init ==
  /\ active = [p \in Ports |-> TRUE]
  /\ named = [p \in Ports |-> TRUE]
  /\ destination = [p \in Ports |-> None]
  /\ lock = [p \in Ports |-> None]
  /\ multiple = None
  /\ th = [t \in Threads |-> Rest]

Goto(t, pc) == th' = [th EXCEPT ![t].pc = pc]
Lock(t, p) == lock[p] = None /\ lock' = [lock EXCEPT ![p] = t]
UnlockAll(t) == lock' = [p \in Ports |-> IF lock[p] = t THEN None ELSE lock[p]]

(* p is put in limbo and the check against d is called; a port is circular *)
(* with itself.                                                            *)
Check(t, p, d, backup) ==
  /\ lock[p] = None
  /\ named' = [named EXCEPT ![p] = FALSE]
  /\ destination' = [destination EXCEPT ![p] = None]
  /\ th' = [th EXCEPT ![t] = [pc |-> IF p = d THEN "circular" ELSE "quick", port |-> p,
                              dest |-> d, base |-> d, backup |-> backup]]
  /\ UNCHANGED <<active, lock, multiple>>

(* The receive right for p goes from a space into a message for d.         *)
Copyin(t, p, d) ==
  /\ th[t].pc = "idle" /\ active[p] /\ named[p]
  /\ Check(t, p, d, FALSE)

(* ipc_port_destroy of a port with a port-destroyed request: the right is  *)
(* sent to the notification port d instead.  It was in a space, or in a    *)
(* message that is destroyed.                                              *)
Backup(t, p, d) ==
  /\ th[t].pc = "idle" /\ active[p] /\ (named[p] \/ InTransit(p))
  /\ Check(t, p, d, TRUE)

(* The message t was building is circular and destroyed, and the port in   *)
(* it has a request.                                                       *)
BackupCircular(t, d) ==
  /\ th[t].pc = "circular" /\ ~th[t].backup
  /\ Check(t, th[t].port, d, TRUE)

(* ipc_port_destroy without such a request: of a right in a space or in a  *)
(* message, or of the port that was found to be circular.                  *)
Die(p) ==
  /\ lock[p] = None
  /\ active' = [active EXCEPT ![p] = FALSE]
  /\ named' = [named EXCEPT ![p] = FALSE]
  /\ destination' = [destination EXCEPT ![p] = None]
  /\ UNCHANGED <<lock, multiple>>
Destroy(p) ==
  /\ active[p] /\ (named[p] \/ InTransit(p))
  /\ Die(p) /\ UNCHANGED th
DestroyCircular(t) ==
  /\ th[t].pc = "circular"
  /\ Die(th[t].port)
  /\ th' = [th EXCEPT ![t] = Rest]

(* The message is received, or returned to its sender: ipc_right_copyout.  *)
Copyout(p) ==
  /\ InTransit(p) /\ lock[p] = None
  /\ named' = [named EXCEPT ![p] = TRUE]
  /\ destination' = [destination EXCEPT ![p] = None]
  /\ UNCHANGED <<active, lock, multiple, th>>

-----------------------------------------------------------------------------
(* The quick check: with port locked, dest can be locked without waiting   *)
(* and is not in transit.                                                  *)
QuickLock(t) ==
  /\ th[t].pc = "quick"
  /\ Lock(t, th[t].port) /\ Goto(t, "try")
  /\ UNCHANGED <<ports, multiple>>

QuickTry(t) ==
  /\ th[t].pc = "try"
  /\ LET dest == th[t].dest
     IN \/ /\ ~InTransit(dest)
           /\ Lock(t, dest) /\ Goto(t, "link")
        \/ /\ lock[dest] # None \/ InTransit(dest)
           /\ UnlockAll(t) /\ Goto(t, "serialize")
  /\ UNCHANGED <<ports, multiple>>

(* Mutant: two slow checks at a time.                                      *)
Serialize_Shared(t) ==
  /\ th[t].pc = "serialize"
  /\ multiple' = t /\ Goto(t, "walk")
  /\ UNCHANGED <<ports, lock>>

Serialize(t) ==
  /\ th[t].pc = "serialize"
  /\ multiple = None /\ multiple' = t
  /\ Goto(t, "walk")
  /\ UNCHANGED <<ports, lock>>

(* Mutant: a port of the chain is unlocked when the next one is looked at. *)
Walk_HandOverHand(t) ==
  LET base == th[t].base
  IN /\ th[t].pc = "walk" /\ lock[base] = None
     /\ lock' = [p \in Ports |-> IF p = base THEN t ELSE IF lock[p] = t THEN None ELSE lock[p]]
     /\ IF InTransit(base) THEN th' = [th EXCEPT ![t].base = destination[base]]
        ELSE Goto(t, IF base = th[t].port THEN "loop" ELSE "lockport")
     /\ UNCHANGED <<ports, multiple>>

(* The chain of destinations is locked up to a port not in transit.        *)
Walk(t) ==
  LET base == th[t].base
  IN /\ th[t].pc = "walk"
     /\ Lock(t, base)
     /\ IF InTransit(base) THEN th' = [th EXCEPT ![t].base = destination[base]]
        ELSE Goto(t, IF base = th[t].port THEN "loop" ELSE "lockport")
     /\ UNCHANGED <<ports, multiple>>

(* The chain ends in port itself.                                          *)
Loop(t) ==
  /\ th[t].pc = "loop"
  /\ multiple' = None /\ UnlockAll(t) /\ Goto(t, "circular")
  /\ UNCHANGED ports

LockPort(t) ==
  /\ th[t].pc = "lockport"
  /\ Lock(t, th[t].port) /\ multiple' = None /\ Goto(t, "link")
  /\ UNCHANGED ports

Link(t) ==
  /\ th[t].pc = "link"
  /\ destination' = [destination EXCEPT ![th[t].port] = th[t].dest]
  /\ UnlockAll(t)
  /\ th' = [th EXCEPT ![t] = Rest]
  /\ UNCHANGED <<active, named, multiple>>

Next ==
  \/ \E t \in Threads :
       \/ \E p, d \in Ports : Copyin(t, p, d) \/ Backup(t, p, d)
       \/ \E d \in Ports : BackupCircular(t, d)
       \/ DestroyCircular(t)
       \/ QuickLock(t) \/ QuickTry(t) \/ Serialize(t) \/ Walk(t) \/ Loop(t)
       \/ LockPort(t) \/ Link(t)
  \/ \E p \in Ports : Destroy(p) \/ Copyout(p)

Spec == Init /\ [][Next]_vars

-----------------------------------------------------------------------------
(* ipc_port_check_circularity promises that linking a port creates no      *)
(* circle: whatever set of ports in transit one takes, some port of it     *)
(* waits in the queue of a port outside the set.                           *)
NoCircle ==
  \A S \in SUBSET Ports :
    S # {} => \E p \in S : ~InTransit(p) \/ destination[p] \notin S

(* The locks a thread waits for at its next step.                          *)
Blocked(t) ==
  \/ th[t].pc \in {"quick", "lockport", "circular"} /\ lock[th[t].port] # None
  \/ th[t].pc = "serialize" /\ multiple # None
  \/ th[t].pc = "walk" /\ lock[th[t].base] # None

(* The checks never wait for each other in a circle: the chains are locked *)
(* under ipc_port_multiple_lock and the quick check never waits for a      *)
(* second lock, so while any check is in progress one of them can go on.   *)
NoDeadlock ==
  (\E t \in Threads : th[t].pc # "idle") =>
    \E t \in Threads : th[t].pc # "idle" /\ ~Blocked(t)
=============================================================================
