------------------------------ MODULE IpcRight ------------------------------
(***************************************************************************)
(* Port rights: ipc/ipc_right.c, the naked rights of ipc/ipc_port.c and    *)
(* ipc/ipc_object.c, and the notifications they owe.                       *)
(*                                                                         *)
(* A right is in an entry of a space or naked (in a message, in the        *)
(* kernel's hands).  Every operation here holds the write lock of its      *)
(* space and the lock of the port it touches from its first test to its    *)
(* last change, so it is one step.  A dying port does not visit the        *)
(* entries that name it: each is converted by the next operation on it.    *)
(***************************************************************************)
EXTENDS Naturals, FiniteSets

CONSTANTS Spaces, Ports,
          Slots,       \* the entries there may be: pairs of a space and a name in it
          None,        \* IO_NULL, and no receiver
          UrefsMax,    \* MACH_PORT_UREFS_MAX
          MaxMscount,  \* bound on ip_mscount
          MaxNaked,    \* bound on the naked rights of a port when one more is made
          MaxSendOnce, \* bound on ip_sorights
          MaxStray     \* bound on the history variable stray

ASSUME RightConstants == /\ \A e \in Slots : e[1] \in Spaces
                         /\ None \notin Ports \union Slots
                         /\ UrefsMax \in Nat \ {0, 1}
                         /\ MaxMscount \in Nat
                         /\ MaxNaked \in Nat
                         /\ MaxSendOnce \in Nat
                         /\ MaxStray \in Nat
                         /\ IsFiniteSet(Slots)

VARIABLES
  alive,               \* is_active of each space
  entry,               \* the ipc_entry of each name of each space
  port                 \* the ipc_port structures, and where their naked rights are

vars == <<alive, entry, port>>

Space(e) == e[1]

Types == {"none", "send", "receive", "send_receive", "send_once", "dead_name"}
Entry == [type : Types,
          urefs : 0..UrefsMax,
          object : Ports \union {None},
          request : BOOLEAN]        \* ie_request # 0
Free == [type |-> "none", urefs |-> 0, object |-> None, request |-> FALSE]
HasSend(x) == x.type \in {"send", "send_receive"}
HasReceive(x) == x.type \in {"receive", "send_receive"}

Port == [active : BOOLEAN,
         references : Nat,
         srights : Nat,
         sorights : Nat,
         mscount : 0..MaxMscount,
         nsrequest : BOOLEAN,
         pdrequest : BOOLEAN,
         dnrequests : SUBSET Slots,
         receiver : Slots \union {None},
         send : Nat,               \* naked send rights
         send_once : Nat,          \* naked send-once rights
         receive : BOOLEAN,        \* the receive right is naked: in limbo or in transit
         told : SUBSET (0..MaxMscount), \* history: no-senders notifications this receiver got
         early : BOOLEAN,          \* history: nsrequest asked for an mscount still to come
         stray : Nat]              \* history: send rights turned into dead names uncounted
Unused == [active |-> FALSE, references |-> 0, srights |-> 0, sorights |-> 0,
           mscount |-> 0, nsrequest |-> FALSE, pdrequest |-> FALSE,
           dnrequests |-> {}, receiver |-> None,
           send |-> 0, send_once |-> 0, receive |-> FALSE,
           told |-> {}, early |-> FALSE, stray |-> 0]

Init == /\ alive = [s \in Spaces |-> TRUE]
        /\ entry = [e \in Slots |-> Free]
        /\ port = [p \in Ports |-> Unused]

-----------------------------------------------------------------------------
(* What the operations do to a port.                                       *)

Reference(r) == [r EXCEPT !.references = @ + 1]
Release(r) == [r EXCEPT !.references = @ - 1]
Dncancel(r, e) == [r EXCEPT !.dnrequests = @ \ {e}]

\* mutant: the last send right goes and nobody looks at ip_nsrequest
DropSend_Silent(r) == [r EXCEPT !.srights = @ - 1]
DropSend(r) ==
  IF r.srights = 1 /\ r.nsrequest
    THEN [r EXCEPT !.srights = 0, !.nsrequest = FALSE, !.early = FALSE,
                   !.told = @ \union {r.mscount}]
    ELSE [r EXCEPT !.srights = @ - 1]

ClearReceiver(r) == [r EXCEPT !.mscount = 0, !.told = {}]

NakedSend(r) == [r EXCEPT !.send = @ + 1]
NakedSendOnce(r) == [r EXCEPT !.send_once = @ + 1]

(* ipc_port_destroy: a port with a backup only falls into limbo, on its    *)
(* way to the backup.  If it would be queued at itself the check refuses   *)
(* it, and the naked right is destroyed by ReleaseReceive.                 *)
PortDestroy(r) ==
  IF r.pdrequest
    THEN [r EXCEPT !.pdrequest = FALSE, !.receiver = None, !.receive = TRUE]
    ELSE Release([r EXCEPT !.active = FALSE, !.nsrequest = FALSE, !.early = FALSE,
                           !.dnrequests = {}, !.receiver = None, !.receive = FALSE,
                           !.stray = 0])

-----------------------------------------------------------------------------
(* ipc_right_check: what an operation sees when it looks at an entry.  The *)
(* entry of a dead port becomes a dead name and lets go of the port; a     *)
(* registered dead-name notification brings one more user reference.       *)

PortOf(e) == port[entry[e].object]
Stale(e) == entry[e].object # None /\ ~PortOf(e).active

RightCheck(e) ==
  IF Stale(e)
    THEN [Free EXCEPT !.type = "dead_name",
                      !.urefs = entry[e].urefs + (IF entry[e].request THEN 1 ELSE 0)]
    ELSE entry[e]

(* An operation that ends with x in an entry without a live port.          *)
Settle(e, x) ==
  /\ entry' = [entry EXCEPT ![e] = x]
  /\ port' = IF Stale(e) THEN [port EXCEPT ![entry[e].object] = Release(@)] ELSE port
  /\ UNCHANGED alive

(* An operation that ends with x in the entry and r in the port.           *)
Put(e, x, r) == /\ entry' = [entry EXCEPT ![e] = x]
                /\ port' = [port EXCEPT ![entry[e].object] = r]
                /\ UNCHANGED alive

LessUref(x) == IF x.urefs = 1 THEN Free ELSE [x EXCEPT !.urefs = @ - 1]

(* A live send right left with k user references.                          *)
SetSendUrefs(e, k) ==
  LET x == entry[e]
      r == PortOf(e)
  IN  CASE k > 0 -> Put(e, [x EXCEPT !.urefs = k], r)
        [] k = 0 /\ HasReceive(x) ->
             Put(e, [x EXCEPT !.type = "receive", !.urefs = 0], DropSend(r))
        [] k = 0 /\ ~HasReceive(x) ->
             Put(e, Free, Release(Dncancel(DropSend(r), e)))

(* A live send-once right goes, with its reference, into the send-once     *)
(* notification that tells the receiver (or into the message it is for).   *)
LoseSendOnce(e) == Put(e, Free, NakedSendOnce(Dncancel(PortOf(e), e)))

(* Maximum urefs for send is MACH_PORT_UREFS_MAX-1: a dead-name            *)
(* notification may add one when the port dies.                            *)
\* mutant: the limit is that of a dead name
SendUrefsMax_Full == UrefsMax
SendUrefsMax == UrefsMax - 1

-----------------------------------------------------------------------------
(* Calls on a name: mach_port_deallocate, mod_refs, destroy, rename and    *)
(* request_notification.                                                   *)

Dealloc(e) ==
  /\ alive[Space(e)]
  /\ LET x == RightCheck(e)
     IN  \/ x.type = "dead_name" /\ Settle(e, LessUref(x))
         \/ x.type = "send_once" /\ LoseSendOnce(e)
         \/ HasSend(x) /\ SetSendUrefs(e, x.urefs - 1)

(* ipc_right_delta, receive right: the send right that goes with it turns  *)
(* into a dead name, and neither ip_srights nor the dead-name request      *)
(* changes, "because the port is destroyed first".  With a backup it is    *)
(* not: the right stays counted (stray) and its request stays in the       *)
(* table, where nothing refers to it any more.                             *)
DeltaReceive(e) ==
  LET x == entry[e]
      r == PortOf(e)
  IN  /\ alive[Space(e)] /\ HasReceive(x)
      /\ r.stray < MaxStray
      /\ IF HasSend(x)
           THEN Put(e, [Free EXCEPT !.type = "dead_name",
                                    !.urefs = x.urefs + (IF x.request THEN 1 ELSE 0)],
                    PortDestroy(ClearReceiver([r EXCEPT !.stray = @ + 1])))
           ELSE Put(e, Free, PortDestroy(ClearReceiver(Dncancel(r, e))))

Delta(e) ==
  /\ alive[Space(e)]
  /\ LET x == RightCheck(e)
     IN  \/ HasSend(x) /\ \E k \in 0..SendUrefsMax : SetSendUrefs(e, k)
         \/ x.type = "send_once" /\ LoseSendOnce(e)
         \/ /\ x.type = "dead_name"
            /\ \/ \E k \in 1..UrefsMax : Settle(e, [x EXCEPT !.urefs = k])
               \/ Settle(e, Free)
               \/ Settle(e, x)   \* a right the entry no longer has, or too large a delta

(* ipc_right_destroy, and ipc_right_clean when the space is dead.          *)
Discard(e) ==
  LET x == entry[e]
      r == PortOf(e)
      d == IF HasSend(x) THEN DropSend(Dncancel(r, e)) ELSE Dncancel(r, e)
  IN  \/ x.type = "dead_name" /\ Settle(e, Free)
      \/ Stale(e) /\ Settle(e, Free)
      \/ ~Stale(e) /\ HasReceive(x) /\ Put(e, Free, PortDestroy(ClearReceiver(d)))
      \/ ~Stale(e) /\ x.type = "send_once" /\ LoseSendOnce(e)
      \/ ~Stale(e) /\ x.type = "send" /\ Put(e, Free, Release(d))
Destroy(e) == alive[Space(e)] /\ Discard(e)
Clean(e) == ~alive[Space(e)] /\ Discard(e)
SpaceDestroy(s) == /\ alive[s]
                   /\ alive' = [alive EXCEPT ![s] = FALSE]
                   /\ UNCHANGED <<entry, port>>

(* ipc_right_rename looks at the port only if a request must be renamed.   *)
RenameAt(r, x, e, new) ==
  [r EXCEPT !.dnrequests = IF x.request THEN (@ \ {e}) \union {new} ELSE @,
            !.receiver = IF HasReceive(x) THEN new ELSE @]
Rename(e, new) ==
  LET x == IF entry[e].request THEN RightCheck(e) ELSE entry[e]
      p == x.object
  IN  /\ alive[Space(e)] /\ Space(new) = Space(e)
      /\ entry[e].type # "none" /\ entry[new].type = "none"
      /\ entry' = [entry EXCEPT ![new] = x, ![e] = Free]
      /\ port' = CASE entry[e].object # p ->
                        [port EXCEPT ![entry[e].object] = Release(@)]
                   [] entry[e].object = p /\ p # None ->
                        [port EXCEPT ![p] = RenameAt(@, x, e, new)]
                   [] entry[e].object = p /\ p = None -> port
      /\ UNCHANGED alive

(* ipc_right_dnrequest; growing the table and trying again changes         *)
(* nothing here.                                                           *)
Dnrequest(e, notify, immediate) ==
  /\ alive[Space(e)]
  /\ LET x == RightCheck(e)
     IN  \/ /\ x.object # None
            /\ Put(e, [x EXCEPT !.request = notify],
                   IF notify THEN [PortOf(e) EXCEPT !.dnrequests = @ \union {e}]
                             ELSE Dncancel(PortOf(e), e))
         \/ /\ x.type = "dead_name"
            /\ Settle(e, IF immediate /\ notify /\ x.urefs < UrefsMax
                           THEN [x EXCEPT !.urefs = @ + 1] ELSE x)

\* mutant: the notification is sent although there are send rights
Nsrequest_Hasty(e, notify, sync) ==
  /\ alive[Space(e)] /\ HasReceive(entry[e])
  /\ Put(e, entry[e], [PortOf(e) EXCEPT !.told = @ \union {PortOf(e).mscount}])
Nsrequest(e, notify, sync) ==
  LET r == PortOf(e)
  IN  /\ alive[Space(e)] /\ HasReceive(entry[e])
      /\ Put(e, entry[e],
             IF r.srights = 0 /\ sync <= r.mscount /\ notify
               THEN [r EXCEPT !.nsrequest = FALSE, !.early = FALSE,
                              !.told = @ \union {r.mscount}]
               ELSE [r EXCEPT !.nsrequest = notify,
                              !.early = notify /\ r.srights = 0])

Pdrequest(e, notify) ==
  /\ alive[Space(e)] /\ HasReceive(entry[e])
  /\ Put(e, entry[e], [PortOf(e) EXCEPT !.pdrequest = notify])

SetMscount(e, m) ==
  /\ alive[Space(e)] /\ HasReceive(entry[e])
  /\ Put(e, entry[e], [PortOf(e) EXCEPT !.mscount = m, !.told = {}])

-----------------------------------------------------------------------------
(* Naked rights: ipc_port_alloc, ipc_right_copyin, ipc_right_copyout,      *)
(* ipc_object_destroy and ipc_object_copyout_dest.                         *)

Alloc(e, p) ==
  /\ alive[Space(e)] /\ entry[e].type = "none"
  /\ port[p].references = 0
  /\ entry' = [entry EXCEPT ![e] = [Free EXCEPT !.type = "receive", !.object = p]]
  /\ port' = [port EXCEPT ![p] = [Unused EXCEPT !.active = TRUE, !.references = 1,
                                                !.receiver = e]]
  /\ UNCHANGED alive

Room(r) == r.send + r.send_once < MaxNaked

CopyinMakeSend(e) ==
  /\ alive[Space(e)] /\ HasReceive(entry[e]) /\ Room(PortOf(e))
  /\ PortOf(e).mscount < MaxMscount
  /\ Put(e, entry[e],
         NakedSend(Reference([PortOf(e) EXCEPT !.mscount = @ + 1, !.srights = @ + 1])))

CopyinMakeSendOnce(e) ==
  /\ alive[Space(e)] /\ HasReceive(entry[e]) /\ Room(PortOf(e))
  /\ PortOf(e).sorights < MaxSendOnce
  /\ Put(e, entry[e], NakedSendOnce(Reference([PortOf(e) EXCEPT !.sorights = @ + 1])))

CopyinMoveReceive(e) ==
  LET x == entry[e]
      limbo(r) == [ClearReceiver(r) EXCEPT !.receiver = None, !.receive = TRUE]
  IN  /\ alive[Space(e)] /\ HasReceive(x)
      /\ IF HasSend(x) THEN Put(e, [x EXCEPT !.type = "send"], limbo(Reference(PortOf(e))))
                       ELSE Put(e, Free, limbo(Dncancel(PortOf(e), e)))

\* mutant: the copy is not counted
CopyinCopySend_Uncounted(e) == /\ alive[Space(e)] /\ ~Stale(e) /\ HasSend(entry[e]) /\ Room(PortOf(e))
                               /\ Put(e, entry[e], NakedSend(Reference(PortOf(e))))
CopyinCopySend(e) ==
  /\ alive[Space(e)]
  /\ LET x == RightCheck(e)
     IN  \/ x.type = "dead_name" /\ Settle(e, x)
         \/ /\ HasSend(x) /\ Room(PortOf(e))
            /\ Put(e, x, NakedSend(Reference([PortOf(e) EXCEPT !.srights = @ + 1])))

\* mutants: the receive right's own reference goes with the last send right;
\* the dead-name request of an entry that is gone is not cancelled
CopyinMoveSend_NoRef(e) ==
  /\ alive[Space(e)]
  /\ LET x == RightCheck(e)
         r == PortOf(e)
     IN  /\ HasSend(x) /\ Room(r) /\ x.urefs = 1 /\ HasReceive(x)
         /\ Put(e, [x EXCEPT !.type = "receive", !.urefs = 0], NakedSend(r))
CopyinMoveSend_NoCancel(e) ==
  /\ alive[Space(e)]
  /\ LET x == RightCheck(e)
         r == PortOf(e)
     IN  HasSend(x) /\ Room(r) /\ x.urefs = 1 /\ x.type = "send" /\ Put(e, Free, NakedSend(r))
CopyinMoveSend(e) ==
  /\ alive[Space(e)]
  /\ LET x == RightCheck(e)
         r == PortOf(e)
     IN  \/ x.type = "dead_name" /\ Settle(e, LessUref(x))
         \/ /\ HasSend(x) /\ Room(r) /\ x.urefs > 1
            /\ Put(e, LessUref(x), NakedSend(Reference([r EXCEPT !.srights = @ + 1])))
         \/ /\ HasSend(x) /\ Room(r) /\ x.urefs = 1
            /\ IF HasReceive(x)
                 THEN Put(e, [x EXCEPT !.type = "receive", !.urefs = 0],
                          NakedSend(Reference(r)))
                 ELSE Put(e, Free, NakedSend(Dncancel(r, e)))

CopyinMoveSendOnce(e) ==
  /\ alive[Space(e)]
  /\ LET x == RightCheck(e)
     IN  \/ x.type = "dead_name" /\ Settle(e, LessUref(x))
         \/ x.type = "send_once" /\ LoseSendOnce(e)

(* ipc_right_reverse: the names of the port in a space, other than those   *)
(* of send-once rights; ipc_object_copyout uses one if there is one.       *)
\* mutant: only the names of send rights are looked up
Reverse_SendOnly(s, p) == {e \in Slots : /\ Space(e) = s /\ entry[e].object = p
                                         /\ entry[e].type = "send"}
Reverse(s, p) ==
  IF port[p].receiver # None /\ Space(port[p].receiver) = s
    THEN {port[p].receiver}
    ELSE {e \in Slots : /\ Space(e) = s /\ entry[e].object = p
                        /\ entry[e].type = "send"}

Named(e, p, x, r) == /\ entry' = [entry EXCEPT ![e] = x]
                     /\ port' = [port EXCEPT ![p] = r]
                     /\ UNCHANGED alive

(* Where a copyout puts its right: the name the space has, or a new one.   *)
Target(e, p) == /\ alive[Space(e)] /\ port[p].active
                /\ IF Reverse(Space(e), p) = {} THEN entry[e].type = "none"
                                                ELSE e \in Reverse(Space(e), p)

CopyoutSend(e, p) ==
  LET x == entry[e]
      r == [port[p] EXCEPT !.send = @ - 1]
  IN  /\ Target(e, p) /\ port[p].send > 0
      /\ \/ /\ HasSend(x) /\ x.urefs < SendUrefsMax
            /\ Named(e, p, [x EXCEPT !.urefs = @ + 1], Release([r EXCEPT !.srights = @ - 1]))
         \/ /\ HasSend(x) /\ x.urefs = SendUrefsMax   \* overflow: urefs stay pegged
            /\ Named(e, p, x, Release([r EXCEPT !.srights = @ - 1]))
         \/ /\ x.type = "receive"
            /\ Named(e, p, [x EXCEPT !.type = "send_receive", !.urefs = 1], Release(r))
         \/ /\ x.type = "none"
            /\ Named(e, p, [Free EXCEPT !.type = "send", !.urefs = 1, !.object = p], r)

CopyoutSendOnce(e, p) ==
  /\ alive[Space(e)] /\ port[p].active /\ port[p].send_once > 0
  /\ entry[e].type = "none"
  /\ Named(e, p, [Free EXCEPT !.type = "send_once", !.urefs = 1, !.object = p],
           [port[p] EXCEPT !.send_once = @ - 1])

CopyoutReceive(e, p) ==
  LET x == entry[e]
      r == [port[p] EXCEPT !.receive = FALSE, !.receiver = e]
  IN  /\ Target(e, p) /\ port[p].receive
      /\ IF x.type = "send"
           THEN Named(e, p, [x EXCEPT !.type = "send_receive"], Release(r))
           ELSE Named(e, p, [Free EXCEPT !.type = "receive", !.object = p], r)

SetPort(p, r) == port' = [port EXCEPT ![p] = r] /\ UNCHANGED <<alive, entry>>

(* ipc_port_release_send, and the destination right of a received message. *)
ReleaseSend(p) ==
  LET r == Release([port[p] EXCEPT !.send = @ - 1])
  IN  port[p].send > 0 /\ SetPort(p, IF r.active THEN DropSend(r) ELSE r)

(* The message a send-once right was for is received (or the right is      *)
(* released); at a dead port the queued message only gives its reference   *)
(* up.                                                                     *)
ReleaseSendOnce(p) ==
  LET r == Release([port[p] EXCEPT !.send_once = @ - 1])
  IN  /\ port[p].send_once > 0
      /\ SetPort(p, IF r.active THEN [r EXCEPT !.sorights = @ - 1] ELSE r)

ReleaseReceive(p) == port[p].receive /\ SetPort(p, PortDestroy(port[p]))

Next ==
  \/ \E s \in Spaces : SpaceDestroy(s)
  \/ \E e \in Slots :
       \/ Dealloc(e) \/ Delta(e) \/ DeltaReceive(e) \/ Destroy(e) \/ Clean(e)
       \/ \E new \in Slots : Rename(e, new)
       \/ \E notify, immediate \in BOOLEAN : Dnrequest(e, notify, immediate)
       \/ \E notify \in BOOLEAN, sync \in 0..MaxMscount + 1 : Nsrequest(e, notify, sync)
       \/ \E notify \in BOOLEAN : Pdrequest(e, notify)
       \/ \E m \in 0..MaxMscount : SetMscount(e, m)
       \/ CopyinMakeSend(e) \/ CopyinMakeSendOnce(e) \/ CopyinMoveReceive(e)
       \/ CopyinCopySend(e) \/ CopyinMoveSend(e) \/ CopyinMoveSendOnce(e)
       \/ \E p \in Ports : \/ Alloc(e, p)
                           \/ CopyoutSend(e, p) \/ CopyoutSendOnce(e, p) \/ CopyoutReceive(e, p)
  \/ \E p \in Ports : ReleaseSend(p) \/ ReleaseSendOnce(p) \/ ReleaseReceive(p)

Spec == Init /\ [][Next]_vars

-----------------------------------------------------------------------------
Naming(p) == {e \in Slots : entry[e].object = p}
Senders(p) == {e \in Slots : HasSend(entry[e]) /\ entry[e].object = p}
SendOncers(p) == {e \in Slots : entry[e].type = "send_once" /\ entry[e].object = p}

TypeOK == /\ alive \in [Spaces -> BOOLEAN]
          /\ entry \in [Slots -> Entry]
          /\ port \in [Ports -> Port]

(* ip_srights and ip_sorights of a live port count the rights there are:   *)
(* the entries that hold one (however many user references they have) and  *)
(* the naked ones.  What ipc_right_delta strands is the only exception.    *)
RightsCounted ==
  \A p \in Ports : port[p].active =>
    /\ port[p].srights = Cardinality(Senders(p)) + port[p].send + port[p].stray
    /\ port[p].sorights = Cardinality(SendOncers(p)) + port[p].send_once

(* ip_references counts the entries and the naked rights that point to the *)
(* port, dead or alive: it is not freed while one does, and is then.       *)
ReferencesCounted ==
  \A p \in Ports : port[p].references =
    Cardinality(Naming(p)) + port[p].send + port[p].send_once
      + (IF port[p].receive THEN 1 ELSE 0)

(* A live port has one receive right, and the port and the entry agree on  *)
(* where it is; a space has one name for all its send and receive rights   *)
(* to a port, which is what makes its user references mean something.      *)
OneName ==
  /\ \A p \in Ports :
       IF port[p].active
         THEN port[p].receive = (port[p].receiver = None)
         ELSE ~port[p].receive
  /\ \A e \in Slots : HasReceive(entry[e]) <=>
       \E p \in Ports : entry[e].object = p /\ port[p].active /\ port[p].receiver = e
  /\ \A e, f \in Slots :
       /\ HasSend(entry[e]) \/ HasReceive(entry[e])
       /\ HasSend(entry[f]) \/ HasReceive(entry[f])
       /\ entry[e].object = entry[f].object /\ Space(e) = Space(f)
       => e = f

(* User references never leave their field: a send right has room for the  *)
(* one a dead-name notification brings, whatever was added or pegged.      *)
UrefsBounded ==
  \A e \in Slots : LET x == RightCheck(e)
                   IN  CASE HasSend(x) -> x.urefs \in 1..UrefsMax - 1
                         [] x.type = "dead_name" -> x.urefs \in 1..UrefsMax
                         [] x.type = "send_once" -> x.urefs = 1
                         [] x.type \in {"none", "receive"} -> x.urefs = 0

(* The dead-name requests in a live port's table are those of the entries  *)
(* that name it: nobody is told of a name that is gone, and whoever asked  *)
(* is told.  Only ipc_right_delta leaves one behind.                       *)
RequestsAgree ==
  \A p \in Ports : port[p].active =>
    LET asked == {e \in Naming(p) : entry[e].request}
    IN  asked \subseteq port[p].dnrequests /\ (port[p].stray = 0 => asked = port[p].dnrequests)

(* A no-senders notification is owed when the last send right goes: a live *)
(* port with a request and no send right anywhere is one whose receiver    *)
(* asked to wait for a make-send count still to come.                      *)
NoSendersOwed ==
  \A p \in Ports :
    port[p].active /\ port[p].nsrequest /\ port[p].stray = 0
      /\ Senders(p) = {} /\ port[p].send = 0 => port[p].early

(* A no-senders notification whose make-send count is still the port's is  *)
(* still true, so the receiver may act on it.                              *)
NoSendersTrue ==
  \A p \in Ports : port[p].active /\ port[p].mscount \in port[p].told =>
    Senders(p) = {} /\ port[p].send = 0

(* "The port is destroyed first": a port loses none of its send rights     *)
(* without losing the count of it.                                         *)
NoStrayRight ==
  \A p \in Ports : port[p].active => port[p].srights = Cardinality(Senders(p)) + port[p].send
=============================================================================
