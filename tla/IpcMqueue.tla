----------------------------- MODULE IpcMqueue ------------------------------
(***************************************************************************)
(* Message queues, ports and port sets of Mach IPC: ipc/ipc_mqueue.c (send,*)
(* deliver, receive, finish_receive, move, changed), ipc/ipc_pset.c, and   *)
(* the parts of ipc/ipc_port.c that touch queues (set_qlimit, set_seqno,   *)
(* clear_receiver, destroy).                                               *)
(*                                                                         *)
(* A step is what a routine does from its first lock to the release of its *)
(* last one (port, port set and queue locks are all taken before any is    *)
(* dropped); what follows an unlock is another step.  Messages to kernel   *)
(* ports (ipc_kobject_server) and the DIPC branches are not modelled.      *)
(***************************************************************************)
EXTENDS Integers, Sequences, FiniteSets, Functions

CONSTANTS
  Threads, Ports, Psets,
  None,                 \* IPS_NULL, IKM_NULL, ITH_NULL
  QLimits,              \* queue limits that are ever set; holds the default
  QLimitDefault,        \* MACH_PORT_QLIMIT_DEFAULT
  MaxSent,              \* bound: messages accepted by a port
  Builds                \* the systems that are looked at, see build

ASSUME BuildsTyped ==
  Builds \subseteq [mp : BOOLEAN, sendGivesUp : BOOLEAN, rcvGivesUp : BOOLEAN, psets : SUBSET Psets]
ASSUME Limits == QLimits \subseteq Nat /\ QLimitDefault \in QLimits /\ MaxSent \in Nat
ASSUME Apart == Ports \intersect Psets = {} /\ None \notin Ports \union Psets \union Threads

VARIABLES
  port,                 \* ports; sent and base are history (see SeqnoOrder)
  psActive,             \* IO_BITS_ACTIVE of the port sets
  mq,                   \* the message queue of each port and port set
  th,                   \* the IPC part of each thread
  build                 \* NCPUS > 1; whether sends, receives time out and are
                        \* interrupted; the port sets in use

vars == <<port, psActive, mq, th, build>>

(* What the routines below transform: the queues, ports and threads.       *)
State == [port |-> port, mq |-> mq, th |-> th]
Become(S) == port' = S.port /\ mq' = S.mq /\ th' = S.th

NewPort ==              \* ipc_port_init
  [active |-> TRUE, held |-> TRUE, pset |-> None, seqno |-> 0, msgcount |-> 0,
   qlimit |-> QLimitDefault, blocked |-> <<>>, sent |-> 0, base |-> 0]
NewMqueue ==            \* ipc_mqueue_init
  [messages |-> <<>>, threads |-> <<>>]
NewThread ==
  [pc |-> "idle", obj |-> None, opt |-> "block", ith_state |-> "success", ith_kmsg |-> None,
   waiting |-> FALSE, wait_result |-> "awakened", timer |-> FALSE]

Init ==
  /\ port = [p \in Ports |-> NewPort]
  /\ psActive = [s \in Psets |-> TRUE]
  /\ mq = [q \in Ports \union Psets |-> NewMqueue]
  /\ th = [t \in Threads |-> NewThread]
  /\ build \in Builds

-----------------------------------------------------------------------------
(* thread_go of kern/sched_prim.c, as far as the IPC waits see it.         *)
ThreadGo(r) ==
  IF r.waiting THEN [r EXCEPT !.waiting = FALSE, !.wait_result = "awakened", !.timer = FALSE]
               ELSE [r EXCEPT !.timer = FALSE]

(* thread_will_wait and thread_will_wait_with_timeout.                     *)
WillWait(r, st) ==
  [r EXCEPT !.ith_state = st, !.waiting = TRUE, !.timer = (r.opt = "timed")]

(* Mutants: thread_go without the assignment of ith_state, and the other   *)
(* way round.                                                              *)
Rouse_NoState(S, W, st) ==
  [S EXCEPT !.th = [t \in Threads |-> IF t \in W THEN ThreadGo(S.th[t]) ELSE S.th[t]]]
Rouse_NoGo(S, W, st) ==
  [S EXCEPT !.th = [t \in Threads |->
     IF t \in W THEN [S.th[t] EXCEPT !.ith_state = st] ELSE S.th[t]]]

(* Set ith_state of some threads, taken off their queue, and start them.   *)
Rouse(S, W, st) ==
  [S EXCEPT !.th = [t \in Threads |->
     IF t \in W THEN ThreadGo([S.th[t] EXCEPT !.ith_state = st]) ELSE S.th[t]]]

Changed(S, q, mr) ==    \* ipc_mqueue_changed
  [Rouse(S, Range(S.mq[q].threads), mr) EXCEPT !.mq[q].threads = <<>>]

(* ipc_mqueue_move: the messages sent to p go over in their order, first   *)
(* to the receivers that wait at the destination.                          *)
Move(S, dest, source, p) ==
  LET mine == SelectSeq(S.mq[source].messages, LAMBDA m : m.port = p)
      rest == SelectSeq(S.mq[source].messages, LAMBDA m : m.port # p)
      rcvs == S.mq[dest].threads
      k == IF Len(mine) < Len(rcvs) THEN Len(mine) ELSE Len(rcvs)
  IN [S EXCEPT
       !.mq[source].messages = rest,
       !.mq[dest] = [messages |-> @.messages \o SubSeq(mine, k + 1, Len(mine)),
                     threads |-> SubSeq(rcvs, k + 1, Len(rcvs))],
       !.port[p].seqno = @ + k,
       !.th = [t \in Threads |->
          IF \E i \in 1 .. k : rcvs[i] = t
            THEN ThreadGo([S.th[t] EXCEPT !.ith_state = "success",
                           !.ith_kmsg = mine[CHOOSE i \in 1 .. k : rcvs[i] = t]])
            ELSE S.th[t]]]

(* Mutants: the waiting receivers are not told; the messages are moved     *)
(* without the order of the queue.                                         *)
PsetAdd_NoChanged(S, s, p) == Move([S EXCEPT !.port[p].pset = s], s, p, p)
PsetRemove_NewestFirst(S, p) ==
  LET s == S.port[p].pset
      M == Move([S EXCEPT !.port[p].pset = None], p, s, p)
      n == Len(M.mq[p].messages)
  IN [M EXCEPT !.mq[p].messages = [i \in 1 .. n |-> @[n + 1 - i]]]

PsetAdd(S, s, p) ==     \* ipc_pset_add
  Changed(Move([S EXCEPT !.port[p].pset = s], s, p, p), p, "changed")

PsetRemove(S, p) ==     \* ipc_pset_remove
  Move([S EXCEPT !.port[p].pset = None], p, S.port[p].pset, p)

(* Mutant: a message handed over is not counted.                           *)
Deliver_Uncounted(S, t, p) ==
  LET q == IF S.port[p].pset = None THEN p ELSE S.port[p].pset
      kmsg == [port |-> p, n |-> S.port[p].sent]
      receiver == Head(S.mq[q].threads)
  IN IF S.mq[q].threads = <<>>
       THEN [S EXCEPT !.port[p].msgcount = @ + 1, !.port[p].sent = @ + 1,
                      !.mq[q].messages = Append(@, kmsg), !.th[t].pc = "idle"]
       ELSE [S EXCEPT !.port[p].sent = @ + 1,
                      !.mq[q].threads = Tail(@),
                      !.port[p].seqno = @ + 1,
                      !.th[receiver].ith_state = "success",
                      !.th[receiver].ith_kmsg = kmsg,
                      !.th[t].pc = "go", !.th[t].obj = receiver]

(* ipc_mqueue_deliver up to imq_unlock; thread_go is still to come.        *)
Deliver(S, t, p) ==
  LET q == IF S.port[p].pset = None THEN p ELSE S.port[p].pset
      kmsg == [port |-> p, n |-> S.port[p].sent]
      S1 == [S EXCEPT !.port[p].msgcount = @ + 1, !.port[p].sent = @ + 1]
      receiver == Head(S.mq[q].threads)
  IN IF S.mq[q].threads = <<>>
       THEN [S1 EXCEPT !.mq[q].messages = Append(@, kmsg), !.th[t].pc = "idle"]
       ELSE [S1 EXCEPT !.mq[q].threads = Tail(@),
                       !.port[p].seqno = @ + 1,
                       !.th[receiver].ith_state = "success",
                       !.th[receiver].ith_kmsg = kmsg,
                       !.th[t].pc = "go", !.th[t].obj = receiver]

-----------------------------------------------------------------------------
(* A thread that leaves forgets its IPC fields: each of them is assigned   *)
(* before it is read again.                                                *)
Return(S, t) == [S EXCEPT !.th[t] = NewThread]

(* A receiver has its message; finish_receive comes after imq_unlock.      *)
GotMessage(S, t, kmsg) ==
  [S EXCEPT !.th[t] = [NewThread EXCEPT !.pc = "finish", !.ith_kmsg = kmsg]]

(* On one processor disable_preemption keeps every other thread from       *)
(* running between the hand-off in ipc_mqueue_deliver and its thread_go.   *)
Runs(t) == build.mp \/ \A u \in Threads \ {t} : th[u].pc # "go"
Called(t) == th[t].pc = "idle" /\ Runs(t)
Resumed(t, pc) == th[t].pc = pc /\ ~th[t].waiting /\ Runs(t)

Senders(p) == {t \in Threads : th[t].pc = "sendwait" /\ th[t].obj = p}
SendBound(p) == port[p].sent + Cardinality(Senders(p)) < MaxSent

(* One turn of the loop of ipc_mqueue_send, with the port locked.  opt is  *)
(* "always" for MACH_SEND_ALWAYS and for a send-once right, "zero" for a   *)
(* timeout of zero.                                                        *)
SendLoop(S, t, p, opt) ==
  IF ~S.port[p].active THEN Return(S, t)
  ELSE IF S.port[p].msgcount < S.port[p].qlimit \/ opt = "always"
    THEN Deliver(Return(S, t), t, p)
  ELSE IF opt = "zero" THEN Return(S, t)
  ELSE [S EXCEPT !.port[p].blocked = Append(@, t),
                 !.th[t] = WillWait([@ EXCEPT !.pc = "sendwait", !.obj = p, !.opt = opt],
                                    "send_in_progress")]

Send(t, p, opt) ==
  /\ Called(t) /\ port[p].active /\ SendBound(p)
  /\ Become(SendLoop(State, t, p, opt))
  /\ UNCHANGED psActive

SendResume(t) ==
  LET self == th[t]
      S == [State EXCEPT !.th[t].timer = FALSE]
  IN /\ Resumed(t, "sendwait")
     /\ Become(CASE self.ith_state = "success" -> SendLoop(S, t, self.obj, self.opt)
                 [] self.ith_state # "success" /\ self.wait_result = "interrupted" -> Return(S, t)
                 [] self.ith_state # "success" /\ self.wait_result = "timed_out" ->
                      SendLoop(S, t, self.obj, "zero")
                 [] OTHER -> [S EXCEPT !.th[t].pc = "panic"])
     /\ UNCHANGED psActive

(* thread_go at the end of ipc_mqueue_deliver.                             *)
GoReceiver(t) ==
  /\ th[t].pc = "go"
  /\ Become(Return([State EXCEPT !.th[th[t].obj] = ThreadGo(@)], t))
  /\ UNCHANGED psActive

(* One turn of the loop of ipc_mqueue_receive, with the queue locked.      *)
RcvLoop(S, t, q, opt) ==
  LET kmsg == Head(S.mq[q].messages)
  IN IF S.mq[q].messages # <<>>
       THEN GotMessage([S EXCEPT !.mq[q].messages = Tail(@),
                                 !.port[kmsg.port].seqno = @ + 1], t, kmsg)
     ELSE IF opt = "zero" THEN Return(S, t)
     ELSE [S EXCEPT !.mq[q].threads = Append(@, t),
                    !.th[t] = WillWait([@ EXCEPT !.pc = "rcvwait", !.obj = q, !.opt = opt],
                                       "rcv_in_progress")]

(* ipc_mqueue_copyin and ipc_mqueue_receive.  A port in an active set      *)
(* answers MACH_RCV_IN_SET and changes nothing; one in a dead set is first *)
(* taken out of it.                                                        *)
ReceivePort(t, p, opt) ==
  /\ Called(t) /\ port[p].active /\ port[p].held
  /\ \/ /\ port[p].pset = None
        /\ Become(RcvLoop(State, t, p, opt))
     \/ /\ port[p].pset # None /\ ~psActive[port[p].pset]
        /\ Become(RcvLoop(PsetRemove(State, p), t, p, opt))
  /\ UNCHANGED psActive

ReceivePset(t, s, opt) ==
  /\ Called(t) /\ psActive[s]
  /\ Become(RcvLoop(State, t, s, opt))
  /\ UNCHANGED psActive

RcvResume(t) ==
  LET self == th[t]
      q == self.obj
      S == [State EXCEPT !.th[t].timer = FALSE]
      removed == [S EXCEPT !.mq[q].threads = SelectSeq(@, LAMBDA u : u # t)]
  IN /\ Resumed(t, "rcvwait")
     /\ Become(CASE self.ith_state = "success" -> GotMessage(S, t, self.ith_kmsg)
                 [] self.ith_state \in {"died", "changed"} -> Return(S, t)
                 [] self.ith_state = "rcv_in_progress" /\ self.wait_result = "interrupted" ->
                      Return(removed, t)
                 [] self.ith_state = "rcv_in_progress" /\ self.wait_result = "timed_out" ->
                      RcvLoop(removed, t, q, "zero")
                 [] OTHER -> [removed EXCEPT !.th[t].pc = "panic"])
     /\ UNCHANGED psActive

(* Mutant: the limit is compared with the count before this message.       *)
FinishReceive_StaleCount(t) ==
  LET p == th[t].ith_kmsg.port
      S1 == [State EXCEPT !.port[p].msgcount = @ - 1]
      blocked == port[p].blocked
  IN /\ th[t].pc = "finish" /\ Runs(t)
     /\ Become(Return(
          IF ~port[p].active THEN State
          ELSE IF blocked # <<>> /\ port[p].msgcount < port[p].qlimit
            THEN [Rouse(S1, {Head(blocked)}, "success") EXCEPT !.port[p].blocked = Tail(@)]
            ELSE S1, t))
     /\ UNCHANGED psActive

(* ipc_mqueue_finish_receive: a slot is free, wake one blocked sender.     *)
FinishReceive(t) ==
  LET p == th[t].ith_kmsg.port
      S1 == [State EXCEPT !.port[p].msgcount = @ - 1]
      blocked == port[p].blocked
  IN /\ th[t].pc = "finish" /\ Runs(t)
     /\ Become(Return(
          IF ~port[p].active THEN State
          ELSE IF blocked # <<>> /\ S1.port[p].msgcount < port[p].qlimit
            THEN [Rouse(S1, {Head(blocked)}, "success") EXCEPT !.port[p].blocked = Tail(@)]
            ELSE S1, t))
     /\ UNCHANGED psActive

-----------------------------------------------------------------------------
(* The waits end early: thread_timeout, and clear_wait by thread_abort.    *)
GivesUp(t) ==
  /\ th[t].waiting
  /\ IF th[t].pc = "sendwait" THEN build.sendGivesUp ELSE build.rcvGivesUp

Timeout(t) ==
  /\ GivesUp(t) /\ th[t].timer
  /\ th' = [th EXCEPT ![t] = [@ EXCEPT !.waiting = FALSE, !.wait_result = "timed_out",
                                       !.timer = FALSE]]
  /\ UNCHANGED <<port, psActive, mq>>

Interrupt(t) ==
  /\ GivesUp(t) /\ Runs(t)
  /\ th' = [th EXCEPT ![t] = [@ EXCEPT !.waiting = FALSE, !.wait_result = "interrupted",
                                       !.timer = FALSE]]
  /\ UNCHANGED <<port, psActive, mq>>

-----------------------------------------------------------------------------
(* Calls by the holder of the receive right; Idle keeps them apart from a  *)
(* thread_go on one processor.                                             *)
Idle == build.mp \/ \A u \in Threads : th[u].pc # "go"
Receivable(p) == port[p].active /\ port[p].held /\ Idle

SetQlimit(p, qlimit) == \* ipc_port_set_qlimit
  LET blocked == port[p].blocked
      wakeup == IF qlimit > port[p].qlimit THEN qlimit - port[p].qlimit ELSE 0
      k == IF wakeup < Len(blocked) THEN wakeup ELSE Len(blocked)
  IN /\ Receivable(p) /\ qlimit # port[p].qlimit
     /\ Become([Rouse(State, Range(SubSeq(blocked, 1, k)), "success") EXCEPT
                  !.port[p].blocked = SubSeq(blocked, k + 1, Len(blocked)),
                  !.port[p].qlimit = qlimit])
     /\ UNCHANGED psActive

(* Assign ip_seqno; base remembers how many messages were numbered before. *)
WithSeqno(S, p, seqno) ==
  [S EXCEPT !.port[p].base = @ + S.port[p].seqno - seqno, !.port[p].seqno = seqno]

SetSeqno(p, seqno) ==   \* ipc_port_set_seqno
  /\ Receivable(p)
  /\ Become(WithSeqno(IF port[p].pset # None /\ ~psActive[port[p].pset]
                        THEN PsetRemove(State, p) ELSE State, p, seqno))
  /\ UNCHANGED psActive

ClearReceiver(S, p) ==  \* ipc_port_clear_receiver
  WithSeqno(IF S.port[p].pset # None THEN PsetRemove(S, p) ELSE Changed(S, p, "died"), p, 0)

(* The receive right is copied into a message, and out of it elsewhere.    *)
CopyinReceive(p) ==
  /\ Receivable(p)
  /\ Become([ClearReceiver(State, p) EXCEPT !.port[p].held = FALSE])
  /\ UNCHANGED psActive

CopyoutReceive(p) ==
  /\ port[p].active /\ ~port[p].held /\ Idle
  /\ port' = [port EXCEPT ![p].held = TRUE]
  /\ UNCHANGED <<psActive, mq, th>>

(* ipc_port_destroy up to ip_unlock, after ipc_port_clear_receiver if the  *)
(* right was held in a space; then the queued messages, one at a time.     *)
PortDestroy(p) ==
  LET S == IF port[p].held THEN ClearReceiver(State, p) ELSE State
  IN /\ port[p].active /\ Idle
     /\ Become([Rouse(S, Range(S.port[p].blocked), "success") EXCEPT
                  !.port[p].blocked = <<>>, !.port[p].active = FALSE, !.port[p].held = FALSE])
     /\ UNCHANGED psActive

PortDrain(p) ==
  /\ ~port[p].active /\ mq[p].messages # <<>> /\ Idle
  /\ mq' = [mq EXCEPT ![p].messages = Tail(@)]
  /\ UNCHANGED <<port, psActive, th>>

PsetMove(p, nset) ==    \* ipc_pset_move
  LET oset == port[p].pset
  IN /\ Receivable(p) /\ oset # nset
     /\ nset # None => psActive[nset]
     /\ Become(IF oset = None THEN PsetAdd(State, nset, p)
               ELSE IF nset = None THEN PsetRemove(State, p)
               ELSE PsetAdd(PsetRemove(State, p), nset, p))
     /\ UNCHANGED psActive

PsetDestroy(s) ==       \* ipc_pset_destroy: the members stay until looked at
  /\ psActive[s] /\ Idle
  /\ psActive' = [psActive EXCEPT ![s] = FALSE]
  /\ Become(Changed(State, s, "died"))

SendOpts == {"block", "always", "zero"} \union (IF build.sendGivesUp THEN {"timed"} ELSE {})
RcvOpts == {"block", "zero"} \union (IF build.rcvGivesUp THEN {"timed"} ELSE {})

Step ==
  \/ \E t \in Threads :
       \/ \E p \in Ports, opt \in SendOpts : Send(t, p, opt)
       \/ \E p \in Ports, opt \in RcvOpts : ReceivePort(t, p, opt)
       \/ \E s \in build.psets, opt \in RcvOpts : ReceivePset(t, s, opt)
       \/ SendResume(t) \/ RcvResume(t) \/ GoReceiver(t) \/ FinishReceive(t)
       \/ Timeout(t) \/ Interrupt(t)
  \/ \E p \in Ports :
       \/ \E n \in QLimits : SetQlimit(p, n)
       \/ SetSeqno(p, 0)
       \/ \E s \in build.psets \union {None} : PsetMove(p, s)
       \/ CopyinReceive(p) \/ CopyoutReceive(p) \/ PortDestroy(p) \/ PortDrain(p)
  \/ \E s \in build.psets : PsetDestroy(s)

Next == Step /\ UNCHANGED build

Spec == Init /\ [][Next]_vars

-----------------------------------------------------------------------------
Queued(p) ==            \* the messages to p, wherever they are queued
  {m \in UNION {Range(mq[q].messages) : q \in Ports \union Psets} : m.port = p}
Holders(p) ==           \* threads that have a message to p not yet finished
  {t \in Threads : th[t].ith_kmsg # None /\ th[t].ith_kmsg.port = p}
Home(p) == IF port[p].pset = None THEN p ELSE port[p].pset
Woken(p) == {t \in Senders(p) : th[t].ith_state = "success"}

(* ip_msgcount counts a message from delivery until the receiver is done   *)
(* with it, through hand-offs, port set moves and lost races: the          *)
(* assertion msgcount > 0 in finish_receive never fails.                   *)
MsgcountExact ==
  \A p \in Ports : port[p].active =>
    port[p].msgcount = Cardinality(Queued(p)) + Cardinality(Holders(p))

(* Sequence numbers give the order of sending: the messages to a port that *)
(* are still queued are, in queue order and in one queue, exactly those    *)
(* sent since the one that got the last sequence number, however often the *)
(* port moved between sets; no two receivers have the same message.  The   *)
(* numbers start again from zero when the receive right is in transit, as  *)
(* ipc_port_destroy asserts.                                               *)
SeqnoOrder ==
  /\ \A q \in Ports \union Psets : \A m \in Range(mq[q].messages) : Home(m.port) = q
  /\ \A p \in Ports :
       /\ \A t, u \in Holders(p) : t # u => th[t].ith_kmsg # th[u].ith_kmsg
       /\ port[p].active =>
            LET first == port[p].base + port[p].seqno
            IN  /\ SelectSeq(mq[Home(p)].messages, LAMBDA m : m.port = p)
                     = [i \in 1 .. port[p].sent - first |-> [port |-> p, n |-> first + i - 1]]
                /\ ~port[p].held => port[p].seqno = 0

(* A receiver waits only where a message can still reach it: on an active  *)
(* set, or on the queue of an active port that is in no set and whose      *)
(* right is in a space.  ipc_port_destroy asserts the case of a dead port. *)
ReceiversReachable ==
  \A q \in Ports \union Psets : \A t \in Range(mq[q].threads) :
    /\ th[t].pc = "rcvwait" /\ th[t].obj = q /\ th[t].ith_state = "rcv_in_progress"
    /\ IF q \in Psets THEN psActive[q]
       ELSE port[q].active /\ port[q].held /\ port[q].pset = None
    /\ mq[q].messages = <<>>

(* No sender is forgotten: while senders are blocked on a port, the port   *)
(* is alive and every slot free below the limit is matched by a sender     *)
(* woken to take it; ipc_port_destroy leaves none behind.                  *)
SlotsClaimed ==
  \A p \in Ports : port[p].blocked # <<>> =>
    port[p].active /\ port[p].qlimit - port[p].msgcount <= Cardinality(Woken(p))

(* A thread is in the queue it waits in, once, and in no other (the queues *)
(* of senders and receivers share the links ith_next and ith_prev); and    *)
(* one that is taken off its queue is started: whoever set its ith_state   *)
(* has called thread_go, or is the deliverer about to call it.             *)
LinkedOnce ==
  \A t \in Threads :
    /\ \A p \in Ports : \A i, j \in DOMAIN port[p].blocked :
         port[p].blocked[i] = t => /\ th[t].pc = "sendwait" /\ th[t].obj = p
                                  /\ (port[p].blocked[j] = t => i = j)
    /\ \A q \in Ports \union Psets : \A i, j \in DOMAIN mq[q].threads :
         mq[q].threads[i] = t => /\ th[t].pc = "rcvwait" /\ th[t].obj = q
                                 /\ (mq[q].threads[j] = t => i = j)
    /\ th[t].waiting /\ th[t].ith_state \in {"success", "died", "changed"} =>
         \E u \in Threads : th[u].pc = "go" /\ th[u].obj = t

(* ipc_thread_enqueue_macro asserts of a thread put on an empty queue that *)
(* it is linked to no other thread.                                        *)
EnqueueAssert ==
  [][\A t \in Threads :
       (\/ \E p \in Ports : port[p].blocked = <<>> /\ port'[p].blocked = <<t>>
        \/ \E q \in Ports \union Psets : mq[q].threads = <<>> /\ mq'[q].threads = <<t>>)
       => \A p \in Ports : t \in Range(port[p].blocked) => Len(port[p].blocked) = 1]_vars

(* The switches on wait_result in ipc_mqueue_send and ipc_mqueue_receive   *)
(* panic on anything but an interrupt or a timeout.                        *)
NoPanic == \A t \in Threads : th[t].pc # "panic"
=============================================================================
