-------------------------- MODULE PortTransit_proof -------------------------
(***************************************************************************)
(* Proof that ipc_port_check_circularity keeps the ports in transit free   *)
(* of circles, and that checks never wait for each other in a circle, for  *)
(* any sets of ports and threads.                                          *)
(*                                                                         *)
(* The inductive invariant says what a thread holds at each point of the   *)
(* check: the locked ports are a piece of the chain of destinations, whose *)
(* links nobody else can change.  When a port is linked, a circle through  *)
(* it would need a closed set of ports inside the locked chain, which had  *)
(* to be there before.                                                     *)
(***************************************************************************)
EXTENDS PortTransit, TLAPS

Held(t) == {p \in Ports : lock[p] = t}
Chain(t) == Held(t) \ {th[t].port}

PCs == {"idle", "quick", "try", "serialize", "walk", "loop", "lockport", "link", "circular"}

TypeOK ==
  /\ active \in [Ports -> BOOLEAN]
  /\ named \in [Ports -> BOOLEAN]
  /\ destination \in [Ports -> Ports \union {None}]
  /\ lock \in [Ports -> Threads \union {None}]
  /\ multiple \in Threads \union {None}
  /\ th \in [Threads -> [pc : PCs, port : Ports \union {None}, dest : Ports \union {None},
                         base : Ports \union {None}, backup : BOOLEAN]]

(* The port a thread checks is in limbo and in nobody else's hands.        *)
LimboOwned ==
  \A t \in Threads : th[t].pc # "idle" =>
    /\ th[t].port \in Ports /\ th[t].dest \in Ports /\ th[t].base \in Ports
    /\ active[th[t].port] /\ ~named[th[t].port] /\ destination[th[t].port] = None
    /\ th[t].pc # "circular" => th[t].port # th[t].dest
    /\ th[t].pc \in {"quick", "try", "serialize"} => th[t].base = th[t].dest
    /\ \A u \in Threads : u # t /\ th[u].pc # "idle" => th[u].port # th[t].port

(* ipc_port_multiple_lock is held during the slow check.                   *)
Serialized ==
  \A t \in Threads : th[t].pc \in {"walk", "loop", "lockport"} <=> multiple = t

(* The locks held, by the point the check has reached.                     *)
LocksHeld ==
  \A t \in Threads :
    /\ th[t].pc \in {"idle", "quick", "serialize", "circular"} => Held(t) = {}
    /\ th[t].pc = "try" => Held(t) = {th[t].port}
    /\ th[t].pc \in {"walk", "lockport"} => th[t].port \notin Held(t)
    /\ th[t].pc = "link" => th[t].port \in Held(t)

(* While the chain is walked, the locked ports are in transit, from dest   *)
(* up to, but without, base.                                               *)
Partial(t) ==
  /\ th[t].dest \in Held(t) \union {th[t].base}
  /\ th[t].base \notin Held(t)
  /\ \A c \in Held(t) : InTransit(c) /\ destination[c] \in Held(t) \union {th[t].base}
Walking == \A t \in Threads : th[t].pc = "walk" => Partial(t)

(* Once base is found, the locked chain reaches from dest to base, which   *)
(* is not in transit.                                                      *)
Complete(t) ==
  /\ th[t].dest \in Chain(t) /\ th[t].base \in Chain(t) /\ ~InTransit(th[t].base)
  /\ \A c \in Chain(t) : c # th[t].base => destination[c] \in Chain(t)
Walked == \A t \in Threads : th[t].pc \in {"lockport", "link"} => Complete(t)

IInv == TypeOK /\ LimboOwned /\ Serialized /\ LocksHeld /\ Walking /\ Walked /\ NoCircle

-----------------------------------------------------------------------------
(* A step after which fewer ports are in transit, none to a new            *)
(* destination, makes no circle.                                           *)
Fewer == \A q \in Ports : InTransit(q)' => InTransit(q) /\ destination'[q] = destination[q]

(* A circle afterwards would have been one before.                         *)
LEMMA FewerNoCircle == NoCircle /\ Fewer => NoCircle'
<1> SUFFICES ASSUME NoCircle, Fewer, NEW S \in SUBSET Ports, S # {}
             PROVE  \E p \in S : ~InTransit(p)' \/ destination'[p] \notin S
  BY Zenon DEF NoCircle
<1>1. PICK p \in S : ~InTransit(p) \/ destination[p] \notin S
  BY Zenon DEF NoCircle
<1> QED
  BY <1>1, Zenon DEF Fewer

(* The initial state, in which every port is in a space, is in the         *)
(* invariant.                                                              *)
LEMMA InitInv == Init => IInv
<1> SUFFICES ASSUME Init PROVE IInv
  BY Zenon
<1>1. TypeOK
  BY Zenon DEF Init, TypeOK, Rest, PCs
<1>2. LimboOwned /\ Walking /\ Walked
  BY Zenon DEF Init, LimboOwned, Walking, Walked, Rest
<1>3. Serialized
  BY NoneApart, Zenon DEF Init, Serialized, Rest
<1>4. LocksHeld
  BY NoneApart, Zenon DEF Init, LocksHeld, Rest, Held
<1>5. NoCircle
  BY Zenon DEF Init, NoCircle, InTransit
<1> QED
  BY <1>1, <1>2, <1>3, <1>4, <1>5, Zenon DEF IInv

(* What the steps that put a port in limbo, in a space or out of action do *)
(* to the chains: p is locked by nobody, is not in transit afterwards, and *)
(* no other port changes.                                                  *)
Moved(p) ==
  /\ lock[p] = None /\ ~InTransit(p)'
  /\ lock' = lock /\ multiple' = multiple
  /\ \A q \in Ports \ {p} :
       active'[q] = active[q] /\ named'[q] = named[q] /\ destination'[q] = destination[q]

(* A moved port makes no circle, and the locked ports stay as they are.    *)
LEMMA MovedKeeps ==
  ASSUME TypeOK, NoCircle, NEW p \in Ports, Moved(p)
  PROVE  /\ NoCircle'
         /\ \A q \in Ports : lock[q] # None => (InTransit(q)' <=> InTransit(q))
                                             /\ destination'[q] = destination[q]
<1>1. Fewer
  BY Zenon DEF Fewer, Moved, InTransit
<1>2. \A q \in Ports : lock[q] # None => (InTransit(q)' <=> InTransit(q))
                                       /\ destination'[q] = destination[q]
  BY Zenon DEF Moved, InTransit
<1> QED
  BY <1>1, <1>2, FewerNoCircle, Zenon

(* Such a step keeps the invariant when the threads are left alone, or     *)
(* when one of them starts or ends a check and holds no locks.             *)
LEMMA CheckInv ==
  ASSUME IInv, NEW t \in Threads, NEW p \in Ports, NEW d \in Ports, NEW b \in BOOLEAN,
         th[t].pc \in {"idle", "circular"}, active[p],
         named[p] \/ InTransit(p) \/ (th[t].pc = "circular" /\ p = th[t].port),
         Check(t, p, d, b)
  PROVE  IInv'
<1> USE DEF IInv
<1>0. Moved(p)
  BY Zenon DEF Moved, Check, TypeOK, InTransit
<1>1. TypeOK'
  BY Zenon DEF TypeOK, Check, PCs
<1>2. \A u \in Threads : u # t => th'[u] = th[u]
  BY Zenon DEF TypeOK, Check
<1>3. th'[t].pc \in {"circular", "quick"} /\ th'[t].port = p /\ th'[t].dest = d /\ th'[t].base = d
  BY Zenon DEF TypeOK, Check
<1>4. Held(t) = {} /\ \A u \in Threads : Held(u)' = Held(u)
  BY Zenon DEF LocksHeld, Held, Check
<1>5. LimboOwned'
  BY <1>2, <1>3 DEF TypeOK, LimboOwned, Check, InTransit
<1>6. Serialized'
  BY <1>2, <1>3, Zenon DEF Serialized, Check
<1>7. LocksHeld'
  BY <1>2, <1>3, <1>4, Zenon DEF LocksHeld
<1>8. NoCircle' /\ \A q \in Ports : lock[q] # None =>
         (InTransit(q)' <=> InTransit(q)) /\ destination'[q] = destination[q]
  BY <1>0, MovedKeeps, Zenon
<1>9. Walking'
  BY <1>2, <1>3, <1>4, <1>8, NoneApart DEF Walking, Partial, Held
<1>10. Walked'
  BY <1>2, <1>3, <1>4, <1>8, NoneApart DEF Walked, Complete, Chain, Held
<1> QED
  BY <1>1, <1>5, <1>6, <1>7, <1>8, <1>9, <1>10, Zenon

(* A right in a space or in a message is destroyed or copied out: it is    *)
(* not the port of any check.                                              *)
LEMMA OutsideInv ==
  ASSUME IInv, NEW p \in Ports, Destroy(p) \/ Copyout(p)
  PROVE  IInv'
<1> USE DEF IInv
<1>0. Moved(p) /\ th' = th
  BY Zenon DEF Moved, Destroy, Die, Copyout, TypeOK, InTransit
<1>1. TypeOK'
  BY Zenon DEF TypeOK, Destroy, Die, Copyout
<1>2. active[p] /\ (named[p] \/ destination[p] # None)
  BY Zenon DEF Destroy, Copyout, InTransit
<1>3. \A u \in Threads : Held(u)' = Held(u)
  BY <1>0, Zenon DEF Held, Moved
<1>4. LimboOwned'
  BY <1>0, <1>2 DEF LimboOwned, Moved
<1>5. Serialized'
  BY <1>0, Zenon DEF Serialized, Moved
<1>6. LocksHeld'
  BY <1>0, <1>3, Zenon DEF LocksHeld
<1>7. NoCircle' /\ \A q \in Ports : lock[q] # None =>
         (InTransit(q)' <=> InTransit(q)) /\ destination'[q] = destination[q]
  BY <1>0, MovedKeeps, Zenon
<1>8. Walking'
  BY <1>0, <1>3, <1>7, NoneApart DEF Walking, Partial, Held
<1>9. Walked'
  BY <1>0, <1>3, <1>7, NoneApart DEF Walked, Complete, Chain, Held
<1> QED
  BY <1>1, <1>4, <1>5, <1>6, <1>7, <1>8, <1>9, Zenon

(* The port found circular is destroyed by the thread that checked it,     *)
(* which holds no locks.                                                   *)
LEMMA DestroyCircularInv ==
  ASSUME IInv, NEW t \in Threads, DestroyCircular(t)
  PROVE  IInv'
<1> USE DEF IInv
<1> PICK p \in Ports : p = th[t].port
  BY Zenon DEF DestroyCircular, LimboOwned
<1>0. Moved(p)
  BY Zenon DEF Moved, DestroyCircular, Die, TypeOK, InTransit
<1>1. TypeOK'
  BY <1>0, Zenon DEF TypeOK, DestroyCircular, Die, Rest, PCs
<1>2. (\A u \in Threads : u # t => th'[u] = th[u]) /\ th'[t].pc = "idle"
  BY Zenon DEF TypeOK, DestroyCircular, Rest
<1>3. Held(t) = {} /\ \A u \in Threads : Held(u)' = Held(u)
  BY <1>0, Zenon DEF LocksHeld, Held, Moved, DestroyCircular
<1>4. LimboOwned'
  BY <1>0, <1>2 DEF LimboOwned, Moved, DestroyCircular
<1>5. Serialized'
  BY <1>0, <1>2, Zenon DEF Serialized, Moved, DestroyCircular
<1>6. LocksHeld'
  BY <1>2, <1>3, Zenon DEF LocksHeld
<1>7. NoCircle' /\ \A q \in Ports : lock[q] # None =>
         (InTransit(q)' <=> InTransit(q)) /\ destination'[q] = destination[q]
  BY <1>0, MovedKeeps, Zenon
<1>8. Walking'
  BY <1>2, <1>3, <1>7, NoneApart DEF Walking, Partial, Held
<1>9. Walked'
  BY <1>2, <1>3, <1>7, NoneApart DEF Walked, Complete, Chain, Held
<1> QED
  BY <1>1, <1>4, <1>5, <1>6, <1>7, <1>8, <1>9, Zenon

-----------------------------------------------------------------------------
(* A step of the check of t that changes no port: only the locks and the   *)
(* place of t need looking at, and nobody else's locks change.             *)
Step(t) ==
  /\ UNCHANGED ports
  /\ \A u \in Threads : u # t => th'[u] = th[u] /\ Held(u)' = Held(u)
  /\ th'[t].port = th[t].port /\ th'[t].dest = th[t].dest /\ th'[t].base \in Ports
  /\ th'[t].pc \in {"quick", "try", "serialize"} => th'[t].base = th[t].dest

(* It keeps the invariant if the locks and the chain of t are as its new   *)
(* place demands.                                                          *)
LEMMA StepInv ==
  ASSUME IInv, NEW t \in Threads, Step(t), th[t].pc # "idle",
         th'[t].pc \notin {"idle", "circular"} => th[t].pc # "circular",
         TypeOK', Serialized', LocksHeld',
         th'[t].pc = "walk" => Partial(t)',
         th'[t].pc \in {"lockport", "link"} => Complete(t)'
  PROVE  IInv'
<1> USE DEF IInv
<1>1. NoCircle'
  BY Zenon DEF NoCircle, Step, ports, InTransit
<1>2. LimboOwned'
  BY DEF LimboOwned, Step, ports
<1>3. ASSUME NEW u \in Threads, th'[u].pc = "walk"
      PROVE  Partial(u)'
  <2>1. CASE u # t
    <3>1. Partial(u) /\ Held(u)' = Held(u) /\ th'[u] = th[u]
      BY <1>3, <2>1, Zenon DEF Walking, Step
    <3> QED
      BY <3>1, Zenon DEF Partial, Step, ports, InTransit
  <2> QED
    BY <1>3, <2>1, Zenon
<1>4. ASSUME NEW u \in Threads, th'[u].pc \in {"lockport", "link"}
      PROVE  Complete(u)'
  <2>1. CASE u # t
    <3>1. Complete(u) /\ Chain(u)' = Chain(u) /\ th'[u] = th[u]
      BY <1>4, <2>1, Zenon DEF Walked, Step, Chain
    <3> QED
      BY <3>1, Zenon DEF Complete, Step, ports, InTransit
  <2> QED
    BY <1>4, <2>1, Zenon
<1> QED
  BY <1>1, <1>2, <1>3, <1>4, Zenon DEF Walking, Walked

(* What a change of place leaves alone.                                    *)
LEMMA GotoType ==
  ASSUME TypeOK, NEW t \in Threads, NEW pc \in PCs, Goto(t, pc)
  PROVE  /\ th' \in [Threads -> [pc : PCs, port : Ports \union {None},
                       dest : Ports \union {None}, base : Ports \union {None}, backup : BOOLEAN]]
         /\ th'[t].pc = pc /\ th'[t].port = th[t].port /\ th'[t].dest = th[t].dest
         /\ th'[t].base = th[t].base
         /\ \A u \in Threads : u # t => th'[u] = th[u]
  BY Zenon DEF TypeOK, Goto

(* The quick check locks its port.                                         *)
LEMMA QuickLockInv ==
  ASSUME IInv, NEW t \in Threads, QuickLock(t)
  PROVE  IInv'
<1> USE DEF IInv
<1>0. Goto(t, "try") /\ "try" \in PCs
  BY Zenon DEF QuickLock, PCs
<1>1. th[t].pc = "quick" /\ Held(t) = {} /\ Held(t)' = {th[t].port}
  BY DEF QuickLock, Lock, TypeOK, Held, LocksHeld, LimboOwned
<1>2. Step(t)
  BY <1>0, <1>1, GotoType, NoneApart DEF QuickLock, Lock, TypeOK, Step, Held, LimboOwned
<1>3. TypeOK'
  BY <1>0, GotoType, Zenon DEF QuickLock, Lock, TypeOK, ports
<1>4. Serialized'
  BY <1>0, <1>1, <1>2, GotoType, Zenon DEF QuickLock, Serialized, Step
<1>5. LocksHeld'
  BY <1>0, <1>1, <1>2, GotoType DEF LocksHeld, Step
<1> QED
  BY <1>0, <1>1, <1>2, <1>3, <1>4, <1>5, GotoType, StepInv, Zenon

(* The quick check fails, or dest alone is the complete chain.             *)
LEMMA QuickTryInv ==
  ASSUME IInv, NEW t \in Threads, QuickTry(t)
  PROVE  IInv'
<1> USE DEF IInv
<1>0. PICK pc \in {"link", "serialize"} : Goto(t, pc)
  BY Zenon DEF QuickTry
<1>1. pc \in PCs
  BY Zenon DEF PCs
<1>2. th[t].pc = "try" /\ Held(t) = {th[t].port} /\ th[t].base = th[t].dest
  BY Zenon DEF QuickTry, LocksHeld, LimboOwned
<1>3. CASE pc = "serialize"
  <2>1. UnlockAll(t) /\ multiple' = multiple /\ UNCHANGED ports
    BY <1>0, <1>1, <1>3, GotoType DEF QuickTry, Goto, TypeOK
  <2>2. Held(t)' = {} /\ \A u \in Threads : u # t => Held(u)' = Held(u)
    BY <2>1, NoneApart DEF UnlockAll, Held
  <2>3. Step(t)
    BY <1>0, <1>1, <1>2, <2>1, <2>2, GotoType, Zenon DEF Step, LimboOwned
  <2>4. TypeOK'
    BY <1>0, <1>1, <2>1, GotoType, Zenon DEF UnlockAll, TypeOK, ports
  <2>5. Serialized'
    BY <1>0, <1>1, <1>2, <1>3, <2>1, GotoType, Zenon DEF Serialized
  <2>6. LocksHeld'
    BY <1>0, <1>1, <1>2, <1>3, <2>2, GotoType DEF LocksHeld
  <2> QED
    BY <1>0, <1>1, <1>2, <1>3, <2>3, <2>4, <2>5, <2>6, GotoType, StepInv, Zenon
<1>4. CASE pc = "link"
  <2>1. /\ ~InTransit(th[t].dest) /\ Lock(t, th[t].dest)
        /\ multiple' = multiple /\ UNCHANGED ports
    BY <1>0, <1>1, <1>4, GotoType DEF QuickTry, Goto, TypeOK
  <2>2. /\ Held(t)' = {th[t].port, th[t].dest}
        /\ \A u \in Threads : u # t => Held(u)' = Held(u)
    BY <1>2, <2>1, NoneApart DEF Lock, Held, TypeOK, LimboOwned
  <2>3. Step(t)
    BY <1>0, <1>1, <1>2, <1>4, <2>1, <2>2, GotoType DEF Step, LimboOwned
  <2>4. TypeOK'
    BY <1>0, <1>1, <2>1, GotoType, Zenon DEF Lock, TypeOK, ports
  <2>5. Serialized'
    BY <1>0, <1>1, <1>2, <1>4, <2>1, GotoType, Zenon DEF Serialized
  <2>6. LocksHeld'
    BY <1>0, <1>1, <1>2, <1>4, <2>2, GotoType DEF LocksHeld
  <2>7. Chain(t)' = {th[t].dest} /\ ~InTransit(th[t].dest)' /\ th'[t].base = th[t].dest
    BY <1>0, <1>1, <1>2, <2>1, <2>2, GotoType DEF Chain, LimboOwned, InTransit, ports
  <2>8. Complete(t)'
    BY <1>0, <1>1, <2>7, GotoType, Zenon DEF Complete
  <2> QED
    BY <1>0, <1>1, <1>2, <1>4, <2>3, <2>4, <2>5, <2>6, <2>8, GotoType, StepInv, Zenon
<1> QED
  BY <1>3, <1>4, Zenon

(* The slow check starts with no port locked.                              *)
LEMMA SerializeInv ==
  ASSUME IInv, NEW t \in Threads, Serialize(t)
  PROVE  IInv'
<1> USE DEF IInv
<1>0. Goto(t, "walk") /\ "walk" \in PCs
  BY Zenon DEF Serialize, PCs
<1>1. th[t].pc = "serialize" /\ Held(t) = {} /\ th[t].base = th[t].dest
  BY Zenon DEF Serialize, LocksHeld, LimboOwned
<1>2. \A u \in Threads : Held(u)' = Held(u)
  BY Zenon DEF Serialize, Held
<1>3. Step(t)
  BY <1>0, <1>1, <1>2, GotoType DEF Serialize, Step, LimboOwned
<1>4. TypeOK'
  BY <1>0, GotoType, Zenon DEF Serialize, TypeOK, ports
<1>5. Serialized'
  BY <1>0, <1>1, GotoType, NoneApart DEF Serialize, Serialized
<1>6. LocksHeld'
  BY <1>0, <1>1, <1>2, GotoType DEF LocksHeld
<1>7. Partial(t)'
  BY <1>0, <1>1, <1>2, GotoType, Zenon DEF Partial
<1> QED
  BY <1>0, <1>1, <1>3, <1>4, <1>5, <1>6, <1>7, GotoType, StepInv, Zenon

(* The step along the chain: the next base is not locked by t, because the *)
(* locked ports would otherwise be a circle already.                       *)
LEMMA WalkInv ==
  ASSUME IInv, NEW t \in Threads, Walk(t)
  PROVE  IInv'
<1> USE DEF IInv
<1> PICK base \in Ports : base = th[t].base
  BY Zenon DEF Walk, LimboOwned
<1>1. th[t].pc = "walk" /\ Partial(t) /\ base \notin Held(t) /\ th[t].port \notin Held(t)
  BY Zenon DEF Walk, Walking, Partial, LocksHeld
<1>2. /\ Held(t)' = Held(t) \union {base} /\ lock[base] = None
      /\ \A u \in Threads : u # t => Held(u)' = Held(u)
  BY NoneApart DEF Walk, Lock, Held, TypeOK
<1>3. multiple' = multiple /\ UNCHANGED ports /\ lock' \in [Ports -> Threads \union {None}]
  BY Zenon DEF Walk, Lock, TypeOK
<1>4. CASE InTransit(base)
  <2>1. th' = [th EXCEPT ![t].base = destination[base]] /\ destination[base] \in Ports
    BY <1>4, Zenon DEF Walk, InTransit, TypeOK
  <2>2. /\ th'[t].pc = "walk" /\ th'[t].port = th[t].port /\ th'[t].dest = th[t].dest
        /\ th'[t].base = destination[base] /\ \A u \in Threads : u # t => th'[u] = th[u]
    BY <1>1, <2>1, Zenon DEF TypeOK
  <2>3. Step(t)
    BY <1>1, <1>2, <1>3, <2>1, <2>2, Zenon DEF Step
  <2>4. TypeOK'
    BY <1>3, <2>1 DEF TypeOK, ports
  <2>5. Serialized'
    BY <1>1, <1>3, <2>2, Zenon DEF Serialized
  <2>6. th[t].port # base
    BY <1>1, <1>4, Zenon DEF LimboOwned, InTransit
  <2>7. LocksHeld'
    BY <1>1, <1>2, <2>2, <2>6, Zenon DEF LocksHeld
  <2>8. destination[base] \notin Held(t) \union {base}
    <3> DEFINE S == Held(t) \union {base}
    <3>1. S \in SUBSET Ports /\ S # {}
      BY Zenon DEF Held
    <3>2. PICK p \in S : ~InTransit(p) \/ destination[p] \notin S
      BY <3>1, Zenon DEF NoCircle
    <3> QED
      BY <1>1, <1>4, <3>2, Zenon DEF Partial
  <2>9. Partial(t)'
    <3>1. \A c \in Held(t) \union {base} :
             InTransit(c) /\ destination[c] \in Held(t) \union {base, destination[base]}
      BY <1>1, <1>4, Zenon DEF Partial
    <3>2. \A c \in Held(t)' :
             InTransit(c)' /\ destination'[c] \in Held(t)' \union {th'[t].base}
      BY <1>2, <1>3, <2>2, <3>1, Zenon DEF InTransit, ports
    <3> QED
      BY <1>1, <1>2, <2>2, <2>8, <3>2, Zenon DEF Partial
  <2> QED
    BY <1>1, <2>2, <2>3, <2>4, <2>5, <2>7, <2>9, StepInv, Zenon
<1>5. CASE ~InTransit(base)
  <2>1. PICK pc \in {"loop", "lockport"} :
          Goto(t, pc) /\ (pc = "lockport" <=> base # th[t].port)
    BY <1>5, Zenon DEF Walk
  <2>2. pc \in PCs
    BY Zenon DEF PCs
  <2>3. Step(t)
    BY <1>1, <1>2, <1>3, <2>1, <2>2, GotoType DEF Step, LimboOwned
  <2>4. TypeOK'
    BY <1>3, <2>1, <2>2, GotoType, Zenon DEF TypeOK, ports
  <2>5. Serialized'
    BY <1>1, <1>3, <2>1, <2>2, GotoType DEF Serialized
  <2>6. LocksHeld'
    BY <1>1, <1>2, <2>1, <2>2, GotoType DEF LocksHeld
  <2>7. ASSUME pc = "lockport" PROVE Complete(t)'
    <3>1. Chain(t)' = Held(t) \union {base} /\ th'[t].base = base /\ th'[t].dest = th[t].dest
      BY <1>1, <1>2, <2>1, <2>2, <2>7, GotoType DEF Chain
    <3>2. ~InTransit(base)' /\ destination' = destination
      BY <1>3, <1>5, Zenon DEF InTransit, ports
    <3> QED
      BY <1>1, <3>1, <3>2, Zenon DEF Partial, Complete
  <2> QED
    BY <1>1, <2>1, <2>2, <2>3, <2>4, <2>5, <2>6, <2>7, GotoType, StepInv, Zenon
<1> QED
  BY <1>4, <1>5, Zenon

(* A circle was found: every lock is released and nothing is linked.       *)
LEMMA LoopInv ==
  ASSUME IInv, NEW t \in Threads, Loop(t)
  PROVE  IInv'
<1> USE DEF IInv
<1>0. Goto(t, "circular") /\ "circular" \in PCs
  BY Zenon DEF Loop, PCs
<1>1. th[t].pc = "loop" /\ multiple = t
  BY Zenon DEF Loop, Serialized
<1>2. Held(t)' = {} /\ \A u \in Threads : u # t => Held(u)' = Held(u)
  BY NoneApart DEF Loop, UnlockAll, Held
<1>3. Step(t)
  BY <1>0, <1>1, <1>2, GotoType DEF Loop, Step, LimboOwned
<1>4. TypeOK'
  BY <1>0, GotoType, Zenon DEF Loop, UnlockAll, TypeOK, ports
<1>5. Serialized'
  BY <1>0, <1>1, GotoType, NoneApart DEF Loop, Serialized
<1>6. LocksHeld'
  BY <1>0, <1>1, <1>2, GotoType DEF LocksHeld
<1> QED
  BY <1>0, <1>1, <1>3, <1>4, <1>5, <1>6, GotoType, StepInv, Zenon

(* Locking port leaves the chain complete.                                 *)
LEMMA LockPortInv ==
  ASSUME IInv, NEW t \in Threads, LockPort(t)
  PROVE  IInv'
<1> USE DEF IInv
<1>0. Goto(t, "link") /\ "link" \in PCs
  BY Zenon DEF LockPort, PCs
<1>1. th[t].pc = "lockport" /\ multiple = t /\ Complete(t)
      /\ th[t].port \notin Held(t) /\ th[t].port \in Ports
  BY Zenon DEF LockPort, Serialized, Walked, LocksHeld, LimboOwned
<1>2. /\ Held(t)' = Held(t) \union {th[t].port}
      /\ \A u \in Threads : u # t => Held(u)' = Held(u)
  BY <1>1, NoneApart DEF LockPort, Lock, Held, TypeOK
<1>3. Step(t)
  BY <1>0, <1>1, <1>2, GotoType DEF LockPort, Step, LimboOwned
<1>4. TypeOK'
  BY <1>0, GotoType, Zenon DEF LockPort, Lock, TypeOK, ports
<1>5. Serialized'
  BY <1>0, <1>1, GotoType, NoneApart, ZenonT(30) DEF LockPort, Serialized
<1>6. LocksHeld'
  BY <1>0, <1>1, <1>2, GotoType DEF LocksHeld
<1>7. Chain(t)' = Chain(t)
  BY <1>0, <1>1, <1>2, GotoType, Zenon DEF Chain
<1>8. Complete(t)'
  BY <1>0, <1>1, <1>7, GotoType, Zenon DEF LockPort, Complete, ports, InTransit
<1> QED
  BY <1>0, <1>1, <1>3, <1>4, <1>5, <1>6, <1>8, GotoType, StepInv, Zenon

(* Linking makes no circle: a closed set of ports in transit that holds    *)
(* the new link would hold dest, and with it a closed part of the locked   *)
(* chain, of which port is no member.                                      *)
LEMMA LinkNoCircle ==
  ASSUME IInv, NEW t \in Threads, Link(t)
  PROVE  NoCircle'
<1> USE DEF IInv
<1> PICK port \in Ports, dest \in Ports, base \in Ports :
         port = th[t].port /\ dest = th[t].dest /\ base = th[t].base
  BY Zenon DEF Link, LimboOwned
<1> DEFINE C == Chain(t)
<1>1. /\ dest \in C /\ base \in C /\ ~InTransit(base) /\ port \notin C
      /\ \A c \in C : c # base => destination[c] \in C
  BY Zenon DEF Link, Walked, Complete, Chain
<1>2. destination' = [destination EXCEPT ![port] = dest] /\ active' = active /\ named' = named
  BY Zenon DEF Link
<1> SUFFICES ASSUME NEW S \in SUBSET Ports, S # {},
                    \A p \in S : InTransit(p)' /\ destination'[p] \in S
             PROVE  FALSE
  BY Zenon DEF NoCircle
<1>3. \A p \in Ports \ {port} : destination'[p] = destination[p] /\ (InTransit(p)' <=> InTransit(p))
  BY <1>2, Zenon DEF InTransit, TypeOK
<1>4. CASE port \notin S
  BY <1>3, <1>4, Zenon DEF NoCircle
<1>5. CASE port \in S
  <2>1. dest \in S
    BY <1>2, <1>5, Zenon DEF TypeOK
  <2>2. base \notin S
    BY <1>1, <1>3, Zenon
  <2>3. \A p \in S \intersect C : InTransit(p) /\ destination[p] \in S \intersect C
    BY <1>1, <1>3, <2>2, Zenon
  <2>4. S \intersect C \in SUBSET Ports /\ S \intersect C # {}
    BY <1>1, <2>1, Zenon
  <2> QED
    BY <2>3, <2>4, Zenon DEF NoCircle
<1> QED
  BY <1>4, <1>5, Zenon

(* Linking port changes no port that another thread has locked.            *)
LEMMA LinkInv ==
  ASSUME IInv, NEW t \in Threads, Link(t)
  PROVE  IInv'
<1> USE DEF IInv
<1> PICK port \in Ports : port = th[t].port
  BY Zenon DEF Link, LimboOwned
<1>1. th[t].pc = "link" /\ port \in Held(t)
  BY Zenon DEF Link, LocksHeld
<1>2. th'[t].pc = "idle" /\ \A u \in Threads : u # t => th'[u] = th[u]
  BY Zenon DEF Link, TypeOK, Rest
<1>3. Held(t)' = {} /\ \A u \in Threads : u # t => Held(u)' = Held(u)
  BY NoneApart DEF Link, UnlockAll, Held
<1>4. \A q \in Ports \ {port} : destination'[q] = destination[q] /\ (InTransit(q)' <=> InTransit(q))
  BY Zenon DEF Link, TypeOK, InTransit
<1>5. \A u \in Threads : u # t => port \notin Held(u)
  BY <1>1, Zenon DEF Held
<1>6. TypeOK'
  BY Zenon DEF Link, UnlockAll, TypeOK, LimboOwned, Rest, PCs
<1>7. LimboOwned'
  BY <1>1, <1>2, <1>4 DEF LimboOwned, Link
<1>8. Serialized'
  BY <1>1, <1>2, Zenon DEF Serialized, Link
<1>9. LocksHeld'
  BY <1>2, <1>3, Zenon DEF LocksHeld
<1>10. Walking'
  <2> SUFFICES ASSUME NEW u \in Threads, th'[u].pc = "walk" PROVE Partial(u)'
    BY Zenon DEF Walking
  <2>1. u # t /\ Partial(u) /\ Held(u)' = Held(u) /\ th'[u] = th[u]
    BY <1>2, <1>3, Zenon DEF Walking
  <2>2. \A c \in Held(u) : c \in Ports \ {port}
    BY <1>5, <2>1, Zenon DEF Held
  <2> QED
    BY <1>4, <2>1, <2>2, Zenon DEF Partial
<1>11. Walked'
  <2> SUFFICES ASSUME NEW u \in Threads, th'[u].pc \in {"lockport", "link"} PROVE Complete(u)'
    BY Zenon DEF Walked
  <2>1. u # t /\ Complete(u) /\ Chain(u)' = Chain(u) /\ th'[u] = th[u]
    BY <1>2, <1>3, Zenon DEF Walked, Chain
  <2>2. \A c \in Chain(u) : c \in Ports \ {port}
    BY <1>5, <2>1, Zenon DEF Held, Chain
  <2> QED
    BY <1>4, <2>1, <2>2 DEF Complete
<1> QED
  BY <1>6, <1>7, <1>8, <1>9, <1>10, <1>11, LinkNoCircle, Zenon

-----------------------------------------------------------------------------
(* Every step keeps the invariant.                                         *)
LEMMA NextInv == IInv /\ [Next]_vars => IInv'
<1> SUFFICES ASSUME IInv, [Next]_vars PROVE IInv'
  BY Zenon
<1>1. ASSUME NEW t \in Threads, NEW p \in Ports, NEW d \in Ports, Copyin(t, p, d)
      PROVE  IInv'
  BY <1>1, CheckInv, Zenon DEF Copyin
<1>2. ASSUME NEW t \in Threads, NEW p \in Ports, NEW d \in Ports, Backup(t, p, d)
      PROVE  IInv'
  BY <1>2, CheckInv, Zenon DEF Backup
<1>3. ASSUME NEW t \in Threads, NEW d \in Ports, BackupCircular(t, d)
      PROVE  IInv'
  <2>1. th[t].pc = "circular" /\ th[t].port \in Ports /\ active[th[t].port]
    BY <1>3, Zenon DEF BackupCircular, IInv, LimboOwned
  <2> QED
    BY <1>3, <2>1, CheckInv, Zenon DEF BackupCircular
<1>4. CASE UNCHANGED vars
  <2>1. NoCircle'
    BY <1>4, Zenon DEF IInv, NoCircle, InTransit, vars
  <2>2. \A u \in Threads : Held(u)' = Held(u)
    BY <1>4, Zenon DEF vars, Held
  <2>3. (TypeOK /\ LimboOwned /\ Serialized)'
    BY <1>4, Zenon DEF vars, IInv, TypeOK, LimboOwned, Serialized
  <2>4. LocksHeld'
    BY <1>4, <2>2, Zenon DEF vars, IInv, LocksHeld
  <2>5. Walking' /\ Walked'
    BY <1>4, <2>2 DEF vars, IInv, Walking, Partial, Walked, Complete, Chain, InTransit
  <2> QED
    BY <2>1, <2>3, <2>4, <2>5, Zenon DEF IInv
<1> QED
  BY <1>1, <1>2, <1>3, <1>4, DestroyCircularInv, QuickLockInv, QuickTryInv, SerializeInv,
     WalkInv, LoopInv, LockPortInv, LinkInv, OutsideInv DEF Next

(* A thread that waits for a lock of the chain waits for one that does not *)
(* wait: a quick check or one about to link.                               *)
LEMMA InvNoDeadlock == IInv => NoDeadlock
<1> SUFFICES ASSUME IInv, NEW t \in Threads, th[t].pc # "idle",
                    \A u \in Threads : th[u].pc # "idle" => Blocked(u)
             PROVE  FALSE
  BY Zenon DEF NoDeadlock
<1> USE DEF IInv
<1>1. \A u \in Threads, p \in Ports : lock[p] = u => th[u].pc \in {"walk", "lockport"}
  <2> SUFFICES ASSUME NEW u \in Threads, NEW p \in Ports, lock[p] = u
               PROVE  th[u].pc \in {"walk", "lockport"}
    BY Zenon
  <2>1. p \in Held(u)
    BY Zenon DEF Held
  <2>2. th[u].pc \in {"try", "walk", "loop", "lockport", "link"}
    BY <2>1, Zenon DEF LocksHeld, TypeOK, PCs
  <2> QED
    BY <2>2, Zenon DEF Blocked
<1>2. \A u \in Threads : multiple = u => th[u].pc \in {"walk", "lockport"}
  BY Zenon DEF Serialized, Blocked
<1>3. PICK u \in Threads : th[u].pc \in {"walk", "lockport"}
  <2>1. \/ multiple \in Threads
        \/ \E p \in Ports : lock[p] \in Threads
    BY Zenon DEF Blocked, TypeOK, LimboOwned
  <2> QED
    BY <1>1, <1>2, <2>1, Zenon
<1>4. multiple = u /\ Blocked(u)
  BY <1>3, Zenon DEF Serialized
<1>5. PICK p \in Ports : lock[p] # None /\ p \notin Held(u)
  BY <1>3, <1>4, Zenon DEF Blocked, LimboOwned, LocksHeld, Walking, Partial
<1>6. lock[p] \in Threads /\ lock[p] # u
  BY <1>5, Zenon DEF TypeOK, Held
<1>7. multiple = lock[p]
  BY <1>1, <1>6, Zenon DEF Serialized
<1> QED
  BY <1>4, <1>6, <1>7, Zenon

(* The inductive invariant holds throughout: a check owns the port it has  *)
(* put in limbo, and the ports it has locked are a piece of a chain of     *)
(* destinations.                                                           *)
THEOREM Invariance == Spec => []IInv
  BY InitInv, NextInv, PTL DEF Spec

(* For any sets of ports and threads, the ports in transit form no circle, *)
(* although ipc_port_check_circularity locks them one at a time while      *)
(* other threads send, receive and destroy them.                           *)
THEOREM NeverCircular == Spec => []NoCircle
<1>1. IInv => NoCircle
  BY Zenon DEF IInv
<1> QED
  BY Invariance, <1>1, PTL

(* For any sets of ports and threads, some check of those in progress can  *)
(* always take its next lock.                                              *)
THEOREM NeverDeadlocked == Spec => []NoDeadlock
  BY Invariance, InvNoDeadlock, PTL
=============================================================================
