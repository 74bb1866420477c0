--------------------------- MODULE SyncLock_proof ---------------------------
(***************************************************************************)
(* Proofs about lock sets, for any number of threads and ulocks, on one    *)
(* processor without preemption.                                           *)
(***************************************************************************)
EXTENDS SyncLock, Queues_proof

-----------------------------------------------------------------------------
(* The inductive invariant.                                                *)
Types == /\ mp \in BOOLEAN /\ active \in BOOLEAN /\ stray \in BOOLEAN
         /\ held \in SUBSET Ulocks /\ handoff \in SUBSET Ulocks
         /\ ul \in [Ulocks -> Ulock] /\ th \in [Threads -> Thread]

(* What the fields of one thread say about each other.                     *)
Shape(x) == /\ (x.pc = "wake") = (x.target # None)
            /\ x.pc = "terminate" => x.victim # None
            /\ x.waiting => x.pc \in {"acquire", "handoff"}

(* One thread at a time is between two calls.                              *)
Alone == \A t, o \in Threads : th[t].pc \in Between /\ th[o].pc \in Between => t = o

(* A thread that waits, or is about to, and is not being woken, is where   *)
(* the thread that will wake it looks.  So is one that was aborted and has *)
(* yet to take itself off.                                                 *)
Entering(x) == x.pc \in {"enqueued", "acquire"}
Handing(x) == x.pc \in {"offered", "handoff"}
Expected(t) ==
  ~BeingWoken(t) =>
    /\ Entering(th[t]) /\ (th[t].waiting \/ th[t].pc = "enqueued") => th[t].linked
    /\ Handing(th[t]) /\ (th[t].waiting \/ th[t].linked \/ th[t].pc = "offered") =>
         active /\ ul[th[t].u].ho_thread = t

Member(t, u) == Acquiring(t, u) /\ th[t].linked /\ ~BeingWoken(t)
QueueExact(u) == /\ Range(ul[u].blocked) = {t \in Threads : Member(t, u)}
                 /\ IsInjective(ul[u].blocked) /\ ul[u].count = Len(ul[u].blocked)

Known == /\ \A t \in Threads : Expected(t) /\ th[t].pc # "crash"
         /\ \A u \in Ulocks : QueueExact(u)

(* A ulock that gets its ho_thread has none yet, and the set is there.     *)
Offers == \A t \in Threads : th[t].pc = "offering" => active /\ ul[th[t].u].ho_thread = None

IInv == /\ ~mp /\ Types /\ OwnershipAgrees /\ HandoffPaired /\ Alone /\ Offers
        /\ \A t \in Threads : Shape(th[t])
        /\ ~stray => Known

-----------------------------------------------------------------------------
(* Nobody is being woken.                                                  *)
Quiet == \A t \in Threads : ~BeingWoken(t)

(* A thread that runs on the only processor, and is not about to wake      *)
(* another, knows that nobody is being woken.                              *)
LEMMA NoWaker ==
  ASSUME IInv, NEW t \in Threads, th[t].pc # "wake",
         \A o \in Threads \ {t} : th[o].pc \notin Between
  PROVE  Quiet
<1>1. \A o \in Threads : th[o].pc # "wake"
  BY Zenon DEF Between
<1>2. \A o \in Threads : th[o].target = None
  BY <1>1, Zenon DEF IInv, Shape
<1>3. None \notin Threads
  BY LockConstants, Zenon
<1> QED
  BY <1>2, <1>3, Zenon DEF Quiet, BeingWoken

(* A thread between two calls is the only one.                             *)
LEMMA OnlyOne ==
  ASSUME IInv, NEW t \in Threads, th[t].pc \in Between \/ Runs(t)
  PROVE  \A o \in Threads \ {t} : th[o].pc \notin Between
<1>1. CASE th[t].pc \in Between
  BY <1>1, Zenon DEF IInv, Alone
<1>2. CASE Runs(t)
  BY <1>2, Zenon DEF Runs, IInv
<1> QED
  BY <1>1, <1>2, Zenon

(* Who offers a hand-off before and after a step of that thread.           *)
LEMMA LoneOffer ==
  ASSUME Types, NEW t \in Threads, NEW u \in Ulocks, NEW s \in Thread, th' = [th EXCEPT ![t] = s],
         \A o \in Threads \ {t} : th[o].pc \notin Between,
         th[t].pc = "offering" => th[t].u = u, s.pc = "offering" => s.u = u
  PROVE  /\ Unlocked(u) <=> th[t].pc # "offering"
         /\ Unlocked(u)' <=> s.pc # "offering"
         /\ \A v \in Ulocks \ {u} : Unlocked(v) /\ Unlocked(v)'
<1>1. th'[t] = s /\ \A o \in Threads \ {t} : th'[o] = th[o] /\ th[o].pc # "offering"
  BY Zenon DEF Types, Between
<1>2. \A v \in Ulocks, o \in Threads : Offering(o, v) <=> o = t /\ v = u /\ th[t].pc = "offering"
  BY <1>1, Zenon DEF Offering
<1>3. \A v \in Ulocks, o \in Threads : Offering(o, v)' <=> o = t /\ v = u /\ s.pc = "offering"
  BY <1>1, Zenon DEF Offering
<1> QED
  BY <1>2, <1>3, Zenon DEF Unlocked

(* What a ulock says about its owner.                                      *)
Owned(y, isHeld) == /\ isHeld = (y.owner # None)
                    /\ active => isHeld = (y.state = "held")
                    /\ y.blocked # <<>> => isHeld
                    /\ ~active => y.owner = None

HandsTo(x, u) == Handing(x) /\ x.u = u

(* What keeps the hand-offs in pairs when t and u change.                  *)
Pairs(t, u, s, y) ==
  /\ y.ho_thread # None => \/ y.ho_thread = t /\ Handing(s) /\ s.u = u
                           \/ y.ho_thread = ul[u].ho_thread /\ y.ho_thread # t
  /\ Handing(th[t]) /\ th[t].u # u => Handing(s) /\ s.u = th[t].u

(* The invariant after a step that changes one thread and one ulock.       *)
LEMMA OneStep ==
  ASSUME IInv, mp' = mp, active' = active, NEW t \in Threads, NEW u \in Ulocks,
         NEW s \in Thread, NEW y \in Ulock,
         th' = [th EXCEPT ![t] = s], ul' = [ul EXCEPT ![u] = y],
         held' \in SUBSET Ulocks, handoff' \in SUBSET Ulocks, stray' \in BOOLEAN, stray => stray',
         \A v \in Ulocks \ {u} : v \in held' <=> v \in held,
         \A v \in Ulocks \ {u} : v \in handoff' <=> v \in handoff,
         Shape(s), Owned(y, u \in held'),
         active => (u \in handoff' <=> y.ho_thread # None \/ s.pc = "offering"),
         active /\ ~stray' => Pairs(t, u, s, y),
         \A o \in Threads \ {t} : th[o].pc \notin Between,
         th[t].pc = "offering" => th[t].u = u,
         s.pc = "offering" => s.u = u /\ active /\ y.ho_thread = None,
         ~stray' => Known'
  PROVE  IInv'
<1>1. Types /\ OwnershipAgrees /\ HandoffPaired
  BY Zenon DEF IInv
<1>2. /\ th' \in [Threads -> Thread] /\ th'[t] = s /\ \A o \in Threads \ {t} : th'[o] = th[o]
      /\ ul' \in [Ulocks -> Ulock] /\ ul'[u] = y /\ \A v \in Ulocks \ {u} : ul'[v] = ul[v]
  BY <1>1, Zenon DEF Types
<1>3. Types'
  BY <1>1, <1>2, Zenon DEF Types
<1>4. OwnershipAgrees'
  <2>1. ASSUME NEW v \in Ulocks
        PROVE  /\ (v \in held') = (ul'[v].owner # None)
               /\ active' => (v \in held') = (ul'[v].state = "held")
               /\ ul'[v].blocked # <<>> => v \in held'
               /\ ~active' => ul'[v].owner = None
    <3>1. CASE v = u
      BY <1>2, <3>1, Zenon DEF Owned
    <3>2. CASE v # u
      <4>1. ul'[v] = ul[v] /\ (v \in held') = (v \in held)
        BY <1>2, <3>2
      <4> QED
        BY <1>1, <4>1, Zenon DEF OwnershipAgrees
    <3> QED
      BY <3>1, <3>2, Zenon
  <2> QED
    BY <2>1, Zenon DEF OwnershipAgrees
<1>5. HandoffPaired'
  <2>1. ASSUME active, NEW v \in Ulocks
        PROVE  /\ v \in handoff' <=> ul'[v].ho_thread # None \/ ~Unlocked(v)'
               /\ ul'[v].ho_thread # None /\ ~stray' => HandsTo(th'[ul'[v].ho_thread], v)
    <3>1. /\ v \in handoff <=> ul[v].ho_thread # None \/ ~Unlocked(v)
          /\ ul[v].ho_thread # None /\ ~stray => HandsTo(th[ul[v].ho_thread], v)
      BY <1>1, <2>1, Zenon DEF HandoffPaired, HandingOff, HandsTo, Handing
    <3>2. CASE v = u
      <4>1. ul'[v] = y
        BY <1>2, <3>2, Zenon
      <4>2. v \in handoff' <=> ul'[v].ho_thread # None \/ ~Unlocked(v)'
        <5>1. Unlocked(u)' <=> s.pc # "offering"
          BY <1>1, LoneOffer, Zenon
        <5> QED
          BY <2>1, <3>2, <4>1, <5>1, Zenon
      <4>3. ASSUME y.ho_thread # None, ~stray' PROVE HandsTo(th'[y.ho_thread], v)
        <5>1. y.ho_thread \in Threads
          BY <4>3, Zenon DEF Ulock
        <5>2. CASE y.ho_thread = t /\ Handing(s) /\ s.u = u
          BY <1>2, <3>2, <5>2, Zenon DEF HandsTo
        <5>3. CASE y.ho_thread = ul[u].ho_thread /\ y.ho_thread # t
          <6>1. th'[y.ho_thread] = th[y.ho_thread]
            BY <1>2, <5>1, <5>3, Zenon
          <6>2. HandsTo(th[y.ho_thread], v)
            BY <3>1, <3>2, <4>3, <5>3, Zenon
          <6> QED
            BY <6>1, <6>2, Zenon
        <5> QED
          BY <2>1, <4>3, <5>2, <5>3, Zenon DEF Pairs
      <4> QED
        BY <4>1, <4>2, <4>3, Zenon
    <3>3. CASE v # u
      <4>1. ul'[v] = ul[v] /\ (v \in handoff' <=> v \in handoff)
        BY <1>2, <3>3, Zenon
      <4>2. ASSUME ul[v].ho_thread # None, ~stray' PROVE HandsTo(th'[ul[v].ho_thread], v)
        <5>1. ul[v].ho_thread \in Threads
          BY <1>1, <4>2, Zenon DEF Types, Ulock
        <5>2. HandsTo(th[ul[v].ho_thread], v)
          BY <3>1, <4>2, Zenon
        <5>3. CASE ul[v].ho_thread = t
          <6>1. Handing(th[t]) /\ th[t].u = v
            BY <5>2, <5>3, Zenon DEF HandsTo
          <6>2. Handing(s) /\ s.u = v
            BY <2>1, <3>3, <4>2, <6>1, Zenon DEF Pairs
          <6> QED
            BY <1>2, <5>3, <6>2, Zenon DEF HandsTo
        <5>4. CASE ul[v].ho_thread # t
          <6>1. th'[ul[v].ho_thread] = th[ul[v].ho_thread]
            BY <1>2, <5>1, <5>4, Zenon
          <6> QED
            BY <5>2, <6>1, Zenon
        <5> QED
          BY <5>3, <5>4, Zenon
      <4>3. Unlocked(v) /\ Unlocked(v)'
        <5>1. v \in Ulocks \ {u}
          BY <3>3, Zenon
        <5> QED
          BY <1>1, <5>1, LoneOffer, Zenon
      <4> QED
        BY <3>1, <4>1, <4>2, <4>3, Zenon
    <3> QED
      BY <3>2, <3>3, Zenon
  <2>2. active => \A v \in Ulocks : (v \in handoff') = (ul'[v].ho_thread # None \/ ~Unlocked(v)')
    BY <2>1
  <2> QED
    BY <2>1, <2>2, Zenon DEF HandoffPaired, HandingOff, HandsTo, Handing
<1>6. \A o \in Threads : Shape(th'[o])
  <2>1. \A o \in Threads : Shape(th[o])
    BY Zenon DEF IInv
  <2> QED
    BY <1>2, <2>1, Zenon
<1>7. \A o \in Threads \ {t} : th'[o].pc \notin Between
  BY <1>2, Zenon
<1>8. Alone'
  BY <1>7, Zenon DEF Alone
<1>9. Offers'
  <2>1. ASSUME NEW o \in Threads, th'[o].pc = "offering"
        PROVE  active /\ ul'[th'[o].u].ho_thread = None
    <3>1. o = t
      BY <1>7, <2>1, Zenon DEF Between
    <3> QED
      BY <1>2, <2>1, <3>1, Zenon
  <2> QED
    BY <2>1, Zenon DEF Offers
<1> QED
  BY <1>3, <1>4, <1>5, <1>6, <1>8, <1>9, Zenon DEF IInv

-----------------------------------------------------------------------------
(* Who is known after a step that changes one thread and one ulock.        *)
Links(x, u) == Entering(x) /\ x.u = u /\ x.linked

(* Whom the thread t is waking after its step.                             *)
LEMMA OneWaker ==
  ASSUME Types, Quiet, NEW t \in Threads, NEW s \in Thread, th' = [th EXCEPT ![t] = s]
  PROVE  /\ \A x \in Threads : BeingWoken(x)' <=> s.target = x
         /\ \A x \in Threads, u \in Ulocks : Member(x, u) <=> Links(th[x], u)
         /\ \A x \in Threads, u \in Ulocks : Member(x, u)' <=> Links(th'[x], u) /\ s.target # x
<1>1. th'[t] = s /\ \A o \in Threads \ {t} : th'[o] = th[o]
  BY Zenon DEF Types
<1>2. \A x, o \in Threads : th[o].target # x
  BY Zenon DEF Quiet, BeingWoken
<1>3. ASSUME NEW x \in Threads PROVE BeingWoken(x)' <=> s.target = x
  <2>1. BeingWoken(x)' <=> \E o \in Threads : th'[o].target = x
    BY Zenon DEF BeingWoken
  <2> QED
    BY <1>1, <1>2, <2>1, Zenon
<1>4. \A x \in Threads, u \in Ulocks : Member(x, u) <=> Links(th[x], u)
  BY Zenon DEF Quiet, Member, Acquiring, Links, Entering
<1>5. \A x \in Threads, u \in Ulocks : Member(x, u)' <=> Links(th'[x], u) /\ s.target # x
  BY <1>3, Zenon DEF Member, Acquiring, Links, Entering
<1> QED
  BY <1>3, <1>4, <1>5, Zenon

(* The queue of a ulock whose waiters stay the same.                       *)
LEMMA QueueKept ==
  ASSUME Types, Known, Quiet, NEW t \in Threads, NEW u \in Ulocks, NEW s \in Thread,
         th' = [th EXCEPT ![t] = s], ul'[u].blocked = ul[u].blocked, ul'[u].count = ul[u].count,
         Links(s, u) <=> Links(th[t], u),
         \A x \in Threads : s.target = x => ~Links(th[x], u)
  PROVE  QueueExact(u)'
<1>1. th'[t] = s /\ \A o \in Threads \ {t} : th'[o] = th[o]
  BY Zenon DEF Types
<1>2. QueueExact(u)
  BY Zenon DEF Known
<1>3. ASSUME NEW x \in Threads PROVE Member(x, u)' <=> Member(x, u)
  <2>1. Links(th'[x], u) <=> Links(th[x], u)
    BY <1>1, Zenon
  <2> QED
    BY <2>1, OneWaker, Zenon
<1>4. {x \in Threads : Member(x, u)}' = {x \in Threads : Member(x, u)}
  BY <1>3, Zenon
<1> QED
  BY <1>2, <1>4, Zenon DEF QueueExact

(* Everybody is known again when the thread and the ulock are in order.    *)
LEMMA KnownStep ==
  ASSUME Types, Known, Quiet, active' = active, NEW t \in Threads, NEW u \in Ulocks,
         NEW s \in Thread, NEW y \in Ulock,
         th' = [th EXCEPT ![t] = s], ul' = [ul EXCEPT ![u] = y],
         y.ho_thread = ul[u].ho_thread \/ ul[u].ho_thread \in {None, t, s.target},
         Expected(t)', s.pc # "crash", QueueExact(u)',
         \A v \in Ulocks \ {u} : Links(s, v) <=> Links(th[t], v),
         \A x \in Threads, v \in Ulocks \ {u} : s.target = x => ~Links(th[x], v)
  PROVE  Known'
<1>1. /\ th'[t] = s /\ \A o \in Threads \ {t} : th'[o] = th[o]
      /\ ul'[u] = y /\ \A v \in Ulocks \ {u} : ul'[v] = ul[v]
  BY Zenon DEF Types
<1>2. ASSUME NEW v \in Ulocks, v # u PROVE QueueExact(v)'
  <2>1. v \in Ulocks \ {u}
    BY <1>2, Zenon
  <2>2. ul'[v].blocked = ul[v].blocked /\ ul'[v].count = ul[v].count
    BY <1>1, <2>1, Zenon
  <2> QED
    BY <2>1, <2>2, QueueKept, Zenon
<1>3. ASSUME NEW x \in Threads, x # t PROVE Expected(x)'
  <2>1. th'[x] = th[x] /\ ~BeingWoken(x) /\ Expected(x)
    BY <1>1, <1>3, Zenon DEF Quiet, Known
  <2>2. CASE s.target = x
    BY <2>2, OneWaker, Zenon DEF Expected
  <2>3. CASE s.target # x
    <3>1. ASSUME ul[th[x].u].ho_thread = x PROVE ul'[th[x].u].ho_thread = x
      <4>1. th[x].u \in Ulocks
        BY Zenon DEF Types, Thread
      <4>2. CASE th[x].u # u
        BY <1>1, <3>1, <4>1, <4>2, Zenon
      <4>3. CASE th[x].u = u
        <5>1. ul[u].ho_thread \notin {None, t, s.target}
          BY <1>3, <2>3, <3>1, <4>3, LockConstants, Zenon
        <5> QED
          BY <1>1, <3>1, <4>3, <5>1, Zenon
      <4> QED
        BY <4>2, <4>3, Zenon
    <3> QED
      BY <2>1, <3>1, Zenon DEF Expected
  <2> QED
    BY <2>2, <2>3, Zenon
<1>4. \A x \in Threads : th'[x].pc # "crash"
  BY <1>1, Zenon DEF Known
<1> QED
  BY <1>2, <1>3, <1>4, Zenon DEF Known

-----------------------------------------------------------------------------
(* The operations, one lemma each.                                         *)

(* The hand-off list, when nobody is in the middle of an offer.            *)
LEMMA Listed ==
  ASSUME HandoffPaired, active, NEW v \in Ulocks, NEW t \in Threads, th[t].pc # "offering",
         \A o \in Threads \ {t} : th[o].pc \notin Between
  PROVE  v \in handoff <=> ul[v].ho_thread # None
<1>1. Unlocked(v)
  BY Zenon DEF Unlocked, Offering, Between
<1> QED
  BY <1>1, Zenon DEF HandoffPaired

(* What a thread that makes a call may rely on.                            *)
LEMMA CallFacts ==
  ASSUME IInv, NEW t \in Threads, Calls(t)
  PROVE  /\ Types /\ th[t] \in Thread /\ th[t].pc = "idle" /\ ~th[t].waiting
         /\ th[t].target = None /\ ~stray /\ t # None
         /\ \A v \in Ulocks : ul[v] \in Ulock /\ ~Links(th[t], v)
         /\ active => \A v \in Ulocks : /\ ul[v].ho_thread # t
                                        /\ v \in handoff <=> ul[v].ho_thread # None
         /\ Quiet /\ Known /\ \A o \in Threads \ {t} : th[o].pc \notin Between
<1>1. Types /\ Shape(th[t]) /\ HandoffPaired /\ th[t].pc = "idle" /\ ~stray /\ Runs(t)
  BY Zenon DEF IInv, Calls
<1>2. th[t] \in Thread /\ ~th[t].waiting /\ th[t].target = None /\ t # None
  BY <1>1, LockConstants, Zenon DEF Types, Shape
<1>3. \A v \in Ulocks : ul[v] \in Ulock /\ ~Links(th[t], v)
  BY <1>1, Zenon DEF Types, Links, Entering
<1>4. ASSUME active, NEW v \in Ulocks PROVE ul[v].ho_thread # t
  BY <1>1, <1>2, <1>4, Zenon DEF HandoffPaired, HandingOff
<1>5. Quiet /\ Known /\ \A o \in Threads \ {t} : th[o].pc \notin Between
  <2>1. \A o \in Threads \ {t} : th[o].pc \notin Between
    BY <1>1, OnlyOne, Zenon
  <2>2. th[t].pc # "wake"
    BY <1>1, Zenon
  <2> QED
    BY <1>1, <2>1, <2>2, NoWaker, Zenon DEF IInv
<1>6. ASSUME active, NEW v \in Ulocks PROVE v \in handoff <=> ul[v].ho_thread # None
  BY <1>1, <1>5, <1>6, Listed, Zenon
<1> QED
  BY <1>1, <1>2, <1>3, <1>4, <1>5, <1>6, Zenon

(* The invariant after a call that wakes nobody.                           *)
LEMMA CallStep ==
  ASSUME IInv, mp' = mp, active' = active, active, stray' = stray, NEW t \in Threads, Calls(t),
         NEW u \in Ulocks, NEW s \in Thread, NEW y \in Ulock,
         th' = [th EXCEPT ![t] = s], ul' = [ul EXCEPT ![u] = y],
         held' \in SUBSET Ulocks, handoff' \in SUBSET Ulocks,
         \A v \in Ulocks \ {u} : v \in held' <=> v \in held,
         \A v \in Ulocks \ {u} : v \in handoff' <=> v \in handoff,
         s.target = None, ~s.waiting, s.pc \in {"idle", "enqueued", "offering"},
         s.pc # "idle" => s.u = u,
         Owned(y, u \in held'), u \in handoff' <=> y.ho_thread # None \/ s.pc = "offering",
         y.ho_thread = ul[u].ho_thread, s.pc = "offering" => y.ho_thread = None,
         s.pc = "enqueued" => s.linked,
         QueueExact(u)'
  PROVE  IInv'
<1>1. /\ Types /\ th[t].pc = "idle" /\ ~stray /\ t # None
      /\ \A v \in Ulocks : ~Links(th[t], v) /\ ul[v].ho_thread # t
      /\ Quiet /\ Known /\ \A o \in Threads \ {t} : th[o].pc \notin Between
  BY CallFacts, Zenon
<1>2. Shape(s)
  BY Zenon DEF Shape
<1>3. Pairs(t, u, s, y)
  BY <1>1, Zenon DEF Pairs, Handing
<1>4. Known'
  <2>1. Expected(t)'
    <3>1. th'[t] = s
      BY <1>1, Zenon DEF Types
    <3>2. Entering(s) /\ s.pc = "enqueued" => s.linked
      BY Zenon
    <3>3. ~Handing(s)
      BY Zenon DEF Handing
    <3> QED
      BY <3>1, <3>2, <3>3, Zenon DEF Expected
  <2>2. \A v \in Ulocks \ {u} : Links(s, v) <=> Links(th[t], v)
    BY <1>1, Zenon DEF Links, Entering
  <2>3. \A x \in Threads, v \in Ulocks \ {u} : s.target = x => ~Links(th[x], v)
    BY LockConstants, Zenon
  <2>4. s.pc # "crash"
    BY Zenon
  <2> QED
    BY <1>1, <2>1, <2>2, <2>3, <2>4, KnownStep, Zenon
<1>5. stray' \in BOOLEAN
  BY <1>1, Zenon DEF Types
<1> QED
  BY <1>1, <1>2, <1>3, <1>4, <1>5, OneStep, Zenon

(* lock_try, and lock_acquire of a free ulock.                             *)
LEMMA LockTryStep ==
  ASSUME IInv, NEW t \in Threads, NEW u \in Ulocks, LockTry(t, u)
  PROVE  IInv'
<1> DEFINE s == [th[t] EXCEPT !.pc = "idle", !.result = Status(u), !.u = u]
           y == [ul[u] EXCEPT !.owner = t, !.state = "held"]
<1>1. /\ Calls(t) /\ active /\ ul[u].state = "free" /\ held' = held \union {u}
      /\ mp' = mp /\ active' = active /\ handoff' = handoff /\ stray' = stray
      /\ th' = [th EXCEPT ![t] = s] /\ ul' = [ul EXCEPT ![u] = y]
  BY Zenon DEF LockTry, Take, Return
<1>2. /\ Types /\ th[t] \in Thread /\ ul[u] \in Ulock /\ th[t].target = None /\ ~th[t].waiting
      /\ ~Links(th[t], u) /\ Quiet /\ Known
      /\ (u \in handoff <=> ul[u].ho_thread # None)
  BY <1>1, CallFacts, Zenon
<1>3. Status(u) \in {"none", "success", "unstable", "destroyed", "aborted"}
  BY Zenon DEF Status
<1>4. s \in Thread
  <2>1. th[t] \in Thread
    BY <1>2, Zenon
  <2> QED
    BY <2>1, <1>3, Zenon DEF Thread, Pcs
<1>5. y \in Ulock
  <2>1. ul[u] \in Ulock
    BY <1>2, Zenon
  <2> QED
    BY <2>1, Zenon DEF Ulock
<1>6. s.pc = "idle" /\ s.target = None /\ ~s.waiting
  BY <1>2, Zenon DEF Thread
<1>7. /\ y.owner = t /\ y.state = "held" /\ y.ho_thread = ul[u].ho_thread
      /\ y.blocked = ul[u].blocked /\ y.count = ul[u].count
  BY <1>2, Zenon DEF Ulock
<1> HIDE DEF s, y
<1>8. /\ held' \in SUBSET Ulocks /\ handoff' \in SUBSET Ulocks /\ u \in held'
      /\ (\A v \in Ulocks \ {u} : v \in held' <=> v \in held)
      /\ (\A v \in Ulocks \ {u} : v \in handoff' <=> v \in handoff)
  BY <1>1, <1>2, Zenon DEF Types
<1>9. Owned(y, u \in held')
  BY <1>1, <1>7, <1>8, LockConstants, Zenon DEF Owned
<1>10. u \in handoff' <=> y.ho_thread # None \/ s.pc = "offering"
  BY <1>1, <1>2, <1>6, <1>7, Zenon
<1>11. QueueExact(u)'
  <2>1. ul'[u] = y
    BY <1>1, <1>2, Zenon DEF Types
  <2>2. ul'[u].blocked = ul[u].blocked /\ ul'[u].count = ul[u].count
    BY <1>7, <2>1, Zenon
  <2>3. ~Links(s, u)
    BY <1>6, Zenon DEF Links, Entering
  <2>4. \A x \in Threads : s.target # x
    BY <1>6, LockConstants, Zenon
  <2> QED
    BY <1>1, <1>2, <1>4, <2>2, <2>3, <2>4, QueueKept, Zenon
<1>12. s.pc \in {"idle", "enqueued", "offering"} /\ s.pc # "offering" /\ s.pc # "enqueued"
  BY <1>6, Zenon
<1> QED
  BY <1>1, <1>4, <1>5, <1>6, <1>7, <1>8, <1>9, <1>10, <1>11, <1>12, CallStep, Zenon

(* lock_acquire of a ulock that is held: the thread is queued.             *)
LEMMA LockAcquireStep ==
  ASSUME IInv, NEW t \in Threads, NEW u \in Ulocks, LockAcquire(t, u)
  PROVE  IInv'
<1>0. CASE LockTry(t, u)
  BY <1>0, LockTryStep, Zenon
<1> SUFFICES ASSUME ~LockTry(t, u)
             PROVE  IInv'
  BY <1>0, Zenon
<1> DEFINE s == [th[t] EXCEPT !.pc = "enqueued", !.u = u, !.linked = TRUE]
           q == ul[u].blocked
           n == ul[u].count
           y == [ul[u] EXCEPT !.blocked = Append(q, t), !.count = n + 1]
<1>1. /\ Calls(t) /\ active /\ ul[u].state = "held" /\ held' = held
      /\ mp' = mp /\ active' = active /\ handoff' = handoff /\ stray' = stray
      /\ th' = [th EXCEPT ![t] = s] /\ ul' = [ul EXCEPT ![u] = y]
  BY Zenon DEF LockAcquire
<1>2. /\ Types /\ th[t] \in Thread /\ ul[u] \in Ulock /\ th[t].target = None /\ ~th[t].waiting
      /\ ~Links(th[t], u) /\ Quiet /\ Known
      /\ (u \in handoff <=> ul[u].ho_thread # None)
  BY <1>1, CallFacts, Zenon
<1>3. q \in Seq(Threads) /\ n \in Int /\ n + 1 \in Int /\ Append(q, t) \in Seq(Threads)
  BY <1>2 DEF Ulock
<1>4. s \in Thread
  <2>1. th[t] \in Thread
    BY <1>2, Zenon
  <2> QED
    BY <2>1, Zenon DEF Thread, Pcs
<1>5. y \in Ulock
  <2>1. ul[u] \in Ulock
    BY <1>2, Zenon
  <2> QED
    BY <1>3, <2>1, Zenon DEF Ulock
<1>6. s.pc = "enqueued" /\ s.target = None /\ ~s.waiting /\ s.u = u /\ s.linked
  BY <1>2, Zenon DEF Thread
<1>7. /\ y.owner = ul[u].owner /\ y.state = "held" /\ y.ho_thread = ul[u].ho_thread
      /\ y.blocked = Append(q, t) /\ y.count = n + 1
  BY <1>1, <1>2, Zenon DEF Ulock
<1> HIDE DEF s, y
<1>8. /\ held' \in SUBSET Ulocks /\ handoff' \in SUBSET Ulocks
      /\ (\A v \in Ulocks \ {u} : v \in held' <=> v \in held)
      /\ (\A v \in Ulocks \ {u} : v \in handoff' <=> v \in handoff)
  BY <1>1, <1>2, Zenon DEF Types
<1>9. Owned(y, u \in held')
  BY <1>1, <1>7, Zenon DEF Owned, IInv, OwnershipAgrees
<1>10. u \in handoff' <=> y.ho_thread # None \/ s.pc = "offering"
  BY <1>1, <1>2, <1>6, <1>7, Zenon
<1>11. QueueExact(u)'
  <2>1. ul'[u] = y /\ th'[t] = s /\ \A x \in Threads \ {t} : th'[x] = th[x]
    BY <1>1, <1>2, Zenon DEF Types
  <2>2. Range(q) = {x \in Threads : Member(x, u)} /\ IsInjective(q) /\ n = Len(q)
    BY <1>2, Zenon DEF Known, QueueExact
  <2>3. /\ \A x \in Threads : Member(x, u) <=> Links(th[x], u)
        /\ \A x \in Threads : Member(x, u)' <=> Links(th'[x], u) /\ s.target # x
    BY <1>1, <1>2, <1>4, OneWaker, Zenon
  <2>4. t \notin Range(q)
    BY <1>2, <2>2, <2>3, Zenon
  <2>5. /\ Range(Append(q, t)) = Range(q) \cup {t} /\ IsInjective(Append(q, t))
        /\ Len(Append(q, t)) = Len(q) + 1
    BY <1>3, <2>2, <2>4, AppendFacts
  <2>6. \A x \in Threads : Member(x, u)' <=> Member(x, u) \/ x = t
    BY <1>6, <2>1, <2>3, LockConstants DEF Links, Entering
  <2>7. {x \in Threads : Member(x, u)'} = Range(q) \cup {t}
    BY <2>2, <2>6, Zenon
  <2> QED
    BY <1>7, <2>1, <2>2, <2>5, <2>7, Zenon DEF QueueExact
<1>12. s.pc \in {"idle", "enqueued", "offering"} /\ s.pc # "offering"
  BY <1>6, Zenon
<1> QED
  BY <1>1, <1>4, <1>5, <1>6, <1>7, <1>8, <1>9, <1>10, <1>11, <1>12, CallStep, Zenon

(* lock_make_stable.                                                       *)
LEMMA MakeStableStep ==
  ASSUME IInv, NEW t \in Threads, NEW u \in Ulocks, MakeStable(t, u)
  PROVE  IInv'
<1> DEFINE y == [ul[u] EXCEPT !.stable = TRUE]
<1>1. /\ Calls(t) /\ active /\ held' = held
      /\ mp' = mp /\ active' = active /\ handoff' = handoff /\ stray' = stray
      /\ th' = th /\ ul' = [ul EXCEPT ![u] = y]
  BY Zenon DEF MakeStable
<1>2. /\ Types /\ th[t] \in Thread /\ ul[u] \in Ulock /\ th[t].target = None /\ ~th[t].waiting
      /\ th[t].pc = "idle" /\ ~Links(th[t], u) /\ Quiet /\ Known
      /\ (u \in handoff <=> ul[u].ho_thread # None)
  BY <1>1, CallFacts, Zenon
<1>3. th' = [th EXCEPT ![t] = th[t]]
  BY <1>1, <1>2, Zenon DEF Types
<1>4. y \in Ulock
  <2>1. ul[u] \in Ulock
    BY <1>2, Zenon
  <2> QED
    BY <2>1, Zenon DEF Ulock
<1>5. /\ y.owner = ul[u].owner /\ y.state = ul[u].state /\ y.ho_thread = ul[u].ho_thread
      /\ y.blocked = ul[u].blocked /\ y.count = ul[u].count
  BY <1>2, Zenon DEF Ulock
<1> HIDE DEF y
<1>6. /\ held' \in SUBSET Ulocks /\ handoff' \in SUBSET Ulocks
      /\ (\A v \in Ulocks \ {u} : v \in held' <=> v \in held)
      /\ (\A v \in Ulocks \ {u} : v \in handoff' <=> v \in handoff)
  BY <1>1, <1>2, Zenon DEF Types
<1>7. Owned(y, u \in held')
  BY <1>1, <1>5, Zenon DEF Owned, IInv, OwnershipAgrees
<1>8. u \in handoff' <=> y.ho_thread # None \/ th[t].pc = "offering"
  BY <1>1, <1>2, <1>5, Zenon
<1>9. QueueExact(u)'
  <2>1. ul'[u] = y
    BY <1>1, <1>2, Zenon DEF Types
  <2>2. ul'[u].blocked = ul[u].blocked /\ ul'[u].count = ul[u].count
    BY <1>5, <2>1, Zenon
  <2>3. \A x \in Threads : th[t].target # x
    BY <1>2, LockConstants, Zenon
  <2> QED
    BY <1>2, <1>3, <2>2, <2>3, QueueKept, Zenon
<1>10. th[t].pc \in {"idle", "enqueued", "offering"} /\ th[t].pc # "offering" /\ th[t].pc # "enqueued"
  BY <1>2, Zenon
<1> QED
  BY <1>1, <1>2, <1>3, <1>4, <1>5, <1>6, <1>7, <1>8, <1>9, <1>10, CallStep, Zenon

(* lock_handoff and lock_handoff_accept: nobody is there yet.  The ulock   *)
(* goes on the list.                                                       *)
LEMMA OfferStep ==
  ASSUME IInv, NEW t \in Threads, NEW u \in Ulocks, Calls(t), active, ul[u].ho_thread = None,
         Offer(t, u), UNCHANGED <<mp, active, held, stray>>
  PROVE  IInv'
<1> DEFINE s == [th[t] EXCEPT !.pc = "offering", !.u = u]
<1>1. /\ held' = held /\ mp' = mp /\ active' = active /\ stray' = stray
      /\ handoff' = handoff \union {u} /\ th' = [th EXCEPT ![t] = s] /\ ul' = ul
  BY Zenon DEF Offer
<1>2. /\ Types /\ th[t] \in Thread /\ ul[u] \in Ulock /\ th[t].target = None /\ ~th[t].waiting
      /\ ~Links(th[t], u) /\ Quiet /\ Known
  BY CallFacts, Zenon
<1>3. s \in Thread
  <2>1. th[t] \in Thread
    BY <1>2, Zenon
  <2> QED
    BY <2>1, Zenon DEF Thread, Pcs
<1>4. s.pc = "offering" /\ s.target = None /\ ~s.waiting /\ s.u = u
  BY <1>2, Zenon DEF Thread
<1> HIDE DEF s
<1>5. ul' = [ul EXCEPT ![u] = ul[u]]
  BY <1>1, <1>2, Zenon DEF Types
<1>6. /\ held' \in SUBSET Ulocks /\ handoff' \in SUBSET Ulocks /\ u \in handoff'
      /\ (\A v \in Ulocks \ {u} : v \in held' <=> v \in held)
      /\ (\A v \in Ulocks \ {u} : v \in handoff' <=> v \in handoff)
  BY <1>1, <1>2, Zenon DEF Types
<1>7. Owned(ul[u], u \in held')
  BY <1>1, Zenon DEF Owned, IInv, OwnershipAgrees
<1>8. u \in handoff' <=> ul[u].ho_thread # None \/ s.pc = "offering"
  BY <1>4, <1>6, Zenon
<1>9. QueueExact(u)'
  <2>1. ul'[u].blocked = ul[u].blocked /\ ul'[u].count = ul[u].count
    BY <1>1, Zenon
  <2>2. ~Links(s, u)
    BY <1>4, Zenon DEF Links, Entering
  <2>3. \A x \in Threads : s.target # x
    BY <1>4, LockConstants, Zenon
  <2> QED
    BY <1>1, <1>2, <1>3, <2>1, <2>2, <2>3, QueueKept, Zenon
<1>10. s.pc \in {"idle", "enqueued", "offering"} /\ s.pc # "enqueued"
  BY <1>4, Zenon
<1> QED
  BY <1>1, <1>2, <1>3, <1>4, <1>5, <1>6, <1>7, <1>8, <1>9, <1>10, CallStep, Zenon

(* What a thread that releases a ulock may rely on, in a call of its own   *)
(* or while it terminates another.                                         *)
Busy(t) == (th[t].pc = "idle" /\ Runs(t)) \/ th[t].pc = "terminate"

(* Nobody else is between two calls then, and it waits for nothing itself. *)
LEMMA BusyFacts ==
  ASSUME IInv, NEW t \in Threads, Busy(t)
  PROVE  /\ Types /\ th[t] \in Thread /\ ~th[t].waiting /\ th[t].target = None /\ t # None
         /\ \A v \in Ulocks : ul[v] \in Ulock /\ ~Links(th[t], v)
         /\ active => \A v \in Ulocks : v \in handoff <=> ul[v].ho_thread # None
         /\ active /\ ~stray => \A v \in Ulocks : ul[v].ho_thread # t
         /\ Quiet /\ \A o \in Threads \ {t} : th[o].pc \notin Between
         /\ ~stray => Known
<1>1. Types /\ Shape(th[t]) /\ HandoffPaired /\ th[t].pc \in {"idle", "terminate"}
  BY Zenon DEF IInv, Busy
<1>2. th[t] \in Thread /\ ~th[t].waiting /\ th[t].target = None /\ t # None
  BY <1>1, LockConstants, Zenon DEF Types, Shape
<1>3. \A v \in Ulocks : ul[v] \in Ulock /\ ~Links(th[t], v)
  BY <1>1, Zenon DEF Types, Links, Entering
<1>4. ASSUME active, ~stray, NEW v \in Ulocks PROVE ul[v].ho_thread # t
  BY <1>1, <1>2, <1>4, Zenon DEF HandoffPaired, HandingOff
<1>5. Quiet /\ \A o \in Threads \ {t} : th[o].pc \notin Between
  <2>1. th[t].pc \in Between \/ Runs(t)
    BY Zenon DEF Busy, Between
  <2>2. \A o \in Threads \ {t} : th[o].pc \notin Between
    BY <2>1, OnlyOne, Zenon
  <2>3. th[t].pc # "wake"
    BY <1>1, Zenon
  <2> QED
    BY <2>2, <2>3, NoWaker, Zenon
<1>6. ASSUME active, NEW v \in Ulocks PROVE v \in handoff <=> ul[v].ho_thread # None
  <2>1. th[t].pc # "offering"
    BY <1>1, Zenon
  <2> QED
    BY <1>1, <1>5, <1>6, <2>1, Listed, Zenon
<1> QED
  BY <1>1, <1>2, <1>3, <1>4, <1>5, <1>6, Zenon DEF IInv

(* lock_release_internal, when a thread is blocked: it is the new owner.   *)
LEMMA ReleaseToWaiter ==
  ASSUME IInv, NEW t \in Threads, NEW u \in Ulocks, NEW victim \in Threads \union {None},
         Busy(t), ul[u].owner # None, Release(t, u, victim), ul[u].blocked # <<>>
  PROVE  IInv'
<1> DEFINE q == ul[u].blocked
           w == Head(q)
           n == ul[u].count
           stable == ul[u].stable /\ victim = None
           news == IF stable THEN "success" ELSE "unstable"
           s == [th[t] EXCEPT !.pc = "wake", !.target = w, !.news = news, !.victim = victim]
           y == [ul[u] EXCEPT !.owner = w, !.blocked = Tail(q), !.count = n - 1, !.stable = stable]
<1>1. /\ active /\ mp' = mp /\ active' = active /\ handoff' = handoff /\ stray' = stray
      /\ held' = held /\ th' = [th EXCEPT ![t] = s] /\ ul' = [ul EXCEPT ![u] = y]
  BY Zenon DEF Release
<1>2. /\ Types /\ th[t] \in Thread /\ ul[u] \in Ulock /\ ~th[t].waiting
      /\ (\A v \in Ulocks : ~Links(th[t], v))
      /\ (~stray => Known /\ \A v \in Ulocks : ul[v].ho_thread # t)
      /\ (u \in handoff <=> ul[u].ho_thread # None)
      /\ Quiet /\ (\A o \in Threads \ {t} : th[o].pc \notin Between)
  BY <1>1, BusyFacts, Zenon
<1>3. /\ q \in Seq(Threads) /\ Tail(q) \in Seq(Threads) /\ w \in Threads /\ Len(q) > 0
      /\ n \in Int /\ n - 1 \in Int /\ stable \in BOOLEAN /\ news \in {"success", "unstable"}
  BY <1>2 DEF Ulock
<1> HIDE DEF q, w, n, stable, news
<1>4. s \in Thread
  <2>1. th[t] \in Thread
    BY <1>2, Zenon
  <2> QED
    BY <1>3, <2>1, Zenon DEF Thread, Pcs
<1>5. y \in Ulock
  <2>1. ul[u] \in Ulock
    BY <1>2, Zenon
  <2> QED
    BY <1>3, <2>1, Zenon DEF Ulock
<1>6. s.pc = "wake" /\ s.target = w /\ ~s.waiting /\ w # None
  BY <1>2, <1>3, LockConstants, Zenon DEF Thread
<1>7. /\ y.owner = w /\ y.state = ul[u].state /\ y.ho_thread = ul[u].ho_thread
      /\ y.blocked = Tail(q) /\ y.count = n - 1
  BY <1>2, Zenon DEF Ulock
<1> HIDE DEF s, y
<1>8. /\ held' \in SUBSET Ulocks /\ handoff' \in SUBSET Ulocks /\ stray' \in BOOLEAN
      /\ (\A v \in Ulocks \ {u} : v \in held' <=> v \in held)
      /\ (\A v \in Ulocks \ {u} : v \in handoff' <=> v \in handoff)
  BY <1>1, <1>2, Zenon DEF Types
<1>9. Owned(y, u \in held')
  <2>1. u \in held /\ ul[u].state = "held"
    BY <1>1, <1>2, Zenon DEF IInv, OwnershipAgrees, Ulock
  <2> QED
    BY <1>1, <1>6, <1>7, <2>1, Zenon DEF Owned
<1>10. u \in handoff' <=> y.ho_thread # None \/ s.pc = "offering"
  BY <1>1, <1>2, <1>6, <1>7, Zenon
<1>11. Shape(s) /\ th[t].pc # "offering" /\ s.pc # "offering" /\ s.pc # "crash"
  BY <1>6, Zenon DEF Shape, Busy
<1>12. ~stray' => Pairs(t, u, s, y)
  <2>1. ~Handing(th[t])
    BY Zenon DEF Busy, Handing
  <2> QED
    BY <1>1, <1>2, <1>7, <2>1, Zenon DEF Pairs
<1>13. ASSUME ~stray' PROVE Known'
  <2>1. ul'[u] = y /\ th'[t] = s /\ \A x \in Threads \ {t} : th'[x] = th[x]
    BY <1>1, <1>2, Zenon DEF Types
  <2>2. Range(q) = {x \in Threads : Member(x, u)} /\ IsInjective(q) /\ n = Len(q)
    BY <1>1, <1>2, <1>13, Zenon DEF Known, QueueExact, q, n
  <2>3. /\ \A x \in Threads : Member(x, u) <=> Links(th[x], u)
        /\ \A x \in Threads : Member(x, u)' <=> Links(th'[x], u) /\ s.target # x
    BY <1>1, <1>2, <1>4, OneWaker, Zenon
  <2>4. /\ Head(q) \in Range(q) /\ Range(Tail(q)) = Range(q) \ {Head(q)} /\ IsInjective(Tail(q))
        /\ Len(Tail(q)) = Len(q) - 1
    BY <1>3, <2>2, TailFacts, Zenon
  <2>5. w \in Range(q) /\ Links(th[w], u) /\ w # t
    BY <1>2, <1>3, <2>2, <2>3, <2>4, Zenon DEF w
  <2>6. ~Links(s, u)
    BY <1>6, Zenon DEF Links, Entering
  <2>7. \A x \in Threads : Member(x, u)' <=> Member(x, u) /\ x # w
    BY <1>2, <1>6, <2>1, <2>3, <2>6, Zenon
  <2>8. {x \in Threads : Member(x, u)'} = Range(q) \ {w}
    BY <2>2, <2>7, Zenon
  <2>9. QueueExact(u)'
    BY <1>7, <2>1, <2>2, <2>4, <2>8, Zenon DEF QueueExact, w
  <2>10. Expected(t)'
    BY <1>6, <2>1, Zenon DEF Expected, Entering, Handing
  <2>11. \A v \in Ulocks \ {u} : Links(s, v) <=> Links(th[t], v)
    BY <1>2, <1>6, Zenon DEF Links, Entering
  <2>12. \A x \in Threads, v \in Ulocks \ {u} : s.target = x => ~Links(th[x], v)
    BY <1>6, <2>5, Zenon DEF Links
  <2> QED
    BY <1>1, <1>2, <1>4, <1>5, <1>7, <1>11, <1>13, <2>9, <2>10, <2>11, <2>12, KnownStep, Zenon
<1> QED
  BY <1>1, <1>2, <1>4, <1>5, <1>8, <1>9, <1>10, <1>11, <1>12, <1>13, OneStep, Zenon

(* lock_release_internal, when no thread is blocked: the ulock is free.    *)
LEMMA ReleaseToNobody ==
  ASSUME IInv, NEW t \in Threads, NEW u \in Ulocks, NEW victim \in Threads \union {None},
         Busy(t), Release(t, u, victim), ul[u].blocked = <<>>
  PROVE  IInv'
<1> DEFINE s == th[t]
           stable == ul[u].stable /\ victim = None
           y == [ul[u] EXCEPT !.owner = None, !.state = "free", !.stable = stable]
<1>1. /\ active /\ mp' = mp /\ active' = active /\ handoff' = handoff /\ stray' = stray
      /\ held' = held \ {u} /\ th' = th /\ ul' = [ul EXCEPT ![u] = y]
  BY Zenon DEF Release
<1>2. /\ Types /\ s \in Thread /\ ul[u] \in Ulock /\ s.target = None
      /\ (~stray => Known /\ \A v \in Ulocks : ul[v].ho_thread # t)
      /\ (u \in handoff <=> ul[u].ho_thread # None)
      /\ Quiet /\ (\A o \in Threads \ {t} : th[o].pc \notin Between)
  BY <1>1, BusyFacts, Zenon
<1>3. th' = [th EXCEPT ![t] = s]
  BY <1>1, <1>2, Zenon DEF Types
<1>4. Shape(s)
  BY Zenon DEF IInv
<1>5. ~Handing(s) /\ s.pc # "offering" /\ s.pc # "crash" /\ th[t].pc # "offering"
  BY Zenon DEF Busy, Handing
<1> HIDE DEF s
<1>6. y \in Ulock
  <2>1. ul[u] \in Ulock
    BY <1>2, Zenon
  <2>2. stable \in BOOLEAN
    BY <2>1, Zenon DEF Ulock
  <2> HIDE DEF stable
  <2> QED
    BY <2>1, <2>2, Zenon DEF Ulock
<1>7. /\ y.owner = None /\ y.state = "free" /\ y.ho_thread = ul[u].ho_thread
      /\ y.blocked = ul[u].blocked /\ y.count = ul[u].count
  BY <1>2, Zenon DEF Ulock
<1> HIDE DEF y
<1>8. /\ held' \in SUBSET Ulocks /\ handoff' \in SUBSET Ulocks /\ stray' \in BOOLEAN
      /\ (\A v \in Ulocks \ {u} : v \in held' <=> v \in held)
      /\ (\A v \in Ulocks \ {u} : v \in handoff' <=> v \in handoff) /\ u \notin held'
  BY <1>1, <1>2, Zenon DEF Types
<1>9. Owned(y, u \in held')
  BY <1>7, <1>8 DEF Owned
<1>10. u \in handoff' <=> y.ho_thread # None \/ s.pc = "offering"
  BY <1>1, <1>2, <1>5, <1>7, Zenon
<1>11. ~stray' => Pairs(t, u, s, y)
  BY <1>1, <1>2, <1>5, <1>7, Zenon DEF Pairs, s
<1>12. ASSUME ~stray' PROVE Known'
  <2>1. ul'[u] = y /\ th'[t] = th[t] /\ s = th[t]
    BY <1>1, <1>2, Zenon DEF Types, s
  <2>2. ul'[u].blocked = ul[u].blocked /\ ul'[u].count = ul[u].count
    BY <1>7, <2>1, Zenon
  <2>3. \A x \in Threads : s.target # x
    BY <1>2, LockConstants, Zenon
  <2>4. QueueExact(u)'
    BY <1>1, <1>2, <1>3, <1>12, <2>1, <2>2, <2>3, QueueKept, ZenonT(30)
  <2>5. Expected(t)'
    BY <2>1, Zenon DEF Expected, Entering, Handing, Busy
  <2> QED
    BY <1>1, <1>2, <1>3, <1>5, <1>6, <1>7, <1>12, <2>1, <2>3, <2>4, <2>5, KnownStep, Zenon
<1> QED
  BY <1>1, <1>2, <1>3, <1>4, <1>5, <1>6, <1>8, <1>9, <1>10, <1>11, <1>12, OneStep, Zenon

(* lock_release.                                                           *)
LEMMA LockReleaseStep ==
  ASSUME IInv, NEW t \in Threads, NEW u \in Ulocks, LockRelease(t, u)
  PROVE  IInv'
<1>1. Busy(t) /\ ul[u].owner # None /\ Release(t, u, None)
  BY LockConstants, Zenon DEF LockRelease, Calls, Busy
<1> QED
  BY <1>1, ReleaseToNobody, ReleaseToWaiter, Zenon

(* lock_handoff and lock_handoff_accept: the other thread is there, and is *)
(* to be woken.                                                            *)
LEMMA TransferStep ==
  ASSUME IInv, NEW t \in Threads, NEW u \in Ulocks, Calls(t), active, ul[u].owner # None,
         NEW w, w = ul[u].ho_thread, w # None,
         NEW to \in Threads, Transfer(u, to), UNCHANGED <<mp, active, held, stray>>,
         NEW news \in {"success", "unstable"}, NEW res \in {"success", "unstable"},
         th' = [th EXCEPT ![t].pc = "wake", ![t].target = w, ![t].news = news,
                          ![t].result = res, ![t].u = u]
  PROVE  IInv'
<1> DEFINE s == [th[t] EXCEPT !.pc = "wake", !.target = w, !.news = news, !.result = res, !.u = u]
           y == [ul[u] EXCEPT !.owner = to, !.ho_thread = None]
<1>1. /\ held' = held /\ mp' = mp /\ active' = active /\ stray' = stray
      /\ handoff' = handoff \ {u}
      /\ th' = [th EXCEPT ![t] = s] /\ ul' = [ul EXCEPT ![u] = y]
  BY Zenon DEF Transfer
<1>2. /\ Types /\ th[t] \in Thread /\ ul[u] \in Ulock /\ ~th[t].waiting /\ ~stray
      /\ th[t].pc = "idle" /\ (\A v \in Ulocks : ~Links(th[t], v))
      /\ Quiet /\ Known /\ (\A o \in Threads \ {t} : th[o].pc \notin Between)
  BY CallFacts, Zenon
<1>3. w \in Threads /\ Handing(th[w]) /\ w # None
  BY <1>2, Zenon DEF Ulock, IInv, HandoffPaired, HandingOff, Handing
<1>4. s \in Thread
  <2>1. th[t] \in Thread
    BY <1>2, Zenon
  <2>2. news \in {"none", "success", "unstable"}
        /\ res \in {"none", "success", "unstable", "destroyed", "aborted"}
    BY Zenon
  <2> QED
    BY <1>3, <2>1, <2>2, Zenon DEF Thread, Pcs
<1>5. y \in Ulock
  <2>1. ul[u] \in Ulock
    BY <1>2, Zenon
  <2> QED
    BY <2>1, Zenon DEF Ulock
<1>6. s.pc = "wake" /\ s.target = w /\ ~s.waiting
  BY <1>2, Zenon DEF Thread
<1>7. /\ y.owner = to /\ y.state = ul[u].state /\ y.ho_thread = None
      /\ y.blocked = ul[u].blocked /\ y.count = ul[u].count
  BY <1>2, Zenon DEF Ulock
<1> HIDE DEF s, y
<1>8. /\ held' \in SUBSET Ulocks /\ handoff' \in SUBSET Ulocks /\ stray' \in BOOLEAN
      /\ (\A v \in Ulocks \ {u} : v \in held' <=> v \in held)
      /\ (\A v \in Ulocks \ {u} : v \in handoff' <=> v \in handoff) /\ u \notin handoff'
  BY <1>1, <1>2, Zenon DEF Types
<1>9. Owned(y, u \in held')
  <2>1. u \in held /\ ul[u].state = "held"
    BY <1>2, Zenon DEF IInv, OwnershipAgrees, Ulock
  <2>2. to # None
    BY LockConstants, Zenon
  <2> QED
    BY <1>1, <1>7, <2>1, <2>2, Zenon DEF Owned
<1>10. u \in handoff' <=> y.ho_thread # None \/ s.pc = "offering"
  BY <1>6, <1>7, <1>8, Zenon
<1>11. Shape(s) /\ th[t].pc # "offering" /\ s.pc # "offering" /\ s.pc # "crash"
  BY <1>2, <1>3, <1>6, Zenon DEF Shape
<1>12. Pairs(t, u, s, y)
  BY <1>2, <1>7, Zenon DEF Pairs, Handing
<1>13. Known'
  <2>1. ul'[u] = y /\ th'[t] = s
    BY <1>1, <1>2, Zenon DEF Types
  <2>2. ul'[u].blocked = ul[u].blocked /\ ul'[u].count = ul[u].count
    BY <1>7, <2>1, Zenon
  <2>3. \A v \in Ulocks : ~Links(s, v) /\ ~Links(th[w], v)
    BY <1>3, <1>6, Zenon DEF Links, Entering, Handing
  <2>4. \A x \in Threads : s.target = x => \A v \in Ulocks : ~Links(th[x], v)
    BY <1>6, <2>3, Zenon
  <2>5. QueueExact(u)'
    BY <1>1, <1>2, <1>4, <2>2, <2>3, <2>4, QueueKept, Zenon
  <2>6. Expected(t)'
    BY <1>6, <2>1, Zenon DEF Expected, Entering, Handing
  <2>7. ul[u].ho_thread \in {None, t, s.target}
    BY <1>6, Zenon
  <2> QED
    BY <1>1, <1>2, <1>4, <1>5, <1>11, <2>3, <2>4, <2>5, <2>6, <2>7, KnownStep, Zenon
<1> QED
  BY <1>1, <1>2, <1>4, <1>5, <1>8, <1>9, <1>10, <1>11, <1>12, <1>13, OneStep, Zenon

(* What lock_handoff and lock_handoff_accept tell.                         *)
LEMMA StatusKind ==
  ASSUME NEW u \in Ulocks
  PROVE  Status(u) \in {"success", "unstable"}
BY Zenon DEF Status

(* lock_handoff.                                                           *)
LEMMA LockHandoffStep ==
  ASSUME IInv, NEW t \in Threads, NEW u \in Ulocks, LockHandoff(t, u)
  PROVE  IInv'
<1> DEFINE ac == ul[u].ho_thread
<1>1. Calls(t) /\ active /\ ul[u].owner = t /\ UNCHANGED <<mp, active, held, stray>>
  BY Zenon DEF LockHandoff
<1>2. ul[u].owner # None /\ ac \in Threads \union {None}
  BY <1>1, LockConstants, Zenon DEF IInv, Types, Ulock
<1>3. CASE ac # None /\ Transfer(u, ac)
           /\ th' = [th EXCEPT ![t].pc = "wake", ![t].target = ac, ![t].news = Status(u),
                               ![t].result = "success", ![t].u = u]
  <2>1. ac \in Threads
    BY <1>2, <1>3, Zenon
  <2>2. "success" \in {"success", "unstable"}
    BY Zenon
  <2> QED
    BY <1>1, <1>2, <1>3, <2>1, <2>2, StatusKind, TransferStep, Zenon
<1>4. CASE ac = None /\ Offer(t, u)
  BY <1>1, <1>4, OfferStep, Zenon
<1> QED
  BY <1>3, <1>4, Zenon DEF LockHandoff

(* lock_handoff_accept.                                                    *)
LEMMA LockHandoffAcceptStep ==
  ASSUME IInv, NEW t \in Threads, NEW u \in Ulocks, LockHandoffAccept(t, u)
  PROVE  IInv'
<1> DEFINE ho == ul[u].ho_thread
<1>1. Calls(t) /\ active /\ UNCHANGED <<mp, active, held, stray>>
  BY Zenon DEF LockHandoffAccept
<1>2. CASE ho # None /\ ul[u].owner = ho /\ Transfer(u, t)
           /\ th' = [th EXCEPT ![t].pc = "wake", ![t].target = ho, ![t].news = "success",
                               ![t].result = Status(u), ![t].u = u]
  <2>1. "success" \in {"success", "unstable"}
    BY Zenon
  <2>2. ul[u].owner # None
    BY <1>2, Zenon
  <2> QED
    BY <1>1, <1>2, <2>1, <2>2, StatusKind, TransferStep, Zenon
<1>3. CASE ho = None /\ Offer(t, u)
  BY <1>1, <1>3, OfferStep, Zenon
<1> QED
  BY <1>2, <1>3, Zenon DEF LockHandoffAccept

-----------------------------------------------------------------------------
(* The invariant after a step that changes one thread and no ulock.        *)
LEMMA ThreadStep ==
  ASSUME IInv, mp' = mp, active' = active, held' = held, handoff' = handoff, ul' = ul,
         stray' \in BOOLEAN, stray => stray', NEW t \in Threads, NEW s \in Thread,
         th' = [th EXCEPT ![t] = s], Shape(s),
         ~stray' /\ active => \A v \in Ulocks : ul[v].ho_thread = t => HandsTo(s, v),
         \A o \in Threads \ {t} : th[o].pc \notin Between,
         th[t].pc # "offering", s.pc # "offering",
         ~stray' => /\ Quiet /\ s.target = None /\ Expected(t)' /\ s.pc # "crash"
                    /\ \A v \in Ulocks : Links(s, v) <=> Links(th[t], v)
  PROVE  IInv'
<1>1. Types /\ OwnershipAgrees /\ HandoffPaired
  BY Zenon DEF IInv
<1>2. PICK u \in Ulocks : u = th[t].u
  BY <1>1, Zenon DEF Types, Thread
<1>3. PICK y \in Ulock : y = ul[u]
  BY <1>1, Zenon DEF Types
<1>4. ul' = [ul EXCEPT ![u] = y] /\ ul'[u] = ul[u]
  BY <1>1, <1>3, Zenon DEF Types
<1>5. Owned(y, u \in held')
  BY <1>1, <1>3, Zenon DEF OwnershipAgrees, Owned
<1>6. active => (u \in handoff' <=> y.ho_thread # None \/ s.pc = "offering")
  BY <1>1, <1>3, Listed, Zenon
<1>7. active /\ ~stray' => Pairs(t, u, s, y)
  BY <1>2, <1>3, Zenon DEF Pairs, HandsTo
<1>8. ASSUME ~stray' PROVE Known'
  <2>1. Known
    BY <1>8, Zenon DEF IInv
  <2>2. \A x \in Threads : s.target # x
    BY <1>8, LockConstants, Zenon
  <2>3. QueueExact(u)'
    BY <1>1, <1>4, <1>8, <2>1, <2>2, QueueKept, Zenon
  <2> QED
    BY <1>1, <1>3, <1>4, <1>8, <2>1, <2>2, <2>3, KnownStep, Zenon
<1>9. held' \in SUBSET Ulocks /\ handoff' \in SUBSET Ulocks
  BY <1>1, Zenon DEF Types
<1> QED
  BY <1>4, <1>5, <1>6, <1>7, <1>8, <1>9, OneStep, Zenon

(* lock_handoff and lock_handoff_accept: the thread is the ho_thread.      *)
LEMMA SetHoThreadStep ==
  ASSUME IInv, NEW t \in Threads, SetHoThread(t)
  PROVE  IInv'
<1>1. Types /\ HandoffPaired /\ OwnershipAgrees /\ Offers /\ Shape(th[t]) /\ th[t] \in Thread
  BY Zenon DEF IInv, Types
<1>2. PICK u \in Ulocks : u = th[t].u
  BY <1>1, Zenon DEF Thread
<1> DEFINE s == [th[t] EXCEPT !.pc = "offered"]
           y == [ul[u] EXCEPT !.ho_thread = t]
<1>3. /\ th[t].pc = "offering" /\ Runs(t) /\ th' = [th EXCEPT ![t] = s] /\ ul' = [ul EXCEPT ![u] = y]
      /\ held' = held /\ handoff' = handoff /\ mp' = mp /\ active' = active /\ stray' = stray
  BY <1>2, Zenon DEF SetHoThread
<1>4. active /\ ul[u].ho_thread = None /\ ul[u] \in Ulock
  BY <1>1, <1>2, <1>3, Zenon DEF Offers, Types
<1>5. s \in Thread
  BY <1>1, Zenon DEF Thread, Pcs
<1>6. y \in Ulock
  BY <1>4, Zenon DEF Ulock
<1>7. /\ s.pc = "offered" /\ s.u = u /\ s.target = None /\ ~s.waiting
  BY <1>1, <1>2, <1>3, Zenon DEF Thread, Shape
<1>8. /\ y.owner = ul[u].owner /\ y.state = ul[u].state /\ y.ho_thread = t
      /\ y.blocked = ul[u].blocked /\ y.count = ul[u].count
  BY <1>4, Zenon DEF Ulock
<1> HIDE DEF s, y
<1>9. Quiet /\ \A o \in Threads \ {t} : th[o].pc \notin Between
  <2>1. th[t].pc # "wake"
    BY <1>3, Zenon
  <2> QED
    BY <1>3, <2>1, OnlyOne, NoWaker, Zenon
<1>10. Owned(y, u \in held')
  BY <1>1, <1>3, <1>8, Zenon DEF OwnershipAgrees, Owned
<1>11. u \in handoff' /\ y.ho_thread # None
  BY <1>1, <1>2, <1>3, <1>4, <1>8, LockConstants, Zenon DEF HandoffPaired, Unlocked, Offering
<1>12. Shape(s) /\ Pairs(t, u, s, y)
  BY <1>2, <1>3, <1>7, <1>8, Zenon DEF Shape, Pairs, Handing
<1>13. ASSUME ~stray' PROVE Known'
  <2>1. Known
    BY <1>3, <1>13, Zenon DEF IInv
  <2>2. ul'[u] = y /\ th'[t] = s
    BY <1>1, <1>3, Zenon DEF Types
  <2>3. ul'[u].blocked = ul[u].blocked /\ ul'[u].count = ul[u].count
    BY <1>8, <2>2, Zenon
  <2>4. (\A x \in Threads : s.target # x) /\ \A v \in Ulocks : ~Links(s, v) /\ ~Links(th[t], v)
    BY <1>3, <1>7, LockConstants, Zenon DEF Links, Entering
  <2>5. QueueExact(u)'
    BY <1>1, <1>3, <1>5, <1>9, <2>1, <2>3, <2>4, QueueKept, Zenon
  <2>6. Expected(t)'
    BY <1>3, <1>4, <1>7, <1>8, <2>2, Zenon DEF Expected, Entering
  <2>7. ul[u].ho_thread \in {None, t, s.target} /\ s.pc # "crash"
    BY <1>4, <1>7, Zenon
  <2> QED
    BY <1>1, <1>3, <1>5, <1>6, <1>9, <2>1, <2>4, <2>5, <2>6, <2>7, KnownStep, Zenon
<1>14. held' \in SUBSET Ulocks /\ handoff' \in SUBSET Ulocks /\ stray' \in BOOLEAN
  BY <1>1, <1>3, Zenon DEF Types
<1>15. s.pc # "offering"
  BY <1>7, Zenon
<1> QED
  BY <1>2, <1>3, <1>5, <1>6, <1>9, <1>10, <1>11, <1>12, <1>13, <1>14, <1>15, OneStep, Zenon

(* assert_wait.                                                            *)
LEMMA AssertWaitStep ==
  ASSUME IInv, NEW t \in Threads, AssertWait(t)
  PROVE  IInv'
<1> DEFINE pc == IF th[t].pc = "enqueued" THEN "acquire" ELSE "handoff"
           s == [th[t] EXCEPT !.pc = pc, !.waiting = TRUE]
<1>1. /\ th[t].pc \in {"enqueued", "offered"} /\ Runs(t) /\ th' = [th EXCEPT ![t] = s] /\ ul' = ul
      /\ held' = held /\ handoff' = handoff /\ mp' = mp /\ active' = active /\ stray' = stray
  BY Zenon DEF AssertWait
<1>2. Types /\ HandoffPaired /\ Shape(th[t]) /\ stray' \in BOOLEAN
  BY <1>1, Zenon DEF IInv, Types
<1>3. th[t] \in Thread
  BY <1>2, Zenon DEF Types
<1>4. pc \in {"acquire", "handoff"} /\ (pc = "acquire" <=> th[t].pc = "enqueued")
  BY Zenon
<1> HIDE DEF pc
<1>5. s \in Thread
  <2>1. pc \in Pcs
    BY <1>4, Zenon DEF Pcs
  <2> QED
    BY <1>3, <2>1, Zenon DEF Thread
<1>6. /\ s.pc = pc /\ s.waiting /\ s.u = th[t].u /\ s.linked = th[t].linked
      /\ s.target = th[t].target /\ th[t].u \in Ulocks
  BY <1>3, Zenon DEF Thread
<1> HIDE DEF s
<1>7. Shape(s) /\ s.target = None
  BY <1>1, <1>2, <1>4, <1>6, Zenon DEF Shape
<1>8. ASSUME ~stray', active, NEW v \in Ulocks, ul[v].ho_thread = t PROVE HandsTo(s, v)
  <2>1. HandingOff(t, v)
    BY <1>1, <1>2, <1>8, LockConstants, Zenon DEF HandoffPaired
  <2> QED
    BY <1>1, <1>4, <1>6, <2>1, Zenon DEF HandingOff, HandsTo, Handing
<1>9. /\ s.pc # "offering" /\ s.pc # "crash" /\ th[t].pc # "offering"
      /\ \A o \in Threads \ {t} : th[o].pc \notin Between
  BY <1>1, <1>4, <1>6, OnlyOne, Zenon
<1>10. ASSUME ~stray'
       PROVE  /\ Quiet /\ Expected(t)'
              /\ \A v \in Ulocks : Links(s, v) <=> Links(th[t], v)
  <2>1. th[t].pc # "wake"
    BY <1>1, Zenon
  <2>2. Quiet
    BY <1>9, <2>1, NoWaker, Zenon
  <2>3. Expected(t) /\ ~BeingWoken(t) /\ th'[t] = s
    BY <1>1, <1>2, <1>10, <2>2, Zenon DEF IInv, Known, Quiet, Types
  <2>4. Entering(s) => s.linked
    BY <1>1, <1>4, <1>6, <2>3, Zenon DEF Expected, Entering
  <2>5. Handing(s) => active /\ ul[s.u].ho_thread = t
    BY <1>1, <1>4, <1>6, <2>3, Zenon DEF Expected, Handing
  <2>6. Expected(t)'
    BY <1>1, <2>3, <2>4, <2>5, Zenon DEF Expected
  <2>7. Entering(s) <=> Entering(th[t])
    BY <1>1, <1>4, <1>6, Zenon DEF Entering
  <2> QED
    BY <1>6, <2>2, <2>6, <2>7, Zenon DEF Links
<1> QED
  BY <1>1, <1>2, <1>5, <1>7, <1>8, <1>9, <1>10, ThreadStep, Zenon

(* thread_abort of a thread that waits here.                               *)
LEMMA AbortStep ==
  ASSUME IInv, NEW t \in Threads, Abort(t)
  PROVE  IInv'
<1> DEFINE s == [th[t] EXCEPT !.waiting = FALSE, !.result = "aborted"]
<1>1. /\ th[t].waiting /\ th' = [th EXCEPT ![t] = s] /\ ul' = ul
      /\ held' = held /\ handoff' = handoff /\ mp' = mp /\ active' = active /\ stray' = stray
      /\ (\A o \in Threads \ {t} : th[o].pc \notin Between)
  BY Zenon DEF Abort, IInv
<1>2. Types /\ HandoffPaired /\ Shape(th[t]) /\ stray' \in BOOLEAN
  BY <1>1, Zenon DEF IInv, Types
<1>3. th[t] \in Thread
  BY <1>2, Zenon DEF Types
<1>4. s \in Thread
  BY <1>3, Zenon DEF Thread
<1>5. /\ s.pc = th[t].pc /\ ~s.waiting /\ s.u = th[t].u /\ s.linked = th[t].linked
      /\ s.target = th[t].target /\ s.victim = th[t].victim
  BY <1>3, Zenon DEF Thread
<1> HIDE DEF s
<1>6. th[t].pc \in {"acquire", "handoff"}
  BY <1>1, <1>2, Zenon DEF Shape
<1>7. /\ Shape(s) /\ s.target = None
      /\ s.pc # "offering" /\ s.pc # "crash" /\ th[t].pc # "offering"
  BY <1>2, <1>5, <1>6, Zenon DEF Shape
<1>8. ASSUME ~stray', active, NEW v \in Ulocks, ul[v].ho_thread = t PROVE HandsTo(s, v)
  <2>1. HandingOff(t, v)
    BY <1>1, <1>2, <1>8, LockConstants, Zenon DEF HandoffPaired
  <2> QED
    BY <1>5, <2>1, Zenon DEF HandingOff, HandsTo, Handing
<1>9. ASSUME ~stray'
      PROVE  /\ Quiet /\ Expected(t)'
             /\ \A v \in Ulocks : Links(s, v) <=> Links(th[t], v)
  <2>1. th[t].pc # "wake"
    BY <1>6, Zenon
  <2>2. Quiet
    BY <1>1, <2>1, NoWaker, Zenon
  <2>3. Expected(t) /\ ~BeingWoken(t) /\ th'[t] = s
    BY <1>1, <1>2, <1>9, <2>2, Zenon DEF IInv, Known, Quiet, Types
  <2>4. s.pc # "enqueued" /\ s.pc # "offered"
    BY <1>5, <1>6, Zenon
  <2>5. Expected(t)'
    BY <1>1, <1>5, <2>3, <2>4, Zenon DEF Expected, Handing
  <2> QED
    BY <1>5, <2>2, <2>5, Zenon DEF Links, Entering
<1> QED
  BY <1>1, <1>2, <1>4, <1>7, <1>8, <1>9, ThreadStep, Zenon

(* A crash, which needs a hand-off that was left behind.                   *)
LEMMA CrashStep ==
  ASSUME IInv, NEW t \in Threads, Runs(t), th[t].pc \in {"acquire", "handoff"}, ~th[t].waiting,
         stray, stray' = stray, Crash(t), UNCHANGED <<mp, active, held, handoff, ul>>
  PROVE  IInv'
<1> DEFINE s == [th[t] EXCEPT !.pc = "crash"]
<1>1. Shape(th[t]) /\ th[t] \in Thread /\ th' = [th EXCEPT ![t] = s]
  BY Zenon DEF IInv, Types, Crash
<1>2. s \in Thread
  BY <1>1, Zenon DEF Thread, Pcs
<1>3. s.pc = "crash" /\ s.target = None /\ ~s.waiting
  BY <1>1, Zenon DEF Thread, Shape
<1> HIDE DEF s
<1>4. /\ Shape(s) /\ s.pc # "offering" /\ th[t].pc # "offering"
      /\ \A o \in Threads \ {t} : th[o].pc \notin Between
  BY <1>3, OnlyOne, Zenon DEF Shape
<1>5. stray' \in BOOLEAN
  BY Zenon DEF IInv, Types
<1> QED
  BY <1>1, <1>2, <1>4, <1>5, ThreadStep, Zenon

(* The end of lock_acquire.  An aborted thread finds itself in the queue.  *)
LEMMA AcquireReturnsStep ==
  ASSUME IInv, NEW t \in Threads, AcquireReturns(t)
  PROVE  IInv'
<1> DEFINE r == IF th[t].linked THEN "aborted" ELSE th[t].result
           s == [th[t] EXCEPT !.pc = "idle", !.result = r]
<1>1. /\ th[t].pc = "acquire" /\ ~th[t].waiting /\ Runs(t)
      /\ held' = held /\ handoff' = handoff /\ mp' = mp /\ active' = active /\ stray' = stray
  BY Zenon DEF AcquireReturns
<1>2. Types /\ HandoffPaired /\ OwnershipAgrees /\ Shape(th[t]) /\ stray' \in BOOLEAN
  BY <1>1, Zenon DEF IInv, Types
<1>3. th[t] \in Thread
  BY <1>2, Zenon DEF Types
<1>4. s \in Thread
  <2>1. r \in {"none", "success", "unstable", "destroyed", "aborted"}
    BY <1>3, Zenon DEF Thread
  <2> HIDE DEF r
  <2> QED
    BY <1>3, <2>1, Zenon DEF Thread, Pcs
<1>5. /\ s.pc = "idle" /\ ~s.waiting /\ s.target = None
  BY <1>1, <1>2, <1>3, Zenon DEF Thread, Shape
<1>6. PICK u \in Ulocks : u = th[t].u
  BY <1>3, Zenon DEF Thread
<1>7. \/ ~th[t].linked /\ th' = [th EXCEPT ![t] = s] /\ ul' = ul
      \/ /\ th[t].linked /\ t \in Range(ul[u].blocked) /\ th' = [th EXCEPT ![t] = s]
         /\ ul' = [ul EXCEPT ![u].blocked = QueueRemove(@, t), ![u].count = @ - 1]
      \/ th[t].linked /\ t \notin Range(ul[u].blocked) /\ Crash(t) /\ ul' = ul
  BY <1>6, Zenon DEF AcquireReturns, Return
<1> HIDE DEF s
<1>8. /\ Shape(s) /\ s.pc # "offering" /\ s.pc # "crash" /\ th[t].pc # "offering"
      /\ ~Handing(s) /\ ~Handing(th[t]) /\ (\A v \in Ulocks : ~Links(s, v))
  BY <1>1, <1>5, Zenon DEF Shape, Handing, Links, Entering
<1>9. ASSUME ~stray, active, NEW v \in Ulocks PROVE ul[v].ho_thread # t
  BY <1>1, <1>2, <1>9, LockConstants DEF HandoffPaired, HandingOff
<1>10. Quiet /\ \A o \in Threads \ {t} : th[o].pc \notin Between
  <2>1. th[t].pc # "wake"
    BY <1>1, Zenon
  <2> QED
    BY <1>1, <2>1, OnlyOne, NoWaker, Zenon
<1>11. ASSUME th' = [th EXCEPT ![t] = s] PROVE Expected(t)'
  <2>1. th'[t] = s
    BY <1>2, <1>11, Zenon DEF Types
  <2> QED
    BY <1>5, <2>1, Zenon DEF Expected, Entering, Handing
<1>12. ASSUME ~stray, th[t].linked PROVE t \in Range(ul[u].blocked)
  BY <1>1, <1>6, <1>10, <1>12, Zenon DEF IInv, Known, QueueExact, Member, Acquiring, Quiet
<1>13. CASE ~th[t].linked /\ th' = [th EXCEPT ![t] = s] /\ ul' = ul
  <2>1. \A v \in Ulocks : Links(s, v) <=> Links(th[t], v)
    BY <1>8, <1>13, Zenon DEF Links
  <2> QED
    BY <1>1, <1>2, <1>4, <1>5, <1>8, <1>9, <1>10, <1>11, <1>13, <2>1, ThreadStep, Zenon
<1>14. CASE /\ th[t].linked /\ t \in Range(ul[u].blocked) /\ th' = [th EXCEPT ![t] = s]
            /\ ul' = [ul EXCEPT ![u].blocked = QueueRemove(@, t), ![u].count = @ - 1]
  <2> DEFINE q == ul[u].blocked
             n == ul[u].count
             y == [ul[u] EXCEPT !.blocked = QueueRemove(q, t), !.count = n - 1]
  <2>1. ul' = [ul EXCEPT ![u] = y]
    BY <1>14, Zenon
  <2>2. ul[u] \in Ulock
    BY <1>2, Zenon DEF Types
  <2>3. q \in Seq(Threads) /\ n \in Int /\ n - 1 \in Int
    BY <2>2 DEF Ulock
  <2>4. t \in Range(q)
    BY <1>14, Zenon
  <2>5. QueueRemove(q, t) \in Seq(Threads) /\ q # <<>>
    BY <2>3, <2>4, QueueRemoveTyped, Zenon
  <2> HIDE DEF n
  <2>6. y \in Ulock
    BY <2>2, <2>3, <2>5, Zenon DEF Ulock
  <2>7. /\ y.owner = ul[u].owner /\ y.state = ul[u].state /\ y.ho_thread = ul[u].ho_thread
        /\ y.blocked = QueueRemove(q, t) /\ y.count = n - 1
    BY <2>2, Zenon DEF Ulock
  <2> HIDE DEF y
  <2>8. Owned(y, u \in held')
    BY <1>1, <1>2, <2>5, <2>7, Zenon DEF OwnershipAgrees, Owned
  <2>9. active => (u \in handoff' <=> y.ho_thread # None \/ s.pc = "offering")
    BY <1>1, <1>2, <1>8, <1>10, <2>7, Listed, Zenon
  <2>10. active /\ ~stray' => Pairs(t, u, s, y)
    BY <1>1, <1>8, <1>9, <2>7, Zenon DEF Pairs
  <2>11. ASSUME ~stray' PROVE Known'
    <3>1. Known
      BY <1>1, <2>11, Zenon DEF IInv
    <3>2. Range(q) = {x \in Threads : Member(x, u)} /\ IsInjective(q) /\ n = Len(q)
      BY <3>1, Zenon DEF Known, QueueExact, n
    <3>3. /\ \A x \in Threads : Member(x, u) <=> Links(th[x], u)
          /\ \A x \in Threads : Member(x, u)' <=> Links(th'[x], u) /\ s.target # x
      BY <1>2, <1>4, <1>10, <1>14, OneWaker, Zenon
    <3>4. ul'[u] = y /\ th'[t] = s /\ \A x \in Threads \ {t} : th'[x] = th[x]
      BY <1>2, <1>14, <2>1, Zenon DEF Types
    <3> HIDE DEF q
    <3>5. /\ Len(QueueRemove(q, t)) = Len(q) - 1 /\ IsInjective(QueueRemove(q, t))
          /\ Range(QueueRemove(q, t)) = Range(q) \ {t}
      BY <2>3, <2>4, <3>2, QueueRemoveFacts, Zenon
    <3>7. \A x \in Threads : Member(x, u)' <=> Member(x, u) /\ x # t
      BY <1>5, <1>8, <3>3, <3>4, LockConstants, Zenon
    <3>8. {x \in Threads : Member(x, u)'} = Range(q) \ {t}
      BY <3>2, <3>7, Zenon
    <3>9. QueueExact(u)'
      BY <2>7, <3>2, <3>4, <3>5, <3>8, Zenon DEF QueueExact
    <3>10. \A v \in Ulocks \ {u} : Links(s, v) <=> Links(th[t], v)
      BY <1>6, <1>8, Zenon DEF Links
    <3>11. \A x \in Threads : s.target # x
      BY <1>5, LockConstants, Zenon
    <3> QED
      BY <1>1, <1>2, <1>4, <1>8, <1>10, <1>11, <1>14, <2>1, <2>6, <2>7, <3>1, <3>9, <3>10, <3>11,
         KnownStep, ZenonT(30)
  <2>12. held' \in SUBSET Ulocks /\ handoff' \in SUBSET Ulocks
    BY <1>1, <1>2, Zenon DEF Types
  <2> QED
    BY <1>1, <1>2, <1>4, <1>8, <1>10, <1>14, <2>1, <2>6, <2>8, <2>9, <2>10, <2>11, <2>12,
       OneStep, Zenon
<1>15. CASE th[t].linked /\ t \notin Range(ul[u].blocked) /\ Crash(t) /\ ul' = ul
  BY <1>1, <1>12, <1>15, CrashStep, Zenon
<1> QED
  BY <1>7, <1>13, <1>14, <1>15, Zenon

(* The end of a hand-off.  An aborted thread finds its ulock on the list.  *)
LEMMA HandoffReturnsStep ==
  ASSUME IInv, NEW t \in Threads, HandoffReturns(t)
  PROVE  IInv'
<1> DEFINE r == IF th[t].linked THEN "aborted" ELSE th[t].result
           s == [th[t] EXCEPT !.pc = "idle", !.result = r]
<1>1. /\ th[t].pc = "handoff" /\ ~th[t].waiting /\ Runs(t)
      /\ held' = held /\ mp' = mp /\ active' = active
  BY Zenon DEF HandoffReturns
<1>2. Types /\ HandoffPaired /\ OwnershipAgrees /\ Shape(th[t])
  BY Zenon DEF IInv
<1>3. th[t] \in Thread
  BY <1>2, Zenon DEF Types
<1>4. s \in Thread
  <2>1. r \in {"none", "success", "unstable", "destroyed", "aborted"}
    BY <1>3, Zenon DEF Thread
  <2> HIDE DEF r
  <2> QED
    BY <1>3, <2>1, Zenon DEF Thread, Pcs
<1>5. /\ s.pc = "idle" /\ ~s.waiting /\ s.target = None
  BY <1>1, <1>2, <1>3, Zenon DEF Thread, Shape
<1>6. PICK u \in Ulocks : u = th[t].u
  BY <1>3, Zenon DEF Thread
<1>7. \/ /\ ~(th[t].linked /\ active) /\ th' = [th EXCEPT ![t] = s]
         /\ handoff' = handoff /\ ul' = ul
      \/ /\ th[t].linked /\ active /\ th' = [th EXCEPT ![t] = s]
         /\ handoff' = handoff \ {u} /\ ul' = [ul EXCEPT ![u].ho_thread = None]
      \/ /\ th[t].linked /\ active /\ u \notin handoff /\ Crash(t)
         /\ handoff' = handoff /\ ul' = ul
  BY <1>6, Zenon DEF HandoffReturns, Return
<1>8. /\ stray' = (stray \/ (~th[t].linked /\ ul[u].ho_thread = t))
      /\ stray' \in BOOLEAN /\ (stray => stray') /\ (th[t].linked => stray' = stray)
  <2>1. stray' = (stray \/ (~th[t].linked /\ ul[u].ho_thread = t))
    BY <1>6, Zenon DEF HandoffReturns
  <2> QED
    BY <1>2, <2>1, Zenon DEF Types
<1> HIDE DEF s
<1>9. /\ Shape(s) /\ s.pc # "offering" /\ s.pc # "crash" /\ th[t].pc # "offering" /\ ~Handing(s)
      /\ (\A v \in Ulocks : ~Links(s, v) /\ ~Links(th[t], v)) /\ \A x \in Threads : s.target # x
  BY <1>1, <1>5, LockConstants, Zenon DEF Shape, Handing, Links, Entering
<1>10. ASSUME ~stray, active, NEW v \in Ulocks, ul[v].ho_thread = t PROVE v = u
  BY <1>2, <1>6, <1>10, LockConstants, Zenon DEF HandoffPaired, HandingOff
<1>11. Quiet /\ \A o \in Threads \ {t} : th[o].pc \notin Between
  <2>1. th[t].pc # "wake"
    BY <1>1, Zenon
  <2> QED
    BY <1>1, <2>1, OnlyOne, NoWaker, Zenon
<1>12. ASSUME th' = [th EXCEPT ![t] = s] PROVE Expected(t)'
  <2>1. th'[t] = s
    BY <1>2, <1>12, Zenon DEF Types
  <2> QED
    BY <1>5, <2>1, Zenon DEF Expected, Entering, Handing
<1>13. ASSUME ~stray, th[t].linked, active PROVE ul[u].ho_thread = t /\ u \in handoff
  <2>1. ul[u].ho_thread = t
    BY <1>1, <1>6, <1>11, <1>13, Zenon DEF IInv, Known, Expected, Quiet, Handing
  <2>2. ul[u].ho_thread # None
    BY <2>1, LockConstants, Zenon
  <2> QED
    BY <1>2, <1>9, <1>11, <1>13, <2>1, <2>2, Listed, Zenon
<1>14. CASE /\ ~(th[t].linked /\ active) /\ th' = [th EXCEPT ![t] = s]
            /\ handoff' = handoff /\ ul' = ul
  <2>1. ~stray' /\ active => \A v \in Ulocks : ul[v].ho_thread # t
    BY <1>8, <1>10, <1>14, Zenon
  <2> QED
    BY <1>1, <1>4, <1>5, <1>8, <1>9, <1>11, <1>12, <1>14, <2>1, ThreadStep, Zenon
<1>15. CASE /\ th[t].linked /\ active /\ th' = [th EXCEPT ![t] = s]
            /\ handoff' = handoff \ {u} /\ ul' = [ul EXCEPT ![u].ho_thread = None]
  <2> DEFINE y == [ul[u] EXCEPT !.ho_thread = None]
  <2>1. ul' = [ul EXCEPT ![u] = y]
    BY <1>15, Zenon
  <2>2. ul[u] \in Ulock
    BY <1>2, Zenon DEF Types
  <2>3. y \in Ulock
    BY <2>2, Zenon DEF Ulock
  <2>4. /\ y.owner = ul[u].owner /\ y.state = ul[u].state /\ y.ho_thread = None
        /\ y.blocked = ul[u].blocked /\ y.count = ul[u].count
    BY <2>2, Zenon DEF Ulock
  <2> HIDE DEF y
  <2>5. Owned(y, u \in held')
    BY <1>1, <1>2, <2>4, Zenon DEF OwnershipAgrees, Owned
  <2>6. u \in handoff' <=> y.ho_thread # None \/ s.pc = "offering"
    BY <1>9, <1>15, <2>4, Zenon
  <2>7. Pairs(t, u, s, y)
    BY <1>6, <2>4, Zenon DEF Pairs
  <2>8. ASSUME ~stray' PROVE Known'
    <3>1. Known
      BY <1>8, <2>8, Zenon DEF IInv
    <3>2. ul'[u].blocked = ul[u].blocked /\ ul'[u].count = ul[u].count
      BY <1>2, <2>1, <2>4, Zenon DEF Types
    <3>3. QueueExact(u)'
      BY <1>2, <1>4, <1>9, <1>11, <1>15, <3>1, <3>2, QueueKept, Zenon
    <3>4. ul[u].ho_thread \in {None, t, s.target}
      BY <1>8, <1>13, <1>15, <2>8, Zenon
    <3> QED
      BY <1>1, <1>2, <1>4, <1>9, <1>11, <1>12, <1>15, <2>1, <2>3, <3>1, <3>3, <3>4, KnownStep, Zenon
  <2>9. /\ held' \in SUBSET Ulocks /\ handoff' \in SUBSET Ulocks
        /\ (\A v \in Ulocks \ {u} : v \in handoff' <=> v \in handoff)
    BY <1>1, <1>2, <1>15, Zenon DEF Types
  <2> QED
    BY <1>1, <1>4, <1>8, <1>9, <1>11, <1>15, <2>1, <2>3, <2>5, <2>6, <2>7, <2>8, <2>9, OneStep, Zenon
<1>16. CASE /\ th[t].linked /\ active /\ u \notin handoff /\ Crash(t)
            /\ handoff' = handoff /\ ul' = ul
  BY <1>1, <1>8, <1>13, <1>16, CrashStep, Zenon
<1> QED
  BY <1>7, <1>14, <1>15, <1>16, Zenon

-----------------------------------------------------------------------------
(* Steps that change several threads, and no ulock.                        *)
LEMMA CrowdStep ==
  ASSUME IInv, mp' = mp, active' = active, held' = held, handoff' = handoff, ul' = ul,
         stray' = stray, th' \in [Threads -> Thread],
         \A o \in Threads : Shape(th'[o]),
         \A o \in Threads : Handing(th[o]) => Handing(th'[o]) /\ th'[o].u = th[o].u,
         \A o \in Threads : th[o].pc # "offering" /\ th'[o].pc # "offering",
         Alone', ~stray => Known'
  PROVE  IInv'
<1>1. Types' /\ OwnershipAgrees'
  BY Zenon DEF IInv, Types, OwnershipAgrees
<1>2. ASSUME active, NEW v \in Ulocks
      PROVE  /\ (v \in handoff) = (ul[v].ho_thread # None \/ ~Unlocked(v))
             /\ ul[v].ho_thread # None /\ ~stray => HandsTo(th'[ul[v].ho_thread], v)
  <2>1. /\ (v \in handoff) = (ul[v].ho_thread # None \/ ~Unlocked(v))
        /\ ul[v].ho_thread # None /\ ~stray => HandsTo(th[ul[v].ho_thread], v)
    BY <1>2, Zenon DEF IInv, HandoffPaired, HandingOff, HandsTo, Handing
  <2>2. ul[v].ho_thread # None => ul[v].ho_thread \in Threads
    BY Zenon DEF IInv, Types, Ulock
  <2> QED
    BY <2>1, <2>2, Zenon DEF HandsTo
<1>3. \A v \in Ulocks : Unlocked(v) /\ Unlocked(v)'
  BY Zenon DEF Unlocked, Offering
<1>4. HandoffPaired'
  <2>1. active => \A v \in Ulocks : (v \in handoff) = (ul[v].ho_thread # None \/ ~Unlocked(v)')
    BY <1>2, <1>3
  <2> QED
    BY <1>2, <2>1, Zenon DEF HandoffPaired, HandingOff, HandsTo, Handing
<1>5. Offers'
  BY Zenon DEF Offers
<1> QED
  BY <1>1, <1>4, <1>5, Zenon DEF IInv

(* What a thread may be waiting for, and what becomes of it when the       *)
(* thread is woken or aborted.                                             *)
Eager(x) == Entering(x) /\ (x.waiting \/ x.pc = "enqueued")
Lent(x) == Handing(x) /\ (x.waiting \/ x.linked \/ x.pc = "offered")
Fades(x, s, woken) == /\ Eager(s) => Eager(x) /\ s.linked = x.linked /\ ~woken
                      /\ Lent(s) => Lent(x) /\ s.u = x.u /\ ~woken
                      /\ \A u \in Ulocks : Links(s, u) <=> Links(x, u) /\ ~woken

(* A thread that waits for nothing, and one that is told.                  *)
LEMMA FadesKind ==
  ASSUME NEW x \in Thread, NEW s \in Thread, NEW woken \in BOOLEAN,
         \/ /\ x.pc \in {"idle", "wake", "terminate"} /\ s.pc \in {"idle", "wake", "terminate"}
         \/ /\ s.pc = x.pc /\ s.u = x.u /\ s.linked = (x.linked /\ ~woken)
            /\ s.waiting => x.waiting /\ ~woken
            /\ woken => x.pc \notin Between
  PROVE  Fades(x, s, woken)
<1>1. CASE x.pc \in {"idle", "wake", "terminate"} /\ s.pc \in {"idle", "wake", "terminate"}
  BY <1>1, Zenon DEF Fades, Eager, Lent, Links, Entering, Handing
<1>2. CASE /\ s.pc = x.pc /\ s.u = x.u /\ s.linked = (x.linked /\ ~woken)
           /\ s.waiting => x.waiting /\ ~woken
           /\ woken => x.pc \notin Between
  <2>1. CASE woken
    <3>1. ~s.linked /\ ~s.waiting /\ s.pc # "enqueued" /\ s.pc # "offered"
      BY <1>2, <2>1, Zenon DEF Between
    <3> QED
      BY <2>1, <3>1, Zenon DEF Fades, Eager, Lent, Links
  <2>2. CASE ~woken
    <3>1. s.linked = x.linked /\ (s.waiting => x.waiting) /\ s.pc = x.pc /\ s.u = x.u
      BY <1>2, <2>2, Zenon DEF Thread
    <3> QED
      BY <2>2, <3>1, Zenon DEF Fades, Eager, Lent, Links, Entering, Handing
  <2> QED
    BY <2>1, <2>2, Zenon
<1> QED
  BY <1>1, <1>2, Zenon

(* Everybody is known again when nobody is being woken any more.           *)
LEMMA CrowdKnown ==
  ASSUME Known, active' = active, ul' = ul, NEW w,
         \A x \in Threads : BeingWoken(x) <=> x = w,
         \A o \in Threads : th'[o].target = None /\ th'[o].pc # "crash",
         \A x \in Threads : Fades(th[x], th'[x], x = w)
  PROVE  Known'
<1>1. ASSUME NEW x \in Threads PROVE ~BeingWoken(x)'
  <2>1. x # None
    BY LockConstants, Zenon
  <2> QED
    BY <2>1, Zenon DEF BeingWoken
<1>2. ASSUME NEW x \in Threads PROVE Expected(x)'
  <2>1. Expected(x) /\ Fades(th[x], th'[x], x = w) /\ (BeingWoken(x) <=> x = w)
    BY Zenon DEF Known
  <2>2. Eager(th'[x]) => th'[x].linked
    BY <2>1, Zenon DEF Expected, Fades, Eager
  <2>3. Lent(th'[x]) => active /\ ul[th'[x].u].ho_thread = x
    BY <2>1, Zenon DEF Expected, Fades, Lent
  <2> QED
    BY <2>2, <2>3, Zenon DEF Expected, Eager, Lent
<1>3. ASSUME NEW u \in Ulocks PROVE QueueExact(u)'
  <2>1. ASSUME NEW x \in Threads PROVE Member(x, u)' <=> Member(x, u)
    <3>1. Member(x, u) <=> Links(th[x], u) /\ x # w
      BY Zenon DEF Member, Acquiring, Links, Entering
    <3>2. Member(x, u)' <=> Links(th'[x], u)
      BY <1>1, Zenon DEF Member, Acquiring, Links, Entering
    <3> QED
      BY <3>1, <3>2, Zenon DEF Fades
  <2>2. {x \in Threads : Member(x, u)}' = {x \in Threads : Member(x, u)}
    BY <2>1, Zenon
  <2> QED
    BY <2>2, Zenon DEF Known, QueueExact
<1> QED
  BY <1>2, <1>3, Zenon DEF Known

(* The call to clear_wait, after the locks were dropped.                   *)
LEMMA WakeStep ==
  ASSUME IInv, NEW t \in Threads, Wake(t)
  PROVE  IInv'
<1>1. th[t].pc = "wake" /\ UNCHANGED <<mp, active, held, handoff, ul, stray>>
  BY Zenon DEF Wake
<1>2. Types /\ (\A o \in Threads : Shape(th[o]) /\ th[o] \in Thread)
  BY Zenon DEF IInv, Types
<1>3. PICK w \in Threads : w = th[t].target
  BY <1>1, <1>2, Zenon DEF Shape, Thread
<1> DEFINE pc == IF th[t].victim = None THEN "idle" ELSE "terminate"
           a == [th[t] EXCEPT !.pc = pc, !.target = None, !.news = "none"]
           after == [th EXCEPT ![t] = a]
           news == th[t].news
           b == Completed(after[w], news)
<1>4. th' = [after EXCEPT ![w] = b]
  BY <1>3, Zenon DEF Wake
<1>5. pc \in {"idle", "terminate"} /\ pc \in Pcs /\ (pc = "terminate" => th[t].victim # None)
  BY Zenon DEF Pcs
<1> HIDE DEF pc
<1>6. a \in Thread
  <2>1. th[t] \in Thread
    BY <1>2, Zenon
  <2> QED
    BY <1>5, <2>1, Zenon DEF Thread
<1>7. /\ a.pc = pc /\ a.u = th[t].u /\ a.linked = th[t].linked /\ a.target = None
      /\ a.waiting = th[t].waiting /\ a.victim = th[t].victim /\ ~th[t].waiting
  BY <1>1, <1>2, ZenonT(30) DEF Thread, Shape
<1> HIDE DEF a
<1>8. after \in [Threads -> Thread] /\ after[t] = a /\ \A o \in Threads \ {t} : after[o] = th[o]
  BY <1>2, <1>6, Zenon DEF Types
<1> HIDE DEF after
<1>9. after[w] \in Thread
  BY <1>8, Zenon
<1>10. news \in {"none", "success", "unstable", "destroyed", "aborted"}
  BY <1>2, Zenon DEF Thread
<1> HIDE DEF news
<1>11. b \in Thread
  <2>1. CASE after[w].waiting
    <3>1. b = [after[w] EXCEPT !.linked = FALSE, !.waiting = FALSE, !.result = news]
      BY <2>1, Zenon DEF Completed
    <3> QED
      BY <1>9, <1>10, <3>1, Zenon DEF Thread
  <2>2. CASE ~after[w].waiting
    <3>1. b = [after[w] EXCEPT !.linked = FALSE]
      BY <2>2, Zenon DEF Completed
    <3> QED
      BY <1>9, <3>1, Zenon DEF Thread
  <2> QED
    BY <2>1, <2>2, Zenon
<1>12. /\ b.pc = after[w].pc /\ b.u = after[w].u /\ b.linked = FALSE /\ b.waiting = FALSE
       /\ b.target = after[w].target /\ b.victim = after[w].victim
  BY <1>9, Zenon DEF Completed, Thread
<1> HIDE DEF b
<1>13. th' \in [Threads -> Thread] /\ th'[w] = b /\ \A o \in Threads \ {w} : th'[o] = after[o]
  BY <1>4, <1>8, <1>11, Zenon
<1>14. ASSUME NEW o \in Threads
       PROVE  /\ o = t => th'[o].pc = pc /\ th'[o].target = None /\ ~th'[o].waiting
              /\ o # t => th'[o].pc = th[o].pc /\ th'[o].target = th[o].target
              /\ th'[o].u = th[o].u /\ th'[o].victim = th[o].victim
              /\ th'[o].linked = (th[o].linked /\ o # w)
              /\ th'[o].waiting => th[o].waiting /\ o # w
  <2>1. th[o] \in Thread /\ th[o].linked \in BOOLEAN
    BY <1>2, Zenon DEF Thread
  <2>2. CASE o = w
    BY <1>7, <1>8, <1>12, <1>13, <2>1, <2>2, Zenon
  <2>3. CASE o # w
    BY <1>7, <1>8, <1>13, <2>1, <2>3, Zenon
  <2> QED
    BY <2>2, <2>3, Zenon
<1>15. ASSUME NEW o \in Threads
       PROVE  Shape(th'[o]) /\ (Handing(th[o]) => Handing(th'[o]) /\ th'[o].u = th[o].u)
  <2>1. CASE o = t
    BY <1>1, <1>5, <1>14, <2>1, Zenon DEF Shape, Handing
  <2>2. CASE o # t
    BY <1>2, <1>14, <2>2, Zenon DEF Shape, Handing
  <2> QED
    BY <2>1, <2>2, Zenon
<1>16. /\ Alone' /\ (\A o \in Threads \ {t} : th[o].pc \notin Between)
       /\ \A o \in Threads : th[o].pc # "offering" /\ th'[o].pc # "offering"
  <2>1. \A o \in Threads \ {t} : th[o].pc \notin Between
    BY <1>1, OnlyOne, Zenon DEF Between
  <2>2. \A o \in Threads \ {t} : th'[o].pc \notin Between
    BY <1>14, <2>1, Zenon
  <2>3. \A o \in Threads : th[o].pc # "offering"
    BY <1>1, <2>1, Zenon DEF Between
  <2>4. \A o \in Threads : th'[o].pc # "offering"
    BY <1>5, <1>14, <2>3, Zenon
  <2> QED
    BY <2>1, <2>2, <2>3, <2>4, Zenon DEF Alone
<1>17. ASSUME ~stray PROVE Known'
  <2>1. Known
    BY <1>17, Zenon DEF IInv
  <2>2. \A o \in Threads \ {t} : th[o].target = None
    BY <1>2, <1>16, Zenon DEF Shape, Between
  <2>3. \A x \in Threads : BeingWoken(x) <=> x = w
    BY <1>3, <2>2, LockConstants, Zenon DEF BeingWoken
  <2>4. \A o \in Threads : th'[o].target = None /\ th'[o].pc # "crash"
    BY <1>5, <1>14, <2>1, <2>2, Zenon DEF Known
  <2>5. ASSUME NEW x \in Threads PROVE Fades(th[x], th'[x], x = w)
    <3>1. th[x] \in Thread /\ th'[x] \in Thread /\ (x = w) \in BOOLEAN
      BY <1>2, <1>13, Zenon
    <3>2. CASE x = t
      <4>1. th[x].pc \in {"idle", "wake", "terminate"} /\ th'[x].pc \in {"idle", "wake", "terminate"}
        BY <1>1, <1>5, <1>14, <3>2, Zenon
      <4> QED
        BY <3>1, <4>1, FadesKind, Zenon
    <3>3. CASE x # t
      <4>1. th[x].pc \notin Between
        BY <1>16, <3>3, Zenon
      <4> QED
        BY <1>14, <3>1, <3>3, <4>1, FadesKind, Zenon
    <3> QED
      BY <3>2, <3>3, Zenon
  <2> QED
    BY <1>1, <2>1, <2>3, <2>4, <2>5, CrowdKnown, Zenon
<1> QED
  BY <1>1, <1>13, <1>15, <1>16, <1>17, CrowdStep, Zenon

(* thread_terminate of v by t: the activation is marked dead.              *)
LEMMA TerminateStep ==
  ASSUME IInv, NEW t \in Threads, NEW v \in Threads, Terminate(t, v)
  PROVE  IInv'
<1> DEFINE a == [th[v] EXCEPT !.alive = FALSE]
           f == [th EXCEPT ![v] = a]
           b == [f[t] EXCEPT !.pc = "terminate", !.victim = v]
<1>1. /\ Calls(t) /\ UNCHANGED <<mp, active, held, handoff, ul, stray>>
      /\ th' = [f EXCEPT ![t] = b]
  BY Zenon DEF Terminate
<1>2. /\ Types /\ th[t].pc = "idle" /\ ~th[t].waiting /\ th[t].target = None
      /\ Quiet /\ Known /\ (\A o \in Threads \ {t} : th[o].pc \notin Between)
      /\ \A o \in Threads : Shape(th[o])
  BY <1>1, CallFacts, Zenon DEF IInv
<1>3. th[v] \in Thread /\ \A o \in Threads : th[o] \in Thread
  BY <1>2, Zenon DEF Types
<1>4. a \in Thread
  BY <1>3, Zenon DEF Thread
<1>5. /\ a.pc = th[v].pc /\ a.u = th[v].u /\ a.linked = th[v].linked /\ a.target = th[v].target
      /\ a.waiting = th[v].waiting /\ a.victim = th[v].victim
  BY <1>3, Zenon DEF Thread
<1> HIDE DEF a
<1>6. f \in [Threads -> Thread] /\ f[v] = a /\ \A o \in Threads \ {v} : f[o] = th[o]
  BY <1>2, <1>4, Zenon DEF Types
<1> HIDE DEF f
<1>7. f[t] \in Thread
  BY <1>6, Zenon
<1>8. b \in Thread
  BY <1>7, Zenon DEF Thread, Pcs
<1>9. /\ b.pc = "terminate" /\ b.u = f[t].u /\ b.linked = f[t].linked /\ b.target = f[t].target
      /\ b.waiting = f[t].waiting /\ b.victim = v
  BY <1>7, Zenon DEF Thread
<1> HIDE DEF b
<1>10. th' \in [Threads -> Thread] /\ th'[t] = b /\ \A o \in Threads \ {t} : th'[o] = f[o]
  BY <1>1, <1>6, <1>8, Zenon
<1>11. ASSUME NEW o \in Threads
       PROVE  /\ o = t => th'[o].pc = "terminate" /\ th'[o].victim = v
              /\ o # t => th'[o].pc = th[o].pc /\ th'[o].victim = th[o].victim
              /\ th'[o].u = th[o].u /\ th'[o].target = th[o].target
              /\ th'[o].linked = th[o].linked /\ th'[o].waiting = th[o].waiting
  <2>1. /\ f[o].pc = th[o].pc /\ f[o].victim = th[o].victim
        /\ f[o].u = th[o].u /\ f[o].target = th[o].target
        /\ f[o].linked = th[o].linked /\ f[o].waiting = th[o].waiting
    BY <1>5, <1>6, Zenon
  <2> QED
    BY <1>9, <1>10, <2>1, Zenon
<1>12. ASSUME NEW o \in Threads
       PROVE  Shape(th'[o]) /\ (Handing(th[o]) => Handing(th'[o]) /\ th'[o].u = th[o].u)
  <2>1. CASE o = t
    <3>1. th'[o].pc = "terminate" /\ th'[o].target = None /\ ~th'[o].waiting /\ th'[o].victim # None
      BY <1>2, <1>11, <2>1, LockConstants, ZenonT(30)
    <3> QED
      BY <1>2, <2>1, <3>1, Zenon DEF Shape, Handing
  <2>2. CASE o # t
    BY <1>2, <1>11, <2>2 DEF Shape, Handing
  <2> QED
    BY <2>1, <2>2, Zenon
<1>13. Alone' /\ \A o \in Threads : th[o].pc # "offering" /\ th'[o].pc # "offering"
  <2>1. \A o \in Threads \ {t} : th'[o].pc \notin Between
    BY <1>2, <1>11, Zenon
  <2>2. \A o \in Threads : th[o].pc # "offering"
    BY <1>2, Zenon DEF Between
  <2>3. \A o \in Threads : th'[o].pc # "offering"
    BY <1>11, <2>2, Zenon
  <2> QED
    BY <2>1, <2>2, <2>3, Zenon DEF Alone
<1>14. Known'
  <2>1. Known /\ Quiet
    BY <1>2, Zenon
  <2>2. \A x \in Threads : BeingWoken(x) <=> x = None
    BY <2>1, LockConstants, Zenon DEF Quiet
  <2>3. \A o \in Threads : th'[o].target = None /\ th'[o].pc # "crash"
    BY <1>2, <1>11 DEF Shape, Between, Known
  <2>4. ASSUME NEW x \in Threads PROVE Fades(th[x], th'[x], x = None)
    <3>1. th[x] \in Thread /\ th'[x] \in Thread /\ (x = None) \in BOOLEAN /\ x # None
      BY <1>3, <1>10, LockConstants, Zenon
    <3>2. CASE x = t
      <4>1. th[x].pc \in {"idle", "wake", "terminate"} /\ th'[x].pc \in {"idle", "wake", "terminate"}
        BY <1>2, <1>11, <3>2, Zenon
      <4> QED
        BY <3>1, <4>1, FadesKind, Zenon
    <3>3. CASE x # t
      <4>1. th[x].linked = (th[x].linked /\ x # None)
        BY <3>1, Zenon DEF Thread
      <4> QED
        BY <1>11, <3>1, <3>3, <4>1, FadesKind, Zenon
    <3> QED
      BY <3>2, <3>3, Zenon
  <2> QED
    BY <1>1, <2>1, <2>2, <2>3, <2>4, CrowdKnown, Zenon
<1> QED
  BY <1>1, <1>10, <1>12, <1>13, <1>14, CrowdStep, Zenon

(* act_ulock_release_all, and the abort that follows it.                   *)
LEMMA ReleaseAllStep ==
  ASSUME IInv, NEW t \in Threads, ReleaseAll(t)
  PROVE  IInv'
<1>1. th[t].pc = "terminate" /\ Types /\ Busy(t) /\ \A o \in Threads : Shape(th[o])
  BY Zenon DEF ReleaseAll, IInv, Busy
<1>2. PICK v \in Threads : v = th[t].victim
  BY <1>1, Zenon DEF Shape, Types, Thread
<1>3. CASE \E u \in Ulocks : ul[u].owner = v /\ Release(t, u, v)
  <2>1. PICK u \in Ulocks : ul[u].owner = v /\ Release(t, u, v)
    BY <1>3, Zenon
  <2>2. ul[u].owner # None /\ v \in Threads \union {None}
    BY <2>1, LockConstants, Zenon
  <2> QED
    BY <1>1, <2>1, <2>2, ReleaseToNobody, ReleaseToWaiter, Zenon
<1> SUFFICES ASSUME ~(\E u \in Ulocks : ul[u].owner = v /\ Release(t, u, v))
             PROVE  IInv'
  BY <1>3, Zenon
<1> DEFINE X(o) == IF o = t THEN [th[t] EXCEPT !.pc = "idle", !.victim = None] ELSE th[o]
           Y(o) == IF o = v /\ X(o).waiting
                     THEN [X(o) EXCEPT !.waiting = FALSE, !.result = "aborted"]
                     ELSE X(o)
<1>4. th' = [o \in Threads |-> Y(o)] /\ UNCHANGED <<mp, active, held, handoff, ul, stray>>
  <2>1. ~(\E u \in {z \in Ulocks : ul[z].owner = th[t].victim} : Release(t, u, th[t].victim))
    BY <1>2, Zenon
  <2> QED
    BY <1>2, <2>1, Zenon DEF ReleaseAll
<1>5. ASSUME NEW o \in Threads
      PROVE  /\ X(o) \in Thread /\ X(o).u = th[o].u /\ X(o).linked = th[o].linked
             /\ X(o).target = th[o].target /\ X(o).waiting = th[o].waiting
             /\ X(o).pc = (IF o = t THEN "idle" ELSE th[o].pc)
             /\ o # t => X(o).victim = th[o].victim
  <2>1. th[o] \in Thread
    BY <1>1, Zenon DEF Types
  <2>2. CASE o = t
    <3>1. X(o) = [th[o] EXCEPT !.pc = "idle", !.victim = None]
      BY <2>2, Zenon
    <3>2. X(o) \in Thread
      <4>1. [th[o] EXCEPT !.pc = "idle"] \in Thread
        BY <2>1, Zenon DEF Thread, Pcs
      <4>2. [[th[o] EXCEPT !.pc = "idle"] EXCEPT !.victim = None] \in Thread
        BY <4>1, Zenon DEF Thread
      <4>3. X(o) = [[th[o] EXCEPT !.pc = "idle"] EXCEPT !.victim = None]
        BY <2>1, <3>1, Zenon DEF Thread
      <4> QED
        BY <4>2, <4>3, Zenon
    <3>3. /\ X(o).u = th[o].u /\ X(o).linked = th[o].linked /\ X(o).target = th[o].target
          /\ X(o).waiting = th[o].waiting /\ X(o).pc = "idle"
      BY <2>1, <3>1, Zenon DEF Thread
    <3> QED
      BY <2>2, <3>2, <3>3, Zenon
  <2>3. CASE o # t
    <3>1. X(o) = th[o]
      BY <2>3, Zenon
    <3> QED
      BY <2>1, <2>3, <3>1, Zenon
  <2> QED
    BY <2>2, <2>3, Zenon
<1> HIDE DEF X
<1>6. ASSUME NEW o \in Threads
      PROVE  /\ Y(o) \in Thread /\ Y(o).u = X(o).u /\ Y(o).linked = X(o).linked
             /\ Y(o).target = X(o).target /\ (Y(o).waiting => X(o).waiting)
             /\ Y(o).pc = X(o).pc /\ Y(o).victim = X(o).victim
  <2>1. X(o) \in Thread
    BY <1>5, Zenon
  <2>2. CASE o = v /\ X(o).waiting
    <3>1. Y(o) = [X(o) EXCEPT !.waiting = FALSE, !.result = "aborted"]
      BY <2>2, Zenon
    <3>2. Y(o) \in Thread
      BY <2>1, <3>1, Zenon DEF Thread
    <3>3. /\ Y(o).u = X(o).u /\ Y(o).linked = X(o).linked /\ Y(o).target = X(o).target
          /\ Y(o).pc = X(o).pc /\ Y(o).victim = X(o).victim
      BY <2>1, <3>1, Zenon DEF Thread
    <3> QED
      BY <2>2, <3>2, <3>3, Zenon
  <2>3. CASE ~(o = v /\ X(o).waiting)
    <3>1. Y(o) = X(o)
      BY <2>3, Zenon
    <3> QED
      BY <2>1, <3>1, Zenon
  <2> QED
    BY <2>2, <2>3, Zenon
<1> HIDE DEF Y
<1>7. th' \in [Threads -> Thread]
  BY <1>4, <1>6, Zenon
<1>8. ASSUME NEW o \in Threads
      PROVE  /\ o = t => th'[o].pc = "idle"
             /\ o # t => th'[o].pc = th[o].pc /\ th'[o].victim = th[o].victim
             /\ th'[o].u = th[o].u /\ th'[o].target = th[o].target
             /\ th'[o].linked = th[o].linked /\ (th'[o].waiting => th[o].waiting)
  <2>1. th'[o] = Y(o)
    BY <1>4, Zenon
  <2> QED
    BY <1>5, <1>6, <2>1, ZenonT(30)
<1>9. ASSUME NEW o \in Threads
      PROVE  Shape(th'[o]) /\ (Handing(th[o]) => Handing(th'[o]) /\ th'[o].u = th[o].u)
  <2>1. CASE o = t
    <3>1. th[t].target = None /\ ~th[t].waiting
      BY <1>1, Zenon DEF Shape
    <3> QED
      BY <1>1, <1>8, <2>1, <3>1, Zenon DEF Shape, Handing
  <2>2. CASE o # t
    BY <1>1, <1>8, <2>2 DEF Shape, Handing
  <2> QED
    BY <2>1, <2>2, Zenon
<1>10. Quiet /\ \A o \in Threads \ {t} : th[o].pc \notin Between
  BY <1>1, BusyFacts, Zenon
<1>11. Alone' /\ \A o \in Threads : th[o].pc # "offering" /\ th'[o].pc # "offering"
  <2>1. \A o \in Threads \ {t} : th'[o].pc \notin Between
    BY <1>8, <1>10, Zenon
  <2>2. \A o \in Threads : th[o].pc # "offering"
    BY <1>1, <1>10, Zenon DEF Between
  <2>3. \A o \in Threads : th'[o].pc # "offering"
    BY <1>8, <2>2, Zenon
  <2> QED
    BY <2>1, <2>2, <2>3, Zenon DEF Alone
<1>12. ASSUME ~stray PROVE Known'
  <2>1. Known /\ Quiet
    BY <1>10, <1>12, Zenon DEF IInv
  <2>2. \A x \in Threads : BeingWoken(x) <=> x = None
    BY <2>1, LockConstants, Zenon DEF Quiet
  <2>3. \A o \in Threads : th'[o].target = None /\ th'[o].pc # "crash"
    BY <1>1, <1>8, <1>10, <2>1 DEF Shape, Between, Known
  <2>4. ASSUME NEW x \in Threads PROVE Fades(th[x], th'[x], x = None)
    <3>1. th[x] \in Thread /\ th'[x] \in Thread /\ (x = None) \in BOOLEAN /\ x # None
      BY <1>1, <1>7, LockConstants, Zenon DEF Types
    <3>2. CASE x = t
      <4>1. th[x].pc \in {"idle", "wake", "terminate"} /\ th'[x].pc \in {"idle", "wake", "terminate"}
        BY <1>1, <1>8, <3>2, Zenon
      <4> QED
        BY <3>1, <4>1, FadesKind, Zenon
    <3>3. CASE x # t
      <4>1. th[x].linked = (th[x].linked /\ x # None)
        BY <3>1, Zenon DEF Thread
      <4> QED
        BY <1>8, <3>1, <3>3, <4>1, FadesKind, Zenon
    <3> QED
      BY <3>2, <3>3, Zenon
  <2> QED
    BY <1>4, <2>1, <2>2, <2>3, <2>4, CrowdKnown, Zenon
<1> QED
  BY <1>4, <1>7, <1>9, <1>11, <1>12, CrowdStep, Zenon

(* lock_set_destroy.  Every ulock on the hand-off list has its ho_thread.  *)
LEMMA LockSetDestroyStep ==
  ASSUME IInv, NEW t \in Threads, LockSetDestroy(t)
  PROVE  IInv'
<1> DEFINE woken == (UNION {Range(ul[u].blocked) : u \in held}) \union {ul[u].ho_thread : u \in handoff}
           Y(u) == IF u \in held THEN [ul[u] EXCEPT !.owner = None, !.blocked = <<>>,
                                                    !.count = @ - Len(ul[u].blocked)]
                                 ELSE ul[u]
           X(o) == IF o \in woken THEN Completed(th[o], "destroyed") ELSE th[o]
<1>0. Calls(t) /\ active
  BY Zenon DEF LockSetDestroy
<1>11. ~\E u \in handoff : ul[u].ho_thread = None
  BY <1>0, CallFacts, Zenon DEF Types
<1>1. /\ Calls(t) /\ active /\ ~active' /\ active' \in BOOLEAN /\ held' = {} /\ handoff' = {}
      /\ mp' = mp /\ stray' = stray
      /\ ul' = [u \in Ulocks |-> Y(u)] /\ th' = [o \in Threads |-> X(o)]
  BY <1>11, Zenon DEF LockSetDestroy
<1>2. Types /\ HandoffPaired /\ OwnershipAgrees /\ \A o \in Threads : Shape(th[o])
  BY Zenon DEF IInv
<1>3. ASSUME NEW o \in Threads
      PROVE  /\ X(o) \in Thread /\ X(o).pc = th[o].pc /\ X(o).u = th[o].u
             /\ X(o).target = th[o].target /\ X(o).victim = th[o].victim
             /\ X(o).waiting => th[o].waiting /\ o \notin woken
             /\ X(o).linked => th[o].linked /\ o \notin woken
  <2>1. th[o] \in Thread
    BY <1>2, Zenon DEF Types
  <2>2. CASE o \notin woken
    <3>1. X(o) = th[o]
      BY <2>2, Zenon
    <3> HIDE DEF X, woken
    <3> QED
      BY <2>1, <2>2, <3>1, Zenon
  <2>3. CASE o \in woken /\ th[o].waiting
    <3>1. X(o) = [th[o] EXCEPT !.linked = FALSE, !.waiting = FALSE, !.result = "destroyed"]
      BY <2>3, Zenon DEF Completed
    <3> HIDE DEF X, woken
    <3>2. X(o) \in Thread
      BY <2>1, <3>1, Zenon DEF Thread
    <3>3. /\ X(o).pc = th[o].pc /\ X(o).u = th[o].u /\ X(o).waiting = FALSE /\ X(o).linked = FALSE
          /\ X(o).target = th[o].target /\ X(o).victim = th[o].victim
      BY <2>1, <3>1, Zenon DEF Thread
    <3> QED
      BY <3>2, <3>3, Zenon
  <2>4. CASE o \in woken /\ ~th[o].waiting
    <3>1. X(o) = [th[o] EXCEPT !.linked = FALSE]
      BY <2>4, Zenon DEF Completed
    <3> HIDE DEF X, woken
    <3>2. X(o) \in Thread
      BY <2>1, <3>1, Zenon DEF Thread
    <3>3. /\ X(o).pc = th[o].pc /\ X(o).u = th[o].u /\ ~X(o).waiting /\ X(o).linked = FALSE
          /\ X(o).target = th[o].target /\ X(o).victim = th[o].victim
      BY <2>1, <2>4, <3>1, Zenon DEF Thread
    <3> QED
      BY <3>2, <3>3, Zenon
  <2> QED
    BY <2>2, <2>3, <2>4, Zenon
<1> HIDE DEF X
<1>4. ASSUME NEW u \in Ulocks
      PROVE  /\ Y(u) \in Ulock /\ Y(u).owner = None /\ Y(u).blocked = <<>>
             /\ ul[u].count = Len(ul[u].blocked) => Y(u).count = 0
  <2>1. ul[u] \in Ulock /\ (u \in held) = (ul[u].owner # None)
        /\ (ul[u].blocked # <<>> => u \in held)
    BY <1>2, Zenon DEF Types, OwnershipAgrees
  <2>2. CASE u \notin held
    <3>1. Y(u) = ul[u] /\ ul[u].owner = None /\ ul[u].blocked = <<>>
      BY <2>1, <2>2, Zenon
    <3> HIDE DEF Y
    <3> QED
      BY <2>1, <3>1, Zenon
  <2>3. CASE u \in held
    <3> DEFINE n == ul[u].count - Len(ul[u].blocked)
    <3>1. Y(u) = [ul[u] EXCEPT !.owner = None, !.blocked = <<>>, !.count = n]
      BY <2>3, Zenon
    <3>2. n \in Int /\ <<>> \in Seq(Threads) /\ (ul[u].count = Len(ul[u].blocked) => n = 0)
      BY <2>1 DEF Ulock
    <3> HIDE DEF Y, n
    <3>3. ul[u] \in Ulock
      BY <2>1, Zenon
    <3>4. Y(u) \in Ulock
      BY <3>1, <3>2, <3>3, Zenon DEF Ulock
    <3>5. Y(u).owner = None /\ Y(u).blocked = <<>> /\ Y(u).count = n
      BY <3>1, <3>3, Zenon DEF Ulock
    <3> QED
      BY <3>2, <3>4, <3>5, Zenon
  <2> QED
    BY <2>2, <2>3, Zenon
<1> HIDE DEF Y
<1>5. /\ th' \in [Threads -> Thread] /\ (\A o \in Threads : th'[o] = X(o))
      /\ ul' \in [Ulocks -> Ulock] /\ (\A u \in Ulocks : ul'[u] = Y(u))
  BY <1>1, <1>3, <1>4, Zenon
<1>6. Types'
  BY <1>1, <1>2, <1>5, Zenon DEF Types
<1>7. OwnershipAgrees' /\ HandoffPaired'
  BY <1>1, <1>4, <1>5 DEF OwnershipAgrees, HandoffPaired
<1>8. \A o \in Threads : Shape(th'[o])
  BY <1>2, <1>3, <1>5 DEF Shape
<1>9. Alone' /\ Offers'
  <2>1. \A o \in Threads : th[o].pc \notin Between
    BY <1>1, CallFacts, Zenon DEF Between
  <2>2. \A o \in Threads : th'[o].pc \notin Between
    BY <1>3, <1>5, <2>1, Zenon
  <2> QED
    BY <2>2, Zenon DEF Alone, Offers, Between
<1>10. Known'
  <2>1. /\ Quiet /\ Known /\ th[t].pc = "idle" /\ ~stray
        /\ \A o \in Threads \ {t} : th[o].pc \notin Between
    BY <1>1, CallFacts, Zenon
  <2>2. ASSUME NEW x \in Threads, NEW u \in Ulocks, Links(th[x], u) PROVE x \in woken
    <3>1. x \in Range(ul[u].blocked)
      BY <2>1, <2>2, Zenon DEF Known, QueueExact, Member, Quiet, Acquiring, Links, Entering
    <3>2. ul[u].blocked # <<>>
      BY <3>1 DEF Range
    <3>3. u \in held
      BY <1>2, <3>2, Zenon DEF OwnershipAgrees
    <3> QED
      BY <3>1, <3>3, Zenon
  <2>3. ASSUME NEW x \in Threads, Lent(th[x]) PROVE x \in woken
    <3>1. PICK u \in Ulocks : u = th[x].u
      BY <1>2, Zenon DEF Types, Thread
    <3>2. ul[u].ho_thread = x
      BY <2>1, <2>3, <3>1, Zenon DEF Known, Expected, Quiet, Lent
    <3>3. u \in handoff
      BY <1>1, <3>2, CallFacts, LockConstants, Zenon
    <3>4. x \in {ul[z].ho_thread : z \in handoff}
      BY <3>2, <3>3, Zenon
    <3> QED
      BY <3>4, Zenon
  <2> HIDE DEF woken
  <2>4. ASSUME NEW x \in Threads PROVE Expected(x)'
    <3>1. th[x].pc # "enqueued" /\ th[x].pc # "offered"
      BY <2>1, Zenon DEF Between
    <3>2. th'[x] = X(x) /\ th[x].u \in Ulocks /\ Expected(x) /\ ~BeingWoken(x)
      BY <1>2, <1>5, <2>1, Zenon DEF Types, Thread, Known, Quiet
    <3>3. ~Eager(X(x))
      <4>1. ASSUME Eager(X(x)) PROVE FALSE
        <5>1. Eager(th[x]) /\ x \notin woken
          BY <1>3, <3>1, <4>1, Zenon DEF Eager, Entering
        <5>2. Links(th[x], th[x].u)
          BY <3>2, <5>1, Zenon DEF Expected, Eager, Links
        <5> QED
          BY <2>2, <3>2, <5>1, <5>2, Zenon
      <4> QED
        BY <4>1, Zenon
    <3>4. ~Lent(X(x))
      <4>1. ASSUME Lent(X(x)) PROVE FALSE
        <5>1. Lent(th[x]) /\ x \notin woken
          BY <1>3, <3>1, <4>1, Zenon DEF Lent, Handing
        <5> QED
          BY <2>3, <5>1, Zenon
      <4> QED
        BY <4>1, Zenon
    <3> QED
      BY <3>2, <3>3, <3>4, Zenon DEF Expected, Eager, Lent
  <2>5. ASSUME NEW u \in Ulocks PROVE QueueExact(u)'
    <3>1. ASSUME NEW x \in Threads PROVE ~Member(x, u)'
      <4>1. th'[x] = X(x)
        BY <1>5, Zenon
      <4>2. ~Links(X(x), u)
        BY <1>3, <2>2, Zenon DEF Links, Entering
      <4> QED
        BY <4>1, <4>2, Zenon DEF Member, Acquiring, Links, Entering
    <3>2. {x \in Threads : Member(x, u)}' = {}
      BY <3>1, Zenon
    <3>3. ul[u].count = Len(ul[u].blocked)
      BY <2>1, Zenon DEF Known, QueueExact
    <3>4. ul'[u].blocked = <<>> /\ ul'[u].count = 0
      BY <1>4, <1>5, <3>3, Zenon
    <3>5. Range(<<>>) = {} /\ IsInjective(<<>>) /\ Len(<<>>) = 0
      BY DEF Range, IsInjective
    <3> QED
      BY <3>2, <3>4, <3>5, Zenon DEF QueueExact
  <2>6. \A x \in Threads : th'[x].pc # "crash"
    BY <1>3, <1>5, <2>1, Zenon DEF Known
  <2> QED
    BY <2>4, <2>5, <2>6, Zenon DEF Known
<1> QED
  BY <1>1, <1>6, <1>7, <1>8, <1>9, <1>10, Zenon DEF IInv

-----------------------------------------------------------------------------
(* A new lock set is in order: all its ulocks are free and nobody waits.   *)
LEMMA InitIInv == Init /\ ~mp => IInv
<1> SUFFICES ASSUME Init, ~mp
             PROVE  IInv
  BY Zenon
<1> DEFINE z == CHOOSE u \in Ulocks : TRUE
           s == [pc |-> "idle", u |-> z, waiting |-> FALSE,
                 result |-> "none", linked |-> FALSE, alive |-> TRUE,
                 target |-> None, news |-> "none", victim |-> None]
           y == [owner |-> None, state |-> "free", stable |-> TRUE,
                 ho_thread |-> None, blocked |-> <<>>, count |-> 0]
<1>1. /\ mp \in Builds /\ active = TRUE /\ held = {} /\ handoff = {} /\ stray = FALSE
      /\ ul = [u \in Ulocks |-> y] /\ th = [t \in Threads |-> s]
  BY Zenon DEF Init
<1>2. z \in Ulocks
  BY LockConstants, Zenon
<1> HIDE DEF z
<1>3. s \in Thread /\ y \in Ulock
  BY <1>2 DEF Thread, Pcs, Ulock
<1>4. /\ s.pc = "idle" /\ ~s.waiting /\ s.target = None /\ ~s.linked
      /\ y.owner = None /\ y.state = "free" /\ y.ho_thread = None /\ y.blocked = <<>> /\ y.count = 0
  BY Zenon
<1> HIDE DEF s, y
<1>5. /\ \A t \in Threads : th[t] = s
      /\ \A u \in Ulocks : ul[u] = y
  BY <1>1, Zenon
<1>6. Types
  BY <1>1, <1>3, LockConstants, Zenon DEF Types
<1>7. OwnershipAgrees /\ HandoffPaired
  <2>1. \A u \in Ulocks : Unlocked(u)
    BY <1>4, <1>5, Zenon DEF Unlocked, Offering
  <2> QED
    BY <1>1, <1>4, <1>5, <2>1 DEF OwnershipAgrees, HandoffPaired
<1>8. \A t \in Threads : Shape(th[t])
  BY <1>4, <1>5, Zenon DEF Shape
<1>9. Alone /\ Offers
  BY <1>4, <1>5, Zenon DEF Alone, Offers, Between
<1>10. ASSUME NEW t \in Threads PROVE Expected(t) /\ th[t].pc # "crash"
  BY <1>4, <1>5, Zenon DEF Expected, Entering, Handing
<1>11. ASSUME NEW u \in Ulocks PROVE QueueExact(u)
  <2>1. {t \in Threads : Member(t, u)} = {}
    BY <1>4, <1>5, Zenon DEF Member
  <2>2. Range(<<>>) = {} /\ IsInjective(<<>>) /\ Len(<<>>) = 0
    BY DEF Range, IsInjective
  <2> QED
    BY <1>4, <1>5, <2>1, <2>2, Zenon DEF QueueExact
<1> QED
  BY <1>6, <1>7, <1>8, <1>9, <1>10, <1>11, Zenon DEF IInv, Known

(* On one processor without preemption the invariant is kept by every      *)
(* operation on a lock set, every wakeup, abort and termination.           *)
THEOREM Invariance == Spec /\ ~mp => []IInv
<1>1. Init /\ ~mp => IInv
  BY InitIInv, Zenon
<1>2. IInv /\ [Next]_vars => IInv'
  <2> SUFFICES ASSUME IInv, [Next]_vars
               PROVE  IInv'
    BY Zenon
  <2>1. CASE UNCHANGED vars
    <3>1. Types' = Types /\ OwnershipAgrees' = OwnershipAgrees
      BY <2>1 DEF vars, Types, OwnershipAgrees
    <3>2. HandoffPaired' = HandoffPaired
      BY <2>1 DEF vars, HandoffPaired, HandingOff, Unlocked, Offering
    <3>3. Alone' = Alone /\ Offers' = Offers /\ \A t \in Threads : Shape(th'[t])
      BY <2>1, Zenon DEF vars, Alone, Offers, IInv
    <3>4. (\A t \in Threads : Expected(t) /\ th[t].pc # "crash")'
            = (\A t \in Threads : Expected(t) /\ th[t].pc # "crash")
      BY <2>1, Zenon DEF vars, Expected, BeingWoken
    <3>5. (\A u \in Ulocks : QueueExact(u))' = (\A u \in Ulocks : QueueExact(u))
      BY <2>1 DEF vars, QueueExact, Member, Acquiring, BeingWoken
    <3> QED
      BY <2>1, <3>1, <3>2, <3>3, <3>4, <3>5, Zenon DEF IInv, Known, vars
  <2>2. ASSUME NEW t \in Threads, Step(t) PROVE IInv'
    BY <2>2, SetHoThreadStep, AssertWaitStep, AcquireReturnsStep, HandoffReturnsStep, WakeStep,
       ReleaseAllStep, Zenon DEF Step
  <2>3. ASSUME NEW t \in Threads, NEW u \in Ulocks,
               \/ LockAcquire(t, u) \/ LockRelease(t, u) \/ MakeStable(t, u)
               \/ LockHandoff(t, u) \/ LockHandoffAccept(t, u)
        PROVE  IInv'
    BY <2>3, LockAcquireStep, LockReleaseStep, MakeStableStep, LockHandoffStep,
       LockHandoffAcceptStep, Zenon
  <2>4. ASSUME NEW t \in Threads,
               Abort(t) \/ LockSetDestroy(t) \/ (\E v \in Threads : Terminate(t, v))
        PROVE  IInv'
    BY <2>4, AbortStep, LockSetDestroyStep, TerminateStep, Zenon
  <2> QED
    BY <2>1, <2>2, <2>3, <2>4, Zenon DEF Next
<1> QED
  BY <1>1, <1>2, PTL DEF Spec

(* On one processor without preemption the owner of a ulock, its state,    *)
(* the held list lock_set_destroy walks and the threads blocked on it      *)
(* agree, through hand-offs, aborts, terminations and the destruction of   *)
(* the set.                                                                *)
THEOREM Ownership == Spec /\ ~mp => []OwnershipAgrees
<1>1. IInv => OwnershipAgrees
  BY Zenon DEF IInv
<1> QED
  BY <1>1, Invariance, PTL

(* On one processor without preemption a ulock on the hand-off list has a  *)
(* thread there to hand it over or to accept it, or is getting it, unless  *)
(* that thread's abort went unseen.  (On several processors                *)
(* lock_set_destroy can find one that is still getting it, and panics.)    *)
THEOREM HandoffsPaired == Spec /\ ~mp => []HandoffPaired
<1>1. IInv => HandoffPaired
  BY Zenon DEF IInv
<1> QED
  BY <1>1, Invariance, PTL

(* On one processor without preemption no wakeup is lost: a thread asleep  *)
(* in lock_acquire or in a hand-off is where its waker looks, the queue of *)
(* a ulock is exact, nobody takes itself off twice and lock_set_destroy    *)
(* does not panic.                                                         *)
THEOREM NoWakeupLost == Spec /\ ~mp => []SleepersKnown
<1>1. IInv => SleepersKnown
  <2> SUFFICES ASSUME IInv, ~stray
               PROVE  /\ \A t \in Threads : th[t].waiting /\ ~BeingWoken(t) =>
                           /\ active
                           /\ th[t].pc = "acquire" => t \in Range(ul[th[t].u].blocked)
                           /\ th[t].pc = "handoff" => ul[th[t].u].ho_thread = t
                      /\ \A u \in Ulocks : QueueExact(u)
    BY Zenon DEF SleepersKnown, QueueExact, Member, Crashed, IInv, Known
  <2>1. Types /\ OwnershipAgrees /\ Known
    BY Zenon DEF IInv
  <2>2. ASSUME NEW t \in Threads, th[t].waiting, ~BeingWoken(t)
        PROVE  /\ active
               /\ th[t].pc = "acquire" => t \in Range(ul[th[t].u].blocked)
               /\ th[t].pc = "handoff" => ul[th[t].u].ho_thread = t
    <3>1. th[t].pc \in {"acquire", "handoff"}
      BY <2>2, Zenon DEF IInv, Shape
    <3>2. Expected(t)
      BY <2>1, Zenon DEF Known
    <3>3. CASE th[t].pc = "handoff"
      BY <2>2, <3>2, <3>3, Zenon DEF Expected, Handing
    <3>4. CASE th[t].pc = "acquire"
      <4>1. PICK u \in Ulocks : u = th[t].u
        BY <2>1, Zenon DEF Types, Thread
      <4>2. Member(t, u)
        BY <2>2, <3>2, <3>4, <4>1, Zenon DEF Expected, Entering, Member, Acquiring
      <4>3. t \in Range(ul[u].blocked)
        BY <2>1, <4>2, Zenon DEF Known, QueueExact
      <4>4. ul[u].blocked # <<>>
        BY <4>3 DEF Range
      <4>5. active
        BY <2>1, <4>4, Zenon DEF OwnershipAgrees, Types
      <4>6. th[t].pc # "handoff"
        BY <3>4, Zenon
      <4> QED
        BY <4>1, <4>3, <4>5, <4>6, Zenon
    <3> QED
      BY <3>1, <3>3, <3>4, Zenon
  <2> QED
    BY <2>1, <2>2, Zenon DEF Known
<1> QED
  BY <1>1, Invariance, PTL
=============================================================================
