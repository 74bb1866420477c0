--------------------------- MODULE Timeout_proof ----------------------------
(***************************************************************************)
(* Proofs about the timeout services, for any drivers and threads, any     *)
(* finite pool of elements, any intervals and any width of the tick        *)
(* counter.                                                                *)
(***************************************************************************)
EXTENDS Timeout, Queues_proof, TLAPS

(* The timer elements, and the type of the rest of the state.              *)
Timers == [Elts -> [set : {"UNSET", "ALLOC", "SET", "PENDING"}, ticks : Nat,
                    fcn : Callers \union {None}]]

TypeOK ==
  /\ now \in Nat /\ rouse \in BOOLEAN /\ panic \in {"none", "timeout", "sentinel"}
  /\ elt \in Timers
  /\ chain \in Seq(Elts)
  /\ soft \in [at : {"scan", "asleep", "taken", "inside"}, fcn : Callers \union {None}]
  /\ calling \in [Drivers -> [e : Pool \union {None}, interval : 0 .. MaxInterval]]
  /\ when \in [Callers -> Int]

(* The queue is in order of expiration and holds what is set, each once.   *)
Sorted ==
  /\ \A i, j \in DOMAIN chain : i < j => elt[chain[i]].ticks <= elt[chain[j]].ticks
  /\ IsInjective(chain) /\ Range(chain) = {e \in Elts : elt[e].set = "SET"}

(* A thread has its own element: unset exactly while nothing is asked for, *)
(* and pending only in softclock's hands.                                  *)
ThreadOk(t) ==
  /\ elt[t].fcn = t /\ elt[t].set # "ALLOC"
  /\ elt[t].set = "UNSET" <=> when[t] = -1
  /\ elt[t].set = "PENDING" => Taken(t)

(* An element of the pool is free, allocated by the driver that is about   *)
(* to queue it, or queued for a driver that has no other.                  *)
Asks(e, d) == elt[e].set = "SET" /\ elt[e].fcn = d
EltOk(e) ==
  /\ elt[e].set # "PENDING"
  /\ elt[e].set # "UNSET" => elt[e].fcn \in Drivers
  /\ elt[e].set = "ALLOC" => calling[elt[e].fcn].e = e
  /\ elt[e].set = "SET" => when[elt[e].fcn] # -1 /\ ~Taken(elt[e].fcn)
  /\ \A g \in Pool, d \in Drivers : Asks(e, d) /\ Asks(g, d) => e = g

(* A driver that asked for a call has an element in the queue, or its      *)
(* function is in softclock's hands; one that is still in timeout() has    *)
(* not asked for another.                                                  *)
DriverOk(d) ==
  /\ calling[d].e # None => /\ elt[calling[d].e].set = "ALLOC" /\ elt[calling[d].e].fcn = d
                            /\ when[d] = -1
  /\ Taken(d) => when[d] # -1
  /\ when[d] # -1 => Taken(d) \/ \E e \in Pool : Asks(e, d)

(* A queued element carries the tick of its request, and no request is     *)
(* more than the longest interval ahead.                                   *)
Dated ==
  /\ \A e \in Elts : elt[e].set = "SET" => elt[e].ticks = when[elt[e].fcn] % Wrap
  /\ \A f \in Callers : when[f] = -1 \/ when[f] \in 0 .. now + MaxInterval

(* Whose every element is.                                                 *)
Owned ==
  /\ \A t \in Threads : ThreadOk(t)
  /\ \A e \in Pool : EltOk(e)
  /\ \A d \in Drivers : DriverOk(d)
  /\ soft.at = "taken" => soft.fcn # None

(* What timeout() saw when it panicked.                                    *)
PoolFull == panic = "timeout" => \A e \in Pool : elt[e].set # "UNSET"

IInv == TypeOK /\ Sorted /\ Dated /\ OnTime /\ Owned /\ PoolFull

-----------------------------------------------------------------------------
(* natural_t arithmetic: a remainder is a number, and a number below Wrap  *)
(* is its own.                                                             *)
LEMMA Remainders ==
  ASSUME NEW w \in Nat \ {0}, NEW x \in Nat
  PROVE  x % w \in Nat /\ (x < w => x % w = x)
OBVIOUS

-----------------------------------------------------------------------------
(* The fields of what the type invariant describes.                        *)
LEMMA Fields ==
  ASSUME TypeOK
  PROVE  /\ now \in Nat /\ chain \in Seq(Elts) /\ Len(chain) \in Nat
         /\ DOMAIN chain = 1 .. Len(chain)
         /\ \A e \in Elts : /\ elt[e].ticks \in Nat /\ elt[e].fcn \in Callers \union {None}
                            /\ elt[e].set \in {"UNSET", "ALLOC", "SET", "PENDING"}
         /\ \A d \in Drivers : /\ calling[d].e \in Pool \union {None}
                               /\ calling[d].interval \in 0 .. MaxInterval
         /\ \A f \in Callers : when[f] \in Int
         /\ soft.fcn \in Callers \union {None}
BY DEF TypeOK, Timers

(* One element changes its state.                                          *)
LEMMA StateChanges ==
  ASSUME TypeOK, NEW e \in Elts, NEW s \in {"UNSET", "ALLOC", "SET", "PENDING"},
         elt' = [elt EXCEPT ![e].set = s]
  PROVE  /\ elt' \in Timers /\ \A o \in Elts \ {e} : elt'[o] = elt[o]
         /\ elt'[e].set = s /\ elt'[e].fcn = elt[e].fcn /\ elt'[e].ticks = elt[e].ticks
<1>1. elt \in Timers
  BY Zenon DEF TypeOK
<1> QED
  BY <1>1, Zenon DEF Timers

(* One request is met or taken back.                                       *)
LEMMA WhenCleared ==
  ASSUME TypeOK, NEW f \in Callers, when' = [when EXCEPT ![f] = -1]
  PROVE  /\ when' \in [Callers -> Int] /\ when'[f] = -1
         /\ \A g \in Callers \ {f} : when'[g] = when[g]
<1>1. when \in [Callers -> Int]
  BY Zenon DEF TypeOK
<1> QED
  BY <1>1

(* Taking one element off, wherever it is, keeps the queue in order and    *)
(* exact: reset_timeout, untimeout and softclock.                          *)
LEMMA ShorterKeeps ==
  ASSUME TypeOK, Sorted, NEW e \in Elts, chain' \in Seq(Elts), Len(chain') = Len(chain) - 1,
         IsInjective(chain'), Range(chain') = Range(chain) \ {e},
         NEW i \in 1 .. Len(chain), Removed(chain', chain, i), elt'[e].set # "SET",
         \A o \in Elts \ {e} : elt'[o] = elt[o]
  PROVE  Sorted'
<1>1. /\ DOMAIN chain = 1 .. Len(chain) /\ Len(chain) \in Nat
      /\ DOMAIN chain' = 1 .. Len(chain) - 1
  BY DEF TypeOK
<1>2. Range(chain') = {o \in Elts : elt'[o].set = "SET"}
  BY Zenon DEF Sorted
<1>3. ASSUME NEW j \in 1 .. Len(chain) - 1
      PROVE  elt'[chain'[j]] = elt[chain'[j]]
  <2>1. chain'[j] \in Range(chain')
    BY <1>1, Zenon DEF Range
  <2>2. chain'[j] \in Elts
    BY <1>1
  <2> QED
    BY <2>1, <2>2, Zenon
<1>4. ASSUME NEW a \in 1 .. Len(chain) - 1, NEW b \in 1 .. Len(chain) - 1, a < b
      PROVE  elt'[chain'[a]].ticks <= elt'[chain'[b]].ticks
  <2>1. /\ chain'[a] = IF a < i THEN chain[a] ELSE chain[a + 1]
        /\ chain'[b] = IF b < i THEN chain[b] ELSE chain[b + 1]
    BY Zenon DEF Removed
  <2>2. \A x, y \in 1 .. Len(chain) : x < y => elt[chain[x]].ticks <= elt[chain[y]].ticks
    BY <1>1, Zenon DEF Sorted
  <2>3. PICK x \in 1 .. Len(chain), y \in 1 .. Len(chain) :
          x < y /\ chain'[a] = chain[x] /\ chain'[b] = chain[y]
    <3>1. CASE a < i /\ b < i
      BY <3>1, <2>1, <1>1, <1>4
    <3>2. CASE a < i /\ ~(b < i)
      <4>1. a < b + 1 /\ b + 1 \in 1 .. Len(chain) /\ a \in 1 .. Len(chain)
        BY <1>1, <1>4
      <4> QED
        BY <4>1, <3>2, <2>1, Zenon
    <3>3. CASE ~(a < i)
      <4>1. a + 1 < b + 1 /\ b + 1 \in 1 .. Len(chain) /\ a + 1 \in 1 .. Len(chain) /\ ~(b < i)
        BY <1>1, <1>4, <3>3
      <4> QED
        BY <4>1, <3>3, <2>1, Zenon
    <3> QED
      BY <3>1, <3>2, <3>3, Zenon
  <2> QED
    BY <2>2, <2>3, <1>3
<1> QED
  BY <1>1, <1>2, <1>4, Zenon DEF Sorted

(* The same, where remqueue does it.                                       *)
LEMMA DequeueKeeps ==
  ASSUME TypeOK, Sorted, NEW e \in Elts, elt[e].set = "SET", Dequeue(e),
         elt'[e].set # "SET", \A o \in Elts \ {e} : elt'[o] = elt[o]
  PROVE  chain' \in Seq(Elts) /\ Sorted'
<1>1. chain \in Seq(Elts) /\ IsInjective(chain) /\ e \in Range(chain)
  BY Zenon DEF TypeOK, Sorted
<1>2. chain' = QueueRemove(chain, e)
  BY Zenon DEF Dequeue
<1>3. /\ chain' \in Seq(Elts) /\ Len(chain') = Len(chain) - 1 /\ IsInjective(chain')
      /\ Range(chain') = Range(chain) \ {e}
      /\ \E i \in 1 .. Len(chain) : chain[i] = e /\ Removed(chain', chain, i)
  BY <1>1, <1>2, QueueRemoveFacts
<1> QED
  BY <1>3, ShorterKeeps, Zenon

-----------------------------------------------------------------------------
(* The sets of the constants, as the steps below use them.                 *)
LEMMA Names ==
  /\ \A t \in Threads : t \in Elts /\ t \in Callers /\ t \notin Drivers /\ t \notin Pool /\ t # None
  /\ \A e \in Pool : e \in Elts /\ e # None
  /\ \A d \in Drivers : d \in Callers /\ d # None
  /\ \A e \in Elts : e \in Pool \/ e \in Threads
  /\ \A f \in Callers : f \in Drivers \/ f \in Threads
  /\ MaxInterval \in Nat /\ Wrap \in Nat \ {0}
BY TimeoutConstants, Zenon DEF Elts, Callers

(* Whose element a queued one is.                                          *)
LEMMA SetElement ==
  ASSUME TypeOK, Owned, NEW e \in Elts, elt[e].set = "SET"
  PROVE  elt[e].fcn \in Callers /\ when[elt[e].fcn] # -1
<1>1. CASE e \in Threads
  BY <1>1, Names, Zenon DEF Owned, ThreadOk
<1>2. CASE e \in Pool
  BY <1>2, Names, Zenon DEF Owned, EltOk
<1> QED
  BY <1>1, <1>2, Names, Zenon

(* Far from the wrap, the tick in an element is the tick it is due at.     *)
LEMMA Due ==
  ASSUME TypeOK, Owned, Dated, FarFromWrap, NEW e \in Elts, elt[e].set = "SET"
  PROVE  elt[e].ticks = when[elt[e].fcn]
<1> DEFINE w == when[elt[e].fcn]
<1>1. w # -1 /\ elt[e].fcn \in Callers
  BY SetElement, Zenon
<1>2. w \in 0 .. now + MaxInterval
  BY <1>1, Zenon DEF Dated
<1>3. now \in Nat /\ MaxInterval \in Nat /\ Wrap \in Nat \ {0} /\ now + MaxInterval < Wrap - 1
  BY Names, Zenon DEF TypeOK, FarFromWrap, Sentinel
<1>4. elt[e].ticks = w % Wrap
  BY Zenon DEF Dated
<1> HIDE DEF w
<1>5. w \in Nat /\ w < Wrap
  BY <1>2, <1>3
<1> QED
  BY <1>3, <1>4, <1>5, Remainders, Zenon DEF w

(* The first element of the queue is the first to expire.                  *)
LEMMA HeadFirst ==
  ASSUME TypeOK, Sorted, NEW e \in Elts, elt[e].set = "SET"
  PROVE  chain # <<>> /\ HeadTicks <= elt[e].ticks
<1>1. chain \in Seq(Elts) /\ Len(chain) \in Nat /\ DOMAIN chain = 1 .. Len(chain)
  BY DEF TypeOK
<1>2. e \in Range(chain)
  BY Zenon DEF Sorted
<1>3. PICK j \in 1 .. Len(chain) : chain[j] = e
  BY <1>1, <1>2, Zenon DEF Range
<1>4. 1 \in 1 .. Len(chain) /\ chain # <<>> /\ Head(chain) = chain[1] /\ chain[1] \in Elts
  BY <1>1, <1>3
<1>5. HeadTicks = elt[chain[1]].ticks
  BY <1>4, Zenon DEF HeadTicks
<1>6. CASE j = 1
  <2>1. chain[1] = e /\ elt[e].ticks \in Nat
    BY <1>3, <1>6, Fields, Zenon
  <2> QED
    BY <2>1, <1>4, <1>5
<1>7. CASE j # 1
  <2>1. 1 < j
    BY <1>1, <1>7
  <2> QED
    BY <2>1, <1>1, <1>3, <1>4, <1>5, Zenon DEF Sorted
<1> QED
  BY <1>6, <1>7, Zenon

(* Far from the wrap, nothing is due before the first element of the queue *)
(* expires, unless softclock has it in its hands.                          *)
LEMMA NothingEarlier ==
  ASSUME TypeOK, Sorted, Owned, Dated, FarFromWrap, soft.at # "taken",
         NEW f \in Callers, when[f] # -1
  PROVE  chain # <<>> /\ HeadTicks <= when[f]
<1>1. PICK e \in Elts : elt[e].set = "SET" /\ elt[e].fcn = f
  <2>1. CASE f \in Threads
    <3>1. ThreadOk(f) /\ f \in Elts
      BY <2>1, Names, Zenon DEF Owned
    <3>2. elt[f].set = "SET"
      BY <3>1, Fields, Zenon DEF ThreadOk, Taken
    <3> QED
      BY <3>1, <3>2, Zenon DEF ThreadOk
  <2>2. CASE f \in Drivers
    BY <2>2, Names, Zenon DEF Owned, DriverOk, Taken, Asks
  <2> QED
    BY <2>1, <2>2, Names, Zenon
<1> QED
  BY <1>1, HeadFirst, Due, Zenon

-----------------------------------------------------------------------------
(* The steps of the clock and of softclock.                                *)

(* An interrupt makes nothing late that nobody is woken for.               *)
LEMMA TickStep ==
  ASSUME IInv, Tick
  PROVE  IInv'
<1> USE DEF IInv
<1>1. /\ now \in Nat /\ now' = now + 1 /\ rouse' = (HeadTicks <= (now + 1) % Wrap)
      /\ UNCHANGED <<elt, chain, soft, calling, when, panic>>
  BY Zenon DEF Tick, TypeOK
<1>2. TypeOK'
  BY <1>1 DEF TypeOK
<1>3. Sorted' /\ PoolFull'
  BY <1>1, Zenon DEF Sorted, PoolFull
<1>4. Owned'
  BY <1>1 DEF Owned, ThreadOk, EltOk, DriverOk, Taken, Asks
<1>5. Dated'
  BY <1>1, Names DEF Dated
<1>6. OnTime'
  <2> SUFFICES ASSUME FarFromWrap' PROVE OnTime'
    BY Zenon DEF OnTime
  <2>1. now + 1 < Wrap /\ now + 1 \in Nat /\ Wrap \in Nat \ {0} /\ FarFromWrap
    BY <1>1, Names DEF FarFromWrap, Sentinel
  <2>2. (now + 1) % Wrap = now + 1
    BY <2>1, Remainders, Zenon
  <2>3. \A f \in Callers : when[f] \in Int
    BY Zenon DEF TypeOK
  <2>4. /\ \A f \in Drivers : Taken(f) => when[f] <= now
        /\ \A t \in Threads : Taken(t) /\ elt[t].set = "PENDING" => when[t] <= now
    BY <2>1, Zenon DEF OnTime
  <2>5. /\ \A f \in Drivers : Taken(f)' => when'[f] <= now'
        /\ \A t \in Threads : Taken(t)' /\ elt'[t].set = "PENDING" => when'[t] <= now'
    BY <1>1, <2>3, <2>4, Names DEF Taken
  <2>6. ASSUME soft'.at = "asleep", ~rouse', NEW f \in Callers, when'[f] # -1
        PROVE  when'[f] >= now'
    <3>1. chain # <<>> /\ HeadTicks <= when[f]
      BY <1>1, <2>1, <2>6, NothingEarlier, Zenon
    <3>2. ~(HeadTicks <= now + 1)
      BY <1>1, <2>2, <2>6, Zenon
    <3>3. HeadTicks \in Int /\ when[f] \in Int
      <4>1. Head(chain) \in Elts
        BY <3>1 DEF TypeOK
      <4> QED
        BY <4>1, <3>1, <2>3, Fields DEF HeadTicks
    <3> QED
      BY <1>1, <3>1, <3>2, <3>3
  <2> QED
    BY <2>5, <2>6, Zenon DEF OnTime
<1> QED
  BY <1>2, <1>3, <1>4, <1>5, <1>6, Zenon

(* thread_wakeup.                                                          *)
LEMMA WakeupStep ==
  ASSUME IInv, Wakeup
  PROVE  IInv'
<1> USE DEF IInv
<1>1. /\ UNCHANGED <<now, elt, chain, calling, when, panic>> /\ rouse' = FALSE
      /\ soft' = IF soft.at = "asleep" THEN [soft EXCEPT !.at = "scan"] ELSE soft
  BY Zenon DEF Wakeup
<1>2. TypeOK'
  BY <1>1, Zenon DEF TypeOK
<1>3. soft'.fcn = soft.fcn /\ soft'.at # "asleep" /\ (soft'.at = "taken" <=> soft.at = "taken")
  BY <1>1, Zenon DEF TypeOK
<1>4. \A f : Taken(f)' <=> Taken(f)
  BY <1>3, Zenon DEF Taken
<1>5. Sorted' /\ PoolFull' /\ Dated'
  BY <1>1, Zenon DEF Sorted, PoolFull, Dated
<1>6. Owned'
  BY <1>1, <1>3, <1>4 DEF Owned, ThreadOk, EltOk, DriverOk, Asks
<1>7. OnTime'
  BY <1>1, <1>3, <1>4, Zenon DEF OnTime, FarFromWrap
<1> QED
  BY <1>2, <1>5, <1>6, <1>7, Zenon

(* softclock goes to sleep when nothing is due.                            *)
LEMMA WaitStep ==
  ASSUME IInv, SoftclockWait
  PROVE  IInv'
<1> USE DEF IInv
<1>1. /\ UNCHANGED <<now, elt, chain, rouse, calling, when, panic>>
      /\ soft' = [soft EXCEPT !.at = "asleep"] /\ soft.at = "scan" /\ HeadTicks > timeout_ticks
  BY Zenon DEF SoftclockWait
<1>2. TypeOK'
  BY <1>1, Zenon DEF TypeOK
<1>3. soft'.fcn = soft.fcn /\ soft'.at = "asleep"
  BY <1>1, Zenon DEF TypeOK
<1>4. \A f : ~Taken(f)' /\ ~Taken(f)
  BY <1>1, <1>3, Zenon DEF Taken
<1>5. Sorted' /\ PoolFull' /\ Dated'
  BY <1>1, Zenon DEF Sorted, PoolFull, Dated
<1>6. Owned'
  BY <1>1, <1>3, <1>4 DEF Owned, ThreadOk, EltOk, DriverOk, Asks
<1>7. OnTime'
  <2> SUFFICES ASSUME FarFromWrap, NEW f \in Callers, when[f] # -1
               PROVE  when[f] >= now
    BY <1>1, <1>4, Zenon DEF OnTime, FarFromWrap
  <2>1. now \in Nat /\ now < Wrap /\ Wrap \in Nat \ {0}
    BY Names DEF FarFromWrap, Sentinel, TypeOK
  <2>2. timeout_ticks = now
    BY <2>1, Remainders, Zenon DEF timeout_ticks
  <2>3. chain # <<>> /\ HeadTicks <= when[f]
    BY <1>1, NothingEarlier, Zenon
  <2>4. HeadTicks \in Int /\ when[f] \in Int
    <3>1. Head(chain) \in Elts
      BY <2>3 DEF TypeOK
    <3> QED
      BY <3>1, <2>3, Fields DEF HeadTicks
  <2> QED
    BY <1>1, <2>1, <2>2, <2>3, <2>4
<1> QED
  BY <1>2, <1>5, <1>6, <1>7, Zenon

(* The function has returned.                                              *)
LEMMA ReturnStep ==
  ASSUME IInv, SoftclockReturn
  PROVE  IInv'
<1> USE DEF IInv
<1>1. /\ UNCHANGED <<now, elt, chain, rouse, calling, when, panic>>
      /\ soft' = [at |-> "scan", fcn |-> None] /\ soft.at = "inside"
  BY Zenon DEF SoftclockReturn
<1>2. TypeOK'
  BY <1>1, Zenon DEF TypeOK
<1>3. \A f : ~Taken(f)' /\ ~Taken(f)
  BY <1>1, Zenon DEF Taken
<1>4. Sorted' /\ PoolFull' /\ Dated'
  BY <1>1, Zenon DEF Sorted, PoolFull, Dated
<1>5. Owned'
  BY <1>1, <1>3 DEF Owned, ThreadOk, EltOk, DriverOk, Asks
<1>6. OnTime'
  BY <1>1, <1>3, Zenon DEF OnTime, FarFromWrap
<1> QED
  BY <1>2, <1>4, <1>5, <1>6, Zenon

(* The function is called: the request is met.                             *)
LEMMA CallStep ==
  ASSUME IInv, panic = "none", SoftclockCall
  PROVE  IInv'
<1> USE DEF IInv
<1> DEFINE f == soft.fcn
<1>1. /\ UNCHANGED <<now, chain, rouse, calling, panic>> /\ soft.at = "taken"
      /\ soft' = [soft EXCEPT !.at = "inside"]
      /\ IF f \in Drivers THEN when' = [when EXCEPT ![f] = -1] /\ UNCHANGED elt
         ELSE IF elt[f].set = "PENDING"
           THEN when' = [when EXCEPT ![f] = -1] /\ elt' = [elt EXCEPT ![f].set = "UNSET"]
           ELSE UNCHANGED <<when, elt>>
  BY Zenon DEF SoftclockCall
<1>2. f \in Callers /\ Taken(f)
  BY <1>1, Fields, Zenon DEF Owned, Taken
<1>3. soft'.at = "inside" /\ \A g : ~Taken(g)'
  BY <1>1, Zenon DEF TypeOK, Taken
<1>4. \A g : Taken(g) => g = f
  BY Zenon DEF Taken
<1>5. PoolFull'
  BY <1>1, Zenon DEF PoolFull
<1>6. OnTime'
  BY <1>3, Zenon DEF OnTime
<1> HIDE DEF f
<1>7. CASE f \in Drivers
  <2>1. /\ elt' = elt /\ when'[f] = -1 /\ \A g \in Callers \ {f} : when'[g] = when[g]
    BY <1>1, <1>2, <1>7, WhenCleared, Zenon
  <2>2. TypeOK'
    <3>1. when' \in [Callers -> Int] /\ elt' = elt
      BY <1>1, <1>2, <1>7, WhenCleared, Zenon
    <3> QED
      BY <1>1, <3>1, Zenon DEF TypeOK
  <2>3. Sorted'
    BY <1>1, <2>1, Zenon DEF Sorted
  <2>4. \A e \in Elts : elt[e].set = "SET" => elt[e].fcn # f /\ elt[e].fcn \in Callers
    BY <1>2, <1>7, Names, SetElement DEF Owned, ThreadOk, EltOk
  <2>5. Dated'
    BY <1>1, <1>2, <2>1, <2>4, Zenon DEF Dated
  <2>6. \A t \in Threads : ThreadOk(t)'
    BY <1>1, <1>3, <1>4, <1>7, <2>1, Names DEF Owned, ThreadOk
  <2>7. \A e \in Pool : EltOk(e)'
    BY <1>1, <1>3, <2>1, <2>4, Names, ZenonT(30) DEF Owned, EltOk, Asks
  <2>8. \A d \in Drivers : DriverOk(d)'
    BY <1>1, <1>3, <1>4, <2>1, Names, Zenon DEF Owned, DriverOk, Asks
  <2> QED
    BY <1>3, <1>5, <1>6, <2>2, <2>3, <2>5, <2>6, <2>7, <2>8, Zenon DEF Owned
<1>8. CASE f \in Threads /\ elt[f].set = "PENDING"
  <2>0. /\ f \in Elts /\ f \notin Drivers /\ when' = [when EXCEPT ![f] = -1]
        /\ elt' = [elt EXCEPT ![f].set = "UNSET"]
    BY <1>1, <1>8, Names, Zenon
  <2>1. /\ elt'[f].set = "UNSET" /\ elt'[f].fcn = elt[f].fcn /\ elt'[f].ticks = elt[f].ticks
        /\ \A e \in Elts \ {f} : elt'[e] = elt[e]
        /\ when'[f] = -1 /\ \A g \in Callers \ {f} : when'[g] = when[g]
    BY <1>2, <2>0, StateChanges, WhenCleared, Zenon
  <2>2. TypeOK'
    <3>1. elt' \in Timers
      BY <2>0, StateChanges, Zenon
    <3>2. when' \in [Callers -> Int]
      BY <1>2, <2>0, WhenCleared, Zenon
    <3> QED
      BY <1>1, <3>1, <3>2, Zenon DEF TypeOK
  <2>3. Sorted'
    <3>1. chain' = chain /\ \A e \in Elts : /\ elt'[e].ticks = elt[e].ticks
                                            /\ elt'[e].set = "SET" <=> elt[e].set = "SET"
      BY <1>1, <1>8, <2>1, Zenon
    <3>2. \A i \in DOMAIN chain : chain[i] \in Elts
      BY DEF TypeOK
    <3> QED
      BY <3>1, <3>2, Zenon DEF Sorted
  <2>4. \A e \in Elts : elt'[e].set = "SET" =>
          elt'[e] = elt[e] /\ elt[e].fcn # f /\ elt[e].fcn \in Callers
    BY <1>8, <2>1, Names, SetElement DEF Owned, ThreadOk, EltOk
  <2>5. Dated'
    BY <1>1, <1>2, <2>1, <2>4 DEF Dated
  <2>6. \A t \in Threads : ThreadOk(t)'
    BY <1>1, <1>3, <1>4, <2>1, Names DEF Owned, ThreadOk
  <2>7. \A e \in Pool : EltOk(e)'
    BY <1>1, <1>3, <1>8, <2>1, <2>4, Names DEF Owned, EltOk, Asks
  <2>8. \A d \in Drivers : DriverOk(d)'
    <3> SUFFICES ASSUME NEW d \in Drivers PROVE DriverOk(d)'
      BY Zenon
    <3>1. d \in Callers /\ d # f /\ when'[d] = when[d] /\ calling'[d] = calling[d] /\ ~Taken(d)
      BY <1>1, <1>4, <1>8, <2>1, Names, Zenon
    <3>2. \A e \in Pool : elt'[e] = elt[e]
      BY <1>8, <2>1, Names, Zenon
    <3>3. calling[d].e # None => calling[d].e \in Pool
      BY Fields, Zenon
    <3> QED
      BY <1>3, <3>1, <3>2, <3>3 DEF Owned, DriverOk, Asks
  <2> QED
    BY <1>3, <1>5, <1>6, <2>2, <2>3, <2>5, <2>6, <2>7, <2>8, Zenon DEF Owned
<1>9. CASE f \in Threads /\ elt[f].set # "PENDING"
  <2>1. UNCHANGED <<now, elt, chain, rouse, calling, when, panic>>
    BY <1>1, <1>9, Names, Zenon
  <2>2. TypeOK'
    BY <1>1, <2>1, Zenon DEF TypeOK
  <2>3. Sorted' /\ Dated'
    BY <2>1, Zenon DEF Sorted, Dated
  <2>4. \A t \in Threads : ThreadOk(t)'
    BY <1>3, <1>4, <1>9, <2>1, Zenon DEF Owned, ThreadOk
  <2>5. \A e \in Pool : EltOk(e)'
    BY <1>3, <2>1, Zenon DEF Owned, EltOk, Asks
  <2>6. \A d \in Drivers : DriverOk(d)'
    BY <1>3, <1>4, <1>9, <2>1, Names, Zenon DEF Owned, DriverOk, Asks
  <2> QED
    BY <1>3, <1>5, <1>6, <2>2, <2>3, <2>4, <2>5, <2>6, Zenon DEF Owned
<1> QED
  BY <1>2, <1>7, <1>8, <1>9, Names, Zenon

(* softclock takes the first element off the queue.                        *)
LEMMA TakeStep ==
  ASSUME IInv, panic = "none", SoftclockTake
  PROVE  IInv'
<1> USE DEF IInv
<1>1. /\ UNCHANGED <<now, rouse, calling, when>> /\ soft.at = "scan" /\ HeadTicks <= timeout_ticks
      /\ \A g : ~Taken(g)
  BY Zenon DEF SoftclockTake, Taken
<1>2. CASE chain = <<>>
  <2>1. UNCHANGED <<now, elt, chain, soft, rouse, calling, when>> /\ panic' = "sentinel"
    BY <1>2, Zenon DEF SoftclockTake
  <2>2. TypeOK' /\ Sorted' /\ Dated' /\ PoolFull'
    BY <2>1, Zenon DEF TypeOK, Sorted, Dated, PoolFull
  <2>3. OnTime'
    BY <2>1, Zenon DEF OnTime, FarFromWrap, Taken
  <2>4. Owned'
    BY <2>1 DEF Owned, ThreadOk, EltOk, DriverOk, Taken, Asks
  <2> QED
    BY <2>2, <2>3, <2>4, Zenon
<1>3. CASE chain # <<>>
  <2> DEFINE e == Head(chain)
             f == elt[e].fcn
             s == IF e \in Threads THEN "PENDING" ELSE "UNSET"
  <2>1. /\ soft' = [at |-> "taken", fcn |-> f] /\ chain' = Tail(chain) /\ panic' = "none"
        /\ elt' = [elt EXCEPT ![e].set = s]
    BY <1>3, Zenon DEF SoftclockTake
  <2>2. chain \in Seq(Elts) /\ IsInjective(chain) /\ Len(chain) > 0 /\ 1 \in 1 .. Len(chain)
    BY <1>3 DEF TypeOK, Sorted
  <2>3. /\ e \in Range(chain) /\ Tail(chain) \in Seq(Elts) /\ Len(Tail(chain)) = Len(chain) - 1
        /\ IsInjective(Tail(chain)) /\ Range(Tail(chain)) = Range(chain) \ {e}
        /\ Removed(Tail(chain), chain, 1)
    BY <2>2, TailFacts, Zenon
  <2>4. HeadTicks = elt[e].ticks
    BY <1>3, Zenon DEF HeadTicks
  <2> HIDE DEF e
  <2>5. e \in Elts /\ elt[e].set = "SET"
    BY <2>3, Zenon DEF Sorted
  <2>6. f \in Callers /\ when[f] # -1
    BY <2>5, SetElement, Zenon
  <2>7. /\ elt'[e].set = s /\ elt'[e].fcn = f /\ \A g \in Elts \ {e} : elt'[g] = elt[g]
    BY <2>1, <2>5, StateChanges, Zenon
  <2>8. \A g : Taken(g)' <=> g = f
    BY <2>1, Zenon DEF Taken
  <2> HIDE DEF f
  <2>9. Sorted'
    <3>1. /\ chain' \in Seq(Elts) /\ Len(chain') = Len(chain) - 1 /\ IsInjective(chain')
          /\ Range(chain') = Range(chain) \ {e} /\ Removed(chain', chain, 1)
      BY <2>1, <2>3, Zenon
    <3>2. elt'[e].set # "SET"
      BY <2>7, Zenon
    <3> QED
      BY <2>2, <2>5, <2>7, <3>1, <3>2, ShorterKeeps, Zenon
  <2>10. TypeOK'
    <3>1. elt' \in Timers
      BY <2>1, <2>5, StateChanges, Zenon
    <3>2. soft' \in [at : {"scan", "asleep", "taken", "inside"}, fcn : Callers \union {None}]
      BY <2>1, <2>6, Zenon
    <3> QED
      BY <1>1, <2>1, <2>3, <3>1, <3>2, Zenon DEF TypeOK
  <2>11. Dated'
    BY <1>1, <2>7, Zenon DEF Dated
  <2>12. PoolFull' /\ f # None /\ soft'.fcn = f
    BY <2>1, <2>6, Names, Zenon DEF PoolFull
  <2>13. /\ e \in Threads => f = e
         /\ e \in Pool => f \in Drivers
         /\ e \in Threads <=> f \in Threads
    BY <2>5, Names, Zenon DEF Owned, ThreadOk, EltOk, f
  <2>14. \A t \in Threads : ThreadOk(t)'
    <3> SUFFICES ASSUME NEW t \in Threads PROVE ThreadOk(t)'
      BY Zenon
    <3>1. CASE t = e
      BY <1>1, <2>5, <2>7, <2>8, <2>13, <3>1, Names, Zenon DEF Owned, ThreadOk
    <3>2. CASE t # e
      BY <1>1, <2>7, <2>8, <3>2, Names DEF Owned, ThreadOk
    <3> QED
      BY <3>1, <3>2, Zenon
  <2>15. \A g \in Pool : EltOk(g)'
    <3> SUFFICES ASSUME NEW g \in Pool PROVE EltOk(g)'
      BY Zenon
    <3>1. CASE g = e
      BY <2>7, <3>1, Names, Zenon DEF EltOk, Asks
    <3>2. CASE g # e
      <4>1. elt'[g] = elt[g] /\ EltOk(g)
        BY <2>7, <3>2, Names, Zenon DEF Owned
      <4>2. elt[g].set = "SET" => elt[g].fcn # f
        <5> SUFFICES ASSUME elt[g].set = "SET", elt[g].fcn = f PROVE FALSE
          BY Zenon
        <5>1. f \in Drivers /\ e \in Pool
          BY <4>1, <2>13, <2>5, Names, Zenon DEF EltOk
        <5> QED
          BY <3>2, <4>1, <5>1, <2>5, Zenon DEF EltOk, Asks, f
      <4>3. ASSUME NEW h \in Pool, elt'[h].set = "SET" PROVE elt'[h] = elt[h]
        BY <2>7, <4>3, Names, Zenon
      <4> QED
        BY <1>1, <2>8, <4>1, <4>2, <4>3, Zenon DEF EltOk, Asks
    <3> QED
      BY <3>1, <3>2, Zenon
  <2>16. \A d \in Drivers : DriverOk(d)'
    <3> SUFFICES ASSUME NEW d \in Drivers PROVE DriverOk(d)'
      BY Zenon
    <3>1. DriverOk(d) /\ (calling[d].e # None => calling[d].e \in Pool)
      BY Fields, Zenon DEF Owned
    <3>2. calling[d].e # None => elt'[calling[d].e] = elt[calling[d].e]
      BY <2>5, <2>7, <3>1, Names, Zenon DEF DriverOk
    <3>3. \A g \in Pool : Asks(g, d) /\ d # f => Asks(g, d)'
      BY <2>7, Names, Zenon DEF Asks, f
    <3> QED
      BY <1>1, <2>6, <2>8, <3>1, <3>2, <3>3, Zenon DEF DriverOk
  <2>17. OnTime'
    <3> SUFFICES ASSUME FarFromWrap PROVE when[f] <= now
      BY <1>1, <2>1, <2>8, Zenon DEF OnTime, FarFromWrap
    <3>1. elt[e].ticks = when[f]
      BY <2>5, Due, Zenon DEF f
    <3>2. now \in Nat /\ now < Wrap /\ Wrap \in Nat \ {0}
      BY Names DEF FarFromWrap, Sentinel, TypeOK
    <3>3. timeout_ticks = now
      BY <3>2, Remainders, Zenon DEF timeout_ticks
    <3> QED
      BY <1>1, <2>4, <3>1, <3>3, Zenon
  <2> QED
    BY <2>9, <2>10, <2>11, <2>12, <2>14, <2>15, <2>16, <2>17, Zenon DEF Owned
<1> QED
  BY <1>2, <1>3, Zenon

-----------------------------------------------------------------------------
(* The calls of drivers and threads.                                       *)

(* timeout() allocates an element, or finds the pool exhausted.            *)
LEMMA TimeoutStep ==
  ASSUME IInv, NEW d \in Drivers, NEW n \in 0 .. MaxInterval, Timeout(d, n)
  PROVE  IInv'
<1> USE DEF IInv
<1>1. /\ UNCHANGED <<now, chain, soft, rouse, when>> /\ when[d] = -1 /\ calling[d].e = None
      /\ \A g : Taken(g)' <=> Taken(g)
  BY Zenon DEF Timeout, Taken
<1>2. ASSUME NEW e \in Pool, elt[e].set = "UNSET",
             elt' = [elt EXCEPT ![e].fcn = d, ![e].set = "ALLOC"],
             calling' = [calling EXCEPT ![d] = [e |-> e, interval |-> n]], panic' = panic
      PROVE  IInv'
  <2>1. e \in Elts /\ e # None /\ d \in Callers
    BY Names, Zenon
  <2>2. /\ elt' \in Timers /\ \A o \in Elts \ {e} : elt'[o] = elt[o]
        /\ elt'[e].set = "ALLOC" /\ elt'[e].fcn = d /\ elt'[e].ticks = elt[e].ticks
    <3>1. elt \in Timers
      BY Zenon DEF TypeOK
    <3> QED
      BY <1>2, <2>1, <3>1, Zenon DEF Timers
  <2>3. /\ calling' \in [Drivers -> [e : Pool \union {None}, interval : 0 .. MaxInterval]]
        /\ calling'[d].e = e /\ \A c \in Drivers \ {d} : calling'[c] = calling[c]
    <3>1. calling \in [Drivers -> [e : Pool \union {None}, interval : 0 .. MaxInterval]]
      BY Zenon DEF TypeOK
    <3> QED
      BY <1>2, <2>1, <3>1, Zenon
  <2>4. TypeOK'
    BY <1>1, <1>2, <2>2, <2>3, Zenon DEF TypeOK
  <2>5. \A o \in Elts : /\ elt'[o].ticks = elt[o].ticks
                        /\ elt'[o].set = "SET" <=> elt[o].set = "SET"
                        /\ elt'[o].set = "SET" => elt'[o] = elt[o]
    BY <1>2, <2>2, Zenon
  <2>6. Sorted'
    <3>1. \A i \in DOMAIN chain : chain[i] \in Elts
      BY DEF TypeOK
    <3> QED
      BY <1>1, <2>5, <3>1 DEF Sorted
  <2>7. Dated'
    BY <1>1, <2>5, Zenon DEF Dated
  <2>8. PoolFull'
    BY <1>2, <2>2, Names, Zenon DEF PoolFull
  <2>9. \A t \in Threads : elt'[t] = elt[t]
    BY <2>2, Names, Zenon
  <2>10. OnTime'
    BY <1>1, <2>9, Zenon DEF OnTime, FarFromWrap
  <2>11. \A t \in Threads : ThreadOk(t)'
    BY <1>1, <2>9, Zenon DEF Owned, ThreadOk
  <2>12. \A g \in Pool : EltOk(g)'
    <3> SUFFICES ASSUME NEW g \in Pool PROVE EltOk(g)'
      BY Zenon
    <3>1. CASE g = e
      BY <2>2, <2>3, <3>1, Zenon DEF EltOk, Asks
    <3>2. CASE g # e
      <4>1. elt'[g] = elt[g] /\ EltOk(g)
        BY <2>2, <3>2, Names, Zenon DEF Owned
      <4>2. \A h \in Pool, c \in Drivers : Asks(h, c)' => Asks(h, c)
        BY <2>5, Names, Zenon DEF Asks
      <4>3. elt[g].set = "ALLOC" => calling'[elt[g].fcn].e = g
        BY <1>1, <2>3, <4>1, Names, Zenon DEF EltOk
      <4> QED
        BY <1>1, <4>1, <4>2, <4>3, Zenon DEF EltOk
    <3> QED
      BY <3>1, <3>2, Zenon
  <2>13. \A c \in Drivers : DriverOk(c)'
    <3> SUFFICES ASSUME NEW c \in Drivers PROVE DriverOk(c)'
      BY Zenon
    <3>1. DriverOk(c) /\ (calling[c].e # None => calling[c].e \in Pool)
      BY Fields, Zenon DEF Owned
    <3>2. \A h \in Pool : Asks(h, c) => Asks(h, c)'
      BY <2>5, Names, Zenon DEF Asks
    <3>3. CASE c = d
      BY <1>1, <2>2, <2>3, <3>1, <3>2, <3>3, Zenon DEF DriverOk
    <3>4. CASE c # d
      <4>1. calling'[c] = calling[c] /\ calling[c].e # e
        BY <1>2, <2>1, <2>3, <3>1, <3>4, Zenon DEF DriverOk
      <4>2. calling[c].e # None => elt'[calling[c].e] = elt[calling[c].e]
        BY <2>2, <3>1, <4>1, Names, Zenon
      <4> QED
        BY <1>1, <3>1, <3>2, <4>1, <4>2, Zenon DEF DriverOk
    <3> QED
      BY <3>3, <3>4, Zenon
  <2> QED
    BY <1>1, <2>4, <2>6, <2>7, <2>8, <2>10, <2>11, <2>12, <2>13, Zenon DEF Owned
<1>3. ASSUME {e \in Pool : elt[e].set = "UNSET"} = {}, panic' = "timeout",
             UNCHANGED <<elt, calling>>
      PROVE  IInv'
  <2>1. TypeOK' /\ Sorted' /\ Dated' /\ PoolFull'
    BY <1>1, <1>3, Zenon DEF TypeOK, Sorted, Dated, PoolFull
  <2>2. OnTime'
    BY <1>1, <1>3, Zenon DEF OnTime, FarFromWrap
  <2>3. Owned'
    <3>1. \A t \in Threads : ThreadOk(t)'
      BY <1>1, <1>3, Zenon DEF Owned, ThreadOk
    <3>2. \A e \in Pool : EltOk(e)'
      BY <1>1, <1>3, Zenon DEF Owned, EltOk, Asks
    <3>3. \A c \in Drivers : DriverOk(c)'
      BY <1>1, <1>3, Zenon DEF Owned, DriverOk, Asks
    <3> QED
      BY <1>1, <3>1, <3>2, <3>3, Zenon DEF Owned
  <2> QED
    BY <2>1, <2>2, <2>3, Zenon
<1> QED
  BY <1>2, <1>3, Zenon DEF Timeout

(* A request is dated from the tick of the call.                           *)
LEMMA Requested ==
  ASSUME TypeOK, NEW f \in Callers, NEW n \in 0 .. MaxInterval,
         when' = [when EXCEPT ![f] = now + n]
  PROVE  /\ when' \in [Callers -> Int] /\ when'[f] = now + n
         /\ \A g \in Callers \ {f} : when'[g] = when[g]
         /\ now + n \in 0 .. now + MaxInterval /\ now + n # -1 /\ now + n >= now
<1>1. when \in [Callers -> Int] /\ now \in Nat /\ n \in Nat /\ MaxInterval \in Nat
  BY Names DEF TypeOK
<1> QED
  BY <1>1

(* Far from the wrap or not, a new request keeps what softclock relies on. *)
LEMMA RequestOnTime ==
  ASSUME TypeOK, OnTime, NEW f \in Callers, NEW n \in 0 .. MaxInterval,
         when' = [when EXCEPT ![f] = now + n], UNCHANGED <<now, soft, rouse>>,
         f \in Drivers => ~Taken(f), f \in Threads => elt'[f].set # "PENDING",
         \A t \in Threads \ {f} : elt'[t] = elt[t]
  PROVE  OnTime'
<1>1. /\ when'[f] = now + n /\ \A g \in Callers \ {f} : when'[g] = when[g]
      /\ now + n # -1 /\ now + n >= now
  BY Requested, Zenon
<1> QED
  BY <1>1, Names, Zenon DEF OnTime, FarFromWrap, Taken

(* Taking a request back keeps what softclock relies on.                   *)
LEMMA ClearedOnTime ==
  ASSUME TypeOK, OnTime, NEW f \in Callers, when' = [when EXCEPT ![f] = -1],
         UNCHANGED <<now, soft, rouse>>, f \in Drivers => ~Taken(f),
         f \in Threads => elt'[f].set # "PENDING", \A t \in Threads \ {f} : elt'[t] = elt[t]
  PROVE  OnTime'
<1>1. when'[f] = -1 /\ \A g \in Callers \ {f} : when'[g] = when[g]
  BY WhenCleared, Zenon
<1> QED
  BY <1>1, Names, Zenon DEF OnTime, FarFromWrap, Taken

(* untimeout().                                                            *)
LEMMA UntimeoutStep ==
  ASSUME IInv, panic = "none", NEW d \in Drivers, Untimeout(d)
  PROVE  IInv'
<1> USE DEF IInv
<1>1. PICK i \in DOMAIN chain :
        /\ elt[chain[i]].fcn = d /\ Dequeue(chain[i])
        /\ elt' = [elt EXCEPT ![chain[i]].set = "UNSET"]
        /\ when' = [when EXCEPT ![d] = -1] /\ UNCHANGED <<now, soft, rouse, calling, panic>>
  BY Zenon DEF Untimeout
<1> DEFINE e == chain[i]
<1>2. e \in Elts /\ elt[e].set = "SET" /\ d \in Callers
  <2>1. e \in Range(chain)
    BY Zenon DEF Range
  <2> QED
    BY <2>1, Names, Zenon DEF Sorted
<1>3. elt[e].fcn = d /\ Dequeue(e) /\ elt' = [elt EXCEPT ![e].set = "UNSET"]
  BY <1>1, Zenon
<1> HIDE DEF e
<1>4. /\ elt' \in Timers /\ \A o \in Elts \ {e} : elt'[o] = elt[o]
      /\ elt'[e].set = "UNSET" /\ elt'[e].fcn = d
  BY <1>2, <1>3, StateChanges, Zenon
<1>5. chain' \in Seq(Elts) /\ Sorted'
  <2>1. elt'[e].set # "SET"
    BY <1>4, Zenon
  <2> QED
    BY <1>2, <1>3, <1>4, <2>1, DequeueKeeps, Zenon
<1>6. /\ when' \in [Callers -> Int] /\ when'[d] = -1
      /\ \A g \in Callers \ {d} : when'[g] = when[g]
  BY <1>1, <1>2, WhenCleared, Zenon
<1>7. TypeOK'
  BY <1>1, <1>4, <1>5, <1>6, Zenon DEF TypeOK
<1>8. e \in Pool /\ EltOk(e) /\ ~Taken(d) /\ \A g : Taken(g)' <=> Taken(g)
  BY <1>1, <1>2, <1>3, Names DEF Owned, ThreadOk, EltOk, Taken
<1>9. PoolFull'
  BY <1>1, Zenon DEF PoolFull
<1>10. OnTime'
  <2>1. d \notin Threads /\ \A t \in Threads \ {d} : elt'[t] = elt[t]
    BY <1>4, <1>8, Names, Zenon
  <2> QED
    BY <1>1, <1>2, <1>8, <2>1, ClearedOnTime, Zenon
<1>11. \A t \in Threads : elt'[t] = elt[t] /\ when'[t] = when[t]
  BY <1>4, <1>6, <1>8, Names, Zenon
<1>12. \A g \in Pool \ {e} : elt[g].set = "SET" => elt[g].fcn # d /\ elt[g].fcn \in Drivers
  BY <1>2, <1>3, <1>8, Names, Zenon DEF EltOk, Asks, Owned
<1>13. Dated'
  <2>1. ASSUME NEW o \in Elts, elt'[o].set = "SET"
        PROVE  elt'[o] = elt[o] /\ when'[elt[o].fcn] = when[elt[o].fcn]
    <3>1. CASE o \in Pool
      BY <1>4, <1>6, <1>12, <2>1, <3>1, Names, Zenon
    <3>2. CASE o \in Threads
      BY <1>11, <2>1, <3>2, Zenon DEF Owned, ThreadOk
    <3> QED
      BY <3>1, <3>2, Names, Zenon
  <2>2. \A f \in Callers : when'[f] = -1 \/ when'[f] \in 0 .. now' + MaxInterval
    BY <1>1, <1>6, Zenon DEF Dated
  <2> QED
    BY <2>1, <2>2, Zenon DEF Dated
<1>14. \A t \in Threads : ThreadOk(t)'
  BY <1>8, <1>11, Zenon DEF Owned, ThreadOk
<1>15. \A g \in Pool : EltOk(g)'
  <2> SUFFICES ASSUME NEW g \in Pool PROVE EltOk(g)'
    BY Zenon
  <2>1. \A h \in Pool, c \in Drivers : Asks(h, c)' => Asks(h, c) /\ h # e
    BY <1>4, Names, Zenon DEF Asks
  <2>2. CASE g = e
    BY <1>4, <2>1, <2>2, Zenon DEF EltOk
  <2>3. CASE g # e
    <3>1. elt'[g] = elt[g] /\ EltOk(g)
      BY <1>4, <2>3, Names, Zenon DEF Owned
    <3>2. elt[g].set = "SET" => when'[elt[g].fcn] = when[elt[g].fcn]
      BY <1>6, <1>12, <2>3, Names, Zenon
    <3> QED
      BY <1>1, <1>8, <2>1, <3>1, <3>2, Zenon DEF EltOk
  <2> QED
    BY <2>2, <2>3, Zenon
<1>16. \A c \in Drivers : DriverOk(c)'
  <2> SUFFICES ASSUME NEW c \in Drivers PROVE DriverOk(c)'
    BY Zenon
  <2>1. DriverOk(c) /\ (calling[c].e # None => calling[c].e \in Pool) /\ calling' = calling
    BY <1>1, Fields, Zenon DEF Owned
  <2>2. calling[c].e # None => elt'[calling[c].e] = elt[calling[c].e]
    BY <1>2, <1>4, <2>1, Names, Zenon DEF DriverOk
  <2>3. CASE c = d
    BY <1>6, <1>8, <2>1, <2>2, <2>3, Zenon DEF DriverOk
  <2>4. CASE c # d
    <3>1. when'[c] = when[c] /\ \A h \in Pool : Asks(h, c) => Asks(h, c)'
      BY <1>3, <1>4, <1>6, <2>4, Names, Zenon DEF Asks
    <3> QED
      BY <1>8, <2>1, <2>2, <3>1, Zenon DEF DriverOk
  <2> QED
    BY <2>3, <2>4, Zenon
<1> QED
  BY <1>1, <1>5, <1>7, <1>9, <1>10, <1>13, <1>14, <1>15, <1>16, Zenon DEF Owned

(* reset_timeout_check.                                                    *)
LEMMA ResetTimeoutStep ==
  ASSUME IInv, panic = "none", NEW t \in Threads, ResetTimeout(t)
  PROVE  IInv'
<1> USE DEF IInv
<1>1. /\ UNCHANGED <<now, soft, rouse, calling, panic>>
      /\ IF elt[t].set = "SET" THEN Dequeue(t) ELSE chain' = chain
      /\ elt' = [elt EXCEPT ![t].set = "UNSET"]
      /\ when' = [when EXCEPT ![t] = -1] /\ \A g : Taken(g)' <=> Taken(g)
  BY Zenon DEF ResetTimeout, Taken
<1>2. t \in Elts /\ t \in Callers /\ t \notin Drivers /\ t \notin Pool /\ elt[t].fcn = t
  BY Names, Zenon DEF Owned, ThreadOk
<1>3. /\ elt' \in Timers /\ \A o \in Elts \ {t} : elt'[o] = elt[o]
      /\ elt'[t].set = "UNSET" /\ elt'[t].fcn = t /\ elt'[t].ticks = elt[t].ticks
  BY <1>1, <1>2, StateChanges, Zenon
<1>4. elt'[t].set # "SET" /\ elt'[t].set # "PENDING"
  BY <1>3, Zenon
<1>5. chain' \in Seq(Elts) /\ Sorted'
  <2>1. CASE elt[t].set = "SET"
    BY <1>1, <1>2, <1>3, <1>4, <2>1, DequeueKeeps, Zenon
  <2>2. CASE elt[t].set # "SET"
    <3>1. chain' = chain /\ chain \in Seq(Elts) /\ \A i \in DOMAIN chain : chain[i] \in Elts
      BY <1>1, <2>2 DEF TypeOK
    <3>2. \A o \in Elts : /\ elt'[o].ticks = elt[o].ticks
                          /\ elt'[o].set = "SET" <=> elt[o].set = "SET"
      BY <1>3, <1>4, <2>2, Zenon
    <3> QED
      BY <3>1, <3>2, Zenon DEF Sorted
  <2> QED
    BY <2>1, <2>2, Zenon
<1>6. /\ when' \in [Callers -> Int] /\ when'[t] = -1
      /\ \A g \in Callers \ {t} : when'[g] = when[g]
  BY <1>1, <1>2, WhenCleared, Zenon
<1>7. TypeOK'
  BY <1>1, <1>3, <1>5, <1>6, Zenon DEF TypeOK
<1>8. PoolFull'
  BY <1>1, Zenon DEF PoolFull
<1>9. \A u \in Threads \ {t} : elt'[u] = elt[u] /\ when'[u] = when[u]
  BY <1>3, <1>6, Names, Zenon
<1>10. OnTime'
  BY <1>1, <1>2, <1>4, <1>9, ClearedOnTime, Zenon
<1>11. \A e \in Pool : /\ elt'[e] = elt[e]
                       /\ elt[e].set = "SET" => when'[elt[e].fcn] = when[elt[e].fcn]
  BY <1>2, <1>3, <1>6, Names, ZenonT(30) DEF Owned, EltOk
<1>12. Dated'
  <2>1. ASSUME NEW o \in Elts, elt'[o].set = "SET"
        PROVE  elt'[o] = elt[o] /\ when'[elt[o].fcn] = when[elt[o].fcn]
    <3>1. CASE o \in Pool
      BY <1>11, <2>1, <3>1, Zenon
    <3>2. CASE o \in Threads
      BY <1>4, <1>9, <2>1, <3>2, Zenon DEF Owned, ThreadOk
    <3> QED
      BY <3>1, <3>2, Names, Zenon
  <2>2. \A f \in Callers : when'[f] = -1 \/ when'[f] \in 0 .. now' + MaxInterval
    BY <1>1, <1>6, Zenon DEF Dated
  <2> QED
    BY <2>1, <2>2 DEF Dated
<1>13. \A u \in Threads : ThreadOk(u)'
  <2> SUFFICES ASSUME NEW u \in Threads PROVE ThreadOk(u)'
    BY Zenon
  <2>1. CASE u = t
    BY <1>3, <1>6, <2>1, Zenon DEF ThreadOk
  <2>2. CASE u # t
    BY <1>1, <1>9, <2>2 DEF Owned, ThreadOk
  <2> QED
    BY <2>1, <2>2, Zenon
<1>14. \A e \in Pool : EltOk(e)'
  BY <1>1, <1>11 DEF Owned, EltOk, Asks
<1>15. \A d \in Drivers : DriverOk(d)'
  <2> SUFFICES ASSUME NEW d \in Drivers PROVE DriverOk(d)'
    BY Zenon
  <2>1. DriverOk(d) /\ (calling[d].e # None => calling[d].e \in Pool) /\ when'[d] = when[d]
    BY <1>2, <1>6, Fields, Names, Zenon DEF Owned
  <2> QED
    BY <1>1, <1>11, <2>1, Zenon DEF DriverOk, Asks
<1> QED
  BY <1>1, <1>5, <1>7, <1>8, <1>10, <1>12, <1>13, <1>14, <1>15, Zenon DEF Owned

-----------------------------------------------------------------------------
(* The sorted insertion.                                                   *)
INSTANCE FiniteSetTheorems

(* There is a first number in a set of numbers.                            *)
LEMMA Least ==
  ASSUME NEW T, T \subseteq Nat, T # {}
  PROVE  \E x \in T : \A y \in T : x <= y
<1> DEFINE R == OpToRel(<, Nat)
<1>1. IsWellFoundedOn(R, Nat)
  BY NatLessThanWellFounded, Zenon
<1>2. \A x, y \in Nat : x < y => <<x, y>> \in R
  BY SMT DEF OpToRel
<1> HIDE DEF R
<1>3. PICK x \in T : \A y \in T : ~ (<<y, x>> \in R)
  BY <1>1, WFMin, Zenon
<1>4. \A y \in T : y \in Nat /\ x \in Nat /\ ~(y < x)
  BY <1>2, <1>3, Zenon
<1>5. \A y \in T : x <= y
  BY <1>4
<1> QED
  BY <1>5, Zenon

(* The walk of a sorted insertion ends: at the first later element, or     *)
(* after the last one.                                                     *)
LEMMA InsertBeforeFacts ==
  ASSUME NEW S, NEW q \in Seq(S), NEW t \in S, NEW Later
  PROVE  \E i \in 1 .. Len(q) + 1 :
           /\ InsertBefore(q, t, Later) = InsertAt(q, i, t)
           /\ \A j \in 1 .. i - 1 : q[j] \notin Later
           /\ i <= Len(q) => q[i] \in Later
<1> DEFINE P(i) == /\ \A j \in 1 .. i - 1 : q[j] \notin Later
                   /\ i <= Len(q) => q[i] \in Later
           T == {i \in 1 .. Len(q) + 1 : i <= Len(q) => q[i] \in Later}
<1>1. Len(q) \in Nat
  OBVIOUS
<1>2. T \subseteq Nat /\ Len(q) + 1 \in T
  BY <1>1
<1>3. PICK m \in T : \A y \in T : m <= y
  <2> HIDE DEF T
  <2> QED
    BY <1>2, Least, Zenon
<1>4. m \in 1 .. Len(q) + 1 /\ (m <= Len(q) => q[m] \in Later)
  BY Zenon
<1>5. \A j \in 1 .. m - 1 : q[j] \notin Later
  <2> SUFFICES ASSUME NEW j \in 1 .. m - 1, q[j] \in Later PROVE FALSE
    BY Zenon
  <2>1. j \in 1 .. Len(q) + 1 /\ ~(m <= j)
    BY <1>1, <1>4
  <2>2. j \in T
    BY <2>1, Zenon
  <2> QED
    BY <1>3, <2>1, <2>2, Zenon
<1> DEFINE i == CHOOSE n \in 1 .. Len(q) + 1 : P(n)
<1>6. i \in 1 .. Len(q) + 1 /\ P(i)
  <2>1. \E n \in 1 .. Len(q) + 1 : P(n)
    BY <1>4, <1>5, Zenon
  <2> HIDE DEF P
  <2> QED
    BY <2>1, Zenon
<1>7. InsertBefore(q, t, Later) = InsertAt(q, i, t)
  BY Zenon DEF InsertBefore
<1> HIDE DEF i
<1> QED
  BY <1>6, <1>7, Zenon

(* set_timeout keeps the queue in order and exact.                         *)
LEMMA EnqueueKeeps ==
  ASSUME TypeOK, Sorted, NEW e \in Elts, elt[e].set # "SET", NEW n \in 0 .. MaxInterval,
         Enqueue(e, n)
  PROVE  /\ chain' \in Seq(Elts) /\ Sorted'
         /\ elt' = [elt EXCEPT ![e] = [set |-> "SET", ticks |-> (now + n) % Wrap,
                                       fcn |-> elt[e].fcn]]
         /\ (now + n) % Wrap \in Nat
<1> DEFINE q == chain
           k == (now + n) % Wrap
           Later == {o \in Elts : elt[o].ticks >= k}
<1>1. now \in Nat /\ n \in Nat /\ now + n \in Nat /\ Wrap \in Nat \ {0}
  BY TimeoutConstants DEF TypeOK
<1>2. k \in Nat
  BY <1>1, Remainders, Zenon
<1> HIDE DEF k
<1>3. q \in Seq(Elts) /\ Len(q) \in Nat /\ DOMAIN q = 1 .. Len(q) /\ IsInjective(q)
      /\ Range(q) = {o \in Elts : elt[o].set = "SET"} /\ e \notin Range(q)
  BY DEF TypeOK, Sorted
<1>4. elt' = [elt EXCEPT ![e] = [set |-> "SET", ticks |-> k, fcn |-> elt[e].fcn]]
  <2>1. elt' = [elt EXCEPT ![e].ticks = k, ![e].set = "SET"]
    BY Zenon DEF Enqueue, k
  <2>2. elt \in Timers
    BY Zenon DEF TypeOK
  <2> QED
    BY <2>1, <2>2 DEF Timers
<1>5. chain' = InsertBefore(q, e, Later)
  BY Zenon DEF Enqueue, k
<1>6. PICK i \in 1 .. Len(q) + 1 :
        /\ InsertBefore(q, e, Later) = InsertAt(q, i, e)
        /\ \A j \in 1 .. i - 1 : q[j] \notin Later
        /\ i <= Len(q) => q[i] \in Later
  <2> HIDE DEF Later, q
  <2> QED
    BY <1>3, InsertBeforeFacts, Zenon
<1> DEFINE r == InsertAt(q, i, e)
<1>7. /\ r \in Seq(Elts) /\ Len(r) = Len(q) + 1 /\ IsInjective(r)
      /\ Range(r) = Range(q) \cup {e} /\ Inserted(r, q, i, e)
  <2> HIDE DEF q
  <2>1. /\ r \in Seq(Elts) /\ Len(r) = Len(q) + 1 /\ IsInjective(r)
        /\ Range(r) = Range(q) \cup {e}
    BY <1>3, InsertAtFacts, SMT
  <2>2. Inserted(r, q, i, e)
    BY <1>3, InsertAtElements, SMT
  <2> QED
    BY <2>1, <2>2, Zenon
<1>8. chain' = r
  BY <1>5, <1>6, Zenon
<1> HIDE DEF r, q
<1>9. /\ elt'[e].ticks = k /\ elt'[e].set = "SET"
      /\ \A o \in Elts \ {e} : elt'[o] = elt[o]
  BY <1>4, Zenon DEF TypeOK, Timers
<1>10. Range(r) = {o \in Elts : elt'[o].set = "SET"}
  BY <1>3, <1>7, <1>9, Zenon
<1>11. \A j \in 1 .. Len(q) : q[j] \in Elts /\ q[j] # e /\ elt'[q[j]] = elt[q[j]]
                              /\ elt[q[j]].ticks \in Nat
  <2> SUFFICES ASSUME NEW j \in 1 .. Len(q)
               PROVE  q[j] \in Elts /\ q[j] # e /\ elt'[q[j]] = elt[q[j]] /\ elt[q[j]].ticks \in Nat
    BY Zenon
  <2>1. q[j] \in Elts /\ q[j] \in Range(q)
    BY <1>3, Zenon DEF Range
  <2> QED
    BY <2>1, <1>3, <1>9, Fields, Zenon
<1>12. \A a, b \in 1 .. Len(q) : a < b => elt[q[a]].ticks <= elt[q[b]].ticks
  BY <1>3, Zenon DEF Sorted, q
<1>13. \A j \in 1 .. i - 1 : j \in 1 .. Len(q) /\ elt[q[j]].ticks < k
  <2> SUFFICES ASSUME NEW j \in 1 .. i - 1 PROVE j \in 1 .. Len(q) /\ elt[q[j]].ticks < k
    BY Zenon
  <2>1. j \in 1 .. Len(q)
    BY <1>3
  <2> QED
    BY <2>1, <1>2, <1>6, <1>11
<1>14. \A j \in i .. Len(q) : j \in 1 .. Len(q) /\ k <= elt[q[j]].ticks
  <2> SUFFICES ASSUME NEW j \in i .. Len(q) PROVE j \in 1 .. Len(q) /\ k <= elt[q[j]].ticks
    BY Zenon
  <2>1. j \in 1 .. Len(q) /\ i \in 1 .. Len(q) /\ i <= j
    BY <1>3
  <2>2. elt[q[i]].ticks >= k
    BY <2>1, <1>6
  <2>3. i = j \/ elt[q[i]].ticks <= elt[q[j]].ticks
    BY <2>1, <1>12
  <2> QED
    BY <2>1, <2>2, <2>3, <1>2, <1>11
<1>15. ASSUME NEW a \in 1 .. Len(q) + 1, NEW b \in 1 .. Len(q) + 1, a < b
       PROVE  elt'[r[a]].ticks <= elt'[r[b]].ticks
  <2>1. /\ r[a] = IF a < i THEN q[a] ELSE IF a = i THEN e ELSE q[a - 1]
        /\ r[b] = IF b < i THEN q[b] ELSE IF b = i THEN e ELSE q[b - 1]
    BY <1>7, Zenon DEF Inserted
  <2>2. CASE b < i
    <3>1. a \in 1 .. Len(q) /\ b \in 1 .. Len(q) /\ r[a] = q[a] /\ r[b] = q[b]
      BY <2>1, <2>2, <1>3, <1>15
    <3> QED
      BY <3>1, <1>11, <1>12, <1>15, Zenon
  <2>3. CASE b = i
    <3>1. a \in 1 .. i - 1 /\ r[a] = q[a] /\ r[b] = e
      BY <2>1, <2>3, <1>15
    <3> QED
      BY <3>1, <1>2, <1>9, <1>11, <1>13
  <2>4. CASE i < b /\ a < i
    <3>1. a \in 1 .. i - 1 /\ b - 1 \in i .. Len(q) /\ r[a] = q[a] /\ r[b] = q[b - 1]
      BY <2>1, <2>4, <1>3
    <3>2. /\ elt[q[a]].ticks < k /\ k <= elt[q[b - 1]].ticks
          /\ a \in 1 .. Len(q) /\ b - 1 \in 1 .. Len(q)
      BY <3>1, <1>13, <1>14, Zenon
    <3>3. elt[q[a]].ticks \in Nat /\ elt[q[b - 1]].ticks \in Nat
      BY <3>2, <1>11, Zenon
    <3>4. \A x, y, z \in Nat : x < z /\ z <= y => x <= y
      OBVIOUS
    <3>5. elt[q[a]].ticks <= elt[q[b - 1]].ticks
      BY <3>2, <3>3, <3>4, <1>2, Zenon
    <3> QED
      BY <3>1, <3>2, <3>5, <1>11, Zenon
  <2>5. CASE i < b /\ a = i
    <3>1. b - 1 \in i .. Len(q) /\ r[a] = e /\ r[b] = q[b - 1]
      BY <2>1, <2>5, <1>3
    <3>2. k <= elt[q[b - 1]].ticks /\ b - 1 \in 1 .. Len(q)
      BY <3>1, <1>14, Zenon
    <3> QED
      BY <3>1, <3>2, <1>9, <1>11, Zenon
  <2>6. CASE i < b /\ i < a
    <3>1. /\ a - 1 \in 1 .. Len(q) /\ b - 1 \in 1 .. Len(q) /\ a - 1 < b - 1
          /\ r[a] = q[a - 1] /\ r[b] = q[b - 1]
      BY <2>1, <2>6, <1>3, <1>15
    <3> QED
      BY <3>1, <1>11, <1>12, Zenon
  <2> QED
    BY <2>2, <2>3, <2>4, <2>5, <2>6
<1>16. DOMAIN r = 1 .. Len(q) + 1
  BY <1>7
<1>17. Sorted'
  BY <1>7, <1>8, <1>10, <1>15, <1>16, Zenon DEF Sorted
<1> QED
  BY <1>2, <1>4, <1>7, <1>8, <1>17, Zenon DEF k

(* timeout() queues the element it allocated.                              *)
LEMMA TimeoutSetStep ==
  ASSUME IInv, panic = "none", NEW d \in Drivers, TimeoutSet(d)
  PROVE  IInv'
<1> USE DEF IInv
<1> DEFINE e == calling[d].e
           n == calling[d].interval
<1>1. /\ UNCHANGED <<now, soft, rouse, panic>> /\ e # None /\ Enqueue(e, n)
      /\ when' = [when EXCEPT ![d] = now + n]
      /\ calling' = [calling EXCEPT ![d].e = None, ![d].interval = 0]
      /\ \A g : Taken(g)' <=> Taken(g)
  BY Zenon DEF TimeoutSet, Taken
<1>2. /\ calling' \in [Drivers -> [e : Pool \union {None}, interval : 0 .. MaxInterval]]
      /\ calling'[d].e = None /\ \A c \in Drivers \ {d} : calling'[c] = calling[c]
  <2>1. calling \in [Drivers -> [e : Pool \union {None}, interval : 0 .. MaxInterval]]
    BY Zenon DEF TypeOK
  <2>2. 0 \in 0 .. MaxInterval
    BY Names
  <2> QED
    BY <1>1, <2>1, <2>2, Zenon
<1>3. /\ e \in Pool /\ e \in Elts /\ d \in Callers /\ n \in 0 .. MaxInterval
      /\ elt[e].set = "ALLOC" /\ elt[e].fcn = d /\ when[d] = -1 /\ ~Taken(d)
  BY <1>1, Fields, Names, Zenon DEF Owned, DriverOk
<1> HIDE DEF e, n
<1>4. /\ chain' \in Seq(Elts) /\ Sorted'
      /\ elt' = [elt EXCEPT ![e] = [set |-> "SET", ticks |-> (now + n) % Wrap, fcn |-> d]]
      /\ (now + n) % Wrap \in Nat
  BY <1>1, <1>3, EnqueueKeeps, Zenon
<1>5. /\ elt' \in Timers /\ \A o \in Elts \ {e} : elt'[o] = elt[o]
      /\ elt'[e].set = "SET" /\ elt'[e].fcn = d /\ elt'[e].ticks = (now + n) % Wrap
  <2>1. elt \in Timers
    BY Zenon DEF TypeOK
  <2> QED
    BY <1>3, <1>4, <2>1, Zenon DEF Timers
<1>6. /\ when' \in [Callers -> Int] /\ when'[d] = now + n
      /\ \A g \in Callers \ {d} : when'[g] = when[g]
      /\ now + n \in 0 .. now + MaxInterval /\ now + n # -1
  BY <1>1, <1>3, Requested, Zenon
<1>7. TypeOK'
  BY <1>1, <1>2, <1>4, <1>5, <1>6, Zenon DEF TypeOK
<1>8. PoolFull'
  BY <1>1, Zenon DEF PoolFull
<1>9. OnTime'
  <2>1. d \notin Threads /\ \A t \in Threads \ {d} : elt'[t] = elt[t]
    BY <1>3, <1>5, Names, Zenon
  <2> QED
    BY <1>1, <1>3, <2>1, RequestOnTime, Zenon
<1>10. \A o \in Elts : elt[o].set = "SET" => elt[o].fcn # d /\ elt[o].fcn \in Callers
  BY <1>3, SetElement, Zenon
<1>11. Dated'
  <2>1. ASSUME NEW o \in Elts, elt'[o].set = "SET"
        PROVE  elt'[o].ticks = when'[elt'[o].fcn] % Wrap
    <3>1. CASE o = e
      BY <1>5, <1>6, <3>1, Zenon
    <3>2. CASE o # e
      BY <1>5, <1>6, <1>10, <2>1, <3>2 DEF Dated
    <3> QED
      BY <3>1, <3>2, Zenon
  <2>2. \A f \in Callers : when'[f] = -1 \/ when'[f] \in 0 .. now' + MaxInterval
    BY <1>1, <1>6, Zenon DEF Dated
  <2> QED
    BY <2>1, <2>2, Zenon DEF Dated
<1>12. \A t \in Threads : ThreadOk(t)'
  <2>1. \A t \in Threads : elt'[t] = elt[t] /\ when'[t] = when[t]
    BY <1>3, <1>5, <1>6, Names, Zenon
  <2> QED
    BY <1>1, <2>1 DEF Owned, ThreadOk
<1>13. \A g \in Pool : EltOk(g)'
  <2> SUFFICES ASSUME NEW g \in Pool PROVE EltOk(g)'
    BY Zenon
  <2>1. \A h \in Pool, c \in Drivers :
          Asks(h, c)' => (h = e /\ c = d) \/ (Asks(h, c) /\ h # e /\ c # d)
    <3> SUFFICES ASSUME NEW h \in Pool, NEW c \in Drivers, Asks(h, c)'
                 PROVE  (h = e /\ c = d) \/ (Asks(h, c) /\ h # e /\ c # d)
      BY Zenon
    <3>1. CASE h = e
      BY <1>5, <3>1, Zenon DEF Asks
    <3>2. CASE h # e
      <4>1. h \in Elts /\ elt'[h] = elt[h]
        BY <1>5, <3>2, Names, Zenon
      <4>2. Asks(h, c)
        BY <4>1, Zenon DEF Asks
      <4> QED
        BY <1>10, <3>2, <4>1, <4>2, Zenon DEF Asks
    <3> QED
      BY <3>1, <3>2, Zenon
  <2>2. CASE g = e
    <3>1. elt'[g].fcn = d /\ elt'[g].set = "SET" /\ when'[d] # -1 /\ ~Taken(d)'
      BY <1>1, <1>3, <1>5, <1>6, <2>2, Zenon
    <3>2. \A h \in Pool, c \in Drivers : Asks(g, c)' /\ Asks(h, c)' => g = h
      BY <2>1, <2>2, Zenon
    <3> QED
      BY <3>1, <3>2, Zenon DEF EltOk
  <2>3. CASE g # e
    <3>1. elt'[g] = elt[g] /\ EltOk(g)
      BY <1>5, <2>3, Names, Zenon DEF Owned
    <3>2. elt[g].set = "ALLOC" => calling'[elt[g].fcn].e = g
      <4>1. elt[g].set = "ALLOC" => elt[g].fcn \in Drivers /\ elt[g].fcn # d
        BY <2>3, <3>1, Zenon DEF EltOk, e
      <4> QED
        BY <1>2, <3>1, <4>1, Zenon DEF EltOk
    <3>3. elt[g].set = "SET" => when'[elt[g].fcn] = when[elt[g].fcn]
      BY <1>6, <1>10, Names, Zenon
    <3> QED
      BY <1>1, <2>1, <3>1, <3>2, <3>3, Zenon DEF EltOk
  <2> QED
    BY <2>2, <2>3, Zenon
<1>14. \A c \in Drivers : DriverOk(c)'
  <2> SUFFICES ASSUME NEW c \in Drivers PROVE DriverOk(c)'
    BY Zenon
  <2>1. DriverOk(c) /\ (calling[c].e # None => calling[c].e \in Pool)
    BY Fields, Zenon DEF Owned
  <2>2. CASE c = d
    BY <1>1, <1>2, <1>3, <1>5, <1>6, <2>2, Zenon DEF DriverOk, Asks
  <2>3. CASE c # d
    <3>1. calling'[c] = calling[c] /\ when'[c] = when[c]
      BY <1>2, <1>6, <2>3, Names, Zenon
    <3>2. calling[c].e # None => elt'[calling[c].e] = elt[calling[c].e]
      BY <1>3, <1>5, <2>1, <2>3, Names, Zenon DEF DriverOk
    <3>3. \A h \in Pool : Asks(h, c) => Asks(h, c)'
      BY <1>3, <1>5, Names, Zenon DEF Asks
    <3> QED
      BY <1>1, <2>1, <3>1, <3>2, <3>3, Zenon DEF DriverOk
  <2> QED
    BY <2>2, <2>3, Zenon
<1> QED
  BY <1>1, <1>4, <1>7, <1>8, <1>9, <1>11, <1>12, <1>13, <1>14, Zenon DEF Owned

(* thread_set_timeout.                                                     *)
LEMMA SetTimeoutStep ==
  ASSUME IInv, panic = "none", NEW t \in Threads, NEW n \in 0 .. MaxInterval, SetTimeout(t, n)
  PROVE  IInv'
<1> USE DEF IInv
<1>1. /\ UNCHANGED <<now, soft, rouse, calling, panic>> /\ elt[t].set # "SET" /\ Enqueue(t, n)
      /\ when' = [when EXCEPT ![t] = now + n] /\ \A g : Taken(g)' <=> Taken(g)
  BY Zenon DEF SetTimeout, Taken
<1>2. t \in Elts /\ t \in Callers /\ t \notin Drivers /\ t \notin Pool /\ elt[t].fcn = t
  BY Names, Zenon DEF Owned, ThreadOk
<1>3. /\ chain' \in Seq(Elts) /\ Sorted'
      /\ elt' = [elt EXCEPT ![t] = [set |-> "SET", ticks |-> (now + n) % Wrap, fcn |-> t]]
      /\ (now + n) % Wrap \in Nat
  BY <1>1, <1>2, EnqueueKeeps, Zenon
<1>4. /\ elt' \in Timers /\ \A o \in Elts \ {t} : elt'[o] = elt[o]
      /\ elt'[t].set = "SET" /\ elt'[t].fcn = t /\ elt'[t].ticks = (now + n) % Wrap
  <2>1. elt \in Timers
    BY Zenon DEF TypeOK
  <2> QED
    BY <1>2, <1>3, <2>1, Zenon DEF Timers
<1>5. /\ when' \in [Callers -> Int] /\ when'[t] = now + n
      /\ \A g \in Callers \ {t} : when'[g] = when[g]
      /\ now + n \in 0 .. now + MaxInterval /\ now + n # -1
  BY <1>1, <1>2, Requested, Zenon
<1>6. TypeOK'
  BY <1>1, <1>3, <1>4, <1>5, Zenon DEF TypeOK
<1>7. PoolFull'
  BY <1>1, Zenon DEF PoolFull
<1>8. OnTime'
  <2>1. elt'[t].set # "PENDING" /\ \A u \in Threads \ {t} : elt'[u] = elt[u]
    BY <1>4, Names, Zenon
  <2> QED
    BY <1>1, <1>2, <2>1, RequestOnTime, Zenon
<1>9. \A e \in Pool : /\ elt'[e] = elt[e]
                      /\ elt[e].set = "SET" => when'[elt[e].fcn] = when[elt[e].fcn]
  BY <1>2, <1>4, <1>5, Names DEF Owned, EltOk
<1>10. \A u \in Threads \ {t} : elt'[u] = elt[u] /\ when'[u] = when[u]
  BY <1>4, <1>5, Names, Zenon
<1>11. Dated'
  <2>1. ASSUME NEW o \in Elts, elt'[o].set = "SET"
        PROVE  elt'[o].ticks = when'[elt'[o].fcn] % Wrap
    <3>1. CASE o = t
      BY <1>4, <1>5, <3>1, Zenon
    <3>2. CASE o \in Pool
      BY <1>9, <2>1, <3>2 DEF Dated
    <3>3. CASE o \in Threads \ {t}
      BY <1>10, <2>1, <3>3 DEF Dated, Owned, ThreadOk
    <3> QED
      BY <3>1, <3>2, <3>3, Names, Zenon
  <2>2. \A f \in Callers : when'[f] = -1 \/ when'[f] \in 0 .. now' + MaxInterval
    BY <1>1, <1>5, Zenon DEF Dated
  <2> QED
    BY <2>1, <2>2, Zenon DEF Dated
<1>12. \A u \in Threads : ThreadOk(u)'
  <2> SUFFICES ASSUME NEW u \in Threads PROVE ThreadOk(u)'
    BY Zenon
  <2>1. CASE u = t
    BY <1>4, <1>5, <2>1, Zenon DEF ThreadOk
  <2>2. CASE u # t
    BY <1>1, <1>10, <2>2, ZenonT(30) DEF Owned, ThreadOk
  <2> QED
    BY <2>1, <2>2, Zenon
<1>13. \A e \in Pool : EltOk(e)'
  BY <1>1, <1>9 DEF Owned, EltOk, Asks
<1>14. \A d \in Drivers : DriverOk(d)'
  <2> SUFFICES ASSUME NEW d \in Drivers PROVE DriverOk(d)'
    BY Zenon
  <2>1. DriverOk(d) /\ (calling[d].e # None => calling[d].e \in Pool) /\ when'[d] = when[d]
    BY <1>2, <1>5, Fields, Names, Zenon DEF Owned
  <2> QED
    BY <1>1, <1>9, <2>1, Zenon DEF DriverOk, Asks
<1> QED
  BY <1>1, <1>3, <1>6, <1>7, <1>8, <1>11, <1>12, <1>13, <1>14, Zenon DEF Owned

-----------------------------------------------------------------------------
(* No request has been made when the services start.                       *)
LEMMA InitIInv == Init => IInv
<1> SUFFICES ASSUME Init PROVE IInv
  BY Zenon
<1>1. /\ now = 0 /\ chain = <<>> /\ rouse = FALSE /\ panic = "none"
      /\ soft = [at |-> "scan", fcn |-> None]
      /\ elt = [e \in Elts |-> [set |-> "UNSET", ticks |-> 0,
                                fcn |-> IF e \in Threads THEN e ELSE None]]
      /\ calling = [d \in Drivers |-> [e |-> None, interval |-> 0]]
      /\ when = [f \in Callers |-> -1]
  BY Zenon DEF Init
<1>2. TypeOK
  <2>1. elt \in Timers
    BY <1>1, Names, Zenon DEF Timers
  <2>2. calling \in [Drivers -> [e : Pool \union {None}, interval : 0 .. MaxInterval]]
    BY <1>1, Names
  <2>3. when \in [Callers -> Int] /\ chain \in Seq(Elts)
    BY <1>1
  <2> QED
    BY <1>1, <2>1, <2>2, <2>3, Zenon DEF TypeOK
<1>3. \A e \in Elts : elt[e].set = "UNSET" /\ elt[e].fcn = IF e \in Threads THEN e ELSE None
  BY <1>1, Zenon
<1>4. (\A f \in Callers : when[f] = -1) /\ (\A d \in Drivers : calling[d].e = None)
      /\ \A g : ~Taken(g)
  BY <1>1, Zenon DEF Taken
<1>5. Sorted
  BY <1>1, <1>3 DEF Sorted, IsInjective, Range
<1>6. Dated /\ OnTime /\ PoolFull
  BY <1>1, <1>3, <1>4, Zenon DEF Dated, OnTime, PoolFull
<1>7. Owned
  BY <1>1, <1>3, <1>4, Names, Zenon DEF Owned, ThreadOk, EltOk, DriverOk, Asks
<1> QED
  BY <1>2, <1>5, <1>6, <1>7, Zenon DEF IInv

(* The inductive invariant holds in every state the services reach.        *)
THEOREM Invariance == Spec => []IInv
<1>1. IInv /\ UNCHANGED vars => IInv'
  <2> SUFFICES ASSUME IInv, UNCHANGED vars PROVE IInv'
    BY Zenon
  <2>1. UNCHANGED <<now, elt, chain, soft, rouse, calling, when, panic>>
    BY Zenon DEF vars
  <2>2. TypeOK' /\ Sorted' /\ Dated' /\ PoolFull'
    BY <2>1, Zenon DEF IInv, TypeOK, Sorted, Dated, PoolFull
  <2>3. OnTime'
    BY <2>1, Zenon DEF IInv, OnTime, FarFromWrap, Taken
  <2>4. Owned'
    <3>1. \A t \in Threads : ThreadOk(t)'
      BY <2>1, Zenon DEF IInv, Owned, ThreadOk, Taken
    <3>2. \A e \in Pool : EltOk(e)'
      BY <2>1, Zenon DEF IInv, Owned, EltOk, Asks, Taken
    <3>3. \A c \in Drivers : DriverOk(c)'
      BY <2>1, Zenon DEF IInv, Owned, DriverOk, Asks, Taken
    <3> QED
      BY <2>1, <3>1, <3>2, <3>3, Zenon DEF IInv, Owned
  <2> QED
    BY <2>2, <2>3, <2>4, Zenon DEF IInv
<1>2. IInv /\ Next => IInv'
  <2> SUFFICES ASSUME IInv, Next PROVE IInv'
    BY Zenon
  <2>1. panic = "none"
    BY Zenon DEF Next
  <2> QED
    BY <2>1, TickStep, WakeupStep, WaitStep, TakeStep, CallStep, ReturnStep, TimeoutStep,
       TimeoutSetStep, UntimeoutStep, SetTimeoutStep, ResetTimeoutStep, Zenon DEF Next
<1> QED
  BY <1>1, <1>2, InitIInv, PTL DEF Spec

(* set_timeout, reset_timeout, untimeout and softclock neither lose nor    *)
(* repeat a request, and keep the queue in order of expiration.            *)
THEOREM QueueKept == Spec => []QueueExact
<1>1. IInv => QueueExact
  <2> SUFFICES ASSUME IInv, NEW f \in Callers
               PROVE  LET mine == {e \in Range(chain) : elt[e].fcn = f}
                      IN  /\ \A e, g \in mine : e = g
                          /\ mine = {} => when[f] = -1 \/ Taken(f)
                          /\ \A e \in mine : elt[e].ticks = when[f] % Wrap
    BY Zenon DEF IInv, QueueExact, Sorted
  <2>1. \A e : e \in Range(chain) <=> e \in Elts /\ elt[e].set = "SET"
    BY Zenon DEF IInv, Sorted
  <2>2. \A e \in Elts : elt[e].set = "SET" => elt[e].ticks = when[elt[e].fcn] % Wrap
    BY Zenon DEF IInv, Dated
  <2>3. CASE f \in Threads
    <3>1. ThreadOk(f) /\ f \in Elts /\ f \notin Drivers
      BY <2>3, Names, Zenon DEF IInv, Owned
    <3>2. \A e \in Elts : elt[e].set = "SET" /\ elt[e].fcn = f => e = f
      BY <3>1, Names, Zenon DEF IInv, Owned, ThreadOk, EltOk
    <3>3. elt[f].set # "SET" => when[f] = -1 \/ Taken(f)
      BY <3>1, Fields, Zenon DEF IInv, ThreadOk
    <3>4. elt[f].fcn = f
      BY <3>1, Zenon DEF ThreadOk
    <3> QED
      BY <2>1, <2>2, <3>1, <3>2, <3>3, <3>4, Zenon
  <2>4. CASE f \in Drivers
    <3>1. \A e \in Elts : elt[e].set = "SET" /\ elt[e].fcn = f => e \in Pool /\ Asks(e, f)
      BY <2>4, Names, Zenon DEF IInv, Owned, ThreadOk, Asks
    <3>2. \A e, g \in Pool : Asks(e, f) /\ Asks(g, f) => e = g
      BY <2>4, Zenon DEF IInv, Owned, EltOk
    <3>3. when[f] = -1 \/ Taken(f) \/ \E e \in Pool : Asks(e, f)
      BY <2>4, Zenon DEF IInv, Owned, DriverOk
    <3>4. \A e \in Pool : Asks(e, f) => e \in Elts /\ elt[e].set = "SET" /\ elt[e].fcn = f
      BY Names, Zenon DEF Asks
    <3> QED
      BY <2>1, <2>2, <3>1, <3>2, <3>3, <3>4, Zenon
  <2> QED
    BY <2>3, <2>4, Names, Zenon
<1> QED
  BY <1>1, Invariance, PTL

(* Until the tick counter comes near its wrap, softclock calls nothing     *)
(* early and sleeps through nothing.                                       *)
THEOREM CalledOnTime == Spec => []OnTime
<1>1. IInv => OnTime
  BY Zenon DEF IInv
<1> QED
  BY <1>1, Invariance, PTL

(* timeout() panics only when as many drivers wait for a call as there are *)
(* elements in the pool.                                                   *)
THEOREM PanicsOnlyWhenFull == Spec => []PoolExhausted
<1>1. IInv => PoolExhausted
  <2> SUFFICES ASSUME IInv, panic = "timeout" PROVE PoolExhausted
    BY Zenon DEF PoolExhausted
  <2> DEFINE D == {d \in Drivers : calling[d].e # None \/ \E e \in Range(chain) : elt[e].fcn = d}
             F == [e \in Pool |-> elt[e].fcn]
  <2>1. \A e : e \in Range(chain) <=> e \in Elts /\ elt[e].set = "SET"
    BY Zenon DEF IInv, Sorted
  <2>2. \A e \in Pool : elt[e].set \in {"ALLOC", "SET"} /\ e \in Elts /\ e # None
    BY Fields, Names, Zenon DEF IInv, Owned, EltOk, PoolFull
  <2>3. \A e \in Pool : elt[e].fcn \in D
    BY <2>1, <2>2, Zenon DEF IInv, Owned, EltOk
  <2>4. ASSUME NEW e \in Pool, NEW g \in Pool, elt[e].fcn = elt[g].fcn PROVE e = g
    <3> DEFINE d == elt[e].fcn
    <3>1. d \in Drivers /\ EltOk(e) /\ EltOk(g) /\ DriverOk(d)
      BY <2>3, Zenon DEF IInv, Owned
    <3>2. CASE elt[e].set = "ALLOC" /\ elt[g].set = "ALLOC"
      BY <2>4, <3>1, <3>2, Zenon DEF EltOk
    <3>3. CASE elt[e].set = "SET" /\ elt[g].set = "SET"
      BY <2>4, <3>1, <3>3, Zenon DEF EltOk, Asks
    <3>4. CASE elt[e].set = "ALLOC" /\ elt[g].set = "SET"
      BY <2>2, <2>4, <3>1, <3>4, Zenon DEF EltOk, DriverOk
    <3>5. CASE elt[e].set = "SET" /\ elt[g].set = "ALLOC"
      BY <2>2, <2>4, <3>1, <3>5, Zenon DEF EltOk, DriverOk
    <3> QED
      BY <2>2, <3>2, <3>3, <3>4, <3>5, Zenon
  <2>5. ASSUME NEW d \in D PROVE \E e \in Pool : elt[e].fcn = d
    <3>1. CASE calling[d].e # None
      BY <3>1, Fields, Zenon DEF IInv, Owned, DriverOk
    <3>2. CASE \E e \in Range(chain) : elt[e].fcn = d
      BY <2>1, <3>2, Names DEF IInv, Owned, ThreadOk
    <3> QED
      BY <3>1, <3>2, Zenon
  <2>6. ExistsBijection(Pool, D)
    <3> HIDE DEF D
    <3>1. F \in [Pool -> D]
      BY <2>3, Zenon
    <3>2. \A e, g \in Pool : F[e] = F[g] => e = g
      BY <2>4, Zenon
    <3>3. \A d \in D : \E e \in Pool : F[e] = d
      BY <2>5, Zenon
    <3> HIDE DEF F
    <3> QED
      BY <3>1, <3>2, <3>3, Zenon DEF ExistsBijection, Bijection, Injection, Surjection, IsInjective
  <2>7. Cardinality(D) = Cardinality(Pool)
    <3> HIDE DEF D
    <3> QED
      BY <2>6, TimeoutConstants, FS_Bijection, Zenon
  <2> QED
    BY <2>7, Zenon DEF PoolExhausted
<1> QED
  BY <1>1, Invariance, PTL
=============================================================================
