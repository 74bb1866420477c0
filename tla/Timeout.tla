------------------------------ MODULE Timeout -------------------------------
(***************************************************************************)
(* The kernel timeout services of kern/mach_clock.c: a queue of timer      *)
(* elements in order of expiration, the clock interrupt that counts ticks, *)
(* the softclock thread that calls what is due, and the pool of elements   *)
(* of timeout() and untimeout().                                           *)
(*                                                                         *)
(* A step is what is done under timer_lock, or a call made without it.     *)
(***************************************************************************)
EXTENDS Queues, FiniteSets

CONSTANTS Drivers,     \* callers of timeout(), each with its own function
          Threads,     \* owners of a private timer element (thread->timer)
          Pool,        \* timeout_timers
          None,        \* no element, no function
          Wrap,        \* timeout_ticks and telt->ticks are natural_t: 2^32
          MaxInterval, \* the longest interval asked for
          MaxNow       \* bound on the ticks of a behaviour

ASSUME TimeoutConstants ==
  /\ MaxInterval \in Nat /\ MaxNow \in Nat /\ Wrap \in Nat \ {0}
  /\ IsFiniteSet(Pool) /\ Threads \intersect (Drivers \union Pool) = {}
  /\ None \notin Drivers \union Threads \union Pool

VARIABLES
  now,                 \* ticks since boot; timeout_ticks is now % Wrap
  elt,                 \* the timer elements
  chain,               \* timer_head.chain: the elements queued, in order
  soft,                \* softclock: at "scan", "asleep", "taken" or "inside" a function
  rouse,               \* timeout_tick found something due and has not called thread_wakeup
  calling,             \* each driver inside timeout(): the element it allocated
  when,                \* history: the tick each function is due at, -1 if not asked for
  panic                \* "timeout" when the pool was empty, "sentinel" when softclock took timer_head

vars == <<now, elt, chain, soft, rouse, calling, when, panic>>

Callers == Drivers \union Threads
Elts == Pool \union Threads        \* the private element of a thread goes by its name
timeout_ticks == now % Wrap
Sentinel == Wrap - 1

Init ==
  /\ now = 0 /\ chain = <<>> /\ rouse = FALSE /\ panic = "none"
  /\ soft = [at |-> "scan", fcn |-> None]
  /\ elt = [e \in Elts |-> [set |-> "UNSET", ticks |-> 0,
                            fcn |-> IF e \in Threads THEN e ELSE None]]
  /\ calling = [d \in Drivers |-> [e |-> None, interval |-> 0]]
  /\ when = [f \in Callers |-> -1]

HeadTicks == IF chain = <<>> THEN Sentinel ELSE elt[Head(chain)].ticks

-----------------------------------------------------------------------------
(* set_timeout: the element goes before the first one that is not earlier. *)
(* The sum of timeout_ticks and the interval is a natural_t, and wraps.    *)
\* mutant: behind every queued element
Enqueue_Last(e, interval) ==
  LET ticks == (now + interval) % Wrap
  IN  /\ chain' = Append(chain, e)
      /\ elt' = [elt EXCEPT ![e].ticks = ticks, ![e].set = "SET"]
Enqueue(e, interval) ==
  LET ticks == (now + interval) % Wrap
  IN  /\ chain' = InsertBefore(chain, e, {o \in Elts : elt[o].ticks >= ticks})
      /\ elt' = [elt EXCEPT ![e].ticks = ticks, ![e].set = "SET"]

Dequeue(e) == chain' = QueueRemove(chain, e)

(* timeout(): an element is allocated under the lock and queued under      *)
(* another hold of it.                                                     *)
Timeout(d, interval) ==
  LET free == {e \in Pool : elt[e].set = "UNSET"}
  IN  /\ when[d] = -1 /\ calling[d].e = None
      /\ \/ \E e \in free : /\ elt' = [elt EXCEPT ![e].fcn = d, ![e].set = "ALLOC"]
                            /\ calling' = [calling EXCEPT ![d] = [e |-> e, interval |-> interval]]
                            /\ UNCHANGED panic
         \/ free = {} /\ panic' = "timeout" /\ UNCHANGED <<elt, calling>>
      /\ UNCHANGED <<now, chain, soft, rouse, when>>

TimeoutSet(d) ==
  /\ calling[d].e # None
  /\ Enqueue(calling[d].e, calling[d].interval)
  /\ calling' = [calling EXCEPT ![d].e = None, ![d].interval = 0]
  /\ when' = [when EXCEPT ![d] = now + calling[d].interval]
  /\ UNCHANGED <<now, soft, rouse, panic>>

Untimeout(d) ==
  \E i \in DOMAIN chain :
    /\ elt[chain[i]].fcn = d /\ \A j \in 1..i - 1 : elt[chain[j]].fcn # d
    /\ Dequeue(chain[i])
    /\ elt' = [elt EXCEPT ![chain[i]].set = "UNSET"]
    /\ when' = [when EXCEPT ![d] = -1]
    /\ UNCHANGED <<now, soft, rouse, calling, panic>>

(* The private element of a thread: thread_set_timeout, and                *)
(* reset_timeout_check when it is woken for another reason.                *)
SetTimeout(t, interval) ==
  /\ elt[t].set # "SET"
  /\ Enqueue(t, interval)
  /\ when' = [when EXCEPT ![t] = now + interval]
  /\ UNCHANGED <<now, soft, rouse, calling, panic>>

ResetTimeout(t) ==
  /\ elt[t].set # "UNSET"
  /\ IF elt[t].set = "SET" THEN Dequeue(t) ELSE UNCHANGED chain
  /\ elt' = [elt EXCEPT ![t].set = "UNSET"]
  /\ when' = [when EXCEPT ![t] = -1]
  /\ UNCHANGED <<now, soft, rouse, calling, panic>>

-----------------------------------------------------------------------------
(* timeout_tick; the softclock thread is woken after timer_lock is let go. *)
Tick == /\ now < MaxNow /\ ~rouse
        /\ now' = now + 1
        /\ rouse' = (HeadTicks <= (now + 1) % Wrap)
        /\ UNCHANGED <<elt, chain, soft, calling, when, panic>>

Wakeup == /\ rouse /\ rouse' = FALSE
          /\ soft' = IF soft.at = "asleep" THEN [soft EXCEPT !.at = "scan"] ELSE soft
          /\ UNCHANGED <<now, elt, chain, calling, when, panic>>

(* One turn of softclock's loop: wait (assert_wait is called with the lock *)
(* held), or take the first element and free it for use.                   *)
SoftclockWait_Late ==   \* mutant: an element that is one tick overdue is left alone
  /\ soft.at = "scan" /\ HeadTicks >= timeout_ticks - 1
  /\ soft' = [soft EXCEPT !.at = "asleep"]
  /\ UNCHANGED <<now, elt, chain, rouse, calling, when, panic>>
SoftclockWait ==
  /\ soft.at = "scan" /\ HeadTicks > timeout_ticks
  /\ soft' = [soft EXCEPT !.at = "asleep"]
  /\ UNCHANGED <<now, elt, chain, rouse, calling, when, panic>>

SoftclockTake_Busy ==   \* mutant: the element is free when its function returns
  /\ soft.at = "scan" /\ HeadTicks <= timeout_ticks /\ chain # <<>>
  /\ chain' = Tail(chain)
  /\ soft' = [at |-> "taken", fcn |-> elt[Head(chain)].fcn]
  /\ elt' = [elt EXCEPT ![Head(chain)].set = "PENDING"]
  /\ UNCHANGED <<now, rouse, calling, when, panic>>
SoftclockTake ==
  /\ soft.at = "scan" /\ HeadTicks <= timeout_ticks
  /\ \/ /\ chain # <<>>
        /\ LET e == Head(chain)
           IN  /\ soft' = [at |-> "taken", fcn |-> elt[e].fcn]
               /\ elt' = [elt EXCEPT ![e].set = IF e \in Threads THEN "PENDING" ELSE "UNSET"]
        /\ chain' = Tail(chain) /\ UNCHANGED panic
     \/ chain = <<>> /\ panic' = "sentinel" /\ UNCHANGED <<soft, elt, chain>>
  /\ UNCHANGED <<now, rouse, calling, when>>

(* The function: a driver's, which may call timeout() itself, or           *)
(* thread_timeout, which does nothing unless the timer is still pending.   *)
SoftclockCall ==
  /\ soft.at = "taken"
  /\ soft' = [soft EXCEPT !.at = "inside"]
  /\ LET f == soft.fcn
     IN  IF f \in Drivers THEN when' = [when EXCEPT ![f] = -1] /\ UNCHANGED elt
         ELSE IF elt[f].set = "PENDING"
           THEN when' = [when EXCEPT ![f] = -1] /\ elt' = [elt EXCEPT ![f].set = "UNSET"]
           ELSE UNCHANGED <<when, elt>>
  /\ UNCHANGED <<now, chain, rouse, calling, panic>>

SoftclockReturn ==
  /\ soft.at = "inside" /\ soft' = [at |-> "scan", fcn |-> None]
  /\ UNCHANGED <<now, elt, chain, rouse, calling, when, panic>>

Next ==
  /\ panic = "none"
  /\ \/ Tick \/ Wakeup \/ SoftclockWait \/ SoftclockTake \/ SoftclockCall \/ SoftclockReturn
     \/ \E d \in Drivers : \/ \E i \in 0..MaxInterval : Timeout(d, i)
                           \/ TimeoutSet(d) \/ Untimeout(d)
     \/ \E t \in Threads : ResetTimeout(t) \/ \E i \in 0..MaxInterval : SetTimeout(t, i)

Spec == Init /\ [][Next]_vars

-----------------------------------------------------------------------------
(* No sum of the clock and an interval has come near the sentinel yet.     *)
FarFromWrap == now + MaxInterval < Sentinel
Taken(f) == soft.at = "taken" /\ soft.fcn = f

(* The queue is in order of expiration and holds the elements that are     *)
(* set, each once; every request that was neither called nor taken back is *)
(* in the queue with its time, once, or in softclock's hands: set_timeout, *)
(* reset_timeout, untimeout and softclock neither lose nor repeat one.     *)
QueueExact ==
  /\ \A i, j \in DOMAIN chain : i < j => elt[chain[i]].ticks <= elt[chain[j]].ticks
  /\ IsInjective(chain) /\ Range(chain) = {e \in Elts : elt[e].set = "SET"}
  /\ \A f \in Callers :
       LET mine == {e \in Range(chain) : elt[e].fcn = f}
       IN  /\ \A e, g \in mine : e = g
           /\ mine = {} => when[f] = -1 \/ Taken(f)
           /\ \A e \in mine : elt[e].ticks = when[f] % Wrap

(* While timeout_ticks is far from its wrap, functions are called on time. *)
(* What softclock has taken, and will call, is due by now.  And it does    *)
(* not miss the clock interrupt: when it sleeps and no wakeup is on its    *)
(* way nothing is overdue (an interval of 0 waits for the next tick).      *)
OnTime ==
  FarFromWrap =>
    /\ \A f \in Drivers : Taken(f) => when[f] <= now
    /\ \A t \in Threads : Taken(t) /\ elt[t].set = "PENDING" => when[t] <= now
    /\ soft.at = "asleep" /\ ~rouse => \A f \in Callers : when[f] = -1 \/ when[f] >= now

(* timeout() panics only when every element of the pool is a request of    *)
(* its own, still to be called: no element is lost, and one is free before *)
(* its function is called, which may set the next timeout.                 *)
PoolExhausted ==
  panic = "timeout" =>
    Cardinality({d \in Drivers : calling[d].e # None \/ \E e \in Range(chain) : elt[e].fcn = d})
      = Cardinality(Pool)
=============================================================================
