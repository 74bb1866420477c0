------------------------------ MODULE SyncLock ------------------------------
(***************************************************************************)
(* Lock sets: kern/sync_lock.c, and what the termination of an activation  *)
(* (kern/thread_act.c) does to the locks it holds.                         *)
(*                                                                         *)
(* A thread that must wait puts itself where the thread that will wake it  *)
(* looks (ulock->blocked_threads, ulock->ho_thread), drops the locks and   *)
(* only then calls assert_wait; the waker drops the locks before it calls  *)
(* clear_wait.  On one processor without preemption nothing runs in        *)
(* between.  With more processors, or MACH_RT preemption, it does: mp.     *)
(* A step is what is done under the lock of the set or of the ulock, or    *)
(* one of the calls made after they are dropped.  With mp these are some   *)
(* of the interleavings there are: the test for an abort is one step with  *)
(* the removal, and LOCK_OPERATION_COMPLETE with clear_wait.               *)
(***************************************************************************)
EXTENDS Queues, FiniteSets

CONSTANTS Threads,     \* threads, each with its activation
          Ulocks,      \* ulock_list
          None,        \* THREAD_NULL, THR_ACT_NULL
          Builds       \* the values mp may have

ASSUME LockConstants == /\ None \notin Threads
                        /\ Ulocks # {}         \* lock_set_create wants n_ulocks > 0
                        /\ Builds \subseteq BOOLEAN

VARIABLES
  mp,                  \* can a thread run while another is between two calls
  active,              \* lock_set->active
  held,                \* lock_set->held_ulocks
  handoff,             \* lock_set->handoff_ulocks
  ul,                  \* the ulocks
  th,                  \* what each thread is doing
  stray                \* history: has a thread left a hand-off and not seen that it was aborted

vars == <<mp, active, held, handoff, ul, th, stray>>

Ulock == [owner : Threads \union {None},  \* and the activation's held_ulocks list
          state : {"free", "held"},
          stable : BOOLEAN,
          ho_thread : Threads \union {None},
          blocked : Seq(Threads),
          count : Int]

(* linked is wait_link.prev # 0, LOCK_OPERATION_ABORTED: a thread leaves a *)
(* queue with it set and LOCK_OPERATION_COMPLETE clears it.                *)
Pcs == {"idle", "enqueued", "acquire", "offering", "offered", "handoff", "wake", "terminate",
        "crash"}                           \* a panic, or a queue written through stale links
Thread == [pc : Pcs,
           u : Ulocks,
           waiting : BOOLEAN,              \* TH_WAIT
           result : {"none", "success", "unstable", "destroyed", "aborted"},
           linked : BOOLEAN,
           alive : BOOLEAN,                \* thr_act->active
           target : Threads \union {None}, \* the thread to wake
           news : {"none", "success", "unstable"}, \* what to tell the thread to wake
           victim : Threads \union {None}] \* whose termination this is part of

Init ==
  /\ mp \in Builds
  /\ active = TRUE
  /\ held = {} /\ handoff = {} /\ stray = FALSE
  /\ ul = [u \in Ulocks |-> [owner |-> None, state |-> "free", stable |-> TRUE,
                             ho_thread |-> None, blocked |-> <<>>, count |-> 0]]
  /\ th = [t \in Threads |->
             [pc |-> "idle", u |-> CHOOSE u \in Ulocks : TRUE, waiting |-> FALSE,
              result |-> "none", linked |-> FALSE, alive |-> TRUE,
              target |-> None, news |-> "none", victim |-> None]]

-----------------------------------------------------------------------------
Between == {"enqueued", "offering", "offered", "wake", "terminate"}
Crashed == \E t \in Threads : th[t].pc = "crash"
(* May thread t run now.  Nothing is said of what follows a crash.         *)
Runs(t) == ~Crashed /\ (mp \/ \A o \in Threads \ {t} : th[o].pc \notin Between)
(* No new call is made once a hand-off was left behind: the next thread    *)
(* given the lock may be in a queue already, and the queues mean nothing.  *)
Calls(t) == th[t].pc = "idle" /\ th[t].alive /\ Runs(t) /\ ~stray

(* A hand-off is offered in two steps, and the ulock stays locked from the *)
(* first to the second: whoever locks it waits.                            *)
Offering(t, u) == th[t].pc = "offering" /\ th[t].u = u
Unlocked(u) == \A t \in Threads : ~Offering(t, u)

Status(u) == IF ul[u].stable THEN "success" ELSE "unstable"
Return(t, r) == [th EXCEPT ![t].pc = "idle", ![t].result = r]
Crash(t) == th' = [th EXCEPT ![t].pc = "crash"]

(* LOCK_OPERATION_COMPLETE and clear_wait(t, r, TRUE).                     *)
Completed(x, r) == IF x.waiting THEN [x EXCEPT !.linked = FALSE, !.waiting = FALSE, !.result = r]
                                ELSE [x EXCEPT !.linked = FALSE]

Take(t, u) == /\ held' = held \union {u}
              /\ ul' = [ul EXCEPT ![u].owner = t, ![u].state = "held"]

(* lock_acquire and lock_try.                                              *)
LockTry(t, u) ==
  /\ Calls(t) /\ active /\ Unlocked(u)
  /\ ul[u].state = "free" /\ Take(t, u)
  /\ th' = [Return(t, Status(u)) EXCEPT ![t].u = u]
  /\ UNCHANGED <<mp, active, handoff, stray>>

LockAcquire(t, u) ==
  \/ LockTry(t, u)
  \/ /\ Calls(t) /\ active /\ Unlocked(u) /\ ul[u].state = "held"
     /\ ul' = [ul EXCEPT ![u].blocked = Append(@, t), ![u].count = @ + 1]
     /\ th' = [th EXCEPT ![t].pc = "enqueued", ![t].u = u, ![t].linked = TRUE]
     /\ UNCHANGED <<mp, active, held, handoff, stray>>

AssertWait(t) ==
  /\ th[t].pc \in {"enqueued", "offered"} /\ Runs(t)
  /\ th' = [th EXCEPT ![t].pc = IF @ = "enqueued" THEN "acquire" ELSE "handoff",
                      ![t].waiting = TRUE]
  /\ UNCHANGED <<mp, active, held, handoff, ul, stray>>

(* The end of lock_acquire: an aborted thread takes itself off the queue.  *)
(* With mp a release may have done so already, and not said so yet:        *)
(* queue_remove then joins the old neighbours, wherever they are now.      *)
\* mutant: a thread looks at the set again before it returns
AcquireReturns_Active(t) == /\ th[t].pc = "acquire" /\ ~th[t].waiting /\ Runs(t)
                            /\ active /\ ~th[t].linked
                            /\ th' = Return(t, th[t].result)
                            /\ UNCHANGED <<mp, active, held, handoff, ul, stray>>
AcquireReturns(t) ==
  LET u == th[t].u
  IN  /\ th[t].pc = "acquire" /\ ~th[t].waiting /\ Runs(t)
      /\ th[t].linked => Unlocked(u)
      /\ IF ~th[t].linked
           THEN th' = Return(t, th[t].result) /\ UNCHANGED ul
         ELSE IF t \in Range(ul[u].blocked)
           THEN /\ ul' = [ul EXCEPT ![u].blocked = QueueRemove(@, t),
                                    ![u].count = @ - 1]
                /\ th' = Return(t, "aborted")
           ELSE Crash(t) /\ UNCHANGED ul
      /\ UNCHANGED <<mp, active, held, handoff, stray>>

(* lock_release_internal by thread t for the activation that owns u.  Who  *)
(* was woken is told after the ulock is unlocked.                          *)
\* mutant: the new owner is not woken
Release_Silent(t, u, victim) ==
  /\ active
  /\ IF ul[u].blocked # <<>>
       THEN /\ ul' = [ul EXCEPT ![u].owner = Head(ul[u].blocked), ![u].blocked = Tail(@),
                                ![u].count = @ - 1]
            /\ UNCHANGED held
       ELSE held' = held \ {u} /\ ul' = [ul EXCEPT ![u].owner = None, ![u].state = "free"]
  /\ UNCHANGED <<mp, active, handoff, th, stray>>
Release(t, u, victim) ==
  /\ active /\ Unlocked(u)
  /\ LET stable == ul[u].stable /\ victim = None
         q == ul[u].blocked
     IN  IF q # <<>>
           THEN /\ ul' = [ul EXCEPT ![u].owner = Head(q), ![u].blocked = Tail(q),
                                    ![u].count = @ - 1, ![u].stable = stable]
                /\ th' = [th EXCEPT ![t].pc = "wake", ![t].target = Head(q),
                                    ![t].news = IF stable THEN "success" ELSE "unstable",
                                    ![t].victim = victim]
                /\ UNCHANGED held
           ELSE /\ held' = held \ {u}
                /\ ul' = [ul EXCEPT ![u].owner = None, ![u].state = "free",
                                    ![u].stable = stable]
                /\ UNCHANGED th
  /\ UNCHANGED <<mp, active, handoff, stray>>

LockRelease(t, u) == Calls(t) /\ ul[u].owner = t /\ Release(t, u, None)

Wake(t) ==
  LET w == th[t].target
      after == [th EXCEPT ![t].pc = IF th[t].victim = None THEN "idle" ELSE "terminate",
                          ![t].target = None, ![t].news = "none"]
  IN  /\ th[t].pc = "wake" /\ Runs(t)
      /\ th' = [after EXCEPT ![w] = Completed(@, th[t].news)]
      /\ UNCHANGED <<mp, active, held, handoff, ul, stray>>

MakeStable(t, u) ==
  /\ Calls(t) /\ active /\ Unlocked(u) /\ ul[u].owner = t
  /\ ul' = [ul EXCEPT ![u].stable = TRUE]
  /\ UNCHANGED <<mp, active, held, handoff, th, stray>>

(* lock_handoff: the lock goes to the thread that waits to accept it, or   *)
(* waits for one.  lock_handoff_accept is the other side.                  *)
Transfer(u, to) == /\ handoff' = handoff \ {u}
                   /\ ul' = [ul EXCEPT ![u].owner = to, ![u].ho_thread = None]
Offer(t, u) == /\ handoff' = handoff \union {u} /\ UNCHANGED ul
               /\ th' = [th EXCEPT ![t].pc = "offering", ![t].u = u]
(* The lock of the set is dropped between the two, that of the ulock is not. *)
SetHoThread(t) == /\ th[t].pc = "offering" /\ Runs(t)
                  /\ ul' = [ul EXCEPT ![th[t].u].ho_thread = t]
                  /\ th' = [th EXCEPT ![t].pc = "offered"]
                  /\ UNCHANGED <<mp, active, held, handoff, stray>>

LockHandoff(t, u) ==
  LET ac == ul[u].ho_thread
  IN  /\ Calls(t) /\ active /\ Unlocked(u) /\ ul[u].owner = t
      /\ \/ /\ ac # None /\ Transfer(u, ac)
            /\ th' = [th EXCEPT ![t].pc = "wake", ![t].target = ac, ![t].news = Status(u),
                                ![t].result = "success", ![t].u = u]
         \/ ac = None /\ Offer(t, u)
      /\ UNCHANGED <<mp, active, held, stray>>

LockHandoffAccept(t, u) ==
  LET ho == ul[u].ho_thread
  IN  /\ Calls(t) /\ active /\ Unlocked(u)
      /\ \/ /\ ho # None /\ ul[u].owner = ho /\ Transfer(u, t)
            /\ th' = [th EXCEPT ![t].pc = "wake", ![t].target = ho, ![t].news = "success",
                                ![t].result = Status(u), ![t].u = u]
         \/ ho = None /\ Offer(t, u)
      /\ UNCHANGED <<mp, active, held, stray>>

(* The end of both.  The abort check reads wait_link, which a thread that  *)
(* waits here never entered into a queue: it shows what the last queue the *)
(* thread was in left there.                                               *)
\* mutant: the aborted thread leaves ho_thread set
HandoffReturns_Keeps(t) ==
  /\ th[t].pc = "handoff" /\ ~th[t].waiting /\ Runs(t)
  /\ th' = Return(t, IF th[t].linked THEN "aborted" ELSE th[t].result)
  /\ UNCHANGED <<mp, active, held, handoff, ul, stray>>
HandoffReturns(t) ==
  LET u == th[t].u
  IN  /\ th[t].pc = "handoff" /\ ~th[t].waiting /\ Runs(t)
      /\ th[t].linked /\ active => Unlocked(u)
      /\ stray' = (stray \/ (~th[t].linked /\ ul[u].ho_thread = t))
      /\ IF th[t].linked /\ active
           THEN IF u \in handoff
                  THEN /\ handoff' = handoff \ {u}
                       /\ ul' = [ul EXCEPT ![u].ho_thread = None]
                       /\ th' = Return(t, "aborted")
                  ELSE Crash(t) /\ UNCHANGED <<handoff, ul>>  \* as in AcquireReturns
           ELSE /\ th' = Return(t, IF th[t].linked THEN "aborted" ELSE th[t].result)
                /\ UNCHANGED <<handoff, ul>>
      /\ UNCHANGED <<mp, active, held>>

-----------------------------------------------------------------------------
(* thread_abort: clear_wait(t, THREAD_INTERRUPTED, TRUE).                  *)
Abort(t) ==
  /\ th[t].waiting /\ ~Crashed /\ (mp \/ \A o \in Threads : th[o].pc \notin Between)
  /\ th' = [th EXCEPT ![t].waiting = FALSE, ![t].result = "aborted"]
  /\ UNCHANGED <<mp, active, held, handoff, ul, stray>>

(* thread_terminate of v by t: v is stopped first, act_ulock_release_all   *)
(* releases its ulocks, unstable, and act_abort interrupts it.             *)
Terminate(t, v) ==
  /\ Calls(t) /\ th[v].alive
  /\ th[v].pc \notin Between
  /\ th' = [th EXCEPT ![v].alive = FALSE, ![t].pc = "terminate", ![t].victim = v]
  /\ UNCHANGED <<mp, active, held, handoff, ul, stray>>

ReleaseAll(t) ==
  LET v == th[t].victim
      owned == {u \in Ulocks : ul[u].owner = v}
  IN  /\ th[t].pc = "terminate" /\ Runs(t)
      /\ \/ \E u \in owned : Release(t, u, v)
         \/ /\ owned = {}
            /\ th' = [o \in Threads |->
                       LET x == IF o = t THEN [th[t] EXCEPT !.pc = "idle", !.victim = None]
                                         ELSE th[o]
                       IN  IF o = v /\ x.waiting
                             THEN [x EXCEPT !.waiting = FALSE, !.result = "aborted"]
                             ELSE x]
            /\ UNCHANGED <<mp, active, held, handoff, ul, stray>>

(* lock_set_destroy, under the lock of the set throughout and that of each *)
(* held ulock, but not of those on the hand-off list: one that was put     *)
(* there and has no ho_thread yet is the panic "lock_set_destroy: 2".  A   *)
(* ulock keeps its state and its ho_thread; nothing reads them any more.   *)
\* mutant: the holders keep their ulocks, and nobody is woken
LockSetDestroy_Kept(t) == /\ Calls(t) /\ active
                          /\ active' = FALSE
                          /\ held' = {} /\ handoff' = {}
                          /\ UNCHANGED <<mp, stray, ul, th>>
LockSetDestroy(t) ==
  LET woken == (UNION {Range(ul[u].blocked) : u \in held}) \union {ul[u].ho_thread : u \in handoff}
  IN  /\ Calls(t) /\ active /\ \A u \in held : Unlocked(u)
      /\ IF \E u \in handoff : ul[u].ho_thread = None
           THEN Crash(t) /\ UNCHANGED <<active, held, handoff, ul>>
           ELSE /\ active' = FALSE
                /\ held' = {} /\ handoff' = {}
                /\ ul' = [u \in Ulocks |->
                            IF u \in held THEN [ul[u] EXCEPT !.owner = None, !.blocked = <<>>,
                                                             !.count = @ - Len(ul[u].blocked)]
                                          ELSE ul[u]]
                /\ th' = [o \in Threads |-> IF o \in woken THEN Completed(th[o], "destroyed")
                                                            ELSE th[o]]
      /\ UNCHANGED <<mp, stray>>

Step(t) == \/ SetHoThread(t) \/ AssertWait(t) \/ AcquireReturns(t) \/ HandoffReturns(t)
           \/ Wake(t) \/ ReleaseAll(t)
Next ==
  \E t \in Threads :
    \/ Step(t)
    \/ \E u \in Ulocks : \/ LockAcquire(t, u) \/ LockRelease(t, u) \/ MakeStable(t, u)
                         \/ LockHandoff(t, u) \/ LockHandoffAccept(t, u)
    \/ Abort(t)
    \/ \E v \in Threads : Terminate(t, v)
    \/ LockSetDestroy(t)

Spec == Init /\ [][Next]_vars
(* A thread that can run goes on until it waits or returns.                *)
FairSpec == Spec /\ \A t \in Threads : WF_vars(Step(t))

-----------------------------------------------------------------------------
Acquiring(t, u) == th[t].pc \in {"enqueued", "acquire"} /\ th[t].u = u
BeingWoken(t) == \E o \in Threads : th[o].target = t
HandingOff(t, u) == th[t].pc \in {"offered", "handoff"} /\ th[t].u = u

(* The four records of who has a lock agree: the owner, the state, the     *)
(* set's held list (which lock_set_destroy walks) and the threads blocked, *)
(* who block only on a held lock.  A destroyed set has no owner.           *)
OwnershipAgrees ==
  \A u \in Ulocks :
    /\ (u \in held) = (ul[u].owner # None)
    /\ active => (u \in held) = (ul[u].state = "held")
    /\ ul[u].blocked # <<>> => u \in held
    /\ ~active => ul[u].owner = None

(* Without preemption no wakeup is lost: a thread asleep in lock_acquire   *)
(* is in the queue its waker looks at, one asleep in a hand-off is the     *)
(* ho_thread, and nobody sleeps on a destroyed set.  The blocked queue     *)
(* holds just the threads acquiring the ulock that were not told yet, once *)
(* each, and blocked_count is its length; nobody takes itself off a second *)
(* time, and lock_set_destroy does not panic.                              *)
SleepersKnown ==
  ~mp /\ ~stray =>
    /\ ~Crashed
    /\ \A t \in Threads : th[t].waiting /\ ~BeingWoken(t) =>
         /\ active
         /\ th[t].pc = "acquire" => t \in Range(ul[th[t].u].blocked)
         /\ th[t].pc = "handoff" => ul[th[t].u].ho_thread = t
    /\ \A u \in Ulocks :
         /\ Range(ul[u].blocked) =
              {t \in Threads : Acquiring(t, u) /\ th[t].linked /\ ~BeingWoken(t)}
         /\ IsInjective(ul[u].blocked)
         /\ ul[u].count = Len(ul[u].blocked)

(* A ulock is on the hand-off list exactly when it has an ho_thread, or is *)
(* getting one under its lock, and that thread is still there to hand the  *)
(* lock over or to accept it: unless its abort went unseen.                *)
HandoffPaired ==
  active => \A u \in Ulocks :
              /\ (u \in handoff) = (ul[u].ho_thread # None \/ ~Unlocked(u))
              /\ ul[u].ho_thread # None /\ ~stray => HandingOff(ul[u].ho_thread, u)

(* lock_release hands the lock "to a waiting thread" and wakes it up: the  *)
(* owner of a lock does not stay asleep in the lock_acquire that got it.   *)
(* (One that acquires its own lock again waits for itself.)                *)
OwnerWakes ==
  \A t \in Threads, u \in Ulocks :
    ul[u].owner = t /\ Acquiring(t, u) /\ th[t].waiting
      => BeingWoken(t) \/ t \in Range(ul[u].blocked)

(* Destroying the set gets every thread out of it.                         *)
DestroyReleases ==
  ~active /\ ~mp /\ ~stray ~> \A t \in Threads : th[t].pc = "idle"
=============================================================================
