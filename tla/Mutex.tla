------------------------------- MODULE Mutex --------------------------------
(***************************************************************************)
(* The kernel's blocking mutex on the PowerPC: mutex_init, _mutex_lock,    *)
(* _mutex_try and mutex_unlock of ppc/hw_lock.s with their C halves        *)
(* mutex_lock_wait and mutex_unlock_wakeup of kern/lock.c.                 *)
(*                                                                         *)
(* A step is one atomic access to the words of the mutex, or a stretch of  *)
(* code that only the holder of the interlock can disturb.  _mutex_try     *)
(* sets the locked word without the interlock, so it may run between any   *)
(* two steps of the other routines.                                        *)
(***************************************************************************)
EXTENDS Naturals, FiniteSets

CONSTANTS
  Users,                \* the threads that use the mutex
  WaitersMod            \* 2^16: waiters is a halfword (sth/lhz)

ASSUME UsersFinite == IsFiniteSet(Users)
ASSUME WaitersFit == WaitersMod \in Nat /\ Cardinality(Users) < WaitersMod

VARIABLES
  interlock,            \* MUTEX_ILK: the interlock is taken
  locked,               \* MUTEX_LOCKED: the mutex is taken
  waiters,              \* MUTEX_WAITERS
  place                 \* where each thread is

mutexVars == <<interlock, locked, waiters, place>>

(* "retry": about to take the interlock in _mutex_lock; "ilk": has it and  *)
(* is about to test locked; "got": has set locked, still has the           *)
(* interlock; "hold": owns the mutex; "unlock": mutex_unlock has the       *)
(* interlock; "clear": and has seen to the waiters; "free": and has        *)
(* cleared locked; "asleep": blocked in thread_sleep_interlock.            *)
Places == {"out", "retry", "ilk", "got", "hold", "unlock", "clear", "free", "asleep"}

Enter(t, to) == place' = [place EXCEPT ![t] = to]

MutexInit ==
  /\ interlock = FALSE /\ locked = FALSE /\ waiters = 0
  /\ place = [t \in Users |-> "out"]

Call(t) ==
  /\ place[t] = "out" /\ Enter(t, "retry")
  /\ UNCHANGED <<interlock, locked, waiters>>

TakeInterlock(t, from, to) ==
  /\ place[t] = from /\ ~interlock
  /\ interlock' = TRUE /\ Enter(t, to)
  /\ UNCHANGED <<locked, waiters>>

LockInterlock(t) == TakeInterlock(t, "retry", "ilk")

(* Mutant: the locked word is tested but stored unconditionally later, as  *)
(* a plain load and store would.                                           *)
LockTake_NoTest(t) ==
  /\ place[t] = "ilk"
  /\ locked' = TRUE /\ Enter(t, "got")
  /\ UNCHANGED <<interlock, waiters>>

(* lwarx/stwcx. on locked succeeds ...                                     *)
LockTake(t) ==
  /\ place[t] = "ilk" /\ ~locked
  /\ locked' = TRUE /\ Enter(t, "got")
  /\ UNCHANGED <<interlock, waiters>>

LockDropInterlock(t) ==
  /\ place[t] = "got"
  /\ interlock' = FALSE /\ Enter(t, "hold")
  /\ UNCHANGED <<locked, waiters>>

(* Mutant: the waiter is not counted.                                      *)
LockWait_Uncounted(t) ==
  /\ place[t] = "ilk" /\ locked
  /\ interlock' = FALSE /\ Enter(t, "asleep")
  /\ UNCHANGED <<locked, waiters>>

(* ... or fails: mutex_lock_wait counts the waiter and asserts the wait    *)
(* before thread_sleep_interlock drops the interlock.                      *)
LockWait(t) ==
  /\ place[t] = "ilk" /\ locked
  /\ waiters' = IF waiters + 1 = WaitersMod THEN 0 ELSE waiters + 1
  /\ interlock' = FALSE /\ Enter(t, "asleep")
  /\ UNCHANGED locked

(* _mutex_try: fails without a trace when the mutex is locked.             *)
Try(t) ==
  /\ place[t] = "out" /\ ~locked
  /\ locked' = TRUE /\ Enter(t, "hold")
  /\ UNCHANGED <<interlock, waiters>>

UnlockInterlock(t) == TakeInterlock(t, "hold", "unlock")

(* thread_wakeup_one makes one sleeper runnable, if there is one; it goes  *)
(* back to .L_ml_retry.                                                    *)
WakeupOne ==
  IF \E u \in Users : place[u] = "asleep"
    THEN {{u} : u \in {v \in Users : place[v] = "asleep"}}
    ELSE {{}}

(* Mutant: no wakeup.                                                      *)
UnlockWakeup_None(t) ==
  /\ place[t] = "unlock" /\ Enter(t, "clear")
  /\ UNCHANGED <<interlock, locked, waiters>>

(* mutex_unlock looks at waiters and calls mutex_unlock_wakeup.            *)
UnlockWakeup(t) ==
  /\ place[t] = "unlock"
  /\ waiters' = IF waiters = 0 THEN 0 ELSE waiters - 1
  /\ \E W \in IF waiters = 0 THEN {{}} ELSE WakeupOne :
       place' = [u \in Users |-> IF u = t THEN "clear" ELSE IF u \in W THEN "retry" ELSE place[u]]
  /\ UNCHANGED <<interlock, locked>>

UnlockClear(t) ==
  /\ place[t] = "clear"
  /\ locked' = FALSE /\ Enter(t, "free")
  /\ UNCHANGED <<interlock, waiters>>

UnlockDropInterlock(t) ==
  /\ place[t] = "free"
  /\ interlock' = FALSE /\ Enter(t, "out")
  /\ UNCHANGED <<locked, waiters>>

MutexNext == \E t \in Users :
  \/ Call(t) \/ LockInterlock(t) \/ LockTake(t) \/ LockDropInterlock(t) \/ LockWait(t)
  \/ Try(t) \/ UnlockInterlock(t) \/ UnlockWakeup(t) \/ UnlockClear(t)
  \/ UnlockDropInterlock(t)

MutexSpec == MutexInit /\ [][MutexNext]_mutexVars

(* A processor inside the routines keeps executing.                        *)
MutexFairSpec ==
  /\ MutexSpec
  /\ \A t \in Users :
       /\ WF_mutexVars(LockTake(t)) /\ WF_mutexVars(LockWait(t))
       /\ WF_mutexVars(LockDropInterlock(t))
       /\ WF_mutexVars(UnlockWakeup(t)) /\ WF_mutexVars(UnlockClear(t))
       /\ WF_mutexVars(UnlockDropInterlock(t))
       /\ WF_mutexVars(LockInterlock(t)) /\ WF_mutexVars(UnlockInterlock(t))

-----------------------------------------------------------------------------
Where(S) == {t \in Users : place[t] \in S}
Owners == Where({"got", "hold", "unlock", "clear"})
Insiders == Where({"ilk", "got", "unlock", "clear", "free"})

MutexTypeOK ==
  /\ interlock \in BOOLEAN /\ locked \in BOOLEAN
  /\ waiters \in 0 .. WaitersMod - 1
  /\ place \in [Users -> Places]

(* The fast path of _mutex_try takes the mutex behind the back of a thread *)
(* that has the interlock, yet there is one owner at a time.               *)
OneOwner == \A t, u \in Owners : t = u

(* waiters counts the sleepers exactly at every step: the wakeup that      *)
(* mutex_unlock_wakeup pays for finds a sleeper, and none is forgotten.    *)
WaitersExact == waiters = Cardinality(Where({"asleep"}))

(* Nobody is left asleep on a mutex that is free: a woken thread is on its *)
(* way to test it again, even if _mutex_try stole it from the thread that  *)
(* was woken first.                                                        *)
NoSleepOnFree ==
  Where({"asleep"}) # {} => locked \/ Where({"retry", "ilk"}) # {}

(* The two words of the mutex tell where the threads are: the interlock    *)
(* has one owner, and the locked word is set exactly while there is an     *)
(* owner, whichever of the two routines took it.                           *)
WordsAgree ==
  /\ interlock <=> Insiders # {}
  /\ \A t, u \in Insiders : t = u
  /\ locked <=> Owners # {}

(* Why NoSleepOnFree survives the store that frees the mutex: the sleeper  *)
(* mutex_unlock has woken waits for the interlock until after the store.   *)
ClearInv ==
  Where({"clear"}) # {} /\ Where({"asleep"}) # {} => Where({"retry"}) # {}

(* Contention is resolved: whenever threads want the mutex somebody comes  *)
(* to own it.  (No single thread is promised the mutex: _mutex_try and     *)
(* fresh callers overtake a woken sleeper.)                                *)
SomebodyGetsIt ==
  Where({"retry", "ilk", "asleep"}) # {} ~> Owners # {}
=============================================================================
