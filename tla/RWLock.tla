------------------------------- MODULE RWLock -------------------------------
(***************************************************************************)
(* The complex (readers/writer, sleepable, upgradable) lock of the kernel, *)
(* kern/lock.c: lock_init, lock_write, lock_done, lock_read,               *)
(* lock_read_to_write and lock_write_to_read.                              *)
(*                                                                         *)
(* One step is what a routine does between taking and dropping             *)
(* l->interlock.  The spinning done with the interlock dropped             *)
(* (lock_wait_time) changes nothing and shows up as stuttering.  A call of *)
(* thread_wakeup comes after the interlock is dropped, so it is a step of  *)
(* its own (Wakeup), owed by the thread whose do_wakeup was set.           *)
(***************************************************************************)
EXTENDS Naturals, FiniteSets

CONSTANT Threads        \* the threads that use the lock

ASSUME ThreadsFinite == IsFiniteSet(Threads)

VARIABLES
  want_write,           \* l->want_write: a writer holds or drains the lock
  want_upgrade,         \* l->want_upgrade: an upgrader holds or drains it
  waiting,              \* l->waiting: somebody may be asleep on the lock
  read_count,           \* l->read_count
  can_sleep,            \* l->can_sleep
  pc,                   \* where each thread is in the routines
  asleep,               \* threads between thread_sleep_simple_lock and wakeup
  do_wakeup             \* threads that still owe thread_wakeup((event_t) l)

lockVars == <<want_write, want_upgrade, read_count>>
vars == <<want_write, want_upgrade, waiting, read_count, can_sleep, pc,
          asleep, do_wakeup>>

(* "want": in the first loop of lock_write; "drain": in its second loop;   *)
(* "rdwait": in the loop of lock_read; "updrain": in the loop of           *)
(* lock_read_to_write; "read", "write", "upgraded": holding the lock.      *)
Waits == {"want", "drain", "rdwait", "updrain"}
Holds == {"read", "write", "upgraded"}

Init ==
  /\ want_write = FALSE /\ want_upgrade = FALSE /\ waiting = FALSE
  /\ read_count = 0
  /\ can_sleep \in BOOLEAN
  /\ pc = [t \in Threads |-> "out"]
  /\ asleep = {} /\ do_wakeup = {}

Runs(t) == t \notin asleep /\ t \notin do_wakeup

Goto(t, loc) == pc' = [pc EXCEPT ![t] = loc]

(* The loop conditions, as each kind of waiter tests them.                 *)
Blocked(t) ==
  \/ pc[t] = "want"    /\ want_write
  \/ pc[t] = "drain"   /\ (read_count # 0 \/ want_upgrade)
  \/ pc[t] = "rdwait"  /\ (want_write \/ want_upgrade)
  \/ pc[t] = "updrain" /\ read_count # 0

(* lock_write up to the want_write bit, then straight into the second loop *)
(* under the same hold of the interlock.                                   *)
LockWrite(t) ==
  /\ pc[t] \in {"out", "want"} /\ Runs(t)
  /\ IF want_write
       THEN Goto(t, "want") /\ UNCHANGED lockVars
       ELSE /\ want_write' = TRUE
            /\ Goto(t, IF read_count # 0 \/ want_upgrade THEN "drain" ELSE "write")
            /\ UNCHANGED <<want_upgrade, read_count>>
  /\ UNCHANGED <<waiting, can_sleep, asleep, do_wakeup>>

(* Mutant: the drain loop forgets the upgrader.                            *)
LockWriteDrained_M(t) ==
  /\ pc[t] = "drain" /\ Runs(t) /\ read_count = 0
  /\ Goto(t, "write")
  /\ UNCHANGED <<lockVars, waiting, can_sleep, asleep, do_wakeup>>

(* lock_write leaves its second loop.                                      *)
LockWriteDrained(t) ==
  /\ pc[t] = "drain" /\ Runs(t) /\ read_count = 0 /\ ~want_upgrade
  /\ Goto(t, "write")
  /\ UNCHANGED <<lockVars, waiting, can_sleep, asleep, do_wakeup>>

(* Mutants: a reader does not wait behind the given condition.             *)
ReadUnless(t, cond) ==
  /\ pc[t] \in {"out", "rdwait"} /\ Runs(t)
  /\ IF cond
       THEN Goto(t, "rdwait") /\ UNCHANGED read_count
       ELSE Goto(t, "read") /\ read_count' = read_count + 1
  /\ UNCHANGED <<want_write, want_upgrade, waiting, can_sleep, asleep, do_wakeup>>
LockRead_NoUpgradeTest(t) == ReadUnless(t, want_write)
LockRead_ReaderPreference(t) == ReadUnless(t, (want_write /\ read_count = 0) \/ want_upgrade)

LockRead(t) ==
  /\ pc[t] \in {"out", "rdwait"} /\ Runs(t)
  /\ IF want_write \/ want_upgrade
       THEN Goto(t, "rdwait") /\ UNCHANGED read_count
       ELSE Goto(t, "read") /\ read_count' = read_count + 1
  /\ UNCHANGED <<want_write, want_upgrade, waiting, can_sleep, asleep, do_wakeup>>

(* A loop condition still holds after the spin: set waiting and sleep,     *)
(* dropping the interlock only once the wait is asserted.                  *)
Sleep(t) ==
  /\ can_sleep /\ Runs(t) /\ Blocked(t)
  /\ waiting' = TRUE
  /\ asleep' = asleep \union {t}
  /\ UNCHANGED <<lockVars, can_sleep, pc, do_wakeup>>

(* thread_wakeup((event_t) l): everybody asleep on the lock becomes        *)
(* runnable and goes back to test its loop condition.                      *)
Wakeup(t) ==
  /\ t \in do_wakeup
  /\ asleep' = {} /\ do_wakeup' = do_wakeup \ {t}
  /\ UNCHANGED <<lockVars, waiting, can_sleep, pc>>

(* The test of waiting before the interlock is dropped.                    *)
WakeIf(t, cond) ==
  IF waiting /\ cond
    THEN waiting' = FALSE /\ do_wakeup' = do_wakeup \union {t}
    ELSE UNCHANGED <<waiting, do_wakeup>>

(* lock_done finds out from the fields alone which kind of hold it ends.   *)
LockDone(t) ==
  /\ pc[t] \in Holds /\ Runs(t)
  /\ IF read_count # 0
       THEN read_count' = read_count - 1 /\ UNCHANGED <<want_write, want_upgrade>>
     ELSE IF want_upgrade
       THEN want_upgrade' = FALSE /\ UNCHANGED <<want_write, read_count>>
       ELSE want_write' = FALSE /\ UNCHANGED <<want_upgrade, read_count>>
  /\ WakeIf(t, read_count' = 0)
  /\ Goto(t, "out")
  /\ UNCHANGED <<can_sleep, asleep>>

(* Mutant: the upgrader that gives up does not wake the other one.         *)
LockReadToWrite_NoWakeup(t) ==
  /\ pc[t] = "read" /\ Runs(t)
  /\ read_count' = read_count - 1
  /\ IF want_upgrade
       THEN Goto(t, "out") /\ UNCHANGED want_upgrade
       ELSE /\ want_upgrade' = TRUE
            /\ Goto(t, IF read_count' # 0 THEN "updrain" ELSE "upgraded")
  /\ UNCHANGED <<want_write, waiting, can_sleep, asleep, do_wakeup>>

(* lock_read_to_write: the read hold is given up at once; the second of    *)
(* two upgraders loses the lock altogether.                                *)
LockReadToWrite(t) ==
  /\ pc[t] = "read" /\ Runs(t)
  /\ read_count' = read_count - 1
  /\ IF want_upgrade
       THEN /\ WakeIf(t, read_count' = 0)
            /\ Goto(t, "out")
            /\ UNCHANGED want_upgrade
       ELSE /\ want_upgrade' = TRUE
            /\ Goto(t, IF read_count' # 0 THEN "updrain" ELSE "upgraded")
            /\ UNCHANGED <<waiting, do_wakeup>>
  /\ UNCHANGED <<want_write, can_sleep, asleep>>

LockUpgradeDrained(t) ==
  /\ pc[t] = "updrain" /\ Runs(t) /\ read_count = 0
  /\ Goto(t, "upgraded")
  /\ UNCHANGED <<lockVars, waiting, can_sleep, asleep, do_wakeup>>

LockWriteToRead(t) ==
  /\ pc[t] \in {"write", "upgraded"} /\ Runs(t)
  /\ read_count' = read_count + 1
  /\ IF want_upgrade
       THEN want_upgrade' = FALSE /\ UNCHANGED want_write
       ELSE want_write' = FALSE /\ UNCHANGED want_upgrade
  /\ WakeIf(t, TRUE)
  /\ Goto(t, "read")
  /\ UNCHANGED <<can_sleep, asleep>>

Next == \E t \in Threads :
  \/ LockWrite(t) \/ LockWriteDrained(t) \/ LockRead(t) \/ Sleep(t) \/ Wakeup(t)
  \/ LockDone(t) \/ LockReadToWrite(t) \/ LockUpgradeDrained(t) \/ LockWriteToRead(t)

Spec == Init /\ [][Next]_vars

(* A thread inside a routine keeps running, a woken one is scheduled, and  *)
(* a thread that keeps coming to hold the lock sooner or later drops it.   *)
FairSpec ==
  /\ Spec
  /\ \A t \in Threads :
       /\ WF_vars(LockWriteDrained(t)) /\ WF_vars(LockUpgradeDrained(t))
       /\ WF_vars(Wakeup(t))
       /\ SF_vars(LockDone(t))

-----------------------------------------------------------------------------
TypeOK ==
  /\ want_write \in BOOLEAN /\ want_upgrade \in BOOLEAN
  /\ waiting \in BOOLEAN /\ can_sleep \in BOOLEAN
  /\ read_count \in Nat
  /\ pc \in [Threads -> {"out"} \union Waits \union Holds]
  /\ asleep \subseteq Threads /\ do_wakeup \subseteq Threads

At(S) == {t \in Threads : pc[t] \in S}

(* lock_write and lock_read_to_write return only to a thread that is alone *)
(* with the lock: no reader and no second writer holds it at the same time.*)
MutualExclusion ==
  \A t \in At({"write", "upgraded"}) : At(Holds) = {t}

(* thread_wakeup is called after the interlock is dropped and one flag     *)
(* stands for all sleepers, yet nobody sleeps through its turn: a sleeper  *)
(* whose loop condition is already false is about to be woken.             *)
NoLostWakeup ==
  \A t \in asleep : ~Blocked(t) => do_wakeup # {}

(* What the three fields say about the threads; the strengthening that     *)
(* makes MutualExclusion inductive.                                        *)
CountInv == read_count = Cardinality(At({"read"}))
WriteInv ==
  /\ want_write <=> At({"drain", "write"}) # {}
  /\ \A t, u \in At({"drain", "write"}) : t = u
UpgradeInv ==
  /\ want_upgrade <=> At({"updrain", "upgraded"}) # {}
  /\ \A t, u \in At({"updrain", "upgraded"}) : t = u
HoldInv ==
  /\ At({"write"}) # {} => read_count = 0 /\ ~want_upgrade
  /\ At({"upgraded"}) # {} => read_count = 0
SleepInv ==
  /\ asleep # {} => waiting \/ do_wakeup # {}
  /\ asleep \subseteq At(Waits)
  /\ do_wakeup \intersect At(Waits \union {"write", "upgraded"}) = {}

(* The fields and the threads' positions agree at every release of the     *)
(* interlock: lock_done relies on it when it infers the kind of hold from  *)
(* read_count and want_upgrade.                                            *)
FieldsAgree == CountInv /\ WriteInv /\ UpgradeInv /\ HoldInv

(* A writer that has claimed want_write, and an upgrader that has claimed  *)
(* want_upgrade, get the lock although new readers and upgraders keep      *)
(* arriving (lock_read waits behind both flags).                           *)
ClaimServed ==
  \A t \in Threads : /\ pc[t] = "drain" ~> pc[t] = "write"
                     /\ pc[t] = "updrain" ~> pc[t] = "upgraded"

-----------------------------------------------------------------------------
(* A thread that lock_read_to_write keeps waiting is still protected       *)
(* against writers: for a client it is a reader until it is the writer.    *)
Writers == At({"write", "upgraded"})

RW == INSTANCE ReadersWriter WITH
        readers <- At({"read", "updrain"}), writer <- Writers

(* The lock implements the abstract upgradable lock.                       *)
Refines == RW!Spec
=============================================================================
