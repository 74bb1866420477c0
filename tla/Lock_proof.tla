---------------------------- MODULE Lock_proof ------------------------------
(***************************************************************************)
(* Proofs about the two blocking locks for every finite set of threads.    *)
(* Of the complex lock: the inductive invariant, mutual exclusion, the     *)
(* absence of lost wakeups, and the refinement of the abstract upgradable  *)
(* lock.  Of the mutex: one owner, an exact count of the waiters, and      *)
(* nobody asleep on a free mutex.                                          *)
(***************************************************************************)
EXTENDS RWLock, Mutex, FiniteSetTheorems, TLAPS

IInv == TypeOK /\ FieldsAgree /\ SleepInv

USE DEF Waits, Holds

(* The number of readers is a natural number, and zero only without one.   *)
LEMMA ReadersFinite ==
  ASSUME TypeOK
  PROVE  /\ IsFiniteSet(At({"read"}))
         /\ Cardinality(At({"read"})) \in Nat
         /\ Cardinality(At({"read"})) = 0 <=> At({"read"}) = {}
<1>1. At({"read"}) \subseteq Threads
  BY Zenon DEF At
<1>2. IsFiniteSet(At({"read"}))
  BY <1>1, ThreadsFinite, FS_Subset, Zenon
<1>3. QED
  BY <1>2, FS_CardinalityType, FS_EmptySet, Zenon

(* A thread that becomes a reader adds one to the number of readers.       *)
LEMMA AddReader ==
  ASSUME TypeOK, NEW t \in Threads, pc[t] # "read", Goto(t, "read")
  PROVE  Cardinality(At({"read"}))' = Cardinality(At({"read"})) + 1
<1>1. At({"read"})' = At({"read"}) \union {t}
  BY Zenon DEF At, Goto, TypeOK
<1>2. t \notin At({"read"})
  BY Zenon DEF At
<1>3. QED
  BY <1>1, <1>2, ReadersFinite, FS_AddElement, Zenon

(* A reader that stops being one takes one from the number of readers.     *)
LEMMA RemoveReader ==
  ASSUME TypeOK, NEW t \in Threads, pc[t] = "read",
         NEW loc \in {"out"} \union Waits \union Holds, loc # "read", Goto(t, loc)
  PROVE  Cardinality(At({"read"}))' = Cardinality(At({"read"})) - 1
<1>1. At({"read"})' = At({"read"}) \ {t}
  BY Zenon DEF At, Goto, TypeOK
<1>2. t \in At({"read"})
  BY Zenon DEF At
<1>3. QED
  BY <1>1, <1>2, ReadersFinite, FS_RemoveElement, Zenon

(* Moves between other positions leave the number of readers alone.        *)
LEMMA SameReaders ==
  ASSUME TypeOK, NEW t \in Threads, pc[t] # "read",
         NEW loc \in {"out"} \union Waits \union Holds, loc # "read", Goto(t, loc)
  PROVE  At({"read"})' = At({"read"})
BY Zenon DEF At, Goto, TypeOK

(* A reader is counted: lock_done by a reader finds read_count non-zero.   *)
LEMMA ReaderCounted ==
  ASSUME TypeOK, CountInv, NEW t \in Threads, pc[t] = "read"
  PROVE  read_count # 0
<1>1. t \in At({"read"})
  BY Zenon DEF At
<1>2. QED
  BY <1>1, ReadersFinite, Zenon DEF CountInv

(* An initialised lock is in order.                                        *)
LEMMA InitIInv == Init => IInv
<1> SUFFICES ASSUME Init PROVE IInv
  BY Zenon
<1>1. TypeOK
  BY Zenon DEF Init, TypeOK
<1>2. At({"read"}) = {}
  BY Zenon DEF At, Init
<1>3. CountInv
  BY <1>2, FS_EmptySet, Zenon DEF CountInv, Init
<1>4. WriteInv /\ UpgradeInv /\ HoldInv
  BY Zenon DEF WriteInv, UpgradeInv, HoldInv, Init, At
<1>5. SleepInv
  BY Zenon DEF SleepInv, Init
<1> QED
  BY <1>1, <1>3, <1>4, <1>5, Zenon DEF IInv, FieldsAgree

(* The fields keep agreeing with the threads' positions.                   *)
LEMMA FieldsStep ==
  ASSUME TypeOK, FieldsAgree, SleepInv, Next
  PROVE  TypeOK' /\ FieldsAgree'
<1> USE DEF FieldsAgree
<1>0. PICK t \in Threads :
        \/ LockWrite(t) \/ LockWriteDrained(t) \/ LockRead(t) \/ Sleep(t) \/ Wakeup(t)
        \/ LockDone(t) \/ LockReadToWrite(t) \/ LockUpgradeDrained(t) \/ LockWriteToRead(t)
  BY Zenon DEF Next
<1>1. CASE LockWrite(t)
  <2>1. TypeOK'
    BY <1>1, Zenon DEF LockWrite, TypeOK, Goto, lockVars
  <2>2. At({"read"})' = At({"read"}) /\ read_count' = read_count
    BY <1>1, SameReaders, Zenon DEF LockWrite, lockVars
  <2>3. CountInv'
    BY <2>2, Zenon DEF CountInv
  <2>4. WriteInv' /\ UpgradeInv' /\ HoldInv'
    BY <1>1 DEF LockWrite, Goto, lockVars, TypeOK, WriteInv, UpgradeInv, HoldInv, At
  <2> QED BY <2>1, <2>3, <2>4
<1>2. CASE LockWriteDrained(t)
  <2>1. TypeOK'
    BY <1>2, Zenon DEF LockWriteDrained, TypeOK, Goto, lockVars
  <2>2. At({"read"})' = At({"read"}) /\ read_count' = read_count
    BY <1>2, SameReaders, Zenon DEF LockWriteDrained, lockVars
  <2>3. CountInv'
    BY <2>2, Zenon DEF CountInv
  <2>4. WriteInv' /\ UpgradeInv' /\ HoldInv'
    BY <1>2 DEF LockWriteDrained, Goto, lockVars, TypeOK, WriteInv, UpgradeInv, HoldInv, At
  <2> QED BY <2>1, <2>3, <2>4
<1>3. CASE LockRead(t)
  <2>1. TypeOK'
    BY <1>3 DEF LockRead, TypeOK, Goto
  <2>2. ASSUME want_write \/ want_upgrade PROVE CountInv'
    <3>1. At({"read"})' = At({"read"}) /\ read_count' = read_count
      BY <1>3, <2>2, SameReaders, Zenon DEF LockRead
    <3> QED BY <3>1 DEF CountInv
  <2>3. ASSUME ~(want_write \/ want_upgrade) PROVE CountInv'
    <3>1. Cardinality(At({"read"}))' = Cardinality(At({"read"})) + 1
      BY <1>3, <2>3, AddReader, Zenon DEF LockRead
    <3>2. read_count' = read_count + 1
      BY <1>3, <2>3, Zenon DEF LockRead
    <3> QED BY <3>1, <3>2 DEF CountInv
  <2>4. WriteInv' /\ UpgradeInv' /\ HoldInv'
    BY <1>3 DEF LockRead, Goto, TypeOK, WriteInv, UpgradeInv, HoldInv, At
  <2> QED BY <2>1, <2>2, <2>3, <2>4
<1>4. CASE Sleep(t) \/ Wakeup(t)
  <2>1. pc' = pc /\ UNCHANGED lockVars
    BY <1>4, Zenon DEF Sleep, Wakeup
  <2>2. TypeOK'
    BY <1>4, <2>1, Zenon DEF Sleep, Wakeup, TypeOK, lockVars
  <2>3. CountInv'
    BY <2>1, Zenon DEF CountInv, lockVars, At
  <2>4. WriteInv' /\ UpgradeInv' /\ HoldInv'
    BY <2>1, Zenon DEF lockVars, WriteInv, UpgradeInv, HoldInv, At
  <2> QED BY <2>2, <2>3, <2>4
<1>5. CASE LockDone(t)
  <2>0. waiting' \in BOOLEAN /\ do_wakeup' \subseteq Threads
    BY <1>5, Zenon DEF LockDone, WakeIf, TypeOK
  <2>1. CASE pc[t] = "read"
    <3>1. read_count # 0
      BY <2>1, ReaderCounted, Zenon
    <3>2. read_count' = read_count - 1 /\ UNCHANGED <<want_write, want_upgrade>>
      BY <1>5, <3>1, Zenon DEF LockDone
    <3>. Goto(t, "out")
      BY <1>5, Zenon DEF LockDone
    <3>3. Cardinality(At({"read"}))' = Cardinality(At({"read"})) - 1
      BY <2>1, RemoveReader, Zenon
    <3>4. TypeOK'
      BY <1>5, <2>0, <3>1, <3>2 DEF LockDone, TypeOK, Goto
    <3>5. CountInv'
      BY <3>2, <3>3, Zenon DEF CountInv
    <3>6. WriteInv' /\ UpgradeInv' /\ HoldInv'
      BY <1>5, <2>1, <3>1, <3>2 DEF LockDone, Goto, TypeOK, WriteInv, UpgradeInv, HoldInv, At
    <3> QED BY <3>4, <3>5, <3>6
  <2>2. CASE pc[t] \in {"write", "upgraded"}
    <3>1. read_count = 0
      BY <2>2, Zenon DEF HoldInv, At
    <3>2. At({"read"})' = At({"read"}) /\ read_count' = read_count
      BY <1>5, <2>2, <3>1, SameReaders, Zenon DEF LockDone
    <3>3. TypeOK'
      BY <1>5, <2>0, <3>1, <3>2, Zenon DEF LockDone, TypeOK, Goto
    <3>4. CountInv'
      BY <3>2, Zenon DEF CountInv
    <3>5. WriteInv' /\ UpgradeInv' /\ HoldInv'
      BY <1>5, <2>2, <3>1 DEF LockDone, Goto, TypeOK, WriteInv, UpgradeInv, HoldInv, At
    <3> QED BY <3>3, <3>4, <3>5
  <2> QED BY <1>5, <2>1, <2>2 DEF LockDone
<1>6. CASE LockReadToWrite(t)
  <2>1. pc[t] = "read" /\ read_count' = read_count - 1
    BY <1>6, Zenon DEF LockReadToWrite
  <2>2. read_count # 0
    BY <2>1, ReaderCounted, Zenon
  <2>0. waiting' \in BOOLEAN /\ do_wakeup' \subseteq Threads
    BY <1>6, Zenon DEF LockReadToWrite, WakeIf, TypeOK
  <2>a. want_write' \in BOOLEAN /\ want_upgrade' \in BOOLEAN
    BY <1>6, Zenon DEF LockReadToWrite, TypeOK
  <2>b. pc' \in [Threads -> {"out"} \union Waits \union Holds]
    BY <1>6, Zenon DEF LockReadToWrite, TypeOK, Goto
  <2>3. TypeOK'
    BY <1>6, <2>0, <2>a, <2>b, <2>2 DEF LockReadToWrite, TypeOK
  <2>. PICK loc \in {"out", "updrain", "upgraded"} : Goto(t, loc)
    BY <1>6, Zenon DEF LockReadToWrite
  <2>4. Cardinality(At({"read"}))' = Cardinality(At({"read"})) - 1
    BY <2>1, RemoveReader, Zenon
  <2>5. CountInv'
    BY <2>1, <2>4, Zenon DEF CountInv
  <2>6. WriteInv' /\ UpgradeInv' /\ HoldInv'
    BY <1>6, <2>2 DEF LockReadToWrite, Goto, TypeOK, WriteInv, UpgradeInv, HoldInv, At
  <2> QED BY <2>3, <2>5, <2>6
<1>7. CASE LockUpgradeDrained(t)
  <2>1. TypeOK'
    BY <1>7, Zenon DEF LockUpgradeDrained, TypeOK, Goto, lockVars
  <2>2. At({"read"})' = At({"read"}) /\ read_count' = read_count
    BY <1>7, SameReaders, Zenon DEF LockUpgradeDrained, lockVars
  <2>3. CountInv'
    BY <2>2, Zenon DEF CountInv
  <2>4. WriteInv' /\ UpgradeInv' /\ HoldInv'
    BY <1>7 DEF LockUpgradeDrained, Goto, lockVars, TypeOK, WriteInv, UpgradeInv, HoldInv, At
  <2> QED BY <2>1, <2>3, <2>4
<1>8. CASE LockWriteToRead(t)
  <2>1. read_count' = read_count + 1 /\ read_count = 0
    BY <1>8, Zenon DEF LockWriteToRead, HoldInv, At
  <2>0. waiting' \in BOOLEAN /\ do_wakeup' \subseteq Threads
    BY <1>8, Zenon DEF LockWriteToRead, WakeIf, TypeOK
  <2>a. want_write' \in BOOLEAN /\ want_upgrade' \in BOOLEAN
    BY <1>8, Zenon DEF LockWriteToRead, TypeOK
  <2>b. pc' \in [Threads -> {"out"} \union Waits \union Holds]
    BY <1>8, Zenon DEF LockWriteToRead, TypeOK, Goto
  <2>2. TypeOK'
    BY <1>8, <2>0, <2>a, <2>b DEF LockWriteToRead, TypeOK
  <2>. pc[t] # "read" /\ Goto(t, "read")
    BY <1>8, Zenon DEF LockWriteToRead
  <2>3. Cardinality(At({"read"}))' = Cardinality(At({"read"})) + 1
    BY AddReader, Zenon
  <2>4. CountInv'
    BY <2>1, <2>3, Zenon DEF CountInv
  <2>5. WriteInv' /\ UpgradeInv' /\ HoldInv'
    BY <1>8, <2>1 DEF LockWriteToRead, Goto, TypeOK, WriteInv, UpgradeInv, HoldInv, At
  <2> QED BY <2>2, <2>4, <2>5
<1> QED
  BY <1>0, <1>1, <1>2, <1>3, <1>4, <1>5, <1>6, <1>7, <1>8, Zenon

(* Sleepers stay behind the waiting flag or a pending thread_wakeup.       *)
LEMMA SleepStep ==
  ASSUME TypeOK, SleepInv, Next
  PROVE  SleepInv'
<1>0. PICK t \in Threads :
        \/ LockWrite(t) \/ LockWriteDrained(t) \/ LockRead(t) \/ Sleep(t) \/ Wakeup(t)
        \/ LockDone(t) \/ LockReadToWrite(t) \/ LockUpgradeDrained(t) \/ LockWriteToRead(t)
  BY Zenon DEF Next
<1> USE DEF SleepInv, TypeOK, At, Goto, Runs, lockVars
<1>1. CASE LockWrite(t)
  BY <1>1 DEF LockWrite
<1>2. CASE LockWriteDrained(t)
  BY <1>2, Zenon DEF LockWriteDrained
<1>3. CASE LockRead(t)
  BY <1>3 DEF LockRead
<1>4. CASE Sleep(t)
  BY <1>4, Zenon DEF Sleep, Blocked
<1>5. CASE Wakeup(t)
  BY <1>5, Zenon DEF Wakeup
<1>6. CASE LockDone(t)
  BY <1>6, Zenon DEF LockDone, WakeIf
<1>7. CASE LockReadToWrite(t)
  BY <1>7 DEF LockReadToWrite, WakeIf
<1>8. CASE LockUpgradeDrained(t)
  BY <1>8, Zenon DEF LockUpgradeDrained
<1>9. CASE LockWriteToRead(t)
  BY <1>9, Zenon DEF LockWriteToRead, WakeIf
<1> QED
  BY <1>0, <1>1, <1>2, <1>3, <1>4, <1>5, <1>6, <1>7, <1>8, <1>9, Zenon

(* The inductive invariant: at every release of the interlock the fields   *)
(* of the lock agree with what its users are doing.                        *)
THEOREM Invariance == Spec => []IInv
<1>1. IInv /\ [Next]_vars => IInv'
  <2> SUFFICES ASSUME IInv, [Next]_vars PROVE IInv'
    BY Zenon
  <2>1. CASE Next
    BY <2>1, FieldsStep, SleepStep, Zenon DEF IInv
  <2>2. CASE UNCHANGED vars
    BY <2>2 DEF vars, IInv, TypeOK, FieldsAgree, CountInv, WriteInv, UpgradeInv,
                HoldInv, SleepInv, At
  <2> QED BY <2>1, <2>2
<1> QED
  BY <1>1, InitIInv, PTL DEF Spec

(* No second holder of any kind beside a writer or an upgraded reader.     *)
LEMMA IInvExclusion == IInv => MutualExclusion
<1> SUFFICES ASSUME IInv, NEW t \in At({"write", "upgraded"}),
                    NEW u \in At(Holds), u # t
             PROVE  FALSE
  BY Zenon DEF MutualExclusion, At
<1>1. read_count = 0
  BY Zenon DEF IInv, FieldsAgree, HoldInv, At
<1>2. pc[u] # "read"
  BY <1>1, ReaderCounted, Zenon DEF IInv, FieldsAgree, At
<1> QED
  BY <1>2, Zenon DEF IInv, FieldsAgree, WriteInv, UpgradeInv, HoldInv, At

(* lock_write and a successful lock_read_to_write exclude every other      *)
(* holder, whatever the number of threads.                                 *)
THEOREM Exclusion == Spec => []MutualExclusion
BY Invariance, IInvExclusion, PTL

(* No step lets a sleeper's loop condition turn false without somebody     *)
(* owing the wakeup.                                                       *)
LEMMA NoLostWakeupStep ==
  ASSUME IInv, NoLostWakeup, [Next]_vars
  PROVE  NoLostWakeup'
<1> SUFFICES ASSUME NEW s \in asleep', ~Blocked(s)', do_wakeup' = {} PROVE FALSE
  BY Zenon DEF NoLostWakeup
<1> USE DEF IInv, TypeOK, FieldsAgree, SleepInv, At, Goto, Runs, lockVars
<1>s. s \in Threads /\ s \in At(Waits)'
  <2>1. CASE Next
    BY <2>1, FieldsStep, SleepStep, Zenon
  <2>2. CASE UNCHANGED vars
    BY <2>2, Zenon DEF vars
  <2> QED BY <2>1, <2>2
<1>w. ASSUME s \in asleep, Blocked(s) PROVE waiting \/ do_wakeup # {}
  BY <1>w, Zenon
<1>0. CASE UNCHANGED vars
  BY <1>0, Zenon DEF vars, NoLostWakeup, Blocked
<1>n. ASSUME NEW t \in Threads,
        \/ LockWrite(t) \/ LockWriteDrained(t) \/ LockRead(t) \/ Sleep(t) \/ Wakeup(t)
        \/ LockDone(t) \/ LockReadToWrite(t) \/ LockUpgradeDrained(t) \/ LockWriteToRead(t)
      PROVE FALSE
  <2>1. CASE LockWrite(t)
    BY <2>1, Zenon DEF LockWrite, NoLostWakeup, Blocked
  <2>2. CASE LockWriteDrained(t)
    BY <2>2, Zenon DEF LockWriteDrained, NoLostWakeup, Blocked
  <2>3. CASE LockRead(t)
    BY <2>3 DEF LockRead, NoLostWakeup, Blocked
  <2>4. CASE Sleep(t)
    BY <2>4, Zenon DEF Sleep, NoLostWakeup, Blocked
  <2>5. CASE Wakeup(t)
    BY <2>5, Zenon DEF Wakeup
  <2>6. CASE LockDone(t)
    <3>1. s \in asleep /\ do_wakeup = {} /\ Blocked(s) /\ waiting
      BY <2>6, <1>w, Zenon DEF LockDone, WakeIf, NoLostWakeup
    <3>2. read_count' # 0
      BY <2>6, <3>1, Zenon DEF LockDone, WakeIf
    <3>3. UNCHANGED <<want_write, want_upgrade>> /\ pc[s] = pc'[s]
      BY <2>6, <3>1, <3>2, Zenon DEF LockDone
    <3>4. read_count # 0
      BY <2>6, <3>2, Zenon DEF LockDone
    <3> QED BY <3>1, <3>2, <3>3, <3>4 DEF Blocked
  <2>7. CASE LockReadToWrite(t)
    <3>1. s \in asleep /\ do_wakeup = {} /\ Blocked(s) /\ waiting
      BY <2>7, <1>w, Zenon DEF LockReadToWrite, WakeIf, NoLostWakeup
    <3>2. want_upgrade' /\ want_write' = want_write /\ pc[s] = pc'[s]
      BY <2>7, <3>1, Zenon DEF LockReadToWrite
    <3>3. CASE want_upgrade
      <4>1. read_count' # 0
        BY <2>7, <3>1, <3>3, Zenon DEF LockReadToWrite, WakeIf
      <4> QED BY <3>1, <3>2, <4>1 DEF Blocked
    <3>4. CASE ~want_upgrade
      <4>1. pc[s] # "updrain"
        BY <3>4, <1>s, <3>2, Zenon DEF UpgradeInv
      <4> QED BY <3>1, <3>2, <4>1 DEF Blocked
    <3> QED BY <3>3, <3>4
  <2>8. CASE LockUpgradeDrained(t)
    BY <2>8, Zenon DEF LockUpgradeDrained, NoLostWakeup, Blocked
  <2>9. CASE LockWriteToRead(t)
    BY <2>9, <1>w, Zenon DEF LockWriteToRead, WakeIf, NoLostWakeup
  <2> QED
    BY <1>n, <2>1, <2>2, <2>3, <2>4, <2>5, <2>6, <2>7, <2>8, <2>9, Zenon
<1> QED
  BY <1>0, <1>n, Zenon DEF Next

(* The single waiting flag, cleared before the wakeup is issued and the    *)
(* interlock dropped in between, never leaves a sleeper behind.            *)
THEOREM WakeupsNotLost == Spec => []NoLostWakeup
<1>1. Init => NoLostWakeup
  BY Zenon DEF Init, NoLostWakeup
<1> QED
  BY <1>1, Invariance, NoLostWakeupStep, PTL DEF Spec

(* With read_count zero nobody is at "read".                               *)
LEMMA NoReaders ==
  ASSUME TypeOK, CountInv, read_count = 0, NEW u \in Threads
  PROVE  pc[u] # "read"
BY ReaderCounted, Zenon

(* Every step of the lock is a step of the abstract lock or a stutter.     *)
LEMMA StepRefines ==
  ASSUME IInv, [Next]_vars
  PROVE  [RW!Next]_<<At({"read", "updrain"}), Writers>>
<1> DEFINE R == At({"read", "updrain"})
<1> USE DEF IInv, FieldsAgree, TypeOK, Writers
<1>0. CASE UNCHANGED vars
  BY <1>0, Zenon DEF vars, At
<1>n. ASSUME NEW t \in Threads,
        \/ LockWrite(t) \/ LockWriteDrained(t) \/ LockRead(t) \/ Sleep(t) \/ Wakeup(t)
        \/ LockDone(t) \/ LockReadToWrite(t) \/ LockUpgradeDrained(t) \/ LockWriteToRead(t)
      PROVE  \/ R' = R /\ Writers' = Writers
             \/ RW!AcquireRead(t) \/ RW!AcquireWrite(t) \/ RW!ReleaseRead(t)
             \/ RW!ReleaseWrite(t) \/ RW!Upgrade(t) \/ RW!Downgrade(t)
  <2>1. CASE LockWrite(t) \/ LockWriteDrained(t)
    <3>1. CASE pc'[t] = "write"
      <4>1. read_count = 0 /\ ~want_upgrade
        BY <2>1, <3>1, Zenon DEF LockWrite, LockWriteDrained, Goto
      <4>2. R = {}
        BY <4>1, NoReaders, Zenon DEF At, UpgradeInv
      <4>3. Writers = {}
        BY <2>1, <3>1, <4>1 DEF LockWrite, LockWriteDrained, Goto, At, UpgradeInv, WriteInv
      <4>4. R' = R /\ Writers' = {t}
        BY <2>1, <3>1, <4>2, <4>3, Zenon DEF LockWrite, LockWriteDrained, Goto, At
      <4> QED BY <4>2, <4>3, <4>4 DEF RW!AcquireWrite
    <3>2. CASE pc'[t] # "write"
      <4>1. R' = R /\ Writers' = Writers
        BY <2>1, <3>2, Zenon DEF LockWrite, LockWriteDrained, Goto, At
      <4> QED BY <4>1
    <3> QED BY <3>1, <3>2
  <2>2. CASE LockRead(t)
    <3>1. CASE want_write \/ want_upgrade
      <4>1. R' = R /\ Writers' = Writers
        BY <2>2, <3>1, Zenon DEF LockRead, Goto, At
      <4> QED BY <4>1
    <3>2. CASE ~(want_write \/ want_upgrade)
      <4>1. Writers = {}
        BY <3>2, Zenon DEF At, WriteInv, UpgradeInv
      <4>2. t \notin R /\ R' = R \union {t} /\ Writers' = Writers
        BY <2>2, <3>2, Zenon DEF LockRead, Goto, At
      <4> QED BY <4>1, <4>2 DEF RW!AcquireRead
    <3> QED BY <3>1, <3>2
  <2>3. CASE Sleep(t) \/ Wakeup(t)
    <3>1. pc' = pc
      BY <2>3, Zenon DEF Sleep, Wakeup
    <3>2. R' = R /\ Writers' = Writers
      BY <3>1, Zenon DEF At
    <3> QED BY <3>2
  <2>4. CASE LockDone(t)
    <3>1. CASE pc[t] = "read"
      <4>1. t \in R /\ R' = R \ {t} /\ Writers' = Writers
        BY <2>4, <3>1, Zenon DEF LockDone, Goto, At
      <4> QED BY <4>1 DEF RW!ReleaseRead
    <3>2. CASE pc[t] \in {"write", "upgraded"}
      <4>1. Writers = {t}
        BY <3>2, IInvExclusion, Zenon DEF MutualExclusion, At
      <4>2. R' = R /\ Writers' = {}
        BY <2>4, <3>2, <4>1, Zenon DEF LockDone, Goto, At
      <4> QED BY <4>1, <4>2 DEF RW!ReleaseWrite
    <3> QED BY <2>4, <3>1, <3>2 DEF LockDone
  <2>5. CASE LockReadToWrite(t)
    <3>0. pc[t] = "read" /\ t \in R
      BY <2>5, Zenon DEF LockReadToWrite, At
    <3>1. CASE pc'[t] = "out"
      <4>1. R' = R \ {t} /\ Writers' = Writers
        BY <2>5, <3>0, <3>1, Zenon DEF LockReadToWrite, Goto, At
      <4> QED BY <3>0, <4>1 DEF RW!ReleaseRead
    <3>2. CASE pc'[t] = "updrain"
      <4>1. R' = R /\ Writers' = Writers
        BY <2>5, <3>0, <3>2, Zenon DEF LockReadToWrite, Goto, At
      <4> QED BY <4>1
    <3>3. CASE pc'[t] = "upgraded"
      <4>1. ~want_upgrade /\ read_count' = 0
        BY <2>5, <3>3, Zenon DEF LockReadToWrite, Goto
      <4>2. Writers = {}
        <5>1. read_count # 0
          BY <3>0, ReaderCounted, Zenon
        <5> QED BY <5>1 DEF HoldInv, At
      <4>3. At({"read"}) \ {t} = {}
        <5> DEFINE S == At({"read"})
        <5>1. IsFiniteSet(S) /\ t \in S
          BY ReadersFinite, <3>0, Zenon DEF At
        <5>2. IsFiniteSet(S \ {t}) /\ Cardinality(S \ {t}) = Cardinality(S) - 1
          BY <5>1, FS_RemoveElement, Zenon
        <5>3. Cardinality(S \ {t}) = 0
          BY <2>5, <4>1, <5>2, Zenon DEF LockReadToWrite, CountInv
        <5> QED BY <5>2, <5>3, FS_EmptySet
      <4>4. R = {t}
        BY <2>5, <3>0, <4>1, <4>3, Zenon DEF LockReadToWrite, Goto, At, UpgradeInv
      <4>5. R' = {} /\ Writers' = {t}
        BY <2>5, <3>3, <4>2, <4>4, Zenon DEF LockReadToWrite, Goto, At
      <4> QED BY <4>2, <4>4, <4>5 DEF RW!Upgrade
    <3> QED BY <2>5, <3>1, <3>2, <3>3 DEF LockReadToWrite, Goto
  <2>6. CASE LockUpgradeDrained(t)
    <3>1. read_count = 0 /\ pc[t] = "updrain"
      BY <2>6, Zenon DEF LockUpgradeDrained
    <3>2. R = {t} /\ Writers = {}
      BY <3>1, NoReaders DEF At, UpgradeInv, HoldInv
    <3>3. R' = {} /\ Writers' = {t}
      BY <2>6, <3>2 DEF LockUpgradeDrained, Goto, At
    <3> QED BY <3>2, <3>3 DEF RW!Upgrade
  <2>7. CASE LockWriteToRead(t)
    <3>1. Writers = {t}
      BY <2>7, IInvExclusion, Zenon DEF MutualExclusion, At, LockWriteToRead
    <3>2. R' = R \union {t} /\ Writers' = {}
      BY <2>7, <3>1, Zenon DEF LockWriteToRead, Goto, At
    <3> QED BY <3>1, <3>2 DEF RW!Downgrade
  <2> QED
    BY <1>n, <2>1, <2>2, <2>3, <2>4, <2>5, <2>6, <2>7, Zenon
<1> QED
  BY <1>0, <1>n, Zenon DEF Next, RW!Next

(* kern/lock.c implements the upgradable readers/writer lock: in           *)
(* particular no writer slips in between a read hold and its upgrade.      *)
THEOREM Implements == Spec => Refines
<1>1. Init => RW!Init
  BY Zenon DEF Init, RW!Init, At, Writers
<1> QED
  BY <1>1, StepRefines, Invariance, PTL DEF Spec, Refines, RW!Spec

-----------------------------------------------------------------------------
(* The mutex, for any finite set of threads that the halfword waiters can  *)
(* count.                                                                  *)
MInv == MutexTypeOK /\ WordsAgree /\ OneOwner /\ WaitersExact /\ ClearInv /\ NoSleepOnFree

Sleepers == Where({"asleep"})

(* waiters is right when it is the number of sleepers.                     *)
LEMMA Counted ==
  /\ WaitersExact <=> waiters = Cardinality(Sleepers)
  /\ WaitersExact' <=> waiters' = Cardinality(Sleepers')
BY Zenon DEF WaitersExact, Sleepers

(* The sleepers are a finite set, smaller than waiters can count.          *)
LEMMA SleepersFinite ==
         /\ IsFiniteSet(Sleepers) /\ Cardinality(Sleepers) \in Nat
         /\ Cardinality(Sleepers) < WaitersMod
         /\ Cardinality(Sleepers) = 0 <=> Sleepers = {}
<1>1. Sleepers \subseteq Users
  BY Zenon DEF Sleepers, Where
<1>2. IsFiniteSet(Sleepers) /\ Cardinality(Sleepers) <= Cardinality(Users)
  BY <1>1, UsersFinite, FS_Subset, Zenon
<1>3. Cardinality(Sleepers) \in Nat /\ Cardinality(Users) \in Nat
  BY <1>2, UsersFinite, FS_CardinalityType, Zenon
<1>4. Cardinality(Sleepers) = 0 <=> Sleepers = {}
  BY <1>2, FS_EmptySet, Zenon
<1> QED
  BY <1>2, <1>3, <1>4, WaitersFit

(* A step that neither starts nor ends a sleep keeps the count.            *)
LEMMA SameSleepers ==
  ASSUME MutexTypeOK, WaitersExact, NEW t \in Users, place[t] # "asleep",
         NEW to \in Places, to # "asleep", Enter(t, to), waiters' = waiters
  PROVE  WaitersExact' /\ Sleepers' = Sleepers
<1>1. Sleepers' = Sleepers
  BY Zenon DEF MutexTypeOK, Enter, Sleepers, Where
<1> QED
  BY <1>1, Counted, Zenon

(* mutex_lock_wait counts the new sleeper.                                 *)
LEMMA SleepCounted ==
  ASSUME MutexTypeOK, WaitersExact, NEW t \in Users, LockWait(t)
  PROVE  WaitersExact' /\ waiters' \in 0 .. WaitersMod - 1
<1>1. Sleepers' = Sleepers \union {t} /\ t \notin Sleepers
  BY Zenon DEF MutexTypeOK, LockWait, Enter, Sleepers, Where
<1>2. Cardinality(Sleepers') = Cardinality(Sleepers) + 1
  BY <1>1, SleepersFinite, FS_AddElement, Zenon
<1>3. Cardinality(Sleepers)' \in Nat /\ Cardinality(Sleepers)' < WaitersMod
  <2>1. Sleepers' \subseteq Users
    BY <1>1, Zenon DEF Sleepers, Where
  <2> QED
    BY <2>1, UsersFinite, FS_Subset, FS_CardinalityType, WaitersFit
<1> QED
  BY <1>2, <1>3, Counted, SleepersFinite, WaitersFit DEF LockWait, MutexTypeOK

(* mutex_unlock_wakeup counts the woken sleeper out.                       *)
LEMMA WakeupCounted ==
  ASSUME MutexTypeOK, WaitersExact, NEW t \in Users, UnlockWakeup(t)
  PROVE  /\ WaitersExact' /\ waiters' \in 0 .. WaitersMod - 1
         /\ place' \in [Users -> Places] /\ place'[t] = "clear"
         /\ \A u \in Users \ {t} :
              place'[u] = place[u] \/ (place[u] = "asleep" /\ place'[u] = "retry")
         /\ Sleepers' # {} => Where({"retry"})' # {}
<1> USE DEF Places
<1>1. CASE waiters = 0
  <2>1. Sleepers = {}
    BY <1>1, Counted, SleepersFinite, Zenon
  <2>2. Enter(t, "clear") /\ waiters' = 0 /\ place[t] # "asleep"
    BY <1>1, Zenon DEF UnlockWakeup, Enter, MutexTypeOK
  <2>3. WaitersExact' /\ Sleepers' = Sleepers
    BY <1>1, <2>2, SameSleepers, Zenon
  <2> QED
    BY <2>1, <2>2, <2>3, WaitersFit DEF Enter, MutexTypeOK
<1>2. CASE waiters # 0
  <2>1. Sleepers # {}
    BY <1>2, Counted, SleepersFinite, Zenon
  <2>2. PICK v \in Users : /\ place[v] = "asleep"
               /\ place' = [u \in Users |-> IF u = t THEN "clear"
                                           ELSE IF u \in {v} THEN "retry" ELSE place[u]]
    BY <1>2, <2>1, Zenon DEF UnlockWakeup, WakeupOne, Sleepers, Where
  <2>3. v # t /\ place[t] = "unlock" /\ waiters' = waiters - 1
    BY <1>2, <2>2, Zenon DEF UnlockWakeup
  <2>4. Sleepers' = Sleepers \ {v} /\ v \in Sleepers
    BY <2>2, <2>3, Zenon DEF Sleepers, Where, MutexTypeOK
  <2>5. Cardinality(Sleepers') = Cardinality(Sleepers) - 1
    BY <2>4, SleepersFinite, FS_RemoveElement, Zenon
  <2>6. WaitersExact'
    BY <2>3, <2>5, Counted, Zenon
  <2>7. waiters' \in 0 .. WaitersMod - 1
    BY <1>2, <2>3, WaitersFit DEF MutexTypeOK
  <2>8. v \in Where({"retry"})'
    BY <2>2, <2>3, Zenon DEF Where
  <2>9. place' \in [Users -> Places]
    BY <2>2, Zenon DEF MutexTypeOK
  <2> QED
    BY <2>2, <2>3, <2>6, <2>7, <2>8, <2>9, Zenon
<1> QED
  BY <1>1, <1>2, Zenon

(* An initialised mutex is in order.                                       *)
LEMMA MutexInitOk == MutexInit => MInv
<1> SUFFICES ASSUME MutexInit PROVE MInv
  BY Zenon
<1>1. MutexTypeOK
  <2>1. Cardinality(Users) \in Nat
    BY UsersFinite, FS_CardinalityType, Zenon
  <2>2. waiters \in 0 .. WaitersMod - 1
    BY <2>1, WaitersFit DEF MutexInit
  <2> QED
    BY <2>2, Zenon DEF MutexInit, MutexTypeOK, Places
<1>2. Sleepers = {}
  BY Zenon DEF MutexInit, Sleepers, Where
<1>3. WaitersExact
  BY <1>2, Counted, FS_EmptySet, Zenon DEF MutexInit
<1>4. WordsAgree /\ OneOwner /\ ClearInv /\ NoSleepOnFree
  BY Zenon DEF MutexInit, WordsAgree, OneOwner, ClearInv, NoSleepOnFree, Owners,
               Insiders, Where
<1> QED
  BY <1>1, <1>3, <1>4, Zenon DEF MInv

(* The word invariants are kept by every step.                             *)
LEMMA MutexStep ==
  ASSUME MInv, NEW t \in Users,
         \/ Call(t) \/ LockInterlock(t) \/ LockTake(t) \/ LockDropInterlock(t)
         \/ LockWait(t)
         \/ Try(t) \/ UnlockInterlock(t) \/ UnlockWakeup(t) \/ UnlockClear(t)
         \/ UnlockDropInterlock(t)
  PROVE  MInv'
<1> USE DEF MInv, Places
<1>1. ASSUME \/ Call(t) \/ LockInterlock(t) \/ LockTake(t) \/ LockDropInterlock(t)
             \/ Try(t) \/ UnlockInterlock(t) \/ UnlockClear(t) \/ UnlockDropInterlock(t)
      PROVE  MInv'
  <2>1. PICK to \in Places \ {"asleep"} : Enter(t, to)
    BY <1>1 DEF Call, LockInterlock, LockTake, LockDropInterlock, Try, UnlockInterlock,
                UnlockClear, UnlockDropInterlock, TakeInterlock
  <2>2. waiters' = waiters /\ place[t] # "asleep"
    BY <1>1 DEF Call, LockInterlock, LockTake, LockDropInterlock, Try, UnlockInterlock,
                UnlockClear, UnlockDropInterlock, TakeInterlock
  <2>3. WaitersExact' /\ Sleepers' = Sleepers
    BY <2>1, <2>2, SameSleepers, Zenon
  <2>4. place' \in [Users -> Places] /\ waiters' \in 0 .. WaitersMod - 1
    BY <2>1, <2>2, Zenon DEF MutexTypeOK, Enter
  <2>5. interlock' \in BOOLEAN
    BY <1>1 DEF MutexTypeOK, Call, LockInterlock, LockTake, LockDropInterlock, Try,
                UnlockInterlock,
                UnlockClear, UnlockDropInterlock, TakeInterlock
  <2>6. locked' \in BOOLEAN
    BY <1>1 DEF MutexTypeOK, Call, LockInterlock, LockTake, LockDropInterlock, Try,
                UnlockInterlock,
                UnlockClear, UnlockDropInterlock, TakeInterlock
  <2>7. MutexTypeOK'
    BY <2>4, <2>5, <2>6, Zenon DEF MutexTypeOK
  <2>8. WordsAgree' /\ OneOwner'
    BY <1>1 DEF WordsAgree, OneOwner, Insiders, Owners, Where, MutexTypeOK, Enter, Call,
                LockInterlock,
                LockTake, LockDropInterlock, Try, UnlockInterlock, UnlockClear,
                UnlockDropInterlock, TakeInterlock
  <2>9. ClearInv'
    BY <1>1, <2>3 DEF ClearInv, WordsAgree, Insiders, Where, MutexTypeOK, Enter, Sleepers,
                      Call,
                LockInterlock, LockTake, LockDropInterlock, Try, UnlockInterlock,
                UnlockClear,
                UnlockDropInterlock, TakeInterlock
  <2>10. NoSleepOnFree'
    BY <1>1, <2>3 DEF NoSleepOnFree, ClearInv, Where, MutexTypeOK, Enter, Sleepers, Call,
                      LockInterlock,
                LockTake, LockDropInterlock, Try, UnlockInterlock, UnlockClear,
                UnlockDropInterlock, TakeInterlock
  <2> QED
    BY <2>3, <2>7, <2>8, <2>9, <2>10, Zenon
<1>2. ASSUME LockWait(t) PROVE MInv'
  <2>1. WaitersExact' /\ waiters' \in 0 .. WaitersMod - 1
    BY <1>2, SleepCounted, Zenon
  <2>2. MutexTypeOK'
    BY <1>2, <2>1, Zenon DEF MutexTypeOK, LockWait, Enter
  <2>3. WordsAgree' /\ OneOwner'
    BY <1>2, Zenon DEF WordsAgree, OneOwner, Insiders, Owners, Where, MutexTypeOK, Enter,
                       LockWait
  <2>4. ClearInv' /\ NoSleepOnFree'
    BY <1>2 DEF ClearInv, NoSleepOnFree, WordsAgree, Insiders, Where, MutexTypeOK, Enter,
                LockWait
  <2> QED
    BY <2>1, <2>2, <2>3, <2>4, Zenon
<1>3. ASSUME UnlockWakeup(t) PROVE MInv'
  <2>1. /\ WaitersExact' /\ waiters' \in 0 .. WaitersMod - 1
        /\ place' \in [Users -> Places] /\ place'[t] = "clear"
        /\ \A u \in Users \ {t} :
             place'[u] = place[u] \/ (place[u] = "asleep" /\ place'[u] = "retry")
        /\ Sleepers' # {} => Where({"retry"})' # {}
    BY <1>3, WakeupCounted, Zenon
  <2>2. UNCHANGED <<interlock, locked>> /\ place[t] = "unlock"
    BY <1>3, Zenon DEF UnlockWakeup
  <2>3. Insiders' = Insiders /\ Owners' = Owners
    BY <2>1, <2>2, Zenon DEF Insiders, Owners, Where
  <2>4. WordsAgree' /\ OneOwner'
    BY <2>2, <2>3, Zenon DEF WordsAgree, OneOwner
  <2>5. t \in Owners /\ locked'
    BY <2>2, Zenon DEF WordsAgree, Owners, Where
  <2>6. ClearInv' /\ NoSleepOnFree'
    BY <2>1, <2>5, Zenon DEF ClearInv, NoSleepOnFree, Sleepers
  <2>7. MutexTypeOK'
    BY <2>1, <2>2, Zenon DEF MutexTypeOK
  <2> QED
    BY <2>1, <2>4, <2>6, <2>7, Zenon
<1> QED
  BY <1>1, <1>2, <1>3, Zenon

(* The inductive invariant holds in every state the mutex reaches.         *)
THEOREM MutexInvariance == MutexSpec => []MInv
<1>1. MInv /\ UNCHANGED mutexVars => MInv'
  BY DEF MInv, mutexVars, MutexTypeOK, WordsAgree, OneOwner, WaitersExact, ClearInv,
         NoSleepOnFree,
         Insiders, Owners, Where
<1>2. MInv /\ [MutexNext]_mutexVars => MInv'
  BY <1>1, MutexStep, Zenon DEF MutexNext
<1> QED
  BY <1>2, MutexInitOk, PTL DEF MutexSpec

(* A mutex of ppc/hw_lock.s has at most one owner, although _mutex_try     *)
(* sets the locked word without the interlock.                             *)
THEOREM MutexExclusion == MutexSpec => []OneOwner
BY MutexInvariance, PTL DEF MInv

(* mutex_lock_wait and mutex_unlock_wakeup keep waiters equal to the       *)
(* number of sleepers, so the halfword never wraps and no wakeup is spent  *)
(* on nobody.                                                              *)
THEOREM CountExact == MutexSpec => []WaitersExact
BY MutexInvariance, PTL DEF MInv

(* No thread is left asleep on a free mutex.                               *)
THEOREM FreeMeansWoken == MutexSpec => []NoSleepOnFree
BY MutexInvariance, PTL DEF MInv
=============================================================================
