------------------------------ MODULE SyncSema ------------------------------
(***************************************************************************)
(* Counting semaphores: kern/sync_sema.c with the queueing policies of     *)
(* kern/sync_policy.c.  One semaphore and the threads that use it.         *)
(*                                                                         *)
(* A step is what happens under the semaphore's lock, or the test of       *)
(* SEMAPHORE_OPERATION_ABORTED that semaphore_wait_common makes without    *)
(* the lock when thread_block returns.                                     *)
(***************************************************************************)
EXTENDS Queues, FiniteSets

CONSTANTS
  Threads,
  Priority,             \* a thread's priority; 0 is the most urgent
  FixedPriority,        \* policy = SYNC_POLICY_FIXED_PRIORITY, else FIFO
  InitialValues,        \* values semaphore_create is called with
  MaxCount,             \* bound on the tokens
  Aborts                \* waits time out or are interrupted

ASSUME ThreadsFinite == IsFiniteSet(Threads)
ASSUME PriorityType == Priority \in [Threads -> Nat] /\ FixedPriority \in BOOLEAN
ASSUME ValuesType == InitialValues \subseteq Nat /\ MaxCount \in Nat /\ Aborts \in BOOLEAN

VARIABLES
  count, active, blocked_threads,
  linked,               \* wait_link.prev # 0: not SEMAPHORE_OPERATION_COMPLETE
  waiting,              \* TH_WAIT
  wait_result,
  pc,                   \* "idle", "blocked", "aborting" (before the lock), "crash"
  result,               \* what the last wait returned
  tokens, taken         \* history: tokens given to the semaphore (less those that
                        \* semaphore_signal_all throws away), and used up by a wait

vars == <<count, active, blocked_threads, linked, waiting, wait_result, pc, result,
          tokens, taken>>

Init ==                 \* semaphore_create
  /\ count \in InitialValues /\ tokens = count /\ taken = 0
  /\ active = TRUE /\ blocked_threads = <<>>
  /\ linked = [t \in Threads |-> FALSE] /\ waiting = [t \in Threads |-> FALSE]
  /\ wait_result = [t \in Threads |-> "none"] /\ result = [t \in Threads |-> "none"]
  /\ pc = [t \in Threads |-> "idle"]

(* Mutant: the policy is ignored.                                          *)
PolicyEnqueue_Last(q, t) == Append(q, t)

(* sync_policy_enqueue: in front of the first less urgent thread, or last. *)
PolicyEnqueue(q, t) ==
  InsertBefore(q, t, {u \in Threads : FixedPriority /\ Priority[u] > Priority[t]})

Return(t, res) ==
  /\ pc' = [pc EXCEPT ![t] = "idle"]
  /\ result' = [result EXCEPT ![t] = res]

(* semaphore_wait_common up to thread_block; t runs with TH_WAIT set.      *)
Wait(t) ==
  /\ pc[t] = "idle" /\ active
  /\ count' = count - 1
  /\ IF count' < 0
       THEN /\ blocked_threads' = PolicyEnqueue(blocked_threads, t)
            /\ linked' = [linked EXCEPT ![t] = TRUE]
            /\ waiting' = [waiting EXCEPT ![t] = TRUE]
            /\ pc' = [pc EXCEPT ![t] = "blocked"]
            /\ result' = [result EXCEPT ![t] = "none"]
            /\ UNCHANGED taken
       ELSE /\ Return(t, "success") /\ taken' = taken + 1
            /\ UNCHANGED <<blocked_threads, linked, waiting>>
  /\ UNCHANGED <<active, wait_result, tokens>>

WaitTerminated(t) ==    \* the semaphore is gone
  /\ pc[t] = "idle" /\ ~active /\ result[t] # "terminated"
  /\ Return(t, "terminated")
  /\ UNCHANGED <<count, active, blocked_threads, linked, waiting, wait_result, tokens, taken>>

(* thread_timeout, or clear_wait by thread_abort.                          *)
GiveUp(t, why) ==
  /\ Aborts /\ waiting[t]
  /\ waiting' = [waiting EXCEPT ![t] = FALSE]
  /\ wait_result' = [wait_result EXCEPT ![t] = why]
  /\ UNCHANGED <<count, active, blocked_threads, linked, pc, result, tokens, taken>>

(* thread_block has returned: is the operation complete?                   *)
Resume(t) ==
  /\ pc[t] = "blocked" /\ ~waiting[t]
  /\ IF linked[t]
       THEN pc' = [pc EXCEPT ![t] = "aborting"] /\ UNCHANGED <<result, taken>>
       ELSE Return(t, wait_result[t]) /\ taken' = taken + 1
  /\ UNCHANGED <<count, active, blocked_threads, linked, waiting, wait_result, tokens>>

(* Mutant: the aborted waiter does not give its count back.                *)
Aborted_NoCount(t) ==
  /\ pc[t] = "aborting"
  /\ IF active /\ t \in Range(blocked_threads)
       THEN blocked_threads' = QueueRemove(blocked_threads, t)
       ELSE UNCHANGED blocked_threads
  /\ Return(t, "aborted")
  /\ UNCHANGED <<count, active, linked, waiting, wait_result, tokens, taken>>

(* The aborted waiter, with the lock, takes itself off the queue.          *)
(* queue_remove of an element that is not queued follows a null pointer.   *)
Aborted(t) ==
  /\ pc[t] = "aborting"
  /\ IF active /\ t \notin Range(blocked_threads)
       THEN pc' = [pc EXCEPT ![t] = "crash"] /\ UNCHANGED <<count, blocked_threads, result>>
       ELSE /\ IF active THEN /\ blocked_threads' = QueueRemove(blocked_threads, t)
                              /\ count' = count + 1
                         ELSE UNCHANGED <<blocked_threads, count>>
            /\ Return(t, IF wait_result[t] = "timed_out" THEN "operation_timed_out" ELSE "aborted")
  /\ UNCHANGED <<active, linked, waiting, wait_result, tokens, taken>>

(* SEMAPHORE_OPERATION_COMPLETE and clear_wait on the threads of W.        *)
Complete(W, why) ==
  /\ linked' = [t \in Threads |-> linked[t] /\ t \notin W]
  /\ waiting' = [t \in Threads |-> waiting[t] /\ t \notin W]
  /\ wait_result' = [t \in Threads |-> IF t \in W /\ waiting[t] THEN why ELSE wait_result[t]]

SignalBound(n) == tokens + n <= MaxCount

(* Mutant: a thread that is picked by name is not counted.                 *)
SignalThread_NoCount(t) ==
  /\ active /\ SignalBound(1) /\ t \in Range(blocked_threads)
  /\ tokens' = tokens + 1
  /\ blocked_threads' = QueueRemove(blocked_threads, t)
  /\ Complete({t}, "success")
  /\ UNCHANGED <<count, active, pc, result, taken>>

Signal ==               \* semaphore_signal
  /\ active /\ SignalBound(1)
  /\ count' = count + 1 /\ tokens' = tokens + 1
  /\ IF count >= 0
       THEN UNCHANGED <<blocked_threads, linked, waiting, wait_result>>
       ELSE /\ blocked_threads' = Tail(blocked_threads)
            /\ Complete({Head(blocked_threads)}, "success")
  /\ UNCHANGED <<active, pc, result, taken>>

(* semaphore_signal_all: one turn per blocked thread, then count = 0.      *)
SignalAll ==
  LET k == IF count < 0 THEN -count ELSE 0
  IN /\ active /\ SignalBound(k)
     /\ count' = 0
     /\ tokens' = tokens - count
     /\ blocked_threads' = SubSeq(blocked_threads, k + 1, Len(blocked_threads))
     /\ Complete(Range(SubSeq(blocked_threads, 1, k)), "success")
     /\ UNCHANGED <<active, pc, result, taken>>

SignalThread(t) ==      \* semaphore_signal_thread; else KERN_NOT_WAITING
  /\ active /\ SignalBound(1) /\ t \in Range(blocked_threads)
  /\ count' = count + 1 /\ tokens' = tokens + 1
  /\ blocked_threads' = QueueRemove(blocked_threads, t)
  /\ Complete({t}, "success")
  /\ UNCHANGED <<active, pc, result, taken>>

(* Mutant: the loop stops one thread short.                                *)
Destroy_OneShort ==
  LET k == IF count < 0 THEN -count - 1 ELSE 0
  IN /\ active /\ active' = FALSE
     /\ count' = IF count < 0 THEN 1 ELSE count
     /\ blocked_threads' = SubSeq(blocked_threads, k + 1, Len(blocked_threads))
     /\ Complete(Range(SubSeq(blocked_threads, 1, k)), "semaphore_destroyed")
     /\ UNCHANGED <<pc, result, tokens, taken>>

Destroy ==              \* semaphore_destroy
  LET k == IF count < 0 THEN -count ELSE 0
  IN /\ active /\ active' = FALSE
     /\ count' = IF count < 0 THEN 1 ELSE count
     /\ blocked_threads' = SubSeq(blocked_threads, k + 1, Len(blocked_threads))
     /\ Complete(Range(SubSeq(blocked_threads, 1, k)), "semaphore_destroyed")
     /\ UNCHANGED <<pc, result, tokens, taken>>

Next ==
  \/ \E t \in Threads :
       \/ Wait(t) \/ WaitTerminated(t) \/ Resume(t) \/ Aborted(t) \/ SignalThread(t)
       \/ \E why \in {"timed_out", "interrupted"} : GiveUp(t, why)
  \/ Signal \/ SignalAll \/ Destroy

Spec == Init /\ [][Next]_vars

FairSpec == Spec /\ \A t \in Threads : WF_vars(Resume(t)) /\ WF_vars(Aborted(t))

-----------------------------------------------------------------------------
Codes == {"none", "success", "semaphore_destroyed", "terminated", "operation_timed_out",
          "aborted", "timed_out", "interrupted"}

TypeOK ==
  /\ count \in Int /\ count >= -Cardinality(Threads) /\ active \in BOOLEAN /\ tokens \in Nat /\ taken \in Nat
  /\ blocked_threads \in Seq(Threads) /\ Len(blocked_threads) <= Cardinality(Threads)
  /\ linked \in [Threads -> BOOLEAN] /\ waiting \in [Threads -> BOOLEAN]
  /\ pc \in [Threads -> {"idle", "blocked", "aborting", "crash"}]
  /\ wait_result \in [Threads -> Codes] /\ result \in [Threads -> Codes]

(* The rule of thumb at the top of sync_sema.c: a non-negative count means *)
(* an empty queue, a count of -n a queue of n threads.  The panics on a    *)
(* null thread in signal and destroy depend on it.                         *)
RuleOfThumb ==
  active => Len(blocked_threads) = IF count < 0 THEN -count ELSE 0

(* Why: the queue holds the threads inside semaphore_wait_common that no   *)
(* signal has completed, once each; a thread with TH_WAIT is one of them.  *)
Queue == Range(blocked_threads)
QueueInv ==
  /\ IsInjective(blocked_threads)
  /\ \A t \in Threads : t \in Queue <=> pc[t] \in {"blocked", "aborting"} /\ linked[t]
WaitInv == \A t \in Threads : waiting[t] => pc[t] = "blocked" /\ linked[t]
DestroyedInv == ~active => count >= 0 /\ blocked_threads = <<>>

(* A thread sleeps on an active semaphore only while it is queued, once.   *)
SleepersQueued ==
  /\ \A t \in Threads : waiting[t] => t \in Range(blocked_threads)
  /\ \A i, j \in DOMAIN blocked_threads : blocked_threads[i] = blocked_threads[j] => i = j

(* No token is lost and none is used twice: every token given was used up  *)
(* by one wait that found it or was taken off the queue for it, or is in   *)
(* the hands of a thread that was and has not returned, or is still in the *)
(* count.  A wait that timed out just before it was signalled keeps the    *)
(* token, and returns the wait result of its timeout.                      *)
InFlight == {t \in Threads : pc[t] \in {"blocked", "aborting", "crash"} /\ ~linked[t]}
TokensConserved ==
  active => tokens = taken + Cardinality(InFlight) + count + Len(blocked_threads)

(* Under SYNC_POLICY_FIXED_PRIORITY the most urgent thread is woken first. *)
UrgentFirst ==
  FixedPriority => \A i, j \in DOMAIN blocked_threads :
    i < j => Priority[blocked_threads[i]] <= Priority[blocked_threads[j]]

(* semaphore_destroy leaves nobody blocked, whatever it races with.        *)
DestroyReleases ==
  \A t \in Threads : pc[t] = "blocked" /\ ~active ~> pc[t] = "idle"
=============================================================================
