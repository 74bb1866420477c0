--------------------------- MODULE SyncSema_proof ---------------------------
(***************************************************************************)
(* Proofs about the semaphore, for any finite set of threads, any          *)
(* priorities and either policy, with or without aborts.                   *)
(***************************************************************************)
EXTENDS SyncSema, Queues_proof, FiniteSetTheorems, TLAPS

-----------------------------------------------------------------------------
(* There is a first number in a set of numbers.                            *)
LEMMA Least ==
  ASSUME NEW T, T \subseteq Nat, T # {}
  PROVE  \E x \in T : \A y \in T : x <= y
<1> DEFINE R == OpToRel(<, Nat)
<1>1. IsWellFoundedOn(R, Nat)
  BY NatLessThanWellFounded, Zenon
<1>2. \A x, y \in Nat : x < y => <<x, y>> \in R
  BY SMT DEF OpToRel
<1> HIDE DEF R
<1>3. PICK x \in T : \A y \in T : ~ (<<y, x>> \in R)
  BY <1>1, WFMin, Zenon
<1>4. \A y \in T : y \in Nat /\ x \in Nat /\ ~(y < x)
  BY <1>2, <1>3, Zenon
<1>5. \A y \in T : x <= y
  BY <1>4
<1> QED
  BY <1>5

(* The walk of a sorted insertion ends: at the first later element, or     *)
(* after the last one.                                                     *)
LEMMA InsertBeforeFacts ==
  ASSUME NEW S, NEW q \in Seq(S), NEW t \in S, NEW Later
  PROVE  \E i \in 1 .. Len(q) + 1 :
           /\ InsertBefore(q, t, Later) = InsertAt(q, i, t)
           /\ \A j \in 1 .. i - 1 : q[j] \notin Later
           /\ i <= Len(q) => q[i] \in Later
<1> DEFINE P(i) == /\ \A j \in 1 .. i - 1 : q[j] \notin Later
                   /\ i <= Len(q) => q[i] \in Later
           T == {i \in 1 .. Len(q) + 1 : i <= Len(q) => q[i] \in Later}
<1>1. Len(q) \in Nat
  OBVIOUS
<1>2. T \subseteq Nat /\ Len(q) + 1 \in T
  BY <1>1
<1>3. PICK m \in T : \A y \in T : m <= y
  <2> HIDE DEF T
  <2> QED
    BY <1>2, Least, Zenon
<1>4. m \in 1 .. Len(q) + 1 /\ (m <= Len(q) => q[m] \in Later)
  OBVIOUS
<1>5. \A j \in 1 .. m - 1 : q[j] \notin Later
  <2> SUFFICES ASSUME NEW j \in 1 .. m - 1, q[j] \in Later PROVE FALSE
    OBVIOUS
  <2>1. j \in 1 .. Len(q) + 1 /\ ~(m <= j)
    BY <1>1, <1>4
  <2>2. j \in T
    BY <2>1
  <2> QED
    BY <1>3, <2>1, <2>2
<1> DEFINE i == CHOOSE n \in 1 .. Len(q) + 1 : P(n)
<1>6. i \in 1 .. Len(q) + 1 /\ P(i)
  <2>1. \E n \in 1 .. Len(q) + 1 : P(n)
    BY <1>4, <1>5
  <2> HIDE DEF P
  <2> QED
    BY <2>1
<1>7. InsertBefore(q, t, Later) = InsertAt(q, i, t)
  BY DEF InsertBefore
<1> HIDE DEF i
<1> QED
  BY <1>6, <1>7

(* The queue operators.                                                    *)

(* sync_policy_enqueue adds the thread, under either policy, and under     *)
(* SYNC_POLICY_FIXED_PRIORITY keeps the queue in the order of urgency.     *)
InOrder(q) == \A i, j \in 1 .. Len(q) : i < j => Priority[q[i]] <= Priority[q[j]]

(* Both are seen where InsertBefore puts the thread.                       *)
LEMMA PolicyEnqueueFacts ==
  ASSUME NEW q \in Seq(Threads), IsInjective(q), NEW t \in Threads, t \notin Range(q)
  PROVE  /\ PolicyEnqueue(q, t) \in Seq(Threads)
         /\ Len(PolicyEnqueue(q, t)) = Len(q) + 1
         /\ IsInjective(PolicyEnqueue(q, t))
         /\ Range(PolicyEnqueue(q, t)) = Range(q) \cup {t}
         /\ FixedPriority /\ InOrder(q) => InOrder(PolicyEnqueue(q, t))
<1> DEFINE Later == {u \in Threads : FixedPriority /\ Priority[u] > Priority[t]}
<1>1. PICK i \in 1 .. Len(q) + 1 :
        /\ InsertBefore(q, t, Later) = InsertAt(q, i, t)
        /\ \A j \in 1 .. i - 1 : q[j] \notin Later
        /\ i <= Len(q) => q[i] \in Later
  <2> HIDE DEF Later
  <2> QED
    BY InsertBeforeFacts, Zenon
<1> DEFINE r == InsertAt(q, i, t)
<1>2. PolicyEnqueue(q, t) = r
  BY <1>1 DEF PolicyEnqueue
<1>3. /\ r \in Seq(Threads) /\ Len(r) = Len(q) + 1 /\ IsInjective(r)
      /\ Range(r) = Range(q) \cup {t}
  BY InsertAtFacts, SMT
<1>4. /\ r \in Seq(Threads) /\ Len(r) = Len(q) + 1
      /\ Inserted(r, q, i, t)
  BY InsertAtElements, Zenon
<1>5. ASSUME FixedPriority, InOrder(q) PROVE InOrder(r)
  <2> HIDE DEF r
  <2>1. \A j \in 1 .. Len(q) + 1 : r[j] = IF j < i THEN q[j] ELSE IF j = i THEN t ELSE q[j - 1]
    BY <1>4 DEF Inserted
  <2>2. Len(q) \in Nat /\ i \in Nat /\ \A j \in 1 .. Len(q) : q[j] \in Threads
    OBVIOUS
  <2>3. \A u \in Threads : Priority[u] \in Nat
    BY PriorityType
  <2>4. \A j \in 1 .. i - 1 : j \in 1 .. Len(q) /\ Priority[q[j]] <= Priority[t]
    <3> SUFFICES ASSUME NEW j \in 1 .. i - 1 PROVE j \in 1 .. Len(q) /\ Priority[q[j]] <= Priority[t]
      OBVIOUS
    <3>1. j \in 1 .. Len(q)
      BY <2>2
    <3>2. ~(Priority[q[j]] > Priority[t])
      BY <3>1, <2>2, <1>1, <1>5
    <3> QED
      BY <3>1, <3>2, <2>2, <2>3
  <2>5. \A j \in i .. Len(q) : j \in 1 .. Len(q) /\ Priority[t] <= Priority[q[j]]
    <3> SUFFICES ASSUME NEW j \in i .. Len(q) PROVE j \in 1 .. Len(q) /\ Priority[t] <= Priority[q[j]]
      OBVIOUS
    <3>1. j \in 1 .. Len(q) /\ i \in 1 .. Len(q) /\ i <= Len(q)
      BY <2>2
    <3>2. Priority[q[i]] > Priority[t]
      BY <3>1, <1>1
    <3>3. i = j \/ Priority[q[i]] <= Priority[q[j]]
      BY <3>1, <1>5 DEF InOrder
    <3>4. Priority[q[i]] \in Nat /\ Priority[q[j]] \in Nat /\ Priority[t] \in Nat
      BY <3>1, <2>2, <2>3
    <3> QED
      BY <3>1, <3>2, <3>3, <3>4
  <2> SUFFICES ASSUME NEW a \in 1 .. Len(q) + 1, NEW b \in 1 .. Len(q) + 1, a < b
               PROVE  Priority[r[a]] <= Priority[r[b]]
    BY <1>3 DEF InOrder
  <2>6. CASE b < i
    <3>1. a \in 1 .. Len(q) /\ b \in 1 .. Len(q) /\ r[a] = q[a] /\ r[b] = q[b]
      BY <2>1, <2>2, <2>6
    <3> QED
      BY <3>1, <1>5 DEF InOrder
  <2>7. CASE b = i
    BY <2>1, <2>2, <2>4, <2>7
  <2>8. CASE a < i /\ i < b
    <3>1. r[a] = q[a] /\ a \in 1 .. Len(q) /\ r[b] = q[b - 1] /\ b - 1 \in 1 .. Len(q)
      BY <2>1, <2>2, <2>8
    <3>2. a \in 1 .. Len(q) /\ b - 1 \in 1 .. Len(q) /\ (a = b - 1 \/ a < b - 1)
      BY <3>1
    <3>3. Priority[q[a]] \in Nat
      BY <3>1, <2>2, <2>3
    <3> QED
      BY <3>1, <3>2, <3>3, <1>5 DEF InOrder
  <2>9. CASE a = i
    <3>1. r[a] = t /\ r[b] = q[b - 1] /\ b - 1 \in i .. Len(q)
      BY <2>1, <2>2, <2>9
    <3> QED
      BY <3>1, <2>5
  <2>10. CASE a > i
    <3>1. /\ r[a] = q[a - 1] /\ a - 1 \in 1 .. Len(q) /\ r[b] = q[b - 1] /\ b - 1 \in 1 .. Len(q)
          /\ a - 1 < b - 1
      BY <2>1, <2>2, <2>10
    <3> QED
      BY <3>1, <1>5 DEF InOrder
  <2> QED
    BY <2>2, <2>6, <2>7, <2>8, <2>9, <2>10
<1> QED
  BY <1>2, <1>3, <1>5

(* A queue stays in order when one thread is taken off.                    *)
LEMMA RemovedInOrder ==
  ASSUME NEW q \in Seq(Threads), NEW r \in Seq(Threads), NEW i \in 1 .. Len(q),
         Len(r) = Len(q) - 1, Removed(r, q, i), InOrder(q)
  PROVE  InOrder(r)
<1> DEFINE f(n) == IF n < i THEN n ELSE n + 1
<1> SUFFICES ASSUME NEW a \in 1 .. Len(q) - 1, NEW b \in 1 .. Len(q) - 1, a < b
             PROVE  Priority[r[a]] <= Priority[r[b]]
  BY DEF InOrder
<1>1. r[a] = q[f(a)] /\ r[b] = q[f(b)]
  BY Zenon DEF Removed
<1>2. f(a) \in 1 .. Len(q) /\ f(b) \in 1 .. Len(q) /\ f(a) < f(b)
  OBVIOUS
<1> HIDE DEF f
<1> QED
  BY <1>1, <1>2 DEF InOrder

(* A loop of Len(q) turns empties the queue.                               *)
LEMMA AllOff ==
  ASSUME NEW q \in Seq(Threads)
  PROVE  SubSeq(q, Len(q) + 1, Len(q)) = <<>> /\ SubSeq(q, 1, Len(q)) = q
OBVIOUS

(* A queue without repetitions is as long as the set of its threads.       *)
LEMMA QueueLength ==
  ASSUME NEW q \in Seq(Threads), IsInjective(q)
  PROVE  /\ IsFiniteSet(Range(q)) /\ Cardinality(Range(q)) = Len(q)
         /\ Len(q) <= Cardinality(Threads)
<1>1. DOMAIN q = 1 .. Len(q) /\ Len(q) \in Nat /\ q \in [1 .. Len(q) -> Range(q)]
  BY DEF Range
<1>2. q \in Bijection(1 .. Len(q), Range(q))
  BY <1>1 DEF Bijection, Injection, Surjection, Range
<1>3. ExistsBijection(1 .. Len(q), Range(q))
  BY <1>2 DEF ExistsBijection
<1>4. Cardinality(Range(q)) = Len(q)
  BY <1>1, <1>3, FS_CountingElements
<1>5. Range(q) \subseteq Threads
  BY <1>1 DEF Range
<1>6. IsFiniteSet(Range(q)) /\ Cardinality(Range(q)) <= Cardinality(Threads)
  BY <1>5, FS_Subset, ThreadsFinite
<1> QED
  BY <1>4, <1>6

-----------------------------------------------------------------------------
(* The inductive invariant.                                                *)
Types ==
  /\ count \in Int /\ active \in BOOLEAN /\ tokens \in Nat /\ taken \in Nat
  /\ blocked_threads \in Seq(Threads)
  /\ linked \in [Threads -> BOOLEAN] /\ waiting \in [Threads -> BOOLEAN]
  /\ pc \in [Threads -> {"idle", "blocked", "aborting", "crash"}]
  /\ wait_result \in [Threads -> Codes] /\ result \in [Threads -> Codes]

IInv ==
  Types /\ RuleOfThumb /\ QueueInv /\ WaitInv /\ DestroyedInv /\ TokensConserved

(* The threads with a token in flight are finitely many.                   *)
LEMMA InFlightFinite ==
  IsFiniteSet(InFlight) /\ Cardinality(InFlight) \in Nat
<1>1. InFlight \subseteq Threads
  BY DEF InFlight
<1>2. IsFiniteSet(InFlight)
  BY <1>1, FS_Subset, ThreadsFinite
<1> QED
  BY <1>2, FS_CardinalityType

(* A new semaphore is in order.                                            *)
LEMMA InitIInv == Init => IInv
<1> SUFFICES ASSUME Init PROVE IInv
  OBVIOUS
<1>1. count \in Nat /\ count \in Int
  BY ValuesType DEF Init
<1>2. Types
  BY <1>1 DEF Init, Types, Codes
<1>3. Len(blocked_threads) = 0 /\ Range(blocked_threads) = {} /\ IsInjective(blocked_threads)
  BY DEF Init, Range, IsInjective
<1>4. InFlight = {} 
  BY DEF Init, InFlight
<1>5. Cardinality(InFlight) = 0
  BY <1>4, FS_EmptySet
<1>6. RuleOfThumb /\ DestroyedInv
  BY <1>1, <1>3 DEF Init, RuleOfThumb, DestroyedInv
<1>7. QueueInv /\ WaitInv
  BY <1>3 DEF Init, QueueInv, Queue, WaitInv
<1>8. TokensConserved
  BY <1>1, <1>3, <1>5 DEF Init, TokensConserved
<1> QED
  BY <1>2, <1>6, <1>7, <1>8 DEF IInv

(* A wait takes a token, or queues the thread for one.                     *)
LEMMA WaitStep ==
  ASSUME IInv, NEW t \in Threads, Wait(t)
  PROVE  IInv'
<1> USE DEF IInv
<1>1. pc[t] = "idle" /\ active /\ active' = active /\ count' = count - 1 /\ tokens' = tokens
      /\ wait_result' = wait_result
  BY DEF Wait
<1>2. t \notin Range(blocked_threads) /\ ~waiting[t]
  BY <1>1 DEF QueueInv, Queue, WaitInv
<1>3. InFlight' = InFlight
  BY <1>1 DEF Wait, Return, InFlight, Types
<1>4. Len(blocked_threads) \in Nat /\ Cardinality(InFlight) \in Nat
  BY InFlightFinite DEF Types
<1>5. CASE count' < 0
  <2>1. /\ blocked_threads' = PolicyEnqueue(blocked_threads, t)
        /\ linked' = [linked EXCEPT ![t] = TRUE] /\ waiting' = [waiting EXCEPT ![t] = TRUE]
        /\ pc' = [pc EXCEPT ![t] = "blocked"] /\ result' = [result EXCEPT ![t] = "none"]
        /\ taken' = taken
    BY <1>5 DEF Wait
  <2>2. /\ blocked_threads' \in Seq(Threads)
        /\ Len(blocked_threads') = Len(blocked_threads) + 1
        /\ IsInjective(blocked_threads')
        /\ Range(blocked_threads') = Range(blocked_threads) \cup {t}
    <3>1. blocked_threads \in Seq(Threads) /\ IsInjective(blocked_threads)
      BY DEF Types, QueueInv
    <3> QED
      BY <2>1, <1>2, <3>1, PolicyEnqueueFacts
  <2>3. Types'
    BY <1>1, <2>1, <2>2 DEF Types, Codes
  <2>4. RuleOfThumb' /\ TokensConserved' /\ DestroyedInv'
    BY <1>1, <1>3, <1>4, <1>5, <2>1, <2>2 DEF Types, RuleOfThumb, TokensConserved, DestroyedInv
  <2>5. QueueInv' /\ WaitInv'
    BY <2>1, <2>2 DEF Types, QueueInv, Queue, WaitInv
  <2> QED
    BY <2>3, <2>4, <2>5
<1>6. CASE ~(count' < 0)
  <2>1. /\ pc' = [pc EXCEPT ![t] = "idle"] /\ result' = [result EXCEPT ![t] = "success"]
        /\ taken' = taken + 1 /\ UNCHANGED <<blocked_threads, linked, waiting>>
    BY <1>6 DEF Wait, Return
  <2>2. pc' = pc
    BY <1>1, <2>1 DEF Types
  <2>3. Types'
    BY <1>1, <2>1, <2>2 DEF Types, Codes
  <2>4. RuleOfThumb' /\ TokensConserved' /\ DestroyedInv'
    BY <1>1, <1>3, <1>4, <1>6, <2>1, SMTT(20) DEF Types, RuleOfThumb, TokensConserved, DestroyedInv
  <2>5. QueueInv' /\ WaitInv'
    BY <2>1, <2>2 DEF QueueInv, Queue, WaitInv
  <2> QED
    BY <2>3, <2>4, <2>5
<1> QED
  BY <1>5, <1>6

(* A thread returns from thread_block.  If it was signalled it takes its   *)
(* token home.                                                             *)
LEMMA ResumeStep ==
  ASSUME IInv, NEW t \in Threads, Resume(t)
  PROVE  IInv'
<1> USE DEF IInv
<1>1. /\ pc[t] = "blocked" /\ ~waiting[t]
      /\ UNCHANGED <<count, active, blocked_threads, linked, waiting, wait_result, tokens>>
  BY DEF Resume
<1>2. CASE linked[t]
  <2>1. pc' = [pc EXCEPT ![t] = "aborting"] /\ UNCHANGED <<result, taken>>
    BY <1>2 DEF Resume
  <2>2. InFlight' = InFlight
    BY <1>1, <1>2, <2>1 DEF InFlight, Types
  <2>3. Types'
    BY <1>1, <2>1 DEF Types
  <2>4. RuleOfThumb' /\ TokensConserved' /\ DestroyedInv'
    BY <1>1, <2>1, <2>2 DEF RuleOfThumb, TokensConserved, DestroyedInv
  <2>5. QueueInv' /\ WaitInv'
    BY <1>1, <1>2, <2>1 DEF Types, QueueInv, Queue, WaitInv
  <2> QED
    BY <2>3, <2>4, <2>5
<1>3. CASE ~linked[t]
  <2>1. /\ pc' = [pc EXCEPT ![t] = "idle"] /\ taken' = taken + 1
        /\ result' = [result EXCEPT ![t] = wait_result[t]]
    BY <1>3 DEF Resume, Return
  <2>2. t \in InFlight /\ InFlight' = InFlight \ {t}
    BY <1>1, <1>3, <2>1 DEF InFlight, Types
  <2>3. Cardinality(InFlight') = Cardinality(InFlight) - 1
    BY <2>2, InFlightFinite, FS_RemoveElement
  <2>4. Types'
    BY <1>1, <2>1 DEF Types
  <2>5. RuleOfThumb' /\ DestroyedInv'
    BY <1>1 DEF RuleOfThumb, DestroyedInv
  <2>6. TokensConserved'
    BY <1>1, <2>1, <2>3, InFlightFinite DEF Types, TokensConserved
  <2>7. QueueInv' /\ WaitInv'
    BY <1>1, <1>3, <2>1 DEF Types, QueueInv, Queue, WaitInv
  <2> QED
    BY <2>4, <2>5, <2>6, <2>7
<1> QED
  BY <1>2, <1>3

(* An aborted waiter gives its place and its count back.                   *)
LEMMA AbortedStep ==
  ASSUME IInv, NEW t \in Threads, Aborted(t)
  PROVE  IInv'
<1> USE DEF IInv
<1>1. /\ pc[t] = "aborting"
      /\ UNCHANGED <<active, linked, waiting, wait_result, tokens, taken>>
  BY DEF Aborted
<1>2. CASE active /\ t \notin Range(blocked_threads)
  <2>1. pc' = [pc EXCEPT ![t] = "crash"] /\ UNCHANGED <<count, blocked_threads, result>>
    BY <1>2 DEF Aborted
  <2>2. ~linked[t]
    BY <1>1, <1>2 DEF QueueInv, Queue
  <2>3. InFlight' = InFlight
    BY <1>1, <2>1, <2>2 DEF InFlight, Types
  <2>4. Types'
    BY <1>1, <2>1 DEF Types
  <2>5. RuleOfThumb' /\ TokensConserved' /\ DestroyedInv'
    BY <1>1, <2>1, <2>3 DEF RuleOfThumb, TokensConserved, DestroyedInv
  <2>6. QueueInv' /\ WaitInv'
    BY <1>1, <2>1, <2>2 DEF Types, QueueInv, Queue, WaitInv
  <2> QED
    BY <2>4, <2>5, <2>6
<1>3. CASE ~(active /\ t \notin Range(blocked_threads))
  <2> DEFINE code == IF wait_result[t] = "timed_out" THEN "operation_timed_out" ELSE "aborted"
  <2>1. pc' = [pc EXCEPT ![t] = "idle"] /\ result' = [result EXCEPT ![t] = code]
    BY <1>3 DEF Aborted, Return
  <2>2. code \in Codes
    BY DEF Codes
  <2> HIDE DEF code
  <2>3. CASE active
    <3>1. blocked_threads' = QueueRemove(blocked_threads, t) /\ count' = count + 1
      BY <1>3, <2>3 DEF Aborted
    <3>2. t \in Range(blocked_threads) /\ linked[t]
      BY <1>1, <1>3, <2>3 DEF QueueInv, Queue
    <3>3. /\ blocked_threads' \in Seq(Threads)
          /\ Len(blocked_threads') = Len(blocked_threads) - 1
          /\ IsInjective(blocked_threads')
          /\ Range(blocked_threads') = Range(blocked_threads) \ {t}
      <4>1. blocked_threads \in Seq(Threads) /\ IsInjective(blocked_threads)
        BY DEF Types, QueueInv
      <4> QED
        BY <3>1, <3>2, <4>1, QueueRemoveFacts
    <3>4. InFlight' = InFlight
      BY <1>1, <2>1, <3>2 DEF InFlight, Types
    <3>5. Types'
      BY <1>1, <2>1, <2>2, <3>1, <3>3 DEF Types
    <3>6. Len(blocked_threads') \in Nat /\ Len(blocked_threads) \in Nat
      BY <3>3 DEF Types
    <3>7. RuleOfThumb' /\ TokensConserved' /\ DestroyedInv'
      BY <1>1, <2>3, <3>1, <3>3, <3>4, <3>6, InFlightFinite
         DEF Types, RuleOfThumb, TokensConserved, DestroyedInv
    <3>8. QueueInv' /\ WaitInv'
      BY <1>1, <2>1, <3>3 DEF Types, QueueInv, Queue, WaitInv
    <3> QED
      BY <3>5, <3>7, <3>8
  <2>4. CASE ~active
    <3>1. UNCHANGED <<blocked_threads, count>>
      BY <2>4 DEF Aborted
    <3>2. Types'
      BY <1>1, <2>1, <2>2, <3>1 DEF Types
    <3>3. RuleOfThumb' /\ TokensConserved' /\ DestroyedInv'
      BY <1>1, <2>4, <3>1 DEF RuleOfThumb, TokensConserved, DestroyedInv
    <3>4. Range(blocked_threads) = {}
      BY <2>4 DEF DestroyedInv, Range
    <3>5. QueueInv' /\ WaitInv'
      BY <1>1, <2>1, <3>1, <3>4 DEF Types, QueueInv, Queue, WaitInv
    <3> QED
      BY <3>2, <3>3, <3>5
  <2> QED
    BY <2>3, <2>4
<1> QED
  BY <1>2, <1>3

(* What the signals share: one queued thread comes off the queue with a    *)
(* token in its hands.                                                     *)
Dequeued(t) ==
  /\ blocked_threads' \in Seq(Threads)
  /\ Len(blocked_threads') = Len(blocked_threads) - 1
  /\ IsInjective(blocked_threads')
  /\ Range(blocked_threads') = Range(blocked_threads) \ {t}
Signalled(t) ==
  /\ active /\ count' = count + 1 /\ tokens' = tokens + 1
  /\ Complete({t}, "success") /\ UNCHANGED <<active, pc, result, taken>>

(* semaphore_signal_common to one thread keeps the invariant, whichever    *)
(* thread of the queue it is.                                              *)
LEMMA ReleaseOne ==
  ASSUME IInv, NEW t \in Range(blocked_threads), Dequeued(t), Signalled(t)
  PROVE  IInv'
<1>1. t \in Threads /\ pc[t] \in {"blocked", "aborting"} /\ linked[t]
  BY DEF IInv, Types, QueueInv, Queue, Range
<1>2. /\ count' = count + 1 /\ tokens' = tokens + 1 /\ taken' = taken
      /\ pc' = pc /\ result' = result
  BY DEF Signalled
<1>3. active /\ active' = active
  BY DEF Signalled
<1>4. \A u \in Threads :
        /\ linked'[u] <=> linked[u] /\ u # t
        /\ waiting'[u] <=> waiting[u] /\ u # t
  BY Zenon DEF Signalled, Complete
<1>5. InFlight' = InFlight \cup {t} /\ t \notin InFlight
  BY <1>1, <1>2, <1>4 DEF InFlight
<1>6. Cardinality(InFlight') = Cardinality(InFlight) + 1
  BY <1>5, InFlightFinite, FS_AddElement
<1>7. /\ Len(blocked_threads') \in Nat /\ Len(blocked_threads) \in Nat
      /\ Len(blocked_threads') = Len(blocked_threads) - 1
  BY DEF IInv, Types, Dequeued
<1>8. count \in Int /\ tokens \in Nat /\ taken \in Nat
  BY DEF IInv, Types
<1>9. Types'
  <2>1. linked' \in [Threads -> BOOLEAN] /\ waiting' \in [Threads -> BOOLEAN]
    BY DEF Signalled, Complete
  <2>2. wait_result' \in [Threads -> Codes]
    BY DEF IInv, Types, Signalled, Complete, Codes
  <2>3. blocked_threads' \in Seq(Threads)
    BY DEF Dequeued
  <2> QED
    BY <1>2, <1>3, <1>8, <2>1, <2>2, <2>3 DEF IInv, Types
<1>10. RuleOfThumb' /\ DestroyedInv'
  BY <1>2, <1>3, <1>7, <1>8 DEF IInv, RuleOfThumb, DestroyedInv
<1>11. TokensConserved'
  <2> DEFINE held == Cardinality(InFlight)
             n == Len(blocked_threads)
             given == taken + (held + 1) + (count + 1) + (n - 1)
  <2>1. tokens = taken + held + count + n
    BY <1>3 DEF IInv, TokensConserved
  <2>2. held \in Nat /\ n \in Nat
    BY <1>7, InFlightFinite
  <2>3. taken' + Cardinality(InFlight') + count' + Len(blocked_threads') = given
    BY <1>2, <1>6, <1>7, ZenonT(30)
  <2> HIDE DEF held, n
  <2>4. tokens + 1 = given
    BY <1>8, <2>1, <2>2
  <2> HIDE DEF given
  <2> QED
    BY <1>2, <2>3, <2>4 DEF TokensConserved
<1>12. QueueInv'
  BY <1>2, <1>4 DEF IInv, QueueInv, Queue, Dequeued
<1>13. WaitInv'
  BY <1>2, <1>4 DEF IInv, WaitInv
<1> QED
  BY <1>9, <1>10, <1>11, <1>12, <1>13 DEF IInv

(* semaphore_signal_thread keeps the invariant.                            *)
LEMMA SignalThreadStep ==
  ASSUME IInv, NEW t \in Threads, SignalThread(t)
  PROVE  IInv'
<1>1. blocked_threads \in Seq(Threads) /\ IsInjective(blocked_threads)
  BY DEF IInv, Types, QueueInv
<1>2. t \in Range(blocked_threads) /\ blocked_threads' = QueueRemove(blocked_threads, t)
  BY DEF SignalThread
<1>3. Dequeued(t)
  BY <1>1, <1>2, QueueRemoveFacts DEF Dequeued
<1>4. Signalled(t)
  BY DEF SignalThread, Signalled
<1> QED
  BY <1>2, <1>3, <1>4, ReleaseOne

(* semaphore_signal keeps the invariant, with and without a thread to      *)
(* wake.                                                                   *)
LEMMA SignalStep ==
  ASSUME IInv, Signal
  PROVE  IInv'
<1>1. /\ active /\ count' = count + 1 /\ tokens' = tokens + 1
      /\ UNCHANGED <<active, pc, result, taken>>
  BY DEF Signal
<1>2. CASE count >= 0
  <2>1. UNCHANGED <<blocked_threads, linked, waiting, wait_result>>
    BY <1>2 DEF Signal
  <2>2. InFlight' = InFlight
    BY <1>1, <2>1 DEF InFlight
  <2>3. Types'
    BY <1>1, <2>1 DEF IInv, Types
  <2>4. RuleOfThumb' /\ DestroyedInv'
    BY <1>1, <1>2, <2>1 DEF IInv, Types, RuleOfThumb, DestroyedInv
  <2>5. TokensConserved'
    <3>1. Len(blocked_threads) \in Nat
      BY DEF IInv, Types
    <3> QED
      BY <1>1, <2>1, <2>2, <3>1, InFlightFinite DEF IInv, Types, TokensConserved
  <2>6. QueueInv' /\ WaitInv'
    BY <1>1, <2>1 DEF IInv, QueueInv, Queue, WaitInv
  <2> QED
    BY <2>3, <2>4, <2>5, <2>6 DEF IInv
<1>3. CASE ~(count >= 0)
  <2>1. /\ blocked_threads' = Tail(blocked_threads)
        /\ Complete({Head(blocked_threads)}, "success")
    BY <1>3 DEF Signal
  <2>2. blocked_threads \in Seq(Threads) /\ IsInjective(blocked_threads)
    BY DEF IInv, Types, QueueInv
  <2>3. Len(blocked_threads) > 0
    BY <1>1, <1>3 DEF IInv, Types, RuleOfThumb
  <2>4. Head(blocked_threads) \in Range(blocked_threads) /\ Dequeued(Head(blocked_threads))
    BY <2>1, <2>2, <2>3, TailFacts DEF Dequeued
  <2>5. Signalled(Head(blocked_threads))
    BY <1>1, <2>1 DEF Signalled
  <2> QED
    BY <2>4, <2>5, ReleaseOne
<1> QED
  BY <1>2, <1>3

(* What semaphore_signal_all and semaphore_destroy share: by the rule of   *)
(* thumb their loop takes everybody off the queue.                         *)
LEMMA LoopReleasesAll ==
  ASSUME IInv, active, NEW k, k = IF count < 0 THEN -count ELSE 0
  PROVE  /\ SubSeq(blocked_threads, k + 1, Len(blocked_threads)) = <<>>
         /\ Range(SubSeq(blocked_threads, 1, k)) = Range(blocked_threads)
<1>1. blocked_threads \in Seq(Threads) /\ k = Len(blocked_threads)
  BY DEF IInv, Types, RuleOfThumb
<1> QED
  BY <1>1, AllOff, Zenon

(* Nobody is queued or sleeps afterwards.                                  *)
LEMMA ReleaseAll ==
  ASSUME IInv, NEW why \in Codes, blocked_threads' = <<>>,
         Complete(Range(blocked_threads), why), pc' = pc
  PROVE  QueueInv' /\ WaitInv' /\ InFlight' = InFlight \cup Range(blocked_threads)
<1> USE DEF IInv
<1>1. Range(<<>>) = {} /\ IsInjective(<<>>)
  BY DEF Range, IsInjective
<1>2. \A t \in Threads : t \in Range(blocked_threads) <=>
        pc[t] \in {"blocked", "aborting"} /\ linked[t]
  BY DEF QueueInv, Queue
<1>3. Range(blocked_threads) \subseteq Threads
  BY DEF Types, Range
<1>4. \A t \in Threads :
        /\ linked'[t] <=> linked[t] /\ t \notin Range(blocked_threads)
        /\ waiting'[t] <=> waiting[t] /\ t \notin Range(blocked_threads)
  BY Zenon DEF Complete
<1>5. QueueInv'
  BY <1>1, <1>2, <1>4 DEF QueueInv, Queue
<1>6. WaitInv'
  BY <1>2, <1>4 DEF WaitInv
<1>7. InFlight' = InFlight \cup Range(blocked_threads)
  BY <1>2, <1>3, <1>4 DEF InFlight
<1> QED
  BY <1>5, <1>6, <1>7

(* semaphore_signal_all keeps the invariant.                               *)
LEMMA SignalAllStep ==
  ASSUME IInv, SignalAll
  PROVE  IInv'
<1> DEFINE k == IF count < 0 THEN -count ELSE 0
           q == blocked_threads
<1>1. /\ active /\ count' = 0 /\ tokens' = tokens - count
      /\ blocked_threads' = SubSeq(q, k + 1, Len(q))
      /\ Complete(Range(SubSeq(q, 1, k)), "success")
      /\ UNCHANGED <<active, pc, result, taken>>
  BY DEF SignalAll
<1>2. blocked_threads' = <<>> /\ Complete(Range(q), "success")
  BY <1>1, LoopReleasesAll
<1>3. QueueInv' /\ WaitInv' /\ InFlight' = InFlight \cup Range(q)
  <2>1. "success" \in Codes
    BY DEF Codes
  <2> QED
    BY <1>1, <1>2, <2>1, ReleaseAll
<1>4. Len(q) = k /\ count \in Int /\ tokens \in Nat /\ taken \in Nat
  BY <1>1 DEF IInv, Types, RuleOfThumb
<1>5. Len(blocked_threads') = 0 /\ blocked_threads' \in Seq(Threads)
  BY <1>2
<1>6. Cardinality(InFlight') = Cardinality(InFlight) + Len(q)
  <2>1. q \in Seq(Threads) /\ IsInjective(q)
    BY DEF IInv, Types, QueueInv
  <2>2. IsFiniteSet(Range(q)) /\ Cardinality(Range(q)) = Len(q)
    BY <2>1, QueueLength
  <2>3. InFlight \cap Range(q) = {}
    BY DEF IInv, QueueInv, Queue, InFlight
  <2>4. Cardinality(InFlight \cap Range(q)) = 0
    BY <2>3, FS_EmptySet
  <2>5. Cardinality(InFlight \cup Range(q)) =
          Cardinality(InFlight) + Cardinality(Range(q)) - Cardinality(InFlight \cap Range(q))
    BY <2>2, InFlightFinite, FS_Union
  <2> QED
    BY <1>3, <1>4, <2>2, <2>4, <2>5, InFlightFinite
<1>7. tokens = taken + Cardinality(InFlight) + count + Len(q)
  BY <1>1 DEF IInv, TokensConserved
<1>8. tokens' \in Nat /\ tokens' = taken + Cardinality(InFlight) + Len(q)
  <2>1. Len(q) \in Nat /\ tokens' = tokens - count
    BY <1>1 DEF IInv, Types
  <2> HIDE DEF q
  <2>2. tokens' = taken + Cardinality(InFlight) + Len(q)
    BY <1>4, <1>7, <2>1, InFlightFinite
  <2> QED
    BY <1>4, <2>1, <2>2, InFlightFinite
<1>9. TokensConserved'
  BY <1>1, <1>4, <1>5, <1>6, <1>8, InFlightFinite DEF TokensConserved
<1>10. RuleOfThumb' /\ DestroyedInv'
  BY <1>1, <1>5 DEF RuleOfThumb, DestroyedInv
<1>11. Types'
  BY <1>1, <1>2, <1>5, <1>8 DEF IInv, Types, Complete, Codes
<1> QED
  BY <1>3, <1>9, <1>10, <1>11 DEF IInv

(* semaphore_destroy keeps the invariant.                                  *)
LEMMA DestroyStep ==
  ASSUME IInv, Destroy
  PROVE  IInv'
<1> DEFINE k == IF count < 0 THEN -count ELSE 0
           q == blocked_threads
<1>1. /\ active /\ active' = FALSE /\ count' = IF count < 0 THEN 1 ELSE count
      /\ blocked_threads' = SubSeq(q, k + 1, Len(q))
      /\ Complete(Range(SubSeq(q, 1, k)), "semaphore_destroyed")
      /\ UNCHANGED <<pc, result, tokens, taken>>
  BY DEF Destroy
<1>2. blocked_threads' = <<>> /\ Complete(Range(q), "semaphore_destroyed")
  BY <1>1, LoopReleasesAll
<1>3. QueueInv' /\ WaitInv'
  <2>1. "semaphore_destroyed" \in Codes
    BY DEF Codes
  <2> QED
    BY <1>1, <1>2, <2>1, ReleaseAll
<1>4. count' \in Int /\ count' >= 0
  BY <1>1 DEF IInv, Types
<1>5. RuleOfThumb' /\ DestroyedInv' /\ TokensConserved'
  BY <1>1, <1>2, <1>4 DEF RuleOfThumb, DestroyedInv, TokensConserved
<1>6. Types'
  <2>1. linked' \in [Threads -> BOOLEAN] /\ waiting' \in [Threads -> BOOLEAN]
    BY <1>2, Zenon DEF Complete
  <2>2. wait_result' \in [Threads -> Codes]
    BY <1>2 DEF IInv, Types, Complete, Codes
  <2>3. blocked_threads' \in Seq(Threads)
    BY <1>2
  <2>4. active' \in BOOLEAN /\ UNCHANGED <<pc, result, tokens, taken>>
    BY <1>1, Zenon
  <2> QED
    BY <1>4, <2>1, <2>2, <2>3, <2>4 DEF IInv, Types
<1> QED
  BY <1>3, <1>5, <1>6 DEF IInv

(* A timeout or an abort only ends the sleep, and a wait on a destroyed    *)
(* semaphore only returns.                                                 *)
LEMMA QuietStep ==
  ASSUME IInv, NEW t \in Threads,
         \/ WaitTerminated(t)
         \/ \E why \in {"timed_out", "interrupted"} : GiveUp(t, why)
         \/ UNCHANGED vars
  PROVE  IInv'
<1>1. UNCHANGED <<count, active, blocked_threads, linked, tokens, taken, pc>>
  BY DEF IInv, Types, WaitTerminated, Return, GiveUp, vars
<1>2. /\ waiting' \in [Threads -> BOOLEAN]
      /\ \A u \in Threads : waiting'[u] => waiting[u]
  BY Zenon DEF IInv, Types, WaitTerminated, GiveUp, vars
<1>3. wait_result' \in [Threads -> Codes]
  BY DEF IInv, Types, WaitTerminated, GiveUp, vars, Codes
<1>4. result' \in [Threads -> Codes]
  BY DEF IInv, Types, WaitTerminated, Return, GiveUp, vars, Codes
<1>5. Types' /\ WaitInv'
  BY <1>1, <1>2, <1>3, <1>4 DEF IInv, Types, WaitInv
<1>6. RuleOfThumb' /\ QueueInv' /\ DestroyedInv' /\ TokensConserved'
  BY <1>1 DEF IInv, RuleOfThumb, QueueInv, Queue, DestroyedInv, TokensConserved, InFlight
<1> QED
  BY <1>5, <1>6 DEF IInv

(* So does a step of something else.                                       *)
LEMMA StutterStep == IInv /\ UNCHANGED vars => IInv'
BY DEF IInv, Types, RuleOfThumb, QueueInv, Queue, WaitInv, DestroyedInv, TokensConserved,
       InFlight, vars

(* The inductive invariant holds in every state of the semaphore.          *)
THEOREM Invariance == Spec => []IInv
<1>1. IInv /\ [Next]_vars => IInv'
  <2> SUFFICES ASSUME IInv, [Next]_vars PROVE IInv'
    OBVIOUS
  <2>1. ASSUME NEW t \in Threads, Wait(t) PROVE IInv'
    BY <2>1, WaitStep
  <2>2. ASSUME NEW t \in Threads, Resume(t) PROVE IInv'
    BY <2>2, ResumeStep
  <2>3. ASSUME NEW t \in Threads, Aborted(t) PROVE IInv'
    BY <2>3, AbortedStep
  <2>4. ASSUME NEW t \in Threads, SignalThread(t) PROVE IInv'
    BY <2>4, SignalThreadStep
  <2>5. ASSUME NEW t \in Threads,
               WaitTerminated(t) \/ \E why \in {"timed_out", "interrupted"} : GiveUp(t, why)
        PROVE  IInv'
    BY <2>5, QuietStep
  <2>6. CASE Signal
    BY <2>6, SignalStep
  <2>7. CASE SignalAll
    BY <2>7, SignalAllStep
  <2>8. CASE Destroy
    BY <2>8, DestroyStep
  <2>9. CASE UNCHANGED vars
    BY <2>9, StutterStep
  <2> QED
    BY <2>1, <2>2, <2>3, <2>4, <2>5, <2>6, <2>7, <2>8, <2>9 DEF Next
<1> QED
  BY <1>1, InitIInv, PTL DEF Spec

(* The rule of thumb of sync_sema.c: the count of an active semaphore      *)
(* tells how many threads are queued, so semaphore_signal and the loops of *)
(* semaphore_signal_all and semaphore_destroy always find their thread.    *)
THEOREM CountTellsQueue == Spec => []RuleOfThumb
BY Invariance, PTL DEF IInv

(* No token is lost or used twice, whatever times out or is aborted.       *)
THEOREM NoTokenLost == Spec => []TokensConserved
BY Invariance, PTL DEF IInv

(* A thread that sleeps in semaphore_wait_common is on the queue, once.    *)
THEOREM SleepersAreQueued == Spec => []SleepersQueued
<1>1. IInv => SleepersQueued
  BY DEF IInv, WaitInv, QueueInv, Queue, SleepersQueued, IsInjective
<1> QED
  BY <1>1, Invariance, PTL

(* The count never falls below minus the number of threads, and the queue  *)
(* never holds more than all of them.                                      *)
THEOREM TypeCorrect == Spec => []TypeOK
<1>1. IInv => TypeOK
  <2> SUFFICES ASSUME IInv PROVE TypeOK
    OBVIOUS
  <2>1. Len(blocked_threads) <= Cardinality(Threads) /\ Len(blocked_threads) \in Nat
    BY QueueLength DEF IInv, Types, QueueInv
  <2>2. Cardinality(Threads) \in Nat
    BY ThreadsFinite, FS_CardinalityType
  <2>3. count >= -Cardinality(Threads)
    BY <2>1, <2>2 DEF IInv, Types, RuleOfThumb, DestroyedInv
  <2> QED
    BY <2>1, <2>3 DEF IInv, Types, TypeOK
<1> QED
  BY <1>1, Invariance, PTL

(* No step puts the queue out of order.                                    *)
Ordered(q) == FixedPriority => InOrder(q)

(* Threads are queued by sync_policy_enqueue and leave by the head, or     *)
(* from where they are: what stays is in the order it was.                 *)
LEMMA OrderKept ==
  ASSUME IInv, Ordered(blocked_threads), [Next]_vars
  PROVE  Ordered(blocked_threads')
<1> DEFINE q == blocked_threads
<1>1. q \in Seq(Threads) /\ IsInjective(q)
  BY DEF IInv, Types, QueueInv
<1>2. ASSUME NEW t \in Threads, Wait(t) PROVE Ordered(q')
  <2>1. q' = q \/ q' = PolicyEnqueue(q, t)
    BY <1>2 DEF Wait
  <2>2. t \notin Range(q)
    BY <1>2 DEF IInv, QueueInv, Queue, Wait
  <2>3. FixedPriority /\ InOrder(q) => InOrder(PolicyEnqueue(q, t))
    BY <1>1, <2>2, PolicyEnqueueFacts, Zenon
  <2> QED
    BY <2>1, <2>3, Zenon DEF Ordered
<1>3. ASSUME NEW t \in Range(q), q' = QueueRemove(q, t) PROVE Ordered(q')
  <2>1. q' \in Seq(Threads) /\ Len(q') = Len(q) - 1 /\ \E i \in 1 .. Len(q) : Removed(q', q, i)
    BY <1>1, <1>3, QueueRemoveFacts, Zenon
  <2> QED
    BY <1>1, <2>1, RemovedInOrder, Zenon DEF Ordered
<1>4. ASSUME q' = <<>> PROVE Ordered(q')
  BY <1>4 DEF Ordered, InOrder
<1>5. ASSUME NEW t \in Threads, Aborted(t) PROVE Ordered(q')
  <2>1. q' = q \/ (t \in Range(q) /\ q' = QueueRemove(q, t))
    BY <1>5 DEF Aborted
  <2> QED
    BY <1>3, <2>1, Zenon
<1>6. ASSUME NEW t \in Threads, SignalThread(t) PROVE Ordered(q')
  BY <1>3, <1>6, Zenon DEF SignalThread
<1>7. ASSUME Signal PROVE Ordered(q')
  <2>1. q' = q \/ (count < 0 /\ active /\ q' = Tail(q))
    BY <1>7 DEF Signal, IInv, Types
  <2>2. CASE count < 0 /\ active /\ q' = Tail(q)
    <3>1. Len(q) > 0
      BY <2>2 DEF IInv, Types, RuleOfThumb
    <3>2. q' \in Seq(Threads) /\ Len(q') = Len(q) - 1 /\ Removed(q', q, 1)
      BY <1>1, <2>2, <3>1, TailFacts, Zenon
    <3>3. 1 \in 1 .. Len(q)
      BY <1>1, <3>1
    <3> QED
      BY <1>1, <3>2, <3>3, RemovedInOrder, Zenon DEF Ordered
  <2> QED
    BY <2>1, <2>2, Zenon
<1>8. ASSUME SignalAll \/ Destroy PROVE Ordered(q')
  <2> DEFINE k == IF count < 0 THEN -count ELSE 0
  <2>1. active /\ q' = SubSeq(q, k + 1, Len(q))
    BY <1>8 DEF SignalAll, Destroy
  <2>2. q' = <<>>
    BY <2>1, LoopReleasesAll
  <2> QED
    BY <1>4, <2>2
<1>9. ASSUME NEW t \in Threads, \/ Resume(t) \/ WaitTerminated(t)
                                \/ \E why \in {"timed_out", "interrupted"} : GiveUp(t, why)
      PROVE  q' = q
  BY <1>9 DEF Resume, WaitTerminated, GiveUp
<1>10. ASSUME UNCHANGED vars PROVE q' = q
  BY <1>10 DEF vars
<1> QED
  BY <1>2, <1>5, <1>6, <1>7, <1>8, <1>9, <1>10, Zenon DEF Next

(* Under SYNC_POLICY_FIXED_PRIORITY the threads are queued in the order of *)
(* urgency, so that semaphore_signal wakes a most urgent one: threads that *)
(* time out, are aborted or are signalled by name leave the others in      *)
(* their order.                                                            *)
THEOREM MostUrgentFirst == Spec => []UrgentFirst
<1> DEFINE O == Ordered(blocked_threads)
<1>1. Init => O
  BY DEF Init, Ordered, InOrder
<1>2. IInv /\ O /\ [Next]_vars => O'
  BY OrderKept
<1>3. IInv /\ O => UrgentFirst
  <2>1. IInv => DOMAIN blocked_threads = 1 .. Len(blocked_threads)
    BY DEF IInv, Types
  <2> QED
    BY <2>1, Zenon DEF Ordered, InOrder, UrgentFirst
<1> HIDE DEF O
<1> QED
  BY <1>1, <1>2, <1>3, Invariance, PTL DEF Spec
=============================================================================
