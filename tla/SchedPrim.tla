----------------------------- MODULE SchedPrim ------------------------------
(***************************************************************************)
(* Waiting, waking, timing out, aborting and stopping threads:             *)
(* kern/sched_prim.c from assert_wait to thread_dispatch, with the thread  *)
(* timers of kern/mach_clock.c.                                            *)
(*                                                                         *)
(* A step is one critical section of the thread, bucket or wake lock.  The *)
(* routines that drop a lock half way (clear_wait_locked, thread_wakeup_-  *)
(* prim, thread_timeout, thread_dispatch) are several steps of a context:  *)
(* a processor in the middle of the routine.  Every processor may run any  *)
(* runnable thread, so which thread thread_select finds is left open.      *)
(***************************************************************************)
EXTENDS Queues

CONSTANTS
  Sleepers,             \* threads that wait for events
  Controllers,          \* threads that call thread_stop_wait and thread_unstop
  Events,               \* events, each with a bucket of its own
  Contexts, Softclock,  \* other processors, and the timeout thread
  None, Waking,         \* NO_EVENT (and THREAD_NULL), WAKING_EVENT
  Casts,                \* who takes part and what happens to them, see cast
  MaxRefs               \* bound: references on a thread held by timeouts

ASSUME CastsTyped ==
  /\ Casts \subseteq [threads : SUBSET (Sleepers \union Controllers), contexts : SUBSET Contexts,
                     ipcWaits : BOOLEAN, unintWaits : BOOLEAN,
                     timed : SUBSET Sleepers, abortable : SUBSET (Sleepers \union Controllers)]
  /\ MaxRefs \in Nat
ASSUME Distinct ==
  /\ Sleepers \intersect (Controllers \union Events) = {} /\ None # Waking
  /\ {None, Waking} \intersect (Sleepers \union Controllers \union Events) = {}
  /\ Contexts \intersect (Sleepers \union Controllers) = {}
  /\ Softclock \notin Sleepers \union Controllers \union Contexts

Threads == Sleepers \union Controllers
Buckets == Events \union Sleepers       \* a thread stands for &thread->wake_active
Slots == Threads \union Contexts \union {Softclock}

VARIABLES
  th, bucket, ctx,      \* the threads, the wait queues, the routines under way
  cast                  \* the threads and processors there are; whether threads also use
                        \* thread_will_wait and thread_go (ipcWaits), or assert_wait with
                        \* interruptible = FALSE (unintWaits); whose waits have timeouts;
                        \* who is aborted
vars == <<th, bucket, ctx, cast>>

State == [th |-> th, bucket |-> bucket, ctx |-> ctx]
Become(S) == th' = S.th /\ bucket' = S.bucket /\ ctx' = S.ctx

NewThread ==            \* a thread that runs; place says where it is
  [run |-> TRUE, wait |-> FALSE, unint |-> FALSE, susp |-> FALSE, abort |-> FALSE,
   event |-> None, result |-> "awakened", wake_active |-> FALSE, timer |-> "unset",
   refs |-> 0, place |-> "cpu", pc |-> "run", target |-> None, phase |-> "stop"]
Idle == [op |-> "idle", thread |-> None, event |-> None, result |-> "awakened", queue |-> <<>>]

Init ==
  /\ th = [t \in Threads |-> NewThread]
  /\ bucket = [e \in Buckets |-> <<>>]          \* wait_queue_init
  /\ ctx = [c \in Slots |-> Idle]
  /\ cast \in Casts

-----------------------------------------------------------------------------
(* Put on a run queue; a thread that runs already must never be.           *)
Setrun(r) == [r EXCEPT !.run = TRUE, !.place = IF @ = "off" THEN "runq" ELSE "twice"]

SetTimer_NoRef(r) ==
  IF r.timer = "set" THEN [r EXCEPT !.pc = "panic"] ELSE [r EXCEPT !.timer = "set"]
SetTimer(r) ==          \* set_timeout
  IF r.timer = "set" THEN [r EXCEPT !.pc = "panic"]
  ELSE [r EXCEPT !.timer = "set", !.refs = @ + 1]

ResetTimer(r) ==        \* reset_timeout_check
  [r EXCEPT !.timer = "unset", !.refs = IF r.timer = "set" THEN @ - 1 ELSE @]

Awaken_NoRunTest(r, result) ==
  LET r1 == [r EXCEPT !.wait = FALSE, !.result = result]
  IN IF r.susp /\ ~r.unint THEN r1 ELSE Setrun(r1)

(* The switch on the state bits in clear_wait_locked and                   *)
(* thread_wakeup_prim, for a thread that waits.                            *)
Awaken(r, result) ==
  LET r1 == [r EXCEPT !.wait = FALSE, !.result = result]
  IN IF r.run \/ (r.susp /\ ~r.unint) THEN r1 ELSE Setrun(r1)

(* The thread that called clear_wait goes on; softclock has thread_timeout *)
(* to finish.                                                              *)
Cleared(S, c, t) ==
  [S EXCEPT !.ctx[c] = IF c = Softclock THEN [Idle EXCEPT !.op = "dealloc", !.thread = t]
                                        ELSE Idle]

ClearBits(r, result) ==
  LET r1 == ResetTimer(r) IN IF r1.wait THEN Awaken(r1, result) ELSE r1

(* clear_wait_locked up to the point where it has to drop the thread lock  *)
(* to lock the bucket.                                                     *)
ClearWait(S, c, t, result, interrupt_only) ==
  LET r == S.th[t]
  IN IF (interrupt_only /\ r.unint) \/ r.event = Waking THEN Cleared(S, c, t)
     ELSE IF r.event = None THEN Cleared([S EXCEPT !.th[t] = ClearBits(@, result)], c, t)
     ELSE [S EXCEPT !.ctx[c] = [Idle EXCEPT !.op = "clear", !.thread = t, !.event = r.event,
                                            !.result = result]]

ClearLocked_NoRecheck(c) ==
  LET t == ctx[c].thread
      e == ctx[c].event
      off == [State EXCEPT !.bucket[e] = SelectSeq(@, LAMBDA u : u # t),
                           !.th[t] = ClearBits([@ EXCEPT !.event = None], ctx[c].result)]
  IN ctx[c].op = "clear" /\ Become(Cleared(off, c, t))

ClearLocked(c) ==       \* the rest of clear_wait_locked
  LET t == ctx[c].thread
      e == ctx[c].event
      r == [th[t] EXCEPT !.event = None]
      off == [State EXCEPT !.bucket[e] = QueueRemove(@, t),
                           !.th[t] = ClearBits(r, ctx[c].result)]
  IN /\ ctx[c].op = "clear"
     /\ Become(Cleared(IF th[t].event = e THEN off ELSE State, c, t))

(* thread_wakeup_prim: mark the threads of the bucket, then wake each.     *)
Scan(S, c, e, one_thread) ==
  LET q == S.bucket[e]
      k == IF one_thread /\ q # <<>> THEN 1 ELSE Len(q)
      woken == SubSeq(q, 1, k)
  IN [S EXCEPT
       !.bucket[e] = SubSeq(q, k + 1, Len(q)),
       !.th = [t \in Threads |-> IF t \in Range(woken) THEN [S.th[t] EXCEPT !.event = Waking]
                                                     ELSE S.th[t]],
       !.ctx[c] = IF woken = <<>> THEN Idle ELSE [Idle EXCEPT !.op = "waking", !.queue = woken]]

Wakeup(c, e, one_thread) ==
  /\ ctx[c].op = "idle" /\ bucket[e] # <<>>
  /\ Become(Scan(State, c, e, one_thread))

WakeupCalled(c) ==      \* thread_wakeup(&thread->wake_active)
  /\ ctx[c].op = "wakeup"
  /\ Become(Scan(State, c, ctx[c].event, FALSE))


WakeNext(c) ==
  LET t == Head(ctx[c].queue)
      r == ResetTimer(th[t])
      rest == Tail(ctx[c].queue)
  IN /\ ctx[c].op = "waking"
     /\ th' = [th EXCEPT ![t] = IF r.wait THEN [Awaken(r, "awakened") EXCEPT !.event = None]
                                          ELSE [r EXCEPT !.pc = "panic"]]
     /\ ctx' = [ctx EXCEPT ![c] = IF rest = <<>> THEN Idle ELSE [@ EXCEPT !.queue = rest]]
     /\ UNCHANGED bucket

(* thread_go, for a thread in an IPC wait.  The code tests only TH_WAIT:   *)
(* that the thread waits for no event is an assumption on the callers.     *)
ThreadGo(t) ==
  LET r == ResetTimer(th[t])
      r1 == [r EXCEPT !.wait = FALSE, !.result = "awakened"]
  IN /\ cast.ipcWaits /\ th[t].wait /\ th[t].event = None
     /\ th' = [th EXCEPT ![t] = IF r.run THEN r1 ELSE Setrun(r1)]
     /\ UNCHANGED <<bucket, ctx>>

-----------------------------------------------------------------------------
(* Timeouts: softclock takes an expired timer off the queue, unlocks, and  *)
(* calls thread_timeout.                                                   *)
Fire(t) ==
  /\ ctx[Softclock].op = "idle" /\ th[t].timer = "set"
  /\ th' = [th EXCEPT ![t].timer = "pending"]
  /\ ctx' = [ctx EXCEPT ![Softclock] = [Idle EXCEPT !.op = "fired", !.thread = t]]
  /\ UNCHANGED bucket

ThreadTimeout ==
  LET t == ctx[Softclock].thread
  IN /\ ctx[Softclock].op = "fired"
     /\ Become(IF th[t].timer = "pending"
                 THEN ClearWait([State EXCEPT !.th[t].timer = "unset"], Softclock, t,
                                "timed_out", FALSE)
                 ELSE [State EXCEPT !.ctx[Softclock] = Idle])

ThreadDeallocate ==     \* the reference that set_timeout took
  /\ ctx[Softclock].op = "dealloc"
  /\ th' = [th EXCEPT ![ctx[Softclock].thread].refs = @ - 1]
  /\ ctx' = [ctx EXCEPT ![Softclock] = Idle]
  /\ UNCHANGED bucket

(* act_abort sets TH_ABORT, and looks at TH_WAIT after the unlock.         *)
Abort(c, t) ==
  /\ t \in cast.abortable /\ ctx[c].op = "idle"
  /\ th' = [th EXCEPT ![t].abort = TRUE]
  /\ ctx' = [ctx EXCEPT ![c] = [Idle EXCEPT !.op = "abort", !.thread = t]]
  /\ UNCHANGED bucket

AbortClear(c) ==
  LET t == ctx[c].thread
  IN /\ ctx[c].op = "abort"
     /\ Become(IF th[t].wait THEN ClearWait(State, c, t, "interrupted", TRUE)
                             ELSE [State EXCEPT !.ctx[c] = Idle])

AbortHandled(t) ==      \* special_handler, on the way out of the kernel
  /\ th[t].pc = "run" /\ th[t].abort
  /\ th' = [th EXCEPT ![t].abort = FALSE]
  /\ UNCHANGED <<bucket, ctx>>

-----------------------------------------------------------------------------
(* What a thread does itself.                                              *)
Runs(t, pc) == th[t].place = "cpu" /\ th[t].pc = pc /\ ctx[t].op = "idle"

(* __assert_wait                                                           *)
Asserted(S, t, e, interruptible, first) ==
  LET r == S.th[t]
      waits == [r EXCEPT !.wait = TRUE, !.unint = @ \/ ~interruptible, !.pc = "asserted"]
  IN IF r.event # None THEN [S EXCEPT !.th[t].pc = "panic"]
     ELSE IF e = None THEN [S EXCEPT !.th[t] = waits]
     ELSE [S EXCEPT !.th[t] = [waits EXCEPT !.event = e],
                    !.bucket[e] = IF first THEN <<t>> \o @ ELSE Append(@, t)]

AssertWait(t, e, interruptible, first) ==
  /\ Runs(t, "run")
  /\ Become(Asserted(State, t, e, interruptible, first))

(* thread_will_wait, thread_will_wait_with_timeout                         *)
WillWait(t, timed) ==
  LET r == [th[t] EXCEPT !.wait = TRUE, !.pc = "timed"]
  IN /\ Runs(t, "run") /\ cast.ipcWaits
     /\ timed => t \in cast.timed /\ th[t].refs < MaxRefs
     /\ th' = [th EXCEPT ![t] = IF timed THEN SetTimer(r) ELSE r]
     /\ UNCHANGED <<bucket, ctx>>

ThreadSetTimeout(t) ==
  /\ Runs(t, "asserted") /\ t \in cast.timed /\ th[t].refs < MaxRefs
  /\ th' = [th EXCEPT ![t] = LET r == [@ EXCEPT !.pc = "timed"]
                             IN IF r.wait THEN SetTimer(r) ELSE r]
  /\ UNCHANGED <<bucket, ctx>>

Block_NoAbortTest(t) ==
  /\ Runs(t, "asserted") \/ Runs(t, "timed")
  /\ Become([State EXCEPT !.th[t].pc = "select"])

(* thread_block_reason: look at TH_ABORT, then thread_select.              *)
Block(t) ==
  LET S == [State EXCEPT !.th[t].pc = "select"]
  IN /\ Runs(t, "asserted") \/ Runs(t, "timed")
     /\ Become(IF th[t].abort THEN ClearWait(S, t, t, "interrupted", TRUE) ELSE S)

(* Where a thread goes on when thread_block returns; a controller looks at *)
(* its wait_result.                                                        *)
Returns(t) ==
  IF t \in Sleepers THEN "run"
  ELSE IF th[t].result = "awakened" THEN th[t].phase
  ELSE IF th[t].phase = "stop" THEN "run" ELSE "unstop"

Stay(t) ==              \* state == TH_RUN: the thread may be selected again
  /\ Runs(t, "select")
  /\ th[t].run /\ ~th[t].wait /\ ~th[t].unint /\ ~th[t].susp /\ ~th[t].abort
  /\ th' = [th EXCEPT ![t].pc = Returns(t)]
  /\ UNCHANGED <<bucket, ctx>>

Switch(t) ==            \* thread_invoke: switch_context away from t
  /\ Runs(t, "select")
  /\ th' = [th EXCEPT ![t].pc = "blocked", ![t].place = "switch"]
  /\ UNCHANGED <<bucket, ctx>>

Dispatch_NoWakeup(c, t) ==
  LET r == th[t]
  IN /\ r.place = "switch" /\ ctx[c].op = "idle"
     /\ th' = [th EXCEPT ![t] = IF r.wait THEN [r EXCEPT !.run = FALSE, !.place = "off"]
                                          ELSE [r EXCEPT !.place = "runq"]]
     /\ UNCHANGED <<bucket, ctx>>

(* thread_dispatch of t, by the thread that runs next on its processor.    *)
Dispatch(c, t) ==
  LET r == th[t]
      off == [r EXCEPT !.run = FALSE, !.place = "off", !.wake_active = FALSE]
  IN /\ r.place = "switch" /\ ctx[c].op = "idle"
     /\ th' = [th EXCEPT ![t] = CASE r.wait /\ (r.run \/ ~r.unint) -> off
                                  [] r.run /\ ~r.wait -> [r EXCEPT !.place = "runq"]
                                  [] OTHER -> [r EXCEPT !.pc = "panic"]]
     /\ ctx' = IF r.wait /\ r.wake_active
                 THEN [ctx EXCEPT ![c] = [Idle EXCEPT !.op = "wakeup", !.event = t]]
                 ELSE ctx
     /\ UNCHANGED bucket

Pick(t) ==              \* choose_thread, thread_invoke
  /\ th[t].place = "runq"
  /\ th' = [th EXCEPT ![t] = [@ EXCEPT !.place = "cpu", !.unint = FALSE, !.pc = Returns(t)]]
  /\ UNCHANGED <<bucket, ctx>>

-----------------------------------------------------------------------------
(* thread_stop_wait and thread_unstop, by controller c.                    *)
StopWait(c, t) ==
  /\ Runs(c, "run")
  /\ th' = [th EXCEPT ![c].pc = "stop", ![c].target = t]
  /\ UNCHANGED <<bucket, ctx>>

(* Wait for thread_unstop or thread_dispatch of t.                         *)
WaitFor(c, t, phase) ==
  Asserted([State EXCEPT !.th[t].wake_active = TRUE, !.th[c].phase = phase], c, t, TRUE, FALSE)

ThreadStop_NoTest(c) ==
  LET t == th[c].target
  IN /\ Runs(c, "stop")
     /\ Become([State EXCEPT !.th[t].susp = TRUE, !.th[c].pc = "wait"])

ThreadStop(c) ==
  LET t == th[c].target
  IN /\ Runs(c, "stop")
     /\ Become(IF th[t].susp THEN WaitFor(c, t, "stop")
               ELSE [State EXCEPT !.th[t].susp = TRUE, !.th[c].pc = "wait"])

ThreadWait(c) ==
  LET t == th[c].target
  IN /\ Runs(c, "wait")
     /\ Become(IF th[t].run THEN WaitFor(c, t, "wait")
               ELSE [State EXCEPT !.th[c].pc = "holding"])

ThreadUnstop(c) ==
  LET t == th[c].target
      r == th[t]
      S == [State EXCEPT !.th[t].susp = FALSE, !.th[c].pc = "run", !.th[c].target = None]
  IN /\ Runs(c, "holding") \/ Runs(c, "unstop")
     /\ Become(IF r.susp /\ ~r.run /\ ~r.wait THEN [S EXCEPT !.th[t] = Setrun(@)]
               ELSE IF r.susp /\ r.wake_active
                 THEN [S EXCEPT !.th[t].wake_active = FALSE,
                                !.ctx[c] = [Idle EXCEPT !.op = "wakeup", !.event = t]]
               ELSE S)

-----------------------------------------------------------------------------
Step ==
  \/ \E t \in Sleepers \intersect cast.threads :
       \/ \E e \in Events \union {None}, i, f \in BOOLEAN :
            (i \/ cast.unintWaits) /\ (e # None \/ cast.ipcWaits) /\ AssertWait(t, e, i, f)
       \/ ThreadSetTimeout(t) \/ \E timed \in BOOLEAN : WillWait(t, timed)
  \/ \E t \in cast.threads : \/ Block(t) \/ Stay(t) \/ Switch(t) \/ Pick(t)
                             \/ Fire(t) \/ ThreadGo(t) \/ AbortHandled(t)
  \/ \E c \in cast.contexts : \/ \E e \in Events, one \in BOOLEAN : Wakeup(c, e, one)
                              \/ \E t \in cast.threads : Abort(c, t) \/ Dispatch(c, t)
                              \/ AbortClear(c)
  \/ \E c \in Slots : ClearLocked(c) \/ WakeupCalled(c) \/ WakeNext(c)
  \/ ThreadTimeout \/ ThreadDeallocate
  \/ \E c \in Controllers \intersect cast.threads :
       \/ \E t \in Sleepers \intersect cast.threads : StopWait(c, t)
       \/ ThreadStop(c) \/ ThreadWait(c) \/ ThreadUnstop(c)

Next == Step /\ UNCHANGED cast

Spec == Init /\ [][Next]_vars

-----------------------------------------------------------------------------
(* The wait queues say what wait_event says: a thread with an event waits  *)
(* and is in that bucket, once; one that is marked WAKING_EVENT waits and  *)
(* is in the hands of exactly one waker, once: as long as thread_go is     *)
(* called for IPC waits only.                                              *)
QueuesAgree ==
  /\ \A e \in Buckets :
       /\ Range(bucket[e]) = {t \in Threads : th[t].event = e}
       /\ IsInjective(bucket[e])
  /\ \A t \in Threads :
       /\ th[t].event # None => th[t].wait
       /\ {c \in Slots : t \in Range(ctx[c].queue)}
            \in IF th[t].event = Waking THEN {{c} : c \in Slots} ELSE {{}}
  /\ \A c \in Slots : IsInjective(ctx[c].queue)

(* TH_RUN means on a processor or on a run queue, and on one of them only  *)
(* (thread_setrun asserts that the thread is on no run queue), and a       *)
(* thread that neither waits nor is stopped has it: whoever ends a wait,   *)
(* and whatever wait the thread was in, it does get to run.  The panics of *)
(* assert_wait ("already asserted event"), thread_wakeup_prim              *)
(* ("thread_wakeup") and thread_dispatch ("State"), and the assertion of   *)
(* set_timeout, do not happen: as long as thread_go is called for IPC      *)
(* waits only.                                                             *)
RunsOnce ==
  \A t \in Threads :
    /\ th[t].place # "twice" /\ (th[t].run <=> th[t].place # "off")
    /\ ~th[t].wait /\ ~th[t].susp => th[t].run
    /\ th[t].pc # "panic"

(* A timer ends with the wait it was set for: no later wait inherits it.   *)
(* And while a timeout is on its way the thread cannot disappear: the      *)
(* reference of set_timeout lasts until thread_timeout is done.            *)
TimerHeld ==
  \A t \in Threads :
    /\ th[t].timer # "unset" => th[t].wait
    /\ th[t].timer # "unset" \/ (ctx[Softclock].op # "idle" /\ ctx[Softclock].thread = t) =>
         th[t].refs > 0

(* No abort is lost: a thread with TH_ABORT is not left asleep in an       *)
(* interruptible wait.                                                     *)
AbortSeen ==
  \A t \in Threads :
    th[t].abort /\ th[t].wait /\ ~th[t].unint /\ th[t].place = "off" =>
      \/ th[t].event = Waking
      \/ \E c \in Slots : /\ ctx[c].thread = t
                               /\ \/ ctx[c].op = "abort"
                                  \/ ctx[c].op = "clear" /\ ctx[c].event = th[t].event

(* A controller in thread_stop_wait past thread_stop, and up to            *)
(* thread_unstop, has the thread to itself.                                *)
Holds(c, t) ==
  /\ th[c].target = t
  /\ \/ th[c].pc \in {"wait", "holding", "unstop"}
     \/ th[c].pc \in {"asserted", "select", "blocked"} /\ th[c].phase = "wait"

(* thread_stop_wait gives the thread to one controller at a time.  "Once a *)
(* thread has blocked interruptibly (via assert_wait) prevent it from      *)
(* running until thread_unstop": not even its event makes it run (an       *)
(* uninterruptible wait that ends, and thread_go, do).                     *)
StopExclusive ==
  \A t \in Sleepers : \A c \in Controllers : Holds(c, t) =>
    /\ th[t].susp /\ \A d \in Controllers : Holds(d, t) => c = d
    /\ th[c].pc = "holding" /\ ~cast.unintWaits /\ ~cast.ipcWaits => ~th[t].run

(* A sleeper in thread_wait is woken when the thread stops running.        *)
Asleep(c, phase) == th[c].wait /\ th[c].event = th[c].target /\ th[c].phase = phase
WakePending(t) == \E c \in Slots : ctx[c].op = "wakeup" /\ ctx[c].event = t
WaiterWoken ==
  \A c \in Controllers : Asleep(c, "wait") =>
    LET t == th[c].target IN (th[t].run /\ th[t].wake_active) \/ WakePending(t)
=============================================================================
