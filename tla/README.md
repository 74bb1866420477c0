# Mach kernel synchronisation and IPC in TLA+

TLA+ specifications of the parts of the OSF Mach kernel
(`src/osfmk/src/mach_kernel`) on which everything else in it stands: locks,
thread waiting and waking, timeouts, semaphores, lock sets, and the message
queues, port rights and notifications of Mach IPC.  The MkLinux server
(`src/mklinux`) is a Linux kernel that runs as a Mach task on top of these interfaces.

Paths below are relative to `src/osfmk/src/mach_kernel` unless they start with
`src/`.

## The system and its parts

| part | source | state | operations | modelled in |
|---|---|---|---|---|
| complex locks | `kern/lock.c` | `want_write`, `want_upgrade`, `waiting`, `read_count` | write, read, done, upgrade, downgrade | `RWLock` |
| mutexes | `ppc/hw_lock.s`, `kern/lock.c` | interlock, lock word, `waiters` | lock, try, unlock | `Mutex` |
| message queues | `ipc/ipc_mqueue.c` | messages, waiting receivers | send, deliver, receive, move, changed | `IpcMqueue` |
| port sets | `ipc/ipc_pset.c` | membership | add, remove, move, destroy | `IpcMqueue` |
| ports | `ipc/ipc_port.c` | `ip_seqno`, `ip_msgcount`, `ip_qlimit`, `ip_blocked` | set limits, move the receive right, destroy | `IpcMqueue` |
| ports in transit | `ipc/ipc_port.c` | `ip_destination`, port locks, `ipc_port_multiple_lock` | check_circularity, destroy with a backup | `PortTransit` |
| rights | `ipc/ipc_right.c`, `ipc/ipc_port.c`, `ipc/ipc_object.c` | entries and their urefs, `ip_srights`, `ip_sorights`, `ip_mscount`, `ip_references`, requests | copyin, copyout, dealloc, delta, destroy, clean, rename, notification requests | `IpcRight` |
| waiting and waking | `kern/sched_prim.c` | thread state bits, `wait_event`, wait buckets, `wake_active` | assert_wait, thread_block, clear_wait, thread_wakeup, thread_go, thread_stop | `SchedPrim` |
| timeouts | `kern/mach_clock.c` | timer queue, `timeout_ticks`, pool of elements | timeout, untimeout, set_timeout, reset_timeout, timeout_tick, softclock | `Timeout`; their references on threads in `SchedPrim` |
| aborts | `kern/thread_act.c` | `TH_ABORT` | act_abort, special_handler | `SchedPrim` |
| semaphores | `kern/sync_sema.c`, `kern/sync_policy.c` | `count`, `active`, `blocked_threads` | create, destroy, wait, signal | `SyncSema` |
| lock sets | `kern/sync_lock.c` | owner, held list, blocked threads, `ho_thread`, hand-off list | create, destroy, acquire, try, release, handoff, handoff_accept, make_stable | `SyncLock` |
| name spaces | `ipc/ipc_entry.c`, `ipc_hash.c`, `ipc_splay.c` | tables, generations | lookup, grow | not modelled |
| zones | `kern/zalloc.c` | free lists, sizes, `doing_alloc` | zalloc, zfree, zone_gc | not modelled |
| VM objects and pages | `vm/*.c` | busy and wanted pages, `paging_in_progress` | fault, pageout, terminate | not modelled |
| XMM, DIPC, FLIPC | `xmm/`, `dipc/`, `flipc/` | node-to-node protocols | | not modelled |
| cthreads | `src/osfmk/src/mach_services/lib/libcthreads` | user-level threads | mutex, condition | not modelled |
| devices, debuggers, machine code, pagers, MkLinux | | | | not modelled: I/O, hardware, vendored code |

The parts lean on each other downwards.  IPC blocks threads with
`thread_will_wait` and starts them with `thread_go`; semaphores, complex locks
and mutexes use `assert_wait`, `thread_block`, `thread_wakeup` and `clear_wait`;
timeouts and aborts end waits of all of them.  What is hard to test here is the
window between an unlock and what follows it: a wakeup after the lock is
dropped, a thread that has timed out and is still queued, a timer that was taken
off its queue and not yet acted on.  `PROJECT.json` lists these places under
`hazards`, each with the properties that watch it.

## Modules

Steps.  Simple locks are not modelled as such: a step of a module is what the
code does while it holds them, and whatever follows an unlock is a step of its
own.  Threads are model values; message contents, wording and statistics are
left out.

**`RWLock`** (`kern/lock.c`).  The variables are the fields of `lock_t`; `pc[t]`
says whether thread `t` waits for `want_write`, for readers to drain, for a read
lock or for an upgrade, and what it holds.  `Sleep` is the spin-out,
`assert_wait` and `thread_block` of the four loops; `Wakeup` is the
`thread_wakeup` that `lock_done`, `lock_read_to_write` and `lock_write_to_read`
make after they dropped the interlock.  **`ReadersWriter`** is the abstract
specification, an atomic readers/writer lock with upgrades; `Refines` is the
refinement mapping.

**`Mutex`** (`ppc/hw_lock.s`).  One step per store that others can see: taking
the interlock, testing and setting the lock word, dropping the interlock; the C
routines `mutex_lock_wait` and `mutex_unlock_wakeup` run under the interlock.
`waiters` is kept modulo `WaitersMod` (2^16 in the code).

**`IpcMqueue`** (`ipc/ipc_mqueue.c`, `ipc_pset.c`, `ipc_port.c`, the moves of a
receive right in `ipc_right.c`).  A message is its port and a number.  `Send`
and the `Receive` actions run up to `thread_block`, `SendResume` and `RcvResume`
go on from there, `GoReceiver` is the `thread_go` of `ipc_mqueue_deliver` after
the unlock.  `build` is chosen once: it tells a multiprocessor from a single
processor, where the sender is not preempted between the unlock and `thread_go`,
and whether sends and receives may time out.  A port's `sent` and `base` are
history, for `SeqnoOrder`.  Kernel ports, DIPC, and the port-destroyed request of
`ipc_port_destroy` are left out.

**`PortTransit`** (`ipc/ipc_port.c`).  Receive rights in messages.  `destination`
is `ip_destination`, `lock` the holder of each port's lock, and `th[t]` where a
thread is inside `ipc_port_check_circularity`: the quick check, the serialized
walk that locks a chain of ports one by one, the link at its end.  Here port locks
are state, because a thread holds some of them while it waits for the next.
`Copyin`, `Copyout`, `Destroy` and `Backup` are the routines that put a port in
transit or take it out.

**`IpcRight`** (`ipc/ipc_right.c`, the naked rights of `ipc_port.c` and
`ipc_object.c`).  `entry` is what each name of each space denotes, `port` the
counts and requests of `struct ipc_port` with the naked rights (those in messages
and in the kernel's hands).  Each operation holds its space's lock and its
port's, so it is one step.  A dying port leaves the entries that name it alone;
`RightCheck` is what the next operation on such an entry finds.  `told`, `early`
and `stray` are history: the no-senders notifications this receiver got, a
request for a make-send count still to come, and the rights that
`ipc_right_delta` strands.  The room for another send-once right is bounded; the
message that carries a naked right is not there, only the right.

**`Queues`** (`kern/queue.h`, `kern/sync_policy.c`).  Queues are sequences;
`QueueRemove` takes an element of the queue off (one that is off already still has
its old links: the modules in which that can happen go to `crash`) and `InsertBefore` is the ordered insertion of
`sync_policy_enqueue` and `set_timeout`.  `SyncSema`, `SyncLock`, `SchedPrim` and
`Timeout` use it, and their proofs the lemmas on it in `Queues_proof`.

**`SyncSema`** (`kern/sync_sema.c`).  One semaphore.  `linked[t]` is
`wait_link.prev`, with which `SEMAPHORE_OPERATION_ABORTED` tells whether a signal
took the thread off the queue; `Resume` makes that test without the lock, as the
code does, and `Aborted` follows with it.  `tokens` and `taken` are history.

**`SyncLock`** (`kern/sync_lock.c`).  One lock set.  A thread is `enqueued` (or
has `offered` a hand-off) from the unlock of the ulock to `assert_wait`; it is
`offering` from the unlock of the set, with the ulock on the hand-off list, to the
store of `ho_thread`, and holds the ulock meanwhile (`Unlocked`).  A releaser is at
`wake` from the unlock to `clear_wait`.  `mp` says whether others run in between;
then these windows, not all there are, are open (`LOCK_OPERATION_COMPLETE` and
`clear_wait` stay one step, as do the test for an abort and the removal).  `crash` is
the panic of `lock_set_destroy` or a second `queue_remove` of one element.  Waiters are
queued in the order of `SYNC_POLICY_FIFO`; no property depends on the order.  `linked` is `wait_link.prev`, which the hand-off routines test for an
abort although their waits never set it: `stray` records that an abort so went
unseen and left `ho_thread` behind, after which no new call is made.

**`Timeout`** (`kern/mach_clock.c`).  `chain` is the timer queue, `elt` the
elements of `timeout()`'s pool and the private ones of threads, `soft` where
softclock is; `timeout_ticks` is `now % Wrap`, and the head of the queue has the
largest ticks.  A driver is between the two locks of `timeout()` when
`calling[d].e` is set.  `when` is history: when each function is due.

**`SchedPrim`** (`kern/sched_prim.c`, `kern/mach_clock.c`, `kern/thread_act.c`).
`th[t]` has the state bits (`run`, `wait`, `unint`, `susp`, `abort`),
`wait_event`, `wait_result`, the timer's state and the references timers hold,
and where the thread is (`place`: on a processor, being switched out, on a run
queue, off).  A context is a processor inside `thread_wakeup_prim`,
`clear_wait_locked`, `thread_timeout` or `act_abort`, between two of its locks;
`Softclock` is the timeout thread.  `cast`, chosen once, says who takes part and
what may happen to them.  `Sleepers` wait, `Controllers` call
`thread_stop_wait` and `thread_unstop`.  `ThreadGo` is for a thread that waits without
an event, as IPC does.  `thread_go` tests only `TH_WAIT` (`kern/sched_prim.c:580`), so
this is an assumption on its callers, and `QueuesAgree` and `RunsOnce` rest on it:
called for a thread in a bucket, it would leave the thread there, running.  A sender
left on `ip_blocked` (`mqueue_relink` below) can break it, when
`ipc/ipc_mqueue.c:1214` starts it in a later wait.  Events do not share buckets.
`FAST_IDLE` is off, as in the multiprocessor configurations.

## Runs

| run | instance | shows |
|---|---|---|
| `rwlock` | 4 threads | exclusion, no lost wakeup, refinement of `ReadersWriter`; a claim for writing is served |
| `mutex` | 5 threads | one owner, exact `waiters`, nobody asleep on a free mutex; somebody gets a contended mutex |
| `mqueue` | 3 threads, 1 port, limits 1 and 2, 3 messages; a multiprocessor with 2 sets, and one processor where receives time out | exact `ip_msgcount`, order and one place for each message, no receiver beside a message, no sender beside a free slot or at a dead port, links, no panic |
| `circular` | 4 ports, 3 threads | no circle of ports in transit, no deadlock of the locks along the chains |
| `right` | 1 port, 2 spaces with 2 and 1 names, user references up to 3 | counts of rights and references, one name and one receiver, width of user references, dead-name and no-senders notifications |
| `sema` | 3 threads of two priorities, 2 tokens, aborts | tokens, count and queue, priority order; destruction releases everybody |
| `lockset` | 1 ulock, 3 threads, aborts and terminations, no preemption | records of ownership, queues, hand-offs; destruction releases everybody |
| `sched` | 2 sleepers, 2 processors, softclock, timeouts and aborts; and 1 sleeper, 2 controllers, one interrupted | queues and `wait_event`, run queue once, timers and references, aborts, one stopper at a time, a stopped thread stays, waiters woken |
| `timeout` | 3 drivers, 2 pool elements, 1 thread, a counter of 6 values | order and contents of the queue, nothing due slept through, no early panic |

Three runs show where the code does not do what a comment or an assertion of its
own says (`findings` in `PROJECT.json` quotes them):

* `mqueue_relink`: a sender that times out is left on `ip_blocked`;
* `right_stray`: giving up a receive right whose port has a backup leaves a send
  right counted that nobody has;
* `lockset_wakes`: a release between `lock_acquire`'s unlock and its
  `assert_wait` makes the owner of a lock sleep.

Other disagreements, which the models contain and no run is kept for:

* with receives that time out on a multiprocessor (a `build` of `IpcMqueue` with
  `mp` and `rcvGivesUp`), a late `thread_go` (`ipc/ipc_mqueue.c:801`) reaches the
  receiver's next wait, which panics with "bad wait_result" (1072);
* a semaphore waiter that times out as it is signalled removes itself from the
  queue a second time (`kern/sync_sema.c:416`; the comment at 420 thinks of
  `semaphore_destroy` only); `Aborted` of `SyncSema` goes to `crash` there;
* a wakeup between softclock and `thread_timeout` loses the reference the timer
  held (`kern/mach_clock.c:627` against the comment at 473), in `ResetTimer` and
  `ThreadTimeout` of `SchedPrim`;
* `thread_unstop` does not wake a second `thread_stop` if the thread became
  runnable while stopped (`kern/sched_prim.c:777` against 729);
* the abort check of `lock_handoff` and `lock_handoff_accept` reads `wait_link`,
  which the wait did not set: an aborted hand-off can leave `ho_thread` behind
  (`kern/sync_lock.c:740` against 735), which is `stray` in `SyncLock`;
* on several processors, `lock_set_destroy` between the entry of a ulock into the
  hand-off list (`kern/sync_lock.c:718`, 852) and the store of `ho_thread` (721, 855)
  panics with "lock_set_destroy: 2" (270), and an aborted thread that a release is
  about to wake takes itself off a queue it has left (351, 748): the pc `crash` of
  `SyncLock`, with `mp`;
* a semaphore signal can be spent on a waiter that has timed out
  (`kern/sync_sema.c:416` against 286);
* waiters of a destroyed semaphore get `KERN_SEMAPHORE_DESTROYED`, not the
  `KERN_TERMINATED` of the comment at 126;
* `thread_stop_wait` also accepts a thread blocked uninterruptibly
  (`kern/sched_prim.c:810` against 834);
* an interrupt can reach a later, uninterruptible wait for the same event
  (`kern/sched_prim.c:895` against 859).

**Bounds.**  Three to five threads give every pair of roles (holder, waiter,
newcomer, upgrader) with one to spare; the properties relate two threads and the
object.  `MaxSent`, `MaxCount`, `MaxRefs` and `MaxStray` bound history counters
and leaks; a queue limit of 1 and one of 2 make both a full queue and a raised
limit happen with 3 messages.  In `circular`, four ports and three threads let two
slow checks and a quick one meet on chains of length three.  In `right`, three
names are a space with two names for a port and another space; `UrefsMax` 3 has a
send right that is full at 2 and a dead name that is full at 3; `MaxNaked` and
`MaxSendOnce` bound rights in messages, and `MaxMscount` the make-send count.  In
`timeout`, three drivers for two elements exhaust the pool, and `Wrap` 6 lets a
timeout wrap and the clock reach the sentinel.  `CHECK_DEADLOCK FALSE` is used where
the bounds, a destroyed object or a panic really stop the system (message queues,
semaphores, lock sets, rights, timeouts; ports that are all dead); the other runs
check deadlock.

**Fairness.**  The liveness properties are `ClaimServed`, `SomebodyGetsIt` and
the two `DestroyReleases`.  They assume weak fairness of what a runnable thread
does next inside a routine: the scheduler runs runnable threads, and no code here
waits inside a routine for anything else.  Nothing is assumed of callers, timeouts
or aborts, except that a thread that keeps coming to hold a complex lock sooner or
later drops it (strong fairness of `lock_done`, as it may up- and downgrade the
lock meanwhile) and that the owner of a mutex unlocks it.

## Proofs

All of these hold for every set of threads, ports, names, ulocks and events, finite
where something is counted (readers, waiters, rights).

* `Lock_proof`, of `RWLock`: `Invariance` proves the inductive invariant `IInv`: types, the
  counts and flags (`CountInv`, `WriteInv`, `UpgradeInv`, `HoldInv`: who holds
  what, per field of the lock) and `SleepInv` (why a sleeper sleeps and who will
  wake it).  Exclusion alone is not inductive: it needs that `read_count` is the
  number of readers and that `want_write` and `want_upgrade` have one owner each.
  `Exclusion`, `WakeupsNotLost` and `Implements` (step simulation of
  `ReadersWriter`) follow.
* `Lock_proof`, of `Mutex`: `MutexInvariance` (types, who is inside the interlock,
  what the lock word and `waiters` say), then `MutexExclusion`, `CountExact` and
  `FreeMeansWoken`.  They assume fewer threads than the width of `waiters` can count
  (`WaitersFit`).
* `Queues_proof`: what removal and insertion do to a queue of any length.  They
  change one element, keep the others in their order and keep the queue free of
  repetitions.
* `SyncSema_proof`: `Invariance` of types, `RuleOfThumb`, `QueueInv` (the queue
  holds exactly the unfinished waits, once each), `WaitInv`, `DestroyedInv` and
  `TokensConserved`.  The rule of thumb needs `QueueInv`: without it a timed out
  waiter could leave the queue a second time or leave somebody else's place.
  `CountTellsQueue`, `NoTokenLost`, `SleepersAreQueued` and `TypeCorrect` follow,
  for any priorities, either policy, with or without aborts.  `MostUrgentFirst`
  (`UrgentFirst`) takes a second induction, on the order of the queue: the walk of
  `sync_policy_enqueue` stops at the first element it may not pass
  (`InsertBeforeFacts`).  That there is a first one comes from the well-foundedness
  of `<`, so no induction over sequences is needed.
* `SyncLock_proof`, for any threads and any ulocks but none (`lock_set_create`
  refuses an empty set), on one processor without preemption (`~mp`): all four
  theorems are about that case only.  `IInv` is `OwnershipAgrees` and `HandoffPaired`,
  the shape of each thread's record, `Alone` (at most one thread is between two
  calls), `Offers` (a thread about to store `ho_thread` finds it empty, in a set that
  is still there) and, until an abort goes unseen, `Known` (who waits,
  or is about to, or was aborted and has yet to take itself off, is where its waker
  looks; the blocked queue of a ulock is exactly those threads; nobody has
  crashed).  `SleepersKnown` is not inductive: it says nothing of a thread
  between the unlock and `assert_wait`, or between an abort and its return, and both
  are in the queue.  Each step changes one thread and one ulock (`OneStep`,
  `KnownStep`) or several threads and no ulock (`CrowdStep`, `CrowdKnown`), except
  `lock_set_destroy`.  `Ownership`, `HandoffsPaired` and `NoWakeupLost`
  follow.  `lockset_wakes` shows what happens on two processors.
* `SchedPrim_proof`, for any sleepers, controllers, events, processors and casts.
  `IInv` says of each thread what its state bits, place and pc say about each other
  (`Sound`), which references its timer holds (`Timed`), that an abort it has not
  seen is on its way (`AbortKept`) and what its role allows (`InRole`); of the
  queues, that a bucket holds the threads whose `wait_event` it is
  (`BucketsExact`) and that the threads marked `WAKING_EVENT` are spread over the
  lists of the wakers (`WakersExact`); of each context, what it is about to do
  (`ContextSound`).  `StopExclusive` and `WaiterWoken` complete it.  `QueuesAgree`
  alone is not inductive: a waker restarts threads that it marked earlier, and only
  `WakersExact` says that nobody else took them in between; `AbortSeen` needs to
  know which context has read which event.  The effects of the primitives on one thread
  (`ClearBitsFacts` and others: a wait ends, a thread is made runnable) are
  lemmas of their own, and frame lemmas carry each conjunct over steps that leave it
  alone.  `WaitQueues`, `RunnableOnce`, `TimersHeld`, `AbortsSeen`, `StopsExclude` and
  `WaitersWoken` are all properties of the `sched` run.  They hold as long as
  `thread_go` is called for IPC waits only, the guard of `ThreadGo`.  Of the panics of
  `sched_prim.c`, `RunnableOnce` excludes those of `assert_wait` (671),
  `thread_wakeup_prim` (1082) and `thread_dispatch` (1740), and with them the assertion of
  `set_timeout`; those of the run queues and the idle thread are not modelled.
* `Timeout_proof`, for any drivers and threads, any finite pool, any intervals and
  any width of the tick counter.  `IInv` says that the queue is in order and holds
  what is set (`Sorted`, kept by the insertion of `set_timeout` as in the
  semaphore's queue), whose each element is and which state it may be in (`Owned`:
  allocated inside `timeout()`, queued for a driver that has no other, pending in
  softclock's hands), that a queued element carries the tick of its request and
  none is further ahead than the longest interval (`Dated`), and `OnTime` itself.
  `QueueExact` needs `Owned`: without it softclock could hold a function whose
  request was made again.  `OnTime` needs `Dated`, because softclock compares only
  the first element with a counter that may have wrapped.  `QueueKept`,
  `CalledOnTime` and `PanicsOnlyWhenFull` follow; the last one counts with the map
  from elements to drivers, which `Owned` makes one to one.
* `PortTransit_proof`: `Invariance` of `IInv`, which says what each thread inside
  `ipc_port_check_circularity` has locked: nothing, its port, the part of a chain
  from its destination up to where it has walked, or the complete chain.  The
  absence of circles is not inductive by itself: the link at the end is harmless
  because a circle through it would be a closed set of ports inside the locked
  chain, and the chain's last port is not in transit.  `NeverCircular` and
  `NeverDeadlocked` follow.  The sets of ports and threads may even be infinite.
* `IpcRight_proof`: the invariant is split along the data: of one entry
  (`EntryOk`), of one port and the numbers of names, senders and send-once rights it
  has (`PortOk`), of an entry and a port (`LinkOk`: the receiver and the request
  table agree with the entry), and of two names of one port (`UniqueNames`).  Each
  call changes one entry and one port, so the lemma `Update` reduces a step to what
  it does to two records and three numbers; then there is a lemma for each pair of
  records that the calls put, and one for each call.  The counts need `LinkOk` and
  `UniqueNames`, because `ipc_right_copyout` adds user references to the name it
  finds, and a name found twice would be counted twice.  `RightsExact`,
  `ReferencesExact`, `Unique`, `Bounded`, `Requested`, `NoSendersNotified` and
  `NoSendersNeverStale` are the properties of the `right` run, for every width of
  the user references, of which `RightConstants` asks no more than room for two.

Only model-checked:

* all liveness properties: fairness is out of the prover's reach;
* `IpcMqueue`.  `ipc_mqueue_move` picks the messages of one port out of a queue,
  a filter defined by recursion over the sequence; what it keeps and leaves for
  every sequence needs induction over data, and the counts, the order and the place
  of messages all rest on it.  Several of the invariants hold only of builds in
  which senders do not time out, and receivers do not on a multiprocessor: the
  others are the disagreements above.

## Not modelled

* The name space (`ipc_entry.c`, `ipc_hash.c`, `ipc_splay.c`, `ipc_table.c`):
  `IpcRight` takes the entries of a space as a function of its names.  Generation
  numbers and the growth of a table while others look up names in it are the
  next thing worth a module.
* The hand-off of `mach_msg.c`, which repeats the one of `ipc_mqueue.c` with the
  two ports of an RPC, and `ipc_kmsg.c`, whose copyin and copyout loop over a
  message body and call the operations of `IpcRight`.
* `zalloc.c`, event counts, activations and their migration, processor sets, and
  the user-level threads of `libcthreads`.
* Virtual memory.  The life of an object under paging and termination
  (`vm_object.c`) has the kind of interleavings modelled here, over a state too
  large for one module.  `pmap`, the page tables and the machine-dependent code
  are computation on hardware structures.
* The conversion of a semaphore's timeout to clock ticks, which is arithmetic in
  one expression, and the time sources.
* DIPC, XMM and FLIPC, which need a second node and an unreliable network that
  `src/` describes only in part.
* The Linux server, device drivers, the boot loader, the C library, the tools
  and the tests.  They are clients of the interfaces modelled here; most of the
  repository's lines are there.
* A specification of the wait primitives (a thread waits; one of its event, its
  timeout and an abort ends the wait) that `SchedPrim` would be shown to
  implement.
