-------------------------- MODULE SchedPrim_proof ---------------------------
(***************************************************************************)
(* Proofs about the wait and wakeup primitives, for any threads, events,   *)
(* processors and casts.                                                   *)
(***************************************************************************)
EXTENDS SchedPrim, Queues_proof

-----------------------------------------------------------------------------
(* The inductive invariant.                                                *)

Results == {"awakened", "timed_out", "interrupted"}
ThreadPcs == {"run", "asserted", "timed", "select", "blocked", "stop", "wait", "holding",
              "unstop", "panic"}
Record ==
  [run : BOOLEAN, wait : BOOLEAN, unint : BOOLEAN, susp : BOOLEAN, abort : BOOLEAN,
   event : Buckets \union {None, Waking}, result : Results, wake_active : BOOLEAN,
   timer : {"unset", "set", "pending"}, refs : Int,
   place : {"cpu", "switch", "runq", "off", "twice"}, pc : ThreadPcs,
   target : Sleepers \union {None}, phase : {"stop", "wait"}]
Ops == {"idle", "clear", "waking", "wakeup", "fired", "dealloc", "abort"}
Context == [op : Ops, thread : Threads \union {None}, event : Buckets \union {None},
            result : Results, queue : Seq(Threads)]

Types ==
  /\ th \in [Threads -> Record]
  /\ bucket \in [Buckets -> Seq(Threads)]
  /\ ctx \in [Slots -> Context]
  /\ cast \in Casts

(* What the fields of one thread say about each other.                     *)
Sound(r) ==
  /\ r.place # "twice" /\ r.pc # "panic"
  /\ r.run = (r.place # "off")
  /\ ~r.wait /\ ~r.susp => r.run
  /\ (r.pc = "blocked") = (r.place # "cpu")
  /\ r.place = "runq" => ~r.wait
  /\ r.pc \in {"run", "stop", "wait", "holding", "unstop"} => ~r.wait
  /\ r.event # None => r.wait
  /\ r.timer # "unset" => r.wait /\ r.pc # "asserted"

(* The references that a timer and the timeout thread hold.                *)
Held(t) == ctx[Softclock].op # "idle" /\ ctx[Softclock].thread = t
HeldFired(t) == ctx[Softclock].op = "fired" /\ ctx[Softclock].thread = t
Timed(t) ==
  /\ th[t].refs >= (IF th[t].timer = "set" THEN 1 ELSE 0) + (IF Held(t) THEN 1 ELSE 0)
  /\ th[t].timer = "pending" => HeldFired(t)

(* Somebody is about to interrupt t: no abort is lost.                     *)
InterruptedBy(c, t) ==
  /\ ctx[c].thread = t
  /\ ctx[c].op = "abort" \/ (ctx[c].op = "clear" /\ ctx[c].event = th[t].event)
Interrupted(t) == th[t].event = Waking \/ \E c \in Slots : InterruptedBy(c, t)
AbortKept(t) ==
  th[t].abort /\ th[t].wait /\ ~th[t].unint /\ th[t].pc \in {"select", "blocked"} =>
    Interrupted(t)

(* The threads that wait, and the threads that stop them.                  *)
InRole(t, r) ==
  /\ t \in Sleepers => /\ r.pc \in {"run", "asserted", "timed", "select", "blocked"}
                       /\ r.event \notin Sleepers /\ r.phase = "stop"
  /\ t \in Controllers => /\ r.pc # "timed" /\ (r.pc # "run" => r.target \in Sleepers)
                          /\ r.wait => r.event \in {r.target, Waking}
                          /\ ~r.wake_active
  /\ ~cast.unintWaits => ~r.unint

Local(t) == Sound(th[t]) /\ Timed(t) /\ AbortKept(t) /\ InRole(t, th[t])

(* The wait buckets and the queues of the wakers.                          *)
BucketsExact ==
  \A e \in Buckets : /\ Range(bucket[e]) = {t \in Threads : th[t].event = e}
                     /\ IsInjective(bucket[e])
WakersExact ==
  /\ \A c \in Slots : /\ IsInjective(ctx[c].queue)
                      /\ (ctx[c].op = "waking") = (ctx[c].queue # <<>>)
                      /\ \A t \in Range(ctx[c].queue) : th[t].event = Waking
  /\ \A t \in Threads : th[t].event = Waking => \E c \in Slots : t \in Range(ctx[c].queue)
  /\ \A c, d \in Slots : c # d => Range(ctx[c].queue) \cap Range(ctx[d].queue) = {}

(* Who runs which routine, and on what.                                    *)
ContextSound(c, x) ==
  /\ x.op \in {"idle", "waking", "wakeup"} => x.thread = None
  /\ x.op \in {"clear", "fired", "dealloc", "abort"} => x.thread \in Threads
  /\ x.op = "clear" => x.event \in Buckets
  /\ x.op = "wakeup" => x.event \in Sleepers
  /\ x.op \in {"waking", "wakeup", "abort"} => c # Softclock
  /\ x.op \in {"fired", "dealloc"} => c = Softclock

IInv == /\ Types /\ \A t \in Threads : Local(t)
        /\ BucketsExact /\ WakersExact /\ \A c \in Slots : ContextSound(c, ctx[c])
        /\ StopExclusive /\ WaiterWoken

-----------------------------------------------------------------------------
(* Constants.                                                              *)

(* The kinds of actors, the events and the marks for no thread and for a   *)
(* thread being woken are different things.                                *)
LEMMA Apart ==
  /\ \A t \in Threads : t # None /\ t # Waking /\ t # Softclock /\ t \notin Contexts
  /\ \A e \in Buckets : e # None /\ e # Waking
  /\ \A t \in Sleepers : t \notin Controllers /\ t \notin Events /\ t \in Buckets
  /\ None # Waking /\ Softclock \notin Contexts /\ Softclock \in Slots
  /\ Threads \subseteq Slots /\ Contexts \subseteq Slots /\ Sleepers \subseteq Threads
  /\ Controllers \subseteq Threads /\ Events \subseteq Buckets
BY Distinct, Zenon DEF Threads, Buckets, Slots

(* Who takes part in a behaviour is among the constants.                   *)
LEMMA CastTyped ==
  ASSUME Types
  PROVE  /\ cast.threads \subseteq Threads /\ cast.contexts \subseteq Contexts
         /\ cast.timed \subseteq Sleepers /\ cast.abortable \subseteq Threads
         /\ cast.ipcWaits \in BOOLEAN /\ cast.unintWaits \in BOOLEAN
BY CastsTyped, Zenon DEF Types, Threads

-----------------------------------------------------------------------------
(* What the operators on a thread do.                                      *)
Core(r, s) ==
  /\ s.unint = r.unint /\ s.susp = r.susp /\ s.abort = r.abort
  /\ s.wake_active = r.wake_active /\ s.pc = r.pc /\ s.target = r.target /\ s.phase = r.phase

(* The wait of r is over in s.                                             *)
Ended(r, s) ==
  /\ s \in Record /\ Core(r, s)
  /\ s.wait = FALSE /\ s.event = None /\ s.timer = "unset"
  /\ s.refs = IF r.timer = "set" THEN r.refs - 1 ELSE r.refs
  /\ r.run => s.run /\ s.place = r.place
  /\ ~r.run => \/ r.susp /\ ~s.run /\ s.place = r.place
               \/ s.run /\ s.place = "runq" /\ (~r.susp \/ r.unint \/ cast.ipcWaits)

(* A thread stays sound as it runs on, and as its wait loses its event.    *)
LEMMA SoundKept ==
  ASSUME NEW r, NEW s, Sound(r), s.run = r.run, s.wait = r.wait, s.place = r.place,
         s.timer = r.timer, s.event \in {r.event, None}, ~s.wait /\ ~s.susp => s.run,
         \/ s.pc = r.pc
         \/ {r.pc, s.pc} \subseteq {"run", "stop", "wait", "holding", "unstop"}
  PROVE  Sound(s)
<1>1. s.place # "twice" /\ s.pc # "panic" /\ s.run = (s.place # "off")
  BY Zenon DEF Sound
<1>2. (s.pc = "blocked") = (s.place # "cpu")
  BY Zenon DEF Sound
<1>3. /\ s.place = "runq" => ~s.wait
      /\ s.pc \in {"run", "stop", "wait", "holding", "unstop"} => ~s.wait
  BY Zenon DEF Sound
<1>4. s.event # None => s.wait
  BY Zenon DEF Sound
<1>5. s.timer # "unset" => s.wait /\ s.pc # "asserted"
  BY Zenon DEF Sound
<1> QED
  BY <1>1, <1>2, <1>3, <1>4, <1>5, Zenon DEF Sound

(* A flag of a thread changes.                                             *)
LEMMA FlagFacts ==
  ASSUME NEW r \in Record, NEW b \in BOOLEAN
  PROVE  /\ [r EXCEPT !.susp = b] \in Record /\ [r EXCEPT !.wake_active = b] \in Record
         /\ [r EXCEPT !.wait = b] \in Record /\ [r EXCEPT !.unint = b] \in Record
<1>1. [r EXCEPT !.susp = b] \in Record
  BY Zenon DEF Record
<1>2. [r EXCEPT !.wake_active = b] \in Record
  BY Zenon DEF Record
<1>3. [r EXCEPT !.wait = b] \in Record
  BY Zenon DEF Record
<1>4. [r EXCEPT !.unint = b] \in Record
  BY Zenon DEF Record
<1> QED
  BY <1>1, <1>2, <1>3, <1>4, Zenon

(* Setrun puts a thread that is nowhere on a run queue.                    *)
LEMMA SetrunFacts ==
  ASSUME NEW r \in Record, r.place = "off"
  PROVE  LET s == Setrun(r)
         IN /\ s \in Record /\ Core(r, s) /\ s.run = TRUE /\ s.place = "runq"
            /\ s.wait = r.wait /\ s.event = r.event /\ s.timer = r.timer /\ s.refs = r.refs
<1> DEFINE s == [r EXCEPT !.run = TRUE, !.place = "runq"]
<1>1. Setrun(r) = s
  BY Zenon DEF Setrun, Record
<1>2. s \in Record
  BY Zenon DEF Record
<1>3. /\ Core(r, s) /\ s.run = TRUE /\ s.place = "runq"
      /\ s.wait = r.wait /\ s.event = r.event /\ s.timer = r.timer /\ s.refs = r.refs
  BY Zenon DEF Record, Core
<1> HIDE DEF s
<1> QED
  BY <1>1, <1>2, <1>3, Zenon

(* reset_timeout_check gives the reference of a timer that is set back.    *)
LEMMA ResetFacts ==
  ASSUME NEW r \in Record
  PROVE  LET s == ResetTimer(r)
         IN /\ s \in Record /\ Core(r, s) /\ s.timer = "unset"
            /\ s.refs = IF r.timer = "set" THEN r.refs - 1 ELSE r.refs
            /\ s.run = r.run /\ s.place = r.place /\ s.wait = r.wait /\ s.event = r.event
<1> DEFINE v == IF r.timer = "set" THEN r.refs - 1 ELSE r.refs
           s == [r EXCEPT !.timer = "unset", !.refs = v]
<1>1. v \in Int
  BY DEF Record
<1>2. ResetTimer(r) = s
  BY Zenon DEF ResetTimer
<1> HIDE DEF v
<1>3. s \in Record
  BY <1>1, Zenon DEF Record
<1>4. /\ Core(r, s) /\ s.run = r.run /\ s.place = r.place /\ s.wait = r.wait
      /\ s.event = r.event
  BY Zenon DEF Record, Core
<1>5. s.timer = "unset" /\ s.refs = v
  BY Zenon DEF Record
<1> HIDE DEF s
<1> QED
  BY <1>2, <1>3, <1>4, <1>5, Zenon DEF v

(* The switch on the state bits: a thread that runs goes on, a stopped one *)
(* stays off, the others are put on a run queue.                           *)
LEMMA AwakenFacts ==
  ASSUME NEW r \in Record, NEW res \in Results, r.run = (r.place # "off")
  PROVE  LET s == Awaken(r, res)
         IN /\ s \in Record /\ Core(r, s) /\ s.wait = FALSE
            /\ s.event = r.event /\ s.timer = r.timer /\ s.refs = r.refs
            /\ r.run => s.run /\ s.place = r.place
            /\ ~r.run => \/ r.susp /\ ~s.run /\ s.place = r.place
                         \/ s.run /\ s.place = "runq" /\ (~r.susp \/ r.unint)
<1> DEFINE a == [r EXCEPT !.wait = FALSE, !.result = res]
<1>1. a \in Record
  BY Zenon DEF Record
<1>2. /\ Core(r, a) /\ a.run = r.run /\ a.place = r.place /\ a.wait = FALSE
      /\ a.event = r.event /\ a.timer = r.timer /\ a.refs = r.refs
  BY Zenon DEF Record, Core
<1>3. Awaken(r, res) = IF r.run \/ (r.susp /\ ~r.unint) THEN a ELSE Setrun(a)
  BY Zenon DEF Awaken
<1> HIDE DEF a
<1>4. CASE r.run \/ (r.susp /\ ~r.unint)
  <2>1. Awaken(r, res) = a
    BY <1>3, <1>4, Zenon
  <2> QED
    BY <2>1, <1>1, <1>2, <1>4, Zenon
<1>5. CASE ~(r.run \/ (r.susp /\ ~r.unint))
  <2>1. Awaken(r, res) = Setrun(a)
    BY <1>3, <1>5, Zenon
  <2>2. a.place = "off" /\ ~r.run /\ (~r.susp \/ r.unint)
    BY <1>2, <1>5, Zenon
  <2> DEFINE s == Setrun(a)
  <2>3. /\ s \in Record /\ Core(a, s) /\ s.run = TRUE /\ s.place = "runq"
        /\ s.wait = a.wait /\ s.event = a.event /\ s.timer = a.timer /\ s.refs = a.refs
    BY <1>1, <2>2, SetrunFacts, Zenon
  <2> HIDE DEF s
  <2>4. Core(r, s)
    BY <1>2, <2>3, Zenon DEF Core
  <2>5. s.wait = FALSE /\ s.event = r.event /\ s.timer = r.timer /\ s.refs = r.refs
    BY <1>2, <2>3, Zenon
  <2>6. Awaken(r, res) = s
    BY <2>1, Zenon DEF s
  <2> QED
    BY <2>2, <2>3, <2>4, <2>5, <2>6, Zenon
<1> QED
  BY <1>4, <1>5, Zenon

(* A thread whose wait is over is in order.                                *)
LEMMA EndedSound ==
  ASSUME NEW r \in Record, Sound(r), r.wait, NEW s, Ended(r, s)
  PROVE  Sound(s)
<1>1. s.place # "twice" /\ s.pc # "panic" /\ s.run = (s.place # "off")
  BY Zenon DEF Sound, Ended, Core, Record
<1>2. (s.pc = "blocked") = (s.place # "cpu")
  BY ZenonT(30) DEF Sound, Ended, Core, Record
<1>3. ~s.susp => s.run
  BY Zenon DEF Sound, Ended, Core
<1> QED
  BY <1>1, <1>2, <1>3, Zenon DEF Sound, Ended

(* Nothing happened to a thread but what reset_timeout_check and           *)
(* clear_wait do to one that does not wait.                                *)
Alike(r, s) ==
  /\ s \in Record /\ Core(r, s) /\ s.run = r.run /\ s.place = r.place /\ s.wait = r.wait
  /\ s.event = r.event /\ s.timer = r.timer /\ s.refs = r.refs

(* clear_wait's last part ends a wait, and does nothing to a thread that   *)
(* does not wait.                                                          *)
LEMMA ClearBitsFacts ==
  ASSUME NEW r \in Record, Sound(r), r.event = None, NEW res \in Results
  PROVE  /\ r.wait => Ended(r, ClearBits(r, res))
         /\ ~r.wait => Alike(r, ClearBits(r, res))
<1> DEFINE a == ResetTimer(r)
<1>1. /\ a \in Record /\ Core(r, a) /\ a.timer = "unset"
      /\ a.refs = IF r.timer = "set" THEN r.refs - 1 ELSE r.refs
      /\ a.run = r.run /\ a.place = r.place /\ a.wait = r.wait /\ a.event = r.event
  BY ResetFacts, Zenon
<1>2. ClearBits(r, res) = IF a.wait THEN Awaken(a, res) ELSE a
  BY Zenon DEF ClearBits
<1> HIDE DEF a
<1>3. ASSUME r.wait PROVE Ended(r, ClearBits(r, res))
  <2> DEFINE s == Awaken(a, res)
  <2>1. a.run = (a.place # "off")
    BY <1>1, Zenon DEF Sound
  <2>2. /\ s \in Record /\ Core(a, s) /\ s.wait = FALSE
        /\ s.event = a.event /\ s.timer = a.timer /\ s.refs = a.refs
        /\ a.run => s.run /\ s.place = a.place
        /\ ~a.run => \/ a.susp /\ ~s.run /\ s.place = a.place
                     \/ s.run /\ s.place = "runq" /\ (~a.susp \/ a.unint)
    BY <1>1, <2>1, AwakenFacts, Zenon
  <2>3. ClearBits(r, res) = s
    BY <1>1, <1>2, <1>3, Zenon
  <2> HIDE DEF s
  <2> QED
    BY <1>1, <2>2, <2>3, Zenon DEF Ended, Core
<1>4. ASSUME ~r.wait PROVE Alike(r, ClearBits(r, res))
  <2>1. ClearBits(r, res) = a /\ r.timer = "unset"
    BY <1>1, <1>2, <1>4, Zenon DEF Sound
  <2>2. a.refs = r.refs
    BY <1>1, <2>1, Zenon
  <2> QED
    BY <1>1, <2>1, <2>2, Zenon DEF Alike
<1> QED
  BY <1>3, <1>4, Zenon

(* thread_wakeup_prim ends the wait of a marked thread.                    *)
LEMMA WokenFacts ==
  ASSUME NEW r \in Record, Sound(r), r.wait
  PROVE  LET a == ResetTimer(r)
         IN a.wait /\ Ended(r, [Awaken(a, "awakened") EXCEPT !.event = None])
<1> DEFINE a == ResetTimer(r)
           b == Awaken(a, "awakened")
           s == [b EXCEPT !.event = None]
<1>1. /\ a \in Record /\ Core(r, a) /\ a.timer = "unset"
      /\ a.refs = IF r.timer = "set" THEN r.refs - 1 ELSE r.refs
      /\ a.run = r.run /\ a.place = r.place /\ a.wait = r.wait /\ a.event = r.event
  BY ResetFacts, Zenon
<1> HIDE DEF a
<1>2. a.run = (a.place # "off") /\ "awakened" \in Results
  BY <1>1, Zenon DEF Sound, Results
<1>3. /\ b \in Record /\ Core(a, b) /\ b.wait = FALSE
      /\ b.event = a.event /\ b.timer = a.timer /\ b.refs = a.refs
      /\ a.run => b.run /\ b.place = a.place
      /\ ~a.run => \/ a.susp /\ ~b.run /\ b.place = a.place
                   \/ b.run /\ b.place = "runq" /\ (~a.susp \/ a.unint)
  BY <1>1, <1>2, AwakenFacts, Zenon
<1> HIDE DEF b
<1>4. s \in Record
  BY <1>3, Zenon DEF Record
<1>5. /\ Core(b, s) /\ s.wait = b.wait /\ s.timer = b.timer /\ s.refs = b.refs /\ s.run = b.run
      /\ s.place = b.place /\ s.event = None
  BY <1>3, Zenon DEF Record, Core
<1> HIDE DEF s
<1>6. Ended(r, s)
  BY <1>1, <1>3, <1>4, <1>5, ZenonT(30) DEF Ended, Core
<1> QED
  BY <1>1, <1>6, Zenon DEF s, b, a

(* thread_go ends an IPC wait.                                             *)
LEMMA GoneFacts ==
  ASSUME NEW r \in Record, Sound(r), r.wait, r.event = None, cast.ipcWaits
  PROVE  LET a == ResetTimer(r)
             b == [a EXCEPT !.wait = FALSE, !.result = "awakened"]
         IN Ended(r, IF a.run THEN b ELSE Setrun(b))
<1> DEFINE a == ResetTimer(r)
           b == [a EXCEPT !.wait = FALSE, !.result = "awakened"]
           s == Setrun(b)
<1>1. /\ a \in Record /\ Core(r, a) /\ a.timer = "unset"
      /\ a.refs = IF r.timer = "set" THEN r.refs - 1 ELSE r.refs
      /\ a.run = r.run /\ a.place = r.place /\ a.wait = r.wait /\ a.event = r.event
  BY ResetFacts, Zenon
<1> HIDE DEF a
<1>2. b \in Record
  <2> DEFINE d == [a EXCEPT !.wait = FALSE]
  <2>1. d \in Record
    BY <1>1, FlagFacts, Zenon
  <2>2. b = [d EXCEPT !.result = "awakened"]
    BY <1>1, Zenon DEF Record
  <2> HIDE DEF b, d
  <2> QED
    BY <2>1, <2>2, ZenonT(30) DEF Record, Results
<1>3. /\ Core(a, b) /\ b.wait = FALSE /\ b.timer = a.timer /\ b.refs = a.refs /\ b.run = a.run
      /\ b.place = a.place /\ b.event = a.event
  BY <1>1, Zenon DEF Record, Core
<1> HIDE DEF b
<1>4. CASE a.run
  BY <1>1, <1>2, <1>3, <1>4 DEF Ended, Core, a, b
<1>5. CASE ~a.run
  <2>1. b.place = "off" /\ ~r.run
    BY <1>1, <1>3, <1>5, Zenon DEF Sound
  <2>2. /\ s \in Record /\ Core(b, s) /\ s.run = TRUE /\ s.place = "runq"
        /\ s.wait = b.wait /\ s.event = b.event /\ s.timer = b.timer /\ s.refs = b.refs
    BY <1>2, <2>1, SetrunFacts, Zenon
  <2> HIDE DEF s
  <2>3. Ended(r, s)
    BY <1>1, <1>3, <2>1, <2>2, Zenon DEF Ended, Core
  <2> QED
    BY <1>5, <2>3, Zenon DEF s, b, a
<1> QED
  BY <1>4, <1>5, Zenon

-----------------------------------------------------------------------------
(* What a step leaves alone.                                               *)

(* No routine that is about u changes.                                     *)
Aloof(u) ==
  \A d \in Slots : ctx'[d] = ctx[d] \/ (ctx[d].thread # u /\ ctx'[d].thread # u)

(* The routines stay in order and no wakeup that is due is forgotten.      *)
Calm ==
  /\ ctx' \in [Slots -> Context]
  /\ \A d \in Slots : ContextSound(d, ctx'[d]) /\ (ctx[d].op = "wakeup" => ctx'[d] = ctx[d])

QueuesKept ==
  /\ bucket' = bucket
  /\ \A d \in Slots : /\ ctx'[d].queue = ctx[d].queue
                      /\ (ctx'[d].op = "waking") = (ctx[d].op = "waking")

(* A thread that a step does not touch stays in order.                     *)
LEMMA LocalFrame ==
  ASSUME NEW u \in Threads, Local(u), th'[u] = th[u], cast' = cast, Aloof(u)
  PROVE  Local(u)'
<1>1. Held(u)' = Held(u) /\ HeldFired(u)' = HeldFired(u)
  BY Apart, Zenon DEF Aloof, Held, HeldFired
<1>2. ASSUME NEW d \in Slots, InterruptedBy(d, u) PROVE InterruptedBy(d, u)'
  BY <1>2, Zenon DEF Aloof, InterruptedBy
<1>3. Interrupted(u) => Interrupted(u)'
  BY <1>2, Zenon DEF Interrupted
<1>4. Timed(u)'
  BY <1>1, Zenon DEF Local, Timed
<1>5. AbortKept(u)'
  BY <1>3, Zenon DEF Local, AbortKept
<1>6. InRole(u, th[u])'
  BY Zenon DEF Local, InRole
<1> QED
  BY <1>4, <1>5, <1>6, Zenon DEF Local

(* The queues agree with the events as long as neither changes.            *)
LEMMA QueuesFrame ==
  ASSUME BucketsExact, WakersExact, QueuesKept,
         \A u \in Threads : th'[u].event = th[u].event, Types
  PROVE  BucketsExact' /\ WakersExact'
<1>1. \A e \in Buckets : {t \in Threads : th[t].event = e}' = {t \in Threads : th[t].event = e}
  BY Zenon
<1>2. BucketsExact'
  BY <1>1, Zenon DEF BucketsExact, QueuesKept
<1>3. \A d \in Slots : \A t \in Range(ctx[d].queue) : t \in Threads
  BY DEF Types, Context, Range
<1>4. WakersExact'
  BY <1>3, ZenonT(30) DEF WakersExact, QueuesKept
<1> QED
  BY <1>2, <1>4, Zenon

(* A thread that stops others has hold of its target.                      *)
Grip(r) ==
  \/ r.pc \in {"wait", "holding", "unstop"}
  \/ r.pc \in {"asserted", "select", "blocked"} /\ r.phase = "wait"

(* From r to s a thread neither takes hold of another, nor is let go or    *)
(* set running while it is stopped.                                        *)
Firm(r, s) ==
  /\ s.susp = r.susp
  /\ Grip(s) => Grip(r) /\ s.target = r.target
  /\ s.pc = "holding" => r.pc = "holding"
  /\ s.run => r.run \/ ~r.susp \/ cast.unintWaits \/ cast.ipcWaits

(* thread_stop keeps its hold over a thread through every step that is     *)
(* firm on all threads.                                                    *)
LEMMA StopFrame ==
  ASSUME StopExclusive, cast' = cast, \A u \in Threads : Firm(th[u], th'[u])
  PROVE  StopExclusive'
<1> SUFFICES ASSUME NEW t \in Sleepers, NEW c \in Controllers, Holds(c, t)'
             PROVE  /\ th'[t].susp /\ \A d \in Controllers : Holds(d, t)' => c = d
                    /\ th'[c].pc = "holding" /\ ~cast.unintWaits /\ ~cast.ipcWaits => ~th'[t].run
  BY Zenon DEF StopExclusive
<1>1. \A d \in Controllers : Holds(d, t) = (th[d].target = t /\ Grip(th[d]))
  BY Zenon DEF Holds, Grip
<1>2. \A d \in Controllers : Holds(d, t)' = (th'[d].target = t /\ Grip(th'[d]))
  BY Zenon DEF Holds, Grip
<1>3. \A d \in Controllers : Holds(d, t)' => Holds(d, t)
  BY <1>1, <1>2, Apart, Zenon DEF Firm
<1>4. Holds(c, t)
  BY <1>3, Zenon
<1>5. /\ th[t].susp /\ \A d \in Controllers : Holds(d, t) => c = d
      /\ th[c].pc = "holding" /\ ~cast.unintWaits /\ ~cast.ipcWaits => ~th[t].run
  BY <1>4, Zenon DEF StopExclusive
<1>6. Firm(th[t], th'[t]) /\ Firm(th[c], th'[c])
  BY Apart, Zenon
<1> QED
  BY <1>3, <1>5, <1>6, Zenon DEF Firm

(* From r to s a controller does not begin to wait for its target to stop. *)
Patient(r, s) ==
  s.wait /\ s.event = s.target /\ s.phase = "wait" =>
    r.wait /\ r.event = r.target /\ r.phase = "wait" /\ s.target = r.target

(* Who waits for u to stop running will hear of it.                        *)
Rings(u) == th[u].run /\ th[u].wake_active =>
              (th'[u].run /\ th'[u].wake_active) \/ WakePending(u)'

(* A thread in thread_wait is still to be woken after a step on which the  *)
(* waiters stay and the threads waited for keep wake_active.               *)
LEMMA WaiterFrame ==
  ASSUME WaiterWoken, Calm, \A u \in Controllers : Patient(th[u], th'[u]),
         \A u \in Controllers : InRole(u, th[u]) /\ Sound(th[u]), \A u \in Sleepers : Rings(u)
  PROVE  WaiterWoken'
<1>1. ASSUME NEW c \in Controllers, Asleep(c, "wait")', NEW t, t = th'[c].target
      PROVE  (th'[t].run /\ th'[t].wake_active) \/ WakePending(t)'
  <2>1. Asleep(c, "wait") /\ t = th[c].target
    BY <1>1, Zenon DEF Asleep, Patient
  <2>2. t \in Sleepers
    BY <2>1, Zenon DEF Asleep, InRole, Sound
  <2>3. (th[t].run /\ th[t].wake_active) \/ WakePending(t)
    BY <2>1, Zenon DEF WaiterWoken
  <2>4. WakePending(t) => WakePending(t)'
    BY Zenon DEF WakePending, Calm
  <2> QED
    BY <2>2, <2>3, <2>4, Zenon DEF Rings
<1> QED
  BY <1>1, Zenon DEF WaiterWoken, WakePending

(* A step that touches one thread.                                         *)
LEMMA OneThread ==
  ASSUME IInv, cast' = cast, NEW t \in Threads, NEW s \in Record, th' = [th EXCEPT ![t] = s],
         bucket' \in [Buckets -> Seq(Threads)], Calm, \A u \in Threads \ {t} : Aloof(u),
         BucketsExact', WakersExact',
         Sound(s), Timed(t)', AbortKept(t)', InRole(t, s),
         Firm(th[t], s), t \in Controllers => Patient(th[t], s), Rings(t)
  PROVE  IInv'
<1>1. th \in [Threads -> Record] /\ cast \in Casts
  BY Zenon DEF IInv, Types
<1>2. th' \in [Threads -> Record] /\ th'[t] = s /\ \A u \in Threads \ {t} : th'[u] = th[u]
  BY <1>1, Zenon
<1>3. Types'
  BY <1>1, <1>2, Zenon DEF Types, Calm
<1>4. ASSUME NEW u \in Threads PROVE Local(u)'
  <2>1. CASE u = t
    <3>1. Sound(th[t])' /\ InRole(t, th[t])'
      BY <1>2, Zenon DEF Sound, InRole
    <3> QED
      BY <2>1, <3>1, Zenon DEF Local
  <2>2. CASE u # t
    BY <1>2, <2>2, LocalFrame, Zenon DEF IInv
  <2> QED
    BY <2>1, <2>2, Zenon
<1>5. (\A c \in Slots : ContextSound(c, ctx[c]))'
  BY Zenon DEF Calm, ContextSound
<1>6. StopExclusive'
  <2>1. \A u \in Threads : Firm(th[u], th'[u])
    BY <1>2, Zenon DEF Firm
  <2> QED
    BY <2>1, StopFrame, Zenon DEF IInv
<1>7. WaiterWoken'
  <2>1. \A u \in Controllers : Patient(th[u], th'[u])
    BY <1>2, Apart, Zenon DEF Patient
  <2>2. \A u \in Sleepers : Rings(u)
    BY <1>2, Apart, Zenon DEF Rings
  <2>3. \A u \in Controllers : InRole(u, th[u]) /\ Sound(th[u])
    BY Apart, Zenon DEF IInv, Local
  <2> QED
    BY <2>1, <2>2, <2>3, WaiterFrame, Zenon DEF IInv
<1> QED
  BY <1>3, <1>4, <1>5, <1>6, <1>7, Zenon DEF IInv

(* Such a step leaves the events and the routines alone.                   *)
LEMMA OneThreadOnly ==
  ASSUME IInv, cast' = cast, NEW t \in Threads, NEW s \in Record, th' = [th EXCEPT ![t] = s],
         bucket' = bucket, ctx' = ctx, s.event = th[t].event,
         Sound(s), Timed(t)', AbortKept(t)', InRole(t, s),
         Firm(th[t], s), t \in Controllers => Patient(th[t], s),
         th[t].run /\ th[t].wake_active => s.run /\ s.wake_active
  PROVE  IInv'
<1>1. Types /\ BucketsExact /\ WakersExact /\ \A c \in Slots : ContextSound(c, ctx[c])
  BY Zenon DEF IInv
<1>2. bucket' \in [Buckets -> Seq(Threads)] /\ ctx' \in [Slots -> Context]
  BY <1>1, Zenon DEF Types
<1>3. th'[t] = s /\ \A u \in Threads : th'[u].event = th[u].event
  BY <1>1, Zenon DEF Types
<1>4. Calm /\ \A u \in Threads \ {t} : Aloof(u)
  BY <1>1, <1>2, Zenon DEF Calm, Aloof
<1>5. QueuesKept
  BY Zenon DEF QueuesKept
<1>6. BucketsExact' /\ WakersExact'
  BY <1>1, <1>3, <1>5, QueuesFrame, Zenon
<1>7. Rings(t)
  BY <1>3, Zenon DEF Rings
<1> QED
  BY <1>2, <1>4, <1>6, <1>7, OneThread, Zenon

(* One routine changes, and it has no threads to wake.                     *)
LEMMA ContextStep ==
  ASSUME IInv, NEW c \in Slots, NEW x \in Context, ctx' = [ctx EXCEPT ![c] = x],
         ContextSound(c, x), x.queue = <<>>, x.op # "waking",
         ctx[c].op \notin {"waking", "wakeup"}
  PROVE  /\ Calm /\ (bucket' = bucket => QueuesKept)
         /\ ctx'[c] = x /\ \A d \in Slots \ {c} : ctx'[d] = ctx[d]
         /\ \A u \in Threads : u # x.thread /\ u # ctx[c].thread => Aloof(u)
<1>1. Types /\ WakersExact /\ \A d \in Slots : ContextSound(d, ctx[d])
  BY Zenon DEF IInv
<1>2. ctx' \in [Slots -> Context] /\ ctx'[c] = x /\ \A d \in Slots \ {c} : ctx'[d] = ctx[d]
  BY <1>1, Zenon DEF Types
<1>3. Calm
  BY <1>1, <1>2, Zenon DEF Calm
<1>4. ctx[c].queue = <<>>
  BY <1>1, Zenon DEF WakersExact
<1>5. bucket' = bucket => QueuesKept
  BY <1>2, <1>4, Zenon DEF QueuesKept
<1>6. \A u \in Threads : u # x.thread /\ u # ctx[c].thread => Aloof(u)
  BY <1>2, Zenon DEF Aloof
<1> QED
  BY <1>2, <1>3, <1>5, <1>6, Zenon

(* A step of one thread and of one routine that is about it or idle.       *)
LEMMA OneThreadContext ==
  ASSUME IInv, cast' = cast, NEW t \in Threads, NEW s \in Record, th' = [th EXCEPT ![t] = s],
         bucket' = bucket, s.event = th[t].event,
         NEW c \in Slots, NEW x \in Context, ctx' = [ctx EXCEPT ![c] = x],
         ContextSound(c, x), x.queue = <<>>, x.op # "waking",
         ctx[c].op \notin {"waking", "wakeup"},
         x.thread \in {None, t}, ctx[c].thread \in {None, t},
         Sound(s), Timed(t)', AbortKept(t)', InRole(t, s),
         Firm(th[t], s), t \in Controllers => Patient(th[t], s), Rings(t)
  PROVE  IInv'
<1>1. Types /\ BucketsExact /\ WakersExact
  BY Zenon DEF IInv
<1>2. bucket' \in [Buckets -> Seq(Threads)]
  BY <1>1, Zenon DEF Types
<1>3. \A u \in Threads : th'[u].event = th[u].event
  BY <1>1, Zenon DEF Types
<1>4. Calm /\ QueuesKept /\ \A u \in Threads : u # x.thread /\ u # ctx[c].thread => Aloof(u)
  BY ContextStep, Zenon
<1>5. \A u \in Threads \ {t} : Aloof(u)
  BY <1>4, Apart, Zenon
<1>6. BucketsExact' /\ WakersExact'
  BY <1>1, <1>3, <1>4, QueuesFrame, Zenon
<1> QED
  BY <1>2, <1>4, <1>5, <1>6, OneThread, Zenon

-----------------------------------------------------------------------------
(* The steps, one by one.                                                  *)

(* What the invariant says of one thread.                                  *)
LEMMA ThreadFacts ==
  ASSUME IInv, NEW t \in Threads
  PROVE  /\ th \in [Threads -> Record] /\ th[t] \in Record
         /\ Sound(th[t]) /\ Timed(t) /\ AbortKept(t) /\ InRole(t, th[t])
<1>1. th \in [Threads -> Record] /\ Local(t)
  BY Zenon DEF IInv, Types
<1> QED
  BY <1>1, Zenon DEF Local

(* The timer of t and the routines are as they were.                       *)
LEMMA TimedKept ==
  ASSUME NEW t, Timed(t), ctx' = ctx, th'[t].refs = th[t].refs, th'[t].timer = th[t].timer
  PROVE  Timed(t)'
BY Zenon DEF Timed, Held, HeldFired

(* special_handler clears TH_ABORT.                                        *)
LEMMA AbortHandledStep ==
  ASSUME IInv, cast' = cast, NEW t \in Threads, AbortHandled(t)
  PROVE  IInv'
<1> DEFINE r == th[t]
           s == [r EXCEPT !.abort = FALSE]
<1>1. /\ th \in [Threads -> Record] /\ r \in Record
      /\ Sound(r) /\ Timed(t) /\ AbortKept(t) /\ InRole(t, r)
  BY ThreadFacts, Zenon
<1>2. th' = [th EXCEPT ![t] = s] /\ bucket' = bucket /\ ctx' = ctx
  BY Zenon DEF AbortHandled
<1>3. th'[t] = s
  BY <1>1, <1>2, Zenon
<1>4. s \in Record
  BY <1>1, Zenon DEF Record
<1>5. /\ s.run = r.run /\ s.wait = r.wait /\ s.unint = r.unint /\ s.susp = r.susp
      /\ s.event = r.event /\ s.wake_active = r.wake_active /\ s.timer = r.timer
      /\ s.refs = r.refs /\ s.place = r.place /\ s.pc = r.pc /\ s.target = r.target
      /\ s.phase = r.phase /\ s.abort = FALSE
  BY <1>1, Zenon DEF Record
<1> HIDE DEF s
<1>6. Sound(s) /\ InRole(t, s)
  <2>1. Sound(s)
    BY <1>1, <1>5, SoundKept, Zenon DEF Sound
  <2>2. InRole(t, s)
    BY <1>1, <1>5, Zenon DEF InRole
  <2> QED
    BY <2>1, <2>2, Zenon
<1>7. Timed(t)' /\ AbortKept(t)'
  BY <1>1, <1>2, <1>3, <1>5, TimedKept, Zenon DEF AbortKept
<1>8. Firm(r, s) /\ Patient(r, s)
  BY <1>5, Zenon DEF Firm, Grip, Patient
<1> QED
  BY <1>2, <1>4, <1>5, <1>6, <1>7, <1>8, OneThreadOnly, Zenon

(* Where thread_block returns to.                                          *)
LEMMA ReturnsFacts ==
  ASSUME IInv, NEW t \in Threads, th[t].pc \in {"select", "blocked"}
  PROVE  /\ Returns(t) \in {"run", "stop", "wait", "unstop"}
         /\ t \in Sleepers => Returns(t) = "run"
         /\ Returns(t) \in {"wait", "unstop"} => th[t].phase = "wait"
<1>1. th[t] \in Record
  BY ThreadFacts, Zenon
<1>2. th[t].phase \in {"stop", "wait"}
  BY <1>1, Zenon DEF Record
<1> QED
  BY <1>2, Zenon DEF Returns

(* thread_select finds that the thread may go on.                          *)
LEMMA StayStep ==
  ASSUME IInv, cast' = cast, NEW t \in Threads, Stay(t)
  PROVE  IInv'
<1> DEFINE r == th[t]
           p == Returns(t)
           s == [r EXCEPT !.pc = p]
<1>1. /\ th \in [Threads -> Record] /\ r \in Record
      /\ Sound(r) /\ Timed(t) /\ AbortKept(t) /\ InRole(t, r)
  BY ThreadFacts, Zenon
<1>2. /\ th' = [th EXCEPT ![t] = s] /\ bucket' = bucket /\ ctx' = ctx
      /\ r.place = "cpu" /\ r.pc = "select" /\ r.run /\ ~r.wait
  BY Zenon DEF Stay, Runs
<1>3. /\ p \in {"run", "stop", "wait", "unstop"} /\ (t \in Sleepers => p = "run")
      /\ p \in {"wait", "unstop"} => r.phase = "wait"
  BY <1>2, ReturnsFacts, Zenon
<1> HIDE DEF p
<1>4. th'[t] = s
  BY <1>1, <1>2, Zenon
<1>5. s \in Record
  <2>1. r \in Record /\ p \in ThreadPcs
    BY <1>1, <1>3, Zenon DEF ThreadPcs
  <2> HIDE DEF r
  <2> QED
    BY <2>1, ZenonT(30) DEF Record
<1>6. /\ s.run = r.run /\ s.wait = r.wait /\ s.unint = r.unint /\ s.susp = r.susp
      /\ s.event = r.event /\ s.wake_active = r.wake_active /\ s.timer = r.timer
      /\ s.refs = r.refs /\ s.place = r.place /\ s.pc = p /\ s.target = r.target
      /\ s.phase = r.phase
  BY <1>1, Zenon DEF Record
<1> HIDE DEF s
<1>7. s.pc \notin {"select", "blocked", "asserted", "holding", "timed", "panic"}
  BY <1>3, <1>6, Zenon
<1>8. Sound(s) /\ InRole(t, s)
  BY <1>1, <1>2, <1>3, <1>6, <1>7, Zenon DEF Sound, InRole
<1>9. Timed(t)' /\ AbortKept(t)'
  BY <1>1, <1>2, <1>4, <1>6, <1>7, TimedKept, Zenon DEF AbortKept
<1>10. Firm(r, s) /\ Patient(r, s)
  BY <1>2, <1>3, <1>6, <1>7, Zenon DEF Firm, Grip, Patient
<1> QED
  BY <1>2, <1>5, <1>6, <1>8, <1>9, <1>10, OneThreadOnly, Zenon

(* A processor takes a thread from a run queue.                            *)
LEMMA PickStep ==
  ASSUME IInv, cast' = cast, NEW t \in Threads, Pick(t)
  PROVE  IInv'
<1> DEFINE r == th[t]
           p == Returns(t)
           s == [r EXCEPT !.place = "cpu", !.unint = FALSE, !.pc = p]
<1>1. /\ th \in [Threads -> Record] /\ r \in Record
      /\ Sound(r) /\ Timed(t) /\ AbortKept(t) /\ InRole(t, r)
  BY ThreadFacts, Zenon
<1>2. th' = [th EXCEPT ![t] = s] /\ bucket' = bucket /\ ctx' = ctx /\ r.place = "runq"
  BY Zenon DEF Pick
<1>3. r.pc = "blocked" /\ ~r.wait
  BY <1>1, <1>2, Zenon DEF Sound
<1>4. /\ p \in {"run", "stop", "wait", "unstop"} /\ (t \in Sleepers => p = "run")
      /\ p \in {"wait", "unstop"} => r.phase = "wait"
  BY <1>3, ReturnsFacts, Zenon
<1> HIDE DEF p
<1>5. th'[t] = s
  BY <1>1, <1>2, Zenon
<1>6. s \in Record
  <2>1. r \in Record /\ p \in ThreadPcs
    BY <1>1, <1>4, Zenon DEF ThreadPcs
  <2> HIDE DEF r
  <2> QED
    BY <2>1, Zenon DEF Record
<1>7. /\ s.run = r.run /\ s.wait = r.wait /\ s.unint = FALSE /\ s.susp = r.susp
      /\ s.event = r.event /\ s.wake_active = r.wake_active /\ s.timer = r.timer
      /\ s.refs = r.refs /\ s.place = "cpu" /\ s.pc = p /\ s.target = r.target
      /\ s.phase = r.phase
  BY <1>1, Zenon DEF Record
<1> HIDE DEF s
<1>8. s.pc \notin {"select", "blocked", "asserted", "holding", "timed", "panic"}
  BY <1>4, <1>7, Zenon
<1>9. Sound(s) /\ InRole(t, s)
  BY <1>1, <1>2, <1>3, <1>4, <1>7, <1>8, Zenon DEF Sound, InRole
<1>10. Timed(t)' /\ AbortKept(t)'
  BY <1>1, <1>2, <1>5, <1>7, <1>8, TimedKept, Zenon DEF AbortKept
<1>11. Firm(r, s) /\ Patient(r, s)
  BY <1>3, <1>4, <1>7, <1>8, Zenon DEF Firm, Grip, Patient
<1> QED
  BY <1>2, <1>6, <1>7, <1>9, <1>10, <1>11, OneThreadOnly, Zenon

(* switch_context: the thread leaves the processor.                        *)
LEMMA SwitchStep ==
  ASSUME IInv, cast' = cast, NEW t \in Threads, Switch(t)
  PROVE  IInv'
<1> DEFINE r == th[t]
           s == [r EXCEPT !.pc = "blocked", !.place = "switch"]
<1>1. /\ th \in [Threads -> Record] /\ r \in Record
      /\ Sound(r) /\ Timed(t) /\ AbortKept(t) /\ InRole(t, r)
  BY ThreadFacts, Zenon
<1>2. /\ th' = [th EXCEPT ![t] = s] /\ bucket' = bucket /\ ctx' = ctx
      /\ r.place = "cpu" /\ r.pc = "select"
  BY <1>1, Zenon DEF Switch, Runs
<1>3. th'[t] = s
  BY <1>1, <1>2, Zenon
<1>4. s \in Record
  BY <1>1, Zenon DEF Record, ThreadPcs
<1>5. /\ s.run = r.run /\ s.wait = r.wait /\ s.unint = r.unint /\ s.susp = r.susp
      /\ s.event = r.event /\ s.wake_active = r.wake_active /\ s.timer = r.timer
      /\ s.refs = r.refs /\ s.place = "switch" /\ s.pc = "blocked" /\ s.target = r.target
      /\ s.phase = r.phase /\ s.abort = r.abort
  BY <1>1, Zenon DEF Record
<1> HIDE DEF s
<1>6. Sound(s) /\ InRole(t, s)
  BY <1>1, <1>2, <1>5, Zenon DEF Sound, InRole
<1>7. Timed(t)' /\ AbortKept(t)'
  BY <1>1, <1>2, <1>3, <1>5, TimedKept, Zenon DEF AbortKept, Interrupted, InterruptedBy
<1>8. Firm(r, s) /\ Patient(r, s)
  BY <1>2, <1>5, Zenon DEF Firm, Grip, Patient
<1> QED
  BY <1>2, <1>4, <1>5, <1>6, <1>7, <1>8, OneThreadOnly, Zenon

(* A controller chooses the thread to stop.                                *)
LEMMA StopWaitStep ==
  ASSUME IInv, cast' = cast, NEW c \in Controllers, NEW t \in Sleepers, StopWait(c, t)
  PROVE  IInv'
<1> DEFINE r == th[c]
           s == [r EXCEPT !.pc = "stop", !.target = t]
<1>0. c \in Threads /\ c \notin Sleepers
  BY Apart, Zenon
<1>1. /\ th \in [Threads -> Record] /\ r \in Record
      /\ Sound(r) /\ Timed(c) /\ AbortKept(c) /\ InRole(c, r)
  BY <1>0, ThreadFacts, Zenon
<1>2. /\ th' = [th EXCEPT ![c] = s] /\ bucket' = bucket /\ ctx' = ctx
      /\ r.place = "cpu" /\ r.pc = "run"
  BY <1>1, <1>0, Zenon DEF StopWait, Runs
<1>3. th'[c] = s
  BY <1>0, <1>1, <1>2, Zenon
<1>4. s \in Record
  BY <1>1, Zenon DEF Record, ThreadPcs
<1>5. /\ s.run = r.run /\ s.wait = r.wait /\ s.unint = r.unint /\ s.susp = r.susp
      /\ s.event = r.event /\ s.wake_active = r.wake_active /\ s.timer = r.timer
      /\ s.refs = r.refs /\ s.place = r.place /\ s.pc = "stop" /\ s.target = t
      /\ s.phase = r.phase /\ s.abort = r.abort
  BY <1>1, Zenon DEF Record
<1> HIDE DEF s
<1>6. Sound(s) /\ ~s.wait
  BY <1>1, <1>2, <1>5, Zenon DEF Sound
<1>7. InRole(c, s)
  BY <1>0, <1>1, <1>5, <1>6, Zenon DEF InRole
<1>8. Timed(c)' /\ AbortKept(c)'
  BY <1>1, <1>2, <1>3, <1>5, TimedKept, Zenon DEF AbortKept
<1>9. Firm(r, s) /\ Patient(r, s)
  BY <1>5, <1>6, Zenon DEF Firm, Grip, Patient
<1> QED
  BY <1>0, <1>2, <1>4, <1>5, <1>6, <1>7, <1>8, <1>9, OneThreadOnly, Zenon

(* set_timeout takes a reference for the timer.                            *)
LEMMA SetTimerFacts ==
  ASSUME NEW r \in Record, r.timer # "set"
  PROVE  LET s == SetTimer(r)
         IN /\ s \in Record /\ Core(r, s) /\ s.timer = "set" /\ s.refs = r.refs + 1
            /\ s.run = r.run /\ s.place = r.place /\ s.wait = r.wait /\ s.event = r.event
<1> DEFINE v == r.refs + 1
           s == [r EXCEPT !.timer = "set", !.refs = v]
<1>1. v \in Int
  BY DEF Record
<1>2. SetTimer(r) = s
  BY Zenon DEF SetTimer
<1> HIDE DEF v
<1>3. s \in Record
  BY <1>1, Zenon DEF Record
<1>4. /\ Core(r, s) /\ s.run = r.run /\ s.place = r.place /\ s.wait = r.wait
      /\ s.event = r.event /\ s.timer = "set" /\ s.refs = v
  BY Zenon DEF Record, Core
<1> HIDE DEF s
<1> QED
  BY <1>2, <1>3, <1>4, Zenon DEF v

(* A thread that is about to block may have set a timer.                   *)
LEMMA TimedStep ==
  ASSUME IInv, cast' = cast, NEW t \in Sleepers, th[t].timer # "set",
         NEW r \in Record, NEW timed \in BOOLEAN,
         r.run = th[t].run, r.unint = th[t].unint, r.susp = th[t].susp, r.event = th[t].event,
         r.wake_active = th[t].wake_active, r.refs = th[t].refs, r.timer = th[t].timer,
         r.place = "cpu", th[t].place = "cpu", r.pc = "timed", timed => r.wait,
         th[t].wait => r.wait, r.phase = th[t].phase,
         th' = [th EXCEPT ![t] = IF timed THEN SetTimer(r) ELSE r],
         UNCHANGED <<bucket, ctx>>
  PROVE  IInv'
<1> DEFINE s == IF timed THEN SetTimer(r) ELSE r
<1>0. t \in Threads /\ t \notin Controllers
  BY Apart, Zenon
<1>1. /\ th \in [Threads -> Record] /\ th[t] \in Record
      /\ Sound(th[t]) /\ Timed(t) /\ InRole(t, th[t])
  BY <1>0, ThreadFacts, Zenon
<1>2. /\ s \in Record /\ Core(r, s) /\ s.timer = (IF timed THEN "set" ELSE r.timer)
      /\ s.refs = (IF timed THEN r.refs + 1 ELSE r.refs)
      /\ s.run = r.run /\ s.place = r.place /\ s.wait = r.wait /\ s.event = r.event
  <2>1. CASE timed
    BY <2>1, SetTimerFacts, Zenon
  <2>2. CASE ~timed
    BY <2>2, Zenon DEF Core
  <2> QED
    BY <2>1, <2>2, Zenon
<1>3. th' = [th EXCEPT ![t] = s] /\ th'[t] = s
  BY <1>0, <1>1, Zenon
<1> HIDE DEF s
<1>4. Sound(s) /\ InRole(t, s)
  BY <1>0, <1>1, <1>2, Zenon DEF Sound, InRole, Core
<1>5. Timed(t)'
  <2>1. Held(t)' = Held(t) /\ HeldFired(t)' = HeldFired(t) /\ th[t].refs \in Int
    BY <1>1, Zenon DEF Held, HeldFired, Record
  <2>2. th'[t].refs >= (IF th'[t].timer = "set" THEN 1 ELSE 0) + (IF Held(t)' THEN 1 ELSE 0)
    BY <1>1, <1>2, <1>3, <2>1 DEF Timed
  <2> QED
    BY <1>1, <1>2, <1>3, <2>1, <2>2, Zenon DEF Timed
<1>6. AbortKept(t)'
  BY <1>2, <1>3, Zenon DEF AbortKept, Core
<1>7. Firm(th[t], s)
  BY <1>2, Zenon DEF Firm, Grip, Core
<1>8. s \in Record /\ s.event = th[t].event
  BY <1>2, Zenon
<1>9. th[t].run /\ th[t].wake_active => s.run /\ s.wake_active
  BY <1>2, Zenon DEF Core
<1> QED
  BY <1>0, <1>3, <1>4, <1>5, <1>6, <1>7, <1>8, <1>9, OneThreadOnly, Zenon

(* thread_will_wait, thread_will_wait_with_timeout.                        *)
LEMMA WillWaitStep ==
  ASSUME IInv, cast' = cast, NEW t \in Sleepers, NEW timed \in BOOLEAN, WillWait(t, timed)
  PROVE  IInv'
<1> DEFINE r == [th[t] EXCEPT !.wait = TRUE, !.pc = "timed"]
<1>0. t \in Threads
  BY Apart, Zenon
<1>1. th[t] \in Record /\ Sound(th[t])
  BY <1>0, ThreadFacts, Zenon
<1>2. /\ th' = [th EXCEPT ![t] = IF timed THEN SetTimer(r) ELSE r]
      /\ UNCHANGED <<bucket, ctx>> /\ th[t].place = "cpu" /\ th[t].pc = "run"
  BY Zenon DEF WillWait, Runs
<1>3. r \in Record
  BY <1>1, Zenon DEF Record, ThreadPcs
<1>4. /\ r.run = th[t].run /\ r.unint = th[t].unint /\ r.susp = th[t].susp
      /\ r.event = th[t].event /\ r.wake_active = th[t].wake_active /\ r.refs = th[t].refs
      /\ r.timer = th[t].timer /\ r.place = th[t].place /\ r.pc = "timed" /\ r.wait = TRUE
      /\ r.phase = th[t].phase
  BY <1>1, Zenon DEF Record
<1>5. th[t].timer # "set"
  BY <1>1, <1>2, Zenon DEF Sound
<1> HIDE DEF r
<1> QED
  BY <1>2, <1>3, <1>4, <1>5, TimedStep, Zenon

(* thread_set_timeout, after assert_wait.                                  *)
LEMMA ThreadSetTimeoutStep ==
  ASSUME IInv, cast' = cast, NEW t \in Sleepers, ThreadSetTimeout(t)
  PROVE  IInv'
<1> DEFINE r == [th[t] EXCEPT !.pc = "timed"]
           timed == th[t].wait
<1>0. t \in Threads
  BY Apart, Zenon
<1>1. th \in [Threads -> Record] /\ th[t] \in Record /\ Sound(th[t])
  BY <1>0, ThreadFacts, Zenon
<1>2. r \in Record
  BY <1>1, Zenon DEF Record, ThreadPcs
<1>3. /\ r.run = th[t].run /\ r.unint = th[t].unint /\ r.susp = th[t].susp
      /\ r.event = th[t].event /\ r.wake_active = th[t].wake_active /\ r.refs = th[t].refs
      /\ r.timer = th[t].timer /\ r.place = th[t].place /\ r.pc = "timed" /\ r.wait = th[t].wait
      /\ r.phase = th[t].phase
  BY <1>1, Zenon DEF Record
<1>4. timed \in BOOLEAN
  BY <1>1, Zenon DEF Record
<1>5. /\ th' = [th EXCEPT ![t] = IF timed THEN SetTimer(r) ELSE r]
      /\ UNCHANGED <<bucket, ctx>> /\ th[t].place = "cpu" /\ th[t].pc = "asserted"
  BY <1>3, Zenon DEF ThreadSetTimeout, Runs
<1>6. th[t].timer # "set"
  BY <1>1, <1>5, Zenon DEF Sound
<1> HIDE DEF r
<1> QED
  BY <1>2, <1>3, <1>4, <1>5, <1>6, TimedStep, Zenon

(* What is left of the invariant to show for a thread whose wait is over.  *)
LEMMA EndedFacts ==
  ASSUME NEW t \in Threads, NEW r \in Record, Sound(r), InRole(t, r), r.wait, NEW s, Ended(r, s)
  PROVE  Sound(s) /\ InRole(t, s) /\ Firm(r, s) /\ Patient(r, s)
<1>1. Sound(s)
  BY EndedSound, Zenon
<1>2. Core(r, s) /\ s.wait = FALSE /\ s.event = None
  BY Zenon DEF Ended
<1>3. InRole(t, s)
  BY <1>2, Apart, Zenon DEF InRole, Core
<1>4. Firm(r, s)
  BY <1>2, Zenon DEF Firm, Grip, Core, Ended, InRole
<1>5. Patient(r, s)
  BY <1>2, Zenon DEF Patient
<1> QED
  BY <1>1, <1>3, <1>4, <1>5, Zenon

(* The timer of a wait that is over is gone, and so is its reference.      *)
LEMMA EndedTimed ==
  ASSUME NEW t \in Threads, Timed(t), th[t] \in Record, Ended(th[t], th'[t]), Held(t)' => Held(t)
  PROVE  Timed(t)' /\ AbortKept(t)'
<1>1. /\ th'[t].timer = "unset" /\ th'[t].wait = FALSE /\ th[t].refs \in Int
      /\ th'[t].refs = IF th[t].timer = "set" THEN th[t].refs - 1 ELSE th[t].refs
  BY Zenon DEF Ended, Record
<1>2. th[t].refs >= (IF th[t].timer = "set" THEN 1 ELSE 0) + (IF Held(t) THEN 1 ELSE 0)
  BY Zenon DEF Timed
<1>3. th'[t].refs >= IF Held(t)' THEN 1 ELSE 0
  BY <1>1, <1>2
<1>4. th'[t].refs >= (IF th'[t].timer = "set" THEN 1 ELSE 0) + (IF Held(t)' THEN 1 ELSE 0)
  BY <1>1, <1>3
<1> QED
  BY <1>1, <1>4, Zenon DEF Timed, AbortKept

(* thread_go.                                                              *)
LEMMA ThreadGoStep ==
  ASSUME IInv, cast' = cast, NEW t \in Threads, ThreadGo(t)
  PROVE  IInv'
<1> DEFINE r == th[t]
           a == ResetTimer(r)
           b == [a EXCEPT !.wait = FALSE, !.result = "awakened"]
           s == IF a.run THEN b ELSE Setrun(b)
<1>1. /\ th \in [Threads -> Record] /\ r \in Record
      /\ Sound(r) /\ Timed(t) /\ AbortKept(t) /\ InRole(t, r)
  BY ThreadFacts, Zenon
<1>2. /\ th' = [th EXCEPT ![t] = s] /\ bucket' = bucket /\ ctx' = ctx
      /\ r.wait /\ r.event = None /\ cast.ipcWaits
  BY Zenon DEF ThreadGo
<1>3. th'[t] = s
  BY <1>1, <1>2, Zenon
<1>4. Ended(r, s)
  BY <1>1, <1>2, GoneFacts, Zenon
<1> HIDE DEF s
<1>5. Held(t)' => Held(t)
  BY <1>2, Zenon DEF Held
<1>6. Timed(t)' /\ AbortKept(t)'
  BY <1>1, <1>3, <1>4, <1>5, EndedTimed, Zenon
<1>7. Sound(s) /\ InRole(t, s) /\ Firm(r, s) /\ Patient(r, s)
  BY <1>1, <1>2, <1>4, EndedFacts, Zenon
<1>8. s \in Record /\ s.event = r.event /\ (r.run /\ r.wake_active => s.run /\ s.wake_active)
  BY <1>2, <1>4, Zenon DEF Ended, Core
<1> QED
  BY <1>2, <1>6, <1>7, <1>8, OneThreadOnly, Zenon

-----------------------------------------------------------------------------
(* Steps of a thread and a routine.                                        *)
(* The record of a routine on thread u, event e, with no threads to wake.  *)
Made(x, o, u, e, res) ==
  /\ x \in Context /\ x.op = o /\ x.thread = u /\ x.event = e /\ x.result = res
  /\ x.queue = <<>>

(* The records that the steps make of the idle one.                        *)
LEMMA MadeFacts ==
  /\ Made(Idle, "idle", None, None, "awakened")
  /\ \A t \in Threads :
       /\ Made([Idle EXCEPT !.op = "fired", !.thread = t], "fired", t, None, "awakened")
       /\ Made([Idle EXCEPT !.op = "dealloc", !.thread = t], "dealloc", t, None, "awakened")
       /\ Made([Idle EXCEPT !.op = "abort", !.thread = t], "abort", t, None, "awakened")
  /\ \A e \in Buckets :
       Made([Idle EXCEPT !.op = "wakeup", !.event = e], "wakeup", None, e, "awakened")
  /\ \A t \in Threads, e \in Buckets, res \in Results :
       Made([Idle EXCEPT !.op = "clear", !.thread = t, !.event = e, !.result = res],
            "clear", t, e, res)
<1>1. Made(Idle, "idle", None, None, "awakened")
  BY DEF Idle, Made, Context, Ops, Results
<1>2. /\ Idle \in Context /\ Idle.op = "idle" /\ Idle.thread = None /\ Idle.event = None
      /\ Idle.result = "awakened" /\ Idle.queue = <<>>
  BY <1>1, Zenon DEF Made
<1>3. ASSUME NEW t \in Threads
      PROVE  /\ Made([Idle EXCEPT !.op = "fired", !.thread = t], "fired", t, None, "awakened")
             /\ Made([Idle EXCEPT !.op = "dealloc", !.thread = t], "dealloc", t, None, "awakened")
             /\ Made([Idle EXCEPT !.op = "abort", !.thread = t], "abort", t, None, "awakened")
  BY <1>2, Zenon DEF Made, Context, Ops
<1>4. ASSUME NEW e \in Buckets
      PROVE  Made([Idle EXCEPT !.op = "wakeup", !.event = e], "wakeup", None, e, "awakened")
  BY <1>2, Zenon DEF Made, Context, Ops
<1>5. ASSUME NEW t \in Threads, NEW e \in Buckets, NEW res \in Results
      PROVE  Made([Idle EXCEPT !.op = "clear", !.thread = t, !.event = e, !.result = res],
                  "clear", t, e, res)
  BY <1>2, Zenon DEF Made, Context, Ops
<1> QED
  BY <1>1, <1>3, <1>4, <1>5, Zenon

(* What the invariant says of one routine.                                 *)
LEMMA ContextFacts ==
  ASSUME IInv, NEW c \in Slots
  PROVE  /\ ctx \in [Slots -> Context] /\ ctx[c] \in Context /\ ContextSound(c, ctx[c])
         /\ ctx[c].op \in Ops /\ ctx[c].result \in Results
<1>1. ctx \in [Slots -> Context] /\ ContextSound(c, ctx[c])
  BY Zenon DEF IInv, Types
<1> QED
  BY <1>1, Zenon DEF Context

(* softclock takes an expired timer.                                       *)
LEMMA FireStep ==
  ASSUME IInv, cast' = cast, NEW t \in Threads, Fire(t)
  PROVE  IInv'
<1> DEFINE r == th[t]
           s == [r EXCEPT !.timer = "pending"]
           x == [Idle EXCEPT !.op = "fired", !.thread = t]
<1>1. /\ th \in [Threads -> Record] /\ r \in Record
      /\ Sound(r) /\ Timed(t) /\ AbortKept(t) /\ InRole(t, r)
  BY ThreadFacts, Zenon
<1>2. Softclock \in Slots /\ t # None
  BY Apart, Zenon
<1>3. ctx \in [Slots -> Context] /\ ContextSound(Softclock, ctx[Softclock])
  BY <1>2, ContextFacts, Zenon
<1>4. /\ th' = [th EXCEPT ![t] = s] /\ bucket' = bucket
      /\ ctx' = [ctx EXCEPT ![Softclock] = x] /\ r.timer = "set" /\ ctx[Softclock].op = "idle"
  BY Zenon DEF Fire
<1>5. /\ x \in Context /\ x.op = "fired" /\ x.thread = t /\ x.event = None /\ x.queue = <<>>
  <2>1. Made(x, "fired", t, None, "awakened")
    BY MadeFacts, Zenon
  <2> HIDE DEF x
  <2> QED
    BY <2>1, Zenon DEF Made
<1> HIDE DEF x
<1>6. th'[t] = s /\ ctx'[Softclock] = x /\ \A d \in Slots \ {Softclock} : ctx'[d] = ctx[d]
  BY <1>1, <1>2, <1>3, <1>4, Zenon
<1>7. s \in Record
  BY <1>1, Zenon DEF Record
<1>8. /\ s.run = r.run /\ s.wait = r.wait /\ s.unint = r.unint /\ s.susp = r.susp
      /\ s.event = r.event /\ s.wake_active = r.wake_active /\ s.timer = "pending"
      /\ s.refs = r.refs /\ s.place = r.place /\ s.pc = r.pc /\ s.target = r.target
      /\ s.phase = r.phase /\ s.abort = r.abort
  BY <1>1, Zenon DEF Record
<1> HIDE DEF s
<1>9. ContextSound(Softclock, x) /\ ctx[Softclock].thread = None
  BY <1>3, <1>4, <1>5, Zenon DEF ContextSound
<1>10. Sound(s) /\ InRole(t, s)
  BY <1>1, <1>4, <1>8 DEF Sound, InRole
<1>11. Timed(t)'
  <2>1. ~Held(t) /\ Held(t)' /\ HeldFired(t)' /\ r.refs \in Int
    BY <1>1, <1>4, <1>5, <1>6, Zenon DEF Held, HeldFired, Record
  <2>2. r.refs >= 1
    BY <1>1, <1>4, <2>1 DEF Timed
  <2> QED
    BY <1>6, <1>8, <2>1, <2>2 DEF Timed
<1>12. AbortKept(t)'
  <2>1. \A d \in Slots : InterruptedBy(d, t) => InterruptedBy(d, t)'
    BY <1>4, <1>6, <1>8, Zenon DEF InterruptedBy
  <2> QED
    BY <1>1, <1>6, <1>8, <2>1, Zenon DEF AbortKept, Interrupted
<1>13. Firm(r, s) /\ Patient(r, s) /\ Rings(t)
  BY <1>6, <1>8, Zenon DEF Firm, Grip, Patient, Rings
<1> QED
  BY <1>2, <1>4, <1>5, <1>7, <1>8, <1>9, <1>10, <1>11, <1>12, <1>13, OneThreadContext, Zenon

(* act_abort sets TH_ABORT.                                                *)
LEMMA AbortStep ==
  ASSUME IInv, cast' = cast, NEW t \in Threads, NEW c \in Contexts, Abort(c, t)
  PROVE  IInv'
<1> DEFINE r == th[t]
           s == [r EXCEPT !.abort = TRUE]
           x == [Idle EXCEPT !.op = "abort", !.thread = t]
<1>1. /\ th \in [Threads -> Record] /\ r \in Record
      /\ Sound(r) /\ Timed(t) /\ AbortKept(t) /\ InRole(t, r)
  BY ThreadFacts, Zenon
<1>2. c \in Slots /\ c # Softclock /\ t # None /\ Softclock \in Slots
  BY Apart, Zenon
<1>3. ctx \in [Slots -> Context] /\ ContextSound(c, ctx[c])
  BY <1>2, ContextFacts, Zenon
<1>4. /\ th' = [th EXCEPT ![t] = s] /\ bucket' = bucket
      /\ ctx' = [ctx EXCEPT ![c] = x] /\ ctx[c].op = "idle"
  BY Zenon DEF Abort
<1>5. /\ x \in Context /\ x.op = "abort" /\ x.thread = t /\ x.event = None /\ x.queue = <<>>
  <2>1. Made(x, "abort", t, None, "awakened")
    BY MadeFacts, Zenon
  <2> HIDE DEF x
  <2> QED
    BY <2>1, Zenon DEF Made
<1> HIDE DEF x
<1>6. th'[t] = s /\ ctx'[c] = x /\ \A d \in Slots \ {c} : ctx'[d] = ctx[d]
  BY <1>1, <1>2, <1>3, <1>4, Zenon
<1>7. s \in Record
  BY <1>1, Zenon DEF Record
<1>8. /\ s.run = r.run /\ s.wait = r.wait /\ s.unint = r.unint /\ s.susp = r.susp
      /\ s.event = r.event /\ s.wake_active = r.wake_active /\ s.timer = r.timer
      /\ s.refs = r.refs /\ s.place = r.place /\ s.pc = r.pc /\ s.target = r.target
      /\ s.phase = r.phase
  BY <1>1, Zenon DEF Record
<1> HIDE DEF s
<1>9. ContextSound(c, x) /\ ctx[c].thread = None
  BY <1>2, <1>3, <1>4, <1>5, Zenon DEF ContextSound
<1>10. Sound(s) /\ InRole(t, s)
  BY <1>1, <1>8, Zenon DEF Sound, InRole
<1>11. Timed(t)'
  BY <1>1, <1>2, <1>6, <1>8, Zenon DEF Timed, Held, HeldFired
<1>12. AbortKept(t)'
  BY <1>2, <1>5, <1>6, Zenon DEF AbortKept, Interrupted, InterruptedBy
<1>13. Firm(r, s) /\ Patient(r, s) /\ Rings(t)
  BY <1>6, <1>8, Zenon DEF Firm, Grip, Patient, Rings
<1> QED
  BY <1>2, <1>4, <1>5, <1>7, <1>8, <1>9, <1>10, <1>11, <1>12, <1>13, OneThreadContext, Zenon

(* thread_timeout gives the reference of the timer back.                   *)
LEMMA ThreadDeallocateStep ==
  ASSUME IInv, cast' = cast, ThreadDeallocate, NEW t, t = ctx[Softclock].thread
  PROVE  IInv'
<1> DEFINE r == th[t]
           v == r.refs - 1
           s == [r EXCEPT !.refs = v]
<1>1. Softclock \in Slots
  BY Apart, Zenon
<1>2. ctx \in [Slots -> Context] /\ ContextSound(Softclock, ctx[Softclock])
  BY <1>1, ContextFacts, Zenon
<1>3. ctx[Softclock].op = "dealloc" /\ bucket' = bucket /\ ctx' = [ctx EXCEPT ![Softclock] = Idle]
  BY Zenon DEF ThreadDeallocate
<1>4. t \in Threads /\ t # None
  BY <1>2, <1>3, Apart, Zenon DEF ContextSound
<1>5. /\ th \in [Threads -> Record] /\ r \in Record
      /\ Sound(r) /\ Timed(t) /\ AbortKept(t) /\ InRole(t, r)
  BY <1>4, ThreadFacts, Zenon
<1>6. th' = [th EXCEPT ![t] = s]
  BY Zenon DEF ThreadDeallocate
<1>7. Held(t) /\ ~HeldFired(t)
  BY <1>3, <1>4, Zenon DEF Held, HeldFired
<1>8. r.refs \in Int /\ v \in Int /\ v >= (IF r.timer = "set" THEN 1 ELSE 0)
      /\ r.timer # "pending"
  BY <1>5, <1>7 DEF Timed, Record
<1>9. Made(Idle, "idle", None, None, "awakened")
  BY MadeFacts, Zenon
<1>10. th'[t] = s /\ ctx'[Softclock] = Idle /\ \A d \in Slots \ {Softclock} : ctx'[d] = ctx[d]
  BY <1>1, <1>2, <1>3, <1>4, <1>5, <1>6, Zenon
<1> HIDE DEF v
<1>11. s \in Record
  BY <1>5, <1>8, Zenon DEF Record
<1>12. /\ s.run = r.run /\ s.wait = r.wait /\ s.unint = r.unint /\ s.susp = r.susp
      /\ s.event = r.event /\ s.wake_active = r.wake_active /\ s.timer = r.timer
      /\ s.refs = v /\ s.place = r.place /\ s.pc = r.pc /\ s.target = r.target
      /\ s.phase = r.phase /\ s.abort = r.abort
  BY <1>5, Zenon DEF Record
<1> HIDE DEF s
<1>13. ContextSound(Softclock, Idle)
  BY <1>9, Zenon DEF ContextSound, Made
<1>14. Sound(s) /\ InRole(t, s)
  <2>1. Sound(s)
    BY <1>5, <1>12, Zenon DEF Sound
  <2>2. InRole(t, s)
    BY <1>5, <1>12, Zenon DEF InRole
  <2> QED
    BY <2>1, <2>2, SMTT(30)
<1>15. Timed(t)'
  <2>1. ~Held(t)' /\ s.refs >= IF s.timer = "set" THEN 1 ELSE 0
    BY <1>8, <1>9, <1>10, <1>12, Zenon DEF Held, Made
  <2> QED
    BY <1>8, <1>10, <1>12, <2>1 DEF Timed
<1>16. AbortKept(t)'
  <2>1. \A d \in Slots : InterruptedBy(d, t) => InterruptedBy(d, t)'
    BY <1>3, <1>10, <1>12, Zenon DEF InterruptedBy
  <2> QED
    BY <1>5, <1>10, <1>12, <2>1, Zenon DEF AbortKept, Interrupted
<1>17. Firm(r, s) /\ Patient(r, s) /\ Rings(t)
  BY <1>10, <1>12, Zenon DEF Firm, Grip, Patient, Rings
<1>18. ctx[Softclock].thread \in {None, t}
  BY Zenon
<1> QED
  BY <1>1, <1>3, <1>4, <1>6, <1>9, <1>11, <1>12, <1>13, <1>14, <1>15, <1>16, <1>17, <1>18,
     OneThreadContext, Zenon DEF Made

(* thread_dispatch takes a thread that waits off its processor and wakes   *)
(* those who wait for that.                                                *)
LEMMA DispatchOffStep ==
  ASSUME IInv, cast' = cast, NEW t \in Threads, NEW c \in Contexts, Dispatch(c, t), th[t].wait
  PROVE  IInv'
<1> DEFINE r == th[t]
           s == [r EXCEPT !.run = FALSE, !.place = "off", !.wake_active = FALSE]
           x == IF r.wake_active THEN [Idle EXCEPT !.op = "wakeup", !.event = t] ELSE ctx[c]
<1>1. /\ th \in [Threads -> Record] /\ r \in Record
      /\ Sound(r) /\ Timed(t) /\ AbortKept(t) /\ InRole(t, r)
  BY ThreadFacts, Zenon
<1>2. c \in Slots /\ c # Softclock /\ t # None /\ Softclock \in Slots
  BY Apart, Zenon
<1>3. ctx \in [Slots -> Context] /\ ContextSound(c, ctx[c]) /\ ctx[c] \in Context
  BY <1>2, ContextFacts, Zenon
<1>4. r.place = "switch" /\ ctx[c].op = "idle" /\ bucket' = bucket
  BY Zenon DEF Dispatch
<1>5. r.run /\ r.pc = "blocked"
  BY <1>1, <1>4, Zenon DEF Sound
<1>6. th' = [th EXCEPT ![t] = s] /\ ctx' = [ctx EXCEPT ![c] = x]
  BY <1>2, <1>3, <1>5, Zenon DEF Dispatch
<1>7. r.wake_active => t \in Sleepers /\ t \in Buckets
  BY <1>1, Apart, Zenon DEF InRole, Threads
<1>8. /\ x \in Context /\ x.thread = None /\ x.queue = <<>> /\ x.op # "waking"
      /\ ContextSound(c, x) /\ ctx[c].thread = None
      /\ r.wake_active => x.op = "wakeup" /\ x.event = t
  <2>1. CASE r.wake_active
    <3>1. Made(x, "wakeup", None, t, "awakened")
      BY <2>1, <1>7, MadeFacts, Zenon
    <3> HIDE DEF x
    <3>2. ContextSound(c, x) /\ ctx[c].thread = None
      BY <1>2, <1>3, <1>4, <1>7, <2>1, <3>1, Zenon DEF ContextSound, Made
    <3> QED
      BY <3>1, <3>2, Zenon DEF Made
  <2>2. CASE ~r.wake_active
    <3>1. x = ctx[c]
      BY <2>2, Zenon
    <3>2. ctx[c].queue = <<>>
      BY <1>2, <1>4, Zenon DEF IInv, WakersExact
    <3> QED
      BY <1>3, <1>4, <2>2, <3>1, <3>2, Zenon DEF ContextSound
  <2> QED
    BY <2>1, <2>2, Zenon
<1> HIDE DEF x
<1>9. th'[t] = s /\ ctx'[c] = x /\ \A d \in Slots \ {c} : ctx'[d] = ctx[d]
  BY <1>1, <1>2, <1>3, <1>6, Zenon
<1>10. s \in Record
  BY <1>1, Zenon DEF Record
<1>11. /\ s.run = FALSE /\ s.wait = r.wait /\ s.unint = r.unint /\ s.susp = r.susp
      /\ s.event = r.event /\ s.wake_active = FALSE /\ s.timer = r.timer
      /\ s.refs = r.refs /\ s.place = "off" /\ s.pc = r.pc /\ s.target = r.target
      /\ s.phase = r.phase /\ s.abort = r.abort
  BY <1>1, Zenon DEF Record
<1> HIDE DEF s
<1>12. Sound(s) /\ InRole(t, s)
  BY <1>1, <1>4, <1>5, <1>11, Zenon DEF Sound, InRole
<1>13. Timed(t)'
  BY <1>1, <1>2, <1>9, <1>11, ZenonT(30) DEF Timed, Held, HeldFired
<1>14. AbortKept(t)'
  <2>1. \A d \in Slots : InterruptedBy(d, t) => InterruptedBy(d, t)'
    BY <1>4, <1>9, <1>11, Zenon DEF InterruptedBy
  <2> QED
    BY <1>1, <1>9, <1>11, <2>1, Zenon DEF AbortKept, Interrupted
<1>15. Firm(r, s) /\ Patient(r, s)
  BY <1>11, Zenon DEF Firm, Grip, Patient
<1>16. Rings(t)
  BY <1>2, <1>8, <1>9, Zenon DEF Rings, WakePending
<1> QED
  BY <1>2, <1>4, <1>6, <1>8, <1>10, <1>11, <1>12, <1>13, <1>14, <1>15, <1>16,
     OneThreadContext, Zenon

(* thread_dispatch puts a thread that does not wait on a run queue.        *)
LEMMA DispatchStep ==
  ASSUME IInv, cast' = cast, NEW t \in Threads, NEW c \in Contexts, Dispatch(c, t)
  PROVE  IInv'
<1> DEFINE r == th[t]
           s == [r EXCEPT !.place = "runq"]
<1> SUFFICES ASSUME ~r.wait PROVE IInv'
  BY DispatchOffStep, Zenon
<1>1. /\ th \in [Threads -> Record] /\ r \in Record
      /\ Sound(r) /\ Timed(t) /\ AbortKept(t) /\ InRole(t, r)
  BY ThreadFacts, Zenon
<1>2. r.place = "switch" /\ bucket' = bucket
  BY Zenon DEF Dispatch
<1>3. r.run /\ r.pc = "blocked"
  BY <1>1, <1>2, Zenon DEF Sound
<1>4. th' = [th EXCEPT ![t] = s] /\ ctx' = ctx
  BY <1>3, Zenon DEF Dispatch
<1>5. th'[t] = s
  BY <1>1, <1>4, Zenon
<1>6. s \in Record
  BY <1>1, Zenon DEF Record
<1>7. /\ s.run = r.run /\ s.wait = r.wait /\ s.unint = r.unint /\ s.susp = r.susp
      /\ s.event = r.event /\ s.wake_active = r.wake_active /\ s.timer = r.timer
      /\ s.refs = r.refs /\ s.place = "runq" /\ s.pc = r.pc /\ s.target = r.target
      /\ s.phase = r.phase
  BY <1>1, Zenon DEF Record
<1> HIDE DEF s
<1>8. Sound(s) /\ InRole(t, s)
  BY <1>1, <1>3, <1>7, Zenon DEF Sound, InRole
<1>9. Timed(t)' /\ AbortKept(t)'
  BY <1>1, <1>4, <1>5, <1>7, TimedKept, Zenon DEF AbortKept
<1>10. Firm(r, s) /\ Patient(r, s)
  BY <1>7, Zenon DEF Firm, Grip, Patient
<1> QED
  BY <1>2, <1>4, <1>6, <1>7, <1>8, <1>9, <1>10, OneThreadOnly, Zenon

(* clear_wait up to the point where it drops the thread lock: the wait is  *)
(* over, or somebody else ends it, or the routine goes on for its event.   *)
LEMMA ClearWaitStep ==
  ASSUME IInv, cast' = cast, NEW t \in Threads, NEW c \in Slots, NEW r \in Record,
         NEW res \in Results, NEW only \in BOOLEAN, NEW S,
         S.th = [th EXCEPT ![t] = r], S.bucket = bucket, S.ctx = ctx,
         S = [th |-> S.th, bucket |-> S.bucket, ctx |-> S.ctx],
         Become(ClearWait(S, c, t, res, only)),
         ctx[c].op \notin {"waking", "wakeup"}, ctx[c].thread \in {None, t},
         c = Softclock => Held(t) /\ r.timer # "pending",
         r.event = th[t].event, Sound(r), InRole(t, r), Firm(th[t], r),
         t \in Controllers => Patient(th[t], r),
         r.run = th[t].run, r.wake_active = th[t].wake_active,
         r.refs >= (IF r.timer = "set" THEN 1 ELSE 0) + (IF Held(t) THEN 1 ELSE 0),
         r.timer = "pending" => HeldFired(t)
  PROVE  IInv'
<1> DEFINE done == IF c = Softclock THEN [Idle EXCEPT !.op = "dealloc", !.thread = t] ELSE Idle
           go == [Idle EXCEPT !.op = "clear", !.thread = t, !.event = r.event, !.result = res]
<1>1. th \in [Threads -> Record] /\ ctx \in [Slots -> Context] /\ S.th[t] = r
  BY ThreadFacts, ContextFacts, Zenon
<1>2. /\ bucket' = bucket
      /\ \/ /\ (only /\ r.unint) \/ r.event = Waking
            /\ th' = [th EXCEPT ![t] = r] /\ ctx' = [ctx EXCEPT ![c] = done]
         \/ /\ r.event = None
            /\ th' = [th EXCEPT ![t] = ClearBits(r, res)] /\ ctx' = [ctx EXCEPT ![c] = done]
         \/ /\ r.event \notin {Waking, None}
            /\ th' = [th EXCEPT ![t] = r] /\ ctx' = [ctx EXCEPT ![c] = go]
  <2>1. CASE (only /\ r.unint) \/ r.event = Waking
    <3>1. Become([S EXCEPT !.ctx[c] = done])
      BY <1>1, <2>1, Zenon DEF ClearWait, Cleared
    <3> QED
      BY <2>1, <3>1, Zenon DEF Become
  <2>2. CASE ~((only /\ r.unint) \/ r.event = Waking) /\ r.event = None
    <3> DEFINE b == ClearBits(r, res)
               R == [[S EXCEPT !.th[t] = b] EXCEPT !.ctx[c] = done]
    <3>1. Become(R)
      BY <1>1, <2>2, Zenon DEF ClearWait, Cleared
    <3> HIDE DEF b, done
    <3>2. R.bucket = bucket /\ R.th = [S.th EXCEPT ![t] = b] /\ R.ctx = [ctx EXCEPT ![c] = done]
      BY Zenon
    <3>3. [S.th EXCEPT ![t] = b] = [th EXCEPT ![t] = b]
      BY Zenon
    <3> HIDE DEF R
    <3>4. bucket' = bucket /\ th' = [th EXCEPT ![t] = b] /\ ctx' = [ctx EXCEPT ![c] = done]
      BY <3>1, <3>2, <3>3, Zenon DEF Become
    <3> QED
      BY <2>2, <3>4, Zenon DEF b, done
  <2>3. CASE ~((only /\ r.unint) \/ r.event = Waking) /\ r.event # None
    <3>1. Become([S EXCEPT !.ctx[c] = go])
      BY <1>1, <2>3, Zenon DEF ClearWait
    <3> QED
      BY <2>3, <3>1, Zenon DEF Become
  <2> QED
    BY <2>1, <2>2, <2>3, Zenon
<1>3. /\ done \in Context /\ done.thread \in {None, t} /\ done.queue = <<>>
      /\ done.op = IF c = Softclock THEN "dealloc" ELSE "idle"
      /\ c = Softclock => done.thread = t
      /\ ContextSound(c, done)
  <2>1. CASE c = Softclock
    <3>1. Made(done, "dealloc", t, None, "awakened")
      BY <2>1, MadeFacts, Zenon
    <3> HIDE DEF done
    <3> QED
      BY <2>1, <3>1, Zenon DEF Made, ContextSound
  <2>2. CASE c # Softclock
    <3>1. Made(done, "idle", None, None, "awakened")
      BY <2>2, MadeFacts, Zenon
    <3> HIDE DEF done
    <3> QED
      BY <2>2, <3>1, Zenon DEF Made, ContextSound
  <2> QED
    BY <2>1, <2>2, Zenon
<1>4. ASSUME r.event \notin {Waking, None}
      PROVE  /\ go \in Context /\ go.thread = t /\ go.queue = <<>> /\ go.op = "clear"
             /\ go.event = r.event /\ ContextSound(c, go)
  <2>1. r.event \in Buckets
    BY <1>4, Zenon DEF Record
  <2>2. Made(go, "clear", t, r.event, res)
    BY <2>1, MadeFacts, Zenon
  <2> HIDE DEF go
  <2> QED
    BY <2>1, <2>2, Zenon DEF Made, ContextSound
<1> HIDE DEF done, go
<1>5. ASSUME NEW x, ctx' = [ctx EXCEPT ![c] = x], x.op # "idle" => x.thread = t,
             c = Softclock => x.op # "idle" /\ x.thread = t
      PROVE  (Held(t)' <=> Held(t)) /\ (c # Softclock => (HeldFired(t)' <=> HeldFired(t)))
  <2>1. ctx'[c] = x /\ \A d \in Slots \ {c} : ctx'[d] = ctx[d]
    BY <1>1, <1>5, Zenon
  <2> QED
    BY <1>5, <2>1, Apart, Zenon DEF Held, HeldFired
<1>6. ASSUME th'[t] = r, (Held(t)' <=> Held(t)) /\ (c # Softclock => (HeldFired(t)' <=> HeldFired(t)))
      PROVE  Timed(t)'
  BY <1>6, Zenon DEF Timed
<1>7. CASE /\ (only /\ r.unint) \/ r.event = Waking
           /\ th' = [th EXCEPT ![t] = r] /\ ctx' = [ctx EXCEPT ![c] = done]
  <2>1. th'[t] = r
    BY <1>1, <1>7, Zenon
  <2>2. Timed(t)'
    BY <1>3, <1>5, <1>6, <1>7, <2>1, Zenon
  <2>3. AbortKept(t)'
    BY <1>7, <2>1, Zenon DEF AbortKept, Interrupted
  <2>4. Rings(t) /\ done.op # "waking"
    BY <1>3, <2>1, Zenon DEF Rings
  <2> QED
    BY <1>2, <1>3, <1>7, <2>2, <2>3, <2>4, OneThreadContext, Zenon
<1>8. CASE /\ r.event = None
           /\ th' = [th EXCEPT ![t] = ClearBits(r, res)] /\ ctx' = [ctx EXCEPT ![c] = done]
  <2> DEFINE s == ClearBits(r, res)
  <2>1. th'[t] = s
    BY <1>1, <1>8, Zenon
  <2>2. (r.wait => Ended(r, s)) /\ (~r.wait => Alike(r, s))
    BY <1>8, ClearBitsFacts, Zenon
  <2> HIDE DEF s
  <2>3. s \in Record /\ s.event = None /\ s.wait = FALSE /\ Core(r, s) /\ (r.run => s.run)
        /\ s.timer = "unset" /\ s.refs = IF r.timer = "set" THEN r.refs - 1 ELSE r.refs
    <3>1. CASE r.wait
      BY <2>2, <3>1, Zenon DEF Ended
    <3>2. CASE ~r.wait
      BY <1>8, <2>2, <3>2, Zenon DEF Alike, Sound, Record
    <3> QED
      BY <3>1, <3>2, Zenon
  <2>4. Sound(s) /\ InRole(t, s) /\ Firm(r, s)
    <3>1. CASE r.wait
      BY <2>2, <3>1, EndedFacts, Zenon
    <3>2. CASE ~r.wait
      <4>1. Sound(s)
        BY <2>2, <3>2, Zenon DEF Alike, Core, Sound
      <4>2. InRole(t, s)
        BY <2>2, <3>2, Zenon DEF Alike, Core, InRole
      <4>3. Firm(r, s)
        BY <2>2, <3>2, Zenon DEF Alike, Core, Firm, Grip
      <4> QED
        BY <4>1, <4>2, <4>3, Zenon
    <3> QED
      BY <3>1, <3>2, Zenon
  <2>5. Firm(th[t], s) /\ Patient(th[t], s)
    BY <2>3, <2>4, Zenon DEF Firm, Patient
  <2>6. Rings(t)
    BY <2>1, <2>3, Zenon DEF Rings, Core
  <2>7. Held(t)' <=> Held(t)
    BY <1>3, <1>5, <1>8, Zenon
  <2>8. Timed(t)' /\ AbortKept(t)'
    <3>1. r.refs \in Int
      BY Zenon DEF Record
    <3>2. s.refs >= IF Held(t) THEN 1 ELSE 0
      BY <2>3, <3>1
    <3>3. s.refs >= (IF s.timer = "set" THEN 1 ELSE 0) + IF Held(t) THEN 1 ELSE 0
      BY <2>3, <3>2
    <3> QED
      BY <2>1, <2>3, <2>7, <3>3, Zenon DEF Timed, AbortKept
  <2>9. s.event = th[t].event /\ th' = [th EXCEPT ![t] = s] /\ done.op # "waking"
    BY <1>3, <1>8, <2>3, Zenon DEF s
  <2> QED
    BY <1>2, <1>3, <1>8, <2>3, <2>4, <2>5, <2>6, <2>8, <2>9, OneThreadContext, Zenon
<1>9. CASE /\ r.event \notin {Waking, None}
           /\ th' = [th EXCEPT ![t] = r] /\ ctx' = [ctx EXCEPT ![c] = go]
  <2>1. th'[t] = r /\ ctx'[c] = go
    BY <1>1, <1>9, Zenon
  <2>2. Timed(t)'
    BY <1>4, <1>5, <1>6, <1>9, <2>1, Zenon
  <2>3. AbortKept(t)'
    BY <1>4, <1>9, <2>1, Zenon DEF AbortKept, Interrupted, InterruptedBy
  <2>4. Rings(t) /\ go.op # "waking"
    BY <1>4, <1>9, <2>1, Zenon DEF Rings
  <2> QED
    BY <1>2, <1>4, <1>9, <2>2, <2>3, <2>4, OneThreadContext, Zenon
<1> QED
  BY <1>2, <1>7, <1>8, <1>9, Zenon

(* act_abort, after the unlock.                                            *)
LEMMA AbortClearStep ==
  ASSUME IInv, cast' = cast, NEW c \in Contexts, AbortClear(c), NEW t, t = ctx[c].thread
  PROVE  IInv'
<1>1. c \in Slots /\ c # Softclock /\ Softclock \in Slots
  BY Apart, Zenon
<1>2. ctx \in [Slots -> Context] /\ ContextSound(c, ctx[c]) /\ ctx[c].op = "abort"
  BY <1>1, ContextFacts, Zenon DEF AbortClear
<1>3. t \in Threads
  BY <1>2, Zenon DEF ContextSound
<1>4. /\ th \in [Threads -> Record] /\ th[t] \in Record
      /\ Sound(th[t]) /\ Timed(t) /\ AbortKept(t) /\ InRole(t, th[t])
  BY <1>3, ThreadFacts, Zenon
<1>5. th = [th EXCEPT ![t] = th[t]]
  BY <1>4, Zenon
<1>6. Firm(th[t], th[t]) /\ Patient(th[t], th[t])
  BY Zenon DEF Firm, Patient
<1>7. CASE th[t].wait
  <2>1. Become(ClearWait(State, c, t, "interrupted", TRUE))
    BY <1>7, Zenon DEF AbortClear
  <2>2. /\ State.th = [th EXCEPT ![t] = th[t]] /\ State.bucket = bucket /\ State.ctx = ctx
        /\ State = [th |-> State.th, bucket |-> State.bucket, ctx |-> State.ctx]
    BY <1>5, Zenon DEF State
  <2>3. /\ th[t].refs >= (IF th[t].timer = "set" THEN 1 ELSE 0) + (IF Held(t) THEN 1 ELSE 0)
        /\ th[t].timer = "pending" => HeldFired(t)
    BY <1>4, Zenon DEF Timed
  <2>4. "interrupted" \in Results /\ ctx[c].op \notin {"waking", "wakeup"}
    BY <1>2, Zenon DEF Results
  <2> QED
    BY <1>1, <1>3, <1>4, <1>6, <2>1, <2>2, <2>3, <2>4, ClearWaitStep, Zenon
<1>8. CASE ~th[t].wait
  <2>1. Become([State EXCEPT !.ctx[c] = Idle])
    BY <1>8, Zenon DEF AbortClear
  <2>2. th' = th /\ bucket' = bucket /\ ctx' = [ctx EXCEPT ![c] = Idle]
    BY <2>1, Zenon DEF Become, State
  <2>3. Made(Idle, "idle", None, None, "awakened")
    BY MadeFacts, Zenon
  <2>4. ContextSound(c, Idle)
    BY <2>3, Zenon DEF ContextSound, Made
  <2>5. \A d \in Slots \ {c} : ctx'[d] = ctx[d]
    BY <1>2, <2>2, Zenon
  <2>6. Timed(t)' /\ AbortKept(t)' /\ Rings(t)
    BY <1>1, <1>4, <1>8, <2>2, <2>5, Zenon DEF Timed, Held, HeldFired, AbortKept, Rings
  <2> QED
    BY <1>1, <1>2, <1>3, <1>4, <1>5, <1>6, <2>2, <2>3, <2>4, <2>6, OneThreadContext, Zenon DEF Made
<1> QED
  BY <1>7, <1>8, Zenon

(* thread_timeout.                                                         *)
LEMMA ThreadTimeoutStep ==
  ASSUME IInv, cast' = cast, ThreadTimeout, NEW t, t = ctx[Softclock].thread
  PROVE  IInv'
<1>1. Softclock \in Slots
  BY Apart, Zenon
<1>2. ctx \in [Slots -> Context] /\ ContextSound(Softclock, ctx[Softclock])
      /\ ctx[Softclock].op = "fired"
  BY <1>1, ContextFacts, Zenon DEF ThreadTimeout
<1>3. t \in Threads /\ Held(t)
  BY <1>2, Zenon DEF ContextSound, Held
<1>4. /\ th \in [Threads -> Record] /\ th[t] \in Record
      /\ Sound(th[t]) /\ Timed(t) /\ AbortKept(t) /\ InRole(t, th[t])
  BY <1>3, ThreadFacts, Zenon
<1>5. /\ th[t].refs >= (IF th[t].timer = "set" THEN 1 ELSE 0) + 1 /\ th[t].refs \in Int
  BY <1>3, <1>4, Zenon DEF Timed, Record
<1>6. CASE th[t].timer = "pending"
  <2> DEFINE r == [th[t] EXCEPT !.timer = "unset"]
             S == [State EXCEPT !.th[t].timer = "unset"]
  <2>1. Become(ClearWait(S, Softclock, t, "timed_out", FALSE))
    BY <1>6, Zenon DEF ThreadTimeout
  <2>2. /\ S.th = [th EXCEPT ![t] = r] /\ S.bucket = bucket /\ S.ctx = ctx
        /\ S = [th |-> S.th, bucket |-> S.bucket, ctx |-> S.ctx]
    BY DEF State
  <2> HIDE DEF S
  <2>3. r \in Record
    BY <1>4, Zenon DEF Record
  <2>4. /\ r.run = th[t].run /\ r.wait = th[t].wait /\ r.unint = th[t].unint
        /\ r.susp = th[t].susp /\ r.event = th[t].event /\ r.wake_active = th[t].wake_active
        /\ r.timer = "unset" /\ r.refs = th[t].refs /\ r.place = th[t].place
        /\ r.pc = th[t].pc /\ r.target = th[t].target /\ r.phase = th[t].phase
    BY <1>4, Zenon DEF Record
  <2> HIDE DEF r
  <2>5. Sound(r) /\ InRole(t, r) /\ Firm(th[t], r) /\ Patient(th[t], r)
    <3>1. Sound(r)
      BY <1>4, <2>4, Zenon DEF Sound
    <3>2. InRole(t, r)
      BY <1>4, <2>4, Zenon DEF InRole
    <3>3. Firm(th[t], r) /\ Patient(th[t], r)
      BY <2>4, Zenon DEF Firm, Grip, Patient
    <3> QED
      BY <3>1, <3>2, <3>3, Zenon
  <2>6. r.refs >= (IF r.timer = "set" THEN 1 ELSE 0) + (IF Held(t) THEN 1 ELSE 0)
    BY <1>3, <1>5, <2>4
  <2>7. "timed_out" \in Results /\ FALSE \in BOOLEAN /\ ctx[Softclock].op \notin {"waking", "wakeup"}
    BY <1>2, Zenon DEF Results
  <2>8. r.timer # "pending"
    BY <2>4, Zenon
  <2> QED
    BY <1>1, <1>3, <2>1, <2>2, <2>3, <2>4, <2>5, <2>6, <2>7, <2>8, ClearWaitStep, Zenon
<1>7. CASE th[t].timer # "pending"
  <2>1. Become([State EXCEPT !.ctx[Softclock] = Idle])
    BY <1>7, Zenon DEF ThreadTimeout
  <2>2. th' = th /\ bucket' = bucket /\ ctx' = [ctx EXCEPT ![Softclock] = Idle]
    BY <2>1, Zenon DEF Become, State
  <2>3. Made(Idle, "idle", None, None, "awakened")
    BY MadeFacts, Zenon
  <2>4. ContextSound(Softclock, Idle)
    BY <2>3, Zenon DEF ContextSound, Made
  <2>5. ctx'[Softclock] = Idle /\ \A d \in Slots \ {Softclock} : ctx'[d] = ctx[d]
    BY <1>1, <1>2, <2>2, Zenon
  <2>6. ~Held(t)'
    BY <2>3, <2>5, Zenon DEF Held, Made
  <2>7. Timed(t)'
    BY <1>5, <1>7, <2>2, <2>6 DEF Timed
  <2>8. \A d \in Slots : InterruptedBy(d, t) => InterruptedBy(d, t)'
    BY <1>2, <2>2, <2>5, Zenon DEF InterruptedBy
  <2>9. AbortKept(t)' /\ Rings(t)
    BY <1>4, <2>2, <2>8, Zenon DEF AbortKept, Interrupted, Rings
  <2>10. th' = [th EXCEPT ![t] = th[t]] /\ Firm(th[t], th[t]) /\ Patient(th[t], th[t])
    BY <1>4, <2>2, Zenon DEF Firm, Patient
  <2>11. ctx[Softclock].op \notin {"waking", "wakeup"}
    BY <1>2, Zenon
  <2> QED
    BY <1>1, <1>2, <1>3, <1>4, <2>2, <2>3, <2>4, <2>7, <2>9, <2>10, <2>11, OneThreadContext, Zenon DEF Made
<1> QED
  BY <1>6, <1>7, Zenon

(* thread_block: a thread with TH_ABORT does not go to sleep in an         *)
(* interruptible wait.                                                     *)
LEMMA BlockStep ==
  ASSUME IInv, cast' = cast, NEW t \in Threads, Block(t)
  PROVE  IInv'
<1> DEFINE r == [th[t] EXCEPT !.pc = "select"]
           S == [State EXCEPT !.th[t].pc = "select"]
<1>1. t \in Slots /\ t # Softclock
  BY Apart, Zenon
<1>2. ctx \in [Slots -> Context] /\ ContextSound(t, ctx[t])
  BY <1>1, ContextFacts, Zenon
<1>3. /\ th \in [Threads -> Record] /\ th[t] \in Record
      /\ Sound(th[t]) /\ Timed(t) /\ AbortKept(t) /\ InRole(t, th[t])
  BY ThreadFacts, Zenon
<1>4. th[t].place = "cpu" /\ th[t].pc \in {"asserted", "timed"} /\ ctx[t].op = "idle"
  BY Zenon DEF Block, Runs
<1>5. /\ S.th = [th EXCEPT ![t] = r] /\ S.bucket = bucket /\ S.ctx = ctx
      /\ S = [th |-> S.th, bucket |-> S.bucket, ctx |-> S.ctx]
  BY DEF State
<1>6. Become(IF th[t].abort THEN ClearWait(S, t, t, "interrupted", TRUE) ELSE S)
  BY Zenon DEF Block
<1> HIDE DEF S
<1>7. r \in Record
  BY <1>3, Zenon DEF Record, ThreadPcs
<1>8. /\ r.run = th[t].run /\ r.wait = th[t].wait /\ r.unint = th[t].unint
      /\ r.susp = th[t].susp /\ r.event = th[t].event /\ r.wake_active = th[t].wake_active
      /\ r.timer = th[t].timer /\ r.refs = th[t].refs /\ r.place = th[t].place
      /\ r.pc = "select" /\ r.target = th[t].target /\ r.phase = th[t].phase
      /\ r.abort = th[t].abort
  BY <1>3, Zenon DEF Record
<1> HIDE DEF r
<1>9. Sound(r)
  BY <1>3, <1>4, <1>8, Zenon DEF Sound
<1>10. InRole(t, r)
  <2>1. th[t].pc # "run" /\ r.pc # "timed"
    BY <1>4, <1>8, Zenon
  <2> QED
    BY <1>3, <1>8, <2>1, Zenon DEF InRole
<1>11. Firm(th[t], r) /\ Patient(th[t], r)
  <2>1. Grip(r) => Grip(th[t])
    <3>1. r.phase = "wait" => th[t].pc = "asserted"
      BY <1>3, <1>4, <1>8, Zenon DEF InRole, Threads
    <3> QED
      BY <1>8, <3>1, Zenon DEF Grip
  <2> QED
    BY <1>8, <2>1, Zenon DEF Firm, Patient
<1>12. CASE th[t].abort
  <2>1. Become(ClearWait(S, t, t, "interrupted", TRUE))
    BY <1>6, <1>12, Zenon
  <2>2. "interrupted" \in Results /\ ctx[t].op \notin {"waking", "wakeup"}
    BY <1>4, Zenon DEF Results
  <2>3. ctx[t].thread = None
    BY <1>2, <1>4, Zenon DEF ContextSound
  <2>4. /\ r.refs >= (IF r.timer = "set" THEN 1 ELSE 0) + (IF Held(t) THEN 1 ELSE 0)
        /\ r.timer = "pending" => HeldFired(t)
    BY <1>3, <1>8, Zenon DEF Timed
  <2> QED
    BY <1>1, <1>5, <1>7, <1>8, <1>9, <1>10, <1>11, <2>1, <2>2, <2>3, <2>4, ClearWaitStep, Zenon
<1>13. CASE ~th[t].abort
  <2>1. th' = [th EXCEPT ![t] = r] /\ bucket' = bucket /\ ctx' = ctx
    BY <1>5, <1>6, <1>13, Zenon DEF Become
  <2>2. th'[t] = r
    BY <1>3, <2>1, Zenon
  <2>3. Timed(t)' /\ AbortKept(t)'
    BY <1>3, <1>8, <1>13, <2>1, <2>2, TimedKept, Zenon DEF AbortKept
  <2> QED
    BY <1>7, <1>8, <1>9, <1>10, <1>11, <2>1, <2>3, OneThreadOnly, Zenon
<1> QED
  BY <1>12, <1>13, Zenon

-----------------------------------------------------------------------------
(* Steps that change a queue.                                              *)

(* The wakers do not care about threads that neither are nor were marked.  *)
LEMMA WakersFrame ==
  ASSUME WakersExact, Types,
         \A d \in Slots : /\ ctx'[d].queue = ctx[d].queue
                          /\ (ctx'[d].op = "waking") = (ctx[d].op = "waking"),
         \A u \in Threads : (th'[u].event = Waking) <=> (th[u].event = Waking)
  PROVE  WakersExact'
<1>1. \A d \in Slots : \A t \in Range(ctx[d].queue) : t \in Threads
  BY DEF Types, Context, Range
<1> QED
  BY <1>1, Zenon DEF WakersExact

(* A thread that enters a wait bucket.                                     *)
LEMMA BucketJoin ==
  ASSUME BucketsExact, NEW t \in Threads, NEW e \in Buckets, th[t].event = None,
         th'[t].event = e, \A u \in Threads \ {t} : th'[u].event = th[u].event,
         bucket \in [Buckets -> Seq(Threads)],
         NEW p \in {<<t>> \o bucket[e], Append(bucket[e], t)}, bucket' = [bucket EXCEPT ![e] = p]
  PROVE  bucket' \in [Buckets -> Seq(Threads)] /\ BucketsExact'
<1> DEFINE q == bucket[e]
<1>1. q \in Seq(Threads) /\ IsInjective(q) /\ t \notin Range(q)
  BY Apart DEF BucketsExact
<1>2. p \in Seq(Threads) /\ IsInjective(p) /\ Range(p) = Range(q) \union {t}
  <2>1. CASE p = <<t>> \o q
    BY <1>1, <2>1, PushFacts
  <2>2. CASE p = Append(q, t)
    BY <1>1, <2>2, AppendFacts
  <2> QED
    BY <2>1, <2>2, Zenon
<1>4. bucket' \in [Buckets -> Seq(Threads)] /\ bucket'[e] = p
      /\ \A d \in Buckets \ {e} : bucket'[d] = bucket[d]
  BY <1>2, Zenon
<1>5. ASSUME NEW d \in Buckets PROVE Range(bucket'[d]) = {u \in Threads : th'[u].event = d}
  <2>1. CASE d = e
    <3>1. Range(q) = {u \in Threads : th[u].event = e}
      BY Zenon DEF BucketsExact
    <3>2. ASSUME NEW u PROVE u \in Range(q) \union {t} <=> u \in Threads /\ th'[u].event = e
      BY <3>1, Apart, Zenon
    <3>3. Range(q) \union {t} = {u \in Threads : th'[u].event = e}
      BY <3>2, Zenon
    <3> QED
      BY <1>2, <1>4, <2>1, <3>3, Zenon
  <2>2. CASE d # e
    <3>1. Range(bucket'[d]) = {u \in Threads : th[u].event = d}
      BY <1>4, <2>2, Zenon DEF BucketsExact
    <3> QED
      BY <2>2, <3>1, Apart, Zenon
  <2> QED
    BY <2>1, <2>2, Zenon
<1>6. \A d \in Buckets : IsInjective(bucket'[d])
  BY <1>2, <1>4, Zenon DEF BucketsExact
<1> QED
  BY <1>4, <1>5, <1>6, Zenon DEF BucketsExact

(* A thread that leaves its wait bucket.                                   *)
LEMMA BucketLeave ==
  ASSUME BucketsExact, NEW t \in Threads, NEW e \in Buckets, th[t].event = e,
         th'[t].event = None, \A u \in Threads \ {t} : th'[u].event = th[u].event,
         bucket \in [Buckets -> Seq(Threads)],
         bucket' = [bucket EXCEPT ![e] = QueueRemove(bucket[e], t)]
  PROVE  bucket' \in [Buckets -> Seq(Threads)] /\ BucketsExact'
<1> DEFINE q == bucket[e]
           p == QueueRemove(q, t)
<1>1. q \in Seq(Threads) /\ IsInjective(q) /\ t \in Range(q)
  BY Zenon DEF BucketsExact
<1>2. p \in Seq(Threads) /\ IsInjective(p) /\ Range(p) = Range(q) \ {t}
  BY <1>1, QueueRemoveFacts
<1> HIDE DEF p
<1>4. bucket' \in [Buckets -> Seq(Threads)] /\ bucket'[e] = p
      /\ \A d \in Buckets \ {e} : bucket'[d] = bucket[d]
  BY <1>2, Zenon DEF p
<1>5. ASSUME NEW d \in Buckets PROVE Range(bucket'[d]) = {u \in Threads : th'[u].event = d}
  <2>1. CASE d = e
    <3>1. Range(q) = {u \in Threads : th[u].event = e}
      BY Zenon DEF BucketsExact
    <3> QED
      BY <1>2, <1>4, <2>1, <3>1, Apart, Zenon
  <2>2. CASE d # e
    <3>1. Range(bucket'[d]) = {u \in Threads : th[u].event = d}
      BY <1>4, <2>2, Zenon DEF BucketsExact
    <3> QED
      BY <2>2, <3>1, Apart, Zenon
  <2> QED
    BY <2>1, <2>2, Zenon
<1>6. \A d \in Buckets : IsInjective(bucket'[d])
  BY <1>2, <1>4, Zenon DEF BucketsExact
<1> QED
  BY <1>4, <1>5, <1>6, Zenon DEF BucketsExact

(* assert_wait on an event, or on none.                                    *)
LEMMA AssertWaitStep ==
  ASSUME IInv, cast' = cast, NEW t \in Sleepers, NEW e \in Events \union {None},
         NEW i \in BOOLEAN, NEW f \in BOOLEAN, i \/ cast.unintWaits, AssertWait(t, e, i, f)
  PROVE  IInv'
<1> DEFINE r == th[t]
           v == r.unint \/ ~i
           w == [r EXCEPT !.wait = TRUE, !.unint = v, !.pc = "asserted"]
           s == [w EXCEPT !.event = e]
<1>1. t \in Threads /\ t \notin Controllers /\ (e = None \/ e \in Buckets) /\ e # Waking /\ e \notin Sleepers
  BY Apart, Zenon
<1>2. /\ th \in [Threads -> Record] /\ r \in Record
      /\ Sound(r) /\ Timed(t) /\ AbortKept(t) /\ InRole(t, r)
  BY <1>1, ThreadFacts, Zenon
<1>3. /\ Types /\ BucketsExact /\ WakersExact /\ \A c \in Slots : ContextSound(c, ctx[c])
      /\ bucket \in [Buckets -> Seq(Threads)] /\ ctx \in [Slots -> Context]
  BY Zenon DEF IInv, Types
<1>4. r.place = "cpu" /\ r.pc = "run" /\ Become(Asserted(State, t, e, i, f))
  BY Zenon DEF AssertWait, Runs
<1>5. ~r.wait /\ r.event = None /\ r.timer = "unset"
  BY <1>2, <1>4, Zenon DEF Sound
<1>6. /\ e = None => th' = [th EXCEPT ![t] = w] /\ bucket' = bucket /\ ctx' = ctx
      /\ e # None => /\ th' = [th EXCEPT ![t] = s] /\ ctx' = ctx
                     /\ bucket' = [bucket EXCEPT ![e] = IF f THEN <<t>> \o bucket[e]
                                                        ELSE Append(bucket[e], t)]
  <2>1. State.th = th /\ State.bucket = bucket /\ State.ctx = ctx
    BY Zenon DEF State
  <2>2. CASE e = None
    <3>1. Become([State EXCEPT !.th[t] = w])
      BY <1>4, <1>5, <2>1, <2>2, Zenon DEF Asserted
    <3> QED
      BY <2>2, <3>1, Zenon DEF Become, State
  <2>3. CASE e # None
    <3>1. Become([State EXCEPT !.th[t] = s, !.bucket[e] = IF f THEN <<t>> \o bucket[e]
                                                        ELSE Append(bucket[e], t)])
      BY <1>4, <1>5, <2>1, <2>3, Zenon DEF Asserted, State
    <3> QED
      BY <2>3, <3>1, Zenon DEF Become, State
  <2> QED
    BY <2>2, <2>3, Zenon
<1>7. v \in BOOLEAN /\ (~cast.unintWaits => ~v)
  BY <1>2, Zenon DEF InRole
<1> HIDE DEF v
<1>8. w \in Record
  BY <1>2, <1>7, Zenon DEF Record, ThreadPcs
<1>9. /\ w.run = r.run /\ w.wait = TRUE /\ w.unint = v /\ w.susp = r.susp
      /\ w.event = r.event /\ w.wake_active = r.wake_active /\ w.timer = r.timer
      /\ w.refs = r.refs /\ w.place = r.place /\ w.pc = "asserted" /\ w.target = r.target
      /\ w.phase = r.phase
  BY <1>2, Zenon DEF Record
<1> HIDE DEF w
<1>10. s \in Record
  BY <1>1, <1>8, Zenon DEF Record
<1>11. /\ s.run = w.run /\ s.wait = w.wait /\ s.unint = w.unint /\ s.susp = w.susp
      /\ s.event = e /\ s.wake_active = w.wake_active /\ s.timer = w.timer
      /\ s.refs = w.refs /\ s.place = w.place /\ s.pc = w.pc /\ s.target = w.target
      /\ s.phase = w.phase
  BY <1>8, Zenon DEF Record
<1> HIDE DEF s
<1>12. CASE e = None
  <2>1. th'[t] = w
    BY <1>1, <1>2, <1>6, <1>12, Zenon
  <2>2. Sound(w)
    BY <1>2, <1>4, <1>5, <1>9, Zenon DEF Sound
  <2>3. InRole(t, w)
    BY <1>1, <1>2, <1>7, <1>9, Zenon DEF InRole
  <2>4. Timed(t)' /\ AbortKept(t)'
    BY <1>2, <1>6, <1>9, <1>12, <2>1, TimedKept, Zenon DEF AbortKept
  <2>5. Firm(r, w)
    BY <1>1, <1>2, <1>9, Zenon DEF Firm, Grip, InRole
  <2> QED
    BY <1>1, <1>6, <1>8, <1>9, <1>12, <2>2, <2>3, <2>4, <2>5, OneThreadOnly, Zenon
<1>13. CASE e # None
  <2>1. th'[t] = s /\ \A u \in Threads \ {t} : th'[u] = th[u]
    BY <1>1, <1>2, <1>6, <1>13, Zenon
  <2>2. Sound(s)
    BY <1>2, <1>4, <1>5, <1>9, <1>11, Zenon DEF Sound
  <2>3. InRole(t, s)
    BY <1>1, <1>2, <1>7, <1>9, <1>11, Zenon DEF InRole
  <2>4. Timed(t)' /\ AbortKept(t)'
    BY <1>2, <1>6, <1>9, <1>11, <1>13, <2>1, TimedKept, Zenon DEF AbortKept
  <2>5. Firm(r, s)
    BY <1>1, <1>2, <1>9, <1>11, Zenon DEF Firm, Grip, InRole
  <2>6. bucket' \in [Buckets -> Seq(Threads)] /\ BucketsExact'
    <3>1. th'[t].event = e /\ \A u \in Threads \ {t} : th'[u].event = th[u].event
      BY <1>11, <2>1, Zenon
    <3> DEFINE p == IF f THEN <<t>> \o bucket[e] ELSE Append(bucket[e], t)
    <3>2. e \in Buckets /\ bucket' = [bucket EXCEPT ![e] = p]
      BY <1>1, <1>6, <1>13, Zenon
    <3>3. p \in {<<t>> \o bucket[e], Append(bucket[e], t)}
      BY Zenon
    <3> HIDE DEF p
    <3> QED
      BY <1>1, <1>3, <1>5, <3>1, <3>2, <3>3, BucketJoin, Zenon
  <2>7. WakersExact'
    <3>1. \A u \in Threads : (th'[u].event = Waking) <=> (th[u].event = Waking)
      BY <1>1, <1>5, <1>11, <2>1, Apart, Zenon
    <3>2. ctx' = ctx
      BY <1>6, <1>13, Zenon
    <3> QED
      BY <1>3, <3>1, <3>2, WakersFrame, Zenon
  <2>8. Calm /\ \A u \in Threads \ {t} : Aloof(u)
    BY <1>3, <1>6, <1>13, Zenon DEF Calm, Aloof
  <2>9. Rings(t)
    BY <1>9, <1>11, <2>1, Zenon DEF Rings
  <2> QED
    BY <1>1, <1>6, <1>10, <1>13, <2>2, <2>3, <2>4, <2>5, <2>6, <2>7, <2>8, <2>9, OneThread, Zenon
<1> QED
  BY <1>12, <1>13, Zenon

(* The rest of clear_wait, with the bucket locked: the thread may have     *)
(* been woken in between.                                                  *)
LEMMA ClearLockedStep ==
  ASSUME IInv, cast' = cast, NEW c \in Slots, ClearLocked(c),
         NEW t, t = ctx[c].thread, NEW e, e = ctx[c].event
  PROVE  IInv'
<1> DEFINE done == IF c = Softclock THEN [Idle EXCEPT !.op = "dealloc", !.thread = t] ELSE Idle
           r == [th[t] EXCEPT !.event = None]
           s == ClearBits(r, ctx[c].result)
<1>1. /\ ctx \in [Slots -> Context] /\ ContextSound(c, ctx[c]) /\ ctx[c].op = "clear"
      /\ ctx[c].result \in Results
  BY ContextFacts, Zenon DEF ClearLocked
<1>2. t \in Threads /\ t # None /\ e \in Buckets /\ e # None
  BY <1>1, Apart, Zenon DEF ContextSound
<1>3. /\ th \in [Threads -> Record] /\ th[t] \in Record
      /\ Sound(th[t]) /\ Timed(t) /\ AbortKept(t) /\ InRole(t, th[t])
  BY <1>2, ThreadFacts, Zenon
<1>4. /\ Types /\ BucketsExact /\ WakersExact /\ bucket \in [Buckets -> Seq(Threads)]
  BY Zenon DEF IInv, Types
<1>5. /\ ctx' = [ctx EXCEPT ![c] = done]
      /\ th[t].event = e => /\ th' = [th EXCEPT ![t] = s]
                            /\ bucket' = [bucket EXCEPT ![e] = QueueRemove(bucket[e], t)]
      /\ th[t].event # e => th' = th /\ bucket' = bucket
  <2>1. CASE th[t].event = e
    <3>1. Become([[State EXCEPT !.bucket[e] = QueueRemove(bucket[e], t), !.th[t] = s]
                    EXCEPT !.ctx[c] = done])
      BY <2>1, Zenon DEF ClearLocked, Cleared, State
    <3> QED
      BY <2>1, <3>1, Zenon DEF Become, State
  <2>2. CASE th[t].event # e
    <3>1. Become([State EXCEPT !.ctx[c] = done])
      BY <2>2, Zenon DEF ClearLocked, Cleared
    <3> QED
      BY <2>2, <3>1, Zenon DEF Become, State
  <2> QED
    BY <2>1, <2>2, Zenon
<1>6. /\ done \in Context /\ done.thread \in {None, t} /\ done.queue = <<>>
      /\ done.op \in {"dealloc", "idle"} /\ done.op # "waking"
      /\ c = Softclock => done.op = "dealloc" /\ done.thread = t
      /\ ContextSound(c, done)
  <2>1. CASE c = Softclock
    <3>1. Made(done, "dealloc", t, None, "awakened")
      BY <1>2, <2>1, MadeFacts, Zenon
    <3> HIDE DEF done
    <3> QED
      BY <1>2, <2>1, <3>1, Zenon DEF Made, ContextSound
  <2>2. CASE c # Softclock
    <3>1. Made(done, "idle", None, None, "awakened")
      BY <2>2, MadeFacts, Zenon
    <3> HIDE DEF done
    <3> QED
      BY <2>2, <3>1, Zenon DEF Made, ContextSound
  <2> QED
    BY <2>1, <2>2, Zenon
<1> HIDE DEF done
<1>7. ctx'[c] = done /\ \A d \in Slots \ {c} : ctx'[d] = ctx[d]
  BY <1>1, <1>5, Zenon
<1>8. (Held(t)' <=> Held(t)) /\ (c # Softclock => (HeldFired(t)' <=> HeldFired(t)))
  BY <1>1, <1>6, <1>7, Apart, Zenon DEF Held, HeldFired
<1>9. CASE th[t].event = e
  <2>1. r \in Record
    BY <1>3, Zenon DEF Record
  <2>2. Core(th[t], r) /\ r.run = th[t].run /\ r.place = th[t].place /\ r.wait = th[t].wait
        /\ r.event = None /\ r.timer = th[t].timer /\ r.refs = th[t].refs
    BY <1>3, Zenon DEF Record, Core
  <2> HIDE DEF r
  <2>3. Sound(r) /\ r.wait
    <3>1. Sound(th[t]) /\ th[t].wait
      BY <1>2, <1>3, <1>9, Zenon DEF Sound
    <3>2. r.pc = th[t].pc /\ r.wait
      BY <2>2, <3>1, Zenon DEF Core
    <3> QED
      BY <2>2, <3>1, <3>2, SoundKept, Zenon
  <2>4. Ended(r, s)
    BY <1>1, <2>1, <2>2, <2>3, ClearBitsFacts, Zenon
  <2>5. th' = [th EXCEPT ![t] = s]
    BY <1>5, <1>9, Zenon
  <2> HIDE DEF s
  <2>6. Ended(th[t], s)
    BY <2>2, <2>4, Zenon DEF Ended, Core
  <2>7. th'[t] = s /\ \A u \in Threads \ {t} : th'[u] = th[u]
    BY <1>2, <1>3, <2>5, Zenon
  <2>8. Sound(s) /\ InRole(t, s) /\ Firm(th[t], s) /\ Patient(th[t], s)
    BY <1>2, <1>3, <2>2, <2>3, <2>6, EndedFacts, Zenon
  <2>9. Timed(t)' /\ AbortKept(t)'
    BY <1>2, <1>3, <1>8, <2>6, <2>7, EndedTimed, Zenon
  <2>10. s \in Record /\ s.event = None /\ Rings(t)
    BY <2>6, <2>7, Zenon DEF Ended, Core, Rings
  <2>11. bucket' \in [Buckets -> Seq(Threads)] /\ BucketsExact'
    <3>1. th'[t].event = None /\ \A u \in Threads \ {t} : th'[u].event = th[u].event
      BY <2>7, <2>10, Zenon
    <3>2. bucket' = [bucket EXCEPT ![e] = QueueRemove(bucket[e], t)]
      BY <1>5, <1>9, Zenon
    <3> QED
      BY <1>2, <1>4, <1>9, <3>1, <3>2, BucketLeave, Zenon
  <2>12. Calm /\ \A u \in Threads \ {t} : Aloof(u)
    <3>1. ctx[c].op \notin {"waking", "wakeup"}
      BY <1>1, Zenon
    <3>2. Calm /\ \A u \in Threads : u # done.thread /\ u # ctx[c].thread => Aloof(u)
      BY <1>5, <1>6, <3>1, ContextStep, Zenon
    <3> QED
      BY <1>6, <3>2, Apart, Zenon
  <2>13. WakersExact'
    <3>1. \A u \in Threads : (th'[u].event = Waking) <=> (th[u].event = Waking)
      BY <1>2, <1>9, <2>7, <2>10, Apart, Zenon
    <3>2. ctx[c].queue = <<>> /\ ctx[c].op # "waking"
      BY <1>1, <1>4, Zenon DEF WakersExact
    <3>3. \A d \in Slots : /\ ctx'[d].queue = ctx[d].queue
                           /\ (ctx'[d].op = "waking") = (ctx[d].op = "waking")
      BY <1>6, <1>7, <3>2, Zenon
    <3> QED
      BY <1>4, <3>1, <3>3, WakersFrame, Zenon
  <2> QED
    BY <1>2, <2>5, <2>8, <2>9, <2>10, <2>11, <2>12, <2>13, OneThread, Zenon
<1>10. CASE th[t].event # e
  <2>1. th' = th /\ bucket' = bucket
    BY <1>5, <1>10, Zenon
  <2>2. Timed(t)'
    <3>1. c = Softclock => th[t].timer # "pending"
      BY <1>1, <1>3, Zenon DEF Timed, HeldFired
    <3> QED
      BY <1>3, <1>8, <2>1, <3>1, Zenon DEF Timed
  <2>3. \A d \in Slots : InterruptedBy(d, t) => InterruptedBy(d, t)'
    BY <1>1, <1>7, <1>10, <2>1, Zenon DEF InterruptedBy
  <2>4. AbortKept(t)' /\ Rings(t)
    BY <1>3, <2>1, <2>3, Zenon DEF AbortKept, Interrupted, Rings
  <2>5. th' = [th EXCEPT ![t] = th[t]] /\ Firm(th[t], th[t]) /\ Patient(th[t], th[t])
    BY <1>3, <2>1, Zenon DEF Firm, Patient
  <2>6. ctx[c].op \notin {"waking", "wakeup"}
    BY <1>1, Zenon
  <2> QED
    BY <1>2, <1>3, <1>5, <1>6, <2>1, <2>2, <2>4, <2>5, <2>6, OneThreadContext, Zenon
<1> QED
  BY <1>9, <1>10, Zenon

(* A step that moves no thread from or to a wait bucket.                   *)
LEMMA BucketsFrame ==
  ASSUME BucketsExact, bucket' = bucket,
         \A u \in Threads, e \in Buckets : (th'[u].event = e) <=> (th[u].event = e)
  PROVE  BucketsExact'
<1>1. ASSUME NEW e \in Buckets
      PROVE  {u \in Threads : th'[u].event = e} = {u \in Threads : th[u].event = e}
  BY Zenon
<1> QED
  BY <1>1, Zenon DEF BucketsExact

(* thread_wakeup_prim ends the wait of the first thread it marked.         *)
LEMMA WakeNextStep ==
  ASSUME IInv, cast' = cast, NEW c \in Slots, WakeNext(c), NEW t, t = Head(ctx[c].queue)
  PROVE  IInv'
<1> DEFINE q == ctx[c].queue
           rest == Tail(q)
           a == ResetTimer(th[t])
           s == [Awaken(a, "awakened") EXCEPT !.event = None]
           x == IF rest = <<>> THEN Idle ELSE [ctx[c] EXCEPT !.queue = rest]
<1>1. /\ Types /\ BucketsExact /\ WakersExact /\ bucket \in [Buckets -> Seq(Threads)]
      /\ \A d \in Slots : ContextSound(d, ctx[d])
  BY Zenon DEF IInv, Types
<1>2. ctx \in [Slots -> Context] /\ ctx[c] \in Context /\ ContextSound(c, ctx[c]) /\ ctx[c].op = "waking"
  BY ContextFacts, Zenon DEF WakeNext
<1>3. q \in Seq(Threads) /\ IsInjective(q) /\ q # <<>>
  BY <1>1, <1>2, Zenon DEF WakersExact, Context
<1>4. Len(q) > 0
  BY <1>3
<1>5. t \in Range(q) /\ rest \in Seq(Threads) /\ IsInjective(rest) /\ Range(rest) = Range(q) \ {t}
  BY <1>3, <1>4, TailFacts, Zenon
<1>6. t \in Threads /\ th[t].event = Waking
  BY <1>1, <1>3, <1>5 DEF WakersExact, Range
<1>7. /\ th \in [Threads -> Record] /\ th[t] \in Record
      /\ Sound(th[t]) /\ Timed(t) /\ AbortKept(t) /\ InRole(t, th[t])
  BY <1>6, ThreadFacts, Zenon
<1>8. th[t].wait
  BY <1>6, <1>7, Apart, Zenon DEF Sound
<1>9. a.wait /\ Ended(th[t], s)
  BY <1>7, <1>8, WokenFacts, Zenon
<1>10. th' = [th EXCEPT ![t] = s] /\ bucket' = bucket /\ ctx' = [ctx EXCEPT ![c] = x]
  BY <1>9, Zenon DEF WakeNext
<1>11. /\ x \in Context /\ x.thread = None /\ x.queue = rest /\ x.op \in {"waking", "idle"}
       /\ (x.op = "waking") = (rest # <<>>)
  <2> HIDE DEF rest
  <2>1. CASE rest = <<>>
    <3>1. x = Idle
      BY <2>1, Zenon
    <3>2. Made(Idle, "idle", None, None, "awakened")
      BY MadeFacts, Zenon
    <3> QED
      BY <2>1, <3>1, <3>2, Zenon DEF Made
  <2>2. CASE rest # <<>>
    <3> DEFINE y == [ctx[c] EXCEPT !.queue = rest]
    <3>1. x = y
      BY <2>2, Zenon
    <3>2. y \in Context /\ y.thread = ctx[c].thread /\ y.queue = rest /\ y.op = ctx[c].op
      BY <1>2, <1>5, Zenon DEF Context
    <3> HIDE DEF y
    <3> QED
      BY <1>2, <2>2, <3>1, <3>2, Zenon DEF ContextSound
  <2> QED
    BY <2>1, <2>2, Zenon
<1>12. ContextSound(c, x)
  <2> HIDE DEF x
  <2> QED
    BY <1>2, <1>11, Zenon DEF ContextSound
<1> HIDE DEF x, s, rest
<1>13. ctx' \in [Slots -> Context] /\ ctx'[c] = x /\ \A d \in Slots \ {c} : ctx'[d] = ctx[d]
  BY <1>2, <1>10, <1>11, Zenon
<1>14. th'[t] = s /\ \A u \in Threads \ {t} : th'[u] = th[u]
  BY <1>6, <1>7, <1>10, Zenon
<1>15. Calm
  BY <1>1, <1>2, <1>12, <1>13, Zenon DEF Calm
<1>16. ctx[c].thread = None
  BY <1>2, Zenon DEF ContextSound
<1>17. \A u \in Threads : Aloof(u)
  BY <1>11, <1>13, <1>16, Apart, Zenon DEF Aloof
<1>18. Sound(s) /\ InRole(t, s) /\ Firm(th[t], s) /\ Patient(th[t], s)
  BY <1>6, <1>7, <1>8, <1>9, EndedFacts, Zenon
<1>19. s \in Record /\ s.event = None /\ Rings(t)
  BY <1>9, <1>14, Zenon DEF Ended, Core, Rings
<1>20. Timed(t)' /\ AbortKept(t)'
  <2>1. Held(t)' => Held(t)
    BY <1>6, <1>17, Apart, Zenon DEF Held, Aloof
  <2> QED
    BY <1>6, <1>7, <1>9, <1>14, <2>1, EndedTimed, Zenon
<1>21. BucketsExact'
  <2>1. \A u \in Threads, e \in Buckets : (th'[u].event = e) <=> (th[u].event = e)
    BY <1>6, <1>14, <1>19, Apart, Zenon
  <2> QED
    BY <1>1, <1>10, <2>1, BucketsFrame, Zenon
<1>22. WakersExact'
  <2>1. ASSUME NEW d \in Slots
        PROVE  /\ IsInjective(ctx'[d].queue)
               /\ (ctx'[d].op = "waking") = (ctx'[d].queue # <<>>)
               /\ \A u \in Range(ctx'[d].queue) : th'[u].event = Waking
    <3>1. \A u \in Range(ctx[d].queue) : u \in Threads
      BY <1>2 DEF Context, Range
    <3>2. /\ IsInjective(ctx[d].queue) /\ (ctx[d].op = "waking") = (ctx[d].queue # <<>>)
          /\ \A u \in Range(ctx[d].queue) : th[u].event = Waking
      BY <1>1, Zenon DEF WakersExact
    <3>3. CASE d = c
      <4>1. ctx'[d].queue = rest /\ (ctx'[d].op = "waking") = (rest # <<>>)
        BY <1>11, <1>13, <3>3, Zenon
      <4>2. ASSUME NEW u \in Range(rest) PROVE th'[u].event = Waking
        <5>1. u \in Range(ctx[d].queue) /\ u # t
          BY <1>5, <3>3, Zenon
        <5> QED
          BY <1>14, <3>1, <3>2, <5>1, Zenon
      <4> QED
        BY <1>5, <4>1, <4>2, Zenon
    <3>4. CASE d # c
      <4>1. t \notin Range(ctx[d].queue)
        BY <1>1, <1>5, <3>4, Zenon DEF WakersExact
      <4> QED
        BY <1>13, <1>14, <3>1, <3>4, <3>2, <4>1, Zenon
    <3> QED
      BY <3>3, <3>4, Zenon
  <2>2. ASSUME NEW u \in Threads, th'[u].event = Waking
        PROVE  \E d \in Slots : u \in Range(ctx'[d].queue)
    <3>1. u # t /\ th[u].event = Waking
      BY <1>14, <1>19, <2>2, Apart, Zenon
    <3>2. PICK d \in Slots : u \in Range(ctx[d].queue)
      BY <1>1, <3>1, Zenon DEF WakersExact
    <3> QED
      BY <1>5, <1>11, <1>13, <3>1, <3>2, Zenon
  <2>3. \A d \in Slots : Range(ctx'[d].queue) \subseteq Range(ctx[d].queue)
    BY <1>5, <1>11, <1>13, Zenon
  <2>4. \A d, g \in Slots : d # g => Range(ctx'[d].queue) \cap Range(ctx'[g].queue) = {}
    BY <1>1, <2>3, Zenon DEF WakersExact
  <2> QED
    BY <2>1, <2>2, <2>4, Zenon DEF WakersExact
<1> QED
  BY <1>1, <1>6, <1>10, <1>15, <1>17, <1>18, <1>19, <1>20, <1>21, <1>22, OneThread, Zenon

(* A thread that is marked WAKING_EVENT keeps the rest.                    *)
LEMMA MarkedFacts ==
  ASSUME NEW r \in Record
  PROVE  LET s == [r EXCEPT !.event = Waking]
         IN /\ s \in Record /\ Core(r, s) /\ s.event = Waking /\ s.run = r.run
            /\ s.place = r.place /\ s.wait = r.wait /\ s.timer = r.timer /\ s.refs = r.refs
<1> DEFINE s == [r EXCEPT !.event = Waking]
<1>1. s \in Record
  BY Zenon DEF Record
<1>2. /\ Core(r, s) /\ s.event = Waking /\ s.run = r.run
      /\ s.place = r.place /\ s.wait = r.wait /\ s.timer = r.timer /\ s.refs = r.refs
  BY Zenon DEF Record, Core
<1> QED
  BY <1>1, <1>2, Zenon

(* The scan of bucket e by routine c, which becomes x: what it does to the *)
(* threads, the bucket and the routine.                                    *)
Scanned(c, e, one, woken, rest, x) ==
  /\ IsInjective(woken) /\ IsInjective(rest)
  /\ Range(woken) \union Range(rest) = Range(bucket[e])
  /\ Range(woken) \intersect Range(rest) = {}
  /\ ~one => Range(woken) = Range(bucket[e])
  /\ bucket' = [bucket EXCEPT ![e] = rest]
  /\ th' = [t \in Threads |-> IF t \in Range(woken) THEN [th[t] EXCEPT !.event = Waking]
                                                    ELSE th[t]]
  /\ ctx' = [ctx EXCEPT ![c] = x]
  /\ x.thread = None /\ x.queue = woken /\ x.op \in {"waking", "idle"}
  /\ (x.op = "waking") = (woken # <<>>)

(* Scan splits the bucket into the threads it marks and the others.        *)
LEMMA ScanFacts ==
  ASSUME IInv, NEW c \in Slots, NEW e \in Buckets, NEW one \in BOOLEAN,
         Become(Scan(State, c, e, one))
  PROVE  \E woken \in Seq(Threads), rest \in Seq(Threads), x \in Context :
           Scanned(c, e, one, woken, rest, x)
<1> DEFINE q == bucket[e]
           k == IF one /\ q # <<>> THEN 1 ELSE Len(q)
           woken == SubSeq(q, 1, k)
           rest == SubSeq(q, k + 1, Len(q))
           x == IF woken = <<>> THEN Idle ELSE [Idle EXCEPT !.op = "waking", !.queue = woken]
<1>1. Types /\ BucketsExact
  BY Zenon DEF IInv
<1>2. q \in Seq(Threads) /\ IsInjective(q)
  BY <1>1, Zenon DEF Types, BucketsExact
<1>3. k \in 0 .. Len(q) /\ (~one => k = Len(q))
  BY <1>2
<1>4. /\ bucket' = [bucket EXCEPT ![e] = rest]
      /\ th' = [t \in Threads |-> IF t \in Range(woken) THEN [th[t] EXCEPT !.event = Waking]
                                                        ELSE th[t]]
      /\ ctx' = [ctx EXCEPT ![c] = x]
  BY Zenon DEF Become, Scan, State
<1> HIDE DEF k, q
<1>5. /\ woken \in Seq(Threads) /\ rest \in Seq(Threads)
      /\ Len(woken) = k /\ Len(rest) = Len(q) - k
      /\ IsInjective(woken) /\ IsInjective(rest)
      /\ Range(woken) \union Range(rest) = Range(q) /\ Range(woken) \intersect Range(rest) = {}
  BY <1>2, <1>3, SplitFacts
<1> HIDE DEF woken, rest
<1>6. ~one => Range(woken) = Range(q)
  <2>1. ASSUME ~one PROVE Range(rest) = {}
    BY <1>3, <1>5, <2>1 DEF Range
  <2> QED
    BY <1>5, <2>1, Zenon
<1>7. /\ x \in Context /\ x.thread = None /\ x.queue = woken /\ x.op \in {"waking", "idle"}
      /\ (x.op = "waking") = (woken # <<>>)
  <2>1. /\ Idle \in Context /\ Idle.thread = None /\ Idle.queue = <<>> /\ Idle.op = "idle"
    BY MadeFacts, Zenon DEF Made
  <2>2. CASE woken = <<>>
    BY <2>1, <2>2, Zenon
  <2>3. CASE woken # <<>>
    <3> DEFINE y == [Idle EXCEPT !.op = "waking", !.queue = woken]
    <3>1. x = y
      BY <2>3, Zenon
    <3>2. y \in Context /\ y.thread = Idle.thread /\ y.queue = woken /\ y.op = "waking"
      BY <1>5, <2>1, Zenon DEF Context, Ops
    <3> HIDE DEF y
    <3> QED
      BY <2>1, <2>3, <3>1, <3>2, Zenon
  <2> QED
    BY <2>2, <2>3, Zenon
<1> HIDE DEF x
<1>8. woken \in Seq(Threads) /\ rest \in Seq(Threads) /\ x \in Context
  BY <1>5, <1>7, Zenon
<1> USE <1>8
<1> WITNESS woken \in Seq(Threads), rest \in Seq(Threads), x \in Context
<1> QED
  BY <1>4, <1>5, <1>6, <1>7, Zenon DEF Scanned, q

(* thread_wakeup_prim marks the threads of a bucket.  A wakeup that was    *)
(* due is done: it marks everybody who waits for the event.                *)
LEMMA ScanStep ==
  ASSUME IInv, cast' = cast, NEW c \in Slots, NEW e \in Buckets, NEW one \in BOOLEAN,
         Become(Scan(State, c, e, one)), c # Softclock, ctx[c].op \in {"idle", "wakeup"},
         ctx[c].op = "wakeup" => ctx[c].event = e /\ ~one
  PROVE  IInv'
<1>1. PICK woken \in Seq(Threads), rest \in Seq(Threads), x \in Context :
           Scanned(c, e, one, woken, rest, x)
  BY ScanFacts, Zenon
<1> USE DEF Scanned
<1>2. /\ Types /\ BucketsExact /\ WakersExact /\ StopExclusive /\ WaiterWoken
      /\ (\A t \in Threads : Local(t)) /\ \A d \in Slots : ContextSound(d, ctx[d])
      /\ th \in [Threads -> Record] /\ bucket \in [Buckets -> Seq(Threads)]
      /\ ctx \in [Slots -> Context] /\ cast \in Casts
  BY Zenon DEF IInv, Types
<1>3. bucket' \in [Buckets -> Seq(Threads)] /\ bucket'[e] = rest
      /\ \A d \in Buckets \ {e} : bucket'[d] = bucket[d]
  BY <1>1, <1>2, Zenon
<1>4. ctx' \in [Slots -> Context] /\ ctx'[c] = x /\ \A d \in Slots \ {c} : ctx'[d] = ctx[d]
  BY <1>1, <1>2, Zenon
<1>5. ASSUME NEW u \in Threads
      PROVE  /\ th'[u] \in Record /\ th[u] \in Record /\ Core(th[u], th'[u])
             /\ th'[u].run = th[u].run /\ th'[u].place = th[u].place
             /\ th'[u].wait = th[u].wait /\ th'[u].timer = th[u].timer /\ th'[u].refs = th[u].refs
             /\ u \in Range(woken) => th'[u].event = Waking
             /\ u \notin Range(woken) => th'[u] = th[u]
  <2>1. th[u] \in Record
    BY <1>2, Zenon
  <2>2. CASE u \in Range(woken)
    <3>1. th'[u] = [th[u] EXCEPT !.event = Waking]
      BY <1>1, <2>2, Zenon
    <3> QED
      BY <2>1, <2>2, <3>1, MarkedFacts, ZenonT(30)
  <2>3. CASE u \notin Range(woken)
    <3>1. th'[u] = th[u]
      BY <1>1, <2>3, Zenon
    <3> QED
      BY <2>1, <2>3, <3>1, Zenon DEF Core
  <2> QED
    BY <2>2, <2>3, Zenon
<1>6. th' \in [Threads -> Record]
  <2>1. th' = [t \in Threads |-> th'[t]]
    BY <1>1, Zenon
  <2> QED
    BY <1>5, <2>1, Zenon
<1>7. Types'
  BY <1>2, <1>3, <1>4, <1>6, Zenon DEF Types
<1>8. \A u \in Range(bucket[e]) : u \in Threads /\ th[u].event = e
  BY <1>2, Zenon DEF BucketsExact
<1>9. \A u \in Range(woken) : u \in Range(bucket[e]) /\ u \in Threads /\ th[u].event = e
  BY <1>1, <1>8, Zenon
<1>10. e # None /\ e # Waking /\ \A t \in Threads : t # None /\ t # Waking
  BY Apart, Zenon
<1>11. ctx[c].thread = None /\ ctx[c].queue = <<>>
  <2>1. ctx[c].op # "waking"
    BY Zenon
  <2> QED
    BY <1>2, <2>1, Zenon DEF ContextSound, WakersExact
<1>12. \A u \in Threads : Aloof(u)
  BY <1>1, <1>4, <1>10, <1>11, Zenon DEF Aloof
<1>13. ASSUME NEW u \in Threads PROVE Local(u)'
  <2>1. CASE u \notin Range(woken)
    BY <1>2, <1>5, <1>12, <2>1, LocalFrame, Zenon
  <2>2. CASE u \in Range(woken)
    <3>1. th'[u].event = Waking /\ th[u].event = e
      BY <1>5, <1>9, <2>2, Zenon
    <3>2. Sound(th[u]) /\ Timed(u) /\ InRole(u, th[u])
      BY <1>2, Zenon DEF Local
    <3>3. Sound(th[u])'
      BY <1>5, <1>10, <3>1, <3>2, SMTT(30) DEF Sound, Core
    <3>4. Timed(u)'
      BY <1>5, <1>10, <1>12, <3>2, Apart DEF Timed, Held, HeldFired, Aloof
    <3>5. AbortKept(u)'
      BY <3>1, Zenon DEF AbortKept, Interrupted
    <3>6. InRole(u, th[u])'
      BY <1>5, <3>1, <3>2, Apart, Zenon DEF InRole, Core
    <3> QED
      BY <3>3, <3>4, <3>5, <3>6, Zenon DEF Local
  <2> QED
    BY <2>1, <2>2, Zenon
<1>14. (\A d \in Slots : ContextSound(d, ctx[d]))'
  <2>1. ContextSound(c, x)
    BY <1>1, Zenon DEF ContextSound
  <2>2. \A d \in Slots : ContextSound(d, ctx'[d])
    BY <1>2, <1>4, <2>1, Zenon
  <2> QED
    BY <2>2, Zenon DEF ContextSound
<1>15. StopExclusive'
  <2>1. \A u \in Threads : Firm(th[u], th'[u])
    BY <1>5, Zenon DEF Firm, Grip, Core
  <2> QED
    BY <1>2, <2>1, StopFrame, Zenon
<1>16. BucketsExact'
  <2>1. ASSUME NEW d \in Buckets
        PROVE  Range(bucket'[d]) = {u \in Threads : th'[u].event = d} /\ IsInjective(bucket'[d])
    <3>1. Range(bucket[d]) = {u \in Threads : th[u].event = d} /\ IsInjective(bucket[d]) /\ d # Waking
      BY <1>2, Apart, Zenon DEF BucketsExact
    <3>2. ASSUME NEW u \in Threads
          PROVE  th'[u].event = d <=> u \in Range(bucket[d]) /\ u \notin Range(woken)
      BY <1>5, <3>1, Zenon
    <3>3. {u \in Threads : th'[u].event = d} = Range(bucket[d]) \ Range(woken)
      BY <3>1, <3>2, Zenon
    <3>4. CASE d = e
      <4>1. Range(rest) = Range(bucket[e]) \ Range(woken)
        BY <1>1, Zenon
      <4> QED
        BY <1>1, <1>3, <3>3, <3>4, <4>1, Zenon
    <3>5. CASE d # e
      <4>1. Range(bucket[d]) \ Range(woken) = Range(bucket[d])
        BY <1>9, <3>1, <3>5, Zenon
      <4> QED
        BY <1>3, <3>1, <3>3, <3>5, <4>1, Zenon
    <3> QED
      BY <3>4, <3>5, Zenon
  <2> QED
    BY <2>1, Zenon DEF BucketsExact
<1>17. WakersExact'
  <2>1. \A d \in Slots \ {c} : \A u \in Range(ctx[d].queue) :
          u \in Threads /\ th[u].event = Waking /\ u \notin Range(woken)
    <3>1. \A d \in Slots : \A u \in Range(ctx[d].queue) : u \in Threads
      BY <1>2 DEF Context, Range
    <3> QED
      BY <1>2, <1>9, <1>10, <3>1 DEF WakersExact
  <2>2. ASSUME NEW d \in Slots
        PROVE  /\ IsInjective(ctx'[d].queue)
               /\ (ctx'[d].op = "waking") = (ctx'[d].queue # <<>>)
               /\ \A u \in Range(ctx'[d].queue) : th'[u].event = Waking
    <3>1. CASE d = c
      BY <1>1, <1>4, <1>5, <1>9, <3>1, Zenon
    <3>2. CASE d # c
      <4>1. /\ IsInjective(ctx[d].queue) /\ (ctx[d].op = "waking") = (ctx[d].queue # <<>>)
            /\ ctx'[d] = ctx[d]
        BY <1>2, <1>4, <3>2, Zenon DEF WakersExact
      <4>2. ASSUME NEW u \in Range(ctx[d].queue) PROVE th'[u].event = Waking
        <5>1. u \in Threads /\ th[u].event = Waking /\ u \notin Range(woken)
          BY <2>1, <3>2, Zenon
        <5> QED
          BY <1>5, <5>1, Zenon
      <4> QED
        BY <4>1, <4>2, Zenon
    <3> QED
      BY <3>1, <3>2, Zenon
  <2>3. ASSUME NEW u \in Threads, th'[u].event = Waking
        PROVE  \E d \in Slots : u \in Range(ctx'[d].queue)
    <3>1. CASE u \in Range(woken)
      BY <1>1, <1>4, <3>1, Zenon
    <3>2. CASE u \notin Range(woken)
      <4>1. PICK d \in Slots : u \in Range(ctx[d].queue)
        BY <1>2, <1>5, <2>3, <3>2, Zenon DEF WakersExact
      <4>2. d # c
        BY <1>11, <4>1 DEF Range
      <4> QED
        BY <1>4, <4>1, <4>2, Zenon
    <3> QED
      BY <3>1, <3>2, Zenon
  <2>4. ASSUME NEW d \in Slots, NEW g \in Slots, d # g
        PROVE  Range(ctx'[d].queue) \intersect Range(ctx'[g].queue) = {}
    <3>1. CASE d # c /\ g # c
      BY <1>2, <1>4, <2>4, <3>1, Zenon DEF WakersExact
    <3>2. CASE d = c \/ g = c
      BY <1>1, <1>4, <2>1, <2>4, <3>2, Zenon
    <3> QED
      BY <3>1, <3>2, Zenon
  <2> QED
    BY <2>2, <2>3, <2>4, Zenon DEF WakersExact
<1>18. WaiterWoken'
  <2>1. ASSUME NEW d \in Controllers, Asleep(d, "wait")', NEW t, t = th'[d].target
        PROVE  (th'[t].run /\ th'[t].wake_active) \/ WakePending(t)'
    <3>1. d \in Threads /\ d \notin Sleepers
      BY Apart, Zenon
    <3>2. /\ th'[d].wait = th[d].wait /\ th'[d].target = th[d].target
          /\ th'[d].phase = th[d].phase /\ th[d].target # Waking
      BY <1>5, <3>1, Apart, Zenon DEF Core, Record
    <3>3. d \notin Range(woken)
      BY <1>5, <2>1, <3>1, <3>2, Zenon DEF Asleep
    <3>4. th'[d] = th[d]
      BY <1>5, <3>1, <3>3, Zenon
    <3>5. Asleep(d, "wait") /\ t = th[d].target
      BY <2>1, <3>4, Zenon DEF Asleep
    <3>6. (th[t].run /\ th[t].wake_active) \/ WakePending(t)
      BY <1>2, <3>5, Zenon DEF WaiterWoken
    <3>7. t \in Sleepers /\ t \in Buckets /\ t \in Threads
      BY <1>2, <3>1, <3>5, Apart, Zenon DEF Asleep, Local, InRole, Sound
    <3>8. CASE th[t].run /\ th[t].wake_active
      BY <1>5, <3>7, <3>8, Zenon DEF Core
    <3>9. CASE WakePending(t)
      <4>1. PICK g \in Slots : ctx[g].op = "wakeup" /\ ctx[g].event = t
        BY <3>9, Zenon DEF WakePending
      <4>2. g # c
        <5>1. SUFFICES ASSUME g = c PROVE FALSE
          BY Zenon
        <5>2. t = e /\ Range(woken) = Range(bucket[e])
          BY <1>1, <4>1, <5>1, Zenon
        <5>3. d \in Range(bucket[e])
          BY <1>2, <3>1, <3>5, <3>7, <5>2, Zenon DEF BucketsExact, Asleep
        <5> QED
          BY <3>3, <5>2, <5>3, Zenon
      <4> QED
        BY <1>4, <4>1, <4>2, Zenon DEF WakePending
    <3> QED
      BY <3>6, <3>8, <3>9, Zenon
  <2> QED
    BY <2>1, Zenon DEF WaiterWoken, WakePending
<1> QED
  BY <1>7, <1>13, <1>14, <1>15, <1>16, <1>17, <1>18, Zenon DEF IInv

-----------------------------------------------------------------------------
(* Steps of a controller and its target.                                   *)

(* What such a step has to keep, beyond the two threads themselves.        *)
LEMMA TwoThreads ==
  ASSUME IInv, cast' = cast, NEW c \in Controllers, NEW t \in Sleepers,
         NEW s \in Record, NEW w \in Record, th' = [th EXCEPT ![t] = w, ![c] = s],
         bucket' \in [Buckets -> Seq(Threads)], Calm, \A u \in Threads : Aloof(u),
         BucketsExact', WakersExact', StopExclusive', WaiterWoken',
         Sound(s), Sound(w), InRole(c, s), InRole(t, w),
         s.refs = th[c].refs, s.timer = th[c].timer, s.pc \notin {"select", "blocked"},
         w.refs = th[t].refs, w.timer = th[t].timer, w.pc = th[t].pc, w.event = th[t].event,
         w.abort = th[t].abort, w.wait = th[t].wait, w.unint = th[t].unint
  PROVE  IInv'
<1>1. th \in [Threads -> Record] /\ cast \in Casts /\ \A u \in Threads : Local(u)
  BY Zenon DEF IInv, Types
<1>2. c \in Threads /\ t \in Threads /\ c # t
  BY Apart, Zenon
<1>3. th' \in [Threads -> Record] /\ th'[t] = w /\ th'[c] = s
      /\ \A u \in Threads \ {t, c} : th'[u] = th[u]
  BY <1>1, <1>2, Zenon
<1>4. Types'
  BY <1>1, <1>3, Zenon DEF Types, Calm
<1>5. ASSUME NEW u \in Threads PROVE (Held(u)' <=> Held(u)) /\ (HeldFired(u)' <=> HeldFired(u))
  BY Apart, Zenon DEF Aloof, Held, HeldFired
<1>6. Local(c)'
  <2>1. Timed(c)
    BY <1>1, <1>2, Zenon DEF Local
  <2>2. Timed(c)'
    BY <1>2, <1>3, <1>5, <2>1, Zenon DEF Timed
  <2>3. AbortKept(c)'
    BY <1>3, Zenon DEF AbortKept
  <2>4. Sound(th[c])' /\ InRole(c, th[c])'
    BY <1>3 DEF Sound, InRole
  <2> QED
    BY <2>2, <2>3, <2>4, Zenon DEF Local
<1>7. Local(t)'
  <2>1. Timed(t) /\ AbortKept(t)
    BY <1>1, <1>2, Zenon DEF Local
  <2>2. Timed(t)'
    BY <1>2, <1>3, <1>5, <2>1, Zenon DEF Timed
  <2>3. \A d \in Slots : InterruptedBy(d, t) => InterruptedBy(d, t)'
    BY <1>2, <1>3, Zenon DEF InterruptedBy, Aloof
  <2>4. AbortKept(t)'
    BY <1>3, <2>1, <2>3, Zenon DEF AbortKept, Interrupted
  <2>5. Sound(th[t])'
    BY <1>3, Zenon
  <2>6. InRole(t, th[t])'
    BY <1>3, Zenon DEF InRole
  <2> QED
    BY <2>2, <2>4, <2>5, <2>6, Zenon DEF Local
<1>8. ASSUME NEW u \in Threads PROVE Local(u)'
  BY <1>1, <1>3, <1>6, <1>7, LocalFrame, Zenon
<1>9. (\A d \in Slots : ContextSound(d, ctx[d]))'
  BY Zenon DEF Calm, ContextSound
<1> QED
  BY <1>4, <1>8, <1>9, Zenon DEF IInv

(* A controller waits for its target to be let go or to stop running.      *)
LEMMA WaitForStep ==
  ASSUME IInv, cast' = cast, NEW c \in Controllers, NEW t, t = th[c].target,
         NEW p \in {"stop", "wait"}, th[c].place = "cpu", th[c].pc \in {"stop", "wait"},
         p = "wait" => th[c].pc = "wait" /\ th[t].run,
         Become(WaitFor(c, t, p))
  PROVE  IInv'
<1> DEFINE r == th[c]
           w == [th[t] EXCEPT !.wake_active = TRUE]
           v == r.unint \/ ~TRUE
           s == [r EXCEPT !.phase = p, !.wait = TRUE, !.unint = v, !.pc = "asserted", !.event = t]
<1>1. c \in Threads /\ c \notin Sleepers
  BY Apart, Zenon
<1>2. /\ th \in [Threads -> Record] /\ r \in Record
      /\ Sound(r) /\ Timed(c) /\ AbortKept(c) /\ InRole(c, r)
  BY <1>1, ThreadFacts, Zenon
<1>3. t \in Sleepers /\ ~r.wait /\ r.event = None /\ r.timer = "unset"
  <2>1. r.pc # "run"
    BY SMTT(30)
  <2>2. ~r.wait
    BY <1>2, Zenon DEF Sound
  <2> QED
    BY <1>2, <2>1, <2>2, Zenon DEF InRole, Sound
<1>4. t \in Threads /\ t \in Buckets /\ t # c /\ t \notin Controllers /\ t # None /\ t # Waking
  BY <1>1, <1>3, Apart, Zenon
<1>5. /\ th[t] \in Record /\ Sound(th[t]) /\ InRole(t, th[t])
  BY <1>4, ThreadFacts, Zenon
<1>6. /\ Types /\ BucketsExact /\ WakersExact /\ bucket \in [Buckets -> Seq(Threads)]
      /\ ctx \in [Slots -> Context] /\ (\A d \in Slots : ContextSound(d, ctx[d]))
      /\ StopExclusive /\ WaiterWoken
  BY Zenon DEF IInv, Types
<1>7. /\ th' = [th EXCEPT ![t] = w, ![c] = s] /\ ctx' = ctx
      /\ bucket' = [bucket EXCEPT ![t] = Append(bucket[t], c)]
  <2> DEFINE b == [r EXCEPT !.phase = p]
             S == [State EXCEPT !.th[t].wake_active = TRUE, !.th[c].phase = p]
             z == [[b EXCEPT !.wait = TRUE, !.unint = v, !.pc = "asserted"] EXCEPT !.event = t]
             y == Append(bucket[t], c)
  <2>1. [State EXCEPT !.th[t].wake_active = TRUE]
          = [th |-> [th EXCEPT ![t] = w], bucket |-> bucket, ctx |-> ctx]
    BY DEF State
  <2>2. [th EXCEPT ![t] = w][c] = r
    BY <1>1, <1>2, <1>4, Zenon
  <2>3. S = [th |-> [th EXCEPT ![t] = w, ![c] = b], bucket |-> bucket, ctx |-> ctx]
    <3> DEFINE R == [State EXCEPT !.th[t].wake_active = TRUE]
               f == [th EXCEPT ![t] = w]
    <3>1. S = [R EXCEPT !.th[c].phase = p]
      BY Zenon
    <3>2. R = [th |-> f, bucket |-> bucket, ctx |-> ctx] /\ f[c] = r
      BY <2>1, <2>2, Zenon
    <3> HIDE DEF R, f, S
    <3>3. S = [th |-> [f EXCEPT ![c] = b], bucket |-> bucket, ctx |-> ctx]
      BY <3>1, <3>2, Zenon
    <3> QED
      BY <3>3, Zenon DEF f
  <2>4. Become(Asserted(S, c, t, TRUE, FALSE))
    BY Zenon DEF WaitFor
  <2> HIDE DEF S
  <2>5. S.th = [th EXCEPT ![t] = w, ![c] = b] /\ S.bucket = bucket /\ S.ctx = ctx
    BY <2>3, Zenon
  <2>6. S.th[c] = b /\ b.event = None /\ b.unint = r.unint
    BY <1>1, <1>2, <1>3, <1>4, <2>5, Zenon DEF Record
  <2>7. Become([S EXCEPT !.th[c] = z, !.bucket[t] = y])
    BY <1>4, <2>4, <2>5, <2>6, Zenon DEF Asserted
  <2>8. s = z
    BY Zenon
  <2> HIDE DEF z, y, w, b, s
  <2>9. th' = [[th EXCEPT ![t] = w, ![c] = b] EXCEPT ![c] = z] /\ ctx' = ctx
        /\ bucket' = [bucket EXCEPT ![t] = y]
    BY <2>3, <2>5, <2>7, Zenon DEF Become
  <2>10. [[th EXCEPT ![t] = w, ![c] = b] EXCEPT ![c] = z] = [th EXCEPT ![t] = w, ![c] = z]
    BY <1>1, <1>2, Zenon
  <2> QED
    BY <2>8, <2>9, <2>10, Zenon DEF y
<1>8. v \in BOOLEAN /\ v = r.unint
  BY <1>2, Zenon DEF Record
<1>9. w \in Record
  BY <1>5, Zenon DEF Record
<1>10. /\ w.run = th[t].run /\ w.wait = th[t].wait /\ w.unint = th[t].unint
       /\ w.susp = th[t].susp /\ w.event = th[t].event /\ w.wake_active = TRUE
       /\ w.timer = th[t].timer /\ w.refs = th[t].refs /\ w.place = th[t].place
       /\ w.pc = th[t].pc /\ w.target = th[t].target /\ w.phase = th[t].phase
       /\ w.abort = th[t].abort
  BY <1>5, Zenon DEF Record
<1> HIDE DEF w, v
<1>11. s \in Record
  BY <1>2, <1>4, <1>8, Zenon DEF Record, ThreadPcs
<1>12. /\ s.run = r.run /\ s.wait = TRUE /\ s.unint = v /\ s.susp = r.susp
       /\ s.event = t /\ s.wake_active = r.wake_active /\ s.timer = r.timer
       /\ s.refs = r.refs /\ s.place = r.place /\ s.pc = "asserted" /\ s.target = r.target
       /\ s.phase = p
  BY <1>2, Zenon DEF Record
<1> HIDE DEF s
<1>13. th'[t] = w /\ th'[c] = s /\ \A u \in Threads \ {t, c} : th'[u] = th[u]
  BY <1>1, <1>2, <1>4, <1>7, SMTT(30)
<1>14. Sound(w)
  <2>1. Sound(th[t]) /\ (~w.wait /\ ~w.susp => w.run)
    BY <1>5, <1>10, Zenon DEF Sound
  <2>2. /\ w.run = th[t].run /\ w.wait = th[t].wait /\ w.place = th[t].place
        /\ w.timer = th[t].timer /\ w.event \in {th[t].event, None} /\ w.pc = th[t].pc
    BY <1>10, Zenon
  <2> QED
    BY <2>1, <2>2, SoundKept, Zenon
<1>15. InRole(t, w)
  BY <1>4, <1>5, <1>10, Zenon DEF InRole
<1>16. Sound(s)
  BY <1>2, <1>3, <1>12, Zenon DEF Sound
<1>17. InRole(c, s)
  BY <1>1, <1>2, <1>3, <1>8, <1>12, Zenon DEF InRole
<1>18. bucket' \in [Buckets -> Seq(Threads)] /\ BucketsExact'
  <2>1. th'[c].event = t /\ \A u \in Threads \ {c} : th'[u].event = th[u].event
    BY <1>10, <1>12, <1>13, Zenon
  <2>2. Append(bucket[t], c) \in {<<c>> \o bucket[t], Append(bucket[t], c)}
    BY Zenon
  <2> QED
    BY <1>1, <1>3, <1>4, <1>6, <1>7, <2>1, <2>2, BucketJoin, Zenon
<1>19. WakersExact'
  <2>1. \A u \in Threads : (th'[u].event = Waking) <=> (th[u].event = Waking)
    <3>1. th'[c].event = t /\ \A u \in Threads \ {c} : th'[u].event = th[u].event
      BY <1>10, <1>12, <1>13, Zenon
    <3>2. th[c].event # Waking /\ t # Waking
      BY <1>3, <1>4, Apart, Zenon
    <3> QED
      BY <3>1, <3>2, Zenon
  <2> QED
    BY <1>6, <1>7, <2>1, WakersFrame, Zenon
<1>20. Calm /\ \A u \in Threads : Aloof(u)
  BY <1>6, <1>7, Zenon DEF Calm, Aloof
<1>21. StopExclusive'
  <2>1. Firm(th[c], s)
    BY <1>12, Zenon DEF Firm, Grip
  <2>2. Firm(th[t], w)
    BY <1>10, Zenon DEF Firm, Grip
  <2>3. \A u \in Threads : Firm(th[u], th'[u])
    BY <1>13, <2>1, <2>2, Zenon DEF Firm
  <2> QED
    BY <1>6, <2>3, StopFrame, Zenon
<1>22. WaiterWoken'
  <2>1. ASSUME NEW d \in Controllers, Asleep(d, "wait")', NEW y, y = th'[d].target
        PROVE  (th'[y].run /\ th'[y].wake_active) \/ WakePending(y)'
    <3>1. CASE d = c
      <4>1. y = t /\ p = "wait"
        BY <1>12, <1>13, <2>1, <3>1, Zenon DEF Asleep
      <4> QED
        BY <1>10, <1>13, <4>1, Zenon
    <3>2. CASE d # c
      <4>1. d \in Threads /\ th'[d] = th[d]
        BY <1>4, <1>13, <3>2, Apart, Zenon
      <4>2. Asleep(d, "wait") /\ y = th[d].target
        BY <2>1, <4>1, Zenon DEF Asleep
      <4>3. (th[y].run /\ th[y].wake_active) \/ WakePending(y)
        BY <1>6, <4>2, Zenon DEF WaiterWoken
      <4>4. WakePending(y) => WakePending(y)'
        BY <1>7, Zenon DEF WakePending
      <4>5. y \in Sleepers /\ y \in Threads /\ y # c
        <5>1. Sound(th[d]) /\ InRole(d, th[d])
          BY <4>1, ThreadFacts, Zenon
        <5> QED
          BY <1>1, <4>2, <5>1, Apart, Zenon DEF Asleep, InRole, Sound
      <4> QED
        BY <1>10, <1>13, <4>3, <4>4, <4>5, Zenon
    <3> QED
      BY <3>1, <3>2, Zenon
  <2> QED
    BY <2>1, Zenon DEF WaiterWoken, WakePending
<1>23. s.pc \notin {"select", "blocked"}
  BY <1>12, Zenon
<1> QED
  BY <1>3, <1>7, <1>9, <1>10, <1>11, <1>12, <1>14, <1>15, <1>16, <1>17, <1>18, <1>19, <1>20,
     <1>21, <1>22, <1>23, TwoThreads, Zenon

(* A controller that neither waits nor holds another thread, and its       *)
(* target.                                                                 *)
LEMMA TargetFacts ==
  ASSUME IInv, NEW c \in Controllers, NEW t, t = th[c].target,
         th[c].pc \in {"stop", "wait", "holding", "unstop"}
  PROVE  /\ c \in Threads /\ c \notin Sleepers /\ t \in Sleepers /\ t \in Threads /\ t \in Buckets
         /\ t # c /\ t \notin Controllers /\ ~th[c].wait /\ th[c].event = None
         /\ th \in [Threads -> Record] /\ th[c] \in Record /\ Sound(th[c]) /\ InRole(c, th[c])
         /\ th[t] \in Record /\ Sound(th[t]) /\ InRole(t, th[t])
<1>1. c \in Threads /\ c \notin Sleepers
  BY Apart, Zenon
<1>2. th \in [Threads -> Record] /\ th[c] \in Record /\ Sound(th[c]) /\ InRole(c, th[c])
  BY <1>1, ThreadFacts, Zenon
<1>3. th[c].pc # "run" /\ ~th[c].wait
  BY <1>2, Zenon DEF Sound
<1>4. t \in Sleepers /\ th[c].event = None
  BY <1>2, <1>3, Zenon DEF InRole, Sound
<1>5. t \in Threads /\ t \in Buckets /\ t # c /\ t \notin Controllers
  BY <1>1, <1>4, Apart, Zenon
<1>6. th[t] \in Record /\ Sound(th[t]) /\ InRole(t, th[t])
  BY <1>5, ThreadFacts, Zenon
<1> QED
  BY <1>1, <1>2, <1>3, <1>4, <1>5, <1>6, Zenon

(* Nothing happens to the queues and the routines.                         *)
LEMMA NoQueueStep ==
  ASSUME IInv, bucket' = bucket, ctx' = ctx, \A u \in Threads : th'[u].event = th[u].event
  PROVE  /\ bucket' \in [Buckets -> Seq(Threads)] /\ Calm /\ \A u \in Threads : Aloof(u)
         /\ BucketsExact' /\ WakersExact'
<1>1. /\ Types /\ BucketsExact /\ WakersExact /\ bucket \in [Buckets -> Seq(Threads)]
      /\ ctx \in [Slots -> Context] /\ (\A d \in Slots : ContextSound(d, ctx[d]))
  BY Zenon DEF IInv, Types
<1>2. Calm /\ \A u \in Threads : Aloof(u)
  BY <1>1, Zenon DEF Calm, Aloof
<1>3. QueuesKept
  BY Zenon DEF QueuesKept
<1> QED
  BY <1>1, <1>2, <1>3, QueuesFrame, Zenon

(* thread_stop marks a thread that nobody else has stopped.                *)
LEMMA ThreadStopStep ==
  ASSUME IInv, cast' = cast, NEW c \in Controllers, ThreadStop(c), NEW t, t = th[c].target
  PROVE  IInv'
<1> DEFINE w == [th[t] EXCEPT !.susp = TRUE]
           s == [th[c] EXCEPT !.pc = "wait"]
<1>1. th[c].place = "cpu" /\ th[c].pc = "stop"
      /\ Become(IF th[t].susp THEN WaitFor(c, t, "stop")
                ELSE [State EXCEPT !.th[t].susp = TRUE, !.th[c].pc = "wait"])
  BY Zenon DEF ThreadStop, Runs
<1>2. th[c].pc \in {"stop", "wait", "holding", "unstop"} /\ th[c].pc \in {"stop", "wait"}
  BY <1>1, Zenon
<1>3. /\ c \in Threads /\ c \notin Sleepers /\ t \in Sleepers /\ t \in Threads /\ t \in Buckets
      /\ t # c /\ t \notin Controllers /\ ~th[c].wait /\ th[c].event = None
      /\ th \in [Threads -> Record] /\ th[c] \in Record /\ Sound(th[c]) /\ InRole(c, th[c])
      /\ th[t] \in Record /\ Sound(th[t]) /\ InRole(t, th[t])
  BY <1>2, TargetFacts, Zenon
<1>4. CASE th[t].susp
  <2>1. Become(WaitFor(c, t, "stop")) /\ "stop" \in {"stop", "wait"} /\ "stop" # "wait"
    BY <1>1, <1>4, Zenon
  <2> QED
    BY <1>1, <1>2, <2>1, WaitForStep, Zenon
<1>5. CASE ~th[t].susp
  <2>1. th' = [th EXCEPT ![t] = w, ![c] = s] /\ bucket' = bucket /\ ctx' = ctx
    <3> DEFINE R == [State EXCEPT !.th[t].susp = TRUE]
               f == [th EXCEPT ![t] = w]
    <3>1. Become([R EXCEPT !.th[c].pc = "wait"])
      BY <1>1, <1>5, Zenon
    <3>2. R = [th |-> f, bucket |-> bucket, ctx |-> ctx]
      BY DEF State
    <3>3. f[c] = th[c]
      BY <1>3, Zenon
    <3> HIDE DEF R, f
    <3>4. th' = [f EXCEPT ![c] = s] /\ bucket' = bucket /\ ctx' = ctx
      BY <3>1, <3>2, <3>3, Zenon DEF Become
    <3> QED
      BY <3>4, Zenon DEF f
  <2>2. w \in Record /\ s \in Record
    <3>1. w \in Record
      BY <1>3, FlagFacts, Zenon
    <3>2. th[c] \in Record
      BY <1>3, Zenon
    <3>3. s \in Record
      BY <3>2, Zenon DEF Record, ThreadPcs
    <3> QED
      BY <3>1, <3>3, Zenon
  <2>3. /\ w.run = th[t].run /\ w.wait = th[t].wait /\ w.unint = th[t].unint
        /\ w.susp = TRUE /\ w.event = th[t].event /\ w.wake_active = th[t].wake_active
        /\ w.timer = th[t].timer /\ w.refs = th[t].refs /\ w.place = th[t].place
        /\ w.pc = th[t].pc /\ w.target = th[t].target /\ w.phase = th[t].phase
        /\ w.abort = th[t].abort
    BY <1>3, Zenon DEF Record
  <2>4. /\ s.run = th[c].run /\ s.wait = th[c].wait /\ s.unint = th[c].unint
        /\ s.susp = th[c].susp /\ s.event = th[c].event /\ s.wake_active = th[c].wake_active
        /\ s.timer = th[c].timer /\ s.refs = th[c].refs /\ s.place = th[c].place
        /\ s.pc = "wait" /\ s.target = th[c].target /\ s.phase = th[c].phase
    BY <1>3, Zenon DEF Record
  <2> HIDE DEF w, s
  <2>5. th'[t] = w /\ th'[c] = s /\ \A u \in Threads \ {t, c} : th'[u] = th[u]
    BY <1>3, <2>1, Zenon
  <2>6. Sound(w)
    BY <1>3, <2>3, SoundKept, Zenon
  <2>7. InRole(t, w)
    BY <1>3, <2>3, Zenon DEF InRole
  <2>8. Sound(s)
    BY <1>1, <1>3, <2>4, Zenon DEF Sound
  <2>9. InRole(c, s)
    BY <1>1, <1>3, <2>4, Zenon DEF InRole
  <2>10. \A u \in Threads : th'[u].event = th[u].event
    BY <2>3, <2>4, <2>5, Zenon
  <2>11. /\ bucket' \in [Buckets -> Seq(Threads)] /\ Calm /\ \A u \in Threads : Aloof(u)
         /\ BucketsExact' /\ WakersExact'
    BY <2>1, <2>10, NoQueueStep, Zenon
  <2>12. StopExclusive'
    <3>1. StopExclusive
      BY Zenon DEF IInv
    <3>2. \A d \in Controllers : ~Holds(d, t)
      BY <1>3, <1>5, <3>1, Zenon DEF StopExclusive
    <3>3. ASSUME NEW d \in Controllers, d # c
          PROVE  d \in Threads /\ th'[d] = th[d] /\ \A y \in Sleepers : Holds(d, y)' <=> Holds(d, y)
      <4>1. d \in Threads /\ th'[d] = th[d]
        BY <1>3, <2>5, <3>3, Apart, Zenon
      <4> QED
        BY <4>1, Zenon DEF Holds
    <3>4. \A y \in Sleepers : Holds(c, y)' => y = t
      BY <2>4, <2>5, Zenon DEF Holds
    <3>5. ASSUME NEW y \in Sleepers, NEW d \in Controllers, Holds(d, y)'
          PROVE  /\ th'[y].susp /\ \A g \in Controllers : Holds(g, y)' => d = g
                 /\ th'[d].pc = "holding" /\ ~cast'.unintWaits /\ ~cast'.ipcWaits => ~th'[y].run
      <4>1. CASE y = t
        <5>1. \A g \in Controllers : Holds(g, y)' => g = c
          BY <3>2, <3>3, <4>1, Zenon
        <5>2. d = c /\ th'[d].pc = "wait"
          BY <2>4, <2>5, <3>5, <5>1, Zenon
        <5>3. th'[d].pc # "holding"
          BY <5>2, Zenon
        <5> QED
          BY <2>3, <2>5, <4>1, <5>1, <5>2, <5>3, Zenon
      <4>2. CASE y # t
        <5>1. d # c /\ Holds(d, y) /\ \A g \in Controllers : Holds(g, y)' => Holds(g, y)
          BY <3>3, <3>4, <3>5, <4>2, Zenon
        <5>2. th'[y] = th[y] /\ th'[d] = th[d]
          BY <1>3, <2>5, <3>3, <4>2, <5>1, Apart, Zenon
        <5> QED
          BY <3>1, <5>1, <5>2, Zenon DEF StopExclusive
      <4> QED
        BY <4>1, <4>2, Zenon
    <3> QED
      BY <3>5, Zenon DEF StopExclusive
  <2>13. WaiterWoken'
    <3>1. \A u \in Controllers : Patient(th[u], th'[u])
      BY <1>3, <2>4, <2>5, Apart, Zenon DEF Patient
    <3>2. \A u \in Sleepers : Rings(u)
      BY <1>3, <2>3, <2>5, Apart, Zenon DEF Rings
    <3>3. \A u \in Controllers : InRole(u, th[u]) /\ Sound(th[u])
      BY Apart, Zenon DEF IInv, Local
    <3>4. WaiterWoken
      BY Zenon DEF IInv
    <3> QED
      BY <2>11, <3>1, <3>2, <3>3, <3>4, WaiterFrame, Zenon
  <2>14. s.pc \notin {"select", "blocked"}
    BY <2>4, Zenon
  <2> QED
    BY <1>3, <2>1, <2>2, <2>3, <2>4, <2>6, <2>7, <2>8, <2>9, <2>11, <2>12, <2>13, <2>14,
       TwoThreads, Zenon
<1> QED
  BY <1>4, <1>5, Zenon

(* thread_wait: the target has stopped, or the controller waits for it.    *)
LEMMA ThreadWaitStep ==
  ASSUME IInv, cast' = cast, NEW c \in Controllers, ThreadWait(c), NEW t, t = th[c].target
  PROVE  IInv'
<1> DEFINE s == [th[c] EXCEPT !.pc = "holding"]
<1>1. th[c].place = "cpu" /\ th[c].pc = "wait"
      /\ Become(IF th[t].run THEN WaitFor(c, t, "wait")
                ELSE [State EXCEPT !.th[c].pc = "holding"])
  BY Zenon DEF ThreadWait, Runs
<1>2. th[c].pc \in {"stop", "wait", "holding", "unstop"} /\ th[c].pc \in {"stop", "wait"}
  BY <1>1, Zenon
<1>3. /\ c \in Threads /\ c \notin Sleepers /\ t \in Sleepers /\ t \in Threads /\ t \in Buckets
      /\ t # c /\ t \notin Controllers /\ ~th[c].wait /\ th[c].event = None
      /\ th \in [Threads -> Record] /\ th[c] \in Record /\ Sound(th[c]) /\ InRole(c, th[c])
      /\ th[t] \in Record /\ Sound(th[t]) /\ InRole(t, th[t])
  BY <1>2, TargetFacts, Zenon
<1>4. CASE th[t].run
  <2>1. Become(WaitFor(c, t, "wait")) /\ "wait" \in {"stop", "wait"}
    BY <1>1, <1>4, Zenon
  <2> QED
    BY <1>1, <1>2, <1>4, <2>1, WaitForStep, Zenon
<1>5. CASE ~th[t].run
  <2>1. th' = [th EXCEPT ![c] = s] /\ bucket' = bucket /\ ctx' = ctx
    <3>1. Become([State EXCEPT !.th[c].pc = "holding"])
      BY <1>1, <1>5, Zenon
    <3> QED
      BY <3>1, Zenon DEF Become, State
  <2>2. s \in Record
    <3>1. th[c] \in Record
      BY <1>3, Zenon
    <3> QED
      BY <3>1, Zenon DEF Record, ThreadPcs
  <2>3. /\ s.run = th[c].run /\ s.wait = th[c].wait /\ s.unint = th[c].unint
        /\ s.susp = th[c].susp /\ s.event = th[c].event /\ s.wake_active = th[c].wake_active
        /\ s.timer = th[c].timer /\ s.refs = th[c].refs /\ s.place = th[c].place
        /\ s.pc = "holding" /\ s.target = th[c].target /\ s.phase = th[c].phase
    BY <1>3, Zenon DEF Record
  <2> HIDE DEF s
  <2>4. th'[c] = s /\ \A u \in Threads \ {c} : th'[u] = th[u]
    BY <1>3, <2>1, Zenon
  <2>5. th' = [th EXCEPT ![t] = th[t], ![c] = s]
    BY <1>3, <2>1, Zenon
  <2>6. Sound(s)
    BY <1>1, <1>3, <2>3, Zenon DEF Sound
  <2>7. InRole(c, s)
    BY <1>1, <1>3, <2>3, Zenon DEF InRole
  <2>8. \A u \in Threads : th'[u].event = th[u].event
    BY <2>3, <2>4, Zenon
  <2>9. /\ bucket' \in [Buckets -> Seq(Threads)] /\ Calm /\ \A u \in Threads : Aloof(u)
        /\ BucketsExact' /\ WakersExact'
    BY <2>1, <2>8, NoQueueStep, Zenon
  <2>10. StopExclusive'
    <3>1. StopExclusive
      BY Zenon DEF IInv
    <3>2. ASSUME NEW d \in Controllers, NEW y \in Sleepers
          PROVE  /\ Holds(d, y)' <=> Holds(d, y)
                 /\ d # c => th'[d] = th[d]
      <4>1. d # c => th'[d] = th[d]
        BY <2>4, Apart, Zenon
      <4>2. CASE d = c
        <5>1. Holds(c, y) <=> y = t
          BY <1>1, Zenon DEF Holds
        <5>2. Holds(c, y)' <=> y = t
          BY <2>3, <2>4, Zenon DEF Holds
        <5> QED
          BY <4>1, <4>2, <5>1, <5>2, Zenon
      <4>3. CASE d # c
        BY <4>1, <4>3, Zenon DEF Holds
      <4> QED
        BY <4>1, <4>2, <4>3, Zenon
    <3>3. ASSUME NEW y \in Sleepers, NEW d \in Controllers, Holds(d, y)'
          PROVE  /\ th'[y].susp /\ \A g \in Controllers : Holds(g, y)' => d = g
                 /\ th'[d].pc = "holding" /\ ~cast'.unintWaits /\ ~cast'.ipcWaits => ~th'[y].run
      <4>1. th'[y] = th[y]
        BY <1>3, <2>4, Apart, Zenon
      <4>2. /\ th[y].susp /\ \A g \in Controllers : Holds(g, y) => d = g
            /\ th[d].pc = "holding" /\ ~cast.unintWaits /\ ~cast.ipcWaits => ~th[y].run
        BY <3>1, <3>2, <3>3, Zenon DEF StopExclusive
      <4>3. d = c => y = t
        BY <2>3, <2>4, <3>3, Zenon DEF Holds
      <4> QED
        BY <1>5, <3>2, <4>1, <4>2, <4>3, Zenon
    <3> QED
      BY <3>3, Zenon DEF StopExclusive
  <2>11. WaiterWoken'
    <3>1. \A u \in Controllers : Patient(th[u], th'[u])
      BY <1>3, <2>3, <2>4, Apart, Zenon DEF Patient
    <3>2. \A u \in Sleepers : Rings(u)
      BY <1>3, <2>4, Apart, Zenon DEF Rings
    <3>3. \A u \in Controllers : InRole(u, th[u]) /\ Sound(th[u])
      BY Apart, Zenon DEF IInv, Local
    <3>4. WaiterWoken
      BY Zenon DEF IInv
    <3> QED
      BY <2>9, <3>1, <3>2, <3>3, <3>4, WaiterFrame, Zenon
  <2>12. s.pc \notin {"select", "blocked"}
    BY <2>3, Zenon
  <2> QED
    BY <1>3, <2>2, <2>3, <2>5, <2>6, <2>7, <2>9, <2>10, <2>11, <2>12, TwoThreads, Zenon
<1> QED
  BY <1>4, <1>5, Zenon

(* What thread_unstop does to its caller and to the thread it lets go.     *)
Leaves(r, s) ==
  /\ s \in Record /\ s.run = r.run /\ s.wait = r.wait /\ s.unint = r.unint /\ s.susp = r.susp
  /\ s.event = r.event /\ s.wake_active = r.wake_active /\ s.timer = r.timer
  /\ s.refs = r.refs /\ s.place = r.place /\ s.pc = "run" /\ s.phase = r.phase
Frees(r, w) ==
  /\ w \in Record /\ w.refs = r.refs /\ w.timer = r.timer /\ w.pc = r.pc /\ w.event = r.event
  /\ w.abort = r.abort /\ w.wait = r.wait /\ w.unint = r.unint

(* What thread_unstop keeps once its effect on the thread is known.        *)
LEMMA LetGo ==
  ASSUME IInv, cast' = cast, NEW c \in Controllers, NEW t, t = th[c].target,
         th[c].place = "cpu", th[c].pc \in {"holding", "unstop"}, ctx[c].op = "idle",
         NEW s, NEW w, th' = [th EXCEPT ![t] = w, ![c] = s], bucket' = bucket,
         \/ ctx' = ctx /\ (th[t].run /\ th[t].wake_active => w.run /\ w.wake_active)
         \/ ctx' = [ctx EXCEPT ![c] = [Idle EXCEPT !.op = "wakeup", !.event = t]],
         Leaves(th[c], s), Frees(th[t], w), Sound(w), InRole(t, w)
  PROVE  IInv'
<1> USE DEF Leaves, Frees
<1>1. th[c].pc \in {"stop", "wait", "holding", "unstop"}
  BY Zenon
<1>2. /\ c \in Threads /\ c \notin Sleepers /\ t \in Sleepers /\ t \in Threads /\ t \in Buckets
      /\ t # c /\ t \notin Controllers /\ ~th[c].wait /\ th[c].event = None
      /\ th \in [Threads -> Record] /\ th[c] \in Record /\ Sound(th[c]) /\ InRole(c, th[c])
      /\ th[t] \in Record /\ Sound(th[t]) /\ InRole(t, th[t])
  BY <1>1, TargetFacts, Zenon
<1>3. th'[t] = w /\ th'[c] = s /\ \A u \in Threads \ {t, c} : th'[u] = th[u]
  BY <1>2, Zenon
<1>4. Sound(s) /\ InRole(c, s)
  <2>1. Sound(s)
    <3>1. Sound(th[c]) /\ (~s.wait /\ ~s.susp => s.run)
      BY <1>2, Zenon DEF Sound
    <3> QED
      BY <3>1, SoundKept, SMTT(30)
  <2>2. s.pc # "timed" /\ ~s.wait
    BY <1>2, Zenon
  <2>3. InRole(c, s)
    BY <1>2, <2>2, Zenon DEF InRole
  <2> QED
    BY <2>1, <2>3, Zenon
<1>5. \A u \in Threads : th'[u].event = th[u].event
  <2>1. th'[t].event = th[t].event /\ th'[c].event = th[c].event
    BY <1>3, Zenon
  <2>2. \A u \in Threads : u # t /\ u # c => th'[u].event = th[u].event
    BY <1>3, Zenon
  <2> QED
    BY <2>1, <2>2, Zenon
<1>6. /\ bucket' \in [Buckets -> Seq(Threads)] /\ Calm /\ (\A u \in Threads : Aloof(u))
      /\ BucketsExact' /\ WakersExact' /\ Rings(t)
  <2>1. CASE ctx' = ctx /\ (th[t].run /\ th[t].wake_active => w.run /\ w.wake_active)
    BY <1>3, <1>5, <2>1, NoQueueStep, Zenon DEF Rings
  <2>2. CASE ctx' = [ctx EXCEPT ![c] = [Idle EXCEPT !.op = "wakeup", !.event = t]]
    <3> DEFINE x == [Idle EXCEPT !.op = "wakeup", !.event = t]
    <3>1. c \in Slots /\ c # Softclock
      BY <1>2, Apart, Zenon
    <3>2. Made(x, "wakeup", None, t, "awakened")
      BY <1>2, MadeFacts, Zenon
    <3>3. ctx' = [ctx EXCEPT ![c] = x]
      BY <2>2, Zenon
    <3> HIDE DEF x
    <3>4. ContextSound(c, ctx[c]) /\ ContextSound(c, x)
      BY <1>2, <3>1, <3>2, ContextFacts, Zenon DEF ContextSound, Made
    <3>5. /\ x \in Context /\ x.queue = <<>> /\ x.op # "waking" /\ x.thread = None
          /\ x.op = "wakeup" /\ x.event = t
          /\ ctx[c].op \notin {"waking", "wakeup"} /\ ctx[c].thread = None
      BY <3>2, <3>4, Zenon DEF Made, ContextSound
    <3>6. /\ Calm /\ QueuesKept /\ ctx'[c] = x
          /\ \A u \in Threads : u # x.thread /\ u # ctx[c].thread => Aloof(u)
      BY <3>1, <3>3, <3>4, <3>5, ContextStep, Zenon
    <3>7. \A u \in Threads : Aloof(u)
      BY <3>5, <3>6, Apart, Zenon
    <3>8. /\ Types /\ BucketsExact /\ WakersExact /\ bucket \in [Buckets -> Seq(Threads)]
      BY Zenon DEF IInv, Types
    <3>9. BucketsExact' /\ WakersExact'
      BY <1>5, <3>6, <3>8, QueuesFrame, Zenon
    <3>10. Rings(t)
      BY <3>1, <3>5, <3>6, Zenon DEF Rings, WakePending
    <3> QED
      BY <3>6, <3>7, <3>8, <3>9, <3>10, Zenon
  <2> QED
    BY <2>1, <2>2, Zenon
<1>7. StopExclusive'
  <2>1. StopExclusive
    BY Zenon DEF IInv
  <2>2. Holds(c, t)
    BY Zenon DEF Holds
  <2>3. \A y \in Sleepers : ~Holds(c, y)'
    BY <1>3, Zenon DEF Holds
  <2>4. ASSUME NEW d \in Controllers, d # c, NEW y \in Sleepers
        PROVE  th'[d] = th[d] /\ (Holds(d, y)' <=> Holds(d, y))
    <3>1. th'[d] = th[d]
      BY <1>2, <1>3, <2>4, Apart, Zenon
    <3> QED
      BY <3>1 DEF Holds
  <2>5. ASSUME NEW y \in Sleepers, NEW d \in Controllers, Holds(d, y)'
        PROVE  /\ th'[y].susp /\ \A g \in Controllers : Holds(g, y)' => d = g
               /\ th'[d].pc = "holding" /\ ~cast'.unintWaits /\ ~cast'.ipcWaits => ~th'[y].run
    <3>1. d # c
      BY <2>3, <2>5, Zenon
    <3>2. Holds(d, y) /\ th'[d] = th[d]
      BY <2>4, <2>5, <3>1, Zenon
    <3>3. /\ th[y].susp /\ \A g \in Controllers : Holds(g, y) => d = g
          /\ th[d].pc = "holding" /\ ~cast.unintWaits /\ ~cast.ipcWaits => ~th[y].run
      BY <2>1, <3>2, Zenon DEF StopExclusive
    <3>4. y # t
      BY <2>2, <3>1, <3>3, Zenon
    <3>5. th'[y] = th[y]
      BY <1>2, <1>3, <3>4, Apart, Zenon
    <3> QED
      BY <2>3, <2>4, <3>2, <3>3, <3>5, Zenon
  <2> QED
    BY <2>5, Zenon DEF StopExclusive
<1>8. WaiterWoken'
  <2>1. \A u \in Controllers : Patient(th[u], th'[u])
    BY <1>2, <1>3, Apart, Zenon DEF Patient
  <2>2. \A u \in Sleepers : Rings(u)
    BY <1>2, <1>3, <1>6, Apart, Zenon DEF Rings
  <2>3. \A u \in Controllers : InRole(u, th[u]) /\ Sound(th[u])
    BY Apart, Zenon DEF IInv, Local
  <2>4. WaiterWoken
    BY Zenon DEF IInv
  <2> QED
    BY <1>6, <2>1, <2>2, <2>3, <2>4, WaiterFrame, Zenon
<1>9. s.pc \notin {"select", "blocked"}
  BY Zenon
<1> QED
  BY <1>2, <1>4, <1>6, <1>7, <1>8, <1>9, TwoThreads, Zenon

(* thread_unstop lets the thread go, sets it running when it was stopped   *)
(* after its wait, and tells the next controller otherwise.                *)
LEMMA ThreadUnstopStep ==
  ASSUME IInv, cast' = cast, NEW c \in Controllers, NEW t, t = th[c].target, ThreadUnstop(c)
  PROVE  IInv'
<1>1. /\ th[c].place = "cpu" /\ th[c].pc \in {"holding", "unstop"} /\ ctx[c].op = "idle"
  BY Zenon DEF ThreadUnstop, Runs
<1>2. th[c].pc \in {"stop", "wait", "holding", "unstop"}
  BY <1>1, Zenon
<1>3. /\ c \in Threads /\ c \notin Sleepers /\ t \in Sleepers /\ t \in Threads /\ t \in Buckets
      /\ t # c /\ t \notin Controllers /\ ~th[c].wait /\ th[c].event = None
      /\ th \in [Threads -> Record] /\ th[c] \in Record /\ Sound(th[c]) /\ InRole(c, th[c])
      /\ th[t] \in Record /\ Sound(th[t]) /\ InRole(t, th[t])
  BY <1>1, <1>2, TargetFacts, Zenon
<1> DEFINE s == [th[c] EXCEPT !.pc = "run", !.target = None]
           v == [th[t] EXCEPT !.susp = FALSE]
           a == [v EXCEPT !.wake_active = FALSE]
           S == [State EXCEPT !.th[t].susp = FALSE, !.th[c].pc = "run", !.th[c].target = None]
<1>4. th[c] \in Record /\ th[t] \in Record
  BY <1>3, Zenon
<1>5. s \in Record
  <2>1. th[c] \in Record
    BY <1>4, Zenon
  <2>2. [th[c] EXCEPT !.pc = "run"] \in Record
    BY <2>1, Zenon DEF Record, ThreadPcs
  <2>3. [[th[c] EXCEPT !.pc = "run"] EXCEPT !.target = None] \in Record
    BY <2>2, Zenon DEF Record
  <2>4. s = [[th[c] EXCEPT !.pc = "run"] EXCEPT !.target = None]
    BY <2>1, Zenon DEF Record
  <2> QED
    BY <2>3, <2>4, Zenon
<1>6. /\ s.run = th[c].run /\ s.wait = th[c].wait /\ s.unint = th[c].unint
      /\ s.susp = th[c].susp /\ s.event = th[c].event /\ s.wake_active = th[c].wake_active
      /\ s.timer = th[c].timer /\ s.refs = th[c].refs /\ s.place = th[c].place
      /\ s.pc = "run" /\ s.phase = th[c].phase
  BY <1>4, Zenon DEF Record
<1>7. v \in Record
  BY <1>4, FlagFacts, Zenon
<1>8. /\ v.run = th[t].run /\ v.wait = th[t].wait /\ v.unint = th[t].unint /\ v.susp = FALSE
      /\ v.abort = th[t].abort /\ v.event = th[t].event /\ v.wake_active = th[t].wake_active
      /\ v.timer = th[t].timer /\ v.refs = th[t].refs /\ v.place = th[t].place
      /\ v.pc = th[t].pc /\ v.phase = th[t].phase /\ v.target = th[t].target
  BY <1>4, Zenon DEF Record
<1>9. a \in Record
  BY <1>7, FlagFacts, Zenon
<1>10. /\ a.run = v.run /\ a.wait = v.wait /\ a.unint = v.unint /\ a.susp = FALSE
       /\ a.abort = v.abort /\ a.event = v.event /\ a.wake_active = FALSE
       /\ a.timer = v.timer /\ a.refs = v.refs /\ a.place = v.place
       /\ a.pc = v.pc /\ a.phase = v.phase /\ a.target = v.target
  BY <1>7, <1>8, Zenon DEF Record
<1>11. /\ S.th = [th EXCEPT ![t] = v, ![c] = s] /\ S.bucket = bucket /\ S.ctx = ctx
       /\ [S EXCEPT !.th[t] = Setrun(@)].th = [th EXCEPT ![t] = Setrun(v), ![c] = s]
       /\ [S EXCEPT !.th[t] = Setrun(@)].bucket = bucket /\ [S EXCEPT !.th[t] = Setrun(@)].ctx = ctx
  BY <1>3, Zenon DEF State
<1>12. S = [th |-> [th EXCEPT ![t] = v, ![c] = s], bucket |-> bucket, ctx |-> ctx]
  <2> DEFINE R == [State EXCEPT !.th[t].susp = FALSE]
             f == [th EXCEPT ![t] = v]
             R2 == [R EXCEPT !.th[c].pc = "run"]
             g == [th[c] EXCEPT !.pc = "run"]
  <2>1. R = [th |-> f, bucket |-> bucket, ctx |-> ctx]
    BY DEF State
  <2>2. f[c] = th[c] /\ c \in DOMAIN f
    BY <1>3, Zenon
  <2>3. S = [R2 EXCEPT !.th[c].target = None]
    BY Zenon
  <2> HIDE DEF R, f
  <2>4. R2 = [th |-> [f EXCEPT ![c] = g], bucket |-> bucket, ctx |-> ctx]
    BY <2>1, <2>2
  <2>5. [f EXCEPT ![c] = g][c] = g
    BY <2>2, Zenon
  <2> HIDE DEF R2, S
  <2>6. S.th = [th EXCEPT ![t] = v, ![c] = s]
    BY <1>11, Zenon
  <2>7. S = [th |-> S.th, bucket |-> bucket, ctx |-> ctx]
    BY <2>3, <2>4, Zenon
  <2> QED
    BY <2>6, <2>7, Zenon
<1> DEFINE x == [Idle EXCEPT !.op = "wakeup", !.event = t]
           T == [S EXCEPT !.th[t].wake_active = FALSE, !.ctx[c] = x]
<1>16. T.th = [th EXCEPT ![t] = a, ![c] = s] /\ T.bucket = bucket /\ T.ctx = [ctx EXCEPT ![c] = x]
  <2> DEFINE f == [th EXCEPT ![t] = v, ![c] = s]
  <2>1. S = [th |-> f, bucket |-> bucket, ctx |-> ctx] /\ f[t] = v
    BY <1>3, <1>12, Zenon
  <2> HIDE DEF S, f
  <2>2. T.th = [f EXCEPT ![t] = a] /\ T.bucket = bucket /\ T.ctx = [ctx EXCEPT ![c] = x]
    BY <2>1, Zenon
  <2>3. [f EXCEPT ![t] = a] = [th EXCEPT ![t] = a, ![c] = s]
    BY <1>3, Zenon DEF f
  <2> QED
    BY <2>2, <2>3, Zenon
<1>17. Leaves(th[c], s)
  BY <1>5, <1>6, Zenon DEF Leaves
<1> HIDE DEF s, v, a, T
<1>13. CASE th[t].susp /\ ~th[t].run /\ ~th[t].wait
  <2> DEFINE w == Setrun(v)
  <2>1. th' = [th EXCEPT ![t] = w, ![c] = s] /\ bucket' = bucket /\ ctx' = ctx
    BY <1>11, <1>13, Zenon DEF ThreadUnstop, Become
  <2>2. th[t].place = "off" /\ v.place = "off"
    BY <1>3, <1>8, <1>13, Zenon DEF Sound
  <2>3. /\ w \in Record /\ Core(v, w) /\ w.run = TRUE /\ w.place = "runq"
        /\ w.wait = v.wait /\ w.event = v.event /\ w.timer = v.timer /\ w.refs = v.refs
    BY <1>7, <2>2, SetrunFacts, Zenon
  <2> HIDE DEF w
  <2>4. /\ w.pc = th[t].pc /\ w.abort = th[t].abort /\ w.unint = th[t].unint
        /\ w.phase = th[t].phase /\ w.target = th[t].target
    BY <1>8, <2>3, Zenon DEF Core
  <2>5. Sound(w) /\ w.wait = th[t].wait
    <3>1. /\ th[t].pc = "blocked" /\ th[t].event = None /\ th[t].timer = "unset"
      BY <1>3, <1>13, <2>2, Zenon DEF Sound
    <3>2. /\ w.pc = "blocked" /\ w.event = None /\ w.timer = "unset" /\ ~w.wait
          /\ w.wait = th[t].wait /\ w.run = TRUE /\ w.place = "runq"
      BY <1>8, <1>13, <2>3, <2>4, <3>1, Zenon
    <3>3. w.run = (w.place # "off") /\ (w.pc = "blocked") = (w.place # "cpu")
      BY <3>2, Zenon
    <3> QED
      BY <3>2, <3>3, SMTT(30) DEF Sound
  <2>6. InRole(t, w)
    BY <1>3, <1>8, <2>3, <2>4, Zenon DEF InRole
  <2>7. Frees(th[t], w)
    BY <1>8, <2>3, <2>4, Zenon DEF Frees
  <2> QED
    BY <1>1, <1>13, <1>17, <2>1, <2>5, <2>6, <2>7, LetGo, Zenon
<1>14. CASE ~(th[t].susp /\ ~th[t].run /\ ~th[t].wait) /\ th[t].susp /\ th[t].wake_active
  <2>1. /\ th' = [th EXCEPT ![t] = a, ![c] = s] /\ bucket' = bucket
        /\ ctx' = [ctx EXCEPT ![c] = [Idle EXCEPT !.op = "wakeup", !.event = t]]
    <3>1. Become(T)
      BY <1>14, Zenon DEF ThreadUnstop, T
    <3> QED
      BY <1>16, <3>1, Zenon DEF Become
  <2>2. Sound(a)
    <3>1. Sound(th[t]) /\ (~a.wait /\ ~a.susp => a.run)
      BY <1>3, <1>8, <1>10, <1>14, Zenon DEF Sound
    <3>2. /\ a.run = th[t].run /\ a.wait = th[t].wait /\ a.place = th[t].place
          /\ a.timer = th[t].timer /\ a.event \in {th[t].event, None} /\ a.pc = th[t].pc
      BY <1>8, <1>10, Zenon
    <3> QED
      BY <3>1, <3>2, SoundKept, Zenon
  <2>3. InRole(t, a)
    BY <1>3, <1>8, <1>10, Zenon DEF InRole
  <2>4. Frees(th[t], a)
    BY <1>8, <1>9, <1>10, Zenon DEF Frees
  <2> QED
    BY <1>1, <1>17, <2>1, <2>2, <2>3, <2>4, LetGo, Zenon
<1>15. CASE ~(th[t].susp /\ ~th[t].run /\ ~th[t].wait) /\ ~(th[t].susp /\ th[t].wake_active)
  <2>1. th' = [th EXCEPT ![t] = v, ![c] = s] /\ bucket' = bucket /\ ctx' = ctx
    BY <1>11, <1>15, Zenon DEF ThreadUnstop, Become
  <2>2. Sound(v)
    <3>1. Sound(th[t]) /\ (~v.wait /\ ~v.susp => v.run)
      BY <1>3, <1>8, <1>15, Zenon DEF Sound
    <3>2. /\ v.run = th[t].run /\ v.wait = th[t].wait /\ v.place = th[t].place
          /\ v.timer = th[t].timer /\ v.event \in {th[t].event, None} /\ v.pc = th[t].pc
      BY <1>8, Zenon
    <3> QED
      BY <3>1, <3>2, SoundKept, Zenon
  <2>3. InRole(t, v)
    BY <1>3, <1>8, Zenon DEF InRole
  <2>4. Frees(th[t], v)
    BY <1>7, <1>8, Zenon DEF Frees
  <2> QED
    BY <1>1, <1>8, <1>17, <2>1, <2>2, <2>3, <2>4, LetGo, Zenon
<1> QED
  BY <1>13, <1>14, <1>15, Zenon

-----------------------------------------------------------------------------
(* The inductive invariant holds of the threads as they are created and is *)
(* kept by every step.                                                     *)
LEMMA InitIInv ==
  ASSUME Init
  PROVE  IInv
<1>1. NewThread \in Record /\ Idle \in Context
  <2>1. 0 \in Int /\ <<>> \in Seq(Threads)
    OBVIOUS
  <2> QED
    BY <2>1, Zenon DEF NewThread, Record, ThreadPcs, Results, Idle, Context, Ops
<1>2. /\ th = [t \in Threads |-> NewThread] /\ bucket = [e \in Buckets |-> <<>>]
      /\ ctx = [c \in Slots |-> Idle] /\ cast \in Casts
  BY Zenon DEF Init
<1>3. Types
  <2>1. <<>> \in Seq(Threads)
    OBVIOUS
  <2>2. /\ th \in [Threads -> Record] /\ ctx \in [Slots -> Context]
        /\ bucket \in [Buckets -> Seq(Threads)]
    BY <1>1, <1>2, <2>1, Zenon
  <2> QED
    BY <1>2, <2>2, Zenon DEF Types
<1>4. /\ NewThread.run = TRUE /\ NewThread.wait = FALSE /\ NewThread.unint = FALSE
      /\ NewThread.abort = FALSE /\ NewThread.event = None /\ NewThread.wake_active = FALSE
      /\ NewThread.timer = "unset" /\ NewThread.refs = 0 /\ NewThread.place = "cpu"
      /\ NewThread.pc = "run" /\ NewThread.phase = "stop" /\ NewThread.target = None
      /\ Idle.op = "idle" /\ Idle.thread = None /\ Idle.queue = <<>>
  BY Zenon DEF NewThread, Idle
<1>5. (\A t \in Threads : th[t] = NewThread) /\ (\A c \in Slots : ctx[c] = Idle)
  BY <1>2, Zenon
<1>6. ASSUME NEW t \in Threads PROVE Local(t)
  <2>1. th[t] = NewThread /\ ctx[Softclock].op = "idle"
    BY <1>4, <1>5, Apart, Zenon
  <2>2. Sound(th[t])
    BY <1>4, <2>1, Zenon DEF Sound
  <2>3. Timed(t)
    BY <1>4, <2>1 DEF Timed, Held, HeldFired
  <2>4. AbortKept(t)
    BY <1>4, <2>1, Zenon DEF AbortKept
  <2>5. InRole(t, th[t])
    BY <1>4, <2>1, Apart, Zenon DEF InRole
  <2> QED
    BY <2>2, <2>3, <2>4, <2>5, Zenon DEF Local
<1>7. BucketsExact
  <2>1. ASSUME NEW e \in Buckets
        PROVE  Range(bucket[e]) = {t \in Threads : th[t].event = e} /\ IsInjective(bucket[e])
    <3>1. bucket[e] = <<>>
      BY <1>2, Zenon
    <3>2. \A t \in Threads : th[t].event # e
      BY <1>4, <1>5, Apart, Zenon
    <3>3. Range(<<>>) = {} /\ IsInjective(<<>>)
      BY DEF Range, IsInjective
    <3> QED
      BY <3>1, <3>2, <3>3, Zenon
  <2> QED
    BY <2>1, Zenon DEF BucketsExact
<1>8. WakersExact
  <2>1. Range(<<>>) = {} /\ IsInjective(<<>>)
    BY DEF Range, IsInjective
  <2>2. \A c \in Slots : ctx[c].queue = <<>> /\ ctx[c].op = "idle"
    BY <1>4, <1>5, Zenon
  <2>3. \A t \in Threads : th[t].event # Waking
    BY <1>4, <1>5, Apart, Zenon
  <2> QED
    BY <2>1, <2>2, <2>3, Zenon DEF WakersExact
<1>9. \A c \in Slots : ContextSound(c, ctx[c])
  BY <1>4, <1>5, Zenon DEF ContextSound
<1>10. StopExclusive /\ WaiterWoken
  <2>1. \A c \in Controllers : th[c].pc = "run" /\ ~th[c].wait
    BY <1>4, <1>5, Apart, Zenon
  <2> QED
    BY <2>1, Zenon DEF StopExclusive, WaiterWoken, Holds, Asleep
<1> QED
  BY <1>3, <1>6, <1>7, <1>8, <1>9, <1>10, Zenon DEF IInv

(* thread_wakeup, from a processor or from thread_dispatch and             *)
(* thread_unstop.                                                          *)
LEMMA WakeupStep ==
  ASSUME IInv, cast' = cast, NEW c \in Slots,
         \/ c \in Contexts /\ \E e \in Events, one \in BOOLEAN : Wakeup(c, e, one)
         \/ WakeupCalled(c)
  PROVE  IInv'
<1>1. CASE c \in Contexts /\ \E e \in Events, one \in BOOLEAN : Wakeup(c, e, one)
  <2>1. PICK e \in Events, one \in BOOLEAN : Wakeup(c, e, one)
    BY <1>1, Zenon
  <2>2. Become(Scan(State, c, e, one)) /\ ctx[c].op = "idle"
    BY <2>1, Zenon DEF Wakeup
  <2>3. e \in Buckets /\ c # Softclock
    BY <1>1, Apart, Zenon
  <2>4. ctx[c].op \in {"idle", "wakeup"} /\ ctx[c].op # "wakeup"
    BY <2>2, Zenon
  <2> QED
    BY <2>2, <2>3, <2>4, ScanStep, Zenon
<1>2. CASE WakeupCalled(c)
  <2>1. PICK e : e = ctx[c].event
    BY Zenon
  <2>2. Become(Scan(State, c, e, FALSE)) /\ ctx[c].op = "wakeup"
    BY <1>2, <2>1, Zenon DEF WakeupCalled
  <2>3. e \in Buckets /\ c # Softclock
    BY <2>1, <2>2, Apart, Zenon DEF IInv, ContextSound
  <2>4. ctx[c].op \in {"idle", "wakeup"} /\ FALSE \in BOOLEAN
    BY <2>2, Zenon
  <2> QED
    BY <2>1, <2>2, <2>3, <2>4, ScanStep, Zenon
<1> QED
  BY <1>1, <1>2, Zenon

(* Every step of sched_prim.c keeps the inductive invariant.               *)
LEMMA StepKeeps ==
  ASSUME IInv, [Next]_vars
  PROVE  IInv'
<1>1. CASE UNCHANGED vars
  <2>1. th' = th /\ bucket' = bucket /\ ctx' = ctx /\ cast' = cast
    BY <1>1, Zenon DEF vars
  <2>2. Types' /\ BucketsExact' /\ WakersExact'
    BY <2>1, Zenon DEF IInv, Types, BucketsExact, WakersExact
  <2>3. ASSUME NEW t \in Threads PROVE Local(t)'
    <3>1. Local(t)
      BY Zenon DEF IInv
    <3>2. InRole(t, th[t])' /\ Sound(th[t])'
      BY <2>1, <3>1, Zenon DEF Local, InRole, Sound
    <3>3. Timed(t)'
      BY <2>1, <3>1, Zenon DEF Local, Timed, Held, HeldFired
    <3>4. AbortKept(t)'
      BY <2>1, <3>1, Zenon DEF Local, AbortKept, Interrupted, InterruptedBy
    <3> QED
      BY <3>2, <3>3, <3>4, Zenon DEF Local
  <2>4. \A c \in Slots : ContextSound(c, ctx[c])'
    BY <2>1, Zenon DEF IInv, ContextSound
  <2>5. StopExclusive'
    BY <2>1 DEF IInv, StopExclusive, Holds
  <2>6. WaiterWoken'
    BY <2>1, Zenon DEF IInv, WaiterWoken, Asleep, WakePending
  <2> QED
    BY <2>2, <2>3, <2>4, <2>5, <2>6, Zenon DEF IInv
<1>2. CASE Next
  <2>1. cast' = cast /\ Step
    BY <1>2, Zenon DEF Next
  <2>2. /\ cast.threads \subseteq Threads /\ cast.contexts \subseteq Contexts
        /\ Contexts \subseteq Slots
    BY CastTyped, Apart, Zenon DEF IInv
  <2>3. ASSUME NEW t \in Sleepers \intersect cast.threads,
               \/ \E e \in Events \union {None}, i, f \in BOOLEAN :
                    (i \/ cast.unintWaits) /\ (e # None \/ cast.ipcWaits) /\ AssertWait(t, e, i, f)
               \/ ThreadSetTimeout(t) \/ \E timed \in BOOLEAN : WillWait(t, timed)
        PROVE  IInv'
    BY <2>1, <2>3, AssertWaitStep, ThreadSetTimeoutStep, WillWaitStep, Zenon
  <2>4. ASSUME NEW t \in cast.threads,
               \/ Block(t) \/ Stay(t) \/ Switch(t) \/ Pick(t) \/ Fire(t)
               \/ ThreadGo(t) \/ AbortHandled(t)
        PROVE  IInv'
    <3>1. t \in Threads
      BY <2>2, Zenon
    <3> QED
      BY <2>1, <2>4, <3>1, BlockStep, StayStep, SwitchStep, PickStep, FireStep, ThreadGoStep,
         AbortHandledStep, Zenon
  <2>5. ASSUME NEW c \in cast.contexts,
               \/ \E e \in Events, one \in BOOLEAN : Wakeup(c, e, one)
               \/ \E t \in cast.threads : Abort(c, t) \/ Dispatch(c, t)
               \/ AbortClear(c)
        PROVE  IInv'
    <3>1. c \in Contexts /\ c \in Slots
      BY <2>2, Zenon
    <3>2. CASE \E e \in Events, one \in BOOLEAN : Wakeup(c, e, one)
      BY <2>1, <3>1, <3>2, WakeupStep, Zenon
    <3>3. CASE \E t \in cast.threads : Abort(c, t) \/ Dispatch(c, t)
      <4>1. PICK t \in cast.threads : Abort(c, t) \/ Dispatch(c, t)
        BY <3>3, Zenon
      <4>2. t \in Threads
        BY <2>2, Zenon
      <4> QED
        BY <2>1, <3>1, <4>1, <4>2, AbortStep, DispatchStep, Zenon
    <3>4. CASE AbortClear(c)
      BY <2>1, <3>1, <3>4, AbortClearStep, Zenon
    <3> QED
      BY <2>5, <3>2, <3>3, <3>4, Zenon
  <2>6. ASSUME NEW c \in Slots, ClearLocked(c) \/ WakeupCalled(c) \/ WakeNext(c)
        PROVE  IInv'
    BY <2>1, <2>6, ClearLockedStep, WakeupStep, WakeNextStep, Zenon
  <2>7. ASSUME ThreadTimeout \/ ThreadDeallocate
        PROVE  IInv'
    BY <2>1, <2>7, ThreadTimeoutStep, ThreadDeallocateStep, Zenon
  <2>8. ASSUME NEW c \in Controllers \intersect cast.threads,
               \/ \E t \in Sleepers \intersect cast.threads : StopWait(c, t)
               \/ ThreadStop(c) \/ ThreadWait(c) \/ ThreadUnstop(c)
        PROVE  IInv'
    <3>1. c \in Controllers
      BY Zenon
    <3>2. CASE \E t \in Sleepers \intersect cast.threads : StopWait(c, t)
      BY <2>1, <3>1, <3>2, StopWaitStep, Zenon
    <3> QED
      BY <2>1, <2>8, <3>1, <3>2, ThreadStopStep, ThreadWaitStep, ThreadUnstopStep, Zenon
  <2> QED
    BY <2>1, <2>3, <2>4, <2>5, <2>6, <2>7, <2>8, Zenon DEF Step
<1> QED
  BY <1>1, <1>2, Zenon

(* The inductive invariant of waiting and waking: every thread's record is *)
(* sound, wait buckets and the lists of the wakers hold whom they should,  *)
(* and no waker is about to do what is out of date.                        *)
THEOREM Invariance == Spec => []IInv
<1>1. Init => IInv
  BY InitIInv, Zenon
<1>2. IInv /\ [Next]_vars => IInv'
  BY StepKeeps, Zenon
<1> QED
  BY <1>1, <1>2, PTL DEF Spec

(* Whatever sleepers, wakers, timeouts, aborts and controllers there are,  *)
(* and however their steps interleave: a thread that assert_wait gave an   *)
(* event is in that bucket once, and one that thread_wakeup_prim has       *)
(* marked is in the hands of exactly one waker.  It is assumed that        *)
(* thread_go is called for IPC waits only, the guard of ThreadGo.          *)
THEOREM WaitQueues == Spec => []QueuesAgree
<1>1. ASSUME IInv PROVE QueuesAgree
  <2>1. /\ BucketsExact /\ WakersExact
    BY <1>1, Zenon DEF IInv
  <2>2. ASSUME NEW t \in Threads
        PROVE  /\ th[t].event # None => th[t].wait
               /\ {c \in Slots : t \in Range(ctx[c].queue)}
                    \in IF th[t].event = Waking THEN {{c} : c \in Slots} ELSE {{}}
    <3> DEFINE W == {c \in Slots : t \in Range(ctx[c].queue)}
    <3>1. th[t].event # None => th[t].wait
      BY <1>1, Zenon DEF IInv, Local, Sound
    <3>2. CASE th[t].event = Waking
      <4>1. PICK d \in Slots : t \in Range(ctx[d].queue)
        BY <2>1, <3>2, Zenon DEF WakersExact
      <4>2. ASSUME NEW c \in Slots, t \in Range(ctx[c].queue) PROVE c = d
        BY <2>1, <4>1, <4>2, Zenon DEF WakersExact
      <4>3. W = {d}
        BY <4>1, <4>2, Zenon
      <4> QED
        BY <3>1, <3>2, <4>3, Zenon
    <3>3. CASE th[t].event # Waking
      <4>1. W = {}
        BY <2>1, <3>3, Zenon DEF WakersExact
      <4> QED
        BY <3>1, <3>3, <4>1, Zenon
    <3> QED
      BY <3>2, <3>3, Zenon
  <2> QED
    BY <2>1, <2>2, Zenon DEF QueuesAgree, BucketsExact, WakersExact
<1> QED
  BY <1>1, Invariance, PTL

(* When thread_go is called for IPC waits only, which it does not check:   *)
(* thread_setrun never puts a thread on a run queue that is on one or on a *)
(* processor, and every thread that neither waits nor is stopped has       *)
(* TH_RUN.  Of the panics of sched_prim.c, the three on these paths are    *)
(* not reached: "already asserted event" in assert_wait, "thread_wakeup"   *)
(* in thread_wakeup_prim, "State" in thread_dispatch; nor is the assertion *)
(* of set_timeout that the timer is not set.  The panics of the run queues *)
(* and of the idle thread are not modelled.                                *)
THEOREM RunnableOnce == Spec => []RunsOnce
<1>1. ASSUME IInv PROVE RunsOnce
  <2>1. ASSUME NEW t \in Threads
        PROVE  /\ th[t].place # "twice" /\ (th[t].run <=> th[t].place # "off")
               /\ ~th[t].wait /\ ~th[t].susp => th[t].run
               /\ th[t].pc # "panic"
    BY <1>1, ThreadFacts, Zenon DEF Sound, Record
  <2> QED
    BY <2>1, Zenon DEF RunsOnce
<1> QED
  BY <1>1, Invariance, PTL

(* However clear_wait, thread_wakeup, softclock and the thread race: the   *)
(* timer set by thread_set_timeout never outlives its wait, and the        *)
(* reference it holds lasts until thread_timeout has returned.             *)
THEOREM TimersHeld == Spec => []TimerHeld
<1>1. ASSUME IInv PROVE TimerHeld
  <2>1. ASSUME NEW t \in Threads
        PROVE  /\ th[t].timer # "unset" => th[t].wait
               /\ th[t].timer # "unset" \/ (ctx[Softclock].op # "idle" /\ ctx[Softclock].thread = t)
                    => th[t].refs > 0
    <3>1. /\ th[t] \in Record /\ Sound(th[t]) /\ Timed(t)
      BY <1>1, ThreadFacts, Zenon
    <3>2. th[t].timer \in {"unset", "set", "pending"} /\ th[t].refs \in Int
      BY <3>1, Zenon DEF Record
    <3>3. th[t].timer # "unset" => th[t].wait
      BY <3>1, Zenon DEF Sound
    <3>4. Held(t) => th[t].refs > 0
      BY <3>1, <3>2 DEF Timed
    <3>5. th[t].timer = "set" => th[t].refs > 0
      BY <3>1, <3>2 DEF Timed
    <3>6. th[t].timer = "pending" => Held(t)
      BY <3>1, Zenon DEF Timed, HeldFired, Held
    <3> QED
      BY <3>2, <3>3, <3>4, <3>5, <3>6, Zenon DEF Held
  <2> QED
    BY <2>1, Zenon DEF TimerHeld
<1> QED
  BY <1>1, Invariance, PTL

(* Whether act_abort comes before assert_wait, between it and thread_block *)
(* or after the switch: no thread with TH_ABORT is left asleep in an       *)
(* interruptible wait.                                                     *)
THEOREM AbortsSeen == Spec => []AbortSeen
<1>1. ASSUME IInv PROVE AbortSeen
  <2>1. ASSUME NEW t \in Threads, th[t].abort, th[t].wait, ~th[t].unint, th[t].place = "off"
        PROVE  Interrupted(t)
    <3>1. Sound(th[t]) /\ AbortKept(t)
      BY <1>1, ThreadFacts, Zenon
    <3>2. th[t].pc = "blocked"
      BY <2>1, <3>1, Zenon DEF Sound
    <3> QED
      BY <2>1, <3>1, <3>2, Zenon DEF AbortKept
  <2> QED
    BY <2>1, Zenon DEF AbortSeen, Interrupted, InterruptedBy
<1> QED
  BY <1>1, Invariance, PTL

(* thread_stop_wait gives a thread to one controller at a time, for any    *)
(* number of controllers, and what it holds does not run.                  *)
THEOREM StopsExclude == Spec => []StopExclusive
<1>1. IInv => StopExclusive
  BY Zenon DEF IInv
<1> QED
  BY <1>1, Invariance, PTL

(* No controller sleeps in thread_wait for a wakeup that nobody owes it.   *)
THEOREM WaitersWoken == Spec => []WaiterWoken
<1>1. IInv => WaiterWoken
  BY Zenon DEF IInv
<1> QED
  BY <1>1, Invariance, PTL
=============================================================================
