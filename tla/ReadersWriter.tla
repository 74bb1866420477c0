---------------------------- MODULE ReadersWriter ----------------------------
(***************************************************************************)
(* What the kernel's complex lock promises its clients (kern/lock.c): many *)
(* readers or one writer, and an upgrade that either fails, giving the     *)
(* read hold up, or makes a reader the writer with no other writer in      *)
(* between.                                                                *)
(***************************************************************************)
CONSTANT Threads
VARIABLES readers, writer       \* sets of threads; writer has at most one

Init == readers = {} /\ writer = {}

AcquireRead(t) ==
  /\ writer = {} /\ t \notin readers
  /\ readers' = readers \union {t} /\ writer' = writer

AcquireWrite(t) ==
  /\ writer = {} /\ readers = {}
  /\ writer' = {t} /\ readers' = readers

(* Also the upgrade that fails: lock_read_to_write then holds no lock.     *)
ReleaseRead(t) ==
  /\ t \in readers
  /\ readers' = readers \ {t} /\ writer' = writer

ReleaseWrite(t) ==
  /\ writer = {t}
  /\ writer' = {} /\ readers' = readers

(* The upgrader was a reader up to this very step, so what it read under   *)
(* the read lock is still what the lock protects.                          *)
Upgrade(t) ==
  /\ readers = {t} /\ writer = {}
  /\ readers' = {} /\ writer' = {t}

Downgrade(t) ==
  /\ writer = {t}
  /\ readers' = readers \union {t} /\ writer' = {}

Next == \E t \in Threads :
  \/ AcquireRead(t) \/ AcquireWrite(t) \/ ReleaseRead(t)
  \/ ReleaseWrite(t) \/ Upgrade(t) \/ Downgrade(t)

Spec == Init /\ [][Next]_<<readers, writer>>
=============================================================================
