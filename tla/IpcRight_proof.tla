------------------------------ MODULE IpcRight_proof -----------------------------
(* Port rights: the inductive invariant, the lemmas that reduce it to the  *)
(* one entry and the one port that a call of ipc_right.c or ipc_port.c     *)
(* changes, one lemma per operation, and the properties that follow for    *)
(* any number of ports and names.                                          *)
EXTENDS IpcRight, TLAPS

(* A condition as a number.                                                *)
One(b) == IF b THEN 1 ELSE 0

(* What an entry says of a port.                                           *)
NamesIt(x, p) == x.object = p
SendsTo(x, p) == HasSend(x) /\ x.object = p
SendsOnceTo(x, p) == x.type = "send_once" /\ x.object = p
UsesName(x) == HasSend(x) \/ HasReceive(x)

(* An entry is well formed: it has an object exactly if it is a right to a *)
(* port, and user references within the bounds of its type.                *)
EntryOk(x) ==
  /\ x \in Entry
  /\ x.object = None <=> x.type \in {"none", "dead_name"}
  /\ x.request => x.object # None
  /\ HasSend(x) => x.urefs \in 1..UrefsMax - 1
  /\ x.type = "dead_name" => x.urefs \in 1..UrefsMax
  /\ x.type = "send_once" => x.urefs = 1
  /\ x.type \in {"none", "receive"} => x.urefs = 0

(* n entries name the port, s of them with a send right and o with a       *)
(* send-once right.                                                        *)
PortOk(q, n, s, o) ==
  /\ q \in Port
  /\ q.references = n + q.send + q.send_once + One(q.receive)
  /\ q.receive => q.active
  /\ q.active =>
       /\ q.srights = s + q.send + q.stray
       /\ q.sorights = o + q.send_once
       /\ q.receive <=> q.receiver = None
       /\ \A m \in q.told : m <= q.mscount
       /\ q.mscount \in q.told => s = 0 /\ q.send = 0
       /\ q.nsrequest /\ q.srights = 0 => q.early

(* The entry x of the name e and the port p, with q in it, agree on who    *)
(* receives and who asked for a dead-name notification.                    *)
LinkOk(e, x, p, q) ==
  /\ ~q.active /\ x.object = p => ~HasReceive(x)
  /\ q.active =>
       /\ q.receiver = e <=> x.object = p /\ HasReceive(x)
       /\ x.object = p /\ x.request => e \in q.dnrequests
       /\ q.stray = 0 /\ e \in q.dnrequests => x.object = p /\ x.request

(* The counts of a port are right, those in messages included.             *)
Naked(p) == PortOk(port[p], Cardinality(Naming(p)), Cardinality(Senders(p)),
                   Cardinality(SendOncers(p)))

(* A space has one name for its send and receive rights to a port.         *)
UniqueNames ==
  \A e, f \in Slots :
    /\ UsesName(entry[e]) /\ UsesName(entry[f])
    /\ entry[e].object = entry[f].object /\ Space(e) = Space(f)
    => e = f

(* How sets of names are counted.  This is so in every state, since there  *)
(* are finitely many names; the invariant has it so that only the proof    *)
(* for the initial state needs the theorems about finite sets.             *)
Counted ==
  \A S \in SUBSET Slots :
    /\ Cardinality(S) \in Nat
    /\ Cardinality(S) = 0 <=> S = {}
    /\ \A e \in Slots : /\ Cardinality(S \ {e}) = Cardinality(S) - One(e \in S)
                        /\ Cardinality(S \union {e}) = Cardinality(S) + One(e \notin S)

(* The inductive invariant: of every entry, of every port with the sets    *)
(* that its counts are about, of every pair of the two, and of pairs of    *)
(* names.                                                                  *)
IInv ==
  /\ Counted
  /\ TypeOK
  /\ \A e \in Slots : EntryOk(entry[e])
  /\ \A p \in Ports : Naked(p)
  /\ \A e \in Slots, p \in Ports : LinkOk(e, entry[e], p, port[p])
  /\ UniqueNames

----------------------------------------------------------------------------------
(* Sets of names have a number of elements, which grows and shrinks by one.*)
LEMMA Counting ==
  ASSUME IInv, NEW S, S \subseteq Slots, NEW e \in Slots
  PROVE  /\ Cardinality(S) \in Nat
         /\ Cardinality(S) = 0 <=> S = {}
         /\ Cardinality(S \ {e}) = Cardinality(S) - One(e \in S)
         /\ Cardinality(S \union {e}) = Cardinality(S) + One(e \notin S)
  BY Zenon DEF IInv, Counted

(* The elements of a set after one of them was put in or taken out.        *)
LEMMA Changing ==
  ASSUME IInv, NEW S, S \subseteq Slots, NEW e \in Slots, NEW now \in BOOLEAN, NEW T,
         T = IF now THEN S \union {e} ELSE S \ {e}
  PROVE  Cardinality(T) = Cardinality(S) + One(now) - One(e \in S)
<1>1. /\ Cardinality(S) \in Nat
      /\ Cardinality(S \ {e}) = Cardinality(S) - One(e \in S)
      /\ Cardinality(S \union {e}) = Cardinality(S) + One(e \notin S)
  BY Counting, Zenon
<1>2. CASE now
  <2>1. Cardinality(T) = Cardinality(S) + One(e \notin S)
    BY <1>1, <1>2, Zenon
  <2> QED
    BY <1>1, <1>2, <2>1 DEF One
<1>3. CASE ~now
  <2>1. Cardinality(T) = Cardinality(S) - One(e \in S)
    BY <1>1, <1>3, Zenon
  <2> QED
    BY <1>1, <1>3, <2>1 DEF One
<1> QED
  BY <1>2, <1>3, Zenon

(* What changing the entry e into x does to the sets that the counts of a  *)
(* port are about.                                                         *)
LEMMA Recount ==
  ASSUME IInv, TypeOK, NEW e \in Slots, NEW x \in Entry, NEW p \in Ports,
         entry' = [entry EXCEPT ![e] = x]
  PROVE  /\ Cardinality(Naming(p))' =
              Cardinality(Naming(p)) + One(NamesIt(x, p)) - One(NamesIt(entry[e], p))
         /\ Cardinality(Senders(p))' =
              Cardinality(Senders(p)) + One(SendsTo(x, p)) - One(SendsTo(entry[e], p))
         /\ Cardinality(SendOncers(p))' =
              Cardinality(SendOncers(p)) + One(SendsOnceTo(x, p)) - One(SendsOnceTo(entry[e], p))
<1>1. Naming(p)' = IF NamesIt(x, p) THEN Naming(p) \union {e} ELSE Naming(p) \ {e}
  BY Zenon DEF TypeOK, Naming, NamesIt
<1>2. Senders(p)' = IF SendsTo(x, p) THEN Senders(p) \union {e} ELSE Senders(p) \ {e}
  BY Zenon DEF TypeOK, Senders, SendsTo
<1>3. SendOncers(p)' = IF SendsOnceTo(x, p) THEN SendOncers(p) \union {e} ELSE SendOncers(p) \ {e}
  BY Zenon DEF TypeOK, SendOncers, SendsOnceTo
<1>4. /\ Naming(p) \subseteq Slots /\ (e \in Naming(p) <=> NamesIt(entry[e], p))
      /\ Senders(p) \subseteq Slots /\ (e \in Senders(p) <=> SendsTo(entry[e], p))
      /\ SendOncers(p) \subseteq Slots /\ (e \in SendOncers(p) <=> SendsOnceTo(entry[e], p))
  BY Zenon DEF Naming, Senders, SendOncers, NamesIt, SendsTo, SendsOnceTo
<1>5. Cardinality(Naming(p))' =
        Cardinality(Naming(p)) + One(NamesIt(x, p)) - One(NamesIt(entry[e], p))
  <2>1. NamesIt(x, p) \in BOOLEAN
    BY Zenon DEF NamesIt, HasSend
  <2>2. Cardinality(Naming(p)') = Cardinality(Naming(p)) + One(NamesIt(x, p)) - One(e \in Naming(p))
    BY <1>1, <1>4, <2>1, Changing
  <2> QED
    BY <2>2, <1>4, Zenon DEF One
<1>6. Cardinality(Senders(p))' =
        Cardinality(Senders(p)) + One(SendsTo(x, p)) - One(SendsTo(entry[e], p))
  <2>1. SendsTo(x, p) \in BOOLEAN
    BY Zenon DEF SendsTo, HasSend
  <2>2. Cardinality(Senders(p)') = Cardinality(Senders(p)) + One(SendsTo(x, p)) - One(e \in Senders(p))
    BY <1>2, <1>4, <2>1, Changing
  <2> QED
    BY <2>2, <1>4, Zenon DEF One
<1>7. Cardinality(SendOncers(p))' =
        Cardinality(SendOncers(p)) + One(SendsOnceTo(x, p)) - One(SendsOnceTo(entry[e], p))
  <2>1. SendsOnceTo(x, p) \in BOOLEAN
    BY Zenon DEF SendsOnceTo, HasSend
  <2>2. Cardinality(SendOncers(p)') = Cardinality(SendOncers(p)) + One(SendsOnceTo(x, p)) - One(e \in SendOncers(p))
    BY <1>3, <1>4, <2>1, Changing
  <2> QED
    BY <2>2, <1>4, Zenon DEF One
<1> QED
  BY <1>5, <1>6, <1>7, Zenon

----------------------------------------------------------------------------------
(* A step that changes a port leaves alone what its other names say of it. *)
OthersAgree(e, q, r) ==
  /\ r.active => /\ q.active
                 /\ r.receiver = q.receiver \/ {r.receiver, q.receiver} \subseteq {e, None}
                 /\ r.stray = 0 => q.stray = 0
                 /\ \A f \in Slots \ {e} : f \in r.dnrequests <=> f \in q.dnrequests
  /\ ~r.active /\ q.active => q.receiver \in {e, None}

(* The port and its other names still agree.                               *)
LEMMA OthersKept ==
  ASSUME IInv, NEW e, NEW p \in Ports, NEW r, OthersAgree(e, port[p], r)
  PROVE  \A f \in Slots \ {e} : LinkOk(f, entry[f], p, r)
<1> SUFFICES ASSUME NEW f \in Slots, f # e PROVE LinkOk(f, entry[f], p, r)
  BY Zenon
<1>1. LinkOk(f, entry[f], p, port[p]) /\ f # None
  BY RightConstants, Zenon DEF IInv
<1> QED
  BY <1>1, Zenon DEF OthersAgree, LinkOk

(* One entry and one port change: what has to be shown of these.           *)
Fits(e, p, x, r) ==
  /\ entry[e].object \in {p, None} /\ x.object \in {p, None}
  /\ EntryOk(x)
  /\ PortOk(r, Cardinality(Naming(p)) + One(NamesIt(x, p)) - One(NamesIt(entry[e], p)),
               Cardinality(Senders(p)) + One(SendsTo(x, p)) - One(SendsTo(entry[e], p)),
               Cardinality(SendOncers(p)) + One(SendsOnceTo(x, p))
                 - One(SendsOnceTo(entry[e], p)))
  /\ LinkOk(e, x, p, r)
  /\ \A f \in Slots \ {e} : LinkOk(f, entry[f], p, r)
  /\ UsesName(x) => \A f \in Slots \ {e} :
       UsesName(entry[f]) /\ entry[f].object = x.object => Space(f) # Space(e)

(* Then the invariant holds of all of them.                                *)
LEMMA Update ==
  ASSUME IInv, NEW e \in Slots, NEW p \in Ports, NEW x, NEW r, Fits(e, p, x, r),
         entry' = [entry EXCEPT ![e] = x], port' = [port EXCEPT ![p] = r], UNCHANGED alive
  PROVE  IInv'
<1>0. /\ TypeOK /\ x \in Entry /\ r \in Port /\ p # None
      /\ entry \in [Slots -> Entry] /\ port \in [Ports -> Port]
      /\ entry'[e] = x /\ \A f \in Slots \ {e} : entry'[f] = entry[f]
      /\ port'[p] = r /\ \A a \in Ports \ {p} : port'[a] = port[a]
  BY RightConstants, Zenon DEF IInv, TypeOK, EntryOk, PortOk, Fits
<1>1. TypeOK'
  BY <1>0, Zenon DEF TypeOK
<1>2. \A f \in Slots : EntryOk(entry'[f])
  BY <1>0, Zenon DEF IInv, Fits
<1>3. ASSUME NEW a \in Ports PROVE Naked(a)'
  <2>1. CASE a = p
    BY <1>0, <2>1, Recount, ZenonT(60) DEF Naked, Fits
  <2>2. CASE a # p
    <3>1. /\ ~NamesIt(x, a) /\ ~NamesIt(entry[e], a) /\ ~SendsTo(x, a) /\ ~SendsTo(entry[e], a)
          /\ ~SendsOnceTo(x, a) /\ ~SendsOnceTo(entry[e], a)
      BY <2>2, RightConstants DEF NamesIt, SendsTo, SendsOnceTo, Fits
    <3>2. Naming(a)' = Naming(a) /\ Senders(a)' = Senders(a) /\ SendOncers(a)' = SendOncers(a)
      BY <1>0, <3>1, Zenon DEF Naming, Senders, SendOncers, NamesIt, SendsTo, SendsOnceTo
    <3> QED
      BY <1>0, <2>2, <3>2, Zenon DEF Naked, IInv
  <2> QED
    BY <2>1, <2>2, Zenon
<1>4. ASSUME NEW f \in Slots, NEW a \in Ports PROVE LinkOk(f, entry'[f], a, port'[a])
  <2>1. CASE a = p
    BY <1>0, <2>1, Zenon DEF Fits
  <2>2. CASE a # p
    <3>1. LinkOk(f, entry[f], a, port[a])
      BY Zenon DEF IInv
    <3>2. x.object # a /\ entry[e].object # a
      BY <2>2, RightConstants DEF Fits
    <3> QED
      BY <1>0, <2>2, <3>1, <3>2, Zenon DEF LinkOk
  <2> QED
    BY <2>1, <2>2, Zenon
<1>5. UniqueNames'
  <2> SUFFICES ASSUME NEW f \in Slots, NEW g \in Slots, UsesName(entry'[f]), UsesName(entry'[g]),
                      entry'[f].object = entry'[g].object, Space(f) = Space(g), f # g
               PROVE  FALSE
    BY Zenon DEF UniqueNames
  <2>1. CASE f = e
    BY <1>0, <2>1, Zenon DEF Fits
  <2>2. CASE g = e
    BY <1>0, <2>2, Zenon DEF Fits
  <2>3. CASE f # e /\ g # e
    BY <1>0, <2>3, Zenon DEF IInv, UniqueNames
  <2> QED
    BY <2>1, <2>2, <2>3, Zenon
<1>6. Counted'
  BY Zenon DEF IInv, Counted
<1> QED
  BY <1>1, <1>2, <1>3, <1>4, <1>5, <1>6, Zenon DEF IInv

(* What is known of a name that denotes a port, and of that port.          *)
LEMMA AtEntry ==
  ASSUME IInv, NEW e \in Slots, entry[e].object # None
  PROVE  LET p == entry[e].object
             n == Cardinality(Naming(p))
             s == Cardinality(Senders(p))
             o == Cardinality(SendOncers(p))
         IN  /\ p \in Ports /\ EntryOk(entry[e]) /\ PortOk(port[p], n, s, o)
             /\ LinkOk(e, entry[e], p, port[p])
             /\ n \in Nat /\ s \in Nat /\ o \in Nat /\ n > 0
             /\ SendsTo(entry[e], p) => s > 0
             /\ SendsOnceTo(entry[e], p) => o > 0
<1> DEFINE p == entry[e].object
<1>1. p \in Ports /\ EntryOk(entry[e]) /\ PortOk(port[p], Cardinality(Naming(p)),
        Cardinality(Senders(p)), Cardinality(SendOncers(p))) /\ LinkOk(e, entry[e], p, port[p])
  BY Zenon DEF IInv, Naked, EntryOk, Entry
<1>2. /\ Naming(p) \subseteq Slots /\ Senders(p) \subseteq Slots /\ SendOncers(p) \subseteq Slots
      /\ e \in Naming(p)
      /\ SendsTo(entry[e], p) => e \in Senders(p)
      /\ SendsOnceTo(entry[e], p) => e \in SendOncers(p)
  BY Zenon DEF Naming, Senders, SendOncers, SendsTo, SendsOnceTo
<1>3. /\ Cardinality(Naming(p)) \in Nat /\ Cardinality(Naming(p)) # 0
      /\ Cardinality(Senders(p)) \in Nat /\ (Senders(p) # {} => Cardinality(Senders(p)) # 0)
      /\ Cardinality(SendOncers(p)) \in Nat
      /\ (SendOncers(p) # {} => Cardinality(SendOncers(p)) # 0)
  BY <1>2, Counting, Zenon
<1>4. /\ SendsTo(entry[e], p) => Senders(p) # {}
      /\ SendsOnceTo(entry[e], p) => SendOncers(p) # {}
  BY <1>2, Zenon
<1> QED
  BY <1>1, <1>3, <1>4

(* An operation on a name e that denotes the port q, with y in the entry   *)
(* before and x after it and r for the port: what there is to show, which  *)
(* is about two records and three numbers.                                 *)
Before(e, y, p, q, n, s, o) ==
  /\ e \in Slots /\ p \in Ports /\ y.object = p
  /\ EntryOk(y) /\ PortOk(q, n, s, o) /\ LinkOk(e, y, p, q)
  /\ n \in Nat /\ s \in Nat /\ o \in Nat /\ n > 0
  /\ HasSend(y) => s > 0
  /\ y.type = "send_once" => o > 0

(* What must be shown of x and r.                                          *)
After(e, y, p, q, n, s, o, x, r) ==
  /\ x.object \in {p, None}
  /\ EntryOk(x)
  /\ PortOk(r, n - One(x.object = None),
               s + One(HasSend(x)) - One(HasSend(y)),
               o + One(x.type = "send_once") - One(y.type = "send_once"))
  /\ LinkOk(e, x, p, r)
  /\ OthersAgree(e, q, r)
  /\ UsesName(x) => UsesName(y)

(* The operation is one of these, whatever the counts are.                 *)
Keeps(e, x, r) ==
  \A n, s, o : Before(e, entry[e], entry[e].object, PortOf(e), n, s, o)
                 => After(e, entry[e], entry[e].object, PortOf(e), n, s, o, x, r)

(* An operation that puts x and r where it found an entry and its port.    *)
LEMMA PutKeeps ==
  ASSUME IInv, NEW e \in Slots, entry[e].object # None, NEW x, NEW r, Put(e, x, r),
         Keeps(e, x, r)
  PROVE  IInv'
<1> DEFINE p == entry[e].object
           y == entry[e]
           n == Cardinality(Naming(p))
           s == Cardinality(Senders(p))
           o == Cardinality(SendOncers(p))
<1>1. p \in Ports /\ p # None
  BY AtEntry, Zenon
<1>2. Before(e, y, p, PortOf(e), n, s, o)
  BY AtEntry, Zenon DEF Before, PortOf, SendsTo, SendsOnceTo
<1>3. After(e, y, p, PortOf(e), n, s, o, x, r) /\ n \in Nat
  BY <1>2, Zenon DEF Before, Keeps
<1>4. /\ One(NamesIt(x, p)) - One(NamesIt(y, p)) = 0 - One(x.object = None)
      /\ NamesIt(y, p)
  BY <1>1, <1>3 DEF After, NamesIt, One
<1>5. n + One(NamesIt(x, p)) - One(NamesIt(y, p)) = n - One(x.object = None)
  BY <1>1, <1>3 DEF After, NamesIt, One
<1>6. (SendsTo(x, p) <=> HasSend(x)) /\ (SendsTo(y, p) <=> HasSend(y))
  BY <1>1, <1>3, Zenon DEF After, EntryOk, SendsTo, HasSend
<1>7. /\ SendsOnceTo(x, p) <=> x.type = "send_once"
      /\ SendsOnceTo(y, p) <=> y.type = "send_once"
  BY <1>1, <1>3, Zenon DEF After, EntryOk, SendsOnceTo
<1>8. /\ One(SendsTo(x, p)) = One(HasSend(x)) /\ One(SendsTo(y, p)) = One(HasSend(y))
      /\ One(SendsOnceTo(x, p)) = One(x.type = "send_once")
      /\ One(SendsOnceTo(y, p)) = One(y.type = "send_once")
  BY <1>6, <1>7, Zenon DEF One
<1>9. \A f \in Slots \ {e} : LinkOk(f, entry[f], p, r)
  BY <1>1, <1>3, OthersKept, Zenon DEF After, PortOf
<1>10. UsesName(x) => \A f \in Slots \ {e} :
         UsesName(entry[f]) /\ entry[f].object = x.object => Space(f) # Space(e)
  <2>1. UsesName(x) => UsesName(y) /\ x.object = p
    BY <1>3, Zenon DEF After, EntryOk, UsesName, HasSend, HasReceive
  <2> QED
    BY <2>1, Zenon DEF IInv, UniqueNames
<1>11. entry' = [entry EXCEPT ![e] = x] /\ port' = [port EXCEPT ![p] = r] /\ UNCHANGED alive
  BY Zenon DEF Put
<1>12. PortOk(r, n + One(NamesIt(x, p)) - One(NamesIt(y, p)),
                 s + One(SendsTo(x, p)) - One(SendsTo(y, p)),
                 o + One(SendsOnceTo(x, p)) - One(SendsOnceTo(y, p)))
  BY <1>3, <1>5, <1>8, Zenon DEF After
<1>13. /\ entry[e].object \in {p, None} /\ x.object \in {p, None}
       /\ EntryOk(x) /\ LinkOk(e, x, p, r)
  BY <1>3, Zenon DEF After
<1>14. Fits(e, p, x, r)
  BY <1>9, <1>10, <1>12, <1>13, Zenon DEF Fits
<1> QED
  BY <1>1, <1>11, <1>14, Update, Zenon

----------------------------------------------------------------------------------
(* The fields of a port, and what the operations on a port make of it.     *)
LEMMA Fields ==
  ASSUME NEW q \in Port
  PROVE  /\ q.active \in BOOLEAN /\ q.references \in Nat /\ q.srights \in Nat
         /\ q.sorights \in Nat /\ q.mscount \in 0..MaxMscount /\ q.mscount \in Nat
         /\ q.nsrequest \in BOOLEAN /\ q.pdrequest \in BOOLEAN /\ q.dnrequests \subseteq Slots
         /\ q.receiver \in Slots \union {None} /\ q.send \in Nat /\ q.send_once \in Nat
         /\ q.receive \in BOOLEAN /\ q.told \subseteq 0..MaxMscount /\ q.early \in BOOLEAN
         /\ q.stray \in Nat
  BY RightConstants DEF Port

(* ip_reference, ipc_port_dncancel, ipc_port_clear_receiver, the naked     *)
(* rights of a message, ip_release, the loss of a send right and           *)
(* ipc_port_destroy leave a port a port.                                   *)
LEMMA PortTypes ==
  ASSUME NEW q \in Port, NEW e
  PROVE  /\ Reference(q) \in Port /\ Dncancel(q, e) \in Port /\ ClearReceiver(q) \in Port
         /\ NakedSend(q) \in Port /\ NakedSendOnce(q) \in Port
         /\ q.references > 0 => Release(q) \in Port
         /\ q.srights > 0 => DropSend(q) \in Port
         /\ q.references > 0 => PortDestroy(q) \in Port
<1>1. Reference(q) \in Port /\ Dncancel(q, e) \in Port
  BY DEF Port, Reference, Dncancel
<1>2. NakedSend(q) \in Port /\ NakedSendOnce(q) \in Port
  BY DEF Port, NakedSend, NakedSendOnce
<1>3. ClearReceiver(q) \in Port
  <2>1. 0 \in 0..MaxMscount /\ {} \subseteq 0..MaxMscount
    BY RightConstants
  <2> QED
    BY <2>1, Zenon DEF Port, ClearReceiver
<1>4. ASSUME NEW z \in Port, z.references > 0 PROVE Release(z) \in Port
  <2>1. z.references - 1 \in Nat
    BY <1>4, Fields
  <2> QED
    BY <2>1, Zenon DEF Port, Release
<1>5. ASSUME q.srights > 0 PROVE DropSend(q) \in Port
  <2>1. q.srights - 1 \in Nat /\ q.told \union {q.mscount} \subseteq 0..MaxMscount
    BY <1>5, Fields
  <2>2. [q EXCEPT !.srights = @ - 1] \in Port
    BY <2>1, Zenon DEF Port
  <2>3. [q EXCEPT !.srights = 0, !.nsrequest = FALSE, !.early = FALSE,
                  !.told = @ \union {q.mscount}] \in Port
    BY <2>1, Zenon DEF Port
  <2> QED
    BY <2>2, <2>3, Zenon DEF DropSend
<1>6. ASSUME q.references > 0 PROVE PortDestroy(q) \in Port
  <2>1. [q EXCEPT !.pdrequest = FALSE, !.receiver = None, !.receive = TRUE] \in Port
    BY Zenon DEF Port
  <2> DEFINE z == [q EXCEPT !.active = FALSE, !.nsrequest = FALSE, !.early = FALSE,
                            !.dnrequests = {}, !.receiver = None, !.receive = FALSE,
                            !.stray = 0]
  <2>2. z \in Port /\ z.references = q.references
    BY Zenon DEF Port
  <2>3. Release(z) \in Port
    BY <1>6, <2>2, <1>4, Zenon
  <2> QED
    BY <2>1, <2>3, Zenon DEF PortDestroy
<1> QED
  BY <1>1, <1>2, <1>3, <1>4, <1>5, <1>6, Zenon

(* The count of send rights goes down by one, with all that comes of it.   *)
LEMMA Dropping ==
  ASSUME NEW q \in Port, q.srights > 0
  PROVE  LET d == DropSend(q)
         IN  /\ d.srights = q.srights - 1
             /\ d.active = q.active /\ d.references = q.references /\ d.sorights = q.sorights
             /\ d.mscount = q.mscount /\ d.dnrequests = q.dnrequests /\ d.receiver = q.receiver
             /\ d.send = q.send /\ d.send_once = q.send_once /\ d.receive = q.receive
             /\ d.stray = q.stray /\ d.pdrequest = q.pdrequest
             /\ q.srights = 1 /\ q.nsrequest =>
                  d.nsrequest = FALSE /\ d.told = q.told \union {q.mscount}
             /\ ~(q.srights = 1 /\ q.nsrequest) =>
                  d.nsrequest = q.nsrequest /\ d.told = q.told /\ d.early = q.early
<1>1. CASE q.srights = 1 /\ q.nsrequest
  BY <1>1, Fields DEF Port, DropSend
<1>2. CASE ~(q.srights = 1 /\ q.nsrequest)
  BY <1>2, Fields, Zenon DEF Port, DropSend
<1> QED
  BY <1>1, <1>2, Zenon

(* Losing a send right keeps the counts of the port right.                 *)
LEMMA DroppedOk ==
  ASSUME NEW q, NEW n \in Nat, NEW s \in Nat, NEW o \in Nat, PortOk(q, n, s + 1, o), q.active
  PROVE  PortOk(DropSend(q), n, s, o) /\ q.srights > 0
<1> DEFINE d == DropSend(q)
<1>1. q \in Port /\ q.srights > 0
  BY Fields DEF PortOk
<1>2. d \in Port
  BY <1>1, PortTypes, Zenon
<1>3. /\ d.srights = q.srights - 1
      /\ d.active = q.active /\ d.references = q.references /\ d.sorights = q.sorights
      /\ d.mscount = q.mscount /\ d.receiver = q.receiver
      /\ d.send = q.send /\ d.send_once = q.send_once /\ d.receive = q.receive
      /\ d.stray = q.stray
      /\ q.srights = 1 /\ q.nsrequest =>
           d.nsrequest = FALSE /\ d.told = q.told \union {q.mscount}
      /\ ~(q.srights = 1 /\ q.nsrequest) =>
           d.nsrequest = q.nsrequest /\ d.told = q.told /\ d.early = q.early
  BY <1>1, Dropping, Zenon
<1> HIDE DEF d
<1>4. /\ d.references = n + d.send + d.send_once + One(d.receive)
      /\ d.receive => d.active
      /\ d.srights = s + d.send + d.stray /\ d.sorights = o + d.send_once
      /\ d.receive <=> d.receiver = None
  BY <1>1, <1>3, Fields DEF PortOk
<1>5. CASE q.srights = 1 /\ q.nsrequest
  <2>1. s = 0 /\ q.send = 0
    BY <1>1, <1>5, Fields DEF PortOk
  <2>2. \A m \in d.told : m <= d.mscount
    BY <1>1, <1>3, <1>5, Fields DEF PortOk
  <2>3. PortOk(d, n, s, o)
    BY <1>2, <1>3, <1>4, <1>5, <2>1, <2>2, Zenon DEF PortOk
  <2> QED
    BY <1>1, <2>3, Zenon DEF d
<1>6. CASE ~(q.srights = 1 /\ q.nsrequest)
  <2>1. d.mscount \notin d.told
    BY <1>1, <1>3, <1>6, Fields DEF PortOk
  <2>2. \A m \in d.told : m <= d.mscount
    BY <1>1, <1>3, <1>6, Fields, Zenon DEF PortOk
  <2>3. d.nsrequest /\ d.srights = 0 => d.early
    <3>1. d.srights = 0 => q.srights = 1
      BY <1>1, <1>3, Fields
    <3> QED
      BY <1>3, <1>6, <3>1, Zenon
  <2>4. PortOk(d, n, s, o)
    BY <1>2, <1>4, <2>1, <2>2, <2>3, Zenon DEF PortOk
  <2> QED
    BY <1>1, <2>4, Zenon DEF d
<1> QED
  BY <1>5, <1>6, Zenon

(* So do ipc_port_dncancel and ip_release.                                 *)
LEMMA ReleasedOk ==
  ASSUME NEW q, NEW n \in Nat, NEW s \in Nat, NEW o \in Nat, NEW e
  PROVE  /\ PortOk(q, n, s, o) => PortOk(Dncancel(q, e), n, s, o)
         /\ PortOk(q, n + 1, s, o) => PortOk(Release(q), n, s, o) /\ q.references > 0
<1>1. ASSUME PortOk(q, n, s, o) PROVE PortOk(Dncancel(q, e), n, s, o)
  <2>1. q \in Port /\ Dncancel(q, e) \in Port
    BY <1>1, PortTypes, Zenon DEF PortOk
  <2> QED
    BY <1>1, <2>1, Zenon DEF PortOk, Port, Dncancel
<1>2. ASSUME PortOk(q, n + 1, s, o) PROVE PortOk(Release(q), n, s, o) /\ q.references > 0
  <2>1. q \in Port /\ q.references > 0
    BY <1>2, Fields DEF PortOk, One
  <2>2. Release(q) \in Port
    BY <2>1, PortTypes, Zenon
  <2>3. /\ Release(q).references = q.references - 1 /\ Release(q).active = q.active
        /\ Release(q).srights = q.srights /\ Release(q).sorights = q.sorights
        /\ Release(q).mscount = q.mscount /\ Release(q).nsrequest = q.nsrequest
        /\ Release(q).receiver = q.receiver /\ Release(q).send = q.send
        /\ Release(q).send_once = q.send_once /\ Release(q).receive = q.receive
        /\ Release(q).told = q.told /\ Release(q).early = q.early /\ Release(q).stray = q.stray
    BY <2>1, Zenon DEF Port, Release
  <2> QED
    BY <1>2, <2>1, <2>2, <2>3, Fields DEF PortOk, One
<1> QED
  BY <1>1, <1>2, Zenon

----------------------------------------------------------------------------------
(* Entries without a live port.                                            *)
LEMMA FreeOk == EntryOk(Free) /\ Free.object = None /\ Free.type = "none" /\ ~UsesName(Free)
  BY RightConstants DEF EntryOk, Entry, Types, Free, UsesName, HasSend, HasReceive

(* What is known of a port.                                                *)
LEMMA AtPort ==
  ASSUME IInv, NEW p \in Ports
  PROVE  LET n == Cardinality(Naming(p))
             s == Cardinality(Senders(p))
             o == Cardinality(SendOncers(p))
         IN  PortOk(port[p], n, s, o) /\ port[p] \in Port /\ n \in Nat /\ s \in Nat /\ o \in Nat
<1>1. Naming(p) \subseteq Slots /\ Senders(p) \subseteq Slots /\ SendOncers(p) \subseteq Slots
  BY Zenon DEF Naming, Senders, SendOncers
<1>2. /\ Cardinality(Naming(p)) \in Nat /\ Cardinality(Senders(p)) \in Nat
      /\ Cardinality(SendOncers(p)) \in Nat
  BY <1>1, Zenon DEF IInv, Counted
<1> QED
  BY <1>2, Zenon DEF IInv, Naked, PortOk

----------------------------------------------------------------------------------
(* What the calls of ipc_right.c and ipc_port.c put in an entry and in the *)
(* live port it names keeps the invariant of both: lemmas about two        *)
(* records and the numbers of names, send rights and send-once rights of   *)
(* the port.                                                               *)

(* One lemma for each thing the operations on a live port put.             *)
LEMMA MadeSend ==
  ASSUME NEW e, NEW y, NEW p, NEW q, NEW n, NEW s, NEW o, Before(e, y, p, q, n, s, o),
         HasReceive(y), q.mscount < MaxMscount
  PROVE  After(e, y, p, q, n, s, o, y,
               NakedSend(Reference([q EXCEPT !.mscount = @ + 1, !.srights = @ + 1])))
<1> DEFINE r == NakedSend(Reference([q EXCEPT !.mscount = @ + 1, !.srights = @ + 1]))
<1>1. q \in Port /\ p # None
  BY RightConstants, Zenon DEF Before, PortOk
<1>2. r \in Port
  <2>1. q.mscount + 1 \in 0..MaxMscount /\ q.srights + 1 \in Nat
    BY <1>1, Fields, RightConstants
  <2>2. [q EXCEPT !.mscount = @ + 1, !.srights = @ + 1] \in Port
    BY <1>1, <2>1, Zenon DEF Port
  <2> QED
    BY <2>2, PortTypes, Zenon
<1>3. /\ r.references = q.references + 1 /\ r.srights = q.srights + 1
      /\ r.mscount = q.mscount + 1 /\ r.send = q.send + 1
      /\ r.active = q.active /\ r.sorights = q.sorights /\ r.nsrequest = q.nsrequest
      /\ r.dnrequests = q.dnrequests /\ r.receiver = q.receiver /\ r.send_once = q.send_once
      /\ r.receive = q.receive /\ r.told = q.told /\ r.early = q.early /\ r.stray = q.stray
  BY <1>1, Zenon DEF Port, NakedSend, Reference
<1> HIDE DEF r
<1>4. PortOk(r, n, s, o)
  BY <1>1, <1>2, <1>3, Fields DEF Before, PortOk, One
<1>5. LinkOk(e, y, p, r) /\ OthersAgree(e, q, r)
  BY <1>1, <1>3, Zenon DEF Before, LinkOk, OthersAgree
<1> QED
  BY <1>1, <1>4, <1>5 DEF Before, After, One, r

(* An entry that gets a send right beside its receive right.               *)
LEMMA BothOk ==
  ASSUME NEW y, EntryOk(y), y.type = "receive"
  PROVE  EntryOk([y EXCEPT !.type = "send_receive", !.urefs = 1])
<1>1. 1 \in 0..UrefsMax /\ 1 \in 1..UrefsMax - 1 /\ "send_receive" \in Types
  BY RightConstants DEF Types
<1>2. [y EXCEPT !.type = "send_receive", !.urefs = 1] \in Entry
  BY <1>1, Zenon DEF EntryOk, Entry
<1> QED
  BY <1>1, <1>2, Zenon DEF EntryOk, Entry, HasSend

(* Where a receive right is, its port says so.                             *)
LEMMA Received ==
  ASSUME NEW e, NEW y, NEW p, NEW q, NEW n, NEW s, NEW o, Before(e, y, p, q, n, s, o),
         HasReceive(y)
  PROVE  q.active /\ q.receiver = e /\ ~q.receive /\ e # None
  BY RightConstants, Fields, Zenon DEF Before, PortOk, LinkOk

(* An entry that loses its send right and keeps the receive right.         *)
LEMMA ReceiveOnly ==
  ASSUME NEW y, EntryOk(y), HasSend(y), HasReceive(y)
  PROVE  EntryOk([y EXCEPT !.type = "receive", !.urefs = 0])
<1>1. 0 \in 0..UrefsMax /\ "receive" \in Types
  BY RightConstants DEF Types
<1>2. [y EXCEPT !.type = "receive", !.urefs = 0] \in Entry
  BY <1>1, Zenon DEF EntryOk, Entry
<1> QED
  BY <1>2, Zenon DEF EntryOk, Entry, HasSend, HasReceive

(* MACH_MSG_TYPE_MAKE_SEND_ONCE.                                           *)
LEMMA MadeSendOnce ==
  ASSUME NEW e, NEW y, NEW p, NEW q, NEW n, NEW s, NEW o, Before(e, y, p, q, n, s, o),
         HasReceive(y)
  PROVE  After(e, y, p, q, n, s, o, y,
               NakedSendOnce(Reference([q EXCEPT !.sorights = @ + 1])))
<1> DEFINE x == y
           r == NakedSendOnce(Reference([q EXCEPT !.sorights = @ + 1]))
<1>1. q \in Port /\ p # None
  BY RightConstants, Zenon DEF Before, PortOk
<1>2. r \in Port
  <2>1. [q EXCEPT !.sorights = @ + 1] \in Port
    BY <1>1 DEF Port
  <2> QED
    BY <2>1, PortTypes, Zenon
<1>3. /\ r.references = q.references + 1 /\ r.sorights = q.sorights + 1
      /\ r.send_once = q.send_once + 1 /\ r.active = q.active /\ r.srights = q.srights
      /\ r.mscount = q.mscount /\ r.nsrequest = q.nsrequest /\ r.dnrequests = q.dnrequests
      /\ r.receiver = q.receiver /\ r.send = q.send /\ r.receive = q.receive /\ r.told = q.told
      /\ r.early = q.early /\ r.stray = q.stray
  BY <1>1, Zenon DEF Port, NakedSendOnce, Reference
<1> HIDE DEF r
<1>4. PortOk(r, n, s, o)
  BY <1>1, <1>2, <1>3, Fields DEF Before, PortOk, LinkOk, One, HasSend, HasReceive
<1>5. EntryOk(x) /\ x.object = p /\ (UsesName(x) => UsesName(y))
  BY <1>1, RightConstants, Zenon DEF Before, EntryOk, Entry, Types, Free, UsesName, HasSend, HasReceive
<1>6. LinkOk(e, x, p, r) /\ OthersAgree(e, q, r)
  BY <1>1, <1>3, <1>5, RightConstants, Zenon DEF Before, EntryOk, Entry, LinkOk, OthersAgree, Free, HasReceive
<1>7. /\ n - One(x.object = None) = n
      /\ s + One(HasSend(x)) - One(HasSend(y)) = s
      /\ o + One(x.type = "send_once") - One(y.type = "send_once") = o
  BY <1>1, <1>5 DEF Before, EntryOk, Entry, Free, One, HasSend, HasReceive
<1> HIDE DEF x
<1> QED
  BY <1>4, <1>5, <1>6, <1>7, Zenon DEF After, r, x

(* The receive right of a name that has a send right too is moved out.     *)
LEMMA MovedReceive ==
  ASSUME NEW e, NEW y, NEW p, NEW q, NEW n, NEW s, NEW o, Before(e, y, p, q, n, s, o),
         HasReceive(y), HasSend(y)
  PROVE  After(e, y, p, q, n, s, o, [y EXCEPT !.type = "send"],
               [ClearReceiver(Reference(q)) EXCEPT !.receiver = None, !.receive = TRUE])
<1> DEFINE x == [y EXCEPT !.type = "send"]
           r == [ClearReceiver(Reference(q)) EXCEPT !.receiver = None, !.receive = TRUE]
<1>0. q.active /\ q.receiver = e /\ ~q.receive /\ e # None
  BY Received, Zenon
<1>1. q \in Port /\ p # None
  BY RightConstants, Zenon DEF Before, PortOk
<1>2. r \in Port
  <2>1. ClearReceiver(Reference(q)) \in Port
    BY <1>1, PortTypes, Zenon
  <2> QED
    BY <2>1, Zenon DEF Port
<1>3. /\ r.references = q.references + 1 /\ r.mscount = 0 /\ r.told = {} /\ r.receiver = None
      /\ r.receive = TRUE /\ r.active = q.active /\ r.srights = q.srights
      /\ r.sorights = q.sorights /\ r.nsrequest = q.nsrequest /\ r.dnrequests = q.dnrequests
      /\ r.send = q.send /\ r.send_once = q.send_once /\ r.early = q.early /\ r.stray = q.stray
  BY <1>1, Zenon DEF Port, ClearReceiver, Reference
<1> HIDE DEF r
<1>4. PortOk(r, n, s, o)
  BY <1>1, <1>2, <1>3, Fields, <1>0 DEF Before, PortOk, One
<1>5. EntryOk(x) /\ x.object = p /\ (UsesName(x) => UsesName(y))
  BY <1>1, RightConstants, Zenon DEF Before, EntryOk, Entry, Types, Free, UsesName, HasSend, HasReceive
<1>6. LinkOk(e, x, p, r) /\ OthersAgree(e, q, r)
  BY <1>1, <1>3, <1>5, RightConstants, <1>0, Zenon DEF Before, EntryOk, Entry, LinkOk, OthersAgree, Free, HasReceive
<1>7. /\ n - One(x.object = None) = n
      /\ s + One(HasSend(x)) - One(HasSend(y)) = s
      /\ o + One(x.type = "send_once") - One(y.type = "send_once") = o
  BY <1>1, <1>5 DEF Before, EntryOk, Entry, Free, One, HasSend, HasReceive
<1> HIDE DEF x
<1> QED
  BY <1>4, <1>5, <1>6, <1>7, Zenon DEF After, r, x

(* The receive right of a name that has nothing else is moved out.         *)
LEMMA MovedOnlyReceive ==
  ASSUME NEW e, NEW y, NEW p, NEW q, NEW n, NEW s, NEW o, Before(e, y, p, q, n, s, o),
         HasReceive(y), ~HasSend(y)
  PROVE  After(e, y, p, q, n, s, o, Free,
               [ClearReceiver(Dncancel(q, e)) EXCEPT !.receiver = None, !.receive = TRUE])
<1> DEFINE x == Free
           r == [ClearReceiver(Dncancel(q, e)) EXCEPT !.receiver = None, !.receive = TRUE]
<1>0. q.active /\ q.receiver = e /\ ~q.receive /\ e # None
  BY Received, Zenon
<1>1. q \in Port /\ p # None
  BY RightConstants, Zenon DEF Before, PortOk
<1>2. r \in Port
  <2>1. ClearReceiver(Dncancel(q, e)) \in Port
    BY <1>1, PortTypes, Zenon
  <2> QED
    BY <2>1, Zenon DEF Port
<1>3. /\ r.dnrequests = q.dnrequests \ {e} /\ r.mscount = 0 /\ r.told = {} /\ r.receiver = None
      /\ r.receive = TRUE /\ r.active = q.active /\ r.references = q.references
      /\ r.srights = q.srights /\ r.sorights = q.sorights /\ r.nsrequest = q.nsrequest
      /\ r.send = q.send /\ r.send_once = q.send_once /\ r.early = q.early /\ r.stray = q.stray
  BY <1>1, Zenon DEF Port, ClearReceiver, Dncancel
<1> HIDE DEF r
<1>4. PortOk(r, n - 1, s, o)
  BY <1>1, <1>2, <1>3, Fields, <1>0 DEF Before, PortOk, One
<1>5. EntryOk(x) /\ x.object = None /\ (UsesName(x) => UsesName(y))
  BY <1>1, RightConstants, Zenon DEF Before, EntryOk, Entry, Types, Free, UsesName, HasSend, HasReceive
<1>6. LinkOk(e, x, p, r) /\ OthersAgree(e, q, r)
  BY <1>1, <1>3, <1>5, RightConstants, <1>0, Zenon DEF Before, EntryOk, Entry, LinkOk, OthersAgree, Free, HasReceive
<1>7. /\ n - One(x.object = None) = n - 1
      /\ s + One(HasSend(x)) - One(HasSend(y)) = s
      /\ o + One(x.type = "send_once") - One(y.type = "send_once") = o
  BY <1>1, <1>5 DEF Before, EntryOk, Entry, Free, One, HasSend, HasReceive
<1> HIDE DEF x
<1> QED
  BY <1>4, <1>5, <1>6, <1>7, Zenon DEF After, r, x

(* A send right is copied, or one user reference of several is moved.      *)
LEMMA CopiedSend ==
  ASSUME NEW e, NEW y, NEW p, NEW q, NEW n, NEW s, NEW o, Before(e, y, p, q, n, s, o),
         HasSend(y), NEW k \in 1..UrefsMax - 1
  PROVE  After(e, y, p, q, n, s, o, [y EXCEPT !.urefs = k],
               NakedSend(Reference([q EXCEPT !.srights = @ + 1])))
<1> DEFINE x == [y EXCEPT !.urefs = k]
           r == NakedSend(Reference([q EXCEPT !.srights = @ + 1]))
<1>1. q \in Port /\ p # None
  BY RightConstants, Zenon DEF Before, PortOk
<1>2. r \in Port
  <2>1. [q EXCEPT !.srights = @ + 1] \in Port
    BY <1>1 DEF Port
  <2> QED
    BY <2>1, PortTypes, Zenon
<1>3. /\ r.references = q.references + 1 /\ r.srights = q.srights + 1 /\ r.send = q.send + 1
      /\ r.active = q.active /\ r.sorights = q.sorights /\ r.mscount = q.mscount
      /\ r.nsrequest = q.nsrequest /\ r.dnrequests = q.dnrequests /\ r.receiver = q.receiver
      /\ r.send_once = q.send_once /\ r.receive = q.receive /\ r.told = q.told
      /\ r.early = q.early /\ r.stray = q.stray
  BY <1>1, Zenon DEF Port, NakedSend, Reference
<1> HIDE DEF r
<1>4. PortOk(r, n, s, o)
  BY <1>1, <1>2, <1>3, Fields DEF Before, PortOk, LinkOk, One, HasSend, HasReceive
<1>5. EntryOk(x) /\ x.object = p /\ (UsesName(x) => UsesName(y))
  BY <1>1, RightConstants DEF Before, EntryOk, Entry, Types, Free, UsesName, HasSend, HasReceive
<1>6. LinkOk(e, x, p, r) /\ OthersAgree(e, q, r)
  BY <1>1, <1>3, <1>5, RightConstants, Zenon DEF Before, EntryOk, Entry, LinkOk, OthersAgree, Free, HasReceive
<1>7. /\ n - One(x.object = None) = n
      /\ s + One(HasSend(x)) - One(HasSend(y)) = s
      /\ o + One(x.type = "send_once") - One(y.type = "send_once") = o
  BY <1>1, <1>5 DEF Before, EntryOk, Entry, Free, One, HasSend, HasReceive
<1> HIDE DEF x
<1> QED
  BY <1>4, <1>5, <1>6, <1>7, Zenon DEF After, r, x

(* The last user reference is moved; the receive right stays.              *)
LEMMA MovedLastSend ==
  ASSUME NEW e, NEW y, NEW p, NEW q, NEW n, NEW s, NEW o, Before(e, y, p, q, n, s, o),
         HasSend(y), HasReceive(y)
  PROVE  After(e, y, p, q, n, s, o, [y EXCEPT !.type = "receive", !.urefs = 0],
               NakedSend(Reference(q)))
<1> DEFINE x == [y EXCEPT !.type = "receive", !.urefs = 0]
           r == NakedSend(Reference(q))
<1>1. q \in Port /\ p # None
  BY RightConstants, Zenon DEF Before, PortOk
<1>2. r \in Port
  BY <1>1, PortTypes, Zenon
<1>3. /\ r.references = q.references + 1 /\ r.send = q.send + 1 /\ r.active = q.active
      /\ r.srights = q.srights /\ r.sorights = q.sorights /\ r.mscount = q.mscount
      /\ r.nsrequest = q.nsrequest /\ r.dnrequests = q.dnrequests /\ r.receiver = q.receiver
      /\ r.send_once = q.send_once /\ r.receive = q.receive /\ r.told = q.told
      /\ r.early = q.early /\ r.stray = q.stray
  BY <1>1, Zenon DEF Port, NakedSend, Reference
<1> HIDE DEF r
<1>4. PortOk(r, n, s - 1, o)
  BY <1>1, <1>2, <1>3, Fields DEF Before, PortOk, LinkOk, One, HasSend, HasReceive
<1>5. EntryOk(x) /\ x.object = p /\ (UsesName(x) => UsesName(y))
  BY <1>1, RightConstants, ReceiveOnly, Zenon DEF Before, EntryOk, Entry, Types, Free, UsesName, HasSend, HasReceive
<1>6. LinkOk(e, x, p, r) /\ OthersAgree(e, q, r)
  BY <1>1, <1>3, <1>5, RightConstants, Zenon DEF Before, EntryOk, Entry, LinkOk, OthersAgree, Free, HasReceive
<1>7. /\ n - One(x.object = None) = n
      /\ s + One(HasSend(x)) - One(HasSend(y)) = s - 1
      /\ o + One(x.type = "send_once") - One(y.type = "send_once") = o
  BY <1>1, <1>5 DEF Before, EntryOk, Entry, Free, One, HasSend, HasReceive
<1> HIDE DEF x
<1> QED
  BY <1>4, <1>5, <1>6, <1>7, Zenon DEF After, r, x

(* The last user reference is moved and nothing stays.                     *)
LEMMA MovedSend ==
  ASSUME NEW e, NEW y, NEW p, NEW q, NEW n, NEW s, NEW o, Before(e, y, p, q, n, s, o),
         HasSend(y), ~HasReceive(y)
  PROVE  After(e, y, p, q, n, s, o, Free,
               NakedSend(Dncancel(q, e)))
<1> DEFINE x == Free
           r == NakedSend(Dncancel(q, e))
<1>1. q \in Port /\ p # None
  BY RightConstants, Zenon DEF Before, PortOk
<1>2. r \in Port
  BY <1>1, PortTypes, Zenon
<1>3. /\ r.dnrequests = q.dnrequests \ {e} /\ r.send = q.send + 1 /\ r.active = q.active
      /\ r.references = q.references /\ r.srights = q.srights /\ r.sorights = q.sorights
      /\ r.mscount = q.mscount /\ r.nsrequest = q.nsrequest /\ r.receiver = q.receiver
      /\ r.send_once = q.send_once /\ r.receive = q.receive /\ r.told = q.told
      /\ r.early = q.early /\ r.stray = q.stray
  BY <1>1, Zenon DEF Port, NakedSend, Dncancel
<1> HIDE DEF r
<1>4. PortOk(r, n - 1, s - 1, o)
  BY <1>1, <1>2, <1>3, Fields DEF Before, PortOk, LinkOk, One, HasSend, HasReceive
<1>5. EntryOk(x) /\ x.object = None /\ (UsesName(x) => UsesName(y))
  BY <1>1, RightConstants DEF Before, EntryOk, Entry, Types, Free, UsesName, HasSend, HasReceive
<1>6. LinkOk(e, x, p, r) /\ OthersAgree(e, q, r)
  BY <1>1, <1>3, <1>5, RightConstants, Zenon DEF Before, EntryOk, Entry, LinkOk, OthersAgree, Free, HasReceive
<1>7. /\ n - One(x.object = None) = n - 1
      /\ s + One(HasSend(x)) - One(HasSend(y)) = s - 1
      /\ o + One(x.type = "send_once") - One(y.type = "send_once") = o
  BY <1>1, <1>5 DEF Before, EntryOk, Entry, Free, One, HasSend, HasReceive
<1> HIDE DEF x
<1> QED
  BY <1>4, <1>5, <1>6, <1>7, Zenon DEF After, r, x

(* A send-once right goes into a message.                                  *)
LEMMA MovedSendOnce ==
  ASSUME NEW e, NEW y, NEW p, NEW q, NEW n, NEW s, NEW o, Before(e, y, p, q, n, s, o),
         y.type = "send_once"
  PROVE  After(e, y, p, q, n, s, o, Free,
               NakedSendOnce(Dncancel(q, e)))
<1> DEFINE x == Free
           r == NakedSendOnce(Dncancel(q, e))
<1>1. q \in Port /\ p # None
  BY RightConstants, Zenon DEF Before, PortOk
<1>2. r \in Port
  BY <1>1, PortTypes, Zenon
<1>3. /\ r.dnrequests = q.dnrequests \ {e} /\ r.send_once = q.send_once + 1
      /\ r.active = q.active /\ r.references = q.references /\ r.srights = q.srights
      /\ r.sorights = q.sorights /\ r.mscount = q.mscount /\ r.nsrequest = q.nsrequest
      /\ r.receiver = q.receiver /\ r.send = q.send /\ r.receive = q.receive /\ r.told = q.told
      /\ r.early = q.early /\ r.stray = q.stray
  BY <1>1, Zenon DEF Port, NakedSendOnce, Dncancel
<1> HIDE DEF r
<1>4. PortOk(r, n - 1, s, o - 1)
  BY <1>1, <1>2, <1>3, Fields DEF Before, PortOk, One
<1>5. EntryOk(x) /\ x.object = None /\ (UsesName(x) => UsesName(y))
  BY <1>1, RightConstants DEF Before, EntryOk, Entry, Types, Free, UsesName, HasSend, HasReceive
<1>6. LinkOk(e, x, p, r) /\ OthersAgree(e, q, r)
  BY <1>1, <1>3, <1>5, RightConstants, Zenon DEF Before, EntryOk, Entry, LinkOk, OthersAgree, Free, HasReceive
<1>7. /\ n - One(x.object = None) = n - 1
      /\ s + One(HasSend(x)) - One(HasSend(y)) = s
      /\ o + One(x.type = "send_once") - One(y.type = "send_once") = o - 1
  BY <1>1, <1>5 DEF Before, EntryOk, Entry, Free, One, HasSend, HasReceive
<1> HIDE DEF x
<1> QED
  BY <1>4, <1>5, <1>6, <1>7, Zenon DEF After, r, x

(* An entry that goes.                                                     *)
LEMMA Freed ==
  ASSUME NEW e, NEW y, NEW p, NEW q, NEW n, NEW s, NEW o, Before(e, y, p, q, n, s, o),
         NEW r, PortOk(r, n - 1, s - One(HasSend(y)), o - One(y.type = "send_once")),
         e # None, r.receiver # e, e \notin r.dnrequests, OthersAgree(e, q, r)
  PROVE  After(e, y, p, q, n, s, o, Free, r)
<1>1. EntryOk(Free) /\ Free.object = None /\ ~UsesName(Free) /\ p # None
  BY RightConstants DEF Before, EntryOk, Entry, Types, Free, UsesName, HasSend, HasReceive
<1>2. LinkOk(e, Free, p, r)
  BY <1>1, Zenon DEF LinkOk
<1>3. /\ n - One(Free.object = None) = n - 1
      /\ s + One(HasSend(Free)) - One(HasSend(y)) = s - One(HasSend(y))
      /\ o + One(Free.type = "send_once") - One(y.type = "send_once") = o - One(y.type = "send_once")
  BY <1>1 DEF Before, Free, One, HasSend
<1> QED
  BY <1>1, <1>2, <1>3, Zenon DEF After

(* The send right goes; the receive right stays.                           *)
LEMMA LostSend ==
  ASSUME NEW e, NEW y, NEW p, NEW q, NEW n, NEW s, NEW o, Before(e, y, p, q, n, s, o),
         HasSend(y), HasReceive(y)
  PROVE  After(e, y, p, q, n, s, o, [y EXCEPT !.type = "receive", !.urefs = 0], DropSend(q))
<1> DEFINE x == [y EXCEPT !.type = "receive", !.urefs = 0]
           r == DropSend(q)
<1>1. q \in Port /\ p # None /\ q.active
  BY Received, RightConstants, Zenon DEF Before, PortOk
<1>2. s - 1 \in Nat /\ s = (s - 1) + 1
  BY DEF Before
<1>3. PortOk(r, n, s - 1, o) /\ q.srights > 0
  BY <1>1, <1>2, DroppedOk, Zenon DEF Before
<1>4. /\ r.active = q.active /\ r.dnrequests = q.dnrequests /\ r.receiver = q.receiver
      /\ r.stray = q.stray
  BY <1>1, <1>3, Dropping, Zenon
<1> HIDE DEF r
<1>5. EntryOk(x) /\ x.object = p /\ x.type = "receive" /\ x.request = y.request
  BY <1>1, ReceiveOnly, Zenon DEF Before, EntryOk, Entry
<1> HIDE DEF x
<1>6. LinkOk(e, x, p, r) /\ OthersAgree(e, q, r)
  BY <1>1, <1>4, <1>5, Zenon DEF Before, LinkOk, OthersAgree, HasReceive
<1>7. /\ n - One(x.object = None) = n
      /\ s + One(HasSend(x)) - One(HasSend(y)) = s - 1
      /\ o + One(x.type = "send_once") - One(y.type = "send_once") = o
  BY <1>1, <1>5 DEF Before, One, HasSend, HasReceive
<1> QED
  BY <1>3, <1>5, <1>6, <1>7, Zenon DEF After, UsesName, HasSend, HasReceive, r, x

(* The only right of a name goes, deallocated or destroyed.                *)
LEMMA LostOnlySend ==
  ASSUME NEW e, NEW y, NEW p, NEW q, NEW n, NEW s, NEW o, Before(e, y, p, q, n, s, o),
         q.active, HasSend(y), ~HasReceive(y)
  PROVE  /\ After(e, y, p, q, n, s, o, Free, Release(Dncancel(DropSend(q), e)))
         /\ After(e, y, p, q, n, s, o, Free, Release(DropSend(Dncancel(q, e))))
<1>1. /\ q \in Port /\ e # None /\ e \in Slots
      /\ n \in Nat /\ n - 1 \in Nat /\ n = (n - 1) + 1
      /\ s \in Nat /\ s - 1 \in Nat /\ s = (s - 1) + 1 /\ o \in Nat
      /\ PortOk(q, n, s, o)
  BY RightConstants DEF Before, PortOk
<1>2. s - One(HasSend(y)) = s - 1 /\ o - One(y.type = "send_once") = o
  BY <1>1 DEF One, HasSend
<1>3. q.receiver # e
  BY Zenon DEF Before, LinkOk
<1>4. After(e, y, p, q, n, s, o, Free, Release(Dncancel(DropSend(q), e)))
  <2>1. PortOk(DropSend(q), n, s - 1, o) /\ q.srights > 0
    BY <1>1, DroppedOk, Zenon
  <2>2. PortOk(Dncancel(DropSend(q), e), n, s - 1, o)
    BY <1>1, <2>1, ReleasedOk, Zenon
  <2>3. PortOk(Release(Dncancel(DropSend(q), e)), n - 1, s - 1, o)
    BY <1>1, <2>2, ReleasedOk, Zenon
  <2> DEFINE d == DropSend(q)
             r == Release(Dncancel(d, e))
  <2>4. /\ d \in Port /\ d.active = q.active /\ d.dnrequests = q.dnrequests
        /\ d.receiver = q.receiver /\ d.stray = q.stray
    BY <1>1, <2>1, Dropping, Zenon DEF PortOk
  <2> HIDE DEF d
  <2>5. /\ r.active = q.active /\ r.dnrequests = q.dnrequests \ {e}
        /\ r.receiver = q.receiver /\ r.stray = q.stray
    BY <2>4, Zenon DEF Port, Release, Dncancel
  <2> HIDE DEF r
  <2>6. OthersAgree(e, q, r) /\ e \notin r.dnrequests
    BY <2>5, Zenon DEF OthersAgree
  <2>7. PortOk(r, n - 1, s - One(HasSend(y)), o - One(y.type = "send_once"))
    BY <1>2, <2>3, Zenon DEF r, d
  <2>8. After(e, y, p, q, n, s, o, Free, r)
    BY <1>1, <1>3, <2>5, <2>6, <2>7, Freed, Zenon
  <2> QED
    BY <2>8, Zenon DEF r, d
<1>5. After(e, y, p, q, n, s, o, Free, Release(DropSend(Dncancel(q, e))))
  <2> DEFINE z == Dncancel(q, e)
             d == DropSend(z)
             r == Release(d)
  <2>1. PortOk(z, n, s, o) /\ z.active /\ z.dnrequests = q.dnrequests \ {e}
        /\ z.receiver = q.receiver /\ z.stray = q.stray
    BY <1>1, ReleasedOk, Zenon DEF Port, Dncancel
  <2> HIDE DEF z
  <2>2. PortOk(d, n, s - 1, o) /\ z.srights > 0
    BY <1>1, <2>1, DroppedOk, ZenonT(30)
  <2>3. PortOk(r, n - 1, s - 1, o)
    BY <1>1, <2>2, ReleasedOk, Zenon
  <2>4. /\ d \in Port /\ d.active = z.active /\ d.dnrequests = z.dnrequests
        /\ d.receiver = z.receiver /\ d.stray = z.stray
    BY <2>1, <2>2, Dropping, Zenon DEF PortOk
  <2> HIDE DEF d
  <2>5. /\ r.active = q.active /\ r.dnrequests = q.dnrequests \ {e}
        /\ r.receiver = q.receiver /\ r.stray = q.stray
    BY <2>1, <2>4, Zenon DEF Port, Release
  <2> HIDE DEF r
  <2>6. OthersAgree(e, q, r) /\ e \notin r.dnrequests
    BY <2>5, Zenon DEF OthersAgree
  <2>7. PortOk(r, n - 1, s - One(HasSend(y)), o - One(y.type = "send_once"))
    BY <1>2, <2>3, Zenon
  <2>8. After(e, y, p, q, n, s, o, Free, r)
    BY <1>1, <1>3, <2>5, <2>6, <2>7, Freed, Zenon
  <2> QED
    BY <2>8, Zenon DEF r, d, z
<1> QED
  BY <1>4, <1>5, Zenon

(* The user references of a right change and nothing else does.            *)
LEMMA UrefsSet ==
  ASSUME NEW e, NEW y, NEW p, NEW q, NEW n, NEW s, NEW o, Before(e, y, p, q, n, s, o),
         HasSend(y), NEW k \in 1..UrefsMax - 1
  PROVE  After(e, y, p, q, n, s, o, [y EXCEPT !.urefs = k], q)
<1> DEFINE x == [y EXCEPT !.urefs = k]
<1>1. k \in 0..UrefsMax /\ p # None
  BY RightConstants DEF Before
<1>2. x \in Entry
  BY <1>1, Zenon DEF Before, EntryOk, Entry
<1>3. x.type = y.type /\ x.object = y.object /\ x.request = y.request /\ x.urefs = k
  BY Zenon DEF Before, EntryOk, Entry
<1> HIDE DEF x
<1>4. EntryOk(x) /\ LinkOk(e, x, p, q) /\ (HasSend(x) <=> HasSend(y)) /\ (UsesName(x) <=> UsesName(y))
  BY <1>2, <1>3, Zenon DEF Before, EntryOk, LinkOk, HasSend, HasReceive, UsesName
<1>5. OthersAgree(e, q, q)
  BY Zenon DEF Before, LinkOk, OthersAgree
<1>6. /\ n - One(x.object = None) = n
      /\ s + One(HasSend(x)) - One(HasSend(y)) = s
      /\ o + One(x.type = "send_once") - One(y.type = "send_once") = o
  BY <1>1, <1>3, <1>4 DEF Before, One
<1> QED
  BY <1>3, <1>4, <1>5, <1>6, Zenon DEF Before, After, x

(* The receive right goes, and perhaps the port with it: c is the port     *)
(* when ipc_port_destroy is called.                                        *)
LEMMA Destroying ==
  ASSUME NEW e \in Slots, NEW n \in Nat, n > 0, NEW s \in Nat, NEW o \in Nat, NEW c,
         PortOk(c, n, s, o), c.active, c.told = {}, ~c.receive
  PROVE  LET r == PortDestroy(c)
         IN  /\ PortOk(r, n - 1, s, o)
             /\ r.receiver = None
             /\ r.active => r.dnrequests = c.dnrequests /\ r.stray = c.stray
<1> DEFINE r == PortDestroy(c)
<1>1. c \in Port /\ c.references > 0
  BY Fields DEF PortOk, One
<1>2. r \in Port
  BY <1>1, PortTypes, Zenon
<1>3. CASE c.pdrequest
  <2>1. /\ r.active = c.active /\ r.references = c.references /\ r.srights = c.srights
        /\ r.sorights = c.sorights /\ r.mscount = c.mscount /\ r.nsrequest = c.nsrequest
        /\ r.dnrequests = c.dnrequests /\ r.receiver = None /\ r.send = c.send
        /\ r.send_once = c.send_once /\ r.receive = TRUE /\ r.told = c.told
        /\ r.early = c.early /\ r.stray = c.stray
    BY <1>1, <1>3, Zenon DEF Port, PortDestroy
  <2> HIDE DEF r
  <2>2. PortOk(r, n - 1, s, o)
    BY <1>1, <1>2, <2>1, Fields DEF PortOk, One
  <2> QED
    BY <2>1, <2>2, Zenon DEF r
<1>4. CASE ~c.pdrequest
  <2>1. /\ r.active = FALSE /\ r.references = c.references - 1 /\ r.receiver = None
        /\ r.send = c.send /\ r.send_once = c.send_once /\ r.receive = FALSE
    BY <1>1, <1>4, Zenon DEF Port, PortDestroy, Release
  <2> HIDE DEF r
  <2>2. PortOk(r, n - 1, s, o)
    BY <1>1, <1>2, <2>1, Fields DEF PortOk, One
  <2> QED
    BY <2>1, <2>2, Zenon DEF r
<1> QED
  BY <1>3, <1>4, Zenon

(* ipc_port_destroy, when the entry with the receive right goes.           *)
LEMMA LostReceive ==
  ASSUME NEW e, NEW y, NEW p, NEW q, NEW n, NEW s, NEW o, Before(e, y, p, q, n, s, o),
         HasReceive(y), NEW x, EntryOk(x), x.object = None, NEW c,
         PortOk(c, n, s - One(HasSend(y)), o), c.active, c.told = {}, ~c.receive,
         \A f \in Slots \ {e} : f \in c.dnrequests <=> f \in q.dnrequests,
         c.stray = 0 => q.stray = 0 /\ e \notin c.dnrequests
  PROVE  After(e, y, p, q, n, s, o, x, PortDestroy(c))
<1> DEFINE r == PortDestroy(c)
<1>1. /\ e \in Slots /\ p # None /\ e # None
      /\ n \in Nat /\ n > 0 /\ s - One(HasSend(y)) \in Nat /\ o \in Nat
  BY RightConstants DEF Before, One
<1>2. q.active /\ q.receiver = e
  BY Received
<1>3. /\ PortOk(r, n - 1, s - One(HasSend(y)), o) /\ r.receiver = None
      /\ r.active => r.dnrequests = c.dnrequests /\ r.stray = c.stray
  BY <1>1, Destroying
<1> HIDE DEF r
<1>4. ~HasSend(x) /\ ~HasReceive(x) /\ x.type # "send_once" /\ y.type # "send_once"
  BY Zenon DEF EntryOk, HasSend, HasReceive
<1>5. LinkOk(e, x, p, r)
  BY <1>1, <1>3, <1>4, Zenon DEF LinkOk
<1>6. OthersAgree(e, q, r)
  BY <1>1, <1>2, <1>3, Zenon DEF OthersAgree
<1>7. /\ n - One(x.object = None) = n - 1
      /\ s + One(HasSend(x)) - One(HasSend(y)) = s - One(HasSend(y))
      /\ o + One(x.type = "send_once") - One(y.type = "send_once") = o
  <2>1. One(HasSend(x)) = 0 /\ One(HasSend(y)) \in Nat /\ s \in Nat
    BY <1>4, Zenon DEF Before, One
  <2>2. One(x.type = "send_once") = 0 /\ One(y.type = "send_once") = 0 /\ One(x.object = None) = 1
    BY <1>4, Zenon DEF One
  <2> QED
    BY <1>1, <2>1, <2>2
<1> QED
  BY <1>3, <1>4, <1>5, <1>6, <1>7, Zenon DEF After, UsesName, r

(* ipc_port_clear_receiver keeps the counts and forgets what was told.     *)
LEMMA ClearedOk ==
  ASSUME NEW q, NEW n, NEW s, NEW o, PortOk(q, n, s, o)
  PROVE  LET c == ClearReceiver(q)
         IN  /\ PortOk(c, n, s, o) /\ c.told = {} /\ c.active = q.active
             /\ c.receive = q.receive /\ c.dnrequests = q.dnrequests /\ c.stray = q.stray
<1> DEFINE c == ClearReceiver(q)
<1>1. q \in Port /\ c \in Port
  BY PortTypes, Zenon DEF PortOk
<1>2. /\ c.active = q.active /\ c.references = q.references /\ c.srights = q.srights
      /\ c.sorights = q.sorights /\ c.mscount = 0 /\ c.nsrequest = q.nsrequest
      /\ c.dnrequests = q.dnrequests /\ c.receiver = q.receiver /\ c.send = q.send
      /\ c.send_once = q.send_once /\ c.receive = q.receive /\ c.told = {}
      /\ c.early = q.early /\ c.stray = q.stray
  BY <1>1, Zenon DEF Port, ClearReceiver
<1> HIDE DEF c
<1>3. PortOk(c, n, s, o)
  BY <1>1, <1>2, Zenon DEF PortOk
<1> QED
  BY <1>2, <1>3, Zenon DEF c

(* mach_port_mod_refs of a receive right without a send right,             *)
(* mach_port_destroy of both.                                              *)
LEMMA LostAll ==
  ASSUME NEW e, NEW y, NEW p, NEW q, NEW n, NEW s, NEW o, Before(e, y, p, q, n, s, o),
         HasReceive(y)
  PROVE  After(e, y, p, q, n, s, o, Free,
               PortDestroy(ClearReceiver(IF HasSend(y) THEN DropSend(Dncancel(q, e))
                                                       ELSE Dncancel(q, e))))
<1> DEFINE z == Dncancel(q, e)
           d == IF HasSend(y) THEN DropSend(z) ELSE z
           c == ClearReceiver(d)
<1>1. EntryOk(Free) /\ Free.object = None
  BY RightConstants DEF EntryOk, Entry, Types, Free, HasSend, HasReceive
<1>2. /\ q \in Port /\ q.active /\ ~q.receive /\ PortOk(q, n, s, o)
      /\ n \in Nat /\ s \in Nat /\ o \in Nat
  BY Received, Zenon DEF Before, PortOk
<1>3. /\ PortOk(z, n, s, o) /\ z.active /\ ~z.receive /\ z.dnrequests = q.dnrequests \ {e}
      /\ z.stray = q.stray
  BY <1>2, ReleasedOk, Zenon DEF Port, Dncancel
<1> HIDE DEF z
<1>4. /\ PortOk(d, n, s - One(HasSend(y)), o) /\ d.active /\ ~d.receive
      /\ d.dnrequests = z.dnrequests /\ d.stray = z.stray
  <2>1. CASE HasSend(y)
    <3>1. s - 1 \in Nat /\ s = (s - 1) + 1 /\ s - One(HasSend(y)) = s - 1
      BY <2>1 DEF Before, One
    <3>2. PortOk(DropSend(z), n, s - 1, o) /\ z.srights > 0
      BY <1>2, <1>3, <3>1, DroppedOk, ZenonT(30)
    <3>3. /\ DropSend(z).active = z.active /\ DropSend(z).receive = z.receive
          /\ DropSend(z).dnrequests = z.dnrequests /\ DropSend(z).stray = z.stray
      BY <1>3, <3>2, Dropping, Zenon DEF PortOk
    <3> QED
      BY <1>3, <2>1, <3>1, <3>2, <3>3, Zenon
  <2>2. CASE ~HasSend(y)
    <3>1. s - One(HasSend(y)) = s
      BY <1>2, <2>2 DEF One
    <3> QED
      BY <1>3, <2>2, <3>1, Zenon
  <2> QED
    BY <2>1, <2>2, Zenon
<1> HIDE DEF d
<1>5. /\ PortOk(c, n, s - One(HasSend(y)), o) /\ c.told = {} /\ c.active /\ ~c.receive
      /\ c.dnrequests = d.dnrequests /\ c.stray = d.stray
  BY <1>4, ClearedOk, Zenon
<1> HIDE DEF c
<1>6. /\ \A f \in Slots \ {e} : f \in c.dnrequests <=> f \in q.dnrequests
      /\ c.stray = 0 => q.stray = 0 /\ e \notin c.dnrequests
  BY <1>3, <1>4, <1>5, Zenon
<1>7. After(e, y, p, q, n, s, o, Free, PortDestroy(c))
  BY <1>1, <1>5, <1>6, LostReceive, Zenon
<1> QED
  BY <1>7, Zenon DEF c, d, z

(* mach_port_mod_refs of a receive right with a send right, which it       *)
(* leaves counted.                                                         *)
LEMMA StrandedSend ==
  ASSUME NEW e, NEW y, NEW p, NEW q, NEW n, NEW s, NEW o, Before(e, y, p, q, n, s, o),
         HasReceive(y), HasSend(y)
  PROVE  After(e, y, p, q, n, s, o,
               [Free EXCEPT !.type = "dead_name",
                            !.urefs = y.urefs + (IF y.request THEN 1 ELSE 0)],
               PortDestroy(ClearReceiver([q EXCEPT !.stray = @ + 1])))
<1> DEFINE z == [q EXCEPT !.stray = @ + 1]
           c == ClearReceiver(z)
           x == [Free EXCEPT !.type = "dead_name",
                             !.urefs = y.urefs + (IF y.request THEN 1 ELSE 0)]
<1>1. EntryOk(x) /\ x.object = None
  <2>1. y.urefs + (IF y.request THEN 1 ELSE 0) \in 1..UrefsMax
    BY RightConstants DEF Before, EntryOk
  <2>2. x.urefs \in 1..UrefsMax /\ x.type = "dead_name" /\ x.object = None /\ x.request = FALSE
    BY <2>1, Zenon DEF Free
  <2>3. x \in Entry
    <3>1. /\ y.urefs + (IF y.request THEN 1 ELSE 0) \in 0..UrefsMax /\ "dead_name" \in Types
          /\ Free \in Entry
      BY <2>1, RightConstants DEF Types, Free, Entry
    <3> QED
      BY <3>1, Zenon DEF Entry
  <2> QED
    BY <2>2, <2>3, Zenon DEF EntryOk, HasSend
<1> HIDE DEF x
<1>2. /\ q \in Port /\ q.active /\ ~q.receive /\ PortOk(q, n, s, o)
      /\ n \in Nat /\ s \in Nat /\ o \in Nat
  BY Received, Zenon DEF Before, PortOk
<1>3. /\ z.active = q.active /\ z.references = q.references /\ z.srights = q.srights
      /\ z.sorights = q.sorights /\ z.mscount = q.mscount /\ z.nsrequest = q.nsrequest
      /\ z.dnrequests = q.dnrequests /\ z.receiver = q.receiver /\ z.send = q.send
      /\ z.send_once = q.send_once /\ z.receive = q.receive /\ z.told = q.told
      /\ z.early = q.early /\ z.stray = q.stray + 1
  BY <1>2, Zenon DEF Port
<1>9. z \in Port
  BY <1>2 DEF Port
<1> HIDE DEF z
<1>4. s - One(HasSend(y)) = s - 1 /\ s > 0
  BY Zenon DEF Before, One
<1>5. PortOk(z, n, s - One(HasSend(y)), o)
  <2>1. q.mscount \notin q.told
    BY <1>2, <1>4 DEF PortOk
  <2>2. PortOk(z, n, s - 1, o)
    BY <1>2, <1>3, <1>4, <1>9, <2>1, Fields DEF PortOk
  <2> QED
    BY <1>4, <2>2, Zenon
<1>6. /\ PortOk(c, n, s - One(HasSend(y)), o) /\ c.told = {} /\ c.active /\ ~c.receive
      /\ c.dnrequests = q.dnrequests /\ c.stray = q.stray + 1
  BY <1>2, <1>3, <1>5, ClearedOk, Zenon
<1> HIDE DEF c
<1>7. /\ \A f \in Slots \ {e} : f \in c.dnrequests <=> f \in q.dnrequests
      /\ c.stray # 0
  BY <1>2, <1>6, Fields
<1>8. After(e, y, p, q, n, s, o, x, PortDestroy(c))
  BY <1>1, <1>6, <1>7, LostReceive, Zenon
<1> QED
  BY <1>8, Zenon DEF c, z, x

(* What the other requests put: the entry stays as it is.                  *)
LEMMA SameEntry ==
  ASSUME NEW e, NEW y, NEW p, NEW q, NEW n, NEW s, NEW o, Before(e, y, p, q, n, s, o),
         NEW r, PortOk(r, n, s, o), r.active = q.active, r.receiver = q.receiver,
         r.dnrequests = q.dnrequests, r.stray = q.stray
  PROVE  After(e, y, p, q, n, s, o, y, r)
<1>1. p # None /\ n \in Nat /\ s \in Nat /\ o \in Nat
  BY RightConstants, Zenon DEF Before
<1>2. LinkOk(e, y, p, r) /\ OthersAgree(e, q, r)
  BY Zenon DEF Before, LinkOk, OthersAgree
<1>3. /\ n - One(y.object = None) = n
      /\ s + One(HasSend(y)) - One(HasSend(y)) = s
      /\ o + One(y.type = "send_once") - One(y.type = "send_once") = o
  BY <1>1 DEF Before, One
<1> QED
  BY <1>2, <1>3, Zenon DEF Before, After

(* ipc_port_nsrequest: the request is kept, or answered at once.           *)
LEMMA NoSendersAsked ==
  ASSUME NEW e, NEW y, NEW p, NEW q, NEW n, NEW s, NEW o, Before(e, y, p, q, n, s, o),
         HasReceive(y), NEW notify \in BOOLEAN
  PROVE  /\ After(e, y, p, q, n, s, o, y,
                  [q EXCEPT !.nsrequest = notify, !.early = notify /\ q.srights = 0])
         /\ q.srights = 0 => After(e, y, p, q, n, s, o, y,
                  [q EXCEPT !.nsrequest = FALSE, !.early = FALSE, !.told = @ \union {q.mscount}])
<1>1. q \in Port /\ q.active /\ PortOk(q, n, s, o) /\ s \in Nat
  BY Received, Zenon DEF Before, PortOk
<1>2. After(e, y, p, q, n, s, o, y,
            [q EXCEPT !.nsrequest = notify, !.early = notify /\ q.srights = 0])
  <2> DEFINE b == notify /\ q.srights = 0
             r == [q EXCEPT !.nsrequest = notify, !.early = b]
  <2>1. b \in BOOLEAN
    BY Zenon
  <2>2. r \in Port
    BY <1>1, <2>1, ZenonT(30) DEF Port
  <2>3. /\ r.active = q.active /\ r.references = q.references /\ r.srights = q.srights
        /\ r.sorights = q.sorights /\ r.mscount = q.mscount /\ r.nsrequest = notify
        /\ r.dnrequests = q.dnrequests /\ r.receiver = q.receiver /\ r.send = q.send
        /\ r.send_once = q.send_once /\ r.receive = q.receive /\ r.told = q.told
        /\ r.early = b /\ r.stray = q.stray
    BY <1>1, Zenon DEF Port
  <2> HIDE DEF r
  <2>4. PortOk(r, n, s, o)
    BY <1>1, <2>2, <2>3, ZenonT(30) DEF PortOk
  <2>5. After(e, y, p, q, n, s, o, y, r)
    BY <2>3, <2>4, SameEntry, Zenon
  <2> QED
    BY <2>5, Zenon DEF r
<1>3. ASSUME q.srights = 0
      PROVE  After(e, y, p, q, n, s, o, y,
               [q EXCEPT !.nsrequest = FALSE, !.early = FALSE, !.told = @ \union {q.mscount}])
  <2> DEFINE r == [q EXCEPT !.nsrequest = FALSE, !.early = FALSE, !.told = @ \union {q.mscount}]
  <2>1. q.told \union {q.mscount} \subseteq 0..MaxMscount
    BY <1>1, Fields, Zenon
  <2>2. r \in Port
    BY <1>1, <2>1, Zenon DEF Port
  <2>3. /\ r.active = q.active /\ r.references = q.references /\ r.srights = q.srights
        /\ r.sorights = q.sorights /\ r.mscount = q.mscount /\ r.nsrequest = FALSE
        /\ r.dnrequests = q.dnrequests /\ r.receiver = q.receiver /\ r.send = q.send
        /\ r.send_once = q.send_once /\ r.receive = q.receive
        /\ r.told = q.told \union {q.mscount} /\ r.stray = q.stray
    BY <1>1, Zenon DEF Port
  <2> HIDE DEF r
  <2>4. s = 0 /\ q.send = 0
    BY <1>1, <1>3, Fields DEF PortOk
  <2>5. \A m \in r.told : m <= r.mscount
    BY <1>1, <2>3, Fields DEF PortOk
  <2>6. PortOk(r, n, s, o)
    BY <1>1, <2>2, <2>3, <2>4, <2>5, Zenon DEF PortOk
  <2>7. After(e, y, p, q, n, s, o, y, r)
    BY <2>3, <2>6, SameEntry, Zenon
  <2> QED
    BY <2>7, Zenon DEF r
<1> QED
  BY <1>2, <1>3, Zenon

(* ipc_port_pdrequest and ipc_port_set_mscount.                            *)
LEMMA ReceiverSet ==
  ASSUME NEW e, NEW y, NEW p, NEW q, NEW n, NEW s, NEW o, Before(e, y, p, q, n, s, o),
         NEW notify \in BOOLEAN, NEW m \in 0..MaxMscount
  PROVE  /\ After(e, y, p, q, n, s, o, y, [q EXCEPT !.pdrequest = notify])
         /\ After(e, y, p, q, n, s, o, y, [q EXCEPT !.mscount = m, !.told = {}])
<1>1. q \in Port /\ PortOk(q, n, s, o)
  BY Zenon DEF Before, PortOk
<1>2. After(e, y, p, q, n, s, o, y, [q EXCEPT !.pdrequest = notify])
  <2> DEFINE r == [q EXCEPT !.pdrequest = notify]
  <2>1. r \in Port
    BY <1>1, Zenon DEF Port
  <2>2. /\ r.active = q.active /\ r.references = q.references /\ r.srights = q.srights
        /\ r.sorights = q.sorights /\ r.mscount = q.mscount /\ r.nsrequest = q.nsrequest
        /\ r.dnrequests = q.dnrequests /\ r.receiver = q.receiver /\ r.send = q.send
        /\ r.send_once = q.send_once /\ r.receive = q.receive /\ r.told = q.told
        /\ r.early = q.early /\ r.stray = q.stray
    BY <1>1, Zenon DEF Port
  <2> HIDE DEF r
  <2>3. PortOk(r, n, s, o)
    BY <1>1, <2>1, <2>2, Zenon DEF PortOk
  <2>4. After(e, y, p, q, n, s, o, y, r)
    BY <2>2, <2>3, SameEntry, Zenon
  <2> QED
    BY <2>4, Zenon DEF r
<1>3. After(e, y, p, q, n, s, o, y, [q EXCEPT !.mscount = m, !.told = {}])
  <2> DEFINE r == [q EXCEPT !.mscount = m, !.told = {}]
  <2>1. r \in Port
    BY <1>1, Zenon DEF Port
  <2>2. /\ r.active = q.active /\ r.references = q.references /\ r.srights = q.srights
        /\ r.sorights = q.sorights /\ r.nsrequest = q.nsrequest
        /\ r.dnrequests = q.dnrequests /\ r.receiver = q.receiver /\ r.send = q.send
        /\ r.send_once = q.send_once /\ r.receive = q.receive /\ r.told = {}
        /\ r.early = q.early /\ r.stray = q.stray
    BY <1>1, Zenon DEF Port
  <2> HIDE DEF r
  <2>3. PortOk(r, n, s, o)
    BY <1>1, <2>1, <2>2, Zenon DEF PortOk
  <2>4. After(e, y, p, q, n, s, o, y, r)
    BY <2>2, <2>3, SameEntry, Zenon
  <2> QED
    BY <2>4, Zenon DEF r
<1> QED
  BY <1>2, <1>3, Zenon

(* A dead-name request is registered, or cancelled.                        *)
LEMMA DeadNameAsked ==
  ASSUME NEW e, NEW y, NEW p, NEW q, NEW n, NEW s, NEW o, Before(e, y, p, q, n, s, o),
         NEW notify \in BOOLEAN
  PROVE  After(e, y, p, q, n, s, o, [y EXCEPT !.request = notify],
               IF notify THEN [q EXCEPT !.dnrequests = @ \union {e}] ELSE Dncancel(q, e))
<1> DEFINE x == [y EXCEPT !.request = notify]
           d == IF notify THEN q.dnrequests \union {e} ELSE q.dnrequests \ {e}
           r == [q EXCEPT !.dnrequests = d]
<1>1. q \in Port /\ PortOk(q, n, s, o) /\ p # None /\ e \in Slots /\ y \in Entry
      /\ n \in Nat /\ s \in Nat /\ o \in Nat
  BY RightConstants, Zenon DEF Before, PortOk, EntryOk
<1>2. x.type = y.type /\ x.object = y.object /\ x.urefs = y.urefs /\ x.request = notify /\ x \in Entry
  BY <1>1, Zenon DEF Entry
<1>3. d \subseteq Slots
  BY <1>1, Fields, Zenon
<1> HIDE DEF x, d
<1>4. r \in Port
  BY <1>1, <1>3, Zenon DEF Port
<1>5. /\ r.active = q.active /\ r.references = q.references /\ r.srights = q.srights
      /\ r.sorights = q.sorights /\ r.mscount = q.mscount /\ r.nsrequest = q.nsrequest
      /\ r.dnrequests = d /\ r.receiver = q.receiver /\ r.send = q.send
      /\ r.send_once = q.send_once /\ r.receive = q.receive /\ r.told = q.told
      /\ r.early = q.early /\ r.stray = q.stray
  BY <1>1, Zenon DEF Port
<1> HIDE DEF r
<1>6. PortOk(r, n, s, o)
  BY <1>1, <1>4, <1>5, Zenon DEF PortOk
<1>7. /\ EntryOk(x) /\ x.object = p /\ (HasSend(x) <=> HasSend(y)) /\ (UsesName(x) <=> UsesName(y))
      /\ HasReceive(x) <=> HasReceive(y)
  BY <1>1, <1>2, Zenon DEF Before, EntryOk, HasSend, HasReceive, UsesName
<1>8. LinkOk(e, x, p, r) /\ OthersAgree(e, q, r)
  BY <1>1, <1>2, <1>5, <1>7, Zenon DEF Before, LinkOk, OthersAgree, d
<1>9. /\ n - One(x.object = None) = n
      /\ s + One(HasSend(x)) - One(HasSend(y)) = s
      /\ o + One(x.type = "send_once") - One(y.type = "send_once") = o
  BY <1>1, <1>2, <1>7 DEF One
<1>10. After(e, y, p, q, n, s, o, x, r)
  BY <1>6, <1>7, <1>8, <1>9, Zenon DEF After
<1>11. r = IF notify THEN [q EXCEPT !.dnrequests = @ \union {e}] ELSE Dncancel(q, e)
  BY Zenon DEF r, d, Dncancel
<1> QED
  BY <1>10, <1>11, Zenon DEF x

(* A send right is added to one that the name has.                         *)
LEMMA CopiedOutSend ==
  ASSUME NEW e, NEW y, NEW p, NEW q, NEW n, NEW s, NEW o, Before(e, y, p, q, n, s, o),
         q.active, HasSend(y), q.send > 0, NEW k \in 1..UrefsMax - 1
  PROVE  After(e, y, p, q, n, s, o, [y EXCEPT !.urefs = k],
               Release([[q EXCEPT !.send = @ - 1] EXCEPT !.srights = @ - 1]))
<1> DEFINE x == [y EXCEPT !.urefs = k]
           r == Release([[q EXCEPT !.send = @ - 1] EXCEPT !.srights = @ - 1])
<1>0. q.send - 1 \in Nat /\ q.srights - 1 \in Nat /\ q.references > 0
  BY Fields DEF Before, PortOk, One
<1>1. q \in Port /\ p # None
  BY RightConstants, Zenon DEF Before, PortOk
<1>2. r \in Port
  <2>1. [[q EXCEPT !.send = @ - 1] EXCEPT !.srights = @ - 1] \in Port
    BY <1>0, <1>1, Zenon DEF Port
  <2>2. [[q EXCEPT !.send = @ - 1] EXCEPT !.srights = @ - 1].references = q.references
    BY <1>1, Zenon DEF Port
  <2> QED
    BY <1>0, <2>1, <2>2, PortTypes, Zenon
<1>3. /\ r.references = q.references - 1 /\ r.srights = q.srights - 1 /\ r.send = q.send - 1
      /\ r.active = q.active /\ r.sorights = q.sorights /\ r.mscount = q.mscount
      /\ r.nsrequest = q.nsrequest /\ r.dnrequests = q.dnrequests /\ r.receiver = q.receiver
      /\ r.send_once = q.send_once /\ r.receive = q.receive /\ r.told = q.told
      /\ r.early = q.early /\ r.stray = q.stray
  BY <1>1, Zenon DEF Port, Release
<1> HIDE DEF r
<1>4. PortOk(r, n, s, o)
  BY <1>1, <1>2, <1>3, Fields, <1>0 DEF Before, PortOk, One
<1>5. EntryOk(x) /\ x.object = p /\ (UsesName(x) => UsesName(y))
  BY <1>1, RightConstants DEF Before, EntryOk, Entry, Types, Free, UsesName, HasSend, HasReceive
<1>6. LinkOk(e, x, p, r) /\ OthersAgree(e, q, r)
  BY <1>1, <1>3, <1>5, RightConstants, <1>0, Zenon DEF Before, EntryOk, Entry, LinkOk, OthersAgree, Free, HasReceive
<1>7. /\ n - One(x.object = None) = n
      /\ s + One(HasSend(x)) - One(HasSend(y)) = s
      /\ o + One(x.type = "send_once") - One(y.type = "send_once") = o
  BY <1>1, <1>5 DEF Before, EntryOk, Entry, Free, One, HasSend, HasReceive
<1> HIDE DEF x
<1> QED
  BY <1>4, <1>5, <1>6, <1>7, Zenon DEF After, r, x

(* A send right joins a receive right.                                     *)
LEMMA CopiedOutToReceiver ==
  ASSUME NEW e, NEW y, NEW p, NEW q, NEW n, NEW s, NEW o, Before(e, y, p, q, n, s, o),
         q.active, y.type = "receive", q.send > 0
  PROVE  After(e, y, p, q, n, s, o, [y EXCEPT !.type = "send_receive", !.urefs = 1],
               Release([q EXCEPT !.send = @ - 1]))
<1> DEFINE x == [y EXCEPT !.type = "send_receive", !.urefs = 1]
           r == Release([q EXCEPT !.send = @ - 1])
<1>0. q.send - 1 \in Nat /\ q.references > 0
  BY Fields DEF Before, PortOk, One
<1>1. q \in Port /\ p # None
  BY RightConstants, Zenon DEF Before, PortOk
<1>2. r \in Port
  <2>1. [q EXCEPT !.send = @ - 1] \in Port
    BY <1>0, <1>1, Zenon DEF Port
  <2>2. [q EXCEPT !.send = @ - 1].references = q.references
    BY <1>1, Zenon DEF Port
  <2> QED
    BY <1>0, <2>1, <2>2, PortTypes, Zenon
<1>3. /\ r.references = q.references - 1 /\ r.send = q.send - 1 /\ r.active = q.active
      /\ r.srights = q.srights /\ r.sorights = q.sorights /\ r.mscount = q.mscount
      /\ r.nsrequest = q.nsrequest /\ r.dnrequests = q.dnrequests /\ r.receiver = q.receiver
      /\ r.send_once = q.send_once /\ r.receive = q.receive /\ r.told = q.told
      /\ r.early = q.early /\ r.stray = q.stray
  BY <1>1, Zenon DEF Port, Release
<1> HIDE DEF r
<1>4. PortOk(r, n, s + 1, o)
  BY <1>1, <1>2, <1>3, Fields, <1>0 DEF Before, PortOk, One
<1>5. EntryOk(x) /\ x.object = p /\ (UsesName(x) => UsesName(y))
  BY <1>1, RightConstants, BothOk, Zenon DEF Before, EntryOk, Entry, Types, Free, UsesName, HasSend, HasReceive
<1>6. LinkOk(e, x, p, r) /\ OthersAgree(e, q, r)
  BY <1>1, <1>3, <1>5, RightConstants, <1>0, Zenon DEF Before, EntryOk, Entry, LinkOk, OthersAgree, Free, HasReceive
<1>7. /\ n - One(x.object = None) = n
      /\ s + One(HasSend(x)) - One(HasSend(y)) = s + 1
      /\ o + One(x.type = "send_once") - One(y.type = "send_once") = o
  BY <1>1, <1>5 DEF Before, EntryOk, Entry, Free, One, HasSend, HasReceive
<1> HIDE DEF x
<1> QED
  BY <1>4, <1>5, <1>6, <1>7, Zenon DEF After, r, x

(* A receive right joins a send right.                                     *)
LEMMA CopiedOutReceive ==
  ASSUME NEW e, NEW y, NEW p, NEW q, NEW n, NEW s, NEW o, Before(e, y, p, q, n, s, o),
         y.type = "send", q.receive
  PROVE  After(e, y, p, q, n, s, o, [y EXCEPT !.type = "send_receive"],
               Release([q EXCEPT !.receive = FALSE, !.receiver = e]))
<1> DEFINE x == [y EXCEPT !.type = "send_receive"]
           r == Release([q EXCEPT !.receive = FALSE, !.receiver = e])
<1>0. q.references > 0 /\ q.active /\ q.receiver = None /\ e # None
  BY Fields, RightConstants DEF Before, PortOk, One
<1>1. q \in Port /\ p # None
  BY RightConstants, Zenon DEF Before, PortOk
<1>2. r \in Port
  <2>1. [q EXCEPT !.receive = FALSE, !.receiver = e] \in Port
    BY <1>1, Zenon DEF Before, Port
  <2>2. [q EXCEPT !.receive = FALSE, !.receiver = e].references = q.references
    BY <1>1, Zenon DEF Port
  <2> QED
    BY <1>0, <2>1, <2>2, PortTypes, Zenon
<1>3. /\ r.references = q.references - 1 /\ r.receive = FALSE /\ r.receiver = e
      /\ r.active = q.active /\ r.srights = q.srights /\ r.sorights = q.sorights
      /\ r.mscount = q.mscount /\ r.nsrequest = q.nsrequest /\ r.dnrequests = q.dnrequests
      /\ r.send = q.send /\ r.send_once = q.send_once /\ r.told = q.told /\ r.early = q.early
      /\ r.stray = q.stray
  BY <1>1, Zenon DEF Port, Release
<1> HIDE DEF r
<1>4. PortOk(r, n, s, o)
  BY <1>1, <1>2, <1>3, Fields, <1>0 DEF Before, PortOk, One
<1>5. EntryOk(x) /\ x.object = p /\ (UsesName(x) => UsesName(y))
  BY <1>1, RightConstants, Zenon DEF Before, EntryOk, Entry, Types, Free, UsesName, HasSend, HasReceive
<1>6. LinkOk(e, x, p, r) /\ OthersAgree(e, q, r)
  BY <1>1, <1>3, <1>5, RightConstants, <1>0, Zenon DEF Before, EntryOk, Entry, LinkOk, OthersAgree, Free, HasReceive
<1>7. /\ n - One(x.object = None) = n
      /\ s + One(HasSend(x)) - One(HasSend(y)) = s
      /\ o + One(x.type = "send_once") - One(y.type = "send_once") = o
  BY <1>1, <1>5 DEF Before, EntryOk, Entry, Free, One, HasSend, HasReceive
<1> HIDE DEF x
<1> QED
  BY <1>4, <1>5, <1>6, <1>7, Zenon DEF After, r, x

----------------------------------------------------------------------------------
(* The calls that give a port a name, take a name or a naked right away,   *)
(* or change a name.                                                       *)

(* What ipc_right_check says of an entry.                                  *)
LEMMA Checked ==
  ASSUME IInv, NEW e \in Slots
  PROVE  LET x == RightCheck(e)
         IN  /\ EntryOk(x)
             /\ Stale(e) => x.type = "dead_name"
             /\ x.type = "dead_name" => x.object = None /\ (entry[e].object = None \/ Stale(e))
             /\ x.type # "dead_name" => x = entry[e]
             /\ x.type \notin {"none", "dead_name"} => /\ entry[e].object # None
                                                       /\ PortOf(e).active
<1> DEFINE y == entry[e]
           u == y.urefs + (IF y.request THEN 1 ELSE 0)
           x == [Free EXCEPT !.type = "dead_name", !.urefs = u]
<1>1. EntryOk(y)
  BY Zenon DEF IInv
<1>2. CASE Stale(e)
  <2>1. y.object # None /\ ~HasReceive(y)
    <3>1. y.object \in Ports
      BY <1>1, <1>2, Zenon DEF Stale, EntryOk, Entry
    <3> QED
      BY <1>2, <3>1 DEF IInv, LinkOk, Stale, PortOf
  <2>2. u \in 1..UrefsMax
    BY <1>1, <2>1, RightConstants DEF EntryOk, Entry, Types, HasSend, HasReceive
  <2>3. x.urefs = u /\ x.type = "dead_name" /\ x.object = None /\ x.request = FALSE
    BY Zenon DEF Free
  <2>4. x \in Entry
    <3>1. u \in 0..UrefsMax /\ "dead_name" \in Types /\ Free \in Entry
      BY <2>2, FreeOk DEF Types, EntryOk
    <3> HIDE DEF u
    <3> QED
      BY <3>1, Zenon DEF Entry
  <2> HIDE DEF u
  <2>5. EntryOk(x)
    BY <2>2, <2>3, <2>4, Zenon DEF EntryOk, HasSend
  <2> QED
    BY <1>2, <2>3, <2>5, Zenon DEF RightCheck, u
<1>3. CASE ~Stale(e)
  <2>1. RightCheck(e) = y
    BY <1>3, Zenon DEF RightCheck
  <2>2. y.object = None <=> y.type \in {"none", "dead_name"}
    BY <1>1, Zenon DEF EntryOk
  <2> QED
    BY <1>1, <1>3, <2>1, <2>2, Zenon DEF Stale
<1> QED
  BY <1>2, <1>3, Zenon

(* A dead name loses one of its user references.                           *)
LEMMA LessDead ==
  ASSUME NEW x, EntryOk(x), x.type = "dead_name"
  PROVE  EntryOk(LessUref(x)) /\ LessUref(x).object = None
<1>1. CASE x.urefs = 1
  BY <1>1, FreeOk, Zenon DEF LessUref
<1>2. CASE x.urefs # 1
  <2>1. x.urefs - 1 \in 1..UrefsMax /\ x.urefs - 1 \in 0..UrefsMax /\ x.object = None
    BY <1>2, RightConstants DEF EntryOk
  <2>2. [x EXCEPT !.urefs = @ - 1] \in Entry
    BY <2>1, Zenon DEF EntryOk, Entry
  <2> QED
    BY <1>2, <2>1, <2>2, Zenon DEF LessUref, EntryOk, Entry, HasSend
<1> QED
  BY <1>1, <1>2, Zenon

(* A dead name gets other user references.                                 *)
LEMMA DeadUrefs ==
  ASSUME NEW x, EntryOk(x), x.type = "dead_name", NEW k \in 1..UrefsMax
  PROVE  EntryOk([x EXCEPT !.urefs = k]) /\ [x EXCEPT !.urefs = k].object = None
<1>1. k \in 0..UrefsMax /\ x.object = None /\ x \in Entry
  BY RightConstants DEF EntryOk
<1>2. [x EXCEPT !.urefs = k] \in Entry
  BY <1>1, Zenon DEF Entry
<1> QED
  BY <1>1, <1>2, Zenon DEF EntryOk, Entry, HasSend

(* A call that finds a dead name, which ipc_right_check may just have made *)
(* of a right to a destroyed port, and leaves x in its place.              *)
LEMMA SettleKeeps ==
  ASSUME IInv, NEW e \in Slots, NEW x, EntryOk(x), x.object = None,
         entry[e].object = None \/ Stale(e), Settle(e, x)
  PROVE  IInv'
<1>0. x \in Entry /\ ~HasSend(x) /\ ~HasReceive(x) /\ ~UsesName(x) /\ x.type # "send_once"
  BY Zenon DEF EntryOk, HasSend, HasReceive, UsesName
<1>1. CASE Stale(e)
  <2> DEFINE p == entry[e].object
             q == port[p]
             r == Release(q)
             n == Cardinality(Naming(p))
             s == Cardinality(Senders(p))
             o == Cardinality(SendOncers(p))
  <2>1. p # None /\ ~q.active
    BY <1>1, Zenon DEF Stale, PortOf
  <2>2. /\ p \in Ports /\ PortOk(q, n, s, o) /\ n \in Nat /\ s \in Nat /\ o \in Nat /\ n > 0
        /\ q \in Port
    BY <2>1, AtEntry, Zenon DEF PortOk
  <2>3. n - 1 \in Nat /\ n = (n - 1) + 1
    BY <2>2
  <2>4. PortOk(r, n - 1, s, o)
    BY <2>2, <2>3, ReleasedOk, Zenon
  <2>5. ~r.active
    BY <2>1, <2>2, Zenon DEF Port, Release
  <2> HIDE DEF r
  <2>6. LinkOk(e, x, p, r) /\ OthersAgree(e, q, r)
    BY <1>0, <2>1, <2>5, Zenon DEF LinkOk, OthersAgree
  <2>7. \A f \in Slots \ {e} : LinkOk(f, entry[f], p, r)
    BY <2>2, <2>6, OthersKept, Zenon
  <2>8. n + One(NamesIt(x, p)) - One(NamesIt(entry[e], p)) = n - 1
    BY <2>1, <2>2 DEF NamesIt, One
  <2>9. PortOk(r, n - 1, s + One(SendsTo(x, p)) - One(SendsTo(entry[e], p)),
                         o + One(SendsOnceTo(x, p)) - One(SendsOnceTo(entry[e], p)))
    BY <2>4, <2>5, Zenon DEF PortOk
  <2>10. Fits(e, p, x, r)
    BY <1>0, <2>6, <2>7, <2>8, <2>9, Zenon DEF Fits
  <2>11. /\ entry' = [entry EXCEPT ![e] = x] /\ port' = [port EXCEPT ![p] = r]
         /\ UNCHANGED alive
    BY <1>1, Zenon DEF Settle, r
  <2> QED
    BY <2>2, <2>10, <2>11, Update, Zenon
<1>2. CASE ~Stale(e)
  <2>1. /\ entry' = [entry EXCEPT ![e] = x] /\ port' = port /\ alive' = alive
        /\ entry[e].object = None
    BY <1>2, Zenon DEF Settle
  <2>2. /\ entry \in [Slots -> Entry] /\ EntryOk(entry[e])
        /\ entry'[e] = x /\ \A f \in Slots \ {e} : entry'[f] = entry[f]
    BY <2>1, Zenon DEF IInv, TypeOK
  <2>3. ~UsesName(entry[e])
    BY <2>1, <2>2, Zenon DEF EntryOk, UsesName, HasSend, HasReceive
  <2>4. TypeOK'
    BY <1>0, <2>1, Zenon DEF IInv, TypeOK
  <2>5. \A f \in Slots : EntryOk(entry'[f])
    BY <2>2, Zenon DEF IInv
  <2>6. ASSUME NEW a \in Ports PROVE Naked(a)'
    <3>1. a # None
      BY RightConstants, Zenon
    <3>2. Naming(a)' = Naming(a) /\ Senders(a)' = Senders(a) /\ SendOncers(a)' = SendOncers(a)
      BY <2>1, <2>2, <3>1, Zenon DEF Naming, Senders, SendOncers
    <3> QED
      BY <2>1, <3>2, Zenon DEF IInv, Naked
  <2>7. ASSUME NEW f \in Slots, NEW a \in Ports PROVE LinkOk(f, entry'[f], a, port'[a])
    <3>1. LinkOk(f, entry[f], a, port[a]) /\ a # None
      BY RightConstants, Zenon DEF IInv
    <3>2. CASE f = e
      BY <2>1, <2>2, <3>1, <3>2, Zenon DEF LinkOk
    <3>3. CASE f # e
      BY <2>1, <2>2, <3>1, <3>3, Zenon
    <3> QED
      BY <3>2, <3>3, Zenon
  <2>8. UniqueNames'
    BY <1>0, <2>2, Zenon DEF IInv, UniqueNames
  <2> QED
    BY <2>4, <2>5, <2>6, <2>7, <2>8, Zenon DEF IInv
<1> QED
  BY <1>1, <1>2, Zenon

----------------------------------------------------------------------------------
(* A right that becomes the first one of its name.                         *)
LEMMA NamedKeeps ==
  ASSUME IInv, NEW e \in Slots, NEW p \in Ports, entry[e].type = "none",
         NEW x, EntryOk(x), x.object = p, NEW r, Named(e, p, x, r),
         PortOk(r, Cardinality(Naming(p)) + 1, Cardinality(Senders(p)) + One(HasSend(x)),
                Cardinality(SendOncers(p)) + One(x.type = "send_once")),
         LinkOk(e, x, p, r), \A f \in Slots \ {e} : LinkOk(f, entry[f], p, r),
         UsesName(x) => \A f \in Slots \ {e} :
           UsesName(entry[f]) /\ entry[f].object = p => Space(f) # Space(e)
  PROVE  IInv'
<1> DEFINE n == Cardinality(Naming(p))
           s == Cardinality(Senders(p))
           o == Cardinality(SendOncers(p))
<1>1. entry[e].object = None /\ p # None
  BY RightConstants, Zenon DEF IInv, EntryOk
<1>2. n \in Nat /\ s \in Nat /\ o \in Nat
  <2>1. Naming(p) \subseteq Slots /\ Senders(p) \subseteq Slots /\ SendOncers(p) \subseteq Slots
    BY Zenon DEF Naming, Senders, SendOncers
  <2> QED
    BY <2>1, Counting, Zenon
<1>3. /\ One(NamesIt(x, p)) = 1 /\ One(NamesIt(entry[e], p)) = 0
      /\ One(SendsTo(x, p)) = One(HasSend(x)) /\ One(SendsTo(entry[e], p)) = 0
      /\ One(SendsOnceTo(x, p)) = One(x.type = "send_once")
      /\ One(SendsOnceTo(entry[e], p)) = 0
  BY <1>1, Zenon DEF NamesIt, SendsTo, SendsOnceTo, One
<1>4. One(HasSend(x)) \in Nat /\ One(x.type = "send_once") \in Nat
  BY Zenon DEF One
<1>5. /\ n + One(NamesIt(x, p)) - One(NamesIt(entry[e], p)) = n + 1
      /\ s + One(SendsTo(x, p)) - One(SendsTo(entry[e], p)) = s + One(HasSend(x))
      /\ o + One(SendsOnceTo(x, p)) - One(SendsOnceTo(entry[e], p))
           = o + One(x.type = "send_once")
  <2> HIDE DEF n, s, o
  <2> QED
    BY <1>2, <1>3, <1>4
<1>6. Fits(e, p, x, r)
  BY <1>1, <1>5, Zenon DEF Fits
<1> QED
  BY <1>6, Update, Zenon DEF Named

(* ipc_port_alloc: a new port with its receive right.                      *)
LEMMA AllocKeeps ==
  ASSUME IInv, NEW e \in Slots, NEW p \in Ports, Alloc(e, p)
  PROVE  IInv'
<1> DEFINE x == [Free EXCEPT !.type = "receive", !.object = p]
           r == [Unused EXCEPT !.active = TRUE, !.references = 1, !.receiver = e]
           n == Cardinality(Naming(p))
           s == Cardinality(Senders(p))
           o == Cardinality(SendOncers(p))
<1>1. /\ EntryOk(x) /\ x.object = p /\ x.type = "receive" /\ x.request = FALSE
  <2>1. /\ x.object = p /\ x.type = "receive" /\ x.urefs = 0 /\ x.request = FALSE /\ p # None
        /\ x \in Entry
    <3>1. Free \in Entry /\ p # None
      BY FreeOk, RightConstants, Zenon DEF EntryOk
    <3> QED
      BY <3>1, Zenon DEF Entry, Types, Free
  <2> HIDE DEF x
  <2> QED
    BY <2>1, Zenon DEF EntryOk, HasSend, HasReceive
<1>2. /\ Naming(p) \subseteq Slots /\ Senders(p) \subseteq Naming(p)
      /\ SendOncers(p) \subseteq Naming(p)
  BY Zenon DEF Naming, Senders, SendOncers
<1>3. Naming(p) = {} /\ n = 0 /\ s = 0 /\ o = 0
  <2>1. PortOk(port[p], n, s, o) /\ port[p] \in Port /\ port[p].references = 0 /\ n \in Nat
    <3>1. n \in Nat
      BY <1>2, Counting, Zenon
    <3> QED
      BY <3>1, Zenon DEF IInv, Naked, PortOk, Alloc
  <2>2. n = 0
    <3>1. /\ 0 = n + port[p].send + port[p].send_once + One(port[p].receive)
          /\ port[p].send \in Nat /\ port[p].send_once \in Nat /\ One(port[p].receive) \in Nat
      BY <2>1, Fields, Zenon DEF PortOk, One
    <3> QED
      BY <2>1, <3>1
  <2>3. Naming(p) = {} /\ Senders(p) = {} /\ SendOncers(p) = {}
    BY <1>2, <2>2, Counting, Zenon
  <2> QED
    BY <1>2, <2>2, <2>3, Counting, Zenon
<1>4. r \in Port
  <2>1. 0 \in 0..MaxMscount
    BY RightConstants
  <2> QED
    BY <2>1, Zenon DEF Port, Unused
<1>5. /\ r.active = TRUE /\ r.references = 1 /\ r.srights = 0 /\ r.sorights = 0 /\ r.mscount = 0
      /\ r.nsrequest = FALSE /\ r.dnrequests = {} /\ r.receiver = e /\ r.send = 0
      /\ r.send_once = 0 /\ r.receive = FALSE /\ r.told = {} /\ r.stray = 0
  BY Zenon DEF Unused
<1>6. Named(e, p, x, r) /\ entry[e].type = "none"
  BY Zenon DEF Alloc, Named
<1> HIDE DEF x, r
<1>7. e # None
  BY RightConstants, Zenon
<1>8. PortOk(r, 1, 0, 0)
  BY <1>4, <1>5, <1>7 DEF PortOk, One
<1>9. n + 1 = 1 /\ s + One(HasSend(x)) = 0 /\ o + One(x.type = "send_once") = 0
  BY <1>1, <1>3 DEF One, HasSend
<1>10. LinkOk(e, x, p, r)
  BY <1>1, <1>5, Zenon DEF LinkOk, HasReceive
<1>11. \A f \in Slots : entry[f].object # p
  BY <1>3, Zenon DEF Naming
<1>12. \A f \in Slots \ {e} : LinkOk(f, entry[f], p, r)
  BY <1>5, <1>11, Zenon DEF LinkOk
<1> QED
  BY <1>1, <1>6, <1>8, <1>9, <1>10, <1>11, <1>12, NamedKeeps, Zenon

(* The name a copyout finds is the only one its space has for the port.    *)
LEMMA TargetName ==
  ASSUME IInv, NEW e \in Slots, NEW p \in Ports, Target(e, p)
  PROVE  \/ entry[e].object = p /\ UsesName(entry[e])
         \/ /\ entry[e].type = "none"
            /\ \A f \in Slots : UsesName(entry[f]) /\ entry[f].object = p => Space(f) # Space(e)
<1>0. port[p].active /\ \A f \in Slots : LinkOk(f, entry[f], p, port[p]) /\ f # None
  BY RightConstants, Zenon DEF IInv, Target
<1>1. CASE Reverse(Space(e), p) = {}
  <2>1. entry[e].type = "none"
    BY <1>1, Zenon DEF Target
  <2>2. ASSUME NEW f \in Slots, UsesName(entry[f]), entry[f].object = p, Space(f) = Space(e)
        PROVE  FALSE
    <3>1. ~(port[p].receiver # None /\ Space(port[p].receiver) = Space(e))
      BY <1>1, Zenon DEF Reverse
    <3>2. ~HasReceive(entry[f])
      BY <1>0, <2>2, <3>1, Zenon DEF LinkOk
    <3>3. entry[f].type = "send"
      BY <2>2, <3>2, Zenon DEF UsesName, HasSend, HasReceive
    <3> QED
      BY <1>1, <2>2, <3>1, <3>3, Zenon DEF Reverse
  <2> QED
    BY <2>1, <2>2, Zenon
<1>2. CASE Reverse(Space(e), p) # {}
  <2>1. e \in Reverse(Space(e), p)
    BY <1>2, Zenon DEF Target
  <2>2. CASE port[p].receiver # None /\ Space(port[p].receiver) = Space(e)
    <3>1. port[p].receiver = e
      BY <2>1, <2>2, Zenon DEF Reverse
    <3> QED
      BY <1>0, <3>1, Zenon DEF LinkOk, UsesName
  <2>3. CASE ~(port[p].receiver # None /\ Space(port[p].receiver) = Space(e))
    BY <2>1, <2>3, Zenon DEF Reverse, UsesName, HasSend
  <2> QED
    BY <2>2, <2>3, Zenon
<1> QED
  BY <1>1, <1>2, Zenon

(* A new name: its entry.                                                  *)
LEMMA FreshOk ==
  ASSUME NEW t \in {"send", "send_once"}, NEW p \in Ports
  PROVE  LET x == [Free EXCEPT !.type = t, !.urefs = 1, !.object = p]
         IN  EntryOk(x) /\ x.object = p /\ x.type = t /\ x.request = FALSE
<1> DEFINE x == [Free EXCEPT !.type = t, !.urefs = 1, !.object = p]
<1>1. 1 \in 0..UrefsMax /\ 1 \in 1..UrefsMax - 1 /\ p # None
  BY RightConstants
<1>2. x.type = t /\ x.urefs = 1 /\ x.object = p /\ x.request = FALSE
  BY Zenon DEF Free
<1>3. x \in Entry
  <2>1. Free \in Entry /\ t \in Types
    BY FreeOk, Zenon DEF EntryOk, Types
  <2> QED
    BY <1>1, <2>1, Zenon DEF Entry
<1> HIDE DEF x
<1>4. EntryOk(x)
  BY <1>1, <1>2, <1>3, Zenon DEF EntryOk, HasSend
<1> QED
  BY <1>2, <1>4, Zenon DEF x

(* ipc_right_copyout of a send-once right, which always gets a name of its *)
(* own.                                                                    *)
LEMMA CopyoutSendOnceKeeps ==
  ASSUME IInv, NEW e \in Slots, NEW p \in Ports, CopyoutSendOnce(e, p)
  PROVE  IInv'
<1> DEFINE q == port[p]
           x == [Free EXCEPT !.type = "send_once", !.urefs = 1, !.object = p]
           r == [q EXCEPT !.send_once = @ - 1]
           n == Cardinality(Naming(p))
           s == Cardinality(Senders(p))
           o == Cardinality(SendOncers(p))
<1>1. PortOk(q, n, s, o) /\ q \in Port /\ n \in Nat /\ s \in Nat /\ o \in Nat
  BY AtPort, Zenon
<1>2. EntryOk(x) /\ x.object = p /\ x.type = "send_once" /\ x.request = FALSE
  BY FreshOk, Zenon
<1>3. q.send_once > 0 /\ q.active /\ entry[e].type = "none" /\ Named(e, p, x, r)
  BY Zenon DEF CopyoutSendOnce
<1> HIDE DEF x
<1>4. q.send_once - 1 \in Nat
  BY <1>1, <1>3, Fields
<1>5. r \in Port
  BY <1>1, <1>4, Zenon DEF Port
<1>6. /\ r.active = q.active /\ r.references = q.references /\ r.srights = q.srights
      /\ r.sorights = q.sorights /\ r.mscount = q.mscount /\ r.nsrequest = q.nsrequest
      /\ r.dnrequests = q.dnrequests /\ r.receiver = q.receiver /\ r.send = q.send
      /\ r.send_once = q.send_once - 1 /\ r.receive = q.receive /\ r.told = q.told
      /\ r.early = q.early /\ r.stray = q.stray
  BY <1>1, Zenon DEF Port
<1> HIDE DEF r
<1>7. PortOk(r, n + 1, s, o + 1)
  BY <1>1, <1>3, <1>5, <1>6, Fields DEF PortOk, One
<1>8. s + One(HasSend(x)) = s /\ o + One(x.type = "send_once") = o + 1
  BY <1>1, <1>2 DEF One, HasSend
<1>9. OthersAgree(e, q, r)
  BY <1>6, Zenon DEF OthersAgree
<1>10. \A f \in Slots \ {e} : LinkOk(f, entry[f], p, r)
  BY <1>9, OthersKept, Zenon
<1>11. LinkOk(e, x, p, r)
  <2>1. LinkOk(e, entry[e], p, q) /\ entry[e].object # p
    BY <1>3, RightConstants, Zenon DEF IInv, EntryOk
  <2> QED
    BY <1>2, <1>6, <2>1, Zenon DEF LinkOk, HasReceive
<1>12. ~UsesName(x)
  BY <1>2, Zenon DEF UsesName, HasSend, HasReceive
<1> QED
  BY <1>2, <1>3, <1>7, <1>8, <1>10, <1>11, <1>12, NamedKeeps, ZenonT(30)

----------------------------------------------------------------------------------
(* Naked rights that go: only a port changes.                              *)
LEMMA SetPortKeeps ==
  ASSUME IInv, NEW p \in Ports, NEW r, SetPort(p, r),
         PortOk(r, Cardinality(Naming(p)), Cardinality(Senders(p)), Cardinality(SendOncers(p))),
         OthersAgree(None, port[p], r)
  PROVE  IInv'
<1>1. /\ entry' = entry /\ alive' = alive /\ port' = [port EXCEPT ![p] = r]
      /\ port \in [Ports -> Port] /\ r \in Port
  BY Zenon DEF SetPort, IInv, TypeOK, PortOk
<1>2. port'[p] = r /\ \A a \in Ports \ {p} : port'[a] = port[a]
  BY <1>1, Zenon
<1>3. TypeOK'
  BY <1>1, Zenon DEF IInv, TypeOK
<1>4. \A f \in Slots : EntryOk(entry'[f])
  BY <1>1, Zenon DEF IInv
<1>5. ASSUME NEW a \in Ports PROVE Naked(a)'
  <2>1. Naming(a)' = Naming(a) /\ Senders(a)' = Senders(a) /\ SendOncers(a)' = SendOncers(a)
    BY <1>1, Zenon DEF Naming, Senders, SendOncers
  <2> QED
    BY <1>2, <2>1 DEF IInv, Naked
<1>6. \A f \in Slots \ {None} : LinkOk(f, entry[f], p, r)
  BY OthersKept, Zenon
<1>7. ASSUME NEW f \in Slots, NEW a \in Ports PROVE LinkOk(f, entry'[f], a, port'[a])
  <2>1. f # None /\ LinkOk(f, entry[f], a, port[a])
    BY RightConstants, Zenon DEF IInv
  <2> QED
    BY <1>1, <1>2, <1>6, <2>1, Zenon
<1>8. UniqueNames'
  BY <1>1, Zenon DEF IInv, UniqueNames
<1> QED
  BY <1>3, <1>4, <1>5, <1>7, <1>8, Zenon DEF IInv

(* ipc_port_release_send.                                                  *)
LEMMA ReleaseSendKeeps ==
  ASSUME IInv, NEW p \in Ports, ReleaseSend(p)
  PROVE  IInv'
<1> DEFINE q == port[p]
           z == [q EXCEPT !.send = @ - 1]
           r == Release(z)
           n == Cardinality(Naming(p))
           s == Cardinality(Senders(p))
           o == Cardinality(SendOncers(p))
<1>1. /\ PortOk(q, n, s, o) /\ q \in Port /\ n \in Nat /\ s \in Nat /\ o \in Nat /\ q.send > 0
  BY AtPort, Zenon DEF ReleaseSend
<1>2. q.send - 1 \in Nat /\ q.references > 0
  BY <1>1, Fields DEF PortOk, One
<1>3. z \in Port /\ z.references = q.references
  BY <1>1, <1>2, Zenon DEF Port
<1>4. r \in Port
  BY <1>2, <1>3, PortTypes, Zenon
<1>5. /\ r.active = q.active /\ r.references = q.references - 1 /\ r.srights = q.srights
      /\ r.sorights = q.sorights /\ r.mscount = q.mscount /\ r.nsrequest = q.nsrequest
      /\ r.dnrequests = q.dnrequests /\ r.receiver = q.receiver /\ r.send = q.send - 1
      /\ r.send_once = q.send_once /\ r.receive = q.receive /\ r.told = q.told
      /\ r.early = q.early /\ r.stray = q.stray
  BY <1>1, Zenon DEF Port, Release
<1>6. SetPort(p, IF r.active THEN DropSend(r) ELSE r)
  BY Zenon DEF ReleaseSend
<1> HIDE DEF r
<1>7. PortOk(r, n, s + 1, o)
  <2>1. /\ r.references = n + r.send + r.send_once + One(r.receive)
        /\ r.receive => r.active
    <3>1. One(q.receive) \in Nat /\ q.references = n + q.send + q.send_once + One(q.receive)
      BY <1>1, Zenon DEF PortOk, One
    <3> QED
      BY <1>1, <1>5, <3>1, Fields DEF PortOk
  <2>2. ASSUME r.active
        PROVE  /\ r.srights = s + 1 + r.send + r.stray /\ r.srights # 0
               /\ r.sorights = o + r.send_once /\ r.mscount \notin r.told
               /\ r.receive <=> r.receiver = None
               /\ \A m \in r.told : m <= r.mscount
    <3>1. /\ q.active /\ q.srights = s + q.send + q.stray /\ q.sorights = o + q.send_once
          /\ q.mscount \notin q.told /\ (q.receive <=> q.receiver = None)
          /\ \A m \in q.told : m <= q.mscount
      BY <1>1, <1>5, <2>2 DEF PortOk
    <3>2. q.send \in Nat /\ q.stray \in Nat
      BY <1>1, Fields, Zenon
    <3>3. r.srights = s + 1 + r.send + r.stray /\ r.srights # 0
      BY <1>1, <1>5, <3>1, <3>2
    <3> QED
      BY <1>5, <3>1, <3>3, Zenon
  <2> QED
    BY <1>4, <2>1, <2>2, Zenon DEF PortOk
<1>8. CASE r.active
  <2>1. PortOk(DropSend(r), n, s, o) /\ r.srights > 0
    BY <1>1, <1>7, <1>8, DroppedOk, Zenon
  <2>2. /\ DropSend(r).active = r.active /\ DropSend(r).receiver = r.receiver
        /\ DropSend(r).dnrequests = r.dnrequests /\ DropSend(r).stray = r.stray
    BY <1>4, <2>1, Dropping, Zenon
  <2>3. OthersAgree(None, q, DropSend(r))
    BY <1>5, <2>2, Zenon DEF OthersAgree
  <2> QED
    BY <1>6, <1>8, <2>1, <2>3, SetPortKeeps, Zenon
<1>9. CASE ~r.active
  <2>1. PortOk(r, n, s, o)
    BY <1>7, <1>9, Zenon DEF PortOk
  <2>2. OthersAgree(None, q, r)
    BY <1>5, Zenon DEF OthersAgree
  <2> QED
    BY <1>6, <1>9, <2>1, <2>2, SetPortKeeps, Zenon
<1> QED
  BY <1>8, <1>9, Zenon

(* ipc_port_release_sonce, and ipc_notify_send_once.                       *)
LEMMA ReleaseSendOnceKeeps ==
  ASSUME IInv, NEW p \in Ports, ReleaseSendOnce(p)
  PROVE  IInv'
<1> DEFINE q == port[p]
           z == [q EXCEPT !.send_once = @ - 1]
           r == Release(z)
           w == [r EXCEPT !.sorights = @ - 1]
           n == Cardinality(Naming(p))
           s == Cardinality(Senders(p))
           o == Cardinality(SendOncers(p))
<1>1. /\ PortOk(q, n, s, o) /\ q \in Port /\ n \in Nat /\ s \in Nat /\ o \in Nat
      /\ q.send_once > 0
  BY AtPort, Zenon DEF ReleaseSendOnce
<1>2. q.send_once - 1 \in Nat /\ q.references > 0
  BY <1>1, Fields DEF PortOk, One
<1>3. z \in Port /\ z.references = q.references
  BY <1>1, <1>2, Zenon DEF Port
<1>4. r \in Port
  BY <1>2, <1>3, PortTypes, Zenon
<1>5. /\ r.active = q.active /\ r.references = q.references - 1 /\ r.srights = q.srights
      /\ r.sorights = q.sorights /\ r.mscount = q.mscount /\ r.nsrequest = q.nsrequest
      /\ r.dnrequests = q.dnrequests /\ r.receiver = q.receiver /\ r.send = q.send
      /\ r.send_once = q.send_once - 1 /\ r.receive = q.receive /\ r.told = q.told
      /\ r.early = q.early /\ r.stray = q.stray
  BY <1>1, Zenon DEF Port, Release
<1>6. SetPort(p, IF r.active THEN w ELSE r)
  BY Zenon DEF ReleaseSendOnce
<1> HIDE DEF r
<1>7. CASE r.active
  <2>1. r.sorights - 1 \in Nat
    BY <1>1, <1>5, <1>7, Fields DEF PortOk
  <2>2. w \in Port
    BY <1>4, <2>1, Zenon DEF Port
  <2>3. /\ w.active = r.active /\ w.references = r.references /\ w.srights = r.srights
        /\ w.sorights = r.sorights - 1 /\ w.mscount = r.mscount /\ w.nsrequest = r.nsrequest
        /\ w.dnrequests = r.dnrequests /\ w.receiver = r.receiver /\ w.send = r.send
        /\ w.send_once = r.send_once /\ w.receive = r.receive /\ w.told = r.told
        /\ w.early = r.early /\ w.stray = r.stray
    BY <1>4, Zenon DEF Port
  <2> HIDE DEF w
  <2>4. PortOk(w, n, s, o)
    <3>1. /\ w.references = n + w.send + w.send_once + One(w.receive)
          /\ w.receive => w.active
      <4>1. One(q.receive) \in Nat /\ q.references = n + q.send + q.send_once + One(q.receive)
        BY <1>1, Zenon DEF PortOk, One
      <4> QED
        BY <1>1, <1>5, <2>3, <4>1, Fields DEF PortOk
    <3>2. /\ w.srights = s + w.send + w.stray /\ w.sorights = o + w.send_once
          /\ w.receive <=> w.receiver = None
          /\ \A m \in w.told : m <= w.mscount
          /\ w.mscount \in w.told => s = 0 /\ w.send = 0
          /\ w.nsrequest /\ w.srights = 0 => w.early
      BY <1>1, <1>5, <1>7, <2>3, Fields DEF PortOk
    <3> QED
      BY <2>2, <3>1, <3>2, Zenon DEF PortOk
  <2>5. OthersAgree(None, q, w)
    BY <1>5, <2>3, Zenon DEF OthersAgree
  <2> QED
    BY <1>6, <1>7, <2>4, <2>5, SetPortKeeps, Zenon
<1>8. CASE ~r.active
  <2>1. PortOk(r, n, s, o)
    BY <1>1, <1>4, <1>5, <1>8, Fields DEF PortOk, One
  <2>2. OthersAgree(None, q, r)
    BY <1>5, Zenon DEF OthersAgree
  <2> QED
    BY <1>6, <1>8, <2>1, <2>2, SetPortKeeps, Zenon
<1> QED
  BY <1>7, <1>8, Zenon

(* ipc_port_release_receive.                                               *)
LEMMA ReleaseReceiveKeeps ==
  ASSUME IInv, NEW p \in Ports, ReleaseReceive(p)
  PROVE  IInv'
<1> DEFINE q == port[p]
           r == PortDestroy(q)
           n == Cardinality(Naming(p))
           s == Cardinality(Senders(p))
           o == Cardinality(SendOncers(p))
<1>1. /\ PortOk(q, n, s, o) /\ q \in Port /\ n \in Nat /\ s \in Nat /\ o \in Nat
      /\ q.receive /\ SetPort(p, r)
  BY AtPort, Zenon DEF ReleaseReceive
<1>2. q.active /\ q.receiver = None /\ q.references > 0
  BY <1>1, Fields DEF PortOk, One
<1>3. r \in Port
  BY <1>1, <1>2, PortTypes, Zenon
<1>4. PortOk(r, n, s, o) /\ OthersAgree(None, q, r)
  <2>1. CASE q.pdrequest
    <3>1. /\ r.active = q.active /\ r.references = q.references /\ r.srights = q.srights
          /\ r.sorights = q.sorights /\ r.mscount = q.mscount /\ r.nsrequest = q.nsrequest
          /\ r.dnrequests = q.dnrequests /\ r.receiver = None /\ r.send = q.send
          /\ r.send_once = q.send_once /\ r.receive = TRUE /\ r.told = q.told
          /\ r.early = q.early /\ r.stray = q.stray
      BY <1>1, <2>1, Zenon DEF Port, PortDestroy
    <3> HIDE DEF r
    <3>2. q.receive = TRUE
      BY <1>1, Fields
    <3>3. r.receive = q.receive /\ r.receiver = q.receiver
      BY <1>2, <3>1, <3>2
    <3>4. PortOk(r, n, s, o)
      BY <1>1, <1>3, <3>1, <3>3, Zenon DEF PortOk
    <3>5. OthersAgree(None, q, r)
      BY <3>1, <3>3, Zenon DEF OthersAgree
    <3> QED
      BY <3>4, <3>5
  <2>2. CASE ~q.pdrequest
    <3>1. /\ r.active = FALSE /\ r.references = q.references - 1
          /\ r.send = q.send /\ r.send_once = q.send_once /\ r.receive = FALSE
      BY <1>1, <2>2 DEF Port, PortDestroy, Release
    <3> HIDE DEF r
    <3>2. q.references = n + q.send + q.send_once + 1 /\ One(r.receive) = 0
      BY <1>1, <3>1 DEF PortOk, One
    <3>3. r.references = n + r.send + r.send_once + One(r.receive)
      <4>1. q.send \in Nat /\ q.send_once \in Nat
        BY <1>1, Fields
      <4> QED
        BY <1>1, <3>1, <3>2, <4>1
    <3>4. PortOk(r, n, s, o)
      BY <1>3, <3>1, <3>3, Zenon DEF PortOk
    <3>5. OthersAgree(None, q, r)
      BY <1>2, <3>1, Zenon DEF OthersAgree
    <3> QED
      BY <3>4, <3>5
  <2> QED
    BY <2>1, <2>2, Zenon
<1> QED
  BY <1>1, <1>4, SetPortKeeps, Zenon

----------------------------------------------------------------------------------
(* A name takes the place of another in a set.                             *)
LEMMA Replaced ==
  ASSUME IInv, NEW S, S \subseteq Slots, NEW e \in Slots, NEW new \in Slots, new \notin S, new # e,
         NEW T, T = IF e \in S THEN (S \ {e}) \union {new} ELSE S
  PROVE  Cardinality(T) = Cardinality(S)
<1>1. CASE e \in S
  <2>1. Cardinality(S) \in Nat /\ Cardinality(S \ {e}) = Cardinality(S) - One(e \in S)
    BY Counting, Zenon
  <2>2. Cardinality((S \ {e}) \union {new})
          = Cardinality(S \ {e}) + One(new \notin S \ {e})
    <3>1. S \ {e} \subseteq Slots
      BY Zenon
    <3> QED
      BY <3>1, Counting, Zenon
  <2> QED
    BY <1>1, <2>1, <2>2 DEF One
<1>2. CASE e \notin S
  BY <1>2, Zenon
<1> QED
  BY <1>1, <1>2, Zenon

(* A name that still denotes its port, or denotes none, gets another name. *)
LEMMA Renamed ==
  ASSUME IInv, NEW e \in Slots, NEW new \in Slots, Space(new) = Space(e), e # new,
         entry[new] = Free, entry[e].type # "none", alive' = alive,
         entry' = [entry EXCEPT ![new] = entry[e], ![e] = Free],
         entry[e].object = None => port' = port,
         entry[e].object # None =>
           port' = [port EXCEPT ![entry[e].object] = RenameAt(@, entry[e], e, new)]
  PROVE  IInv'
<1> DEFINE y == entry[e]
           p == y.object
           q == port[p]
           d == IF y.request THEN (q.dnrequests \ {e}) \union {new} ELSE q.dnrequests
           v == IF HasReceive(y) THEN new ELSE q.receiver
           r == [q EXCEPT !.dnrequests = d, !.receiver = v]
<1>1. /\ entry \in [Slots -> Entry] /\ port \in [Ports -> Port] /\ Free \in Entry
      /\ entry'[new] = y /\ entry'[e] = Free
      /\ \A f \in Slots \ {e, new} : entry'[f] = entry[f]
  BY FreeOk, Zenon DEF IInv, TypeOK, EntryOk
<1>2. /\ EntryOk(y) /\ Free.object = None /\ Free.type = "none" /\ ~UsesName(Free)
      /\ EntryOk(Free) /\ Free.request = FALSE
  BY FreeOk, Zenon DEF IInv, Free
<1>3. new # None /\ e # None /\ p \in Ports \union {None} /\ None \notin Ports
  BY <1>2, RightConstants, Zenon DEF EntryOk, Entry
<1>4. ASSUME p # None
      PROVE  /\ r \in Port /\ q \in Port /\ port'[p] = r
             /\ r.dnrequests = d /\ r.receiver = v
             /\ r.active = q.active /\ r.references = q.references /\ r.srights = q.srights
             /\ r.sorights = q.sorights /\ r.mscount = q.mscount /\ r.nsrequest = q.nsrequest
             /\ r.send = q.send /\ r.send_once = q.send_once /\ r.receive = q.receive
             /\ r.told = q.told /\ r.early = q.early /\ r.stray = q.stray
  <2>1. q \in Port /\ d \subseteq Slots /\ v \in Slots \union {None}
    BY <1>1, <1>3, <1>4, Fields, Zenon
  <2>2. port'[p] = r
    <3>1. port' = [port EXCEPT ![p] = r]
      BY <1>4, Zenon DEF RenameAt
    <3> HIDE DEF r
    <3> QED
      BY <1>1, <1>3, <1>4, <3>1, Zenon
  <2> HIDE DEF d, v
  <2>3. r \in Port
    BY <2>1, Zenon DEF Port
  <2> QED
    BY <2>1, <2>2, <2>3, Zenon DEF Port
<1>5. \A a \in Ports : a # p => port'[a] = port[a]
  BY <1>1, <1>3, Zenon
<1>6. TypeOK'
  <2>1. entry' \in [Slots -> Entry]
    BY <1>1, Zenon
  <2>2. port' \in [Ports -> Port]
    BY <1>1, <1>3, <1>4
  <2> QED
    BY <2>1, <2>2, Zenon DEF IInv, TypeOK
<1>7. \A f \in Slots : EntryOk(entry'[f])
  BY <1>1, <1>2, Zenon DEF IInv
<1> HIDE DEF r
<1>8. ASSUME NEW a \in Ports PROVE Naked(a)'
  <2>1. /\ Naming(a)' = IF e \in Naming(a) THEN (Naming(a) \ {e}) \union {new} ELSE Naming(a)
        /\ Naming(a) \subseteq Slots /\ new \notin Naming(a)
    BY <1>1, <1>2, <1>3, ZenonT(30) DEF Naming
  <2>2. /\ Senders(a)' = IF e \in Senders(a) THEN (Senders(a) \ {e}) \union {new} ELSE Senders(a)
        /\ Senders(a) \subseteq Slots /\ new \notin Senders(a)
    BY <1>1, <1>2, <1>3, ZenonT(30) DEF Senders
  <2>3. /\ SendOncers(a)' = IF e \in SendOncers(a) THEN (SendOncers(a) \ {e}) \union {new}
                                                   ELSE SendOncers(a)
        /\ SendOncers(a) \subseteq Slots /\ new \notin SendOncers(a)
    BY <1>1, <1>2, <1>3, ZenonT(30) DEF SendOncers
  <2>4. /\ Cardinality(Naming(a)') = Cardinality(Naming(a))
        /\ Cardinality(Senders(a)') = Cardinality(Senders(a))
        /\ Cardinality(SendOncers(a)') = Cardinality(SendOncers(a))
    <3>1. Cardinality(Naming(a)') = Cardinality(Naming(a))
      BY <2>1, Replaced
    <3>2. Cardinality(Senders(a)') = Cardinality(Senders(a))
      BY <2>2, Replaced, ZenonT(30)
    <3>3. Cardinality(SendOncers(a)') = Cardinality(SendOncers(a))
      BY <2>3, Replaced
    <3> QED
      BY <3>1, <3>2, <3>3, Zenon
  <2> DEFINE n == Cardinality(Naming(a))
             s == Cardinality(Senders(a))
             o == Cardinality(SendOncers(a))
  <2>5. PortOk(port[a], n, s, o)
    BY Zenon DEF IInv, Naked
  <2>6. PortOk(port'[a], n, s, o)
    <3>1. CASE a = p
      <4>1. q.active => (q.receiver = e <=> HasReceive(y))
        BY <3>1, ZenonT(30) DEF IInv, LinkOk
      <4>2. ~q.active => ~HasReceive(y)
        BY <3>1, ZenonT(30) DEF IInv, LinkOk
      <4>3. v = None <=> q.receiver = None
        BY <1>3, <4>1, <4>2, Zenon
      <4>4. /\ r \in Port /\ port'[a] = r /\ (r.receiver = None <=> q.receiver = None)
            /\ r.active = q.active /\ r.references = q.references /\ r.srights = q.srights
            /\ r.sorights = q.sorights /\ r.mscount = q.mscount /\ r.nsrequest = q.nsrequest
            /\ r.send = q.send /\ r.send_once = q.send_once /\ r.receive = q.receive
            /\ r.told = q.told /\ r.early = q.early /\ r.stray = q.stray
        BY <1>3, <1>4, <3>1, <4>3, Zenon
      <4> HIDE DEF n, s, o
      <4> QED
        BY <2>5, <3>1, <4>4, ZenonT(30) DEF PortOk
    <3>2. CASE a # p
      BY <1>5, <2>5, <3>2, Zenon
    <3> QED
      BY <3>1, <3>2, Zenon
  <2> QED
    BY <2>4, <2>6, Zenon DEF Naked
<1>9. ASSUME NEW f \in Slots, NEW a \in Ports PROVE LinkOk(f, entry'[f], a, port'[a])
  <2>1. /\ LinkOk(f, entry[f], a, port[a]) /\ LinkOk(e, y, a, port[a])
        /\ LinkOk(new, Free, a, port[a]) /\ a # None
    BY <1>3, Zenon DEF IInv
  <2>2. CASE a = p
    <3>1. /\ port'[a].active = q.active /\ port'[a].dnrequests = d /\ port'[a].receiver = v
          /\ port'[a].stray = q.stray
      BY <1>4, <2>1, <2>2, Zenon
    <3>2. CASE f = new
      BY <1>1, <1>2, <2>1, <2>2, <3>1, <3>2, Zenon DEF LinkOk
    <3>3. CASE f = e
      <4>1. q.active => v # e /\ (q.stray = 0 => e \notin d)
        BY <2>1, <2>2, Zenon DEF LinkOk
      <4>2. entry'[f] = Free /\ Free.object # a
        BY <1>1, <1>2, <2>1, <3>3, Zenon
      <4> HIDE DEF d, v
      <4> QED
        BY <3>1, <3>3, <4>1, <4>2, Zenon DEF LinkOk
    <3>4. CASE f \notin {e, new}
      <4>1. q.active => (v = f <=> q.receiver = f) /\ (f \in d <=> f \in q.dnrequests)
        BY <2>1, <2>2, <3>4, Zenon DEF LinkOk
      <4>2. entry'[f] = entry[f]
        BY <1>1, <3>4, Zenon
      <4> HIDE DEF d, v
      <4> QED
        BY <2>1, <2>2, <3>1, <4>1, <4>2, Zenon DEF LinkOk
    <3> QED
      BY <3>2, <3>3, <3>4, Zenon
  <2>3. CASE a # p
    <3>1. CASE f = new
      BY <1>1, <1>2, <1>5, <2>1, <2>3, <3>1, Zenon DEF LinkOk
    <3>2. CASE f = e
      BY <1>1, <1>2, <1>5, <2>1, <2>3, <3>2, Zenon DEF LinkOk
    <3>3. CASE f \notin {e, new}
      BY <1>1, <1>5, <2>1, <2>3, <3>3, Zenon
    <3> QED
      BY <3>1, <3>2, <3>3, Zenon
  <2> QED
    BY <2>2, <2>3, Zenon
<1>10. UniqueNames'
  <2> SUFFICES ASSUME NEW f \in Slots, NEW g \in Slots, UsesName(entry'[f]), UsesName(entry'[g]),
                      entry'[f].object = entry'[g].object, Space(f) = Space(g), f # g
               PROVE  FALSE
    BY Zenon DEF UniqueNames
  <2>1. f # e /\ g # e
    BY <1>1, <1>2, Zenon
  <2>2. \A i, j \in Slots : /\ UsesName(entry[i]) /\ UsesName(entry[j])
                            /\ entry[i].object = entry[j].object /\ Space(i) = Space(j)
                            => i = j
    BY Zenon DEF IInv, UniqueNames
  <2>3. CASE f = new
    BY <1>1, <2>1, <2>2, <2>3, Zenon
  <2>4. CASE g = new
    BY <1>1, <2>1, <2>2, <2>4, Zenon
  <2>5. CASE f # new /\ g # new
    BY <1>1, <2>1, <2>2, <2>5, Zenon
  <2> QED
    BY <2>3, <2>4, <2>5, Zenon
<1> QED
  BY <1>6, <1>7, <1>8, <1>9, <1>10, Zenon DEF IInv

(* A name found to be dead when its request must be renamed.               *)
LEMMA RenamedDead ==
  ASSUME IInv, NEW e \in Slots, NEW new \in Slots, e # new, entry[new] = Free, Stale(e),
         NEW x, EntryOk(x), x.object = None, alive' = alive,
         entry' = [entry EXCEPT ![new] = x, ![e] = Free],
         port' = [port EXCEPT ![entry[e].object] = Release(@)]
  PROVE  IInv'
<1> DEFINE p == entry[e].object
           q == port[p]
           r == Release(q)
           n == Cardinality(Naming(p))
           s == Cardinality(Senders(p))
           o == Cardinality(SendOncers(p))
<1>1. p # None /\ ~q.active
  BY Zenon DEF Stale, PortOf
<1>2. /\ p \in Ports /\ PortOk(q, n, s, o) /\ n \in Nat /\ s \in Nat /\ o \in Nat /\ n > 0
      /\ q \in Port
  BY <1>1, AtEntry, Zenon DEF PortOk
<1>3. PortOk(r, n - 1, s, o) /\ r \in Port
  <2>1. n - 1 \in Nat /\ n = (n - 1) + 1
    BY <1>2
  <2> QED
    <3>1. PortOk(r, n - 1, s, o)
      BY <1>2, <2>1, ReleasedOk, Zenon
    <3> QED
      BY <3>1, Zenon DEF PortOk
<1>4. ~r.active
  BY <1>1, <1>2, Zenon DEF Port, Release
<1>5. /\ entry \in [Slots -> Entry] /\ port \in [Ports -> Port] /\ Free \in Entry /\ x \in Entry
      /\ entry'[new] = x /\ entry'[e] = Free
      /\ \A f \in Slots \ {e, new} : entry'[f] = entry[f]
      /\ port'[p] = r /\ \A a \in Ports \ {p} : port'[a] = port[a]
  BY <1>2, FreeOk, Zenon DEF IInv, TypeOK, EntryOk
<1> HIDE DEF r
<1>6. /\ Free.object = None /\ ~UsesName(Free) /\ EntryOk(Free)
      /\ ~UsesName(x) /\ ~HasReceive(x) /\ ~HasReceive(Free)
  BY FreeOk, Zenon DEF EntryOk, UsesName, HasSend, HasReceive
<1>7. TypeOK'
  <2>1. entry' \in [Slots -> Entry]
    BY <1>5, Zenon
  <2>2. port' \in [Ports -> Port]
    BY <1>2, <1>3, <1>5, Zenon DEF r
  <2> QED
    BY <2>1, <2>2, Zenon DEF IInv, TypeOK
<1>8. \A f \in Slots : EntryOk(entry'[f])
  BY <1>5, <1>6, Zenon DEF IInv
<1>9. ASSUME NEW a \in Ports PROVE Naked(a)'
  <2>0. a # None
    BY RightConstants, Zenon
  <2>1. CASE a = p
    <3>1. Naming(a)' = Naming(p) \ {e} /\ e \in Naming(p) /\ Naming(p) \subseteq Slots
      BY <1>5, <1>6, <2>0, <2>1, Zenon DEF Naming
    <3>2. Cardinality(Naming(p) \ {e}) = n - 1
      <4>1. Cardinality(Naming(p) \ {e}) = n - One(e \in Naming(p))
        BY <3>1, Counting, Zenon
      <4> QED
        BY <3>1, <4>1, Zenon DEF One
    <3>3. PortOk(r, n - 1, Cardinality(Senders(a)'), Cardinality(SendOncers(a)'))
      BY <1>3, <1>4, Zenon DEF PortOk
    <3> QED
      BY <1>5, <2>1, <3>1, <3>2, <3>3, ZenonT(30) DEF Naked
  <2>2. CASE a # p
    <3>1. Naming(a)' = Naming(a) /\ Senders(a)' = Senders(a) /\ SendOncers(a)' = SendOncers(a)
      BY <1>5, <1>6, <2>0, <2>2, Zenon DEF Naming, Senders, SendOncers
    <3> QED
      BY <1>5, <2>2, <3>1, Zenon DEF IInv, Naked
  <2> QED
    BY <2>1, <2>2, Zenon
<1>10. ASSUME NEW f \in Slots, NEW a \in Ports PROVE LinkOk(f, entry'[f], a, port'[a])
  <2>1. LinkOk(f, entry[f], a, port[a]) /\ a # None
    BY RightConstants, Zenon DEF IInv
  <2>2. CASE f \in {e, new}
    BY <1>4, <1>5, <1>6, <2>1, <2>2, ZenonT(30) DEF LinkOk
  <2>3. CASE f \notin {e, new} /\ a = p
    BY <1>1, <1>4, <1>5, <2>1, <2>3, Zenon DEF LinkOk
  <2>4. CASE f \notin {e, new} /\ a # p
    BY <1>5, <2>1, <2>4, Zenon
  <2> QED
    BY <2>2, <2>3, <2>4, Zenon
<1>11. UniqueNames'
  BY <1>5, <1>6, Zenon DEF IInv, UniqueNames
<1> QED
  BY <1>7, <1>8, <1>9, <1>10, <1>11, Zenon DEF IInv

(* ipc_right_rename.                                                       *)
LEMMA RenameKeeps ==
  ASSUME IInv, NEW e \in Slots, NEW new \in Slots, Rename(e, new)
  PROVE  IInv'
<1> DEFINE y == entry[e]
           x == IF y.request THEN RightCheck(e) ELSE y
<1>1. /\ Space(new) = Space(e) /\ y.type # "none" /\ entry[new].type = "none" /\ e # new
      /\ alive' = alive /\ entry' = [entry EXCEPT ![new] = x, ![e] = Free]
  BY Zenon DEF Rename
<1>2. entry[new] = Free
  <2>1. EntryOk(entry[new])
    BY Zenon DEF IInv
  <2>2. /\ entry[new].type = "none" /\ entry[new].object = None /\ entry[new].urefs = 0
        /\ entry[new].request = FALSE
    BY <1>1, <2>1, Zenon DEF EntryOk, Entry
  <2> QED
    BY <2>1, <2>2, Zenon DEF EntryOk, Entry, Free
<1>3. /\ EntryOk(y) /\ EntryOk(RightCheck(e))
      /\ Stale(e) => RightCheck(e).type = "dead_name"
      /\ RightCheck(e).type = "dead_name" => RightCheck(e).object = None
      /\ ~Stale(e) => RightCheck(e) = y
  BY Checked, Zenon DEF IInv, RightCheck
<1>4. CASE y.request /\ Stale(e)
  <2>1. x = RightCheck(e) /\ x.object = None /\ y.object # None /\ EntryOk(x)
    BY <1>3, <1>4, Zenon DEF Stale
  <2>2. port' = [port EXCEPT ![entry[e].object] = Release(@)]
    BY <2>1, Zenon DEF Rename
  <2> HIDE DEF x
  <2> QED
    BY <1>1, <1>2, <1>4, <2>1, <2>2, RenamedDead, Zenon
<1>5. CASE ~(y.request /\ Stale(e))
  <2>1. x = y
    BY <1>3, <1>5, Zenon
  <2>2. y.object = None => port' = port
    BY <2>1, Zenon DEF Rename
  <2>3. y.object # None =>
           port' = [port EXCEPT ![entry[e].object] = RenameAt(@, entry[e], e, new)]
    BY <2>1, Zenon DEF Rename
  <2>4. entry' = [entry EXCEPT ![new] = y, ![e] = Free]
    BY <1>1, <2>1, Zenon
  <2> QED
    BY <1>1, <1>2, <2>2, <2>3, <2>4, Renamed, Zenon
<1> QED
  BY <1>4, <1>5, Zenon

----------------------------------------------------------------------------------
(* The operations on a name, one lemma each.                               *)
LEMMA SetSendUrefsKeeps ==
  ASSUME IInv, NEW e \in Slots, entry[e].object # None, PortOf(e).active, HasSend(entry[e]),
         NEW k \in 0..UrefsMax - 1, SetSendUrefs(e, k)
  PROVE  IInv'
<1> DEFINE y == entry[e]
           q == PortOf(e)
<1>1. CASE k > 0
  <2>1. k \in 1..UrefsMax - 1 /\ k # 0
    BY <1>1, RightConstants
  <2>2. Keeps(e, [y EXCEPT !.urefs = k], q)
    BY <2>1, UrefsSet, Zenon DEF Keeps
  <2>3. Put(e, [y EXCEPT !.urefs = k], q)
    BY <1>1, <2>1, Zenon DEF SetSendUrefs
  <2> QED
    BY <2>2, <2>3, PutKeeps, Zenon
<1>2. CASE k = 0 /\ HasReceive(y)
  <2>1. Keeps(e, [y EXCEPT !.type = "receive", !.urefs = 0], DropSend(q))
    BY <1>2, LostSend, Zenon DEF Keeps
  <2>2. Put(e, [y EXCEPT !.type = "receive", !.urefs = 0], DropSend(q))
    BY <1>2 DEF SetSendUrefs
  <2> QED
    BY <2>1, <2>2, PutKeeps, Zenon
<1>3. CASE k = 0 /\ ~HasReceive(y)
  <2>1. Keeps(e, Free, Release(Dncancel(DropSend(q), e)))
    BY <1>3, LostOnlySend, Zenon DEF Keeps
  <2>2. Put(e, Free, Release(Dncancel(DropSend(q), e)))
    BY <1>3 DEF SetSendUrefs
  <2> QED
    BY <2>1, <2>2, PutKeeps, Zenon
<1> QED
  BY <1>1, <1>2, <1>3

(* A send-once right is used up or discarded.                              *)
LEMMA LoseSendOnceKeeps ==
  ASSUME IInv, NEW e \in Slots, entry[e].object # None, entry[e].type = "send_once",
         LoseSendOnce(e)
  PROVE  IInv'
<1>1. Keeps(e, Free, NakedSendOnce(Dncancel(PortOf(e), e)))
  BY MovedSendOnce, Zenon DEF Keeps
<1> QED
  BY <1>1, PutKeeps, Zenon DEF LoseSendOnce

(* ipc_right_dealloc.                                                      *)
LEMMA DeallocKeeps ==
  ASSUME IInv, NEW e \in Slots, Dealloc(e)
  PROVE  IInv'
<1> DEFINE x == RightCheck(e)
<1>1. /\ EntryOk(x)
      /\ x.type = "dead_name" => x.object = None /\ (entry[e].object = None \/ Stale(e))
      /\ x.type # "dead_name" => x = entry[e]
      /\ x.type \notin {"none", "dead_name"} => entry[e].object # None /\ PortOf(e).active
  BY Checked, Zenon
<1>2. CASE x.type = "dead_name" /\ Settle(e, LessUref(x))
  BY <1>1, <1>2, LessDead, SettleKeeps, Zenon
<1>3. CASE x.type = "send_once" /\ LoseSendOnce(e)
  BY <1>1, <1>3, LoseSendOnceKeeps, Zenon
<1>4. CASE HasSend(x) /\ SetSendUrefs(e, x.urefs - 1)
  <2>1. x = entry[e] /\ entry[e].object # None /\ PortOf(e).active /\ HasSend(entry[e])
    BY <1>1, <1>4, Zenon DEF HasSend
  <2>2. x.urefs - 1 \in 0..UrefsMax - 1
    BY <1>1, <1>4, RightConstants DEF EntryOk
  <2> HIDE DEF x
  <2> QED
    BY <1>4, <2>1, <2>2, SetSendUrefsKeeps, Zenon
<1> QED
  BY <1>2, <1>3, <1>4, Zenon DEF Dealloc

(* ipc_right_delta of a send, send-once or dead-name right.                *)
LEMMA DeltaKeeps ==
  ASSUME IInv, NEW e \in Slots, Delta(e)
  PROVE  IInv'
<1> DEFINE x == RightCheck(e)
<1>1. /\ EntryOk(x)
      /\ x.type = "dead_name" => x.object = None /\ (entry[e].object = None \/ Stale(e))
      /\ x.type # "dead_name" => x = entry[e]
      /\ x.type \notin {"none", "dead_name"} => entry[e].object # None /\ PortOf(e).active
  BY Checked, Zenon
<1>2. CASE HasSend(x) /\ \E k \in 0..SendUrefsMax : SetSendUrefs(e, k)
  <2>1. entry[e].object # None /\ PortOf(e).active /\ HasSend(entry[e])
    BY <1>1, <1>2, Zenon DEF HasSend
  <2> QED
    BY <1>2, <2>1, SetSendUrefsKeeps, Zenon DEF SendUrefsMax
<1>3. CASE x.type = "send_once" /\ LoseSendOnce(e)
  BY <1>1, <1>3, LoseSendOnceKeeps, Zenon
<1>4. CASE x.type = "dead_name" /\ \E k \in 1..UrefsMax : Settle(e, [x EXCEPT !.urefs = k])
  <2>1. PICK k \in 1..UrefsMax : Settle(e, [x EXCEPT !.urefs = k])
    BY <1>4, Zenon
  <2>2. EntryOk([x EXCEPT !.urefs = k]) /\ [x EXCEPT !.urefs = k].object = None
    BY <1>1, <1>4, DeadUrefs, Zenon
  <2> HIDE DEF x
  <2> QED
    BY <1>1, <1>4, <2>1, <2>2, SettleKeeps, Zenon
<1>5. CASE x.type = "dead_name" /\ Settle(e, Free)
  BY <1>1, <1>5, FreeOk, SettleKeeps, Zenon
<1>6. CASE x.type = "dead_name" /\ Settle(e, x)
  BY <1>1, <1>6, SettleKeeps, Zenon
<1> QED
  BY <1>2, <1>3, <1>4, <1>5, <1>6, Zenon DEF Delta

(* ipc_right_delta of a receive right.                                     *)
LEMMA DeltaReceiveKeeps ==
  ASSUME IInv, NEW e \in Slots, DeltaReceive(e)
  PROVE  IInv'
<1> DEFINE y == entry[e]
           q == PortOf(e)
           x == [Free EXCEPT !.type = "dead_name",
                             !.urefs = y.urefs + (IF y.request THEN 1 ELSE 0)]
<1>1. entry[e].object # None /\ HasReceive(y)
  BY Zenon DEF IInv, EntryOk, DeltaReceive, HasReceive
<1>2. CASE HasSend(y)
  <2>1. Keeps(e, x, PortDestroy(ClearReceiver([q EXCEPT !.stray = @ + 1])))
    BY <1>1, <1>2, StrandedSend, Zenon DEF Keeps
  <2>2. Put(e, x, PortDestroy(ClearReceiver([q EXCEPT !.stray = @ + 1])))
    BY <1>2, Zenon DEF DeltaReceive
  <2> QED
    BY <1>1, <2>1, <2>2, PutKeeps, Zenon
<1>3. CASE ~HasSend(y)
  <2>1. Keeps(e, Free, PortDestroy(ClearReceiver(Dncancel(q, e))))
    BY <1>1, <1>3, LostAll, Zenon DEF Keeps
  <2>2. Put(e, Free, PortDestroy(ClearReceiver(Dncancel(q, e))))
    BY <1>3, Zenon DEF DeltaReceive
  <2> QED
    BY <1>1, <2>1, <2>2, PutKeeps, Zenon
<1> QED
  BY <1>2, <1>3, Zenon

(* ipc_right_destroy and ipc_right_clean.                                  *)
LEMMA DiscardKeeps ==
  ASSUME IInv, NEW e \in Slots, Discard(e)
  PROVE  IInv'
<1> DEFINE y == entry[e]
           q == PortOf(e)
           d == IF HasSend(y) THEN DropSend(Dncancel(q, e)) ELSE Dncancel(q, e)
<1>1. EntryOk(y)
  BY Zenon DEF IInv
<1>2. CASE (y.type = "dead_name" \/ Stale(e)) /\ Settle(e, Free)
  BY <1>1, <1>2, FreeOk, SettleKeeps, Zenon DEF EntryOk
<1>3. CASE ~Stale(e) /\ HasReceive(y) /\ Put(e, Free, PortDestroy(ClearReceiver(d)))
  <2>1. y.object # None
    BY <1>1, <1>3, Zenon DEF EntryOk, HasReceive
  <2>2. Keeps(e, Free, PortDestroy(ClearReceiver(d)))
    BY <1>3, LostAll, Zenon DEF Keeps
  <2> QED
    BY <1>3, <2>1, <2>2, PutKeeps, Zenon
<1>4. CASE ~Stale(e) /\ y.type = "send_once" /\ LoseSendOnce(e)
  BY <1>1, <1>4, LoseSendOnceKeeps, Zenon DEF EntryOk
<1>5. CASE ~Stale(e) /\ y.type = "send" /\ Put(e, Free, Release(d))
  <2>1. y.object # None /\ q.active /\ HasSend(y) /\ ~HasReceive(y)
    BY <1>1, <1>5, Zenon DEF EntryOk, HasSend, HasReceive, Stale
  <2>2. Keeps(e, Free, Release(DropSend(Dncancel(q, e))))
    BY <2>1, LostOnlySend, Zenon DEF Keeps
  <2> QED
    BY <1>5, <2>1, <2>2, PutKeeps, Zenon
<1> QED
  BY <1>2, <1>3, <1>4, <1>5, Zenon DEF Discard

(* ipc_right_dnrequest.                                                    *)
LEMMA DnrequestKeeps ==
  ASSUME IInv, NEW e \in Slots, NEW notify \in BOOLEAN, NEW immediate \in BOOLEAN,
         Dnrequest(e, notify, immediate)
  PROVE  IInv'
<1> DEFINE x == RightCheck(e)
           q == PortOf(e)
           r == IF notify THEN [q EXCEPT !.dnrequests = @ \union {e}] ELSE Dncancel(q, e)
           w == IF immediate /\ notify /\ x.urefs < UrefsMax
                  THEN [x EXCEPT !.urefs = @ + 1] ELSE x
<1>1. /\ EntryOk(x)
      /\ x.type = "dead_name" => x.object = None /\ (entry[e].object = None \/ Stale(e))
      /\ x.type # "dead_name" => x = entry[e]
  BY Checked, Zenon
<1>2. CASE x.object # None /\ Put(e, [x EXCEPT !.request = notify], r)
  <2>1. x = entry[e]
    BY <1>1, <1>2, Zenon
  <2>2. Keeps(e, [entry[e] EXCEPT !.request = notify], r)
    BY DeadNameAsked, Zenon DEF Keeps
  <2> HIDE DEF x, r
  <2> QED
    BY <1>2, <2>1, <2>2, PutKeeps, Zenon
<1>3. CASE x.type = "dead_name" /\ Settle(e, w)
  <2>1. EntryOk(w) /\ w.object = None
    <3>1. CASE x.urefs < UrefsMax
      <4>1. x.urefs + 1 \in 1..UrefsMax
        BY <1>1, <1>3, <3>1, RightConstants DEF EntryOk
      <4> HIDE DEF x
      <4> QED
        BY <1>1, <1>3, <4>1, DeadUrefs, Zenon
    <3>2. CASE ~(x.urefs < UrefsMax)
      BY <1>1, <1>3, <3>2, Zenon
    <3> QED
      BY <3>1, <3>2, Zenon
  <2> HIDE DEF w
  <2> QED
    BY <1>1, <1>3, <2>1, SettleKeeps, Zenon
<1> QED
  BY <1>2, <1>3, Zenon DEF Dnrequest

(* The calls on a port through its receive right.                          *)
LEMMA ReceiverKeeps ==
  ASSUME IInv, NEW e \in Slots, NEW notify \in BOOLEAN, NEW sync, NEW m \in 0..MaxMscount,
         Nsrequest(e, notify, sync) \/ Pdrequest(e, notify) \/ SetMscount(e, m)
  PROVE  IInv'
<1> DEFINE y == entry[e]
           q == PortOf(e)
<1>1. y.object # None /\ HasReceive(y)
  BY Zenon DEF IInv, EntryOk, Nsrequest, Pdrequest, SetMscount, HasReceive
<1>2. CASE Nsrequest(e, notify, sync)
  <2> DEFINE a == [q EXCEPT !.nsrequest = FALSE, !.early = FALSE, !.told = @ \union {q.mscount}]
             b == [q EXCEPT !.nsrequest = notify, !.early = notify /\ q.srights = 0]
  <2>1. (q.srights = 0 => Keeps(e, y, a)) /\ Keeps(e, y, b)
    BY <1>1, NoSendersAsked, Zenon DEF Keeps
  <2>2. (q.srights = 0 /\ Put(e, y, a)) \/ Put(e, y, b)
    BY <1>2, Zenon DEF Nsrequest
  <2> HIDE DEF a, b
  <2> QED
    BY <1>1, <2>1, <2>2, PutKeeps, Zenon
<1>3. CASE Pdrequest(e, notify)
  <2>1. Keeps(e, y, [q EXCEPT !.pdrequest = notify])
    BY ReceiverSet, Zenon DEF Keeps
  <2> QED
    BY <1>1, <1>3, <2>1, PutKeeps, Zenon DEF Pdrequest
<1>4. CASE SetMscount(e, m)
  <2>1. Keeps(e, y, [q EXCEPT !.mscount = m, !.told = {}])
    BY ReceiverSet, Zenon DEF Keeps
  <2> QED
    BY <1>1, <1>4, <2>1, PutKeeps, Zenon DEF SetMscount
<1> QED
  BY <1>2, <1>3, <1>4, Zenon

(* ipc_right_copyin that makes a right.                                    *)
LEMMA CopyinMakeKeeps ==
  ASSUME IInv, NEW e \in Slots, CopyinMakeSend(e) \/ CopyinMakeSendOnce(e)
  PROVE  IInv'
<1> DEFINE y == entry[e]
           q == PortOf(e)
<1>1. y.object # None /\ HasReceive(y)
  BY Zenon DEF IInv, EntryOk, CopyinMakeSend, CopyinMakeSendOnce, HasReceive
<1>2. CASE CopyinMakeSend(e)
  <2>1. Keeps(e, y, NakedSend(Reference([q EXCEPT !.mscount = @ + 1, !.srights = @ + 1])))
    BY <1>1, <1>2, MadeSend, Zenon DEF Keeps, CopyinMakeSend
  <2> QED
    BY <1>1, <1>2, <2>1, PutKeeps, Zenon DEF CopyinMakeSend
<1>3. CASE CopyinMakeSendOnce(e)
  <2>1. Keeps(e, y, NakedSendOnce(Reference([q EXCEPT !.sorights = @ + 1])))
    BY <1>1, MadeSendOnce, Zenon DEF Keeps
  <2> QED
    BY <1>1, <1>3, <2>1, PutKeeps, Zenon DEF CopyinMakeSendOnce
<1> QED
  BY <1>2, <1>3, Zenon

(* ipc_right_copyin that moves the receive right.                          *)
LEMMA CopyinMoveReceiveKeeps ==
  ASSUME IInv, NEW e \in Slots, CopyinMoveReceive(e)
  PROVE  IInv'
<1> DEFINE y == entry[e]
           q == PortOf(e)
           limbo(r) == [ClearReceiver(r) EXCEPT !.receiver = None, !.receive = TRUE]
<1>1. y.object # None /\ HasReceive(y)
  BY Zenon DEF IInv, EntryOk, CopyinMoveReceive, HasReceive
<1>2. CASE HasSend(y)
  <2>1. Keeps(e, [y EXCEPT !.type = "send"], limbo(Reference(q)))
    BY <1>1, <1>2, MovedReceive, Zenon DEF Keeps
  <2>2. Put(e, [y EXCEPT !.type = "send"], limbo(Reference(q)))
    BY <1>2, Zenon DEF CopyinMoveReceive
  <2> QED
    BY <1>1, <2>1, <2>2, PutKeeps, Zenon
<1>3. CASE ~HasSend(y)
  <2>1. Keeps(e, Free, limbo(Dncancel(q, e)))
    BY <1>1, <1>3, MovedOnlyReceive, Zenon DEF Keeps
  <2>2. Put(e, Free, limbo(Dncancel(q, e)))
    BY <1>3, Zenon DEF CopyinMoveReceive
  <2> QED
    BY <1>1, <2>1, <2>2, PutKeeps, Zenon
<1> QED
  BY <1>2, <1>3, Zenon

(* ipc_right_copyin that copies or moves a send right or moves a send-once *)
(* right.                                                                  *)
LEMMA CopyinSendKeeps ==
  ASSUME IInv, NEW e \in Slots,
         CopyinCopySend(e) \/ CopyinMoveSend(e) \/ CopyinMoveSendOnce(e)
  PROVE  IInv'
<1> DEFINE x == RightCheck(e)
           y == entry[e]
           q == PortOf(e)
           copied == NakedSend(Reference([q EXCEPT !.srights = @ + 1]))
<1>1. /\ EntryOk(x)
      /\ x.type = "dead_name" => x.object = None /\ (y.object = None \/ Stale(e))
      /\ x.type # "dead_name" => x = y
      /\ x.type \notin {"none", "dead_name"} => y.object # None /\ q.active
  BY Checked, Zenon
<1>2. CASE x.type = "dead_name" /\ (Settle(e, x) \/ Settle(e, LessUref(x)))
  BY <1>1, <1>2, LessDead, SettleKeeps, Zenon
<1>3. CASE x.type = "send_once" /\ LoseSendOnce(e)
  BY <1>1, <1>3, LoseSendOnceKeeps, Zenon
<1>4. HasSend(x) => x = y /\ y.object # None /\ HasSend(y) /\ EntryOk(y)
  BY <1>1, Zenon DEF HasSend
<1>5. CASE HasSend(x) /\ Put(e, x, copied)
  <2>1. y.urefs \in 1..UrefsMax - 1 /\ y = [y EXCEPT !.urefs = y.urefs]
    BY <1>4, <1>5, Zenon DEF EntryOk, Entry
  <2>2. Keeps(e, [y EXCEPT !.urefs = y.urefs], copied)
    BY <1>4, <1>5, <2>1, CopiedSend, Zenon DEF Keeps
  <2> HIDE DEF x, copied
  <2> QED
    BY <1>4, <1>5, <2>1, <2>2, PutKeeps, Zenon
<1>6. CASE HasSend(x) /\ x.urefs > 1 /\ Put(e, LessUref(x), copied)
  <2>1. y.urefs - 1 \in 1..UrefsMax - 1
    BY <1>4, <1>6, RightConstants DEF EntryOk
  <2>2. LessUref(x) = [y EXCEPT !.urefs = y.urefs - 1]
    BY <1>4, <1>6 DEF LessUref
  <2>3. Keeps(e, [y EXCEPT !.urefs = y.urefs - 1], copied)
    BY <1>4, <1>6, <2>1, CopiedSend, Zenon DEF Keeps
  <2> HIDE DEF x, copied
  <2> QED
    BY <1>4, <1>6, <2>2, <2>3, PutKeeps, Zenon
<1>7. CASE /\ HasSend(x) /\ HasReceive(x)
           /\ Put(e, [x EXCEPT !.type = "receive", !.urefs = 0], NakedSend(Reference(q)))
  <2>1. Keeps(e, [y EXCEPT !.type = "receive", !.urefs = 0], NakedSend(Reference(q)))
    BY <1>4, <1>7, MovedLastSend, Zenon DEF Keeps
  <2> HIDE DEF x
  <2> QED
    BY <1>4, <1>7, <2>1, PutKeeps, Zenon
<1>8. CASE HasSend(x) /\ ~HasReceive(x) /\ Put(e, Free, NakedSend(Dncancel(q, e)))
  <2>1. Keeps(e, Free, NakedSend(Dncancel(q, e)))
    BY <1>4, <1>8, MovedSend, Zenon DEF Keeps
  <2> HIDE DEF x
  <2> QED
    BY <1>4, <1>8, <2>1, PutKeeps, Zenon
<1> QED
  BY <1>2, <1>3, <1>5, <1>6, <1>7, <1>8, Zenon DEF CopyinCopySend, CopyinMoveSend, CopyinMoveSendOnce

(* ipc_right_copyout of a send right, to a new name or to the one the      *)
(* space has.                                                              *)
LEMMA CopyoutSendKeeps ==
  ASSUME IInv, NEW e \in Slots, NEW p \in Ports, CopyoutSend(e, p)
  PROVE  IInv'
<1> DEFINE y == entry[e]
           q == port[p]
           z == [q EXCEPT !.send = @ - 1]
           n == Cardinality(Naming(p))
           s == Cardinality(Senders(p))
           o == Cardinality(SendOncers(p))
<1>1. /\ PortOk(q, n, s, o) /\ q \in Port /\ n \in Nat /\ s \in Nat /\ o \in Nat
      /\ q.send > 0 /\ q.active /\ p # None
  BY AtPort, RightConstants, Zenon DEF CopyoutSend, Target
<1>2. EntryOk(y)
  BY Zenon DEF IInv
<1>3. \/ y.object = p /\ UsesName(y)
      \/ /\ y.type = "none"
         /\ \A f \in Slots : UsesName(entry[f]) /\ entry[f].object = p => Space(f) # Space(e)
  BY TargetName, Zenon DEF CopyoutSend
<1>4. CASE y.object = p /\ UsesName(y)
  <2>1. PortOf(e) = q /\ y.object # None
    BY <1>1, <1>4, Zenon DEF PortOf
  <2>2. CASE HasSend(y) /\ y.urefs <= SendUrefsMax
    <3> DEFINE r == Release([z EXCEPT !.srights = @ - 1])
    <3>1. /\ y.urefs \in 1..UrefsMax - 1 /\ y = [y EXCEPT !.urefs = y.urefs]
          /\ y.urefs < SendUrefsMax => y.urefs + 1 \in 1..UrefsMax - 1
      BY <1>2, <2>2, RightConstants DEF EntryOk, Entry, SendUrefsMax
    <3>2. ASSUME NEW k \in 1..UrefsMax - 1 PROVE Keeps(e, [y EXCEPT !.urefs = k], r)
      BY <1>1, <2>1, <2>2, CopiedOutSend, Zenon DEF Keeps
    <3>3. \/ y.urefs < SendUrefsMax /\ Named(e, p, [y EXCEPT !.urefs = y.urefs + 1], r)
          \/ Named(e, p, y, r)
      BY <2>2, Zenon DEF CopyoutSend, HasSend
    <3> HIDE DEF r
    <3>4. PICK k \in 1..UrefsMax - 1 : Named(e, p, [y EXCEPT !.urefs = k], r)
      BY <3>1, <3>3, Zenon
    <3>5. Put(e, [y EXCEPT !.urefs = k], r)
      BY <1>4, <3>4, Zenon DEF Put, Named
    <3> QED
      BY <2>1, <3>2, <3>5, PutKeeps, Zenon
  <2>3. CASE y.type = "receive"
    <3>1. Keeps(e, [y EXCEPT !.type = "send_receive", !.urefs = 1], Release(z))
      BY <1>1, <2>1, <2>3, CopiedOutToReceiver, Zenon DEF Keeps
    <3>2. Named(e, p, [y EXCEPT !.type = "send_receive", !.urefs = 1], Release(z))
      BY <2>3, Zenon DEF CopyoutSend, HasSend
    <3>3. Put(e, [y EXCEPT !.type = "send_receive", !.urefs = 1], Release(z))
      BY <1>4, <3>2, Zenon DEF Put, Named
    <3> QED
      BY <2>1, <3>1, <3>3, PutKeeps, Zenon
  <2>4. (HasSend(y) /\ y.urefs <= SendUrefsMax) \/ y.type = "receive"
    BY <1>2, <1>4, RightConstants DEF EntryOk, UsesName, HasSend, HasReceive, SendUrefsMax
  <2> QED
    BY <2>2, <2>3, <2>4, Zenon
<1>5. CASE /\ y.type = "none"
           /\ \A f \in Slots : UsesName(entry[f]) /\ entry[f].object = p => Space(f) # Space(e)
  <2> DEFINE x == [Free EXCEPT !.type = "send", !.urefs = 1, !.object = p]
  <2>1. EntryOk(x) /\ x.object = p /\ x.type = "send" /\ x.request = FALSE
    BY FreshOk, Zenon
  <2>2. Named(e, p, x, z)
    BY <1>5, Zenon DEF CopyoutSend, HasSend
  <2> HIDE DEF x
  <2>3. z \in Port
    <3>1. q.send - 1 \in Nat
      BY <1>1, Fields
    <3> QED
      BY <1>1, <3>1, Zenon DEF Port
  <2>4. /\ z.active = q.active /\ z.references = q.references /\ z.srights = q.srights
        /\ z.sorights = q.sorights /\ z.mscount = q.mscount /\ z.nsrequest = q.nsrequest
        /\ z.dnrequests = q.dnrequests /\ z.receiver = q.receiver /\ z.send = q.send - 1
        /\ z.send_once = q.send_once /\ z.receive = q.receive /\ z.told = q.told
        /\ z.early = q.early /\ z.stray = q.stray
    BY <1>1, Zenon DEF Port
  <2> HIDE DEF z
  <2>5. PortOk(z, n + 1, s + 1, o)
    <3> HIDE DEF n, s, o, q
    <3>1. /\ q.references \in Nat /\ q.send \in Nat /\ q.send_once \in Nat /\ q.stray \in Nat
          /\ q.references = n + q.send + q.send_once + One(q.receive) /\ One(q.receive) \in {0, 1}
      BY <1>1, Fields, Zenon DEF PortOk, One
    <3>2. z.references = (n + 1) + z.send + z.send_once + One(z.receive)
      BY <1>1, <2>4, <3>1
    <3>3. /\ q.srights = s + q.send + q.stray /\ q.sorights = o + q.send_once
          /\ (q.receive <=> q.receiver = None) /\ (\A m \in q.told : m <= q.mscount)
          /\ q.mscount \notin q.told /\ (q.nsrequest /\ q.srights = 0 => q.early)
      BY <1>1, <3>1 DEF PortOk
    <3>4. z.srights = (s + 1) + z.send + z.stray
      BY <1>1, <2>4, <3>1, <3>3
    <3> QED
      BY <1>1, <2>3, <2>4, <3>2, <3>3, <3>4, Zenon DEF PortOk
  <2>6. s + One(HasSend(x)) = s + 1 /\ o + One(x.type = "send_once") = o
    BY <1>1, <2>1 DEF One, HasSend
  <2>7. OthersAgree(e, q, z)
    BY <2>4, Zenon DEF OthersAgree
  <2>8. \A f \in Slots \ {e} : LinkOk(f, entry[f], p, z)
    BY <2>7, OthersKept, Zenon
  <2>9. LinkOk(e, x, p, z)
    <3>1. LinkOk(e, y, p, q) /\ y.object # p
      BY <1>1, <1>2, <1>5, Zenon DEF IInv, EntryOk
    <3> QED
      BY <2>1, <2>4, <3>1, Zenon DEF LinkOk, HasReceive
  <2> QED
    BY <1>5, <2>1, <2>2, <2>5, <2>6, <2>8, <2>9, NamedKeeps, ZenonT(30)
<1> QED
  BY <1>3, <1>4, <1>5, Zenon

(* ipc_right_copyout of a receive right.                                   *)
LEMMA CopyoutReceiveKeeps ==
  ASSUME IInv, NEW e \in Slots, NEW p \in Ports, CopyoutReceive(e, p)
  PROVE  IInv'
<1> DEFINE y == entry[e]
           q == port[p]
           z == [q EXCEPT !.receive = FALSE, !.receiver = e]
           n == Cardinality(Naming(p))
           s == Cardinality(Senders(p))
           o == Cardinality(SendOncers(p))
<1>1. /\ PortOk(q, n, s, o) /\ q \in Port /\ n \in Nat /\ s \in Nat /\ o \in Nat
      /\ q.receive /\ q.active /\ p # None /\ e # None
  BY AtPort, RightConstants, Zenon DEF CopyoutReceive, Target
<1>2. EntryOk(y) /\ LinkOk(e, y, p, q)
  BY Zenon DEF IInv
<1>3. q.receiver = None
  BY <1>1, Zenon DEF PortOk
<1>4. \/ y.object = p /\ UsesName(y)
      \/ /\ y.type = "none"
         /\ \A f \in Slots : UsesName(entry[f]) /\ entry[f].object = p => Space(f) # Space(e)
  BY TargetName, Zenon DEF CopyoutReceive
<1>5. CASE y.object = p /\ UsesName(y)
  <2>1. PortOf(e) = q /\ y.object # None
    BY <1>1, <1>5, Zenon DEF PortOf
  <2>2. y.type = "send"
    BY <1>1, <1>2, <1>3, <1>5, Zenon DEF LinkOk, UsesName, HasSend, HasReceive
  <2>3. Keeps(e, [y EXCEPT !.type = "send_receive"], Release(z))
    BY <1>1, <2>1, <2>2, CopiedOutReceive, Zenon DEF Keeps
  <2>4. Named(e, p, [y EXCEPT !.type = "send_receive"], Release(z))
    BY <2>2, Zenon DEF CopyoutReceive
  <2>5. Put(e, [y EXCEPT !.type = "send_receive"], Release(z))
    BY <1>5, <2>4, ZenonT(30) DEF Put, Named
  <2> QED
    BY <2>1, <2>3, <2>5, PutKeeps, Zenon
<1>6. CASE /\ y.type = "none"
           /\ \A f \in Slots : UsesName(entry[f]) /\ entry[f].object = p => Space(f) # Space(e)
  <2> DEFINE x == [Free EXCEPT !.type = "receive", !.object = p]
  <2>1. EntryOk(x) /\ x.object = p /\ x.type = "receive" /\ x.request = FALSE
    <3>1. /\ x.object = p /\ x.type = "receive" /\ x.urefs = 0 /\ x.request = FALSE
          /\ x \in Entry
      <4>1. Free \in Entry
        BY FreeOk, Zenon DEF EntryOk
      <4> QED
        BY <4>1, Zenon DEF Entry, Types, Free
    <3> HIDE DEF x
    <3> QED
      BY <1>1, <3>1, Zenon DEF EntryOk, HasSend, HasReceive
  <2>2. Named(e, p, x, z)
    BY <1>6, Zenon DEF CopyoutReceive
  <2> HIDE DEF x
  <2>3. z \in Port
    BY <1>1, Zenon DEF Port
  <2>4. /\ z.active = q.active /\ z.references = q.references /\ z.srights = q.srights
        /\ z.sorights = q.sorights /\ z.mscount = q.mscount /\ z.nsrequest = q.nsrequest
        /\ z.dnrequests = q.dnrequests /\ z.receiver = e /\ z.send = q.send
        /\ z.send_once = q.send_once /\ z.receive = FALSE /\ z.told = q.told
        /\ z.early = q.early /\ z.stray = q.stray
    BY <1>1, Zenon DEF Port
  <2> HIDE DEF z
  <2>5. PortOk(z, n + 1, s, o)
    <3> HIDE DEF n, s, o, q
    <3>1. /\ q.references \in Nat /\ q.send \in Nat /\ q.send_once \in Nat
          /\ q.references = n + q.send + q.send_once + 1 /\ One(z.receive) = 0
      BY <1>1, <2>4, Fields, Zenon DEF PortOk, One
    <3>2. z.references = (n + 1) + z.send + z.send_once + One(z.receive)
      BY <1>1, <2>4, <3>1
    <3>3. /\ q.srights = s + q.send + q.stray /\ q.sorights = o + q.send_once
          /\ (\A m \in q.told : m <= q.mscount)
          /\ (q.mscount \in q.told => s = 0 /\ q.send = 0) /\ (q.nsrequest /\ q.srights = 0 => q.early)
      BY <1>1, Zenon DEF PortOk
    <3>4. ~z.receive /\ z.receiver # None
      BY <1>1, <2>4, Zenon
    <3> QED
      BY <1>1, <2>3, <2>4, <3>2, <3>3, <3>4, Zenon DEF PortOk
  <2>6. s + One(HasSend(x)) = s /\ o + One(x.type = "send_once") = o
    BY <1>1, <2>1 DEF One, HasSend
  <2>7. OthersAgree(e, q, z)
    BY <1>3, <2>4, Zenon DEF OthersAgree
  <2>8. \A f \in Slots \ {e} : LinkOk(f, entry[f], p, z)
    BY <2>7, OthersKept, Zenon
  <2>9. LinkOk(e, x, p, z)
    <3>1. y.object # p
      BY <1>1, <1>2, <1>6, Zenon DEF EntryOk
    <3> QED
      BY <1>1, <1>2, <2>1, <2>4, <3>1, Zenon DEF LinkOk, HasReceive
  <2> QED
    BY <1>6, <2>1, <2>2, <2>5, <2>6, <2>8, <2>9, NamedKeeps
<1> QED
  BY <1>4, <1>5, <1>6, Zenon

----------------------------------------------------------------------------------
(* Every step of the rights calls keeps the invariant.                     *)
LEMMA NextKeeps ==
  ASSUME IInv, [Next]_vars
  PROVE  IInv'
<1>1. ASSUME NEW s \in Spaces, SpaceDestroy(s) PROVE IInv'
  <2>1. entry' = entry /\ port' = port /\ alive' = [alive EXCEPT ![s] = FALSE]
    BY <1>1, Zenon DEF SpaceDestroy
  <2>2. TypeOK'
    BY <2>1, Zenon DEF IInv, TypeOK
  <2>3. \A p \in Ports : Naked(p)'
    BY <2>1, Zenon DEF IInv, Naked, Naming, Senders, SendOncers
  <2>4. Counted'
    BY Zenon DEF IInv, Counted
  <2> QED
    BY <2>1, <2>2, <2>3, <2>4, Zenon DEF IInv, UniqueNames
<1>2. CASE UNCHANGED vars
  <2>1. entry' = entry /\ port' = port /\ alive' = alive
    BY <1>2, Zenon DEF vars
  <2>2. TypeOK'
    BY <2>1, Zenon DEF IInv, TypeOK
  <2>3. \A p \in Ports : Naked(p)'
    BY <2>1, Zenon DEF IInv, Naked, Naming, Senders, SendOncers
  <2>4. Counted'
    BY Zenon DEF IInv, Counted
  <2> QED
    BY <2>1, <2>2, <2>3, <2>4, Zenon DEF IInv, UniqueNames
<1>3. ASSUME NEW e \in Slots,
             \/ Dealloc(e) \/ Delta(e) \/ DeltaReceive(e) \/ Destroy(e) \/ Clean(e)
             \/ \E new \in Slots : Rename(e, new)
      PROVE  IInv'
  BY <1>3, DeallocKeeps, DeltaKeeps, DeltaReceiveKeeps, DiscardKeeps, RenameKeeps
     DEF Destroy, Clean
<1>4. ASSUME NEW e \in Slots,
             \/ \E notify, immediate \in BOOLEAN : Dnrequest(e, notify, immediate)
             \/ \E notify \in BOOLEAN, sync \in 0..MaxMscount + 1 : Nsrequest(e, notify, sync)
             \/ \E notify \in BOOLEAN : Pdrequest(e, notify)
             \/ \E m \in 0..MaxMscount : SetMscount(e, m)
      PROVE  IInv'
  <2>1. 0 \in 0..MaxMscount /\ TRUE \in BOOLEAN
    BY RightConstants
  <2>2. CASE \E notify, immediate \in BOOLEAN : Dnrequest(e, notify, immediate)
    BY <2>2, DnrequestKeeps, Zenon
  <2>3. CASE \E notify \in BOOLEAN, sync \in 0..MaxMscount + 1 : Nsrequest(e, notify, sync)
    BY <2>1, <2>3, ReceiverKeeps, Zenon
  <2>4. CASE \E notify \in BOOLEAN : Pdrequest(e, notify)
    BY <2>1, <2>4, ReceiverKeeps, Zenon
  <2>5. CASE \E m \in 0..MaxMscount : SetMscount(e, m)
    BY <2>1, <2>5, ReceiverKeeps, Zenon
  <2> QED
    BY <1>4, <2>2, <2>3, <2>4, <2>5, Zenon
<1>5. ASSUME NEW e \in Slots,
             \/ CopyinMakeSend(e) \/ CopyinMakeSendOnce(e) \/ CopyinMoveReceive(e)
             \/ CopyinCopySend(e) \/ CopyinMoveSend(e) \/ CopyinMoveSendOnce(e)
             \/ \E p \in Ports : \/ Alloc(e, p) \/ CopyoutSend(e, p)
                                 \/ CopyoutSendOnce(e, p) \/ CopyoutReceive(e, p)
      PROVE  IInv'
  BY <1>5, CopyinMakeKeeps, CopyinMoveReceiveKeeps, CopyinSendKeeps, AllocKeeps,
     CopyoutSendKeeps, CopyoutSendOnceKeeps, CopyoutReceiveKeeps
<1>6. ASSUME NEW p \in Ports, ReleaseSend(p) \/ ReleaseSendOnce(p) \/ ReleaseReceive(p)
      PROVE  IInv'
  BY <1>6, ReleaseSendKeeps, ReleaseSendOnceKeeps, ReleaseReceiveKeeps, Zenon
<1> QED
  BY <1>1, <1>2, <1>3, <1>4, <1>5, <1>6, Zenon DEF Next

----------------------------------------------------------------------------------
INSTANCE FiniteSetTheorems

(* Sets of names are counted as they should: there are finitely many names.*)
LEMMA CountedHolds == Counted
<1> SUFFICES ASSUME NEW S \in SUBSET Slots
             PROVE  /\ Cardinality(S) \in Nat
                    /\ Cardinality(S) = 0 <=> S = {}
                    /\ \A e \in Slots :
                         /\ Cardinality(S \ {e}) = Cardinality(S) - One(e \in S)
                         /\ Cardinality(S \union {e}) = Cardinality(S) + One(e \notin S)
  BY Zenon DEF Counted
<1>1. IsFiniteSet(S)
  BY RightConstants, FS_Subset, Zenon
<1>2. Cardinality(S) \in Nat
  BY <1>1, FS_CardinalityType, Zenon
<1>3. Cardinality(S) = 0 <=> S = {}
  BY <1>1, FS_EmptySet, Zenon
<1>4. ASSUME NEW e \in Slots
      PROVE  Cardinality(S \ {e}) = Cardinality(S) - One(e \in S)
  <2>1. Cardinality(S \ {e}) = IF e \in S THEN Cardinality(S) - 1 ELSE Cardinality(S)
    BY <1>1, FS_RemoveElement, Zenon
  <2> QED
    BY <2>1, <1>2 DEF One
<1>5. ASSUME NEW e \in Slots
      PROVE  Cardinality(S \union {e}) = Cardinality(S) + One(e \notin S)
  BY <1>1, <1>2, FS_AddElement DEF One
<1> QED
  BY <1>2, <1>3, <1>4, <1>5, ZenonT(30)

(* There is nothing to count in the initial state.                         *)
LEMMA InitKeeps == Init => IInv
<1> SUFFICES ASSUME Init PROVE IInv
  BY Zenon
<1>1. EntryOk(Free) /\ Free.object = None /\ Free.type = "none" /\ ~UsesName(Free)
  BY FreeOk, Zenon
<1>2. Unused \in Port
  <2>1. 0 \in 0..MaxMscount
    BY RightConstants
  <2> QED
    BY <2>1, Zenon DEF Port, Unused
<1>3. TypeOK
  BY <1>1, <1>2, Zenon DEF Init, TypeOK, EntryOk
<1>4. \A e \in Slots : entry[e] = Free
  BY Zenon DEF Init
<1>5. ASSUME NEW p \in Ports PROVE Naked(p)
  <2>1. p # None /\ port[p] = Unused
    BY RightConstants, Zenon DEF Init
  <2>2. Naming(p) = {} /\ Senders(p) = {} /\ SendOncers(p) = {}
    BY <1>1, <1>4, <2>1, Zenon DEF Naming, Senders, SendOncers
  <2>3. Cardinality({}) = 0
    BY CountedHolds, Zenon DEF Counted
  <2>4. PortOk(Unused, 0, 0, 0)
    <3>1. /\ Unused.references = 0 /\ Unused.send = 0 /\ Unused.send_once = 0
          /\ Unused.receive = FALSE /\ Unused.active = FALSE
      BY Zenon DEF Unused
    <3>2. Unused.references = 0 + Unused.send + Unused.send_once + One(Unused.receive)
      BY <3>1 DEF One
    <3> QED
      BY <1>2, <3>1, <3>2, Zenon DEF PortOk
  <2> QED
    BY <2>1, <2>2, <2>3, <2>4, Zenon DEF Naked
<1>6. ASSUME NEW e \in Slots, NEW p \in Ports PROVE LinkOk(e, entry[e], p, port[p])
  <2>1. port[p] = Unused /\ ~Unused.active /\ p # None
    BY RightConstants, Zenon DEF Init, Unused
  <2> QED
    BY <1>1, <1>4, <2>1, Zenon DEF LinkOk
<1>7. UniqueNames
  BY <1>1, <1>4, Zenon DEF UniqueNames
<1> QED
  BY <1>1, <1>3, <1>4, <1>5, <1>6, <1>7, CountedHolds, ZenonT(30) DEF IInv

(* The inductive invariant of port rights: an entry is well formed, the    *)
(* counts of a port are those of the entries that name it and of the naked *)
(* rights, a port and its entries agree, and names are unique, whatever    *)
(* the calls of ipc_right.c and ipc_port.c do.                             *)
THEOREM Invariance == Spec => []IInv
<1>1. Init => IInv
  BY InitKeeps, Zenon
<1>2. IInv /\ [Next]_vars => IInv'
  BY NextKeeps, Zenon
<1> QED
  BY <1>1, <1>2, PTL DEF Spec

(* ip_srights and ip_sorights count the rights there are: the entries of   *)
(* all spaces and the rights in transit, after any sequence of calls.      *)
THEOREM RightsExact == Spec => []RightsCounted
<1>1. IInv => RightsCounted
  BY ZenonT(30) DEF IInv, Naked, PortOk, One, RightsCounted
<1> QED
  BY <1>1, Invariance, PTL

(* ip_references counts the entries and rights that point to a port, so it *)
(* is never freed under one of them and is freed after the last.           *)
THEOREM ReferencesExact == Spec => []ReferencesCounted
<1>1. IInv => ReferencesCounted
  BY Zenon DEF IInv, Naked, PortOk, One, ReferencesCounted
<1> QED
  BY <1>1, Invariance, PTL

(* A live port has one receive right, where the port says it is, and a     *)
(* space has one name for its send and receive rights to a port, as        *)
(* ipc_right_reverse and ipc_right_copyout rely on.                        *)
THEOREM Unique == Spec => []OneName
<1>1. ASSUME IInv PROVE OneName
  <2>1. \A p \in Ports : IF port[p].active THEN port[p].receive = (port[p].receiver = None)
                                           ELSE ~port[p].receive
    <3> SUFFICES ASSUME NEW p \in Ports
                 PROVE  IF port[p].active THEN port[p].receive = (port[p].receiver = None)
                                          ELSE ~port[p].receive
      BY Zenon
    <3>1. /\ port[p].receive \in BOOLEAN /\ (port[p].receive => port[p].active)
          /\ port[p].active => (port[p].receive <=> port[p].receiver = None)
      BY <1>1, AtPort, Fields, ZenonT(30) DEF PortOk
    <3> QED
      BY <3>1, Zenon
  <2>2. \A e \in Slots : HasReceive(entry[e]) <=>
          \E p \in Ports : entry[e].object = p /\ port[p].active /\ port[p].receiver = e
    <3> SUFFICES ASSUME NEW e \in Slots
                 PROVE  HasReceive(entry[e]) <=>
                   \E p \in Ports : entry[e].object = p /\ port[p].active /\ port[p].receiver = e
      BY Zenon
    <3>1. HasReceive(entry[e]) => entry[e].object \in Ports
      BY <1>1, Zenon DEF IInv, EntryOk, Entry, HasReceive
    <3>2. \A p \in Ports : LinkOk(e, entry[e], p, port[p])
      BY <1>1, Zenon DEF IInv
    <3> QED
      BY <3>1, <3>2, Zenon DEF LinkOk
  <2>3. UniqueNames
    BY <1>1, ZenonT(30) DEF IInv
  <2> QED
    BY <2>1, <2>2, <2>3, Zenon DEF OneName, UniqueNames, UsesName
<1> QED
  BY <1>1, Invariance, PTL

(* ie_bits has room for the user references of every right, and for the    *)
(* one a dead-name notification brings.                                    *)
THEOREM Bounded == Spec => []UrefsBounded
<1>1. ASSUME IInv PROVE UrefsBounded
  <2> SUFFICES ASSUME NEW e \in Slots
               PROVE  LET x == RightCheck(e)
                      IN  CASE HasSend(x) -> x.urefs \in 1..UrefsMax - 1
                            [] x.type = "dead_name" -> x.urefs \in 1..UrefsMax
                            [] x.type = "send_once" -> x.urefs = 1
                            [] x.type \in {"none", "receive"} -> x.urefs = 0
    BY Zenon DEF UrefsBounded
  <2>1. EntryOk(RightCheck(e))
    BY <1>1, Checked, ZenonT(30)
  <2> QED
    BY <2>1, Zenon DEF EntryOk, Entry, Types, HasSend
<1> QED
  BY <1>1, Invariance, PTL

(* The table of dead-name requests of a port names the entries that asked. *)
THEOREM Requested == Spec => []RequestsAgree
<1>1. ASSUME IInv PROVE RequestsAgree
  <2> SUFFICES ASSUME NEW p \in Ports, port[p].active
               PROVE  LET asked == {e \in Naming(p) : entry[e].request}
                      IN  /\ asked \subseteq port[p].dnrequests
                          /\ port[p].stray = 0 => asked = port[p].dnrequests
    BY Zenon DEF RequestsAgree
  <2>1. \A e \in Slots : LinkOk(e, entry[e], p, port[p])
    BY <1>1, Zenon DEF IInv
  <2>2. port[p].dnrequests \subseteq Slots
    BY <1>1, AtPort, Fields, Zenon
  <2> QED
    BY <2>1, <2>2, Zenon DEF LinkOk, Naming
<1> QED
  BY <1>1, Invariance, PTL

(* A port without send rights: what PortOk says of its count.              *)
LEMMA NoSendRights ==
  ASSUME IInv, NEW p \in Ports
  PROVE  /\ PortOk(port[p], Cardinality(Naming(p)), Cardinality(Senders(p)),
                   Cardinality(SendOncers(p)))
         /\ Cardinality(Senders(p)) = 0 <=> Senders(p) = {}
<1>1. Senders(p) \subseteq Slots
  BY Zenon DEF Senders
<1>2. Cardinality(Senders(p)) = 0 <=> Senders(p) = {}
  BY <1>1, Zenon DEF IInv, Counted
<1>3. PortOk(port[p], Cardinality(Naming(p)), Cardinality(Senders(p)),
             Cardinality(SendOncers(p)))
  BY AtPort, ZenonT(30)
<1> QED
  BY <1>2, <1>3, Zenon

(* No no-senders request is forgotten: ip_nsrequest of a live port is      *)
(* cleared and notified when the last send right goes.                     *)
THEOREM NoSendersNotified == Spec => []NoSendersOwed
<1>1. ASSUME IInv PROVE NoSendersOwed
  <2> SUFFICES ASSUME NEW p \in Ports, port[p].active, port[p].nsrequest, port[p].stray = 0,
                      Senders(p) = {}, port[p].send = 0
               PROVE  port[p].early
    BY Zenon DEF NoSendersOwed
  <2> QED
    BY <1>1, NoSendRights DEF PortOk
<1> QED
  BY <1>1, Invariance, PTL

(* No no-senders notification is out of date: one that carries the port's  *)
(* make-send count is true, there is no send right.                        *)
THEOREM NoSendersNeverStale == Spec => []NoSendersTrue
<1>1. ASSUME IInv PROVE NoSendersTrue
  <2> SUFFICES ASSUME NEW p \in Ports, port[p].active, port[p].mscount \in port[p].told
               PROVE  Senders(p) = {} /\ port[p].send = 0
    BY Zenon DEF NoSendersTrue
  <2> QED
    BY <1>1, NoSendRights, Zenon DEF PortOk
<1> QED
  BY <1>1, Invariance, PTL
==================================================================================
