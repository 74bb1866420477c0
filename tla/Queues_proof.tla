---------------------------- MODULE Queues_proof ----------------------------
(***************************************************************************)
(* What the queue operators do to the elements of a queue, for the proofs  *)
(* about the components that use them.                                     *)
(***************************************************************************)
EXTENDS Queues, TLAPS

(* Concatenation, element by element.                                      *)
LEMMA ConcatElements ==
  ASSUME NEW S, NEW a \in Seq(S), NEW b \in Seq(S)
  PROVE  /\ a \o b \in Seq(S) /\ Len(a \o b) = Len(a) + Len(b)
         /\ \A j \in 1 .. Len(a) : (a \o b)[j] = a[j]
         /\ \A j \in Len(a) + 1 .. Len(a) + Len(b) : (a \o b)[j] = b[j - Len(a)]
  OBVIOUS

(* Insertion puts one element in and keeps the others in their order.      *)
Inserted(r, q, i, t) ==
  \A j \in 1 .. Len(q) + 1 : r[j] = IF j < i THEN q[j] ELSE IF j = i THEN t ELSE q[j - 1]

(* InsertAt does: insque.                                                  *)
LEMMA InsertAtElements ==
  ASSUME NEW S, NEW q \in Seq(S), NEW t \in S, NEW i \in 1 .. Len(q) + 1
  PROVE  /\ InsertAt(q, i, t) \in Seq(S) /\ Len(InsertAt(q, i, t)) = Len(q) + 1
         /\ Inserted(InsertAt(q, i, t), q, i, t)
<1> DEFINE a == SubSeq(q, 1, i - 1)
           b == SubSeq(q, i, Len(q))
           c == a \o <<t>>
<1>1. a \in Seq(S) /\ Len(a) = i - 1 /\ \A j \in 1 .. i - 1 : a[j] = q[j]
  OBVIOUS
<1>2. b \in Seq(S) /\ Len(b) = Len(q) - i + 1
      /\ \A j \in 1 .. Len(q) - i + 1 : b[j] = q[j + i - 1]
  OBVIOUS
<1> HIDE DEF a, b
<1>3. c \in Seq(S) /\ Len(c) = i /\ c[i] = t /\ \A j \in 1 .. i - 1 : c[j] = q[j]
  BY <1>1
<1> HIDE DEF c
<1>4. /\ c \o b \in Seq(S) /\ Len(c \o b) = Len(q) + 1
      /\ \A j \in 1 .. i : (c \o b)[j] = c[j]
      /\ \A j \in i + 1 .. Len(q) + 1 : (c \o b)[j] = b[j - i]
  BY <1>2, <1>3, ConcatElements
<1>5. \A j \in 1 .. Len(q) + 1 : j > i => j - i \in 1 .. Len(q) - i + 1 /\ j - i + i - 1 = j - 1
  OBVIOUS
<1>6. \A j \in 1 .. Len(q) + 1 : j > i => b[j - i] = q[j - 1]
  BY <1>2, <1>5
<1>7. \A j \in 1 .. Len(q) + 1 :
        (c \o b)[j] = IF j < i THEN q[j] ELSE IF j = i THEN t ELSE q[j - 1]
  <2> TAKE j \in 1 .. Len(q) + 1
  <2>1. CASE j < i
    <3>1. j \in 1 .. i - 1 /\ j \in 1 .. i
      BY <2>1
    <3> QED
      BY <2>1, <3>1, <1>3, <1>4
  <2>2. CASE j = i
    BY <2>2, <1>3, <1>4
  <2>3. CASE j > i
    <3>1. j \in i + 1 .. Len(q) + 1
      BY <2>3
    <3> QED
      BY <2>3, <3>1, <1>4, <1>6
  <2>4. j < i \/ j = i \/ j > i
    OBVIOUS
  <2> QED
    BY <2>1, <2>2, <2>3, <2>4, Zenon
<1>8. InsertAt(q, i, t) = c \o b
  BY DEF InsertAt, a, b, c
<1>9. Inserted(c \o b, q, i, t)
  BY <1>7, Zenon DEF Inserted
<1> QED
  BY <1>4, <1>8, <1>9, Zenon

(* Removal takes one element out and keeps the others in their order.      *)
Removed(r, q, i) == \A j \in 1 .. Len(q) - 1 : r[j] = IF j < i THEN q[j] ELSE q[j + 1]

(* RemoveAt does: remqueue.                                                *)
LEMMA RemoveAtElements ==
  ASSUME NEW S, NEW q \in Seq(S), NEW i \in 1 .. Len(q)
  PROVE  /\ RemoveAt(q, i) \in Seq(S) /\ Len(RemoveAt(q, i)) = Len(q) - 1
         /\ Removed(RemoveAt(q, i), q, i)
<1> DEFINE a == SubSeq(q, 1, i - 1)
           b == SubSeq(q, i + 1, Len(q))
<1>1. a \in Seq(S) /\ Len(a) = i - 1 /\ \A j \in 1 .. i - 1 : a[j] = q[j]
  OBVIOUS
<1>2. b \in Seq(S) /\ Len(b) = Len(q) - i
      /\ \A j \in 1 .. Len(q) - i : b[j] = q[j + i]
  OBVIOUS
<1> HIDE DEF a, b
<1>3. /\ a \o b \in Seq(S) /\ Len(a \o b) = Len(q) - 1
      /\ \A j \in 1 .. i - 1 : (a \o b)[j] = a[j]
      /\ \A j \in i .. Len(q) - 1 : (a \o b)[j] = b[j - (i - 1)]
  <2>1. Len(a) + 1 = i /\ Len(a) + Len(b) = Len(q) - 1
    BY <1>1, <1>2
  <2>2. a \o b \in Seq(S) /\ Len(a \o b) = Len(q) - 1
    <3>1. a \o b \in Seq(S) /\ Len(a \o b) = Len(a) + Len(b)
      BY <1>1, <1>2, ConcatElements, Zenon
    <3> QED
      BY <2>1, <3>1
  <2>3. \A j \in 1 .. i - 1 : (a \o b)[j] = a[j]
    BY <1>1, <1>2, ConcatElements
  <2>4. \A j \in Len(a) + 1 .. Len(a) + Len(b) : (a \o b)[j] = b[j - Len(a)]
    BY <1>1, <1>2, ConcatElements
  <2> QED
    BY <1>1, <2>1, <2>2, <2>3, <2>4
<1>4. \A j \in 1 .. Len(q) - 1 :
        j >= i => j - (i - 1) \in 1 .. Len(q) - i /\ j - (i - 1) + i = j + 1
  OBVIOUS
<1>5. \A j \in 1 .. Len(q) - 1 : j >= i => b[j - (i - 1)] = q[j + 1]
  BY <1>2, <1>4
<1>6. \A j \in 1 .. Len(q) - 1 : (a \o b)[j] = IF j < i THEN q[j] ELSE q[j + 1]
  BY <1>1, <1>3, <1>5
<1>7. RemoveAt(q, i) = a \o b
  BY DEF RemoveAt, a, b
<1>8. Removed(a \o b, q, i)
  BY <1>6, Zenon DEF Removed
<1> QED
  BY <1>3, <1>7, <1>8, Zenon

(* queue_remove of a queued element leaves a queue.                        *)
LEMMA QueueRemoveTyped ==
  ASSUME NEW S, NEW q \in Seq(S), NEW t \in Range(q)
  PROVE  QueueRemove(q, t) \in Seq(S) /\ q # <<>>
<1> DEFINE i == CHOOSE j \in DOMAIN q : q[j] = t
<1>1. \E j \in DOMAIN q : q[j] = t
  BY Zenon DEF Range
<1>2. i \in DOMAIN q /\ DOMAIN q = 1 .. Len(q)
  BY <1>1
<1>3. QueueRemove(q, t) = RemoveAt(q, i)
  BY Zenon DEF QueueRemove
<1> HIDE DEF i
<1>4. RemoveAt(q, i) \in Seq(S)
  BY <1>2, RemoveAtElements, Zenon
<1>5. q # <<>>
  BY <1>2
<1> QED
  BY <1>3, <1>4, <1>5, Zenon

(* queue_remove of a queued element takes that element off, and no other.  *)
LEMMA QueueRemoveFacts ==
  ASSUME NEW S, NEW q \in Seq(S), IsInjective(q), NEW t \in Range(q)
  PROVE  /\ QueueRemove(q, t) \in Seq(S)
         /\ Len(QueueRemove(q, t)) = Len(q) - 1
         /\ IsInjective(QueueRemove(q, t))
         /\ Range(QueueRemove(q, t)) = Range(q) \ {t}
         /\ \E i \in 1 .. Len(q) : q[i] = t /\ Removed(QueueRemove(q, t), q, i)
<1> DEFINE i == CHOOSE n \in DOMAIN q : q[n] = t
           r == RemoveAt(q, i)
<1>1. DOMAIN q = 1 .. Len(q) /\ Len(q) \in Nat
  OBVIOUS
<1>2. \E n \in DOMAIN q : q[n] = t
  BY DEF Range
<1>3. i \in 1 .. Len(q) /\ q[i] = t
  BY <1>1, <1>2
<1>4. \A a, b \in 1 .. Len(q) : q[a] = q[b] => a = b
  BY <1>1 DEF IsInjective
<1> HIDE DEF i
<1>10. r \in Seq(S) /\ Len(r) = Len(q) - 1 /\ Removed(r, q, i)
  BY <1>3, RemoveAtElements, Zenon
<1> HIDE DEF r
<1>5. /\ r \in Seq(S) /\ Len(r) = Len(q) - 1
      /\ \A j \in 1 .. Len(q) - 1 : r[j] = IF j < i THEN q[j] ELSE q[j + 1]
  BY <1>10 DEF Removed
<1>6. DOMAIN r = 1 .. Len(q) - 1
  BY <1>5
<1>7. IsInjective(r)
  <2> SUFFICES ASSUME NEW a \in 1 .. Len(q) - 1, NEW b \in 1 .. Len(q) - 1, r[a] = r[b]
               PROVE  a = b
    BY <1>6 DEF IsInjective
  <2> DEFINE f(n) == IF n < i THEN n ELSE n + 1
  <2>1. f(a) \in 1 .. Len(q) /\ f(b) \in 1 .. Len(q) /\ (f(a) = f(b) => a = b)
    BY <1>1, <1>3
  <2>2. r[a] = q[f(a)] /\ r[b] = q[f(b)]
    BY <1>5, Zenon
  <2> QED
    BY <2>1, <2>2, <1>4, Zenon
<1>8. Range(r) = Range(q) \ {t}
  <2>1. ASSUME NEW x \in Range(r) PROVE x \in Range(q) /\ x # t
    <3>1. PICK a \in 1 .. Len(q) - 1 : x = r[a]
      BY <1>6 DEF Range
    <3> DEFINE n == IF a < i THEN a ELSE a + 1
    <3>2. n \in 1 .. Len(q) /\ n # i
      BY <1>1, <1>3
    <3>3. x = q[n]
      BY <3>1, <1>5
    <3> HIDE DEF n
    <3> QED
      BY <3>2, <3>3, <1>1, <1>3, <1>4 DEF Range
  <2>2. ASSUME NEW x \in Range(q), x # t PROVE x \in Range(r)
    <3>1. PICK n \in 1 .. Len(q) : x = q[n]
      BY <1>1 DEF Range
    <3> DEFINE a == IF n < i THEN n ELSE n - 1
    <3>2. n # i
      BY <3>1, <2>2, <1>3
    <3>3. a \in 1 .. Len(q) - 1 /\ (a < i => a = n) /\ (~(a < i) => a + 1 = n)
      BY <3>2, <1>1, <1>3
    <3> HIDE DEF a
    <3>4. r[a] = x
      BY <3>1, <3>3, <1>5
    <3> QED
      BY <3>3, <3>4, <1>6 DEF Range
  <2> QED
    BY <2>1, <2>2
<1>9. QueueRemove(q, t) = r
  BY DEF QueueRemove, r, i
<1> QED
  BY <1>3, <1>10, <1>7, <1>8, <1>9, Zenon

(* An element put in anywhere is there, once, with those that were there.  *)
LEMMA InsertAtFacts ==
  ASSUME NEW S, NEW q \in Seq(S), IsInjective(q), NEW t \in S, t \notin Range(q),
         NEW i \in 1 .. Len(q) + 1
  PROVE  /\ InsertAt(q, i, t) \in Seq(S)
         /\ Len(InsertAt(q, i, t)) = Len(q) + 1
         /\ IsInjective(InsertAt(q, i, t))
         /\ Range(InsertAt(q, i, t)) = Range(q) \cup {t}
<1> DEFINE r == InsertAt(q, i, t)
<1>1. DOMAIN q = 1 .. Len(q) /\ Len(q) \in Nat /\ i \in Nat
  OBVIOUS
<1>3. \A a, b \in 1 .. Len(q) : q[a] = q[b] => a = b
  BY <1>1 DEF IsInjective
<1>4. r \in Seq(S) /\ Len(r) = Len(q) + 1 /\ Inserted(r, q, i, t)
  BY InsertAtElements, Zenon
<1> HIDE DEF r
<1>5. /\ r \in Seq(S) /\ Len(r) = Len(q) + 1
      /\ \A j \in 1 .. Len(q) + 1 :
           r[j] = IF j < i THEN q[j] ELSE IF j = i THEN t ELSE q[j - 1]
  BY <1>4 DEF Inserted
<1>6. DOMAIN r = 1 .. Len(q) + 1
  BY <1>5
<1> DEFINE f(n) == IF n < i THEN n ELSE n - 1
<1>7. \A n \in 1 .. Len(q) + 1 : n # i => f(n) \in 1 .. Len(q) /\ r[n] = q[f(n)]
  <2> SUFFICES ASSUME NEW n \in 1 .. Len(q) + 1, n # i
               PROVE  f(n) \in 1 .. Len(q) /\ r[n] = q[f(n)]
    OBVIOUS
  <2>1. f(n) \in 1 .. Len(q)
    BY <1>1
  <2>2. r[n] = q[f(n)]
    BY <1>5
  <2> QED
    BY <2>1, <2>2
<1>8. r[i] = t
  BY <1>5
<1>9. IsInjective(r)
  <2> SUFFICES ASSUME NEW a \in 1 .. Len(q) + 1, NEW b \in 1 .. Len(q) + 1, r[a] = r[b]
               PROVE  a = b
    BY <1>6 DEF IsInjective
  <2>1. \A n \in 1 .. Len(q) : q[n] # t
    BY <1>1 DEF Range
  <2>2. CASE a # i /\ b # i
    <3>1. q[f(a)] = q[f(b)] /\ f(a) \in 1 .. Len(q) /\ f(b) \in 1 .. Len(q)
      BY <2>2, <1>7
    <3>2. f(a) = f(b)
      BY <3>1, <1>3
    <3> QED
      BY <3>2, <2>2, <1>1
  <2>3. CASE a = i /\ b # i
    BY <2>3, <2>1, <1>7, <1>8
  <2>4. CASE a # i /\ b = i
    BY <2>4, <2>1, <1>7, <1>8
  <2> QED
    BY <2>2, <2>3, <2>4
<1>10. Range(r) = Range(q) \cup {t}
  <2>1. ASSUME NEW x \in Range(r) PROVE x \in Range(q) \cup {t}
    <3>1. PICK a \in 1 .. Len(q) + 1 : x = r[a]
      BY <1>6 DEF Range
    <3> HIDE DEF f
    <3> QED
      BY <3>1, <1>1, <1>7, <1>8 DEF Range
  <2>2. ASSUME NEW x \in Range(q) PROVE x \in Range(r)
    <3>1. PICK n \in 1 .. Len(q) : x = q[n]
      BY <1>1 DEF Range
    <3> DEFINE a == IF n < i THEN n ELSE n + 1
    <3>2. a \in 1 .. Len(q) + 1 /\ a # i /\ f(a) = n
      BY <1>1
    <3> HIDE DEF a, f
    <3> QED
      BY <3>1, <3>2, <1>6, <1>7 DEF Range
  <2>3. t \in Range(r)
    BY <1>6, <1>8 DEF Range
  <2> QED
    BY <2>1, <2>2, <2>3
<1> QED
  BY <1>5, <1>9, <1>10 DEF r

(* dequeue_head takes the first element off.                               *)
LEMMA TailFacts ==
  ASSUME NEW S, NEW q \in Seq(S), IsInjective(q), Len(q) > 0
  PROVE  /\ Head(q) \in Range(q)
         /\ Tail(q) \in Seq(S) /\ Len(Tail(q)) = Len(q) - 1
         /\ IsInjective(Tail(q))
         /\ Range(Tail(q)) = Range(q) \ {Head(q)}
         /\ Removed(Tail(q), q, 1)
<1> DEFINE r == Tail(q)
<1>1. DOMAIN q = 1 .. Len(q) /\ Len(q) \in Nat /\ Head(q) = q[1]
  OBVIOUS
<1>2. r \in Seq(S) /\ Len(r) = Len(q) - 1 /\ DOMAIN r = 1 .. Len(q) - 1
  OBVIOUS
<1>3. \A j \in 1 .. Len(q) - 1 : r[j] = q[j + 1] /\ j + 1 \in 1 .. Len(q)
  OBVIOUS
<1>4. \A a, b \in 1 .. Len(q) : q[a] = q[b] => a = b
  BY <1>1 DEF IsInjective
<1> HIDE DEF r
<1>5. IsInjective(r)
  <2> SUFFICES ASSUME NEW a \in 1 .. Len(q) - 1, NEW b \in 1 .. Len(q) - 1, r[a] = r[b]
               PROVE  a = b
    BY <1>2 DEF IsInjective
  <2>1. a + 1 = b + 1
    BY <1>3, <1>4
  <2> QED
    BY <2>1
<1>6. Range(r) = Range(q) \ {q[1]}
  <2>1. ASSUME NEW x \in Range(r) PROVE x \in Range(q) /\ x # q[1]
    <3>1. PICK a \in 1 .. Len(q) - 1 : x = r[a]
      BY <1>2 DEF Range
    <3>2. x = q[a + 1] /\ a + 1 \in 1 .. Len(q) /\ a + 1 # 1 /\ 1 \in 1 .. Len(q)
      BY <3>1, <1>1, <1>3
    <3> QED
      BY <3>2, <1>1, <1>4 DEF Range
  <2>2. ASSUME NEW x \in Range(q), x # q[1] PROVE x \in Range(r)
    <3>1. PICK n \in 1 .. Len(q) : x = q[n]
      BY <1>1 DEF Range
    <3>2. n - 1 \in 1 .. Len(q) - 1 /\ (n - 1) + 1 = n
      BY <3>1, <2>2
    <3>3. r[n - 1] = x
      BY <3>1, <3>2, <1>3
    <3> QED
      BY <3>2, <3>3, <1>2 DEF Range
  <2> QED
    BY <2>1, <2>2
<1>7. Head(q) \in Range(q)
  <2>1. 1 \in DOMAIN q
    BY <1>1
  <2> QED
    BY <2>1, <1>1 DEF Range
<1>8. Removed(r, q, 1)
  BY <1>3 DEF Removed
<1> QED
  BY <1>1, <1>2, <1>5, <1>6, <1>7, <1>8, Zenon DEF r

(* enqueue_tail puts a new element last.                                   *)
LEMMA AppendFacts ==
  ASSUME NEW S, NEW q \in Seq(S), IsInjective(q), NEW t \in S, t \notin Range(q)
  PROVE  /\ Append(q, t) \in Seq(S) /\ Len(Append(q, t)) = Len(q) + 1
         /\ IsInjective(Append(q, t))
         /\ Range(Append(q, t)) = Range(q) \cup {t}
<1> DEFINE r == Append(q, t)
<1>1. DOMAIN q = 1 .. Len(q) /\ Len(q) \in Nat
  OBVIOUS
<1>2. r \in Seq(S) /\ Len(r) = Len(q) + 1 /\ DOMAIN r = 1 .. Len(q) + 1
  OBVIOUS
<1>3. r[Len(q) + 1] = t /\ \A j \in 1 .. Len(q) : r[j] = q[j]
  OBVIOUS
<1> HIDE DEF r
<1>4. \A j \in 1 .. Len(q) : q[j] # t
  BY <1>1 DEF Range
<1>5. \A a, b \in 1 .. Len(q) : q[a] = q[b] => a = b
  BY <1>1 DEF IsInjective
<1>6. IsInjective(r)
  BY <1>1, <1>2, <1>3, <1>4, <1>5 DEF IsInjective
<1>7. Range(r) = Range(q) \cup {t}
  <2>1. ASSUME NEW x \in Range(r) PROVE x \in Range(q) \cup {t}
    BY <1>1, <1>2, <1>3 DEF Range
  <2>2. ASSUME NEW x \in Range(q) PROVE x \in Range(r)
    BY <1>1, <1>2, <1>3 DEF Range
  <2>3. t \in Range(r)
    BY <1>1, <1>2, <1>3 DEF Range
  <2> QED
    BY <2>1, <2>2, <2>3
<1> QED
  BY <1>2, <1>6, <1>7 DEF r

(* enqueue_head puts a new element first.                                  *)
LEMMA PushFacts ==
  ASSUME NEW S, NEW q \in Seq(S), IsInjective(q), NEW t \in S, t \notin Range(q)
  PROVE  /\ <<t>> \o q \in Seq(S) /\ IsInjective(<<t>> \o q)
         /\ Range(<<t>> \o q) = Range(q) \cup {t}
<1> DEFINE r == <<t>> \o q
<1>1. DOMAIN q = 1 .. Len(q) /\ Len(q) \in Nat
  OBVIOUS
<1>2. r \in Seq(S) /\ Len(r) = Len(q) + 1 /\ DOMAIN r = 1 .. Len(q) + 1
  OBVIOUS
<1>3. r[1] = t /\ \A j \in 1 .. Len(q) : r[j + 1] = q[j]
  OBVIOUS
<1> HIDE DEF r
<1>4. \A j \in 1 .. Len(q) : q[j] # t
  BY <1>1 DEF Range
<1>5. \A a, b \in 1 .. Len(q) : q[a] = q[b] => a = b
  BY <1>1 DEF IsInjective
<1>6. \A j \in 1 .. Len(q) + 1 : j = 1 \/ (j - 1 \in 1 .. Len(q) /\ r[j] = q[j - 1])
  <2> TAKE j \in 1 .. Len(q) + 1
  <2>1. j = 1 \/ (j - 1 \in 1 .. Len(q) /\ (j - 1) + 1 = j)
    BY <1>1
  <2> QED
    BY <2>1, <1>3
<1>7. IsInjective(r)
  <2> SUFFICES ASSUME NEW a \in 1 .. Len(q) + 1, NEW b \in 1 .. Len(q) + 1, r[a] = r[b]
               PROVE  a = b
    BY <1>2 DEF IsInjective
  <2>1. CASE a = 1 \/ b = 1
    BY <2>1, <1>3, <1>4, <1>6
  <2>2. CASE a # 1 /\ b # 1
    <3>1. a - 1 = b - 1
      BY <2>2, <1>5, <1>6
    <3> QED
      BY <3>1
  <2> QED
    BY <2>1, <2>2
<1>8. Range(r) = Range(q) \cup {t}
  <2>1. ASSUME NEW x \in Range(r) PROVE x \in Range(q) \cup {t}
    <3>1. PICK j \in 1 .. Len(q) + 1 : x = r[j]
      BY <1>2 DEF Range
    <3> QED
      BY <3>1, <1>1, <1>3, <1>6, Zenon DEF Range
  <2>2. ASSUME NEW x \in Range(q) PROVE x \in Range(r)
    <3>1. PICK j \in 1 .. Len(q) : x = q[j]
      BY <1>1 DEF Range
    <3>2. j + 1 \in DOMAIN r
      BY <1>1, <1>2
    <3> QED
      BY <3>1, <3>2, <1>3 DEF Range
  <2>3. t \in Range(r)
    BY <1>1, <1>2, <1>3 DEF Range
  <2> QED
    BY <2>1, <2>2, <2>3
<1> QED
  BY <1>2, <1>7, <1>8 DEF r

(* The first elements of a queue and the others share it out.              *)
LEMMA SplitFacts ==
  ASSUME NEW S, NEW q \in Seq(S), IsInjective(q), NEW k \in 0 .. Len(q)
  PROVE  LET a == SubSeq(q, 1, k)
             b == SubSeq(q, k + 1, Len(q))
         IN /\ a \in Seq(S) /\ b \in Seq(S) /\ Len(a) = k /\ Len(b) = Len(q) - k
            /\ IsInjective(a) /\ IsInjective(b)
            /\ Range(a) \cup Range(b) = Range(q) /\ Range(a) \cap Range(b) = {}
<1> DEFINE a == SubSeq(q, 1, k)
           b == SubSeq(q, k + 1, Len(q))
<1>1. DOMAIN q = 1 .. Len(q) /\ Len(q) \in Nat /\ k \in Nat
  OBVIOUS
<1>2. /\ a \in Seq(S) /\ Len(a) = k /\ DOMAIN a = 1 .. k
      /\ \A j \in 1 .. k : a[j] = q[j] /\ j \in 1 .. Len(q)
  OBVIOUS
<1>3. /\ b \in Seq(S) /\ Len(b) = Len(q) - k /\ DOMAIN b = 1 .. Len(q) - k
      /\ \A j \in 1 .. Len(q) - k : b[j] = q[j + k] /\ j + k \in 1 .. Len(q)
  OBVIOUS
<1> HIDE DEF a, b
<1>4. \A i, j \in 1 .. Len(q) : q[i] = q[j] => i = j
  BY <1>1 DEF IsInjective
<1>5. IsInjective(a)
  BY <1>2, <1>4 DEF IsInjective
<1>6. IsInjective(b)
  <2> SUFFICES ASSUME NEW i \in 1 .. Len(q) - k, NEW j \in 1 .. Len(q) - k, b[i] = b[j]
               PROVE  i = j
    BY <1>3 DEF IsInjective
  <2>1. i + k = j + k
    BY <1>3, <1>4
  <2> QED
    BY <2>1
<1>7. Range(a) = {q[j] : j \in 1 .. k}
  BY <1>2 DEF Range
<1>8. Range(b) = {q[j] : j \in k + 1 .. Len(q)}
  <2>1. ASSUME NEW x \in Range(b) PROVE \E j \in k + 1 .. Len(q) : x = q[j]
    <3>1. PICK j \in 1 .. Len(q) - k : x = b[j]
      BY <1>3 DEF Range
    <3>2. j + k \in k + 1 .. Len(q)
      OBVIOUS
    <3> QED
      BY <3>1, <3>2, <1>3
  <2>2. ASSUME NEW j \in k + 1 .. Len(q) PROVE q[j] \in Range(b)
    <3>1. j - k \in 1 .. Len(q) - k /\ (j - k) + k = j
      OBVIOUS
    <3>2. b[j - k] = q[j]
      BY <3>1, <1>3
    <3> QED
      BY <3>1, <3>2, <1>3 DEF Range
  <2> QED
    BY <2>1, <2>2
<1>9. Range(q) = {q[j] : j \in 1 .. Len(q)}
  BY <1>1 DEF Range
<1>10. Range(a) \cup Range(b) = Range(q)
  <2>1. \A j \in 1 .. Len(q) : j \in 1 .. k \/ j \in k + 1 .. Len(q)
    OBVIOUS
  <2>2. \A j \in 1 .. k : j \in 1 .. Len(q)
    OBVIOUS
  <2>3. \A j \in k + 1 .. Len(q) : j \in 1 .. Len(q)
    OBVIOUS
  <2> QED
    BY <1>7, <1>8, <1>9, <2>1, <2>2, <2>3, Zenon
<1>11. Range(a) \cap Range(b) = {}
  <2> SUFFICES ASSUME NEW i \in 1 .. k, NEW j \in k + 1 .. Len(q), q[i] = q[j] PROVE FALSE
    BY <1>7, <1>8
  <2>1. i \in 1 .. Len(q) /\ j \in 1 .. Len(q) /\ i # j
    OBVIOUS
  <2> QED
    BY <2>1, <1>4
<1> QED
  BY <1>2, <1>3, <1>5, <1>6, <1>10, <1>11, Zenon DEF a, b
=============================================================================
