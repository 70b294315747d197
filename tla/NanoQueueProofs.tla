-------------------------- MODULE NanoQueueProofs ---------------------------
(***************************************************************************)
(* The message queues of v0-nano, for any number of tasks, queues, items   *)
(* and places.  The ring buffers are bounded queues, whatever the kernel   *)
(* does.  When calls wait for ever, tasks are created before the start and *)
(* used as NanoKernelProofs asks, no wakeup is lost: while receivers wait, *)
(* a signalled one is on its way for every item, and while senders wait,   *)
(* for every free place.                                                   *)
(***************************************************************************)
EXTENDS NanoQueue, NanoKernelProofs

-----------------------------------------------------------------------------
(* A ring of Capacity places b that holds n items from place h on.         *)

Places1 == 0..Capacity - 1
Wrapped(i) == IF i < Capacity THEN i ELSE i - Capacity
Ring(b, h, n) == [i \in 1..n |-> b[Wrapped(h + i - 1)]]

LEMMA Remainder == \A a \in 0..2 * Capacity - 1 : a % Capacity = Wrapped(a)
<1>1. SUFFICES ASSUME NEW c \in Nat \ {0}, NEW a \in 0..2 * c - 1
               PROVE  a % c = IF a < c THEN a ELSE a - c
  BY QueueAssumption DEF Wrapped
<1>2. QED OBVIOUS

LEMMA RingIsSeq ==
  ASSUME NEW b \in [Places1 -> Items], NEW h \in Places1, NEW n \in 0..Capacity
  PROVE  /\ Ring(b, h, n) \in Seq(Items) /\ Len(Ring(b, h, n)) = n
         /\ \A i \in 1..n : /\ Wrapped(h + i - 1) \in Places1
                            /\ Ring(b, h, n)[i] = b[Wrapped(h + i - 1)]
<1>1. n \in Nat /\ Capacity \in Nat \ {0}
  BY QueueAssumption
<1>2. ASSUME NEW i \in 1..n PROVE Wrapped(h + i - 1) \in Places1
  BY <1>1, <1>2 DEF Wrapped, Places1
<1>3. Ring(b, h, n) \in [1..n -> Items]
  BY <1>2 DEF Ring
<1>4. Ring(b, h, n) \in Seq(Items)
  BY <1>1, <1>3, SeqDef
<1>5. Len(Ring(b, h, n)) = n
  <2>1. DOMAIN Ring(b, h, n) = 1..n
    BY DEF Ring
  <2>2. Len(Ring(b, h, n)) \in Nat /\ DOMAIN Ring(b, h, n) = 1..Len(Ring(b, h, n))
    BY <1>4, LenProperties
  <2>3. QED BY <1>1, <2>1, <2>2
<1>6. QED BY <1>2, <1>4, <1>5 DEF Ring

LEMMA RingAppends ==
  ASSUME NEW b \in [Places1 -> Items], NEW h \in Places1, NEW n \in 0..Capacity - 1,
         NEW item \in Items
  PROVE  Ring([b EXCEPT ![Wrapped(h + n)] = item], h, n + 1) = Append(Ring(b, h, n), item)
<1> DEFINE k == Wrapped(h + n)
           c == [b EXCEPT ![k] = item]
           s == Ring(b, h, n)
           r == Ring(c, h, n + 1)
<1>1. Capacity \in Nat \ {0} /\ n \in 0..Capacity /\ n + 1 \in 0..Capacity /\ h \in Nat
  BY QueueAssumption DEF Places1
<1>2. k \in Places1
  BY <1>1 DEF Wrapped, Places1
<1>3. c \in [Places1 -> Items] /\ c[k] = item /\ \A i \in Places1 : i # k => c[i] = b[i]
  BY <1>2
<1> HIDE DEF k, c
<1>4. /\ r \in Seq(Items) /\ Len(r) = n + 1
      /\ \A i \in 1..n + 1 : Wrapped(h + i - 1) \in Places1 /\ r[i] = c[Wrapped(h + i - 1)]
  BY <1>1, <1>3, RingIsSeq
<1>5. /\ s \in Seq(Items) /\ Len(s) = n
      /\ \A i \in 1..n : Wrapped(h + i - 1) \in Places1 /\ s[i] = b[Wrapped(h + i - 1)]
  BY <1>1, RingIsSeq
<1> HIDE DEF s, r
<1>6. /\ Append(s, item) \in Seq(Items) /\ Len(Append(s, item)) = n + 1
      /\ \A i \in 1..n : Append(s, item)[i] = s[i]
      /\ Append(s, item)[n + 1] = item
  BY <1>1, <1>5, AppendProperties
<1>7. ASSUME NEW i \in 1..n + 1 PROVE r[i] = Append(s, item)[i]
  <2>1. CASE i = n + 1
    <3>1. h + i - 1 = h + n
      BY <1>1, <2>1
    <3>2. r[i] = c[k]
      BY <1>4, <3>1 DEF k
    <3>3. QED BY <1>3, <1>6, <2>1, <3>2
  <2>2. CASE i \in 1..n
    <3>1. Wrapped(h + i - 1) # k
      BY <1>1, <2>2 DEF k, Wrapped, Places1
    <3>2. QED BY <1>3, <1>4, <1>5, <1>6, <2>2, <3>1
  <2>3. i = n + 1 \/ i \in 1..n
    BY <1>1
  <2>4. QED BY <2>1, <2>2, <2>3
<1>8. r = Append(s, item)
  BY <1>4, <1>6, <1>7, SeqEqual
<1>9. QED BY <1>8 DEF r, s, c, k

LEMMA RingPrepends ==
  ASSUME NEW b \in [Places1 -> Items], NEW h \in Places1, NEW n \in 0..Capacity - 1,
         NEW item \in Items
  PROVE  Ring([b EXCEPT ![Previous1(h)] = item], Previous1(h), n + 1) = <<item>> \o Ring(b, h, n)
<1> DEFINE k == Previous1(h)
           c == [b EXCEPT ![k] = item]
           s == Ring(b, h, n)
           r == Ring(c, k, n + 1)
<1>1. Capacity \in Nat \ {0} /\ n \in 0..Capacity /\ n + 1 \in 0..Capacity /\ h \in Nat
  BY QueueAssumption DEF Places1
<1>2. k \in Places1
  BY <1>1 DEF Previous1, Places1
<1>3. c \in [Places1 -> Items] /\ c[k] = item /\ \A i \in Places1 : i # k => c[i] = b[i]
  BY <1>2
<1> HIDE DEF k, c
<1>4. /\ r \in Seq(Items) /\ Len(r) = n + 1
      /\ \A i \in 1..n + 1 : Wrapped(k + i - 1) \in Places1 /\ r[i] = c[Wrapped(k + i - 1)]
  BY <1>1, <1>2, <1>3, RingIsSeq
<1>5. /\ s \in Seq(Items) /\ Len(s) = n
      /\ \A i \in 1..n : Wrapped(h + i - 1) \in Places1 /\ s[i] = b[Wrapped(h + i - 1)]
  BY <1>1, RingIsSeq
<1> HIDE DEF s, r
<1>6. /\ <<item>> \o s \in Seq(Items) /\ Len(<<item>> \o s) = n + 1
      /\ (<<item>> \o s)[1] = item
      /\ \A i \in 2..n + 1 : (<<item>> \o s)[i] = s[i - 1]
  <2>1. <<item>> \in Seq(Items) /\ Len(<<item>>) = 1 /\ <<item>>[1] = item
    OBVIOUS
  <2>2. /\ <<item>> \o s \in Seq(Items)
        /\ Len(<<item>> \o s) = Len(<<item>>) + Len(s)
        /\ \A i \in 1 .. Len(<<item>>) + Len(s) :
             (<<item>> \o s)[i] = IF i <= Len(<<item>>) THEN <<item>>[i] ELSE s[i - Len(<<item>>)]
    BY <1>5, <2>1, ConcatProperties
  <2>3. QED BY <1>1, <1>5, <2>1, <2>2
<1>7. ASSUME NEW i \in 1..n + 1 PROVE r[i] = (<<item>> \o s)[i]
  <2>1. CASE i = 1
    <3>1. Wrapped(k + i - 1) = k
      BY <1>1, <1>2, <2>1 DEF Wrapped, Places1
    <3>2. QED BY <1>3, <1>4, <1>6, <2>1, <3>1
  <2>2. CASE i \in 2..n + 1
    <3>1. Wrapped(k + i - 1) # k /\ Wrapped(k + i - 1) = Wrapped(h + (i - 1) - 1)
      BY <1>1, <2>2 DEF k, Previous1, Wrapped, Places1
    <3>2. i - 1 \in 1..n
      BY <1>1, <2>2
    <3>3. r[i] = b[Wrapped(h + (i - 1) - 1)]
      BY <1>3, <1>4, <2>2, <3>1
    <3>4. s[i - 1] = b[Wrapped(h + (i - 1) - 1)]
      BY <1>5, <3>2
    <3>5. QED BY <1>6, <2>2, <3>3, <3>4
  <2>3. i = 1 \/ i \in 2..n + 1
    BY <1>1
  <2>4. QED BY <2>1, <2>2, <2>3
<1>8. r = <<item>> \o s
  BY <1>4, <1>6, <1>7, SeqEqual
<1>9. QED BY <1>8 DEF r, s, c, k

LEMMA RingDrops ==
  ASSUME NEW b \in [Places1 -> Items], NEW h \in Places1, NEW n \in 1..Capacity
  PROVE  /\ Ring(b, h, n) # <<>> /\ Head(Ring(b, h, n)) = b[h]
         /\ Ring(b, Wrapped(h + 1), n - 1) = Tail(Ring(b, h, n))
<1> DEFINE k == Wrapped(h + 1)
           s == Ring(b, h, n)
           r == Ring(b, k, n - 1)
<1>1. Capacity \in Nat \ {0} /\ n \in 0..Capacity /\ n - 1 \in 0..Capacity /\ h \in Nat
  BY QueueAssumption DEF Places1
<1>2. k \in Places1
  BY <1>1 DEF Wrapped, Places1
<1> HIDE DEF k
<1>3. /\ s \in Seq(Items) /\ Len(s) = n
      /\ \A i \in 1..n : Wrapped(h + i - 1) \in Places1 /\ s[i] = b[Wrapped(h + i - 1)]
  BY <1>1, RingIsSeq
<1>4. /\ r \in Seq(Items) /\ Len(r) = n - 1
      /\ \A i \in 1..n - 1 : Wrapped(k + i - 1) \in Places1 /\ r[i] = b[Wrapped(k + i - 1)]
  BY <1>1, <1>2, RingIsSeq
<1> HIDE DEF s, r
<1>5. s # <<>>
  BY <1>1, <1>3, EmptySeq
<1>6. Head(s) = b[h]
  <2>1. s[1] = b[Wrapped(h + 1 - 1)] /\ h + 1 - 1 = h
    BY <1>1, <1>3
  <2>2. Wrapped(h) = h
    BY <1>1 DEF Wrapped, Places1
  <2>3. Head(s) = s[1]
    BY <1>3, <1>5
  <2>4. QED BY <2>1, <2>2, <2>3
<1>7. /\ Tail(s) \in Seq(Items) /\ Len(Tail(s)) = n - 1
      /\ \A i \in 1..n - 1 : Tail(s)[i] = s[i + 1]
  BY <1>3, <1>5, HeadTailProperties
<1>8. ASSUME NEW i \in 1..n - 1 PROVE r[i] = Tail(s)[i]
  <2>1. i + 1 \in 1..n /\ i \in Nat
    BY <1>1
  <2>2. Wrapped(k + i - 1) = Wrapped(h + (i + 1) - 1)
    BY <1>1, <2>1 DEF k, Wrapped, Places1
  <2>3. QED BY <1>3, <1>4, <1>7, <2>1, <2>2
<1>9. r = Tail(s)
  BY <1>4, <1>7, <1>8, SeqEqual
<1>10. QED BY <1>5, <1>6, <1>9 DEF r, s, k
-----------------------------------------------------------------------------
(* The ring buffers implement BoundedFifo, whatever the kernel does.       *)

Rings ==
  /\ buffer \in [Queues -> [Places1 -> Items]]
  /\ head \in [Queues -> Places1] /\ tail \in [Queues -> Places1]
  /\ count \in [Queues -> 0..Capacity]
  /\ message \in [Tasks -> Items] /\ delivered \in [Queues -> Items]
  /\ \A q \in Queues : tail[q] = Wrapped(head[q] + count[q])

Held == [q \in Queues |-> Contents(q)]

LEMMA ContentsAreRing ==
  ASSUME Rings, NEW q \in Queues
  PROVE  Held[q] = Ring(buffer[q], head[q], count[q])
<1>1. head[q] \in 0..Capacity - 1 /\ count[q] \in 0..Capacity /\ Capacity \in Nat \ {0}
  BY QueueAssumption DEF Rings, Places1
<1>2. ASSUME NEW i \in 1..count[q]
      PROVE  (head[q] + i - 1) % Capacity = Wrapped(head[q] + i - 1)
  <2>1. head[q] + i - 1 \in 0..2 * Capacity - 1
    BY <1>1
  <2>2. QED BY <2>1, Remainder
<1>3. QED BY <1>2 DEF Held, Contents, Ring

(* The next place and the one before. *)
LEMMA NextPlace ==
  ASSUME NEW i \in Places1
  PROVE  /\ Next1(i) = Wrapped(i + 1) /\ Next1(i) \in Places1 /\ Previous1(i) \in Places1
         /\ \A n \in 0..Capacity - 1 :
              /\ Next1(Wrapped(i + n)) = Wrapped(i + (n + 1))
              /\ Wrapped(Previous1(i) + (n + 1)) = Wrapped(i + n)
              /\ Wrapped(Next1(i) + n) = Wrapped(i + (n + 1))
         /\ Wrapped(i + 0) = i
<1>1. Capacity \in Nat \ {0} /\ i \in 0..Capacity - 1
  BY QueueAssumption DEF Places1
<1>2. ASSUME NEW k \in Places1 PROVE Next1(k) = Wrapped(k + 1)
  <2>1. k + 1 \in 0..2 * Capacity - 1
    BY <1>1 DEF Places1
  <2>2. QED BY <2>1, Remainder DEF Next1
<1>3. Next1(i) = Wrapped(i + 1) /\ Next1(i) \in Places1 /\ Previous1(i) \in Places1
  BY <1>1, <1>2 DEF Wrapped, Previous1, Places1
<1>4. ASSUME NEW n \in 0..Capacity - 1
      PROVE  /\ Next1(Wrapped(i + n)) = Wrapped(i + (n + 1))
             /\ Wrapped(Previous1(i) + (n + 1)) = Wrapped(i + n)
             /\ Wrapped(Next1(i) + n) = Wrapped(i + (n + 1))
  <2>1. Wrapped(i + n) \in Places1
    BY <1>1 DEF Wrapped, Places1
  <2>2. Next1(Wrapped(i + n)) = Wrapped(Wrapped(i + n) + 1)
    BY <1>2, <2>1
  <2>3. Wrapped(Wrapped(i + n) + 1) = Wrapped(i + (n + 1))
    BY <1>1 DEF Wrapped
  <2>4. Wrapped(Previous1(i) + (n + 1)) = Wrapped(i + n)
    BY <1>1 DEF Wrapped, Previous1
  <2>5. Wrapped(Wrapped(i + 1) + n) = Wrapped(i + (n + 1))
    BY <1>1 DEF Wrapped
  <2>6. QED BY <1>3, <2>2, <2>3, <2>4, <2>5
<1>5. Wrapped(i + 0) = i
  BY <1>1 DEF Wrapped
<1>6. QED BY <1>3, <1>4, <1>5

(* What the calls do to the rings. *)
Deposited(q, item) ==
  /\ count[q] < Capacity
  /\ buffer' = [buffer EXCEPT ![q][tail[q]] = item]
  /\ tail' = [tail EXCEPT ![q] = Next1(@)]
  /\ count' = [count EXCEPT ![q] = @ + 1]
  /\ UNCHANGED <<head, message, delivered>>
DepositedFront(q, item) ==
  /\ count[q] < Capacity
  /\ head' = [head EXCEPT ![q] = Previous1(@)]
  /\ buffer' = [buffer EXCEPT ![q][head'[q]] = item]
  /\ count' = [count EXCEPT ![q] = @ + 1]
  /\ UNCHANGED <<tail, message, delivered>>
Withdrawn(q) ==
  /\ count[q] > 0
  /\ delivered' = [delivered EXCEPT ![q] = buffer[q][head[q]]]
  /\ head' = [head EXCEPT ![q] = Next1(@)]
  /\ count' = [count EXCEPT ![q] = @ - 1]
  /\ UNCHANGED <<buffer, tail, message>>
Peeked(q) ==
  /\ count[q] > 0
  /\ delivered' = [delivered EXCEPT ![q] = buffer[q][head[q]]]
  /\ UNCHANGED <<ringVars, message>>
Emptied(q) ==
  /\ count' = [count EXCEPT ![q] = 0]
  /\ head' = [head EXCEPT ![q] = 0]
  /\ tail' = [tail EXCEPT ![q] = 0]
  /\ UNCHANGED <<buffer, message, delivered>>
Kept == /\ UNCHANGED <<ringVars, delivered>>
        /\ UNCHANGED message \/ \E t \in Tasks, item \in Items : message' = [message EXCEPT ![t] = item]

RingStep == \/ Kept
            \/ \E q \in Queues : \/ Withdrawn(q) \/ Peeked(q) \/ Emptied(q)
                                 \/ \E item \in Items : Deposited(q, item) \/ DepositedFront(q, item)

LEMMA CallsMoveRings ==
  ASSUME Rings, [QueueNext]_vars PROVE RingStep
<1>1. CASE KernelNext /\ UNCHANGED queueVars
  BY <1>1 DEF queueVars, RingStep, Kept
<1>2. CASE UNCHANGED vars
  BY <1>2 DEF vars, queueVars, RingStep, Kept
<1>3. ASSUME NEW t \in Tasks, SendCheck(t) \/ RecvCheck(t) PROVE RingStep
  BY <1>3 DEF SendCheck, RecvCheck, QueueCheck, queueVars, RingStep, Kept
<1>4. ASSUME NEW t \in Tasks, NEW q \in Queues, NEW item \in Items, QueueSend(t, q, item)
      PROVE  RingStep
  <2>1. Deposit(t, q, item) => Deposited(q, item)
    BY DEF Deposit, Deposited
  <2>2. ~Deposit(t, q, item) => Kept
    BY <1>4 DEF QueueSend, Kept
  <2>3. QED BY <2>1, <2>2 DEF RingStep
<1>5. ASSUME NEW t \in Tasks, NEW q \in Queues, NEW item \in Items, QueueSendFront(t, q, item)
      PROVE  RingStep
  <2>1. DepositedFront(q, item) \/ Kept
    BY <1>5 DEF QueueSendFront, DepositedFront, Kept
  <2>2. QED BY <2>1 DEF RingStep
<1>6. ASSUME NEW t \in Tasks, NEW q \in Queues, QueueReceive(t, q) PROVE RingStep
  <2>1. Withdrawn(q) \/ Kept
    BY <1>6 DEF QueueReceive, Withdraw, Withdrawn, queueVars, Kept
  <2>2. QED BY <2>1 DEF RingStep
<1>7. ASSUME NEW t \in Tasks, NEW q \in Queues, SendRetry(t, q) PROVE RingStep
  <2>1. message[t] \in Items
    BY DEF Rings
  <2>2. Deposited(q, message[t]) \/ Kept
    BY <1>7 DEF SendRetry, Deposit, Deposited, queueVars, Kept
  <2>3. QED BY <2>1, <2>2 DEF RingStep
<1>8. ASSUME NEW t \in Tasks, NEW q \in Queues, RecvRetry(t, q) PROVE RingStep
  <2>1. Withdrawn(q) \/ Kept
    BY <1>8 DEF RecvRetry, Withdraw, Withdrawn, queueVars, Kept
  <2>2. QED BY <2>1 DEF RingStep
<1>9. ASSUME NEW t \in Tasks, NEW q \in Queues, QueuePeek(t, q) PROVE RingStep
  BY <1>9 DEF QueuePeek, Peeked, RingStep
<1>10. ASSUME NEW t \in Tasks, NEW q \in Queues, QueueReset(t, q) PROVE RingStep
  BY <1>10 DEF QueueReset, Emptied, RingStep
<1>11. QED BY <1>1, <1>2, <1>3, <1>4, <1>5, <1>6, <1>7, <1>8, <1>9, <1>10 DEF QueueNext, QueueStep

LEMMA OneRingMoves ==
  ASSUME Rings, Rings', NEW q \in Queues,
         \A p \in Queues \ {q} : /\ buffer'[p] = buffer[p] /\ head'[p] = head[p]
                                 /\ count'[p] = count[p],
         NEW s, Ring(buffer'[q], head'[q], count'[q]) = s
  PROVE  Held' = [Held EXCEPT ![q] = s]
<1>1. ASSUME NEW p \in Queues PROVE Held'[p] = Ring(buffer'[p], head'[p], count'[p])
  <2>1. head'[p] \in 0..Capacity - 1 /\ count'[p] \in 0..Capacity /\ Capacity \in Nat \ {0}
    BY QueueAssumption DEF Rings, Places1
  <2>2. ASSUME NEW i \in 1..count'[p]
        PROVE  (head'[p] + i - 1) % Capacity = Wrapped(head'[p] + i - 1)
    <3>1. head'[p] + i - 1 \in 0..2 * Capacity - 1
      BY <2>1
    <3>2. QED BY <3>1, Remainder
  <2>3. QED BY <2>2 DEF Held, Contents, Ring
<1>2. \A p \in Queues : Held[p] = Ring(buffer[p], head[p], count[p])
  BY ContentsAreRing
<1>3. \A p \in Queues : Held'[p] = IF p = q THEN s ELSE Held[p]
  BY <1>1, <1>2
<1>4. QED BY <1>3 DEF Held
LEMMA RingTypes ==
  ASSUME Rings, NEW q \in Queues
  PROVE  /\ Capacity \in Nat \ {0} /\ 0 \in Places1
         /\ buffer[q] \in [Places1 -> Items] /\ head[q] \in Places1 /\ tail[q] \in Places1
         /\ count[q] \in 0..Capacity /\ tail[q] = Wrapped(head[q] + count[q])
         /\ Len(Held[q]) = count[q] /\ Held[q] = Ring(buffer[q], head[q], count[q])
<1>1. /\ Capacity \in Nat \ {0} /\ 0 \in Places1
      /\ buffer[q] \in [Places1 -> Items] /\ head[q] \in Places1 /\ tail[q] \in Places1
      /\ count[q] \in 0..Capacity /\ tail[q] = Wrapped(head[q] + count[q])
  BY QueueAssumption DEF Rings, Places1
<1>2. Held[q] = Ring(buffer[q], head[q], count[q])
  BY ContentsAreRing
<1>3. Len(Ring(buffer[q], head[q], count[q])) = count[q]
  <2>1. /\ buffer[q] \in [Places1 -> Items] /\ head[q] \in Places1
        /\ count[q] \in 0..Capacity
    BY <1>1
  <2>2. QED BY <2>1, RingIsSeq
<1>4. QED BY <1>1, <1>2, <1>3

LEMMA DepositSends ==
  ASSUME Rings, NEW q \in Queues, NEW item \in Items, Deposited(q, item)
  PROVE  Rings' /\ Fifo!Send(q, item)
<1>1. /\ Capacity \in Nat \ {0}
      /\ buffer[q] \in [Places1 -> Items] /\ head[q] \in Places1 /\ tail[q] \in Places1
      /\ count[q] \in 0..Capacity - 1 /\ tail[q] = Wrapped(head[q] + count[q])
      /\ Len(Held[q]) = count[q] /\ Held[q] = Ring(buffer[q], head[q], count[q])
  BY RingTypes DEF Deposited
<1>2. /\ buffer'[q] = [buffer[q] EXCEPT ![Wrapped(head[q] + count[q])] = item]
      /\ tail'[q] = Next1(tail[q]) /\ count'[q] = count[q] + 1 /\ head'[q] = head[q]
      /\ \A p \in Queues \ {q} : /\ buffer'[p] = buffer[p] /\ head'[p] = head[p]
                                 /\ count'[p] = count[p] /\ tail'[p] = tail[p]
  BY <1>1 DEF Deposited, Rings
<1>3. Ring(buffer'[q], head'[q], count'[q]) = Append(Held[q], item)
  <2>1. /\ buffer[q] \in [Places1 -> Items] /\ head[q] \in Places1
        /\ count[q] \in 0..Capacity - 1
    BY <1>1
  <2>2. Ring([buffer[q] EXCEPT ![Wrapped(head[q] + count[q])] = item], head[q], count[q] + 1)
           = Append(Ring(buffer[q], head[q], count[q]), item)
    BY <2>1, RingAppends
  <2>3. QED BY <1>1, <1>2, <2>2
<1>4. Rings'
  <2>1. tail'[q] = Wrapped(head[q] + (count[q] + 1)) /\ tail'[q] \in Places1
    <3>1. head[q] \in Places1 /\ tail[q] \in Places1 /\ count[q] \in 0..Capacity - 1
      BY <1>1
    <3>2. Next1(Wrapped(head[q] + count[q])) = Wrapped(head[q] + (count[q] + 1))
      BY <3>1, NextPlace
    <3>3. Next1(tail[q]) \in Places1
      BY <3>1, NextPlace
    <3>4. QED BY <1>1, <1>2, <3>2, <3>3
  <2>2. \A p \in Queues : tail'[p] = Wrapped(head'[p] + count'[p])
    BY <1>2, <2>1 DEF Rings
  <2>3. buffer' \in [Queues -> [Places1 -> Items]]
    BY <1>1, <1>2 DEF Deposited, Rings
  <2>4. tail' \in [Queues -> Places1]
    BY <1>2, <2>1 DEF Deposited, Rings
  <2>5. count' \in [Queues -> 0..Capacity]
    <3>1. count[q] + 1 \in 0..Capacity
      BY <1>1
    <3>2. QED BY <3>1 DEF Deposited, Rings
  <2>6. UNCHANGED <<head, message, delivered>>
    BY DEF Deposited
  <2>7. QED BY <2>2, <2>3, <2>4, <2>5, <2>6 DEF Rings
<1>5. Held' = [Held EXCEPT ![q] = Append(Held[q], item)]
  BY <1>2, <1>3, <1>4, OneRingMoves
<1>6. Len(Held[q]) < Capacity /\ delivered' = delivered
  BY <1>1 DEF Deposited
<1>7. QED BY <1>4, <1>5, <1>6 DEF Fifo!Send, Held

LEMMA FrontSends ==
  ASSUME Rings, NEW q \in Queues, NEW item \in Items, DepositedFront(q, item)
  PROVE  Rings' /\ Fifo!SendFront(q, item)
<1>1. /\ Capacity \in Nat \ {0}
      /\ buffer[q] \in [Places1 -> Items] /\ head[q] \in Places1 /\ tail[q] \in Places1
      /\ count[q] \in 0..Capacity - 1 /\ tail[q] = Wrapped(head[q] + count[q])
      /\ Len(Held[q]) = count[q] /\ Held[q] = Ring(buffer[q], head[q], count[q])
  BY RingTypes DEF DepositedFront
<1>2. head'[q] = Previous1(head[q]) /\ head'[q] \in Places1
  BY <1>1, NextPlace DEF DepositedFront, Rings
<1>3. /\ buffer'[q] = [buffer[q] EXCEPT ![head'[q]] = item]
      /\ tail'[q] = tail[q] /\ count'[q] = count[q] + 1
      /\ \A p \in Queues \ {q} : /\ buffer'[p] = buffer[p] /\ head'[p] = head[p]
                                 /\ count'[p] = count[p] /\ tail'[p] = tail[p]
  BY <1>1, <1>2 DEF DepositedFront, Rings
<1>4. Ring(buffer'[q], head'[q], count'[q]) = <<item>> \o Held[q]
  <2>1. /\ buffer[q] \in [Places1 -> Items] /\ head[q] \in Places1
        /\ count[q] \in 0..Capacity - 1
    BY <1>1
  <2>2. Ring([buffer[q] EXCEPT ![Previous1(head[q])] = item], Previous1(head[q]), count[q] + 1)
           = <<item>> \o Ring(buffer[q], head[q], count[q])
    BY <2>1, RingPrepends
  <2>3. QED BY <1>1, <1>2, <1>3, <2>2
<1>5. Rings'
  <2>1. tail'[q] = Wrapped(head'[q] + (count[q] + 1))
    BY <1>1, <1>2, <1>3, NextPlace
  <2>2. \A p \in Queues : tail'[p] = Wrapped(head'[p] + count'[p])
    BY <1>3, <2>1 DEF Rings
  <2>3. buffer' \in [Queues -> [Places1 -> Items]]
    BY <1>2 DEF DepositedFront, Rings
  <2>4. head' \in [Queues -> Places1]
    BY <1>2, <1>3 DEF DepositedFront, Rings
  <2>5. count' \in [Queues -> 0..Capacity]
    <3>1. count[q] + 1 \in 0..Capacity
      BY <1>1
    <3>2. QED BY <3>1 DEF DepositedFront, Rings
  <2>6. UNCHANGED <<tail, message, delivered>>
    BY DEF DepositedFront
  <2>7. QED BY <2>2, <2>3, <2>4, <2>5, <2>6 DEF Rings
<1>6. Held' = [Held EXCEPT ![q] = <<item>> \o Held[q]]
  BY <1>3, <1>4, <1>5, OneRingMoves
<1>7. Len(Held[q]) < Capacity /\ delivered' = delivered
  BY <1>1 DEF DepositedFront
<1>8. QED BY <1>5, <1>6, <1>7 DEF Fifo!SendFront, Held

LEMMA WithdrawReceives ==
  ASSUME Rings, NEW q \in Queues, Withdrawn(q)
  PROVE  Rings' /\ Fifo!Receive(q)
<1>1. /\ Capacity \in Nat \ {0}
      /\ buffer[q] \in [Places1 -> Items] /\ head[q] \in Places1 /\ tail[q] \in Places1
      /\ count[q] \in 1..Capacity /\ tail[q] = Wrapped(head[q] + count[q])
      /\ Held[q] = Ring(buffer[q], head[q], count[q])
  BY RingTypes DEF Withdrawn
<1>2. /\ head'[q] = Wrapped(head[q] + 1) /\ head'[q] \in Places1 /\ head'[q] = Next1(head[q])
  BY <1>1, NextPlace DEF Withdrawn, Rings
<1>3. /\ buffer' = buffer /\ tail' = tail /\ count'[q] = count[q] - 1
      /\ \A p \in Queues \ {q} : head'[p] = head[p] /\ count'[p] = count[p]
      /\ delivered' = [delivered EXCEPT ![q] = buffer[q][head[q]]]
  BY <1>1 DEF Withdrawn, Rings
<1>4. /\ Held[q] # <<>> /\ Head(Held[q]) = buffer[q][head[q]]
      /\ Ring(buffer'[q], head'[q], count'[q]) = Tail(Held[q])
  <2>1. /\ buffer[q] \in [Places1 -> Items] /\ head[q] \in Places1
        /\ count[q] \in 1..Capacity
    BY <1>1
  <2>2. LET s == Ring(buffer[q], head[q], count[q])
        IN  /\ s # <<>> /\ Head(s) = buffer[q][head[q]]
            /\ Ring(buffer[q], Wrapped(head[q] + 1), count[q] - 1) = Tail(s)
    BY <2>1, RingDrops
  <2>3. QED BY <1>1, <1>2, <1>3, <2>2
<1>5. Rings'
  <2>1. count[q] - 1 \in 0..Capacity - 1
    BY <1>1
  <2>2. Wrapped(Next1(head[q]) + (count[q] - 1)) = Wrapped(head[q] + ((count[q] - 1) + 1))
    BY <1>1, <2>1, NextPlace
  <2>3. tail'[q] = Wrapped(head'[q] + count'[q])
    <3>1. (count[q] - 1) + 1 = count[q]
      BY <1>1
    <3>2. QED BY <1>1, <1>2, <1>3, <2>2, <3>1
  <2>4. \A p \in Queues : tail'[p] = Wrapped(head'[p] + count'[p])
    BY <1>3, <2>3 DEF Rings
  <2>5. head' \in [Queues -> Places1]
    BY <1>2, <1>3 DEF Withdrawn, Rings
  <2>6. count' \in [Queues -> 0..Capacity]
    <3>1. count[q] - 1 \in 0..Capacity
      BY <1>1
    <3>2. QED BY <3>1 DEF Withdrawn, Rings
  <2>7. delivered' \in [Queues -> Items]
    BY <1>1, <1>3 DEF Rings
  <2>8. QED BY <1>3, <2>4, <2>5, <2>6, <2>7 DEF Rings, Withdrawn
<1>6. Held' = [Held EXCEPT ![q] = Tail(Held[q])]
  BY <1>3, <1>4, <1>5, OneRingMoves
<1>7. delivered' = [delivered EXCEPT ![q] = Head(Held[q])]
  BY <1>3, <1>4
<1>8. QED BY <1>4, <1>5, <1>6, <1>7 DEF Fifo!Receive, Held

LEMMA OtherMoves ==
  ASSUME Rings, NEW q \in Queues
  PROVE  /\ Peeked(q) => Rings' /\ Fifo!Peek(q)
         /\ Emptied(q) => Rings' /\ Fifo!Reset(q)
         /\ Kept => Rings' /\ UNCHANGED Fifo!vars
<1>1. /\ Capacity \in Nat \ {0} /\ 0 \in Places1 /\ count[q] \in 0..Capacity
      /\ buffer[q] \in [Places1 -> Items] /\ head[q] \in Places1
      /\ Held[q] = Ring(buffer[q], head[q], count[q])
  BY RingTypes
<1>2. ASSUME UNCHANGED ringVars PROVE Held' = Held
  BY <1>2 DEF Held, Contents, ringVars
<1>3. ASSUME Peeked(q) PROVE Rings' /\ Fifo!Peek(q)
  <2>1. /\ count[q] > 0 /\ delivered' = [delivered EXCEPT ![q] = buffer[q][head[q]]]
        /\ UNCHANGED <<ringVars, message>>
    BY <1>3 DEF Peeked
  <2>2. Held[q] # <<>> /\ Head(Held[q]) = buffer[q][head[q]]
    <3>1. count[q] \in 1..Capacity
      BY <1>1, <2>1
    <3>2. QED BY <1>1, <3>1, RingDrops
  <2>3. Rings'
    BY <1>1, <2>1 DEF Rings, ringVars
  <2>4. Held' = Held /\ delivered' = [delivered EXCEPT ![q] = Head(Held[q])]
    BY <1>2, <2>1, <2>2
  <2>5. QED BY <2>2, <2>3, <2>4 DEF Fifo!Peek, Held
<1>4. ASSUME Emptied(q) PROVE Rings' /\ Fifo!Reset(q)
  <2>1. /\ buffer' = buffer /\ UNCHANGED <<message, delivered>>
        /\ head'[q] = 0 /\ count'[q] = 0 /\ tail'[q] = 0
        /\ \A p \in Queues \ {q} : /\ head'[p] = head[p] /\ count'[p] = count[p]
                                   /\ tail'[p] = tail[p]
        /\ head' \in [Queues -> Places1] /\ tail' \in [Queues -> Places1]
        /\ count' \in [Queues -> 0..Capacity]
    BY <1>1, <1>4 DEF Emptied, Rings
  <2>2. Wrapped(0 + 0) = 0
    BY <1>1, NextPlace
  <2>3. \A p \in Queues : tail'[p] = Wrapped(head'[p] + count'[p])
    BY <2>1, <2>2 DEF Rings
  <2>4. Rings'
    BY <2>1, <2>3 DEF Rings
  <2>5. Ring(buffer'[q], head'[q], count'[q]) = <<>>
    <3>1. 0 \in 0..Capacity
      BY <1>1
    <3>2. Ring(buffer[q], 0, 0) \in Seq(Items) /\ Len(Ring(buffer[q], 0, 0)) = 0
      BY <1>1, <3>1, RingIsSeq
    <3>3. Ring(buffer[q], 0, 0) = <<>>
      BY <3>2, EmptySeq
    <3>4. QED BY <2>1, <3>3
  <2>6. Held' = [Held EXCEPT ![q] = <<>>]
    BY <2>1, <2>4, <2>5, OneRingMoves
  <2>7. QED BY <2>1, <2>4, <2>6 DEF Fifo!Reset, Held
<1>5. ASSUME Kept PROVE Rings' /\ UNCHANGED Fifo!vars
  <2>1. Held' = Held /\ UNCHANGED <<ringVars, delivered>>
    BY <1>2, <1>5 DEF Kept
  <2>2. message' \in [Tasks -> Items]
    BY <1>5 DEF Kept, Rings
  <2>3. Rings'
    BY <2>1, <2>2 DEF Rings, ringVars
  <2>4. QED BY <2>1, <2>3 DEF Fifo!vars, Held
<1>6. QED BY <1>3, <1>4, <1>5

LEMMA FifoStep ==
  ASSUME Rings, RingStep
  PROVE  Rings' /\ [Fifo!Next]_(Fifo!vars)
<1>1. CASE Kept
  <2>1. CASE \E q \in Queues : TRUE
    BY <1>1, <2>1, OtherMoves
  <2>2. CASE ~\E q \in Queues : TRUE
    <3>1. UNCHANGED <<ringVars, delivered>> /\ message' \in [Tasks -> Items]
      BY <1>1 DEF Kept, Rings
    <3>2. UNCHANGED Fifo!vars
      BY <3>1 DEF Fifo!vars, Contents, ringVars
    <3>3. QED BY <3>1, <3>2 DEF Rings, ringVars
  <2>3. QED BY <2>1, <2>2
<1>2. ASSUME NEW q \in Queues, NEW item \in Items, Deposited(q, item)
      PROVE  Rings' /\ Fifo!Next
  BY <1>2, DepositSends DEF Fifo!Next
<1>3. ASSUME NEW q \in Queues, NEW item \in Items, DepositedFront(q, item)
      PROVE  Rings' /\ Fifo!Next
  BY <1>3, FrontSends DEF Fifo!Next
<1>4. ASSUME NEW q \in Queues, Withdrawn(q) PROVE Rings' /\ Fifo!Next
  BY <1>4, WithdrawReceives DEF Fifo!Next
<1>5. ASSUME NEW q \in Queues, Peeked(q) \/ Emptied(q) PROVE Rings' /\ Fifo!Next
  BY <1>5, OtherMoves DEF Fifo!Next
<1>6. QED BY <1>1, <1>2, <1>3, <1>4, <1>5 DEF RingStep

LEMMA FifoInit == ASSUME QueueInit PROVE Rings /\ Fifo!Init
<1> DEFINE any == CHOOSE i \in Items : TRUE
<1>1. any \in Items /\ Capacity \in Nat \ {0} /\ 0 \in Places1 /\ 0 \in 0..Capacity
  BY QueueAssumption DEF Places1
<1>2. /\ buffer = [q \in Queues |-> [i \in Places1 |-> any]]
      /\ head = [q \in Queues |-> 0] /\ tail = [q \in Queues |-> 0]
      /\ count = [q \in Queues |-> 0]
      /\ message = [t \in Tasks |-> any] /\ delivered = [q \in Queues |-> any]
  BY DEF QueueInit, Places1
<1> HIDE DEF any
<1>3. Rings
  <2>1. Wrapped(0 + 0) = 0
    BY <1>1, NextPlace
  <2>2. QED BY <1>1, <1>2, <2>1 DEF Rings
<1>4. ASSUME NEW q \in Queues PROVE Held[q] = <<>>
  <2>1. Len(Held[q]) = 0 /\ Held[q] = Ring(buffer[q], 0, 0) /\ buffer[q] \in [Places1 -> Items]
    BY <1>2, <1>3, RingTypes
  <2>2. Held[q] \in Seq(Items)
    BY <1>1, <2>1, RingIsSeq
  <2>3. QED BY <2>1, <2>2, EmptySeq
<1>5. Held = [q \in Queues |-> <<>>]
  BY <1>4 DEF Held
<1>6. delivered \in [Queues -> Items]
  BY <1>3 DEF Rings
<1>7. QED BY <1>3, <1>5, <1>6 DEF Fifo!Init, Held

(* The ring buffers are bounded queues: each item is delivered once, in    *)
(* the order of sending but for those put in front, and no queue holds     *)
(* more than its capacity, whatever tasks and timer do (queue_send,        *)
(* queue_send_front, queue_receive, queue_peek, queue_reset).              *)
THEOREM QueuesKeepFifo == QueueSpec => KeepsFifo
<1>1. QueueInit => Rings /\ Fifo!Init
  BY FifoInit
<1>2. Rings /\ [QueueNext]_vars => Rings' /\ [Fifo!Next]_(Fifo!vars)
  BY CallsMoveRings, FifoStep
<1>3. QED BY <1>1, <1>2, PTL DEF QueueSpec, KeepsFifo, Fifo!Spec
-----------------------------------------------------------------------------
(* queue_reset: the wake[n] of WakeAll are the lists when n tasks have been *)
(* made ready.                                                             *)

Waiters(q) == Chain(links, WaitQueue(SendWait(q))) \o Chain(links, WaitQueue(RecvWait(q)))
Freed(q, n) == [t \in Tasks |-> IF \E i \in 1..n : Waiters(q)[i] = t THEN "READY" ELSE state[t]]

(* What is left of both queues. *)
Remaining(q, lk, n) ==
  LET s == Chain(lk, WaitQueue(SendWait(q)))
      r == Chain(lk, WaitQueue(RecvWait(q)))
  IN  /\ Len(s) + Len(r) = Len(Waiters(q)) - n
      /\ \A i \in 1..Len(s) : s[i] = Waiters(q)[n + i]
      /\ \A i \in 1..Len(r) : r[i] = Waiters(q)[n + Len(s) + i]

Waited(q, t) == t \in Tasks /\ state[t] = "BLOCKED" /\ obj[t] \in {SendWait(q), RecvWait(q)}

Reached(x, q, lk, n) ==
  /\ Housed(lk, ListNames, Home(x, Freed(q, n), priority, obj))
  /\ Remaining(q, lk, n)
  /\ Chain(lk, Delayed) = Chain(links, Delayed)
  /\ \A i \in 1..n : Waited(q, Waiters(q)[i])

NextQueue(q, lk) ==
  IF lk.head[WaitQueue(SendWait(q))] # Null THEN SendWait(q) ELSE RecvWait(q)
WakeNext(q, lk, n) == AddReady(Pop(lk, WaitQueue(NextQueue(q, lk))), priority, Waiters(q)[n])

LEMMA QueueNames ==
  ASSUME NEW q \in Queues
  PROVE  /\ SendWait(q) \in Objects /\ RecvWait(q) \in Objects
         /\ WaitQueue(SendWait(q)) # WaitQueue(RecvWait(q))
         /\ \A o \in {SendWait(q), RecvWait(q)} :
              WaitQueue(o) \in ListNames /\ WaitQueue(o) \in Apart /\ WaitQueue(o) # Delayed
         /\ Delayed \in Apart
<1>1. SendWait(q) \in Objects /\ RecvWait(q) \in Objects /\ SendWait(q) # RecvWait(q)
  BY QueueAssumption DEF SendWait, RecvWait
<1>2. QED BY <1>1, Names DEF WaitNames, Apart

(* Where one more task is to be woken, it is the first of its queue. *)
LEMMA NextIsFirst ==
  ASSUME NEW q \in Queues, NEW lk, NEW n \in Nat, NEW h, Housed(lk, ListNames, h),
         Remaining(q, lk, n), n < Len(Waiters(q)), Len(Waiters(q)) \in Nat
  PROVE  /\ NextQueue(q, lk) \in {SendWait(q), RecvWait(q)}
         /\ lk.head[WaitQueue(NextQueue(q, lk))] = Waiters(q)[n + 1]
         /\ Waiters(q)[n + 1] # Null
         /\ NextQueue(q, lk) = RecvWait(q) => Len(Chain(lk, WaitQueue(SendWait(q)))) = 0
<1> DEFINE s == Chain(lk, WaitQueue(SendWait(q)))
           r == Chain(lk, WaitQueue(RecvWait(q)))
           W == Waiters(q)
<1>1. /\ Len(s) + Len(r) = Len(W) - n
      /\ \A i \in 1..Len(s) : s[i] = W[n + i]
      /\ \A i \in 1..Len(r) : r[i] = W[n + Len(s) + i]
  BY DEF Remaining
<1>2. /\ Len(s) \in Nat /\ lk.head[WaitQueue(SendWait(q))] = At(s, 1)
      /\ \A i \in 1..Len(s) : s[i] \in Tasks
  BY QueueNames, HousedList
<1>3. /\ Len(r) \in Nat /\ lk.head[WaitQueue(RecvWait(q))] = At(r, 1)
      /\ \A i \in 1..Len(r) : r[i] \in Tasks
  BY QueueNames, HousedList
<1>4. SendWait(q) # RecvWait(q)
  BY DEF SendWait, RecvWait
<1> HIDE DEF s, r, W
<1>5. CASE Len(s) > 0
  <2>1. 1 \in 1..Len(s) /\ At(s, 1) = s[1] /\ s[1] # Null /\ s[1] = W[n + 1]
    <3>1. 1 \in 1..Len(s)
      BY <1>2, <1>5
    <3>2. QED BY <1>1, <1>2, <3>1, ListAssumption DEF At
  <2>2. NextQueue(q, lk) = SendWait(q)
    BY <1>2, <2>1 DEF NextQueue
  <2>3. QED BY <1>2, <1>4, <2>1, <2>2 DEF W
<1>6. CASE Len(s) = 0
  <2>1. At(s, 1) = Null
    BY <1>6 DEF At
  <2>2. NextQueue(q, lk) = RecvWait(q)
    BY <1>2, <2>1 DEF NextQueue
  <2>3. 1 \in 1..Len(r)
    BY <1>1, <1>2, <1>3, <1>6 DEF W
  <2>4. n + Len(s) + 1 = n + 1
    BY <1>6
  <2>5. At(r, 1) = r[1] /\ r[1] # Null /\ r[1] = W[n + 1]
    BY <1>1, <1>3, <2>3, <2>4, ListAssumption DEF At
  <2>6. QED BY <1>3, <1>6, <2>2, <2>5 DEF W, s
<1>7. QED BY <1>2, <1>5, <1>6

LEMMA WokenNext ==
  ASSUME NEW x \in Tasks \cup {Null}, priority \in [Tasks -> Nat], NEW q \in Queues,
         Len(Waiters(q)) \in Nat, NEW n \in Nat, n < Len(Waiters(q)),
         NEW lk, Reached(x, q, lk, n)
  PROVE  Reached(x, q, WakeNext(q, lk, n + 1), n + 1)
<1> DEFINE s == Chain(lk, WaitQueue(SendWait(q)))
           r == Chain(lk, WaitQueue(RecvWait(q)))
           W == Waiters(q)
           w == W[n + 1]
           o == NextQueue(q, lk)
           h == Home(x, Freed(q, n), priority, obj)
           new == AddReady(Pop(lk, WaitQueue(o)), priority, w)
<1>1. Housed(lk, ListNames, h) /\ Remaining(q, lk, n) /\ Chain(lk, Delayed) = Chain(links, Delayed)
  BY DEF Reached
<1>2. /\ o \in {SendWait(q), RecvWait(q)} /\ o \in Objects
      /\ w = lk.head[WaitQueue(o)] /\ w # Null
      /\ o = RecvWait(q) => Len(s) = 0
  <2> HIDE DEF h
  <2>1. QED BY <1>1, NextIsFirst, QueueNames
<1>3. \A i \in 1..n + 1 : i = n + 1 \/ i \in 1..n
  OBVIOUS
<1>4. w \in Tasks => Freed(q, n + 1)[w] = "READY"
  <2>1. n + 1 \in 1..n + 1
    OBVIOUS
  <2>2. QED BY <2>1 DEF Freed
<1>5. \A u \in Tasks \ {w} : Freed(q, n + 1)[u] = Freed(q, n)[u]
  <2>1. ASSUME NEW u \in Tasks \ {w}
        PROVE  (\E i \in 1..n + 1 : W[i] = u) <=> (\E i \in 1..n : W[i] = u)
    <3>1. \A i \in 1..n : i \in 1..n + 1
      OBVIOUS
    <3> HIDE DEF W
    <3>2. QED BY <1>3, <3>1
  <2>2. QED BY <2>1 DEF Freed
<1>6. w \in Tasks
  <2>1. /\ Len(Chain(lk, WaitQueue(o))) \in Nat
        /\ lk.head[WaitQueue(o)] = At(Chain(lk, WaitQueue(o)), 1)
        /\ \A i \in 1..Len(Chain(lk, WaitQueue(o))) : Chain(lk, WaitQueue(o))[i] \in Tasks
    <3> HIDE DEF h, o
    <3>1. QED BY <1>1, <1>2, QueueNames, HousedList
  <2> HIDE DEF w, o
  <2>2. QED BY <1>2, <2>1 DEF At
<1>7. /\ w # x /\ Freed(q, n)[w] = "BLOCKED" /\ obj[w] = o
      /\ Len(Chain(lk, WaitQueue(o))) > 0
      /\ Housed(new, ListNames, Home(x, Freed(q, n + 1), priority, obj))
      /\ Shorter(new, lk, Apart, WaitQueue(o), 1)
  <2>1. Freed(q, n + 1)[w] = "READY"
    BY <1>4, <1>6
  <2>2. Housed(lk, ListNames, Home(x, Freed(q, n), priority, obj))
    BY <1>1
  <2> DEFINE st == Freed(q, n)
             st1 == Freed(q, n + 1)
  <2> HIDE DEF w, o, st, st1
  <2>3. /\ Housed(lk, ListNames, Home(x, st, priority, obj))
        /\ st1[w] = "READY" /\ \A u \in Tasks \ {w} : st1[u] = st[u]
    BY <1>5, <2>1, <2>2 DEF st, st1
  <2>4. /\ w # x /\ st[w] = "BLOCKED" /\ obj[w] = o
        /\ Len(Chain(lk, WaitQueue(o))) > 0
        /\ Housed(AddReady(Pop(lk, WaitQueue(o)), priority, w), ListNames,
                  Home(x, st1, priority, obj))
        /\ Shorter(AddReady(Pop(lk, WaitQueue(o)), priority, w), lk, Apart, WaitQueue(o), 1)
    BY <1>2, <2>3, FirstReadied
  <2>5. QED BY <2>4 DEF st, st1
<1>8. Waited(q, w)
  <2>1. state[w] = "BLOCKED"
    BY <1>6, <1>7 DEF Freed
  <2>2. QED BY <1>2, <1>6, <1>7, <2>1 DEF Waited
<1>9. \A i \in 1..n + 1 : Waited(q, W[i])
  <2>1. \A i \in 1..n : Waited(q, W[i])
    BY DEF Reached
  <2> HIDE DEF W
  <2>2. QED BY <1>3, <1>8, <2>1
<1>10. Chain(new, Delayed) = Chain(links, Delayed)
  <2> HIDE DEF new, o
  <2>1. QED BY <1>1, <1>2, <1>7, QueueNames DEF Shorter, Others
<1>11. Remaining(q, new, n + 1)
  <2>1. /\ Len(s) + Len(r) = Len(W) - n
        /\ \A i \in 1..Len(s) : s[i] = W[n + i]
        /\ \A i \in 1..Len(r) : r[i] = W[n + Len(s) + i]
    BY <1>1 DEF Remaining
  <2>2. /\ s \in Seq(Tasks) /\ Len(s) \in Nat /\ NoTwice(s)
    <3> HIDE DEF h
    <3>1. QED BY <1>1, QueueNames, HousedList
  <2>3. /\ r \in Seq(Tasks) /\ Len(r) \in Nat /\ NoTwice(r)
    <3> HIDE DEF h
    <3>1. QED BY <1>1, QueueNames, HousedList
  <2> DEFINE s1 == Chain(new, WaitQueue(SendWait(q)))
             r1 == Chain(new, WaitQueue(RecvWait(q)))
  <2>4. SUFFICES /\ Len(s1) + Len(r1) = Len(W) - (n + 1)
                 /\ \A i \in 1..Len(s1) : s1[i] = W[(n + 1) + i]
                 /\ \A i \in 1..Len(r1) : r1[i] = W[(n + 1) + Len(s1) + i]
    BY DEF Remaining
  <2> HIDE DEF new
  <2>5. CASE o = SendWait(q)
    <3>1. s1 = Without(s, 1) /\ r1 = r
      BY <1>7, <2>5, QueueNames DEF Shorter, Others
    <3>2. 1 \in 1..Len(s)
      BY <1>7, <2>2, <2>5
    <3> HIDE DEF s, r, s1, r1, W
    <3>3. Len(s1) = Len(s) - 1 /\ \A i \in 1..Len(s) - 1 : s1[i] = s[i + 1]
      BY <2>2, <3>1, <3>2, WithoutShape, ZenonT(60)
    <3>4. ASSUME NEW i \in 1..Len(s1) PROVE s1[i] = W[(n + 1) + i]
      <4>1. i \in 1..Len(s) - 1 /\ i + 1 \in 1..Len(s) /\ n + (i + 1) = (n + 1) + i
        BY <2>2, <3>3
      <4>2. s[i + 1] = W[n + (i + 1)]
        BY <2>1, <4>1
      <4>3. QED BY <3>3, <4>1, <4>2
    <3>5. ASSUME NEW i \in 1..Len(r1) PROVE r1[i] = W[(n + 1) + Len(s1) + i]
      <4>1. i \in 1..Len(r) /\ i \in Int /\ Len(s) \in Int /\ Len(s1) = Len(s) - 1
        BY <2>2, <2>3, <3>1, <3>3
      <4>2. (n + 1) + Len(s1) + i = n + Len(s) + i
        BY <4>1
      <4>3. QED BY <2>1, <3>1, <4>1, <4>2
    <3>6. Len(s1) + Len(r1) = Len(W) - (n + 1)
      BY <2>1, <2>2, <2>3, <3>1, <3>3 DEF W
    <3>7. QED BY <3>4, <3>5, <3>6
  <2>6. CASE o = RecvWait(q)
    <3>1. r1 = Without(r, 1) /\ s1 = s /\ Len(s) = 0
      BY <1>2, <1>7, <2>6, QueueNames DEF Shorter, Others
    <3>2. 1 \in 1..Len(r)
      BY <1>7, <2>3, <2>6
    <3> HIDE DEF s, r, s1, r1, W
    <3>3. Len(r1) = Len(r) - 1 /\ \A i \in 1..Len(r) - 1 : r1[i] = r[i + 1]
      <4>1. /\ Len(Without(r, 1)) = Len(r) - 1
            /\ \A i \in 1..Len(r) - 1 : Without(r, 1)[i] = r[i + 1]
        BY <2>3, <3>2, WithoutShape
      <4>2. QED BY <3>1, <4>1
    <3>4. ASSUME NEW i \in 1..Len(r1) PROVE r1[i] = W[(n + 1) + Len(s1) + i]
      <4>1. i \in 1..Len(r) - 1 /\ i + 1 \in 1..Len(r)
        BY <2>3, <3>3
      <4>2. n + Len(s) + (i + 1) = (n + 1) + Len(s1) + i
        BY <3>1, <4>1
      <4>3. r[i + 1] = W[n + Len(s) + (i + 1)]
        BY <2>1, <4>1
      <4>4. QED BY <3>3, <4>1, <4>2, <4>3
    <3>5. Len(s1) + Len(r1) = Len(W) - (n + 1)
      <4>1. Len(s1) = 0 /\ Len(r1) = Len(r) - 1 /\ Len(r) = Len(W) - n /\ Len(W) \in Nat
        BY <2>1, <2>3, <3>1, <3>3 DEF W
      <4>2. QED BY <4>1
    <3>6. QED BY <3>1, <3>4, <3>5
  <2>7. QED BY <1>2, <2>5, <2>6
<1>12. WakeNext(q, lk, n + 1) = new
  BY DEF WakeNext
<1>13. QED BY <1>7, <1>9, <1>10, <1>11, <1>12 DEF Reached

LEMMA WaitersAre ==
  ASSUME NEW x \in Tasks \cup {Null}, KernelInv(x), NEW q \in Queues
  PROVE  /\ Len(Waiters(q)) \in Nat
         /\ Reached(x, q, links, 0)
         /\ \A t \in Tasks : Waited(q, t) => \E i \in 1..Len(Waiters(q)) : Waiters(q)[i] = t
<1> DEFINE a == Chain(links, WaitQueue(SendWait(q)))
           b == Chain(links, WaitQueue(RecvWait(q)))
           W == Waiters(q)
           h == Home(x, state, priority, obj)
<1>1. Housed(links, ListNames, h) /\ state \in [Tasks -> States]
  BY DEF KernelInv, Types, KernelTypeOK
<1>2. a \in Seq(Tasks) /\ Len(a) \in Nat
  <2> HIDE DEF h
  <2>1. QED BY <1>1, QueueNames, HousedList
<1>3. b \in Seq(Tasks) /\ Len(b) \in Nat
  <2> HIDE DEF h
  <2>1. QED BY <1>1, QueueNames, HousedList
<1>4. /\ Len(W) = Len(a) + Len(b) /\ Len(W) \in Nat
      /\ \A i \in 1..Len(a) : W[i] = a[i]
      /\ \A i \in 1..Len(b) : W[Len(a) + i] = b[i]
  <2>1. W = a \o b
    BY DEF Waiters
  <2> HIDE DEF a, b, W
  <2>2. /\ Len(a \o b) = Len(a) + Len(b)
        /\ \A i \in 1 .. Len(a) + Len(b) :
             (a \o b)[i] = IF i <= Len(a) THEN a[i] ELSE b[i - Len(a)]
    BY <1>2, <1>3, ConcatProperties
  <2>3. ASSUME NEW i \in 1..Len(a) PROVE W[i] = a[i]
    BY <1>2, <1>3, <2>1, <2>2
  <2>4. ASSUME NEW i \in 1..Len(b) PROVE W[Len(a) + i] = b[i]
    <3>1. /\ Len(a) + i \in 1 .. Len(a) + Len(b) /\ ~(Len(a) + i <= Len(a))
          /\ (Len(a) + i) - Len(a) = i
      BY <1>2, <1>3
    <3>2. QED BY <2>1, <2>2, <3>1
  <2>5. QED BY <1>2, <1>3, <2>1, <2>2, <2>3, <2>4
<1>5. Remaining(q, links, 0)
  <2>1. /\ Len(a) + Len(b) = Len(W) - 0
        /\ \A i \in 1..Len(a) : a[i] = W[0 + i]
        /\ \A i \in 1..Len(b) : b[i] = W[0 + Len(a) + i]
    <3> HIDE DEF a, b, W
    <3>1. \A i \in 1..Len(a) : 0 + i = i
      OBVIOUS
    <3>2. 0 + Len(a) = Len(a) /\ Len(W) - 0 = Len(W)
      BY <1>2, <1>4
    <3>3. QED BY <1>4, <3>1, <3>2
  <2>2. QED BY <2>1 DEF Remaining
<1>6. Reached(x, q, links, 0)
  <2>1. \A i \in 1..0 : FALSE
    OBVIOUS
  <2>2. Freed(q, 0) = state
    BY <1>1, <2>1 DEF Freed
  <2>3. QED BY <1>1, <1>5, <2>1, <2>2 DEF Reached
<1>7. ASSUME NEW t \in Tasks, Waited(q, t) PROVE \E i \in 1..Len(W) : W[i] = t
  <2>1. obj[t] \in Objects /\ On(links, WaitQueue(obj[t]), t)
    BY <1>7, QueueNames, SoundWaiters DEF Sound, WaitersQueued, NoWaiterLost, Waited
  <2>2. (\E i \in 1..Len(a) : a[i] = t) \/ (\E i \in 1..Len(b) : b[i] = t)
    BY <1>7, <2>1 DEF Waited, On
  <2> HIDE DEF a, b, W
  <2>3. CASE \E i \in 1..Len(a) : a[i] = t
    <3>1. PICK i \in 1..Len(a) : a[i] = t
      BY <2>3
    <3>2. i \in 1..Len(W)
      BY <1>2, <1>3, <1>4
    <3>3. QED BY <1>4, <3>1, <3>2
  <2>4. CASE \E i \in 1..Len(b) : b[i] = t
    <3>1. PICK i \in 1..Len(b) : b[i] = t
      BY <2>4
    <3>2. Len(a) + i \in 1..Len(W)
      BY <1>2, <1>3, <1>4
    <3>3. QED BY <1>4, <3>1, <3>2
  <2>5. QED BY <2>2, <2>3, <2>4
<1>8. QED BY <1>4, <1>6, <1>7

LEMMA ResetReaches ==
  ASSUME NEW x \in Tasks \cup {Null}, KernelInv(x), NEW q \in Queues, WakeAll(q)
  PROVE  Reached(x, q, links', Len(Waiters(q)))
<1> DEFINE m == Len(Waiters(q))
           first == [lk |-> links, n |-> 0]
           D == {k \in [lk : Links(ListNames), n : 0..m] : Reached(x, q, k.lk, k.n)}
           after(k) == [lk |-> WakeNext(q, k.lk, k.n + 1), n |-> k.n + 1]
           step == [k \in D |-> IF k.n < m THEN after(k) ELSE k]
           Walk(f) == f = [n \in 0..m |->
                        IF n = 0 THEN links
                        ELSE LET lk == f[n - 1]
                                 o == IF lk.head[WaitQueue(SendWait(q))] # Null
                                      THEN SendWait(q) ELSE RecvWait(q)
                             IN  AddReady(Pop(lk, WaitQueue(o)), priority, Waiters(q)[n])]
           wake == CHOOSE f : Walk(f)
<1>1. m \in Nat /\ Reached(x, q, links, 0) /\ priority \in [Tasks -> Nat]
  BY WaitersAre DEF KernelInv, Types, KernelTypeOK
<1>2. first \in D
  <2>1. links \in Links(ListNames)
    BY <1>1 DEF Reached, Housed
  <2>2. QED BY <1>1, <2>1
<1>3. ASSUME NEW k \in D, k.n < m PROVE after(k) \in D
  <2>1. k.n \in Nat /\ k.n + 1 \in 0..m /\ Reached(x, q, k.lk, k.n)
    BY <1>1, <1>3
  <2>2. Reached(x, q, WakeNext(q, k.lk, k.n + 1), k.n + 1)
    <3> HIDE DEF D
    <3>1. QED BY <1>1, <1>3, <2>1, WokenNext
  <2>3. WakeNext(q, k.lk, k.n + 1) \in Links(ListNames)
    BY <2>2 DEF Reached, Housed
  <2>4. QED BY <2>1, <2>2, <2>3
<1>4. step \in [D -> D]
  <2> HIDE DEF D
  <2>1. QED BY <1>3
<1>5. PICK f \in [0..m -> D] : f[0] = first /\ \A n \in 1..m : f[n] = step[f[n - 1]]
  <2>1. Iterations(m, D, first, step) # {}
    <3> HIDE DEF m, D, step, first
    <3>1. QED BY <1>1, <1>2, <1>4, Iterates
  <2> HIDE DEF m, D, step, first
  <2>2. QED BY <2>1 DEF Iterations
<1> DEFINE S == {n \in 0..m : f[n].n = n}
<1>6. ASSUME NEW n \in 1..m, n - 1 \in S
      PROVE  n \in S /\ f[n].lk = WakeNext(q, f[n - 1].lk, n)
  <2>1. n - 1 \in 0..m /\ n \in 0..m /\ n - 1 < m /\ (n - 1) + 1 = n /\ f[n - 1].n = n - 1
    BY <1>1, <1>6
  <2>2. f[n - 1] \in D
    <3> HIDE DEF D
    <3>1. QED BY <2>1
  <2>3. f[n] = after(f[n - 1])
    <3> HIDE DEF D, after
    <3>1. QED BY <1>5, <2>1, <2>2
  <2>4. QED BY <2>1, <2>3
<1>7. 0..m \subseteq S
  <2>1. 0 \in S
    BY <1>1, <1>5
  <2> HIDE DEF S
  <2>2. QED BY <1>1, <1>6, <2>1, UpTo
<1> DEFINE e == [n \in 0..m |-> f[n].lk]
<1>8. Walk(e)
  <2>1. e[0] = links
    BY <1>1, <1>5
  <2>2. ASSUME NEW n \in 0..m, n # 0
        PROVE  e[n] = LET lk == e[n - 1]
                          o == IF lk.head[WaitQueue(SendWait(q))] # Null
                               THEN SendWait(q) ELSE RecvWait(q)
                      IN  AddReady(Pop(lk, WaitQueue(o)), priority, Waiters(q)[n])
    <3>1. n \in 1..m /\ n - 1 \in 0..m
      BY <1>1, <2>2
    <3>2. n - 1 \in S
      <4> HIDE DEF S
      <4>1. QED BY <1>7, <3>1
    <3>3. f[n].lk = WakeNext(q, f[n - 1].lk, n)
      <4> HIDE DEF S
      <4>1. QED BY <1>6, <3>1, <3>2
    <3>4. e[n] = f[n].lk /\ e[n - 1] = f[n - 1].lk
      BY <3>1
    <3> HIDE DEF e
    <3>5. QED BY <3>3, <3>4 DEF WakeNext, NextQueue
  <2> HIDE DEF D, step, S
  <2>3. QED BY <2>1, <2>2
<1>9. Walk(wake)
  <2> HIDE DEF Walk, e
  <2>1. QED BY <1>8
<1>10. links' = wake[m]
  BY DEF WakeAll, Waiters
<1> HIDE DEF wake
<1>11. wake[0] = links
  BY <1>1, <1>9
<1>12. ASSUME NEW n \in 1..m PROVE wake[n] = WakeNext(q, wake[n - 1], n)
  <2>1. n \in 0..m /\ n # 0
    BY <1>1
  <2>2. wake[n] = LET lk == wake[n - 1]
                      o == IF lk.head[WaitQueue(SendWait(q))] # Null
                           THEN SendWait(q) ELSE RecvWait(q)
                  IN  AddReady(Pop(lk, WaitQueue(o)), priority, Waiters(q)[n])
    BY <1>9, <2>1
  <2>3. QED BY <2>2 DEF WakeNext, NextQueue
<1> DEFINE R == {n \in 0..m : Reached(x, q, wake[n], n)}
<1>13. 0 \in R
  BY <1>1, <1>11
<1>14. ASSUME NEW n \in 1..m, n - 1 \in R PROVE n \in R
  <2>1. n - 1 \in Nat /\ n - 1 < m /\ (n - 1) + 1 = n /\ Reached(x, q, wake[n - 1], n - 1)
        /\ n \in 0..m
    BY <1>1, <1>14
  <2>2. Reached(x, q, WakeNext(q, wake[n - 1], (n - 1) + 1), (n - 1) + 1)
    BY <1>1, <2>1, WokenNext
  <2>3. QED BY <1>12, <2>1, <2>2
<1>15. m \in R
  <2>1. 0..m \subseteq R
    <3> HIDE DEF R
    <3>1. QED BY <1>1, <1>13, <1>14, UpTo
  <2>2. m \in 0..m
    BY <1>1
  <2> HIDE DEF R
  <2>3. QED BY <2>1, <2>2
<1>16. QED BY <1>10, <1>15

(* All waiters of the queue are ready, and nothing else has changed. *)
LEMMA ResetWakes ==
  ASSUME NEW x \in Tasks \cup {Null}, KernelInv(x), NEW q \in Queues, WakeAll(q)
  PROVE  /\ Housed(links', ListNames, Home(x, state', priority, obj))
         /\ Chain(links', Delayed) = Chain(links, Delayed)
         /\ state' \in [Tasks -> States]
         /\ wakeReason' \in [Tasks -> {"NONE", "SIGNALED", "TIMEOUT"}]
         /\ \A t \in Tasks : Waited(q, t) => state'[t] = "READY"
         /\ \A t \in Tasks : ~Waited(q, t) => /\ state'[t] = state[t]
                                              /\ wakeReason'[t] = wakeReason[t]
<1> DEFINE W == Waiters(q)
           m == Len(W)
           woken == {W[i] : i \in 1..m}
<1>1. /\ state' = [t \in Tasks |-> IF t \in woken THEN "READY" ELSE state[t]]
      /\ wakeReason' = [t \in Tasks |-> IF t \in woken THEN "TIMEOUT" ELSE wakeReason[t]]
  BY DEF WakeAll, Waiters, ResetReason
<1>2. Reached(x, q, links', m)
  BY ResetReaches
<1>3. state \in [Tasks -> States] /\ wakeReason \in [Tasks -> {"NONE", "SIGNALED", "TIMEOUT"}]
  BY DEF KernelInv, Types, KernelTypeOK
<1>4. \A t \in Tasks : t \in woken <=> Waited(q, t)
  <2>1. \A i \in 1..m : Waited(q, W[i])
    BY <1>2 DEF Reached
  <2>2. \A t \in Tasks : Waited(q, t) => \E i \in 1..m : W[i] = t
    BY WaitersAre
  <2> HIDE DEF W, m
  <2>3. QED BY <2>1, <2>2
<1>5. Freed(q, m) = state'
  <2>1. \A t \in Tasks : t \in woken <=> \E i \in 1..m : W[i] = t
    <3> HIDE DEF W, m
    <3>1. QED OBVIOUS
  <2>2. QED BY <1>1, <2>1 DEF Freed
<1> HIDE DEF woken, m
<1>6. QED BY <1>1, <1>2, <1>3, <1>4, <1>5 DEF Reached, States
-----------------------------------------------------------------------------
(* No wakeup is lost. *)

(* A task in a queue call is about one of the queues, and one that was     *)
(* blocked goes on with a check.                                           *)
Caller(t) == /\ then[t] \in {"run", "sendCheck", "recvCheck"}
             /\ ~Away(t) => obj[t] \in Objects
             /\ pc[t] = "send" => state[t] # "BLOCKED"

SomebodyWaits(o) == \E t \in Tasks : state[t] = "BLOCKED" /\ obj[t] = o
Number(o) == Cardinality(OnTheWay(o))

Coming(q) ==
  /\ SomebodyWaits(RecvWait(q)) => count[q] <= Number(RecvWait(q))
  /\ SomebodyWaits(SendWait(q)) => Capacity - count[q] <= Number(SendWait(q))

QueueInv == /\ Sound /\ Rings
            /\ \A t \in Tasks : Caller(t)
            /\ \A q \in Queues : Coming(q)

LEMMA Counting ==
  ASSUME NEW A \in SUBSET Tasks, NEW B \in SUBSET Tasks, NEW t
  PROVE  /\ Cardinality(A) \in Nat /\ Cardinality(B) \in Nat
         /\ A \subseteq B => Cardinality(A) <= Cardinality(B)
         /\ A \ {t} \subseteq B => Cardinality(A) - 1 <= Cardinality(B)
         /\ A \subseteq B /\ B \ A # {} => Cardinality(A) + 1 <= Cardinality(B)
<1>1. IsFiniteSet(A) /\ IsFiniteSet(B)
  BY ListAssumption, FS_Subset
<1>2. Cardinality(A) \in Nat /\ Cardinality(B) \in Nat
  BY <1>1, FS_CardinalityType
<1>3. A \subseteq B => Cardinality(A) <= Cardinality(B)
  BY <1>1, FS_Subset
<1>4. ASSUME A \ {t} \subseteq B PROVE Cardinality(A) - 1 <= Cardinality(B)
  <2>1. Cardinality(A \ {t}) = IF t \in A THEN Cardinality(A) - 1 ELSE Cardinality(A)
    BY <1>1, FS_RemoveElement
  <2>2. Cardinality(A \ {t}) <= Cardinality(B)
    BY <1>1, <1>4, FS_Subset
  <2>3. QED BY <1>2, <2>1, <2>2
<1>5. ASSUME A \subseteq B, NEW w \in B, w \notin A PROVE Cardinality(A) + 1 <= Cardinality(B)
  <2>1. Cardinality(A \cup {w}) = Cardinality(A) + 1
    BY <1>1, <1>5, FS_AddElement
  <2>2. A \cup {w} \subseteq B
    BY <1>5
  <2>3. Cardinality(A \cup {w}) <= Cardinality(B)
    BY <1>1, <2>2, FS_Subset
  <2>4. QED BY <2>1, <2>3
<1>6. QED BY <1>2, <1>3, <1>4, <1>5

CallPlaces == {"run", "send", "sendCheck", "recvCheck", "sendRetry", "recvRetry"}

LEMMA Acting ==
  ASSUME QueueInv, NEW x \in Tasks \cup {Null}, KernelInv(x), NEW t \in Tasks,
         NEW at \in CallPlaces, Executes(t, at)
  PROVE  /\ state[t] = "RUNNING" /\ pc[t] = at /\ then[t] = "run" /\ t # Null
         /\ at \in Places \ {"request", "ecall"}
         /\ at = "run" => obj[t] = Null
         /\ at # "run" => obj[t] \in Objects
<1>1. at \in Places \ {"request", "ecall"}
  BY DEF CallPlaces, Places
<1>2. state[t] = "RUNNING" /\ pc[t] = at /\ t # Null
  BY <1>1, ExecutesRunning
<1>3. Calls /\ Caller(t)
  BY DEF KernelInv, Control, QueueInv
<1>4. QED BY <1>1, <1>2, <1>3 DEF Calls, Caller, Away, CallPlaces

(* What a call that goes on at once leaves of the kernel's invariant. *)
LEMMA GoesOn ==
  ASSUME QueueInv, NEW x \in Tasks \cup {Null}, KernelInv(x), NEW t \in Tasks,
         NEW at \in CallPlaces, Executes(t, at),
         Housed(links', ListNames, Home(x, state', priority, obj)),
         Chain(links', Delayed) = Chain(links, Delayed),
         state' \in [Tasks -> States],
         \A u \in Tasks : state'[u] # state[u] => state[u] = "BLOCKED" /\ state'[u] = "READY",
         wakeReason' \in [Tasks -> {"NONE", "SIGNALED", "TIMEOUT"}], switchPending' \in BOOLEAN,
         NEW to \in {"run", "send", "sendRetry", "recvRetry"},
         NEW ob \in Objects \cup {Null}, to = "run" <=> ob = Null,
         pc' = [pc EXCEPT ![t] = to], obj' = [obj EXCEPT ![t] = ob],
         UNCHANGED <<priority, basePriority, ticksLeft, currentTask, taskCount, then>>
  PROVE  Sound' /\ \A u \in Tasks : Caller(u)'
<1>1. /\ state[t] = "RUNNING" /\ pc[t] = at /\ then[t] = "run"
      /\ at \in Places \ {"request", "ecall"}
  BY Acting
<1>2. Types /\ Null \notin Objects
  BY NanoAssumption DEF KernelInv
<1>3. /\ \A u \in Tasks \ {t} : pc'[u] = pc[u] /\ then'[u] = then[u] /\ obj'[u] = obj[u]
      /\ pc'[t] = to /\ then'[t] = "run" /\ obj'[t] = ob /\ state'[t] = "RUNNING"
  BY <1>1, <1>2 DEF Types
<1>4. KernelInv(x)'
  <2>1. Housed(links', ListNames, Home(x, state', priority', obj'))
    <3>1. \A u \in Tasks : Home(x, state', priority, obj)[u] = Home(x, state', priority', obj')[u]
      BY <1>3 DEF Home
    <3>2. Home(x, state', priority, obj) = Home(x, state', priority', obj')
      BY <3>1 DEF Home
    <3>3. QED BY <3>2
  <2>2. /\ pc' \in [Tasks -> Places] /\ then' \in [Tasks -> Places]
        /\ obj' \in [Tasks -> Objects \cup Tasks \cup {Null}]
    BY <1>2 DEF Types, Places
  <2>3. pc'[t] \notin {"request", "ecall", "resume"} /\ (pc'[t] = "run" => obj'[t] = Null)
    BY <1>3
  <2>4. priority' \in [Tasks -> Nat] /\ \A u \in Tasks \ {t} : priority'[u] = priority[u]
    BY <1>2 DEF Types, KernelTypeOK
  <2>5. x \in {x, Null} /\ UNCHANGED <<basePriority, ticksLeft, currentTask, taskCount>>
    OBVIOUS
  <2>6. /\ \A u \in Tasks \ {t} : pc'[u] = pc[u] /\ then'[u] = then[u] /\ obj'[u] = obj[u]
        /\ then'[t] = "run"
    BY <1>3
  <2>7. QED BY <1>1, <2>1, <2>2, <2>3, <2>4, <2>5, <2>6, CallKeeps
<1>5. ASSUME NEW u \in Tasks PROVE Caller(u)'
  <2>1. CASE u = t
    BY <1>2, <1>3, <2>1 DEF Caller, Away
  <2>2. CASE u # t
    BY <1>3, <2>2 DEF QueueInv, Caller, Away
  <2>3. QED BY <2>1, <2>2
<1>6. QED BY <1>4, <1>5 DEF Sound

(* The calls that wake a waiter of o, if there is one, and return. *)
LEMMA WakeKeeps ==
  ASSUME QueueInv, NEW t \in Tasks, NEW at \in CallPlaces, Executes(t, at),
         NEW o \in Objects, WakeOne(o), Returns(t)
  PROVE  /\ Sound' /\ \A u \in Tasks : Caller(u)'
         /\ \A p \in Objects : /\ SomebodyWaits(p)' => SomebodyWaits(p)
                               /\ OnTheWay(p) \ {t} \subseteq OnTheWay(p)'
         /\ SomebodyWaits(o)' => OnTheWay(o)' \ OnTheWay(o) # {}
<1>1. PICK x \in Tasks \cup {Null} : KernelInv(x)
  BY DEF QueueInv, Sound
<1>2. Types /\ state[t] = "RUNNING" /\ Null \notin Objects
  BY <1>1, Acting, NanoAssumption DEF KernelInv
<1>3. /\ pc' = [pc EXCEPT ![t] = "run"] /\ obj' = [obj EXCEPT ![t] = Null]
      /\ UNCHANGED <<priority, basePriority, ticksLeft, currentTask, taskCount, then>>
  BY DEF Returns, Goto
<1>4. /\ \A u \in Tasks \ {t} : pc'[u] = pc[u] /\ then'[u] = then[u] /\ obj'[u] = obj[u]
      /\ pc'[t] = "run" /\ obj'[t] = Null
  BY <1>2, <1>3 DEF Types
<1>5. CASE Signal(o)
  <2>1. /\ x = Null /\ FirstWaiter(o) \in Tasks
        /\ state[FirstWaiter(o)] = "BLOCKED" /\ obj[FirstWaiter(o)] = o
        /\ Housed(links', ListNames, Home(Null, state', priority, obj))
        /\ Shorter(links', links, Apart, WaitQueue(o), 1)
    BY <1>1, <1>5, SignalHouses
  <2>2. PICK w \in Tasks : w = FirstWaiter(o)
    BY <2>1
  <2>3. /\ state' = [state EXCEPT ![w] = "READY"] /\ switchPending' = TRUE
        /\ wakeReason' = [wakeReason EXCEPT ![w] = "SIGNALED"]
        /\ state[w] = "BLOCKED" /\ obj[w] = o /\ w # t
    BY <1>2, <1>5, <2>1, <2>2 DEF Signal
  <2>4. /\ state' \in [Tasks -> States] /\ switchPending' \in BOOLEAN
        /\ wakeReason' \in [Tasks -> {"NONE", "SIGNALED", "TIMEOUT"}]
        /\ \A u \in Tasks : state'[u] # state[u] => state[u] = "BLOCKED" /\ state'[u] = "READY"
        /\ \A u \in Tasks \ {w} : state'[u] = state[u] /\ wakeReason'[u] = wakeReason[u]
        /\ state'[w] = "READY" /\ wakeReason'[w] = "SIGNALED"
    BY <1>2, <2>3 DEF Types, KernelTypeOK, States
  <2>5. Chain(links', Delayed) = Chain(links, Delayed)
    BY <2>1, Names DEF Shorter, Others, Apart
  <2>6. Sound' /\ \A u \in Tasks : Caller(u)'
    <3>1. /\ Housed(links', ListNames, Home(x, state', priority, obj))
          /\ "run" \in {"run", "send", "sendRetry", "recvRetry"}
          /\ Null \in Objects \cup {Null} /\ ("run" = "run" <=> Null = Null)
      BY <2>1
    <3>2. QED BY <1>1, <1>3, <2>4, <2>5, <3>1, GoesOn
  <2>7. ASSUME NEW p \in Objects
        PROVE  /\ SomebodyWaits(p)' => SomebodyWaits(p)
               /\ OnTheWay(p) \ {t} \subseteq OnTheWay(p)'
    <3>1. SomebodyWaits(p)' => SomebodyWaits(p)
      BY <1>2, <1>4, <2>4 DEF SomebodyWaits
    <3>2. OnTheWay(p) \ {t} \subseteq OnTheWay(p)'
      BY <1>4, <2>3, <2>4 DEF OnTheWay
    <3>3. QED BY <3>1, <3>2
  <2>8. w \in OnTheWay(o)' /\ w \notin OnTheWay(o)
    <3>1. pc[w] # "send"
      BY <2>3 DEF QueueInv, Caller
    <3>2. QED BY <1>4, <2>3, <2>4, <3>1 DEF OnTheWay
  <2>9. QED BY <2>6, <2>7, <2>8
<1>6. CASE FirstWaiter(o) = Null /\ UNCHANGED <<links, state, wakeReason, switchPending>>
  <2>1. Sound' /\ \A u \in Tasks : Caller(u)'
    <3>1. /\ Housed(links', ListNames, Home(x, state', priority, obj))
          /\ "run" \in {"run", "send", "sendRetry", "recvRetry"}
          /\ Null \in Objects \cup {Null} /\ ("run" = "run" <=> Null = Null)
      BY <1>1, <1>6 DEF KernelInv
    <3>2. /\ state' \in [Tasks -> States] /\ switchPending' \in BOOLEAN
          /\ wakeReason' \in [Tasks -> {"NONE", "SIGNALED", "TIMEOUT"}]
          /\ \A u \in Tasks :
               state'[u] # state[u] => state[u] = "BLOCKED" /\ state'[u] = "READY"
          /\ Chain(links', Delayed) = Chain(links, Delayed)
      BY <1>2, <1>6 DEF Types, KernelTypeOK
    <3>3. QED BY <1>1, <1>3, <3>1, <3>2, GoesOn
  <2>2. ASSUME NEW p \in Objects
        PROVE  /\ SomebodyWaits(p)' => SomebodyWaits(p)
               /\ OnTheWay(p) \ {t} \subseteq OnTheWay(p)'
    BY <1>2, <1>4, <1>6 DEF SomebodyWaits, OnTheWay
  <2>3. ~SomebodyWaits(o)
    BY <1>6, NobodyWaits DEF QueueInv, SomebodyWaits
  <2>4. QED BY <2>1, <2>2, <2>3
<1>7. QED BY <1>5, <1>6 DEF WakeOne

(* An item more, and one receiver more on its way. *)
LEMMA FillKeeps ==
  ASSUME QueueInv, NEW t \in Tasks, NEW at \in CallPlaces, Executes(t, at),
         NEW q \in Queues, at # "run" => obj[t] = SendWait(q),
         WakeOne(RecvWait(q)), Returns(t), Rings', count' = [count EXCEPT ![q] = @ + 1]
  PROVE  QueueInv'
<1>1. PICK x \in Tasks \cup {Null} : KernelInv(x)
  BY DEF QueueInv, Sound
<1>2. /\ Sound' /\ \A u \in Tasks : Caller(u)'
      /\ \A p \in Objects : /\ SomebodyWaits(p)' => SomebodyWaits(p)
                            /\ OnTheWay(p) \ {t} \subseteq OnTheWay(p)'
      /\ SomebodyWaits(RecvWait(q))' => OnTheWay(RecvWait(q))' \ OnTheWay(RecvWait(q)) # {}
  BY QueueNames, WakeKeeps
<1>3. \A p \in Objects \ {SendWait(q)} : t \notin OnTheWay(p)
  <2>1. obj[t] \in {Null, SendWait(q)}
    BY <1>1, Acting
  <2>2. QED BY <2>1, NanoAssumption DEF OnTheWay
<1>4. ASSUME NEW p \in Queues PROVE Coming(p)'
  <2> DEFINE R == RecvWait(p)
             S == SendWait(p)
  <2>1. R \in Objects /\ S \in Objects /\ R # SendWait(q) /\ (S = SendWait(q) <=> p = q)
        /\ Coming(p)
    BY QueueNames DEF RecvWait, SendWait, QueueInv
  <2>2. /\ count[p] \in Nat /\ Capacity \in Nat
        /\ count'[p] = IF p = q THEN count[p] + 1 ELSE count[p]
    BY QueueAssumption DEF QueueInv, Rings
  <2>3. /\ OnTheWay(R) \in SUBSET Tasks /\ OnTheWay(R)' \in SUBSET Tasks
        /\ OnTheWay(S) \in SUBSET Tasks /\ OnTheWay(S)' \in SUBSET Tasks
    BY DEF OnTheWay
  <2>4. /\ Number(R) \in Nat /\ Number(R)' \in Nat
        /\ OnTheWay(R) \subseteq OnTheWay(R)' => Number(R) <= Number(R)'
        /\ OnTheWay(R) \subseteq OnTheWay(R)' /\ OnTheWay(R)' \ OnTheWay(R) # {}
             => Number(R) + 1 <= Number(R)'
    BY <2>3, Counting DEF Number
  <2>5. /\ Number(S) \in Nat /\ Number(S)' \in Nat
        /\ OnTheWay(S) \subseteq OnTheWay(S)' => Number(S) <= Number(S)'
        /\ OnTheWay(S) \ {t} \subseteq OnTheWay(S)' => Number(S) - 1 <= Number(S)'
    BY <2>3, Counting DEF Number
  <2>6. SomebodyWaits(R)' => count'[p] <= Number(R)'
    <3>1. OnTheWay(R) \subseteq OnTheWay(R)' /\ (SomebodyWaits(R)' => SomebodyWaits(R))
      BY <1>2, <1>3, <2>1
    <3>2. p = q => R = RecvWait(q)
      OBVIOUS
    <3> HIDE DEF R, S
    <3>3. SomebodyWaits(R) => count[p] <= Number(R)
      BY <2>1 DEF Coming, R
    <3>4. CASE p = q
      BY <1>2, <2>2, <2>4, <3>1, <3>2, <3>3, <3>4
    <3>5. CASE p # q
      BY <2>2, <2>4, <3>1, <3>3, <3>5
    <3>6. QED BY <3>4, <3>5
  <2>7. SomebodyWaits(S)' => Capacity - count'[p] <= Number(S)'
    <3>1. /\ OnTheWay(S) \ {t} \subseteq OnTheWay(S)' /\ (SomebodyWaits(S)' => SomebodyWaits(S))
          /\ p # q => OnTheWay(S) \subseteq OnTheWay(S)'
      BY <1>2, <1>3, <2>1
    <3> HIDE DEF R, S
    <3>2. SomebodyWaits(S) => Capacity - count[p] <= Number(S)
      BY <2>1 DEF Coming, S
    <3>3. QED BY <2>2, <2>5, <3>1, <3>2
  <2>8. QED BY <2>6, <2>7 DEF Coming
<1>5. QED BY <1>2, <1>4 DEF QueueInv

(* An item less, and one sender more on its way. *)
LEMMA DrainKeeps ==
  ASSUME QueueInv, NEW t \in Tasks, NEW at \in CallPlaces, Executes(t, at),
         NEW q \in Queues, at # "run" => obj[t] = RecvWait(q),
         WakeOne(SendWait(q)), Returns(t), Rings', count' = [count EXCEPT ![q] = @ - 1]
  PROVE  QueueInv'
<1>1. PICK x \in Tasks \cup {Null} : KernelInv(x)
  BY DEF QueueInv, Sound
<1>2. /\ Sound' /\ \A u \in Tasks : Caller(u)'
      /\ \A p \in Objects : /\ SomebodyWaits(p)' => SomebodyWaits(p)
                            /\ OnTheWay(p) \ {t} \subseteq OnTheWay(p)'
      /\ SomebodyWaits(SendWait(q))' => OnTheWay(SendWait(q))' \ OnTheWay(SendWait(q)) # {}
  BY QueueNames, WakeKeeps
<1>3. \A p \in Objects \ {RecvWait(q)} : t \notin OnTheWay(p)
  <2>1. obj[t] \in {Null, RecvWait(q)}
    BY <1>1, Acting
  <2>2. QED BY <2>1, NanoAssumption DEF OnTheWay
<1>4. ASSUME NEW p \in Queues PROVE Coming(p)'
  <2> DEFINE R == RecvWait(p)
             S == SendWait(p)
  <2>1. R \in Objects /\ S \in Objects /\ S # RecvWait(q) /\ (R = RecvWait(q) <=> p = q)
        /\ Coming(p)
    BY QueueNames DEF RecvWait, SendWait, QueueInv
  <2>2. /\ count[p] \in Nat /\ Capacity \in Nat
        /\ count'[p] = IF p = q THEN count[p] - 1 ELSE count[p]
    BY QueueAssumption DEF QueueInv, Rings
  <2>3. /\ OnTheWay(R) \in SUBSET Tasks /\ OnTheWay(R)' \in SUBSET Tasks
        /\ OnTheWay(S) \in SUBSET Tasks /\ OnTheWay(S)' \in SUBSET Tasks
    BY DEF OnTheWay
  <2>4. /\ Number(S) \in Nat /\ Number(S)' \in Nat
        /\ OnTheWay(S) \subseteq OnTheWay(S)' => Number(S) <= Number(S)'
        /\ OnTheWay(S) \subseteq OnTheWay(S)' /\ OnTheWay(S)' \ OnTheWay(S) # {}
             => Number(S) + 1 <= Number(S)'
    BY <2>3, Counting DEF Number
  <2>5. /\ Number(R) \in Nat /\ Number(R)' \in Nat
        /\ OnTheWay(R) \subseteq OnTheWay(R)' => Number(R) <= Number(R)'
        /\ OnTheWay(R) \ {t} \subseteq OnTheWay(R)' => Number(R) - 1 <= Number(R)'
    BY <2>3, Counting DEF Number
  <2>6. SomebodyWaits(S)' => Capacity - count'[p] <= Number(S)'
    <3>1. OnTheWay(S) \subseteq OnTheWay(S)' /\ (SomebodyWaits(S)' => SomebodyWaits(S))
      BY <1>2, <1>3, <2>1
    <3>2. p = q => S = SendWait(q)
      OBVIOUS
    <3> HIDE DEF R, S
    <3>3. SomebodyWaits(S) => Capacity - count[p] <= Number(S)
      BY <2>1 DEF Coming, S
    <3>4. CASE p = q
      BY <1>2, <2>2, <2>4, <3>1, <3>2, <3>3, <3>4
    <3>5. CASE p # q
      BY <2>2, <2>4, <3>1, <3>3, <3>5
    <3>6. QED BY <3>4, <3>5
  <2>7. SomebodyWaits(R)' => count'[p] <= Number(R)'
    <3>1. /\ OnTheWay(R) \ {t} \subseteq OnTheWay(R)' /\ (SomebodyWaits(R)' => SomebodyWaits(R))
          /\ p # q => OnTheWay(R) \subseteq OnTheWay(R)'
      BY <1>2, <1>3, <2>1
    <3> HIDE DEF R, S
    <3>2. SomebodyWaits(R) => count[p] <= Number(R)
      BY <2>1 DEF Coming, R
    <3>3. QED BY <2>2, <2>5, <3>1, <3>2
  <2>8. QED BY <2>6, <2>7 DEF Coming
<1>5. QED BY <1>2, <1>4 DEF QueueInv

(* Nothing is stored or taken where somebody waits: the signalled tasks    *)
(* are still on their way, but perhaps for an object with nothing to offer. *)
Settled(p) == \A q \in Queues : /\ p = RecvWait(q) => count[q] = 0
                                /\ p = SendWait(q) => count[q] >= Capacity
StillComing(p) == /\ SomebodyWaits(p)' => SomebodyWaits(p)
                  /\ OnTheWay(p) \subseteq OnTheWay(p)'

Lingering == \A p \in Objects : Settled(p) \/ StillComing(p)
Served(q) == ~SomebodyWaits(RecvWait(q)) /\ ~SomebodyWaits(SendWait(q))
Unfilled == \A q \in Queues : count'[q] = count[q] \/ Served(q)'
Callers == \A u \in Tasks : Caller(u)

LEMMA CountsStay ==
  ASSUME QueueInv, Sound', Callers', Rings', Unfilled, Lingering
  PROVE  QueueInv'
<1>1. ASSUME NEW q \in Queues, count'[q] = count[q] PROVE Coming(q)'
  <2>r. PICK R \in Objects : R = RecvWait(q)
    BY QueueNames
  <2>s. PICK S \in Objects : S = SendWait(q)
    BY QueueNames
  <2>1. /\ R \in Objects /\ S \in Objects /\ Coming(q)
        /\ Settled(R) => count[q] = 0
        /\ Settled(S) => count[q] >= Capacity
    BY <2>r, <2>s DEF QueueInv, Settled
  <2>2. count[q] \in Nat /\ Capacity \in Nat /\ count'[q] = count[q]
    BY <1>1, QueueAssumption DEF QueueInv, Rings
  <2>3. ASSUME NEW p \in {R, S}
        PROVE  /\ Number(p) \in Nat /\ Number(p)' \in Nat
               /\ OnTheWay(p) \subseteq OnTheWay(p)' => Number(p) <= Number(p)'
    <3>1. OnTheWay(p) \in SUBSET Tasks /\ OnTheWay(p)' \in SUBSET Tasks
      BY DEF OnTheWay
    <3>2. QED BY <3>1, Counting DEF Number
  <2>4. SomebodyWaits(R)' => count'[q] <= Number(R)'
    <3>1. Settled(R) => count[q] = 0
      BY <2>1
    <3>2. StillComing(R) => /\ SomebodyWaits(R)' => SomebodyWaits(R)
                            /\ Number(R) <= Number(R)'
      BY <2>3 DEF StillComing
    <3>3. Number(R) \in Nat /\ Number(R)' \in Nat
      BY <2>3
    <3>4. Settled(R) \/ StillComing(R)
      BY DEF Lingering
    <3>5. SomebodyWaits(R) => count[q] <= Number(R)
      BY <2>1, <2>r, <2>s DEF Coming
    <3>6. QED BY <2>2, <3>1, <3>2, <3>3, <3>4, <3>5
  <2>5. SomebodyWaits(S)' => Capacity - count'[q] <= Number(S)'
    <3>1. Settled(S) => count[q] >= Capacity
      BY <2>1
    <3>2. StillComing(S) => /\ SomebodyWaits(S)' => SomebodyWaits(S)
                            /\ Number(S) <= Number(S)'
      BY <2>3 DEF StillComing
    <3>3. Number(S) \in Nat /\ Number(S)' \in Nat
      BY <2>3
    <3>4. Settled(S) \/ StillComing(S)
      BY DEF Lingering
    <3>5. SomebodyWaits(S) => Capacity - count[q] <= Number(S)
      BY <2>1, <2>r, <2>s DEF Coming
    <3>6. QED BY <2>2, <3>1, <3>2, <3>3, <3>4, <3>5
  <2>6. QED BY <2>r, <2>s, <2>4, <2>5 DEF Coming
<1>2. ASSUME NEW q \in Queues, count'[q] # count[q] PROVE Coming(q)'
  <2>1. Served(q)'
    BY <1>2 DEF Unfilled
  <2>2. QED BY <2>1 DEF Served, Coming
<1>3. QED BY <1>1, <1>2 DEF QueueInv, Callers

(* A step of the kernel leaves the calls to their tasks. *)
LEMMA KernelKeepsCalls ==
  ASSUME QueueInv, Disciplined, BootOnly, KernelNext, count' = count, Rings'
  PROVE  QueueInv'
<1>1. PICK x \in Tasks \cup {Null} : KernelInv(x)
  BY DEF QueueInv, Sound
<1>2. Sound'
  BY StepSound DEF QueueInv
<1>3. Calls /\ Booting /\ Null \notin Objects /\ Objects \cap Tasks = {}
  BY <1>1, NanoAssumption DEF KernelInv, Control
<1>4. ASSUME NEW t \in Tasks
      PROVE  /\ Caller(t)'
             /\ \A p \in Objects :
                  /\ state'[t] = "BLOCKED" /\ obj'[t] = p => state[t] = "BLOCKED" /\ obj[t] = p
                  /\ t \in OnTheWay(p) => t \in OnTheWay(p)'
  <2>1. CallKept(t)
    BY <1>1, CallsKept
  <2>2. TaskCreate(t) => Away(t)
    <3>1. TaskCreate(t) => currentTask = Null
      BY DEF TaskCreate, Creating, BootOnly
    <3>2. QED BY <1>3, <3>1 DEF Booting, Calls, Away
  <2>3. CASE Away(t)
    <3>1. Away(t)' /\ (state'[t] = "BLOCKED" => obj'[t] = Null)
      BY <2>1, <2>3 DEF CallKept, StaysAway
    <3>2. Caller(t)'
      BY <3>1 DEF Caller, Away
    <3>3. obj[t] \notin Objects
      <4>1. obj[t] = Null \/ pc[t] = "resume"
        BY <1>3, <2>3 DEF Calls, Away
      <4>2. pc[t] = "resume" => obj[t] \in Tasks
        BY <1>3, NanoAssumption DEF Calls
      <4>3. QED BY <1>3, <4>1, <4>2
    <3>4. QED BY <1>3, <3>1, <3>2, <3>3 DEF OnTheWay
  <2>4. CASE ~Away(t)
    <3>1. Caller(t) /\ obj[t] \in Objects
      BY <2>4 DEF QueueInv, Caller
    <3>2. StaysIn(t)
      BY <2>1, <2>2, <2>4, <3>1 DEF CallKept
    <3>3. /\ then'[t] \in {"run", "sendCheck", "recvCheck"}
          /\ pc'[t] = "send" => pc[t] = "send"
      BY <3>1, <3>2 DEF StaysIn, Passes, Caller
    <3>4. /\ obj'[t] = obj[t] /\ wakeReason'[t] = wakeReason[t]
          /\ state'[t] = "BLOCKED" <=> state[t] = "BLOCKED"
      BY <3>2 DEF StaysIn
    <3>5. Caller(t)'
      BY <3>1, <3>3, <3>4 DEF Caller
    <3>6. QED BY <3>3, <3>4, <3>5 DEF OnTheWay
  <2>5. QED BY <2>3, <2>4
<1>5. ASSUME NEW p \in Objects PROVE StillComing(p)
  <2>1. SomebodyWaits(p)' => SomebodyWaits(p)
    BY <1>4 DEF SomebodyWaits
  <2>2. OnTheWay(p) \subseteq Tasks
    BY DEF OnTheWay
  <2>3. OnTheWay(p) \subseteq OnTheWay(p)'
    BY <1>4, <2>2
  <2>4. QED BY <2>1, <2>3 DEF StillComing
<1>6. \A u \in Tasks : Caller(u)'
  BY <1>4
<1>7. \A q \in Queues : count'[q] = count[q]
  OBVIOUS
<1>8. Callers' /\ Lingering /\ Unfilled
  <2>1. Callers'
    BY <1>6 DEF Callers
  <2>2. Lingering
    BY <1>5 DEF Lingering
  <2>3. Unfilled
    BY <1>7 DEF Unfilled
  <2>4. QED BY <2>1, <2>2, <2>3
<1>9. QED BY <1>2, <1>8, CountsStay

(* A call joins a wait queue: it has found nothing to take. *)
LEMMA WaitingKeeps ==
  ASSUME QueueInv, NoTimeouts, NEW t \in Tasks, NEW at \in {"run", "send"}, Executes(t, at),
         NEW o \in Objects, NEW goal \in {"sendCheck", "recvCheck"},
         Block(t, links, priority, o, o, goal), Settled(o), Rings',
         UNCHANGED <<priority, basePriority, schedVars, count>>
  PROVE  QueueInv'
<1>1. PICK x \in Tasks \cup {Null} : KernelInv(x)
  BY DEF QueueInv, Sound
<1>2. Types /\ Fresh(x) /\ Null \notin Objects
  BY <1>1, NanoAssumption DEF KernelInv
<1>3. state[t] = "RUNNING" /\ pc[t] = at /\ (at = "run" => obj[t] = Null)
  <2>1. at \in CallPlaces
    BY DEF CallPlaces
  <2>2. QED BY <1>1, <2>1, Acting
<1>4. /\ pc' = [pc EXCEPT ![t] = "request"] /\ then' = [then EXCEPT ![t] = goal]
      /\ obj' = [obj EXCEPT ![t] = o] /\ state' = [state EXCEPT ![t] = "BLOCKED"]
      /\ wakeReason' = wakeReason
  BY DEF Block, Goto, timeVars, NoTimeouts
<1>5. Sound'
  <2>1. /\ t \notin Timed /\ at \in Places \ {"request", "ecall"}
        /\ goal \in Places \ {"run", "request", "ecall", "resume"}
    BY DEF NoTimeouts, Places
  <2>2. /\ priority \in [Tasks -> Nat] /\ Others(links, links, Apart)
        /\ Housed(links, ListNames, Home(x, state, priority, obj))
        /\ x # Null => \A u \in Tasks \ {x} : Level(priority[u]) # Top(x)
    BY <1>1, <1>2 DEF Types, KernelTypeOK, Others, KernelInv, Fresh
  <2>3. priority' = priority /\ UNCHANGED <<basePriority, schedVars>>
    OBVIOUS
  <2>4. KernelInv(Null)'
    BY <1>1, <2>1, <2>2, <2>3, WaitKeeps
  <2>5. QED BY <2>4 DEF Sound
<1>6. /\ \A u \in Tasks \ {t} : /\ pc'[u] = pc[u] /\ then'[u] = then[u] /\ obj'[u] = obj[u]
                                /\ state'[u] = state[u]
      /\ pc'[t] = "request" /\ then'[t] = goal /\ obj'[t] = o
  BY <1>2, <1>4 DEF Types, KernelTypeOK
<1>7. ASSUME NEW u \in Tasks PROVE Caller(u)'
  <2>1. CASE u = t
    BY <1>6, <2>1 DEF Caller
  <2>2. CASE u # t
    BY <1>6, <2>2 DEF QueueInv, Caller, Away
  <2>3. QED BY <2>1, <2>2
<1>8. ASSUME NEW p \in Objects PROVE Settled(p) \/ StillComing(p)
  <2>1. CASE p = o
    BY <2>1
  <2>2. CASE p # o
    <3>1. SomebodyWaits(p)' => SomebodyWaits(p)
      BY <1>6, <2>2 DEF SomebodyWaits
    <3>2. t \notin OnTheWay(p)
      BY <1>2, <1>3 DEF OnTheWay
    <3>3. OnTheWay(p) \subseteq OnTheWay(p)'
      BY <1>4, <1>6, <3>2 DEF OnTheWay
    <3>4. QED BY <3>1, <3>3 DEF StillComing
  <2>3. QED BY <2>1, <2>2
<1>9. \A q \in Queues : count'[q] = count[q]
  OBVIOUS
<1>10. Callers' /\ Lingering /\ Unfilled
  <2>1. Callers'
    BY <1>7 DEF Callers
  <2>2. Lingering
    BY <1>8 DEF Lingering
  <2>3. Unfilled
    BY <1>9 DEF Unfilled
  <2>4. QED BY <2>1, <2>2, <2>3
<1>11. QED BY <1>5, <1>10, CountsStay

(* A call only goes on to another place of its code. *)
LEMMA MovesOn ==
  ASSUME QueueInv, NEW t \in Tasks, NEW at \in CallPlaces, Executes(t, at),
         NEW to \in {"run", "send", "sendRetry", "recvRetry"},
         NEW ob \in Objects \cup {Null}, to = "run" <=> ob = Null,
         pc' = [pc EXCEPT ![t] = to], obj' = [obj EXCEPT ![t] = ob],
         UNCHANGED <<priority, basePriority, ticksLeft, currentTask, taskCount, then>>,
         UNCHANGED <<links, state, wakeReason, switchPending, count>>, Rings',
         \A p \in Objects : t \in OnTheWay(p) => Settled(p) \/ (ob = p /\ to # "send")
  PROVE  QueueInv'
<1>1. PICK x \in Tasks \cup {Null} : KernelInv(x)
  BY DEF QueueInv, Sound
<1>2. Types /\ state[t] = "RUNNING"
  BY <1>1, Acting DEF KernelInv
<1>3. /\ \A u \in Tasks \ {t} : pc'[u] = pc[u] /\ obj'[u] = obj[u]
      /\ pc'[t] = to /\ obj'[t] = ob
  BY <1>2 DEF Types
<1>4. Sound' /\ \A u \in Tasks : Caller(u)'
  <2>1. Housed(links', ListNames, Home(x, state', priority, obj))
    BY <1>1 DEF KernelInv
  <2>2. /\ state' \in [Tasks -> States] /\ switchPending' \in BOOLEAN
        /\ wakeReason' \in [Tasks -> {"NONE", "SIGNALED", "TIMEOUT"}]
        /\ \A u \in Tasks :
             state'[u] # state[u] => state[u] = "BLOCKED" /\ state'[u] = "READY"
        /\ Chain(links', Delayed) = Chain(links, Delayed)
    BY <1>2 DEF Types, KernelTypeOK
  <2>3. QED BY <1>1, <2>1, <2>2, GoesOn
<1>5. ASSUME NEW p \in Objects PROVE Settled(p) \/ StillComing(p)
  <2>1. SUFFICES ASSUME ~Settled(p) PROVE StillComing(p)
    OBVIOUS
  <2>2. SomebodyWaits(p)' => SomebodyWaits(p)
    BY <1>2, <1>3 DEF SomebodyWaits
  <2>3. t \in OnTheWay(p) => ob = p /\ to # "send"
    BY <2>1
  <2>4. OnTheWay(p) \subseteq OnTheWay(p)'
    BY <1>3, <2>3 DEF OnTheWay
  <2>5. QED BY <2>2, <2>4 DEF StillComing
<1>6. \A q \in Queues : count'[q] = count[q]
  OBVIOUS
<1>7. Callers' /\ Lingering /\ Unfilled
  <2>1. Callers'
    BY <1>4 DEF Callers
  <2>2. Lingering
    BY <1>5 DEF Lingering
  <2>3. Unfilled
    BY <1>6 DEF Unfilled
  <2>4. QED BY <2>1, <2>2, <2>3
<1>8. QED BY <1>4, <1>7, CountsStay

(* Nobody is left waiting for a queue that was reset. *)
LEMMA ResetKeeps ==
  ASSUME QueueInv, NEW t \in Tasks, NEW q \in Queues, QueueReset(t, q), Rings'
  PROVE  QueueInv'
<1>1. PICK x \in Tasks \cup {Null} : KernelInv(x)
  BY DEF QueueInv, Sound
<1>2. /\ Executes(t, "run") /\ count' = [count EXCEPT ![q] = 0] /\ WakeAll(q)
      /\ UNCHANGED <<priority, basePriority, ticksLeft, schedVars, callVars>>
  BY DEF QueueReset
<1>3. /\ Types /\ state[t] = "RUNNING" /\ pc[t] = "run" /\ obj[t] = Null
      /\ "run" \in CallPlaces
  <2>1. "run" \in CallPlaces
    BY DEF CallPlaces
  <2>2. QED BY <1>1, <1>2, <2>1, Acting DEF KernelInv
<1>4. /\ Housed(links', ListNames, Home(x, state', priority, obj))
      /\ Chain(links', Delayed) = Chain(links, Delayed)
      /\ state' \in [Tasks -> States]
      /\ wakeReason' \in [Tasks -> {"NONE", "SIGNALED", "TIMEOUT"}]
      /\ \A u \in Tasks : Waited(q, u) => state'[u] = "READY"
      /\ \A u \in Tasks : ~Waited(q, u) => /\ state'[u] = state[u]
                                           /\ wakeReason'[u] = wakeReason[u]
  BY <1>1, <1>2, ResetWakes
<1>5. UNCHANGED <<pc, obj, then, currentTask, switchPending, taskCount>>
  BY <1>2 DEF schedVars, callVars
<1>6. Sound' /\ \A u \in Tasks : Caller(u)'
  <2>1. /\ pc' = [pc EXCEPT ![t] = "run"] /\ obj' = [obj EXCEPT ![t] = Null]
        /\ switchPending' \in BOOLEAN
    BY <1>3, <1>5 DEF Types, KernelTypeOK
  <2>2. \A u \in Tasks : state'[u] # state[u] => state[u] = "BLOCKED" /\ state'[u] = "READY"
    BY <1>4 DEF Waited
  <2>3. /\ "run" \in {"run", "send", "sendRetry", "recvRetry"}
        /\ Null \in Objects \cup {Null} /\ ("run" = "run" <=> Null = Null)
        /\ UNCHANGED <<priority, basePriority, ticksLeft, currentTask, taskCount, then>>
    BY <1>2, <1>5
  <2>4. QED BY <1>1, <1>2, <1>3, <1>4, <2>1, <2>2, <2>3, GoesOn
<1>7. ASSUME NEW p \in Objects PROVE StillComing(p)
  <2>1. SomebodyWaits(p)' => SomebodyWaits(p)
    BY <1>4, <1>5 DEF SomebodyWaits
  <2>2. OnTheWay(p) \subseteq OnTheWay(p)'
    BY <1>4, <1>5 DEF OnTheWay, Waited
  <2>3. QED BY <2>1, <2>2 DEF StillComing
<1>8. Served(q)'
  <2>1. \A u \in Tasks : state'[u] = "BLOCKED" => obj'[u] \notin {SendWait(q), RecvWait(q)}
    BY <1>4, <1>5 DEF Waited
  <2>2. QED BY <2>1 DEF Served, SomebodyWaits
<1>9. \A p \in Queues : count'[p] = count[p] \/ Served(p)'
  BY <1>2, <1>8 DEF QueueInv, Rings
<1>10. Callers' /\ Lingering /\ Unfilled
  <2>1. Callers'
    BY <1>6 DEF Callers
  <2>2. Lingering
    BY <1>7 DEF Lingering
  <2>3. Unfilled
    BY <1>9 DEF Unfilled
  <2>4. QED BY <2>1, <2>2, <2>3
<1>11. QED BY <1>6, <1>10, CountsStay

LEMMA SettledWhen ==
  ASSUME NEW q \in Queues
  PROVE  /\ count[q] >= Capacity => Settled(SendWait(q))
         /\ count[q] = 0 => Settled(RecvWait(q))
BY DEF Settled, SendWait, RecvWait

(* A task that is at the start of a call is signalled for nothing. *)
LEMMA NotComing ==
  ASSUME QueueInv, NEW t \in Tasks, NEW at \in CallPlaces, Executes(t, at), NEW p \in Objects,
         t \in OnTheWay(p)
  PROVE  obj[t] = p /\ at \notin {"run", "send"} /\ wakeReason[t] = "SIGNALED"
<1>1. PICK x \in Tasks \cup {Null} : KernelInv(x)
  BY DEF QueueInv, Sound
<1>2. pc[t] = at /\ (at = "run" => obj[t] = Null)
  BY <1>1, Acting
<1>3. QED BY <1>2, NanoAssumption DEF OnTheWay

LEMMA CheckKeeps ==
  ASSUME QueueInv, NEW t \in Tasks, Rings',
         NEW at \in {"sendCheck", "recvCheck"}, NEW retry \in {"sendRetry", "recvRetry"},
         QueueCheck(t, at, retry)
  PROVE  QueueInv'
<1> DEFINE signalled == wakeReason[t] = "SIGNALED"
           to == IF signalled THEN retry ELSE "run"
           ob == IF signalled THEN obj[t] ELSE Null
<1>1. PICK x \in Tasks \cup {Null} : KernelInv(x)
  BY DEF QueueInv, Sound
<1>2. /\ Executes(t, at) /\ LeaveQueue(t, obj[t], ~signalled)
      /\ pc' = [pc EXCEPT ![t] = to]
      /\ obj' = [obj EXCEPT ![t] = IF signalled THEN @ ELSE Null]
      /\ UNCHANGED <<state, priority, basePriority, schedVars, timeVars, then, queueVars>>
  BY DEF QueueCheck, Goto
<1>3. at \in CallPlaces /\ at # "run"
  BY DEF CallPlaces
<1>4. state[t] = "RUNNING" /\ obj[t] \in Objects /\ Types
  BY <1>1, <1>2, <1>3, Acting DEF KernelInv
<1>5. links' = links
  BY <1>1, <1>2, <1>4, LeaveNothing
<1>6. obj' = [obj EXCEPT ![t] = ob]
  BY <1>2, <1>4 DEF Types
<1>7. /\ UNCHANGED <<priority, basePriority, ticksLeft, currentTask, taskCount, then>>
      /\ UNCHANGED <<links, state, wakeReason, switchPending, count>>
  BY <1>2, <1>5 DEF schedVars, timeVars, queueVars, ringVars
<1>8. /\ to \in {"run", "send", "sendRetry", "recvRetry"} /\ ob \in Objects \cup {Null}
      /\ to = "run" <=> ob = Null
  BY <1>4, NanoAssumption
<1>9. \A p \in Objects : t \in OnTheWay(p) => Settled(p) \/ (ob = p /\ to # "send")
  BY <1>2, <1>3, NotComing
<1> HIDE DEF to, ob
<1>10. QED BY <1>2, <1>3, <1>6, <1>7, <1>8, <1>9, MovesOn

(* A second attempt that finds nothing. *)
LEMMA MissKeeps ==
  ASSUME QueueInv, NEW t \in Tasks, Rings', NEW at \in CallPlaces, Executes(t, at),
         NEW o \in Objects, obj[t] = o, Settled(o), Returns(t),
         UNCHANGED <<links, state, wakeReason, switchPending, count>>
  PROVE  QueueInv'
<1>1. /\ pc' = [pc EXCEPT ![t] = "run"] /\ obj' = [obj EXCEPT ![t] = Null]
      /\ UNCHANGED <<priority, basePriority, ticksLeft, currentTask, taskCount, then>>
  BY DEF Returns, Goto
<1>2. \A p \in Objects : t \in OnTheWay(p) => Settled(p) \/ (Null = p /\ "run" # "send")
  BY DEF OnTheWay
<1>3. /\ "run" \in {"run", "send", "sendRetry", "recvRetry"}
      /\ Null \in Objects \cup {Null} /\ ("run" = "run" <=> Null = Null)
  OBVIOUS
<1>4. QED BY <1>1, <1>2, <1>3, MovesOn

(* The full queue_send_front goes on as queue_send. *)
LEMMA FrontWaits ==
  ASSUME QueueInv, NEW t \in Tasks, Rings', Executes(t, "run"), NEW o \in Objects,
         pc' = [pc EXCEPT ![t] = "send"], obj' = [obj EXCEPT ![t] = o],
         UNCHANGED <<listVars, schedVars, timeVars, then, count>>
  PROVE  QueueInv'
<1>1. /\ UNCHANGED <<priority, basePriority, ticksLeft, currentTask, taskCount, then>>
      /\ UNCHANGED <<links, state, wakeReason, switchPending, count>>
  BY DEF listVars, schedVars, timeVars
<1>2. "run" \in CallPlaces
  BY DEF CallPlaces
<1>3. \A p \in Objects : t \in OnTheWay(p) => Settled(p) \/ (o = p /\ "send" # "send")
  BY <1>2, NotComing
<1>4. /\ "send" \in {"run", "send", "sendRetry", "recvRetry"}
      /\ o \in Objects \cup {Null} /\ ("send" = "run" <=> o = Null)
  BY NanoAssumption
<1>5. QED BY <1>1, <1>2, <1>3, <1>4, MovesOn

LEMMA IdleKeeps ==
  ASSUME QueueInv, UNCHANGED kernelVars, count' = count, Rings'
  PROVE  QueueInv'
<1>1. Sound'
  <2>1. PICK x \in Tasks \cup {Null} : KernelInv(x)
    BY DEF QueueInv, Sound
  <2>2. KernelInv(x)'
    BY <2>1, StutterKeeps DEF Keeps
  <2>3. QED BY <2>2 DEF Sound
<1>2. UNCHANGED <<state, obj, wakeReason, pc, then>>
  BY DEF kernelVars, listVars, timeVars, callVars
<1>3. Callers'
  <2>1. \A u \in Tasks : Caller(u)'
    BY <1>2 DEF QueueInv, Caller, Away
  <2>2. QED BY <2>1 DEF Callers
<1>4. Lingering
  <2>1. ASSUME NEW p \in Objects PROVE StillComing(p)
    BY <1>2 DEF StillComing, SomebodyWaits, OnTheWay
  <2>2. QED BY <2>1 DEF Lingering
<1>5. Unfilled
  BY DEF Unfilled
<1>6. QED BY <1>1, <1>3, <1>4, <1>5, CountsStay

LEMMA QueueStepKeeps ==
  ASSUME QueueInv, Disciplined, NoTimeouts, BootOnly, [QueueNext]_vars
  PROVE  QueueInv'
<1>1. Rings'
  BY CallsMoveRings, FifoStep DEF QueueInv
<1>2. CASE KernelNext /\ UNCHANGED queueVars
  BY <1>1, <1>2, KernelKeepsCalls DEF queueVars, ringVars
<1>3. CASE UNCHANGED vars
  BY <1>1, <1>3, IdleKeeps DEF vars, queueVars, ringVars
<1>4. ASSUME NEW t \in Tasks, SendCheck(t) \/ RecvCheck(t) PROVE QueueInv'
  <2>1. CASE SendCheck(t)
    BY <1>1, <2>1, CheckKeeps DEF SendCheck
  <2>2. CASE RecvCheck(t)
    BY <1>1, <2>2, CheckKeeps DEF RecvCheck
  <2>3. QED BY <1>4, <2>1, <2>2
<1>5. ASSUME NEW t \in Tasks, NEW q \in Queues, NEW item \in Items, QueueSend(t, q, item)
      PROVE  QueueInv'
  <2>1. /\ SendWait(q) \in Objects /\ RecvWait(q) \in Objects
        /\ {"run", "send"} \subseteq CallPlaces
    BY QueueNames DEF CallPlaces
  <2>2. PICK at \in {"run", "send"} : Executes(t, at) /\ (at = "send" => obj[t] = SendWait(q))
    BY <1>5 DEF QueueSend
  <2>3. at \in CallPlaces /\ (at # "run" => obj[t] = SendWait(q))
    BY <2>1, <2>2
  <2>4. CASE Deposit(t, q, item)
    <3>1. /\ WakeOne(RecvWait(q)) /\ Returns(t) /\ count' = [count EXCEPT ![q] = @ + 1]
      BY <2>4 DEF Deposit
    <3>2. QED BY <1>1, <2>2, <2>3, <3>1, FillKeeps
  <2>5. CASE ~Deposit(t, q, item)
    <3>1. /\ count[q] >= Capacity
          /\ Block(t, links, priority, SendWait(q), SendWait(q), "sendCheck")
          /\ UNCHANGED <<priority, basePriority, schedVars, count>>
      BY <1>5, <2>5 DEF QueueSend, ringVars
    <3>2. Settled(SendWait(q))
      BY <3>1, SettledWhen
    <3>3. QED BY <1>1, <2>1, <2>2, <3>1, <3>2, WaitingKeeps
  <2>6. QED BY <2>4, <2>5
<1>6. ASSUME NEW t \in Tasks, NEW q \in Queues, NEW item \in Items, QueueSendFront(t, q, item)
      PROVE  QueueInv'
  <2>1. Executes(t, "run") /\ SendWait(q) \in Objects /\ "run" \in CallPlaces
    BY <1>6, QueueNames DEF QueueSendFront, CallPlaces
  <2>2. CASE count[q] < Capacity /\ WakeOne(RecvWait(q)) /\ Returns(t)
             /\ count' = [count EXCEPT ![q] = @ + 1]
    BY <1>1, <2>1, <2>2, FillKeeps
  <2>3. CASE /\ pc' = [pc EXCEPT ![t] = "send"] /\ obj' = [obj EXCEPT ![t] = SendWait(q)]
             /\ UNCHANGED <<listVars, schedVars, timeVars, then, count>>
    BY <1>1, <2>1, <2>3, FrontWaits
  <2>4. QED BY <1>6, <2>2, <2>3 DEF QueueSendFront, Goto, ringVars
<1>7. ASSUME NEW t \in Tasks, NEW q \in Queues, QueueReceive(t, q) PROVE QueueInv'
  <2>1. /\ Executes(t, "run") /\ RecvWait(q) \in Objects /\ "run" \in CallPlaces
        /\ "run" \in {"run", "send"} /\ "recvCheck" \in {"sendCheck", "recvCheck"}
    BY <1>7, QueueNames DEF QueueReceive, CallPlaces
  <2>2. CASE Withdraw(t, q)
    <3>1. WakeOne(SendWait(q)) /\ Returns(t) /\ count' = [count EXCEPT ![q] = @ - 1]
      BY <2>2 DEF Withdraw
    <3>2. QED BY <1>1, <2>1, <3>1, DrainKeeps
  <2>3. CASE ~Withdraw(t, q)
    <3>1. /\ count[q] = 0
          /\ Block(t, links, priority, RecvWait(q), RecvWait(q), "recvCheck")
          /\ UNCHANGED <<priority, basePriority, schedVars, count>>
      BY <1>7, <2>3 DEF QueueReceive, queueVars, ringVars
    <3>2. Settled(RecvWait(q))
      BY <3>1, SettledWhen
    <3>3. QED BY <1>1, <2>1, <3>1, <3>2, WaitingKeeps
  <2>4. QED BY <2>2, <2>3
<1>8. ASSUME NEW t \in Tasks, NEW q \in Queues, SendRetry(t, q) PROVE QueueInv'
  <2>1. /\ Executes(t, "sendRetry") /\ obj[t] = SendWait(q) /\ "sendRetry" \in CallPlaces
        /\ SendWait(q) \in Objects
    BY <1>8, QueueNames DEF SendRetry, CallPlaces
  <2>2. CASE Deposit(t, q, message[t])
    <3>1. /\ WakeOne(RecvWait(q)) /\ Returns(t) /\ count' = [count EXCEPT ![q] = @ + 1]
      BY <2>2 DEF Deposit
    <3>2. QED BY <1>1, <2>1, <3>1, FillKeeps
  <2>3. CASE ~Deposit(t, q, message[t])
    <3>1. /\ count[q] >= Capacity /\ Returns(t)
          /\ UNCHANGED <<links, state, wakeReason, switchPending, count>>
      BY <1>8, <2>3 DEF SendRetry, queueVars, ringVars
    <3>2. Settled(SendWait(q))
      BY <3>1, SettledWhen
    <3>3. QED BY <1>1, <2>1, <3>1, <3>2, MissKeeps
  <2>4. QED BY <2>2, <2>3
<1>9. ASSUME NEW t \in Tasks, NEW q \in Queues, RecvRetry(t, q) PROVE QueueInv'
  <2>1. /\ Executes(t, "recvRetry") /\ obj[t] = RecvWait(q) /\ "recvRetry" \in CallPlaces
        /\ RecvWait(q) \in Objects
    BY <1>9, QueueNames DEF RecvRetry, CallPlaces
  <2>2. CASE Withdraw(t, q)
    <3>1. WakeOne(SendWait(q)) /\ Returns(t) /\ count' = [count EXCEPT ![q] = @ - 1]
      BY <2>2 DEF Withdraw
    <3>2. QED BY <1>1, <2>1, <3>1, DrainKeeps
  <2>3. CASE ~Withdraw(t, q)
    <3>1. /\ count[q] = 0 /\ Returns(t)
          /\ UNCHANGED <<links, state, wakeReason, switchPending, count>>
      BY <1>9, <2>3 DEF RecvRetry, queueVars, ringVars
    <3>2. Settled(RecvWait(q))
      BY <3>1, SettledWhen
    <3>3. QED BY <1>1, <2>1, <3>1, <3>2, MissKeeps
  <2>4. QED BY <2>2, <2>3
<1>10. ASSUME NEW t \in Tasks, NEW q \in Queues, QueuePeek(t, q) PROVE QueueInv'
  BY <1>1, <1>10, IdleKeeps DEF QueuePeek, ringVars
<1>11. ASSUME NEW t \in Tasks, NEW q \in Queues, QueueReset(t, q) PROVE QueueInv'
  BY <1>1, <1>11, ResetKeeps
<1>12. QED
  BY <1>2, <1>3, <1>4, <1>5, <1>6, <1>7, <1>8, <1>9, <1>10, <1>11 DEF QueueNext, QueueStep

LEMMA QueueInitSound == QueueInit => QueueInv
<1> SUFFICES ASSUME QueueInit PROVE QueueInv
  OBVIOUS
<1>1. Init
  BY DEF QueueInit
<1>2. KernelInv(Null) /\ Sound /\ Rings
  BY <1>1, InitSound, FifoInit DEF Sound
<1>3. \A t \in Tasks : pc[t] = "run" /\ then[t] = "run" /\ state[t] # "BLOCKED"
  BY <1>1 DEF Init
<1>4. \A t \in Tasks : Caller(t)
  BY <1>3 DEF Caller, Away
<1>5. \A q \in Queues : Coming(q)
  BY <1>3 DEF Coming, SomebodyWaits
<1>6. QED BY <1>2, <1>4, <1>5 DEF QueueInv

LEMMA QueuesSound ==
  ASSUME Disciplined, NoTimeouts, BootOnly PROVE QueueSpec => []QueueInv
<1>1. QueueInit => QueueInv
  BY QueueInitSound
<1>2. QueueInv /\ [QueueNext]_vars => QueueInv'
  BY QueueStepKeeps
<1>3. QED BY <1>1, <1>2, PTL DEF QueueSpec

LEMMA WhoIsFirst ==
  ASSUME Sound, NEW o \in Objects, FirstWaiter(o) # Null PROVE SomebodyWaits(o)
<1>1. PICK x \in Tasks \cup {Null} : KernelInv(x)
  BY DEF Sound
<1> DEFINE s == Chain(links, WaitQueue(o))
<1>2. /\ Len(s) \in Nat /\ links.head[WaitQueue(o)] = At(s, 1)
      /\ \A i \in 1..Len(s) : s[i] \in Tasks
  <2>1. Housed(links, ListNames, Home(x, state, priority, obj)) /\ WaitQueue(o) \in ListNames
    BY <1>1, Names DEF KernelInv
  <2>2. QED BY <2>1, HousedList
<1> HIDE DEF s
<1>3. 1 \in 1..Len(s) /\ s[1] \in Tasks
  BY <1>2 DEF FirstWaiter, At
<1>4. On(links, WaitQueue(o), s[1])
  BY <1>3 DEF On, s
<1>5. QED BY <1>3, <1>4, SoundWaiters DEF WaitersQueued, SomebodyWaits

(* Who is blocked in a queue call is in its wait queue, and nobody else:   *)
(* queue_send and queue_receive, with and against queue_reset.             *)
THEOREM QueueWaitersQueued ==
  ASSUME Disciplined, NoTimeouts, BootOnly PROVE QueueSpec => []WaitersQueued
<1>1. QueueInv => WaitersQueued
  BY SoundWaiters DEF QueueInv
<1>2. QED BY <1>1, QueuesSound, PTL

(* No wakeup of a message queue is lost: while receivers wait, each item   *)
(* has a signalled receiver coming for it, and while senders wait, each    *)
(* free place a sender, however the calls of queue.c interleave.           *)
THEOREM NobodyStrands ==
  ASSUME Disciplined, NoTimeouts, BootOnly PROVE QueueSpec => []NobodyStranded
<1>1. QueueInv => NobodyStranded
  <2>1. SUFFICES ASSUME QueueInv, NEW q \in Queues
                 PROVE  /\ FirstWaiter(RecvWait(q)) # Null =>
                             count[q] <= Cardinality(OnTheWay(RecvWait(q)))
                        /\ FirstWaiter(SendWait(q)) # Null =>
                             Capacity - count[q] <= Cardinality(OnTheWay(SendWait(q)))
    BY DEF NobodyStranded
  <2>2. Sound /\ Coming(q) /\ SendWait(q) \in Objects /\ RecvWait(q) \in Objects
    BY <2>1, QueueNames DEF QueueInv
  <2>3. \A o \in Objects : FirstWaiter(o) # Null => SomebodyWaits(o)
    BY <2>2, WhoIsFirst
  <2>4. /\ FirstWaiter(RecvWait(q)) # Null => SomebodyWaits(RecvWait(q))
        /\ FirstWaiter(SendWait(q)) # Null => SomebodyWaits(SendWait(q))
    BY <2>2, <2>3
  <2>5. QED BY <2>2, <2>4 DEF Coming, Number
<1>2. QED BY <1>1, QueuesSound, PTL
=============================================================================
