----------------------------- MODULE ByteQueue ------------------------------
(***************************************************************************)
(* What the receive side of HardwareSerial promises (cores/esp8266/uart.cpp): *)
(* a queue of bytes between the wire and the sketch that may lose bytes but *)
(* never reorders, repeats or invents one.  A byte that arrives is queued  *)
(* or dropped; what is discarded later is always the oldest part of the    *)
(* queue (UART_DISCARD_NEWEST is not defined, uart.cpp:143-175); the       *)
(* sketch takes bytes from the front.                                      *)
(***************************************************************************)
EXTENDS Integers, Sequences, SequenceTheorems, TLAPS

CONSTANT MaxBytes     \* bound of the model: bytes that ever arrive

VARIABLES
    queue,       \* bytes that wait for the sketch
    arrived,     \* bytes that have arrived on the wire so far
    delivered    \* bytes the sketch has been given

qvars == <<queue, arrived, delivered>>

Front(k) == SubSeq(queue, 1, k)
Rest(k)  == SubSeq(queue, k + 1, Len(queue))

QInit == queue = <<>> /\ arrived = 0 /\ delivered = <<>>

Receive ==
    /\ arrived < MaxBytes
    /\ arrived' = arrived + 1
    /\ queue' = queue \/ queue' = Append(queue, arrived + 1)
    /\ UNCHANGED delivered

Discard(k) == queue' = Rest(k) /\ UNCHANGED <<arrived, delivered>>

Take(k) ==
    /\ delivered' = delivered \o Front(k)
    /\ queue' = Rest(k)
    /\ UNCHANGED arrived

QNext == Receive \/ \E k \in 1..Len(queue) : Discard(k) \/ Take(k)

QSpec == QInit /\ [][QNext]_qvars

-----------------------------------------------------------------------------

\* What the sketch has been given arrived, in that order and none twice.
InOrder ==
    /\ \A i \in 1..Len(delivered) : delivered[i] \in 1..arrived
    /\ \A i, j \in 1..Len(delivered) : i < j => delivered[i] < delivered[j]

\* The inductive invariant, of a queue q, a count a and a delivered sequence d:
\* the same of what waits, all of it younger than what has been delivered.
Ordered(q, a, d) ==
    /\ a \in Nat /\ q \in Seq(Nat) /\ d \in Seq(Nat)
    /\ \A i \in 1..Len(d) : d[i] \in 1..a
    /\ \A i, j \in 1..Len(d) : i < j => d[i] < d[j]
    /\ \A i \in 1..Len(q) : q[i] \in 1..a
    /\ \A i, j \in 1..Len(q) : i < j => q[i] < q[j]
    /\ \A i \in 1..Len(d), j \in 1..Len(q) : d[i] < q[j]

QInv == Ordered(queue, arrived, delivered)

\* The front and the rest of a sequence.
LEMMA Split ==
    ASSUME NEW s \in Seq(Nat), NEW k \in 1..Len(s)
    PROVE  /\ SubSeq(s, 1, k) \in Seq(Nat) /\ Len(SubSeq(s, 1, k)) = k
           /\ \A i \in 1..k : SubSeq(s, 1, k)[i] = s[i]
           /\ SubSeq(s, k + 1, Len(s)) \in Seq(Nat) /\ Len(SubSeq(s, k + 1, Len(s))) = Len(s) - k
           /\ \A i \in 1..(Len(s) - k) : SubSeq(s, k + 1, Len(s))[i] = s[k + i]
  <1>1. Len(s) \in Nat /\ \A i \in 1..Len(s) : s[i] \in Nat
    OBVIOUS
  <1>2. SubSeq(s, 1, k) = [i \in 1..k |-> s[i]]
    BY <1>1
  <1>3. SubSeq(s, k + 1, Len(s)) = [i \in 1..(Len(s) - k) |-> s[k + i]]
    BY <1>1
  <1> QED
    BY <1>1, <1>2, <1>3

LEMMA ReceiveOrdered ==
    ASSUME NEW q, NEW a, NEW d, Ordered(q, a, d)
    PROVE  Ordered(q, a + 1, d) /\ Ordered(Append(q, a + 1), a + 1, d)
  <1>1. a \in Nat /\ q \in Seq(Nat) /\ d \in Seq(Nat) /\ Len(q) \in Nat
    BY DEF Ordered
  <1>2. Ordered(q, a + 1, d)
    BY <1>1 DEF Ordered
  <1>3. PICK p : p = Append(q, a + 1)
    OBVIOUS
  <1>4. /\ p \in Seq(Nat) /\ Len(p) = Len(q) + 1 /\ p[Len(q) + 1] = a + 1
        /\ \A i \in 1..Len(q) : p[i] = q[i]
    BY <1>1, <1>3, AppendProperties
  <1>q. /\ \A i \in 1..Len(q) : q[i] \in 1..a
        /\ \A i, j \in 1..Len(q) : i < j => q[i] < q[j]
        /\ \A i \in 1..Len(d), j \in 1..Len(q) : d[i] < q[j]
        /\ \A i \in 1..Len(d) : d[i] \in 1..a
    BY DEF Ordered
  <1>5. ASSUME NEW i \in 1..Len(p)
        PROVE  \/ i \in 1..Len(q) /\ p[i] = q[i] /\ p[i] \in 1..a
               \/ i = Len(q) + 1 /\ p[i] = a + 1
    <2>1. CASE i = Len(q) + 1
      BY <1>4, <2>1
    <2>2. CASE i # Len(q) + 1
      <3>1. i \in 1..Len(q)
        BY <1>1, <1>4, <2>2
      <3> QED
        BY <1>4, <1>q, <3>1
    <2> QED
      BY <2>1, <2>2
  <1>6. \A i, j \in 1..Len(p) : i < j => p[i] < p[j]
    <2> SUFFICES ASSUME NEW i \in 1..Len(p), NEW j \in 1..Len(p), i < j PROVE p[i] < p[j]
      OBVIOUS
    <2>1. i \in 1..Len(q) /\ p[i] = q[i] /\ q[i] \in 1..a
      <3>1. i \in 1..Len(q)
        BY <1>1, <1>4
      <3> QED
        BY <1>4, <1>q, <3>1
    <2>2. CASE j = Len(q) + 1
      BY <1>1, <1>4, <2>1, <2>2
    <2>3. CASE j # Len(q) + 1
      BY <1>1, <1>5, <1>q, <2>1, <2>3
    <2> QED
      BY <2>2, <2>3
  <1>7. \A i \in 1..Len(d), j \in 1..Len(p) : d[i] < p[j]
    <2> SUFFICES ASSUME NEW i \in 1..Len(d), NEW j \in 1..Len(p) PROVE d[i] < p[j]
      OBVIOUS
    <2>1. d[i] \in 1..a
      BY <1>q
    <2>2. CASE j = Len(q) + 1
      BY <1>1, <1>4, <2>1, <2>2
    <2>3. CASE j # Len(q) + 1
      BY <1>1, <1>5, <1>q, <2>1, <2>3
    <2> QED
      BY <2>2, <2>3
  <1> QED
    <2>1. \A i \in 1..Len(p) : p[i] \in 1..a + 1
      BY <1>1, <1>5
    <2> QED
      BY <1>1, <1>2, <1>3, <1>4, <1>6, <1>7, <2>1 DEF Ordered

LEMMA TakeOrdered ==
    ASSUME NEW q, NEW a, NEW d, Ordered(q, a, d), NEW k \in 1..Len(q)
    PROVE  /\ Ordered(SubSeq(q, k + 1, Len(q)), a, d)
           /\ Ordered(SubSeq(q, k + 1, Len(q)), a, d \o SubSeq(q, 1, k))
  <1>1. a \in Nat /\ q \in Seq(Nat) /\ d \in Seq(Nat) /\ Len(q) \in Nat /\ Len(d) \in Nat
    BY DEF Ordered
  <1>2. PICK r : r = SubSeq(q, k + 1, Len(q))
    OBVIOUS
  <1>3. PICK f : f = SubSeq(q, 1, k)
    OBVIOUS
  <1>4. PICK e : e = d \o f
    OBVIOUS
  <1>5. /\ r \in Seq(Nat) /\ Len(r) = Len(q) - k
        /\ \A i \in 1..(Len(q) - k) : r[i] = q[k + i]
    BY <1>1, <1>2, Split
  <1>6. f \in Seq(Nat) /\ Len(f) = k /\ \A i \in 1..k : f[i] = q[i]
    BY <1>1, <1>3, Split
  <1>q. /\ \A i \in 1..Len(q) : q[i] \in 1..a
        /\ \A i, j \in 1..Len(q) : i < j => q[i] < q[j]
        /\ \A i \in 1..Len(d), j \in 1..Len(q) : d[i] < q[j]
        /\ \A i \in 1..Len(d) : d[i] \in 1..a
        /\ \A i, j \in 1..Len(d) : i < j => d[i] < d[j]
    BY DEF Ordered
  <1>7. /\ e \in Seq(Nat) /\ Len(e) = Len(d) + k
        /\ \A i \in 1..Len(d) : e[i] = d[i]
        /\ \A i \in 1..k : e[Len(d) + i] = q[i]
    <2>1. e \in Seq(Nat) /\ Len(e) = Len(d) + k
      BY <1>1, <1>4, <1>6, ConcatProperties
    <2>2. \A i \in 1..Len(d) : e[i] = d[i]
      BY <1>1, <1>4, <1>6, ConcatProperties
    <2>3. ASSUME NEW i \in 1..k PROVE e[Len(d) + i] = q[i]
      <3>1. Len(d) + i \in 1..Len(d) + Len(f) /\ ~(Len(d) + i <= Len(d)) /\ (Len(d) + i) - Len(d) = i
        BY <1>1, <1>6
      <3> QED
        BY <1>1, <1>4, <1>6, <3>1, ConcatProperties
    <2> QED
      BY <2>1, <2>2, <2>3
  <1>8. Ordered(r, a, d)
    <2>1. ASSUME NEW i \in 1..Len(r) PROVE k + i \in 1..Len(q) /\ r[i] = q[k + i]
      <3>1. i \in 1..(Len(q) - k)
        BY <1>5
      <3>2. k + i \in 1..Len(q)
        BY <1>1, <3>1
      <3> QED
        BY <1>5, <3>1, <3>2
    <2>2. \A i \in 1..Len(r) : r[i] \in 1..a
      BY <1>q, <2>1
    <2>3. \A i, j \in 1..Len(r) : i < j => r[i] < r[j]
      <3> SUFFICES ASSUME NEW i \in 1..Len(r), NEW j \in 1..Len(r), i < j PROVE r[i] < r[j]
        OBVIOUS
      <3>1. k + i < k + j
        BY <1>1, <1>5
      <3> QED
        BY <1>q, <2>1, <3>1
    <2>4. \A i \in 1..Len(d), j \in 1..Len(r) : d[i] < r[j]
      BY <1>q, <2>1
    <2> QED
      BY <1>1, <1>5, <1>q, <2>2, <2>3, <2>4 DEF Ordered
  <1>9. ASSUME NEW i \in 1..Len(e)
        PROVE  \/ i \in 1..Len(d) /\ e[i] = d[i]
               \/ i > Len(d) /\ i - Len(d) \in 1..k /\ i - Len(d) \in 1..Len(q) /\ e[i] = q[i - Len(d)]
    <2>1. CASE i <= Len(d)
      <3>1. i \in 1..Len(d)
        BY <1>1, <1>7, <2>1
      <3> QED
        BY <1>7, <3>1
    <2>2. CASE i > Len(d)
      <3>1. i - Len(d) \in 1..k /\ i - Len(d) \in 1..Len(q) /\ Len(d) + (i - Len(d)) = i
        BY <1>1, <1>7, <2>2
      <3> QED
        BY <1>7, <2>2, <3>1
    <2> QED
      BY <1>1, <1>7, <2>1, <2>2
  <1>10. \A i, j \in 1..Len(e) : i < j => e[i] < e[j]
    <2> SUFFICES ASSUME NEW i \in 1..Len(e), NEW j \in 1..Len(e), i < j PROVE e[i] < e[j]
      OBVIOUS
    <2>1. CASE j \in 1..Len(d)
      <3>1. i \in 1..Len(d)
        BY <1>1, <1>7, <2>1
      <3> QED
        BY <1>7, <1>q, <2>1, <3>1
    <2>2. CASE i \in 1..Len(d) /\ j \notin 1..Len(d)
      <3>1. e[j] = q[j - Len(d)] /\ j - Len(d) \in 1..Len(q)
        BY <1>9, <2>2
      <3>2. e[i] = d[i]
        BY <1>7, <2>2
      <3> QED
        BY <1>q, <2>2, <3>1, <3>2
    <2>3. CASE i \notin 1..Len(d)
      <3>1. i \in Nat /\ j \in Nat /\ j \notin 1..Len(d)
        BY <1>1, <1>7, <2>3
      <3>2. i - Len(d) \in 1..Len(q) /\ e[i] = q[i - Len(d)]
        BY <1>9, <2>3
      <3>3. j - Len(d) \in 1..Len(q) /\ e[j] = q[j - Len(d)]
        BY <1>9, <3>1
      <3>4. i - Len(d) < j - Len(d)
        BY <1>1, <3>1
      <3> QED
        BY <1>q, <3>2, <3>3, <3>4
    <2> QED
      BY <1>1, <1>7, <2>1, <2>2, <2>3
  <1>11. \A i \in 1..Len(e), j \in 1..Len(r) : e[i] < r[j]
    <2> SUFFICES ASSUME NEW i \in 1..Len(e), NEW j \in 1..Len(r) PROVE e[i] < r[j]
      OBVIOUS
    <2>1. k + j \in 1..Len(q) /\ r[j] = q[k + j]
      <3>1. j \in 1..(Len(q) - k)
        BY <1>5
      <3>2. k + j \in 1..Len(q)
        BY <1>1, <3>1
      <3>3. r[j] = q[k + j]
        BY <1>5, <3>1
      <3> QED
        BY <3>2, <3>3
    <2>2. CASE i \in 1..Len(d)
      BY <1>7, <1>q, <2>1, <2>2
    <2>3. CASE i \notin 1..Len(d)
      <3>1. i - Len(d) \in 1..Len(q) /\ i - Len(d) \in 1..k /\ e[i] = q[i - Len(d)]
        BY <1>9, <2>3
      <3>2. i - Len(d) < k + j
        BY <1>1, <1>5, <3>1
      <3> QED
        BY <1>q, <2>1, <3>1, <3>2
    <2> QED
      BY <2>2, <2>3
  <1>12. Ordered(r, a, e)
    <2>1. \A i \in 1..Len(e) : e[i] \in 1..a
      BY <1>9, <1>q
    <2> QED
      BY <1>1, <1>7, <1>8, <1>10, <1>11, <2>1 DEF Ordered
  <1> QED
    BY <1>2, <1>3, <1>4, <1>8, <1>12

LEMMA QStep == QInv /\ [QNext]_qvars => QInv'
  BY ReceiveOrdered, TakeOrdered DEF QInv, QNext, Receive, Discard, Take, Front, Rest, qvars

\* Whatever implements the queue hands out bytes in the order of their
\* arrival, each at most once.
THEOREM QueueInOrder == QSpec => []InOrder
  <1>1. QInit => QInv
    BY DEF QInit, QInv, Ordered
  <1>2. QInv => InOrder
    BY DEF QInv, Ordered, InOrder
  <1> QED
    BY <1>1, <1>2, QStep, PTL DEF QSpec
=============================================================================
