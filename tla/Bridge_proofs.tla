---------------------------- MODULE Bridge_proofs ----------------------------
(***************************************************************************)
(* Theorems about the bridge, for every number of slots and of clients,    *)
(* every size of the backlog, the send buffer and the UART's chunks: who   *)
(* holds a connection, what is counted for it, and what it is sent.        *)
(***************************************************************************)
EXTENDS Bridge, FiniteSetTheorems, SequenceTheorems, TLAPS

-----------------------------------------------------------------------------
(* Sequences without repetition, and who points to a connection.           *)

NoRepeat(u) == \A j, k \in 1..Len(u) : u[j] = u[k] => j = k

LEMMA InRange ==
    ASSUME NEW S, NEW u \in Seq(S), NEW c
    PROVE  c \in Range(u) <=> \E k \in 1..Len(u) : u[k] = c
  BY LenProperties DEF Range

LEMMA Joined ==
    ASSUME NEW S, NEW u \in Seq(S), NEW c \in S
    PROVE  /\ Range(Append(u, c)) = Range(u) \cup {c}
           /\ NoRepeat(u) /\ c \notin Range(u) => NoRepeat(Append(u, c))
  <1> DEFINE v == Append(u, c)
             n == Len(u)
  <1>1. v \in Seq(S) /\ Len(v) = n + 1 /\ n \in Nat
        /\ v[n + 1] = c /\ \A k \in 1..n : v[k] = u[k]
    BY AppendProperties, LenProperties
  <1> HIDE DEF v, n
  <1>2. 1..n + 1 = 1..n \cup {n + 1}
    BY <1>1
  <1>3. \A x : x \in Range(v) <=> x \in Range(u) \/ x = c
    <2>1. \A x : x \in Range(u) <=> \E k \in 1..n : u[k] = x
      BY InRange DEF n
    <2>2. \A x : x \in Range(v) <=> \E k \in 1..n + 1 : v[k] = x
      BY <1>1, InRange
    <2> QED
      BY <1>1, <1>2, <2>1, <2>2
  <1>4. ASSUME NoRepeat(u), c \notin Range(u) PROVE NoRepeat(v)
    <2>1. \A k \in 1..n : u[k] # c
      BY <1>4, InRange DEF n
    <2> SUFFICES ASSUME NEW j \in 1..n + 1, NEW k \in 1..n + 1, v[j] = v[k] PROVE j = k
      BY <1>1 DEF NoRepeat
    <2> QED
      BY <1>1, <1>2, <1>4, <2>1 DEF NoRepeat, n
  <1> QED
    BY <1>3, <1>4 DEF v

LEMMA Left ==
    ASSUME NEW S, NEW u \in Seq(S), u # <<>>, NoRepeat(u)
    PROVE  /\ Range(Tail(u)) = Range(u) \ {Head(u)} /\ Head(u) \in Range(u) /\ Head(u) \in S
           /\ NoRepeat(Tail(u)) /\ Tail(u) \in Seq(S)
  <1> DEFINE v == Tail(u)
             n == Len(u)
  <1>1. /\ v \in Seq(S) /\ n \in Nat /\ n >= 1 /\ Len(v) = n - 1 /\ Head(u) \in S /\ Head(u) = u[1]
        /\ \A k \in 1..n - 1 : v[k] = u[k + 1]
    BY HeadTailProperties, LenProperties, EmptySeq
  <1>2. NoRepeat(u) /\ \A x : x \in Range(u) <=> \E k \in 1..n : u[k] = x
    BY InRange
  <1>3. \A x : x \in Range(v) <=> \E k \in 1..n - 1 : v[k] = x
    <2>1. v \in Seq(S) /\ Len(v) = n - 1
      BY <1>1
    <2>2. \A x : x \in Range(v) <=> \E k \in 1..Len(v) : v[k] = x
      BY <2>1, InRange
    <2> QED
      BY <2>1, <2>2
  <1>4. \A j, k \in 1..n : u[j] = u[k] => j = k
    BY <1>2 DEF NoRepeat
  <1> HIDE DEF v, n
  <1>5. ASSUME NEW x PROVE x \in Range(v) <=> x \in Range(u) /\ x # u[1]
    <2>1. ASSUME NEW k \in 1..n - 1, v[k] = x PROVE x \in Range(u) /\ x # u[1]
      <3>1. k + 1 \in 1..n /\ 1 \in 1..n /\ k + 1 # 1
        BY <1>1
      <3>2. u[k + 1] = x
        BY <1>1, <2>1
      <3> QED
        BY <1>2, <1>4, <3>1, <3>2
    <2>2. ASSUME NEW k \in 1..n, u[k] = x, x # u[1] PROVE x \in Range(v)
      <3>1. k - 1 \in 1..n - 1 /\ k - 1 + 1 = k
        BY <1>1, <2>2
      <3>2. v[k - 1] = u[k - 1 + 1]
        BY <1>1, <3>1
      <3> QED
        BY <1>3, <2>2, <3>1, <3>2
    <2> QED
      BY <1>2, <1>3, <2>1, <2>2
  <1>6. NoRepeat(v)
    <2> SUFFICES ASSUME NEW j \in 1..n - 1, NEW k \in 1..n - 1, v[j] = v[k] PROVE j = k
      BY <1>1 DEF NoRepeat
    <2>1. j + 1 \in 1..n /\ k + 1 \in 1..n /\ u[j + 1] = u[k + 1]
      BY <1>1
    <2>2. j + 1 = k + 1
      BY <1>4, <2>1
    <2> QED
      BY <2>2
  <1>7. Head(u) \in Range(u)
    BY <1>1, <1>2
  <1> QED
    BY <1>1, <1>5, <1>6, <1>7 DEF v

HoldersOf(h, c) == {x \in DOMAIN h : h[x] = c}

\* A handle x is given the value v.
Given(h, x, v) == [h EXCEPT ![x] = v]

LEMMA Rehold ==
    ASSUME NEW h, IsFiniteSet(DOMAIN h), NEW x \in DOMAIN h, NEW v, NEW c
    PROVE  /\ HoldersOf(Given(h, x, v), c) = IF v = c THEN HoldersOf(h, c) \cup {x} ELSE HoldersOf(h, c) \ {x}
           /\ Cardinality(HoldersOf(h, c)) \in Nat
           /\ Cardinality(HoldersOf(Given(h, x, v), c)) = 0 <=> HoldersOf(Given(h, x, v), c) = {}
           /\ Cardinality(HoldersOf(Given(h, x, v), c)) =
                  Cardinality(HoldersOf(h, c)) + (IF v = c THEN 1 ELSE 0) - (IF h[x] = c THEN 1 ELSE 0)
  <1> DEFINE H == HoldersOf(h, c)
             N == HoldersOf(Given(h, x, v), c)
  <1>1. N = IF v = c THEN H \cup {x} ELSE H \ {x}
    BY DEF HoldersOf, Given
  <1>2. IsFiniteSet(H) /\ Cardinality(H) \in Nat /\ (Cardinality(H) = 0 <=> H = {})
    <2>1. H \subseteq DOMAIN h
      BY DEF HoldersOf
    <2>2. IsFiniteSet(H)
      BY <2>1, FS_Subset
    <2> QED
      BY <2>2, FS_CardinalityType, FS_EmptySet
  <1>3. x \in H <=> h[x] = c
    BY DEF HoldersOf
  <1> HIDE DEF H, N
  <1>4. IsFiniteSet(N)
    BY <1>1, <1>2, FS_AddElement, FS_RemoveElement
  <1>5. Cardinality(N) \in Nat /\ (Cardinality(N) = 0 <=> N = {})
    BY <1>4, FS_CardinalityType, FS_EmptySet
  <1>6. Cardinality(N) = Cardinality(H) + (IF v = c THEN 1 ELSE 0) - (IF h[x] = c THEN 1 ELSE 0)
    <2>1. CASE v = c
      <3>1. Cardinality(N) = IF x \in H THEN Cardinality(H) ELSE Cardinality(H) + 1
        BY <1>1, <1>2, <2>1, FS_AddElement
      <3> QED
        BY <1>2, <1>3, <2>1, <3>1
    <2>2. CASE v # c
      <3>1. Cardinality(N) = IF x \in H THEN Cardinality(H) - 1 ELSE Cardinality(H)
        BY <1>1, <1>2, <2>2, FS_RemoveElement
      <3> QED
        BY <1>2, <1>3, <2>2, <3>1
    <2> QED
      BY <2>1, <2>2
  <1> QED
    BY <1>1, <1>2, <1>4, <1>5, <1>6 DEF H, N

-----------------------------------------------------------------------------
(* The invariant.                                                          *)

\* The types; that a context is counted twice at most comes out at the end.
Types ==
    /\ nconn \in 0..MaxConns
    /\ ctx \in [Conns -> {"none", "live", "deleted"}]
    /\ pcb \in [Conns -> {"ESTABLISHED", "CLOSE_WAIT", "GONE"}] /\ pending \in [Conns -> BOOLEAN]
    /\ rx \in [Conns -> 0..MaxRx] /\ nrx \in [Conns -> 0..MaxRx] /\ \A c \in Conns : rx[c] <= nrx[c]
    /\ room \in [Conns -> 0..SndBuf] /\ refcnt \in [Conns -> Int]
    /\ unclaimed \in Seq(Conns) /\ handle \in [Slots \cup {Temp} -> Conns \cup {None}]
    /\ pc \in {"loop", "spot", "spotYield", "claim", "assign", "drop", "busy", "drain", "drainYield", "afw",
               "afwYield", "uart", "push", "write", "stalled"}
    /\ i \in 1..MAX_SRV_CLIENTS + 1 /\ maxToTcp \in 0..SndBuf
    /\ lines \in 0..2 /\ expired \in BOOLEAN

Bytes ==
    /\ chunk \in Seq(0..MaxUart) /\ left \in 0..Len(chunk)
    /\ queue \in Seq(1..MaxUart) /\ arrived \in 0..MaxUart /\ delivered \in Seq(1..MaxUart)
    /\ got \in [Conns -> Seq(0..MaxUart)]

InWrite  == pc \in {"write", "stalled"}
InBusy   == pc = "busy" \/ (InWrite /\ i \notin Slots)

\* Where loop() is tells which slot it is at, that there is somebody to claim,
\* and whether the temporary holds a connection.
Control ==
    /\ pc \in {"spot", "spotYield", "assign", "drain", "drainYield", "afw", "afwYield", "push"} => i \in Slots
    /\ pc = "busy" => i \notin Slots
    /\ pc \in {"spot", "spotYield", "claim"} => unclaimed # <<>>
    /\ handle[Temp] # None <=> pc \in {"assign", "drop"} \/ InBusy

\* A write that is on its way has somebody to go to, and has written nothing:
\* it is written whole or not at all, for there is room for it.
Written ==
    /\ IF InWrite THEN left = Len(chunk) /\ left >= 1 ELSE left = 0
    /\ InWrite => /\ target # None
                  /\ room[target] >= left + IF i \in Slots THEN 0 ELSE lines
    /\ pc = "busy" => room[handle[Temp]] >= lines
    /\ pc = "push" => Len(chunk) >= 1

\* A client nobody has claimed has not been written to.
Fresh ==
    \A c \in Conns : c > nconn \/ c \in Range(unclaimed) \/ (pc = "assign" /\ c = handle[Temp])
                        => room[c] = SndBuf /\ got[c] = <<>>

\* No connection is held twice, except by the temporary and the slot that was
\* just given it.
HeldOnce ==
    /\ NoRepeat(unclaimed)
    /\ \A s, t \in Slots : handle[s] = handle[t] /\ handle[s] # None => s = t
    /\ pc # "drop" /\ handle[Temp] # None => \A s \in Slots : handle[s] # handle[Temp]
    /\ \A c \in Conns : c > nconn => ctx[c] # "live"

\* The slot that is given away holds nobody whose connection is open.
FreeSlot ==
    pc \in {"claim", "assign"} /\ i \in Slots /\ handle[i] # None => pcb[handle[i]] # "ESTABLISHED"

\* The streams: "busy" for whom nobody serves, for the others bytes the UART
\* delivered; of a chunk that is being handed out the slots from i on have
\* nothing, and nothing younger.
BusyStream(g) == g \in {<<>>, <<Busy>>, <<Busy, Busy>>}

Rising(g) == \A j, k \in 1..Len(g) : j < k => g[j] < g[k]
DataStream(g) == Rising(g) /\ Range(g) \subseteq Range(delivered)

HandingOut == pc = "push" \/ (InWrite /\ i \in Slots)

Streams ==
    /\ \A c \in Conns : BusyStream(got[c]) \/ DataStream(got[c])
    /\ \A s \in Slots : handle[s] # None => DataStream(got[handle[s]])
    /\ InBusy => /\ BusyStream(got[handle[Temp]])
                 /\ Len(got[handle[Temp]]) + lines <= IF pc = "busy" THEN 2 ELSE 1
    /\ InWrite /\ i \notin Slots => chunk = <<Busy>>
    /\ HandingOut => /\ DataStream(chunk)
                     /\ \A s \in i..MAX_SRV_CLIENTS : handle[s] # None =>
                            \A k \in 1..Len(got[handle[s]]) : got[handle[s]][k] < chunk[1]

Inv ==
    /\ Types /\ Bytes /\ Control
    /\ HeldOnce /\ HandlesCounted /\ BacklogIsUnclaimed /\ FreeSlot
    /\ Written /\ Fresh /\ Streams /\ Uart!QInv

-----------------------------------------------------------------------------
(* Types.                                                                  *)

LEMMA Constants ==
    /\ MAX_SRV_CLIENTS \in Nat /\ MAX_SRV_CLIENTS >= 1 /\ STACK_PROTECTOR \in Nat
    /\ SndBuf \in Nat /\ SndBuf >= 2 /\ MaxConns \in Nat /\ MaxRx \in Nat /\ MaxUart \in Nat
    /\ None \notin Conns /\ Temp \notin Slots /\ Slots \subseteq 1..MAX_SRV_CLIENTS + 1
    /\ 1 \in Slots /\ MAX_SRV_CLIENTS + 1 \notin Slots
    /\ \A k \in 1..MAX_SRV_CLIENTS + 1 : k \in Slots <=> k <= MAX_SRV_CLIENTS
  BY SizeAssumption, BoundAssumption DEF None, Conns, Temp, Slots

\* The connection of a handle, when it has one.
LEMMA Held ==
    ASSUME Types, NEW h \in Slots \cup {Temp}
    PROVE  handle[h] # None => handle[h] \in Conns
  BY DEF Types

LEMMA TypesCallbacks ==
    ASSUME Types, lwIP \/ TimerFires \/ UartStep
    PROVE  Types'
  <1> USE Constants
  <1>1. CASE Accept
    <2>1. nconn + 1 \in Conns
      BY <1>1 DEF Accept, Types, Conns
    <2>2. Append(unclaimed, nconn + 1) \in Seq(Conns)
      BY <2>1, AppendProperties DEF Types
    <2> QED
      BY <1>1, <2>1, <2>2 DEF Accept, Types, writeVars
  <1>2. ASSUME NEW c \in Conns, Received(c) PROVE Types'
    <2>1. /\ rx' \in [Conns -> 0..MaxRx] /\ nrx' \in [Conns -> 0..MaxRx]
          /\ \A d \in Conns : rx'[d] <= nrx'[d]
      BY SMTT(30), <1>2 DEF Received, Types
    <2> QED
      BY <1>2, <2>1 DEF Received, Types, writeVars
  <1>3. ASSUME NEW c \in Conns, PeerClosed(c) \/ Error(c) PROVE Types'
    BY <1>3 DEF PeerClosed, Error, Freed, Types, writeVars
  <1>4. ASSUME NEW c \in Conns, Acked(c) PROVE Types'
    <2>1. room' \in [Conns -> 0..SndBuf]
      BY <1>4 DEF Acked, Types
    <2> QED
      BY <1>4, <2>1 DEF Acked, Types, writeVars
  <1>5. CASE TimerFires
    BY <1>5 DEF TimerFires, Types, connVars
  <1>6. CASE UartStep
    BY <1>6 DEF UartStep, Types, connVars, writeVars
  <1> QED
    BY <1>1, <1>2, <1>3, <1>4, <1>5, <1>6 DEF lwIP

LEMMA UnrefTypes ==
    ASSUME Types, NEW c \in Conns \cup {None}, NEW r \in [Conns -> Int], unref(c, r)
    PROVE  /\ nconn' = nconn /\ nrx' = nrx /\ room' = room /\ refcnt' = r
           /\ ctx' \in [Conns -> {"none", "live", "deleted"}]
           /\ pcb' \in [Conns -> {"ESTABLISHED", "CLOSE_WAIT", "GONE"}] /\ pending' \in [Conns -> BOOLEAN]
           /\ rx' \in [Conns -> 0..MaxRx] /\ \A d \in Conns : rx'[d] <= nrx[d]
  <1>1. CASE c # None /\ r[c] = 0
    <2>1. c \in Conns /\ refcnt' = r /\ UNCHANGED <<nconn, nrx, room>>
      BY <1>1 DEF unref
    <2>2. /\ ctx' = [ctx EXCEPT ![c] = "deleted"] /\ pcb' = [pcb EXCEPT ![c] = "GONE"]
          /\ pending' = [pending EXCEPT ![c] = FALSE]
      BY <1>1 DEF unref, Freed
    <2>3. rx' = [rx EXCEPT ![c] = 0]
      BY <1>1 DEF unref
    <2>4. rx' \in [Conns -> 0..MaxRx] /\ \A d \in Conns : rx'[d] <= nrx[d]
      BY <2>1, <2>3, Constants DEF Types
    <2> QED
      BY <2>1, <2>2, <2>4 DEF Types
  <1>2. CASE ~(c # None /\ r[c] = 0)
    BY <1>2 DEF unref, Types
  <1> QED
    BY <1>1, <1>2

LEMMA CountType ==
    ASSUME NEW r \in [Conns -> Int], NEW c \in Conns \cup {None}, NEW n \in Int
    PROVE  Count(r, c, n) \in [Conns -> Int]
  BY DEF Count

LEMMA AfwType ==
    ASSUME Types, NEW c \in Conns \cup {None}
    PROVE  availableForWrite(c) \in 0..SndBuf
  BY Constants DEF availableForWrite, Types

LEMMA LeastType ==
    ASSUME Types, NEW n \in 0..SndBuf, Least(n)
    PROVE  maxToTcp' \in 0..SndBuf
  BY DEF Types, Least

LEMMA TypesLoop ==
    ASSUME Types, Bytes, Control, Loop
    PROVE  Types'
  <1> USE Constants
  <1>0. i \in 1..MAX_SRV_CLIENTS + 1 /\ (pc \in {"spot", "spotYield", "assign", "drain", "drainYield", "afw", "afwYield", "push"} => i \in Slots)
    BY DEF Types, Control
  <1>1. CASE LoopBegin
    BY SMTT(30), <1>1 DEF LoopBegin, Goto, Types, connVars
  <1>2. CASE Spot \/ SpotResume
    BY SMTT(30), <1>0, <1>2 DEF Spot, SpotResume, NextSpot, NextSlot, Goto, Types, connVars, writeVars
  <1>3. CASE Available
    <2>1. unclaimed # <<>>
      BY <1>3 DEF Available, Control
    <2>2. Head(unclaimed) \in Conns /\ Tail(unclaimed) \in Seq(Conns)
      BY <2>1, HeadTailProperties DEF Types
    <2>3. handle' \in [Slots \cup {Temp} -> Conns \cup {None}]
      BY <1>3, <2>2 DEF Available, Types
    <2>4. refcnt' \in [Conns -> Int]
      BY SMTT(30), <1>3, <2>2 DEF Available, Types
    <2>5. pending' \in [Conns -> BOOLEAN]
      BY <1>3, <2>2 DEF Available, Types, tcp_backlog_accepted
    <2>6. /\ unclaimed' \in Seq(Conns) /\ lines' \in 0..2 /\ pc' \in {"busy", "assign"} /\ i' = i
          /\ UNCHANGED <<nconn, ctx, pcb, rx, nrx, room, maxToTcp, expired>>
      BY <1>3, <2>2 DEF Available, Goto
    <2> QED
      BY <2>3, <2>4, <2>5, <2>6 DEF Types
  <1>4. CASE Assign
    <2>1. i \in Slots /\ handle[i] \in Conns \cup {None} /\ handle[Temp] \in Conns \cup {None}
      BY <1>0, <1>4 DEF Assign, Types
    <2>0. refcnt \in [Conns -> Int]
      BY DEF Types
    <2>7. Count(refcnt, handle[i], -1) \in [Conns -> Int]
      <3>1. -1 \in Int
        OBVIOUS
      <3> QED
        BY <2>0, <2>1, <3>1, CountType
    <2>2. ref(handle[Temp], Count(refcnt, handle[i], -1)) \in [Conns -> Int]
      <3> DEFINE r == Count(refcnt, handle[i], -1)
                 c == handle[Temp]
      <3>1. r \in [Conns -> Int] /\ c \in Conns \cup {None} /\ 1 \in Int
        BY <2>1, <2>7
      <3> HIDE DEF r, c
      <3>2. Count(r, c, 1) \in [Conns -> Int]
        BY ONLY <3>1, CountType
      <3> QED
        BY <3>2 DEF ref, r, c
    <2>3. handle' \in [Slots \cup {Temp} -> Conns \cup {None}]
      BY <1>4, <2>1 DEF Assign, Types
    <2>4. unref(handle[i], ref(handle[Temp], Count(refcnt, handle[i], -1)))
      BY <1>4 DEF Assign
    <2>5. UNCHANGED <<unclaimed, maxToTcp, lines, expired>> /\ pc' = "drop" /\ i' = i
      BY <1>4 DEF Assign, Goto, writeVars
    <2> QED
      BY <2>1, <2>2, <2>3, <2>4, <2>5, UnrefTypes DEF Types
  <1>5. CASE Drop
    <2>0. refcnt \in [Conns -> Int] /\ handle[Temp] \in Conns \cup {None}
      BY DEF Types
    <2>1. Count(refcnt, handle[Temp], -1) \in [Conns -> Int]
      BY <2>0, CountType
    <2>2. handle' \in [Slots \cup {Temp} -> Conns \cup {None}]
      BY <1>5 DEF Drop, Types
    <2>3. unref(handle[Temp], Count(refcnt, handle[Temp], -1))
      BY <1>5 DEF Drop
    <2>4. UNCHANGED <<unclaimed, maxToTcp, lines, expired>> /\ pc' = "drain" /\ i' = 1
      BY <1>5 DEF Drop, Goto, writeVars
    <2> QED
      BY <2>0, <2>1, <2>2, <2>3, <2>4, UnrefTypes DEF Types
  <1>6. CASE Line
    <2>1. /\ lines' \in 0..2 /\ pc' \in {"busy", "drop", "write"} /\ i' = i /\ expired' \in BOOLEAN
      <3>1. lines \in 0..2 /\ expired \in BOOLEAN
        BY DEF Types
      <3>2. CASE lines = 0
        BY <1>6, <3>1, <3>2 DEF Line, Goto
      <3>3. CASE lines # 0 /\ pcb[handle[Temp]] = "GONE"
        BY <1>6, <3>1, <3>3 DEF Line
      <3>4. CASE lines # 0 /\ pcb[handle[Temp]] # "GONE"
        <4>1. lines' = lines - 1 /\ expired' = FALSE /\ Goto("write", i)
          BY <1>6, <3>4 DEF Line
        <4>2. lines' \in 0..2
          BY <3>1, <3>4, <4>1
        <4>3. pc' = "write" /\ i' = i /\ expired' \in BOOLEAN
          BY <4>1 DEF Goto
        <4> QED
          BY <4>2, <4>3
      <3> QED
        BY <3>2, <3>3, <3>4
    <2>2. UNCHANGED <<connVars, unclaimed, handle, maxToTcp>>
      BY <1>6 DEF Line
    <2> QED
      BY <2>1, <2>2 DEF Types, connVars
  <1>7. CASE Drain
    <2>1. i \in Slots /\ handle[i] \in Conns \cup {None}
      BY <1>0, <1>7 DEF Drain, Types
    <2>2. rx' \in [Conns -> 0..MaxRx] /\ \A d \in Conns : rx'[d] <= nrx[d]
      <3>1. CASE getSize(i) > 0 /\ rx' = [rx EXCEPT ![handle[i]] = @ - 1]
        <4>1. handle[i] \in Conns /\ rx[handle[i]] > 0
          BY <2>1, <3>1 DEF getSize
        <4>2. rx[handle[i]] - 1 \in 0..MaxRx /\ rx[handle[i]] - 1 <= nrx[handle[i]]
          BY SMTT(30), <4>1 DEF Types
        <4>3. rx \in [Conns -> 0..MaxRx] /\ \A d \in Conns : rx[d] <= nrx[d]
          BY DEF Types
        <4> QED
          BY <3>1, <4>1, <4>2, <4>3
      <3>2. CASE UNCHANGED rx
        BY <3>2 DEF Types
      <3> QED
        BY <1>7, <3>1, <3>2 DEF Drain
    <2> QED
      BY SMTT(30), <1>0, <1>7, <2>2 DEF Drain, NextDrain, NextSlot, Goto, Types, writeVars
  <1>8. CASE DrainResume
    BY <1>0, <1>8 DEF DrainResume, NextDrain, NextSlot, Goto, Types, connVars, writeVars
  <1>9. CASE Afw \/ AfwResume
    <2>1. availableForWrite(handle[i]) \in 0..SndBuf
      BY <1>0, <1>9, AfwType DEF Afw, AfwResume, Types
    <2>2. maxToTcp' = maxToTcp \/ Least(availableForWrite(handle[i]))
      BY <1>9 DEF Afw, AfwResume
    <2>3. maxToTcp' \in 0..SndBuf
      BY <2>1, <2>2, LeastType DEF Types
    <2> QED
      BY SMTT(30), <1>0, <1>9, <2>3 DEF Afw, AfwResume, NextAfw, NextSlot, Goto, Types, connVars, writeVars
  <1>10. CASE UartRead
    BY <1>10 DEF UartRead, Goto, Types, connVars
  <1>11. CASE Push
    <2>1. pc' \in {"write", "push", "loop"} /\ i' \in 1..MAX_SRV_CLIENTS + 1 /\ expired' \in BOOLEAN
      <3>1. CASE Fits(handle[i])
        BY <1>0, <1>11, <3>1 DEF Push, Goto
      <3>2. CASE ~Fits(handle[i])
        <4>1. NextPush /\ expired' = expired /\ expired \in BOOLEAN
          BY <1>11, <3>2 DEF Push, Types
        <4> QED
          BY <1>0, <4>1 DEF NextPush, NextSlot, Goto
      <3> QED
        BY <3>1, <3>2
    <2>2. UNCHANGED <<connVars, unclaimed, handle, maxToTcp, lines>>
      BY <1>11 DEF Push
    <2> QED
      BY <2>1, <2>2 DEF Types, connVars
  <1>12. CASE WriteTurn
    <2>1. PICK ok \in BOOLEAN :
            LET c      == target
                closed == pcb[c] # "ESTABLISHED"
                n      == IF closed \/ ~ok THEN 0 ELSE IF room[c] < left THEN room[c] ELSE left
            IN  room' = [room EXCEPT ![c] = @ - n]
      BY <1>12 DEF WriteTurn
    <2>2. left \in Nat
      BY LenProperties DEF Bytes
    <2>3. room' \in [Conns -> 0..SndBuf]
      <3>1. CASE target \in Conns
        <4>1. room \in [Conns -> 0..SndBuf] /\ room[target] \in 0..SndBuf
          BY <3>1 DEF Types
        <4> DEFINE n == IF pcb[target] # "ESTABLISHED" \/ ~ok THEN 0
                        ELSE IF room[target] < left THEN room[target] ELSE left
        <4>2. room' = [room EXCEPT ![target] = room[target] - n]
          BY <2>1
        <4>3. n \in 0..room[target]
          BY <2>2, <4>1
        <4>4. room[target] - n \in 0..SndBuf
          <5> HIDE DEF n
          <5> QED
            BY <4>1, <4>3
        <4> QED
          BY <4>1, <4>2, <4>4
      <3>2. CASE target \notin Conns
        <4>1. room' = room
          BY <2>1, <3>2 DEF Types
        <4> QED
          BY <4>1 DEF Types
      <3> QED
        BY <3>1, <3>2
    <2>4. pc' \in {"push", "loop", "busy", "stalled"} /\ i' \in 1..MAX_SRV_CLIENTS + 1 /\ expired' = FALSE
      BY <1>0, <1>12 DEF WriteTurn, WriteOver, NextPush, NextSlot, Goto
    <2>5. UNCHANGED <<nconn, ctx, pcb, pending, rx, nrx, refcnt, unclaimed, handle, maxToTcp, lines>>
      BY <1>12 DEF WriteTurn
    <2> QED
      BY <2>3, <2>4, <2>5 DEF Types
  <1>13. CASE WriteWakes
    BY <1>13 DEF WriteWakes, Goto, Types, connVars, writeVars
  <1> QED
    BY <1>1, <1>2, <1>3, <1>4, <1>5, <1>6, <1>7, <1>8, <1>9, <1>10, <1>11, <1>12, <1>13 DEF Loop

-----------------------------------------------------------------------------
(* Where loop() is.                                                        *)

\* What lwIP, the clock and the UART leave alone, and who they add.
LEMMA Outside ==
    ASSUME Types, lwIP \/ TimerFires \/ UartStep
    PROVE  /\ UNCHANGED <<pc, i, handle, refcnt, chunk, left, lines, got>>
           /\ Accept \/ UNCHANGED <<nconn, ctx, unclaimed>>
           /\ UartStep \/ (AtYield /\ UNCHANGED uartVars)
  BY DEF lwIP, Accept, Received, PeerClosed, Error, Acked, TimerFires, UartStep, connVars, writeVars, uartVars,
         AtYield

LEMMA ControlCallbacks ==
    ASSUME Types, Control, lwIP \/ TimerFires \/ UartStep
    PROVE  Control'
  <1>1. UNCHANGED <<pc, i, handle>>
    BY Outside
  <1>2. unclaimed # <<>> => unclaimed' # <<>>
    <2>1. CASE Accept
      <3>1. nconn + 1 \in Conns
        BY <2>1, Constants DEF Accept, Types, Conns
      <3>2. unclaimed \in Seq(Conns)
        BY DEF Types
      <3>3. Append(unclaimed, nconn + 1) # <<>>
        BY <3>1, <3>2, AppendProperties
      <3> QED
        BY <2>1, <3>3 DEF Accept
    <2>2. CASE UNCHANGED unclaimed
      BY <2>2
    <2> QED
      BY <2>1, <2>2, Outside
  <1> QED
    BY <1>1, <1>2 DEF Control, InBusy, InWrite

LEMMA ControlLoop ==
    ASSUME Types, Control, Written, Loop
    PROVE  Control'
  <1> USE Constants DEF InBusy, InWrite
  <1>0. /\ i \in 1..MAX_SRV_CLIENTS + 1 /\ handle \in [Slots \cup {Temp} -> Conns \cup {None}]
        /\ MAX_SRV_CLIENTS \in Nat /\ (i < MAX_SRV_CLIENTS => i + 1 \in Slots)
        /\ (i \in Slots <=> i <= MAX_SRV_CLIENTS)
    BY DEF Types, Slots
  <1>1. CASE LoopBegin
    BY <1>0, <1>1 DEF LoopBegin, Goto, Control
  <1>2. CASE Spot \/ SpotResume
    BY <1>0, <1>2 DEF Spot, SpotResume, NextSpot, NextSlot, Goto, Control
  <1>3. CASE Available
    <2>1. unclaimed # <<>>
      BY <1>3 DEF Available, Control
    <2>2. Head(unclaimed) # None
      BY <2>1, HeadTailProperties DEF Types
    <2>3. handle'[Temp] = Head(unclaimed) /\ i' = i
          /\ pc' = IF i > MAX_SRV_CLIENTS THEN "busy" ELSE "assign"
      BY <1>0, <1>3 DEF Available, Goto
    <2> QED
      BY <1>0, <2>2, <2>3 DEF Control
  <1>4. CASE Assign
    <2>1. i \in Slots
      BY <1>4 DEF Assign, Control
    <2>2. handle'[Temp] = handle[Temp] /\ pc' = "drop"
      BY <1>0, <1>4, <2>1 DEF Assign, Goto
    <2> QED
      BY <1>4, <2>2 DEF Assign, Control
  <1>5. CASE Drop
    BY <1>0, <1>5 DEF Drop, Goto, Control
  <1>6. CASE Line
    <2>1. pc' \in {"drop", "busy", "write"} /\ i' = i /\ i \notin Slots /\ pc = "busy" /\ UNCHANGED handle
      BY <1>6 DEF Line, Goto, Control
    <2> QED
      BY <2>1 DEF Control
  <1>7. CASE Drain \/ DrainResume
    BY <1>0, <1>7 DEF Drain, DrainResume, NextDrain, NextSlot, Goto, Control
  <1>8. CASE Afw \/ AfwResume
    BY <1>0, <1>8 DEF Afw, AfwResume, NextAfw, NextSlot, Goto, Control
  <1>9. CASE UartRead
    BY <1>0, <1>9 DEF UartRead, Goto, Control
  <1>10. CASE Push
    BY <1>0, <1>10 DEF Push, NextPush, NextSlot, Goto, Control
  <1>11. CASE WriteTurn
    <2>1. UNCHANGED <<unclaimed, handle>> /\ pc = "write"
      BY <1>11 DEF WriteTurn
    <2>2. \/ pc' = "stalled" /\ i' = i
          \/ i \in Slots /\ pc' = "push" /\ i' \in Slots
          \/ i \in Slots /\ pc' = "loop"
          \/ i \notin Slots /\ pc' = "busy" /\ i' = i
      BY <1>0, <1>11 DEF WriteTurn, WriteOver, NextPush, NextSlot, Goto
    <2> QED
      BY <2>1, <2>2 DEF Control
  <1>12. CASE WriteWakes
    BY <1>12 DEF WriteWakes, Goto, Control
  <1> QED
    BY <1>1, <1>2, <1>3, <1>4, <1>5, <1>6, <1>7, <1>8, <1>9, <1>10, <1>11, <1>12 DEF Loop

-----------------------------------------------------------------------------
(* Who holds a connection.                                                 *)

Handling == HeldOnce /\ HandlesCounted /\ BacklogIsUnclaimed

\* What HandlesCounted and BacklogIsUnclaimed say of one connection.
Counted(c) ==
    /\ refcnt[c] = Cardinality(HoldersOf(handle, c))
    /\ ctx[c] = "live" <=> HoldersOf(handle, c) # {} \/ c \in Range(unclaimed)
    /\ HoldersOf(handle, c) = {} \/ c \notin Range(unclaimed)
    /\ ctx[c] # "live" => pcb[c] = "GONE"
    /\ pending[c] <=> c \in Range(unclaimed) /\ pcb[c] # "GONE"

LEMMA Handles == IsFiniteSet(Slots \cup {Temp})
  <1>1. IsFiniteSet(Slots)
    BY Constants, FS_Interval DEF Slots
  <1> QED
    BY <1>1, FS_AddElement

LEMMA AllCounted == HandlesCounted /\ BacklogIsUnclaimed <=> \A c \in Conns : Counted(c)
  BY DEF HandlesCounted, BacklogIsUnclaimed, Counted, HoldersOf

LEMMA Quiet ==
    ASSUME Handling, UNCHANGED <<nconn, ctx, pcb, pending, refcnt, unclaimed, handle>>,
           pc = "drop" => pc' = "drop"
    PROVE  Handling'
  BY DEF Handling, HeldOnce, HandlesCounted, BacklogIsUnclaimed

LEMMA HandlingCallbacks ==
    ASSUME Types, Handling, lwIP \/ TimerFires \/ UartStep
    PROVE  Handling'
  <1> USE Constants
  <1>0. UNCHANGED <<pc, handle, refcnt>> /\ \A c \in Conns : Counted(c)
    BY Outside, AllCounted DEF Handling
  <1>1. CASE Accept
    <2> DEFINE a == nconn + 1
    <2>1. /\ a \in Conns /\ unclaimed \in Seq(Conns) /\ nconn \in Nat
          /\ nconn' = a /\ unclaimed' = Append(unclaimed, a)
          /\ ctx' = [ctx EXCEPT ![a] = "live"] /\ pcb' = [pcb EXCEPT ![a] = "ESTABLISHED"]
          /\ pending' = [pending EXCEPT ![a] = TRUE]
      BY <1>1 DEF Accept, Types, Conns
    <2>2. ctx[a] # "live"
      BY <2>1 DEF Handling, HeldOnce
    <2>3. a \notin Range(unclaimed) /\ HoldersOf(handle, a) = {}
      BY <1>0, <2>1, <2>2 DEF Counted
    <2>4. Range(unclaimed') = Range(unclaimed) \cup {a} /\ NoRepeat(unclaimed')
      BY <2>1, <2>3, Joined DEF Handling, HeldOnce
    <2>5. ASSUME NEW c \in Conns PROVE Counted(c)'
      BY <1>0, <2>1, <2>3, <2>4 DEF Counted, Types
    <2>6. \A c \in Conns : c > nconn' => ctx'[c] # "live"
      BY <2>1 DEF Handling, HeldOnce, Types, Conns
    <2>7. HeldOnce'
      BY <1>0, <2>4, <2>6 DEF Handling, HeldOnce
    <2> QED
      BY <2>5, <2>7, AllCounted DEF Handling, HandlesCounted, BacklogIsUnclaimed, Counted, HoldersOf
  <1>2. ASSUME NEW d \in Conns, PeerClosed(d) \/ Error(d) PROVE Handling'
    <2>1. /\ pcb[d] # "GONE" /\ ctx[d] = "live"
          /\ UNCHANGED <<nconn, ctx, unclaimed>>
          /\ \/ pcb' = [pcb EXCEPT ![d] = "CLOSE_WAIT"] /\ UNCHANGED pending
             \/ pcb' = [pcb EXCEPT ![d] = "GONE"] /\ pending' = [pending EXCEPT ![d] = FALSE]
      BY <1>2 DEF PeerClosed, Error, Freed, Open
    <2>2. ASSUME NEW c \in Conns PROVE Counted(c)'
      BY <1>0, <2>1 DEF Counted, Types
    <2>3. HeldOnce'
      BY <1>0, <2>1 DEF Handling, HeldOnce
    <2> QED
      BY <2>2, <2>3 DEF Handling, HandlesCounted, BacklogIsUnclaimed, Counted, HoldersOf
  <1>3. ASSUME NEW d \in Conns, Received(d) \/ Acked(d) PROVE Handling'
    BY <1>3, Quiet DEF Received, Acked
  <1>4. CASE TimerFires \/ UartStep
    BY <1>4, Quiet DEF TimerFires, UartStep, connVars
  <1> QED
    BY <1>1, <1>2, <1>3, <1>4 DEF lwIP

\* The handle x lets go of its connection and is given v, which somebody holds.
LEMMA UnrefHandling ==
    ASSUME Types, Handling, NEW x \in Slots \cup {Temp}, NEW v \in Conns \cup {None},
           v # None => HoldersOf(handle, v) # {},
           handle' = [handle EXCEPT ![x] = v], UNCHANGED unclaimed,
           NEW r, \A c \in Conns : r[c] = Cardinality(HoldersOf(handle', c)),
           unref(handle[x], r)
    PROVE  /\ HandlesCounted' /\ BacklogIsUnclaimed'
           /\ nconn' = nconn /\ \A c \in Conns : ctx'[c] = "live" => ctx[c] = "live"
  <1> USE Constants
  <1>0. DOMAIN handle = Slots \cup {Temp} /\ IsFiniteSet(DOMAIN handle)
        /\ handle[x] \in Conns \cup {None} /\ \A c \in Conns : Counted(c)
    BY AllCounted, Handles DEF Types, Handling
  <1>1. ASSUME NEW c \in Conns PROVE Counted(c)' /\ (ctx'[c] = "live" => ctx[c] = "live")
    <2>1. /\ HoldersOf(handle', c) = IF v = c THEN HoldersOf(handle, c) \cup {x} ELSE HoldersOf(handle, c) \ {x}
          /\ Cardinality(HoldersOf(handle', c)) = 0 <=> HoldersOf(handle', c) = {}
      <3>1. handle' = Given(handle, x, v) /\ x \in DOMAIN handle
        BY <1>0 DEF Given
      <3>2. IsFiniteSet(DOMAIN handle)
        BY <1>0
      <3>3. HoldersOf(Given(handle, x, v), c) = IF v = c THEN HoldersOf(handle, c) \cup {x} ELSE HoldersOf(handle, c) \ {x}
        BY <3>1, <3>2, Rehold
      <3>4. Cardinality(HoldersOf(Given(handle, x, v), c)) = 0 <=> HoldersOf(Given(handle, x, v), c) = {}
        BY <3>1, <3>2, Rehold
      <3> QED
        BY <3>1, <3>3, <3>4
    <2>2. refcnt' = r /\ r[c] = Cardinality(HoldersOf(handle', c))
      BY DEF unref
    <2>3. handle[x] = c <=> x \in HoldersOf(handle, c)
      BY <1>0 DEF HoldersOf
    <2>4. CASE handle[x] = c /\ r[c] = 0
      <3>1. ctx'[c] = "deleted" /\ pcb'[c] = "GONE" /\ pending'[c] = FALSE
        BY <2>4 DEF unref, Freed, Types
      <3>2. c \notin Range(unclaimed) /\ HoldersOf(handle', c) = {}
        BY <1>0, <2>1, <2>2, <2>3, <2>4 DEF Counted
      <3> QED
        BY <2>2, <3>1, <3>2 DEF Counted
    <2>5. CASE handle[x] = c /\ r[c] # 0
      <3>1. ctx' = ctx /\ pcb' = pcb /\ pending' = pending
        BY <2>5 DEF unref
      <3>2. HoldersOf(handle, c) # {} /\ HoldersOf(handle', c) # {}
        BY <2>1, <2>2, <2>3, <2>5
      <3> QED
        BY <1>0, <2>2, <3>1, <3>2 DEF Counted
    <2>6. CASE handle[x] # c
      <3>1. ctx'[c] = ctx[c] /\ pcb'[c] = pcb[c] /\ pending'[c] = pending[c]
        BY <1>0, <2>6 DEF unref, Freed, Types
      <3>2. HoldersOf(handle', c) = {} <=> HoldersOf(handle, c) = {}
        BY <2>1, <2>3, <2>6
      <3> QED
        BY <1>0, <2>2, <3>1, <3>2 DEF Counted
    <2> QED
      BY <2>4, <2>5, <2>6
  <1> QED
    BY <1>1 DEF unref, HandlesCounted, BacklogIsUnclaimed, Counted, HoldersOf

LEMMA HandlingLoop ==
    ASSUME Types, Control, Handling, Loop
    PROVE  Handling'
  <1> USE Constants
  <1>0. /\ DOMAIN handle = Slots \cup {Temp} /\ IsFiniteSet(DOMAIN handle)
        /\ refcnt \in [Conns -> Int] /\ \A c \in Conns : Counted(c)
    BY AllCounted, Handles DEF Types, Handling
  <1>1. CASE LoopBegin \/ Spot \/ SpotResume \/ Line \/ Drain \/ DrainResume \/ Afw \/ AfwResume
             \/ UartRead \/ Push \/ WriteTurn \/ WriteWakes
    <2>1. UNCHANGED <<nconn, ctx, pcb, pending, refcnt, unclaimed, handle>>
      BY <1>1 DEF LoopBegin, Spot, SpotResume, Line, Drain, DrainResume, Afw, AfwResume, UartRead, Push,
           WriteTurn, WriteWakes, connVars
    <2>2. pc # "drop"
      BY <1>1 DEF LoopBegin, Spot, SpotResume, Line, Drain, DrainResume, Afw, AfwResume, UartRead, Push,
           WriteTurn, WriteWakes
    <2> QED
      BY <2>1, <2>2, Quiet
  <1>2. CASE Available
    <2> DEFINE a == Head(unclaimed)
    <2>1. unclaimed \in Seq(Conns) /\ unclaimed # <<>> /\ NoRepeat(unclaimed) /\ handle[Temp] = None
      BY <1>2 DEF Available, Control, InBusy, InWrite, Types, Handling, HeldOnce
    <2>2. a \in Conns /\ a \in Range(unclaimed) /\ Range(unclaimed') = Range(unclaimed) \ {a}
          /\ NoRepeat(unclaimed')
      BY <1>2, <2>1, Left DEF Available
    <2>3. /\ handle' = [handle EXCEPT ![Temp] = a] /\ refcnt' = [refcnt EXCEPT ![a] = @ + 1]
          /\ UNCHANGED <<nconn, ctx, pcb>>
          /\ pending' = [pending EXCEPT ![a] = FALSE] \/ (pcb[a] = "GONE" /\ pending' = pending)
      BY <1>2 DEF Available, tcp_backlog_accepted
    <2>4. HoldersOf(handle, a) = {}
      BY <1>0, <2>2 DEF Counted
    <2>5. ASSUME NEW c \in Conns PROVE Counted(c)'
      <3>1. LET H == HoldersOf(handle, c)
                N == HoldersOf(handle', c)
            IN  /\ N = IF a = c THEN H \cup {Temp} ELSE H \ {Temp}
                /\ Cardinality(N) = Cardinality(H) + IF a = c THEN 1 ELSE 0
        <4>1. handle' = Given(handle, Temp, a) /\ Temp \in DOMAIN handle /\ IsFiniteSet(DOMAIN handle)
          BY <1>0, <2>1, <2>3 DEF Given
        <4>2. /\ Cardinality(HoldersOf(handle, c)) \in Nat
              /\ Cardinality(HoldersOf(Given(handle, Temp, a), c)) =
                     Cardinality(HoldersOf(handle, c)) + (IF a = c THEN 1 ELSE 0) - (IF handle[Temp] = c THEN 1 ELSE 0)
          BY <4>1, Rehold
        <4>3. HoldersOf(Given(handle, Temp, a), c) = IF a = c THEN HoldersOf(handle, c) \cup {Temp} ELSE HoldersOf(handle, c) \ {Temp}
          BY <4>1, Rehold
        <4> QED
          BY <2>1, <4>1, <4>2, <4>3
      <3>2. refcnt'[c] = refcnt[c] + IF a = c THEN 1 ELSE 0
        BY <1>0, <2>2, <2>3
      <3>3. refcnt'[c] = Cardinality(HoldersOf(handle', c))
        BY <1>0, <3>1, <3>2 DEF Counted
      <3>4. HoldersOf(handle', c) = IF a = c THEN {Temp} ELSE HoldersOf(handle, c)
        BY <2>1, <2>4, <3>1 DEF HoldersOf
      <3>5. CASE c = a
        BY <1>0, <2>2, <2>3, <3>3, <3>4, <3>5 DEF Counted, Types
      <3>6. CASE c # a
        BY <1>0, <2>2, <2>3, <3>3, <3>4, <3>6 DEF Counted, Types
      <3> QED
        BY <3>5, <3>6
    <2>6. HeldOnce'
      <3>1. \A s \in Slots : handle'[s] = handle[s] /\ handle[s] # a
        BY <1>0, <2>3, <2>4 DEF HoldersOf
      <3>2. handle'[Temp] = a
        BY <1>0, <2>3
      <3> QED
        BY <2>2, <2>3, <3>1, <3>2 DEF Handling, HeldOnce
    <2> QED
      BY <2>5, <2>6 DEF Handling, HandlesCounted, BacklogIsUnclaimed, Counted, HoldersOf
  <1>3. CASE Assign
    <2> DEFINE v == handle[Temp]
               old == handle[i]
               r == ref(v, Count(refcnt, old, -1))
    <2>1. i \in Slots /\ v \in Conns /\ old \in Conns \cup {None} /\ old # v
      BY <1>3 DEF Assign, Control, Types, Handling, HeldOnce
    <2>2. handle' = [handle EXCEPT ![i] = v] /\ unref(old, r) /\ UNCHANGED unclaimed /\ pc' = "drop"
      BY <1>3 DEF Assign, Goto
    <2>3. Temp \in HoldersOf(handle, v)
      BY <1>0 DEF HoldersOf
    <2>4. ASSUME NEW c \in Conns PROVE r[c] = Cardinality(HoldersOf(handle', c))
      <3>1. Cardinality(HoldersOf(handle', c)) = Cardinality(HoldersOf(handle, c))
                + IF v = c THEN (IF old = c THEN 0 ELSE 1) ELSE (IF old = c THEN -1 ELSE 0)
        <4>1. handle' = Given(handle, i, v) /\ i \in DOMAIN handle /\ IsFiniteSet(DOMAIN handle)
          BY <1>0, <2>1, <2>2 DEF Given
        <4>2. /\ Cardinality(HoldersOf(handle, c)) \in Nat
              /\ Cardinality(HoldersOf(Given(handle, i, v), c)) =
                     Cardinality(HoldersOf(handle, c)) + (IF v = c THEN 1 ELSE 0) - (IF handle[i] = c THEN 1 ELSE 0)
          BY <4>1, Rehold
        <4> QED
          BY <2>1, <4>1, <4>2
      <3>2. r[c] = refcnt[c] + IF v = c THEN 1 ELSE IF old = c THEN -1 ELSE 0
        <4> DEFINE r1 == Count(refcnt, old, -1)
        <4>0. refcnt[c] \in Int
          BY <1>0
        <4>1. r1 \in [Conns -> Int] /\ r1[c] = refcnt[c] + IF old = c THEN -1 ELSE 0
          BY <1>0, <2>1, <4>0 DEF Count
        <4>2. r = [r1 EXCEPT ![v] = @ + 1]
          BY <2>1 DEF ref, Count
        <4> HIDE DEF r1, r
        <4> QED
          BY <2>1, <4>0, <4>1, <4>2
      <3>3. refcnt[c] = Cardinality(HoldersOf(handle, c))
        BY <1>0 DEF Counted
      <3> QED
        BY <2>1, <3>1, <3>2, <3>3
    <2>5. HandlesCounted' /\ BacklogIsUnclaimed'
          /\ nconn' = nconn /\ \A c \in Conns : ctx'[c] = "live" => ctx[c] = "live"
      <3> HIDE DEF r
      <3> QED
        BY <2>1, <2>2, <2>3, <2>4, UnrefHandling
    <2>6. HeldOnce'
      <3>1. \A s \in Slots : handle'[s] = (IF s = i THEN v ELSE handle[s]) /\ handle[s] # v
        BY <1>0, <1>3, <2>1, <2>2 DEF Assign, Handling, HeldOnce
      <3>2. \A s, t \in Slots : handle'[s] = handle'[t] /\ handle'[s] # None => s = t
        BY <3>1 DEF Handling, HeldOnce
      <3> QED
        BY <2>2, <2>5, <3>2 DEF Handling, HeldOnce
    <2> QED
      BY <2>5, <2>6 DEF Handling
  <1>4. CASE Drop
    <2> DEFINE old == handle[Temp]
               r == Count(refcnt, old, -1)
    <2>1. old \in Conns /\ handle' = [handle EXCEPT ![Temp] = None] /\ unref(old, r) /\ UNCHANGED unclaimed
      BY <1>4 DEF Drop, Control, Types
    <2>2. ASSUME NEW c \in Conns PROVE r[c] = Cardinality(HoldersOf(handle', c))
      <3>1. Cardinality(HoldersOf(handle', c)) = Cardinality(HoldersOf(handle, c)) + IF old = c THEN -1 ELSE 0
        <4>1. handle' = Given(handle, Temp, None) /\ Temp \in DOMAIN handle /\ IsFiniteSet(DOMAIN handle)
          BY <1>0, <2>1 DEF Given
        <4>2. /\ Cardinality(HoldersOf(handle, c)) \in Nat
              /\ Cardinality(HoldersOf(Given(handle, Temp, None), c)) =
                     Cardinality(HoldersOf(handle, c)) + (IF None = c THEN 1 ELSE 0) - (IF handle[Temp] = c THEN 1 ELSE 0)
          BY <4>1, Rehold
        <4>3. None # c
          BY <1>0
        <4> QED
          BY <4>1, <4>2, <4>3
      <3>2. r[c] = refcnt[c] + IF old = c THEN -1 ELSE 0
        BY <1>0, <2>1 DEF Count
      <3> QED
        BY <1>0, <3>1, <3>2 DEF Counted
    <2>3. HandlesCounted' /\ BacklogIsUnclaimed'
          /\ nconn' = nconn /\ \A c \in Conns : ctx'[c] = "live" => ctx[c] = "live"
      <3> HIDE DEF r
      <3> QED
        BY <2>1, <2>2, UnrefHandling
    <2>4. HeldOnce'
      <3>1. handle'[Temp] = None /\ \A s \in Slots : handle'[s] = handle[s]
        BY <1>0, <2>1
      <3> QED
        BY <2>1, <2>3, <3>1 DEF Handling, HeldOnce
    <2> QED
      BY <2>3, <2>4 DEF Handling
  <1> QED
    BY <1>1, <1>2, <1>3, <1>4 DEF Loop

LEMMA FreeSlotStep ==
    ASSUME Types, Control, FreeSlot, [Next]_vars
    PROVE  FreeSlot'
  <1> USE Constants
  <1>1. CASE lwIP \/ TimerFires \/ UartStep
    <2>1. UNCHANGED <<pc, i, handle>> /\ (AtYield \/ UNCHANGED pcb)
      BY <1>1, Outside DEF UartStep, connVars
    <2> QED
      BY <2>1 DEF FreeSlot, AtYield
  <1>2. CASE Spot \/ SpotResume
    BY <1>2 DEF Spot, SpotResume, NextSpot, NextSlot, Goto, connected, connVars, FreeSlot, Control
  <1>3. CASE Available
    <2>1. UNCHANGED <<pcb, i>> /\ pc = "claim" /\ \A s \in Slots : handle'[s] = handle[s]
      BY <1>3 DEF Available, Goto, Types
    <2> QED
      BY <2>1 DEF FreeSlot
  <1>4. CASE LoopBegin \/ Assign \/ Drop \/ Line \/ Drain \/ DrainResume \/ Afw \/ AfwResume \/ UartRead
             \/ Push \/ WriteTurn \/ WriteWakes
    <2>1. pc' \notin {"claim", "assign"}
      BY <1>4 DEF LoopBegin, Assign, Drop, Line, Drain, DrainResume, Afw, AfwResume, UartRead, Push, WriteTurn,
           WriteWakes, Goto, NextDrain, NextAfw, NextPush, NextSlot, WriteOver
    <2> QED
      BY <2>1 DEF FreeSlot
  <1>5. CASE UNCHANGED vars
    BY <1>5 DEF vars, connVars, FreeSlot
  <1> QED
    BY <1>1, <1>2, <1>3, <1>4, <1>5 DEF Next, Loop

-----------------------------------------------------------------------------
(* What a write does.                                                      *)

\* A connection that a handle holds has been accepted and claimed.
LEMMA Claimed ==
    ASSUME Types, Handling, NEW h \in Slots \cup {Temp}, handle[h] # None
    PROVE  /\ handle[h] \in Conns /\ ctx[handle[h]] = "live"
           /\ handle[h] <= nconn /\ handle[h] \notin Range(unclaimed)
  <1> DEFINE c == handle[h]
  <1>1. c \in Conns /\ c \in Nat /\ nconn \in Nat
    BY Constants DEF Types, Conns
  <1>2. h \in HoldersOf(handle, c) /\ Counted(c)
    BY <1>1, AllCounted DEF Handling, HoldersOf, Types
  <1>3. ctx[c] = "live" /\ c \notin Range(unclaimed)
    BY <1>2 DEF Counted
  <1>4. ~(c > nconn)
    BY <1>1, <1>3 DEF Handling, HeldOnce
  <1> QED
    BY <1>1, <1>3, <1>4

\* lwIP takes nothing: the write waits, or is given up.
Refused ==
    /\ UNCHANGED <<room, got>>
    /\ WriteOver \/ (left' = left /\ Goto("stalled", i))

\* lwIP takes the chunk whole.
Whole ==
    /\ room' = [room EXCEPT ![target] = @ - left]
    /\ got' = [got EXCEPT ![target] = @ \o chunk]
    /\ WriteOver

LEMMA SubSeqEnds ==
    ASSUME NEW S, NEW s \in Seq(S)
    PROVE  SubSeq(s, 1, 0) = <<>> /\ SubSeq(s, 1, Len(s)) = s
  OBVIOUS

LEMMA OneTurn ==
    ASSUME Types, Bytes, Control, Written, WriteTurn
    PROVE  /\ target \in Conns /\ pc = "write" /\ (Refused \/ Whole)
           /\ UNCHANGED <<nconn, ctx, pcb, unclaimed, handle, chunk, lines, uartVars>>
  <1> USE Constants
  <1>1. pc = "write" /\ target # None /\ left = Len(chunk) /\ left >= 1 /\ left \in Nat
        /\ room[target] >= left + IF i \in Slots THEN 0 ELSE lines
    BY LenProperties DEF WriteTurn, Written, InWrite, Bytes
  <1>2. target \in Conns /\ room[target] \in 0..SndBuf /\ lines \in 0..2
        /\ got \in [Conns -> Seq(0..MaxUart)] /\ room \in [Conns -> 0..SndBuf] /\ chunk \in Seq(0..MaxUart)
    BY <1>1, Held DEF target, Types, Bytes
  <1>3. room[target] >= left
    BY <1>1, <1>2
  <1>4. PICK ok \in BOOLEAN :
            LET c      == target
                closed == pcb[c] # "ESTABLISHED"
                n      == IF closed \/ ~ok THEN 0 ELSE IF room[c] < left THEN room[c] ELSE left
                first  == Len(chunk) - left + 1
                rest   == release_buffer(n)
            IN  /\ room' = [room EXCEPT ![c] = @ - n]
                /\ got' = [got EXCEPT ![c] = @ \o SubSeq(chunk, first, first + n - 1)]
                /\ IF rest = 0 \/ closed \/ (expired /\ n = 0)
                   THEN WriteOver
                   ELSE left' = rest /\ Goto("stalled", i)
    BY DEF WriteTurn
  <1>5. ASSUME pcb[target] # "ESTABLISHED" \/ ~ok PROVE Refused
    <2>1. /\ room' = [room EXCEPT ![target] = @ - 0]
          /\ got' = [got EXCEPT ![target] = @ \o SubSeq(chunk, Len(chunk) - left + 1, Len(chunk) - left + 1 + 0 - 1)]
          /\ WriteOver \/ (left' = left - 0 /\ Goto("stalled", i))
      BY <1>4, <1>5 DEF release_buffer
    <2>2. Len(chunk) - left + 1 = 1 /\ Len(chunk) - left + 1 + 0 - 1 = 0 /\ left - 0 = left
      BY <1>1
    <2>3. room' = room
      BY <1>2, <2>1
    <2>4. got[target] \o SubSeq(chunk, 1, 0) = got[target]
      BY <1>2, SubSeqEnds, ConcatEmptySeq
    <2>5. got' = got
      <3>1. got' = [got EXCEPT ![target] = @ \o SubSeq(chunk, 1, 0)]
        BY <2>1, <2>2
      <3> QED
        BY <1>2, <2>4, <3>1
    <2>6. WriteOver \/ (left' = left /\ Goto("stalled", i))
      BY <2>1, <2>2
    <2> QED
      BY <2>3, <2>5, <2>6 DEF Refused
  <1>6. ASSUME ~(pcb[target] # "ESTABLISHED" \/ ~ok) PROVE Whole
    <2>1. ~(room[target] < left)
      BY <1>1, <1>2, <1>3
    <2>2. /\ room' = [room EXCEPT ![target] = @ - left]
          /\ got' = [got EXCEPT ![target] = @ \o SubSeq(chunk, Len(chunk) - left + 1, Len(chunk) - left + 1 + left - 1)]
          /\ left - left = 0 => WriteOver
      BY <1>4, <1>6, <2>1 DEF release_buffer
    <2>3. Len(chunk) - left + 1 = 1 /\ Len(chunk) - left + 1 + left - 1 = Len(chunk) /\ left - left = 0
      BY <1>1
    <2>4. SubSeq(chunk, 1, Len(chunk)) = chunk
      BY <1>2, SubSeqEnds
    <2>5. got' = [got EXCEPT ![target] = @ \o SubSeq(chunk, 1, Len(chunk))]
      BY <2>2, <2>3
    <2>6. got' = [got EXCEPT ![target] = @ \o chunk]
      BY <2>4, <2>5
    <2> QED
      BY <2>2, <2>3, <2>6 DEF Whole
  <1>7. UNCHANGED <<nconn, ctx, pcb, unclaimed, handle, chunk, lines, uartVars>>
    BY DEF WriteTurn
  <1> QED
    BY <1>1, <1>2, <1>5, <1>6, <1>7

\* Where loop() does not write, and does not begin to.
Elsewhere == {"loop", "spot", "spotYield", "claim", "assign", "drop", "drain", "drainYield", "afw", "afwYield", "uart"}

LEMMA Errands ==
    ASSUME Loop
    PROVE  \/ Available \/ Line \/ UartRead \/ Push \/ WriteTurn \/ WriteWakes
           \/ LoopBegin /\ pc' \in Elsewhere
           \/ Assign /\ pc' = "drop"
           \/ Drop /\ pc' = "drain"
           \/ /\ pc \in Elsewhere /\ pc' \in Elsewhere \ {"assign", "drop"}
              /\ UNCHANGED <<nconn, ctx, unclaimed, handle, room, chunk, left, lines, uartVars, got>>
  BY DEF Loop, LoopBegin, Assign, Drop, Spot, SpotResume, Drain, DrainResume, Afw, AfwResume, Goto, NextSpot, NextDrain,
         NextAfw, NextSlot, Elsewhere, connVars, writeVars

LEMMA Piece ==
    ASSUME NEW S, NEW s \in Seq(S), NEW k \in 1..Len(s)
    PROVE  /\ SubSeq(s, 1, k) \in Seq(S) /\ Len(SubSeq(s, 1, k)) = k
           /\ \A j \in 1..k : SubSeq(s, 1, k)[j] = s[j]
           /\ SubSeq(s, k + 1, Len(s)) \in Seq(S)
  <1>1. Len(s) \in Nat /\ \A j \in 1..Len(s) : s[j] \in S
    OBVIOUS
  <1>2. SubSeq(s, 1, k) = [j \in 1..k |-> s[j]]
    BY <1>1
  <1>3. SubSeq(s, k + 1, Len(s)) = [j \in 1..(Len(s) - k) |-> s[k + j]]
    BY <1>1
  <1> QED
    BY <1>1, <1>2, <1>3

LEMMA BytesOutside ==
    ASSUME Types, Bytes, lwIP \/ TimerFires \/ UartStep
    PROVE  Bytes'
  <1> USE Constants
  <1>1. UNCHANGED <<chunk, left, got>>
    BY Outside
  <1>2. queue \in Seq(1..MaxUart) /\ arrived \in 0..MaxUart /\ delivered \in Seq(1..MaxUart)
    BY DEF Bytes
  <1>3. queue' \in Seq(1..MaxUart) /\ arrived' \in 0..MaxUart /\ delivered' \in Seq(1..MaxUart)
    <2>1. CASE UNCHANGED uartVars
      BY <1>2, <2>1 DEF uartVars
    <2>2. CASE Uart!Receive
      <3>1. arrived + 1 \in 1..MaxUart /\ arrived' = arrived + 1 /\ delivered' = delivered
            /\ (queue' = queue \/ queue' = Append(queue, arrived + 1))
        BY <1>2, <2>2 DEF Uart!Receive
      <3>2. Append(queue, arrived + 1) \in Seq(1..MaxUart)
        BY <1>2, <3>1, AppendProperties
      <3>3. arrived' \in 0..MaxUart
        BY <3>1
      <3>4. queue' \in Seq(1..MaxUart)
        BY <1>2, <3>1, <3>2
      <3> QED
        BY <1>2, <3>1, <3>3, <3>4
    <2>3. ASSUME NEW k \in 1..Len(queue), Uart!Discard(k)
          PROVE  queue' \in Seq(1..MaxUart) /\ arrived' = arrived /\ delivered' = delivered
      BY <1>2, <2>3, Piece DEF Uart!Discard, Uart!Rest
    <2> QED
      BY <1>2, <2>1, <2>2, <2>3, Outside DEF UartStep
  <1> QED
    BY <1>1, <1>3 DEF Bytes

\* What the sketch takes from the UART.
LEMMA Taken ==
    ASSUME Bytes, NEW len \in 1..Len(queue), Uart!Take(len)
    PROVE  LET f == SubSeq(queue, 1, len)
           IN  /\ f \in Seq(1..MaxUart) /\ f \in Seq(0..MaxUart) /\ Len(f) = len /\ len \in Nat /\ len >= 1
               /\ queue' \in Seq(1..MaxUart) /\ arrived' = arrived
               /\ delivered' \in Seq(1..MaxUart) /\ delivered' = delivered \o f
  <1> DEFINE f == SubSeq(queue, 1, len)
  <1> USE Constants
  <1>1. queue \in Seq(1..MaxUart) /\ delivered \in Seq(1..MaxUart) /\ arrived \in 0..MaxUart
    BY DEF Bytes
  <1>2. f \in Seq(1..MaxUart) /\ Len(f) = len /\ len \in Nat /\ len >= 1
    BY <1>1, Piece, LenProperties
  <1>3. f \in Seq(0..MaxUart)
    <2>1. Len(f) \in Nat /\ f = [j \in 1..Len(f) |-> f[j]] /\ \A j \in 1..Len(f) : f[j] \in 0..MaxUart
      BY <1>2
    <2> QED
      BY <2>1
  <1>4. queue' = SubSeq(queue, len + 1, Len(queue)) /\ arrived' = arrived /\ delivered' = delivered \o f
    BY DEF Uart!Take, Uart!Rest, Uart!Front
  <1>5. queue' \in Seq(1..MaxUart)
    BY <1>1, <1>4, Piece
  <1> HIDE DEF f
  <1>6. delivered \o f \in Seq(1..MaxUart)
    BY <1>1, <1>2, ConcatProperties
  <1> QED
    BY <1>2, <1>3, <1>4, <1>5, <1>6 DEF f

LEMMA BytesLoop ==
    ASSUME Types, Bytes, Control, Written, Loop
    PROVE  Bytes'
  <1> USE Constants
  <1>0. /\ chunk \in Seq(0..MaxUart) /\ left \in 0..Len(chunk) /\ Len(chunk) \in Nat
        /\ queue \in Seq(1..MaxUart) /\ arrived \in 0..MaxUart /\ delivered \in Seq(1..MaxUart)
        /\ got \in [Conns -> Seq(0..MaxUart)]
    BY LenProperties DEF Bytes
  <1>1. CASE LoopBegin
    <2>1. chunk' = <<>> /\ left' = left /\ UNCHANGED <<uartVars, got>> /\ left = 0
      BY <1>1 DEF LoopBegin, Written, InWrite
    <2>2. chunk' \in Seq(0..MaxUart) /\ left' \in 0..Len(chunk')
      BY <2>1
    <2> QED
      BY <1>0, <2>1, <2>2 DEF Bytes, uartVars
  <1>2. CASE UNCHANGED <<chunk, left, uartVars, got>>
    BY <1>0, <1>2 DEF Bytes, uartVars
  <1>3. CASE Assign \/ Drop \/ Available \/ WriteWakes
    BY <1>0, <1>3 DEF Assign, Drop, Available, WriteWakes, writeVars, Bytes, uartVars
  <1>4. CASE Line
    <2>1. UNCHANGED <<uartVars, got>>
      BY <1>4 DEF Line
    <2>2. \/ chunk' = <<>> /\ left' = left
          \/ UNCHANGED <<chunk, left>>
          \/ chunk' = <<Busy>> /\ left' = 1
      BY <1>4 DEF Line
    <2>3. left = 0
      BY <1>4 DEF Line, Written, InWrite
    <2>4. Busy \in 0..MaxUart
      BY DEF Busy
    <2>5. <<Busy>> \in Seq(0..MaxUart) /\ Len(<<Busy>>) = 1
      BY <2>4
    <2>6. chunk' \in Seq(0..MaxUart) /\ left' \in 0..Len(chunk')
      <3>1. CASE chunk' = <<>> /\ left' = left
        <4>1. <<>> \in Seq(0..MaxUart) /\ Len(<<>>) = 0
          OBVIOUS
        <4> QED
          BY <2>3, <3>1, <4>1
      <3>2. CASE UNCHANGED <<chunk, left>>
        BY <1>0, <3>2
      <3>3. CASE chunk' = <<Busy>> /\ left' = 1
        BY <2>5, <3>3
      <3> QED
        BY <2>2, <3>1, <3>2, <3>3
    <2> QED
      BY <1>0, <2>1, <2>6 DEF Bytes, uartVars
  <1>5. CASE UartRead
    <2>1. CASE UNCHANGED <<chunk, uartVars>>
      BY <1>0, <1>5, <2>1 DEF UartRead, Bytes, uartVars
    <2>2. ASSUME NEW len \in 1..Len(queue), chunk' = Uart!Front(len), Uart!Take(len) PROVE Bytes'
      <3>1. chunk' \in Seq(0..MaxUart) /\ Len(chunk') \in Nat
            /\ queue' \in Seq(1..MaxUart) /\ arrived' = arrived /\ delivered' \in Seq(1..MaxUart)
        BY <2>2, Taken, LenProperties DEF Uart!Front
      <3>2. left' = 0 /\ got' = got
        BY <1>5 DEF UartRead, Written, InWrite
      <3> QED
        BY <1>0, <3>1, <3>2 DEF Bytes
    <2> QED
      BY <1>5, <2>1, <2>2 DEF UartRead
  <1>6. CASE Push
    <2>1. chunk' = chunk /\ left' \in {left, Len(chunk)} /\ UNCHANGED <<uartVars, got>>
      BY <1>6 DEF Push
    <2> QED
      BY <1>0, <2>1 DEF Bytes, uartVars
  <1>7. CASE WriteTurn
    <2>1. target \in Conns /\ chunk' = chunk /\ UNCHANGED uartVars /\ (Refused \/ Whole)
      BY <1>7, OneTurn
    <2>2. left' \in {0, left}
      BY <2>1 DEF Refused, Whole, WriteOver
    <2>3. got' \in [Conns -> Seq(0..MaxUart)]
      <3>1. got[target] \o chunk \in Seq(0..MaxUart)
        BY <1>0, <2>1, ConcatProperties
      <3> QED
        BY <1>0, <2>1, <3>1 DEF Refused, Whole
    <2> QED
      BY <1>0, <2>1, <2>2, <2>3 DEF Bytes, uartVars
  <1> QED
    BY <1>1, <1>2, <1>3, <1>4, <1>5, <1>6, <1>7, Errands

\* What waits on the UART is younger than all it has delivered.
LEMMA QueueStep ==
    ASSUME Uart!QInv, [Next]_vars
    PROVE  Uart!QInv'
  <1>1. [Uart!QNext]_(Uart!qvars)
    <2>1. CASE UNCHANGED uartVars
      BY <2>1 DEF uartVars, Uart!qvars
    <2>2. CASE UartStep
      BY <2>2 DEF UartStep, Uart!QNext
    <2>3. CASE UartRead
      BY <2>3 DEF UartRead, Uart!QNext, Uart!qvars, uartVars
    <2> QED
      BY <2>1, <2>2, <2>3 DEF Next, vars, lwIP, Loop, Accept, Received, PeerClosed, Error, Acked, TimerFires, LoopBegin,
           Spot, SpotResume, Available, Assign, Drop, Line, Drain, DrainResume, Afw, AfwResume, Push, WriteTurn,
           WriteWakes
  <1> QED
    BY <1>1, Uart!QStep

-----------------------------------------------------------------------------
(* What is there to be written, and room for it.                           *)

\* What lwIP, the clock and the UART do to the room in the send buffers.
LEMMA RoomOutside ==
    ASSUME Types, lwIP \/ TimerFires \/ UartStep
    PROVE  /\ \A c \in Conns : room'[c] \in Nat /\ room'[c] >= room[c]
           /\ \A c \in Conns : room[c] = SndBuf => room'[c] = SndBuf
  <1> USE Constants
  <1>0. room \in [Conns -> 0..SndBuf]
    BY DEF Types
  <1>1. CASE UNCHANGED room
    BY <1>0, <1>1
  <1>2. ASSUME NEW d \in Conns, Acked(d)
        PROVE  /\ \A c \in Conns : room'[c] \in Nat /\ room'[c] >= room[c]
               /\ \A c \in Conns : room[c] = SndBuf => room'[c] = SndBuf
    <2>1. room' = [room EXCEPT ![d] = @ + 1] /\ room[d] < SndBuf
      BY <1>2 DEF Acked
    <2> QED
      BY <1>0, <2>1
  <1> QED
    BY <1>1, <1>2 DEF lwIP, Accept, Received, PeerClosed, Error, TimerFires, UartStep, connVars

LEMMA WrittenOutside ==
    ASSUME Types, Bytes, Control, Written, lwIP \/ TimerFires \/ UartStep
    PROVE  Written'
  <1> USE Constants
  <1>1. UNCHANGED <<pc, i, handle, left, chunk, lines>>
    BY Outside
  <1>2. left \in Nat /\ lines \in 0..2 /\ target' = target
    BY <1>1, LenProperties DEF Bytes, Types, target
  <1>3. InWrite => target \in Conns
    BY Held DEF Written, target, Types
  <1>4. pc = "busy" => handle[Temp] \in Conns
    BY Held DEF Control, InBusy
  <1>5. \A c \in Conns : room[c] \in Nat /\ room'[c] \in Nat /\ room'[c] >= room[c]
    BY RoomOutside DEF Types
  <1>6. InWrite => room'[target] >= left + IF i \in Slots THEN 0 ELSE lines
    <2> SUFFICES ASSUME InWrite PROVE room'[target] >= left + IF i \in Slots THEN 0 ELSE lines
      OBVIOUS
    <2>1. room[target] >= left + IF i \in Slots THEN 0 ELSE lines
      BY DEF Written
    <2> QED
      BY <1>2, <1>3, <1>5, <2>1
  <1>7. pc = "busy" => room'[handle[Temp]] >= lines
    BY <1>2, <1>4, <1>5 DEF Written
  <1> QED
    BY <1>1, <1>2, <1>6, <1>7 DEF Written, InWrite

\* The temporary and the room of the client that is told to go away.
LEMMA WrittenLoop ==
    ASSUME Types, Bytes, Control, HeldOnce, Written, Fresh, Loop
    PROVE  Written'
  <1> USE Constants
  <1>0. /\ lines \in 0..2 /\ left \in Nat /\ i \in 1..MAX_SRV_CLIENTS + 1 /\ room \in [Conns -> 0..SndBuf]
        /\ handle \in [Slots \cup {Temp} -> Conns \cup {None}] /\ unclaimed \in Seq(Conns)
    BY LenProperties DEF Types, Bytes
  <1>n. ~InWrite => left = 0
    BY DEF Written
  <1>1. ASSUME pc \notin {"write", "stalled"}, left' = left, pc' \in Elsewhere PROVE Written'
    BY <1>1, <1>n DEF Written, InWrite, Elsewhere
  <1>2. CASE LoopBegin \/ Assign \/ Drop
    <2>1. pc \notin {"write", "stalled"} /\ left' = left
      BY <1>2 DEF LoopBegin, Assign, Drop, writeVars
    <2>2. pc' \in Elsewhere
      BY <1>2 DEF LoopBegin, Assign, Drop, Goto, Elsewhere
    <2> QED
      BY <1>1, <2>1, <2>2
  <1>3. CASE pc \in Elsewhere /\ pc' \in Elsewhere \ {"assign", "drop"} /\ UNCHANGED left
    BY <1>1, <1>3 DEF Elsewhere
  <1>4. CASE Available
    <2> DEFINE a == Head(unclaimed)
    <2>1. unclaimed # <<>> /\ NoRepeat(unclaimed)
      BY <1>4 DEF Available, Control, HeldOnce
    <2>2. a \in Conns /\ a \in Range(unclaimed)
      BY <1>0, <2>1, Left
    <2>3. room[a] = SndBuf
      BY <2>2 DEF Fresh
    <2>4. handle'[Temp] = a /\ room' = room /\ left' = left /\ pc = "claim" /\ lines' \in 0..2
          /\ pc' \in {"busy", "assign"}
      BY <1>0, <1>4 DEF Available, Goto
    <2>5. left' = 0
      BY <1>n, <2>4 DEF InWrite
    <2>6. room'[handle'[Temp]] >= lines'
      BY <2>3, <2>4
    <2> QED
      BY <2>4, <2>5, <2>6 DEF Written, InWrite
  <1>5. CASE Line
    <2>0. pc = "busy" /\ left = 0 /\ i \notin Slots /\ handle[Temp] # None /\ room[handle[Temp]] >= lines
      BY <1>5, <1>n DEF Line, InWrite, Control, InBusy, Written
    <2>1. handle[Temp] \in Conns /\ UNCHANGED <<handle, room>>
      BY <1>0, <1>5, <2>0 DEF Line, connVars
    <2>2. CASE lines = 0
      BY <1>1, <1>5, <2>0, <2>2 DEF Line, Goto, Elsewhere
    <2>3. CASE lines # 0 /\ pcb[handle[Temp]] = "GONE"
      <3>1. lines' = lines - 1 /\ UNCHANGED <<pc, left>>
        BY <1>5, <2>3 DEF Line
      <3>2. room'[handle'[Temp]] >= lines'
        BY <1>0, <2>0, <2>1, <3>1
      <3> QED
        BY <2>0, <3>1, <3>2 DEF Written, InWrite
    <2>4. CASE lines # 0 /\ pcb[handle[Temp]] # "GONE"
      <3>1. chunk' = <<Busy>> /\ left' = 1 /\ lines' = lines - 1 /\ pc' = "write" /\ i' = i
        BY <1>5, <2>4 DEF Line, Goto
      <3>2. target' = handle[Temp] /\ Len(chunk') = 1 /\ i' \notin Slots
        BY <2>0, <2>1, <3>1 DEF target
      <3>3. room'[target'] >= left' + lines'
        BY <1>0, <2>0, <2>1, <3>1, <3>2
      <3> QED
        BY <2>0, <3>1, <3>2, <3>3 DEF Written, InWrite
    <2> QED
      BY <2>2, <2>3, <2>4
  <1>6. CASE UartRead
    <2>1. left' = 0 /\ pc' \in {"push", "loop"}
      BY <1>6, <1>n DEF UartRead, InWrite, Goto
    <2>2. pc' = "push" => Len(chunk') >= 1
      BY <1>6, Taken DEF UartRead, Goto, Uart!Front
    <2> QED
      BY <2>1, <2>2 DEF Written, InWrite
  <1>7. CASE Push
    <2>1. pc = "push" /\ left = 0 /\ i \in Slots /\ Len(chunk) >= 1 /\ Len(chunk) \in Nat
          /\ UNCHANGED <<handle, chunk, room, lines>>
      BY <1>7, <1>n, LenProperties DEF Push, InWrite, Control, Written, connVars, Bytes
    <2>2. CASE Fits(handle[i])
      <3>1. pc' = "write" /\ i' = i /\ left' = Len(chunk)
        BY <1>7, <2>2 DEF Push, Goto
      <3>2. availableForWrite(handle[i]) >= 1 /\ availableForWrite(handle[i]) >= Len(chunk)
            /\ handle[i] \in Conns \cup {None}
        BY <1>0, <2>1, <2>2, AfwType DEF Fits
      <3>3. handle[i] # None /\ room[handle[i]] >= Len(chunk)
        BY <3>2 DEF availableForWrite
      <3>4. target' = handle[i] /\ room'[target'] >= left' + 0
        BY <1>0, <2>1, <3>1, <3>3 DEF target
      <3> QED
        BY <2>1, <3>1, <3>3, <3>4 DEF Written, InWrite
    <2>3. CASE ~Fits(handle[i])
      <3>1. pc' \in {"push", "loop"} /\ left' = 0
        BY <1>7, <2>1, <2>3 DEF Push, NextPush, NextSlot, Goto
      <3> QED
        BY <2>1, <3>1 DEF Written, InWrite
    <2> QED
      BY <2>2, <2>3
  <1>8. CASE WriteTurn
    <2>1. /\ target \in Conns /\ pc = "write" /\ UNCHANGED <<handle, chunk, lines>>
          /\ Refused \/ Whole
      BY <1>8, OneTurn
    <2>2. left = Len(chunk) /\ left >= 1 /\ room[target] \in Nat
          /\ room[target] >= left + IF i \in Slots THEN 0 ELSE lines
      BY <1>0, <2>1 DEF Written, InWrite
    <2>3. CASE left' = left /\ Goto("stalled", i) /\ Refused
      <3>1. pc' = "stalled" /\ i' = i /\ room' = room /\ target' = target
        BY <2>1, <2>3 DEF Goto, Refused, target
      <3> QED
        BY <2>1, <2>2, <2>3, <3>1 DEF Written, InWrite
    <2>4. CASE WriteOver
      <3>1. left' = 0
        BY <2>4 DEF WriteOver
      <3>2. CASE i \in Slots
        <4>1. pc' \in {"push", "loop"}
          BY <2>4, <3>2 DEF WriteOver, NextPush, NextSlot, Goto
        <4> QED
          BY <2>1, <2>2, <3>1, <4>1 DEF Written, InWrite
      <3>3. CASE i \notin Slots
        <4>1. pc' = "busy" /\ target = handle[Temp]
          BY <2>4, <3>3 DEF WriteOver, Goto, target
        <4>2. room'[target] >= room[target] - left /\ room'[target] \in Int
          BY <1>0, <2>1, <2>2 DEF Refused, Whole
        <4>3. room'[handle'[Temp]] >= lines'
          BY SMTT(30), <1>0, <2>1, <2>2, <3>3, <4>1, <4>2
        <4> QED
          BY <3>1, <4>1, <4>3 DEF Written, InWrite
      <3> QED
        BY <3>2, <3>3
    <2> QED
      BY <2>1, <2>3, <2>4 DEF Refused, Whole
  <1>9. CASE WriteWakes
    <2>1. pc = "stalled" /\ pc' = "write" /\ i' = i /\ UNCHANGED <<handle, room, chunk, left, lines>>
      BY <1>9 DEF WriteWakes, Goto, connVars, writeVars
    <2> QED
      BY <2>1 DEF Written, InWrite, target
  <1> QED
    BY <1>2, <1>3, <1>4, <1>5, <1>6, <1>7, <1>8, <1>9, Errands

LEMMA FreshOutside ==
    ASSUME Types, Fresh, lwIP \/ TimerFires \/ UartStep
    PROVE  Fresh'
  <1> USE Constants
  <1>1. UNCHANGED <<pc, handle, got>> /\ \A c \in Conns : room[c] = SndBuf => room'[c] = SndBuf
    BY Outside, RoomOutside
  <1>2. CASE Accept
    <2>1. /\ nconn + 1 \in Conns /\ unclaimed \in Seq(Conns) /\ nconn \in Nat /\ Conns \subseteq Nat
          /\ nconn' = nconn + 1 /\ unclaimed' = Append(unclaimed, nconn + 1)
      BY <1>2 DEF Accept, Types, Conns
    <2>2. Range(unclaimed') = Range(unclaimed) \cup {nconn + 1}
      BY <2>1, Joined
    <2>3. ASSUME NEW c \in Conns, c > nconn' \/ c \in Range(unclaimed')
          PROVE  c > nconn \/ c \in Range(unclaimed)
      BY <2>1, <2>2, <2>3
    <2> QED
      BY <1>1, <2>3 DEF Fresh
  <1>3. CASE UNCHANGED <<nconn, ctx, unclaimed>>
    BY <1>1, <1>3 DEF Fresh
  <1> QED
    BY <1>2, <1>3, Outside

LEMMA FreshLoop ==
    ASSUME Types, Bytes, Control, Handling, Written, Fresh, Loop
    PROVE  Fresh'
  <1> USE Constants
  <1>1. ASSUME UNCHANGED <<nconn, unclaimed, room, got>>, pc' # "assign" PROVE Fresh'
    BY <1>1 DEF Fresh
  <1>2. CASE LoopBegin
    BY <1>1, <1>2, Errands DEF LoopBegin, connVars, Goto
  <1>3. CASE Assign \/ Drop
    BY <1>1, <1>3 DEF Assign, Drop, Goto, unref
  <1>4. CASE pc' \in Elsewhere \ {"assign", "drop"} /\ UNCHANGED <<nconn, unclaimed, room, got>>
    BY <1>1, <1>4
  <1>5. CASE Line \/ UartRead \/ Push \/ WriteWakes
    BY <1>1, <1>5 DEF Line, UartRead, Push, WriteWakes, connVars, Goto, NextPush, NextSlot
  <1>6. CASE Available
    <2> DEFINE a == Head(unclaimed)
    <2>1. unclaimed \in Seq(Conns) /\ unclaimed # <<>> /\ NoRepeat(unclaimed)
      BY <1>6 DEF Available, Control, Handling, HeldOnce, Types
    <2>2. a \in Range(unclaimed) /\ Range(unclaimed') = Range(unclaimed) \ {a}
      BY <1>6, <2>1, Left DEF Available
    <2>3. UNCHANGED <<nconn, room, got>> /\ handle'[Temp] = a
      BY <1>6 DEF Available, Types
    <2> QED
      BY <2>2, <2>3 DEF Fresh
  <1>7. CASE WriteTurn
    <2>1. /\ target \in Conns /\ pc = "write" /\ UNCHANGED <<nconn, unclaimed, handle>>
          /\ Refused \/ Whole
      BY <1>7, OneTurn
    <2>2. \A c \in Conns : c # target => room'[c] = room[c] /\ got'[c] = got[c]
      BY <2>1 DEF Refused, Whole, Types, Bytes
    <2>3. target <= nconn /\ target \notin Range(unclaimed)
      <3>1. i \in Slots \cup {Temp} \/ i \notin Slots
        OBVIOUS
      <3> QED
        BY <2>1, Claimed DEF target
    <2>4. pc' # "assign"
      BY <1>7 DEF WriteTurn, WriteOver, NextPush, NextSlot, Goto
    <2>5. nconn \in Nat /\ Conns \subseteq Nat
      BY DEF Types, Conns
    <2>6. ASSUME NEW c \in Conns, c > nconn \/ c \in Range(unclaimed) PROVE c # target
      BY <2>1, <2>3, <2>5, <2>6
    <2> QED
      BY <2>1, <2>2, <2>4, <2>6 DEF Fresh
  <1> QED
    BY <1>2, <1>3, <1>4, <1>5, <1>6, <1>7, Errands

-----------------------------------------------------------------------------
(* What each client is sent.                                               *)

\* Two sequences one after the other.
LEMMA Concatenated ==
    ASSUME NEW S, NEW g \in Seq(S), NEW h \in Seq(S)
    PROVE  /\ g \o h \in Seq(S) /\ Len(g \o h) = Len(g) + Len(h) /\ Len(g) \in Nat /\ Len(h) \in Nat
           /\ \A k \in 1..Len(g) : (g \o h)[k] = g[k]
           /\ \A k \in 1..Len(h) : (g \o h)[Len(g) + k] = h[k]
           /\ \A k \in 1..Len(g) + Len(h) :
                 k \in 1..Len(g) \/ (k > Len(g) /\ k - Len(g) \in 1..Len(h) /\ Len(g) + (k - Len(g)) = k)
  <1>1. g \o h \in Seq(S) /\ Len(g \o h) = Len(g) + Len(h) /\ Len(g) \in Nat /\ Len(h) \in Nat
        /\ \A k \in 1..Len(g) : (g \o h)[k] = g[k]
    BY ConcatProperties, LenProperties
  <1>2. ASSUME NEW k \in 1..Len(h) PROVE (g \o h)[Len(g) + k] = h[k]
    <2>1. Len(g) + k \in 1..Len(g) + Len(h) /\ ~(Len(g) + k <= Len(g)) /\ (Len(g) + k) - Len(g) = k
      BY <1>1
    <2> QED
      BY <1>1, <2>1, ConcatProperties
  <1>3. \A k \in 1..Len(g) + Len(h) :
            k \in 1..Len(g) \/ (k > Len(g) /\ k - Len(g) \in 1..Len(h) /\ Len(g) + (k - Len(g)) = k)
    BY <1>1
  <1> QED
    BY <1>1, <1>2, <1>3

LEMMA RangeJoin ==
    ASSUME NEW S, NEW g \in Seq(S), NEW h \in Seq(S)
    PROVE  Range(g \o h) = Range(g) \cup Range(h)
  <1> DEFINE s == g \o h
  <1>1. /\ s \in Seq(S) /\ Len(s) = Len(g) + Len(h) /\ Len(g) \in Nat /\ Len(h) \in Nat
        /\ \A k \in 1..Len(g) : s[k] = g[k]
        /\ \A k \in 1..Len(h) : s[Len(g) + k] = h[k]
        /\ \A k \in 1..Len(g) + Len(h) :
              k \in 1..Len(g) \/ (k > Len(g) /\ k - Len(g) \in 1..Len(h) /\ Len(g) + (k - Len(g)) = k)
    BY Concatenated
  <1>2. /\ \A x : x \in Range(g) <=> \E k \in 1..Len(g) : g[k] = x
        /\ \A x : x \in Range(h) <=> \E k \in 1..Len(h) : h[k] = x
    BY InRange
  <1> HIDE DEF s
  <1>3. \A x : x \in Range(s) <=> \E k \in 1..Len(g) + Len(h) : s[k] = x
    <2>1. \A x : x \in Range(s) <=> \E k \in 1..Len(s) : s[k] = x
      BY <1>1, InRange
    <2> QED
      BY <1>1, <2>1
  <1>4. ASSUME NEW x \in Range(s) PROVE x \in Range(g) \cup Range(h)
    <2>1. PICK k \in 1..Len(g) + Len(h) : s[k] = x
      BY <1>3
    <2>2. CASE k \in 1..Len(g)
      BY <1>1, <1>2, <2>1, <2>2
    <2>3. CASE k \notin 1..Len(g)
      <3>1. k - Len(g) \in 1..Len(h) /\ s[Len(g) + (k - Len(g))] = h[k - Len(g)] /\ Len(g) + (k - Len(g)) = k
        BY <1>1, <2>3
      <3> QED
        BY <1>2, <2>1, <3>1
    <2> QED
      BY <2>2, <2>3
  <1>5. ASSUME NEW x \in Range(g) PROVE x \in Range(s)
    <2>1. PICK k \in 1..Len(g) : g[k] = x
      BY <1>2
    <2>2. k \in 1..Len(g) + Len(h)
      BY <1>1
    <2> QED
      BY <1>1, <1>3, <2>1, <2>2
  <1>6. ASSUME NEW x \in Range(h) PROVE x \in Range(s)
    <2>1. PICK k \in 1..Len(h) : h[k] = x
      BY <1>2
    <2>2. Len(g) + k \in 1..Len(g) + Len(h)
      BY <1>1
    <2> QED
      BY <1>1, <1>3, <2>1, <2>2
  <1> QED
    BY <1>4, <1>5, <1>6 DEF s

\* All of h is younger than all of g.
Older(g, h) == \A k \in 1..Len(g) : g[k] < h[1]

LEMMA RisingJoin ==
    ASSUME NEW g \in Seq(Int), NEW h \in Seq(Int), Rising(g), Rising(h), Older(g, h)
    PROVE  Rising(g \o h)
  <1> DEFINE s == g \o h
  <1>1. /\ s \in Seq(Int) /\ Len(s) = Len(g) + Len(h) /\ Len(g) \in Nat /\ Len(h) \in Nat
        /\ \A k \in 1..Len(g) : s[k] = g[k]
        /\ \A k \in 1..Len(h) : s[Len(g) + k] = h[k]
        /\ \A k \in 1..Len(g) + Len(h) :
              k \in 1..Len(g) \/ (k > Len(g) /\ k - Len(g) \in 1..Len(h) /\ Len(g) + (k - Len(g)) = k)
        /\ (\A k \in 1..Len(g) : g[k] \in Int) /\ (\A k \in 1..Len(h) : h[k] \in Int)
    BY Concatenated, ElementOfSeq
  <1> HIDE DEF s
  <1> SUFFICES ASSUME NEW j \in 1..Len(g) + Len(h), NEW k \in 1..Len(g) + Len(h), j < k PROVE s[j] < s[k]
    BY <1>1 DEF Rising, s
  <1>2. CASE k \in 1..Len(g)
    <2>1. j \in 1..Len(g)
      BY <1>1, <1>2
    <2> QED
      BY <1>1, <1>2, <2>1 DEF Rising
  <1>3. CASE k \notin 1..Len(g)
    <2>1. k - Len(g) \in 1..Len(h) /\ s[k] = h[k - Len(g)] /\ h[k - Len(g)] \in Int
      <3>1. k - Len(g) \in 1..Len(h) /\ Len(g) + (k - Len(g)) = k
        BY <1>1, <1>3
      <3> QED
        BY <1>1, <3>1
    <2>2. CASE j \in 1..Len(g)
      <3>0. 1 \in 1..Len(h) /\ (k - Len(g) = 1 \/ 1 < k - Len(g))
        <4>1. k - Len(g) \in Int /\ k - Len(g) >= 1 /\ k - Len(g) <= Len(h)
          BY <1>1, <2>1
        <4>2. Len(h) \in Nat
          BY <1>1
        <4> QED
          BY <4>1, <4>2
      <3>1. s[j] = g[j] /\ g[j] < h[1] /\ g[j] \in Int /\ h[1] \in Int
        BY <1>1, <2>2, <3>0 DEF Older
      <3>2. 1 \in 1..Len(h) /\ (k - Len(g) = 1 \/ 1 < k - Len(g))
        BY <3>0
      <3>3. h[1] < h[k - Len(g)] \/ k - Len(g) = 1
        BY <2>1, <3>1, <3>2 DEF Rising
      <3> QED
        BY SMTT(30), <2>1, <3>1, <3>3
    <2>3. CASE j \notin 1..Len(g)
      <3>1. j - Len(g) \in 1..Len(h) /\ Len(g) + (j - Len(g)) = j /\ j - Len(g) < k - Len(g)
        BY <1>1, <2>3
      <3>2. s[j] = h[j - Len(g)]
        BY <1>1, <3>1
      <3> QED
        BY <2>1, <3>1, <3>2 DEF Rising
    <2> QED
      BY <2>2, <2>3
  <1> QED
    BY <1>2, <1>3

\* The older part of a chunk makes its stream longer and keeps it one.
LEMMA DataJoin ==
    ASSUME Bytes, NEW g \in Seq(0..MaxUart), NEW h \in Seq(0..MaxUart), DataStream(g), DataStream(h), Older(g, h)
    PROVE  DataStream(g \o h)
  <1>1. g \in Seq(Int) /\ h \in Seq(Int)
    <2>1. \A x \in Seq(0..MaxUart) : x \in Seq(Int)
      <3> SUFFICES ASSUME NEW x \in Seq(0..MaxUart) PROVE x \in Seq(Int)
        OBVIOUS
      <3>1. Len(x) \in Nat /\ x = [k \in 1..Len(x) |-> x[k]] /\ \A k \in 1..Len(x) : x[k] \in Int
        BY SMTT(30), Constants
      <3> QED
        BY <3>1
    <2> QED
      BY <2>1
  <1>2. Rising(g \o h)
    BY <1>1, RisingJoin DEF DataStream
  <1>3. Range(g \o h) = Range(g) \cup Range(h)
    BY RangeJoin
  <1> QED
    BY <1>2, <1>3 DEF DataStream

\* What is taken from the queue: a stream, younger than whatever was one before.
LEMMA Chunk ==
    ASSUME Bytes, Uart!QInv, NEW len \in 1..Len(queue), Uart!Take(len)
    PROVE  LET f == SubSeq(queue, 1, len)
           IN  /\ Rising(f) /\ Range(f) \subseteq Range(delivered')
               /\ Range(delivered) \subseteq Range(delivered')
               /\ \A g \in Seq(0..MaxUart) : DataStream(g) => Older(g, f)
  <1> DEFINE f == SubSeq(queue, 1, len)
  <1>1. /\ f \in Seq(1..MaxUart) /\ Len(f) = len /\ len >= 1 /\ len \in Nat
        /\ delivered' = delivered \o f /\ delivered \in Seq(1..MaxUart) /\ queue \in Seq(1..MaxUart)
    BY Taken DEF Bytes
  <1>2. Len(queue) \in Nat /\ \A k \in 1..len : k \in 1..Len(queue) /\ f[k] = queue[k]
    BY <1>1, Piece, LenProperties
  <1>3. /\ \A j, k \in 1..Len(queue) : j < k => queue[j] < queue[k]
        /\ \A j \in 1..Len(delivered), k \in 1..Len(queue) : delivered[j] < queue[k]
    BY DEF Uart!QInv, Uart!Ordered
  <1> HIDE DEF f
  <1>4. Rising(f)
    BY <1>1, <1>2, <1>3 DEF Rising
  <1>5. Range(delivered') = Range(delivered) \cup Range(f)
    BY <1>1, RangeJoin
  <1>6. ASSUME NEW g \in Seq(0..MaxUart), DataStream(g), NEW k \in 1..Len(g) PROVE g[k] < f[1]
    <2>1. g[k] \in Range(g)
      BY InRange
    <2>2. g[k] \in Range(delivered)
      BY <1>6, <2>1 DEF DataStream
    <2>3. PICK j \in 1..Len(delivered) : delivered[j] = g[k]
      BY <1>1, <2>2, InRange
    <2>4. 1 \in 1..Len(queue) /\ f[1] = queue[1]
      BY <1>1, <1>2
    <2> QED
      BY <1>3, <2>3, <2>4
  <1>7. \A g \in Seq(0..MaxUart) : DataStream(g) => Older(g, f)
    BY <1>6 DEF Older
  <1> QED
    BY <1>4, <1>5, <1>7 DEF f

\* Two lines of "busy", one after the other.
LEMMA BusyStreams ==
    ASSUME NEW g, BusyStream(g)
    PROVE  /\ Len(g) \in 0..2
           /\ Len(g) <= 1 => BusyStream(g \o <<Busy>>) /\ Len(g \o <<Busy>>) = Len(g) + 1
  <1>1. CASE g = <<>>
    <2>1. <<>> \o <<Busy>> = <<Busy>> /\ Len(<<>>) = 0 /\ Len(<<Busy>>) = 1
      OBVIOUS
    <2> QED
      BY <1>1, <2>1 DEF BusyStream
  <1>2. CASE g = <<Busy>>
    <2>0. <<Busy>> \in Seq({Busy}) /\ Len(<<Busy>>) = 1 /\ <<Busy>>[1] = Busy
          /\ <<Busy, Busy>> \in Seq({Busy}) /\ Len(<<Busy, Busy>>) = 2
      OBVIOUS
    <2>2. Append(<<Busy>>, Busy) = <<Busy, Busy>>
      <3>1. /\ Append(<<Busy>>, Busy) \in Seq({Busy}) /\ Len(Append(<<Busy>>, Busy)) = 2
            /\ \A j \in 1..2 : Append(<<Busy>>, Busy)[j] = <<Busy, Busy>>[j]
        <4>1. Append(<<Busy>>, Busy) \in Seq({Busy}) /\ Len(Append(<<Busy>>, Busy)) = 2
          BY <2>0, AppendProperties
        <4>2. \A j \in 1..2 : Append(<<Busy>>, Busy)[j] \in {Busy} /\ <<Busy, Busy>>[j] \in {Busy}
          BY <2>0, <4>1, ElementOfSeq
        <4> QED
          BY <4>1, <4>2
      <3> QED
        BY <2>0, <3>1, SeqEqual
    <2>1. <<Busy>> \o <<Busy>> = <<Busy, Busy>> /\ Len(<<Busy>>) = 1 /\ Len(<<Busy, Busy>>) = 2
      BY <2>0, <2>2, AppendIsConcat
    <2> QED
      BY <1>2, <2>1 DEF BusyStream
  <1>3. CASE g = <<Busy, Busy>>
    <2>1. Len(<<Busy, Busy>>) = 2
      OBVIOUS
    <2> QED
      BY <1>3, <2>1 DEF BusyStream
  <1> QED
    BY <1>1, <1>2, <1>3 DEF BusyStream

LEMMA Nothing == DataStream(<<>>) /\ BusyStream(<<>>) /\ Len(<<>>) = 0
  <1>1. Len(<<>>) = 0 /\ <<>> \in Seq({})
    OBVIOUS
  <1>2. Range(<<>>) = {}
    BY <1>1, InRange DEF Range
  <1> QED
    BY <1>1, <1>2 DEF DataStream, BusyStream, Rising

\* The parts of Streams.
ServedOrTurnedAway == \A c \in Conns : BusyStream(got[c]) \/ DataStream(got[c])
SlotsServed        == \A s \in Slots : handle[s] # None => DataStream(got[handle[s]])
TurnedAway ==
    InBusy => /\ BusyStream(got[handle[Temp]])
              /\ Len(got[handle[Temp]]) + lines <= IF pc = "busy" THEN 2 ELSE 1
BusyLine == InWrite /\ i \notin Slots => chunk = <<Busy>>
Handed ==
    HandingOut => /\ DataStream(chunk)
                  /\ \A s \in i..MAX_SRV_CLIENTS : handle[s] # None => Older(got[handle[s]], chunk)

LEMMA Parts == Streams <=> ServedOrTurnedAway /\ SlotsServed /\ TurnedAway /\ BusyLine /\ Handed
  BY DEF Streams, ServedOrTurnedAway, SlotsServed, TurnedAway, BusyLine, Handed, Older

LEMMA StreamsOutside ==
    ASSUME Types, Streams, lwIP \/ TimerFires \/ UartStep
    PROVE  Streams'
  <1>1. UNCHANGED <<pc, i, handle, chunk, lines, got>>
    BY Outside
  <1>2. UNCHANGED delivered
    BY Outside DEF UartStep, uartVars, Uart!Receive, Uart!Discard
  <1> QED
    BY <1>1, <1>2 DEF Streams, BusyStream, DataStream, Rising, InBusy, InWrite, HandingOut

LEMMA StreamsWrite ==
    ASSUME Types, Bytes, Control, HeldOnce, Written, Streams, WriteTurn
    PROVE  Streams'
  <1> USE Constants
  <1>0. /\ target \in Conns /\ pc = "write" /\ UNCHANGED <<handle, chunk, lines, uartVars>> /\ (Refused \/ Whole)
        /\ ServedOrTurnedAway /\ SlotsServed /\ TurnedAway /\ BusyLine /\ Handed
    BY OneTurn, Parts
  <1>1. /\ got \in [Conns -> Seq(0..MaxUart)] /\ chunk \in Seq(0..MaxUart) /\ lines \in 0..2
        /\ handle \in [Slots \cup {Temp} -> Conns \cup {None}] /\ i \in 1..MAX_SRV_CLIENTS + 1
        /\ \A c \in Conns : Len(got[c]) \in Nat
    BY LenProperties DEF Types, Bytes
  <1>2. \A g : DataStream(g) => DataStream(g)'
    BY <1>0 DEF DataStream, Rising, uartVars
  <1>3. \A g : BusyStream(g)' <=> BusyStream(g)
    BY DEF BusyStream
  <1>4. CASE i \in Slots
    <2>1. target = handle[i] /\ HandingOut /\ handle[Temp] = None /\ handle[i] # None
      BY <1>0, <1>4 DEF target, HandingOut, InWrite, Control, InBusy, Types
    <2>2. DataStream(chunk) /\ DataStream(got[target]) /\ i \in i..MAX_SRV_CLIENTS
      BY <1>0, <1>1, <1>4, <2>1 DEF Handed, SlotsServed
    <2>3. Older(got[target], chunk)
      BY <1>0, <2>1, <2>2 DEF Handed
    <2>4. DataStream(got[target] \o chunk)
      BY <1>0, <1>1, <2>2, <2>3, DataJoin
    <2>5. DataStream(got'[target]) /\ \A c \in Conns : c # target => got'[c] = got[c]
      <3>1. got'[target] \in {got[target], got[target] \o chunk}
        BY <1>0, <1>1 DEF Refused, Whole
      <3>2. \A c \in Conns : c # target => got'[c] = got[c]
        BY <1>0, <1>1 DEF Refused, Whole
      <3> QED
        BY <2>2, <2>4, <3>1, <3>2
    <2>6. ServedOrTurnedAway' /\ SlotsServed'
      <3>1. ASSUME NEW c \in Conns PROVE BusyStream(got'[c]) \/ DataStream(got'[c])
        BY <1>0, <2>5 DEF ServedOrTurnedAway
      <3>2. ASSUME NEW s \in Slots, handle[s] # None PROVE DataStream(got'[handle[s]])
        <4>1. handle[s] \in Conns /\ DataStream(got[handle[s]])
          BY <1>0, <1>1, <3>2 DEF SlotsServed
        <4> QED
          BY <2>5, <4>1
      <3> QED
        BY <1>0, <3>1, <3>2 DEF ServedOrTurnedAway, SlotsServed, DataStream, BusyStream, uartVars
    <2>7. \/ pc' = "stalled" /\ i' = i /\ got' = got
          \/ pc' = "push" /\ i' = i + 1
          \/ pc' = "loop"
      BY <1>0, <1>4 DEF Refused, Whole, WriteOver, NextPush, NextSlot, Goto
    <2>8. ~InBusy' /\ BusyLine'
      BY <1>4, <2>7 DEF InBusy, InWrite, BusyLine
    <2>9. Handed'
      <3>1. DataStream(chunk)'
        BY <1>0, <1>2, <2>2
      <3>2. CASE pc' = "stalled" /\ i' = i /\ got' = got
        BY <1>0, <2>1, <3>1, <3>2 DEF Handed
      <3>3. CASE pc' = "push" /\ i' = i + 1
        <4>1. ASSUME NEW s \in i + 1..MAX_SRV_CLIENTS, handle[s] # None PROVE Older(got'[handle[s]], chunk)
          <5>1. s \in i..MAX_SRV_CLIENTS /\ s \in Slots /\ s # i
            BY <1>1, <1>4 DEF Slots
          <5>2. Older(got[handle[s]], chunk) /\ handle[s] \in Conns
            BY <1>0, <1>1, <2>1, <4>1, <5>1 DEF Handed
          <5>3. handle[s] # target
            BY <1>4, <2>1, <4>1, <5>1 DEF HeldOnce
          <5> QED
            BY <2>5, <5>2, <5>3
        <4> QED
          BY <1>0, <3>1, <3>3, <4>1 DEF Handed, Older
      <3>4. CASE pc' = "loop"
        BY <3>4 DEF Handed, HandingOut, InWrite
      <3> QED
        BY <2>7, <3>2, <3>3, <3>4
    <2> QED
      BY <2>6, <2>8, <2>9, Parts DEF TurnedAway, Streams, ServedOrTurnedAway, SlotsServed, BusyLine, Handed, Older
  <1>5. CASE i \notin Slots
    <2>1. target = handle[Temp] /\ InBusy /\ chunk = <<Busy>> /\ \A s \in Slots : handle[s] # target
      BY <1>0, <1>5 DEF target, InBusy, InWrite, BusyLine, HeldOnce
    <2>2. BusyStream(got[target]) /\ Len(got[target]) + lines <= 1
      BY <1>0, <2>1 DEF TurnedAway
    <2>3. Len(got[target]) <= 1 /\ Len(got[target]) \in Nat
      BY <1>0, <1>1, <2>2
    <2>4. BusyStream(got[target] \o chunk) /\ Len(got[target] \o chunk) = Len(got[target]) + 1
      BY <2>1, <2>2, <2>3, BusyStreams
    <2>5. /\ BusyStream(got'[target]) /\ Len(got'[target]) + lines <= 2
          /\ \A c \in Conns : c # target => got'[c] = got[c]
      <3>1. CASE got' = got
        BY <1>1, <2>2, <2>3, <3>1
      <3>2. CASE got' = [got EXCEPT ![target] = @ \o chunk]
        <4>1. got'[target] = got[target] \o chunk /\ \A c \in Conns : c # target => got'[c] = got[c]
          BY <1>0, <1>1, <3>2
        <4>2. Len(got[target]) + 1 + lines <= 2
          BY <1>1, <2>2, <2>3
        <4> QED
          BY <2>4, <4>1, <4>2
      <3> QED
        BY <1>0, <3>1, <3>2 DEF Refused, Whole
    <2>6. ServedOrTurnedAway' /\ SlotsServed'
      <3>1. ASSUME NEW c \in Conns PROVE BusyStream(got'[c]) \/ DataStream(got'[c])
        BY <1>0, <2>5 DEF ServedOrTurnedAway
      <3>2. ASSUME NEW s \in Slots, handle[s] # None PROVE DataStream(got'[handle[s]])
        <4>1. handle[s] \in Conns /\ handle[s] # target /\ DataStream(got[handle[s]])
          BY <1>0, <1>1, <2>1, <3>2 DEF SlotsServed
        <4> QED
          BY <2>5, <4>1
      <3> QED
        BY <1>0, <3>1, <3>2 DEF ServedOrTurnedAway, SlotsServed, DataStream, BusyStream, uartVars
    <2>7. i' = i /\ (pc' = "busy" \/ (pc' = "stalled" /\ got' = got))
      BY <1>0, <1>5 DEF Refused, Whole, WriteOver, Goto
    <2>8. TurnedAway' /\ BusyLine' /\ Handed'
      <3>1. BusyLine' /\ Handed'
        BY <1>0, <1>5, <2>1, <2>7 DEF BusyLine, Handed, HandingOut, InWrite
      <3>2. TurnedAway'
        BY <1>0, <1>3, <2>1, <2>2, <2>5, <2>7 DEF TurnedAway
      <3> QED
        BY <3>1, <3>2
    <2> QED
      BY <2>6, <2>8 DEF TurnedAway, Streams, ServedOrTurnedAway, SlotsServed, BusyLine, Handed, Older
  <1> QED
    BY <1>4, <1>5

LEMMA StreamsLoop ==
    ASSUME Types, Bytes, Control, Handling, Written, Fresh, Streams, Uart!QInv, Loop
    PROVE  Streams'
  <1> USE Constants
  <1>0. ServedOrTurnedAway /\ SlotsServed /\ TurnedAway /\ BusyLine /\ Handed
    BY Parts
  <1>p. ServedOrTurnedAway' /\ SlotsServed' /\ TurnedAway' /\ BusyLine' /\ Handed' => Streams'
    BY DEF Streams, ServedOrTurnedAway, SlotsServed, TurnedAway, BusyLine, Handed, Older
  <1>t. /\ got \in [Conns -> Seq(0..MaxUart)] /\ chunk \in Seq(0..MaxUart) /\ lines \in 0..2
        /\ handle \in [Slots \cup {Temp} -> Conns \cup {None}] /\ i \in 1..MAX_SRV_CLIENTS + 1
        /\ \A c \in Conns : Len(got[c]) \in Nat
    BY LenProperties DEF Types, Bytes
  <1>1. ASSUME UNCHANGED <<got, delivered>>, \A s \in Slots : handle'[s] = handle[s]
        PROVE  ServedOrTurnedAway' /\ SlotsServed'
    BY <1>0, <1>1 DEF ServedOrTurnedAway, SlotsServed, BusyStream, DataStream
  <1>2. ASSUME pc' \in Elsewhere PROVE TurnedAway' /\ BusyLine' /\ Handed'
    BY <1>2 DEF TurnedAway, BusyLine, Handed, InBusy, InWrite, HandingOut, Elsewhere
  <1>3. CASE LoopBegin /\ pc' \in Elsewhere
    BY <1>1, <1>2, <1>3, <1>p DEF LoopBegin, uartVars
  <1>4. CASE pc' \in Elsewhere \ {"assign", "drop"} /\ UNCHANGED <<handle, uartVars, got>>
    BY <1>1, <1>2, <1>4, <1>p DEF uartVars
  <1>5. CASE Assign
    <2>1. /\ i \in Slots /\ handle' = [handle EXCEPT ![i] = handle[Temp]] /\ pc' = "drop"
          /\ UNCHANGED <<uartVars, got>> /\ handle[Temp] \in Conns /\ pc = "assign"
      BY <1>5, <1>t DEF Assign, Goto, Control
    <2>2. got[handle[Temp]] = <<>>
      BY <2>1 DEF Fresh
    <2>3. DataStream(got[handle[Temp]])
      BY <2>2, Nothing
    <2>4. SlotsServed'
      <3>1. ASSUME NEW s \in Slots, handle'[s] # None PROVE DataStream(got[handle'[s]])
        <4>1. handle'[s] = IF s = i THEN handle[Temp] ELSE handle[s]
          BY <1>t, <2>1
        <4> QED
          BY <1>0, <2>3, <3>1, <4>1 DEF SlotsServed
      <3> QED
        BY <2>1, <3>1 DEF SlotsServed, DataStream, uartVars
    <2>5. ServedOrTurnedAway'
      BY <1>0, <2>1 DEF ServedOrTurnedAway, BusyStream, DataStream, uartVars
    <2> QED
      BY <1>2, <1>p, <2>1, <2>4, <2>5 DEF Elsewhere
  <1>6. CASE Drop
    <2>1. UNCHANGED <<uartVars, got>> /\ pc' = "drain" /\ \A s \in Slots : handle'[s] = handle[s]
      BY <1>6, <1>t DEF Drop, Goto
    <2> QED
      BY <1>1, <1>2, <1>p, <2>1 DEF Elsewhere, uartVars
  <1>7. CASE Available
    <2> DEFINE a == Head(unclaimed)
    <2>1. unclaimed \in Seq(Conns) /\ unclaimed # <<>> /\ NoRepeat(unclaimed)
      BY <1>7 DEF Available, Control, Handling, HeldOnce, Types
    <2>2. a \in Conns /\ a \in Range(unclaimed)
      BY <2>1, Left
    <2>3. got[a] = <<>>
      BY <2>2 DEF Fresh
    <2>4. /\ UNCHANGED <<uartVars, got>> /\ handle'[Temp] = a /\ \A s \in Slots : handle'[s] = handle[s]
          /\ pc' \in {"busy", "assign"} /\ lines' \in 0..2
      BY <1>7, <1>t DEF Available, Goto
    <2>5. TurnedAway'
      <3>1. BusyStream(got'[handle'[Temp]]) /\ Len(got'[handle'[Temp]]) + lines' <= 2
        BY <2>3, <2>4, Nothing
      <3> QED
        BY <2>4, <3>1 DEF TurnedAway, BusyStream, InBusy, InWrite
    <2>6. BusyLine' /\ Handed'
      BY <2>4 DEF BusyLine, Handed, HandingOut, InWrite
    <2> QED
      BY <1>1, <1>p, <2>4, <2>5, <2>6 DEF uartVars
  <1>8. CASE Line
    <2>1. pc = "busy" /\ i \notin Slots /\ i' = i /\ UNCHANGED <<handle, uartVars, got>> /\ pc' \in {"drop", "busy", "write"}
      BY <1>8 DEF Line, Control, Goto
    <2>2. BusyStream(got[handle[Temp]]) /\ Len(got[handle[Temp]]) + lines <= 2 /\ Len(got[handle[Temp]]) \in Nat
      BY <1>0, <2>1, BusyStreams DEF TurnedAway, InBusy
    <2>3. CASE pc' = "drop"
      BY <1>1, <1>2, <1>p, <2>1, <2>3 DEF Elsewhere, uartVars
    <2>4. CASE pc' # "drop"
      <3>1. lines' = lines - 1 /\ (pc' = "write" => chunk' = <<Busy>>)
        BY <1>8, <2>1, <2>4 DEF Line, Goto
      <3>2. Len(got[handle[Temp]]) + lines' <= 1
        BY <1>t, <2>2, <3>1
      <3>3. TurnedAway'
        BY <1>t, <2>1, <2>2, <3>1, <3>2 DEF TurnedAway, BusyStream
      <3>4. BusyLine' /\ Handed'
        BY <2>1, <2>4, <3>1 DEF BusyLine, Handed, HandingOut, InWrite
      <3> QED
        BY <1>1, <1>p, <2>1, <3>3, <3>4 DEF uartVars
    <2> QED
      BY <2>3, <2>4
  <1>9. CASE UartRead
    <2>0. UNCHANGED <<handle, got>>
      BY <1>9 DEF UartRead
    <2>1. CASE Goto("loop", 1) /\ UNCHANGED <<chunk, uartVars>>
      BY <1>1, <1>2, <1>p, <2>0, <2>1 DEF Goto, Elsewhere, uartVars
    <2>2. ASSUME NEW len \in 1..Len(queue), chunk' = Uart!Front(len), Uart!Take(len), Goto("push", 1)
          PROVE  Streams'
      <3>1. /\ Rising(chunk') /\ Range(chunk') \subseteq Range(delivered')
            /\ Range(delivered) \subseteq Range(delivered')
            /\ \A g \in Seq(0..MaxUart) : DataStream(g) => Older(g, chunk')
        BY <2>2, Chunk DEF Uart!Front
      <3>2. ServedOrTurnedAway' /\ SlotsServed'
        BY <1>0, <2>0, <3>1 DEF ServedOrTurnedAway, SlotsServed, BusyStream, DataStream
      <3>3. ASSUME NEW s \in 1..MAX_SRV_CLIENTS, handle[s] # None PROVE Older(got[handle[s]], chunk')
        <4>1. s \in Slots /\ handle[s] \in Conns
          BY <1>t, <3>3 DEF Slots
        <4> QED
          BY <1>0, <1>t, <3>1, <3>3, <4>1 DEF SlotsServed
      <3>4. pc' = "push" /\ i' = 1
        BY <2>2 DEF Goto
      <3>5. Handed'
        BY <2>0, <3>1, <3>3, <3>4 DEF Handed, DataStream, Older
      <3>6. TurnedAway' /\ BusyLine'
        BY <3>4 DEF TurnedAway, BusyLine, InBusy, InWrite
      <3> QED
        BY <1>p, <3>2, <3>5, <3>6
    <2> QED
      BY <1>9, <2>1, <2>2 DEF UartRead
  <1>10. CASE Push
    <2>1. UNCHANGED <<handle, chunk, uartVars, got>> /\ pc = "push" /\ i \in Slots
      BY <1>10 DEF Push, Control
    <2>2. \/ pc' = "write" /\ i' = i
          \/ pc' = "push" /\ i' = i + 1
          \/ pc' = "loop"
      BY <1>10 DEF Push, NextPush, NextSlot, Goto
    <2>3. /\ DataStream(chunk)
          /\ \A s \in i..MAX_SRV_CLIENTS : handle[s] # None => Older(got[handle[s]], chunk)
      BY <1>0, <2>1 DEF Handed, HandingOut
    <2>4. Handed'
      <3>1. i' = i \/ i' = i + 1 => \A s \in i'..MAX_SRV_CLIENTS : s \in i..MAX_SRV_CLIENTS
        BY <1>t
      <3> QED
        BY <2>1, <2>2, <2>3, <3>1 DEF Handed, DataStream, Older, HandingOut, InWrite, uartVars
    <2>5. TurnedAway' /\ BusyLine'
      BY <2>1, <2>2 DEF TurnedAway, BusyLine, InBusy, InWrite
    <2> QED
      BY <1>1, <1>p, <2>1, <2>4, <2>5 DEF uartVars
  <1>11. CASE WriteTurn
    BY <1>11, StreamsWrite DEF Handling
  <1>12. CASE WriteWakes
    <2>1. pc = "stalled" /\ pc' = "write" /\ i' = i /\ UNCHANGED <<handle, chunk, lines, uartVars, got>>
      BY <1>12 DEF WriteWakes, Goto, writeVars
    <2> QED
      BY <2>1 DEF Streams, BusyStream, DataStream, InBusy, InWrite, HandingOut, uartVars
  <1> QED
    BY <1>3, <1>4, <1>5, <1>6, <1>7, <1>8, <1>9, <1>10, <1>11, <1>12, Errands

-----------------------------------------------------------------------------
(* The invariant holds for ever.                                           *)

LEMMA InvInit == Init => Inv
  <1> SUFFICES ASSUME Init PROVE Inv
    OBVIOUS
  <1> USE Constants DEF Init
  <1>1. Types
    <2>1. <<>> \in Seq(Conns)
      OBVIOUS
    <2>2. nconn \in 0..MaxConns /\ i \in 1..MAX_SRV_CLIENTS + 1 /\ maxToTcp \in 0..SndBuf /\ lines \in 0..2
      OBVIOUS
    <2>3. /\ rx \in [Conns -> 0..MaxRx] /\ nrx \in [Conns -> 0..MaxRx] /\ \A c \in Conns : rx[c] <= nrx[c]
          /\ room \in [Conns -> 0..SndBuf] /\ refcnt \in [Conns -> Int]
      <3>1. 0 \in 0..MaxRx /\ SndBuf \in 0..SndBuf /\ 0 \in Int /\ 0 <= 0
        OBVIOUS
      <3> QED
        BY <3>1
    <2>4. /\ ctx \in [Conns -> {"none", "live", "deleted"}] /\ pending \in [Conns -> BOOLEAN]
          /\ pcb \in [Conns -> {"ESTABLISHED", "CLOSE_WAIT", "GONE"}]
          /\ handle \in [Slots \cup {Temp} -> Conns \cup {None}] /\ expired \in BOOLEAN
      OBVIOUS
    <2> QED
      BY <2>1, <2>2, <2>3, <2>4 DEF Types
  <1>2. queue = <<>> /\ arrived = 0 /\ delivered = <<>>
    BY DEF Uart!QInit
  <1>3. Bytes
    <2>1. <<>> \in Seq(0..MaxUart) /\ <<>> \in Seq(1..MaxUart) /\ Len(<<>>) = 0
      OBVIOUS
    <2> QED
      BY <1>2, <2>1 DEF Bytes
  <1>4. Control
    BY DEF Control, InBusy, InWrite
  <1>5. Range(unclaimed) = {} /\ NoRepeat(unclaimed)
    <2>1. unclaimed \in Seq({}) /\ Len(unclaimed) = 0
      OBVIOUS
    <2> QED
      BY <2>1 DEF NoRepeat, Range
  <1>6. HeldOnce
    BY <1>5 DEF HeldOnce
  <1>7. ASSUME NEW c \in Conns PROVE Counted(c)
    <2>1. HoldersOf(handle, c) = {}
      BY DEF HoldersOf
    <2> QED
      BY <1>5, <2>1, FS_EmptySet DEF Counted
  <1>8. FreeSlot
    BY DEF FreeSlot
  <1>9. Written
    BY DEF Written, InWrite
  <1>10. Fresh
    BY DEF Fresh
  <1>11. Streams
    BY Nothing DEF Streams, InBusy, InWrite, HandingOut
  <1>12. Uart!QInv
    BY <1>2 DEF Uart!QInv, Uart!Ordered
  <1> QED
    BY <1>1, <1>3, <1>4, <1>6, <1>7, <1>8, <1>9, <1>10, <1>11, <1>12, AllCounted DEF Inv

LEMMA InvStep == Inv /\ [Next]_vars => Inv'
  <1> SUFFICES ASSUME Inv, [Next]_vars PROVE Inv'
    OBVIOUS
  <1>0. /\ Types /\ Bytes /\ Control /\ Handling /\ HeldOnce /\ FreeSlot /\ Written /\ Fresh /\ Streams
        /\ Uart!QInv
    BY DEF Inv, Handling
  <1>1. FreeSlot' /\ Uart!QInv'
    BY <1>0, FreeSlotStep, QueueStep
  <1>2. CASE lwIP \/ TimerFires \/ UartStep
    BY <1>0, <1>1, <1>2, TypesCallbacks, BytesOutside, ControlCallbacks, HandlingCallbacks, WrittenOutside,
       FreshOutside, StreamsOutside DEF Inv, Handling
  <1>3. CASE Loop
    BY <1>0, <1>1, <1>3, TypesLoop, BytesLoop, ControlLoop, HandlingLoop, WrittenLoop, FreshLoop, StreamsLoop
       DEF Inv, Handling
  <1>4. CASE UNCHANGED vars
    <2>1. UNCHANGED <<nconn, ctx, pcb, pending, rx, nrx, room, refcnt, unclaimed, handle, pc, i, maxToTcp,
                      chunk, left, lines, expired, queue, arrived, delivered, got>>
      BY <1>4 DEF vars, connVars, writeVars, uartVars
    <2>2. Types' /\ Bytes' /\ Control'
      BY <1>0, <2>1 DEF Types, Bytes, Control, InBusy, InWrite
    <2>3. Handling'
      BY <1>0, <2>1, Quiet
    <2>4. Written' /\ Fresh'
      BY <1>0, <2>1 DEF Written, Fresh, InWrite, target
    <2>5. Streams'
      BY <1>0, <2>1 DEF Streams, BusyStream, DataStream, InBusy, InWrite, HandingOut
    <2> QED
      BY <1>1, <2>2, <2>3, <2>4, <2>5 DEF Inv, Handling
  <1> QED
    BY <1>2, <1>3, <1>4 DEF Next

LEMMA Always == Spec => []Inv
  BY InvInit, InvStep, PTL DEF Spec

-----------------------------------------------------------------------------
(* The theorems.                                                           *)

\* A connection is counted twice at most: by its slot and by the temporary.
LEMMA CountedTwice == Inv => refcnt \in [Conns -> 0..2]
  <1> SUFFICES ASSUME Inv, NEW c \in Conns PROVE refcnt[c] \in 0..2
    BY DEF Inv, Types
  <1> USE Constants
  <1>1. refcnt[c] = Cardinality(HoldersOf(handle, c)) /\ DOMAIN handle = Slots \cup {Temp}
    BY AllCounted DEF Inv, Counted, Types
  <1>2. ASSUME NEW s \in Slots \cup {Temp}, HoldersOf(handle, c) \subseteq {s, Temp}
        PROVE  refcnt[c] \in 0..2
    <2>1. IsFiniteSet({s}) /\ Cardinality({s}) = 1 /\ {s, Temp} = {s} \cup {Temp}
      BY FS_Singleton
    <2>0. /\ IsFiniteSet({s} \cup {Temp})
          /\ Cardinality({s} \cup {Temp}) = IF Temp \in {s} THEN Cardinality({s}) ELSE Cardinality({s}) + 1
      BY <2>1, FS_AddElement
    <2> DEFINE both == {s} \cup {Temp}
               n == Cardinality({s})
    <2>5. n = 1 /\ IsFiniteSet(both) /\ (Cardinality(both) = n \/ Cardinality(both) = n + 1)
      BY <2>0, <2>1
    <2> HIDE DEF both, n
    <2>6. Cardinality(both) \in Nat /\ Cardinality(both) <= 2
      BY ONLY <2>5, SMTT(30)
    <2>2. IsFiniteSet({s, Temp}) /\ Cardinality({s, Temp}) <= 2 /\ Cardinality({s, Temp}) \in Nat
      BY <2>1, <2>5, <2>6 DEF both
    <2>3. IsFiniteSet(HoldersOf(handle, c)) /\ Cardinality(HoldersOf(handle, c)) <= Cardinality({s, Temp})
      BY <1>2, <2>2, FS_Subset
    <2>4. Cardinality(HoldersOf(handle, c)) \in Nat
      BY <2>3, FS_CardinalityType
    <2> QED
      BY <1>1, <2>2, <2>3, <2>4
  <1>3. CASE \E s \in Slots : handle[s] = c
    <2>1. PICK s \in Slots : handle[s] = c
      BY <1>3
    <2>2. \A t \in Slots : handle[t] = c => t = s
      BY <2>1 DEF Inv, HeldOnce
    <2>3. HoldersOf(handle, c) \subseteq {s, Temp}
      BY <1>1, <2>2 DEF HoldersOf
    <2> QED
      BY <1>2, <2>3
  <1>4. CASE ~\E s \in Slots : handle[s] = c
    <2>1. HoldersOf(handle, c) \subseteq {Temp, Temp}
      BY <1>1, <1>4 DEF HoldersOf
    <2> QED
      BY <1>2, <2>1
  <1> QED
    BY <1>3, <1>4

\* Every variable of the bridge keeps its type: no count of a context, no
\* free room and no index of loop() ever leaves its range.
THEOREM TypeCorrect == Spec => []TypeOK
  <1>1. Inv => TypeOK
    BY CountedTwice DEF Inv, Types, Bytes, TypeOK
  <1> QED
    BY <1>1, Always, PTL

\* A ClientContext lives exactly as long as the server's list or a WiFiClient
\* points to it, and its reference count is the number of WiFiClients that do.
THEOREM ContextsAreCounted == Spec => []HandlesCounted
  <1>1. Inv => HandlesCounted
    BY DEF Inv
  <1> QED
    BY <1>1, Always, PTL

\* lwIP's backlog counts exactly the open connections nobody has claimed.
THEOREM BacklogIsKept == Spec => []BacklogIsUnclaimed
  <1>1. Inv => BacklogIsUnclaimed
    BY DEF Inv
  <1> QED
    BY <1>1, Always, PTL

\* Each client gets the UART's bytes in order and none twice, or "busy".
THEOREM StreamsAreInOrder == Spec => []ClientStreamInOrder
  <1>1. Inv => ClientStreamInOrder
    BY DEF Inv, Streams, BusyStream, DataStream, Rising, ClientStreamInOrder
  <1> QED
    BY <1>1, Always, PTL

\* A write of loop() that sleeps has room in the send buffer for all that is left:
\* tcp_write has refused it, for want of memory or of places in its queue
\* (main.cpp:180-182, ClientContext.h:455-490).
THEOREM WritesHaveRoom == Spec => []NeverWaitsForRoom
  <1>1. Inv => NeverWaitsForRoom
    <2> SUFFICES ASSUME Inv, pc = "stalled" PROVE room[target] >= left
      BY DEF NeverWaitsForRoom
    <2>1. target # None /\ room[target] >= left + (IF i \in Slots THEN 0 ELSE lines)
      BY DEF Inv, Written, InWrite
    <2>2. target \in Conns
      BY <2>1, Held, Constants DEF target, Inv
    <2>3. room[target] \in Nat /\ left \in Nat /\ lines \in Nat
      BY <2>2, Constants, LenProperties DEF Inv, Types, Bytes
    <2> QED
      BY <2>1, <2>3
  <1> QED
    BY <1>1, Always, PTL

\* What a client gets in a step is the chunk of the running write, whole.
THEOREM ChunksAreWhole == Spec => ChunksStayWhole
  <1>1. Inv /\ [Next]_vars => [\A c \in Conns : got'[c] # got[c] => got'[c] = got[c] \o chunk]_vars
    <2> SUFFICES ASSUME Inv, [Next]_vars, NEW c \in Conns, got'[c] # got[c] PROVE got'[c] = got[c] \o chunk
      OBVIOUS
    <2>1. CASE WriteTurn
      <3>1. target \in Conns /\ (Refused \/ Whole)
        BY <2>1, OneTurn DEF Inv
      <3>2. got \in [Conns -> Seq(0..MaxUart)]
        BY DEF Inv, Bytes
      <3>3. got' = [got EXCEPT ![target] = @ \o chunk]
        BY <3>1 DEF Refused, Whole
      <3> QED
        BY <3>1, <3>2, <3>3
    <2>2. CASE UNCHANGED got
      BY <2>2
    <2> QED
      BY <2>1, <2>2 DEF Next, vars, lwIP, Loop, Accept, Received, PeerClosed, Error, Acked, TimerFires, UartStep, LoopBegin,
           Spot, SpotResume, Available, Assign, Drop, Line, Drain, DrainResume, Afw, AfwResume, UartRead, Push,
           WriteWakes
  <1> QED
    BY <1>1, Always, PTL DEF Spec, ChunksStayWhole

\* loop() gives a slot away only after its client has closed or failed, though
\* it asks in one step and assigns in another.
THEOREM OpenClientsKeepTheirSlots == Spec => OpenClientKeepsSlot
  <1>1. Inv /\ [Next]_vars =>
          [\A s \in Slots : handle'[s] # handle[s] /\ handle[s] # None => pcb[handle[s]] # "ESTABLISHED"]_vars
    <2> SUFFICES ASSUME Inv, [Next]_vars, NEW s \in Slots, handle'[s] # handle[s], handle[s] # None
                 PROVE  pcb[handle[s]] # "ESTABLISHED"
      OBVIOUS
    <2>1. handle \in [Slots \cup {Temp} -> Conns \cup {None}] /\ Temp \notin Slots
      BY Constants DEF Inv, Types
    <2>2. CASE Assign
      <3>1. pc = "assign" /\ handle' = [handle EXCEPT ![i] = handle[Temp]]
        BY <2>2 DEF Assign
      <3>2. s = i
        BY <2>1, <3>1
      <3> QED
        BY <3>1, <3>2 DEF Inv, FreeSlot
    <2>3. CASE Available \/ Drop
      BY <2>1, <2>3 DEF Available, Drop
    <2>4. CASE UNCHANGED handle
      BY <2>4
    <2> QED
      BY <2>2, <2>3, <2>4, Outside, Errands
         DEF Next, vars, Inv, LoopBegin, Line, UartRead, Push, WriteTurn, WriteWakes
  <1> QED
    BY <1>1, Always, PTL DEF Spec, OpenClientKeepsSlot

=============================================================================
