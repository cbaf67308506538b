------------------------- MODULE ClientContext_proofs -------------------------
(***************************************************************************)
(* Theorems about a connection: on the sending side what a write reports,  *)
(* who wakes it, and on what a flush works; on the receiving side that no  *)
(* byte is lost or read twice and no room in the window is; for every size *)
(* of lwIP's buffers, every number of bytes, and every order of lwIP's     *)
(* callbacks.                                                              *)
(***************************************************************************)
EXTENDS ClientContext, SequenceTheorems, WellFoundedInduction, TLAPS

-----------------------------------------------------------------------------
(* The sending side.                                                       *)

\* Of a sequence of bytes: none is after a; it grows; and one by one after first.
UpTo(q, a)      == \A i \in 1..Len(q) : q[i] <= a
Ascending(q)    == \A i \in 2..Len(q) : q[i - 1] < q[i]
InRow(q, first) == \A i \in first + 2..Len(q) : q[i] = q[i - 1] + 1

\* The bytes up to which the sketch's data has been taken by lwIP.
Taken == IF datasource = None THEN asked ELSE asked - datasource

TxTypes ==
    /\ unacked \in 0..SndBuf
    /\ asked \in Nat /\ written \in Nat /\ before \in Nat /\ accepted \in Seq(Nat)
    /\ datasource = None \/ datasource \in 1..asked

\* A data source is there exactly while a write is on its way.
Writing == pc \in {"write", "waiting"} <=> datasource # None

\* Nothing is accepted that the running write has still to give.
NotBeyond == UpTo(accepted, Taken)

TxInv == TxTypes /\ Writing /\ NotBeyond /\ WriteReportsPrefix /\ NoLostWakeup /\ FlushOnLivePcb

LEMMA TxInit == Init => TxInv
  <1> SUFFICES ASSUME Init PROVE TxInv
    OBVIOUS
  <1>1. TxTypes /\ Writing
    BY BufferAssumption, EmptySeq DEF Init, TxTypes, Writing, None
  <1>2. Len(accepted) = 0 /\ accepted = <<>>
    BY DEF Init
  <1>3. NotBeyond /\ WriteReportsPrefix
    BY <1>2 DEF Init, NotBeyond, UpTo, WriteReportsPrefix
  <1>4. NoLostWakeup /\ FlushOnLivePcb
    BY DEF Init, NoLostWakeup, FlushOnLivePcb
  <1> QED
    BY <1>1, <1>3, <1>4 DEF TxInv

-----------------------------------------------------------------------------
(* The bytes of one tcp_write.                                             *)

Bytes(a, n) == [k \in 1..n |-> a + k]

LEMMA BytesType ==
    ASSUME NEW a \in Nat, NEW n \in Nat
    PROVE  Bytes(a, n) \in Seq(Nat) /\ Len(Bytes(a, n)) = n
  <1> DEFINE b == [k \in 1..n |-> a + k]
  <1>1. b \in [1..n -> Nat]
    OBVIOUS
  <1>2. b \in Seq(Nat)
    BY <1>1, SeqDef
  <1>3. Len(b) = n
    BY <1>2, LenProperties
  <1> QED
    BY <1>2, <1>3 DEF Bytes

\* s is q followed by a + 1, ..., a + n.
Continues(q, a, n, s) ==
    /\ s \in Seq(Nat) /\ Len(s) = Len(q) + n
    /\ \A i \in 1..Len(q) : s[i] = q[i]
    /\ \A i \in Len(q) + 1..Len(q) + n : s[i] = a + (i - Len(q))

\* A sequence that grows up to a, continued with a + 1, ..., a + n, grows up to
\* a + n, and where it grows one by one it goes on doing so.
LEMMA GrowsOn ==
    ASSUME NEW q \in Seq(Nat), NEW a \in Nat, NEW n \in Nat, n >= 1, NEW base \in Nat,
           base <= Len(q), UpTo(q, a), Ascending(q), InRow(q, base),
           base < Len(q) => q[Len(q)] = a,
           NEW s, Continues(q, a, n, s)
    PROVE  UpTo(s, a + n) /\ Ascending(s) /\ InRow(s, base) /\ s[Len(s)] = a + n
  <1> DEFINE m == Len(q)
  <1>0. m \in Nat
    BY LenProperties
  <1>1. \A i \in 1..m : q[i] \in Nat
    BY ElementOfSeq
  <1>2. /\ \A i \in 1..m : q[i] <= a
        /\ \A i \in 2..m : q[i - 1] < q[i]
        /\ \A i \in base + 2..m : q[i] = q[i - 1] + 1
    BY DEF UpTo, Ascending, InRow
  <1>3. base <= m /\ (base < m => q[m] = a) /\ Len(s) = m + n
    BY DEF Continues
  <1>4. \A i \in 1..m : s[i] = q[i]
    BY DEF Continues
  <1>5. \A i \in m + 1..m + n : s[i] = a + (i - m)
    BY DEF Continues
  <1> HIDE DEF m
  <1>6. ASSUME NEW i \in 1..m + n PROVE s[i] <= a + n
    <2>1. CASE i \in 1..m
      <3>1. s[i] = q[i] /\ q[i] \in Nat /\ q[i] <= a
        BY <1>1, <1>2, <1>4, <2>1
      <3> QED
        BY <3>1
    <2>2. CASE i \in m + 1..m + n
      <3>1. s[i] = a + (i - m)
        BY <1>5, <2>2
      <3> QED
        BY <1>0, <2>2, <3>1
    <2> QED
      BY <1>0, <2>1, <2>2
  <1>7. ASSUME NEW i \in 2..m + n PROVE s[i - 1] < s[i]
    <2>1. CASE i <= m
      <3>1. i \in 2..m /\ i \in 1..m /\ i - 1 \in 1..m
        BY <1>0, <2>1
      <3>2. s[i] = q[i] /\ s[i - 1] = q[i - 1] /\ q[i - 1] < q[i]
        BY <1>2, <1>4, <3>1
      <3> QED
        BY <3>2
    <2>2. CASE i = m + 1
      <3>1. i \in m + 1..m + n /\ i - 1 \in 1..m /\ i - m = 1
        BY <1>0, <2>2
      <3>2. s[i] = a + (i - m) /\ s[i - 1] = q[i - 1] /\ q[i - 1] \in Nat /\ q[i - 1] <= a
        BY <1>1, <1>2, <1>4, <1>5, <3>1
      <3> QED
        BY <1>0, <3>1, <3>2
    <2>3. CASE i > m + 1
      <3>1. i \in m + 1..m + n /\ i - 1 \in m + 1..m + n
        BY <1>0, <2>3
      <3>2. s[i] = a + (i - m) /\ s[i - 1] = a + (i - 1 - m)
        BY <1>5, <3>1
      <3> QED
        BY <1>0, <3>1, <3>2
    <2> QED
      BY <1>0, <2>1, <2>2, <2>3
  <1>8. ASSUME NEW i \in base + 2..m + n PROVE s[i] = s[i - 1] + 1
    <2>1. CASE i <= m
      <3>1. i \in base + 2..m /\ i \in 1..m /\ i - 1 \in 1..m
        BY <1>0, <2>1
      <3>2. s[i] = q[i] /\ s[i - 1] = q[i - 1] /\ q[i] = q[i - 1] + 1
        BY <1>2, <1>4, <3>1
      <3> QED
        BY <3>2
    <2>2. CASE i = m + 1
      <3>1. i \in m + 1..m + n /\ i - 1 = m /\ m \in 1..m /\ base < m /\ i - m = 1
        BY <1>0, <1>3, <2>2
      <3>2. s[i] = a + (i - m) /\ s[m] = q[m] /\ q[m] = a
        BY <1>4, <1>5, <1>3, <3>1
      <3> QED
        BY <1>0, <3>1, <3>2
    <2>3. CASE i > m + 1
      <3>1. i \in m + 1..m + n /\ i - 1 \in m + 1..m + n
        BY <1>0, <2>3
      <3>2. s[i] = a + (i - m) /\ s[i - 1] = a + (i - 1 - m)
        BY <1>5, <3>1
      <3> QED
        BY <1>0, <3>1, <3>2
    <2> QED
      BY <1>0, <2>1, <2>2, <2>3
  <1>9. s[m + n] = a + n
    <2>1. m + n \in m + 1..m + n /\ m + n - m = n
      BY <1>0
    <2> QED
      BY <1>0, <1>5, <2>1
  <1> QED
    BY <1>3, <1>6, <1>7, <1>8, <1>9 DEF UpTo, Ascending, InRow

\* All of it: q grows up to a, and from base on one by one.
Grown(q, a, base) ==
    /\ q \in Seq(Nat) /\ base <= Len(q)
    /\ UpTo(q, a) /\ Ascending(q) /\ InRow(q, base)
    /\ base < Len(q) => q[Len(q)] = a

\* Appending the next bytes keeps it.
LEMMA BytesAppended ==
    ASSUME NEW a \in Nat, NEW n \in Nat, n >= 1, NEW base \in Nat, NEW q, Grown(q, a, base)
    PROVE  /\ Len(q \o Bytes(a, n)) = Len(q) + n
           /\ Grown(q \o Bytes(a, n), a + n, base)
  <1> DEFINE s == q \o Bytes(a, n)
             m == Len(q)
  <1>0. q \in Seq(Nat) /\ base <= m
    BY DEF Grown
  <1>1. Bytes(a, n) \in Seq(Nat) /\ Len(Bytes(a, n)) = n /\ \A k \in 1..n : Bytes(a, n)[k] = a + k
    BY BytesType DEF Bytes
  <1>2. /\ s \in Seq(Nat) /\ Len(s) = m + Len(Bytes(a, n))
        /\ \A i \in 1..m + Len(Bytes(a, n)) : s[i] = IF i <= m THEN q[i] ELSE Bytes(a, n)[i - m]
    BY <1>0, <1>1, ConcatProperties
  <1>3. m \in Nat
    BY <1>0, LenProperties
  <1> HIDE DEF s, m
  <1>4. /\ s \in Seq(Nat) /\ Len(s) = m + n
        /\ \A i \in 1..m + n : s[i] = IF i <= m THEN q[i] ELSE Bytes(a, n)[i - m]
    BY <1>1, <1>2
  <1>5. \A i \in 1..m : s[i] = q[i]
    BY <1>3, <1>4
  <1>6. ASSUME NEW i \in m + 1..m + n PROVE s[i] = a + (i - m)
    <2>1. i \in 1..m + n /\ ~(i <= m) /\ i - m \in 1..n
      BY <1>3
    <2> QED
      BY <1>1, <1>4, <2>1
  <1>7. UpTo(s, a + n) /\ Ascending(s) /\ InRow(s, base) /\ s[Len(s)] = a + n
    <2>1. Continues(q, a, n, s)
      BY <1>4, <1>5, <1>6 DEF Continues, m
    <2>2. /\ base <= Len(q) /\ UpTo(q, a) /\ Ascending(q) /\ InRow(q, base)
          /\ base < Len(q) => q[Len(q)] = a
      BY DEF Grown
    <2> QED
      BY <1>0, <2>1, <2>2, GrowsOn
  <1>8. Len(s) = Len(q) + n /\ Grown(s, a + n, base)
    BY <1>0, <1>3, <1>4, <1>7 DEF Grown, m
  <1> QED
    BY <1>8 DEF s

-----------------------------------------------------------------------------
(* Steps.                                                                  *)

\* What the steps that write nothing keep.
LEMMA DataKept ==
    ASSUME TxInv, UNCHANGED <<datasource, written, txHist>>, unacked' \in 0..SndBuf
    PROVE  TxTypes' /\ NotBeyond' /\ WriteReportsPrefix'
  <1>1. UNCHANGED <<asked, accepted, before, starved>>
    BY DEF txHist
  <1>2. TxTypes'
    BY <1>1 DEF TxInv, TxTypes
  <1>3. NotBeyond'
    BY <1>1 DEF TxInv, NotBeyond, Taken, UpTo
  <1>4. WriteReportsPrefix'
    BY <1>1 DEF TxInv, WriteReportsPrefix, Last
  <1> QED
    BY <1>2, <1>3, <1>4

\* lwIP's callbacks and the passing of time: each wakes the writer, or changes
\* nothing it waits for.
LEMMA lwIPStep == TxInv /\ (lwIP \/ TimerFires) => TxInv'
  <1> SUFFICES ASSUME TxInv, lwIP \/ TimerFires PROVE TxInv'
    OBVIOUS
  <1> USE BufferAssumption
  <1>0. unacked \in 0..SndBuf /\ Writing /\ NoLostWakeup /\ FlushOnLivePcb
    BY DEF TxInv, TxTypes
  <1>1. UNCHANGED <<datasource, written, txHist, pc>>
    BY DEF lwIP, Connected, Received, PeerClosed, Error, Acked, Poll, TimerFires, txVars
  <1>2. pc # "flush"
    BY DEF lwIP, Connected, Received, PeerClosed, Error, Acked, Poll, TimerFires, AtYield
  <1>3. unacked' \in 0..SndBuf
    <2>1. CASE \E n \in 1..SndBuf : Acked(n)
      BY <1>0, <2>1 DEF Acked
    <2>2. CASE PeerClosed \/ Error
      BY <1>0, <2>2 DEF PeerClosed, Error, Release, Freed
    <2>3. CASE Connected \/ Poll \/ TimerFires \/ \E n \in 1..Wnd : Received(n)
      BY <1>0, <2>3 DEF Connected, Poll, TimerFires, Received, lwipVars
    <2> QED
      BY <2>1, <2>2, <2>3 DEF lwIP
  <1>4. NoLostWakeup'
    <2>1. CASE Connected
      BY <1>0, <2>1 DEF Connected, NoLostWakeup, state, tcp_sndbuf, txVars, txHist
    <2>2. CASE \E n \in 1..Wnd : Received(n)
      BY <1>0, <2>2 DEF Received, NoLostWakeup, state, tcp_sndbuf, txVars, txHist
    <2>3. CASE PeerClosed \/ Error
      BY <2>3 DEF PeerClosed, Error, notify_error, NoLostWakeup
    <2>4. CASE Poll \/ \E n \in 1..SndBuf : Acked(n)
      BY <2>4 DEF Poll, Acked, write_some_from_cb, NoLostWakeup
    <2>5. CASE TimerFires
      BY <1>0, <2>5 DEF TimerFires, NoLostWakeup, state, tcp_sndbuf, txVars, txHist, lwipVars
    <2> QED
      BY <2>1, <2>2, <2>3, <2>4, <2>5 DEF lwIP
  <1>5. Writing' /\ FlushOnLivePcb'
    BY <1>0, <1>1, <1>2 DEF Writing, FlushOnLivePcb
  <1> QED
    BY <1>1, <1>3, <1>4, <1>5, DataKept DEF TxInv

\* The calls that write nothing, except for the loop of wait_until_sent.
LEMMA QuietStep ==
    ASSUME TxInv,
           \/ Accepted \/ ConnectBegin \/ ConnectFails \/ ConnectReturn
           \/ ReadPiece \/ (\E n \in 1..MaxRx : ReadBegin(n))
           \/ WriteWakes \/ Close \/ Unref
    PROVE  TxInv'
  <1> USE BufferAssumption
  <1>0. unacked \in 0..SndBuf /\ Writing
    BY DEF TxInv, TxTypes
  <1>1. UNCHANGED <<datasource, written, txHist>>
    BY DEF Accepted, ConnectBegin, ConnectFails, ConnectReturn, ReadPiece, ReadBegin, WriteWakes,
           Close, Unref, txVars
  <1>2. /\ pc' \notin {"waiting", "flush"}
        /\ pc' \in {"write", "waiting"} <=> pc \in {"write", "waiting"}
    BY DEF Accepted, ConnectBegin, ConnectFails, ConnectReturn, ReadPiece, ReadBegin, WriteWakes,
           Close, Unref
  <1>3. unacked' \in 0..SndBuf
    BY <1>0 DEF Accepted, ConnectBegin, ConnectFails, ConnectReturn, ReadPiece, ReadBegin,
                WriteWakes, Close, Unref, lwipVars, Release, Freed
  <1>4. Writing' /\ NoLostWakeup' /\ FlushOnLivePcb'
    BY <1>0, <1>1, <1>2 DEF Writing, NoLostWakeup, FlushOnLivePcb
  <1> QED
    BY <1>1, <1>3, <1>4, DataKept DEF TxInv

\* wait_until_sent: it goes on after its delay only with a control block.
LEMMA FlushStep ==
    ASSUME TxInv, FlushTurn \/ FlushResume \/ \E from \in {"flush", "stop"} : Flush(from)
    PROVE  TxInv'
  <1>0. unacked \in 0..SndBuf /\ Writing /\ FlushOnLivePcb
    BY DEF TxInv, TxTypes
  <1>1. UNCHANGED <<unacked, _pcb, datasource, written, txHist>>
    BY DEF FlushTurn, FlushResume, Flush, txVars, lwipVars
  <1>2. pc' \notin {"write", "waiting"} /\ pc \notin {"write", "waiting"}
    BY DEF FlushTurn, FlushResume, Flush, FlushBegin, FlushReturn
  <1>3. FlushOnLivePcb'
    <2>1. CASE FlushTurn
      BY <2>1 DEF FlushTurn, FlushReturn, FlushOnLivePcb
    <2>2. CASE FlushResume
      BY <1>1, <2>2 DEF FlushResume, FlushReturn, FlushOnLivePcb, state
    <2>3. CASE \E from \in {"flush", "stop"} : Flush(from)
      BY <1>1, <2>3 DEF Flush, FlushBegin, FlushOnLivePcb
    <2> QED
      BY <2>1, <2>2, <2>3
  <1>4. Writing' /\ NoLostWakeup'
    BY <1>0, <1>1, <1>2 DEF Writing, NoLostWakeup
  <1> QED
    BY <1>0, <1>1, <1>3, <1>4, DataKept DEF TxInv

\* write begins: nothing of the new source has been taken yet.
LEMMA WriteBeginStep ==
    ASSUME TxInv, NEW n \in 1..MaxTx, WriteBegin(n)
    PROVE  TxInv'
  <1>0. TxTypes /\ Writing /\ NotBeyond /\ WriteReportsPrefix /\ pc = "idle" /\ datasource = None
    BY DEF TxInv, Writing, WriteBegin
  <1>1. /\ asked' = asked + n /\ datasource' = n /\ written' = 0 /\ before' = Len(accepted)
        /\ pc' = "write" /\ UNCHANGED <<unacked, accepted>>
    BY DEF WriteBegin, lwipVars
  <1>2. n \in Nat /\ n >= 1 /\ n # None /\ asked \in Nat /\ Len(accepted) \in Nat
    BY <1>0, BoundAssumption, LenProperties DEF TxTypes, None
  <1>3. TxTypes'
    BY <1>0, <1>1, <1>2 DEF TxTypes
  <1>4. Taken = asked /\ Taken' = asked
    BY <1>0, <1>1, <1>2 DEF Taken
  <1>5. NotBeyond'
    BY <1>0, <1>1, <1>4 DEF NotBeyond, UpTo
  <1>6. WriteReportsPrefix'
    <2>1. \A i \in 2..Len(accepted) : accepted[i - 1] < accepted[i]
      BY <1>0 DEF WriteReportsPrefix
    <2>2. before' + 2..Len(accepted') = {}
      BY <1>1, <1>2
    <2> QED
      BY <1>1, <1>2, <2>1, <2>2 DEF WriteReportsPrefix
  <1>7. Writing' /\ NoLostWakeup' /\ FlushOnLivePcb'
    BY <1>1, <1>2 DEF Writing, NoLostWakeup, FlushOnLivePcb
  <1> QED
    BY <1>3, <1>5, <1>6, <1>7 DEF TxInv

\* One turn of a write.  A turn that goes to sleep has filled the send buffer or
\* has just been refused; what it took joins what was accepted before.
LEMMA WriteSomeStep ==
    ASSUME TxInv, WriteSome
    PROVE  TxInv'
  <1> USE BufferAssumption
  <1>0. /\ TxTypes /\ Writing /\ NotBeyond /\ WriteReportsPrefix
        /\ pc = "write" /\ datasource \in 1..asked /\ Taken = asked - datasource
    BY DEF TxInv, TxTypes, Writing, WriteSome, Taken, None
  <1>1. PICK ok \in BOOLEAN :
          LET sent == IF ok THEN Chunk ELSE 0
              left == datasource - sent
              over == left = 0 \/ (expired /\ sent = 0) \/ state = "CLOSED"
          IN  /\ pc = "write" /\ (Chunk = 0 => ok)
              /\ IF Chunk > 0 THEN tcp_write(Chunk, ok) ELSE UNCHANGED <<unacked, accepted, starved>>
              /\ written' = written + sent
              /\ datasource' = IF over THEN None ELSE left
              /\ IF over THEN WriteOver ELSE WriteWaits
              /\ UNCHANGED <<tcp, wnd, _pcb, rxVars, connect_pending, sync, want, sndbuf, rxHist,
                             asked, before>>
    BY DEF WriteSome
  <1> DEFINE sent == IF ok THEN Chunk ELSE 0
             left == datasource - sent
             over == left = 0 \/ (expired /\ sent = 0) \/ state = "CLOSED"
             a    == asked - datasource
  <1>2. /\ Chunk \in 0..datasource /\ unacked + Chunk <= SndBuf
        /\ state # "CLOSED" /\ Chunk < datasource => unacked + Chunk = SndBuf
    BY <1>0 DEF Chunk, tcp_sndbuf, TxTypes
  <1>3. /\ sent \in 0..datasource /\ left \in 0..datasource
        /\ left = datasource - sent /\ a = asked - datasource
        /\ unacked' = unacked + sent
        /\ accepted' = accepted \o Bytes(a, sent) \/ (sent = 0 /\ accepted' = accepted)
        /\ sent = 0 => accepted' = accepted
    <2>1. CASE Chunk = 0
      BY <1>0, <1>1, <1>2, <2>1 DEF TxTypes
    <2>2. CASE Chunk > 0 /\ ok
      <3>1. tcp_write(Chunk, ok) /\ sent = Chunk
        BY <1>1, <1>2, <2>2
      <3>2. unacked' = unacked + Chunk /\ accepted' = accepted \o Bytes(a, Chunk)
        BY <2>2, <3>1 DEF tcp_write, Bytes
      <3> QED
        BY <1>0, <1>2, <2>2, <3>1, <3>2 DEF TxTypes
    <2>3. CASE Chunk > 0 /\ ~ok
      BY <1>0, <1>1, <1>2, <2>3 DEF tcp_write, TxTypes
    <2> QED
      BY <1>2, <2>1, <2>2, <2>3
  <1>4. /\ written' = written + sent /\ asked' = asked /\ before' = before
        /\ tcp' = tcp /\ _pcb' = _pcb
        /\ datasource' = IF over THEN None ELSE left
        /\ IF over THEN WriteOver ELSE WriteWaits
    BY <1>1
  <1>5. ~over => /\ state # "CLOSED" /\ left \in 1..datasource
                 /\ ok => unacked' = SndBuf
                 /\ ~ok => starved' = TRUE
    BY <1>0, <1>1, <1>2, <1>3 DEF tcp_write, TxTypes
  <1>6. /\ asked \in Nat /\ datasource \in Nat /\ a \in Nat /\ sent \in Nat /\ before \in Nat
        /\ written \in Nat /\ accepted \in Seq(Nat) /\ Len(accepted) \in Nat
    BY <1>0, <1>3, LenProperties DEF TxTypes
  <1> HIDE DEF sent, left, over, a
  <1>7. written = Len(accepted) - before /\ Grown(accepted, a, before)
    <2>1. written = Len(accepted) - before /\ Ascending(accepted) /\ InRow(accepted, before)
      BY <1>0 DEF WriteReportsPrefix, Ascending, InRow
    <2>2. UpTo(accepted, a)
      BY <1>0 DEF NotBeyond, a
    <2>3. datasource # None
      BY <1>0 DEF None
    <2>4. before < Len(accepted) => accepted[Len(accepted)] = a
      BY <1>0, <1>6, <2>1, <2>3 DEF WriteReportsPrefix, Last, a
    <2> QED
      BY <1>6, <2>1, <2>2, <2>4 DEF Grown
  <1>8. Len(accepted') = Len(accepted) + sent /\ Grown(accepted', a + sent, before)
    <2>1. CASE sent = 0
      BY <1>3, <1>6, <1>7, <2>1
    <2>2. CASE sent > 0
      <3>1. accepted' = accepted \o Bytes(a, sent) /\ sent >= 1
        BY <1>3, <1>6, <2>2
      <3>2. /\ Len(accepted \o Bytes(a, sent)) = Len(accepted) + sent
            /\ Grown(accepted \o Bytes(a, sent), a + sent, before)
        BY <1>6, <1>7, <3>1, BytesAppended
      <3> QED
        BY <3>1, <3>2
    <2> QED
      BY <1>6, <2>1, <2>2
  <1>9. TxTypes'
    <2>1. unacked' \in 0..SndBuf
      BY <1>0, <1>2, <1>3, <1>6 DEF TxTypes, sent
    <2>2. datasource' = None \/ datasource' \in 1..asked'
      BY <1>0, <1>4, <1>5, <1>6
    <2>3. accepted' \in Seq(Nat) /\ written' \in Nat /\ asked' \in Nat /\ before' \in Nat
      BY <1>4, <1>6, <1>8 DEF Grown
    <2> QED
      BY <2>1, <2>2, <2>3 DEF TxTypes
  <1>10. Taken' \in Nat /\ a + sent <= Taken'
    BY <1>3, <1>4, <1>5, <1>6 DEF Taken, None
  <1>11. NotBeyond'
    <2>1. \A i \in 1..Len(accepted') : accepted'[i] \in Nat
      BY <1>8, ElementOfSeq DEF Grown
    <2> QED
      BY <1>6, <1>8, <1>10, <2>1 DEF NotBeyond, UpTo, Grown
  <1>12. WriteReportsPrefix'
    <2>1. written' = Len(accepted') - before'
      BY <1>4, <1>6, <1>7, <1>8
    <2>2. datasource' # None /\ written' > 0 => Last(accepted') = asked' - datasource'
      <3> SUFFICES ASSUME datasource' # None, written' > 0 PROVE Last(accepted') = asked' - datasource'
        OBVIOUS
      <3>1. asked' - datasource' = a + sent
        BY <1>3, <1>4, <1>6
      <3>2. before < Len(accepted')
        BY <1>4, <1>6, <1>8, <2>1
      <3> QED
        BY <1>8, <3>1, <3>2 DEF Last, Grown
    <2> QED
      BY <1>4, <1>8, <2>1, <2>2 DEF WriteReportsPrefix, Ascending, InRow, Grown
  <1>13. Writing' /\ NoLostWakeup' /\ FlushOnLivePcb'
    <2>1. CASE over
      BY <1>4, <2>1 DEF WriteOver, FlushBegin, Writing, NoLostWakeup, FlushOnLivePcb
    <2>2. CASE ~over
      <3>1. tcp_sndbuf' = 0 \/ starved'
        BY <1>1, <1>5, <2>2 DEF tcp_sndbuf
      <3> QED
        BY <1>4, <1>5, <2>2, <3>1 DEF WriteWaits, Writing, NoLostWakeup, FlushOnLivePcb, state, None
    <2> QED
      BY <2>1, <2>2
  <1> QED
    BY <1>9, <1>11, <1>12, <1>13 DEF TxInv

LEMMA TxStep == TxInv /\ [Next]_vars => TxInv'
  <1> SUFFICES ASSUME TxInv, [Next]_vars PROVE TxInv'
    OBVIOUS
  <1>1. CASE lwIP \/ TimerFires
    BY <1>1, lwIPStep
  <1>2. CASE Sketch
    BY <1>2, QuietStep, FlushStep, WriteBeginStep, WriteSomeStep DEF Sketch, Running
  <1>3. CASE UNCHANGED vars
    <2>1. unacked' \in 0..SndBuf /\ UNCHANGED <<datasource, written, txHist>>
      BY <1>3 DEF vars, lwipVars, txVars, txHist, TxInv, TxTypes
    <2>2. Writing' /\ NoLostWakeup' /\ FlushOnLivePcb'
      BY <1>3 DEF vars, lwipVars, txVars, txHist, flushVars, TxInv, Writing, NoLostWakeup,
                  FlushOnLivePcb, state, tcp_sndbuf
    <2> QED
      BY <2>1, <2>2, DataKept DEF TxInv
  <1> QED
    BY <1>1, <1>2, <1>3 DEF Next

LEMMA TxAlways == Spec => []TxInv
  BY TxInit, TxStep, PTL DEF Spec

\* What lwIP has accepted of each write is a prefix of what the sketch asked
\* for, in order, and write reports its length: _write_from_source keeps no
\* byte that tcp_write refused out of the next turn, and sends none twice.
THEOREM WritesReportAPrefix == Spec => []WriteReportsPrefix
  <1>1. TxInv => WriteReportsPrefix
    BY DEF TxInv
  <1> QED
    BY <1>1, TxAlways, PTL

\* A writer that sleeps with nobody having woken it has nothing it could do:
\* _acked, _recv, _error and _poll wake it whenever that changes.
THEOREM NoWakeupIsLost == Spec => []NoLostWakeup
  <1>1. TxInv => NoLostWakeup
    BY DEF TxInv
  <1> QED
    BY <1>1, TxAlways, PTL

\* wait_until_sent never reaches tcp_output without a control block, though a
\* callback may free it during each of its delays.
THEOREM FlushesAreOnALivePcb == Spec => []FlushOnLivePcb
  <1>1. TxInv => FlushOnLivePcb
    BY DEF TxInv
  <1> QED
    BY <1>1, TxAlways, PTL

-----------------------------------------------------------------------------
(* FlattenSeq.                                                             *)

\* Induction over the natural numbers, for a set of them.
LEMMA SetInduction ==
    ASSUME NEW T, T \subseteq Nat, 0 \in T, \A n \in T : n + 1 \in T
    PROVE  T = Nat
  <1> SUFFICES ASSUME T # Nat PROVE FALSE
    OBVIOUS
  <1> DEFINE R == Nat \ T
  <1>1. R \subseteq Nat /\ R # {}
    OBVIOUS
  <1> HIDE DEF R
  <1>2. PICK m \in R : \A k \in R : <<k, m>> \notin OpToRel(<, Nat)
    BY <1>1, WFMin, NatLessThanWellFounded, Zenon
  <1>3. \A k \in R : ~(k < m)
    BY <1>1, <1>2, Zenon DEF OpToRel
  <1>4. m \in Nat /\ m # 0
    BY <1>1 DEF R
  <1>5. m - 1 \in Nat /\ m - 1 < m
    BY <1>4
  <1>6. m - 1 \in T
    BY <1>3, <1>5 DEF R
  <1>7. m - 1 + 1 \in T
    BY <1>6
  <1> QED
    BY <1>4, <1>7 DEF R

\* g[i] is the first i sequences of s in a row, for i up to n.
Joins(g, s, n) == g = [i \in 1..n |-> IF i = 1 THEN s[i] ELSE g[i - 1] \o s[i]]

LEMMA JoinsExists ==
    ASSUME NEW s, NEW n \in Nat
    PROVE  \E g : Joins(g, s, n)
  <1> DEFINE T == {k \in Nat : \E g : Joins(g, s, k)}
  <1>1. 0 \in T
    <2>1. 1..0 = {}
      OBVIOUS
    <2>2. Joins([i \in {} |-> 0], s, 0)
      BY <2>1 DEF Joins
    <2> QED
      BY <2>2
  <1>2. ASSUME NEW k \in T PROVE k + 1 \in T
    <2>1. k \in Nat
      OBVIOUS
    <2>2. PICK g : Joins(g, s, k)
      OBVIOUS
    <2> DEFINE h == [i \in 1..(k + 1) |-> IF i = 1 THEN s[i] ELSE g[i - 1] \o s[i]]
    <2>3. ASSUME NEW i \in 1..k PROVE h[i] = g[i]
      <3>1. i \in 1..(k + 1)
        BY <2>1
      <3>2. h[i] = IF i = 1 THEN s[i] ELSE g[i - 1] \o s[i]
        BY <3>1
      <3>3. g[i] = IF i = 1 THEN s[i] ELSE g[i - 1] \o s[i]
        BY <2>2 DEF Joins
      <3> QED
        BY <3>2, <3>3
    <2>4. ASSUME NEW i \in 1..(k + 1), i # 1 PROVE g[i - 1] = h[i - 1]
      <3>1. i - 1 \in 1..k
        BY <2>1, <2>4
      <3> QED
        BY <2>3, <3>1
    <2>5. h = [i \in 1..(k + 1) |-> IF i = 1 THEN s[i] ELSE h[i - 1] \o s[i]]
      BY <2>4
    <2>6. Joins(h, s, k + 1)
      BY <2>5 DEF Joins
    <2> QED
      BY <2>1, <2>6
  <1> HIDE DEF T
  <1>3. T = Nat
    <2>1. T \subseteq Nat
      BY DEF T
    <2> QED
      BY <1>1, <1>2, <2>1, SetInduction
  <1> QED
    BY <1>3 DEF T

\* Item by item
Rows(g, s, n) ==
    /\ n > 0 => g[1] = s[1]
    /\ \A i \in 2..n : g[i] = g[i - 1] \o s[i]

LEMMA JoinsOf ==
    ASSUME NEW g, NEW s, NEW n \in Nat, Joins(g, s, n)
    PROVE  Rows(g, s, n)
  <1>1. \A i \in 1..n : g[i] = IF i = 1 THEN s[i] ELSE g[i - 1] \o s[i]
    BY DEF Joins
  <1>2. n > 0 => g[1] = s[1]
    BY <1>1
  <1>3. ASSUME NEW i \in 2..n PROVE g[i] = g[i - 1] \o s[i]
    <2>1. i \in 1..n /\ i # 1
      OBVIOUS
    <2> QED
      BY <1>1, <2>1
  <1> QED
    BY <1>2, <1>3 DEF Rows

\* What holds of 1, and of i if it holds of i - 1, holds up to n.
LEMMA UpToN ==
    ASSUME NEW n \in Nat, NEW T, n > 0 => 1 \in T, \A i \in 2..n : i - 1 \in T => i \in T
    PROVE  \A i \in 1..n : i \in T
  <1> DEFINE R == {k \in Nat : k + 1 <= n => k + 1 \in T}
  <1>1. 0 \in R
    OBVIOUS
  <1>2. ASSUME NEW k \in R PROVE k + 1 \in R
    <2> SUFFICES ASSUME k + 1 + 1 <= n PROVE k + 1 + 1 \in T
      OBVIOUS
    <2> DEFINE j == k + 1 + 1
    <2>1. j \in 2..n /\ j - 1 = k + 1 /\ k + 1 <= n
      OBVIOUS
    <2>2. k + 1 \in T
      BY <2>1
    <2> HIDE DEF j
    <2>3. j \in T
      BY <2>1, <2>2
    <2> QED
      BY <2>3 DEF j
  <1> HIDE DEF R
  <1>3. R = Nat
    <2>1. R \subseteq Nat
      BY DEF R
    <2> QED
      BY <1>1, <1>2, <2>1, SetInduction
  <1> SUFFICES ASSUME NEW i \in 1..n PROVE i \in T
    OBVIOUS
  <1>4. i - 1 \in R /\ i - 1 + 1 = i /\ i <= n
    BY <1>3
  <1> QED
    BY <1>4 DEF R

\* Two sequences of sequences that begin alike.
Alike(g, h, l) == \A i \in 1..l : g[i] = h[i]

LEMMA JoinsAlike ==
    ASSUME NEW g, NEW s, NEW n \in Nat, Joins(g, s, n),
           NEW h, NEW t, NEW m \in Nat, Joins(h, t, m),
           NEW l \in Nat, l <= n, l <= m, \A i \in 1..l : s[i] = t[i]
    PROVE  Alike(g, h, l)
  <1> DEFINE T == {i \in Nat : g[i] = h[i]}
  <1>1. /\ n > 0 => g[1] = s[1]
        /\ \A i \in 2..n : g[i] = g[i - 1] \o s[i]
    <2>1. Rows(g, s, n)
      BY JoinsOf
    <2> HIDE DEF T
    <2> QED
      BY <2>1 DEF Rows
  <1>2. /\ m > 0 => h[1] = t[1]
        /\ \A i \in 2..m : h[i] = h[i - 1] \o t[i]
    <2>1. Rows(h, t, m)
      BY JoinsOf
    <2> HIDE DEF T
    <2> QED
      BY <2>1 DEF Rows
  <1>3. l > 0 => 1 \in T
    <2> SUFFICES ASSUME l > 0 PROVE g[1] = h[1]
      OBVIOUS
    <2>1. n > 0 /\ m > 0 /\ 1 \in 1..l
      OBVIOUS
    <2> QED
      BY <1>1, <1>2, <2>1
  <1>4. ASSUME NEW i \in 2..l, i - 1 \in T PROVE i \in T
    <2>1. i \in 2..n /\ i \in 2..m /\ i \in 1..l /\ i \in Nat
      OBVIOUS
    <2>2. g[i - 1] = h[i - 1] /\ s[i] = t[i]
      BY <1>4, <2>1
    <2>3. g[i] = h[i]
      BY <1>1, <1>2, <2>1, <2>2
    <2> QED
      BY <2>1, <2>3
  <1>5. \A i \in 1..l : i \in T
    <2> HIDE DEF T
    <2> QED
      BY <1>3, <1>4, UpToN
  <1> QED
    BY <1>5 DEF Alike

LEMMA JoinsType ==
    ASSUME NEW S, NEW s \in Seq(Seq(S)), NEW n, n = Len(s), NEW g, Joins(g, s, n)
    PROVE  \A i \in 1..n : g[i] \in Seq(S)
  <1> DEFINE T == {i \in Nat : g[i] \in Seq(S)}
  <1>0. n \in Nat /\ \A i \in 1..n : s[i] \in Seq(S)
    BY LenProperties, ElementOfSeq
  <1>1. /\ n > 0 => g[1] = s[1]
        /\ \A i \in 2..n : g[i] = g[i - 1] \o s[i]
    <2>1. Rows(g, s, n)
      BY <1>0, JoinsOf
    <2> HIDE DEF T
    <2> QED
      BY <2>1 DEF Rows
  <1>2. n > 0 => 1 \in T
    BY <1>0, <1>1
  <1>3. ASSUME NEW i \in 2..n, i - 1 \in T PROVE i \in T
    <2>1. i \in 1..n /\ i \in Nat
      BY <1>0
    <2>2. g[i - 1] \in Seq(S) /\ s[i] \in Seq(S)
      BY <1>0, <1>3, <2>1
    <2>3. g[i - 1] \o s[i] \in Seq(S)
      BY <2>2, ConcatProperties
    <2> QED
      BY <1>1, <2>1, <2>3
  <1>4. \A i \in 1..n : i \in T
    <2> HIDE DEF T
    <2> QED
      BY <1>0, <1>2, <1>3, UpToN
  <1> QED
    BY <1>4

LEMMA FlattenJoins ==
    ASSUME NEW S, NEW s \in Seq(Seq(S)), s # <<>>
    PROVE  \E g : Joins(g, s, Len(s)) /\ FlattenSeq(s) = g[Len(s)]
  <1> DEFINE g == CHOOSE f : Joins(f, s, Len(s))
  <1>1. Len(s) \in Nat /\ Len(s) # 0
    BY EmptySeq
  <1>2. Joins(g, s, Len(s))
    BY <1>1, JoinsExists
  <1>3. FlattenSeq(s) = g[Len(s)]
    BY <1>1 DEF FlattenSeq, Joins
  <1> QED
    BY <1>2, <1>3

LEMMA FlattenType ==
    ASSUME NEW S, NEW s \in Seq(Seq(S))
    PROVE  FlattenSeq(s) \in Seq(S)
  <1>1. CASE s = <<>>
    BY <1>1, EmptySeq DEF FlattenSeq
  <1>2. CASE s # <<>>
    <2>1. PICK g : Joins(g, s, Len(s)) /\ FlattenSeq(s) = g[Len(s)]
      BY <1>2, FlattenJoins
    <2>2. Len(s) \in 1..Len(s)
      BY <1>2, EmptySeq
    <2>3. \A i \in 1..Len(s) : g[i] \in Seq(S)
      BY <2>1, JoinsType
    <2> QED
      BY <2>1, <2>2, <2>3
  <1> QED
    BY <1>1, <1>2

LEMMA FlattenEmpty == FlattenSeq(<<>>) = <<>>
  BY DEF FlattenSeq

LEMMA FlattenAppend ==
    ASSUME NEW S, NEW s \in Seq(Seq(S)), NEW x \in Seq(S)
    PROVE  FlattenSeq(Append(s, x)) = FlattenSeq(s) \o x
  <1> DEFINE t == Append(s, x)
             n == Len(s)
             m == n + 1
  <1>1. /\ t \in Seq(Seq(S)) /\ t # <<>> /\ Len(t) = m /\ n \in Nat /\ m \in Nat
        /\ t[m] = x /\ \A i \in 1..n : t[i] = s[i]
    BY AppendProperties
  <1>2. n <= m /\ m > 0 /\ m - 1 = n /\ (n > 0 => m \in 2..m)
    BY <1>1
  <1> HIDE DEF t, m
  <1>3. PICK g : Joins(g, t, m) /\ FlattenSeq(t) = g[m]
    BY <1>1, FlattenJoins
  <1>4. /\ m > 0 => g[1] = t[1]
        /\ \A i \in 2..m : g[i] = g[i - 1] \o t[i]
    <2>1. Rows(g, t, m)
      BY <1>1, <1>3, JoinsOf
    <2> QED
      BY <2>1 DEF Rows
  <1>5. CASE s = <<>>
    <2>1. m = 1
      BY <1>5 DEF m
    <2>2. FlattenSeq(t) = x
      BY <1>1, <1>2, <1>3, <1>4, <2>1
    <2>3. FlattenSeq(s) = <<>> /\ <<>> \o x = x
      BY <1>5, FlattenEmpty, ConcatEmptySeq
    <2> QED
      BY <2>2, <2>3 DEF t
  <1>6. CASE s # <<>>
    <2>1. PICK h : Joins(h, s, n) /\ FlattenSeq(s) = h[n]
      BY <1>6, FlattenJoins
    <2>2. n > 0
      BY <1>6, EmptySeq
    <2> HIDE DEF n
    <2>3. \A i \in 1..n : g[i] = h[i]
      <3>1. /\ Joins(g, t, m) /\ Joins(h, s, n) /\ m \in Nat /\ n \in Nat /\ n <= m /\ n <= n
            /\ \A i \in 1..n : t[i] = s[i]
        BY <1>1, <1>2, <1>3, <2>1
      <3>2. Alike(g, h, n)
        BY <3>1, JoinsAlike
      <3> QED
        BY <3>1, <3>2 DEF Alike
    <2>4. g[n] = h[n]
      BY <1>1, <2>2, <2>3
    <2>5. g[m] = g[n] \o x
      BY <1>1, <1>2, <1>4, <2>2
    <2> QED
      BY <1>3, <2>1, <2>4, <2>5 DEF t
  <1> QED
    BY <1>5, <1>6

Prefixed(g, n, a, h, m) == g[n] = a \o h[m]

\* The first m items of t are those of s behind its first.
Shifted(s, t, h, m, S) ==
    \A i \in 1..m : t[i] = s[i + 1] /\ t[i] \in Seq(S) /\ h[i] \in Seq(S)

LEMMA JoinsShift ==
    ASSUME NEW S, NEW a \in Seq(S),
           NEW g, NEW s, NEW n \in Nat, Joins(g, s, n), s[1] = a,
           NEW h, NEW t, NEW m \in Nat, Joins(h, t, m), m > 0, n = m + 1,
           Shifted(s, t, h, m, S)
    PROVE  Prefixed(g, n, a, h, m)
  <1>0. \A i \in 1..m : t[i] = s[i + 1] /\ t[i] \in Seq(S) /\ h[i] \in Seq(S)
    BY DEF Shifted
  <1> DEFINE T == {i \in Nat : g[i + 1] = a \o h[i]}
  <1>1. Rows(g, s, n) /\ Rows(h, t, m)
    BY JoinsOf
  <1>2. 1 \in T
    <2>1. 2 \in 2..n /\ 1 \in 1..m /\ n > 0 /\ 1 + 1 = 2 /\ 2 - 1 = 1
      OBVIOUS
    <2>2. g[2] = g[2 - 1] \o s[2] /\ g[1] = a /\ h[1] = t[1]
      BY <1>1, <2>1 DEF Rows
    <2>3. t[1] = s[2]
      BY <1>0, <2>1
    <2>4. g[2] = a \o h[1]
      BY <2>1, <2>2, <2>3
    <2> QED
      BY <2>1, <2>4
  <1>3. ASSUME NEW i \in 2..m, i - 1 \in T PROVE i \in T
    <2> DEFINE j == i + 1
               k == i - 1
    <2>1. j \in 2..n /\ j - 1 = i /\ k \in 1..m /\ k + 1 = i /\ i \in 1..m /\ i \in Nat
      OBVIOUS
    <2>2. t[i] = s[j] /\ t[i] \in Seq(S) /\ h[k] \in Seq(S)
      BY <1>0, <2>1
    <2>3. g[i] = a \o h[k]
      BY <1>3, <2>1
    <2>4. h[i] = h[k] \o t[i]
      BY <1>1 DEF Rows
    <2> HIDE DEF j, k
    <2>5. g[j] = g[i] \o s[j]
      BY <1>1, <2>1 DEF Rows
    <2>6. (a \o h[k]) \o t[i] = a \o (h[k] \o t[i])
      <3> DEFINE p == h[k]
                 q == t[i]
      <3>1. p \in Seq(S) /\ q \in Seq(S)
        BY <2>2
      <3> HIDE DEF p, q, T
      <3>2. (a \o p) \o q = a \o (p \o q)
        BY SMTT(30), <3>1, ConcatAssociative
      <3> QED
        BY <3>2 DEF p, q
    <2>7. g[j] = a \o h[i]
      BY <2>2, <2>3, <2>4, <2>5, <2>6
    <2> QED
      BY <2>1, <2>7 DEF j
  <1>4. \A i \in 1..m : i \in T
    <2> HIDE DEF T
    <2> QED
      BY <1>2, <1>3, UpToN
  <1>5. m \in T
    <2> HIDE DEF T
    <2> QED
      BY <1>4
  <1> QED
    BY <1>5 DEF Prefixed

LEMMA FlattenHead ==
    ASSUME NEW S, NEW s \in Seq(Seq(S)), s # <<>>
    PROVE  FlattenSeq(s) = Head(s) \o FlattenSeq(Tail(s))
  <1> DEFINE t == Tail(s)
             n == Len(s)
             m == n - 1
             a == s[1]
  <1>1. /\ t \in Seq(Seq(S)) /\ Len(t) = m /\ n \in Nat /\ m \in Nat /\ n = m + 1
        /\ \A i \in 1..m : t[i] = s[i + 1]
        /\ Head(s) = a /\ a \in Seq(S)
    BY HeadTailProperties, EmptySeq, ElementOfSeq
  <1>2. PICK g : Joins(g, s, n) /\ FlattenSeq(s) = g[n]
    BY FlattenJoins
  <1> HIDE DEF n, t, m
  <1>3. CASE t = <<>>
    <2>1. n = 1
      BY <1>1, <1>3
    <2>2. FlattenSeq(t) = <<>> /\ a \o <<>> = a
      BY <1>1, <1>3, FlattenEmpty, ConcatEmptySeq
    <2>3. Rows(g, s, n)
      BY <1>1, <1>2, JoinsOf
    <2>4. g[n] = a
      BY <2>1, <2>3 DEF Rows
    <2> QED
      BY <1>1, <1>2, <2>2, <2>4 DEF t
  <1>4. CASE t # <<>>
    <2>1. PICK h : Joins(h, t, m) /\ FlattenSeq(t) = h[m]
      BY <1>1, <1>4, FlattenJoins
    <2>2. m > 0
      BY <1>1, <1>4, EmptySeq
    <2>3. \A i \in 1..m : t[i] = s[i + 1] /\ t[i] \in Seq(S) /\ h[i] \in Seq(S)
      BY <1>1, <2>1, JoinsType, ElementOfSeq
    <2>4. s[1] = a
      OBVIOUS
    <2> HIDE DEF a
    <2>5. g[n] = a \o h[m]
      <3>1. /\ a \in Seq(S) /\ Joins(g, s, n) /\ Joins(h, t, m) /\ n \in Nat /\ m \in Nat
            /\ s[1] = a /\ m > 0 /\ n = m + 1
            /\ Shifted(s, t, h, m, S)
        BY <1>1, <1>2, <2>1, <2>2, <2>3, <2>4 DEF Shifted
      <3>2. Prefixed(g, n, a, h, m)
        BY ONLY <3>1, JoinsShift
      <3> QED
        BY <3>2 DEF Prefixed
    <2> QED
      BY <1>1, <1>2, <2>1, <2>5 DEF t
  <1> QED
    BY <1>3, <1>4
-----------------------------------------------------------------------------
(* The receiving side.                                                     *)

\* q without its first n items
Behind(q, n) == SubSeq(q, n + 1, Len(q))

LEMMA BehindType ==
    ASSUME NEW S, NEW q \in Seq(S), NEW n \in 0..Len(q)
    PROVE  Behind(q, n) \in Seq(S) /\ Len(Behind(q, n)) = Len(q) - n
  <1>1. Len(q) \in Nat /\ n \in Nat /\ n <= Len(q)
    BY LenProperties
  <1>2. \A i \in n + 1..Len(q) : q[i] \in S
    BY <1>1, ElementOfSeq
  <1>3. /\ SubSeq(q, n + 1, Len(q)) \in Seq(S)
        /\ Len(SubSeq(q, n + 1, Len(q))) = IF n + 1 <= Len(q) THEN Len(q) - (n + 1) + 1 ELSE 0
    BY <1>1, <1>2, SubSeqProperties
  <1> QED
    BY <1>1, <1>3 DEF Behind

LEMMA BehindSplits ==
    ASSUME NEW S, NEW q \in Seq(S), NEW a \in Nat, NEW b \in Nat, a <= b, b <= Len(q)
    PROVE  Behind(q, a) = SubSeq(q, a + 1, b) \o Behind(q, b)
  <1>1. Len(q) \in Nat
    BY LenProperties
  <1> DEFINE m == a + 1
             l == Len(q)
  <1>2. m \in 1..l + 1 /\ b \in m - 1..l /\ l \in b..l
    BY <1>1
  <1> HIDE DEF m
  <1>3. SubSeq(q, m, b) \o SubSeq(q, b + 1, l) = SubSeq(q, m, l)
    BY <1>2, ConcatAdjacentSubSeq
  <1> QED
    BY <1>3 DEF Behind, m

LEMMA BehindConcat ==
    ASSUME NEW S, NEW h \in Seq(S), NEW t \in Seq(S), NEW a \in 0..Len(h)
    PROVE  Behind(h \o t, a) = Behind(h, a) \o t
  <1> DEFINE q == h \o t
             m == Len(h)
  <1>1. q \in Seq(S) /\ Len(q) = m + Len(t) /\ m \in Nat /\ Len(t) \in Nat
    BY ConcatProperties, LenProperties
  <1>2. a \in Nat /\ a <= m
    BY <1>1
  <1> HIDE DEF q
  <1>3. Behind(q, a) = SubSeq(q, a + 1, m) \o Behind(q, m)
    <2>1. q \in Seq(S) /\ a \in Nat /\ m \in Nat /\ a <= m /\ m <= Len(q)
      BY <1>1, <1>2
    <2> HIDE DEF m
    <2> QED
      BY ONLY <2>1, BehindSplits
  <1>4. SubSeq(q, a + 1, m) = Behind(h, a)
    <2>1. CASE a = m
      <3>1. m < a + 1 /\ a + 1 \in Int /\ m \in Int
        BY <1>1, <2>1
      <3>2. SubSeq(q, a + 1, m) = <<>> /\ SubSeq(h, a + 1, m) = <<>>
        BY <3>1, SubSeqEmpty
      <3> QED
        BY <3>2 DEF Behind
    <2>2. CASE a < m
      <3>1. a + 1 \in 1..m /\ m \in 1..m
        BY <1>1, <1>2, <2>2
      <3>2. SubSeq(q, a + 1, m) = SubSeq(h, a + 1, m)
        BY <3>1, SubSeqOfConcat1 DEF q
      <3> QED
        BY <3>2 DEF Behind
    <2> QED
      BY <1>1, <1>2, <2>1, <2>2
  <1>5. Behind(q, m) = t
    <2>1. CASE Len(t) = 0
      <3>1. SubSeq(q, m + 1, Len(q)) = <<>>
        <4>1. Len(q) < m + 1 /\ m + 1 \in Int /\ Len(q) \in Int
          BY <1>1, <2>1
        <4> QED
          BY <4>1, SubSeqEmpty
      <3>2. t = <<>>
        BY <2>1, EmptySeq
      <3> QED
        BY <3>1, <3>2 DEF Behind
    <2>2. CASE Len(t) # 0
      <3>1. m + 1 \in m + 1..m + Len(t) /\ m + Len(t) \in m + 1..m + Len(t)
            /\ m + 1 - m = 1 /\ m + Len(t) - m = Len(t)
        BY <1>1, <2>2
      <3>2. SubSeq(h \o t, m + 1, m + Len(t)) = SubSeq(t, m + 1 - m, m + Len(t) - m)
        BY <3>1, SubSeqOfConcat2
      <3>3. SubSeq(t, 1, Len(t)) = t
        BY SubSeqFull
      <3> QED
        BY <1>1, <3>1, <3>2, <3>3 DEF Behind, q
    <2> QED
      BY <2>1, <2>2
  <1> QED
    BY <1>3, <1>4, <1>5 DEF q

\* The numbers up to a, continued
Counted(n) == [i \in 1..n |-> i]

LEMMA CountedType ==
    ASSUME NEW n \in Nat, NEW N \in Nat, n <= N
    PROVE  Counted(n) \in Seq(1..N) /\ Len(Counted(n)) = n /\ \A i \in 1..n : Counted(n)[i] = i
  <1> DEFINE c == [i \in 1..n |-> i]
  <1>1. c \in [1..n -> 1..N]
    OBVIOUS
  <1>2. c \in Seq(1..N)
    BY <1>1, SeqDef
  <1>3. Len(c) = n
    BY <1>2, LenProperties
  <1> QED
    BY <1>2, <1>3 DEF Counted

LEMMA NextType ==
    ASSUME NEW a \in Nat, NEW n \in Nat, NEW N \in Nat, a + n <= N
    PROVE  LET x == [i \in 1..n |-> a + i]
           IN  x \in Seq(1..N) /\ Len(x) = n /\ \A i \in 1..n : x[i] = a + i
  <1> DEFINE x == [i \in 1..n |-> a + i]
  <1>1. x \in [1..n -> 1..N]
    OBVIOUS
  <1>2. x \in Seq(1..N)
    BY <1>1, SeqDef
  <1>3. Len(x) = n
    BY <1>2, LenProperties
  <1> QED
    BY <1>2, <1>3

LEMMA CountsOn ==
    ASSUME NEW a \in Nat, NEW n \in Nat, NEW N \in Nat, a + n <= N
    PROVE  Counted(a) \o [i \in 1..n |-> a + i] = Counted(a + n)
  <1> DEFINE c == Counted(a)
             x == [i \in 1..n |-> a + i]
             d == Counted(a + n)
  <1>1. /\ c \in Seq(1..N) /\ Len(c) = a /\ \A i \in 1..a : c[i] = i
        /\ d \in Seq(1..N) /\ Len(d) = a + n /\ \A i \in 1..(a + n) : d[i] = i
    BY CountedType
  <1>2. x \in Seq(1..N) /\ Len(x) = n /\ \A i \in 1..n : x[i] = a + i
    BY NextType
  <1> HIDE DEF c, x, d
  <1>3. /\ c \o x \in Seq(1..N) /\ Len(c \o x) = a + n
        /\ \A i \in 1..a + n : (c \o x)[i] = IF i <= a THEN c[i] ELSE x[i - a]
    <2>1. /\ c \o x \in Seq(1..N) /\ Len(c \o x) = Len(c) + Len(x)
          /\ \A i \in 1..Len(c) + Len(x) : (c \o x)[i] = IF i <= Len(c) THEN c[i] ELSE x[i - Len(c)]
      BY <1>1, <1>2, ConcatProperties
    <2> QED
      BY <1>1, <1>2, <2>1
  <1>4. ASSUME NEW i \in 1..(a + n) PROVE (c \o x)[i] = d[i]
    <2>1. CASE i <= a
      BY <1>1, <1>3, <2>1
    <2>2. CASE i > a
      <3>1. i - a \in 1..n /\ ~(i <= a) /\ a + (i - a) = i
        BY <2>2
      <3> QED
        BY <1>1, <1>2, <1>3, <3>1
    <2>3. i <= a \/ i > a
      OBVIOUS
    <2> QED
      BY <2>1, <2>2, <2>3
  <1>5. c \o x = d
    BY <1>1, <1>3, <1>4, SeqEqual
  <1> QED
    BY <1>5 DEF c, x, d

Byte == 1..MaxRx

RxTypes ==
    /\ rx_buf \in Seq(Seq(Byte)) /\ received \in Seq(Byte) /\ arrived \in 0..MaxRx
    /\ rx_buf_offset \in Nat /\ wnd \in 0..Wnd /\ _pcb \in BOOLEAN

\* No pbuf of the chain is empty, and the offset lies in the first one.
Chain ==
    /\ \A k \in 1..Len(rx_buf) : Len(rx_buf[k]) \in 1..MaxRx
    /\ rx_buf_offset = 0 \/ (rx_buf # <<>> /\ rx_buf_offset < Len(Head(rx_buf)))

\* A new context has received nothing, and a read never wants more than is there.
Within ==
    /\ pc = "new" => rx_buf = <<>> /\ wnd = Wnd
    /\ pc = "read" => want \in 1..getSize

RxInv == RxTypes /\ Chain /\ Within /\ NothingLost /\ WindowConserved

\* What getSize counts is what can still be read.
LEMMA Contents ==
    ASSUME RxTypes, Chain
    PROVE  /\ FlattenSeq(rx_buf) \in Seq(Byte) /\ Unread \in Seq(Byte)
           /\ getSize \in Nat /\ Len(Unread) = getSize
           /\ rx_buf_offset \in 0..Len(FlattenSeq(rx_buf))
           /\ rx_buf = <<>> => getSize = 0 /\ Unread = <<>> /\ FlattenSeq(rx_buf) = <<>>
           /\ rx_buf # <<>> => getSize > 0
  <1> DEFINE F == FlattenSeq(rx_buf)
  <1>1. rx_buf \in Seq(Seq(Byte)) /\ rx_buf_offset \in Nat
    BY DEF RxTypes
  <1>2. F \in Seq(Byte) /\ Len(F) \in Nat
    BY <1>1, FlattenType, LenProperties
  <1>3. Unread = Behind(F, rx_buf_offset) /\ getSize = Len(F) - rx_buf_offset
    BY DEF Unread, getSize, Behind
  <1>4. rx_buf_offset \in 0..Len(F) /\ (rx_buf # <<>> => rx_buf_offset < Len(F))
    <2>1. CASE rx_buf = <<>>
      BY <1>1, <1>2, <2>1 DEF Chain
    <2>2. CASE rx_buf # <<>>
      <3>1. /\ Head(rx_buf) \in Seq(Byte) /\ Tail(rx_buf) \in Seq(Seq(Byte))
            /\ F = Head(rx_buf) \o FlattenSeq(Tail(rx_buf))
        BY <1>1, <2>2, HeadTailProperties, FlattenHead
      <3> DEFINE h == Head(rx_buf)
                 t == FlattenSeq(Tail(rx_buf))
      <3>2. t \in Seq(Byte)
        BY <3>1, FlattenType
      <3>3. rx_buf_offset < Len(h)
        <4>1. 1 \in 1..Len(rx_buf) /\ Head(rx_buf) = rx_buf[1]
          BY <1>1, <2>2, EmptySeq
        <4>2. Len(h) \in 1..MaxRx
          BY <4>1 DEF Chain
        <4> QED
          BY <4>2, BoundAssumption DEF Chain
      <3>4. h \in Seq(Byte) /\ F = h \o t
        BY <3>1
      <3> HIDE DEF h, t, F
      <3>5. Len(F) = Len(h) + Len(t) /\ Len(h) \in Nat /\ Len(t) \in Nat
        BY <3>2, <3>4, ConcatProperties, LenProperties
      <3> QED
        BY <1>1, <3>3, <3>5
    <2> QED
      BY <2>1, <2>2
  <1>5. Unread \in Seq(Byte) /\ Len(Unread) = getSize
    BY <1>2, <1>3, <1>4, BehindType
  <1>6. getSize \in Nat /\ (rx_buf # <<>> => getSize > 0)
    BY <1>1, <1>2, <1>3, <1>4
  <1>7. rx_buf = <<>> => getSize = 0 /\ Unread = <<>> /\ F = <<>>
    <2> SUFFICES ASSUME rx_buf = <<>> PROVE getSize = 0 /\ Unread = <<>> /\ F = <<>>
      OBVIOUS
    <2>1. F = <<>> /\ Len(F) = 0
      BY FlattenEmpty
    <2>2. getSize = 0
      BY <1>1, <1>3, <1>4, <2>1
    <2> HIDE DEF F
    <2> QED
      BY <1>5, <2>1, <2>2, EmptySeq
  <1> QED
    BY <1>2, <1>4, <1>5, <1>6, <1>7

\* A step that leaves alone what has been received.
LEMMA RxKept ==
    ASSUME RxInv, UNCHANGED <<rxVars, rxHist>>, wnd' \in 0..Wnd, _pcb' \in BOOLEAN,
           _pcb' => wnd' + getSize = Wnd,
           pc' = "new" => pc = "new" /\ wnd' = wnd,
           pc' = "read" => pc = "read" /\ want' = want,
           pc' # "deleted" => pc # "deleted"
    PROVE  RxInv'
  <1>1. UNCHANGED <<rx_buf, rx_buf_offset, arrived, received>>
    BY DEF rxVars, rxHist
  <1>2. getSize' = getSize /\ Unread' = Unread
    BY <1>1 DEF getSize, Unread
  <1>3. RxTypes' /\ Chain'
    BY <1>1 DEF RxInv, RxTypes, Chain
  <1>4. Within'
    BY <1>1, <1>2 DEF RxInv, Within
  <1>5. NothingLost' /\ WindowConserved'
    BY <1>1, <1>2 DEF RxInv, NothingLost, WindowConserved
  <1> QED
    BY <1>3, <1>4, <1>5 DEF RxInv

\* The context goes, and what it held with it.
LEMMA RxDiscarded ==
    ASSUME RxInv, Release, rx_buf' = <<>>, rx_buf_offset' = 0, UNCHANGED rxHist, pc' = "deleted"
    PROVE  RxInv'
  <1>1. UNCHANGED <<arrived, received>> /\ _pcb' = FALSE /\ wnd' = Wnd
    BY DEF rxHist, Release, Freed
  <1>2. rx_buf' \in Seq(Seq(Byte)) /\ Len(rx_buf') = 0 /\ Wnd \in 0..Wnd
    BY BufferAssumption
  <1>3. RxTypes'
    BY <1>1, <1>2 DEF RxInv, RxTypes
  <1>4. Chain'
    <2>1. 1..Len(rx_buf') = {}
      BY <1>2
    <2> QED
      BY <2>1 DEF Chain
  <1> QED
    BY <1>1, <1>3, <1>4 DEF RxInv, Within, NothingLost, WindowConserved

\* _recv: the pbuf joins the chain.
LEMMA ReceivedStep ==
    ASSUME RxInv, NEW n \in 1..Wnd, Received(n)
    PROVE  RxInv'
  <1> DEFINE x == [i \in 1..n |-> arrived + i]
             F == FlattenSeq(rx_buf)
  <1>1. /\ AtYield /\ _pcb /\ n <= wnd /\ arrived + n <= MaxRx /\ wnd' = wnd - n
        /\ rx_buf' = Append(rx_buf, x) /\ arrived' = arrived + n
        /\ rx_buf_offset' = IF rx_buf = <<>> THEN 0 ELSE rx_buf_offset
        /\ UNCHANGED <<received, _pcb, pc>>
    BY DEF Received
  <1>2. /\ rx_buf \in Seq(Seq(Byte)) /\ received \in Seq(Byte) /\ arrived \in Nat
        /\ wnd \in 0..Wnd /\ n \in Nat /\ n >= 1 /\ MaxRx \in Nat /\ Wnd \in Nat
    BY BufferAssumption, BoundAssumption DEF RxInv, RxTypes
  <1>3. x \in Seq(Byte) /\ Len(x) = n
    BY <1>1, <1>2, NextType DEF Byte
  <1>4. rx_buf_offset' = rx_buf_offset
    BY <1>1 DEF RxInv, Chain
  <1>5. /\ F \in Seq(Byte) /\ Unread \in Seq(Byte) /\ getSize \in Nat
        /\ rx_buf_offset \in 0..Len(F)
        /\ getSize = Len(F) - rx_buf_offset /\ Unread = Behind(F, rx_buf_offset)
        /\ Len(F) \in Nat /\ rx_buf_offset \in Nat
    BY Contents, LenProperties DEF RxInv, getSize, Unread, Behind, RxTypes
  <1>j. received \o Unread = Counted(arrived) /\ wnd + getSize = Wnd
    BY <1>1 DEF RxInv, NothingLost, WindowConserved, AtYield, Counted
  <1>c. Counted(arrived) \o x = Counted(arrived + n)
    BY <1>1, <1>2, CountsOn
  <1> HIDE DEF x
  <1>6. FlattenSeq(rx_buf') = F \o x
    BY <1>1, <1>2, <1>3, FlattenAppend
  <1> HIDE DEF F
  <1>7. Len(F \o x) = Len(F) + n
    BY <1>3, <1>5, ConcatProperties
  <1>8. getSize' = getSize + n
    <2>1. getSize' = Len(F \o x) - rx_buf_offset
      BY <1>4, <1>6 DEF getSize
    <2> QED
      BY <1>2, <1>5, <1>7, <2>1
  <1>9. Unread' = Unread \o x
    <2>1. Unread' = Behind(F \o x, rx_buf_offset)
      BY <1>4, <1>6 DEF Unread, Behind
    <2>2. Behind(F \o x, rx_buf_offset) = Behind(F, rx_buf_offset) \o x
      <3>1. F \in Seq(Byte) /\ x \in Seq(Byte) /\ rx_buf_offset \in 0..Len(F)
        BY <1>3, <1>5
      <3> QED
        BY ONLY <3>1, BehindConcat
    <2> QED
      BY <1>5, <2>1, <2>2
  <1>10. RxTypes'
    <2>1. Append(rx_buf, x) \in Seq(Seq(Byte))
      BY <1>2, <1>3, AppendProperties
    <2>2. arrived' \in 0..MaxRx /\ wnd' \in 0..Wnd
      BY <1>1, <1>2
    <2> QED
      BY <1>1, <1>4, <2>1, <2>2 DEF RxInv, RxTypes
  <1>11. Chain'
    <2>1. /\ Len(rx_buf') = Len(rx_buf) + 1 /\ rx_buf'[Len(rx_buf) + 1] = x /\ rx_buf' # <<>>
          /\ (\A k \in 1..Len(rx_buf) : rx_buf'[k] = rx_buf[k]) /\ Len(rx_buf) \in Nat
      BY SMTT(30), <1>1, <1>2, <1>3, AppendProperties, LenProperties
    <2>2. ASSUME NEW k \in 1..Len(rx_buf') PROVE Len(rx_buf'[k]) \in 1..MaxRx
      <3>1. CASE k = Len(rx_buf) + 1
        BY <1>1, <1>2, <1>3, <2>1, <3>1
      <3>2. CASE k # Len(rx_buf) + 1
        <4>1. k \in 1..Len(rx_buf)
          BY <2>1, <3>2
        <4> QED
          BY <2>1, <4>1 DEF RxInv, Chain
      <3> QED
        BY <3>1, <3>2
    <2>3. rx_buf_offset' = 0 \/ (rx_buf' # <<>> /\ rx_buf_offset' < Len(Head(rx_buf')))
      <3>1. CASE rx_buf = <<>>
        <4>1. rx_buf_offset' = 0
          BY <1>1, <3>1
        <4> QED
          BY <4>1
      <3>2. CASE rx_buf # <<>>
        <4>1. Head(rx_buf') = Head(rx_buf)
          BY <1>1, <1>2, <3>2, HeadTailAppend
        <4> QED
          BY <1>4, <2>1, <4>1 DEF RxInv, Chain
      <3> QED
        BY <3>1, <3>2
    <2> QED
      BY <2>2, <2>3 DEF Chain
  <1>12. NothingLost'
    <2>1. (received \o Unread) \o x = received \o (Unread \o x)
      <3>1. received \in Seq(Byte) /\ Unread \in Seq(Byte) /\ x \in Seq(Byte)
        BY <1>2, <1>3, <1>5
      <3> DEFINE u == Unread
      <3> HIDE DEF u
      <3>2. (received \o u) \o x = received \o (u \o x)
        BY ONLY SMTT(30), <3>1, ConcatAssociative DEF u
      <3> QED
        BY <3>2 DEF u
    <2>2. received' \o Unread' = Counted(arrived')
      BY <1>1, <1>9, <1>j, <1>c, <2>1
    <2> QED
      BY <2>2 DEF NothingLost, Counted
  <1>13. WindowConserved' /\ Within'
    <2>1. wnd' + getSize' = Wnd
      <3>1. getSize \in Nat /\ wnd + getSize = Wnd
        BY <1>5, <1>j
      <3> HIDE <1>5
      <3> QED
        BY <1>1, <1>2, <1>8, <3>1
    <2>2. pc' # "new" /\ pc' # "read"
      BY <1>1 DEF AtYield
    <2> QED
      BY <2>1, <2>2 DEF WindowConserved, Within
  <1> QED
    BY <1>10, <1>11, <1>12, <1>13 DEF RxInv

\* One turn of a read: the piece that is copied is what Unread begins with, and
\* as many bytes are credited to the window.
LEMMA ReadPieceStep == RxInv /\ ReadPiece => RxInv'
  <1> SUFFICES ASSUME RxInv, ReadPiece PROVE RxInv'
    OBVIOUS
  <1> DEFINE h  == Head(rx_buf)
             t  == FlattenSeq(Tail(rx_buf))
             o  == rx_buf_offset
             l  == Len(Head(rx_buf))
             c  == IF want < l - o THEN want ELSE l - o
             s  == SubSeq(h, o + 1, o + c)
  <1>0. /\ rx_buf \in Seq(Seq(Byte)) /\ received \in Seq(Byte) /\ arrived \in 0..MaxRx
        /\ wnd \in 0..Wnd /\ o \in Nat /\ pc = "read" /\ _pcb \in BOOLEAN /\ MaxRx \in Nat /\ Wnd \in Nat
    BY BufferAssumption, BoundAssumption DEF RxInv, RxTypes, ReadPiece
  <1>1. /\ received' = received \o s /\ consume(c) /\ want' = want - c
        /\ pc' = IF want' = 0 THEN "idle" ELSE "read"
        /\ UNCHANGED <<_pcb, arrived>>
    BY DEF ReadPiece
  <1>2. /\ want \in Nat /\ want >= 1 /\ want <= getSize /\ getSize \in Nat
        /\ rx_buf # <<>> /\ Unread \in Seq(Byte)
    <2>1. want \in 1..getSize
      BY <1>0 DEF RxInv, Within
    <2>2. getSize \in Nat /\ Unread \in Seq(Byte) /\ (rx_buf = <<>> => getSize = 0)
      BY Contents DEF RxInv
    <2> QED
      BY <2>1, <2>2
  <1>3. /\ h \in Seq(Byte) /\ Tail(rx_buf) \in Seq(Seq(Byte)) /\ h = rx_buf[1]
        /\ Len(Tail(rx_buf)) = Len(rx_buf) - 1 /\ Len(rx_buf) \in Nat /\ Len(rx_buf) >= 1
        /\ \A k \in 1..Len(Tail(rx_buf)) : Tail(rx_buf)[k] = rx_buf[k + 1]
    BY <1>0, <1>2, HeadTailProperties, EmptySeq
  <1>4. t \in Seq(Byte) /\ FlattenSeq(rx_buf) = h \o t
    BY <1>0, <1>2, <1>3, FlattenType, FlattenHead
  <1>5. l \in Nat /\ o < l /\ l <= MaxRx
    <2>1. 1 \in 1..Len(rx_buf)
      BY <1>3
    <2>2. l \in 1..MaxRx
      BY <1>3, <2>1 DEF RxInv, Chain
    <2> QED
      BY <1>0, <2>2 DEF RxInv, Chain
  <1>6. c \in Nat /\ c >= 1 /\ c <= want /\ o + c <= l /\ (c = want \/ o + c = l)
    <2> HIDE DEF l
    <2>1. CASE want < l - o
      BY <1>0, <1>2, <1>5, <2>1
    <2>2. CASE ~(want < l - o)
      BY <1>0, <1>2, <1>5, <2>2
    <2> QED
      BY <2>1, <2>2
  <1>7. /\ IF _pcb THEN tcp_recved(c) ELSE UNCHANGED wnd
        /\ IF l - o - c > 0 THEN rx_buf_offset' = o + c /\ rx_buf' = rx_buf
                            ELSE rx_buf_offset' = 0 /\ rx_buf' = Tail(rx_buf)
    BY <1>1 DEF consume
  <1> HIDE DEF c
  <1>8. s \in Seq(Byte) /\ Behind(h, o) = s \o Behind(h, o + c)
    <2>1. \A i \in o + 1..o + c : h[i] \in Byte
      BY <1>0, <1>3, <1>5, <1>6, ElementOfSeq
    <2>2. o + 1 \in Int /\ o + c \in Int /\ o \in Nat /\ o + c \in Nat /\ o <= o + c /\ o + c <= Len(h)
      BY <1>0, <1>5, <1>6
    <2>3. s \in Seq(Byte)
      BY <2>1, <2>2, SubSeqProperties
    <2> DEFINE b == o + c
    <2>4. Behind(h, o) = SubSeq(h, o + 1, b) \o Behind(h, b)
      <3>1. h \in Seq(Byte) /\ o \in Nat /\ b \in Nat /\ o <= b /\ b <= Len(h)
        BY <1>3, <2>2
      <3> HIDE DEF b
      <3> QED
        BY ONLY <3>1, BehindSplits
    <2> QED
      BY <2>3, <2>4
  <1>9. /\ Unread = Behind(h, o) \o t
        /\ getSize = l + Len(t) - o /\ Len(t) \in Nat
    <2>1. h \in Seq(Byte) /\ t \in Seq(Byte) /\ o \in 0..Len(h)
      BY <1>0, <1>3, <1>4, <1>5
    <2>2. Len(t) \in Nat /\ Len(h \o t) = l + Len(t)
      <3> HIDE DEF t
      <3> QED
        BY <2>1, LenProperties, ConcatProperties
    <2>3. Behind(h \o t, o) = Behind(h, o) \o t
      <3> HIDE DEF h, t, o
      <3> QED
        BY ONLY <2>1, BehindConcat
    <2>4. Unread = Behind(h \o t, o) /\ getSize = Len(h \o t) - o
      BY <1>4 DEF Unread, getSize, Behind
    <2>5. Unread = Behind(h, o) \o t
      BY ONLY <2>3, <2>4, Zenon
    <2>6. getSize = l + Len(t) - o
      <3> HIDE DEF l, t
      <3> DEFINE n == Len(t)
      <3>1. n \in Nat /\ getSize = (l + n) - o
        BY <2>2, <2>4
      <3> HIDE DEF n
      <3>2. getSize = l + n - o
        BY <1>0, <1>5, <3>1
      <3> QED
        BY <3>2 DEF n
    <2> QED
      BY <2>2, <2>5, <2>6
  <1>10. \* what is left
         /\ Unread' = Behind(h, o + c) \o t /\ getSize' = l + Len(t) - (o + c)
         /\ rx_buf' \in Seq(Seq(Byte)) /\ rx_buf_offset' \in Nat /\ Chain'
    <2>1. CASE l - o - c > 0
      <3>1. rx_buf_offset' = o + c /\ rx_buf' = rx_buf /\ o + c \in Nat /\ o + c < l
        BY <1>0, <1>5, <1>6, <1>7, <2>1
      <3>2. Unread' = Behind(h \o t, o + c) /\ getSize' = Len(h \o t) - (o + c)
        BY <1>4, <3>1 DEF Unread, getSize, Behind
      <3>3. h \in Seq(Byte) /\ t \in Seq(Byte) /\ o + c \in 0..Len(h)
        BY <1>3, <1>4, <1>5, <3>1
      <3>4. Behind(h \o t, o + c) = Behind(h, o + c) \o t
        <4> DEFINE b == o + c
        <4>1. b \in 0..Len(h)
          BY <3>3
        <4> HIDE DEF h, t, b
        <4>2. Behind(h \o t, b) = Behind(h, b) \o t
          BY ONLY <3>3, <4>1, BehindConcat
        <4> QED
          BY <4>2 DEF b
      <3>5. Len(h \o t) = l + Len(t)
        <4> HIDE DEF t
        <4> QED
          BY <3>3, ConcatProperties
      <3>6. Chain'
        <4>1. \A k \in 1..Len(rx_buf) : Len(rx_buf[k]) \in 1..MaxRx
          BY DEF RxInv, Chain
        <4>2. \A k \in 1..Len(rx_buf') : Len(rx_buf'[k]) \in 1..MaxRx
          BY <3>1, <4>1
        <4>3. rx_buf' # <<>> /\ rx_buf_offset' < Len(Head(rx_buf'))
          BY <1>2, <3>1
        <4> QED
          BY <4>2, <4>3 DEF Chain
      <3> QED
        BY SMTT(30), <1>0, <3>1, <3>2, <3>4, <3>5, <3>6
    <2>2. CASE ~(l - o - c > 0)
      <3>1. rx_buf_offset' = 0 /\ rx_buf' = Tail(rx_buf) /\ o + c = l
        BY <1>0, <1>5, <1>6, <1>7, <2>2
      <3>2. Unread' = SubSeq(t, 1, Len(t)) /\ getSize' = Len(t)
        <4>1. Unread' = SubSeq(t, 0 + 1, Len(t)) /\ getSize' = Len(t) - 0
          BY <3>1 DEF Unread, getSize
        <4> QED
          BY <1>9, <4>1
      <3>3. SubSeq(t, 1, Len(t)) = t
        BY <1>4, SubSeqFull
      <3>4. Behind(h, o + c) = <<>> /\ <<>> \o t = t
        <4>1. Len(h) < Len(h) + 1 /\ Len(h) \in Int /\ Len(h) + 1 \in Int
          BY <1>5
        <4>2. SubSeq(h, Len(h) + 1, Len(h)) = <<>>
          BY <4>1, SubSeqEmpty
        <4>3. <<>> \o t = t
          BY <1>4, ConcatEmptySeq
        <4> QED
          BY <3>1, <4>2, <4>3 DEF Behind
      <3>5. Chain'
        <4>1. ASSUME NEW k \in 1..Len(Tail(rx_buf)) PROVE Len(Tail(rx_buf)[k]) \in 1..MaxRx
          <5>1. k + 1 \in 1..Len(rx_buf) /\ Tail(rx_buf)[k] = rx_buf[k + 1]
            BY <1>3
          <5> DEFINE j == k + 1
          <5>2. j \in 1..Len(rx_buf)
            BY <5>1
          <5> HIDE DEF j
          <5>3. Len(rx_buf[j]) \in 1..MaxRx
            BY <5>2 DEF RxInv, Chain
          <5> QED
            BY <5>1, <5>3 DEF j
        <4> QED
          BY <3>1, <4>1 DEF Chain
      <3>6. getSize' = l + Len(t) - (o + c)
        BY <1>5, <1>9, <3>1, <3>2
      <3> QED
        BY <1>3, <3>1, <3>2, <3>3, <3>4, <3>5, <3>6
    <2> QED
      BY <2>1, <2>2
  <1>11. getSize' = getSize - c
    BY <1>0, <1>5, <1>6, <1>9, <1>10
  <1>12. RxTypes'
    <2>1. received' \in Seq(Byte)
      BY <1>0, <1>1, <1>8, ConcatProperties
    <2>2. wnd' \in 0..Wnd
      BY <1>0, <1>6, <1>7 DEF tcp_recved
    <2> QED
      BY <1>0, <1>1, <1>10, <2>1, <2>2 DEF RxTypes
  <1>13. WindowConserved'
    <2> SUFFICES ASSUME _pcb PROVE wnd' + getSize' = Wnd
      BY <1>1 DEF WindowConserved
    <2>1. wnd + getSize = Wnd
      BY DEF RxInv, WindowConserved
    <2>2. wnd + c <= Wnd
      BY <1>0, <1>2, <1>6, <2>1
    <2>3. wnd' = wnd + c
      BY <1>0, <1>6, <1>7, <2>2 DEF tcp_recved
    <2> HIDE DEF getSize
    <2> QED
      BY <1>0, <1>2, <1>6, <1>11, <2>1, <2>3
  <1>14. Within'
    <2>1. pc' = "read" => want' # 0
      BY <1>1
    <2>2. want' \in Nat /\ want' <= getSize'
      BY <1>1, <1>2, <1>6, <1>11
    <2>3. want' # 0 => want' \in 1..getSize'
      BY <1>2, <1>6, <1>11, <2>2
    <2> QED
      BY <1>1, <2>1, <2>3 DEF Within
  <1>15. NothingLost'
    <2> DEFINE u == Behind(h, o + c)
    <2>1. h \in Seq(Byte) /\ o + c \in 0..Len(h)
      BY <1>0, <1>3, <1>5, <1>6
    <2>2. u \in Seq(Byte)
      BY <2>1, BehindType
    <2>3. received \o Unread = Counted(arrived)
      BY <1>0 DEF RxInv, NothingLost, Counted
    <2> HIDE DEF u, s, t
    <2>4. received \o ((s \o u) \o t) = (received \o s) \o (u \o t)
      <3>1. s \in Seq(Byte) /\ u \in Seq(Byte) /\ t \in Seq(Byte) /\ received \in Seq(Byte)
        BY <1>0, <1>4, <1>8, <2>2
      <3>2. (s \o u) \o t = s \o (u \o t) /\ u \o t \in Seq(Byte)
        BY ONLY SMTT(30), <3>1, ConcatAssociative, ConcatProperties
      <3> DEFINE v == u \o t
      <3>3. v \in Seq(Byte)
        BY <3>2
      <3> HIDE DEF v
      <3>4. received \o (s \o v) = (received \o s) \o v
        BY ONLY SMTT(30), <3>1, <3>3, ConcatAssociative
      <3> QED
        BY <3>2, <3>4 DEF v
    <2>5. received' \o Unread' = Counted(arrived')
      BY <1>1, <1>8, <1>9, <1>10, <2>3, <2>4 DEF u
    <2> QED
      BY <2>5 DEF NothingLost, Counted
  <1> QED
    BY <1>10, <1>12, <1>13, <1>14, <1>15 DEF RxInv

\* Steps of the sketch and of lwIP's sending side: what has been received, the
\* window and the control block stay.
LEMMA RxQuiet ==
    ASSUME RxInv, UNCHANGED <<rxVars, rxHist, wnd, _pcb>>, pc # "deleted",
           pc' \notin {"new", "read"}
    PROVE  RxInv'
  <1>1. wnd' = wnd /\ _pcb' = _pcb /\ UNCHANGED <<rxVars, rxHist>>
    OBVIOUS
  <1>2. wnd' \in 0..Wnd /\ _pcb' \in BOOLEAN /\ (_pcb' => wnd' + getSize = Wnd)
    BY <1>1 DEF RxInv, RxTypes, WindowConserved
  <1> QED
    BY <1>1, <1>2, RxKept

\* The control block goes; what was received stays.
LEMMA RxReleased ==
    ASSUME RxInv, UNCHANGED <<rxVars, rxHist>>, Release, pc # "deleted",
           pc' \notin {"new", "read"}
    PROVE  RxInv'
  <1>1. wnd' \in 0..Wnd /\ _pcb' = FALSE
    BY BufferAssumption DEF Release, Freed
  <1> QED
    BY <1>1, RxKept

LEMMA ReadBeginStep ==
    ASSUME RxInv, NEW n \in 1..MaxRx, ReadBegin(n)
    PROVE  RxInv'
  <1>1. /\ pc = "idle" /\ pc' = "read" /\ getSize > 0
        /\ want' = IF n < getSize THEN n ELSE getSize
        /\ UNCHANGED <<wnd, _pcb, rx_buf, rx_buf_offset, arrived, received>>
    BY DEF ReadBegin, lwipVars, rxVars, rxHist
  <1>2. getSize \in Nat /\ n \in Nat /\ n >= 1
    BY Contents, BoundAssumption DEF RxInv
  <1>3. getSize' = getSize /\ Unread' = Unread
    BY <1>1 DEF getSize, Unread
  <1> HIDE DEF getSize
  <1>4. want' \in 1..getSize'
    BY <1>1, <1>2, <1>3
  <1> QED
    BY <1>1, <1>3, <1>4
       DEF RxInv, RxTypes, Chain, Within, NothingLost, WindowConserved

\* The context gets its control block: the window is whole, nothing is held.
LEMMA RxOpens ==
    ASSUME RxInv, Accepted \/ ConnectBegin
    PROVE  RxInv'
  <1>1. /\ pc = "new" /\ pc' \in {"idle", "connecting"} /\ _pcb' = TRUE /\ wnd' = wnd
        /\ UNCHANGED <<rxVars, rxHist>>
    BY DEF Accepted, ConnectBegin
  <1>2. wnd = Wnd /\ getSize = 0 /\ Wnd \in Nat
    BY <1>1, Contents, BufferAssumption DEF RxInv, Within
  <1>3. wnd' \in 0..Wnd /\ _pcb' \in BOOLEAN /\ wnd' + getSize = Wnd
    BY <1>1, <1>2
  <1> QED
    BY <1>1, <1>3, RxKept

LEMMA RxInit == Init => RxInv
  <1> SUFFICES ASSUME Init PROVE RxInv
    OBVIOUS
  <1>1. /\ rx_buf = <<>> /\ rx_buf_offset = 0 /\ wnd = Wnd /\ _pcb = FALSE /\ pc = "new"
        /\ arrived = 0 /\ received = <<>>
    BY DEF Init
  <1>2. rx_buf \in Seq(Seq(Byte)) /\ Len(rx_buf) = 0 /\ received \in Seq(Byte) /\ 1..Len(rx_buf) = {}
    BY <1>1
  <1>3. RxTypes /\ Chain
    <2>1. 0 \in 0..MaxRx /\ Wnd \in 0..Wnd /\ 0 \in Nat
      BY BufferAssumption, BoundAssumption
    <2>2. arrived \in 0..MaxRx /\ wnd \in 0..Wnd /\ rx_buf_offset \in Nat
      BY <1>1, <2>1, Zenon
    <2>3. _pcb \in BOOLEAN
      BY <1>1, Zenon
    <2>4. RxTypes
      BY <1>2, <2>2, <2>3, Zenon DEF RxTypes
    <2>5. Chain
      BY <1>1, <1>2, Zenon DEF Chain
    <2> QED
      BY <2>4, <2>5
  <1>4. Unread = <<>>
    BY <1>1, <1>3, Contents
  <1>5. received \o Unread = [i \in 1..arrived |-> i]
    <2>1. Counted(0) \in Seq(1..0) /\ Len(Counted(0)) = 0
      BY CountedType
    <2>2. Counted(0) = <<>>
      BY <2>1, EmptySeq
    <2>3. <<>> \o <<>> = <<>>
      <3>1. <<>> \in Seq(Byte)
        BY <1>1, <1>2
      <3> QED
        BY <3>1, ConcatEmptySeq
    <2> QED
      BY <1>1, <1>4, <2>2, <2>3 DEF Counted
  <1> QED
    BY <1>1, <1>3, <1>5 DEF RxInv, Within, NothingLost, WindowConserved

LEMMA RxStep == RxInv /\ [Next]_vars => RxInv'
  <1> SUFFICES ASSUME RxInv, [Next]_vars PROVE RxInv'
    OBVIOUS
  <1>1. CASE Connected
    BY <1>1, RxQuiet DEF Connected, AtYield
  <1>2. CASE PeerClosed
    <2>1. pc # "deleted" /\ pc' \notin {"new", "read"} /\ UNCHANGED <<rxVars, rxHist>>
      BY <1>2 DEF PeerClosed, AtYield
    <2>2. CASE rx_buf # <<>>
      BY <1>2, <2>1, <2>2, RxQuiet DEF PeerClosed
    <2>3. CASE rx_buf = <<>>
      BY <1>2, <2>1, <2>3, RxReleased DEF PeerClosed
    <2> QED
      BY <2>2, <2>3
  <1>3. CASE Error
    BY <1>3, RxReleased DEF Error, AtYield
  <1>4. CASE Poll
    BY <1>4, RxQuiet DEF Poll, AtYield, lwipVars
  <1>5. CASE \E n \in 1..Wnd : Received(n)
    BY <1>5, ReceivedStep
  <1>6. CASE \E n \in 1..SndBuf : Acked(n)
    BY <1>6, RxQuiet DEF Acked, AtYield
  <1>7. CASE TimerFires
    BY <1>7, RxQuiet DEF TimerFires, lwipVars
  <1>8. CASE Accepted \/ ConnectBegin
    BY <1>8, RxOpens
  <1>9. CASE ConnectFails
    BY <1>9, RxQuiet DEF ConnectFails, lwipVars
  <1>10. CASE ConnectReturn
    <2>1. CASE state = "ESTABLISHED"
      BY <1>10, <2>1, RxQuiet DEF ConnectReturn, lwipVars
    <2>2. CASE state # "ESTABLISHED"
      BY <1>10, <2>2, RxDiscarded DEF ConnectReturn
    <2> QED
      BY <2>1, <2>2
  <1>11. CASE \E n \in 1..MaxRx : ReadBegin(n)
    BY <1>11, ReadBeginStep
  <1>12. CASE ReadPiece
    BY <1>12, ReadPieceStep
  <1>13. CASE \E n \in 1..MaxTx : WriteBegin(n)
    BY <1>13, RxQuiet DEF WriteBegin, lwipVars
  <1>14. CASE WriteSome
    <2>1. /\ pc = "write" /\ pc' \in {"idle", "flush", "waiting"}
          /\ UNCHANGED <<rxVars, rxHist, wnd, _pcb>>
      BY <1>14 DEF WriteSome, WriteOver, WriteWaits, FlushBegin
    <2> QED
      BY <2>1, RxQuiet
  <1>15. CASE WriteWakes
    BY <1>15, RxQuiet DEF WriteWakes, lwipVars
  <1>16. CASE \E from \in {"flush", "stop"} : Flush(from)
    BY <1>16, RxQuiet DEF Flush, FlushBegin, lwipVars
  <1>17. CASE FlushTurn
    BY <1>17, RxQuiet DEF FlushTurn, FlushReturn, lwipVars
  <1>18. CASE FlushResume
    BY <1>18, RxQuiet DEF FlushResume, FlushReturn, lwipVars
  <1>19. CASE Close
    <2>1. pc = "close" /\ pc' = "idle" /\ UNCHANGED <<rxVars, rxHist>>
      BY <1>19 DEF Close
    <2>2. CASE _pcb
      BY <1>19, <2>1, <2>2, RxReleased DEF Close
    <2>3. CASE ~_pcb
      BY <1>19, <2>1, <2>3, RxQuiet DEF Close, lwipVars
    <2> QED
      BY <2>2, <2>3
  <1>20. CASE Unref
    BY <1>20, RxDiscarded DEF Unref
  <1>21. CASE UNCHANGED vars
    <2>1. UNCHANGED <<rxVars, rxHist, wnd, _pcb, pc, want>>
      BY <1>21 DEF vars, lwipVars
    <2>2. wnd' \in 0..Wnd /\ _pcb' \in BOOLEAN /\ (_pcb' => wnd' + getSize = Wnd)
      BY <2>1 DEF RxInv, RxTypes, WindowConserved
    <2> QED
      BY <2>1, <2>2, RxKept
  <1> QED
    BY <1>1, <1>2, <1>3, <1>4, <1>5, <1>6, <1>7, <1>8, <1>9, <1>10, <1>11, <1>12, <1>13, <1>14,
       <1>15, <1>16, <1>17, <1>18, <1>19, <1>20, <1>21 DEF Next, lwIP, Sketch, Running

LEMMA RxAlways == Spec => []RxInv
  BY RxInit, RxStep, PTL DEF Spec

\* Every byte that has arrived has been read or can still be, once and in
\* order, over pbufs and reads of any size (_recv, read, _consume).
THEOREM NothingIsLost == Spec => []NothingLost
  <1>1. RxInv => NothingLost
    BY DEF RxInv
  <1> QED
    BY <1>1, RxAlways, PTL

\* The peer's window and the bytes held for the sketch make up TCP_WND (_recv,
\* _consume).
THEOREM WindowIsConserved == Spec => []WindowConserved
  <1>1. RxInv => WindowConserved
    BY DEF RxInv
  <1> QED
    BY <1>1, RxAlways, PTL

-----------------------------------------------------------------------------
(* Types, and the bounds of the model.                                     *)

Flags ==
    /\ send_waiting \in BOOLEAN /\ connect_pending \in BOOLEAN /\ sync \in BOOLEAN
    /\ expired \in BOOLEAN /\ starved \in BOOLEAN

Labels ==
    /\ tcp \in {"CLOSED", "SYN_SENT", "ESTABLISHED", "CLOSE_WAIT", "GONE"}
    /\ pc \in {"new", "idle", "connecting", "read", "write", "waiting", "flush", "flushDelay", "close", "deleted"}
    /\ then \in {"none", "write", "flush", "stop"}

Numbers == want \in 0..MaxRx /\ sndbuf \in 0..SndBuf

\* lwIP has accepted no more than the sketch has given.
Given == asked <= MaxTx /\ accepted \in Seq(1..MaxTx) /\ Len(accepted) <= Taken

AllInv == TxInv /\ RxInv /\ Flags /\ Labels /\ Numbers /\ Given

LEMMA FlagsStep == Flags /\ [Next]_vars => Flags'
  <1> SUFFICES ASSUME Flags, [Next]_vars PROVE Flags'
    OBVIOUS
  <1> USE DEF Flags, lwipVars, rxVars, txVars, flushVars, rxHist, txHist, notify_error,
              write_some_from_cb
  <1>1. CASE \/ Connected \/ PeerClosed \/ Error \/ Poll \/ TimerFires
             \/ (\E n \in 1..Wnd : Received(n)) \/ (\E n \in 1..SndBuf : Acked(n))
    BY <1>1 DEF Connected, PeerClosed, Error, Poll, TimerFires, Received, Acked
  <1>2. CASE \/ Accepted \/ ConnectBegin \/ ConnectFails \/ ConnectReturn \/ ReadPiece
             \/ (\E n \in 1..MaxRx : ReadBegin(n))
    BY <1>2 DEF Accepted, ConnectBegin, ConnectFails, ConnectReturn, ReadPiece, ReadBegin
  <1>3. CASE \/ WriteWakes \/ FlushTurn \/ FlushResume \/ Close \/ Unref
             \/ (\E n \in 1..MaxTx : WriteBegin(n)) \/ \E from \in {"flush", "stop"} : Flush(from)
    BY <1>3 DEF WriteWakes, FlushTurn, FlushResume, Close, Unref, WriteBegin, Flush, FlushBegin,
                FlushReturn
  <1>4. CASE WriteSome
    <2>1. starved' \in BOOLEAN /\ UNCHANGED <<connect_pending, sync>>
      BY <1>4 DEF WriteSome, tcp_write
    <2>2. send_waiting' \in BOOLEAN /\ expired' \in BOOLEAN
      BY <1>4 DEF WriteSome, WriteOver, WriteWaits, FlushBegin
    <2> QED
      BY <2>1, <2>2
  <1>5. CASE UNCHANGED vars
    BY <1>5 DEF vars
  <1> QED
    BY <1>1, <1>2, <1>3, <1>4, <1>5 DEF Next, lwIP, Sketch, Running

LEMMA LabelsStep == Labels /\ [Next]_vars => Labels'
  <1> SUFFICES ASSUME Labels, [Next]_vars PROVE Labels'
    OBVIOUS
  <1> USE DEF Labels, lwipVars, rxVars, txVars, flushVars, Release, Freed
  <1>1. CASE \/ Connected \/ PeerClosed \/ Error \/ Poll \/ TimerFires
             \/ (\E n \in 1..Wnd : Received(n)) \/ (\E n \in 1..SndBuf : Acked(n))
    BY <1>1 DEF Connected, PeerClosed, Error, Poll, TimerFires, Received, Acked
  <1>2. CASE \/ Accepted \/ ConnectBegin \/ ConnectFails \/ ConnectReturn \/ ReadPiece
             \/ (\E n \in 1..MaxRx : ReadBegin(n))
    BY <1>2 DEF Accepted, ConnectBegin, ConnectFails, ConnectReturn, ReadPiece, ReadBegin
  <1>3. CASE \/ WriteWakes \/ FlushTurn \/ FlushResume \/ Close \/ Unref
             \/ (\E n \in 1..MaxTx : WriteBegin(n)) \/ \E from \in {"flush", "stop"} : Flush(from)
    BY <1>3 DEF WriteWakes, FlushTurn, FlushResume, Close, Unref, WriteBegin, Flush, FlushBegin,
                FlushReturn
  <1>4. CASE WriteSome
    BY <1>4 DEF WriteSome, WriteOver, WriteWaits, FlushBegin
  <1>5. CASE UNCHANGED vars
    BY <1>5 DEF vars
  <1> QED
    BY <1>1, <1>2, <1>3, <1>4, <1>5 DEF Next, lwIP, Sketch, Running

\* What wait_until_sent remembers of the send buffer, and how much a read has
\* still to copy.
LEMMA NumbersStep == TxInv /\ RxInv /\ Numbers /\ [Next]_vars => Numbers'
  <1> SUFFICES ASSUME TxInv, RxInv, Numbers, [Next]_vars PROVE Numbers'
    OBVIOUS
  <1> USE BufferAssumption, BoundAssumption DEF Numbers
  <1>1. CASE \/ Connected \/ PeerClosed \/ Error \/ Poll \/ TimerFires
             \/ (\E n \in 1..Wnd : Received(n)) \/ (\E n \in 1..SndBuf : Acked(n))
    <2>1. want' = want /\ sndbuf' = sndbuf
      BY <1>1 DEF Connected, PeerClosed, Error, Poll, TimerFires, Received, Acked, flushVars
    <2> QED
      BY <2>1
  <1>2. CASE \/ Accepted \/ ConnectBegin \/ ConnectFails \/ ConnectReturn \/ WriteWakes
             \/ WriteSome \/ Close \/ Unref
             \/ (\E n \in 1..MaxTx : WriteBegin(n)) \/ \E from \in {"flush", "stop"} : Flush(from)
    <2>1. want' = want /\ sndbuf' = sndbuf
      BY <1>2 DEF Accepted, ConnectBegin, ConnectFails, ConnectReturn, WriteWakes, WriteSome, Close,
                  Unref, WriteBegin, Flush, flushVars
    <2> QED
      BY <2>1
  <1>3. CASE FlushTurn \/ FlushResume
    <2>1. want' = want /\ sndbuf' \in {0, sndbuf, tcp_sndbuf}
      BY <1>3 DEF FlushTurn, FlushResume, FlushReturn, flushVars
    <2>2. tcp_sndbuf \in 0..SndBuf /\ 0 \in 0..SndBuf
      BY DEF TxInv, TxTypes, tcp_sndbuf
    <2> QED
      BY <2>1, <2>2
  <1>4. CASE \E n \in 1..MaxRx : ReadBegin(n)
    <2>1. PICK n \in 1..MaxRx : want' = (IF n < getSize THEN n ELSE getSize) /\ sndbuf' = sndbuf
      BY <1>4 DEF ReadBegin, flushVars
    <2>2. getSize \in Nat
      BY Contents DEF RxInv
    <2> HIDE DEF getSize
    <2> QED
      BY <2>1, <2>2
  <1>5. CASE ReadPiece
    <2> DEFINE left == Len(Head(rx_buf)) - rx_buf_offset
               c    == IF want < left THEN want ELSE left
    <2>1. want' = want - c /\ sndbuf' = sndbuf /\ pc = "read"
      BY <1>5 DEF ReadPiece, flushVars
    <2>2. want \in 1..getSize /\ getSize \in Nat /\ rx_buf # <<>>
      BY <2>1, Contents DEF RxInv, Within
    <2>3. left \in Nat
      <3>1. rx_buf \in Seq(Seq(Byte)) /\ rx_buf_offset \in Nat
        BY DEF RxInv, RxTypes
      <3>2. 1 \in 1..Len(rx_buf) /\ Head(rx_buf) = rx_buf[1]
        BY <2>2, <3>1, EmptySeq
      <3>3. Len(Head(rx_buf)) \in 1..MaxRx
        BY <3>2 DEF RxInv, Chain
      <3> QED
        BY <2>2, <3>1, <3>3 DEF RxInv, Chain
    <2> HIDE DEF left
    <2> QED
      BY <2>1, <2>2, <2>3
  <1>6. CASE UNCHANGED vars
    BY <1>6 DEF vars, flushVars
  <1> QED
    BY <1>1, <1>2, <1>3, <1>4, <1>5, <1>6 DEF Next, lwIP, Sketch, Running

LEMMA GivenStep == TxInv /\ Given /\ [Next]_vars => Given'
  <1> SUFFICES ASSUME TxInv, Given, [Next]_vars PROVE Given'
    OBVIOUS
  <1>0. /\ asked \in Nat /\ accepted \in Seq(1..MaxTx) /\ Len(accepted) \in Nat /\ MaxTx \in Nat
        /\ datasource = None \/ datasource \in 1..asked
        /\ asked <= MaxTx /\ Len(accepted) <= Taken
    BY BoundAssumption, LenProperties DEF TxInv, TxTypes, Given
  <1>1. CASE UNCHANGED <<asked, accepted, datasource>>
    BY <1>1 DEF Given, Taken
  <1>2. CASE \E n \in 1..MaxTx : WriteBegin(n)
    <2>1. PICK n \in 1..MaxTx : WriteBegin(n)
      BY <1>2
    <2>2. /\ asked' = asked + n /\ asked + n <= MaxTx /\ datasource' = n /\ accepted' = accepted
          /\ pc = "idle"
      BY <2>1 DEF WriteBegin
    <2>3. datasource = None
      BY <2>2 DEF TxInv, Writing
    <2>4. Taken = asked /\ Taken' = asked + n - n /\ n \in Nat
      BY <1>0, <2>2, <2>3 DEF Taken, None
    <2> QED
      BY <1>0, <2>2, <2>4 DEF Given
  <1>3. CASE WriteSome
    <2>1. PICK ok \in BOOLEAN :
            LET sent == IF ok THEN Chunk ELSE 0
                left == datasource - sent
            IN  /\ pc = "write"
                /\ IF Chunk > 0 THEN tcp_write(Chunk, ok) ELSE UNCHANGED <<unacked, accepted, starved>>
                /\ datasource' \in {None, left} /\ asked' = asked
      BY <1>3 DEF WriteSome
    <2> DEFINE sent == IF ok THEN Chunk ELSE 0
               a    == asked - datasource
    <2>2. datasource \in 1..asked /\ datasource # None
      BY <1>0, <2>1 DEF TxInv, Writing, None
    <2>3. Chunk \in 0..datasource /\ unacked \in 0..SndBuf
      BY <2>2, BufferAssumption DEF Chunk, tcp_sndbuf, TxInv, TxTypes
    <2>4. a \in Nat /\ sent \in 0..datasource /\ Taken = a /\ a + sent <= asked /\ a + datasource = asked
      BY <1>0, <2>2, <2>3 DEF Taken
    <2>5. accepted' = accepted \/ accepted' = accepted \o Bytes(a, sent)
      <3>1. CASE Chunk > 0 /\ ok
        BY <2>1, <3>1 DEF tcp_write, Bytes
      <3>2. CASE ~(Chunk > 0) \/ ~ok
        BY <2>1, <3>2 DEF tcp_write
      <3> QED
        BY <3>1, <3>2
    <2>6. Taken' \in {asked, asked - (datasource - sent)}
      BY <2>1, <2>2 DEF Taken
    <2> HIDE DEF sent, a
    <2>7. Taken' \in Int /\ a + sent <= Taken' /\ a <= Taken' /\ sent \in Nat /\ a \in Nat
      BY <1>0, <2>2, <2>4, <2>6 DEF a
    <2> HIDE DEF Taken
    <2>8. CASE accepted' = accepted
      <3>1. Len(accepted') <= Taken'
        BY <1>0, <2>4, <2>7, <2>8
      <3> QED
        BY <1>0, <2>1, <2>8, <3>1 DEF Given
    <2>9. CASE accepted' = accepted \o Bytes(a, sent)
      <3> DEFINE b == Bytes(a, sent)
      <3>1. b \in Seq(Nat) /\ Len(b) = sent /\ \A k \in 1..sent : b[k] = a + k
        BY <2>4, <2>7, BytesType DEF Bytes
      <3>2. b \in Seq(1..MaxTx)
        <4>1. \A k \in 1..sent : b[k] \in 1..MaxTx
          BY <1>0, <2>4, <2>7, <3>1
        <4> HIDE DEF b
        <4>2. b \in [1..sent -> Nat]
          BY <3>1, LenProperties
        <4>3. b \in [1..sent -> 1..MaxTx]
          BY <4>1, <4>2
        <4> QED
          BY <2>7, <4>3, SeqDef
      <3> HIDE DEF b
      <3>3. accepted \o b \in Seq(1..MaxTx) /\ Len(accepted \o b) = Len(accepted) + sent
        BY <1>0, <3>1, <3>2, ConcatProperties
      <3>4. accepted' = accepted \o b
        BY <2>9 DEF b
      <3>5. Len(accepted') <= Taken'
        BY <1>0, <2>4, <2>7, <3>3, <3>4
      <3> QED
        BY <1>0, <2>1, <3>3, <3>4, <3>5 DEF Given
    <2> QED
      BY <2>5, <2>8, <2>9
  <1>4. CASE lwIP \/ TimerFires
    <2>1. UNCHANGED <<asked, accepted, datasource>>
      BY <1>4 DEF lwIP, Connected, Received, PeerClosed, Error, Acked, Poll, TimerFires, txVars, txHist
    <2> QED
      BY <1>1, <2>1
  <1>5. CASE \/ Accepted \/ ConnectBegin \/ ConnectFails \/ ConnectReturn \/ ReadPiece
             \/ (\E n \in 1..MaxRx : ReadBegin(n)) \/ WriteWakes \/ FlushTurn \/ FlushResume \/ Close
             \/ Unref \/ \E from \in {"flush", "stop"} : Flush(from)
    <2>1. UNCHANGED <<asked, accepted, datasource>>
      BY <1>5 DEF Accepted, ConnectBegin, ConnectFails, ConnectReturn, ReadPiece, ReadBegin,
                  WriteWakes, FlushTurn, FlushResume, Close, Unref, Flush, txVars, txHist
    <2> QED
      BY <1>1, <2>1
  <1>6. CASE UNCHANGED vars
    <2>1. UNCHANGED <<asked, accepted, datasource>>
      BY <1>6 DEF vars, txVars, txHist
    <2> QED
      BY <1>1, <2>1
  <1> QED
    BY <1>2, <1>3, <1>4, <1>5, <1>6 DEF Next, Sketch, Running

LEMMA AllAlways == Spec => []AllInv
  <1>1. Init => Flags /\ Labels /\ Numbers /\ Given
    <2> SUFFICES ASSUME Init PROVE Flags /\ Labels /\ Numbers /\ Given
      OBVIOUS
    <2>1. Flags
      BY DEF Init, Flags
    <2>2. Labels /\ Numbers
      BY BufferAssumption, BoundAssumption DEF Init, Labels, Numbers
    <2>3. Given
      BY BoundAssumption DEF Init, Given, Taken
    <2> QED
      BY <2>1, <2>2, <2>3
  <1>2. Init => AllInv
    BY <1>1, TxInit, RxInit DEF AllInv
  <1>3. AllInv /\ [Next]_vars => AllInv'
    BY TxStep, RxStep, FlagsStep, LabelsStep, NumbersStep, GivenStep DEF AllInv
  <1> QED
    BY <1>2, <1>3, PTL DEF Spec

\* The bounds the buffers set are kept by every step: what lwIP holds fits its
\* window and its send buffer, and the offset of a read its first pbuf.
THEOREM TypeCorrect == Spec => []TypeOK
  <1>1. AllInv => TypeOK
    <2> SUFFICES ASSUME AllInv PROVE TypeOK
      OBVIOUS
    <2>1. /\ TxTypes /\ WriteReportsPrefix /\ RxTypes /\ Chain /\ Flags /\ Labels /\ Numbers /\ Given
      BY DEF AllInv, TxInv, RxInv
    <2>2. /\ wnd \in 0..Wnd /\ unacked \in 0..SndBuf /\ _pcb \in BOOLEAN
          /\ rx_buf \in Seq(Seq(1..MaxRx))
          /\ arrived \in 0..MaxRx /\ received \in Seq(1..MaxRx)
      BY <2>1 DEF TxTypes, RxTypes, Byte
    <2>3. {send_waiting, connect_pending, sync, expired, starved} \subseteq BOOLEAN
      BY <2>1 DEF Flags
    <2>4. /\ asked \in 0..MaxTx /\ accepted \in Seq(1..MaxTx)
          /\ datasource \in {None} \cup 1..MaxTx
      BY <2>1, BoundAssumption DEF TxTypes, Given
    <2>5. written \in 0..MaxTx /\ before \in 0..MaxTx
      <3>1. /\ written \in Nat /\ before \in Nat /\ written = Len(accepted) - before
            /\ Len(accepted) \in Nat
        BY <2>1, LenProperties DEF TxTypes, WriteReportsPrefix
      <3>2. Len(accepted) <= Taken /\ Taken \in Nat /\ Taken <= MaxTx
        BY <2>1, BoundAssumption DEF TxTypes, Given, Taken
      <3> QED
        BY <3>1, <3>2, BoundAssumption
    <2>6. rx_buf_offset \in 0..MaxRx
      <3>1. CASE rx_buf_offset = 0
        BY <3>1, BoundAssumption
      <3>2. CASE rx_buf_offset # 0
        <4>1. rx_buf # <<>> /\ rx_buf_offset < Len(Head(rx_buf)) /\ rx_buf_offset \in Nat
          BY <2>1, <3>2 DEF Chain, RxTypes
        <4>2. 1 \in 1..Len(rx_buf) /\ Head(rx_buf) = rx_buf[1]
          BY <2>2, <4>1, EmptySeq
        <4>3. Len(Head(rx_buf)) \in 1..MaxRx
          BY <2>1, <4>2 DEF Chain
        <4> QED
          BY <4>1, <4>3, BoundAssumption
      <3> QED
        BY <3>1, <3>2
    <2> QED
      BY <2>1, <2>2, <2>3, <2>4, <2>5, <2>6 DEF TypeOK, Labels, Numbers
  <1> QED
    BY <1>1, AllAlways, PTL

=============================================================================
