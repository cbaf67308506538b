---------------------------- MODULE ClientContext ----------------------------
(***************************************************************************)
(* One TCP connection as the WiFi library keeps it: class ClientContext    *)
(* (ESP8266WiFi/src/include/ClientContext.h) behind one WiFiClient         *)
(* (WiFiClient.cpp), on top of lwIP's raw API, which is external.          *)
(*                                                                         *)
(* Two contexts alternate: the sketch, which runs until it delays or       *)
(* yields, and lwIP, whose callbacks run only then.  pc says where the     *)
(* sketch is; between two calls it may yield too, so callbacks are free to *)
(* run there.  The bytes of each direction are numbered 1, 2, 3, ...       *)
(***************************************************************************)
EXTENDS Integers, Sequences, FiniteSets, SequencesExt

CONSTANTS
    Wnd,         \* lwIP's receive window, TCP_WND
    SndBuf,      \* lwIP's send buffer, TCP_SND_BUF
    MaxRx,       \* bound of the model: bytes the peer sends
    MaxTx        \* bound of the model: bytes the sketch asks to send

ASSUME BufferAssumption == Wnd \in Nat \ {0} /\ SndBuf \in Nat \ {0}
ASSUME BoundAssumption == MaxRx \in Nat /\ MaxTx \in Nat

None == -1       \* a null _datasource

VARIABLES
    \* lwIP's control block
    tcp,         \* its state; "GONE" once it is freed
    wnd,         \* bytes the peer may still send
    unacked,     \* bytes accepted by tcp_write and not acknowledged yet
    \* ClientContext
    _pcb,        \* _pcb is not null
    rx_buf,      \* the chain of received pbufs, each a sequence of bytes
    rx_buf_offset,
    datasource,  \* bytes left in _datasource, None for a null one
    written, send_waiting, connect_pending, sync,
    \* the sketch
    pc, want,    \* where it is; bytes a read has still to copy
    then,        \* what wait_until_sent was called from: "write", "flush" or "stop"
    sndbuf,      \* wait_until_sent's local
    expired,     \* the time-out of the running operation has passed
    \* history
    arrived,     \* bytes received from the peer
    received,    \* bytes the sketch has read
    asked,       \* bytes the sketch has asked to send
    accepted,    \* bytes handed to lwIP, in order
    before,      \* Len(accepted) when the running write began
    starved      \* the last tcp_write failed with ERR_MEM

lwipVars  == <<tcp, wnd, unacked>>
rxVars    == <<rx_buf, rx_buf_offset>>
txVars    == <<datasource, written, send_waiting>>
flushVars == <<then, sndbuf>>
rxHist    == <<arrived, received>>
txHist    == <<asked, accepted,  before, starved>>
vars == <<lwipVars, _pcb, rxVars, txVars, connect_pending, sync, pc, want, flushVars, expired,
          rxHist, txHist>>

-----------------------------------------------------------------------------

\* The bytes of the chain behind the offset, and getSize().
Unread  == LET all == FlattenSeq(rx_buf) IN SubSeq(all, rx_buf_offset + 1, Len(all))
getSize == Len(FlattenSeq(rx_buf)) - rx_buf_offset

\* "CLOSED" means that nothing more can be written.
state == IF ~_pcb \/ tcp \in {"CLOSE_WAIT", "CLOSING"} THEN "CLOSED" ELSE tcp

tcp_sndbuf == SndBuf - unacked

\* lwIP: credit of n bytes to the window, which never grows beyond TCP_WND.
tcp_recved(n) == wnd' = IF wnd + n > Wnd THEN Wnd ELSE wnd + n

\* Where the sketch lets lwIP run.
AtYield == pc \in {"idle", "connecting", "waiting", "flushDelay"}

\* _notify_error: a delay of connect or write is broken off.
notify_error == send_waiting' = FALSE /\ connect_pending' = FALSE

\* Mutant: an acknowledgement does not wake the writer.
write_some_from_cb_Lost == UNCHANGED send_waiting

write_some_from_cb == send_waiting' = FALSE

\* lwIP frees the control block.
Freed == tcp' = "GONE" /\ wnd' = Wnd /\ unacked' = 0

\* abort(), and close(): the context lets go of its control block.
Release == _pcb' = FALSE /\ Freed

-----------------------------------------------------------------------------
(* lwIP's callbacks.                                                       *)

\* _connected
Connected ==
    /\ AtYield /\ _pcb /\ tcp = "SYN_SENT"
    /\ tcp' = "ESTABLISHED"
    /\ connect_pending' = FALSE
    /\ UNCHANGED <<wnd, unacked, _pcb, rxVars, txVars, sync, pc, want, flushVars, expired, rxHist, txHist>>

\* _recv with a pbuf of n bytes, which joins the chain
Received(n) ==
    /\ AtYield /\ _pcb /\ tcp = "ESTABLISHED" /\ n <= wnd /\ arrived + n <= MaxRx
    /\ wnd' = wnd - n
    /\ rx_buf' = Append(rx_buf, [i \in 1..n |-> arrived + i])
    /\ rx_buf_offset' = IF rx_buf = <<>> THEN 0 ELSE rx_buf_offset
    /\ arrived' = arrived + n
    /\ UNCHANGED <<tcp, unacked, _pcb, txVars, connect_pending, sync, pc, want, flushVars, expired,
                   received, txHist>>

\* Mutant: the connection is aborted although there is still something to read.
PeerClosed_Drops ==
    /\ AtYield /\ _pcb /\ tcp = "ESTABLISHED"
    /\ notify_error
    /\ Release
    /\ rx_buf' = <<>> /\ rx_buf_offset' = 0
    /\ UNCHANGED <<datasource, written, sync, pc, want, flushVars, expired, rxHist, txHist>>

\* _recv with no pbuf: the peer has closed its side.  With bytes to read the
\* connection stays in CLOSE_WAIT, else it is aborted.
PeerClosed ==
    /\ AtYield /\ _pcb /\ tcp = "ESTABLISHED"
    /\ notify_error
    /\ IF rx_buf # <<>>
       THEN tcp' = "CLOSE_WAIT" /\ UNCHANGED <<wnd, unacked, _pcb>>
       ELSE Release
    /\ UNCHANGED <<rxVars, datasource, written, sync, pc, want, flushVars, expired, rxHist, txHist>>

\* _error: lwIP has freed the control block (a reset, no memory, a time-out)
Error ==
    /\ AtYield /\ _pcb
    /\ notify_error
    /\ Release
    /\ UNCHANGED <<rxVars, datasource, written, sync, pc, want, flushVars, expired, rxHist, txHist>>

\* _acked: the peer has acknowledged n bytes
Acked(n) ==
    /\ AtYield /\ _pcb /\ n <= unacked
    /\ unacked' = unacked - n
    /\ write_some_from_cb
    /\ UNCHANGED <<tcp, wnd, _pcb, rxVars, datasource, written, connect_pending, sync, pc, want,
                   flushVars, expired, rxHist, txHist>>

\* _poll, lwIP's coarse timer
Poll ==
    /\ AtYield /\ _pcb
    /\ write_some_from_cb
    /\ UNCHANGED <<lwipVars, _pcb, rxVars, datasource, written, connect_pending, sync, pc, want,
                   flushVars, expired, rxHist, txHist>>

\* Time passes while the sketch delays (millis() - _op_start_time > _timeout_ms).
TimerFires ==
    /\ pc \in {"connecting", "waiting", "flushDelay"} /\ ~expired
    /\ expired' = TRUE
    /\ UNCHANGED <<lwipVars, _pcb, rxVars, txVars, connect_pending, sync, pc, want, flushVars,
                   rxHist, txHist>>

-----------------------------------------------------------------------------
(* The sketch's calls.                                                     *)

\* The constructor, for a connection that WiFiServer has accepted.
Accepted ==
    /\ pc = "new"
    /\ _pcb' = TRUE /\ tcp' = "ESTABLISHED"
    /\ pc' = "idle"
    /\ UNCHANGED <<wnd, unacked, rxVars, txVars, connect_pending, sync, want, flushVars, expired, rxHist,
                   txHist>>

\* WiFiClient::connect, ClientContext::connect; tcp_connect may fail.
ConnectBegin ==
    /\ pc = "new"
    /\ _pcb' = TRUE /\ tcp' = "SYN_SENT"
    /\ connect_pending' = TRUE /\ expired' = FALSE
    /\ pc' = "connecting"
    /\ UNCHANGED <<wnd, unacked, rxVars, txVars, sync, want, flushVars, rxHist, txHist>>

ConnectFails ==
    /\ pc = "new"
    /\ pc' = "deleted"
    /\ UNCHANGED <<lwipVars, _pcb, rxVars, txVars, connect_pending, sync, want, flushVars, expired,
                   rxHist, txHist>>

\* connect returns; without success the context is unreferenced and deleted.
ConnectReturn ==
    /\ pc = "connecting" /\ (~connect_pending \/ expired)
    /\ connect_pending' = FALSE
    /\ IF state = "ESTABLISHED"
       THEN pc' = "idle" /\ UNCHANGED <<lwipVars, _pcb, rxVars>>
       ELSE pc' = "deleted" /\ Release /\ rx_buf' = <<>> /\ rx_buf_offset' = 0
    /\ UNCHANGED <<txVars, sync, want, flushVars, expired, rxHist, txHist>>

(* read(dst, size): pbuf by pbuf *)

ReadBegin(n) ==
    /\ pc = "idle" /\ getSize > 0
    /\ want' = IF n < getSize THEN n ELSE getSize
    /\ pc' = "read"
    /\ UNCHANGED <<lwipVars, _pcb, rxVars, txVars, connect_pending, sync, flushVars, expired, rxHist,
                   txHist>>

\* Mutant: the offset into the old head is kept for the new one.
consume_KeepsOffset(n) ==
    LET left == Len(Head(rx_buf)) - rx_buf_offset - n
    IN  /\ IF _pcb THEN tcp_recved(n) ELSE UNCHANGED wnd
        /\ IF left > 0
           THEN rx_buf_offset' = rx_buf_offset + n /\ UNCHANGED rx_buf
           ELSE rx_buf_offset' = (IF Len(rx_buf) = 1 THEN 0 ELSE rx_buf_offset) /\ rx_buf' = Tail(rx_buf)

\* Mutant: only whole pbufs are credited to the window.
consume_CreditsLate(n) ==
    LET left == Len(Head(rx_buf)) - rx_buf_offset - n
    IN  IF left > 0
        THEN rx_buf_offset' = rx_buf_offset + n /\ UNCHANGED <<rx_buf, wnd>>
        ELSE /\ rx_buf_offset' = 0 /\ rx_buf' = Tail(rx_buf)
             /\ IF _pcb THEN tcp_recved(n) ELSE UNCHANGED wnd

\* _consume: n bytes of the first pbuf are done with.
consume(n) ==
    LET left == Len(Head(rx_buf)) - rx_buf_offset - n
    IN  /\ IF _pcb THEN tcp_recved(n) ELSE UNCHANGED wnd
        /\ IF left > 0
           THEN rx_buf_offset' = rx_buf_offset + n /\ UNCHANGED rx_buf
           ELSE rx_buf_offset' = 0 /\ rx_buf' = Tail(rx_buf)

ReadPiece ==
    LET buf_size  == Len(Head(rx_buf)) - rx_buf_offset
        copy_size == IF want < buf_size THEN want ELSE buf_size
    IN  /\ pc = "read"
        /\ received' = received \o SubSeq(Head(rx_buf), rx_buf_offset + 1, rx_buf_offset + copy_size)
        /\ consume(copy_size)
        /\ want' = want - copy_size
        /\ pc' = IF want' = 0 THEN "idle" ELSE "read"
        /\ UNCHANGED <<tcp, unacked, _pcb, txVars, connect_pending, sync, flushVars, expired, arrived,
                       txHist>>

(* write: _write_from_source, which alternates between _write_some and a
   delay that an acknowledgement, the poll timer, an error or the end of the
   peer's stream breaks off *)

WriteBegin(n) ==
    /\ pc = "idle" /\ _pcb /\ asked + n <= MaxTx
    /\ asked' = asked + n
    /\ datasource' = n /\ written' = 0 /\ expired' = FALSE
    /\ before' = Len(accepted) /\ starved' = FALSE
    /\ pc' = "write"
    /\ UNCHANGED <<lwipVars, _pcb, rxVars, send_waiting, connect_pending, sync, want, flushVars, rxHist,
                   accepted>>

\* tcp_write of n bytes, or none of them when lwIP is out of memory.
tcp_write(n, ok) ==
    LET bytes == [k \in 1..n |-> asked - datasource + k]
    IN  IF ok
        THEN unacked' = unacked + n /\ accepted' = accepted \o bytes /\ starved' = FALSE
        ELSE UNCHANGED <<unacked, accepted>> /\ starved' = TRUE

\* The loop of wait_until_sent begins.
FlushBegin(from) ==
    /\ then' = from /\ expired' = FALSE
    /\ pc' = "flush"

\* Mutant: the room in the send buffer is not asked for.
Chunk_IgnoresSndbuf == IF state = "CLOSED" THEN 0 ELSE datasource

\* The bytes _write_some can send now; its loop ends after one tcp_write, for
\* then either the send buffer or the source is exhausted.
Chunk ==
    IF state = "CLOSED" THEN 0 ELSE IF tcp_sndbuf < datasource THEN tcp_sndbuf ELSE datasource

\* _write_from_source leaves its loop: it returns, or a synchronous write goes
\* on to wait_until_sent, which returns at once without a control block.
WriteOver ==
    /\ UNCHANGED send_waiting
    /\ IF sync /\ _pcb
       THEN FlushBegin("write")
       ELSE pc' = "idle" /\ expired' = FALSE /\ UNCHANGED then

WriteWaits ==
    /\ send_waiting' = TRUE /\ expired' = FALSE
    /\ pc' = "waiting"
    /\ UNCHANGED then

\* Mutant: what tcp_write refused is released all the same.
WriteSome_Releases ==
    \E ok \in BOOLEAN :
        LET sent == IF ok THEN Chunk ELSE 0
            left == datasource - Chunk
            over == left = 0 \/ (expired /\ sent = 0) \/ state = "CLOSED"
        IN  /\ pc = "write" /\ (Chunk = 0 => ok)
            /\ IF Chunk > 0 THEN tcp_write(Chunk, ok) ELSE UNCHANGED <<unacked, accepted, starved>>
            /\ written' = written + Chunk
            /\ datasource' = IF over THEN None ELSE left
            /\ IF over THEN WriteOver ELSE WriteWaits
            /\ UNCHANGED <<tcp, wnd, _pcb, rxVars, connect_pending, sync, want, sndbuf, rxHist, asked,
                            before>>

\* Mutant: the time-out starts anew on every turn, written or not.
WriteSome_NeverLate ==
    \E ok \in BOOLEAN :
        LET sent == IF ok THEN Chunk ELSE 0
            left == datasource - sent
            over == left = 0 \/ state = "CLOSED"
        IN  /\ pc = "write" /\ (Chunk = 0 => ok)
            /\ IF Chunk > 0 THEN tcp_write(Chunk, ok) ELSE UNCHANGED <<unacked, accepted, starved>>
            /\ written' = written + sent
            /\ datasource' = IF over THEN None ELSE left
            /\ IF over THEN WriteOver ELSE WriteWaits
            /\ UNCHANGED <<tcp, wnd, _pcb, rxVars, connect_pending, sync, want, sndbuf, rxHist, asked,
                            before>>

\* One turn of _write_from_source.  Progress starts its time-out anew.
WriteSome ==
    \E ok \in BOOLEAN :
        LET sent == IF ok THEN Chunk ELSE 0
            left == datasource - sent
            over == left = 0 \/ (expired /\ sent = 0) \/ state = "CLOSED"
        IN  /\ pc = "write" /\ (Chunk = 0 => ok)
            /\ IF Chunk > 0 THEN tcp_write(Chunk, ok) ELSE UNCHANGED <<unacked, accepted, starved>>
            /\ written' = written + sent
            /\ datasource' = IF over THEN None ELSE left
            /\ IF over THEN WriteOver ELSE WriteWaits
            /\ UNCHANGED <<tcp, wnd, _pcb, rxVars, connect_pending, sync, want, sndbuf, rxHist, asked,
                            before>>

\* The delay is over: broken off, or all its time has passed.
WriteWakes ==
    /\ pc = "waiting" /\ (~send_waiting \/ expired)
    /\ send_waiting' = FALSE
    /\ pc' = "write"
    /\ UNCHANGED <<lwipVars, _pcb, rxVars, datasource, written, connect_pending, sync, want, flushVars,
                   expired, rxHist, txHist>>

(* wait_until_sent, called by flush, stop and a synchronous write *)

Flush(from) ==
    /\ pc = "idle" /\ _pcb
    /\ FlushBegin(from)
    /\ UNCHANGED <<lwipVars, _pcb, rxVars, txVars, connect_pending, sync, want, sndbuf, rxHist, txHist>>

\* It returns, and stop() goes on to close().
FlushReturn ==
    /\ expired' = FALSE /\ sndbuf' = 0
    /\ pc' = IF then = "stop" THEN "close" ELSE "idle"
    /\ then' = "none"

\* From the test of the time-out, which an acknowledgement no longer stops once
\* it has passed, to the delay.
FlushTurn ==
    /\ pc = "flush"
    /\ IF expired
       THEN FlushReturn
       ELSE /\ sndbuf' = tcp_sndbuf
            /\ pc' = "flushDelay"
            /\ UNCHANGED <<then, expired>>
    /\ UNCHANGED <<lwipVars, _pcb, rxVars, txVars, connect_pending, sync, want, rxHist, txHist>>

\* Mutant: only the send buffer is looked at after the delay.
FlushResume_NoState ==
    /\ pc = "flushDelay"
    /\ IF sndbuf = SndBuf
       THEN FlushReturn
       ELSE pc' = "flush" /\ UNCHANGED <<flushVars, expired>>
    /\ UNCHANGED <<lwipVars, _pcb, rxVars, txVars, connect_pending, sync, want, rxHist, txHist>>

\* After the delay: sndbuf is what it was before it.
FlushResume ==
    /\ pc = "flushDelay"
    /\ IF state # "ESTABLISHED" \/ sndbuf = SndBuf
       THEN FlushReturn
       ELSE pc' = "flush" /\ UNCHANGED <<flushVars, expired>>
    /\ UNCHANGED <<lwipVars, _pcb, rxVars, txVars, connect_pending, sync, want, rxHist, txHist>>

\* close() of WiFiClient::stop; there may be no control block left to close.
Close ==
    /\ pc = "close"
    /\ IF _pcb THEN Release ELSE UNCHANGED <<lwipVars, _pcb>>
    /\ pc' = "idle"
    /\ UNCHANGED <<rxVars, txVars, connect_pending, sync, want, flushVars, expired, rxHist, txHist>>

\* The last WiFiClient goes: unref() discards what was received and closes.
Unref ==
    /\ pc = "idle"
    /\ Release
    /\ rx_buf' = <<>> /\ rx_buf_offset' = 0
    /\ pc' = "deleted"
    /\ UNCHANGED <<txVars, connect_pending, sync, want, flushVars, expired, rxHist, txHist>>

-----------------------------------------------------------------------------

Init ==
    /\ tcp = "CLOSED" /\ wnd = Wnd /\ unacked = 0 /\ _pcb = FALSE
    /\ rx_buf = <<>> /\ rx_buf_offset = 0
    /\ datasource = None /\ written = 0 /\ send_waiting = FALSE /\ connect_pending = FALSE
    /\ sync \in BOOLEAN                   \* getDefaultPrivateGlobalSyncValue()
    /\ pc = "new" /\ want = 0 /\ then = "none" /\ sndbuf = 0 /\ expired = FALSE
    /\ arrived = 0 /\ received = <<>>
    /\ asked = 0 /\ accepted = <<>> /\ before = 0 /\ starved = FALSE

lwIP ==
    \/ Connected \/ PeerClosed \/ Error \/ Poll
    \/ \E n \in 1..Wnd : Received(n)
    \/ \E n \in 1..SndBuf : Acked(n)

\* What a call does from its first step to its return.
Running ==
    \/ ConnectReturn \/ ReadPiece
    \/ WriteSome \/ WriteWakes
    \/ FlushTurn \/ FlushResume \/ Close

Sketch ==
    \/ Accepted \/ ConnectBegin \/ ConnectFails
    \/ \E n \in 1..MaxRx : ReadBegin(n)
    \/ \E n \in 1..MaxTx : WriteBegin(n)
    \/ \E from \in {"flush", "stop"} : Flush(from)
    \/ Unref
    \/ Running

Next == lwIP \/ TimerFires \/ Sketch

\* The core returns to a delayed sketch, and its clock goes on: strongly fair,
\* since a delay that is broken off and begun again still spends time.  Nothing
\* is assumed of the peer, of lwIP or of the sketch between two calls.
Fairness == WF_vars(Running) /\ SF_vars(TimerFires)

Spec == Init /\ [][Next]_vars /\ Fairness

-----------------------------------------------------------------------------

TypeOK ==
    /\ tcp \in {"CLOSED", "SYN_SENT", "ESTABLISHED", "CLOSE_WAIT", "GONE"}
    /\ wnd \in 0..Wnd /\ unacked \in 0..SndBuf /\ _pcb \in BOOLEAN
    /\ rx_buf \in Seq(Seq(1..MaxRx)) /\ rx_buf_offset \in 0..MaxRx
    /\ datasource \in {None} \cup 1..MaxTx /\ written \in 0..MaxTx
    /\ {send_waiting, connect_pending, sync, expired, starved} \subseteq BOOLEAN
    /\ pc \in {"new", "idle", "connecting", "read", "write", "waiting", "flush", "flushDelay", "close", "deleted"}
    /\ want \in 0..MaxRx /\ then \in {"none", "write", "flush", "stop"} /\ sndbuf \in 0..SndBuf
    /\ arrived \in 0..MaxRx /\ received \in Seq(1..MaxRx)
    /\ asked \in 0..MaxTx /\ accepted \in Seq(1..MaxTx)
    /\ before \in 0..MaxTx

\* While the context lives every byte that has arrived has been read or can
\* still be, once and in order: over pbufs of any size, reads of any size, the
\* end of the peer's stream, an error and stop() (_recv, read, _consume).
NothingLost ==
    pc # "deleted" => received \o Unread = [i \in 1..arrived |-> i]

\* The peer's window and the bytes held for the sketch always make up TCP_WND:
\* no credit is lost or given twice, so a sketch that reads everything never
\* leaves the peer unable to send (_consume against _recv).
WindowConserved ==
    _pcb => wnd + getSize = Wnd

\* What lwIP has accepted is, write by write, a prefix of what the sketch asked
\* for, in order and without a repetition, however often tcp_write refused or
\* the delay was broken off; and write returns its length (_written).
WriteReportsPrefix ==
    /\ written = Len(accepted) - before
    /\ \A i \in 2..Len(accepted) : accepted[i - 1] < accepted[i]
    /\ \A i \in before + 2 .. Len(accepted) : accepted[i] = accepted[i - 1] + 1
    /\ datasource # None /\ written > 0 => Last(accepted) = asked - datasource

\* A writer that sleeps, and whom nobody has woken, could do nothing if it were
\* awake: the connection is open for writing and the send buffer is full, or
\* lwIP was out of memory when last asked (_write_from_source against _acked,
\* _recv and _error).
NoLostWakeup ==
    pc = "waiting" /\ send_waiting => state # "CLOSED" /\ (tcp_sndbuf = 0 \/ starved)

\* wait_until_sent hands its control block to tcp_output, on every turn: it is
\* there, although any callback may have freed it during delay(0).
FlushOnLivePcb ==
    pc = "flush" /\ ~expired => _pcb

\* Every call returns, whatever the peer and lwIP do or fail to do.
CallsReturn ==
    pc \notin {"new", "idle", "deleted"} ~> pc \in {"idle", "deleted"}

=============================================================================
