------------------------------- MODULE UartRx -------------------------------
(***************************************************************************)
(* The receive side of the UART driver (cores/esp8266/uart.cpp) and of     *)
(* HardwareSerial: the hardware RX FIFO, the interrupt handler that moves  *)
(* it into a software ring, and the functions the sketch calls, which read *)
(* the ring with the UART interrupt disabled and the FIFO without it.      *)
(*                                                                         *)
(* Three actors interleave: the wire (bytes arrive at any time), the       *)
(* handler uart_isr (it runs when the interrupt is not disabled, and once  *)
(* entered it runs to its end before the sketch goes on) and the sketch    *)
(* (one call at a time, pc says how far into it).  The bytes are the       *)
(* numbers 1, 2, 3, ... in the order of their arrival on the wire.         *)
(***************************************************************************)
EXTENDS Integers, Sequences

CONSTANTS
    FifoDepth,   \* bytes the hardware FIFO holds (128)
    IntrTrig,    \* FIFO level that raises the interrupt (INTRIGG, 16)
    Sizes,       \* ring sizes the sketch asks for with setRxBufferSize
    InitSize,    \* HardwareSerial::_rx_size at construction (256)
    MaxBytes     \* bound of the model: bytes that ever arrive

ASSUME FifoAssumption == FifoDepth \in Nat /\ IntrTrig \in 1..FifoDepth
ASSUME SizeAssumption == InitSize \in Sizes /\ Sizes \subseteq Nat \ {0, 1}
ASSUME BoundAssumption == MaxBytes \in Nat

Uninit == 0      \* a cell of a buffer that malloc returned
NoByte == -1     \* what uart_read_char_unsafe returns when it has no byte

VARIABLES
    hw,          \* the hardware RX FIFO
    usis,        \* interrupt status bits that are latched (USIS)
    masked,      \* ETS_UART_INTR_DISABLE is in force
    isr,         \* where the handler is: "off", "copy" or "ack"
    seen,        \* the handler's snapshot of USIS
    size, rpos, wpos, buffer,    \* struct uart_rx_buffer_
    rx_overrun,  \* uart_t::rx_overrun
    pc,          \* where the sketch is in its call; "idle" between calls
    want,        \* uart_read: bytes still wanted (usersize - ret)
    chunk,       \* uart_read: bytes just copied out, rpos not yet advanced
    swAvail,     \* uart_rx_available: the count taken under the mask
    newSize, newBuf,             \* uart_resize_rx_buffer: new_size, new_buf[0 .. new_wpos-1]
    \* history
    arrived,     \* bytes that have arrived on the wire so far
    delivered,   \* bytes handed to the sketch, in order
    promised,    \* bytes the last available() announced and not read since, up to Capacity
    peeked,      \* the byte the last peek() returned, if it must be the next
    lost         \* an overflow has discarded a byte and nobody was told yet

hwVars   == <<hw, usis>>
isrVars  == <<isr, seen>>
ringVars == <<size, rpos, wpos, buffer>>
callVars == <<want, chunk, swAvail, newSize, newBuf>>
histVars == <<arrived, delivered, promised, peeked, lost>>
vars == <<hwVars, masked, isrVars, ringVars, rx_overrun, pc, callVars, histVars>>

-----------------------------------------------------------------------------
(* The ring. *)

\* uart_rx_buffer_available_unsafe
BufferAvailable == IF wpos < rpos THEN (wpos + size) - rpos ELSE wpos - rpos

\* uart_rx_available_unsafe
Available == BufferAvailable + Len(hw)

\* The n bytes from cell r on, around the end of a buffer b of s cells.
RingSeq(s, r, n, b) == [k \in 1..n |-> b[IF r + k - 1 < s THEN r + k - 1 ELSE r + k - 1 - s]]

Advance(p, n) == (p + n) % size

\* One cell always stays free.
Capacity == size - 1

\* The status register: the FIFO-full bit is there as long as the level is
\* (the hardware, as uart_isr relies on it).
Latch(bits, fifo) == bits \cup IF Len(fifo) >= IntrTrig THEN {"UIFF"} ELSE {}

\* What is left of an announcement of n bytes when k more have been read.
Less(n, k) == IF n > k THEN n - k ELSE 0

\* One turn of the loop of uart_rx_copy_fifo_to_buffer_unsafe: a full ring
\* gives up its oldest byte.
CopyByte ==
    LET nextPos == Advance(wpos, 1)
        full == nextPos = rpos
    IN  /\ hw # <<>>
        /\ hw' = Tail(hw)
        /\ buffer' = [buffer EXCEPT ![wpos] = Head(hw)]
        /\ wpos' = nextPos
        /\ rpos' = IF ~full THEN rpos ELSE IF rpos + 1 = size THEN 0 ELSE rpos + 1
        /\ rx_overrun' = (rx_overrun \/ full)
        /\ lost' = (lost \/ full)
        /\ peeked' = IF full THEN NoByte ELSE peeked
        /\ UNCHANGED <<usis, size, arrived, delivered, promised>>

-----------------------------------------------------------------------------
(* The wire. *)

Open == pc # "closed"

\* A byte arrives; a full FIFO drops it and latches UIOF.
Arrive ==
    /\ Open /\ arrived < MaxBytes
    /\ arrived' = arrived + 1
    /\ IF Len(hw) < FifoDepth
       THEN /\ hw' = Append(hw, arrived')
            /\ usis' = Latch(usis, hw')
            /\ UNCHANGED lost
       ELSE /\ usis' = usis \cup {"UIOF"}
            /\ lost' = TRUE
            /\ UNCHANGED hw
    /\ UNCHANGED <<masked, isrVars, ringVars, rx_overrun, pc, callVars, delivered, promised, peeked>>

-----------------------------------------------------------------------------
(* The handler, uart_isr. *)

IsrEnter ==
    /\ Open /\ ~masked /\ isr = "off" /\ usis # {}
    /\ seen' = usis
    /\ isr' = IF "UIFF" \in usis THEN "copy" ELSE "ack"
    /\ UNCHANGED <<hwVars, masked, ringVars, rx_overrun, pc, callVars, histVars>>

IsrCopy ==
    /\ isr = "copy"
    /\ CopyByte
    /\ UNCHANGED <<masked, isrVars, pc, callVars>>

IsrCopied ==
    /\ isr = "copy" /\ hw = <<>>
    /\ isr' = "ack"
    /\ UNCHANGED <<hwVars, masked, seen, ringVars, rx_overrun, pc, callVars, histVars>>

\* Mutant: every status bit is cleared, not those of the snapshot.
IsrAck_ClearsAll ==
    /\ isr = "ack"
    /\ rx_overrun' = (rx_overrun \/ "UIOF" \in seen)
    /\ usis' = Latch({}, hw)
    /\ isr' = "off" /\ seen' = {}
    /\ UNCHANGED <<hw, masked, ringVars, pc, callVars, histVars>>

\* UIOF becomes rx_overrun, and the bits of the snapshot are cleared.
IsrAck ==
    /\ isr = "ack"
    /\ rx_overrun' = (rx_overrun \/ "UIOF" \in seen)
    /\ usis' = Latch(usis \ seen, hw)
    /\ isr' = "off" /\ seen' = {}
    /\ UNCHANGED <<hw, masked, ringVars, pc, callVars, histVars>>

-----------------------------------------------------------------------------
(* The sketch's calls.  At(l) holds when the sketch can run, at label l.   *)

At(l) == isr = "off" /\ pc = l

Disable_Forgotten(l) == masked' = masked /\ pc' = l   \* Mutant: no ETS_UART_INTR_DISABLE

\* A call enters its critical section (ETS_UART_INTR_DISABLE), and leaves it.
Disable(l) == masked' = TRUE /\ pc' = l
Enable(l)  == masked' = FALSE /\ pc' = l

(* HardwareSerial::begin (uart_init, uart_start_isr) and end (uart_uninit).*)

Begin ==
    /\ At("closed")
    /\ hw' = <<>> /\ usis' = {}
    /\ rpos' = 0 /\ wpos' = 0
    /\ buffer' = [i \in 0 .. size - 1 |-> Uninit]
    /\ rx_overrun' = FALSE
    /\ Enable("idle")
    /\ UNCHANGED <<isrVars, size, callVars, histVars>>

End ==
    /\ At("idle")
    /\ usis' = {}
    /\ Disable("closed")
    /\ promised' = 0 /\ peeked' = NoByte /\ lost' = FALSE
    /\ UNCHANGED <<hw, isrVars, ringVars, rx_overrun, callVars, arrived, delivered>>

(* uart_rx_available: the ring is counted with the interrupt disabled, the
   FIFO after it is enabled again. *)

\* Mutant: the FIFO is counted under the mask and then once more.
AvailableRing_CountsFifo ==
    /\ At("idle")
    /\ swAvail' = Available
    /\ pc' = "available"
    /\ UNCHANGED <<hwVars, masked, isrVars, ringVars, rx_overrun, want, chunk, newSize, newBuf, histVars>>

AvailableRing ==
    /\ At("idle")
    /\ swAvail' = BufferAvailable
    /\ pc' = "available"
    /\ UNCHANGED <<hwVars, masked, isrVars, ringVars, rx_overrun, want, chunk, newSize, newBuf, histVars>>

AvailableFifo ==
    /\ At("available")
    /\ LET announced == swAvail + Len(hw)
       IN  promised' = IF announced > Capacity THEN Capacity ELSE announced
    /\ swAvail' = 0
    /\ pc' = "idle"
    /\ UNCHANGED <<hwVars, masked, isrVars, ringVars, rx_overrun, want, chunk, newSize, newBuf,
                   arrived, delivered, peeked, lost>>

(* uart_peek_char: an empty ring is first filled from the FIFO.            *)

PeekBegin ==
    /\ At("idle")
    /\ Disable(IF BufferAvailable = 0 /\ hw # <<>> THEN "peekCopy" ELSE "peek")
    /\ UNCHANGED <<hwVars, isrVars, ringVars, rx_overrun, callVars, histVars>>

PeekCopy ==
    /\ At("peekCopy")
    /\ CopyByte
    /\ UNCHANGED <<masked, isrVars, pc, callVars>>

PeekReturn ==
    /\ At("peek") \/ (At("peekCopy") /\ hw = <<>>)
    /\ peeked' = IF pc = "peek" /\ BufferAvailable = 0 THEN NoByte ELSE buffer[rpos]
    /\ Enable("idle")
    /\ UNCHANGED <<hwVars, isrVars, ringVars, rx_overrun, callVars, arrived, delivered, promised, lost>>

(* uart_read(usersize): the ring first, in linear chunks, then the FIFO.   *)

Deliver(bytes) ==
    /\ delivered' = delivered \o bytes
    /\ want' = want - Len(bytes)
    /\ promised' = Less(promised, Len(bytes))
    /\ peeked' = NoByte

ReadBegin(n) ==
    /\ At("idle")
    /\ want' = n
    /\ Disable("read")
    /\ UNCHANGED <<hwVars, isrVars, ringVars, rx_overrun, chunk, swAvail, newSize, newBuf, histVars>>

\* memcpy of the longest linear piece that is wanted
ReadChunk ==
    LET linear == IF rpos < wpos THEN wpos - rpos ELSE size - rpos
        n == IF linear > want THEN want ELSE linear
    IN  /\ At("read") /\ want > 0 /\ BufferAvailable > 0
        /\ Deliver([k \in 1..n |-> buffer[rpos + k - 1]])
        /\ chunk' = n
        /\ pc' = "readAdvance"
        /\ UNCHANGED <<hwVars, masked, isrVars, ringVars, rx_overrun, swAvail, newSize, newBuf,
                       arrived, lost>>

ReadAdvance ==
    /\ At("readAdvance")
    /\ rpos' = Advance(rpos, chunk)
    /\ chunk' = 0
    /\ pc' = "read"
    /\ UNCHANGED <<hwVars, masked, isrVars, size, wpos, buffer, rx_overrun, want, swAvail,
                   newSize, newBuf, histVars>>

\* Mutant: the FIFO is read although the ring holds older bytes.
ReadFifoBegin_Eager ==
    /\ At("read") /\ want > 0 /\ hw # <<>>
    /\ pc' = "readFifo"
    /\ UNCHANGED <<hwVars, masked, isrVars, ringVars, rx_overrun, callVars, histVars>>

\* the ring is empty: the inner loop takes the rest straight from the FIFO
ReadFifoBegin ==
    /\ At("read") /\ want > 0 /\ BufferAvailable = 0 /\ hw # <<>>
    /\ pc' = "readFifo"
    /\ UNCHANGED <<hwVars, masked, isrVars, ringVars, rx_overrun, callVars, histVars>>

ReadFifo ==
    /\ At("readFifo") /\ want > 0 /\ hw # <<>>
    /\ Deliver(<<Head(hw)>>)
    /\ hw' = Tail(hw)
    /\ UNCHANGED <<usis, masked, isrVars, ringVars, rx_overrun, pc, chunk, swAvail, newSize, newBuf,
                   arrived, lost>>

\* Mutant: a way out that leaves the interrupt disabled.
ReadReturn_Masked ==
    /\ \/ At("read") /\ (want = 0 \/ Available = 0)
       \/ At("readFifo") /\ (want = 0 \/ hw = <<>>)
    /\ want' = 0
    /\ pc' = "idle"
    /\ UNCHANGED <<masked, hwVars, isrVars, ringVars, rx_overrun, chunk, swAvail, newSize, newBuf, histVars>>

ReadReturn ==
    /\ \/ At("read") /\ (want = 0 \/ Available = 0)
       \/ At("readFifo") /\ (want = 0 \/ hw = <<>>)
    /\ want' = 0
    /\ Enable("idle")
    /\ UNCHANGED <<hwVars, isrVars, ringVars, rx_overrun, chunk, swAvail, newSize, newBuf, histVars>>

(* HardwareSerial::setRxBufferSize, uart_resize_rx_buffer: the held bytes
   are moved to a new buffer with the interrupt disabled. *)

SetSizeClosed(n) ==
    /\ At("closed") /\ n # size
    /\ size' = n
    /\ rpos' = 0 /\ wpos' = 0 /\ buffer' = [i \in 0 .. n - 1 |-> Uninit]
    /\ UNCHANGED <<hwVars, masked, isrVars, rx_overrun, pc, callVars, histVars>>

ResizeBegin(n) ==
    /\ At("idle") /\ n # size
    /\ newSize' = n /\ newBuf' = <<>>
    /\ Disable("resize")
    /\ promised' = 0 /\ peeked' = NoByte
    /\ UNCHANGED <<hwVars, isrVars, ringVars, rx_overrun, want, chunk, swAvail,
                   arrived, delivered, lost>>

\* new_buf[new_wpos++] = uart_read_char_unsafe(uart)
ResizeMove ==
    /\ At("resize") /\ Available > 0 /\ Len(newBuf) < newSize
    /\ newBuf' = Append(newBuf, IF BufferAvailable > 0 THEN buffer[rpos] ELSE NoByte)
    /\ rpos' = IF BufferAvailable > 0 THEN Advance(rpos, 1) ELSE rpos
    /\ UNCHANGED <<hwVars, masked, isrVars, size, wpos, buffer, rx_overrun, pc, want, chunk, swAvail,
                   newSize, histVars>>

\* Mutant: rpos is not reset for the new buffer.
ResizeReturn_KeepsRpos ==
    /\ At("resize") /\ (Available = 0 \/ Len(newBuf) = newSize)
    /\ size' = newSize
    /\ rpos' = rpos % newSize
    /\ wpos' = IF Len(newBuf) = newSize THEN 0 ELSE Len(newBuf)
    /\ buffer' = [i \in 0 .. newSize - 1 |-> IF i < Len(newBuf) THEN newBuf[i + 1] ELSE Uninit]
    /\ newSize' = 0 /\ newBuf' = <<>>
    /\ Enable("idle")
    /\ UNCHANGED <<hwVars, isrVars, rx_overrun, want, chunk, swAvail, histVars>>

\* A new buffer that is filled to its end counts as empty.
ResizeReturn ==
    /\ At("resize") /\ (Available = 0 \/ Len(newBuf) = newSize)
    /\ size' = newSize
    /\ rpos' = 0
    /\ wpos' = IF Len(newBuf) = newSize THEN 0 ELSE Len(newBuf)
    /\ buffer' = [i \in 0 .. newSize - 1 |-> IF i < Len(newBuf) THEN newBuf[i + 1] ELSE Uninit]
    /\ newSize' = 0 /\ newBuf' = <<>>
    /\ Enable("idle")
    /\ UNCHANGED <<hwVars, isrVars, rx_overrun, want, chunk, swAvail, histVars>>

(* uart_has_overrun: the flag is tested, then cleared, without the mask.   *)

HasOverrun ==
    /\ At("idle") /\ rx_overrun
    /\ pc' = "overrun"
    /\ UNCHANGED <<hwVars, masked, isrVars, ringVars, rx_overrun, callVars, histVars>>

HasOverrunClear ==
    /\ At("overrun")
    /\ rx_overrun' = FALSE
    /\ lost' = ("UIOF" \in usis)       \* the caller is told of every loss the flag stood for
    /\ pc' = "idle"
    /\ UNCHANGED <<hwVars, masked, isrVars, ringVars, callVars, arrived, delivered, promised, peeked>>

-----------------------------------------------------------------------------

Init ==
    /\ hw = <<>> /\ usis = {} /\ masked = TRUE
    /\ isr = "off" /\ seen = {}
    /\ size = InitSize /\ rpos = 0 /\ wpos = 0
    /\ buffer = [i \in 0 .. InitSize - 1 |-> Uninit]
    /\ rx_overrun = FALSE
    /\ pc = "closed"
    /\ want = 0 /\ chunk = 0 /\ swAvail = 0 /\ newSize = 0 /\ newBuf = <<>>
    /\ arrived = 0 /\ delivered = <<>> /\ promised = 0 /\ peeked = NoByte /\ lost = FALSE

Isr == IsrEnter \/ IsrCopy \/ IsrCopied \/ IsrAck

\* The steps of a call that has begun.
Continue ==
    \/ AvailableFifo
    \/ PeekCopy \/ PeekReturn
    \/ ReadChunk \/ ReadAdvance \/ ReadFifoBegin \/ ReadFifo \/ ReadReturn
    \/ ResizeMove \/ ResizeReturn
    \/ HasOverrunClear

\* The sketch begins a call.
Call ==
    \/ Begin \/ End
    \/ AvailableRing
    \/ PeekBegin
    \/ \E n \in 1..MaxBytes : ReadBegin(n)
    \/ \E n \in Sizes : SetSizeClosed(n) \/ ResizeBegin(n)
    \/ HasOverrun

Next == Arrive \/ Isr \/ Continue \/ Call

\* A pending interrupt is taken as soon as it is enabled, however short the
\* sketch leaves it enabled between two calls (strong fairness: the processor
\* needs no more than one instruction there); the handler runs to its end, and
\* a call that has begun is carried on.
Fairness ==
    /\ SF_vars(IsrEnter)
    /\ WF_vars(IsrCopy \/ IsrCopied \/ IsrAck)
    /\ WF_vars(Continue)

Spec == Init /\ [][Next]_vars /\ Fairness

-----------------------------------------------------------------------------
(* Properties. *)

Labels == {"closed", "idle", "available", "peek", "peekCopy", "read", "readAdvance", "readFifo",
           "resize", "overrun"}
Bits == {"UIFF", "UIOF"}

InterruptType ==
    /\ hw \in Seq(1..MaxBytes) /\ Len(hw) <= FifoDepth
    /\ usis \subseteq Bits /\ seen \subseteq Bits
    /\ masked \in BOOLEAN
    /\ isr \in {"off", "copy", "ack"}

RingType ==
    /\ size \in Sizes
    /\ rpos \in 0 .. size - 1 /\ wpos \in 0 .. size - 1
    /\ buffer \in [0 .. size - 1 -> Int]

CallType ==
    /\ pc \in Labels
    /\ want \in 0..MaxBytes
    /\ chunk \in 0..size /\ swAvail \in Nat
    /\ newSize \in Sizes \cup {0}
    /\ newBuf \in Seq(Int) /\ Len(newBuf) <= newSize

HistoryType ==
    /\ rx_overrun \in BOOLEAN /\ lost \in BOOLEAN
    /\ arrived \in 0..MaxBytes
    /\ delivered \in Seq(Int)
    /\ promised \in Nat
    /\ peeked \in Int

\* Every variable keeps its type; the indices of the ring stay inside the
\* buffer through every wrap and every resize (uart.cpp:128-180, 251-286,
\* 336-364).
TypeOK == InterruptType /\ RingType /\ CallType /\ HistoryType

\* The sketch is given bytes that arrived on the wire, in the order of their
\* arrival and none twice, whatever the handler did between and inside the
\* calls, whether a byte came from the ring or straight from the FIFO
\* (uart_read, uart.cpp:251-286), and across a resize of the ring: no byte of
\* a buffer that was never written, and no -1 of uart_read_char_unsafe.
DeliveredInOrder ==
    /\ \A i \in 1..Len(delivered) : delivered[i] \in 1..arrived
    /\ \A i, j \in 1..Len(delivered) : i < j => delivered[i] < delivered[j]

Held == Available - chunk

\* What available() announced is there when the sketch reads, up to the
\* capacity of the ring: the count is taken in two parts with the handler free
\* to run between them (uart.cpp:224-228), and bytes may be discarded later,
\* yet a read of min(announced, size - 1) bytes never comes up short.  The
\* bridge's readBytes relies on it (main.cpp:168-183).
AnnouncedIsHeld == promised <= Held

\* A byte that an overflow discarded, of the FIFO or of the ring, leaves a
\* trace that uart_has_overrun will find: no overrun flag is lost between the
\* handler's acknowledge (uart.cpp:389-398) and the test and clear of
\* uart_has_overrun, which runs unmasked (uart.cpp:863-872).
LossIsRecorded == lost => rx_overrun \/ "UIOF" \in usis \cup seen

\* peek() shows the byte that the next read returns, unless an overflow has
\* discarded it in the meantime (uart_peek_char_unsafe, uart.cpp:182-194).
PeekThenRead ==
    [][peeked # NoByte /\ delivered' # delivered => delivered'[Len(delivered) + 1] = peeked]_vars

\* The handler is never locked out for good: a FIFO at its trigger level is
\* emptied, so no snapshot-and-acknowledge of uart_isr loses an interrupt and
\* no call leaves the interrupt disabled.
FifoIsServed == (Open /\ Len(hw) >= IntrTrig) ~> (~Open \/ Len(hw) < IntrTrig)

\* The bytes that wait for the sketch: while a resize is on the way, those it
\* has moved come first, and once it has written a -1 they can no longer be
\* saved, for new_wpos will then reach new_size.
Spoiled == \E i \in 1..Len(newBuf) : newBuf[i] = NoByte
Moved   == IF Spoiled THEN <<>> ELSE newBuf
Unread  == RingSeq(size, rpos + chunk, BufferAvailable - chunk, buffer)
Waiting == IF Open THEN (Moved \o Unread) \o hw ELSE <<>>

Abstract == INSTANCE ByteQueue WITH queue <- Waiting

\* The driver is a byte queue: each step of the handler, of the wire and of a
\* call receives a byte, takes some from the front, discards the oldest, or
\* moves bytes between FIFO, ring and new buffer without anyone seeing it.
ImplementsByteQueue == Abstract!QSpec

=============================================================================
