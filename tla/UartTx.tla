------------------------------- MODULE UartTx -------------------------------
(***************************************************************************)
(* The UART's transmit side (cores/esp8266/uart.cpp, HardwareSerial.cpp):  *)
(* write() puts characters into the hardware FIFO and waits while it is    *)
(* full, availableForWrite() tells the room in it, flush() waits until all *)
(* is sent.                                                                *)
(*                                                                         *)
(* Time is counted in bits of the line.  The shift register takes the next *)
(* character from the FIFO when the last bit of a frame has been sent; the *)
(* FIFO does not count the character that is in it.                        *)
(***************************************************************************)
EXTENDS Integers, Sequences, FiniteSetsExt, SequencesExt

CONSTANTS
    UART_TX_FIFO_SIZE,
    Modes,       \* the values of the register USC0 that occur
    Sizes,       \* lengths of a write()
    MaxChars,    \* bounds of the model: characters written,
    MaxBegins    \* calls of begin()

\* SerialConfig: stop bits, data bits and parity; on UART0 the lines may be inverted.
SerialConfig == {16 * s + 4 * d + p : s \in {1, 3}, d \in 0..3, p \in {0, 2, 3}}
Inverted     == 33030144         \* the bits UCRXI to UCDTRI

ASSUME SizeAssumption == UART_TX_FIFO_SIZE \in Nat \ {0, 1}
ASSUME ModesAssumption == Modes \subseteq {c + v : c \in SerialConfig, v \in {0, Inverted}}
ASSUME BoundAssumption == Sizes \subseteq Nat /\ MaxChars \in Nat /\ MaxBegins \in Nat

VARIABLES
    mode,
    fifo,
    shift,       \* the character being sent and the bits left of its frame, if any
    line,        \* characters sent
    \* the sketch: what it does, the rest of the write(), the bits left of a delay
    pc, size, wait,
    \* history
    written,     \* characters accepted and not thrown away by begin()
    next,        \* the number of the next character
    guarded,     \* the write() is of one character, after availableForWrite() > 0
    spun,        \* bits it has waited for
    begins

wire    == <<fifo, shift, line>>
sketch  == <<pc, size, wait>>
history == <<written, next, guarded, spun, begins>>
vars    == <<mode, wire, sketch, history>>

-----------------------------------------------------------------------------

Field(m, bit, values) == (m \div bit) % values

\* The bits of a frame, as the hardware sends it: a start bit, 5 to 8 data
\* bits, one of parity if enabled, one or two stop bits.
FrameBits(m) ==
    1 + (5 + Field(m, 4, 4)) + Field(m, 2, 2) + (IF Field(m, 16, 4) = 1 THEN 1 ELSE 2)

\* Mutant: without the start bit.
uart_get_bit_length_NoStart(m) == (((m % 16) \div 4) + 5 + (m % 4) + (m \div 32) + 1) % 256

\* MODE2WIDTH + MODE2PARITY + MODE2STOP + 1, a uint8_t: what the inversion bits
\* add to MODE2STOP is cut off by the width, and the parity counts 2 or 3.
uart_get_bit_length(m) == (((m % 16) \div 4) + 5 + (m % 4) + (m \div 32) + 1 + 1) % 256

uart_tx_fifo_available == Len(fifo)

\* Mutant: full when there is no room at all, off by one.
uart_tx_fifo_full_Late == uart_tx_fifo_available > UART_TX_FIFO_SIZE

\* >= 0x7f
uart_tx_fifo_full == uart_tx_fifo_available >= UART_TX_FIFO_SIZE - 1
uart_tx_free      == UART_TX_FIFO_SIZE - uart_tx_fifo_available

Idle == pc = "idle"

Destroyed == 0       \* no character

\* USF(uart_nr) = c: the FIFO drops what it has no room for.
Put == fifo' = IF Len(fifo) < UART_TX_FIFO_SIZE THEN Append(fifo, next) ELSE fifo

\* The character in the shift register, unless begin() has destroyed it
InShift == IF shift = <<>> \/ shift[1].char = Destroyed THEN <<>> ELSE <<shift[1].char>>

\* One bit of time.  The frame goes on, the next one begins, a delay passes.
Load(f) == IF f = <<>> THEN <<>> ELSE <<[char |-> Head(f), bits |-> FrameBits(mode)]>>
Tick ==
    /\ shift # <<>> \/ fifo # <<>> \/ wait > 0
    /\ IF shift # <<>> /\ shift[1].bits > 1
       THEN /\ shift' = <<[shift[1] EXCEPT !.bits = @ - 1]>>
            /\ UNCHANGED <<fifo, line>>
       ELSE /\ shift' = Load(fifo)
            /\ fifo' = IF fifo = <<>> THEN fifo ELSE Tail(fifo)
            /\ line' = line \o InShift
    /\ wait' = IF wait > 0 THEN wait - 1 ELSE 0
    /\ spun' = IF pc = "write" /\ size > 0 /\ uart_tx_fifo_full THEN spun + 1 ELSE spun
    /\ UNCHANGED <<mode, pc, size, written, next, guarded, begins>>

\* write(buf, n)
Write(n) ==
    /\ Idle /\ next + n <= MaxChars + 1
    /\ pc' = "write" /\ size' = n /\ guarded' = FALSE /\ spun' = 0
    /\ UNCHANGED <<mode, wire, wait, written, next, begins>>

\* Mutant: more is written than the room that was asked for.
WriteIfAvailable_Two ==
    /\ Idle /\ next < MaxChars
    /\ uart_tx_free > 0
    /\ pc' = "write" /\ size' = 2 /\ guarded' = TRUE /\ spun' = 0
    /\ UNCHANGED <<mode, wire, wait, written, next, begins>>

\* while(... && uart.availableForWrite() > 0) uart.write(c), in loop()
WriteIfAvailable ==
    /\ Idle /\ next <= MaxChars
    /\ uart_tx_free > 0
    /\ pc' = "write" /\ size' = 1 /\ guarded' = TRUE /\ spun' = 0
    /\ UNCHANGED <<mode, wire, wait, written, next, begins>>

\* uart_do_write_char: waits, without a yield, while the FIFO is full.
WriteChar ==
    /\ pc = "write" /\ size > 0 /\ ~uart_tx_fifo_full
    /\ Put
    /\ size' = size - 1
    /\ written' = Append(written, next) /\ next' = next + 1
    /\ UNCHANGED <<mode, shift, line, pc, wait, guarded, spun, begins>>

WriteReturns ==
    /\ pc = "write" /\ size = 0
    /\ pc' = "idle"
    /\ UNCHANGED <<mode, wire, size, wait, history>>

\* flush: uart_wait_tx_empty yields with delay(0) until the FIFO is empty,
Flush ==
    /\ Idle /\ pc' = "flush"
    /\ UNCHANGED <<mode, wire, size, wait, history>>

\* when a callback may write too,
WriteInYield ==
    /\ pc = "flush" /\ next <= MaxChars /\ ~uart_tx_fifo_full
    /\ Put
    /\ written' = Append(written, next) /\ next' = next + 1
    /\ UNCHANGED <<mode, shift, line, sketch, guarded, spun, begins>>

\* and the frame that is in the shift register then is given its time.
FlushWaits ==
    /\ pc = "flush" /\ uart_tx_fifo_available = 0
    /\ pc' = "delay" /\ wait' = uart_get_bit_length(mode)
    /\ UNCHANGED <<mode, wire, size, history>>

FlushReturns ==
    /\ pc = "delay" /\ wait = 0
    /\ pc' = "flushed"
    /\ UNCHANGED <<mode, wire, size, wait, history>>

\* Back in the sketch; it may swap the pins now.
Continue ==
    /\ pc = "flushed" /\ pc' = "idle"
    /\ UNCHANGED <<mode, wire, size, wait, history>>

\* begin(): end() does not wait, it makes the pin an input, so that the frame
\* being sent is destroyed on the line, and uart_init resets the FIFO.
Begin(m) ==
    /\ Idle /\ begins < MaxBegins /\ begins' = begins + 1
    /\ mode' = m
    /\ fifo' = <<>>
    /\ shift' = IF shift = <<>> THEN <<>> ELSE <<[shift[1] EXCEPT !.char = Destroyed]>>
    /\ written' = line
    /\ UNCHANGED <<line, sketch, next, guarded, spun>>

-----------------------------------------------------------------------------

Init ==
    /\ mode \in Modes
    /\ fifo = <<>> /\ shift = <<>> /\ line = <<>>
    /\ pc = "idle" /\ size = 0 /\ wait = 0
    /\ written = <<>> /\ next = 1 /\ guarded = FALSE /\ spun = 0 /\ begins = 0

Call == WriteChar \/ WriteReturns \/ FlushWaits \/ FlushReturns \/ Continue

Next ==
    \/ Tick
    \/ \E n \in Sizes : Write(n)
    \/ WriteIfAvailable
    \/ Call
    \/ Flush \/ WriteInYield
    \/ \E m \in Modes : Begin(m)

Spec == Init /\ [][Next]_vars

-----------------------------------------------------------------------------
(* Properties.                                                             *)

LongestFrame == Max({FrameBits(m) : m \in Modes})

\* What was written is sent, in order and without a gap: the FIFO is never
\* given a character it has no room for (uart_tx_fifo_full, uart.cpp:467-479).
SentInOrder ==
    line \o InShift \o fifo = written

\* When flush() returns, the last stop bit of all that was written before has
\* left, for every frame format: the pins may be swapped or the baud rate set
\* (HardwareSerial.cpp:118, "bug in serial not actually being finished yet").
FlushMeansSent ==
    pc = "flushed" => line = written

\* availableForWrite() tells one place more than write() uses, so it is never 0
\* and a character that it lets pass may have to wait, but for one frame at most
\* (uart_tx_free, uart.cpp:515-522, against uart_tx_fifo_full, 467-471).
WritesWaitOneFrame ==
    guarded => spun <= LongestFrame

=============================================================================
