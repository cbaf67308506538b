---------------------------- MODULE UartTx_proofs ---------------------------
(***************************************************************************)
(* Theorems about the transmit side of the UART, for every depth of the    *)
(* FIFO, every set of frame formats and every length of a write.           *)
(***************************************************************************)
EXTENDS UartTx, SequenceTheorems, TLAPS

-----------------------------------------------------------------------------
(* The length of a frame.                                                  *)

LEMMA FieldsOf ==
    ASSUME NEW s \in {1, 3}, NEW d \in 0..3, NEW p \in {0, 2, 3}, NEW v \in {0, Inverted}
    PROVE  LET m == (16 * s + 4 * d + p) + v
           IN  /\ m \in Nat /\ FrameBits(m) \in 7..12
               /\ FrameBits(m) <= uart_get_bit_length(m) /\ uart_get_bit_length(m) \in Nat
  <1> DEFINE m == (16 * s + 4 * d + p) + v
  <1>1. m \in Nat
    BY DEF Inverted
  <1>2. /\ (m \div 4) % 4 = d /\ (m % 16) \div 4 = d /\ m % 4 = p
        /\ (m \div 2) % 2 = IF p = 0 THEN 0 ELSE 1
        /\ (m \div 16) % 4 = s
    BY DEF Inverted
  <1>3. (m \div 32) = (IF s = 1 THEN 0 ELSE 1) + IF v = 0 THEN 0 ELSE 1032192
    BY DEF Inverted
  <1>4. FrameBits(m) = 1 + (5 + d) + (IF p = 0 THEN 0 ELSE 1) + (IF s = 1 THEN 1 ELSE 2)
    BY <1>2 DEF FrameBits, Field
  <1>5. uart_get_bit_length(m) = 5 + d + p + (IF s = 1 THEN 0 ELSE 1) + 2
    BY <1>2, <1>3 DEF uart_get_bit_length, Inverted
  <1> HIDE DEF m
  <1> QED
    BY <1>1, <1>4, <1>5 DEF m

LEMMA Frames ==
    ASSUME NEW m \in Modes
    PROVE  /\ FrameBits(m) \in 7..12
           /\ FrameBits(m) <= uart_get_bit_length(m) /\ uart_get_bit_length(m) \in Nat
  <1>1. PICK s \in {1, 3}, d \in 0..3, p \in {0, 2, 3}, v \in {0, Inverted} : m = (16 * s + 4 * d + p) + v
    BY ModesAssumption DEF SerialConfig
  <1> QED
    BY <1>1, FieldsOf

\* There is a longest frame.
LEMMA Longest ==
    ASSUME NEW m \in Modes
    PROVE  LongestFrame \in 7..12 /\ FrameBits(m) <= LongestFrame
  <1> DEFINE S == {FrameBits(k) : k \in Modes}
  <1>1. S \subseteq 7..12 /\ FrameBits(m) \in S
    BY Frames
  <1> HIDE DEF S
  <1>2. \E x \in S : \A y \in S : x >= y
    <2>1. \A y \in S : y \in Int /\ y >= 7 /\ y <= 12
      BY <1>1
    <2>2. CASE 12 \in S
      BY <2>1, <2>2
    <2>3. CASE 12 \notin S /\ 11 \in S
      BY <2>1, <2>3
    <2>4. CASE 12 \notin S /\ 11 \notin S /\ 10 \in S
      BY <2>1, <2>4
    <2>5. CASE 12 \notin S /\ 11 \notin S /\ 10 \notin S /\ 9 \in S
      BY <2>1, <2>5
    <2>6. CASE 12 \notin S /\ 11 \notin S /\ 10 \notin S /\ 9 \notin S /\ 8 \in S
      BY <2>1, <2>6
    <2>7. CASE 12 \notin S /\ 11 \notin S /\ 10 \notin S /\ 9 \notin S /\ 8 \notin S
      <3>1. \A y \in S : y = 7
        BY <2>1, <2>7
      <3> QED
        BY <1>1, <2>1, <3>1
    <2> QED
      BY <2>2, <2>3, <2>4, <2>5, <2>6, <2>7
  <1>3. Max(S) \in S /\ \A y \in S : Max(S) >= y
    BY <1>2 DEF Max
  <1>4. LongestFrame = Max(S)
    BY DEF LongestFrame, S
  <1> QED
    BY <1>1, <1>3, <1>4

-----------------------------------------------------------------------------
(* The invariant.                                                          *)

\* A frame in the shift register: a character, or what begin() left of it.
Frame == [char : Nat, bits : 1..12]

Types ==
    /\ mode \in Modes
    /\ fifo \in Seq(Nat \ {0}) /\ Len(fifo) <= UART_TX_FIFO_SIZE
    /\ line \in Seq(Nat) /\ written \in Seq(Nat)
    /\ shift = <<>> \/ \E r \in Frame : shift = <<r>>
    /\ pc \in {"idle", "write", "flush", "delay", "flushed"} /\ size \in Nat /\ wait \in Nat
    /\ next \in Nat \ {0} /\ guarded \in BOOLEAN /\ spun \in Nat

\* The bits that are left of the character in the shift register, and whether
\* it is one that will be received.
BitsLeft == IF shift = <<>> THEN 0 ELSE shift[1].bits
Whole    == shift # <<>> /\ shift[1].char # Destroyed

\* No frame is longer than the longest one, and one that begin() has not
\* destroyed was begun in the mode that is set now.
Fits ==
    /\ BitsLeft <= LongestFrame
    /\ Whole => BitsLeft <= FrameBits(mode)

\* From the moment flush() has found the FIFO empty: what is left of the last
\* frame is sent before the delay is over.
Draining ==
    /\ pc \in {"delay", "flushed"} => fifo = <<>>
    /\ pc = "delay" /\ Whole => BitsLeft <= wait
    /\ pc = "flushed" => ~Whole

\* A write() of one character for which there was room finds the FIFO full at
\* most until the line takes the next character.
Spinning ==
    guarded =>
        /\ spun <= LongestFrame
        /\ pc = "write" /\ size > 0 =>
              /\ size = 1
              /\ uart_tx_fifo_full => /\ Len(fifo) = UART_TX_FIFO_SIZE - 1
                                      /\ spun + (IF shift = <<>> THEN 1 ELSE BitsLeft) <= LongestFrame

Inv == Types /\ Fits /\ Draining /\ Spinning /\ SentInOrder

LEMMA Shifting ==
    ASSUME Types
    PROVE  /\ UART_TX_FIFO_SIZE \in Nat /\ UART_TX_FIFO_SIZE >= 2 /\ Len(fifo) \in Nat /\ mode \in Modes
           /\ LongestFrame \in 7..12 /\ FrameBits(mode) \in 7..12 /\ FrameBits(mode) <= LongestFrame
           /\ BitsLeft \in 0..12
           /\ shift # <<>> => /\ shift = <<[char |-> shift[1].char, bits |-> BitsLeft]>>
                              /\ shift[1].char \in Nat /\ shift[1].bits = BitsLeft /\ BitsLeft >= 1
           /\ InShift \in Seq(Nat) /\ InShift = IF Whole THEN <<shift[1].char>> ELSE <<>>
  <1>1. /\ UART_TX_FIFO_SIZE \in Nat /\ UART_TX_FIFO_SIZE >= 2 /\ Len(fifo) \in Nat /\ mode \in Modes
        /\ LongestFrame \in 7..12 /\ FrameBits(mode) \in 7..12 /\ FrameBits(mode) <= LongestFrame
    BY SizeAssumption, LenProperties, Frames, Longest DEF Types
  <1>2. CASE shift = <<>>
    BY <1>1, <1>2 DEF BitsLeft, Whole, InShift
  <1>3. CASE shift # <<>>
    <2>1. PICK r \in Frame : shift = <<r>>
      BY <1>3 DEF Types
    <2>2. shift[1] = r /\ r = [char |-> r.char, bits |-> r.bits] /\ r.char \in Nat /\ r.bits \in 1..12
      BY <2>1 DEF Frame
    <2>3. BitsLeft = r.bits /\ (Whole <=> r.char # Destroyed)
      BY <1>3, <2>2 DEF BitsLeft, Whole
    <2>4. InShift \in Seq(Nat) /\ InShift = IF Whole THEN <<shift[1].char>> ELSE <<>>
      BY <1>3, <2>2, <2>3 DEF InShift
    <2> QED
      BY <1>1, <1>3, <2>1, <2>2, <2>3, <2>4
  <1> QED
    BY <1>2, <1>3

\* What a bit of time does to the line and the FIFO.
Shifts == shift' = <<[char |-> shift[1].char, bits |-> BitsLeft - 1]>> /\ UNCHANGED <<fifo, line>>
Loads  == /\ fifo # <<>> /\ shift' = <<[char |-> Head(fifo), bits |-> FrameBits(mode)]>>
          /\ fifo' = Tail(fifo) /\ line' = line \o InShift
Stops  == fifo = <<>> /\ shift' = <<>> /\ UNCHANGED fifo /\ line' = line \o InShift

LEMMA TickCases ==
    ASSUME Types, Tick
    PROVE  /\ (BitsLeft > 1 /\ Shifts) \/ (BitsLeft <= 1 /\ (Loads \/ Stops))
           /\ UNCHANGED <<mode, pc, size, written, next, guarded, begins>>
           /\ wait' = IF wait > 0 THEN wait - 1 ELSE 0
           /\ spun' = IF pc = "write" /\ size > 0 /\ uart_tx_fifo_full THEN spun + 1 ELSE spun
  <1>0. /\ BitsLeft \in 0..12
        /\ shift # <<>> => /\ shift = <<[char |-> shift[1].char, bits |-> BitsLeft]>>
                           /\ shift[1].bits = BitsLeft /\ BitsLeft >= 1
    BY Shifting
  <1>1. CASE shift # <<>> /\ shift[1].bits > 1
    <2>1. shift' = <<[shift[1] EXCEPT !.bits = @ - 1]>> /\ UNCHANGED <<fifo, line>>
      BY <1>1 DEF Tick
    <2>2. shift[1] = [char |-> shift[1].char, bits |-> BitsLeft]
      BY <1>0, <1>1
    <2>3. [shift[1] EXCEPT !.bits = @ - 1] = [char |-> shift[1].char, bits |-> BitsLeft - 1]
      BY <2>2
    <2> QED
      BY <1>0, <1>1, <2>1, <2>3 DEF Shifts, Tick
  <1>2. CASE ~(shift # <<>> /\ shift[1].bits > 1)
    <2>1. shift' = Load(fifo) /\ fifo' = (IF fifo = <<>> THEN fifo ELSE Tail(fifo)) /\ line' = line \o InShift
      BY <1>2 DEF Tick
    <2>2. BitsLeft <= 1
      BY <1>0, <1>2 DEF BitsLeft
    <2>3. Loads \/ Stops
      BY <2>1 DEF Loads, Stops, Load
    <2> QED
      BY <2>2, <2>3 DEF Tick
  <1> QED
    BY <1>1, <1>2

\* The first character of the FIFO on its way through the shift register.
LEMMA HeadThenTail ==
    ASSUME NEW f \in Seq(Nat \ {0}), f # <<>>
    PROVE  /\ Head(f) \in Nat \ {0} /\ Tail(f) \in Seq(Nat \ {0}) /\ Len(Tail(f)) = Len(f) - 1
           /\ <<Head(f)>> \o Tail(f) = f
  <1>1. /\ Head(f) \in Nat \ {0} /\ Tail(f) \in Seq(Nat \ {0}) /\ Len(Tail(f)) = Len(f) - 1 /\ Len(f) \in Nat
        /\ Head(f) = f[1] /\ \A k \in 1..Len(f) - 1 : Tail(f)[k] = f[k + 1]
    BY HeadTailProperties, LenProperties
  <1> DEFINE h == <<Head(f)>>
             t == Tail(f)
  <1>2. h \in Seq(Nat \ {0}) /\ Len(h) = 1 /\ h[1] = Head(f)
    BY <1>1
  <1> HIDE DEF h, t
  <1>3. h \o t \in Seq(Nat \ {0}) /\ Len(h \o t) = Len(f)
        /\ \A k \in 1..Len(f) : (h \o t)[k] = IF k <= 1 THEN h[k] ELSE t[k - 1]
    <2>1. t \in Seq(Nat \ {0}) /\ 1 + Len(t) = Len(f)
      BY <1>1 DEF t
    <2>2. /\ h \o t \in Seq(Nat \ {0}) /\ Len(h \o t) = Len(h) + Len(t)
          /\ \A k \in 1..Len(h) + Len(t) : (h \o t)[k] = IF k <= Len(h) THEN h[k] ELSE t[k - Len(h)]
      BY <1>2, <2>1, ConcatProperties
    <2> QED
      BY <1>2, <2>1, <2>2
  <1>4. ASSUME NEW k \in 1..Len(f) PROVE (h \o t)[k] = f[k]
    <2>1. CASE k = 1
      BY SMTT(30), <1>1, <1>2, <1>3, <2>1
    <2>2. CASE k # 1
      <3>1. k - 1 \in 1..Len(f) - 1 /\ k - 1 + 1 = k /\ ~(k <= 1)
        BY <1>1, <2>2
      <3> QED
        BY <1>1, <1>3, <3>1 DEF t
    <2> QED
      BY <2>1, <2>2
  <1>5. h \o t = f
    BY <1>3, <1>4, SeqEqual
  <1> QED
    BY <1>1, <1>5 DEF h, t

-----------------------------------------------------------------------------
(* A bit of time.                                                          *)

LEMMA TickStep ==
    ASSUME Inv, Tick
    PROVE  Inv'
  <1> USE DEF Inv
  <1>0. /\ UART_TX_FIFO_SIZE \in Nat /\ UART_TX_FIFO_SIZE >= 2 /\ Len(fifo) \in Nat
        /\ LongestFrame \in 7..12 /\ FrameBits(mode) \in 7..12 /\ FrameBits(mode) <= LongestFrame
        /\ BitsLeft \in 0..12 /\ InShift \in Seq(Nat)
        /\ fifo \in Seq(Nat \ {0}) /\ Len(fifo) <= UART_TX_FIFO_SIZE /\ line \in Seq(Nat) /\ written \in Seq(Nat)
        /\ wait \in Nat /\ spun \in Nat /\ size \in Nat /\ guarded \in BOOLEAN
    BY Shifting DEF Types
  <1>1. /\ (BitsLeft > 1 /\ Shifts) \/ (BitsLeft <= 1 /\ (Loads \/ Stops))
        /\ UNCHANGED <<mode, pc, size, written, next, guarded, begins>>
        /\ wait' = IF wait > 0 THEN wait - 1 ELSE 0
        /\ spun' = IF pc = "write" /\ size > 0 /\ uart_tx_fifo_full THEN spun + 1 ELSE spun
    BY TickCases
  <1>2. wait' \in Nat /\ spun' \in Nat
    BY <1>0, <1>1
  <1>3. line \o InShift \in Seq(Nat)
    BY <1>0, ConcatProperties
  <1>4. CASE Shifts
    <2>1. BitsLeft > 1 /\ shift # <<>> /\ shift[1].char \in Nat
      <3>1. BitsLeft > 1
        BY <1>1, <1>4, Shifting DEF Shifts, Loads, Stops
      <3>2. shift # <<>>
        BY <3>1 DEF BitsLeft
      <3> QED
        BY <3>1, <3>2, Shifting
    <2>2. shift' # <<>> /\ BitsLeft' = BitsLeft - 1 /\ shift'[1].char = shift[1].char
      BY <1>4 DEF Shifts, BitsLeft
    <2>3. Types'
      <3>1. [char |-> shift[1].char, bits |-> BitsLeft - 1] \in Frame
        BY <1>0, <2>1 DEF Frame
      <3> QED
        BY <1>0, <1>1, <1>2, <1>4, <3>1 DEF Types, Shifts
    <2>4. (Whole' <=> Whole) /\ InShift' = InShift
      BY <2>1, <2>2 DEF Whole, InShift
    <2>5. SentInOrder'
      BY <1>1, <1>4, <2>4 DEF SentInOrder, Shifts
    <2>6. Fits'
      BY <1>0, <1>1, <2>2, <2>4 DEF Fits
    <2>7. Draining'
      <3>1. BitsLeft <= wait => BitsLeft' <= wait'
        BY <1>0, <1>1, <2>1, <2>2
      <3> QED
        BY <1>1, <1>4, <2>4, <3>1 DEF Draining, Shifts
    <2>8. Spinning'
      <3>1. (uart_tx_fifo_full' <=> uart_tx_fifo_full) /\ Len(fifo') = Len(fifo)
        BY <1>4 DEF Shifts, uart_tx_fifo_full, uart_tx_fifo_available
      <3>2. CASE guarded /\ pc = "write" /\ size > 0 /\ uart_tx_fifo_full
        <4>1. size = 1 /\ Len(fifo) = UART_TX_FIFO_SIZE - 1 /\ spun + BitsLeft <= LongestFrame
          BY <2>1, <3>2 DEF Spinning
        <4>2. spun' = spun + 1 /\ spun' + BitsLeft' <= LongestFrame /\ spun' <= LongestFrame
          BY <1>0, <1>1, <2>1, <2>2, <3>2, <4>1
        <4> QED
          BY <1>1, <2>2, <3>1, <4>1, <4>2 DEF Spinning
      <3>3. CASE ~(guarded /\ pc = "write" /\ size > 0 /\ uart_tx_fifo_full)
        BY <1>1, <3>1, <3>3 DEF Spinning
      <3> QED
        BY <3>2, <3>3
    <2> QED
      BY <2>3, <2>5, <2>6, <2>7, <2>8
  <1>5. CASE Loads
    <2>1. Head(fifo) \in Nat \ {0} /\ fifo' \in Seq(Nat \ {0}) /\ Len(fifo') = Len(fifo) - 1
          /\ <<Head(fifo)>> \o fifo' = fifo /\ fifo # <<>>
      BY <1>0, <1>5, HeadThenTail DEF Loads
    <2>2. shift' = <<[char |-> Head(fifo), bits |-> FrameBits(mode)]>> /\ line' = line \o InShift
      BY <1>5 DEF Loads
    <2>3. shift' # <<>> /\ BitsLeft' = FrameBits(mode) /\ InShift' = <<Head(fifo)>>
      BY <2>1, <2>2 DEF BitsLeft, InShift, Destroyed
    <2>4. Types'
      <3>1. [char |-> Head(fifo), bits |-> FrameBits(mode)] \in Frame
        BY <1>0, <2>1 DEF Frame
      <3>2. shift' = <<>> \/ \E r \in Frame : shift' = <<r>>
        BY <2>2, <3>1
      <3>3. fifo' \in Seq(Nat \ {0}) /\ Len(fifo') <= UART_TX_FIFO_SIZE /\ line' \in Seq(Nat)
        BY <1>0, <1>3, <2>1, <2>2
      <3> QED
        BY <1>1, <1>2, <3>2, <3>3 DEF Types
    <2>5. SentInOrder'
      <3>1. <<Head(fifo)>> \in Seq(Nat) /\ fifo' \in Seq(Nat)
        <4>1. fifo' \in Seq(Nat)
          BY <2>1
        <4> QED
          BY <2>1, <4>1
      <3>2. ((line \o InShift) \o <<Head(fifo)>>) \o fifo' = (line \o InShift) \o (<<Head(fifo)>> \o fifo')
        BY SMTT(30), <1>3, <3>1, ConcatAssociative
      <3> QED
        BY <1>1, <2>1, <2>2, <2>3, <3>2 DEF SentInOrder
    <2>6. Fits'
      BY <1>0, <1>1, <2>3 DEF Fits
    <2>7. Draining'
      BY <1>1, <2>1 DEF Draining
    <2>8. Spinning'
      <3>1. Len(fifo') = Len(fifo) - 1 /\ (uart_tx_fifo_full' <=> Len(fifo) - 1 >= UART_TX_FIFO_SIZE - 1)
            /\ (uart_tx_fifo_full <=> Len(fifo) >= UART_TX_FIFO_SIZE - 1)
        BY <2>1 DEF uart_tx_fifo_full, uart_tx_fifo_available
      <3>2. CASE guarded /\ pc = "write" /\ size > 0 /\ uart_tx_fifo_full
        <4>1. size = 1 /\ Len(fifo) = UART_TX_FIFO_SIZE - 1
              /\ spun + (IF shift = <<>> THEN 1 ELSE BitsLeft) <= LongestFrame
          BY <3>2 DEF Spinning
        <4>2. (IF shift = <<>> THEN 1 ELSE BitsLeft) >= 1
          BY Shifting
        <4>3. spun' = spun + 1 /\ spun' <= LongestFrame
          BY <1>0, <1>1, <3>2, <4>1, <4>2
        <4>4. ~uart_tx_fifo_full'
          BY <1>0, <3>1, <4>1
        <4> QED
          BY <1>1, <4>1, <4>3, <4>4 DEF Spinning
      <3>3. CASE ~(guarded /\ pc = "write" /\ size > 0 /\ uart_tx_fifo_full)
        <4>1. uart_tx_fifo_full' => uart_tx_fifo_full
          BY <1>0, <3>1
        <4> QED
          BY <1>1, <3>3, <4>1 DEF Spinning
      <3> QED
        BY <3>2, <3>3
    <2> QED
      BY <2>4, <2>5, <2>6, <2>7, <2>8
  <1>6. CASE Stops
    <2>1. fifo = <<>> /\ shift' = <<>> /\ fifo' = <<>> /\ line' = line \o InShift
      BY <1>6 DEF Stops
    <2>2. BitsLeft' = 0 /\ ~Whole' /\ InShift' = <<>>
      BY <2>1 DEF BitsLeft, Whole, InShift
    <2>3. Types'
      <3>1. line' \in Seq(Nat) /\ fifo' \in Seq(Nat \ {0}) /\ Len(fifo') <= UART_TX_FIFO_SIZE
        BY <1>0, <1>3, <2>1
      <3> QED
        BY <1>1, <1>2, <2>1, <3>1 DEF Types
    <2>4. SentInOrder'
      <3>1. (line \o InShift) \o <<>> = line \o InShift
        BY <1>3, ConcatEmptySeq
      <3>2. ((line \o InShift) \o <<>>) \o <<>> = line \o InShift
        BY <3>1
      <3>3. written = line \o InShift
        BY <2>1, <3>1 DEF SentInOrder
      <3> QED
        BY <1>1, <2>1, <2>2, <3>2, <3>3 DEF SentInOrder
    <2>5. Fits' /\ Draining'
      BY <1>0, <1>1, <2>1, <2>2 DEF Fits, Draining
    <2>6. Spinning'
      <3>1. ~uart_tx_fifo_full /\ ~uart_tx_fifo_full'
        <4>1. Len(<<>>) = 0
          OBVIOUS
        <4> QED
          BY <1>0, <2>1, <4>1 DEF uart_tx_fifo_full, uart_tx_fifo_available
      <3> QED
        BY <1>1, <3>1 DEF Spinning
    <2> QED
      BY <2>3, <2>4, <2>5, <2>6
  <1> QED
    BY <1>1, <1>4, <1>5, <1>6

-----------------------------------------------------------------------------
(* The calls.                                                              *)

\* A character is put into a FIFO that has room for it.
LEMMA PutStep ==
    ASSUME Inv, Put, ~uart_tx_fifo_full,
           written' = Append(written, next), next' = next + 1, UNCHANGED <<mode, shift, line>>
    PROVE  /\ fifo' \in Seq(Nat \ {0}) /\ Len(fifo') <= UART_TX_FIFO_SIZE
           /\ written' \in Seq(Nat) /\ next' \in Nat \ {0}
           /\ SentInOrder' /\ Fits' /\ (Whole' <=> Whole) /\ BitsLeft' = BitsLeft
  <1>0. /\ UART_TX_FIFO_SIZE \in Nat /\ Len(fifo) \in Nat /\ fifo \in Seq(Nat \ {0}) /\ fifo \in Seq(Nat)
        /\ line \in Seq(Nat) /\ written \in Seq(Nat) /\ InShift \in Seq(Nat) /\ next \in Nat \ {0}
    <2>1. fifo \in Seq(Nat \ {0})
      BY DEF Inv, Types
    <2>2. fifo \in Seq(Nat)
      BY <2>1
    <2> QED
      BY <2>1, <2>2, Shifting DEF Inv, Types
  <1>1. Len(fifo) < UART_TX_FIFO_SIZE - 1 /\ fifo' = Append(fifo, next)
    <2>1. Len(fifo) < UART_TX_FIFO_SIZE - 1
      BY <1>0 DEF uart_tx_fifo_full, uart_tx_fifo_available
    <2> QED
      BY <1>0, <2>1 DEF Put
  <1>2. fifo' \in Seq(Nat \ {0}) /\ Len(fifo') = Len(fifo) + 1
    BY <1>0, <1>1, AppendProperties
  <1>3. written' \in Seq(Nat) /\ next' \in Nat \ {0}
    BY <1>0, AppendProperties
  <1>4. SentInOrder'
    <2> DEFINE sent == line \o InShift
    <2>1. sent \in Seq(Nat) /\ <<next>> \in Seq(Nat) /\ next \in Nat
      BY <1>0, ConcatProperties
    <2>2. written = sent \o fifo
      BY DEF Inv, SentInOrder
    <2>3. Append(written, next) = written \o <<next>> /\ Append(fifo, next) = fifo \o <<next>>
      BY <1>0, <2>1, AppendIsConcat
    <2>4. sent' = sent
      BY DEF InShift
    <2> HIDE DEF sent
    <2>5. (sent \o fifo) \o <<next>> = sent \o (fifo \o <<next>>)
      <3>1. sent \in Seq(Nat) /\ fifo \in Seq(Nat) /\ <<next>> \in Seq(Nat)
        BY <1>0, <2>1
      <3> HIDE <1>0, <2>1
      <3> QED
        BY SMTT(30), <3>1, ConcatAssociative
    <2>6. written' = sent' \o fifo'
      BY <1>1, <2>2, <2>3, <2>4, <2>5
    <2> QED
      BY <2>6 DEF SentInOrder, sent
  <1>5. Fits' /\ (Whole' <=> Whole) /\ BitsLeft' = BitsLeft
    BY DEF Inv, Fits, Whole, BitsLeft
  <1> QED
    BY <1>0, <1>1, <1>2, <1>3, <1>4, <1>5

LEMMA InvStep == Inv /\ [Next]_vars => Inv'
  <1> SUFFICES ASSUME Inv, [Next]_vars PROVE Inv'
    OBVIOUS
  <1>0. /\ Types /\ Fits /\ Draining /\ Spinning /\ SentInOrder
        /\ UART_TX_FIFO_SIZE \in Nat /\ UART_TX_FIFO_SIZE >= 2 /\ Len(fifo) \in Nat
        /\ LongestFrame \in 7..12 /\ FrameBits(mode) \in 7..12 /\ FrameBits(mode) <= LongestFrame
        /\ BitsLeft \in 0..12 /\ (shift # <<>> => BitsLeft >= 1)
    BY Shifting DEF Inv
  <1>k. ASSUME UNCHANGED <<mode, fifo, shift, line, written>>
        PROVE  /\ Fits' /\ SentInOrder' /\ (Whole' <=> Whole) /\ BitsLeft' = BitsLeft
               /\ (uart_tx_fifo_full' <=> uart_tx_fifo_full) /\ Len(fifo') = Len(fifo)
    BY <1>0, <1>k DEF Fits, SentInOrder, Whole, BitsLeft, InShift, uart_tx_fifo_full, uart_tx_fifo_available
  <1>1. CASE Tick
    BY <1>1, TickStep
  <1>2. ASSUME NEW n \in Sizes, Write(n) PROVE Inv'
    <2>1. UNCHANGED <<mode, fifo, shift, line, written, wait, next>> /\ pc' = "write" /\ size' = n
          /\ guarded' = FALSE /\ spun' = 0 /\ n \in Nat
      BY <1>2, BoundAssumption DEF Write, wire
    <2> QED
      BY <1>0, <1>k, <2>1 DEF Inv, Types, Draining, Spinning
  <1>3. CASE WriteIfAvailable
    <2>1. UNCHANGED <<mode, fifo, shift, line, written, wait, next>> /\ pc' = "write" /\ size' = 1
          /\ guarded' = TRUE /\ spun' = 0 /\ uart_tx_free > 0
      BY <1>3 DEF WriteIfAvailable, wire
    <2>2. Len(fifo) < UART_TX_FIFO_SIZE
      BY <1>0, <2>1 DEF uart_tx_free, uart_tx_fifo_available
    <2>3. uart_tx_fifo_full' => Len(fifo') = UART_TX_FIFO_SIZE - 1
      BY <1>0, <2>1, <2>2 DEF uart_tx_fifo_full, uart_tx_fifo_available
    <2>4. spun' + (IF shift' = <<>> THEN 1 ELSE BitsLeft') <= LongestFrame /\ spun' <= LongestFrame
      BY <1>0, <1>k, <2>1 DEF Fits
    <2>5. Spinning'
      BY <2>1, <2>3, <2>4 DEF Spinning
    <2> QED
      BY <1>0, <1>k, <2>1, <2>5 DEF Inv, Types, Draining
  <1>4. CASE WriteChar
    <2>1. /\ pc = "write" /\ size > 0 /\ ~uart_tx_fifo_full /\ Put /\ size' = size - 1
          /\ written' = Append(written, next) /\ next' = next + 1
          /\ UNCHANGED <<mode, shift, line, pc, wait, guarded, spun, begins>>
      BY <1>4 DEF WriteChar
    <2>2. /\ fifo' \in Seq(Nat \ {0}) /\ Len(fifo') <= UART_TX_FIFO_SIZE
          /\ written' \in Seq(Nat) /\ next' \in Nat \ {0}
          /\ SentInOrder' /\ Fits' /\ (Whole' <=> Whole) /\ BitsLeft' = BitsLeft
      BY <2>1, PutStep
    <2>3. size' \in Nat /\ (guarded => size' = 0)
      BY <1>0, <2>1 DEF Types, Spinning
    <2>4. Types'
      BY <1>0, <2>1, <2>2, <2>3 DEF Types
    <2>5. Draining'
      BY <2>1 DEF Draining
    <2>6. Spinning'
      BY <1>0, <2>1, <2>3 DEF Spinning
    <2> QED
      BY <2>2, <2>4, <2>5, <2>6 DEF Inv
  <1>5. CASE WriteInYield
    <2>1. /\ pc = "flush" /\ ~uart_tx_fifo_full /\ Put
          /\ written' = Append(written, next) /\ next' = next + 1
          /\ UNCHANGED <<mode, shift, line, pc, size, wait, guarded, spun, begins>>
      BY <1>5 DEF WriteInYield, sketch
    <2>2. /\ fifo' \in Seq(Nat \ {0}) /\ Len(fifo') <= UART_TX_FIFO_SIZE
          /\ written' \in Seq(Nat) /\ next' \in Nat \ {0}
          /\ SentInOrder' /\ Fits' /\ (Whole' <=> Whole) /\ BitsLeft' = BitsLeft
      BY <2>1, PutStep
    <2>3. Types'
      BY <1>0, <2>1, <2>2 DEF Types
    <2>4. Draining' /\ Spinning'
      BY <1>0, <2>1 DEF Draining, Spinning
    <2> QED
      BY <2>2, <2>3, <2>4 DEF Inv
  <1>6. CASE WriteReturns \/ Flush \/ Continue
    <2>1. UNCHANGED <<mode, fifo, shift, line, size, wait, written, next, guarded, spun, begins>>
          /\ pc' \in {"idle", "flush"}
      BY <1>6 DEF WriteReturns, Flush, Continue, wire, history
    <2> QED
      BY <1>0, <1>k, <2>1 DEF Inv, Types, Draining, Spinning
  <1>7. CASE FlushWaits
    <2>1. /\ UNCHANGED <<mode, fifo, shift, line, size, written, next, guarded, spun, begins>>
          /\ pc' = "delay" /\ wait' = uart_get_bit_length(mode) /\ Len(fifo) = 0
      BY <1>7 DEF FlushWaits, wire, history, uart_tx_fifo_available
    <2>2. FrameBits(mode) <= wait' /\ wait' \in Nat
      BY <1>0, <2>1, Frames DEF Types
    <2>3. fifo' = <<>>
      <3>1. fifo \in Seq(Nat \ {0})
        BY <1>0 DEF Types
      <3> QED
        BY <2>1, <3>1, EmptySeq
    <2>4. Whole => BitsLeft <= wait'
      BY <1>0, <2>2 DEF Fits
    <2>5. Types'
      BY <1>0, <2>1, <2>2 DEF Types
    <2> QED
      BY <1>0, <1>k, <2>1, <2>3, <2>4, <2>5 DEF Inv, Draining, Spinning
  <1>8. CASE FlushReturns
    <2>1. UNCHANGED <<mode, fifo, shift, line, size, wait, written, next, guarded, spun, begins>>
          /\ pc = "delay" /\ wait = 0 /\ pc' = "flushed"
      BY <1>8 DEF FlushReturns, wire, history
    <2>2. ~Whole
      BY <1>0, <2>1 DEF Draining, Whole
    <2> QED
      BY <1>0, <1>k, <2>1, <2>2 DEF Inv, Types, Draining, Spinning
  <1>9. ASSUME NEW m \in Modes, Begin(m) PROVE Inv'
    <2>1. /\ mode' = m /\ fifo' = <<>> /\ written' = line /\ pc = "idle"
          /\ shift' = IF shift = <<>> THEN <<>> ELSE <<[shift[1] EXCEPT !.char = Destroyed]>>
          /\ UNCHANGED <<line, pc, size, wait, next, guarded, spun>>
      BY <1>9 DEF Begin, Idle, sketch
    <2>2. /\ shift' = <<>> \/ \E r \in Frame : shift' = <<r>>
          /\ BitsLeft' = BitsLeft /\ ~Whole' /\ InShift' = <<>>
      <3>1. CASE shift = <<>>
        BY <2>1, <3>1 DEF BitsLeft, Whole, InShift
      <3>2. CASE shift # <<>>
        <4>1. PICK r \in Frame : shift = <<r>>
          BY <1>0, <3>2 DEF Types
        <4>2. shift' = <<[r EXCEPT !.char = Destroyed]>> /\ [r EXCEPT !.char = Destroyed] \in Frame
              /\ [r EXCEPT !.char = Destroyed].bits = r.bits /\ [r EXCEPT !.char = Destroyed].char = Destroyed
          BY <2>1, <3>2, <4>1 DEF Frame, Destroyed
        <4> QED
          BY <3>2, <4>1, <4>2 DEF BitsLeft, Whole, InShift
      <3> QED
        BY <3>1, <3>2
    <2>3. Types'
      <3>1. fifo' \in Seq(Nat \ {0}) /\ Len(fifo') <= UART_TX_FIFO_SIZE
        <4>1. UART_TX_FIFO_SIZE >= 0
          BY SizeAssumption
        <4>2. <<>> \in Seq(Nat \ {0}) /\ Len(<<>>) = 0
          OBVIOUS
        <4>3. fifo' = <<>>
          BY <2>1
        <4> HIDE <1>0, <2>1, <2>2
        <4> QED
          BY <4>1, <4>2, <4>3
      <3>2. line' \in Seq(Nat) /\ written' \in Seq(Nat)
        BY <1>0, <2>1 DEF Types
      <3>3. /\ mode' \in Modes
            /\ pc' \in {"idle", "write", "flush", "delay", "flushed"} /\ size' \in Nat /\ wait' \in Nat
            /\ next' \in Nat \ {0} /\ guarded' \in BOOLEAN /\ spun' \in Nat
        <4>1. /\ pc \in {"idle", "write", "flush", "delay", "flushed"} /\ size \in Nat /\ wait \in Nat
              /\ next \in Nat \ {0} /\ guarded \in BOOLEAN /\ spun \in Nat
          BY <1>0 DEF Types
        <4> QED
          BY <2>1, <4>1
      <3> QED
        BY <2>2, <3>1, <3>2, <3>3 DEF Types
    <2>4. SentInOrder'
      <3>1. line \in Seq(Nat)
        BY <1>0 DEF Types
      <3>2. line \o <<>> = line
        BY <3>1, ConcatEmptySeq
      <3>3. (line \o <<>>) \o <<>> = line
        BY <3>2
      <3> QED
        BY <2>1, <2>2, <3>3 DEF SentInOrder
    <2>5. Fits' /\ Draining'
      BY <1>0, <2>1, <2>2 DEF Fits, Draining
    <2>6. Spinning'
      BY <1>0, <2>1 DEF Spinning
    <2> QED
      BY <2>3, <2>4, <2>5, <2>6 DEF Inv
  <1>10. CASE UNCHANGED vars
    <2>1. UNCHANGED <<mode, fifo, shift, line, pc, size, wait, written, next, guarded, spun>>
      BY <1>10 DEF vars, wire, sketch, history
    <2> QED
      BY <1>0, <1>k, <2>1 DEF Inv, Types, Draining, Spinning
  <1> QED
    BY <1>1, <1>2, <1>3, <1>4, <1>5, <1>6, <1>7, <1>8, <1>9, <1>10 DEF Next, Call

LEMMA InvInit == Init => Inv
  <1> SUFFICES ASSUME Init PROVE Inv
    OBVIOUS
  <1> USE DEF Init
  <1>1. <<>> \in Seq(Nat) /\ <<>> \in Seq(Nat \ {0}) /\ Len(<<>>) = 0 /\ UART_TX_FIFO_SIZE \in Nat
    BY SizeAssumption
  <1>2. Types
    <2>1. fifo \in Seq(Nat \ {0}) /\ Len(fifo) <= UART_TX_FIFO_SIZE
      <3>1. fifo = <<>> /\ UART_TX_FIFO_SIZE >= 0
        BY <1>1
      <3> QED
        BY <1>1, <3>1
    <2>2. line \in Seq(Nat) /\ written \in Seq(Nat) /\ shift = <<>>
      BY <1>1
    <2>3. pc = "idle" /\ size = 0 /\ wait = 0 /\ next = 1 /\ guarded = FALSE /\ spun = 0 /\ mode \in Modes
      OBVIOUS
    <2> HIDE DEF Init
    <2>4. size \in Nat /\ wait \in Nat /\ next \in Nat \ {0} /\ spun \in Nat
      BY <2>3
    <2> QED
      BY <2>1, <2>2, <2>3, <2>4 DEF Types
  <1>3. BitsLeft = 0 /\ ~Whole /\ InShift = <<>>
    BY DEF BitsLeft, Whole, InShift
  <1>4. Fits /\ Draining /\ Spinning
    BY <1>2, <1>3, Shifting DEF Fits, Draining, Spinning
  <1>5. <<>> \o <<>> = <<>> /\ (<<>> \o <<>>) \o <<>> = <<>>
    BY <1>1, ConcatEmptySeq
  <1> QED
    BY <1>2, <1>3, <1>4, <1>5 DEF Inv, SentInOrder

LEMMA Always == Spec => []Inv
  BY InvInit, InvStep, PTL DEF Spec

-----------------------------------------------------------------------------
(* The theorems.                                                           *)

\* No character that write() or a callback gave to the FIFO is dropped by it,
\* and they leave in the order they were given.
THEOREM AllIsSentInOrder == Spec => []SentInOrder
  <1>1. Inv => SentInOrder
    BY DEF Inv
  <1> QED
    BY <1>1, Always, PTL

\* When flush() returns the line is silent and has sent all that was written,
\* for every frame format, inverted or not.
THEOREM FlushWaitsForTheLine == Spec => []FlushMeansSent
  <1>1. Inv => FlushMeansSent
    <2> SUFFICES ASSUME Inv, pc = "flushed" PROVE line = written
      BY DEF FlushMeansSent
    <2>1. fifo = <<>> /\ InShift = <<>> /\ line \in Seq(Nat)
      BY Shifting DEF Inv, Draining, Types
    <2>2. line \o <<>> = line /\ (line \o <<>>) \o <<>> = line
      BY <2>1, ConcatEmptySeq
    <2> QED
      BY <2>1, <2>2 DEF Inv, SentInOrder
  <1> QED
    BY <1>1, Always, PTL

\* A write() of a character that availableForWrite() has promised room for
\* waits for one frame of the line at most.
THEOREM PromisedRoomComes == Spec => []WritesWaitOneFrame
  <1>1. Inv => WritesWaitOneFrame
    BY DEF Inv, Spinning, WritesWaitOneFrame
  <1> QED
    BY <1>1, Always, PTL

=============================================================================
