--------------------------- MODULE UartRx_proofs ----------------------------
(***************************************************************************)
(* Theorems about the receive side of the UART driver, for every FIFO      *)
(* depth, trigger level, set of ring sizes and number of bytes.  The last  *)
(* one is that the driver implements the queue of ByteQueue: every step    *)
(* receives, discards the oldest, hands out from the front, or changes     *)
(* nothing that the queue shows.  What the sketch reads is therefore in    *)
(* the order of the wire.                                                  *)
(***************************************************************************)
EXTENDS UartRx, SequenceTheorems, TLAPS

-----------------------------------------------------------------------------
(* The arithmetic of the ring: (p + n) % size of the source is the cell n  *)
(* places on, around the end.                                              *)

LEMMA AdvanceOne ==
    ASSUME NEW s \in Nat \ {0, 1}, NEW p \in 0 .. s - 1
    PROVE  (p + 1) % s = IF p + 1 = s THEN 0 ELSE p + 1
  OBVIOUS

LEMMA AdvanceMany ==
    ASSUME NEW s \in Nat \ {0, 1}, NEW p \in 0 .. s - 1, NEW n \in 0 .. s
    PROVE  (p + n) % s = IF p + n >= s THEN p + n - s ELSE p + n
  OBVIOUS

LEMMA SizeIsNat == ASSUME RingType PROVE size \in Nat \ {0, 1}
  BY SizeAssumption DEF RingType

-----------------------------------------------------------------------------
(* Which steps write what.                                                 *)

LEMMA RingWriters ==
    ASSUME [Next]_vars
    PROVE  \/ IsrCopy \/ PeekCopy \/ Begin \/ ReadAdvance \/ ResizeMove \/ ResizeReturn
           \/ \E n \in Sizes : SetSizeClosed(n)
           \/ UNCHANGED ringVars
  BY DEF Next, vars, ringVars, Isr, Continue, Call, Arrive, IsrEnter, IsrCopied, IsrAck, End,
     AvailableRing, AvailableFifo, PeekBegin, PeekReturn, ReadBegin, ReadChunk, ReadFifoBegin, ReadFifo,
     ReadReturn, ResizeBegin, HasOverrun, HasOverrunClear

LEMMA FifoWriters ==
    ASSUME [Next]_vars
    PROVE  \/ Arrive \/ IsrCopy \/ PeekCopy \/ IsrAck \/ Begin \/ End \/ ReadFifo
           \/ UNCHANGED hwVars
  BY DEF Next, vars, hwVars, Isr, Continue, Call, IsrEnter, IsrCopied, AvailableRing, AvailableFifo,
     PeekBegin, PeekReturn, ReadBegin, ReadChunk, ReadAdvance, ReadFifoBegin, ReadReturn,
     SetSizeClosed, ResizeBegin, ResizeMove, ResizeReturn, HasOverrun, HasOverrunClear

LEMMA DeliveryWriters ==
    ASSUME [Next]_vars
    PROVE  \/ ReadChunk \/ ReadFifo
           \/ UNCHANGED delivered
  BY DEF Next, vars, histVars, Isr, Continue, Call, Arrive, IsrEnter, IsrCopy, IsrCopied, IsrAck, CopyByte,
     Begin, End, AvailableRing, AvailableFifo, PeekBegin, PeekCopy, PeekReturn, ReadBegin, ReadAdvance,
     ReadFifoBegin, ReadReturn, SetSizeClosed, ResizeBegin, ResizeMove, ResizeReturn, HasOverrun,
     HasOverrunClear

-----------------------------------------------------------------------------
(* Type correctness.  The inductive strengthening says where the locals of *)
(* a call are in use.                                                      *)

LocalsInUse ==
    /\ pc = "resize" => newSize \in Sizes
    /\ pc # "readAdvance" => chunk = 0

TypeInv == TypeOK /\ LocalsInUse

LEMMA TypeInit == Init => TypeInv
  BY SizeAssumption, FifoAssumption, BoundAssumption
     DEF Init, TypeInv, TypeOK, InterruptType, RingType, CallType, HistoryType, LocalsInUse, Labels,
         Uninit, NoByte

LEMMA InterruptTypeStep ==
    ASSUME TypeInv, [Next]_vars
    PROVE  InterruptType'
  <1> USE FifoAssumption, BoundAssumption
  <1>1. hw \in Seq(1..MaxBytes) /\ Len(hw) <= FifoDepth /\ usis \subseteq Bits /\ arrived \in 0..MaxBytes
    BY DEF TypeInv, TypeOK, InterruptType, HistoryType
  <1>2. ASSUME hw # <<>>, hw' = Tail(hw)
        PROVE  hw' \in Seq(1..MaxBytes) /\ Len(hw') <= FifoDepth
    BY <1>1, <1>2, HeadTailProperties
  <1>3. hw' \in Seq(1..MaxBytes) /\ Len(hw') <= FifoDepth
    <2>1. CASE Arrive
      <3>1. arrived' \in 1..MaxBytes
        BY <1>1, <2>1 DEF Arrive
      <3>2. Append(hw, arrived') \in Seq(1..MaxBytes) /\ Len(Append(hw, arrived')) = Len(hw) + 1
        BY <1>1, <3>1, AppendProperties
      <3>3. (hw' = Append(hw, arrived') /\ Len(hw) < FifoDepth) \/ hw' = hw
        BY <2>1 DEF Arrive
      <3>4. CASE hw' = hw
        BY <1>1, <3>4
      <3>5. CASE hw' = Append(hw, arrived') /\ Len(hw) < FifoDepth
        <4>1. Len(hw) \in Nat /\ Len(hw) + 1 <= FifoDepth
          BY <1>1, <3>5
        <4>2. hw' \in Seq(1..MaxBytes) /\ Len(hw') = Len(hw) + 1
          BY <3>2, <3>5
        <4> QED
          BY <4>1, <4>2
      <3> QED
        BY <3>3, <3>4, <3>5
    <2>2. CASE IsrCopy \/ PeekCopy \/ ReadFifo
      BY <1>2, <2>2 DEF IsrCopy, PeekCopy, CopyByte, ReadFifo
    <2>3. CASE IsrAck \/ Begin \/ End \/ UNCHANGED hwVars
      <3>1. hw' = hw \/ hw' = <<>>
        BY <2>3 DEF IsrAck, Begin, End, hwVars
      <3>2. <<>> \in Seq(1..MaxBytes) /\ Len(<<>>) = 0
        OBVIOUS
      <3>3. Len(<<>>) <= FifoDepth
        BY <3>2
      <3> QED
        BY <1>1, <3>1, <3>2, <3>3, Zenon
    <2> QED
      BY <2>1, <2>2, <2>3, FifoWriters
  <1>4. usis' \subseteq Bits
    <2>1. CASE Arrive
      BY <1>1, <2>1 DEF Arrive, Latch, Bits
    <2>2. CASE IsrCopy \/ PeekCopy \/ ReadFifo \/ UNCHANGED hwVars
      BY <1>1, <2>2 DEF IsrCopy, PeekCopy, CopyByte, ReadFifo, hwVars
    <2>3. CASE IsrAck \/ Begin \/ End
      BY <1>1, <2>3 DEF IsrAck, Begin, End, Latch, Bits
    <2> QED
      BY <2>1, <2>2, <2>3, FifoWriters
  <1>5. seen' \subseteq Bits /\ isr' \in {"off", "copy", "ack"}
    BY <1>1 DEF TypeInv, TypeOK, InterruptType, Next, vars, isrVars, Isr, Continue, Call, Arrive, IsrEnter,
       IsrCopy, IsrCopied, IsrAck, Begin, End, AvailableRing, AvailableFifo, PeekBegin, PeekCopy, PeekReturn,
       ReadBegin, ReadChunk, ReadAdvance, ReadFifoBegin, ReadFifo, ReadReturn, SetSizeClosed, ResizeBegin,
       ResizeMove, ResizeReturn, HasOverrun, HasOverrunClear
  <1>6. masked' \in BOOLEAN
    BY DEF TypeInv, TypeOK, InterruptType, Next, vars, Isr, Continue, Call, Arrive, IsrEnter,
       IsrCopy, IsrCopied, IsrAck, Begin, End, AvailableRing, AvailableFifo, PeekBegin, PeekCopy, PeekReturn,
       ReadBegin, ReadChunk, ReadAdvance, ReadFifoBegin, ReadFifo, ReadReturn, SetSizeClosed, ResizeBegin,
       ResizeMove, ResizeReturn, HasOverrun, HasOverrunClear, Disable, Enable
  <1> QED
    BY <1>3, <1>4, <1>5, <1>6 DEF InterruptType

\* One turn of the copy loop keeps the ring well formed.
LEMMA CopyByteRing ==
    ASSUME RingType, InterruptType, CopyByte
    PROVE  RingType'
  <1>1. size \in Nat \ {0, 1} /\ size' = size
    BY SizeIsNat DEF CopyByte
  <1>2. wpos' \in 0 .. size - 1
    BY <1>1, AdvanceOne DEF CopyByte, Advance, RingType
  <1>3. rpos' \in 0 .. size - 1
    BY <1>1 DEF CopyByte, RingType
  <1>4. Head(hw) \in Int
    BY BoundAssumption, HeadTailProperties DEF InterruptType, CopyByte
  <1>5. buffer' \in [0 .. size - 1 -> Int]
    BY <1>4 DEF CopyByte, RingType
  <1> QED
    BY <1>1, <1>2, <1>3, <1>5 DEF RingType

LEMMA RingTypeStep ==
    ASSUME TypeInv, [Next]_vars
    PROVE  RingType'
  <1>0. RingType /\ InterruptType /\ CallType /\ size \in Nat \ {0, 1}
    BY SizeIsNat DEF TypeInv, TypeOK
  <1>1. CASE IsrCopy \/ PeekCopy
    BY <1>0, <1>1, CopyByteRing DEF IsrCopy, PeekCopy
  <1>2. CASE Begin
    BY <1>0, <1>2 DEF Begin, RingType, Uninit
  <1>3. CASE ReadAdvance
    <2>1. rpos \in 0 .. size - 1 /\ chunk \in 0..size
      BY <1>0 DEF RingType, CallType
    <2>2. Advance(rpos, chunk) \in 0 .. size - 1
      BY <1>0, <2>1 DEF Advance
    <2> QED
      BY <1>0, <1>3, <2>2 DEF ReadAdvance, RingType
  <1>4. CASE ResizeMove
    BY <1>0, <1>4, AdvanceOne DEF ResizeMove, Advance, RingType
  <1>5. CASE ResizeReturn
    <2>1. newSize \in Sizes /\ newSize \in Nat \ {0, 1} /\ newBuf \in Seq(Int) /\ Len(newBuf) <= newSize
      BY <1>5, SizeAssumption DEF ResizeReturn, At, TypeInv, TypeOK, LocalsInUse, CallType
    <2>2. wpos' \in 0 .. newSize - 1
      BY <1>5, <2>1 DEF ResizeReturn
    <2>3. buffer' \in [0 .. newSize - 1 -> Int]
      <3>1. \A i \in 0 .. newSize - 1 : i < Len(newBuf) => newBuf[i + 1] \in Int
        BY <2>1, ElementOfSeq
      <3> QED
        BY <1>5, <3>1 DEF ResizeReturn, Uninit
    <2> QED
      BY <1>5, <2>1, <2>2, <2>3 DEF ResizeReturn, RingType
  <1>6. CASE \E n \in Sizes : SetSizeClosed(n)
    BY <1>6, SizeAssumption DEF SetSizeClosed, RingType, Uninit
  <1>7. CASE UNCHANGED ringVars
    BY <1>0, <1>7 DEF ringVars, RingType
  <1> QED
    BY <1>1, <1>2, <1>3, <1>4, <1>5, <1>6, <1>7, RingWriters

LEMMA CallTypeStep ==
    ASSUME TypeInv, [Next]_vars
    PROVE  CallType' /\ LocalsInUse'
  <1>0. RingType /\ CallType /\ LocalsInUse /\ size \in Nat \ {0, 1} /\ delivered \in Seq(Int)
    BY SizeIsNat DEF TypeInv, TypeOK, HistoryType
  <1>1. pc' \in Labels
    BY <1>0 DEF CallType, Next, vars, Isr, Continue, Call, Arrive, IsrEnter,
       IsrCopy, IsrCopied, IsrAck, Begin, End, AvailableRing, AvailableFifo, PeekBegin, PeekCopy, PeekReturn,
       ReadBegin, ReadChunk, ReadAdvance, ReadFifoBegin, ReadFifo, ReadReturn, SetSizeClosed, ResizeBegin,
       ResizeMove, ResizeReturn, HasOverrun, HasOverrunClear, Disable, Enable, Labels
  <1>2. CASE ReadChunk
    <2> DEFINE linear == IF rpos < wpos THEN wpos - rpos ELSE size - rpos
               n == IF linear > want THEN want ELSE linear
    <2>1. n \in 0..size /\ want - n \in 0..MaxBytes
      BY <1>0, <1>2, BoundAssumption DEF ReadChunk, RingType, CallType
    <2>2. chunk' = n /\ want' = want - n
      <3>1. Len([k \in 1..n |-> buffer[rpos + k - 1]]) = n
        BY <2>1, <1>0
      <3> QED
        BY <1>2, <3>1 DEF ReadChunk, Deliver
    <2>3. pc' = "readAdvance" /\ UNCHANGED <<size, swAvail, newSize, newBuf>>
      BY <1>2 DEF ReadChunk, ringVars
    <2> HIDE DEF n
    <2> QED
      BY <1>0, <1>1, <2>1, <2>2, <2>3 DEF CallType, LocalsInUse
  <1>3. CASE ReadFifo
    <2>1. want' = want - 1
      BY <1>3 DEF ReadFifo, Deliver
    <2>2. UNCHANGED <<pc, chunk, size, swAvail, newSize, newBuf>> /\ want > 0
      BY <1>3 DEF ReadFifo, ringVars
    <2> QED
      BY <1>0, <1>1, <2>1, <2>2, BoundAssumption DEF CallType, LocalsInUse
  <1>4. CASE ResizeMove
    <2>1. (IF BufferAvailable > 0 THEN buffer[rpos] ELSE NoByte) \in Int
      BY <1>0 DEF NoByte, RingType
    <2>2. newBuf' \in Seq(Int) /\ Len(newBuf') <= newSize
      BY <1>0, <1>4, <2>1, AppendProperties, SizeAssumption DEF ResizeMove, CallType
    <2> QED
      BY <1>0, <1>1, <1>4, <2>2 DEF ResizeMove, CallType, LocalsInUse
  <1>5. CASE ResizeReturn
    <2>1. pc = "resize" /\ pc' = "idle" /\ newSize' = 0 /\ newBuf' = <<>>
          /\ UNCHANGED <<want, chunk, swAvail>> /\ size' = newSize
      BY <1>5 DEF ResizeReturn, At, Enable
    <2>2. newBuf' \in Seq(Int) /\ Len(newBuf') = 0
      BY <2>1
    <2>3. chunk' \in 0..size'
      <3>1. newSize \in Nat \ {0, 1} /\ chunk = 0
        BY <1>0, <2>1, SizeAssumption DEF LocalsInUse
      <3> QED
        BY <2>1, <3>1
    <2> QED
      BY <1>0, <1>1, <2>1, <2>2, <2>3 DEF CallType, LocalsInUse
  <1>6. CASE \E n \in Sizes : SetSizeClosed(n) \/ ResizeBegin(n)
    <2>1. chunk' = 0 /\ size' \in Sizes /\ chunk' \in 0..size'
      BY <1>0, <1>6, SizeAssumption DEF SetSizeClosed, ResizeBegin, At, LocalsInUse, callVars, ringVars,
         RingType
    <2>2. newSize' \in Sizes \cup {0} /\ (pc' = "resize" => newSize' \in Sizes)
      BY <1>0, <1>6 DEF SetSizeClosed, ResizeBegin, At, Disable, CallType, callVars
    <2>3. UNCHANGED <<want, swAvail>>
      BY <1>6 DEF SetSizeClosed, ResizeBegin, callVars
    <2>4. newBuf' \in Seq(Int) /\ Len(newBuf') <= newSize'
      <3>1. (newBuf' = newBuf /\ newSize' = newSize) \/ (newBuf' = <<>> /\ newSize' \in Sizes)
        BY <1>6 DEF SetSizeClosed, ResizeBegin, callVars
      <3>2. <<>> \in Seq(Int) /\ Len(<<>>) = 0
        OBVIOUS
      <3>3. CASE newBuf' = newBuf /\ newSize' = newSize
        BY <1>0, <3>3 DEF CallType
      <3>4. CASE newBuf' = <<>> /\ newSize' \in Sizes
        BY <3>2, <3>4, SizeAssumption
      <3> QED
        BY <3>1, <3>3, <3>4
    <2> QED
      BY <1>0, <1>1, <2>1, <2>2, <2>3, <2>4 DEF CallType, LocalsInUse
  <1>7. CASE Begin \/ End \/ AvailableRing \/ AvailableFifo \/ (\E n \in 1..MaxBytes : ReadBegin(n))
             \/ ReadAdvance \/ ReadReturn \/ PeekBegin \/ PeekReturn \/ PeekCopy
    <2>1. UNCHANGED <<size, newSize, newBuf>> /\ pc # "resize" /\ pc' # "resize"
      BY <1>7 DEF Begin, End, AvailableRing, AvailableFifo, ReadBegin, ReadAdvance, ReadReturn, PeekBegin,
         PeekReturn, PeekCopy, CopyByte, At, Enable, Disable, callVars, ringVars
    <2>2. want' \in 0..MaxBytes
      BY <1>0, <1>7, BoundAssumption DEF Begin, End, AvailableRing, AvailableFifo, ReadBegin, ReadAdvance,
         ReadReturn, PeekBegin, PeekReturn, PeekCopy, callVars, CallType
    <2>3. chunk' = 0
      BY <1>0, <1>7 DEF Begin, End, AvailableRing, AvailableFifo, ReadBegin, ReadAdvance, ReadReturn,
         PeekBegin, PeekReturn, PeekCopy, callVars, At, LocalsInUse
    <2>4. BufferAvailable \in Nat
      BY <1>0 DEF BufferAvailable, RingType
    <2>5. swAvail' \in Nat
      BY <1>0, <1>7, <2>4 DEF Begin, End, AvailableRing, AvailableFifo, ReadBegin, ReadAdvance, ReadReturn,
         PeekBegin, PeekReturn, PeekCopy, callVars, CallType
    <2> QED
      BY <1>0, <1>1, <2>1, <2>2, <2>3, <2>5 DEF CallType, LocalsInUse
  <1>8. CASE Arrive \/ IsrEnter \/ IsrCopy \/ IsrCopied \/ IsrAck \/ ReadFifoBegin \/ HasOverrun
             \/ HasOverrunClear \/ UNCHANGED vars
    <2>1. UNCHANGED <<size, want, chunk, swAvail, newSize, newBuf>>
      BY <1>8 DEF Arrive, IsrEnter, IsrCopy, CopyByte, IsrCopied, IsrAck, ReadFifoBegin, HasOverrun,
         HasOverrunClear, vars, callVars, ringVars
    <2>2. pc' = pc \/ (pc \notin {"resize", "readAdvance"} /\ pc' \notin {"resize", "readAdvance"})
      BY <1>8 DEF Arrive, IsrEnter, IsrCopy, IsrCopied, IsrAck, ReadFifoBegin, HasOverrun,
         HasOverrunClear, vars, At
    <2> QED
      BY <1>0, <1>1, <2>1, <2>2 DEF CallType, LocalsInUse
  <1> QED
    BY <1>2, <1>3, <1>4, <1>5, <1>6, <1>7, <1>8 DEF Next, Isr, Continue, Call

\* What ReadChunk copies out is a piece of the buffer.
LEMMA ChunkIsPiece ==
    ASSUME TypeInv, ReadChunk
    PROVE  /\ chunk' \in 1..size /\ rpos + chunk' <= size
           /\ chunk' <= BufferAvailable /\ chunk' <= want
           /\ [k \in 1..chunk' |-> buffer[rpos + k - 1]] \in Seq(Int)
           /\ Len([k \in 1..chunk' |-> buffer[rpos + k - 1]]) = chunk'
           /\ delivered' = delivered \o [k \in 1..chunk' |-> buffer[rpos + k - 1]]
           /\ promised' = Less(promised, chunk')
           /\ peeked' = NoByte
  <1> DEFINE linear == IF rpos < wpos THEN wpos - rpos ELSE size - rpos
             n == IF linear > want THEN want ELSE linear
             piece == [k \in 1..n |-> buffer[rpos + k - 1]]
  <1>1. /\ size \in Nat \ {0, 1} /\ rpos \in 0 .. size - 1 /\ wpos \in 0 .. size - 1
        /\ buffer \in [0 .. size - 1 -> Int] /\ want \in 0..MaxBytes
    BY SizeIsNat DEF TypeInv, TypeOK, RingType, CallType
  <1>2. n \in 1..size /\ rpos + n <= size /\ n <= BufferAvailable /\ n <= want
    BY <1>1, BoundAssumption DEF ReadChunk, BufferAvailable
  <1>3. chunk' = n /\ Deliver(piece)
    BY DEF ReadChunk
  <1> HIDE DEF n
  <1>4. \A k \in 1..n : rpos + k - 1 \in 0 .. size - 1
    BY <1>1, <1>2
  <1>5. piece \in [1..n -> Int]
    BY <1>1, <1>4
  <1>6. piece \in Seq(Int) /\ Len(piece) = n
    BY <1>2, <1>5
  <1>7. delivered' = delivered \o piece /\ promised' = Less(promised, n) /\ peeked' = NoByte
    BY <1>3, <1>6 DEF Deliver
  <1> QED
    BY <1>2, <1>3, <1>6, <1>7

LEMMA HistoryTypeStep ==
    ASSUME TypeInv, [Next]_vars
    PROVE  HistoryType'
  <1>0. HistoryType /\ RingType /\ CallType /\ InterruptType /\ size \in Nat \ {0, 1}
    BY SizeIsNat DEF TypeInv, TypeOK
  <1>1. CASE ReadChunk
    <2>1. delivered' \in Seq(Int) /\ promised' \in Nat /\ peeked' \in Int
      <3>1. delivered \in Seq(Int) /\ promised \in Nat
        BY <1>0 DEF HistoryType
      <3>2. promised' \in Nat /\ peeked' \in Int
        BY <1>1, <3>1, ChunkIsPiece, <1>0 DEF Less, NoByte
      <3>3. delivered' \in Seq(Int)
        BY <1>1, <3>1, ChunkIsPiece, ConcatProperties
      <3> QED
        BY <3>2, <3>3
    <2> QED
      BY <1>0, <1>1, <2>1 DEF ReadChunk, HistoryType
  <1>2. CASE ReadFifo
    <2>1. Head(hw) \in Int
      BY <1>0, <1>2, BoundAssumption, HeadTailProperties DEF ReadFifo, InterruptType
    <2>2. delivered' = delivered \o <<Head(hw)>> /\ promised' = Less(promised, 1) /\ peeked' = NoByte
      BY <1>2 DEF ReadFifo, Deliver
    <2>3. delivered' \in Seq(Int)
      BY <1>0, <2>1, <2>2, ConcatProperties DEF HistoryType
    <2>4. promised' \in Nat /\ peeked' \in Int
      BY <1>0, <2>2 DEF HistoryType, Less, NoByte
    <2> QED
      BY <1>0, <1>2, <2>3, <2>4 DEF ReadFifo, HistoryType
  <1>3. CASE Arrive
    <2>1. arrived' \in 0..MaxBytes
      BY <1>0, <1>3, BoundAssumption DEF Arrive, HistoryType
    <2>2. lost' = lost \/ lost' = TRUE
      BY <1>3 DEF Arrive
    <2>3. UNCHANGED <<rx_overrun, delivered, promised, peeked>>
      BY <1>3 DEF Arrive
    <2> QED
      BY <1>0, <2>1, <2>2, <2>3 DEF HistoryType
  <1>4. CASE IsrCopy \/ PeekCopy
    <2>1. rx_overrun' \in BOOLEAN /\ lost' \in BOOLEAN
      BY <1>4 DEF IsrCopy, PeekCopy, CopyByte
    <2>2. peeked' = peeked \/ peeked' = NoByte
      BY <1>4 DEF IsrCopy, PeekCopy, CopyByte
    <2>3. UNCHANGED <<arrived, delivered, promised>>
      BY <1>4 DEF IsrCopy, PeekCopy, CopyByte
    <2> QED
      BY <1>0, <2>1, <2>2, <2>3 DEF HistoryType, NoByte
  <1>5. CASE IsrAck \/ Begin \/ HasOverrunClear
    <2>1. rx_overrun' \in BOOLEAN /\ UNCHANGED <<arrived, delivered, promised, peeked>>
      BY <1>5 DEF IsrAck, Begin, HasOverrunClear, histVars
    <2>2. lost' = lost \/ lost' = ("UIOF" \in usis)
      BY <1>5 DEF IsrAck, Begin, HasOverrunClear, histVars
    <2>3. lost' \in BOOLEAN
      <3>1. ("UIOF" \in usis) = TRUE \/ ("UIOF" \in usis) = FALSE
        OBVIOUS
      <3>2. lost \in BOOLEAN
        BY <1>0 DEF HistoryType
      <3>3. lost' = TRUE \/ lost' = FALSE
        BY <2>2, <3>1, <3>2, Zenon
      <3> QED
        BY <3>3
    <2> QED
      BY <1>0, <2>1, <2>3 DEF HistoryType
  <1>6. CASE PeekReturn \/ End \/ AvailableFifo \/ \E n \in Sizes : ResizeBegin(n)
    <2>1. buffer[rpos] \in Int
      BY <1>0 DEF RingType
    <2>2. peeked' \in Int
      BY <1>0, <1>6, <2>1 DEF PeekReturn, End, AvailableFifo, ResizeBegin, HistoryType, NoByte
    <2>3. Len(hw) \in Nat /\ swAvail \in Nat
      BY <1>0 DEF InterruptType, CallType
    <2>4. promised' \in Nat
      BY <1>0, <1>6, <2>3 DEF PeekReturn, End, AvailableFifo, ResizeBegin, HistoryType, Capacity
    <2>5. lost' \in BOOLEAN /\ UNCHANGED <<rx_overrun, arrived, delivered>>
      BY <1>0, <1>6 DEF PeekReturn, End, AvailableFifo, ResizeBegin, HistoryType
    <2> QED
      BY <1>0, <2>2, <2>4, <2>5 DEF HistoryType
  <1>7. CASE UNCHANGED <<rx_overrun, histVars>>
    BY <1>0, <1>7 DEF histVars, HistoryType
  <1>8. \/ ReadChunk \/ ReadFifo \/ Arrive \/ IsrCopy \/ PeekCopy \/ IsrAck \/ Begin \/ HasOverrunClear
        \/ PeekReturn \/ End \/ AvailableFifo \/ \E n \in Sizes : ResizeBegin(n)
        \/ UNCHANGED <<rx_overrun, histVars>>
    BY DEF Next, vars, histVars, Isr, Continue, Call, IsrEnter, IsrCopied, AvailableRing, PeekBegin, ReadBegin,
       ReadAdvance, ReadFifoBegin, ReadReturn, SetSizeClosed, ResizeMove, ResizeReturn, HasOverrun
  <1> QED
    BY <1>1, <1>2, <1>3, <1>4, <1>5, <1>6, <1>7, <1>8

LEMMA TypeStep == TypeInv /\ [Next]_vars => TypeInv'
  BY InterruptTypeStep, RingTypeStep, CallTypeStep, HistoryTypeStep DEF TypeInv, TypeOK

LEMMA TypeInvariant == Spec => []TypeInv
  BY TypeInit, TypeStep, PTL DEF Spec

\* Every variable of the driver keeps its type; in particular the indices of
\* the ring stay inside the buffer through every wrap and every resize
\* (uart.cpp:128-180, 251-286, 336-364).
THEOREM TypeCorrect == Spec => []TypeOK
  <1>1. TypeInv => TypeOK
    BY DEF TypeInv
  <1> QED
    BY <1>1, TypeInvariant, PTL

-----------------------------------------------------------------------------
(* Mutual exclusion of the handler and the sketch's critical sections, and *)
(* where the sketch stands in its calls.                                   *)

Critical == {"closed", "peek", "peekCopy", "read", "readAdvance", "readFifo", "resize"}

MaskInv ==
    /\ pc \in Critical => masked
    /\ masked => isr = "off"

CallInv ==
    /\ pc = "readAdvance" => chunk <= BufferAvailable /\ rpos + chunk <= size
    /\ pc = "readFifo" => BufferAvailable = 0
    /\ pc = "peekCopy" => BufferAvailable > 0 \/ hw # <<>>

LEMMA MaskStep == MaskInv /\ [Next]_vars => MaskInv'
  BY DEF MaskInv, Critical, Next, vars, isrVars, Isr, Continue, Call, Arrive, IsrEnter, IsrCopy, IsrCopied,
     IsrAck, Begin, End, AvailableRing, AvailableFifo, PeekBegin, PeekCopy, PeekReturn, ReadBegin, ReadChunk,
     ReadAdvance, ReadFifoBegin, ReadFifo, ReadReturn, SetSizeClosed, ResizeBegin, ResizeMove, ResizeReturn,
     HasOverrun, HasOverrunClear, Disable, Enable, At

LEMMA MaskInvariant == Spec => []MaskInv
  <1>1. Init => MaskInv
    BY DEF Init, MaskInv
  <1> QED
    BY <1>1, MaskStep, PTL DEF Spec

\* What one turn of the copy loop does to the counts.
LEMMA CopyByteCounts ==
    ASSUME RingType, InterruptType, CopyByte
    PROVE  /\ BufferAvailable \in 0 .. size - 1 /\ BufferAvailable' \in 1 .. size - 1
           /\ BufferAvailable' = IF BufferAvailable = size - 1 THEN BufferAvailable ELSE BufferAvailable + 1
           /\ (Advance(wpos, 1) = rpos) <=> (BufferAvailable = size - 1)
           /\ Len(hw) \in Nat \ {0} /\ Len(hw') = Len(hw) - 1
           /\ size' = size
  <1>1. size \in Nat \ {0, 1} /\ rpos \in 0 .. size - 1 /\ wpos \in 0 .. size - 1
    BY SizeIsNat DEF RingType
  <1>2. Advance(wpos, 1) = IF wpos + 1 = size THEN 0 ELSE wpos + 1
    BY <1>1, AdvanceOne DEF Advance
  <1>3. /\ wpos' = Advance(wpos, 1) /\ size' = size
        /\ rpos' = IF Advance(wpos, 1) # rpos THEN rpos ELSE IF rpos + 1 = size THEN 0 ELSE rpos + 1
    BY DEF CopyByte
  <1>4. Len(hw) \in Nat \ {0} /\ Len(hw') = Len(hw) - 1
    BY HeadTailProperties, EmptySeq DEF CopyByte, InterruptType
  <1> QED
    BY <1>1, <1>2, <1>3, <1>4 DEF BufferAvailable

LEMMA CountsAreNat ==
    ASSUME RingType, InterruptType
    PROVE  BufferAvailable \in 0 .. size - 1 /\ Len(hw) \in Nat /\ Available \in Nat /\ Capacity \in Nat
           /\ Available = BufferAvailable + Len(hw)
  BY SizeIsNat DEF RingType, InterruptType, BufferAvailable, Available, Capacity

\* ReadAdvance gives the ring's first chunk cells back.
LEMMA ReadAdvanceCounts ==
    ASSUME TypeInv, CallInv, ReadAdvance
    PROVE  BufferAvailable' = BufferAvailable - chunk
  <1>1. size \in Nat \ {0, 1} /\ rpos \in 0 .. size - 1 /\ wpos \in 0 .. size - 1 /\ chunk \in 0..size
    BY SizeIsNat DEF TypeInv, TypeOK, RingType, CallType
  <1>2. chunk <= BufferAvailable /\ rpos + chunk <= size
    BY DEF CallInv, ReadAdvance, At
  <1>3. rpos' = IF rpos + chunk >= size THEN rpos + chunk - size ELSE rpos + chunk
    BY <1>1, AdvanceMany DEF ReadAdvance, Advance
  <1>4. UNCHANGED <<wpos, size>>
    BY DEF ReadAdvance
  <1> QED
    BY <1>1, <1>2, <1>3, <1>4 DEF BufferAvailable

LEMMA CallInvStep == TypeInv /\ MaskInv /\ CallInv /\ [Next]_vars => CallInv'
  <1> SUFFICES ASSUME TypeInv, MaskInv, CallInv, [Next]_vars PROVE CallInv'
    OBVIOUS
  <1>0. RingType /\ InterruptType
    BY DEF TypeInv, TypeOK
  <1>1. CASE ReadChunk
    <2>1. chunk' <= BufferAvailable /\ rpos + chunk' <= size
      BY <1>1, ChunkIsPiece
    <2>2. pc' = "readAdvance" /\ UNCHANGED <<rpos, wpos, size>>
      BY <1>1 DEF ReadChunk, ringVars
    <2> QED
      BY <2>1, <2>2 DEF CallInv, BufferAvailable
  <1>2. CASE ReadFifoBegin
    BY <1>2 DEF ReadFifoBegin, ringVars, CallInv, BufferAvailable
  <1>3. CASE PeekBegin
    BY <1>3, <1>0, CountsAreNat DEF PeekBegin, Disable, ringVars, hwVars, CallInv, BufferAvailable
  <1>4. CASE PeekCopy
    BY <1>4, <1>0, CopyByteCounts DEF PeekCopy, At, CallInv
  <1>5. CASE Arrive
    <2>1. UNCHANGED <<pc, chunk, rpos, wpos, size>>
      BY <1>5 DEF Arrive, ringVars, callVars
    <2>2. hw' = hw \/ hw' = Append(hw, arrived')
      BY <1>5 DEF Arrive
    <2>3. hw # <<>> => hw' # <<>>
      BY <2>2, <1>0, AppendProperties DEF InterruptType
    <2> QED
      BY <2>1, <2>3 DEF CallInv, BufferAvailable
  <1>6. CASE IsrEnter \/ IsrCopy \/ IsrCopied \/ IsrAck
    <2>1. pc \notin Critical /\ pc' = pc
      BY <1>6 DEF IsrEnter, IsrCopy, IsrCopied, IsrAck, MaskInv, Open, Critical
    <2> QED
      BY <2>1 DEF CallInv, Critical
  <1>7. CASE ReadFifo
    BY <1>7 DEF ReadFifo, ringVars, At, CallInv, BufferAvailable
  <1>8. CASE \/ Begin \/ End \/ AvailableRing \/ AvailableFifo \/ PeekReturn \/ ReadAdvance \/ ReadReturn
             \/ ResizeMove \/ ResizeReturn \/ HasOverrun \/ HasOverrunClear
             \/ \E n \in 1..MaxBytes : ReadBegin(n)
             \/ \E n \in Sizes : SetSizeClosed(n) \/ ResizeBegin(n)
    BY <1>8 DEF Begin, End, AvailableRing, AvailableFifo, PeekReturn, ReadBegin, ReadAdvance, ReadReturn,
       SetSizeClosed, ResizeBegin, ResizeMove, ResizeReturn, HasOverrun, HasOverrunClear, Disable, Enable, At,
       CallInv
  <1>9. CASE UNCHANGED vars
    BY <1>9 DEF vars, hwVars, ringVars, callVars, CallInv, BufferAvailable
  <1> QED
    BY <1>1, <1>2, <1>3, <1>4, <1>5, <1>6, <1>7, <1>8, <1>9 DEF Next, Isr, Continue, Call

LEMMA CallInvariant == Spec => []CallInv
  <1>1. Init => CallInv
    BY DEF Init, CallInv
  <1> QED
    BY <1>1, CallInvStep, TypeInvariant, MaskInvariant, PTL DEF Spec

-----------------------------------------------------------------------------
(* What available() announces is held.                                     *)

AnnouncedInv ==
    /\ promised <= Held /\ promised <= Capacity
    /\ pc \in {"closed", "resize"} => promised = 0
    /\ pc = "available" => swAvail + Len(hw) <= Available \/ Capacity <= Available

Inv == TypeInv /\ MaskInv /\ CallInv

LEMMA InvInvariant == Spec => []Inv
  BY TypeInvariant, MaskInvariant, CallInvariant, PTL DEF Inv

LEMMA AnnouncedStep == Inv /\ AnnouncedInv /\ [Next]_vars => AnnouncedInv'
  <1> SUFFICES ASSUME Inv, AnnouncedInv, [Next]_vars PROVE AnnouncedInv'
    OBVIOUS
  <1>0. /\ TypeInv /\ MaskInv /\ CallInv /\ RingType /\ InterruptType
        /\ size \in Nat \ {0, 1} /\ promised \in Nat /\ swAvail \in Nat /\ chunk \in 0..size
        /\ LocalsInUse
        /\ hw \in Seq(1..MaxBytes)
    BY SizeIsNat DEF Inv, TypeInv, TypeOK, CallType, HistoryType, InterruptType
  <1>c. /\ BufferAvailable \in 0 .. size - 1 /\ Len(hw) \in Nat /\ Available \in Nat
        /\ Available = BufferAvailable + Len(hw) /\ Capacity = size - 1 /\ Capacity \in Nat
    BY <1>0, CountsAreNat DEF Capacity
  <1>d. /\ Available' = BufferAvailable' + Len(hw') /\ Held' = Available' - chunk'
        /\ Capacity' = size' - 1
    BY DEF Available, Held, Capacity
  <1>e. promised <= Held /\ promised <= Capacity /\ Held = Available - chunk
    BY DEF AnnouncedInv, Held
  <1>1. CASE Arrive
    <2>1. UNCHANGED <<pc, chunk, rpos, wpos, size, promised, swAvail>>
      BY <1>1 DEF Arrive, ringVars, callVars
    <2>2. Len(hw') = Len(hw) \/ Len(hw') = Len(hw) + 1
      <3>1. hw' = hw \/ hw' = Append(hw, arrived')
        BY <1>1 DEF Arrive
      <3> QED
        BY <1>0, <3>1
    <2>3. BufferAvailable' = BufferAvailable
      BY <2>1 DEF BufferAvailable
    <2> QED
      BY <1>0, <1>c, <1>d, <2>1, <2>2, <2>3 DEF AnnouncedInv, Held
  <1>2. CASE IsrCopy \/ PeekCopy
    <2>1. CopyByte /\ UNCHANGED <<pc, chunk, swAvail>> /\ promised' = promised
      BY <1>2 DEF IsrCopy, PeekCopy, CopyByte, callVars
    <2>2. pc \notin {"readAdvance", "closed", "resize"} /\ chunk = 0
      BY <1>0, <1>2 DEF IsrCopy, PeekCopy, At, MaskInv, Critical, LocalsInUse
    <2>3. /\ BufferAvailable' = IF BufferAvailable = size - 1 THEN BufferAvailable ELSE BufferAvailable + 1
          /\ Len(hw') = Len(hw) - 1 /\ size' = size /\ Len(hw) >= 1
      BY <1>0, <2>1, CopyByteCounts
    <2>4. /\ Available' <= Available
          /\ Available' >= Available \/ Available' >= Capacity
      BY <1>c, <1>d, <2>3
    <2> QED
      BY <1>0, <1>c, <1>d, <2>1, <2>2, <2>3, <2>4 DEF AnnouncedInv, Held
  <1>3. CASE ReadChunk
    <2>1. /\ chunk' \in 1..size /\ chunk' <= BufferAvailable /\ promised' = Less(promised, chunk')
          /\ chunk = 0 /\ UNCHANGED <<rpos, wpos, size, hw>> /\ pc' = "readAdvance"
      BY <1>0, <1>3, ChunkIsPiece DEF ReadChunk, At, LocalsInUse, ringVars, hwVars
    <2>2. BufferAvailable' = BufferAvailable
      BY <2>1 DEF BufferAvailable
    <2>3. PICK n \in 1..size : chunk' = n
      BY <2>1
    <2>4. promised' = Less(promised, n) /\ n <= BufferAvailable
      BY <2>1, <2>3
    <2>5. Less(promised, n) <= Available - n /\ Less(promised, n) <= Capacity
      BY <1>0, <1>c, <1>e, <2>1, <2>4 DEF Less
    <2>6. Held' = Available - n /\ Capacity' = Capacity
      BY <1>c, <1>d, <2>1, <2>2, <2>3
    <2> QED
      BY <2>1, <2>4, <2>5, <2>6 DEF AnnouncedInv
  <1>4. CASE ReadAdvance
    <2>1. BufferAvailable' = BufferAvailable - chunk /\ chunk' = 0 /\ pc' = "read"
          /\ UNCHANGED <<promised, hw, size>>
      BY <1>0, <1>4, ReadAdvanceCounts DEF ReadAdvance, hwVars, histVars
    <2> QED
      BY <1>0, <1>c, <1>d, <2>1 DEF AnnouncedInv, Held
  <1>5. CASE ReadFifo
    <2>1. /\ promised' = Less(promised, 1) /\ chunk = 0 /\ chunk' = 0 /\ UNCHANGED <<rpos, wpos, size>>
          /\ pc' = "readFifo" /\ hw # <<>> /\ hw' = Tail(hw)
      BY <1>0, <1>5 DEF ReadFifo, Deliver, At, LocalsInUse, ringVars
    <2>2. Len(hw') = Len(hw) - 1 /\ Len(hw) >= 1
      BY <1>0, <1>c, <2>1, HeadTailProperties, EmptySeq
    <2>3. BufferAvailable' = BufferAvailable
      BY <2>1 DEF BufferAvailable
    <2> QED
      BY <1>0, <1>c, <1>d, <2>1, <2>2, <2>3 DEF AnnouncedInv, Held, Less
  <1>6. CASE AvailableRing
    <2>1. swAvail' = BufferAvailable /\ pc' = "available" /\ UNCHANGED <<promised, hw, size, rpos, wpos, chunk>>
      BY <1>6 DEF AvailableRing, hwVars, ringVars, histVars
    <2>2. BufferAvailable' = BufferAvailable
      BY <2>1 DEF BufferAvailable
    <2> QED
      BY <1>0, <1>c, <1>d, <2>1, <2>2 DEF AnnouncedInv, Held
  <1>7. CASE AvailableFifo
    <2>1. /\ promised' = IF swAvail + Len(hw) > Capacity THEN Capacity ELSE swAvail + Len(hw)
          /\ pc = "available" /\ pc' = "idle" /\ UNCHANGED <<hw, size, rpos, wpos, chunk>> /\ chunk = 0
      BY <1>0, <1>7 DEF AvailableFifo, At, hwVars, ringVars, LocalsInUse
    <2>2. BufferAvailable' = BufferAvailable
      BY <2>1 DEF BufferAvailable
    <2> QED
      BY <1>0, <1>c, <1>d, <2>1, <2>2 DEF AnnouncedInv, Held
  <1>8. CASE Begin \/ End \/ ResizeMove \/ ResizeReturn \/ \E n \in Sizes : SetSizeClosed(n) \/ ResizeBegin(n)
    <2>1. promised' = 0 /\ pc' # "available" /\ chunk' = 0
      BY <1>0, <1>8 DEF Begin, End, ResizeMove, ResizeReturn, SetSizeClosed, ResizeBegin, At, AnnouncedInv,
         Enable, Disable, histVars, callVars, LocalsInUse
    <2>2. \E b \in Nat : BufferAvailable' = b
      <3>1. CASE Begin \/ \E n \in Sizes : SetSizeClosed(n)
        BY <3>1 DEF Begin, SetSizeClosed, BufferAvailable
      <3>2. CASE End \/ \E n \in Sizes : ResizeBegin(n)
        BY <1>c, <3>2 DEF End, ResizeBegin, ringVars, BufferAvailable
      <3>3. CASE ResizeMove
        <4>1. rpos \in 0 .. size - 1 /\ wpos \in 0 .. size - 1
          BY <1>0 DEF RingType
        <4> DEFINE r == IF rpos + 1 = size THEN 0 ELSE rpos + 1
        <4>2. Advance(rpos, 1) = r
          BY <1>0, <4>1, AdvanceOne DEF Advance
        <4>3. (rpos' = rpos \/ rpos' = r) /\ wpos' = wpos /\ size' = size
          BY <3>3, <4>2 DEF ResizeMove
        <4>4. CASE rpos' = rpos
          BY <1>c, <4>3, <4>4 DEF BufferAvailable
        <4>5. CASE rpos' = r
          <5>1. BufferAvailable' = IF wpos < r THEN (wpos + size) - r ELSE wpos - r
            BY <4>3, <4>5 DEF BufferAvailable
          <5>2. (IF wpos < r THEN (wpos + size) - r ELSE wpos - r) \in Nat
            BY <1>0, <4>1
          <5> QED
            BY <5>1, <5>2, Zenon
        <4> QED
          BY <4>3, <4>4, <4>5
      <3>4. CASE ResizeReturn
        <4>1. Len(newBuf) \in Nat
          BY <1>0 DEF TypeInv, TypeOK, CallType
        <4> QED
          BY <3>4, <4>1 DEF ResizeReturn, BufferAvailable
      <3> QED
        BY <1>8, <3>1, <3>2, <3>3, <3>4
    <2>3. \E l \in Nat : Len(hw') = l
      <3>1. hw' = hw \/ hw' = <<>>
        BY <1>8 DEF Begin, End, ResizeMove, ResizeReturn, SetSizeClosed, ResizeBegin, hwVars
      <3> QED
        BY <1>c, <3>1
    <2>4. \E m \in Sizes : size' = m
      <3>1. size' = size \/ size' \in Sizes
        BY <1>0, <1>8 DEF Begin, End, ResizeMove, ResizeReturn, SetSizeClosed, ResizeBegin, ringVars,
           LocalsInUse, At
      <3> QED
        BY <1>0, <3>1 DEF RingType
    <2>5. 0 <= Held' /\ 0 <= Capacity'
      BY <1>d, <2>1, <2>2, <2>3, <2>4, SizeAssumption
    <2> QED
      BY <2>1, <2>5 DEF AnnouncedInv
  <1>9. CASE \/ IsrEnter \/ IsrCopied \/ IsrAck \/ PeekBegin \/ PeekReturn \/ ReadFifoBegin \/ ReadReturn
             \/ HasOverrun \/ HasOverrunClear \/ UNCHANGED vars
             \/ \E n \in 1..MaxBytes : ReadBegin(n)
    <2>1. UNCHANGED <<hw, size, rpos, wpos, chunk, promised, swAvail>>
      BY <1>9 DEF IsrEnter, IsrCopied, IsrAck, PeekBegin, PeekReturn, ReadBegin, ReadFifoBegin, ReadReturn,
         HasOverrun, HasOverrunClear, vars, hwVars, ringVars, callVars, histVars
    <2>2. pc' = pc \/ pc' \notin {"closed", "resize", "available"}
      BY <1>9 DEF IsrEnter, IsrCopied, IsrAck, PeekBegin, PeekReturn, ReadBegin, ReadFifoBegin, ReadReturn,
         HasOverrun, HasOverrunClear, vars, Enable, Disable
    <2>3. BufferAvailable' = BufferAvailable
      BY <2>1 DEF BufferAvailable
    <2> QED
      BY <1>0, <1>c, <1>d, <2>1, <2>2, <2>3 DEF AnnouncedInv, Held
  <1> QED
    BY <1>1, <1>2, <1>3, <1>4, <1>5, <1>6, <1>7, <1>8, <1>9 DEF Next, Isr, Continue, Call

\* For every FIFO depth and ring size: a read of min(announced, size - 1)
\* bytes after available() never comes up short, although the count is taken
\* in two parts and an overflow may discard bytes in between
\* (uart.cpp:218-229, 251-286).
THEOREM AnnouncedIsAlwaysHeld == Spec => []AnnouncedIsHeld
  <1>1. Init => AnnouncedInv
    BY SizeAssumption DEF Init, AnnouncedInv, Held, Capacity, Available, BufferAvailable
  <1>2. AnnouncedInv => AnnouncedIsHeld
    BY DEF AnnouncedInv, AnnouncedIsHeld
  <1> QED
    BY <1>1, <1>2, AnnouncedStep, InvInvariant, PTL DEF Spec

-----------------------------------------------------------------------------
(* No overrun goes unrecorded.                                             *)

LossInv ==
    /\ LossIsRecorded
    /\ pc = "closed" => ~lost
    /\ isr = "off" => seen = {}

LEMMA LossStep == MaskInv /\ LossInv /\ [Next]_vars => LossInv'
  <1> SUFFICES ASSUME MaskInv, LossInv, [Next]_vars PROVE LossInv'
    OBVIOUS
  <1> USE DEF LossInv, LossIsRecorded
  <1>1. CASE Arrive
    BY <1>1 DEF Arrive, Open, Latch, isrVars
  <1>2. CASE IsrEnter
    BY <1>2 DEF IsrEnter, Open, hwVars, histVars
  <1>3. CASE IsrCopy \/ PeekCopy
    BY <1>3 DEF IsrCopy, PeekCopy, CopyByte, At, MaskInv, Critical, isrVars
  <1>4. CASE IsrAck
    BY <1>4 DEF IsrAck, Latch, MaskInv, Critical, histVars
  <1>5. CASE Begin
    BY <1>5 DEF Begin, At, Enable, histVars, isrVars
  <1>6. CASE End
    BY <1>6 DEF End, isrVars
  <1>7. CASE HasOverrunClear
    BY <1>7 DEF HasOverrunClear, At, hwVars, isrVars
  <1>8. CASE UNCHANGED <<usis, seen, rx_overrun, lost>> /\ (pc' = "closed" => pc = "closed") /\ (isr' = "off" => isr = "off")
    BY <1>8
  <1>9. \/ Arrive \/ IsrEnter \/ IsrCopy \/ PeekCopy \/ IsrAck \/ Begin \/ End \/ HasOverrunClear
        \/ /\ UNCHANGED <<usis, seen, rx_overrun, lost>> /\ (pc' = "closed" => pc = "closed")
           /\ isr' = "off" => isr = "off"
    BY DEF Next, vars, hwVars, isrVars, histVars, Isr, Continue, Call, IsrCopied, AvailableRing, AvailableFifo,
       PeekBegin, PeekReturn, ReadBegin, ReadChunk, ReadAdvance, ReadFifoBegin, ReadFifo, ReadReturn, Deliver,
       SetSizeClosed, ResizeBegin, ResizeMove, ResizeReturn, HasOverrun, Enable, Disable
  <1> QED
    BY <1>1, <1>2, <1>3, <1>4, <1>5, <1>6, <1>7, <1>8, <1>9

\* Whenever an overflow has discarded a byte of which uart_has_overrun has not
\* told yet, the flag is set, or UIOF is latched and the handler will set it:
\* neither the handler's acknowledge nor the unmasked test and clear loses it
\* (uart.cpp:147-180, 389-398, 863-872).
THEOREM LossIsAlwaysRecorded == Spec => []LossIsRecorded
  <1>1. Init => LossInv
    BY DEF Init, LossInv, LossIsRecorded
  <1>2. LossInv => LossIsRecorded
    BY DEF LossInv
  <1> QED
    BY <1>1, <1>2, LossStep, MaskInvariant, PTL DEF Spec

-----------------------------------------------------------------------------
(* peek() shows what the next read returns.                                *)

PeekInv ==
    peeked # NoByte => /\ BufferAvailable > 0 /\ buffer[rpos] = peeked
                       /\ pc \notin {"readAdvance", "closed", "resize"}

LEMMA PeekStep == Inv /\ PeekInv /\ [Next]_vars => PeekInv'
  <1> SUFFICES ASSUME Inv, PeekInv, [Next]_vars PROVE PeekInv'
    OBVIOUS
  <1>0. TypeInv /\ MaskInv /\ CallInv /\ RingType /\ InterruptType /\ size \in Nat \ {0, 1}
    BY SizeIsNat DEF Inv, TypeInv, TypeOK
  <1>1. CASE IsrCopy \/ PeekCopy
    <2>0. CopyByte /\ pc' \notin {"readAdvance", "closed", "resize"}
      BY <1>0, <1>1 DEF IsrCopy, PeekCopy, At, MaskInv, Critical
    <2>1. CASE Advance(wpos, 1) = rpos
      BY <2>0, <2>1 DEF CopyByte, PeekInv
    <2>2. CASE Advance(wpos, 1) # rpos
      <3>1. peeked' = peeked /\ rpos' = rpos /\ BufferAvailable' = BufferAvailable + 1 /\ BufferAvailable \in Nat
        BY <1>0, <2>0, <2>2, CopyByteCounts DEF CopyByte
      <3>2. ASSUME peeked # NoByte
            PROVE  buffer'[rpos] = peeked
        <4>1. rpos # wpos /\ rpos \in 0 .. size - 1 /\ buffer \in [0 .. size - 1 -> Int]
          BY <1>0, <3>2 DEF PeekInv, BufferAvailable, RingType
        <4> QED
          BY <2>0, <3>2, <4>1 DEF CopyByte, PeekInv
      <3> QED
        BY <2>0, <3>1, <3>2 DEF PeekInv
    <2> QED
      BY <2>1, <2>2
  <1>2. CASE PeekReturn
    <2>1. UNCHANGED <<rpos, wpos, size, buffer>> /\ pc' = "idle"
      BY <1>2 DEF PeekReturn, ringVars, Enable
    <2>2. CASE pc = "peek" /\ BufferAvailable = 0
      BY <1>2, <2>2 DEF PeekReturn, PeekInv
    <2>3. CASE ~(pc = "peek" /\ BufferAvailable = 0)
      <3>1. peeked' = buffer[rpos]
        BY <1>2, <2>3 DEF PeekReturn
      <3>2. BufferAvailable > 0
        BY <1>0, <1>2, <2>3, CountsAreNat DEF PeekReturn, At, CallInv
      <3> QED
        BY <2>1, <3>1, <3>2 DEF PeekInv, BufferAvailable
    <2> QED
      BY <2>2, <2>3
  <1>3. CASE ReadChunk \/ ReadFifo \/ End \/ \E n \in Sizes : ResizeBegin(n)
    BY <1>3 DEF ReadChunk, ReadFifo, Deliver, End, ResizeBegin, PeekInv
  <1>4. CASE Begin \/ ReadAdvance \/ ResizeMove \/ ResizeReturn \/ \E n \in Sizes : SetSizeClosed(n)
    BY <1>4 DEF Begin, ReadAdvance, ResizeMove, ResizeReturn, SetSizeClosed, At, histVars, PeekInv
  <1>5. CASE /\ UNCHANGED <<peeked, ringVars>>
             /\ pc' \in {"readAdvance", "closed", "resize"} => pc \in {"readAdvance", "closed", "resize"}
    BY <1>5 DEF ringVars, PeekInv, BufferAvailable
  <1>6. \/ IsrCopy \/ PeekCopy \/ PeekReturn \/ ReadChunk \/ ReadFifo \/ End \/ Begin \/ ReadAdvance
        \/ ResizeMove \/ ResizeReturn \/ \E n \in Sizes : SetSizeClosed(n) \/ ResizeBegin(n)
        \/ /\ UNCHANGED <<peeked, ringVars>>
           /\ pc' \in {"readAdvance", "closed", "resize"} => pc \in {"readAdvance", "closed", "resize"}
    BY DEF Next, vars, histVars, ringVars, Isr, Continue, Call, Arrive, IsrEnter, IsrCopied, IsrAck,
       AvailableRing, AvailableFifo, PeekBegin, ReadBegin, ReadFifoBegin, ReadReturn, HasOverrun,
       HasOverrunClear, Enable, Disable
  <1> QED
    BY <1>1, <1>2, <1>3, <1>4, <1>5, <1>6

\* The byte that peek() returned is the first one the next read hands out,
\* unless an overflow discards it first: the handler may move bytes into the
\* ring in between, and peek itself fills an empty ring from the FIFO
\* (uart.cpp:182-194, 231-241, 251-286).
THEOREM PeekedByteIsReadNext == Spec => PeekThenRead
  <1>1. Init => PeekInv
    BY DEF Init, PeekInv
  <1>2. ASSUME Inv, PeekInv, [Next]_vars, peeked # NoByte, delivered' # delivered
        PROVE  delivered'[Len(delivered) + 1] = peeked
    <2>1. TypeInv /\ delivered \in Seq(Int)
      BY <1>2 DEF Inv, TypeInv, TypeOK, HistoryType
    <2>2. ~ReadFifo
      BY <1>2 DEF ReadFifo, At, Inv, CallInv, PeekInv
    <2>3. ReadChunk
      BY <1>2, <2>2, DeliveryWriters
    <2> DEFINE n == chunk'
               piece == [k \in 1..n |-> buffer[rpos + k - 1]]
    <2>4. PICK m \in 1..size : n = m
      BY <2>1, <2>3, ChunkIsPiece
    <2>5. piece \in Seq(Int) /\ Len(piece) = m /\ delivered' = delivered \o piece
      BY <2>1, <2>3, <2>4, ChunkIsPiece
    <2>6. size \in Nat /\ rpos \in Nat
      BY <2>1, SizeIsNat DEF TypeInv, TypeOK, RingType
    <2>7. piece[1] = buffer[rpos]
      BY <2>4, <2>6
    <2>8. (delivered \o piece)[Len(delivered) + 1] = piece[1]
      <3> HIDE DEF piece
      <3> QED
        BY <2>1, <2>4, <2>5, <2>6, ConcatProperties
    <2> QED
      BY <1>2, <2>5, <2>7, <2>8 DEF PeekInv
  <1> QED
    BY <1>1, <1>2, PeekStep, InvInvariant, PTL DEF Spec, PeekThenRead

-----------------------------------------------------------------------------
(* Sequences in a ring. *)

LEMMA RingSeqIsSeq ==
    ASSUME NEW s \in Nat \ {0, 1}, NEW r \in 0..s, NEW n \in 0..s, NEW b \in [0 .. s - 1 -> Int]
    PROVE  /\ RingSeq(s, r, n, b) \in Seq(Int) /\ Len(RingSeq(s, r, n, b)) = n
           /\ \A k \in 1..n : RingSeq(s, r, n, b)[k] = b[IF r + k - 1 < s THEN r + k - 1 ELSE r + k - 1 - s]
  <1>1. \A k \in 1..n : (IF r + k - 1 < s THEN r + k - 1 ELSE r + k - 1 - s) \in 0 .. s - 1
    OBVIOUS
  <1>2. RingSeq(s, r, n, b) \in [1..n -> Int]
    BY <1>1 DEF RingSeq
  <1>3. RingSeq(s, r, n, b) \in Seq(Int) /\ Len(RingSeq(s, r, n, b)) = n
    BY <1>2
  <1> QED
    BY <1>3 DEF RingSeq

\* Two sequences of the same length and the same elements are the same.
LEMMA SameSeq ==
    ASSUME NEW p \in Seq(Int), NEW q \in Seq(Int), Len(p) = Len(q),
           \A k \in 1..Len(p) : p[k] = q[k]
    PROVE  p = q
  BY SeqEqual

LEMMA AppendOne ==
    ASSUME NEW q \in Seq(Int), NEW v \in Int
    PROVE  /\ Append(q, v) \in Seq(Int) /\ Len(Append(q, v)) = Len(q) + 1 /\ Append(q, v)[Len(q) + 1] = v
           /\ \A k \in 1..Len(q) : Append(q, v)[k] = q[k]
  BY AppendProperties

\* c is the buffer b of s cells once v has been written behind the n bytes
\* from cell r on.
Written(s, r, n, b, v, c) ==
    LET w == IF r + n < s THEN r + n ELSE r + n - s
    IN  /\ s \in Nat \ {0, 1} /\ r \in 0 .. s - 1 /\ n \in 0 .. s - 1
        /\ b \in [0 .. s - 1 -> Int] /\ c \in [0 .. s - 1 -> Int] /\ v \in Int
        /\ c[w] = v /\ \A i \in 0 .. s - 1 : i # w => c[i] = b[i]

\* A byte written behind the n bytes of a ring that has room ...
LEMMA RingPush ==
    ASSUME NEW s, NEW r, NEW n, NEW b, NEW v, NEW c, Written(s, r, n, b, v, c), n # s - 1
    PROVE  RingSeq(s, r, n + 1, c) = Append(RingSeq(s, r, n, b), v)
  <1> DEFINE w == IF r + n < s THEN r + n ELSE r + n - s
  <1>0. s \in Nat \ {0, 1} /\ r \in 0 .. s - 1 /\ n \in 0 .. s - 2 /\ b \in [0 .. s - 1 -> Int] /\ v \in Int
    BY DEF Written
  <1> USE <1>0
  <1>1. c \in [0 .. s - 1 -> Int]
    BY DEF Written
  <1>w. c[w] = v /\ \A i \in 0 .. s - 1 : i # w => c[i] = b[i]
    BY DEF Written
  <1>2. PICK p : p = RingSeq(s, r, n + 1, c)
    OBVIOUS
  <1>3. PICK q : q = RingSeq(s, r, n, b)
    OBVIOUS
  <1>4. p \in Seq(Int) /\ Len(p) = n + 1
        /\ \A k \in 1..n + 1 : p[k] = c[IF r + k - 1 < s THEN r + k - 1 ELSE r + k - 1 - s]
    <2>1. n + 1 \in 0..s /\ r \in 0..s
      OBVIOUS
    <2>2. /\ RingSeq(s, r, n + 1, c) \in Seq(Int) /\ Len(RingSeq(s, r, n + 1, c)) = n + 1
          /\ \A k \in 1..n + 1 :
                RingSeq(s, r, n + 1, c)[k] = c[IF r + k - 1 < s THEN r + k - 1 ELSE r + k - 1 - s]
      BY ZenonT(30), <1>1, <2>1, RingSeqIsSeq
    <2> QED
      BY <1>2, <2>2
  <1>5. q \in Seq(Int) /\ Len(q) = n
        /\ \A k \in 1..n : q[k] = b[IF r + k - 1 < s THEN r + k - 1 ELSE r + k - 1 - s]
    <2>1. n \in 0..s /\ r \in 0..s
      OBVIOUS
    <2>2. /\ RingSeq(s, r, n, b) \in Seq(Int) /\ Len(RingSeq(s, r, n, b)) = n
          /\ \A k \in 1..n :
                RingSeq(s, r, n, b)[k] = b[IF r + k - 1 < s THEN r + k - 1 ELSE r + k - 1 - s]
      BY ZenonT(30), <2>1, RingSeqIsSeq
    <2> QED
      BY <1>3, <2>2
  <1>6. \A k \in 1..n : p[k] = q[k]
    <2> SUFFICES ASSUME NEW k \in 1..n PROVE p[k] = q[k]
      OBVIOUS
    <2> DEFINE i == IF r + k - 1 < s THEN r + k - 1 ELSE r + k - 1 - s
    <2>1. i \in 0 .. s - 1 /\ i # w
      OBVIOUS
    <2>2. p[k] = c[i] /\ q[k] = b[i]
      <3>1. k \in 1..n + 1
        OBVIOUS
      <3> QED
        BY <1>4, <1>5, <3>1
    <2>3. c[i] = b[i]
      BY <1>w, <2>1
    <2> QED
      BY <2>2, <2>3
  <1>7. p[n + 1] = v
    <2>1. p[n + 1] = c[w]
      BY SMTT(30), <1>4
    <2> QED
      BY <1>w, <2>1
  <1>8. p = Append(q, v)
    <2>1. PICK a : a = Append(q, v)
      OBVIOUS
    <2>2. a \in Seq(Int) /\ Len(a) = n + 1 /\ a[n + 1] = v /\ \A k \in 1..n : a[k] = q[k]
      BY <1>5, <2>1, AppendOne
    <2>3. \A k \in 1..n + 1 : p[k] = a[k]
      BY SMTT(30), <1>6, <1>7, <2>2
    <2> QED
      BY <1>4, <2>1, <2>2, <2>3, SameSeq
  <1> QED
    BY <1>2, <1>3, <1>8

\* ... and one written into a full ring, which gives up its oldest byte.
LEMMA RingPushFull ==
    ASSUME NEW s, NEW r, NEW b, NEW v, NEW c, Written(s, r, s - 1, b, v, c)
    PROVE  RingSeq(s, IF r + 1 = s THEN 0 ELSE r + 1, s - 1, c) = Append(Tail(RingSeq(s, r, s - 1, b)), v)
  <1> DEFINE w == IF r + (s - 1) < s THEN r + (s - 1) ELSE r + (s - 1) - s
  <1>0. s \in Nat \ {0, 1} /\ r \in 0 .. s - 1 /\ b \in [0 .. s - 1 -> Int] /\ v \in Int
    BY DEF Written
  <1>r. PICK r2 : r2 = IF r + 1 = s THEN 0 ELSE r + 1
    OBVIOUS
  <1> USE <1>0, <1>r
  <1>1. c \in [0 .. s - 1 -> Int]
    BY DEF Written
  <1>w. c[w] = v /\ \A i \in 0 .. s - 1 : i # w => c[i] = b[i]
    BY DEF Written
  <1>2. PICK p : p = RingSeq(s, r2, s - 1, c)
    OBVIOUS
  <1>3. PICK q : q = RingSeq(s, r, s - 1, b)
    OBVIOUS
  <1>4. p \in Seq(Int) /\ Len(p) = s - 1
        /\ \A k \in 1 .. s - 1 : p[k] = c[IF r2 + k - 1 < s THEN r2 + k - 1 ELSE r2 + k - 1 - s]
    <2>1. s - 1 \in 0..s /\ r2 \in 0..s
      OBVIOUS
    <2>2. p = RingSeq(s, r2, s - 1, c)
      BY <1>2
    <2>3. /\ RingSeq(s, r2, s - 1, c) \in Seq(Int) /\ Len(RingSeq(s, r2, s - 1, c)) = s - 1
          /\ \A k \in 1 .. s - 1 :
                RingSeq(s, r2, s - 1, c)[k] = c[IF r2 + k - 1 < s THEN r2 + k - 1 ELSE r2 + k - 1 - s]
      BY ZenonT(30), <1>1, <2>1, RingSeqIsSeq
    <2> QED
      BY <2>2, <2>3
  <1>5. q \in Seq(Int) /\ Len(q) = s - 1
        /\ \A k \in 1 .. s - 1 : q[k] = b[IF r + k - 1 < s THEN r + k - 1 ELSE r + k - 1 - s]
    <2>1. s - 1 \in 0..s /\ r \in 0..s
      OBVIOUS
    <2>2. /\ RingSeq(s, r, s - 1, b) \in Seq(Int) /\ Len(RingSeq(s, r, s - 1, b)) = s - 1
          /\ \A k \in 1 .. s - 1 :
                RingSeq(s, r, s - 1, b)[k] = b[IF r + k - 1 < s THEN r + k - 1 ELSE r + k - 1 - s]
      BY ZenonT(30), <2>1, RingSeqIsSeq
    <2> QED
      BY <1>3, <2>2
  <1>6. PICK t : t = Tail(q)
    OBVIOUS
  <1>7. t \in Seq(Int) /\ Len(t) = s - 2 /\ \A k \in 1 .. s - 2 : t[k] = q[k + 1]
    <2>1. q # <<>>
      BY <1>5
    <2> QED
      BY <1>5, <1>6, <2>1, HeadTailProperties
  <1>8. \A k \in 1 .. s - 2 : p[k] = t[k]
    <2> SUFFICES ASSUME NEW k \in 1 .. s - 2 PROVE p[k] = t[k]
      OBVIOUS
    <2> DEFINE i == IF r + k < s THEN r + k ELSE r + k - s
    <2>1. i \in 0 .. s - 1 /\ i # w /\ k \in 1 .. s - 1 /\ k + 1 \in 1 .. s - 1
      OBVIOUS
    <2>2. (IF r2 + k - 1 < s THEN r2 + k - 1 ELSE r2 + k - 1 - s) = i
      OBVIOUS
    <2>3. (IF r + (k + 1) - 1 < s THEN r + (k + 1) - 1 ELSE r + (k + 1) - 1 - s) = i
      OBVIOUS
    <2>4. p[k] = c[i]
      <3> HIDE DEF i
      <3> QED
        BY <1>4, <2>1, <2>2
    <2>5. t[k] = b[i]
      <3> HIDE DEF i
      <3> QED
        BY <1>5, <1>7, <2>1, <2>3
    <2>6. c[i] = b[i]
      BY <1>w, <2>1
    <2> QED
      BY <2>4, <2>5, <2>6
  <1>9. p[s - 1] = v
    <2>1. (IF r2 + (s - 1) - 1 < s THEN r2 + (s - 1) - 1 ELSE r2 + (s - 1) - 1 - s) = w /\ s - 1 \in 1 .. s - 1
      OBVIOUS
    <2>2. p[s - 1] = c[w]
      <3> QED
        BY <1>4, <2>1
    <2> QED
      BY <1>w, <2>2
  <1>10. p = Append(t, v)
    <2>1. PICK a : a = Append(t, v)
      OBVIOUS
    <2>2. a \in Seq(Int) /\ Len(a) = s - 1 /\ a[s - 1] = v /\ \A k \in 1 .. s - 2 : a[k] = t[k]
      <3>1. /\ a \in Seq(Int) /\ Len(a) = Len(t) + 1 /\ a[Len(t) + 1] = v
            /\ \A k \in 1..Len(t) : a[k] = t[k]
        BY <1>7, <2>1, AppendOne
      <3> QED
        BY <1>7, <3>1
    <2>3. ASSUME NEW k \in 1 .. s - 1 PROVE p[k] = a[k]
      <3>1. CASE k = s - 1
        BY <1>9, <2>2, <3>1
      <3>2. CASE k # s - 1
        <4>1. k \in 1 .. s - 2
          BY <3>2
        <4> QED
          BY <1>8, <2>2, <4>1
      <3> QED
        BY <3>1, <3>2
    <2> QED
      BY <1>4, <2>1, <2>2, <2>3, SameSeq
  <1> QED
    BY <1>2, <1>3, <1>6, <1>10

\* m cells in a row.
Piece(r, m, b) == [k \in 1..m |-> b[r + k - 1]]

\* The first m of n bytes that do not wrap, and what follows them.
LEMMA RingTake ==
    ASSUME NEW s \in Nat \ {0, 1}, NEW r \in 0 .. s - 1, NEW n \in 0 .. s - 1, NEW b \in [0 .. s - 1 -> Int],
           NEW m \in 1..n, r + m <= s
    PROVE  /\ Piece(r, m, b) = SubSeq(RingSeq(s, r, n, b), 1, m)
           /\ RingSeq(s, r + m, n - m, b) = SubSeq(RingSeq(s, r, n, b), m + 1, n)
  <1> DEFINE at(i) == IF r + i - 1 < s THEN r + i - 1 ELSE r + i - 1 - s
  <1>1. PICK q : q = RingSeq(s, r, n, b)
    OBVIOUS
  <1>2. q \in Seq(Int) /\ Len(q) = n /\ \A k \in 1..n : q[k] = b[at(k)]
    <2>1. n \in 0..s /\ r \in 0..s
      OBVIOUS
    <2> QED
      BY ZenonT(30), <1>1, <2>1, RingSeqIsSeq
  <1>3. SubSeq(q, 1, m) = [k \in 1..m |-> q[k]]
    BY <1>2
  <1>4. SubSeq(q, m + 1, n) = [k \in 1..(n - m) |-> q[m + k]]
    BY <1>2
  <1>5. \A k \in 1..m : q[k] = b[r + k - 1]
    BY <1>2
  <1>6. \A k \in 1..(n - m) : q[m + k] = b[IF (r + m) + k - 1 < s THEN (r + m) + k - 1 ELSE (r + m) + k - 1 - s]
    <2> SUFFICES ASSUME NEW k \in 1..(n - m)
                 PROVE  q[m + k] = b[IF (r + m) + k - 1 < s THEN (r + m) + k - 1 ELSE (r + m) + k - 1 - s]
      OBVIOUS
    <2>1. m + k \in 1..n
      OBVIOUS
    <2>2. at(m + k) = IF (r + m) + k - 1 < s THEN (r + m) + k - 1 ELSE (r + m) + k - 1 - s
      OBVIOUS
    <2> HIDE DEF at
    <2> QED
      BY <1>2, <2>1, <2>2
  <1>7. [k \in 1..m |-> b[r + k - 1]] = [k \in 1..m |-> q[k]]
    BY <1>5
  <1>8. RingSeq(s, r + m, n - m, b) = [k \in 1..(n - m) |-> q[m + k]]
    BY <1>6 DEF RingSeq
  <1> QED
    BY <1>1, <1>3, <1>4, <1>7, <1>8 DEF Piece

\* A ring read up to its end goes on at its first cell.
LEMMA RingWrap ==
    ASSUME NEW s \in Nat \ {0, 1}, NEW n \in 0..s, NEW b
    PROVE  RingSeq(s, s, n, b) = RingSeq(s, 0, n, b) /\ RingSeq(s, 0, n, b) = [k \in 1..n |-> b[k - 1]]
  <1>1. \A k \in 1..n : /\ (IF s + k - 1 < s THEN s + k - 1 ELSE s + k - 1 - s) = k - 1
                        /\ (IF 0 + k - 1 < s THEN 0 + k - 1 ELSE 0 + k - 1 - s) = k - 1
    OBVIOUS
  <1> QED
    BY <1>1 DEF RingSeq

-----------------------------------------------------------------------------
(* The front, the rest and concatenation.                                  *)

LEMMA TailIsRest ==
    ASSUME NEW q \in Seq(Int), q # <<>>
    PROVE  Tail(q) \in Seq(Int) /\ Tail(q) = SubSeq(q, 2, Len(q))
  <1>0. Len(q) \in Nat \ {0}
    BY EmptySeq
  <1>1. PICK t : t = Tail(q)
    OBVIOUS
  <1>2. t \in Seq(Int) /\ Len(t) = Len(q) - 1 /\ \A k \in 1..Len(q) - 1 : t[k] = q[k + 1]
    BY <1>1, HeadTailProperties
  <1>3. PICK p : p = SubSeq(q, 2, Len(q))
    OBVIOUS
  <1>4. p = [k \in 1..(Len(q) - 1) |-> q[1 + k]]
    BY <1>0, <1>3
  <1>5. p \in Seq(Int) /\ Len(p) = Len(q) - 1 /\ \A k \in 1..Len(q) - 1 : p[k] = q[k + 1]
    <2>1. Len(q) - 1 \in Nat /\ \A k \in 1..(Len(q) - 1) : 1 + k \in 1..Len(q) /\ 1 + k = k + 1
      BY <1>0
    <2>2. \A k \in 1..(Len(q) - 1) : p[k] = q[k + 1] /\ q[1 + k] \in Int
      BY <1>4, <2>1
    <2>3. PICK m \in Nat : m = Len(q) - 1
      BY <2>1
    <2>4. p \in [1..m -> Int]
      BY <1>4, <2>2, <2>3
    <2>5. p \in Seq(Int) /\ Len(p) = m
      BY <2>3, <2>4
    <2> QED
      BY <2>2, <2>3, <2>5
  <1>6. t = p
    BY <1>2, <1>5, SameSeq
  <1> QED
    BY <1>1, <1>2, <1>3, <1>6

LEMMA HeadIsFront ==
    ASSUME NEW q \in Seq(Int), q # <<>>
    PROVE  <<Head(q)>> = SubSeq(q, 1, 1)
  <1>1. Len(q) \in Nat \ {0} /\ Head(q) = q[1] /\ q[1] \in Int
    BY EmptySeq, HeadTailProperties
  <1>2. SubSeq(q, 1, 1) = [k \in 1..1 |-> q[k]]
    BY <1>1
  <1> QED
    BY <1>1, <1>2

\* The head of h moves to the end of u.
LEMMA MoveOne ==
    ASSUME NEW u \in Seq(Int), NEW h \in Seq(Int), h # <<>>
    PROVE  Append(u, Head(h)) \o Tail(h) = u \o h
  <1>1. Head(h) \in Int /\ Tail(h) \in Seq(Int) /\ h = <<Head(h)>> \o Tail(h)
    BY HeadTailProperties, SeqEqual, ConcatProperties
  <1>2. Append(u, Head(h)) = u \o <<Head(h)>>
    BY <1>1, AppendIsConcat
  <1>3. <<Head(h)>> \in Seq(Int)
    BY <1>1
  <1>4. (u \o <<Head(h)>>) \o Tail(h) = u \o (<<Head(h)>> \o Tail(h))
    BY <1>1, <1>3, ConcatAssociative
  <1> QED
    BY <1>1, <1>2, <1>4

\* Taking from the front of u \o h.
LEMMA TakeOfConcat ==
    ASSUME NEW u \in Seq(Int), NEW h \in Seq(Int), NEW m \in 1..Len(u)
    PROVE  /\ Len(u \o h) \in Nat /\ m \in 1..Len(u \o h)
           /\ SubSeq(u \o h, 1, m) = SubSeq(u, 1, m)
           /\ SubSeq(u \o h, m + 1, Len(u \o h)) = SubSeq(u, m + 1, Len(u)) \o h
  <1>1. /\ u \o h \in Seq(Int) /\ Len(u \o h) = Len(u) + Len(h) /\ Len(u) \in Nat /\ Len(h) \in Nat
        /\ \A i \in 1..Len(u) + Len(h) : (u \o h)[i] = IF i <= Len(u) THEN u[i] ELSE h[i - Len(u)]
    BY ConcatProperties
  <1>2. PICK q : q = u \o h
    OBVIOUS
  <1>3. /\ q \in Seq(Int) /\ Len(q) = Len(u) + Len(h)
        /\ \A i \in 1..Len(u) + Len(h) : q[i] = IF i <= Len(u) THEN u[i] ELSE h[i - Len(u)]
    BY <1>1, <1>2
  <1>4. SubSeq(q, 1, m) = SubSeq(u, 1, m)
    <2>1. SubSeq(q, 1, m) = [i \in 1..m |-> q[i]] /\ SubSeq(u, 1, m) = [i \in 1..m |-> u[i]]
      BY <1>1, <1>3
    <2>2. \A i \in 1..m : q[i] = u[i]
      BY SMTT(30), <1>1, <1>3
    <2> QED
      BY <2>1, <2>2
  <1>5. PICK t : t = SubSeq(u, m + 1, Len(u))
    OBVIOUS
  <1>6. t = [i \in 1..(Len(u) - m) |-> u[m + i]]
    BY <1>1, <1>5
  <1>7. t \in Seq(Int) /\ Len(t) = Len(u) - m
    BY <1>1, <1>6
  <1>8. PICK p : p = SubSeq(q, m + 1, Len(q))
    OBVIOUS
  <1>9. p = [i \in 1..(Len(q) - m) |-> q[m + i]]
    BY <1>1, <1>3, <1>8
  <1>10. p \in Seq(Int) /\ Len(p) = Len(q) - m
    <2>1. Len(q) - m \in Nat /\ \A i \in 1..(Len(q) - m) : q[m + i] \in Int
      BY <1>1, <1>3
    <2> QED
      BY <1>9, <2>1
  <1>11. PICK c : c = t \o h
    OBVIOUS
  <1>12. /\ c \in Seq(Int) /\ Len(c) = Len(t) + Len(h)
         /\ \A i \in 1..Len(t) + Len(h) : c[i] = IF i <= Len(t) THEN t[i] ELSE h[i - Len(t)]
    BY <1>7, <1>11, ConcatProperties
  <1>13. Len(c) = Len(p)
    BY <1>1, <1>3, <1>7, <1>10, <1>12
  <1>14. \A i \in 1..Len(p) : p[i] = c[i]
    <2> SUFFICES ASSUME NEW i \in 1..Len(p) PROVE p[i] = c[i]
      OBVIOUS
    <2>1. p[i] = q[m + i] /\ m + i \in 1..Len(u) + Len(h) /\ i \in Nat
      BY <1>1, <1>3, <1>9, <1>10
    <2>2. CASE m + i <= Len(u)
      <3>1. i \in 1..(Len(u) - m) /\ i <= Len(t) /\ i \in 1..Len(t) + Len(h)
        BY <1>1, <1>7, <2>1, <2>2
      <3>2. c[i] = t[i] /\ t[i] = u[m + i] /\ q[m + i] = u[m + i]
        BY <1>3, <1>6, <1>12, <2>1, <2>2, <3>1
      <3> QED
        BY <2>1, <3>2
    <2>3. CASE ~(m + i <= Len(u))
      <3>1. ~(i <= Len(t)) /\ i \in 1..Len(t) + Len(h) /\ i - Len(t) = (m + i) - Len(u)
        BY <1>1, <1>3, <1>7, <1>10, <2>1, <2>3
      <3>2. c[i] = h[i - Len(t)] /\ q[m + i] = h[(m + i) - Len(u)]
        BY <1>3, <1>12, <2>1, <2>3, <3>1
      <3> QED
        BY <2>1, <3>1, <3>2
    <2> QED
      BY <2>2, <2>3
  <1>15. p = c
    BY <1>10, <1>12, <1>13, <1>14, SameSeq
  <1>16. SubSeq(u \o h, 1, m) = SubSeq(u, 1, m)
    BY <1>2, <1>4
  <1>17. SubSeq(u \o h, m + 1, Len(u \o h)) = SubSeq(u, m + 1, Len(u)) \o h
    BY <1>2, <1>5, <1>8, <1>11, <1>15
  <1>18. Len(u \o h) \in Nat /\ m \in 1..Len(u \o h)
    <2>1. PICK n : n = Len(u \o h)
      OBVIOUS
    <2>2. n = Len(u) + Len(h)
      BY <1>1, <2>1
    <2> QED
      BY <1>1, <2>1, <2>2
  <1> QED
    BY <1>16, <1>17, <1>18

\* n bytes in a ring of s cells, from cell r on.
Holds(s, r, n, b) ==
    s \in Nat \ {0, 1} /\ r \in 0 .. s - 1 /\ n \in 0 .. s - 1 /\ b \in [0 .. s - 1 -> Int]

\* The first of n bytes and the rest of the ring.
LEMMA RingPop ==
    ASSUME NEW s, NEW r, NEW n, NEW b, Holds(s, r, n, b), n # 0
    PROVE  /\ RingSeq(s, r, n, b) \in Seq(Int) /\ RingSeq(s, r, n, b) # <<>>
           /\ Head(RingSeq(s, r, n, b)) = b[r]
           /\ Tail(RingSeq(s, r, n, b)) = RingSeq(s, IF r + 1 = s THEN 0 ELSE r + 1, n - 1, b)
  <1>h. s \in Nat \ {0, 1} /\ r \in 0 .. s - 1 /\ n \in 1 .. s - 1 /\ b \in [0 .. s - 1 -> Int]
    BY DEF Holds
  <1>r. PICK r2 \in 0 .. s - 1 : r2 = IF r + 1 = s THEN 0 ELSE r + 1
    BY <1>h
  <1> USE <1>h, <1>r
  <1>1. PICK q : q = RingSeq(s, r, n, b)
    OBVIOUS
  <1>2. q \in Seq(Int) /\ Len(q) = n /\ \A k \in 1..n : q[k] = b[IF r + k - 1 < s THEN r + k - 1 ELSE r + k - 1 - s]
    <2>1. n \in 0..s /\ r \in 0..s
      OBVIOUS
    <2> QED
      BY ZenonT(30), <1>1, <2>1, RingSeqIsSeq
  <1>3. q[1] = b[r] /\ q # <<>>
    BY <1>2
  <1>4. PICK t : t = Tail(q)
    OBVIOUS
  <1>t. t \in Seq(Int) /\ Len(t) = n - 1 /\ (\A k \in 1..(n - 1) : t[k] = q[k + 1]) /\ Head(q) = q[1]
    BY <1>2, <1>3, <1>4, HeadTailProperties
  <1>5. \A k \in 1..(n - 1) : q[k + 1] = b[IF r2 + k - 1 < s THEN r2 + k - 1 ELSE r2 + k - 1 - s]
    <2> SUFFICES ASSUME NEW k \in 1..(n - 1)
                 PROVE  q[k + 1] = b[IF r2 + k - 1 < s THEN r2 + k - 1 ELSE r2 + k - 1 - s]
      OBVIOUS
    <2>1. k + 1 \in 1..n /\ (IF r + (k + 1) - 1 < s THEN r + (k + 1) - 1 ELSE r + (k + 1) - 1 - s)
                            = (IF r2 + k - 1 < s THEN r2 + k - 1 ELSE r2 + k - 1 - s)
      OBVIOUS
    <2> QED
      BY <1>2, <2>1
  <1>6. PICK p : p = RingSeq(s, r2, n - 1, b)
    OBVIOUS
  <1>7. p \in Seq(Int) /\ Len(p) = n - 1
        /\ \A k \in 1..(n - 1) : p[k] = b[IF r2 + k - 1 < s THEN r2 + k - 1 ELSE r2 + k - 1 - s]
    <2>1. PICK m : m = n - 1
      OBVIOUS
    <2>2. m \in 0..s /\ r2 \in 0..s
      BY <2>1
    <2>3. p = RingSeq(s, r2, m, b)
      BY <1>6, <2>1
    <2>4. p \in Seq(Int) /\ Len(p) = m
          /\ \A k \in 1..m : p[k] = b[IF r2 + k - 1 < s THEN r2 + k - 1 ELSE r2 + k - 1 - s]
      <3>1. /\ RingSeq(s, r2, m, b) \in Seq(Int) /\ Len(RingSeq(s, r2, m, b)) = m
            /\ \A k \in 1..m : RingSeq(s, r2, m, b)[k] = b[IF r2 + k - 1 < s THEN r2 + k - 1 ELSE r2 + k - 1 - s]
        BY ZenonT(30), <2>2, RingSeqIsSeq
      <3> QED
        BY <2>3, <3>1
    <2> QED
      BY <2>1, <2>4
  <1>8. t = p
    BY <1>t, <1>5, <1>7, SameSeq
  <1> QED
    BY <1>1, <1>2, <1>3, <1>4, <1>t, <1>6, <1>8

-----------------------------------------------------------------------------
(* The queue that waits, outside a resize.                                 *)

LEMMA EmptyConcat == ASSUME NEW u \in Seq(Int) PROVE <<>> \o u = u
  BY ConcatEmptySeq

\* What Waiting is in a state ...
LEMMA WaitingNow ==
    ASSUME TypeInv, CallInv, newBuf = <<>>
    PROVE  /\ Unread \in Seq(Int) /\ Len(Unread) = BufferAvailable - chunk
           /\ BufferAvailable - chunk \in Nat
           /\ hw \in Seq(Int) /\ Moved = <<>>
           /\ Open => Waiting = Unread \o hw
  <1>1. /\ size \in Nat \ {0, 1} /\ rpos \in 0 .. size - 1 /\ buffer \in [0 .. size - 1 -> Int]
        /\ chunk \in 0..size /\ LocalsInUse
    BY SizeIsNat DEF TypeInv, TypeOK, RingType, CallType
  <1>2. BufferAvailable \in 0 .. size - 1
    BY CountsAreNat DEF TypeInv, TypeOK
  <1>3. chunk <= BufferAvailable /\ rpos + chunk <= size
    BY <1>1, <1>2 DEF LocalsInUse, CallInv
  <1>4. rpos + chunk \in 0..size /\ BufferAvailable - chunk \in 0..size
    BY <1>1, <1>2, <1>3
  <1>5. Unread \in Seq(Int) /\ Len(Unread) = BufferAvailable - chunk
    BY ZenonT(30), <1>1, <1>4, RingSeqIsSeq DEF Unread
  <1>6. hw \in Seq(Int)
    BY BoundAssumption DEF TypeInv, TypeOK, InterruptType
  <1>7. Moved = <<>>
    BY DEF Moved
  <1>8. <<>> \o Unread = Unread
    BY <1>5, EmptyConcat
  <1> QED
    BY <1>4, <1>5, <1>6, <1>7, <1>8 DEF Waiting

\* ... and after a step.
LEMMA WaitingNext ==
    ASSUME NEW u \in Seq(Int), Unread' = u, newBuf' = <<>>, Open'
    PROVE  Waiting' = u \o hw'
  <1>1. Moved' = <<>>
    BY DEF Moved
  <1>2. <<>> \o u = u
    BY EmptyConcat
  <1> QED
    BY <1>1, <1>2 DEF Waiting

-----------------------------------------------------------------------------
(* The steps, one by one.                                                  *)

\* newBuf is in use only while a resize is on the way, and the queue is what
\* the abstract invariant says: a byte that waits is never a -1.
ResizeInv ==
    /\ pc # "resize" => newBuf = <<>>
    /\ pc = "resize" /\ Spoiled => BufferAvailable = 0 /\ hw # <<>>

RefInv == Inv /\ ResizeInv /\ Abstract!QInv

LEMMA RingFacts ==
    ASSUME Inv
    PROVE  /\ size \in Nat \ {0, 1} /\ rpos \in 0 .. size - 1 /\ wpos \in 0 .. size - 1
           /\ buffer \in [0 .. size - 1 -> Int] /\ BufferAvailable \in 0 .. size - 1
           /\ wpos = IF rpos + BufferAvailable < size THEN rpos + BufferAvailable
                     ELSE rpos + BufferAvailable - size
  <1>1. /\ size \in Nat \ {0, 1} /\ rpos \in 0 .. size - 1 /\ wpos \in 0 .. size - 1
        /\ buffer \in [0 .. size - 1 -> Int]
    BY SizeIsNat DEF Inv, TypeInv, TypeOK, RingType
  <1> QED
    BY <1>1 DEF BufferAvailable

\* A byte that arrives is queued or dropped.
LEMMA ArriveStep ==
    ASSUME RefInv, Arrive
    PROVE  Abstract!Receive
  <1>1. hw' = hw \/ hw' = Append(hw, arrived + 1)
    BY DEF Arrive
  <1>2. Moved' = Moved /\ Unread' = Unread /\ Open /\ Open'
    BY DEF Arrive, ringVars, callVars, Moved, Spoiled, Unread, BufferAvailable, Open
  <1>3. PICK u : u = Moved \o Unread
    OBVIOUS
  <1>4. Waiting = u \o hw /\ Waiting' = u \o hw'
    BY <1>2, <1>3 DEF Waiting
  <1>5. arrived \in Int /\ hw \in Seq(Int) /\ newBuf \in Seq(Int)
    BY BoundAssumption DEF RefInv, Inv, TypeInv, TypeOK, InterruptType, HistoryType, CallType
  <1>6. u \in Seq(Int)
    <2>1. Moved \in Seq(Int)
      BY <1>5, EmptySeq DEF Moved
    <2>2. Unread \in Seq(Int)
      <3>1. chunk \in 0..size /\ LocalsInUse /\ CallInv
        BY DEF RefInv, Inv, TypeInv, TypeOK, CallType
      <3>2. rpos + chunk \in 0..size /\ BufferAvailable - chunk \in 0..size
        BY <3>1, RingFacts DEF RefInv, LocalsInUse, CallInv
      <3> QED
        BY <3>2, RingFacts, RingSeqIsSeq DEF RefInv, Unread
    <2> QED
      BY <1>3, <2>1, <2>2, ConcatProperties
  <1>7. u \o Append(hw, arrived + 1) = Append(u \o hw, arrived + 1)
    <2>1. PICK v \in Int : v = arrived + 1
      BY <1>5
    <2>2. Append(hw, v) = hw \o <<v>> /\ <<v>> \in Seq(Int) /\ u \o hw \in Seq(Int)
      BY <1>5, <1>6, AppendIsConcat, ConcatProperties
    <2>3. u \o (hw \o <<v>>) = (u \o hw) \o <<v>>
      BY SMTT(30), <1>5, <1>6, <2>2, ConcatAssociative
    <2>4. Append(u \o hw, v) = (u \o hw) \o <<v>>
      BY <2>2, AppendIsConcat
    <2> QED
      BY <2>1, <2>2, <2>3, <2>4
  <1>8. Waiting' = Waiting \/ Waiting' = Append(Waiting, arrived + 1)
    BY <1>1, <1>4, <1>7
  <1> QED
    BY <1>8 DEF Abstract!Receive, Arrive

\* The copy loop moves a byte from the FIFO to the ring, and discards the
\* oldest if the ring is full.
LEMMA CopyByteStep ==
    ASSUME RefInv, CopyByte, pc' = pc, Open, pc \notin {"readAdvance", "resize"}, UNCHANGED <<chunk, newBuf>>
    PROVE  UNCHANGED Abstract!qvars \/ (1 \in 1..Len(Waiting) /\ Abstract!Discard(1))
  <1>1. /\ size \in Nat \ {0, 1} /\ rpos \in 0 .. size - 1 /\ wpos \in 0 .. size - 1
        /\ buffer \in [0 .. size - 1 -> Int] /\ BufferAvailable \in 0 .. size - 1
        /\ wpos = IF rpos + BufferAvailable < size THEN rpos + BufferAvailable
                  ELSE rpos + BufferAvailable - size
    BY RingFacts DEF RefInv
  <1>2. /\ chunk = 0 /\ newBuf = <<>> /\ TypeInv /\ CallInv /\ RingType /\ InterruptType
    BY DEF RefInv, Inv, TypeInv, TypeOK, LocalsInUse, ResizeInv
  <1>3. Waiting = Unread \o hw /\ Unread \in Seq(Int) /\ hw \in Seq(Int) /\ Len(Unread) = BufferAvailable
    BY <1>1, <1>2, WaitingNow
  <1>4. hw # <<>> /\ hw' = Tail(hw) /\ Head(hw) \in Int /\ Tail(hw) \in Seq(Int)
    BY <1>3, HeadTailProperties DEF CopyByte
  <1>5. /\ size' = size /\ buffer' = [buffer EXCEPT ![wpos] = Head(hw)]
        /\ rpos' = IF BufferAvailable = size - 1 THEN (IF rpos + 1 = size THEN 0 ELSE rpos + 1) ELSE rpos
        /\ BufferAvailable' = IF BufferAvailable = size - 1 THEN BufferAvailable ELSE BufferAvailable + 1
    <2>1. /\ (Advance(wpos, 1) = rpos) <=> (BufferAvailable = size - 1)
          /\ BufferAvailable' = IF BufferAvailable = size - 1 THEN BufferAvailable ELSE BufferAvailable + 1
      BY <1>2, CopyByteCounts
    <2> QED
      BY <2>1 DEF CopyByte
  <1>6. Unread = RingSeq(size, rpos, BufferAvailable, buffer)
    BY <1>1, <1>2 DEF Unread
  <1>7. \A u : Unread' = u /\ u \in Seq(Int) => Waiting' = u \o hw'
    BY <1>2, WaitingNext DEF Open
  <1>8. Unread' = RingSeq(size, rpos', BufferAvailable', buffer')
    <2>1. chunk' = 0
      BY <1>2
    <2>a. PICK r \in Int : r = IF BufferAvailable = size - 1 THEN (IF rpos + 1 = size THEN 0 ELSE rpos + 1) ELSE rpos
      BY <1>1
    <2>b. PICK m \in Int : m = IF BufferAvailable = size - 1 THEN BufferAvailable ELSE BufferAvailable + 1
      BY <1>1
    <2>2. rpos' = r /\ BufferAvailable' = m
      BY <1>5, <2>a, <2>b
    <2>3. r + 0 = r /\ m - 0 = m
      OBVIOUS
    <2>4. Unread' = RingSeq(size, r + 0, m - 0, buffer')
      BY <1>5, <2>1, <2>2 DEF Unread
    <2> QED
      BY <2>2, <2>3, <2>4
  <1>9. CASE BufferAvailable # size - 1
    <2>1. PICK n \in 0 .. size - 2 : n = BufferAvailable
      BY <1>1, <1>9
    <2>2. wpos = (IF rpos + n < size THEN rpos + n ELSE rpos + n - size)
      BY <1>1, <2>1
    <2>3. RingSeq(size, rpos, n + 1, buffer')
            = Append(RingSeq(size, rpos, n, buffer), Head(hw))
      <3>1. PICK v \in Int : v = Head(hw)
        BY <1>4
      <3>2. PICK c : c = buffer'
        OBVIOUS
      <3>3. Written(size, rpos, n, buffer, v, c) /\ n # size - 1
        BY <1>1, <1>5, <2>1, <2>2, <3>1, <3>2 DEF Written
      <3>4. RingSeq(size, rpos, n + 1, c) = Append(RingSeq(size, rpos, n, buffer), v)
        BY <3>3, RingPush
      <3> QED
        BY <3>1, <3>2, <3>4
    <2>4. Unread' = Append(Unread, Head(hw))
      BY <1>5, <1>6, <1>8, <1>9, <2>1, <2>3
    <2>5. Append(Unread, Head(hw)) \in Seq(Int)
      BY <1>3, <1>4, AppendProperties
    <2>6. Waiting' = Append(Unread, Head(hw)) \o Tail(hw)
      BY <1>4, <1>7, <2>4, <2>5
    <2>7. Waiting' = Waiting
      BY <1>3, <1>4, <2>6, MoveOne
    <2> QED
      BY <2>7 DEF Abstract!qvars, CopyByte
  <1>10. CASE BufferAvailable = size - 1
    <2>1. PICK r2 \in 0 .. size - 1 : r2 = IF rpos + 1 = size THEN 0 ELSE rpos + 1
      BY <1>1
    <2>2. wpos = (IF rpos + (size - 1) < size THEN rpos + (size - 1) ELSE rpos + (size - 1) - size)
      BY <1>1, <1>10
    <2>3. RingSeq(size, r2, size - 1, buffer')
            = Append(Tail(RingSeq(size, rpos, size - 1, buffer)), Head(hw))
      <3>1. PICK v \in Int : v = Head(hw)
        BY <1>4
      <3>2. PICK c : c = buffer'
        OBVIOUS
      <3>3. Written(size, rpos, size - 1, buffer, v, c)
        BY <1>1, <1>5, <2>1, <2>2, <3>1, <3>2 DEF Written
      <3>4. RingSeq(size, IF rpos + 1 = size THEN 0 ELSE rpos + 1, size - 1, c)
              = Append(Tail(RingSeq(size, rpos, size - 1, buffer)), v)
        BY <3>3, RingPushFull
      <3> QED
        BY <2>1, <3>1, <3>2, <3>4
    <2>4. Unread' = Append(Tail(Unread), Head(hw))
      BY <1>5, <1>6, <1>8, <1>10, <2>1, <2>3
    <2>5. Unread # <<>> /\ 1 \in 1..Len(Unread)
      BY <1>1, <1>3, <1>10
    <2>6. Tail(Unread) \in Seq(Int) /\ Tail(Unread) = SubSeq(Unread, 2, Len(Unread))
      BY <1>3, <2>5, TailIsRest
    <2>7. Append(Tail(Unread), Head(hw)) \in Seq(Int)
      BY <1>4, <2>6, AppendProperties
    <2>8. Waiting' = Append(Tail(Unread), Head(hw)) \o Tail(hw)
      BY <1>4, <1>7, <2>4, <2>7
    <2>9. Waiting' = Tail(Unread) \o hw
      BY <1>3, <1>4, <2>6, <2>8, MoveOne
    <2>10. 1 \in 1..Len(Waiting) /\ SubSeq(Waiting, 1 + 1, Len(Waiting)) = SubSeq(Unread, 1 + 1, Len(Unread)) \o hw
      <3>1. PICK u \in Seq(Int), h \in Seq(Int) : u = Unread /\ h = hw
        BY <1>3
      <3>2. PICK m \in 1..Len(u) : m = 1
        BY <2>5, <3>1
      <3>3. /\ Len(u \o h) \in Nat /\ m \in 1..Len(u \o h)
            /\ SubSeq(u \o h, m + 1, Len(u \o h)) = SubSeq(u, m + 1, Len(u)) \o h
        BY TakeOfConcat
      <3>4. u \o h = Waiting
        BY <1>3, <3>1
      <3>5. 1 \in 1..Len(Waiting)
        BY <3>2, <3>3, <3>4
      <3>6. SubSeq(Waiting, 1 + 1, Len(Waiting)) = SubSeq(Unread, 1 + 1, Len(Unread)) \o hw
        BY <3>1, <3>2, <3>3, <3>4
      <3> QED
        BY <3>5, <3>6
    <2>11. Waiting' = SubSeq(Waiting, 1 + 1, Len(Waiting))
      <3>1. 1 + 1 = 2
        OBVIOUS
      <3> QED
        BY <2>6, <2>9, <2>10, <3>1
    <2> QED
      BY <2>10, <2>11 DEF Abstract!Discard, Abstract!Rest, CopyByte
  <1> QED
    BY <1>9, <1>10

\* A linear piece of the ring is taken from the front of the queue.
LEMMA ReadChunkStep ==
    ASSUME RefInv, ReadChunk
    PROVE  \E n \in 1..Len(Waiting) : Abstract!Take(n)
  <1>1. /\ size \in Nat \ {0, 1} /\ rpos \in 0 .. size - 1 /\ wpos \in 0 .. size - 1
        /\ buffer \in [0 .. size - 1 -> Int] /\ BufferAvailable \in 0 .. size - 1
    BY RingFacts DEF RefInv
  <1>2. /\ chunk = 0 /\ newBuf = <<>> /\ TypeInv /\ CallInv /\ Open
    BY DEF RefInv, Inv, TypeInv, LocalsInUse, ResizeInv, ReadChunk, At, Open
  <1>3. Waiting = Unread \o hw /\ Unread \in Seq(Int) /\ hw \in Seq(Int) /\ Len(Unread) = BufferAvailable
    BY <1>1, <1>2, WaitingNow
  <1>4. PICK n : n = chunk'
    OBVIOUS
  <1>5. /\ n \in 1..BufferAvailable /\ rpos + n <= size
        /\ delivered' = delivered \o [k \in 1..n |-> buffer[rpos + k - 1]]
    <2>1. /\ chunk' \in 1..size /\ rpos + chunk' <= size /\ chunk' <= BufferAvailable
          /\ delivered' = delivered \o [k \in 1..chunk' |-> buffer[rpos + k - 1]]
      BY <1>2, ChunkIsPiece
    <2>2. /\ n \in 1..size /\ rpos + n <= size /\ n <= BufferAvailable
          /\ delivered' = delivered \o [k \in 1..n |-> buffer[rpos + k - 1]]
      BY <1>4, <2>1, Zenon
    <2> QED
      BY <1>1, <2>2
  <1>6. UNCHANGED <<hw, size, rpos, wpos, buffer, newBuf, arrived>> /\ Open'
    BY DEF ReadChunk, ringVars, hwVars, Open, Deliver
  <1>7. Unread = RingSeq(size, rpos, BufferAvailable, buffer)
    BY <1>1, <1>2 DEF Unread
  <1>8. Unread' = RingSeq(size, rpos + n, BufferAvailable - n, buffer)
    BY <1>4, <1>6 DEF Unread, BufferAvailable
  <1>9. /\ [k \in 1..n |-> buffer[rpos + k - 1]] = SubSeq(Unread, 1, n)
        /\ RingSeq(size, rpos + n, BufferAvailable - n, buffer) = SubSeq(Unread, n + 1, Len(Unread))
    <2>1. PICK a \in 0 .. size - 1 : a = BufferAvailable
      BY <1>1
    <2>a. n \in 1..a /\ rpos + n <= size
      BY <1>5, <2>1
    <2>2. /\ Piece(rpos, n, buffer) = SubSeq(RingSeq(size, rpos, a, buffer), 1, n)
          /\ RingSeq(size, rpos + n, a - n, buffer) = SubSeq(RingSeq(size, rpos, a, buffer), n + 1, a)
      BY ZenonT(30), <1>1, <2>a, RingTake
    <2> QED
      BY <1>3, <1>7, <2>1, <2>2 DEF Piece
  <1>10. n \in 1..Len(Unread)
    BY <1>3, <1>5
  <1>11. PICK u \in Seq(Int), h \in Seq(Int) : u = Unread /\ h = hw
    BY <1>3
  <1>12. /\ n \in 1..Len(u \o h) /\ SubSeq(u \o h, 1, n) = SubSeq(u, 1, n)
         /\ SubSeq(u \o h, n + 1, Len(u \o h)) = SubSeq(u, n + 1, Len(u)) \o h
    BY ZenonT(30), <1>10, <1>11, TakeOfConcat
  <1>13. u \o h = Waiting
    BY <1>3, <1>11
  <1>14. delivered' = delivered \o SubSeq(Waiting, 1, n)
    BY <1>5, <1>9, <1>11, <1>12, <1>13
  <1>15. PICK t : t = SubSeq(u, n + 1, Len(u))
    OBVIOUS
  <1>16. t \in Seq(Int)
    <2>1. n \in 1..Len(u) /\ Len(u) \in Nat /\ u \in Seq(Int)
      BY <1>3, <1>10, <1>11
    <2> QED
      BY <1>15, <2>1, SubSeqProperties
  <1>17. Unread' = t
    BY <1>8, <1>9, <1>11, <1>15
  <1>18. Waiting' = t \o hw'
    BY <1>2, <1>6, <1>16, <1>17, WaitingNext
  <1>19. Waiting' = SubSeq(Waiting, n + 1, Len(Waiting))
    BY <1>6, <1>11, <1>12, <1>13, <1>15, <1>18
  <1>20. n \in 1..Len(Waiting)
    BY <1>12, <1>13
  <1> QED
    BY <1>6, <1>14, <1>19, <1>20 DEF Abstract!Take, Abstract!Front, Abstract!Rest

\* The ring gives the cells of that piece back: nothing changes.
LEMMA ReadAdvanceStep ==
    ASSUME RefInv, ReadAdvance
    PROVE  UNCHANGED Abstract!qvars
  <1>1. /\ size \in Nat \ {0, 1} /\ rpos \in 0 .. size - 1
        /\ buffer \in [0 .. size - 1 -> Int] /\ BufferAvailable \in 0 .. size - 1
    BY RingFacts DEF RefInv
  <1>2. /\ chunk \in 0..size /\ newBuf = <<>> /\ TypeInv /\ CallInv /\ Open
        /\ chunk <= BufferAvailable /\ rpos + chunk <= size
    BY DEF RefInv, Inv, TypeInv, TypeOK, CallType, CallInv, ResizeInv, ReadAdvance, At, Open
  <1>3. Waiting = Unread \o hw /\ Unread \in Seq(Int)
    BY <1>2, WaitingNow
  <1>4. /\ UNCHANGED <<hw, size, buffer, newBuf, arrived, delivered>> /\ Open' /\ chunk' = 0
        /\ rpos' = Advance(rpos, chunk)
    BY DEF ReadAdvance, hwVars, histVars, Open
  <1>5. PICK r \in 0 .. size - 1 : r = IF rpos + chunk >= size THEN rpos + chunk - size ELSE rpos + chunk
    <2>1. (IF rpos + chunk >= size THEN rpos + chunk - size ELSE rpos + chunk) \in 0 .. size - 1
      BY <1>1, <1>2
    <2> QED
      BY <2>1
  <1>6. rpos' = r
    BY <1>1, <1>2, <1>4, <1>5, AdvanceMany DEF Advance
  <1>7. PICK m \in 0..size : m = BufferAvailable - chunk
    BY <1>1, <1>2
  <1>8. BufferAvailable' = m
    BY <1>2, <1>7, ReadAdvanceCounts
  <1>9. Unread' = RingSeq(size, r + 0, m - 0, buffer)
    BY <1>4, <1>6, <1>8 DEF Unread
  <1>10. r + 0 = r /\ m - 0 = m
    BY <1>1
  <1>11. Unread' = RingSeq(size, r, m, buffer)
    BY <1>9, <1>10
  <1>12. Unread = RingSeq(size, rpos + chunk, m, buffer)
    BY <1>7 DEF Unread
  <1>13. Unread' = Unread
    <2>1. CASE rpos + chunk < size
      <3>1. r = rpos + chunk
        BY <1>1, <1>2, <1>5, <2>1
      <3> QED
        BY <1>11, <1>12, <3>1
    <2>2. CASE ~(rpos + chunk < size)
      <3>1. r = 0 /\ rpos + chunk = size
        BY <1>1, <1>2, <1>5, <2>2
      <3>2. RingSeq(size, size, m, buffer) = RingSeq(size, 0, m, buffer)
        BY <1>1, <1>7, RingWrap
      <3> QED
        BY <1>11, <1>12, <3>1, <3>2
    <2> QED
      BY <2>1, <2>2
  <1>14. Waiting' = Unread \o hw'
    BY <1>2, <1>3, <1>4, <1>13, WaitingNext
  <1> QED
    BY <1>3, <1>4, <1>14 DEF Abstract!qvars

\* The ring is empty: a byte is taken straight from the FIFO.
LEMMA ReadFifoStep ==
    ASSUME RefInv, ReadFifo
    PROVE  1 \in 1..Len(Waiting) /\ Abstract!Take(1)
  <1>1. /\ size \in Nat \ {0, 1} /\ rpos \in 0 .. size - 1
        /\ buffer \in [0 .. size - 1 -> Int] /\ BufferAvailable = 0
    BY RingFacts DEF RefInv, Inv, CallInv, ReadFifo, At
  <1>2. chunk = 0 /\ newBuf = <<>> /\ TypeInv /\ CallInv /\ Open
    BY DEF RefInv, Inv, TypeInv, LocalsInUse, ResizeInv, ReadFifo, At, Open
  <1>3. Waiting = Unread \o hw /\ Unread \in Seq(Int) /\ hw \in Seq(Int) /\ Len(Unread) = 0
    BY <1>1, <1>2, WaitingNow
  <1>4. Unread = <<>>
    BY <1>3, EmptySeq
  <1>5. Waiting = hw
    BY <1>3, <1>4, EmptyConcat
  <1>6. /\ hw # <<>> /\ hw' = Tail(hw) /\ Deliver(<<Head(hw)>>) /\ Open'
        /\ UNCHANGED <<size, rpos, wpos, buffer, chunk, newBuf, arrived>>
    BY DEF ReadFifo, ringVars, Open, At
  <1>7. Tail(hw) \in Seq(Int) /\ Len(hw) \in Nat /\ 1 \in 1..Len(hw)
    BY <1>3, <1>6, HeadTailProperties, EmptySeq
  <1>8. Unread' = <<>>
    BY <1>4, <1>6 DEF Unread, BufferAvailable
  <1>9. Waiting' = <<>> \o hw'
    <2>1. <<>> \in Seq(Int)
      OBVIOUS
    <2> QED
      BY <1>2, <1>6, <1>8, <2>1, WaitingNext
  <1>10. Waiting' = Tail(hw)
    BY <1>6, <1>7, <1>9, EmptyConcat
  <1>11. Tail(hw) = SubSeq(hw, 2, Len(hw)) /\ <<Head(hw)>> = SubSeq(hw, 1, 1)
    BY <1>3, <1>6, <1>7, TailIsRest, HeadIsFront
  <1>12. delivered' = delivered \o SubSeq(Waiting, 1, 1)
    BY <1>5, <1>6, <1>11 DEF Deliver
  <1>13. Waiting' = SubSeq(Waiting, 1 + 1, Len(Waiting))
    <2>1. 1 + 1 = 2
      OBVIOUS
    <2> QED
      BY <1>5, <1>10, <1>11, <2>1
  <1> QED
    BY <1>5, <1>6, <1>7, <1>12, <1>13 DEF Abstract!Take, Abstract!Front, Abstract!Rest

\* What stands before the FIFO's bytes is discarded, or there is nothing.
LEMMA DropFront ==
    ASSUME NEW u \in Seq(Int), NEW h \in Seq(Int), Waiting = u \o h, Waiting' = h,
           UNCHANGED <<arrived, delivered>>
    PROVE  UNCHANGED Abstract!qvars \/ \E k \in 1..Len(Waiting) : Abstract!Discard(k)
  <1>1. CASE u = <<>>
    BY <1>1, EmptyConcat DEF Abstract!qvars
  <1>2. CASE u # <<>>
    <2>1. PICK m \in 1..Len(u) : m = Len(u)
      BY <1>2, EmptySeq
    <2>2. /\ m \in 1..Len(u \o h)
          /\ SubSeq(u \o h, m + 1, Len(u \o h)) = SubSeq(u, m + 1, Len(u)) \o h
      BY TakeOfConcat
    <2>3. SubSeq(u, m + 1, Len(u)) = <<>>
      <3>1. Len(u) \in Nat /\ m + 1 > Len(u)
        BY <2>1
      <3> QED
        BY <3>1, SubSeqEmpty
    <2>4. <<>> \o h = h
      BY EmptyConcat
    <2>5. m \in 1..Len(Waiting) /\ Waiting' = SubSeq(Waiting, m + 1, Len(Waiting))
      BY <2>2, <2>3, <2>4
    <2> QED
      BY <2>5 DEF Abstract!Discard, Abstract!Rest
  <1> QED
    BY <1>1, <1>2

\* Waiting during a resize.
LEMMA ResizeNow ==
    ASSUME RefInv, pc = "resize"
    PROVE  /\ newBuf \in Seq(Int) /\ Moved \in Seq(Int) /\ Unread \in Seq(Int) /\ hw \in Seq(Int)
           /\ Unread = RingSeq(size, rpos, BufferAvailable, buffer)
           /\ Len(Unread) = BufferAvailable
           /\ Waiting = (Moved \o Unread) \o hw /\ Moved \o Unread \in Seq(Int)
           /\ Waiting \in Seq(Nat)
           /\ chunk = 0 /\ Len(newBuf) \in Nat
  <1>1. /\ size \in Nat \ {0, 1} /\ rpos \in 0 .. size - 1
        /\ buffer \in [0 .. size - 1 -> Int] /\ BufferAvailable \in 0 .. size - 1
    BY RingFacts DEF RefInv
  <1>2. newBuf \in Seq(Int) /\ hw \in Seq(Int) /\ chunk = 0
    BY BoundAssumption DEF RefInv, Inv, TypeInv, TypeOK, CallType, InterruptType, LocalsInUse
  <1>3. Moved \in Seq(Int)
    BY <1>2, EmptySeq DEF Moved
  <1>4. Unread = RingSeq(size, rpos, BufferAvailable, buffer)
    BY <1>1, <1>2 DEF Unread
  <1>5. Unread \in Seq(Int) /\ Len(Unread) = BufferAvailable
    BY <1>1, <1>4, RingSeqIsSeq
  <1>6. Waiting = (Moved \o Unread) \o hw
    BY DEF Waiting, Open
  <1>7. Moved \o Unread \in Seq(Int)
    BY <1>3, <1>5, ConcatProperties
  <1>8. Waiting \in Seq(Nat)
    BY DEF RefInv, Abstract!QInv, Abstract!Ordered
  <1> QED
    BY <1>2, <1>3, <1>4, <1>5, <1>6, <1>7, <1>8

LEMMA AppendHas ==
    ASSUME NEW q \in Seq(Int), NEW v \in Int, NEW x
    PROVE  (\E i \in 1..Len(Append(q, v)) : Append(q, v)[i] = x) <=> (v = x \/ \E i \in 1..Len(q) : q[i] = x)
  <1>1. PICK a : a = Append(q, v)
    OBVIOUS
  <1>2. Len(q) \in Nat /\ Len(a) = Len(q) + 1 /\ a[Len(q) + 1] = v /\ \A k \in 1..Len(q) : a[k] = q[k]
    BY <1>1, AppendOne
  <1>3. ASSUME NEW i \in 1..Len(a), a[i] = x
        PROVE  v = x \/ \E k \in 1..Len(q) : q[k] = x
    <2>1. i = Len(q) + 1 \/ i \in 1..Len(q)
      BY <1>2
    <2> QED
      BY <1>2, <1>3, <2>1
  <1>4. ASSUME v = x \/ \E k \in 1..Len(q) : q[k] = x
        PROVE  \E i \in 1..Len(a) : a[i] = x
    <2>1. Len(q) + 1 \in 1..Len(a) /\ \A k \in 1..Len(q) : k \in 1..Len(a)
      BY <1>2
    <2> QED
      BY <1>2, <1>4, <2>1
  <1> QED
    BY <1>1, <1>3, <1>4

\* A byte of the ring moves to the new buffer, or a -1 is written to it and
\* what it holds is lost.
LEMMA ResizeMoveStep ==
    ASSUME RefInv, ResizeMove
    PROVE  /\ UNCHANGED Abstract!qvars \/ \E k \in 1..Len(Waiting) : Abstract!Discard(k)
           /\ Spoiled' => BufferAvailable' = 0 /\ hw' # <<>>
  <1>1. /\ size \in Nat \ {0, 1} /\ rpos \in 0 .. size - 1 /\ wpos \in 0 .. size - 1
        /\ buffer \in [0 .. size - 1 -> Int] /\ BufferAvailable \in 0 .. size - 1
    BY RingFacts DEF RefInv
  <1>2. /\ newBuf \in Seq(Int) /\ Moved \in Seq(Int) /\ Unread \in Seq(Int) /\ hw \in Seq(Int)
        /\ Unread = RingSeq(size, rpos, BufferAvailable, buffer)
        /\ Len(Unread) = BufferAvailable
        /\ Waiting = (Moved \o Unread) \o hw /\ Moved \o Unread \in Seq(Int)
        /\ Waiting \in Seq(Nat) /\ chunk = 0 /\ Len(newBuf) \in Nat
    BY ResizeNow DEF ResizeMove, At
  <1>3. /\ UNCHANGED <<hw, size, wpos, buffer, chunk, arrived, delivered>> /\ Open'
    BY DEF ResizeMove, hwVars, histVars, Open, At
  <1>4. CASE BufferAvailable > 0
    <2>1. newBuf' = Append(newBuf, buffer[rpos]) /\ rpos' = Advance(rpos, 1)
      BY <1>4 DEF ResizeMove
    <2>2. PICK r \in 0 .. size - 1 : r = IF rpos + 1 = size THEN 0 ELSE rpos + 1
      BY <1>1
    <2>3. rpos' = r
      BY <1>1, <2>1, <2>2, AdvanceOne DEF Advance
    <2>4. PICK n \in 1 .. size - 1 : n = BufferAvailable
      BY <1>1, <1>4
    <2>5. BufferAvailable' = n - 1
      BY <1>1, <1>3, <1>4, <2>2, <2>3, <2>4 DEF BufferAvailable
    <2>6. /\ Unread # <<>> /\ Head(Unread) = buffer[rpos]
          /\ Tail(Unread) = RingSeq(size, r, n - 1, buffer)
      <3>1. Holds(size, rpos, n, buffer) /\ n # 0
        BY <1>1, <2>4 DEF Holds
      <3>2. /\ RingSeq(size, rpos, n, buffer) # <<>>
            /\ Head(RingSeq(size, rpos, n, buffer)) = buffer[rpos]
            /\ Tail(RingSeq(size, rpos, n, buffer))
                 = RingSeq(size, IF rpos + 1 = size THEN 0 ELSE rpos + 1, n - 1, buffer)
        BY <3>1, RingPop
      <3> QED
        BY <1>2, <2>2, <2>4, <3>2
    <2>7. PICK m : m = n - 1
      OBVIOUS
    <2>8. Unread' = RingSeq(size, r + 0, m - 0, buffer)
      BY <1>2, <1>3, <2>3, <2>5, <2>7 DEF Unread
    <2>9. r + 0 = r /\ m - 0 = m
      BY <1>1, <2>7
    <2>10. Unread' = Tail(Unread)
      BY <2>6, <2>7, <2>8, <2>9
    <2>11. ~Spoiled
      BY <1>4 DEF RefInv, ResizeInv, ResizeMove, At
    <2>12. Moved = newBuf
      BY <2>11 DEF Moved
    <2>13. buffer[rpos] # NoByte
      <3>1. PICK w : w = Waiting
        OBVIOUS
      <3>2. PICK u : u = Moved \o Unread
        OBVIOUS
      <3>3. u \in Seq(Int) /\ w \in Seq(Nat) /\ w = u \o hw
        BY <1>2, <3>1, <3>2
      <3>4. Len(newBuf) + 1 \in 1..Len(u) /\ u[Len(newBuf) + 1] = Unread[1]
        <4>1. /\ Len(u) = Len(newBuf) + Len(Unread)
              /\ \A i \in 1..Len(newBuf) + Len(Unread) :
                    u[i] = IF i <= Len(newBuf) THEN newBuf[i] ELSE Unread[i - Len(newBuf)]
          BY ZenonT(30), <1>2, <2>12, <3>2, ConcatProperties
        <4>2. Len(newBuf) + 1 \in 1..Len(newBuf) + Len(Unread) /\ ~(Len(newBuf) + 1 <= Len(newBuf))
              /\ (Len(newBuf) + 1) - Len(newBuf) = 1
          BY SMTT(30), <1>1, <1>2, <2>4
        <4> QED
          BY <4>1, <4>2
      <3>5. Len(newBuf) + 1 \in 1..Len(w) /\ w[Len(newBuf) + 1] = u[Len(newBuf) + 1]
        <4>1. /\ Len(w) = Len(u) + Len(hw) /\ Len(u) \in Nat /\ Len(hw) \in Nat
              /\ \A i \in 1..Len(u) + Len(hw) : w[i] = IF i <= Len(u) THEN u[i] ELSE hw[i - Len(u)]
          BY <1>2, <3>3, ConcatProperties
        <4>2. Len(newBuf) + 1 \in 1..Len(u) + Len(hw) /\ Len(newBuf) + 1 <= Len(u)
          BY <3>4, <4>1
        <4> QED
          BY <4>1, <4>2
      <3>6. Unread[1] \in Nat
        BY <3>3, <3>4, <3>5, ElementOfSeq
      <3>7. Unread[1] = buffer[rpos]
        BY <1>2, <2>6, HeadTailProperties
      <3> QED
        BY <3>6, <3>7 DEF NoByte
    <2>14. buffer[rpos] \in Int
      BY <1>1
    <2>15. ~Spoiled'
      <3>1. PICK q \in Seq(Int), v \in Int : q = newBuf /\ v = buffer[rpos]
        BY <1>2, <2>14
      <3>2. (\E i \in 1..Len(Append(q, v)) : Append(q, v)[i] = NoByte)
              <=> (v = NoByte \/ \E i \in 1..Len(q) : q[i] = NoByte)
        BY AppendHas
      <3>3. newBuf' = Append(q, v)
        BY <2>1, <3>1
      <3>4. ~ \E i \in 1..Len(q) : q[i] = NoByte
        BY <2>11, <3>1 DEF Spoiled
      <3>5. ~ \E i \in 1..Len(newBuf') : newBuf'[i] = NoByte
        BY <2>13, <3>1, <3>2, <3>3, <3>4
      <3> QED
        BY <3>5 DEF Spoiled
    <2>16. Moved' = Append(newBuf, Head(Unread))
      BY <2>1, <2>6, <2>15 DEF Moved
    <2>17. Waiting' = (Append(newBuf, Head(Unread)) \o Tail(Unread)) \o hw
      BY <1>3, <2>10, <2>16 DEF Waiting
    <2>18. Waiting' = Waiting
      BY <1>2, <2>6, <2>12, <2>17, MoveOne
    <2> QED
      BY <1>3, <2>15, <2>18 DEF Abstract!qvars
  <1>5. CASE ~(BufferAvailable > 0)
    <2>1. /\ newBuf' = Append(newBuf, NoByte) /\ rpos' = rpos /\ Available > 0
      BY <1>5 DEF ResizeMove
    <2>2. hw # <<>>
      BY <1>1, <1>5, <2>1, EmptySeq DEF Available
    <2>3. BufferAvailable' = BufferAvailable /\ BufferAvailable = 0 /\ Unread' = Unread /\ Unread = <<>>
      <3>1. BufferAvailable' = BufferAvailable /\ BufferAvailable = 0 /\ Unread' = Unread
        BY <1>1, <1>3, <1>5, <2>1 DEF BufferAvailable, Unread
      <3> QED
        BY <1>2, <3>1, EmptySeq
    <2>4. NoByte \in Int
      BY DEF NoByte
    <2>5. Spoiled'
      <3>1. PICK q \in Seq(Int), v \in Int : q = newBuf /\ v = NoByte
        BY <1>2, <2>4
      <3>2. (\E i \in 1..Len(Append(q, v)) : Append(q, v)[i] = NoByte)
              <=> (v = NoByte \/ \E i \in 1..Len(q) : q[i] = NoByte)
        BY AppendHas
      <3>3. newBuf' = Append(q, v)
        BY <2>1, <3>1
      <3>4. \E i \in 1..Len(newBuf') : newBuf'[i] = NoByte
        BY <3>1, <3>2, <3>3
      <3> QED
        BY <3>4 DEF Spoiled
    <2>6. Moved' = <<>>
      BY <2>5 DEF Moved
    <2>7. <<>> \o <<>> = <<>> /\ <<>> \o hw = hw /\ <<>> \in Seq(Int)
      BY <1>2, EmptyConcat
    <2>8. Waiting' = hw
      BY <1>3, <2>3, <2>6, <2>7 DEF Waiting
    <2>9. UNCHANGED Abstract!qvars \/ \E k \in 1..Len(Waiting) : Abstract!Discard(k)
      BY <1>2, <1>3, <2>8, DropFront
    <2> QED
      BY <1>3, <2>2, <2>3, <2>9
  <1> QED
    BY <1>4, <1>5

\* The new buffer takes the place of the ring; filled to its end, it counts
\* as empty and all it holds is lost.
LEMMA ResizeReturnStep ==
    ASSUME RefInv, ResizeReturn
    PROVE  UNCHANGED Abstract!qvars \/ \E k \in 1..Len(Waiting) : Abstract!Discard(k)
  <1>1. /\ size \in Nat \ {0, 1} /\ rpos \in 0 .. size - 1 /\ wpos \in 0 .. size - 1
        /\ buffer \in [0 .. size - 1 -> Int] /\ BufferAvailable \in 0 .. size - 1
    BY RingFacts DEF RefInv
  <1>2. /\ newBuf \in Seq(Int) /\ Moved \in Seq(Int) /\ Unread \in Seq(Int) /\ hw \in Seq(Int)
        /\ Len(Unread) = BufferAvailable
        /\ Waiting = (Moved \o Unread) \o hw /\ Moved \o Unread \in Seq(Int)
        /\ chunk = 0 /\ Len(newBuf) \in Nat
    BY ResizeNow DEF ResizeReturn, At
  <1>3. newSize \in Nat \ {0, 1} /\ Len(newBuf) <= newSize
    BY SizeAssumption DEF RefInv, Inv, TypeInv, TypeOK, CallType, LocalsInUse, ResizeReturn, At
  <1>4. /\ hw' = hw /\ newBuf' = <<>> /\ chunk' = 0 /\ Open' /\ UNCHANGED <<arrived, delivered>>
        /\ size' = newSize /\ rpos' = 0
        /\ wpos' = IF Len(newBuf) = newSize THEN 0 ELSE Len(newBuf)
        /\ buffer' = [i \in 0 .. newSize - 1 |-> IF i < Len(newBuf) THEN newBuf[i + 1] ELSE Uninit]
    BY <1>2 DEF ResizeReturn, hwVars, histVars, Open, Enable
  <1>5. PICK w \in Nat : w = IF Len(newBuf) = newSize THEN 0 ELSE Len(newBuf)
    BY <1>2
  <1>6. BufferAvailable' = w
    BY <1>4, <1>5 DEF BufferAvailable
  <1>7. Unread' = RingSeq(newSize, 0 + 0, w - 0, buffer')
    BY <1>4, <1>6 DEF Unread
  <1>8. 0 + 0 = 0 /\ w - 0 = w
    OBVIOUS
  <1>9. Unread' = RingSeq(newSize, 0, w, buffer')
    BY <1>7, <1>8
  <1>10. PICK c : c = buffer'
    OBVIOUS
  <1>11. w \in 0..newSize /\ RingSeq(newSize, 0, w, c) = [k \in 1..w |-> c[k - 1]]
    <2>1. w \in 0..newSize
      BY <1>2, <1>3, <1>5
    <2> QED
      BY <1>3, <2>1, RingWrap
  <1>12. CASE Len(newBuf) = newSize
    <2>1. w = 0
      BY <1>5, <1>12
    <2>2. Unread' = <<>>
      BY <1>9, <1>10, <1>11, <2>1
    <2>3. <<>> \in Seq(Int) /\ <<>> \o hw = hw
      BY <1>2, EmptyConcat
    <2>4. Waiting' = hw
      BY <1>4, <2>2, <2>3, WaitingNext
    <2> QED
      BY <1>2, <1>4, <2>4, DropFront
  <1>13. CASE Len(newBuf) # newSize
    <2>1. Available = 0
      BY <1>13 DEF ResizeReturn
    <2>2. BufferAvailable = 0 /\ hw = <<>>
      BY <1>1, <1>2, <2>1, EmptySeq DEF Available
    <2>3. ~Spoiled
      BY <2>2 DEF RefInv, ResizeInv, ResizeReturn, At
    <2>4. Moved = newBuf /\ Unread = <<>>
      BY <1>2, <2>2, <2>3, EmptySeq DEF Moved
    <2>5. Waiting = newBuf
      BY <1>2, <2>2, <2>4, ConcatEmptySeq
    <2>6. w = Len(newBuf) /\ w < newSize
      BY <1>2, <1>3, <1>5, <1>13
    <2>7. ASSUME NEW k \in 1..w PROVE c[k - 1] = newBuf[k]
      <3>1. k - 1 \in 0 .. newSize - 1 /\ k - 1 < Len(newBuf) /\ (k - 1) + 1 = k
        BY <1>3, <2>6
      <3>2. c = [i \in 0 .. newSize - 1 |-> IF i < Len(newBuf) THEN newBuf[i + 1] ELSE Uninit]
        BY <1>4, <1>10
      <3>3. c[k - 1] = newBuf[(k - 1) + 1]
        BY <3>1, <3>2
      <3> QED
        BY <3>1, <3>3
    <2>8. [k \in 1..w |-> c[k - 1]] = [k \in 1..w |-> newBuf[k]]
      BY <2>7
    <2>9. [k \in 1..w |-> newBuf[k]] = newBuf
      BY <1>2, <2>6
    <2>10. Unread' = newBuf
      BY <1>9, <1>10, <1>11, <2>8, <2>9
    <2>11. Waiting' = newBuf \o hw'
      BY <1>2, <1>4, <2>10, WaitingNext
    <2>12. Waiting' = Waiting
      BY <1>2, <1>4, <2>2, <2>5, <2>11, ConcatEmptySeq
    <2> QED
      BY <1>4, <2>12 DEF Abstract!qvars
  <1> QED
    BY <1>12, <1>13

\* end() discards what waits; begin() and a resize of a closed port find
\* nothing waiting and leave nothing.
LEMMA ClosedSteps ==
    ASSUME RefInv, End \/ Begin \/ \E n \in Sizes : SetSizeClosed(n)
    PROVE  UNCHANGED Abstract!qvars \/ \E k \in 1..Len(Waiting) : Abstract!Discard(k)
  <1>1. UNCHANGED <<arrived, delivered>>
    BY DEF End, Begin, SetSizeClosed, histVars
  <1>2. CASE End
    <2>1. newBuf = <<>> /\ TypeInv /\ CallInv /\ Open /\ ~Open'
      BY <1>2 DEF RefInv, Inv, ResizeInv, End, At, Open, Disable
    <2>2. Waiting = Unread \o hw /\ Unread \in Seq(Int) /\ hw \in Seq(Int)
      BY <2>1, WaitingNow
    <2>3. Waiting' = <<>>
      BY <2>1 DEF Waiting
    <2>4. Unread \o hw \in Seq(Int) /\ (Unread \o hw) \o <<>> = Unread \o hw /\ <<>> \in Seq(Int)
      <3>1. Unread \o hw \in Seq(Int)
        BY <2>2, ConcatProperties
      <3> QED
        BY <3>1, ConcatEmptySeq
    <2> QED
      BY <1>1, <2>2, <2>3, <2>4, DropFront
  <1>3. CASE Begin \/ \E n \in Sizes : SetSizeClosed(n)
    <2>1. Waiting = <<>> /\ pc = "closed"
      BY <1>3 DEF Begin, SetSizeClosed, At, Waiting, Open
    <2>2. Waiting' = <<>>
      <3>1. CASE Begin
        <4>1. hw' = <<>> /\ rpos' = 0 /\ wpos' = 0 /\ newBuf' = <<>> /\ chunk' = 0 /\ Open'
          BY <2>1, <3>1 DEF Begin, callVars, Open, Enable, RefInv, Inv, TypeInv, LocalsInUse, ResizeInv
        <4>2. BufferAvailable' = 0
          BY <4>1 DEF BufferAvailable
        <4>3. Unread' = RingSeq(size', 0 + 0, 0 - 0, buffer')
          BY <4>1, <4>2 DEF Unread
        <4>4. Unread' = <<>>
          BY <4>3 DEF RingSeq
        <4>5. <<>> \in Seq(Int) /\ <<>> \o <<>> = <<>>
          BY EmptyConcat
        <4> QED
          BY <4>1, <4>4, <4>5, WaitingNext
      <3>2. CASE \E n \in Sizes : SetSizeClosed(n)
        BY <2>1, <3>2 DEF SetSizeClosed, Waiting, Open
      <3> QED
        BY <1>3, <3>1, <3>2
    <2> QED
      BY <1>1, <2>1, <2>2 DEF Abstract!qvars
  <1> QED
    BY <1>2, <1>3

\* The steps that change neither the FIFO nor the ring.
LEMMA OtherSteps ==
    ASSUME RefInv,
           \/ IsrEnter \/ IsrCopied \/ IsrAck \/ AvailableRing \/ AvailableFifo \/ PeekBegin \/ PeekReturn
           \/ ReadFifoBegin \/ ReadReturn \/ HasOverrun \/ HasOverrunClear \/ UNCHANGED vars
           \/ (\E n \in 1..MaxBytes : ReadBegin(n)) \/ \E n \in Sizes : ResizeBegin(n)
    PROVE  UNCHANGED Abstract!qvars
  <1>1. /\ UNCHANGED <<hw, size, rpos, wpos, buffer, chunk, arrived, delivered>> /\ newBuf' = newBuf
        /\ Open' = Open
    <2>1. CASE \E n \in Sizes : ResizeBegin(n)
      BY <2>1 DEF ResizeBegin, RefInv, ResizeInv, At, hwVars, ringVars, Open, Disable
    <2>2. CASE \/ IsrEnter \/ IsrCopied \/ IsrAck \/ AvailableRing \/ AvailableFifo \/ PeekBegin \/ PeekReturn
               \/ ReadFifoBegin \/ ReadReturn \/ HasOverrun \/ HasOverrunClear \/ UNCHANGED vars
               \/ (\E n \in 1..MaxBytes : ReadBegin(n))
      BY <2>2 DEF IsrEnter, IsrCopied, IsrAck, AvailableRing, AvailableFifo, PeekBegin, PeekReturn, ReadBegin,
         ReadFifoBegin, ReadReturn, HasOverrun, HasOverrunClear, vars, hwVars, ringVars, callVars, histVars,
         At, Open, Disable, Enable
    <2> QED
      BY <2>1, <2>2
  <1>2. Moved' = Moved /\ Unread' = Unread
    BY <1>1 DEF Moved, Spoiled, Unread, BufferAvailable
  <1> QED
    BY <1>1, <1>2 DEF Waiting, Abstract!qvars

\* The handler does not run inside a critical section, and Open at all.
LEMMA HandlerOutside ==
    ASSUME RefInv, IsrCopy \/ PeekCopy
    PROVE  /\ CopyByte /\ pc' = pc /\ Open /\ pc \notin {"readAdvance", "resize"}
           /\ UNCHANGED <<chunk, newBuf>>
  BY DEF RefInv, Inv, MaskInv, Critical, IsrCopy, PeekCopy, At, Open, callVars

LEMMA QueueStep == RefInv /\ [Next]_vars => [Abstract!QNext]_Abstract!qvars
  <1> SUFFICES ASSUME RefInv, [Next]_vars PROVE [Abstract!QNext]_Abstract!qvars
    OBVIOUS
  <1>1. CASE Arrive
    BY <1>1, ArriveStep DEF Abstract!QNext
  <1>2. CASE IsrCopy \/ PeekCopy
    BY <1>2, HandlerOutside, CopyByteStep DEF Abstract!QNext
  <1>3. CASE ReadChunk
    BY <1>3, ReadChunkStep DEF Abstract!QNext
  <1>4. CASE ReadAdvance
    BY <1>4, ReadAdvanceStep
  <1>5. CASE ReadFifo
    BY <1>5, ReadFifoStep DEF Abstract!QNext
  <1>6. CASE ResizeMove
    BY <1>6, ResizeMoveStep DEF Abstract!QNext
  <1>7. CASE ResizeReturn
    BY <1>7, ResizeReturnStep DEF Abstract!QNext
  <1>8. CASE End \/ Begin \/ \E n \in Sizes : SetSizeClosed(n)
    BY <1>8, ClosedSteps DEF Abstract!QNext
  <1>9. CASE \/ IsrEnter \/ IsrCopied \/ IsrAck \/ AvailableRing \/ AvailableFifo \/ PeekBegin \/ PeekReturn
             \/ ReadFifoBegin \/ ReadReturn \/ HasOverrun \/ HasOverrunClear \/ UNCHANGED vars
             \/ (\E n \in 1..MaxBytes : ReadBegin(n)) \/ \E n \in Sizes : ResizeBegin(n)
    BY <1>9, OtherSteps
  <1> QED
    BY <1>1, <1>2, <1>3, <1>4, <1>5, <1>6, <1>7, <1>8, <1>9 DEF Next, Isr, Continue, Call

\* During a resize nothing else runs.
LEMMA ResizeStep == RefInv /\ [Next]_vars => ResizeInv'
  <1> SUFFICES ASSUME RefInv, [Next]_vars PROVE ResizeInv'
    OBVIOUS
  <1>1. CASE ResizeMove
    <2>1. pc' = "resize"
      BY <1>1 DEF ResizeMove, At
    <2> QED
      BY <1>1, <2>1, ResizeMoveStep DEF ResizeInv
  <1>2. CASE ResizeReturn
    BY <1>2 DEF ResizeReturn, ResizeInv, Enable
  <1>3. CASE \E n \in Sizes : ResizeBegin(n)
    <2>1. newBuf' = <<>> /\ pc' = "resize"
      BY <1>3 DEF ResizeBegin, Disable
    <2>2. ~Spoiled'
      BY <2>1 DEF Spoiled
    <2> QED
      BY <2>1, <2>2 DEF ResizeInv
  <1>4. CASE Arrive
    <2>1. /\ UNCHANGED <<size, rpos, wpos, newBuf, pc>>
          /\ hw' = hw \/ hw' = Append(hw, arrived + 1)
      BY <1>4 DEF Arrive, ringVars, callVars
    <2>2. hw # <<>> => hw' # <<>>
      <3>1. hw \in Seq(Int) /\ arrived + 1 \in Int
        BY BoundAssumption DEF RefInv, Inv, TypeInv, TypeOK, InterruptType, HistoryType
      <3>2. Append(hw, arrived + 1) # <<>>
        BY <3>1, AppendProperties
      <3> QED
        BY <2>1, <3>2
    <2> QED
      BY <2>1, <2>2 DEF RefInv, ResizeInv, Spoiled, BufferAvailable
  <1>5. CASE UNCHANGED vars
    BY <1>5 DEF vars, hwVars, ringVars, callVars, RefInv, ResizeInv, Spoiled, BufferAvailable
  <1>6. CASE /\ \/ Isr
                \/ \/ AvailableFifo \/ PeekCopy \/ PeekReturn \/ ReadChunk \/ ReadAdvance \/ ReadFifoBegin
                   \/ ReadFifo \/ ReadReturn \/ HasOverrunClear
                \/ Begin \/ End \/ AvailableRing \/ PeekBegin \/ HasOverrun
                \/ (\E n \in 1..MaxBytes : ReadBegin(n)) \/ \E n \in Sizes : SetSizeClosed(n)
    <2>1. pc # "resize" /\ pc' # "resize" /\ newBuf' = newBuf
      BY <1>6 DEF RefInv, Inv, MaskInv, Critical, Isr, IsrEnter, IsrCopy, IsrCopied, IsrAck, Begin, End,
         AvailableRing, AvailableFifo, PeekBegin, PeekCopy, PeekReturn, ReadBegin, ReadChunk, ReadAdvance,
         ReadFifoBegin, ReadFifo, ReadReturn, SetSizeClosed, HasOverrun, HasOverrunClear, At, Disable, Enable,
         callVars
    <2> QED
      BY <2>1 DEF RefInv, ResizeInv
  <1> QED
    BY <1>1, <1>2, <1>3, <1>4, <1>5, <1>6 DEF Next, Continue, Call

-----------------------------------------------------------------------------

LEMMA QueueInit == Init => Abstract!QInit /\ ResizeInv
  BY DEF Init, Abstract!QInit, ResizeInv, Waiting, Open, Spoiled

LEMMA RefInvariant == Spec => []RefInv
  <1>1. Init => Abstract!QInv
    <2>1. Abstract!QInit => Abstract!QInv
      BY DEF Abstract!QInit, Abstract!QInv, Abstract!Ordered
    <2> QED
      BY <2>1, QueueInit
  <1>2. Inv /\ Inv' /\ RefInv /\ [Next]_vars => RefInv'
    <2>1. Abstract!QInv /\ [Abstract!QNext]_Abstract!qvars => Abstract!QInv'
      BY Abstract!QStep
    <2> QED
      BY <2>1, QueueStep, ResizeStep DEF RefInv
  <1>3. Init /\ Inv => RefInv
    BY <1>1, QueueInit DEF RefInv
  <1> QED
    BY <1>2, <1>3, InvInvariant, PTL DEF Spec

\* Every step of the driver - of the wire, of uart_isr, of a call - is a step
\* of the byte queue or changes nothing that the queue shows (uart.cpp:128-400).
THEOREM DriverIsAQueue == Spec => ImplementsByteQueue
  <1>1. Init => Abstract!QInit
    BY QueueInit
  <1> QED
    BY <1>1, QueueStep, RefInvariant, PTL DEF Spec, ImplementsByteQueue, Abstract!QSpec

\* The sketch is given the bytes of the wire in their order and none twice,
\* whatever the handler and the calls do (uart_read, uart.cpp:251-286).
THEOREM AlwaysDeliveredInOrder == Spec => []DeliveredInOrder
  <1>1. Abstract!QInv => DeliveredInOrder
    BY DEF Abstract!QInv, Abstract!Ordered, DeliveredInOrder
  <1>2. RefInv => DeliveredInOrder
    BY <1>1 DEF RefInv
  <1> QED
    BY <1>2, RefInvariant, PTL

=============================================================================
