--------------------------------- MODULE Mic --------------------------------
(***************************************************************************)
(* The microphone sketch (src/UartToTcp): a timer interrupt fills one of   *)
(* two buffers of samples while loop() sends the other one in packets      *)
(* (AudioInput.h, PcmBuf), and commands change a setting and save it in    *)
(* the EEPROM emulation (Mic.h, Classes/EEPROM.cpp).                       *)
(*                                                                         *)
(* Interrupt and sketch share the buffers without a lock: a sample may be  *)
(* stored between any two steps of a read.  They share the processor with  *)
(* the flash: commit() masks interrupts.  Samples are numbered from 1; the *)
(* k-th time a buffer is full it is generation k that is published.  A     *)
(* reset may come between any two steps of a save.                         *)
(***************************************************************************)
EXTENDS Integers, Sequences, SequencesExt

CONSTANTS
    PCMBUF_SIZE,
    Counts,      \* values of maxCount
    \* bounds of the model: samples taken, flash operations that fail, restarts
    MaxSamples, MaxFails, MaxRestarts

ASSUME SizeAssumption == PCMBUF_SIZE \in Nat \ {0} /\ Counts \subseteq Nat

PCMBUF_COUNT == 2
NoSample     == 0        \* what was in memory before
Blank        == 255      \* an erased byte
Torn         == 2        \* any other byte but 0 and 1
Bytes        == {0, 1, Torn, Blank}

VARIABLES
    \* PcmBuf
    data, writePos, writeBufNum, readPcmBufNum, readPos,
    \* the locals of read(), and what it has sent of its packet
    pc, pos, bufNum, count, packet,
    \* Mic
    ledEnable,
    eeprom,      \* byte 0 of the EEPROM's sector
    \* history
    samples,     \* samples taken
    published,   \* buffers published
    gen,         \* buffers that were published when read() took one
    slipped,     \* the last publication met a read() that stores a position in the new
                 \* buffer, or sends a piece of it, that is not its turn
    sent,        \* the samples of the packets of this generation
    saved,       \* the setting of the last saveCfg() that did all it should
    tried,       \* the settings of those since then that did not, or have not yet
    misread,     \* one of those could not read the sector
    fails, restarts

pcm     == <<data, writePos, writeBufNum, readPcmBufNum, readPos>>
reader  == <<pc, pos, bufNum, count, packet>>
config  == <<ledEnable, eeprom>>
stream  == <<samples, published, gen, slipped, sent>>
keeping == <<saved, tried, misread, fails, restarts>>
vars    == <<pcm, reader, config, stream, keeping>>

Reading == pc \in {"buffer", "copy", "set", "done"}

\* noInterrupts(), in commit()
Masked == pc \in {"erasing", "writing"}

-----------------------------------------------------------------------------
(* PcmBuf.                                                                 *)

\* Mutant: the buffer that is published is filled again.
NextBuffer_Same == writeBufNum

NextBuffer == (writeBufNum + 1) % PCMBUF_COUNT

\* Where a read() is when a publication does harm to the buffer that is
\* published: it takes that buffer with a position of the one before; or what
\* it has copied is of the one before, and it will store its position (the
\* test passes at 0, or has been passed).
Slips ==
    \/ pc = "buffer" /\ pos # 0
    \/ pc = "copy" /\ pos = 0
    \/ pc = "set"

\* write(), in the timer interrupt.  A full buffer is published: readPos goes
\* back to 0, whatever a read() that was interrupted will do with it.
Sample ==
    /\ ~Masked /\ samples < MaxSamples
    /\ samples' = samples + 1
    /\ data' = [data EXCEPT ![writeBufNum][writePos] = samples']
    /\ IF writePos + 1 >= PCMBUF_SIZE
       THEN /\ readPos' = 0 /\ readPcmBufNum' = writeBufNum
            /\ writePos' = 0 /\ writeBufNum' = NextBuffer
            /\ published' = published + 1
            /\ slipped' = Slips /\ sent' = <<>>
       ELSE /\ writePos' = writePos + 1
            /\ UNCHANGED <<readPos, readPcmBufNum, writeBufNum, published, slipped, sent>>
    /\ UNCHANGED <<reader, config, gen, keeping>>

\* read(), with a position to read from (else it returns false); readPos is
\* such a position before any buffer was published.
Read(maxCount) ==
    /\ pc = "idle" /\ readPos \in 0..PCMBUF_SIZE - 1
    /\ pc' = "buffer" /\ pos' = readPos
    /\ count' = IF maxCount < PCMBUF_SIZE - pos' THEN maxCount ELSE PCMBUF_SIZE - pos'
    /\ packet' = <<>>
    /\ UNCHANGED <<pcm, bufNum, config, stream, keeping>>

ReadBuffer ==
    /\ pc = "buffer" /\ pc' = "copy"
    /\ bufNum' = readPcmBufNum /\ gen' = published
    /\ UNCHANGED <<pcm, pos, count, packet, config, samples, published, slipped, sent, keeping>>

\* readFunc(data + readPos, size), sample by sample; what lies in _data[-1] is
\* no sample.
Copy ==
    /\ pc = "copy" /\ Len(packet) < count
    /\ packet' = Append(packet, IF bufNum = -1 THEN NoSample ELSE data[bufNum][pos + Len(packet)])
    /\ UNCHANGED <<pcm, pc, pos, bufNum, count, config, stream, keeping>>

\* Mutant: the position is stored without the test.
Compare_Always ==
    /\ pc = "copy" /\ Len(packet) = count
    /\ pc' = "set"
    /\ UNCHANGED <<pcm, pos, bufNum, count, packet, config, stream, keeping>>

\* if(readPos == _readPos)
Compare ==
    /\ pc = "copy" /\ Len(packet) = count
    /\ pc' = IF pos = readPos THEN "set" ELSE "done"
    /\ UNCHANGED <<pcm, pos, bufNum, count, packet, config, stream, keeping>>

\* _readPos = readPos + count.  atomicSet stores it again when a publication
\* comes between the store and its test: the same as one before the store.
SetReadPos ==
    /\ pc = "set" /\ pc' = "done"
    /\ readPos' = pos + count
    /\ UNCHANGED <<data, writePos, writeBufNum, readPcmBufNum, pos, bufNum, count, packet,
                   config, stream, keeping>>

ReadReturns ==
    /\ pc = "done" /\ pc' = "idle"
    /\ sent' = IF gen = published THEN sent \o packet ELSE sent
    /\ UNCHANGED <<pcm, pos, bufNum, count, packet, config, samples, published, gen, slipped, keeping>>

-----------------------------------------------------------------------------
(* Mic and EEPROMClass.                                                    *)

ByteOf(b)  == IF b THEN 1 ELSE 0
BoolOf(x)  == x # 0

\* "le=": the setting changes in RAM.
SetLed(b) ==
    /\ pc = "idle" /\ ledEnable # b
    /\ ledEnable' = b
    /\ UNCHANGED <<pcm, reader, eeprom, stream, keeping>>

\* Mutant: every write() marks the sector dirty.
Dirty_Always == TRUE

\* write(): the byte that begin() has read is another one.
Dirty == eeprom # ByteOf(ledEnable)

\* What a byte may hold on its way from Blank to v or back: programming only
\* clears bits and erasing only sets them, and 0 alone has none.
Partly(v) == IF v = 0 THEN Bytes ELSE Bytes \ {0}

\* "scf", saveCfg(): commit() of a sector that is not dirty returns.
SaveClean ==
    /\ pc = "idle" /\ ~Dirty
    /\ saved' = ledEnable /\ tried' = {} /\ misread' = FALSE
    /\ UNCHANGED <<pcm, reader, config, stream, fails, restarts>>

\* begin() does not look at whether spi_flash_read failed: what is in the buffer
\* then may be what is to be written, and nothing is.
SaveMisses ==
    /\ pc = "idle" /\ fails < MaxFails /\ fails' = fails + 1
    /\ tried' = tried \cup {ledEnable} /\ misread' = TRUE
    /\ UNCHANGED <<pcm, reader, config, stream, saved, restarts>>

\* commit() of a dirty one, or of one that was misread: interrupts are masked,
\* and the sector is being erased;
SaveErases ==
    /\ pc = "idle" /\ pc' = "erasing"
    /\ \/ Dirty /\ UNCHANGED <<misread, fails>>
       \/ fails < MaxFails /\ fails' = fails + 1 /\ misread' = TRUE
    /\ eeprom' \in Partly(eeprom)
    /\ tried' = tried \cup {ledEnable}
    /\ UNCHANGED <<pcm, pos, bufNum, count, packet, ledEnable, stream, saved, restarts>>

\* it is erased, and being written;
SaveWrites ==
    /\ pc = "erasing" /\ pc' = "writing"
    /\ eeprom' \in Partly(ByteOf(ledEnable))
    /\ UNCHANGED <<pcm, pos, bufNum, count, packet, ledEnable, stream, keeping>>

\* it is written, and interrupts are enabled.
SaveReturns ==
    /\ pc = "writing" /\ pc' = "idle"
    /\ eeprom' = ByteOf(ledEnable)
    /\ saved' = ledEnable /\ tried' = {} /\ misread' = FALSE
    /\ UNCHANGED <<pcm, pos, bufNum, count, packet, ledEnable, stream, fails, restarts>>

\* The erase or the write fails, and leaves what it has done; saveCfg() does not
\* look at what commit() returns.
SaveFails ==
    /\ Masked /\ pc' = "idle"
    /\ fails < MaxFails /\ fails' = fails + 1
    /\ UNCHANGED <<pcm, pos, bufNum, count, packet, config, stream, saved, tried, misread, restarts>>

-----------------------------------------------------------------------------

\* Of a sketch that has just begun
NoSamples == [b \in 0..PCMBUF_COUNT - 1 |-> [k \in 0..PCMBUF_SIZE - 1 |-> NoSample]]

Init ==
    /\ data = NoSamples /\ writePos = 0 /\ writeBufNum = 0 /\ readPcmBufNum = -1 /\ readPos = 0
    /\ pc = "idle" /\ pos = 0 /\ bufNum = 0 /\ count = 0 /\ packet = <<>>
    /\ samples = 0 /\ published = 0 /\ gen = 0 /\ slipped = FALSE /\ sent = <<>>
    /\ eeprom \in Bytes /\ ledEnable = BoolOf(eeprom)
    /\ saved = ledEnable /\ tried = {} /\ misread = FALSE /\ fails = 0 /\ restarts = 0

\* A reset at any moment; then loadCfg() reads the setting, or what a read that
\* failed has left in the buffer.
Restart ==
    /\ restarts < MaxRestarts /\ restarts' = restarts + 1
    /\ data' = NoSamples /\ writePos' = 0 /\ writeBufNum' = 0 /\ readPcmBufNum' = -1 /\ readPos' = 0
    /\ pc' = "idle" /\ pos' = 0 /\ bufNum' = 0 /\ count' = 0 /\ packet' = <<>>
    /\ samples' = 0 /\ published' = 0 /\ gen' = 0 /\ slipped' = FALSE /\ sent' = <<>>
    /\ \/ ledEnable' = BoolOf(eeprom) /\ UNCHANGED fails
       \/ fails < MaxFails /\ fails' = fails + 1 /\ ledEnable' \in BOOLEAN
    /\ UNCHANGED <<eeprom, saved, tried, misread>>

Next ==
    \/ Sample
    \/ \E n \in Counts : Read(n)
    \/ ReadBuffer \/ Copy \/ Compare \/ SetReadPos \/ ReadReturns
    \/ \E b \in BOOLEAN : SetLed(b)
    \/ SaveClean \/ SaveMisses \/ SaveErases \/ SaveWrites \/ SaveReturns \/ SaveFails
    \/ Restart

Spec == Init /\ [][Next]_vars

-----------------------------------------------------------------------------
(* Properties.                                                             *)

\* Sample k of a packet is the one that belongs there, of the buffer that read()
\* took, unless the interrupt has come round the whole other buffer and to this
\* very place again since: a publication in the middle of the copy spoils no
\* packet by itself (PcmBuf::write and read, AudioInput.h:37-109).
PacketIsOneSlice ==
    pc = "done" /\ gen > 0 =>
        \A k \in 1..Len(packet) :
            LET own == (gen - 1) * PCMBUF_SIZE + pos + k IN
            packet[k] = own \/ samples >= own + 2 * PCMBUF_SIZE

\* The packets of a buffer are its samples from the first on, none twice and
\* none left out, though reads were interrupted by publications, this buffer's
\* too; except where that one came between the loads of _readPos and of
\* _readPcmBufNum, with a position other than 0; between the second load and the
\* test, with position 0; or between the test and the store (Slips).
SlicesInOrder ==
    pc = "idle" /\ published > 0 /\ ~slipped =>
        sent = [k \in 1..readPos |-> (published - 1) * PCMBUF_SIZE + k]

\* What is in the flash is the setting saved last; and if a save since then has
\* failed or was cut short by a reset, between the erase and the write too, that
\* one or one that such a save was to write.  A blank byte is taken for TRUE,
\* which nobody may have asked for: what prevents it is that write() does not
\* mark an unchanged FALSE as dirty, if begin() could read it
\* (Mic.h:29-45, EEPROM.cpp:69-71, 105-111, 123-130).
SettingIsKept ==
    /\ tried = {} => BoolOf(eeprom) = saved
    /\ ~misread => BoolOf(eeprom) \in {saved} \cup tried

=============================================================================
