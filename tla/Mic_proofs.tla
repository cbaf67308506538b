------------------------------ MODULE Mic_proofs -----------------------------
(***************************************************************************)
(* Theorems about the sample buffer and the setting of the microphone, for *)
(* every size of the buffers, every length of a packet and every number of *)
(* samples, failed flash operations and restarts.                          *)
(***************************************************************************)
EXTENDS Mic, SequenceTheorems, TLAPS

-----------------------------------------------------------------------------
(* The invariant.                                                          *)

\* The number of samples before the buffer that is being filled, before the
\* published one, and before the one that read() took
Taken   == published * PCMBUF_SIZE
Base    == (published - 1) * PCMBUF_SIZE
GenBase == (gen - 1) * PCMBUF_SIZE

Places == 0..PCMBUF_SIZE - 1

Types ==
    /\ data \in [{0, 1} -> [Places -> Nat]]
    /\ writePos \in Places /\ writeBufNum \in {0, 1} /\ readPcmBufNum \in {-1, 0, 1}
    /\ readPos \in 0..PCMBUF_SIZE
    /\ pc \in {"idle", "buffer", "copy", "set", "done", "erasing", "writing"}
    /\ pos \in Nat /\ bufNum \in {-1, 0, 1} /\ count \in Nat /\ packet \in Seq(Nat)
    /\ published \in Nat /\ gen \in Nat /\ slipped \in BOOLEAN /\ sent \in Seq(Nat)

\* The interrupt fills the buffer that is not published: the published one holds
\* the samples of its generation, the other one those taken since, and behind
\* them what it held when it was published itself.
Buffers ==
    /\ samples = Taken + writePos
    /\ \A i \in 0..writePos - 1 : data[writeBufNum][i] = Taken + i + 1
    /\ published > 0 =>
          /\ readPcmBufNum = 1 - writeBufNum
          /\ \A i \in Places : data[readPcmBufNum][i] = Base + i + 1
    /\ published > 1 =>
          \A i \in Places : i >= writePos =>
              data[writeBufNum][i] = Base - PCMBUF_SIZE + i + 1

\* read() has taken its buffer.
Taking == pc \in {"copy", "set", "done"}

\* A read() stays within the buffer.  The one it took is the published one, and
\* after a publication the one that is filled.
Reads ==
    /\ Reading => pos < PCMBUF_SIZE /\ pos + count <= PCMBUF_SIZE /\ Len(packet) <= count
    /\ pc = "buffer" => packet = <<>>
    /\ pc \in {"set", "done"} => Len(packet) = count
    /\ Taking => gen <= published
    /\ Taking /\ gen > 0 /\ gen = published => bufNum = readPcmBufNum
    /\ Taking /\ gen > 0 /\ gen + 1 = published => bufNum = writeBufNum

\* Unless the last publication slipped, the test of the position tells whether
\* there was one since the buffer was taken, and only if there was none is the
\* position stored.
Position ==
    ~slipped =>
        /\ pc = "buffer" => pos = readPos
        /\ pc = "copy" => (pos = readPos <=> gen = published)
        /\ pc = "set" => pos = readPos /\ gen = published
        /\ pc = "done" /\ gen = published => readPos = pos + count

\* Sample k of the packet is its own, or has been written over.
Own(k) == packet[k] = GenBase + pos + k \/ samples >= GenBase + pos + k + 2 * PCMBUF_SIZE

\* PacketIsOneSlice from the first sample that is copied
Slice == Taking /\ gen > 0 => \A k \in 1..Len(packet) : Own(k)

\* SlicesInOrder while a read() is under way: up to its packet
Sent ==
    published > 0 /\ ~slipped =>
        sent = [k \in 1..(IF pc = "done" /\ gen = published THEN pos ELSE readPos) |-> Base + k]

PcmInv == Types /\ Buffers /\ Reads /\ Position /\ Slice /\ Sent

\* A save is for the setting that has not changed since, and never begins for
\* nothing but a FALSE that is there already.
ConfigInv ==
    /\ eeprom \in Bytes /\ ledEnable \in BOOLEAN /\ saved \in BOOLEAN
    /\ tried \subseteq BOOLEAN /\ misread \in BOOLEAN
    /\ Masked => ledEnable \in tried /\ (~misread => TRUE \in {saved} \cup tried)
    /\ SettingIsKept

-----------------------------------------------------------------------------
(* The buffers and the packets.                                            *)

\* What the packet holds stays its own, or written over, as samples are taken.
LEMMA SampleLater ==
    ASSUME PcmInv, samples' = samples + 1, UNCHANGED <<pos, packet, gen>>
    PROVE  \A k \in 1..Len(packet) : Own(k) => Own(k)'
  <1> SUFFICES ASSUME NEW k \in 1..Len(packet), Own(k) PROVE Own(k)'
    OBVIOUS
  <1>1. GenBase' = GenBase /\ GenBase \in Int /\ pos \in Nat /\ k \in Int
    BY SizeAssumption DEF GenBase, PcmInv, Types
  <1>2. samples \in Int /\ PCMBUF_SIZE \in Nat
    BY SizeAssumption DEF PcmInv, Types, Buffers, Taken, Places
  <1> QED
    BY <1>1, <1>2 DEF Own

\* The interrupt stores a sample, and the buffer is not yet full.
LEMMA SampleStays ==
    ASSUME PcmInv, Sample, writePos + 1 < PCMBUF_SIZE
    PROVE  PcmInv'
  <1>1. /\ data' = [data EXCEPT ![writeBufNum][writePos] = samples + 1]
        /\ samples' = samples + 1 /\ writePos' = writePos + 1
        /\ UNCHANGED <<readPos, readPcmBufNum, writeBufNum, published, gen, slipped, sent>>
        /\ UNCHANGED <<pc, pos, bufNum, count, packet>>
    BY SizeAssumption DEF Sample, PcmInv, Types, Places, reader
  <1>2. /\ writePos \in Nat /\ published \in Nat /\ PCMBUF_SIZE \in Nat \ {0}
        /\ writeBufNum \in {0, 1} /\ readPcmBufNum \in {-1, 0, 1}
        /\ data \in [{0, 1} -> [Places -> Nat]] /\ writePos \in Places
    BY SizeAssumption DEF PcmInv, Types, Places
  <1>3. Taken \in Nat /\ Taken' = Taken /\ Base' = Base /\ Base \in Int
    BY <1>1, <1>2 DEF Taken, Base
  <1>4. samples + 1 = Taken + writePos + 1 /\ samples + 1 \in Nat
    BY <1>2, <1>3 DEF PcmInv, Buffers
  <1>5. data' \in [{0, 1} -> [Places -> Nat]]
    BY <1>1, <1>2, <1>4
  <1>6. Types'
    <2>1. writePos' \in Places
      BY <1>1, <1>2 DEF Places
    <2> QED
      BY <1>1, <1>5, <2>1 DEF PcmInv, Types, Places
  <1>7. Buffers'
    <2>1. \A i \in 0..writePos' - 1 : data'[writeBufNum'][i] = Taken' + i + 1
      <3> SUFFICES ASSUME NEW i \in 0..writePos PROVE data'[writeBufNum][i] = Taken + i + 1
        BY <1>1, <1>2, <1>3
      <3>1. i \in Places
        BY <1>2 DEF Places
      <3>2. CASE i = writePos
        BY <1>1, <1>2, <1>4, <3>1, <3>2
      <3>3. CASE i # writePos
        <4>1. data[writeBufNum][i] = Taken + i + 1
          BY <1>2, <3>3 DEF PcmInv, Buffers
        <4> QED
          BY <1>1, <1>2, <3>1, <3>3, <4>1
      <3> QED
        BY <3>2, <3>3
    <2>2. ASSUME published > 0
          PROVE  /\ readPcmBufNum = 1 - writeBufNum
                 /\ \A i \in Places : data'[readPcmBufNum][i] = Base + i + 1
      <3>1. readPcmBufNum = 1 - writeBufNum /\ \A i \in Places : data[readPcmBufNum][i] = Base + i + 1
        BY <2>2 DEF PcmInv, Buffers
      <3>2. readPcmBufNum \in {0, 1} /\ readPcmBufNum # writeBufNum
        BY <1>2, <3>1
      <3>3. data'[readPcmBufNum] = data[readPcmBufNum]
        BY <1>1, <1>2, <3>2
      <3> QED
        BY <3>1, <3>3
    <2>3. samples' = Taken' + writePos'
      BY <1>1, <1>2, <1>3, <1>4
    <2>4. ASSUME published > 1, NEW i \in Places, i >= writePos'
          PROVE  data'[writeBufNum][i] = Base - PCMBUF_SIZE + i + 1
      <3>1. i \in Int /\ i >= writePos /\ i # writePos
        BY <1>1, <1>2, <2>4 DEF Places
      <3>2. data[writeBufNum][i] = Base - PCMBUF_SIZE + i + 1
        BY <2>4, <3>1 DEF PcmInv, Buffers
      <3> QED
        BY <1>1, <1>2, <3>1, <3>2
    <2> QED
      BY <1>1, <1>3, <2>1, <2>2, <2>3, <2>4 DEF Buffers, Places
  <1>8. Reads' /\ Position' /\ Slice' /\ Sent'
    <2>1. Reads' /\ Position'
      BY <1>1 DEF PcmInv, Reads, Position, Reading, Taking
    <2>2. Slice'
      BY <1>1, <1>2, SampleLater DEF PcmInv, Types, Slice, Taking
    <2>3. Sent'
      BY <1>1, <1>3 DEF PcmInv, Sent
    <2> QED
      BY <2>1, <2>2, <2>3
  <1> QED
    BY <1>6, <1>7, <1>8 DEF PcmInv

\* The sample fills the buffer, which is published.
LEMMA SamplePublishes ==
    ASSUME PcmInv, Sample, writePos + 1 >= PCMBUF_SIZE
    PROVE  PcmInv'
  <1>1. /\ data' = [data EXCEPT ![writeBufNum][writePos] = samples + 1]
        /\ samples' = samples + 1 /\ writePos' = 0 /\ writeBufNum' = (writeBufNum + 1) % 2
        /\ readPos' = 0 /\ readPcmBufNum' = writeBufNum /\ published' = published + 1
        /\ slipped' = Slips /\ sent' = <<>>
        /\ UNCHANGED <<pc, pos, bufNum, count, packet, gen>>
    BY DEF Sample, NextBuffer, PCMBUF_COUNT, reader
  <1>2. /\ writePos \in Nat /\ published \in Nat /\ PCMBUF_SIZE \in Nat \ {0}
        /\ writeBufNum \in {0, 1} /\ writePos = PCMBUF_SIZE - 1
        /\ data \in [{0, 1} -> [Places -> Nat]] /\ writePos \in Places
    BY SizeAssumption DEF PcmInv, Types, Places
  <1>3. /\ Taken \in Nat /\ Taken' = Taken + PCMBUF_SIZE /\ Base' = Taken
        /\ published + 1 - 1 = published
    BY <1>1, <1>2 DEF Taken, Base
  <1>4. samples + 1 = Taken + writePos + 1 /\ samples + 1 \in Nat
    BY <1>2, <1>3 DEF PcmInv, Buffers
  <1>5. data' \in [{0, 1} -> [Places -> Nat]]
    BY <1>1, <1>2, <1>4
  <1>6. writeBufNum' = 1 - writeBufNum /\ writeBufNum' \in {0, 1}
    <2>1. CASE writeBufNum = 0
      BY <1>1, <2>1
    <2>2. CASE writeBufNum = 1
      BY <1>1, <2>2
    <2> QED
      BY <1>2, <2>1, <2>2
  <1>7. Types'
    <2>1. writePos' \in Places /\ readPos' \in 0..PCMBUF_SIZE /\ published' \in Nat
      BY <1>1, <1>2 DEF Places
    <2>2. readPcmBufNum' \in {-1, 0, 1}
      BY <1>1, <1>2
    <2>3. sent' \in Seq(Nat) /\ slipped' \in BOOLEAN
      BY <1>1 DEF Slips
    <2> QED
      BY <1>1, <1>5, <1>6, <2>1, <2>2, <2>3 DEF PcmInv, Types, Places
  <1>8. Buffers'
    <2>1. \A i \in Places : data'[writeBufNum][i] = Taken + i + 1
      <3> SUFFICES ASSUME NEW i \in Places PROVE data'[writeBufNum][i] = Taken + i + 1
        OBVIOUS
      <3>1. CASE i = writePos
        BY <1>1, <1>2, <1>4, <3>1
      <3>2. CASE i # writePos
        <4>1. i \in 0..writePos - 1
          BY <1>2, <3>2 DEF Places
        <4>2. data[writeBufNum][i] = Taken + i + 1
          BY <4>1 DEF PcmInv, Buffers
        <4> QED
          BY <1>1, <1>2, <3>2, <4>2
      <3> QED
        BY <3>1, <3>2
    <2>2. readPcmBufNum' = 1 - writeBufNum'
      BY <1>1, <1>2, <1>6
    <2>3. samples' = Taken' + writePos'
      BY <1>1, <1>2, <1>3, <1>4
    <2>4. \A i \in 0..writePos' - 1 : data'[writeBufNum'][i] = Taken' + i + 1
      BY <1>1
    <2>5. \A i \in Places : data'[readPcmBufNum'][i] = Base' + i + 1
      BY <1>1, <1>3, <2>1
    <2>6. ASSUME published' > 1, NEW i \in Places
          PROVE  data'[writeBufNum'][i] = Base' - PCMBUF_SIZE + i + 1
      <3>1. published > 0
        BY <1>1, <1>2, <2>6
      <3>2. readPcmBufNum = 1 - writeBufNum /\ data[readPcmBufNum][i] = Base + i + 1
        BY <3>1 DEF PcmInv, Buffers
      <3>3. data'[writeBufNum'] = data[readPcmBufNum]
        BY <1>1, <1>2, <1>6, <3>2
      <3>4. Base' - PCMBUF_SIZE = Base
        BY <1>2, <1>3 DEF Taken, Base
      <3> QED
        BY <3>2, <3>3, <3>4
    <2> QED
      BY <2>2, <2>3, <2>4, <2>5, <2>6 DEF Buffers
  <1>9. Reads' /\ Position'
    <2>1. Taking => gen \in Nat /\ gen <= published
      BY DEF PcmInv, Types, Reads
    <2>2. Taking /\ gen > 0 /\ gen = published => bufNum = 1 - writeBufNum
      BY DEF PcmInv, Reads, Buffers
    <2>3. Reads'
      BY <1>1, <1>2, <1>6, <2>1, <2>2 DEF PcmInv, Reads, Reading, Taking
    <2>4. Position'
      BY <1>1, <1>2, <2>1 DEF Position, Taking, Slips
    <2> QED
      BY <2>3, <2>4
  <1>10. Slice'
    BY <1>1, <1>2, SampleLater DEF PcmInv, Types, Slice, Taking
  <1>11. Sent'
    <2> SUFFICES ASSUME ~slipped'
                 PROVE  sent' = [k \in 1..(IF pc' = "done" /\ gen' = published' THEN pos' ELSE readPos') |-> Base' + k]
      BY DEF Sent
    <2>1. ~(pc' = "done" /\ gen' = published') /\ readPos' = 0 /\ sent' = <<>>
      BY <1>1, <1>2 DEF PcmInv, Types, Reads, Taking
    <2>2. 1..0 = {}
      OBVIOUS
    <2>3. [k \in 1..0 |-> Base' + k] = <<>>
      BY <2>2
    <2> QED
      BY <2>1, <2>3
  <1> QED
    BY <1>7, <1>8, <1>9, <1>10, <1>11 DEF PcmInv

\* The steps of a read()
LEMMA ReadStep == PcmInv /\ (\E n \in Counts : Read(n)) => PcmInv'
  <1> SUFFICES ASSUME PcmInv, NEW n \in Counts, Read(n) PROVE PcmInv'
    OBVIOUS
  <1>1. /\ pc = "idle" /\ readPos \in 0..PCMBUF_SIZE - 1 /\ pc' = "buffer" /\ pos' = readPos
        /\ count' = IF n < PCMBUF_SIZE - readPos THEN n ELSE PCMBUF_SIZE - readPos
        /\ packet' = <<>>
        /\ UNCHANGED <<data, writePos, writeBufNum, readPcmBufNum, readPos>>
        /\ UNCHANGED <<bufNum, samples, published, gen, slipped, sent>>
    BY DEF Read, pcm, stream
  <1>2. PCMBUF_SIZE \in Nat /\ n \in Nat /\ readPos \in Nat
    BY <1>1, SizeAssumption DEF PcmInv, Types
  <1>3. count' \in Nat /\ pos' \in Nat /\ pos' < PCMBUF_SIZE /\ pos' + count' <= PCMBUF_SIZE
    BY <1>1, <1>2
  <1>4. packet' \in Seq(Nat) /\ Len(packet') = 0
    BY <1>1
  <1>5. Types'
    BY <1>1, <1>3, <1>4 DEF PcmInv, Types
  <1>6. Buffers' /\ Base' = Base
    BY <1>1 DEF PcmInv, Buffers, Taken, Base
  <1>7. Reads' /\ Position'
    BY <1>1, <1>3, <1>4 DEF Reads, Position, Reading, Taking
  <1>8. Slice'
    BY <1>1 DEF Slice, Taking
  <1>9. Sent'
    BY <1>1, <1>6 DEF PcmInv, Sent
  <1> QED
    BY <1>5, <1>6, <1>7, <1>8, <1>9 DEF PcmInv

LEMMA ReadBufferStep == PcmInv /\ ReadBuffer => PcmInv'
  <1> SUFFICES ASSUME PcmInv, ReadBuffer PROVE PcmInv'
    OBVIOUS
  <1>1. /\ pc = "buffer" /\ pc' = "copy" /\ bufNum' = readPcmBufNum /\ gen' = published
        /\ UNCHANGED <<data, writePos, writeBufNum, readPcmBufNum, readPos>>
        /\ UNCHANGED <<pos, count, packet, samples, published, slipped, sent>>
    BY DEF ReadBuffer, pcm
  <1>2. Types'
    BY <1>1 DEF PcmInv, Types
  <1>3. Buffers' /\ Base' = Base
    BY <1>1 DEF PcmInv, Buffers, Taken, Base
  <1>4. packet = <<>> /\ Len(packet) = 0
    BY <1>1 DEF PcmInv, Reads
  <1>5. Reads' /\ Position'
    <2>1. published \in Nat /\ published + 1 # published
      BY DEF PcmInv, Types
    <2>2. Reads'
      BY <1>1, <1>4, <2>1 DEF PcmInv, Reads, Reading, Taking
    <2>3. Position'
      BY <1>1 DEF PcmInv, Position
    <2> QED
      BY <2>2, <2>3
  <1>6. Slice'
    BY <1>1, <1>4 DEF Slice
  <1>7. Sent'
    BY <1>1, <1>3 DEF PcmInv, Sent
  <1> QED
    BY <1>2, <1>3, <1>5, <1>6, <1>7 DEF PcmInv

\* Two publications after read() has taken its buffer
LEMMA TwoLater ==
    ASSUME PcmInv, gen + 2 <= published
    PROVE  samples >= GenBase + 3 * PCMBUF_SIZE /\ samples \in Int
  <1>1. PCMBUF_SIZE \in Nat /\ published \in Nat /\ gen \in Nat /\ writePos \in Nat
    BY SizeAssumption DEF PcmInv, Types, Places
  <1>2. PICK d \in Nat : published = gen + 2 + d
    <2>1. published - (gen + 2) \in Nat /\ published = gen + 2 + (published - (gen + 2))
      BY <1>1
    <2> QED
      BY <2>1
  <1>3. d * PCMBUF_SIZE \in Nat /\ GenBase \in Int
    BY <1>1 DEF GenBase
  <1>4. Taken = GenBase + 3 * PCMBUF_SIZE + d * PCMBUF_SIZE
    BY <1>1, <1>2 DEF Taken, GenBase
  <1>5. samples = Taken + writePos
    BY DEF PcmInv, Buffers
  <1> QED
    BY <1>1, <1>3, <1>4, <1>5

\* What lies at place i of the buffer that read() took.
LEMMA CellIsOwn ==
    ASSUME PcmInv, Taking, gen > 0, NEW i \in Places
    PROVE  \/ data[bufNum][i] = GenBase + i + 1
           \/ samples >= GenBase + i + 1 + 2 * PCMBUF_SIZE
  <1>1. /\ PCMBUF_SIZE \in Nat \ {0} /\ published \in Nat /\ gen \in Nat /\ gen <= published
        /\ i \in Nat /\ i < PCMBUF_SIZE /\ writePos \in Nat
    BY SizeAssumption DEF PcmInv, Types, Reads, Places
  <1>2. samples = Taken + writePos /\ Taken \in Nat /\ GenBase \in Int
    BY <1>1 DEF PcmInv, Buffers, Taken, GenBase
  <1>3. CASE gen = published
    <2>1. bufNum = readPcmBufNum /\ GenBase = Base
      BY <1>3 DEF PcmInv, Reads, GenBase, Base
    <2> QED
      BY <1>1, <1>3, <2>1 DEF PcmInv, Buffers
  <1>4. CASE gen + 1 = published
    <2>1. bufNum = writeBufNum /\ published > 1
      BY <1>1, <1>4 DEF PcmInv, Reads
    <2>2. Base = GenBase + PCMBUF_SIZE /\ Taken = GenBase + 2 * PCMBUF_SIZE
      BY <1>1, <1>4 DEF GenBase, Base, Taken
    <2>3. CASE i >= writePos
      <3>1. data[writeBufNum][i] = Base - PCMBUF_SIZE + i + 1
        BY <2>1, <2>3 DEF PcmInv, Buffers
      <3> QED
        BY <1>1, <1>2, <2>1, <2>2, <3>1
    <2>4. CASE i < writePos
      BY <1>1, <1>2, <2>2, <2>4
    <2> QED
      BY <1>1, <2>3, <2>4
  <1>5. CASE gen + 2 <= published
    <2>1. samples >= GenBase + 3 * PCMBUF_SIZE
      BY <1>5, TwoLater
    <2> QED
      BY <1>1, <1>2, <2>1
  <1> QED
    BY <1>1, <1>3, <1>4, <1>5

LEMMA CopyStep == PcmInv /\ Copy => PcmInv'
  <1> SUFFICES ASSUME PcmInv, Copy PROVE PcmInv'
    OBVIOUS
  <1> DEFINE x == IF bufNum = -1 THEN NoSample ELSE data[bufNum][pos + Len(packet)]
  <1>1. /\ pc = "copy" /\ Len(packet) < count /\ packet' = Append(packet, x)
        /\ UNCHANGED <<data, writePos, writeBufNum, readPcmBufNum, readPos>>
        /\ UNCHANGED <<pc, pos, bufNum, count, samples, published, gen, slipped, sent>>
    BY DEF Copy, pcm, stream
  <1>2. /\ PCMBUF_SIZE \in Nat /\ pos \in Nat /\ count \in Nat /\ packet \in Seq(Nat)
        /\ pos + count <= PCMBUF_SIZE /\ Len(packet) \in Nat
        /\ data \in [{0, 1} -> [Places -> Nat]] /\ bufNum \in {-1, 0, 1}
    BY <1>1, SizeAssumption DEF PcmInv, Types, Reads, Reading
  <1>3. pos + Len(packet) \in Places
    BY <1>1, <1>2 DEF Places
  <1>4. x \in Nat
    BY <1>2, <1>3 DEF NoSample
  <1>5. ASSUME gen > 0
        PROVE  \/ x = GenBase + pos + (Len(packet) + 1)
               \/ samples >= GenBase + pos + (Len(packet) + 1) + 2 * PCMBUF_SIZE
    <2>1. /\ gen \in Nat /\ published \in Nat /\ gen <= published
          /\ gen = published => bufNum = readPcmBufNum
          /\ gen + 1 = published => bufNum = writeBufNum
      BY <1>1, <1>5 DEF PcmInv, Types, Reads, Taking
    <2>2. GenBase \in Int /\ GenBase + (pos + Len(packet)) + 1 = GenBase + pos + (Len(packet) + 1)
      BY <1>2, <2>1 DEF GenBase
    <2>3. \/ data[bufNum][pos + Len(packet)] = GenBase + (pos + Len(packet)) + 1
          \/ samples >= GenBase + (pos + Len(packet)) + 1 + 2 * PCMBUF_SIZE
      BY <1>1, <1>3, <1>5, CellIsOwn DEF Taking
    <2>4. CASE bufNum # -1
      BY <2>2, <2>3, <2>4
    <2>5. CASE bufNum = -1
      <3>1. gen # published /\ gen + 1 # published
        BY <1>5, <2>1, <2>5 DEF PcmInv, Types, Buffers
      <3>2. gen + 2 <= published
        BY <2>1, <3>1
      <3>3. samples >= GenBase + 3 * PCMBUF_SIZE /\ samples \in Int
        BY <3>2, TwoLater
      <3>4. pos + Len(packet) + 1 <= PCMBUF_SIZE
        BY <1>1, <1>2
      <3>5. samples >= GenBase + pos + (Len(packet) + 1) + 2 * PCMBUF_SIZE
        BY <1>2, <2>2, <3>3, <3>4
      <3> QED
        BY <3>5
    <2> QED
      BY <2>4, <2>5
  <1> HIDE DEF x
  <1>6. packet' \in Seq(Nat) /\ Len(packet') = Len(packet) + 1 /\ packet'[Len(packet) + 1] = x
        /\ \A k \in 1..Len(packet) : packet'[k] = packet[k]
    BY <1>1, <1>2, <1>4, AppendProperties
  <1>7. Types'
    BY <1>1, <1>6 DEF PcmInv, Types
  <1>8. Buffers' /\ Base' = Base /\ GenBase' = GenBase
    BY <1>1 DEF PcmInv, Buffers, Taken, Base, GenBase
  <1>9. Reads' /\ Position'
    <2>1. Len(packet') <= count
      BY <1>1, <1>2, <1>6
    <2> QED
      BY <1>1, <2>1 DEF PcmInv, Reads, Position, Reading, Taking
  <1>10. Slice'
    <2> SUFFICES ASSUME gen > 0, NEW k \in 1..Len(packet') PROVE Own(k)'
      BY <1>1 DEF Slice
    <2>1. CASE k = Len(packet) + 1
      BY <1>1, <1>5, <1>6, <1>8, <2>1 DEF Own
    <2>2. CASE k # Len(packet) + 1
      <3>1. k \in 1..Len(packet)
        BY <1>2, <1>6, <2>2
      <3>2. Own(k)
        BY <1>1, <3>1 DEF PcmInv, Slice, Taking
      <3> QED
        BY <1>1, <1>6, <1>8, <3>1, <3>2 DEF Own
    <2> QED
      BY <2>1, <2>2
  <1>11. Sent'
    BY <1>1, <1>8 DEF PcmInv, Sent
  <1> QED
    BY <1>7, <1>8, <1>9, <1>10, <1>11 DEF PcmInv

\* The packet stays what it is.
LEMMA SliceStays ==
    ASSUME PcmInv, Taking, UNCHANGED <<pos, packet, gen, samples>>
    PROVE  Slice'
  <1>1. GenBase' = GenBase
    BY DEF GenBase
  <1> QED
    BY <1>1 DEF PcmInv, Slice, Own

LEMMA CompareStep == PcmInv /\ Compare => PcmInv'
  <1> SUFFICES ASSUME PcmInv, Compare PROVE PcmInv'
    OBVIOUS
  <1>1. /\ pc = "copy" /\ Len(packet) = count /\ pc' = IF pos = readPos THEN "set" ELSE "done"
        /\ UNCHANGED <<data, writePos, writeBufNum, readPcmBufNum, readPos>>
        /\ UNCHANGED <<pos, bufNum, count, packet, samples, published, gen, slipped, sent>>
    BY DEF Compare, pcm, stream
  <1>2. Types'
    BY <1>1 DEF PcmInv, Types
  <1>3. Buffers' /\ Base' = Base
    BY <1>1 DEF PcmInv, Buffers, Taken, Base
  <1>4. ~slipped => (pos = readPos <=> gen = published)
    BY <1>1 DEF PcmInv, Position
  <1>5. Reads' /\ Position'
    <2>1. Reads'
      BY <1>1 DEF PcmInv, Reads, Reading, Taking
    <2>2. Position'
      BY <1>1, <1>4 DEF Position
    <2> QED
      BY <2>1, <2>2
  <1>6. Slice'
    BY <1>1, SliceStays DEF Taking
  <1>7. Sent'
    BY <1>1, <1>3, <1>4 DEF PcmInv, Sent
  <1> QED
    BY <1>2, <1>3, <1>5, <1>6, <1>7 DEF PcmInv

LEMMA SetReadPosStep == PcmInv /\ SetReadPos => PcmInv'
  <1> SUFFICES ASSUME PcmInv, SetReadPos PROVE PcmInv'
    OBVIOUS
  <1>1. /\ pc = "set" /\ pc' = "done" /\ readPos' = pos + count
        /\ UNCHANGED <<data, writePos, writeBufNum, readPcmBufNum>>
        /\ UNCHANGED <<pos, bufNum, count, packet, samples, published, gen, slipped, sent>>
    BY DEF SetReadPos, stream
  <1>2. PCMBUF_SIZE \in Nat /\ pos \in Nat /\ count \in Nat /\ pos + count <= PCMBUF_SIZE
    BY <1>1, SizeAssumption DEF PcmInv, Types, Reads, Reading
  <1>3. readPos' \in 0..PCMBUF_SIZE
    BY <1>1, <1>2
  <1>4. Types'
    BY <1>1, <1>3 DEF PcmInv, Types
  <1>5. Buffers' /\ Base' = Base
    BY <1>1 DEF PcmInv, Buffers, Taken, Base
  <1>6. Reads' /\ Position'
    BY <1>1 DEF PcmInv, Reads, Position, Reading, Taking
  <1>7. Slice'
    BY <1>1, SliceStays DEF Taking
  <1>8. ~slipped => readPos = pos /\ gen = published
    BY <1>1 DEF PcmInv, Position
  <1>9. Sent'
    BY <1>1, <1>5, <1>8 DEF PcmInv, Sent
  <1> QED
    BY <1>4, <1>5, <1>6, <1>7, <1>9 DEF PcmInv

\* The packet is sent behind the earlier ones of its buffer.
LEMMA Joined ==
    ASSUME NEW b \in Int, NEW p \in Nat, NEW q \in Seq(Nat),
           \A k \in 1..Len(q) : q[k] = b + p + k,
           [k \in 1..p |-> b + k] \in Seq(Nat)
    PROVE  [k \in 1..p |-> b + k] \o q = [k \in 1..(p + Len(q)) |-> b + k]
  <1> DEFINE s == [k \in 1..p |-> b + k]
             t == [k \in 1..(p + Len(q)) |-> b + k]
  <1>1. Len(q) \in Nat
    OBVIOUS
  <1>2. DOMAIN s = 1..p /\ \A k \in 1..p : s[k] = b + k
    OBVIOUS
  <1>3. DOMAIN t = 1..(p + Len(q)) /\ (\A k \in 1..(p + Len(q)) : t[k] = b + k)
        /\ t = [k \in DOMAIN t |-> t[k]]
    OBVIOUS
  <1> HIDE DEF s, t
  <1>4. s \in Seq(Nat)
    BY DEF s
  <1>5. Len(s) = p
    BY <1>2, <1>4, LenProperties
  <1>6. /\ s \o q \in Seq(Nat) /\ Len(s \o q) = p + Len(q)
        /\ \A k \in 1..p + Len(q) : (s \o q)[k] = IF k <= p THEN s[k] ELSE q[k - p]
    <2>1. /\ s \o q \in Seq(Nat) /\ Len(s \o q) = Len(s) + Len(q)
          /\ \A k \in 1..Len(s) + Len(q) : (s \o q)[k] = IF k <= Len(s) THEN s[k] ELSE q[k - Len(s)]
      BY <1>4, ConcatProperties
    <2> QED
      BY <1>5, <2>1
  <1>7. DOMAIN (s \o q) = 1..(p + Len(q)) /\ s \o q = [k \in DOMAIN (s \o q) |-> (s \o q)[k]]
    <2>1. s \o q \in [1..Len(s \o q) -> Nat]
      BY <1>6, LenProperties
    <2> QED
      BY <1>6, <2>1
  <1>8. ASSUME NEW k \in 1..(p + Len(q)) PROVE (s \o q)[k] = t[k]
    <2>1. CASE k <= p
      <3>1. k \in 1..p
        BY <1>1, <2>1
      <3> QED
        BY <1>2, <1>3, <1>6, <3>1
    <2>2. CASE k > p
      <3>1. k - p \in 1..Len(q) /\ ~(k <= p)
        BY <1>1, <2>2
      <3>2. (s \o q)[k] = b + p + (k - p)
        BY <1>6, <2>2, <3>1
      <3>3. b + p + (k - p) = b + k
        OBVIOUS
      <3> QED
        BY <1>3, <3>2, <3>3
    <2>3. k <= p \/ k > p
      BY <1>1
    <2> QED
      BY <2>1, <2>2, <2>3
  <1> QED
    BY <1>3, <1>7, <1>8 DEF s, t

LEMMA ReadReturnsStep == PcmInv /\ ReadReturns => PcmInv'
  <1> SUFFICES ASSUME PcmInv, ReadReturns PROVE PcmInv'
    OBVIOUS
  <1>1. /\ pc = "done" /\ pc' = "idle" /\ sent' = IF gen = published THEN sent \o packet ELSE sent
        /\ UNCHANGED <<data, writePos, writeBufNum, readPcmBufNum, readPos>>
        /\ UNCHANGED <<pos, bufNum, count, packet, samples, published, gen, slipped>>
    BY DEF ReadReturns, pcm
  <1>2. sent \in Seq(Nat) /\ packet \in Seq(Nat) /\ pos \in Nat /\ published \in Nat
    BY DEF PcmInv, Types
  <1>3. sent' \in Seq(Nat)
    BY <1>1, <1>2, ConcatProperties
  <1>4. Types'
    BY <1>1, <1>3 DEF PcmInv, Types
  <1>5. Buffers' /\ Base' = Base
    BY <1>1 DEF PcmInv, Buffers, Taken, Base
  <1>6. Reads' /\ Position' /\ Slice'
    BY <1>1 DEF Reads, Position, Reading, Slice, Taking
  <1>7. Sent'
    <2> SUFFICES ASSUME published > 0, ~slipped PROVE sent' = [k \in 1..readPos |-> Base + k]
      BY <1>1, <1>5 DEF Sent
    <2>1. CASE gen # published
      BY <1>1, <2>1 DEF PcmInv, Sent
    <2>2. CASE gen = published
      <3>1. Len(packet) = count /\ readPos = pos + count
        BY <1>1, <2>2 DEF PcmInv, Reads, Position
      <3>2. Base \in Int /\ GenBase = Base /\ Taken = Base + PCMBUF_SIZE /\ PCMBUF_SIZE \in Nat \ {0}
        BY <1>2, <2>2, SizeAssumption DEF Base, GenBase, Taken
      <3>3. samples = Taken + writePos /\ writePos \in Nat /\ writePos < PCMBUF_SIZE
        BY <3>2 DEF PcmInv, Types, Buffers, Places
      <3>4. \A k \in 1..Len(packet) : packet[k] = Base + pos + k
        <4> SUFFICES ASSUME NEW k \in 1..Len(packet) PROVE packet[k] = Base + pos + k
          OBVIOUS
        <4>1. Own(k)
          BY <1>1, <2>2 DEF PcmInv, Slice, Taking
        <4>2. ~(samples >= Base + pos + k + 2 * PCMBUF_SIZE)
          BY <1>2, <3>2, <3>3
        <4> QED
          BY <3>2, <4>1, <4>2 DEF Own
      <3>5. sent = [k \in 1..pos |-> Base + k]
        BY <1>1, <2>2 DEF PcmInv, Sent
      <3>6. [k \in 1..pos |-> Base + k] \in Seq(Nat)
        BY <1>2, <3>5
      <3> HIDE DEF Base
      <3>7. [k \in 1..pos |-> Base + k] \o packet = [k \in 1..(pos + Len(packet)) |-> Base + k]
        BY <1>2, <3>2, <3>4, <3>6, Joined
      <3> QED
        BY <1>1, <2>2, <3>1, <3>5, <3>7
    <2> QED
      BY <2>1, <2>2
  <1> QED
    BY <1>4, <1>5, <1>6, <1>7 DEF PcmInv

\* What the commands do leaves the samples alone, and a restart begins afresh.
LEMMA CommandStep ==
    ASSUME PcmInv, UNCHANGED <<pcm, pos, bufNum, count, packet, stream>>,
           pc' = pc \/ (~Reading /\ pc' \in {"idle", "erasing", "writing"})
    PROVE  PcmInv'
  <1>1. /\ UNCHANGED <<data, writePos, writeBufNum, readPcmBufNum, readPos>>
        /\ UNCHANGED <<pos, bufNum, count, packet, samples, published, gen, slipped, sent>>
    BY DEF pcm, stream
  <1>2. Types'
    BY <1>1 DEF PcmInv, Types
  <1>3. Buffers' /\ Base' = Base
    BY <1>1 DEF PcmInv, Buffers, Taken, Base
  <1>4. Reads' /\ Position'
    BY <1>1 DEF PcmInv, Reads, Position, Reading, Taking
  <1>5. Slice'
    <2>1. CASE Taking
      BY <1>1, <2>1, SliceStays
    <2>2. CASE ~Taking
      BY <2>2 DEF Slice, Taking, Reading
    <2> QED
      BY <2>1, <2>2
  <1>6. Sent'
    BY <1>1, <1>3 DEF PcmInv, Sent, Reading
  <1> QED
    BY <1>2, <1>3, <1>4, <1>5, <1>6 DEF PcmInv

Fresh ==
    /\ data = NoSamples /\ writePos = 0 /\ writeBufNum = 0 /\ readPcmBufNum = -1 /\ readPos = 0
    /\ pc = "idle" /\ pos = 0 /\ bufNum = 0 /\ count = 0 /\ packet = <<>>
    /\ samples = 0 /\ published = 0 /\ gen = 0 /\ slipped = FALSE /\ sent = <<>>

LEMMA Begins == Fresh => PcmInv
  <1> SUFFICES ASSUME Fresh PROVE PcmInv
    OBVIOUS
  <1> USE DEF Fresh
  <1>1. data \in [{0, 1} -> [Places -> Nat]]
    <2>1. 0..PCMBUF_COUNT - 1 = {0, 1}
      BY DEF PCMBUF_COUNT
    <2> QED
      BY <2>1 DEF NoSamples, Places, NoSample
  <1>2. writePos \in Places /\ readPos \in 0..PCMBUF_SIZE /\ PCMBUF_SIZE \in Nat
    BY SizeAssumption DEF Places
  <1>3. packet \in Seq(Nat) /\ sent \in Seq(Nat)
    OBVIOUS
  <1>4. Types
    BY <1>1, <1>2, <1>3 DEF Types
  <1>5. Taken = 0
    BY <1>2 DEF Taken
  <1>6. Buffers
    BY <1>5 DEF Buffers
  <1>7. Reads /\ Position /\ Slice /\ Sent
    BY DEF Reads, Position, Reading, Taking, Slice, Sent
  <1> QED
    BY <1>4, <1>6, <1>7 DEF PcmInv

LEMMA PcmStep == PcmInv /\ [Next]_vars => PcmInv'
  <1> SUFFICES ASSUME PcmInv, [Next]_vars PROVE PcmInv'
    OBVIOUS
  <1>1. CASE Sample
    <2>1. writePos + 1 < PCMBUF_SIZE \/ writePos + 1 >= PCMBUF_SIZE
      BY SizeAssumption DEF PcmInv, Types, Places
    <2> QED
      BY <1>1, <2>1, SampleStays, SamplePublishes
  <1>2. CASE \E n \in Counts : Read(n)
    BY <1>2, ReadStep
  <1>3. CASE ReadBuffer \/ Copy \/ Compare \/ SetReadPos \/ ReadReturns
    BY <1>3, ReadBufferStep, CopyStep, CompareStep, SetReadPosStep, ReadReturnsStep
  <1>4. CASE \E b \in BOOLEAN : SetLed(b)
    BY <1>4, CommandStep DEF SetLed, reader
  <1>5. CASE SaveClean \/ SaveMisses
    BY <1>5, CommandStep DEF SaveClean, SaveMisses, reader
  <1>6. CASE SaveErases
    BY <1>6, CommandStep DEF SaveErases, Reading
  <1>7. CASE SaveWrites \/ SaveReturns
    BY <1>7, CommandStep DEF SaveWrites, SaveReturns, Reading
  <1>8. CASE SaveFails
    BY <1>8, CommandStep DEF SaveFails, Masked, Reading, config
  <1>9. CASE Restart
    <2>1. Fresh'
      BY <1>9 DEF Restart, Fresh, NoSamples
    <2>2. (Fresh => PcmInv)'
      BY Begins, PTL
    <2> QED
      BY <2>1, <2>2
  <1>10. CASE UNCHANGED vars
    BY <1>10, CommandStep DEF vars, reader
  <1> QED
    BY <1>1, <1>2, <1>3, <1>4, <1>5, <1>6, <1>7, <1>8, <1>9, <1>10 DEF Next

LEMMA PcmAlways == Spec => []PcmInv
  <1>1. Init => PcmInv
    BY Begins DEF Init, Fresh
  <1> QED
    BY <1>1, PcmStep, PTL DEF Spec

-----------------------------------------------------------------------------
(* The setting.                                                            *)

LEMMA ConfigStays ==
    ASSUME ConfigInv, UNCHANGED <<eeprom, ledEnable, saved, tried, misread>>, Masked' => Masked
    PROVE  ConfigInv'
  BY DEF ConfigInv, SettingIsKept

\* What is written of a byte that is not 0 is not 0.
LEMMA PartOf ==
    ASSUME NEW v \in Bytes, NEW x \in Partly(v)
    PROVE  x \in Bytes /\ (BoolOf(v) => BoolOf(x))
  BY DEF Partly, BoolOf

LEMMA BoolOfByte == \A b \in BOOLEAN : BoolOf(ByteOf(b)) = b /\ ByteOf(b) \in Bytes
  BY DEF BoolOf, ByteOf, Bytes

LEMMA OnlyFalseIsZero == \A b \in Bytes : ~BoolOf(b) => b = ByteOf(FALSE)
  BY DEF BoolOf, ByteOf

\* Is what the byte will hold the saved setting, or one that was tried?
LEMMA ErasesStep == ConfigInv /\ SaveErases => ConfigInv'
  <1> SUFFICES ASSUME ConfigInv, SaveErases PROVE ConfigInv'
    OBVIOUS
  <1>1. /\ pc' = "erasing" /\ eeprom \in Bytes /\ eeprom' \in Partly(eeprom)
        /\ tried' = tried \cup {ledEnable} /\ UNCHANGED <<ledEnable, saved>>
        /\ ledEnable \in BOOLEAN /\ saved \in BOOLEAN /\ tried \subseteq BOOLEAN
        /\ misread' \in BOOLEAN /\ (~misread' => Dirty /\ ~misread)
    <2>1. CASE Dirty /\ UNCHANGED <<misread, fails>>
      BY <2>1 DEF SaveErases, ConfigInv
    <2>2. CASE misread' = TRUE
      BY <2>2 DEF SaveErases, ConfigInv
    <2> QED
      BY <2>1, <2>2 DEF SaveErases
  <1>2. eeprom' \in Bytes /\ (BoolOf(eeprom) => BoolOf(eeprom'))
    BY <1>1, PartOf
  <1>3. BoolOf(eeprom) \in BOOLEAN /\ BoolOf(eeprom') \in BOOLEAN
    BY DEF BoolOf
  <1>4. ASSUME ~misread' PROVE TRUE \in {saved} \cup tried'
    <2>1. BoolOf(eeprom) \in {saved} \cup tried /\ eeprom # ByteOf(ledEnable)
      BY <1>1, <1>4 DEF ConfigInv, SettingIsKept, Dirty
    <2>2. CASE ledEnable = TRUE
      BY <1>1, <2>2
    <2>3. CASE ledEnable = FALSE
      <3>1. BoolOf(eeprom) = TRUE
        BY <1>1, <1>3, <2>1, <2>3, OnlyFalseIsZero
      <3> QED
        BY <1>1, <2>1, <3>1
    <2> QED
      BY <1>1, <2>2, <2>3
  <1>5. ASSUME ~misread' PROVE BoolOf(eeprom') \in {saved} \cup tried'
    <2>1. CASE BoolOf(eeprom') = TRUE
      BY <1>4, <1>5, <2>1
    <2>2. CASE BoolOf(eeprom') = FALSE
      <3>1. BoolOf(eeprom) = FALSE
        BY <1>2, <1>3, <2>2
      <3>2. BoolOf(eeprom) \in {saved} \cup tried
        BY <1>1, <1>5 DEF ConfigInv, SettingIsKept
      <3> QED
        BY <1>1, <2>2, <3>1, <3>2
    <2> QED
      BY <1>3, <2>1, <2>2
  <1>6. ledEnable' \in tried' /\ tried' # {} /\ tried' \subseteq BOOLEAN
    BY <1>1
  <1>7. SettingIsKept'
    BY <1>1, <1>5, <1>6 DEF SettingIsKept
  <1> QED
    BY <1>1, <1>2, <1>4, <1>6, <1>7 DEF ConfigInv

LEMMA WritesStep == ConfigInv /\ SaveWrites => ConfigInv'
  <1> SUFFICES ASSUME ConfigInv, SaveWrites PROVE ConfigInv'
    OBVIOUS
  <1>1. /\ pc = "erasing" /\ pc' = "writing" /\ eeprom' \in Partly(ByteOf(ledEnable))
        /\ UNCHANGED <<ledEnable, saved, tried, misread>>
        /\ ledEnable \in BOOLEAN /\ saved \in BOOLEAN /\ tried \subseteq BOOLEAN /\ misread \in BOOLEAN
    BY DEF SaveWrites, ConfigInv, keeping
  <1>2. eeprom' \in Bytes /\ (ledEnable => BoolOf(eeprom'))
    BY <1>1, PartOf, BoolOfByte
  <1>3. ledEnable \in tried /\ (~misread => TRUE \in {saved} \cup tried)
    BY <1>1 DEF ConfigInv, Masked
  <1>4. ASSUME ~misread PROVE BoolOf(eeprom') \in {saved} \cup tried
    <2>1. CASE BoolOf(eeprom') = TRUE
      BY <1>3, <1>4, <2>1
    <2>2. CASE BoolOf(eeprom') = FALSE
      BY <1>1, <1>2, <1>3, <2>2
    <2>3. BoolOf(eeprom') \in BOOLEAN
      BY DEF BoolOf
    <2> QED
      BY <2>1, <2>2, <2>3
  <1>5. SettingIsKept'
    BY <1>1, <1>3, <1>4 DEF SettingIsKept
  <1> QED
    BY <1>1, <1>2, <1>3, <1>5 DEF ConfigInv

\* A save that has done all it should, or found nothing to do
LEMMA SettledStep == ConfigInv /\ (SaveClean \/ SaveReturns) => ConfigInv'
  <1> SUFFICES ASSUME ConfigInv, SaveClean \/ SaveReturns PROVE ConfigInv'
    OBVIOUS
  <1>1. /\ eeprom' = ByteOf(ledEnable) /\ ledEnable' = ledEnable /\ saved' = ledEnable
        /\ tried' = {} /\ misread' = FALSE /\ ledEnable \in BOOLEAN
    BY DEF SaveClean, SaveReturns, Dirty, config, ConfigInv
  <1>2. pc' = "idle"
    BY DEF SaveClean, SaveReturns, reader
  <1>3. eeprom' \in Bytes /\ BoolOf(eeprom') = saved'
    BY <1>1, BoolOfByte
  <1> QED
    BY <1>1, <1>2, <1>3 DEF ConfigInv, SettingIsKept, Masked

LEMMA ConfigStep == ConfigInv /\ [Next]_vars => ConfigInv'
  <1> SUFFICES ASSUME ConfigInv, [Next]_vars PROVE ConfigInv'
    OBVIOUS
  <1>1. CASE Sample
    BY <1>1, ConfigStays DEF Sample, config, keeping, reader, Masked
  <1>2. CASE \E n \in Counts : Read(n)
    BY <1>2, ConfigStays DEF Read, config, keeping, Masked
  <1>3. CASE ReadBuffer \/ Copy \/ Compare \/ SetReadPos \/ ReadReturns
    BY <1>3, ConfigStays DEF ReadBuffer, Copy, Compare, SetReadPos, ReadReturns, config, keeping, Masked
  <1>4. CASE \E b \in BOOLEAN : SetLed(b)
    <2>1. /\ ledEnable' \in BOOLEAN /\ UNCHANGED <<eeprom, saved, tried, misread>> /\ ~Masked'
      BY <1>4 DEF SetLed, keeping, reader, Masked
    <2> QED
      BY <2>1 DEF ConfigInv, SettingIsKept
  <1>5. CASE SaveClean \/ SaveReturns
    BY <1>5, SettledStep
  <1>6. CASE SaveMisses
    <2>1. /\ UNCHANGED <<eeprom, ledEnable, saved>> /\ tried' = tried \cup {ledEnable}
          /\ misread' = TRUE /\ ~Masked'
      BY <1>6 DEF SaveMisses, config, reader, Masked
    <2> QED
      BY <2>1 DEF ConfigInv, SettingIsKept
  <1>7. CASE SaveErases \/ SaveWrites
    BY <1>7, ErasesStep, WritesStep
  <1>8. CASE SaveFails
    BY <1>8, ConfigStays DEF SaveFails, config, Masked
  <1>9. CASE Restart
    <2>1. /\ UNCHANGED <<eeprom, saved, tried, misread>> /\ ledEnable' \in BOOLEAN /\ ~Masked'
      BY <1>9 DEF Restart, BoolOf, Masked
    <2> QED
      BY <2>1 DEF ConfigInv, SettingIsKept
  <1>10. CASE UNCHANGED vars
    BY <1>10, ConfigStays DEF vars, config, keeping, reader, Masked
  <1> QED
    BY <1>1, <1>2, <1>3, <1>4, <1>5, <1>6, <1>7, <1>8, <1>9, <1>10 DEF Next

LEMMA ConfigAlways == Spec => []ConfigInv
  <1>1. Init => ConfigInv
    BY DEF Init, ConfigInv, SettingIsKept, BoolOf, Masked
  <1> QED
    BY <1>1, ConfigStep, PTL DEF Spec

-----------------------------------------------------------------------------
(* The theorems.                                                           *)

\* However the interrupt's samples and publications fall between the steps of
\* read(), sample k of a packet is the one that belongs there of the buffer read()
\* took, unless the interrupt has come round to that place again since: that takes
\* the whole of the other buffer.
THEOREM PacketsAreSlices == Spec => []PacketIsOneSlice
  <1>1. PcmInv => PacketIsOneSlice
    BY DEF PcmInv, Slice, Own, Taking, PacketIsOneSlice, GenBase
  <1> QED
    BY <1>1, PcmAlways, PTL

\* The packets of a buffer are its samples from the first on, none twice and none
\* left out, unless the buffer was published in one of the three places of read()
\* that Slips names, where the code does skip or repeat some.
THEOREM PacketsAreInOrder == Spec => []SlicesInOrder
  <1>1. PcmInv => SlicesInOrder
    BY DEF PcmInv, Sent, SlicesInOrder, Base
  <1> QED
    BY <1>1, PcmAlways, PTL

\* saveCfg() with resets between any two steps of it and flash operations that
\* fail half-way: the flash holds what was saved last, or what a save that did not
\* come to its end was to write; nothing else, unless begin() could not read.
THEOREM SettingsSurvive == Spec => []SettingIsKept
  <1>1. ConfigInv => SettingIsKept
    BY DEF ConfigInv
  <1> QED
    BY <1>1, ConfigAlways, PTL

=============================================================================
