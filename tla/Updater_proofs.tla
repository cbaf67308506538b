---------------------------- MODULE Updater_proofs ----------------------------
(***************************************************************************)
(* For every layout of the flash, every image and every number of updates, *)
(* failures, resets and power cuts: while an update is written the sketch  *)
(* that writes it stays whole; what the boot loader starts is whole, unless *)
(* one of the named causes has struck; and no address leaves its range.    *)
(***************************************************************************)
EXTENDS Updater, SequenceTheorems, TLAPS

-----------------------------------------------------------------------------
(* Sectors and buffers.                                                    *)

\* An image does not reach beyond the sectors it is rounded up to.
LEMMA RoundedUp == ASSUME NEW n \in Nat PROVE Rounded(n) \in Nat /\ Rounded(n) >= n
  BY SectorAssumption DEF Rounded

\* _writeBuffer erases and programs nothing before the address it has reached.
LEMMA TouchedAbove ==
    ASSUME currentAddress \in Nat, NEW b, NEW a \in Touched(b)
    PROVE  a >= currentAddress
  <1>1. CASE a \in Units(currentAddress, Len(b))
    BY <1>1 DEF Units
  <1>2. CASE currentAddress % SectorSize = 0 /\ a \in SectorOf(currentAddress)
    <2>1. (currentAddress \div SectorSize) * SectorSize = currentAddress
      BY <1>2, SectorAssumption
    <2> QED
      BY <1>2, <2>1, SectorAssumption DEF SectorOf, Units
  <1> QED
    BY <1>1, <1>2 DEF Touched

\* The units a caller passes are a sequence, and so is what lies in the buffer
\* with them.
Given == (Images \cup {None}) \X Int

LEMMA NextUnitsType ==
    ASSUME upload \in Images \cup {None}, sent \in Int, NEW k \in Int
    PROVE  NextUnits(k) \in Seq(Given)
  <1> DEFINE u(j) == <<upload, sent + j - 1>>
  <1>1. \A j \in 1..k : u(j) \in Given
    BY DEF Given
  <1>2. PICK n \in Nat : 1..k = 1..n
    <2>1. CASE k >= 0
      BY <2>1
    <2>2. CASE k < 0
      <3>1. 1..k = 1..0
        BY <2>2
      <3> QED
        BY <3>1
    <2> QED
      BY <2>1, <2>2
  <1>3. [j \in 1..n |-> u(j)] \in Seq(Given)
    <2>1. \A j \in 1..n : u(j) \in Given
      BY <1>1, <1>2
    <2> HIDE DEF u
    <2> QED
      BY <2>1, IsASeq
  <1>4. NextUnits(k) = [j \in 1..n |-> u(j)]
    BY <1>2 DEF NextUnits
  <1> QED
    BY <1>3, <1>4

-----------------------------------------------------------------------------
(* The invariant.  An update lies behind the sketch that runs; only such a  *)
(* sketch has one; the boot loader works when none runs.                    *)

Locals ==
    /\ size \in Nat /\ startAddress \in Nat
    /\ currentAddress \in Nat /\ currentAddress >= startAddress
    /\ buffer \in Seq(Given)
    /\ upload \in Images \cup {None} /\ sent \in Int /\ left \in Int
    /\ bufferSize \in Nat

SketchRuns == app \in Images => phase \in {"sketch", "write", "stream"}

UpdateBehind ==
    /\ size > 0 => app \in Images /\ startAddress >= Rounded(SizeOf(app))
    /\ phase \in {"write", "stream"} => size > 0

FlashInv == DOMAIN flash = 0..FsStart + SectorSize - 1

OldInv == Locals /\ SketchRuns /\ UpdateBehind /\ FlashInv /\ OldSketchSurvives

LEMMA OldInit == Init => OldInv
  <1> SUFFICES ASSUME Init PROVE OldInv
    OBVIOUS
  <1>1. PICK i \in Images :
            /\ app = i
            /\ flash = [a \in 0..FsStart + SectorSize - 1 |->
                          IF a >= FsStart THEN FsData ELSE IF a < SizeOf(i) THEN <<i, a>> ELSE Erased]
    BY DEF Init
  <1>2. SizeOf(i) \in 1..FsStart
    BY SizesAssumption DEF Images, SizeOf
  <1>3. Locals /\ SketchRuns /\ UpdateBehind
    BY SectorAssumption DEF Init, Locals, SketchRuns, UpdateBehind
  <1>4. FlashInv
    BY <1>1 DEF FlashInv
  <1>5. OldSketchSurvives
    <2> SUFFICES ASSUME NEW k \in 0..SizeOf(i) - 1 PROVE flash[0 + k] = <<i, k>>
      BY <1>1 DEF OldSketchSurvives, Whole
    <2>1. k \in 0..FsStart + SectorSize - 1 /\ ~(k >= FsStart) /\ k < SizeOf(i) /\ 0 + k = k
      BY <1>2, SectorAssumption
    <2> QED
      BY <1>1, <2>1
  <1> QED
    BY <1>3, <1>4, <1>5 DEF OldInv

-----------------------------------------------------------------------------
(* What a write of the buffer leaves as it was.                            *)

\* Flash g is flash up to the address that the update has reached.
SameBelow(g) ==
    /\ DOMAIN g = DOMAIN flash
    /\ \A a \in DOMAIN flash : a < currentAddress => g[a] = flash[a]

LEMMA WrittenBelow ==
    ASSUME currentAddress \in Nat, FlashInv, NEW b
    PROVE  SameBelow(Written(b)) /\ SameBelow(Spoil(flash, Touched(b)))
  <1> DEFINE f == IF currentAddress % SectorSize = 0
                  THEN Wipe(flash, SectorOf(currentAddress)) ELSE flash
  <1>1. DOMAIN f = DOMAIN flash
    BY DEF Wipe
  <1>2. ASSUME NEW a \in DOMAIN flash, a < currentAddress
        PROVE  a \notin Touched(b)
    <2>1. a \in Int
      BY DEF FlashInv
    <2> QED
      BY <1>2, <2>1, TouchedAbove
  <1>3. ASSUME NEW a \in DOMAIN flash, a < currentAddress
        PROVE  f[a] = flash[a] /\ a \notin Units(currentAddress, Len(b))
    BY <1>2, <1>3 DEF Wipe, Touched
  <1>4. Written(b) = Program(f, currentAddress, b)
    BY DEF Written
  <1>5. SameBelow(Written(b))
    <2> HIDE DEF f
    <2> QED
      BY <1>1, <1>3, <1>4 DEF Program, SameBelow
  <1>6. SameBelow(Spoil(flash, Touched(b)))
    BY <1>2 DEF Spoil, SameBelow
  <1> QED
    BY <1>5, <1>6

\* The sketch that runs an update lies below that address.
LEMMA SketchBelow ==
    ASSUME OldInv, size > 0
    PROVE  app \in Images /\ currentAddress >= SizeOf(app) /\ SizeOf(app) \in 1..FsStart
  <1>1. app \in Images /\ startAddress >= Rounded(SizeOf(app))
    BY DEF OldInv, UpdateBehind
  <1>2. SizeOf(app) \in 1..FsStart
    BY <1>1, SizesAssumption DEF Images, SizeOf
  <1>3. Rounded(SizeOf(app)) \in Nat /\ Rounded(SizeOf(app)) >= SizeOf(app)
    BY <1>2, RoundedUp
  <1> QED
    BY <1>1, <1>2, <1>3 DEF OldInv, Locals

LEMMA SketchKept ==
    ASSUME OldInv, size > 0, SameBelow(flash'), app' = app
    PROVE  FlashInv' /\ OldSketchSurvives'
  <1>1. app \in Images /\ currentAddress >= SizeOf(app) /\ SizeOf(app) \in 1..FsStart
    BY SketchBelow
  <1>2. FlashInv'
    BY DEF OldInv, FlashInv, SameBelow
  <1>3. ASSUME NEW k \in 0..SizeOf(app) - 1 PROVE flash'[0 + k] = <<app, k>>
    <2>1. k < currentAddress /\ k \in 0..FsStart + SectorSize - 1 /\ 0 + k = k
      BY <1>1, SectorAssumption DEF OldInv, Locals
    <2>2. flash[0 + k] = <<app, k>>
      BY <1>1 DEF OldInv, OldSketchSurvives, Whole
    <2> QED
      BY <2>1, <2>2 DEF SameBelow, OldInv, FlashInv
  <1> QED
    BY <1>2, <1>3 DEF OldSketchSurvives, Whole

\* An update that is over, or was never begun, is not in the way.
LEMMA OverInv ==
    ASSUME OldInv, ResetUpdater, phase' = "sketch", app' = app,
           upload' \in Images \cup {None}, sent' \in Int, left' \in Int
    PROVE  Locals' /\ SketchRuns' /\ UpdateBehind'
  <1>1. Locals'
    BY DEF OldInv, Locals, ResetUpdater
  <1>2. SketchRuns' /\ UpdateBehind'
    BY DEF SketchRuns, UpdateBehind, ResetUpdater
  <1> QED
    BY <1>1, <1>2

\* Both outcomes of _writeBuffer.
LEMMA WriteBufferKeeps ==
    ASSUME OldInv, size > 0, NEW b \in Seq(Given), app' = app,
           WriteBufferOk(b) \/ WriteBufferFails(b)
    PROVE  FlashInv' /\ OldSketchSurvives'
  <1>1. SameBelow(Written(b)) /\ SameBelow(Spoil(flash, Touched(b)))
    BY WrittenBelow DEF OldInv, Locals
  <1>2. SameBelow(flash')
    BY <1>1 DEF WriteBufferOk, WriteBufferFails
  <1> QED
    BY <1>2, SketchKept

LEMMA WriteBufferOkInv ==
    ASSUME OldInv, NEW b \in Seq(Given), WriteBufferOk(b), app' = app, size > 0,
           phase' \in {"sketch", "write", "stream"},
           upload' \in Images \cup {None}, sent' \in Int, left' \in Int
    PROVE  Locals' /\ SketchRuns' /\ UpdateBehind'
  <1>1. Len(b) \in Nat
    BY LenProperties
  <1>2. Locals'
    BY <1>1, EmptySeq DEF OldInv, Locals, WriteBufferOk
  <1>3. SketchRuns' /\ UpdateBehind'
    BY DEF OldInv, SketchRuns, UpdateBehind, WriteBufferOk, Locals
  <1> QED
    BY <1>2, <1>3

-----------------------------------------------------------------------------
(* The steps.                                                              *)

LEMMA MinOfTwo ==
    ASSUME NEW a \in Int, NEW b \in Int PROVE Min({a, b}) \in {a, b}
  <1>1. \E x \in {a, b} : \A y \in {a, b} : x <= y
    <2>1. CASE a <= b
      BY <2>1
    <2>2. CASE b < a
      BY <2>2
    <2> QED
      BY <2>1, <2>2
  <1> QED
    BY <1>1 DEF Min

LEMMA BeginInv ==
    ASSUME OldInv, NEW i \in Images, NEW n \in Sizes \cup {FsStart},
           NEW b \in {PageSize, SectorSize}, Begin(i, n, b)
    PROVE  OldInv'
  <1>1. app \in Images /\ phase = "sketch" /\ app' = app /\ phase' = phase /\ flash' = flash
    BY DEF Begin, InSketch, mem
  <1>2. FlashInv' /\ OldSketchSurvives'
    BY <1>1 DEF OldInv, FlashInv, OldSketchSurvives, Whole
  <1>3. upload' \in Images \cup {None} /\ sent' \in Int /\ left' \in Int
    BY DEF Begin, OldInv, Locals
  <1>4. CASE ~Fits(n)
    <2>1. ResetUpdater
      BY <1>4 DEF Begin, SetError
    <2> QED
      BY <1>1, <1>2, <1>3, <2>1, OverInv DEF OldInv
  <1>5. CASE Fits(n)
    <2>1. n \in Nat /\ StartFor(n) \in Nat
      <3>1. n \in Nat
        BY SizesAssumption, SectorAssumption
      <3>2. Rounded(n) \in Nat
        BY <3>1, RoundedUp
      <3> QED
        BY <3>1, <3>2, SectorAssumption DEF StartFor
    <2>2. Locals'
      BY <1>3, <1>5, <2>1, EmptySeq, SectorAssumption DEF Begin, OldInv, Locals
    <2>3. UpdateBehind'
      BY <1>1, <1>5 DEF Begin, UpdateBehind, Fits
    <2>4. SketchRuns'
      BY <1>1 DEF SketchRuns
    <2> QED
      BY <1>2, <2>2, <2>3, <2>4 DEF OldInv
  <1> QED
    BY <1>4, <1>5

LEMMA WriteCallInv ==
    ASSUME OldInv, NEW k \in 1..MaxChunk, WriteCall(k) \/ WriteSome(k)
    PROVE  OldInv'
  <1>1. app \in Images /\ app' = app /\ flash' = flash /\ size > 0
    BY DEF WriteCall, WriteSome, InSketch, mem, Running
  <1>2. FlashInv' /\ OldSketchSurvives'
    BY <1>1 DEF OldInv, FlashInv, OldSketchSurvives, Whole
  <1>3. ASSUME UNCHANGED updater, phase' = "write", left' \in Int,
               upload' = upload, sent' = sent
        PROVE  OldInv'
    <2>1. Locals'
      BY <1>3 DEF OldInv, Locals, updater
    <2>2. SketchRuns' /\ UpdateBehind'
      BY <1>1, <1>3 DEF OldInv, SketchRuns, UpdateBehind, updater
    <2> QED
      BY <1>2, <2>1, <2>2 DEF OldInv
  <1>4. CASE WriteCall(k) /\ progress + Len(buffer) + k > size
    <2>1. ResetUpdater /\ phase' = "sketch" /\ UNCHANGED <<upload, sent, left>>
      BY <1>4 DEF WriteCall, InSketch, SetError
    <2> QED
      BY <1>1, <1>2, <2>1, OverInv DEF OldInv, Locals
  <1>5. CASE WriteCall(k) /\ ~(progress + Len(buffer) + k > size)
    BY <1>3, <1>5 DEF WriteCall
  <1>6. CASE WriteSome(k)
    <2>1. Len(buffer) \in Nat
      BY LenProperties DEF OldInv, Locals
    <2>2. k \in Int /\ remaining - Len(buffer) \in Int
      BY <2>1 DEF OldInv, Locals, remaining, progress
    <2>3. Min({k, remaining - Len(buffer)}) \in Int
      <3> HIDE DEF remaining
      <3> QED
        BY <2>2, MinOfTwo
    <2> QED
      BY <1>3, <1>6, <2>3 DEF WriteSome
  <1> QED
    BY <1>4, <1>5, <1>6

LEMMA WriteLoopInv ==
    ASSUME OldInv, WriteFull \/ WriteRest \/ (\E k \in 1..SectorSize : StreamRead(k))
    PROVE  OldInv'
  <1>1. phase \in {"write", "stream"} /\ app' = app /\ upload' = upload
    BY DEF WriteFull, WriteRest, StreamRead
  <1>2. size > 0 /\ app \in Images
    BY <1>1 DEF OldInv, UpdateBehind
  <1>3. \A k \in Int : buffer \o NextUnits(k) \in Seq(Given)
    <2> SUFFICES ASSUME NEW k \in Int PROVE buffer \o NextUnits(k) \in Seq(Given)
      OBVIOUS
    <2>1. NextUnits(k) \in Seq(Given)
      BY NextUnitsType DEF OldInv, Locals
    <2>2. buffer \in Seq(Given)
      BY DEF OldInv, Locals
    <2> QED
      BY <2>1, <2>2, ConcatProperties
  <1>4. \* the buffer is written, and the update goes on
        ASSUME NEW k \in Int, WriteBufferOk(buffer \o NextUnits(k)),
               phase' \in {"sketch", "write", "stream"}, sent' \in Int, left' \in Int
        PROVE  OldInv'
    <2>1. FlashInv' /\ OldSketchSurvives'
      BY <1>1, <1>2, <1>3, <1>4, WriteBufferKeeps
    <2>2. Locals' /\ SketchRuns' /\ UpdateBehind'
      BY <1>1, <1>2, <1>3, <1>4, WriteBufferOkInv DEF OldInv, Locals
    <2> QED
      BY <2>1, <2>2 DEF OldInv
  <1>5. \* it is not, and the update is over
        ASSUME NEW k \in Int, WriteBufferFails(buffer \o NextUnits(k)),
               phase' = "sketch", sent' \in Int, left' \in Int
        PROVE  OldInv'
    <2>1. FlashInv' /\ OldSketchSurvives'
      BY <1>1, <1>2, <1>3, <1>5, WriteBufferKeeps
    <2>2. Locals' /\ SketchRuns' /\ UpdateBehind'
      BY <1>1, <1>5, OverInv DEF OldInv, Locals, WriteBufferFails, SetError
    <2> QED
      BY <2>1, <2>2 DEF OldInv
  <1>6. \* the units only fill the buffer
        ASSUME NEW k \in Int, buffer' = buffer \o NextUnits(k),
               UNCHANGED <<flash, size, startAddress, currentAddress, bufferSize>>,
               phase' \in {"sketch", "stream"}, sent' \in Int, left' \in Int
        PROVE  OldInv'
    <2>1. Locals'
      BY <1>1, <1>3, <1>6 DEF OldInv, Locals
    <2>2. SketchRuns' /\ UpdateBehind'
      BY <1>1, <1>2, <1>6 DEF OldInv, SketchRuns, UpdateBehind
    <2>3. FlashInv' /\ OldSketchSurvives'
      BY <1>1, <1>6 DEF OldInv, FlashInv, OldSketchSurvives, Whole
    <2> QED
      BY <2>1, <2>2, <2>3 DEF OldInv
  <1>7. /\ sent \in Int /\ left \in Int /\ bufferSize - Len(buffer) \in Int
    BY LenProperties DEF OldInv, Locals
  <1>8. CASE WriteFull
    <2> DEFINE k == bufferSize - Len(buffer)
    <2>1. k \in Int /\ sent' \in Int
      BY <1>7, <1>8 DEF WriteFull
    <2>2. \/ WriteBufferOk(buffer \o NextUnits(k)) /\ left' = left - k /\ phase' = "write"
          \/ WriteBufferFails(buffer \o NextUnits(k)) /\ left' = 0 /\ phase' = "sketch"
      BY <1>8 DEF WriteFull
    <2> HIDE DEF k
    <2> QED
      BY <1>4, <1>5, <1>7, <2>1, <2>2
  <1>9. CASE WriteRest
    <2>1. phase' = "sketch" /\ left' \in Int /\ sent' \in Int
      BY <1>7, <1>9 DEF WriteRest
    <2>2. \/ WriteBufferOk(buffer \o NextUnits(left))
          \/ WriteBufferFails(buffer \o NextUnits(left))
          \/ /\ buffer' = buffer \o NextUnits(left)
             /\ UNCHANGED <<flash, size, startAddress, currentAddress, bufferSize>>
      BY <1>9 DEF WriteRest
    <2> QED
      BY <1>4, <1>5, <1>6, <1>7, <2>1, <2>2
  <1>10. CASE \E k \in 1..SectorSize : StreamRead(k)
    <2>1. PICK k \in 1..SectorSize : StreamRead(k)
      BY <1>10
    <2>2. k \in Int /\ left' \in Int /\ sent' \in Int /\ phase = "stream"
      BY <1>7, <2>1 DEF StreamRead
    <2>3. \/ WriteBufferOk(buffer \o NextUnits(k)) /\ phase' = phase
          \/ WriteBufferFails(buffer \o NextUnits(k)) /\ phase' = "sketch"
          \/ /\ buffer' = buffer \o NextUnits(k) /\ phase' = phase
             /\ UNCHANGED <<flash, size, startAddress, currentAddress, bufferSize>>
      BY <2>1 DEF StreamRead
    <2> QED
      BY <1>4, <1>5, <1>6, <2>2, <2>3
  <1> QED
    BY <1>8, <1>9, <1>10

LEMMA EndResets ==
    ASSUME NEW f, NEW a, NEW n, NEW cells, Stage(f, a, n, cells) \/ Rejected(cells)
    PROVE  ResetUpdater
  <1>1. CASE Rejected(cells)
    BY <1>1 DEF Rejected, SetError
  <1>2. CASE Stage(f, a, n, cells) /\ (\E i \in Images : f[a] = <<i, 0>>)
    BY <1>2 DEF Stage
  <1>3. CASE Stage(f, a, n, cells) /\ ~(\E i \in Images : f[a] = <<i, 0>>)
    BY <1>3 DEF Stage, SetError
  <1> QED
    BY <1>1, <1>2, <1>3

LEMMA EndInv ==
    ASSUME OldInv,
           (\E even \in BOOLEAN : EndPremature(even) \/ EndComplete(even)) \/ EndFlushes
    PROVE  OldInv'
  <1>1. /\ app \in Images /\ app' = app /\ phase' = "sketch"
        /\ upload' = None /\ sent' = 0 /\ left' = left
    BY DEF EndPremature, EndComplete, EndFlushes, EndRest, EndCall, InSketch
  <1>2. ResetUpdater
    <2>1. ASSUME NEW even \in BOOLEAN, EndPremature(even) PROVE ResetUpdater
      BY <2>1 DEF EndPremature
    <2>2. ASSUME NEW even \in BOOLEAN, EndComplete(even) PROVE ResetUpdater
      BY <2>2, EndResets DEF EndComplete
    <2>3. ASSUME EndFlushes PROVE ResetUpdater
      <3> DEFINE b == Touched(buffer)
      <3>1. PICK g : g = flash'
        OBVIOUS
      <3>2. \/ Rejected(b) \/ Stage(g, startAddress, progress + Len(buffer), b)
            \/ ResetUpdater
        BY <2>3, <3>1 DEF EndFlushes
      <3> HIDE DEF b
      <3> QED
        BY <3>2, EndResets
    <2> QED
      BY <2>1, <2>2, <2>3
  <1>3. Locals' /\ SketchRuns' /\ UpdateBehind'
    BY <1>1, <1>2, OverInv DEF OldInv, Locals
  <1>4. CASE EndFlushes
    <2>1. size > 0
      BY <1>4 DEF EndFlushes, Running
    <2>2. SameBelow(Written(buffer)) /\ SameBelow(Spoil(flash, Touched(buffer)))
      BY WrittenBelow DEF OldInv, Locals
    <2>3. SameBelow(flash')
      BY <1>4, <2>2 DEF EndFlushes
    <2> QED
      BY <1>1, <1>3, <2>1, <2>3, SketchKept DEF OldInv
  <1>5. CASE \E even \in BOOLEAN : EndPremature(even) \/ EndComplete(even)
    <2>1. flash' = flash
      BY <1>5 DEF EndPremature, EndComplete, mem
    <2> QED
      BY <1>1, <1>3, <2>1 DEF OldInv, FlashInv, OldSketchSurvives, Whole
  <1> QED
    BY <1>4, <1>5

\* The boot loader runs when no sketch does, nor an update.
LEMMA LoaderInv ==
    ASSUME OldInv, Loader \/ CopyFails
    PROVE  OldInv'
  <1>1. /\ phase \notin {"sketch", "write", "stream"}
        /\ UNCHANGED <<size, startAddress, currentAddress, buffer, bufferSize, upload, sent, left>>
    BY DEF Loader, BootStart, CopyErase, CopyWrite, CopyEnds, ClearCommand, LoadApp, CopyFails,
           updater, caller
  <1>2. app \notin Images /\ size = 0
    BY <1>1 DEF OldInv, SketchRuns, UpdateBehind, Locals
  <1>3. Locals'
    BY <1>1 DEF OldInv, Locals
  <1>4. DOMAIN flash' = DOMAIN flash
    BY DEF Loader, BootStart, CopyErase, CopyWrite, CopyEnds, ClearCommand, LoadApp, CopyFails,
           mem, Wipe, Program, Spoil
  <1>5. CASE LoadApp
    <2>1. phase' = "sketch" /\ flash' = flash
      BY <1>5 DEF LoadApp, mem
    <2>2. app' \in Images => Whole(0, app')
      <3>1. CASE \E i \in Images : Whole(0, i)
        BY <1>5, <3>1 DEF LoadApp
      <3>2. CASE ~(\E i \in Images : Whole(0, i))
        BY <1>5, <3>2, CellAssumption DEF LoadApp
      <3> QED
        BY <3>1, <3>2
    <2> QED
      BY <1>1, <1>2, <1>3, <1>4, <2>1, <2>2
      DEF OldInv, FlashInv, SketchRuns, UpdateBehind, OldSketchSurvives, Whole
  <1>6. CASE ~LoadApp
    <2>1. app' = app /\ phase' \notin {"write", "stream"}
      BY <1>6 DEF Loader, BootStart, CopyErase, CopyWrite, CopyEnds, ClearCommand, CopyFails
    <2> QED
      BY <1>1, <1>2, <1>3, <1>4, <2>1
      DEF OldInv, FlashInv, SketchRuns, UpdateBehind, OldSketchSurvives
  <1> QED
    BY <1>5, <1>6

LEMMA RestartInv ==
    ASSUME OldInv, Reset \/ PowerCut PROVE OldInv'
  <1>1. Restart
    BY DEF Reset, PowerCut
  <1>2. app' \notin Images
    BY <1>1, CellAssumption DEF Restart
  <1>3. Locals'
    BY <1>1, EmptySeq, SectorAssumption DEF Restart, Locals
  <1> QED
    BY <1>1, <1>2, <1>3
    DEF Restart, OldInv, FlashInv, SketchRuns, UpdateBehind, OldSketchSurvives

LEMMA OldStep == OldInv /\ [Next]_vars => OldInv'
  <1> SUFFICES ASSUME OldInv, [Next]_vars PROVE OldInv'
    OBVIOUS
  <1>1. ASSUME NEW i \in Images, NEW n \in Sizes \cup {FsStart},
               NEW b \in {PageSize, SectorSize}, Begin(i, n, b)
        PROVE  OldInv'
    BY <1>1, BeginInv
  <1>2. ASSUME NEW k \in 1..MaxChunk, WriteCall(k) \/ WriteSome(k) PROVE OldInv'
    BY <1>2, WriteCallInv
  <1>3. CASE WriteFull \/ WriteRest \/ (\E k \in 1..SectorSize : StreamRead(k))
    BY <1>3, WriteLoopInv
  <1>4. CASE WriteStream
    <2>1. /\ phase' = "stream" /\ app \in Images /\ size > 0
          /\ UNCHANGED <<flash, app, updater, caller>>
      BY <1>4 DEF WriteStream, InSketch, Running, mem
    <2> QED
      BY <2>1 DEF OldInv, Locals, SketchRuns, UpdateBehind, FlashInv, OldSketchSurvives, Whole,
                  updater, caller
  <1>5. CASE StreamEnds
    <2>1. /\ phase' = "sketch" /\ UNCHANGED <<flash, app, upload, sent, left>>
          /\ UNCHANGED updater \/ ResetUpdater
      BY <1>5 DEF StreamEnds, SetError, mem, caller
    <2>2. FlashInv' /\ OldSketchSurvives'
      BY <2>1 DEF OldInv, FlashInv, OldSketchSurvives, Whole
    <2>3. CASE ResetUpdater
      BY <2>1, <2>2, <2>3, OverInv DEF OldInv, Locals
    <2>4. CASE UNCHANGED updater
      BY <2>1, <2>2, <2>4 DEF OldInv, Locals, SketchRuns, UpdateBehind, updater
    <2> QED
      BY <2>1, <2>3, <2>4
  <1>6. CASE (\E even \in BOOLEAN : EndPremature(even) \/ EndComplete(even)) \/ EndFlushes
    BY <1>6, EndInv
  <1>7. CASE Loader \/ CopyFails
    BY <1>7, LoaderInv
  <1>8. CASE Reset \/ PowerCut
    BY <1>8, RestartInv
  <1>9. CASE UNCHANGED vars
    BY <1>9 DEF vars, mem, updater, caller, OldInv, Locals, SketchRuns, UpdateBehind, FlashInv,
                OldSketchSurvives, Whole
  <1> QED
    BY <1>1, <1>2, <1>3, <1>4, <1>5, <1>6, <1>7, <1>8, <1>9 DEF Next

\* No write of an update, finished or given up, and no failure of the flash in
\* one touches the sketch that writes it: the rounded room that begin() asks for
\* is what _writeBuffer, which erases whole sectors, needs (Updater.cpp:123-143,
\* 333-392).
THEOREM OldSketchAlwaysSurvives == Spec => []OldSketchSurvives
  <1>1. OldInv => OldSketchSurvives
    BY DEF OldInv
  <1> QED
    BY <1>1, OldInit, OldStep, PTL DEF Spec

-----------------------------------------------------------------------------
(* The second invariant: an update is written as it is given, what a       *)
(* command announces is staged, and what the boot loader has copied is it. *)

Multiple(a, m) == \E q \in 0..a : a = q * m

\* What has been taken of the image is in flash or, behind it, in the buffer,
\* which ends with a page; what is left of the sector is erased.
Uploading ==
    /\ upload \in Images
    /\ Multiple(startAddress, SectorSize) /\ startAddress + Rounded(size) = FsStart
    /\ sent = progress + Len(buffer) /\ Len(buffer) <= bufferSize
    /\ \A j \in 1..Len(buffer) : buffer[j] = <<upload, progress + j - 1>>
    /\ \A k \in 0..progress - 1 : startAddress + k < FsStart => flash[startAddress + k] = <<upload, k>>
    /\ remaining = 0 => buffer = <<>>
    /\ remaining # 0 =>
         /\ Multiple(currentAddress, bufferSize)
         /\ currentAddress % SectorSize # 0 =>
              \A a \in SectorOf(currentAddress) : a >= currentAddress /\ a < FsStart => flash[a] = Erased
    /\ phase = "stream" => size = SizeOf(upload) /\ sent <= size + StreamExtra
    /\ phase # "stream" => sent <= size
    /\ phase = "write" => left >= 1 /\ sent + left <= size

UploadInv ==
    /\ bufferSize \in {PageSize, SectorSize}
    /\ size > 0 => Uploading

Counters ==
    /\ done \in Nat /\ erased \in Nat
    /\ rtc = None \/ rtc \in [src : Nat, size : Nat]
    /\ phase \in {"copy", "copyWrite", "clear"} => rtc # None /\ cmd = rtc
    /\ phase = "load" => rtc = None
    /\ rtc = None => erased = 0
    /\ phase \in {"sketch", "write", "stream"} => erased = 0
    /\ rtc # None /\ rtc.size = 0 => erased = 0
    /\ phase = "copyWrite" => erased >= done + 1
    /\ torn \in {"no", "overlap", "failed", "cut"} \cup Staging

\* How far the copy for this command has erased what it copies from.
Ahead ==
    torn = "no" /\ rtc # None =>
      /\ phase = "boot" => erased = 0 \/ erased * SectorSize <= rtc.src
      /\ phase = "copy" => erased <= done \/ erased * SectorSize <= rtc.src
      /\ phase = "copyWrite" => erased <= done + 1 \/ erased * SectorSize <= rtc.src

\* The command announces image i, and what the copy has not erased of it is there.
StagedAs(i) ==
    /\ rtc.size = SizeOf(i) /\ rtc.src >= SectorSize /\ rtc.src + rtc.size <= FsStart
    /\ \A k \in 0..SizeOf(i) - 1 : rtc.src + k >= erased * SectorSize => flash[rtc.src + k] = <<i, k>>

\* What the boot loader has copied is i.
CopiedAs(i) ==
    /\ phase \in {"copy", "copyWrite"} =>
         \A k \in 0..SizeOf(i) - 1 : k < done * SectorSize => flash[k] = <<i, k>>
    /\ phase = "copyWrite" =>
         /\ \A a \in DestOf(done) : a < FsStart => flash[a] = Erased
         /\ Len(sector) = SectorSize
         /\ \A k \in 1..SectorSize : done * SectorSize + k - 1 < SizeOf(i)
                                       => sector[k] = <<i, done * SectorSize + k - 1>>
    /\ phase = "clear" /\ res => Whole(0, i)

Announced ==
    torn = "no" /\ rtc # None /\ rtc.size > 0 => \E i \in Images : StagedAs(i) /\ CopiedAs(i)

\* Until the copy erases it, the old image is there.
OldAtZero ==
    erased = 0 /\ (torn = "no" \/ (torn \in Staging /\ rtc # None)) => \E i \in Images : Whole(0, i)


-----------------------------------------------------------------------------
(* Multiples.                                                              *)

LEMMA ProductGrows ==
    ASSUME NEW a \in Nat, NEW b \in Nat, NEW m \in Nat, a <= b
    PROVE  a * m \in Nat /\ b * m \in Nat /\ a * m <= b * m
  <1>1. PICK c \in Nat : b = a + c
    <2>1. b - a \in Nat /\ b = a + (b - a)
      OBVIOUS
    <2> QED
      BY <2>1
  <1>2. b * m = a * m + c * m
    BY <1>1
  <1>3. a * m \in Nat /\ c * m \in Nat
    OBVIOUS
  <1> QED
    BY <1>2, <1>3

LEMMA NextMultiple ==
    ASSUME NEW a \in Nat, NEW b \in Nat, NEW m \in Nat, a * m < b * m
    PROVE  a * m + m <= b * m /\ a < b
  <1>1. a < b
    <2> SUFFICES ASSUME b <= a PROVE FALSE
      OBVIOUS
    <2>1. b * m <= a * m /\ a * m \in Nat /\ b * m \in Nat
      BY ProductGrows
    <2> QED
      BY <2>1
  <1>2. (a + 1) * m <= b * m
    BY <1>1, ProductGrows
  <1>3. (a + 1) * m = a * m + m
    OBVIOUS
  <1> QED
    BY <1>1, <1>2, <1>3

LEMMA DivMult ==
    ASSUME NEW a \in Nat, NEW m \in Nat \ {0}
    PROVE  /\ a \div m \in Nat /\ (a \div m) * m <= a /\ a < (a \div m) * m + m
           /\ (a \div m) * m \in Nat
  OBVIOUS

LEMMA ModZero ==
    ASSUME NEW m \in Nat \ {0}, NEW q \in Nat
    PROVE  (q * m) % m = 0 /\ (q * m) \div m = q /\ q * m \in Nat
  OBVIOUS

LEMMA MultipleIs ==
    ASSUME NEW a \in Nat, NEW m \in Nat \ {0}
    PROVE  Multiple(a, m) <=> \E q \in Nat : a = q * m
  <1>1. ASSUME NEW q \in Nat, a = q * m PROVE q \in 0..a
    <2>1. q * 1 <= q * m
      <3>1. 1 * q <= m * q
        BY ProductGrows
      <3> QED
        BY <3>1
    <2> QED
      BY <1>1, <2>1
  <1> QED
    BY <1>1 DEF Multiple

\* A multiple of the buffer's size and the page behind it lie in one sector.
LEMMA PageInSector ==
    ASSUME NEW a \in Nat, NEW bs \in {PageSize, SectorSize}, Multiple(a, bs)
    PROVE  /\ bs \in Nat \ {0} /\ Multiple(a + bs, bs)
           /\ a + bs <= (a \div SectorSize) * SectorSize + SectorSize
  <1> DEFINE e == a \div SectorSize
  <1>1. SectorSize \in Nat \ {0} /\ bs \in Nat \ {0}
    BY SectorAssumption
  <1>2. PICK m \in Nat : SectorSize = m * bs
    <2>1. CASE bs = SectorSize
      <3>1. SectorSize = 1 * bs
        BY <1>1, <2>1
      <3> QED
        BY <3>1
    <2>2. CASE bs = PageSize
      <3>1. SectorSize = (SectorSize \div PageSize) * PageSize /\ SectorSize \div PageSize \in Nat
        BY SectorAssumption
      <3> QED
        BY <2>2, <3>1
    <2> QED
      BY <2>1, <2>2
  <1>3. PICK q \in Nat : a = q * bs
    BY <1>1, MultipleIs
  <1>4. a < e * SectorSize + SectorSize /\ e \in Nat
    BY <1>1, DivMult
  <1> HIDE DEF e
  <1>5. e * SectorSize + SectorSize = ((e + 1) * m) * bs /\ (e + 1) * m \in Nat
    <2>1. e * (m * bs) + m * bs = ((e + 1) * m) * bs
      BY <1>1, <1>4
    <2> QED
      BY <1>2, <1>4, <2>1
  <1>6. q * bs + bs <= ((e + 1) * m) * bs
    BY <1>1, <1>3, <1>4, <1>5, NextMultiple
  <1>7. a + bs = (q + 1) * bs /\ a + bs \in Nat
    BY <1>1, <1>3
  <1>8. Multiple(a + bs, bs)
    <2>1. q + 1 \in Nat
      OBVIOUS
    <2> QED
      BY <1>1, <1>7, <2>1, MultipleIs
  <1> QED
    BY <1>1, <1>3, <1>5, <1>6, <1>8 DEF e

\* An address that is not the first of a sector is in that of the one before it.
LEMMA SameSector ==
    ASSUME NEW a \in Nat, NEW n \in Nat,
           a + n <= (a \div SectorSize) * SectorSize + SectorSize, (a + n) % SectorSize # 0
    PROVE  SectorOf(a + n) = SectorOf(a)
  <1> DEFINE e == a \div SectorSize
  <1>1. SectorSize \in Nat \ {0} /\ e \in Nat /\ e * SectorSize <= a /\ e * SectorSize \in Nat
    BY SectorAssumption, DivMult
  <1>2. a + n # (e + 1) * SectorSize
    <2>1. ((e + 1) * SectorSize) % SectorSize = 0
      BY <1>1, ModZero
    <2> HIDE DEF e
    <2> QED
      BY <2>1
  <1>3. (e + 1) * SectorSize = e * SectorSize + SectorSize
    BY <1>1
  <1> DEFINE c == a + n
             d == c \div SectorSize
  <1>4. c \in Nat /\ e * SectorSize <= c /\ c < (e + 1) * SectorSize
    BY <1>1, <1>2, <1>3
  <1>5. d \in Nat /\ d * SectorSize <= c /\ c < d * SectorSize + SectorSize
    BY <1>1, <1>4, DivMult
  <1> HIDE DEF e, c, d
  <1>6. d = e
    <2>1. d * SectorSize < (e + 1) * SectorSize
      BY <1>1, <1>4, <1>5
    <2>2. d < e + 1
      BY <1>1, <1>5, <2>1, NextMultiple
    <2>3. (d + 1) * SectorSize = d * SectorSize + SectorSize
      BY <1>1, <1>5
    <2>4. e * SectorSize < (d + 1) * SectorSize
      BY <1>1, <1>4, <1>5, <2>3
    <2>5. e < d + 1
      BY <1>1, <1>5, <2>4, NextMultiple
    <2> QED
      BY <1>1, <1>5, <2>2, <2>5
  <1> QED
    BY <1>6 DEF SectorOf, e, d, c

-----------------------------------------------------------------------------
(* A page is written.                                                      *)

\* The cells behind a, to the end of its sector, are erased in f.
ErasedBehind(f, a) ==
    a % SectorSize # 0 => \A c \in SectorOf(a) : c >= a /\ c < FsStart => f[c] = Erased

LEMMA Addresses ==
    ASSUME NEW a \in Nat, a < FsStart, FlashInv
    PROVE  a \in DOMAIN flash
  BY SectorAssumption DEF FlashInv

LEMMA PageWritten ==
    ASSUME FlashInv, currentAddress \in Nat, bufferSize \in {PageSize, SectorSize},
           Multiple(currentAddress, bufferSize), ErasedBehind(flash, currentAddress),
           NEW b, Len(b) \in 0..bufferSize
    PROVE  /\ \A a \in Units(currentAddress, Len(b)) :
                a < FsStart => Written(b)[a] = b[a - currentAddress + 1]
           /\ Len(b) = bufferSize =>
                /\ Multiple(currentAddress + Len(b), bufferSize)
                /\ ErasedBehind(Written(b), currentAddress + Len(b))
  <1> DEFINE A == currentAddress
             n == Len(b)
             B == (A \div SectorSize) * SectorSize
             f == IF A % SectorSize = 0 THEN Wipe(flash, SectorOf(A)) ELSE flash
  <1>1. /\ bufferSize \in Nat \ {0} /\ Multiple(A + bufferSize, bufferSize)
        /\ A + bufferSize <= B + SectorSize
    BY PageInSector
  <1>2. /\ SectorSize \in Nat \ {0} /\ FsStart \in Nat /\ B \in Nat /\ B <= A /\ A < B + SectorSize
        /\ n \in Nat /\ n <= bufferSize /\ A \in Nat
    BY <1>1, SectorAssumption, DivMult
  <1>3. SectorOf(A) = B..B + SectorSize - 1
    BY DEF SectorOf, Units
  <1> HIDE DEF B
  <1>4. DOMAIN f = DOMAIN flash
    BY DEF Wipe
  <1>5. ASSUME NEW c \in Nat, A <= c, c < B + SectorSize, c < FsStart
        PROVE  c \in DOMAIN flash /\ f[c] = Erased
    <2>1. c \in DOMAIN flash /\ c \in SectorOf(A)
      BY <1>2, <1>3, <1>5, Addresses
    <2>2. CASE A % SectorSize = 0
      BY <2>1, <2>2 DEF Wipe
    <2>3. CASE A % SectorSize # 0
      BY <1>5, <2>1, <2>3 DEF ErasedBehind
    <2> QED
      BY <2>1, <2>2, <2>3
  <1>6. Written(b) = [c \in DOMAIN f |-> IF c \in Units(A, n)
                                         THEN IF f[c] = Erased THEN b[c - A + 1] ELSE Garbage
                                         ELSE f[c]]
    BY DEF Written, Program
  <1> HIDE DEF f
  <1>7. ASSUME NEW c \in Units(A, n), c < FsStart
        PROVE  Written(b)[c] = b[c - A + 1]
    <2>1. c \in Nat /\ A <= c /\ c < A + n
      BY <1>2 DEF Units
    <2>2. c < B + SectorSize
      BY <1>1, <1>2, <2>1
    <2>3. c \in DOMAIN flash /\ f[c] = Erased
      BY <1>5, <1>7, <2>1, <2>2
    <2> QED
      BY <1>4, <1>6, <2>3
  <1>8. ASSUME n = bufferSize, (A + n) % SectorSize # 0,
               NEW c \in SectorOf(A + n), c >= A + n, c < FsStart
        PROVE  Written(b)[c] = Erased
    <2>1. A + n <= B + SectorSize
      BY <1>1, <1>8
    <2>2. SectorOf(A + n) = SectorOf(A)
      BY <1>2, <1>8, <2>1, SameSector DEF B
    <2>3. c \in Nat /\ A <= c /\ c < B + SectorSize
      BY <1>2, <1>3, <1>8, <2>2
    <2>4. c \in DOMAIN flash /\ f[c] = Erased /\ c \notin Units(A, n)
      BY <1>2, <1>5, <1>8, <2>3 DEF Units
    <2> QED
      BY <1>4, <1>6, <2>4
  <1>9. ASSUME n = bufferSize
        PROVE  Multiple(A + n, bufferSize) /\ ErasedBehind(Written(b), A + n)
    <2>1. Multiple(A + n, bufferSize)
      BY <1>1, <1>9
    <2>2. ErasedBehind(Written(b), A + n)
      BY <1>8, <1>9 DEF ErasedBehind
    <2> QED
      BY <2>1, <2>2
  <1> QED
    BY <1>7, <1>9

\* Of a buffer b: it holds the units of the image that come next.
Holds(b) == \A j \in 1..Len(b) : b[j] = <<upload, progress + j - 1>>

\* The buffer, with the units the caller passes.
LEMMA Buffered ==
    ASSUME OldInv, UploadInv, size > 0, NEW k \in Nat
    PROVE  /\ buffer \o NextUnits(k) \in Seq(Given)
           /\ Len(buffer \o NextUnits(k)) = Len(buffer) + k
           /\ Len(buffer) \in Nat
           /\ Holds(buffer \o NextUnits(k)) /\ Holds(buffer)
  <1> DEFINE u == NextUnits(k)
             p == progress
             b == buffer \o u
  <1>1. buffer \in Seq(Given) /\ upload \in Images \cup {None} /\ sent \in Int /\ p \in Nat
    BY DEF OldInv, Locals, progress
  <1>2. sent = p + Len(buffer) /\ Len(buffer) \in Nat
        /\ \A j \in 1..Len(buffer) : buffer[j] = <<upload, p + j - 1>>
    BY <1>1, LenProperties DEF UploadInv, Uploading
  <1>3. u \in Seq(Given)
    BY <1>1, NextUnitsType
  <1>4. Len(u) = k /\ \A j \in 1..k : u[j] = <<upload, sent + j - 1>>
    <2>1. DOMAIN u = 1..k
      BY DEF NextUnits
    <2>2. DOMAIN u = 1..Len(u) /\ Len(u) \in Nat
      BY <1>3, LenProperties
    <2>3. Len(u) = k
      <3> HIDE DEF u
      <3> QED
        BY <2>1, <2>2
    <2> QED
      BY <2>3 DEF NextUnits
  <1> HIDE DEF u, p
  <1>5. /\ b \in Seq(Given) /\ Len(b) = Len(buffer) + k
        /\ \A j \in 1..Len(buffer) + k : b[j] = IF j <= Len(buffer) THEN buffer[j] ELSE u[j - Len(buffer)]
    <2>1. /\ b \in Seq(Given) /\ Len(b) = Len(buffer) + Len(u)
          /\ \A j \in 1..Len(buffer) + Len(u) : b[j] = IF j <= Len(buffer) THEN buffer[j] ELSE u[j - Len(buffer)]
      BY <1>1, <1>3, ConcatProperties
    <2> HIDE DEF b
    <2> QED
      BY <1>4, <2>1
  <1> HIDE DEF b
  <1>6. ASSUME NEW j \in 1..Len(b) PROVE b[j] = <<upload, p + j - 1>>
    <2>1. CASE j <= Len(buffer)
      BY <1>2, <1>5, <2>1
    <2>2. CASE ~(j <= Len(buffer))
      <3> DEFINE i == j - Len(buffer)
      <3>1. i \in 1..k /\ b[j] = u[i]
        BY <1>2, <1>5, <2>2
      <3>2. b[j] = <<upload, sent + i - 1>>
        BY <1>4, <3>1
      <3>3. sent + i - 1 = p + j - 1
        BY <1>1, <1>2, <1>5
      <3> QED
        BY <3>2, <3>3
    <2> QED
      BY <2>1, <2>2
  <1> QED
    BY <1>2, <1>5, <1>6 DEF Holds, b, u, p

\* What _writeBuffer makes of a buffer that holds what comes next.
LEMMA PagePut ==
    ASSUME OldInv, UploadInv, size > 0, remaining # 0,
           NEW b, Len(b) \in 0..bufferSize, Holds(b)
    PROVE  /\ \A k \in 0..progress + Len(b) - 1 :
                startAddress + k < FsStart => Written(b)[startAddress + k] = <<upload, k>>
           /\ Len(b) = bufferSize =>
                /\ Multiple(currentAddress + Len(b), bufferSize)
                /\ ErasedBehind(Written(b), currentAddress + Len(b))
  <1> DEFINE A == currentAddress
             S == startAddress
             n == Len(b)
  <1>1. /\ S \in Nat /\ A \in Nat /\ A >= S /\ FlashInv
        /\ bufferSize \in {PageSize, SectorSize} /\ Multiple(A, bufferSize)
        /\ \A k \in 0..progress - 1 : S + k < FsStart => flash[S + k] = <<upload, k>>
    BY DEF OldInv, Locals, UploadInv, Uploading
  <1>2. ErasedBehind(flash, A)
    BY DEF UploadInv, Uploading, ErasedBehind
  <1>3. n \in Nat /\ progress = A - S /\ FsStart \in Nat
    BY <1>1, SectorAssumption DEF progress
  <1>4. /\ \A a \in Units(A, n) : a < FsStart => Written(b)[a] = b[a - A + 1]
        /\ n = bufferSize => Multiple(A + n, bufferSize) /\ ErasedBehind(Written(b), A + n)
    BY <1>1, <1>2, PageWritten
  <1>5. SameBelow(Written(b))
    BY <1>1, WrittenBelow
  <1> HIDE DEF n
  <1>6. ASSUME NEW k \in 0..progress + n - 1, S + k < FsStart
        PROVE  Written(b)[S + k] = <<upload, k>>
    <2>1. S + k \in Nat /\ S + k \in DOMAIN flash
      BY <1>1, <1>3, <1>6, Addresses
    <2>2. CASE k < progress
      <3>1. S + k < A /\ k \in 0..progress - 1
        BY <1>1, <1>3, <2>2
      <3> QED
        BY <1>1, <1>5, <1>6, <2>1, <3>1 DEF SameBelow
    <2>3. CASE ~(k < progress)
      <3> DEFINE j == S + k - A + 1
      <3>1. S + k \in Units(A, n) /\ j \in 1..n /\ j = (S + k) - A + 1
        BY <1>1, <1>3, <2>3 DEF Units
      <3>2. progress + j - 1 = k
        BY <1>1, <1>3
      <3>3. Written(b)[S + k] = b[j]
        BY <1>4, <1>6, <3>1
      <3> HIDE DEF j
      <3>4. b[j] = <<upload, progress + j - 1>>
        BY <3>1 DEF Holds, n
      <3> QED
        BY <3>2, <3>3, <3>4
    <2> QED
      BY <2>2, <2>3
  <1> QED
    BY <1>4, <1>6 DEF n

-----------------------------------------------------------------------------
(* Steps of the update.                                                    *)

LEMMA NothingUploads ==
    ASSUME UploadInv, ResetUpdater
    PROVE  UploadInv'
  <1>1. size' = 0 /\ bufferSize' = bufferSize
    BY DEF ResetUpdater
  <1> QED
    BY <1>1 DEF UploadInv

\* The part of Uploading that says how much there is to come.
Amounts ==
    /\ phase = "stream" => size = SizeOf(upload) /\ sent <= size + StreamExtra
    /\ phase # "stream" => sent <= size
    /\ phase = "write" => left >= 1 /\ sent + left <= size

LEMMA AmountsOf == ASSUME UploadInv, size > 0 PROVE Amounts
  BY DEF UploadInv, Uploading, Amounts

\* A step that writes nothing and takes nothing.
LEMMA UploadKept ==
    ASSUME UploadInv, UNCHANGED <<flash, updater, upload, sent>>, size > 0 => Amounts'
    PROVE  UploadInv'
  <1>1. UNCHANGED <<flash, size, startAddress, currentAddress, buffer, bufferSize, upload, sent>>
    BY DEF updater
  <1>2. progress' = progress /\ remaining' = remaining
    BY <1>1 DEF progress, remaining
  <1>3. ASSUME size > 0 PROVE Uploading'
    <2>1. Uploading /\ Amounts'
      BY <1>3 DEF UploadInv
    <2> QED
      BY <1>1, <1>2, <2>1 DEF Uploading, Amounts
  <1> QED
    BY <1>1, <1>3 DEF UploadInv

\* The units only fill the buffer.
LEMMA UploadFills ==
    ASSUME OldInv, UploadInv, size > 0, NEW k \in Nat,
           buffer' = buffer \o NextUnits(k), Len(buffer') <= bufferSize, Len(buffer') # remaining,
           UNCHANGED <<flash, size, startAddress, currentAddress, bufferSize, upload>>,
           sent' = sent + k, remaining # 0, Amounts'
    PROVE  UploadInv'
  <1>1. /\ Len(buffer') = Len(buffer) + k /\ Len(buffer) \in Nat
        /\ \A j \in 1..Len(buffer') : buffer'[j] = <<upload, progress + j - 1>>
    BY Buffered DEF Holds
  <1>2. progress' = progress /\ remaining' = remaining /\ progress \in Nat
    BY DEF progress, remaining, OldInv, Locals
  <1>3. Uploading
    BY DEF UploadInv
  <1>4. sent' = progress' + Len(buffer')
    BY <1>1, <1>2, <1>3 DEF Uploading
  <1>5. Uploading'
    BY <1>1, <1>2, <1>3, <1>4 DEF Uploading, Amounts
  <1> QED
    BY <1>5 DEF UploadInv

\* The buffer is written, and the update goes on.
LEMMA UploadWrites ==
    ASSUME OldInv, UploadInv, size > 0, remaining # 0, NEW k \in Nat,
           Len(buffer \o NextUnits(k)) <= bufferSize,
           \/ Len(buffer \o NextUnits(k)) = bufferSize
           \/ Len(buffer \o NextUnits(k)) = remaining,
           WriteBufferOk(buffer \o NextUnits(k)), upload' = upload, sent' = sent + k, Amounts'
    PROVE  UploadInv'
  <1> DEFINE b == buffer \o NextUnits(k)
             n == Len(b)
  <1>1. n = Len(buffer) + k /\ Len(buffer) \in Nat /\ Holds(b)
    BY Buffered
  <1>2. /\ currentAddress \in Nat /\ startAddress \in Nat /\ size \in Nat
        /\ progress \in Nat /\ remaining \in Int /\ bufferSize \in Nat
        /\ progress = currentAddress - startAddress /\ remaining = size - progress
    BY DEF OldInv, Locals, progress, remaining
  <1>3. Uploading
    BY DEF UploadInv
  <1> HIDE DEF b
  <1>4. n \in 0..bufferSize /\ (n = bufferSize \/ n = remaining)
    BY <1>1, <1>2 DEF b
  <1>5. /\ flash' = Written(b) /\ currentAddress' = currentAddress + n /\ buffer' = <<>>
        /\ UNCHANGED <<size, startAddress, bufferSize>>
    BY DEF WriteBufferOk, b
  <1>6. /\ \A j \in 0..progress + n - 1 :
             startAddress + j < FsStart => Written(b)[startAddress + j] = <<upload, j>>
        /\ n = bufferSize =>
             /\ Multiple(currentAddress + n, bufferSize)
             /\ ErasedBehind(Written(b), currentAddress + n)
    BY <1>1, <1>4, PagePut
  <1> HIDE DEF n
  <1>7. progress' = progress + n /\ remaining' = remaining - n
    BY <1>1, <1>2, <1>4, <1>5 DEF progress, remaining
  <1>8. sent' = progress' + Len(buffer') /\ Len(buffer') = 0
    <2>1. sent = progress + Len(buffer) /\ Len(buffer') = 0
      BY <1>3, <1>5 DEF Uploading
    <2> QED
      BY <1>1, <1>2, <1>7, <2>1 DEF n
  <1>9. remaining' # 0 => Multiple(currentAddress', bufferSize') /\ ErasedBehind(flash', currentAddress')
    <2> SUFFICES ASSUME remaining' # 0
                 PROVE  Multiple(currentAddress', bufferSize') /\ ErasedBehind(flash', currentAddress')
      OBVIOUS
    <2>1. n = bufferSize
      BY <1>2, <1>4, <1>7
    <2> QED
      BY <1>5, <1>6, <2>1
  <1>10. /\ upload' \in Images /\ Multiple(startAddress', SectorSize)
         /\ startAddress' + Rounded(size') = FsStart
    BY <1>3, <1>5 DEF Uploading
  <1>11. \A j \in 0..progress' - 1 :
             startAddress' + j < FsStart => flash'[startAddress' + j] = <<upload', j>>
    <2>1. 0..progress' - 1 = 0..progress + n - 1
      BY <1>2, <1>4, <1>7
    <2>2. startAddress' = startAddress /\ flash' = Written(b) /\ upload' = upload
      BY <1>5
    <2> QED
      BY <1>6, <2>1, <2>2
  <1>12. Len(buffer') <= bufferSize' /\ buffer' = <<>> /\ \A j \in 1..Len(buffer') : FALSE
    BY <1>2, <1>5, <1>8
  <1>13. Uploading'
    BY <1>8, <1>9, <1>10, <1>11, <1>12 DEF Uploading, Amounts, ErasedBehind
  <1> QED
    BY <1>5, <1>13 DEF UploadInv

LEMMA MinAtMost ==
    ASSUME NEW a \in Int, NEW b \in Int
    PROVE  Min({a, b}) \in Int /\ Min({a, b}) <= a /\ Min({a, b}) <= b
  <1>1. \E x \in {a, b} : \A y \in {a, b} : x <= y
    <2>1. CASE a <= b
      BY <2>1
    <2>2. CASE b < a
      BY <2>2
    <2> QED
      BY <2>1, <2>2
  <1>2. Min({a, b}) \in {a, b} /\ \A y \in {a, b} : Min({a, b}) <= y
    BY <1>1 DEF Min
  <1> QED
    BY <1>2

LEMMA Rounding ==
    ASSUME NEW n \in Nat
    PROVE  \E q \in Nat : Rounded(n) = q * SectorSize
  <1>1. (n + SectorSize - 1) \div SectorSize \in Nat
    BY SectorAssumption
  <1> QED
    BY <1>1 DEF Rounded

\* Where begin() lets an update start.
LEMMA StartsWhole ==
    ASSUME NEW n \in Nat, NEW m \in Nat \ {0}, StartFor(n) >= Rounded(m)
    PROVE  /\ StartFor(n) \in Nat /\ StartFor(n) + Rounded(n) = FsStart
           /\ StartFor(n) >= SectorSize
           /\ Multiple(StartFor(n), SectorSize) /\ StartFor(n) % SectorSize = 0
           /\ \A b \in {PageSize, SectorSize} : Multiple(StartFor(n), b)
  <1> DEFINE r == Rounded(n)
  <1>1. SectorSize \in Nat \ {0} /\ PageSize \in Nat \ {0} /\ FsStart \in Nat
    BY SectorAssumption
  <1>2. r \in Nat /\ Rounded(m) \in Nat /\ Rounded(m) >= 1
    BY RoundedUp
  <1>3. FsStart > r /\ StartFor(n) = FsStart - r
    BY <1>1, <1>2 DEF StartFor
  <1>4. PICK p \in Nat : FsStart = p * SectorSize
    <2>1. FsStart = (FsStart \div SectorSize) * SectorSize /\ FsStart \div SectorSize \in Nat
      BY SectorAssumption
    <2> QED
      BY <2>1
  <1>5. PICK q \in Nat : r = q * SectorSize
    BY Rounding
  <1> HIDE DEF r
  <1>6. q < p
    <2>1. q * SectorSize < p * SectorSize
      BY <1>3, <1>4, <1>5
    <2> QED
      BY <1>1, <2>1, NextMultiple
  <1>7. PICK d \in Nat : d = p - q
    BY <1>6
  <1>8. StartFor(n) = d * SectorSize
    <2>1. p = q + d
      BY <1>7
    <2>2. p * SectorSize = q * SectorSize + d * SectorSize
      BY <1>1, <2>1
    <2>3. d * SectorSize \in Nat /\ q * SectorSize \in Nat
      BY <1>1
    <2> QED
      BY <1>3, <1>4, <1>5, <2>2, <2>3
  <1>9. StartFor(n) % SectorSize = 0 /\ StartFor(n) \in Nat
    BY <1>1, <1>8, ModZero
  <1>10. PICK k \in Nat : Rounded(m) = k * SectorSize
    BY Rounding
  <1>11. SectorSize <= StartFor(n)
    <2>1. 0 * SectorSize < k * SectorSize /\ 0 * SectorSize = 0
      BY <1>1, <1>2, <1>10
    <2>2. 0 * SectorSize + SectorSize <= k * SectorSize
      BY <1>1, <2>1, NextMultiple
    <2> QED
      BY <1>1, <1>2, <1>9, <1>10, <2>1, <2>2
  <1>12. Multiple(StartFor(n), SectorSize)
    BY <1>1, <1>8, <1>9, MultipleIs
  <1>13. Multiple(StartFor(n), PageSize)
    <2>1. PICK e \in Nat : SectorSize = e * PageSize
      <3>1. SectorSize = (SectorSize \div PageSize) * PageSize /\ SectorSize \div PageSize \in Nat
        BY SectorAssumption
      <3> QED
        BY <3>1
    <2>2. d * (e * PageSize) = (d * e) * PageSize /\ d * e \in Nat
      BY <1>1
    <2>3. StartFor(n) = (d * e) * PageSize
      BY <1>8, <2>1, <2>2
    <2> QED
      BY <1>1, <1>9, <2>2, <2>3, MultipleIs
  <1>14. StartFor(n) + r = FsStart
    BY <1>1, <1>2, <1>3
  <1> QED
    BY <1>9, <1>11, <1>12, <1>13, <1>14 DEF r

LEMMA BeginUpload ==
    ASSUME OldInv, UploadInv, NEW i \in Images, NEW n \in Sizes \cup {FsStart},
           NEW b \in {PageSize, SectorSize}, Begin(i, n, b)
    PROVE  UploadInv'
  <1>1. CASE ~Fits(n)
    <2>1. ResetUpdater
      BY <1>1 DEF Begin, SetError
    <2> QED
      BY <2>1, NothingUploads
  <1>2. CASE Fits(n)
    <2>1. /\ size' = n /\ buffer' = <<>> /\ bufferSize' = b
          /\ startAddress' = StartFor(n) /\ currentAddress' = StartFor(n)
          /\ upload' = i /\ sent' = 0 /\ phase' = "sketch" /\ flash' = flash /\ app \in Images
      BY <1>2 DEF Begin, InSketch, mem
    <2>2. n \in Nat /\ SizeOf(app) \in Nat \ {0}
      <3>1. n \in Nat /\ FsStart \in Nat
        BY SizesAssumption, SectorAssumption
      <3>2. SizeOf(app) \in 1..FsStart
        BY <2>1, SizesAssumption DEF Images, SizeOf
      <3> QED
        BY <3>1, <3>2
    <2>3. /\ StartFor(n) \in Nat /\ StartFor(n) + Rounded(n) = FsStart
          /\ Multiple(StartFor(n), SectorSize) /\ StartFor(n) % SectorSize = 0
          /\ Multiple(StartFor(n), b)
      BY <1>2, <2>2, StartsWhole DEF Fits
    <2>4. b \in Nat /\ b > 0
      BY SectorAssumption
    <2>5. progress' = 0 /\ Len(buffer') = 0
      BY <2>1, <2>3 DEF progress
    <2>6. remaining' = n
      BY <2>1, <2>2, <2>5 DEF remaining
    <2>7. (\A j \in 1..Len(buffer') : FALSE) /\ (\A k \in 0..progress' - 1 : FALSE)
      BY <2>5
    <2>8. sent' = progress' + Len(buffer') /\ Len(buffer') <= bufferSize' /\ sent' <= size'
      BY <2>1, <2>2, <2>4, <2>5
    <2>9. currentAddress' % SectorSize = 0 /\ Multiple(currentAddress', bufferSize')
      BY <2>1, <2>3
    <2>10. Uploading'
      BY <2>1, <2>3, <2>7, <2>8, <2>9 DEF Uploading
    <2> QED
      BY <2>1, <2>10 DEF UploadInv
  <1> QED
    BY <1>1, <1>2

\* What is known of a running update.
LEMMA Progress ==
    ASSUME OldInv, UploadInv
    PROVE  /\ size \in Nat /\ progress \in Nat /\ Len(buffer) \in Nat /\ left \in Int /\ sent \in Int
           /\ remaining \in Int /\ remaining = size - progress
           /\ bufferSize \in Nat /\ bufferSize >= 1
           /\ size > 0 => /\ Len(buffer) <= bufferSize /\ sent = progress + Len(buffer)
                          /\ remaining = 0 => Len(buffer) = 0
                          /\ Amounts /\ upload \in Images
  <1>1. /\ size \in Nat /\ progress \in Nat /\ Len(buffer) \in Nat /\ left \in Int /\ sent \in Int
        /\ remaining = size - progress /\ remaining \in Int
    BY LenProperties DEF OldInv, Locals, progress, remaining
  <1>2. bufferSize \in Nat /\ bufferSize >= 1
    BY SectorAssumption DEF UploadInv
  <1>3. ASSUME size > 0
        PROVE  /\ Len(buffer) <= bufferSize /\ sent = progress + Len(buffer)
               /\ remaining = 0 => Len(buffer) = 0
               /\ Amounts /\ upload \in Images
    BY <1>3, AmountsOf DEF UploadInv, Uploading
  <1> QED
    BY <1>1, <1>2, <1>3

LEMMA WriteCallUpload ==
    ASSUME OldInv, UploadInv, NEW k \in 1..MaxChunk, WriteCall(k) \/ WriteSome(k)
    PROVE  UploadInv'
  <1>0. /\ size > 0 /\ size \in Nat /\ progress \in Nat /\ Len(buffer) \in Nat
        /\ remaining = size - progress /\ sent = progress + Len(buffer) /\ k \in Nat /\ k >= 1
    BY Progress, BoundAssumption DEF WriteCall, WriteSome, Running
  <1>1. CASE WriteCall(k) /\ progress + Len(buffer) + k > size
    <2>1. ResetUpdater
      BY <1>1 DEF WriteCall, SetError
    <2> QED
      BY <2>1, NothingUploads
  <1>2. CASE WriteCall(k) /\ ~(progress + Len(buffer) + k > size)
    <2>1. /\ phase' = "write" /\ left' = k /\ UNCHANGED <<updater, flash, upload, sent>>
          /\ size' = size
      BY <1>2 DEF WriteCall, mem, updater
    <2>2. Amounts'
      BY <1>0, <1>2, <2>1 DEF Amounts
    <2> QED
      BY <2>1, <2>2, UploadKept
  <1>3. CASE WriteSome(k)
    <2>1. /\ phase' = "write" /\ left' = Min({k, remaining - Len(buffer)}) /\ left' > 0
          /\ UNCHANGED <<updater, flash, upload, sent>> /\ size' = size
      BY <1>3 DEF WriteSome, mem, updater
    <2>2. left' \in Int /\ left' <= remaining - Len(buffer)
      <3> DEFINE c == remaining - Len(buffer)
      <3>1. k \in Int /\ c \in Int
        BY <1>0
      <3> HIDE DEF c
      <3> QED
        BY <2>1, <3>1, MinAtMost DEF c
    <2>3. Amounts'
      BY <1>0, <2>1, <2>2 DEF Amounts
    <2> QED
      BY <2>1, <2>3, UploadKept
  <1> QED
    BY <1>1, <1>2, <1>3

LEMMA WriteFullUpload ==
    ASSUME OldInv, UploadInv, WriteFull
    PROVE  UploadInv'
  <1> DEFINE k == bufferSize - Len(buffer)
  <1>1. /\ phase = "write" /\ Len(buffer) + left > bufferSize /\ sent' = sent + k /\ upload' = upload
        /\ \/ WriteBufferOk(buffer \o NextUnits(k)) /\ left' = left - k /\ phase' = "write"
           \/ WriteBufferFails(buffer \o NextUnits(k))
    BY DEF WriteFull
  <1>2. size > 0
    BY <1>1 DEF OldInv, UpdateBehind
  <1>3. /\ size \in Nat /\ progress \in Nat /\ Len(buffer) \in Nat /\ left \in Int /\ sent \in Int
        /\ remaining = size - progress /\ bufferSize \in Nat
        /\ Len(buffer) <= bufferSize /\ sent = progress + Len(buffer) /\ sent + left <= size
    BY <1>1, <1>2, Progress DEF Amounts
  <1>4. k \in Nat /\ remaining # 0
    BY <1>1, <1>3
  <1>5. Len(buffer \o NextUnits(k)) = Len(buffer) + k /\ Len(buffer) + k = bufferSize
    BY <1>2, <1>3, <1>4, Buffered
  <1> HIDE DEF k
  <1>6. CASE WriteBufferFails(buffer \o NextUnits(k))
    BY <1>6, NothingUploads DEF WriteBufferFails, SetError
  <1>7. CASE WriteBufferOk(buffer \o NextUnits(k)) /\ left' = left - k /\ phase' = "write"
    <2>1. size' = size
      BY <1>7 DEF WriteBufferOk
    <2>2. Amounts'
      BY <1>1, <1>3, <1>4, <1>5, <1>7, <2>1 DEF Amounts
    <2>3. Len(buffer \o NextUnits(k)) = bufferSize /\ Len(buffer \o NextUnits(k)) <= bufferSize
      BY <1>3, <1>5
    <2> QED
      BY <1>1, <1>2, <1>4, <1>7, <2>2, <2>3, UploadWrites
  <1> QED
    BY <1>1, <1>6, <1>7

LEMMA WriteRestUpload ==
    ASSUME OldInv, UploadInv, WriteRest
    PROVE  UploadInv'
  <1> DEFINE b == buffer \o NextUnits(left)
  <1>1. /\ phase = "write" /\ Len(b) <= bufferSize /\ phase' = "sketch" /\ sent' = sent + left
        /\ upload' = upload
        /\ IF Len(b) = remaining
           THEN WriteBufferOk(b) \/ WriteBufferFails(b)
           ELSE /\ buffer' = b
                /\ UNCHANGED <<flash, size, startAddress, currentAddress, bufferSize>>
    BY DEF WriteRest
  <1>2. size > 0
    BY <1>1 DEF OldInv, UpdateBehind
  <1>3. /\ size \in Nat /\ progress \in Nat /\ Len(buffer) \in Nat /\ left \in Int /\ sent \in Int
        /\ remaining = size - progress /\ sent = progress + Len(buffer) /\ left >= 1
        /\ sent + left <= size
    BY <1>1, <1>2, Progress DEF Amounts
  <1>4. left \in Nat /\ remaining # 0 /\ sent' <= size
    BY <1>1, <1>3
  <1> HIDE DEF b
  <1>5. CASE WriteBufferFails(b)
    BY <1>5, NothingUploads DEF WriteBufferFails, SetError
  <1>6. CASE WriteBufferOk(b) /\ Len(b) = remaining
    <2>1. size' = size
      BY <1>6 DEF WriteBufferOk
    <2>2. Amounts'
      BY <1>1, <1>4, <2>1 DEF Amounts
    <2> QED
      BY <1>1, <1>2, <1>4, <1>6, <2>2, UploadWrites DEF b
  <1>7. CASE /\ Len(b) # remaining /\ buffer' = b
             /\ UNCHANGED <<flash, size, startAddress, currentAddress, bufferSize>>
    <2>1. Amounts'
      BY <1>1, <1>4, <1>7 DEF Amounts
    <2>2. buffer' = buffer \o NextUnits(left) /\ Len(buffer') <= bufferSize /\ Len(buffer') # remaining
      BY <1>1, <1>7 DEF b
    <2> QED
      BY <1>1, <1>2, <1>4, <1>7, <2>1, <2>2, UploadFills
  <1> QED
    BY <1>1, <1>5, <1>6, <1>7

LEMMA StreamReadUpload ==
    ASSUME OldInv, UploadInv, NEW k \in 1..SectorSize, StreamRead(k)
    PROVE  UploadInv'
  <1> DEFINE b == buffer \o NextUnits(k)
  <1>1. /\ phase = "stream" /\ remaining # 0 /\ k <= BytesToRead
        /\ sent + k <= SizeOf(upload) + StreamExtra /\ sent' = sent + k /\ upload' = upload
        /\ IF Len(b) = remaining \/ Len(b) = bufferSize
           THEN \/ WriteBufferOk(b) /\ phase' = phase
                \/ WriteBufferFails(b)
           ELSE /\ buffer' = b /\ phase' = phase
                /\ UNCHANGED <<flash, size, startAddress, currentAddress, bufferSize>>
    BY DEF StreamRead
  <1>2. size > 0 /\ k \in Nat
    BY <1>1, SectorAssumption DEF OldInv, UpdateBehind
  <1>3. /\ size \in Nat /\ progress \in Nat /\ Len(buffer) \in Nat /\ sent \in Int
        /\ remaining \in Int /\ bufferSize \in Nat /\ Len(buffer) <= bufferSize
        /\ size = SizeOf(upload)
    BY <1>1, <1>2, Progress DEF Amounts
  <1>4. Len(b) <= bufferSize
    <2>1. BytesToRead <= bufferSize - Len(buffer) /\ BytesToRead \in Int
      <3> DEFINE c == bufferSize - Len(buffer)
      <3>1. c \in Int
        BY <1>3
      <3> HIDE DEF c
      <3>2. CASE remaining > 0
        <4>1. BytesToRead = Min({c, remaining})
          BY <3>2 DEF BytesToRead, c
        <4>2. Min({c, remaining}) \in Int /\ Min({c, remaining}) <= c
          BY <1>3, <3>1, MinAtMost
        <4> QED
          BY <4>1, <4>2 DEF c
      <3>3. CASE ~(remaining > 0)
        BY <3>1, <3>3 DEF BytesToRead, c
      <3> QED
        BY <3>2, <3>3
    <2>2. Len(b) = Len(buffer) + k
      BY <1>2, Buffered
    <2> HIDE DEF b
    <2> QED
      BY <1>1, <1>2, <1>3, <2>1, <2>2
  <1>5. ASSUME phase' = phase, size' = size PROVE Amounts'
    BY <1>1, <1>3, <1>5 DEF Amounts
  <1> HIDE DEF b
  <1>6. CASE WriteBufferFails(b)
    BY <1>6, NothingUploads DEF WriteBufferFails, SetError
  <1>7. CASE (Len(b) = remaining \/ Len(b) = bufferSize) /\ WriteBufferOk(b) /\ phase' = phase
    <2>1. size' = size
      BY <1>7 DEF WriteBufferOk
    <2> QED
      BY <1>1, <1>2, <1>4, <1>5, <1>7, <2>1, UploadWrites DEF b
  <1>8. CASE /\ ~(Len(b) = remaining \/ Len(b) = bufferSize) /\ buffer' = b /\ phase' = phase
             /\ UNCHANGED <<flash, size, startAddress, currentAddress, bufferSize>>
    <2>1. Amounts'
      BY <1>5, <1>8
    <2>2. buffer' = buffer \o NextUnits(k) /\ Len(buffer') <= bufferSize /\ Len(buffer') # remaining
      BY <1>4, <1>8 DEF b
    <2> QED
      BY <1>1, <1>2, <1>8, <2>1, <2>2, UploadFills
  <1> QED
    BY <1>1, <1>6, <1>7, <1>8

LEMMA StreamBoundsUpload ==
    ASSUME OldInv, UploadInv, WriteStream \/ StreamEnds
    PROVE  UploadInv'
  <1>1. CASE WriteStream
    <2>1. /\ phase' = "stream" /\ sent = 0 /\ size = SizeOf(upload)
          /\ UNCHANGED <<flash, updater, upload, sent>> /\ size' = size
      BY <1>1 DEF WriteStream, mem, caller, updater
    <2>2. size \in Nat /\ StreamExtra \in Nat
      BY Progress, BoundAssumption
    <2>3. Amounts'
      BY <2>1, <2>2 DEF Amounts
    <2> QED
      BY <2>1, <2>3, UploadKept
  <1>2. CASE StreamEnds
    <2>1. phase' = "sketch" /\ UNCHANGED <<flash, upload, sent>> /\ phase = "stream"
      BY <1>2 DEF StreamEnds, mem, caller
    <2>2. CASE remaining = 0 /\ UNCHANGED updater
      <3>1. size > 0 /\ size' = size
        BY <2>1, <2>2 DEF OldInv, UpdateBehind, updater
      <3>2. /\ size \in Nat /\ progress \in Nat /\ remaining = size - progress
            /\ sent = progress + Len(buffer) /\ Len(buffer) = 0
        BY <2>2, <3>1, Progress
      <3>3. Amounts'
        BY <2>1, <2>2, <3>1, <3>2 DEF Amounts
      <3> QED
        BY <2>1, <2>2, <3>3, UploadKept
    <2>3. CASE remaining # 0 /\ SetError("stream")
      BY <2>3, NothingUploads DEF SetError
    <2> QED
      BY <1>2, <2>2, <2>3 DEF StreamEnds
  <1> QED
    BY <1>1, <1>2

-----------------------------------------------------------------------------
(* What the boot loader finds: steps of the sketch.                        *)

BootInv == Counters /\ Ahead /\ Announced /\ OldAtZero /\ BootsWhole

InRam == {"sketch", "write", "stream"}

\* The sketch erases and programs some cells, maybe of what is announced.
LEMMA SketchTouches ==
    ASSUME OldInv', BootInv, phase \in InRam, phase' \in InRam, app \in Images, app' = app,
           NEW cells, DOMAIN flash = 0..FsStart + SectorSize - 1,
           \A a \in DOMAIN flash : a \notin cells => flash'[a] = flash[a],
           Restages(cells), UNCHANGED <<rtc, erased, loader>>
    PROVE  BootInv'
  <1>1. Counters /\ erased = 0 /\ done \in Nat /\ rtc' = rtc /\ erased' = 0 /\ done' = done
    BY DEF BootInv, Counters, InRam, loader
  <1>2. torn' \in {torn, "restaged"}
    BY DEF Restages
  <1>3. Counters' /\ Ahead'
    BY <1>1, <1>2 DEF Counters, Ahead, InRam, Staging
  <1>4. Announced'
    <2> SUFFICES ASSUME torn' = "no", rtc # None, rtc.size > 0
                 PROVE  \E i \in Images : StagedAs(i)' /\ CopiedAs(i)'
      BY <1>1 DEF Announced
    <2>1. torn = "no" /\ cells \cap Units(rtc.src, Rounded(rtc.size)) = {}
      BY DEF Restages
    <2>2. PICK i \in Images : StagedAs(i)
      BY <2>1 DEF BootInv, Announced
    <2>3. /\ rtc.size = SizeOf(i) /\ rtc.src >= SectorSize /\ rtc.src + rtc.size <= FsStart
          /\ \A k \in 0..SizeOf(i) - 1 : rtc.src + k >= erased * SectorSize => flash[rtc.src + k] = <<i, k>>
      BY <2>2 DEF StagedAs
    <2>4. /\ SizeOf(i) \in Nat /\ rtc.src \in Nat /\ FsStart \in Nat /\ SectorSize \in Nat \ {0}
          /\ Rounded(SizeOf(i)) \in Nat /\ Rounded(SizeOf(i)) >= SizeOf(i)
      <3>1. SizeOf(i) \in Nat /\ rtc.src \in Nat
        BY <1>1, <2>3 DEF Counters
      <3> QED
        BY <3>1, SectorAssumption, RoundedUp
    <2> DEFINE r == Rounded(SizeOf(i))
               s == rtc.src
               n == SizeOf(i)
    <2>5. cells \cap Units(s, r) = {}
      BY <2>1, <2>3
    <2>6. \A k \in 0..n - 1 : s + k >= erased * SectorSize => flash[s + k] = <<i, k>>
      BY <2>3
    <2>7. s + n <= FsStart /\ s \in Nat /\ n \in Nat /\ r \in Nat /\ r >= n
      BY <2>3, <2>4
    <2> HIDE DEF r, s, n
    <2>8. ASSUME NEW k \in 0..n - 1 PROVE flash'[s + k] = <<i, k>>
      <3>1. s + k \in Units(s, r) /\ s + k \in DOMAIN flash /\ s + k \in Nat
        BY <2>4, <2>7 DEF Units
      <3>2. flash'[s + k] = flash[s + k]
        BY <2>5, <3>1
      <3>3. s + k >= erased * SectorSize
        BY <1>1, <2>4, <3>1
      <3> QED
        BY <2>6, <3>2, <3>3
    <2>9. StagedAs(i)'
      BY <1>1, <2>3, <2>8 DEF StagedAs, s, n
    <2>10. CopiedAs(i)'
      BY DEF CopiedAs, InRam
    <2> QED
      BY <2>9, <2>10
  <1>5. OldAtZero'
    BY DEF OldInv, OldSketchSurvives, OldAtZero
  <1>6. BootsWhole'
    BY CellAssumption DEF BootsWhole
  <1> QED
    BY <1>3, <1>4, <1>5, <1>6 DEF BootInv

\* The same, of a step that leaves the flash alone.
LEMMA SketchLeaves ==
    ASSUME OldInv, OldInv', BootInv, phase \in InRam, phase' \in InRam, app \in Images, app' = app,
           UNCHANGED <<flash, rtc, torn, erased, loader>>
    PROVE  BootInv'
  <1>1. Restages({})
    BY DEF Restages
  <1>2. DOMAIN flash = 0..FsStart + SectorSize - 1
    BY DEF OldInv, FlashInv
  <1> QED
    BY <1>1, <1>2, SketchTouches

\* The sketch announces an image.
LEMMA SketchAnnounces ==
    ASSUME OldInv', BootInv, phase \in InRam, phase' \in InRam, app \in Images, app' = app,
           rtc' \in [src : Nat, size : Nat], UNCHANGED <<erased, loader>>,
           torn' \in {"no", "overlap", "failed", "cut"} \cup Staging,
           rtc'.size > 0 /\ torn' = "no" => \E i \in Images : StagedAs(i)'
    PROVE  BootInv'
  <1>1. rtc' # None /\ erased = 0 /\ erased' = 0 /\ done' = done /\ done \in Nat
    BY CellAssumption DEF BootInv, Counters, InRam, loader
  <1>2. Counters' /\ Ahead'
    BY <1>1 DEF Counters, Ahead, InRam
  <1>3. Announced'
    <2>1. \A i \in Images : CopiedAs(i)'
      BY DEF CopiedAs, InRam
    <2> QED
      BY <2>1 DEF Announced
  <1>4. OldAtZero'
    BY DEF OldInv, OldSketchSurvives, OldAtZero
  <1>5. BootsWhole'
    BY CellAssumption DEF BootsWhole
  <1> QED
    BY <1>2, <1>3, <1>4, <1>5 DEF BootInv

LEMMA TouchedOnly ==
    ASSUME FlashInv, NEW b, NEW a \in DOMAIN flash, a \notin Touched(b)
    PROVE  Written(b)[a] = flash[a] /\ Spoil(flash, Touched(b))[a] = flash[a]
  <1> DEFINE f == IF currentAddress % SectorSize = 0
                  THEN Wipe(flash, SectorOf(currentAddress)) ELSE flash
  <1>1. DOMAIN f = DOMAIN flash /\ f[a] = flash[a] /\ a \notin Units(currentAddress, Len(b))
    BY DEF Wipe, Touched
  <1>2. Written(b) = Program(f, currentAddress, b)
    BY DEF Written
  <1> HIDE DEF f
  <1> QED
    BY <1>1, <1>2 DEF Program, Spoil

\* _writeBuffer, whatever comes of it.
LEMMA WriteBufferBoots ==
    ASSUME OldInv, OldInv', BootInv, phase \in InRam, phase' \in InRam, app \in Images, app' = app,
           NEW b, WriteBufferOk(b) \/ WriteBufferFails(b), UNCHANGED <<rtc, erased, loader>>
    PROVE  BootInv'
  <1>1. FlashInv /\ DOMAIN flash = 0..FsStart + SectorSize - 1
    BY DEF OldInv, FlashInv
  <1>2. Restages(Touched(b)) /\ (flash' = Written(b) \/ flash' = Spoil(flash, Touched(b)))
    BY DEF WriteBufferOk, WriteBufferFails
  <1>3. \A a \in DOMAIN flash : a \notin Touched(b) => flash'[a] = flash[a]
    BY <1>1, <1>2, TouchedOnly
  <1> QED
    BY <1>1, <1>2, <1>3, SketchTouches

LEMMA WriteLoopBoots ==
    ASSUME OldInv, OldInv', BootInv,
           WriteFull \/ WriteRest \/ (\E k \in 1..SectorSize : StreamRead(k))
    PROVE  BootInv'
  <1>1. /\ phase \in {"write", "stream"} /\ phase' \in InRam /\ app' = app
        /\ UNCHANGED <<rtc, erased, loader>>
    BY DEF WriteFull, WriteRest, StreamRead, InRam
  <1>2. app \in Images /\ phase \in InRam
    BY <1>1 DEF OldInv, UpdateBehind, InRam
  <1>3. \/ \E b : WriteBufferOk(b) \/ WriteBufferFails(b)
        \/ UNCHANGED <<flash, torn>>
    <2>1. CASE WriteFull
      BY <2>1 DEF WriteFull
    <2>2. CASE WriteRest
      BY <2>2 DEF WriteRest
    <2>3. CASE \E k \in 1..SectorSize : StreamRead(k)
      BY <2>3 DEF StreamRead
    <2> QED
      BY <2>1, <2>2, <2>3
  <1> QED
    BY <1>1, <1>2, <1>3, WriteBufferBoots, SketchLeaves

LEMMA RoundedSector == ASSUME NEW m \in Nat \ {0} PROVE Rounded(m) >= SectorSize
  <1>1. PICK k \in Nat : Rounded(m) = k * SectorSize
    BY Rounding
  <1>2. SectorSize \in Nat \ {0} /\ Rounded(m) \in Nat /\ Rounded(m) >= 1
    BY SectorAssumption, RoundedUp
  <1>3. 0 * SectorSize < k * SectorSize /\ 0 * SectorSize = 0
    BY <1>1, <1>2
  <1>4. 0 * SectorSize + SectorSize <= k * SectorSize
    BY <1>2, <1>3, NextMultiple
  <1> QED
    BY <1>1, <1>2, <1>3, <1>4

\* end() announces what has been written: all of the image, unless the caller
\* gives less of it.
LEMMA StageBoots ==
    ASSUME OldInv, OldInv', UploadInv, BootInv, phase = "sketch", phase' = "sketch", size > 0,
           app' = app, UNCHANGED <<erased, loader>>, NEW n \in Nat, n = sent,
           NEW g, g = flash', DOMAIN g = DOMAIN flash,
           \A k \in 0..n - 1 : startAddress + k < FsStart => g[startAddress + k] = <<upload, k>>,
           NEW cells, \A a \in DOMAIN flash : a \notin cells => g[a] = flash[a],
           Stage(g, startAddress, n, cells) \/ Rejected(cells)
    PROVE  BootInv'
  <1>1. app \in Images /\ startAddress >= Rounded(SizeOf(app)) /\ startAddress \in Nat
    BY DEF OldInv, UpdateBehind, Locals
  <1>2. DOMAIN flash = 0..FsStart + SectorSize - 1 /\ phase \in InRam /\ phase' \in InRam
    BY DEF OldInv, FlashInv, InRam
  <1>3. CASE Restages(cells) /\ UNCHANGED rtc
    BY <1>1, <1>2, <1>3, SketchTouches
  <1>4. CASE ~(Restages(cells) /\ UNCHANGED rtc)
    <2>1. /\ rtc' = [src |-> startAddress, size |-> n]
          /\ torn' = IF sent # SizeOf(upload) THEN "truncated"
                     ELSE IF torn \in Staging THEN "no" ELSE torn
      BY <1>4 DEF Stage, Rejected
    <2>2. rtc' \in [src : Nat, size : Nat] /\ rtc'.src = startAddress /\ rtc'.size = n
      BY <1>1, <2>1
    <2>3. torn' \in {"no", "overlap", "failed", "cut"} \cup Staging
      BY <2>1 DEF BootInv, Counters, Staging
    <2>4. ASSUME torn' = "no" PROVE \E i \in Images : StagedAs(i)'
      <3>1. n = SizeOf(upload) /\ upload \in Images
        BY <2>1, <2>4 DEF UploadInv, Uploading
      <3>2. startAddress >= SectorSize
        <4>1. SizeOf(app) \in Nat \ {0}
          <5>1. SizeOf(app) \in 1..FsStart
            BY <1>1, SizesAssumption DEF Images, SizeOf
          <5> QED
            BY <5>1, SectorAssumption
        <4>2. Rounded(SizeOf(app)) >= SectorSize /\ Rounded(SizeOf(app)) \in Nat
          BY <4>1, RoundedSector, RoundedUp
        <4> QED
          BY <1>1, <4>2, SectorAssumption
      <3>3. startAddress + n <= FsStart
        <4>1. n <= size /\ size \in Nat /\ startAddress + Rounded(size) = FsStart
          BY Progress DEF Amounts, UploadInv, Uploading
        <4>2. Rounded(size) \in Nat /\ Rounded(size) >= size
          BY <4>1, RoundedUp
        <4> QED
          BY <1>1, <4>1, <4>2
      <3>4. \A k \in 0..n - 1 : flash'[startAddress + k] = <<upload, k>>
        <4>1. \A k \in 0..n - 1 : startAddress + k < FsStart
          BY <1>1, <3>3, SectorAssumption
        <4> QED
          BY <4>1
      <3>5. PICK i \in Images : i = upload
        BY <3>1
      <3>6. SizeOf(i) = n /\ \A k \in 0..n - 1 : flash'[startAddress + k] = <<i, k>>
        BY <3>1, <3>4, <3>5
      <3>7. StagedAs(i)'
        BY <2>2, <3>2, <3>3, <3>6 DEF StagedAs
      <3> QED
        BY <3>7
    <2> QED
      BY <1>1, <1>2, <2>2, <2>3, <2>4, SketchAnnounces
  <1> QED
    BY <1>3, <1>4

LEMMA EndBoots ==
    ASSUME OldInv, OldInv', UploadInv, BootInv,
           (\E even \in BOOLEAN : EndPremature(even) \/ EndComplete(even)) \/ EndFlushes
    PROVE  BootInv'
  <1>1. /\ phase = "sketch" /\ phase' = "sketch" /\ app \in Images /\ app' = app
        /\ UNCHANGED <<erased, loader>>
    BY DEF EndPremature, EndComplete, EndFlushes, EndRest, EndCall, InSketch
  <1>2. FlashInv /\ DOMAIN flash = 0..FsStart + SectorSize - 1
    BY DEF OldInv, FlashInv
  <1>3. CASE \E even \in BOOLEAN : EndPremature(even)
    <2>1. UNCHANGED <<flash, rtc, torn>>
      BY <1>3 DEF EndPremature, mem
    <2> QED
      BY <1>1, <2>1, SketchLeaves DEF InRam
  <1>4. CASE \E even \in BOOLEAN : EndComplete(even)
    <2>1. PICK even \in BOOLEAN : EndComplete(even)
      BY <1>4
    <2>2. /\ size > 0 /\ flash' = flash /\ (remaining = 0 \/ even) /\ (~even \/ buffer = <<>>)
          /\ Stage(flash, startAddress, progress, {}) \/ Rejected({})
      BY <2>1 DEF EndComplete, Running
    <2>3. Len(buffer) = 0 /\ progress \in Nat /\ sent = progress
      <3>1. /\ progress \in Nat /\ Len(buffer) \in Nat /\ sent = progress + Len(buffer)
            /\ remaining = 0 => Len(buffer) = 0
        BY <2>2, Progress
      <3>2. Len(buffer) = 0
        BY <2>2, <3>1
      <3> QED
        BY <3>1, <3>2
    <2>4. \A k \in 0..progress - 1 :
            startAddress + k < FsStart => flash[startAddress + k] = <<upload, k>>
      BY <2>2 DEF UploadInv, Uploading
    <2>5. PICK g : g = flash
      OBVIOUS
    <2>6. g = flash' /\ DOMAIN g = DOMAIN flash /\ \A a \in DOMAIN flash : a \notin {} => g[a] = flash[a]
      BY <2>2, <2>5
    <2>7. \A k \in 0..progress - 1 : startAddress + k < FsStart => g[startAddress + k] = <<upload, k>>
      BY <2>4, <2>5
    <2>8. Stage(g, startAddress, progress, {}) \/ Rejected({})
      BY <2>2, <2>5
    <2> DEFINE n == progress
    <2>9. n \in Nat /\ n = sent
      BY <2>3
    <2> HIDE DEF n
    <2>10. \A k \in 0..n - 1 : startAddress + k < FsStart => g[startAddress + k] = <<upload, k>>
      BY <2>7 DEF n
    <2>11. Stage(g, startAddress, n, {}) \/ Rejected({})
      BY <2>8 DEF n
    <2> QED
      BY <1>1, <2>2, <2>6, <2>9, <2>10, <2>11, StageBoots
  <1>5. CASE EndFlushes
    <2> DEFINE n == progress + Len(buffer)
               cells == Touched(buffer)
    <2>1. size > 0 /\ buffer # <<>>
      BY <1>5 DEF EndFlushes, Running
    <2>2. /\ progress \in Nat /\ Len(buffer) \in Nat /\ sent = n /\ Len(buffer) <= bufferSize
          /\ bufferSize \in Nat /\ remaining # 0
      <3>1. /\ progress \in Nat /\ Len(buffer) \in Nat /\ sent = n /\ Len(buffer) <= bufferSize
            /\ bufferSize \in Nat
        BY <2>1, Progress
      <3>2. remaining # 0
        BY <2>1 DEF UploadInv, Uploading
      <3> QED
        BY <3>1, <3>2
    <2>3. Holds(buffer)
      <3>1. 0 \in Nat
        OBVIOUS
      <3> QED
        BY <2>1, <3>1, Buffered
    <2>4. \A k \in 0..progress + Len(buffer) - 1 :
            startAddress + k < FsStart => Written(buffer)[startAddress + k] = <<upload, k>>
      <3>1. Len(buffer) \in 0..bufferSize
        BY <2>2
      <3> QED
        BY <2>1, <2>2, <2>3, <3>1, PagePut
    <2>5. \A a \in DOMAIN flash : a \notin cells =>
            Written(buffer)[a] = flash[a] /\ Spoil(flash, cells)[a] = flash[a]
      BY <1>2, TouchedOnly
    <2>6. DOMAIN Written(buffer) = DOMAIN flash /\ DOMAIN Spoil(flash, cells) = DOMAIN flash
      BY <1>2, WrittenBelow DEF SameBelow, OldInv, Locals
    <2>7. PICK g : g = flash'
      OBVIOUS
    <2>8. \/ /\ g = Written(buffer)
             /\ Rejected(cells) \/ Stage(g, startAddress, n, cells)
          \/ /\ g = Spoil(flash, cells)
             /\ \/ Rejected(cells)
                \/ /\ rtc' = [src |-> 0, size |-> 0]
                   /\ torn' = IF torn \in Staging THEN "no" ELSE torn
      BY <1>5, <2>7 DEF EndFlushes
    <2>9. 0..progress + Len(buffer) - 1 = 0..n - 1 /\ n \in Nat
      BY <2>2
    <2> HIDE DEF n, cells
    <2>10. CASE g = Written(buffer) /\ (Rejected(cells) \/ Stage(g, startAddress, n, cells))
      <3>1. \A k \in 0..n - 1 : startAddress + k < FsStart => g[startAddress + k] = <<upload, k>>
        BY <2>4, <2>9, <2>10
      <3>2. DOMAIN g = DOMAIN flash /\ \A a \in DOMAIN flash : a \notin cells => g[a] = flash[a]
        BY <2>5, <2>6, <2>10
      <3> QED
        BY <1>1, <2>1, <2>2, <2>7, <2>9, <2>10, <3>1, <3>2, StageBoots
    <2>11. CASE g = Spoil(flash, cells) /\ Rejected(cells)
      <3>1. Restages(cells) /\ rtc' = rtc
        BY <2>11 DEF Rejected
      <3>2. \A a \in DOMAIN flash : a \notin cells => flash'[a] = flash[a]
        BY <2>5, <2>7, <2>11
      <3> QED
        BY <1>1, <1>2, <3>1, <3>2, SketchTouches DEF InRam
    <2>12. CASE /\ rtc' = [src |-> 0, size |-> 0]
                /\ torn' = IF torn \in Staging THEN "no" ELSE torn
      <3>1. rtc' \in [src : Nat, size : Nat] /\ ~(rtc'.size > 0)
        BY <2>12
      <3>2. torn' \in {"no", "overlap", "failed", "cut"} \cup Staging
        BY <2>12 DEF BootInv, Counters, Staging
      <3> QED
        BY <1>1, <3>1, <3>2, SketchAnnounces DEF InRam
    <2> QED
      BY <2>8, <2>10, <2>11, <2>12
  <1> QED
    BY <1>3, <1>4, <1>5

-----------------------------------------------------------------------------
(* Steps of the boot loader.                                               *)

LEMMA MaxAtLeast ==
    ASSUME NEW a \in Int, NEW b \in Int
    PROVE  Max({a, b}) \in {a, b} /\ Max({a, b}) >= a /\ Max({a, b}) >= b
  <1>1. \E x \in {a, b} : \A y \in {a, b} : x >= y
    <2>1. CASE a >= b
      BY <2>1
    <2>2. CASE b > a
      BY <2>2
    <2> QED
      BY <2>1, <2>2
  <1>2. Max({a, b}) \in {a, b} /\ \A y \in {a, b} : Max({a, b}) >= y
    BY <1>1 DEF Max
  <1> QED
    BY <1>2

\* An address in terms of the sectors before it.
LEMMA SectorsBefore ==
    ASSUME NEW d \in Nat, NEW e \in Nat
    PROVE  /\ d * SectorSize \in Nat /\ e * SectorSize \in Nat
           /\ (d + 1) * SectorSize = d * SectorSize + SectorSize
           /\ d <= e => d * SectorSize <= e * SectorSize
           /\ DestOf(d) = d * SectorSize .. d * SectorSize + SectorSize - 1
  <1>1. SectorSize \in Nat
    BY SectorAssumption
  <1>2. d * SectorSize \in Nat /\ e * SectorSize \in Nat /\ (d + 1) * SectorSize = d * SectorSize + SectorSize
    BY <1>1
  <1>3. d <= e => d * SectorSize <= e * SectorSize
    BY <1>1, ProductGrows
  <1> QED
    BY <1>2, <1>3 DEF DestOf, Units

LEMMA BootStartBoots ==
    ASSUME BootInv, BootStart
    PROVE  BootInv'
  <1>1. /\ phase = "boot" /\ cmd' = rtc /\ done' = 0
        /\ phase' = IF rtc = None THEN "load" ELSE "copy"
        /\ UNCHANGED <<flash, rtc, app, erased, torn>>
    BY DEF BootStart, mem, history
  <1>2. Counters'
    BY <1>1 DEF BootInv, Counters
  <1>3. Ahead'
    BY <1>1 DEF BootInv, Ahead, Counters
  <1>4. Announced'
    <2>1. 0 * SectorSize = 0
      BY SectorAssumption
    <2>2. \A i \in Images : StagedAs(i) => StagedAs(i)' /\ CopiedAs(i)'
      BY <1>1, <2>1 DEF StagedAs, CopiedAs
    <2> QED
      BY <1>1, <2>2 DEF BootInv, Announced
  <1>5. OldAtZero' /\ BootsWhole'
    BY <1>1 DEF BootInv, OldAtZero, BootsWhole, Whole
  <1> QED
    BY <1>2, <1>3, <1>4, <1>5 DEF BootInv

\* The sector that is being copied to is erased, or lost.  It lies before all
\* that is left to copy.
LEMMA SectorGoes ==
    ASSUME BootInv, DOMAIN flash = 0..FsStart + SectorSize - 1,
           phase \in {"copy", "copyWrite"}, LeftToCopy > 0, rtc' = rtc,
           erased' = Max({erased, done + 1}),
           \A a \in DOMAIN flash : a \notin DestOf(done) => flash'[a] = flash[a]
    PROVE  /\ done \in Nat /\ erased \in Nat /\ erased' \in Nat /\ erased' >= done + 1
           /\ rtc # None /\ cmd = rtc /\ rtc.size \in Nat \ {0} /\ rtc.src \in Nat
           /\ erased' = done + 1 \/ erased' = erased
           /\ \A i \in Images : StagedAs(i) => StagedAs(i)'
  <1>1. /\ done \in Nat /\ erased \in Nat /\ rtc # None /\ cmd = rtc
        /\ rtc.size \in Nat /\ rtc.src \in Nat
    BY DEF BootInv, Counters
  <1>2. /\ erased' \in Nat /\ erased' >= done + 1 /\ erased' >= erased
        /\ erased' = done + 1 \/ erased' = erased
    <2> DEFINE d == done + 1
    <2>1. d \in Int /\ d \in Nat /\ erased \in Int
      BY <1>1
    <2> HIDE DEF d
    <2>2. Max({erased, d}) \in {erased, d} /\ Max({erased, d}) >= erased /\ Max({erased, d}) >= d
      BY <2>1, MaxAtLeast
    <2>3. erased' = Max({erased, d})
      BY DEF d
    <2> QED
      BY <1>1, <2>1, <2>2, <2>3 DEF d
  <1>3. rtc.size # 0
    <2> SUFFICES ASSUME rtc.size = 0 PROVE FALSE
      OBVIOUS
    <2>1. Rounded(0) = 0
      BY SectorAssumption DEF Rounded
    <2>2. done * SectorSize \in Nat
      BY <1>1, SectorsBefore
    <2> QED
      BY <1>1, <2>1, <2>2 DEF LeftToCopy
  <1>4. ASSUME NEW i \in Images, StagedAs(i) PROVE StagedAs(i)'
    <2> DEFINE s == rtc.src
               n == SizeOf(i)
    <2>1. /\ rtc.size = n /\ s >= SectorSize /\ s + n <= FsStart
          /\ \A k \in 0..n - 1 : s + k >= erased * SectorSize => flash[s + k] = <<i, k>>
      BY <1>1, <1>4 DEF StagedAs
    <2>2. s \in Nat /\ n \in Nat /\ FsStart \in Nat /\ SectorSize \in Nat \ {0}
      BY <1>1, <2>1, SectorAssumption
    <2> HIDE DEF s, n
    <2>3. ASSUME NEW k \in 0..n - 1, s + k >= erased' * SectorSize
          PROVE  flash'[s + k] = <<i, k>>
      <3>1. /\ erased * SectorSize \in Nat /\ erased' * SectorSize \in Nat
            /\ erased * SectorSize <= erased' * SectorSize
        BY <1>1, <1>2, SectorsBefore
      <3>2. /\ (done + 1) * SectorSize <= erased' * SectorSize
            /\ (done + 1) * SectorSize = done * SectorSize + SectorSize /\ done * SectorSize \in Nat
            /\ DestOf(done) = done * SectorSize .. done * SectorSize + SectorSize - 1
        <4>1. done + 1 \in Nat
          BY <1>1
        <4> QED
          BY <1>1, <1>2, <4>1, SectorsBefore
      <3>3. s + k \in DOMAIN flash /\ s + k \notin DestOf(done)
        BY <2>1, <2>2, <2>3, <3>1, <3>2
      <3>4. s + k >= erased * SectorSize
        BY <2>2, <2>3, <3>1
      <3> QED
        BY <2>1, <3>3, <3>4
    <2> QED
      BY <2>1, <2>3 DEF StagedAs, s, n
  <1> QED
    BY <1>1, <1>2, <1>3, <1>4

LEMMA CopyFailsBoots ==
    ASSUME OldInv, BootInv, CopyFails
    PROVE  BootInv'
  <1>1. /\ phase \in {"copy", "copyWrite"} /\ LeftToCopy > 0 /\ phase' = "clear" /\ res' = FALSE
        /\ flash' = Spoil(flash, DestOf(done)) /\ erased' = Max({erased, done + 1})
        /\ UNCHANGED <<rtc, app, cmd, done, sector, torn>>
    BY DEF CopyFails
  <1>2. /\ DOMAIN flash = 0..FsStart + SectorSize - 1
        /\ \A a \in DOMAIN flash : a \notin DestOf(done) => flash'[a] = flash[a]
    BY <1>1 DEF OldInv, FlashInv, Spoil
  <1>3. /\ done \in Nat /\ erased' \in Nat /\ erased' >= done + 1
        /\ rtc # None /\ cmd = rtc /\ rtc.size \in Nat \ {0}
        /\ \A i \in Images : StagedAs(i) => StagedAs(i)'
    BY <1>1, <1>2, SectorGoes
  <1>4. Counters' /\ Ahead'
    BY <1>1, <1>3 DEF BootInv, Counters, Ahead
  <1>5. Announced'
    <2>1. \A i \in Images : CopiedAs(i)'
      BY <1>1 DEF CopiedAs
    <2> QED
      BY <1>1, <1>3, <2>1 DEF BootInv, Announced
  <1>6. OldAtZero' /\ BootsWhole'
    BY <1>1, <1>3 DEF BootInv, OldAtZero, BootsWhole
  <1> QED
    BY <1>4, <1>5, <1>6 DEF BootInv

LEMMA CopyEraseBoots ==
    ASSUME OldInv, BootInv, CopyErase
    PROVE  BootInv'
  <1>1. /\ phase = "copy" /\ LeftToCopy > 0 /\ phase' = "copyWrite"
        /\ flash' = Wipe(flash, DestOf(done)) /\ erased' = Max({erased, done + 1})
        /\ sector' = [k \in 1..SectorSize |-> flash'[cmd.src + done * SectorSize + k - 1]]
        /\ UNCHANGED <<rtc, app, cmd, done, res, torn>>
    BY DEF CopyErase
  <1>2. /\ DOMAIN flash = 0..FsStart + SectorSize - 1
        /\ \A a \in DOMAIN flash : a \notin DestOf(done) => flash'[a] = flash[a]
        /\ \A a \in DOMAIN flash : a \in DestOf(done) => flash'[a] = Erased
    BY <1>1 DEF OldInv, FlashInv, Wipe
  <1>3. /\ done \in Nat /\ erased \in Nat /\ erased' \in Nat /\ erased' >= done + 1
        /\ rtc # None /\ cmd = rtc /\ rtc.size \in Nat \ {0} /\ rtc.src \in Nat
        /\ erased' = done + 1 \/ erased' = erased
        /\ \A i \in Images : StagedAs(i) => StagedAs(i)'
    BY <1>1, <1>2, SectorGoes
  <1>4. Counters'
    BY <1>1, <1>3 DEF BootInv, Counters
  <1>5. Ahead'
    <2> SUFFICES ASSUME torn = "no" PROVE erased' <= done + 1 \/ erased' * SectorSize <= rtc.src
      BY <1>1 DEF Ahead
    <2>1. erased <= done \/ erased * SectorSize <= rtc.src
      BY <1>1, <1>3 DEF BootInv, Ahead
    <2>2. CASE erased' = done + 1
      BY <1>3, <2>2
    <2>3. CASE erased' = erased
      BY <1>3, <2>1, <2>3
    <2> QED
      BY <1>3, <2>2, <2>3
  <1>6. Announced'
    <2> SUFFICES ASSUME torn = "no" PROVE \E i \in Images : StagedAs(i)' /\ CopiedAs(i)'
      BY <1>1 DEF Announced
    <2>1. PICK i \in Images : StagedAs(i) /\ CopiedAs(i)
      BY <1>3 DEF BootInv, Announced
    <2> DEFINE s == rtc.src
               n == SizeOf(i)
               D == done * SectorSize
    <2>2. /\ rtc.size = n /\ s >= SectorSize /\ s + n <= FsStart
          /\ \A k \in 0..n - 1 : s + k >= erased * SectorSize => flash[s + k] = <<i, k>>
          /\ \A k \in 0..n - 1 : k < D => flash[k] = <<i, k>>
      BY <1>1, <2>1 DEF StagedAs, CopiedAs
    <2>3. /\ s \in Nat /\ n \in Nat /\ FsStart \in Nat /\ SectorSize \in Nat \ {0} /\ D \in Nat
          /\ erased * SectorSize \in Nat /\ DestOf(done) = D .. D + SectorSize - 1
          /\ erased <= done => erased * SectorSize <= D
      BY <1>3, <2>2, SectorAssumption, SectorsBefore
    <2>4. erased <= done \/ erased * SectorSize <= s
      BY <1>1, <1>3 DEF BootInv, Ahead
    <2>5. sector' = [k \in 1..SectorSize |-> flash'[s + D + k - 1]]
      BY <1>1, <1>3
    <2> HIDE DEF s, n, D
    <2>6. ASSUME NEW k \in 0..n - 1, k < D PROVE flash'[k] = <<i, k>>
      <3>1. k \in DOMAIN flash /\ k \notin DestOf(done)
        BY <1>2, <2>2, <2>3, <2>6
      <3> QED
        BY <1>2, <2>2, <2>6, <3>1
    <2>7. ASSUME NEW a \in DestOf(done), a < FsStart PROVE flash'[a] = Erased
      <3>1. a \in DOMAIN flash
        BY <1>2, <2>3, <2>7
      <3> QED
        BY <1>2, <3>1
    <2>8. Len(sector') = SectorSize
      <3> DEFINE T == {sector'[k] : k \in 1..SectorSize}
                 m == Len(sector')
      <3>1. sector' \in [1..SectorSize -> T]
        BY <2>5
      <3>2. sector' \in Seq(T)
        BY <2>3, <3>1, SeqDef
      <3>3. 1..m = 1..SectorSize /\ m \in Nat /\ SectorSize \in Nat
        BY <2>3, <3>1, <3>2, LenProperties
      <3> HIDE DEF m
      <3>4. \A k \in Nat : k \in 1..m <=> k \in 1..SectorSize
        BY ONLY <3>3
      <3>5. m = SectorSize
        BY ONLY <3>3, <3>4
      <3> QED
        BY <3>5 DEF m
    <2>9. ASSUME NEW k \in 1..SectorSize, D + k - 1 < n
          PROVE  sector'[k] = <<i, D + k - 1>>
      <3> DEFINE j == D + k - 1
      <3>1. j \in 0..n - 1 /\ s + D + k - 1 = s + j
        BY <2>3, <2>9
      <3>2. sector'[k] = flash'[s + j]
        BY <2>5, <3>1
      <3>3. s + j \in DOMAIN flash /\ s + j \notin DestOf(done) /\ s + j >= erased * SectorSize
        BY <1>2, <1>3, <2>2, <2>3, <2>4, <2>9
      <3> HIDE DEF j
      <3>4. flash[s + j] = <<i, j>> /\ flash'[s + j] = flash[s + j]
        BY <1>2, <2>2, <3>1, <3>3
      <3> QED
        BY <3>2, <3>4 DEF j
    <2>10. StagedAs(i)'
      BY <1>3, <2>1
    <2>11. CopiedAs(i)'
      BY <1>1, <2>6, <2>7, <2>8, <2>9 DEF CopiedAs, n, D
    <2> QED
      BY <2>10, <2>11
  <1>7. OldAtZero' /\ BootsWhole'
    BY <1>1, <1>3 DEF BootInv, OldAtZero, BootsWhole
  <1> QED
    BY <1>4, <1>5, <1>6, <1>7 DEF BootInv

LEMMA CopyWriteBoots ==
    ASSUME OldInv, BootInv, CopyWrite
    PROVE  BootInv'
  <1>1. /\ phase = "copyWrite" /\ phase' = "copy" /\ done' = done + 1
        /\ flash' = Program(flash, done * SectorSize, sector)
        /\ UNCHANGED <<rtc, app, cmd, sector, res, erased, torn>>
    BY DEF CopyWrite, history
  <1>2. /\ done \in Nat /\ erased \in Nat /\ erased >= done + 1 /\ rtc # None /\ cmd = rtc
        /\ rtc.size \in Nat /\ rtc.src \in Nat
    BY <1>1 DEF BootInv, Counters
  <1>3. Counters' /\ Ahead'
    BY <1>1, <1>2 DEF BootInv, Counters, Ahead
  <1>4. Announced'
    <2> SUFFICES ASSUME torn = "no", rtc.size > 0 PROVE \E i \in Images : StagedAs(i)' /\ CopiedAs(i)'
      BY <1>1 DEF Announced
    <2>1. PICK i \in Images : StagedAs(i) /\ CopiedAs(i)
      BY <1>2 DEF BootInv, Announced
    <2> DEFINE s == rtc.src
               n == SizeOf(i)
               D == done * SectorSize
    <2>2. /\ rtc.size = n /\ s >= SectorSize /\ s + n <= FsStart
          /\ \A k \in 0..n - 1 : s + k >= erased * SectorSize => flash[s + k] = <<i, k>>
          /\ \A k \in 0..n - 1 : k < D => flash[k] = <<i, k>>
          /\ \A a \in DestOf(done) : a < FsStart => flash[a] = Erased
          /\ Len(sector) = SectorSize
          /\ \A k \in 1..SectorSize : D + k - 1 < n => sector[k] = <<i, D + k - 1>>
      BY <1>1, <2>1 DEF StagedAs, CopiedAs
    <2>3. /\ s \in Nat /\ n \in Nat /\ FsStart \in Nat /\ SectorSize \in Nat \ {0} /\ D \in Nat
          /\ erased * SectorSize \in Nat /\ (done + 1) * SectorSize = D + SectorSize
          /\ (done + 1) * SectorSize <= erased * SectorSize
          /\ DestOf(done) = D .. D + SectorSize - 1
      <3>1. done + 1 \in Nat
        BY <1>2
      <3> QED
        BY <1>2, <2>2, <3>1, SectorAssumption, SectorsBefore
    <2>4. flash' = [b \in DOMAIN flash |-> IF b \in DestOf(done)
                                           THEN IF flash[b] = Erased THEN sector[b - D + 1] ELSE Garbage
                                           ELSE flash[b]]
      BY <1>1, <2>2 DEF Program, DestOf
    <2>5. DOMAIN flash = 0..FsStart + SectorSize - 1
      BY DEF OldInv, FlashInv
    <2> HIDE DEF s, n, D
    <2>6. ASSUME NEW k \in 0..n - 1, s + k >= erased * SectorSize PROVE flash'[s + k] = <<i, k>>
      <3>1. s + k \in DOMAIN flash /\ s + k \notin DestOf(done)
        BY <2>2, <2>3, <2>5, <2>6
      <3> QED
        BY <2>2, <2>4, <2>6, <3>1
    <2>7. ASSUME NEW k \in 0..n - 1, k < D + SectorSize PROVE flash'[k] = <<i, k>>
      <3>1. k \in DOMAIN flash /\ k < FsStart /\ k \in Nat
        BY <2>2, <2>3, <2>5
      <3>2. CASE k < D
        <4>1. k \notin DestOf(done)
          BY <2>3, <3>1, <3>2
        <4> QED
          BY <2>2, <2>4, <3>1, <3>2, <4>1
      <3>3. CASE ~(k < D)
        <4> DEFINE j == k - D + 1
        <4>1. k \in DestOf(done) /\ j \in 1..SectorSize /\ D + j - 1 = k /\ k < n
          BY <2>3, <2>7, <3>1, <3>3
        <4>2. flash'[k] = sector[j]
          BY <2>2, <2>4, <3>1, <4>1
        <4> HIDE DEF j
        <4>3. sector[j] = <<i, D + j - 1>>
          BY <2>2, <4>1
        <4> QED
          BY <4>1, <4>2, <4>3
      <3> QED
        BY <3>2, <3>3
    <2>8. StagedAs(i)'
      BY <1>1, <2>2, <2>6 DEF StagedAs, s, n
    <2>9. CopiedAs(i)'
      <3>1. done' * SectorSize = D + SectorSize
        BY <1>1, <2>3
      <3> QED
        BY <1>1, <2>7, <3>1 DEF CopiedAs, n
    <2> QED
      BY <2>8, <2>9
  <1>5. OldAtZero' /\ BootsWhole'
    BY <1>1, <1>2 DEF BootInv, OldAtZero, BootsWhole
  <1> QED
    BY <1>3, <1>4, <1>5 DEF BootInv

LEMMA CopyEndsBoots ==
    ASSUME BootInv, CopyEnds
    PROVE  BootInv'
  <1>1. /\ phase = "copy" /\ LeftToCopy <= 0 /\ phase' = "clear"
        /\ UNCHANGED <<flash, rtc, app, cmd, done, sector, res, erased, torn>>
    BY DEF CopyEnds, mem, loader, history
  <1>2. done \in Nat /\ rtc # None /\ cmd = rtc /\ rtc.size \in Nat
    BY <1>1 DEF BootInv, Counters
  <1>3. Counters' /\ Ahead'
    BY <1>1, <1>2 DEF BootInv, Counters, Ahead
  <1>4. Announced'
    <2> SUFFICES ASSUME torn = "no", rtc.size > 0 PROVE \E i \in Images : StagedAs(i)' /\ CopiedAs(i)'
      BY <1>1 DEF Announced
    <2>1. PICK i \in Images : StagedAs(i) /\ CopiedAs(i)
      BY <1>2 DEF BootInv, Announced
    <2>2. StagedAs(i)'
      BY <1>1, <2>1 DEF StagedAs
    <2>3. ASSUME NEW k \in 0..SizeOf(i) - 1 PROVE flash[0 + k] = <<i, k>>
      <3>1. /\ rtc.size = SizeOf(i) /\ SizeOf(i) \in Nat
            /\ k < done * SectorSize => flash[k] = <<i, k>>
        BY <1>1, <1>2, <2>1 DEF StagedAs, CopiedAs
      <3>2. /\ Rounded(SizeOf(i)) \in Nat /\ Rounded(SizeOf(i)) >= SizeOf(i)
            /\ done * SectorSize \in Nat
        BY <1>2, <3>1, RoundedUp, SectorsBefore
      <3>3. Rounded(SizeOf(i)) <= done * SectorSize
        BY <1>1, <1>2, <3>1, <3>2 DEF LeftToCopy
      <3>4. 0 + k = k /\ k < done * SectorSize
        BY <3>1, <3>2, <3>3
      <3> QED
        BY <3>1, <3>4
    <2>4. CopiedAs(i)'
      BY <1>1, <2>3 DEF CopiedAs, Whole
    <2> QED
      BY <2>2, <2>4
  <1>5. OldAtZero' /\ BootsWhole'
    BY <1>1 DEF BootInv, OldAtZero, BootsWhole, Whole
  <1> QED
    BY <1>3, <1>4, <1>5 DEF BootInv

LEMMA ClearCommandBoots ==
    ASSUME BootInv, ClearCommand
    PROVE  BootInv'
  <1>1. /\ phase = "clear" /\ rtc' = None /\ erased' = 0
        /\ phase' = IF res THEN "load" ELSE "boot"
        /\ torn' = IF torn = "no" /\ ~res THEN "failed" ELSE torn
        /\ UNCHANGED <<flash, app, done>>
    BY DEF ClearCommand, loader
  <1>2. Counters' /\ Ahead' /\ Announced'
    BY <1>1 DEF BootInv, Counters, Ahead, Announced, Staging
  <1>3. OldAtZero'
    <2> SUFFICES ASSUME torn' = "no" PROVE \E i \in Images : Whole(0, i)'
      BY <1>1 DEF OldAtZero
    <2>1. torn = "no" /\ res /\ rtc # None /\ rtc.size \in Nat
      BY <1>1 DEF BootInv, Counters
    <2>2. CASE rtc.size > 0
      <3>1. PICK i \in Images : CopiedAs(i)
        BY <2>1, <2>2 DEF BootInv, Announced
      <3>2. Whole(0, i)
        BY <1>1, <2>1, <3>1 DEF CopiedAs
      <3> QED
        BY <1>1, <3>2 DEF Whole
    <2>3. CASE rtc.size = 0
      <3>1. erased = 0
        BY <2>1, <2>3 DEF BootInv, Counters
      <3>2. \E i \in Images : Whole(0, i)
        BY <2>1, <3>1 DEF BootInv, OldAtZero
      <3> QED
        BY <1>1, <3>2 DEF Whole
    <2> QED
      BY <2>1, <2>2, <2>3
  <1>4. BootsWhole'
    BY <1>1 DEF BootInv, BootsWhole
  <1> QED
    BY <1>2, <1>3, <1>4 DEF BootInv

LEMMA LoadAppBoots ==
    ASSUME BootInv, LoadApp
    PROVE  BootInv'
  <1>1. /\ phase = "load" /\ phase' = "sketch"
        /\ app' = IF \E i \in Images : Whole(0, i) THEN CHOOSE i \in Images : Whole(0, i) ELSE Garbage
        /\ UNCHANGED <<flash, rtc, cmd, done, erased, torn>>
    BY DEF LoadApp, mem, loader, history
  <1>2. rtc = None /\ erased = 0
    BY <1>1 DEF BootInv, Counters
  <1>3. Counters' /\ Ahead' /\ Announced'
    BY <1>1, <1>2 DEF BootInv, Counters, Ahead, Announced
  <1>4. OldAtZero'
    BY <1>1 DEF BootInv, OldAtZero, Whole
  <1>5. BootsWhole'
    <2> SUFFICES ASSUME torn = "no" PROVE app' # Garbage
      BY <1>1 DEF BootsWhole
    <2>1. \E i \in Images : Whole(0, i)
      BY <1>2 DEF BootInv, OldAtZero
    <2>2. app' \in Images
      BY <1>1, <2>1
    <2> QED
      BY <2>2, CellAssumption
  <1> QED
    BY <1>3, <1>4, <1>5 DEF BootInv

LEMMA RestartBoots ==
    ASSUME BootInv, Reset \/ PowerCut
    PROVE  BootInv'
  <1>1. phase' = "boot" /\ app' = None /\ done' = 0 /\ flash' = flash
    BY DEF Reset, PowerCut, Restart
  <1>2. BootsWhole'
    BY <1>1, CellAssumption DEF BootsWhole
  <1>3. CASE Reset
    <2>1. /\ UNCHANGED <<rtc, erased>>
          /\ torn' = IF torn = "no" /\ rtc # None /\ erased * SectorSize > rtc.src /\ erased > 0
                     THEN "overlap" ELSE torn
      BY <1>3 DEF Reset
    <2>2. Counters'
      BY <1>1, <2>1 DEF BootInv, Counters
    <2>3. Ahead'
      <3> SUFFICES ASSUME torn' = "no", rtc # None
                   PROVE  erased = 0 \/ erased * SectorSize <= rtc.src
        BY <1>1, <2>1 DEF Ahead
      <3>1. torn = "no" /\ ~(erased * SectorSize > rtc.src /\ erased > 0)
        BY <2>1
      <3>2. erased \in Nat /\ erased * SectorSize \in Nat /\ rtc.src \in Nat
        BY SectorsBefore DEF BootInv, Counters
      <3> QED
        BY <3>1, <3>2
    <2>4. Announced'
      <3>1. \A i \in Images : StagedAs(i) => StagedAs(i)' /\ CopiedAs(i)'
        BY <1>1, <2>1 DEF StagedAs, CopiedAs
      <3> QED
        BY <2>1, <3>1 DEF BootInv, Announced
    <2>5. OldAtZero'
      BY <1>1, <2>1 DEF BootInv, OldAtZero, Whole, Staging
    <2> QED
      BY <1>2, <2>2, <2>3, <2>4, <2>5 DEF BootInv
  <1>4. CASE PowerCut
    <2>1. /\ rtc' = None /\ erased' = 0 /\ erased \in Nat
          /\ torn' = IF erased > 0 THEN IF torn \in Staging \cup {"no"} THEN "cut" ELSE torn
                     ELSE IF torn \in Staging /\ rtc # None THEN "no" ELSE torn
      BY <1>4 DEF PowerCut, BootInv, Counters
    <2>2. Counters' /\ Ahead' /\ Announced'
      BY <1>1, <2>1 DEF BootInv, Counters, Ahead, Announced, Staging
    <2>3. OldAtZero'
      <3> SUFFICES ASSUME torn' = "no" PROVE \E i \in Images : Whole(0, i)
        BY <1>1, <2>1 DEF OldAtZero, Whole
      <3>1. erased = 0 /\ (torn = "no" \/ (torn \in Staging /\ rtc # None))
        BY <2>1 DEF Staging
      <3> QED
        BY <3>1 DEF BootInv, OldAtZero
    <2> QED
      BY <1>2, <2>2, <2>3 DEF BootInv
  <1> QED
    BY <1>3, <1>4

-----------------------------------------------------------------------------
(* All of it together.                                                     *)

WholeInv == OldInv /\ UploadInv /\ BootInv

LEMMA WholeInit == Init => WholeInv
  <1> SUFFICES ASSUME Init PROVE WholeInv
    OBVIOUS
  <1>1. OldInv
    BY OldInit
  <1>2. UploadInv
    BY DEF Init, UploadInv
  <1>3. rtc = None /\ erased = 0 /\ torn = "no" /\ done = 0 /\ phase = "sketch"
    BY DEF Init
  <1>4. app \in Images
    BY DEF Init
  <1>5. Whole(0, app)
    BY <1>1, <1>4 DEF OldInv, OldSketchSurvives
  <1>6. Counters /\ Ahead /\ Announced
    BY <1>3 DEF Counters, Ahead, Announced
  <1>7. OldAtZero
    BY <1>4, <1>5 DEF OldAtZero
  <1>8. BootsWhole
    BY <1>4, CellAssumption DEF BootsWhole
  <1> QED
    BY <1>1, <1>2, <1>6, <1>7, <1>8 DEF WholeInv, BootInv

\* An end() is the end of the update, whatever it returns.
LEMMA EndUploads ==
    ASSUME (\E even \in BOOLEAN : EndPremature(even) \/ EndComplete(even)) \/ EndFlushes
    PROVE  ResetUpdater
  <1>1. ASSUME NEW even \in BOOLEAN, EndPremature(even) PROVE ResetUpdater
    BY <1>1 DEF EndPremature
  <1>2. ASSUME NEW even \in BOOLEAN, EndComplete(even) PROVE ResetUpdater
    BY <1>2, EndResets DEF EndComplete
  <1>3. ASSUME EndFlushes PROVE ResetUpdater
    <2> DEFINE b == Touched(buffer)
    <2>1. PICK g : g = flash'
      OBVIOUS
    <2>2. \/ Rejected(b) \/ Stage(g, startAddress, progress + Len(buffer), b)
          \/ ResetUpdater
      BY <1>3, <2>1 DEF EndFlushes
    <2> HIDE DEF b
    <2> QED
      BY <2>2, EndResets
  <1> QED
    BY <1>1, <1>2, <1>3

LEMMA UploadStep == OldInv /\ UploadInv /\ [Next]_vars => UploadInv'
  <1> SUFFICES ASSUME OldInv, UploadInv, [Next]_vars PROVE UploadInv'
    OBVIOUS
  <1>1. ASSUME NEW i \in Images, NEW n \in Sizes \cup {FsStart},
               NEW b \in {PageSize, SectorSize}, Begin(i, n, b)
        PROVE  UploadInv'
    BY <1>1, BeginUpload
  <1>2. ASSUME NEW k \in 1..MaxChunk, WriteCall(k) \/ WriteSome(k) PROVE UploadInv'
    BY <1>2, WriteCallUpload
  <1>3. CASE WriteFull
    BY <1>3, WriteFullUpload
  <1>4. CASE WriteRest
    BY <1>4, WriteRestUpload
  <1>5. ASSUME NEW k \in 1..SectorSize, StreamRead(k) PROVE UploadInv'
    BY <1>5, StreamReadUpload
  <1>6. CASE WriteStream \/ StreamEnds
    BY <1>6, StreamBoundsUpload
  <1>7. CASE (\E even \in BOOLEAN : EndPremature(even) \/ EndComplete(even)) \/ EndFlushes
    BY <1>7, EndUploads, NothingUploads
  <1>8. CASE Loader \/ CopyFails
    <2>1. phase \notin InRam /\ UNCHANGED <<size, bufferSize>>
      BY <1>8 DEF Loader, BootStart, CopyErase, CopyWrite, CopyEnds, ClearCommand, LoadApp,
                  CopyFails, updater, InRam
    <2>2. ~(size > 0)
      BY <2>1 DEF OldInv, SketchRuns, UpdateBehind, InRam
    <2> QED
      BY <2>1, <2>2 DEF UploadInv
  <1>9. CASE Reset \/ PowerCut
    <2>1. size' = 0 /\ bufferSize' = PageSize
      BY <1>9 DEF Reset, PowerCut, Restart
    <2> QED
      BY <2>1 DEF UploadInv
  <1>10. CASE UNCHANGED vars
    <2>1. UNCHANGED <<flash, updater, upload, sent, left, phase>>
      BY <1>10 DEF vars, mem, caller
    <2>2. UNCHANGED size
      BY <2>1 DEF updater
    <2>3. Amounts => Amounts'
      BY <2>1 DEF Amounts, updater
    <2> QED
      BY <2>1, <2>2, <2>3, AmountsOf, UploadKept
  <1> QED
    BY <1>1, <1>2, <1>3, <1>4, <1>5, <1>6, <1>7, <1>8, <1>9, <1>10 DEF Next

\* The calls that touch neither flash nor the command.
LEMMA CallsBoot ==
    ASSUME OldInv, OldInv', BootInv,
           \/ \E i \in Images, n \in Sizes \cup {FsStart}, b \in {PageSize, SectorSize} : Begin(i, n, b)
           \/ \E k \in 1..MaxChunk : WriteCall(k) \/ WriteSome(k)
           \/ WriteStream \/ StreamEnds
    PROVE  BootInv'
  <1>1. UNCHANGED <<flash, rtc, app, torn, erased, loader>>
    BY DEF Begin, WriteCall, WriteSome, WriteStream, StreamEnds, mem, history
  <1>2. phase \in InRam
    BY DEF Begin, WriteCall, WriteSome, WriteStream, StreamEnds, InSketch, InRam
  <1>3. phase' \in InRam
    <2>1. phase' = phase \/ phase' \in InRam
      BY DEF Begin, WriteCall, WriteSome, WriteStream, StreamEnds, InRam
    <2> QED
      BY <1>2, <2>1
  <1>4. app \in Images
    <2>1. StreamEnds => phase = "stream"
      BY DEF StreamEnds
    <2>2. StreamEnds => app \in Images
      BY <2>1 DEF OldInv, UpdateBehind
    <2> QED
      BY <2>2 DEF Begin, WriteCall, WriteSome, WriteStream, InSketch
  <1> QED
    BY <1>1, <1>2, <1>3, <1>4, SketchLeaves

LEMMA BootStep == OldInv /\ UploadInv /\ BootInv /\ [Next]_vars => BootInv'
  <1> SUFFICES ASSUME OldInv, UploadInv, BootInv, [Next]_vars PROVE BootInv'
    OBVIOUS
  <1>1. OldInv'
    BY OldStep
  <1>2. CASE \/ \E i \in Images, n \in Sizes \cup {FsStart}, b \in {PageSize, SectorSize} :
                   Begin(i, n, b)
             \/ \E k \in 1..MaxChunk : WriteCall(k) \/ WriteSome(k)
             \/ WriteStream \/ StreamEnds
    BY <1>1, <1>2, CallsBoot
  <1>3. CASE WriteFull \/ WriteRest \/ (\E k \in 1..SectorSize : StreamRead(k))
    BY <1>1, <1>3, WriteLoopBoots
  <1>4. CASE (\E even \in BOOLEAN : EndPremature(even) \/ EndComplete(even)) \/ EndFlushes
    BY <1>1, <1>4, EndBoots
  <1>5. CASE Loader \/ CopyFails
    BY <1>5, BootStartBoots, CopyEraseBoots, CopyWriteBoots, CopyEndsBoots, ClearCommandBoots,
       LoadAppBoots, CopyFailsBoots DEF Loader
  <1>6. CASE Reset \/ PowerCut
    BY <1>6, RestartBoots
  <1>7. CASE UNCHANGED vars
    <2>1. UNCHANGED <<flash, rtc, phase, app, cmd, done, sector, res, erased, torn>>
      BY <1>7 DEF vars, mem, loader, history
    <2>2. Counters' /\ Ahead' /\ BootsWhole'
      BY <2>1 DEF BootInv, Counters, Ahead, BootsWhole
    <2>3. Announced' /\ OldAtZero'
      BY <2>1 DEF BootInv, Announced, OldAtZero, StagedAs, CopiedAs, Whole
    <2> QED
      BY <2>2, <2>3 DEF BootInv
  <1> QED
    BY <1>2, <1>3, <1>4, <1>5, <1>6, <1>7 DEF Next

LEMMA WholeStep == WholeInv /\ [Next]_vars => WholeInv'
  BY OldStep, UploadStep, BootStep DEF WholeInv

\* What the boot loader starts is a whole image, after any number of updates,
\* failures, resets and power cuts, but for the five causes that "torn" names:
\* power lost or a flash operation failed during the copy, a reset after the
\* copy had reached its own source, an image staged over an announced one, an
\* update ended by a caller who declared less than the image.  For copy_raw copies
\* all of what the command announces, what end() announces has been written as
\* it was given, and the copy erases nothing that it has still to read
\* (eboot.c:119-203, Updater.cpp:207-425).
THEOREM AlwaysBootsWhole == Spec => []BootsWhole
  <1>1. WholeInv => BootsWhole
    BY DEF WholeInv, BootInv
  <1> QED
    BY <1>1, WholeInit, WholeStep, PTL DEF Spec

-----------------------------------------------------------------------------
(* Types.  A stream that holds no more than the image is assumed: one that  *)
(* does writes beyond the update (MCUpdaterStream).                         *)

CellsInv == \A a \in DOMAIN flash : flash[a] \in Cells

Places ==
    /\ phase \in {"sketch", "write", "stream", "boot", "copy", "copyWrite", "clear", "load"}
    /\ app \in Images \cup {None, Garbage}

Idle ==
    /\ size <= FsStart
    /\ size = 0 => startAddress = 0 /\ currentAddress = 0 /\ buffer = <<>>

\* A command announces nothing beyond the room for updates.
AnnouncedFits == rtc # None => rtc.src + Rounded(rtc.size) <= FsStart

SectorInv ==
    phase = "copyWrite" => Len(sector) = SectorSize /\ \A k \in 1..SectorSize : sector[k] \in Cells

TypeInv == CellsInv /\ Places /\ Idle /\ AnnouncedFits /\ SectorInv

LEMMA TypeInit == Init => TypeInv
  <1> SUFFICES ASSUME Init PROVE TypeInv
    OBVIOUS
  <1>1. PICK i \in Images :
            /\ app = i
            /\ flash = [a \in 0..FsStart + SectorSize - 1 |->
                          IF a >= FsStart THEN FsData ELSE IF a < SizeOf(i) THEN <<i, a>> ELSE Erased]
    BY DEF Init
  <1>2. CellsInv
    <2> SUFFICES ASSUME NEW a \in DOMAIN flash PROVE flash[a] \in Cells
      BY DEF CellsInv
    <2>1. a \in 0..FsStart + SectorSize - 1
      BY <1>1
    <2>2. CASE a >= FsStart
      BY <1>1, <2>1, <2>2 DEF Cells
    <2>3. CASE ~(a >= FsStart)
      <3>1. a \in 0..FsStart
        BY <2>1, <2>3, SectorAssumption
      <3> QED
        BY <1>1, <2>1, <2>3, <3>1 DEF Cells
    <2> QED
      BY <2>2, <2>3
  <1>3. Places /\ Idle /\ AnnouncedFits /\ SectorInv
    BY <1>1, SectorAssumption DEF Init, Places, Idle, AnnouncedFits, SectorInv
  <1> QED
    BY <1>2, <1>3 DEF TypeInv

\* Flash stays of its type under the three operations.
LEMMA WipedCells ==
    ASSUME NEW f, \A a \in DOMAIN f : f[a] \in Cells, NEW c
    PROVE  /\ \A a \in DOMAIN Wipe(f, c) : Wipe(f, c)[a] \in Cells
           /\ \A a \in DOMAIN Spoil(f, c) : Spoil(f, c)[a] \in Cells
  <1>1. Erased \in Cells /\ Garbage \in Cells
    BY DEF Cells
  <1> QED
    BY <1>1 DEF Wipe, Spoil

LEMMA ProgrammedCells ==
    ASSUME NEW f, \A a \in DOMAIN f : f[a] \in Cells, NEW p \in Int, \A a \in DOMAIN f : a \in Int,
           NEW s, Len(s) \in Nat, \A k \in 1..Len(s) : s[k] \in Cells
    PROVE  \A a \in DOMAIN Program(f, p, s) : Program(f, p, s)[a] \in Cells
  <1> DEFINE n == Len(s)
  <1> SUFFICES ASSUME NEW a \in DOMAIN f PROVE Program(f, p, s)[a] \in Cells
    BY DEF Program
  <1>1. Garbage \in Cells
    BY DEF Cells
  <1>2. Program(f, p, s)[a] = IF a \in Units(p, n) THEN IF f[a] = Erased THEN s[a - p + 1] ELSE Garbage
                              ELSE f[a]
    BY DEF Program
  <1>3. a \in Units(p, n) => a - p + 1 \in 1..n
    <2> HIDE DEF n
    <2>1. n \in Nat
      BY DEF n
    <2> QED
      BY <2>1 DEF Units
  <1>4. a \in Units(p, n) => s[a - p + 1] \in Cells
    BY <1>3
  <1> QED
    BY <1>1, <1>2, <1>4

LEMMA WrittenCells ==
    ASSUME OldInv, CellsInv, NEW b, Len(b) \in Nat, \A j \in 1..Len(b) : b[j] \in Cells
    PROVE  /\ \A a \in DOMAIN Written(b) : Written(b)[a] \in Cells
           /\ \A a \in DOMAIN Spoil(flash, Touched(b)) : Spoil(flash, Touched(b))[a] \in Cells
  <1> DEFINE f == IF currentAddress % SectorSize = 0 THEN Wipe(flash, SectorOf(currentAddress)) ELSE flash
  <1>1. \A a \in DOMAIN f : f[a] \in Cells
    BY WipedCells DEF CellsInv
  <1>2. (\A a \in DOMAIN f : a \in Int) /\ currentAddress \in Int
    BY DEF OldInv, Locals, FlashInv, Wipe
  <1>3. Written(b) = Program(f, currentAddress, b)
    BY DEF Written
  <1> HIDE DEF f
  <1>4. \A a \in DOMAIN Written(b) : Written(b)[a] \in Cells
    BY <1>1, <1>2, <1>3, ProgrammedCells
  <1> QED
    BY <1>4, WipedCells DEF CellsInv

\* What an update has been given is of the image.
LEMMA HeldCells ==
    ASSUME OldInv, UploadInv, size > 0, size <= FsStart, NEW b, Len(b) \in Nat, Holds(b),
           progress + Len(b) <= size
    PROVE  \A j \in 1..Len(b) : b[j] \in Cells
  <1> SUFFICES ASSUME NEW j \in 1..Len(b) PROVE b[j] \in Cells
    OBVIOUS
  <1>1. progress \in Nat /\ upload \in Images /\ size \in Nat
    BY Progress
  <1>2. progress + j - 1 \in 0..FsStart
    BY <1>1, SectorAssumption
  <1>3. b[j] = <<upload, progress + j - 1>>
    BY DEF Holds
  <1> QED
    BY <1>1, <1>2, <1>3 DEF Cells

\* What the next k units make of flash.
LEMMA WriteBufferCells ==
    ASSUME OldInv, UploadInv, TypeInv, size > 0, NEW k \in Nat, sent + k <= size,
           \/ WriteBufferOk(buffer \o NextUnits(k)) \/ WriteBufferFails(buffer \o NextUnits(k))
           \/ flash' = flash
    PROVE  CellsInv'
  <1> DEFINE b == buffer \o NextUnits(k)
  <1>1. Holds(b) /\ Len(b) = Len(buffer) + k /\ Len(buffer) \in Nat
    BY Buffered
  <1>2. progress \in Nat /\ sent = progress + Len(buffer) /\ size \in Nat /\ size <= FsStart
    BY Progress DEF TypeInv, Idle
  <1> HIDE DEF b
  <1>3. Len(b) \in Nat /\ progress + Len(b) <= size
    BY <1>1, <1>2
  <1>4. \A j \in 1..Len(b) : b[j] \in Cells
    BY <1>1, <1>2, <1>3, HeldCells
  <1>5. /\ \A a \in DOMAIN Written(b) : Written(b)[a] \in Cells
        /\ \A a \in DOMAIN Spoil(flash, Touched(b)) : Spoil(flash, Touched(b))[a] \in Cells
    BY <1>3, <1>4, WrittenCells DEF TypeInv
  <1>6. flash' = Written(b) \/ flash' = Spoil(flash, Touched(b)) \/ flash' = flash
    BY DEF WriteBufferOk, WriteBufferFails, b
  <1> QED
    BY <1>5, <1>6 DEF CellsInv, TypeInv

LEMMA WriteLoopCells ==
    ASSUME OldInv, UploadInv, TypeInv, StreamExtra = 0,
           WriteFull \/ WriteRest \/ (\E k \in 1..SectorSize : StreamRead(k))
    PROVE  CellsInv'
  <1>1. CASE WriteFull
    <2> DEFINE k == bufferSize - Len(buffer)
    <2>1. phase = "write" /\ Len(buffer) + left > bufferSize
          /\ (WriteBufferOk(buffer \o NextUnits(k)) \/ WriteBufferFails(buffer \o NextUnits(k)))
      BY <1>1 DEF WriteFull
    <2>2. size > 0
      BY <2>1 DEF OldInv, UpdateBehind
    <2>3. Len(buffer) \in Nat /\ left \in Int /\ sent \in Int /\ bufferSize \in Nat /\ size \in Nat
          /\ Len(buffer) <= bufferSize /\ sent + left <= size
      BY <2>1, <2>2, Progress DEF Amounts
    <2>4. k \in Nat /\ sent + k <= size
      BY <2>1, <2>3
    <2> HIDE DEF k
    <2> QED
      BY <2>1, <2>2, <2>4, WriteBufferCells
  <1>2. CASE WriteRest
    <2>1. phase = "write" /\ (WriteBufferOk(buffer \o NextUnits(left))
                              \/ WriteBufferFails(buffer \o NextUnits(left)) \/ flash' = flash)
      BY <1>2 DEF WriteRest
    <2>2. size > 0
      BY <2>1 DEF OldInv, UpdateBehind
    <2>3. left \in Nat /\ sent + left <= size
      BY <2>1, <2>2, Progress DEF Amounts
    <2> QED
      BY <2>1, <2>2, <2>3, WriteBufferCells
  <1>3. ASSUME NEW k \in 1..SectorSize, StreamRead(k) PROVE CellsInv'
    <2>1. phase = "stream" /\ sent + k <= SizeOf(upload) + StreamExtra
          /\ (WriteBufferOk(buffer \o NextUnits(k)) \/ WriteBufferFails(buffer \o NextUnits(k))
              \/ flash' = flash)
      BY <1>3 DEF StreamRead
    <2>2. size > 0 /\ k \in Nat
      BY <2>1, SectorAssumption DEF OldInv, UpdateBehind
    <2>3. sent + k <= size
      BY <2>1, <2>2, Progress DEF Amounts
    <2> QED
      BY <2>1, <2>2, <2>3, WriteBufferCells
  <1> QED
    BY <1>1, <1>2, <1>3

\* end() writes what is in the buffer.
LEMMA EndCells ==
    ASSUME OldInv, UploadInv, TypeInv, StreamExtra = 0,
           (\E even \in BOOLEAN : EndPremature(even) \/ EndComplete(even)) \/ EndFlushes
    PROVE  CellsInv'
  <1>1. CASE \E even \in BOOLEAN : EndPremature(even) \/ EndComplete(even)
    <2>1. flash' = flash
      BY <1>1 DEF EndPremature, EndComplete, mem
    <2> QED
      BY <2>1 DEF TypeInv, CellsInv
  <1>2. CASE EndFlushes
    <2>1. size > 0 /\ phase = "sketch"
          /\ (flash' = Written(buffer) \/ flash' = Spoil(flash, Touched(buffer)))
      BY <1>2 DEF EndFlushes, Running, EndCall, InSketch
    <2>2. Holds(buffer) /\ Len(buffer) \in Nat
      <3>1. 0 \in Nat
        OBVIOUS
      <3> QED
        BY <2>1, <3>1, Buffered
    <2>3. progress + Len(buffer) <= size /\ size <= FsStart
      BY <2>1, Progress DEF Amounts, TypeInv, Idle
    <2>4. \A j \in 1..Len(buffer) : buffer[j] \in Cells
      BY <2>1, <2>2, <2>3, HeldCells
    <2> QED
      BY <2>1, <2>2, <2>4, WrittenCells DEF TypeInv, CellsInv
  <1> QED
    BY <1>1, <1>2

\* The length of a sequence that is written as a function.
LEMMA LengthOf ==
    ASSUME NEW n \in Nat, NEW s, DOMAIN s = 1..n, s = [k \in 1..n |-> s[k]]
    PROVE  Len(s) = n
  <1> DEFINE T == {s[k] : k \in 1..n}
             m == Len(s)
  <1>1. s \in [1..n -> T]
    OBVIOUS
  <1>2. s \in Seq(T)
    BY <1>1, SeqDef
  <1>3. 1..m = 1..n /\ m \in Nat
    BY <1>1, <1>2, LenProperties
  <1> HIDE DEF m
  <1>4. \A k \in Nat : k \in 1..m <=> k \in 1..n
    BY ONLY <1>3
  <1>5. m = n
    BY ONLY <1>3, <1>4, n \in Nat
  <1> QED
    BY <1>5 DEF m

\* A larger update takes no less room.
LEMMA RoundedGrows ==
    ASSUME NEW a \in Nat, NEW b \in Nat, a <= b
    PROVE  Rounded(a) <= Rounded(b) /\ Rounded(a) \in Nat /\ Rounded(b) \in Nat
  <1> DEFINE x == a + SectorSize - 1
             y == b + SectorSize - 1
             d == x \div SectorSize
             e == y \div SectorSize
  <1>1. SectorSize \in Nat \ {0} /\ x \in Nat /\ y \in Nat /\ x <= y
    BY SectorAssumption
  <1> HIDE DEF x, y
  <1>2. /\ d \in Nat /\ e \in Nat /\ d * SectorSize <= x /\ y < e * SectorSize + SectorSize
        /\ d * SectorSize \in Nat /\ e * SectorSize \in Nat
    BY <1>1, DivMult
  <1> HIDE DEF d, e
  <1>3. (e + 1) * SectorSize = e * SectorSize + SectorSize
    BY <1>1, <1>2
  <1>4. d * SectorSize < (e + 1) * SectorSize
    BY <1>1, <1>2, <1>3
  <1>5. d < e + 1
    BY <1>1, <1>2, <1>4, NextMultiple
  <1>6. d * SectorSize <= e * SectorSize
    BY <1>1, <1>2, <1>5, ProductGrows
  <1> QED
    BY <1>2, <1>6 DEF Rounded, d, e, x, y

LEMMA CopyEraseTypes ==
    ASSUME OldInv, BootInv, TypeInv, CopyErase
    PROVE  CellsInv' /\ SectorInv'
  <1>1. /\ phase = "copy" /\ LeftToCopy > 0 /\ flash' = Wipe(flash, DestOf(done))
        /\ sector' = [k \in 1..SectorSize |-> flash'[cmd.src + done * SectorSize + k - 1]]
    BY DEF CopyErase
  <1>2. CellsInv'
    BY <1>1, WipedCells DEF TypeInv, CellsInv
  <1>3. rtc # None /\ cmd = rtc /\ done \in Nat /\ rtc.src \in Nat /\ rtc.size \in Nat
    BY <1>1 DEF BootInv, Counters
  <1>4. SectorSize \in Nat \ {0} /\ FsStart \in Nat /\ DOMAIN flash' = 0..FsStart + SectorSize - 1
    BY <1>1, SectorAssumption DEF OldInv, FlashInv, Wipe
  <1> DEFINE D == done * SectorSize
             R == Rounded(rtc.size)
  <1>5. D \in Nat /\ R \in Nat /\ rtc.src + R <= FsStart /\ D < R
    <2>1. D \in Nat /\ R \in Nat
      BY SMTT(30), <1>3, <1>4, RoundedUp
    <2>2. rtc.src + R <= FsStart
      BY <1>3 DEF TypeInv, AnnouncedFits
    <2>3. R - D > 0
      BY <1>1, <1>3 DEF LeftToCopy
    <2> HIDE DEF D, R
    <2> QED
      BY <2>1, <2>2, <2>3
  <1>6. D + SectorSize <= R
    <2>1. PICK q \in Nat : R = q * SectorSize
      BY <1>3, Rounding
    <2> QED
      BY <1>3, <1>4, <1>5, <2>1, NextMultiple
  <1>7. sector' = [k \in 1..SectorSize |-> flash'[cmd.src + D + k - 1]]
    BY <1>1
  <1> HIDE DEF D, R
  <1>8. Len(sector') = SectorSize
    BY <1>4, <1>7, LengthOf
  <1>9. ASSUME NEW k \in 1..SectorSize PROVE sector'[k] \in Cells
    <2>1. cmd.src + D + k - 1 \in DOMAIN flash'
      BY <1>3, <1>4, <1>5, <1>6
    <2>2. sector'[k] = flash'[cmd.src + D + k - 1]
      BY <1>7
    <2> QED
      BY <1>2, <2>1, <2>2 DEF CellsInv
  <1> QED
    BY <1>2, <1>8, <1>9 DEF SectorInv

LEMMA CopyWriteCells ==
    ASSUME OldInv, BootInv, TypeInv, CopyWrite
    PROVE  CellsInv'
  <1>1. phase = "copyWrite" /\ flash' = Program(flash, done * SectorSize, sector)
    BY DEF CopyWrite
  <1>2. Len(sector) \in Nat /\ \A k \in 1..Len(sector) : sector[k] \in Cells
    BY <1>1, SectorAssumption DEF TypeInv, SectorInv
  <1>3. done * SectorSize \in Int /\ \A a \in DOMAIN flash : a \in Int /\ flash[a] \in Cells
    BY SectorAssumption DEF BootInv, Counters, OldInv, FlashInv, TypeInv, CellsInv
  <1> QED
    BY <1>1, <1>2, <1>3, ProgrammedCells DEF CellsInv

LEMMA CellsStep ==
    OldInv /\ UploadInv /\ BootInv /\ TypeInv /\ StreamExtra = 0 /\ [Next]_vars => CellsInv'
  <1> SUFFICES ASSUME OldInv, UploadInv, BootInv, TypeInv, StreamExtra = 0, [Next]_vars
               PROVE  CellsInv'
    OBVIOUS
  <1>1. CASE flash' = flash
    BY <1>1 DEF TypeInv, CellsInv
  <1>2. CASE WriteFull \/ WriteRest \/ (\E k \in 1..SectorSize : StreamRead(k))
    BY <1>2, WriteLoopCells
  <1>3. CASE (\E even \in BOOLEAN : EndPremature(even) \/ EndComplete(even)) \/ EndFlushes
    BY <1>3, EndCells
  <1>4. CASE CopyErase
    BY <1>4, CopyEraseTypes
  <1>5. CASE CopyWrite
    BY <1>5, CopyWriteCells
  <1>6. CASE CopyFails
    BY <1>6, WipedCells DEF CopyFails, CellsInv, TypeInv
  <1>7. CASE BootStart \/ CopyEnds \/ ClearCommand \/ LoadApp \/ Reset \/ PowerCut \/ UNCHANGED vars
    <2>1. flash' = flash
      BY <1>7 DEF BootStart, CopyEnds, ClearCommand, LoadApp, Reset, PowerCut, Restart, vars, mem
    <2> QED
      BY <1>1, <2>1
  <1>8. ASSUME NEW i \in Images, NEW n \in Sizes \cup {FsStart},
               NEW b \in {PageSize, SectorSize}, Begin(i, n, b)
        PROVE  CellsInv'
    BY <1>1, <1>8 DEF Begin, mem
  <1>9. ASSUME NEW k \in 1..MaxChunk, WriteCall(k) \/ WriteSome(k) PROVE CellsInv'
    BY <1>1, <1>9 DEF WriteCall, WriteSome, mem
  <1>10. CASE WriteStream \/ StreamEnds
    BY <1>1, <1>10 DEF WriteStream, StreamEnds, mem
  <1> QED
    BY <1>2, <1>3, <1>4, <1>5, <1>6, <1>7, <1>8, <1>9, <1>10 DEF Next, Loader

\* The processor goes from one of its places to another.
LEMMA PlacesStep == TypeInv /\ [Next]_vars => Places'
  <1> SUFFICES ASSUME TypeInv, [Next]_vars PROVE Places'
    OBVIOUS
  <1>1. Places
    BY DEF TypeInv
  <1>2. ASSUME NEW i \in Images, NEW n \in Sizes \cup {FsStart},
               NEW b \in {PageSize, SectorSize}, Begin(i, n, b)
        PROVE  Places'
    BY <1>1, <1>2 DEF Begin, Places
  <1>3. ASSUME NEW k \in 1..MaxChunk, WriteCall(k) \/ WriteSome(k) PROVE Places'
    BY <1>1, <1>3 DEF WriteCall, WriteSome, Places
  <1>4. CASE WriteFull \/ WriteRest \/ WriteStream \/ StreamEnds
    BY <1>1, <1>4 DEF WriteFull, WriteRest, WriteStream, StreamEnds, Places
  <1>5. ASSUME NEW k \in 1..SectorSize, StreamRead(k) PROVE Places'
    BY <1>1, <1>5 DEF StreamRead, Places
  <1>6. CASE (\E even \in BOOLEAN : EndPremature(even) \/ EndComplete(even)) \/ EndFlushes
    <2>1. UNCHANGED <<phase, app>>
      BY <1>6 DEF EndPremature, EndComplete, EndFlushes, EndRest
    <2> QED
      BY <1>1, <2>1 DEF Places
  <1>7. CASE LoadApp
    <2>1. phase' = "sketch"
      BY <1>7 DEF LoadApp
    <2>2. app' \in Images \cup {Garbage}
      <3>1. CASE \E i \in Images : Whole(0, i)
        BY <1>7, <3>1 DEF LoadApp
      <3>2. CASE ~(\E i \in Images : Whole(0, i))
        BY <1>7, <3>2 DEF LoadApp
      <3> QED
        BY <3>1, <3>2
    <2> QED
      BY <2>1, <2>2 DEF Places
  <1>8. CASE BootStart \/ CopyErase \/ CopyWrite \/ CopyEnds \/ ClearCommand \/ CopyFails
    BY <1>1, <1>8 DEF BootStart, CopyErase, CopyWrite, CopyEnds, ClearCommand, CopyFails, Places
  <1>9. CASE Reset \/ PowerCut
    BY <1>9 DEF Reset, PowerCut, Restart, Places
  <1>10. CASE UNCHANGED vars
    BY <1>1, <1>10 DEF vars, Places
  <1> QED
    BY <1>2, <1>3, <1>4, <1>5, <1>6, <1>7, <1>8, <1>9, <1>10 DEF Next, Loader

LEMMA IdleAfter ==
    ASSUME TypeInv, ResetUpdater \/ UNCHANGED updater
    PROVE  Idle'
  <1>1. CASE ResetUpdater
    <2>1. size' = 0 /\ startAddress' = 0 /\ currentAddress' = 0 /\ buffer' = <<>> /\ FsStart \in Nat
      BY <1>1, SectorAssumption DEF ResetUpdater
    <2> QED
      BY <2>1 DEF Idle
  <1>2. CASE UNCHANGED updater
    BY <1>2 DEF TypeInv, Idle, updater
  <1> QED
    BY <1>1, <1>2

LEMMA IdleStep == OldInv /\ TypeInv /\ [Next]_vars => Idle'
  <1> SUFFICES ASSUME OldInv, TypeInv, [Next]_vars PROVE Idle'
    OBVIOUS
  <1>1. ASSUME NEW i \in Images, NEW n \in Sizes \cup {FsStart},
               NEW b \in {PageSize, SectorSize}, Begin(i, n, b)
        PROVE  Idle'
    <2>1. CASE Fits(n)
      <3>1. size' = n
        BY <1>1, <2>1 DEF Begin
      <3>2. SizeOf(i) \in 1..FsStart
        BY SizesAssumption DEF Images, SizeOf
      <3>3. n \in 1..FsStart
        BY <3>2, SizesAssumption, SectorAssumption
      <3> QED
        BY <3>1, <3>3, SectorAssumption DEF Idle
    <2>2. CASE ~Fits(n)
      BY <1>1, <2>2, IdleAfter DEF Begin, SetError
    <2> QED
      BY <2>1, <2>2
  <1>2. ASSUME NEW k \in 1..MaxChunk, WriteCall(k) \/ WriteSome(k) PROVE Idle'
    BY <1>2, IdleAfter DEF WriteCall, WriteSome, SetError
  <1>3. CASE WriteFull \/ WriteRest \/ (\E k \in 1..SectorSize : StreamRead(k))
    <2>1. ASSUME NEW b, WriteBufferFails(b) PROVE Idle'
      BY <2>1, IdleAfter DEF WriteBufferFails, SetError
    <2>2. (\E b : WriteBufferFails(b)) \/ size' = size
      BY <1>3 DEF WriteFull, WriteRest, StreamRead, WriteBufferOk
    <2>3. size > 0
      BY <1>3 DEF WriteFull, WriteRest, StreamRead, OldInv, UpdateBehind
    <2> QED
      BY <2>1, <2>2, <2>3 DEF TypeInv, Idle
  <1>4. CASE WriteStream \/ StreamEnds
    BY <1>4, IdleAfter DEF WriteStream, StreamEnds, SetError
  <1>5. CASE (\E even \in BOOLEAN : EndPremature(even) \/ EndComplete(even)) \/ EndFlushes
    BY <1>5, EndUploads, IdleAfter
  <1>6. CASE Loader \/ CopyFails
    <2>1. UNCHANGED updater
      BY <1>6 DEF Loader, BootStart, CopyErase, CopyWrite, CopyEnds, ClearCommand, LoadApp, CopyFails
    <2> QED
      BY <2>1, IdleAfter
  <1>7. CASE Reset \/ PowerCut
    BY <1>7, SectorAssumption DEF Reset, PowerCut, Restart, Idle
  <1>8. CASE UNCHANGED vars
    BY <1>8, IdleAfter DEF vars
  <1> QED
    BY <1>1, <1>2, <1>3, <1>4, <1>5, <1>6, <1>7, <1>8 DEF Next

\* What end() announces lies in the room of the update.
LEMMA StageFits ==
    ASSUME OldInv, UploadInv, TypeInv, size > 0, NEW n \in Nat, n <= size,
           NEW g, NEW cells, Stage(g, startAddress, n, cells) \/ Rejected(cells)
    PROVE  AnnouncedFits'
  <1>1. rtc' = rtc \/ rtc' = [src |-> startAddress, size |-> n]
    <2>1. CASE Rejected(cells)
      BY <2>1 DEF Rejected
    <2>2. CASE Stage(g, startAddress, n, cells) /\ (\E i \in Images : g[startAddress] = <<i, 0>>)
      BY <2>2 DEF Stage
    <2>3. CASE Stage(g, startAddress, n, cells) /\ ~(\E i \in Images : g[startAddress] = <<i, 0>>)
      BY <2>3 DEF Stage
    <2> QED
      BY <2>1, <2>2, <2>3
  <1>2. CASE rtc' = rtc
    BY <1>2 DEF TypeInv, AnnouncedFits
  <1>3. CASE rtc' = [src |-> startAddress, size |-> n]
    <2>1. startAddress + Rounded(size) = FsStart /\ size \in Nat /\ startAddress \in Nat
      BY DEF UploadInv, Uploading, OldInv, Locals
    <2>2. Rounded(n) <= Rounded(size) /\ Rounded(n) \in Nat /\ Rounded(size) \in Nat
      BY <2>1, RoundedGrows
    <2>3. rtc'.src = startAddress /\ rtc'.size = n
      BY <1>3
    <2>4. startAddress + Rounded(n) <= FsStart
      BY <2>1, <2>2
    <2>5. rtc'.src + Rounded(rtc'.size) <= FsStart
      BY <2>3, <2>4
    <2> QED
      BY <2>5 DEF AnnouncedFits
  <1> QED
    BY <1>1, <1>2, <1>3

LEMMA EndFits ==
    ASSUME OldInv, UploadInv, TypeInv, StreamExtra = 0,
           (\E even \in BOOLEAN : EndPremature(even) \/ EndComplete(even)) \/ EndFlushes
    PROVE  AnnouncedFits'
  <1>1. phase = "sketch"
    BY DEF EndPremature, EndComplete, EndFlushes, EndCall, InSketch
  <1>2. size > 0 => /\ progress \in Nat /\ progress <= size
                    /\ progress + Len(buffer) \in Nat /\ progress + Len(buffer) <= size
    <2> SUFFICES ASSUME size > 0
                 PROVE  /\ progress \in Nat /\ progress <= size
                        /\ progress + Len(buffer) \in Nat /\ progress + Len(buffer) <= size
      OBVIOUS
    <2>1. progress \in Nat /\ Len(buffer) \in Nat /\ sent = progress + Len(buffer) /\ sent <= size
          /\ size \in Nat
      BY <1>1, Progress DEF Amounts
    <2> QED
      BY <2>1
  <1>3. ASSUME NEW even \in BOOLEAN, EndPremature(even) PROVE AnnouncedFits'
    BY <1>3 DEF EndPremature, mem, TypeInv, AnnouncedFits
  <1>4. ASSUME NEW even \in BOOLEAN, EndComplete(even) PROVE AnnouncedFits'
    <2>1. size > 0 /\ (Rejected({}) \/ Stage(flash, startAddress, progress, {}))
      BY <1>4 DEF EndComplete, Running
    <2> QED
      BY <1>2, <2>1, StageFits
  <1>5. CASE EndFlushes
    <2> DEFINE c == Touched(buffer)
               n == progress + Len(buffer)
    <2>1. size > 0
      BY <1>5 DEF EndFlushes, Running
    <2>2. PICK g : g = flash'
      OBVIOUS
    <2>3. Rejected(c) \/ Stage(g, startAddress, n, c) \/ rtc' = [src |-> 0, size |-> 0]
      BY <1>5, <2>2 DEF EndFlushes
    <2> HIDE DEF c, n
    <2>4. n \in Nat /\ n <= size
      BY <1>2, <2>1 DEF n
    <2>5. CASE rtc' = [src |-> 0, size |-> 0]
      <3>1. rtc'.src = 0 /\ rtc'.size = 0
        BY <2>5
      <3>2. Rounded(0) = 0 /\ FsStart \in Nat
        BY SectorAssumption DEF Rounded
      <3>3. 0 + Rounded(0) <= FsStart
        BY <3>2
      <3>4. rtc'.src + Rounded(rtc'.size) <= FsStart
        BY <3>1, <3>3
      <3> QED
        BY <3>4 DEF AnnouncedFits
    <2> QED
      BY <2>1, <2>3, <2>4, <2>5, StageFits
  <1> QED
    BY <1>3, <1>4, <1>5

LEMMA AnnouncedStep ==
    OldInv /\ UploadInv /\ TypeInv /\ StreamExtra = 0 /\ [Next]_vars => AnnouncedFits'
  <1> SUFFICES ASSUME OldInv, UploadInv, TypeInv, StreamExtra = 0, [Next]_vars PROVE AnnouncedFits'
    OBVIOUS
  <1>1. CASE rtc' = rtc
    BY <1>1 DEF TypeInv, AnnouncedFits
  <1>2. CASE rtc' = None
    BY <1>2 DEF AnnouncedFits
  <1>3. CASE (\E even \in BOOLEAN : EndPremature(even) \/ EndComplete(even)) \/ EndFlushes
    BY <1>3, EndFits
  <1>4. ASSUME NEW i \in Images, NEW n \in Sizes \cup {FsStart},
               NEW b \in {PageSize, SectorSize}, Begin(i, n, b)
        PROVE  AnnouncedFits'
    BY <1>1, <1>4 DEF Begin, mem
  <1>5. ASSUME NEW k \in 1..MaxChunk, WriteCall(k) \/ WriteSome(k) PROVE AnnouncedFits'
    BY <1>1, <1>5 DEF WriteCall, WriteSome, mem
  <1>6. CASE WriteFull \/ WriteRest \/ (\E k \in 1..SectorSize : StreamRead(k))
    BY <1>1, <1>6 DEF WriteFull, WriteRest, StreamRead
  <1>7. CASE WriteStream \/ StreamEnds
    BY <1>1, <1>7 DEF WriteStream, StreamEnds, mem
  <1>8. CASE Loader \/ CopyFails
    BY <1>1, <1>2, <1>8 DEF Loader, BootStart, CopyErase, CopyWrite, CopyEnds, ClearCommand, LoadApp,
                            CopyFails, mem
  <1>9. CASE Reset \/ PowerCut
    BY <1>1, <1>2, <1>9 DEF Reset, PowerCut
  <1>10. CASE UNCHANGED vars
    BY <1>1, <1>10 DEF vars, mem
  <1> QED
    BY <1>3, <1>4, <1>5, <1>6, <1>7, <1>8, <1>9, <1>10 DEF Next

LEMMA SectorStep ==
    OldInv /\ BootInv /\ TypeInv /\ [Next]_vars => SectorInv'
  <1> SUFFICES ASSUME OldInv, BootInv, TypeInv, [Next]_vars, phase' = "copyWrite" PROVE SectorInv'
    BY DEF SectorInv
  <1>1. CASE CopyErase
    BY <1>1, CopyEraseTypes
  <1>2. CASE UNCHANGED vars
    BY <1>2 DEF vars, loader, TypeInv, SectorInv
  <1>3. CASE ~CopyErase /\ Next
    <2>1. ASSUME NEW i \in Images, NEW n \in Sizes \cup {FsStart},
                 NEW b \in {PageSize, SectorSize}, Begin(i, n, b)
          PROVE  FALSE
      BY <2>1 DEF Begin, InSketch
    <2>2. ASSUME NEW k \in 1..MaxChunk, WriteCall(k) \/ WriteSome(k) PROVE FALSE
      BY <2>2 DEF WriteCall, WriteSome, InSketch
    <2>3. ~(WriteFull \/ WriteRest \/ WriteStream \/ StreamEnds)
      BY DEF WriteFull, WriteRest, WriteStream, StreamEnds
    <2>4. ASSUME NEW k \in 1..SectorSize, StreamRead(k) PROVE FALSE
      BY <2>4 DEF StreamRead
    <2>5. ~((\E even \in BOOLEAN : EndPremature(even) \/ EndComplete(even)) \/ EndFlushes)
      BY DEF EndPremature, EndComplete, EndFlushes, EndCall, EndRest, InSketch
    <2>6. ~(BootStart \/ CopyWrite \/ CopyEnds \/ ClearCommand \/ LoadApp \/ CopyFails)
      BY DEF BootStart, CopyWrite, CopyEnds, ClearCommand, LoadApp, CopyFails
    <2>7. ~(Reset \/ PowerCut)
      BY DEF Reset, PowerCut, Restart
    <2> QED
      BY <1>3, <2>1, <2>2, <2>3, <2>4, <2>5, <2>6, <2>7 DEF Next, Loader
  <1> QED
    BY <1>1, <1>2, <1>3

LEMMA TypesHold == WholeInv /\ TypeInv /\ StreamExtra = 0 => TypeOK /\ StreamStaysInUpdate
  <1> SUFFICES ASSUME WholeInv, TypeInv, StreamExtra = 0 PROVE TypeOK /\ StreamStaysInUpdate
    OBVIOUS
  <1>1. OldInv /\ UploadInv /\ BootInv
    BY DEF WholeInv
  <1>2. DOMAIN flash = 0..FsStart + SectorSize - 1 /\ \A a \in DOMAIN flash : flash[a] \in Cells
    BY <1>1 DEF OldInv, FlashInv, TypeInv, CellsInv
  <1>3. rtc = None \/ (rtc.src \in 0..FsStart /\ rtc.size \in 0..FsStart)
    <2> SUFFICES ASSUME rtc # None PROVE rtc.src \in 0..FsStart /\ rtc.size \in 0..FsStart
      OBVIOUS
    <2>1. rtc.src \in Nat /\ rtc.size \in Nat
      BY <1>1 DEF BootInv, Counters
    <2>2. rtc.src + Rounded(rtc.size) <= FsStart /\ FsStart \in Nat
      BY SectorAssumption DEF TypeInv, AnnouncedFits
    <2>3. Rounded(rtc.size) \in Nat /\ Rounded(rtc.size) >= rtc.size
      BY <2>1, RoundedUp
    <2> QED
      BY <2>1, <2>2, <2>3
  <1>4. /\ size \in Nat /\ size <= FsStart /\ FsStart \in Nat /\ startAddress \in Nat
        /\ currentAddress \in Nat /\ currentAddress >= startAddress
    BY <1>1, SectorAssumption DEF OldInv, Locals, TypeInv, Idle
  <1>5. bufferSize \in {PageSize, SectorSize} /\ bufferSize \in Nat /\ Len(buffer) \in Nat
    BY <1>1, Progress DEF UploadInv
  <1>6. startAddress <= FsStart /\ currentAddress <= startAddress + size /\ Len(buffer) <= bufferSize
    <2>1. CASE size = 0
      <3>1. startAddress = 0 /\ currentAddress = 0 /\ Len(buffer) = 0
        BY <2>1 DEF TypeInv, Idle
      <3> QED
        BY <1>4, <1>5, <2>1, <3>1
    <2>2. CASE size > 0
      <3>1. startAddress + Rounded(size) = FsStart
        BY <1>1, <2>2 DEF UploadInv, Uploading
      <3>2. Rounded(size) \in Nat
        BY <1>4, RoundedUp
      <3>3. sent <= size /\ sent = progress + Len(buffer) /\ Len(buffer) <= bufferSize
        <4>1. Amounts /\ sent = progress + Len(buffer) /\ Len(buffer) <= bufferSize
          BY <1>1, <2>2, Progress
        <4>2. phase = "stream" => sent <= size
          BY <1>4, <4>1 DEF Amounts
        <4> QED
          BY <4>1, <4>2 DEF Amounts
      <3>4. progress = currentAddress - startAddress
        BY DEF progress
      <3> QED
        BY <1>4, <1>5, <3>1, <3>2, <3>3, <3>4
    <2> QED
      BY <1>4, <2>1, <2>2
  <1>7. torn \in {"no", "overlap", "failed", "cut"} \cup Staging
    BY <1>1 DEF BootInv, Counters
  <1>8. size \in 0..FsStart /\ startAddress \in 0..FsStart
        /\ currentAddress \in startAddress..startAddress + size /\ Len(buffer) \in 0..bufferSize
    BY <1>4, <1>5, <1>6
  <1> QED
    BY <1>2, <1>3, <1>5, <1>6, <1>7, <1>8 DEF TypeOK, StreamStaysInUpdate, TypeInv, Places

LEMMA TypeStep == StreamExtra = 0 /\ WholeInv /\ TypeInv /\ [Next]_vars => TypeInv'
  BY CellsStep, PlacesStep, IdleStep, AnnouncedStep, SectorStep DEF WholeInv, TypeInv

\* Every address stays in the room for sketch and update, and flash holds
\* nothing but units of images: no write, no announcement and no sector of a copy
\* reaches the file system, when a stream ends with its image (Updater.cpp:
\* 333-536, eboot.c:119-203).
THEOREM TypeCorrect ==
    ASSUME StreamExtra = 0 PROVE Spec => []TypeOK
  <1>1. Init => WholeInv /\ TypeInv
    BY WholeInit, TypeInit
  <1>2. WholeInv /\ TypeInv /\ [Next]_vars => (WholeInv /\ TypeInv)'
    BY WholeStep, TypeStep
  <1>3. WholeInv /\ TypeInv => TypeOK
    BY TypesHold
  <1> QED
    BY <1>1, <1>2, <1>3, PTL DEF Spec

\* writeStream does not write beyond the update when its stream holds no more
\* than the image: what MCUpdaterStream finds needs more to follow it
\* (Updater.cpp:482-536).
THEOREM ShortStreamStaysInUpdate ==
    ASSUME StreamExtra = 0 PROVE Spec => []StreamStaysInUpdate
  <1>1. Init => WholeInv /\ TypeInv
    BY WholeInit, TypeInit
  <1>2. WholeInv /\ TypeInv /\ [Next]_vars => (WholeInv /\ TypeInv)'
    BY WholeStep, TypeStep
  <1>3. WholeInv /\ TypeInv => StreamStaysInUpdate
    BY TypesHold
  <1> QED
    BY <1>1, <1>2, <1>3, PTL DEF Spec

=============================================================================
