------------------------------ MODULE Updater -------------------------------
(***************************************************************************)
(* A firmware update: the sketch stages a new image in flash               *)
(* (cores/esp8266/Updater.cpp), leaves a command for the boot loader in    *)
(* RTC memory (core_esp8266_eboot_command.cpp) and restarts; the boot      *)
(* loader (bootloaders/eboot/eboot.c) copies the staged image over the old *)
(* sketch and starts what lies at address 0.                               *)
(*                                                                         *)
(* Flash is an array of units, SectorSize of them to a sector and PageSize *)
(* of them to the small write buffer.  It survives everything; RTC memory  *)
(* survives a reset and not a power cut; all else is lost by either.       *)
(* Only U_FLASH images, written raw, are modelled.                         *)
(***************************************************************************)
EXTENDS Integers, Sequences, FiniteSetsExt, SequencesExt

CONSTANTS
    SectorSize,     \* FLASH_SECTOR_SIZE
    PageSize,       \* 256: the buffer when there is little heap
    FsStart,        \* _FS_start: where the room for sketch and update ends
    Sizes,          \* the sizes of the images
    Versions,       \* images of one size
    MaxChunk,       \* the most a caller passes to one write()
    StreamExtra,    \* units that follow the image in the stream of writeStream
    \* what a unit of flash holds, beside unit k of an image, which is <<image, k>>
    Erased,
    Garbage,        \* programmed twice, or by an operation that failed
    FsData,         \* the file system's, from FsStart on
    None,           \* no command, no image
    \* bounds of the model: updates begun, flash failures, resets, power cuts
    MaxUpdates, MaxFails, MaxResets, MaxCuts

ASSUME SectorAssumption ==
    /\ SectorSize \in Nat \ {0} /\ PageSize \in 1..SectorSize /\ SectorSize % PageSize = 0
    /\ FsStart \in Nat /\ FsStart % SectorSize = 0

ASSUME BoundAssumption ==
    {MaxChunk, StreamExtra, MaxUpdates, MaxFails, MaxResets, MaxCuts} \subseteq Nat

\* The linker refuses a sketch that does not fit.
ASSUME SizesAssumption == Sizes \subseteq 1..FsStart

Images == Sizes \X Versions

ASSUME CellAssumption ==
    /\ {Erased, Garbage, FsData, None} \cap Images = {}
    /\ None # Garbage /\ None \notin [src : Nat, size : Nat]

SizeOf(i) == i[1]

VARIABLES
    flash, rtc,
    phase,       \* what the processor is doing
    app,         \* the image that runs, or None, or Garbage
    \* UpdaterClass
    error, size, startAddress, currentAddress, buffer, bufferSize,
    \* the caller: the image it uploads, what of it was taken, the rest of len in write()
    upload, sent, left,
    \* the boot loader: its command, sectors copied, its sector buffer, res
    cmd, done, sector, res,
    \* history
    erased,      \* sectors at 0 the copy for this command has erased
    torn,        \* why the image at 0 or the staged one may be in pieces
    ended,       \* what the last end() returned
    updates, fails, resets, cuts

mem     == <<flash, rtc>>
updater == <<error, size, startAddress, currentAddress, buffer, bufferSize>>
caller  == <<upload, sent, left>>
loader  == <<cmd, done, sector, res>>
history == <<erased, torn, ended, updates, fails, resets, cuts>>
vars    == <<mem, phase, app, updater, caller, loader, history>>

-----------------------------------------------------------------------------
(* Flash.                                                                  *)

Rounded(n) == ((n + SectorSize - 1) \div SectorSize) * SectorSize

Units(a, n)   == a .. a + n - 1
SectorOf(a)   == Units((a \div SectorSize) * SectorSize, SectorSize)
Whole(a, i)   == \A k \in 0..SizeOf(i) - 1 : flash[a + k] = <<i, k>>

Wipe(f, cells)   == [a \in DOMAIN f |-> IF a \in cells THEN Erased ELSE f[a]]
Spoil(f, cells)  == [a \in DOMAIN f |-> IF a \in cells THEN Garbage ELSE f[a]]
Program(f, a, s) == [b \in DOMAIN f |-> IF b \in Units(a, Len(s))
                                        THEN IF f[b] = Erased THEN s[b - a + 1] ELSE Garbage
                                        ELSE f[b]]

-----------------------------------------------------------------------------
(* The sketch's side: UpdaterClass.                                        *)

Running    == size > 0
progress   == currentAddress - startAddress
remaining  == size - progress

\* _reset
ResetUpdater ==
    /\ size' = 0 /\ startAddress' = 0 /\ currentAddress' = 0 /\ buffer' = <<>>
    /\ UNCHANGED bufferSize

\* _setError
SetError(e) == error' = e /\ ResetUpdater

\* The next k units the caller has
NextUnits(k) == [j \in 1..k |-> <<upload, sent + j - 1>>]

\* Erasing and programming what an earlier update has staged, whose command
\* is still in RTC memory: begin() leaves it there.
Restages(cells) ==
    torn' = IF rtc # None /\ torn = "no" /\ cells \cap Units(rtc.src, Rounded(rtc.size)) # {}
            THEN "restaged" ELSE torn

\* What _writeBuffer touches with the buffer b.
Touched(b) ==
    Units(currentAddress, Len(b)) \cup
    (IF currentAddress % SectorSize = 0 THEN SectorOf(currentAddress) ELSE {})

\* Flash after _writeBuffer: erased at the first unit of a sector, then programmed.
Written(b) ==
    Program(IF currentAddress % SectorSize = 0 THEN Wipe(flash, SectorOf(currentAddress)) ELSE flash,
            currentAddress, b)

WriteBufferOk(b) ==
    /\ flash' = Written(b)
    /\ currentAddress' = currentAddress + Len(b)
    /\ buffer' = <<>>
    /\ Restages(Touched(b))
    /\ UNCHANGED <<error, size, startAddress, bufferSize, fails>>

\* The erase or the programming fails.
WriteBufferFails(b) ==
    /\ fails < MaxFails /\ fails' = fails + 1
    /\ flash' = Spoil(flash, Touched(b))
    /\ Restages(Touched(b))
    /\ SetError("flash")

InSketch == phase = "sketch" /\ app \in Images

\* An update ends where the file system begins.
StartFor(n) == IF FsStart > Rounded(n) THEN FsStart - Rounded(n) ELSE 0

\* Mutant: only the update must fit.
Fits_Alone(n) == Rounded(n) <= FsStart

\* Both sketches fit.
Fits(n) == StartFor(n) >= Rounded(SizeOf(app))

\* begin, with no update running (else it returns false and changes nothing)
Begin(i, n, b) ==
    /\ InSketch /\ ~Running /\ updates < MaxUpdates
    /\ updates' = updates + 1
    /\ IF Fits(n)
       THEN /\ error' = "ok" /\ size' = n /\ buffer' = <<>> /\ bufferSize' = b
            /\ startAddress' = StartFor(n) /\ currentAddress' = StartFor(n)
       ELSE SetError("space")
    /\ upload' = i /\ sent' = 0 /\ ended' = FALSE
    /\ UNCHANGED <<mem, phase, app, left, loader, erased, torn, fails, resets, cuts>>

\* write(data, len): too much is an error; else the loop below runs.
WriteCall(k) ==
    /\ InSketch /\ Running /\ error = "ok" /\ upload # None
    /\ sent + k <= SizeOf(upload)
    /\ IF progress + Len(buffer) + k > size
       THEN SetError("space") /\ UNCHANGED <<phase, left>>
       ELSE phase' = "write" /\ left' = k /\ UNCHANGED updater
    /\ UNCHANGED <<mem, app, upload, sent, loader, history>>

\* Mutant: what waits in the buffer is not counted.
WriteSome_Uncapped(k) ==
    /\ InSketch /\ Running /\ error = "ok" /\ upload # None
    /\ sent + k <= SizeOf(upload)
    /\ phase' = "write" /\ left' = Min({k, remaining}) /\ left' > 0
    /\ UNCHANGED <<mem, app, updater, upload, sent, loader, history>>

\* The template write(T&): what is beyond the update is left in the source.
WriteSome(k) ==
    /\ InSketch /\ Running /\ error = "ok" /\ upload # None
    /\ sent + k <= SizeOf(upload)
    /\ phase' = "write" /\ left' = Min({k, remaining - Len(buffer)}) /\ left' > 0
    /\ UNCHANGED <<mem, app, updater, upload, sent, loader, history>>

\* One turn of the loop of write(): the buffer overflows and is written.
WriteFull ==
    LET k == bufferSize - Len(buffer) IN
    /\ phase = "write" /\ Len(buffer) + left > bufferSize
    /\ sent' = sent + k
    /\ \/ WriteBufferOk(buffer \o NextUnits(k)) /\ left' = left - k /\ UNCHANGED phase
       \/ WriteBufferFails(buffer \o NextUnits(k)) /\ left' = 0 /\ phase' = "sketch"
    /\ UNCHANGED <<rtc, app, upload, loader, erased, ended, updates, resets, cuts>>

\* The rest goes into the buffer, which is written at the end of the update.
WriteRest ==
    LET b == buffer \o NextUnits(left) IN
    /\ phase = "write" /\ Len(b) <= bufferSize
    /\ phase' = "sketch" /\ left' = 0 /\ sent' = sent + left
    /\ IF Len(b) = remaining
       THEN WriteBufferOk(b) \/ WriteBufferFails(b)
       ELSE /\ buffer' = b
            /\ UNCHANGED <<flash, error, size, startAddress, currentAddress, bufferSize, torn, fails>>
    /\ UNCHANGED <<rtc, app, upload, loader, erased, ended, updates, resets, cuts>>

\* writeStream, of a stream that begins with the image
WriteStream ==
    /\ InSketch /\ Running /\ error = "ok" /\ upload # None
    /\ sent = 0 /\ size = SizeOf(upload)
    /\ phase' = "stream"
    /\ UNCHANGED <<mem, app, updater, caller, loader, history>>

\* readBytes asks for the room in the buffer, or for remaining() if that is
\* less; a remaining() below zero is a large size_t.  It may time out early.
BytesToRead ==
    IF remaining > 0 THEN Min({bufferSize - Len(buffer), remaining}) ELSE bufferSize - Len(buffer)
StreamRead(k) ==
    LET b == buffer \o NextUnits(k) IN
    /\ phase = "stream" /\ remaining # 0
    /\ k <= BytesToRead /\ sent + k <= SizeOf(upload) + StreamExtra
    /\ sent' = sent + k
    /\ IF Len(b) = remaining \/ Len(b) = bufferSize
       THEN \/ WriteBufferOk(b) /\ UNCHANGED phase
            \/ WriteBufferFails(b) /\ phase' = "sketch"
       ELSE /\ buffer' = b
            /\ UNCHANGED <<phase, flash, error, size, startAddress, currentAddress, bufferSize, torn, fails>>
    /\ UNCHANGED <<rtc, app, upload, left, loader, erased, ended, updates, resets, cuts>>

\* The loop ends: all is written, or the stream gave nothing, twice.  The second
\* is also what becomes of a stream whose first byte is not that of an image, or
\* not yet there, when writeStream looks at it before the loop: an error, with
\* the addresses reset and nothing written.
StreamEnds ==
    /\ phase = "stream" /\ phase' = "sketch"
    /\ \/ remaining = 0 /\ UNCHANGED updater
       \/ remaining # 0 /\ SetError("stream")
    /\ UNCHANGED <<mem, app, caller, loader, history>>

\* What may be wrong with a staged image, as long as it is only staged: one
\* written over another, one whose caller declared less than its size and ended
\* the update there.
Staging == {"restaged", "truncated"}

\* What end() does, having just written cells of flash, with an update that
\* starts at a and has n units, over f: _verifyEnd looks for the first byte of
\* an image, eboot_command_write leaves the command, and the update is over.
Stage(f, a, n, cells) ==
    IF \E i \in Images : f[a] = <<i, 0>>
    THEN /\ rtc' = [src |-> a, size |-> n]
         /\ torn' = IF sent # SizeOf(upload) THEN "truncated"
                    ELSE IF torn \in Staging THEN "no" ELSE torn
         /\ ended' = TRUE /\ error' = error /\ ResetUpdater
    ELSE ended' = FALSE /\ SetError("magic") /\ Restages(cells) /\ UNCHANGED rtc

\* The MD5 or the signature of the update is not the expected one.
Rejected(cells) ==
    ended' = FALSE /\ SetError("md5") /\ Restages(cells) /\ UNCHANGED rtc

\* end(evenIfRemaining).  A caller that does not know the size passes TRUE when
\* the stream is at its end; FALSE is called at any time.
EndCall(even) == InSketch /\ upload # None /\ (even => sent = SizeOf(upload))
EndRest ==
    /\ upload' = None /\ sent' = 0
    /\ UNCHANGED <<phase, app, left, loader, erased, updates, resets, cuts>>

EndPremature(even) ==
    /\ EndCall(even)
    /\ ~Running \/ error # "ok" \/ (remaining # 0 /\ ~even)
    /\ ended' = FALSE /\ error' = error /\ ResetUpdater
    /\ UNCHANGED <<mem, torn, fails>>
    /\ EndRest

EndComplete(even) ==
    /\ EndCall(even)
    /\ Running /\ error = "ok" /\ (remaining = 0 \/ even)
    /\ ~even \/ buffer = <<>>
    /\ Rejected({}) \/ Stage(flash, startAddress, progress, {})
    /\ UNCHANGED <<flash, fails>>
    /\ EndRest

\* What is left in the buffer is written first.  When that fails _setError has
\* set start and progress to 0 by the time they are used, and the header that is
\* verified is the one of the sketch that runs.
EndFlushes ==
    /\ EndCall(TRUE)
    /\ Running /\ error = "ok" /\ buffer # <<>>
    /\ \/ /\ flash' = Written(buffer) /\ UNCHANGED fails
          /\ \/ Rejected(Touched(buffer))
             \/ Stage(flash', startAddress, progress + Len(buffer), Touched(buffer))
       \/ /\ fails < MaxFails /\ fails' = fails + 1
          /\ flash' = Spoil(flash, Touched(buffer))
          /\ \/ Rejected(Touched(buffer))
             \/ /\ flash'[0] = <<app, 0>>
                /\ rtc' = [src |-> 0, size |-> 0]
                /\ torn' = IF torn \in Staging THEN "no" ELSE torn
                /\ ended' = TRUE /\ error' = "flash" /\ ResetUpdater
    /\ EndRest

-----------------------------------------------------------------------------
(* The boot loader.                                                        *)

\* Mutant: the command is cleared when it has been read.
BootStart_ClearsFirst ==
    /\ phase = "boot"
    /\ cmd' = rtc /\ done' = 0 /\ res' = TRUE /\ rtc' = None
    /\ phase' = IF rtc = None THEN "load" ELSE "copy"
    /\ UNCHANGED <<flash, app, updater, caller, sector, history>>

\* eboot_command_read: without a command the sketch is loaded.
BootStart ==
    /\ phase = "boot"
    /\ cmd' = rtc /\ done' = 0 /\ res' = TRUE
    /\ phase' = IF rtc = None THEN "load" ELSE "copy"
    /\ UNCHANGED <<mem, app, updater, caller, sector, history>>

DestOf(n) == Units(n * SectorSize, SectorSize)

\* Mutant: a last sector that is not full is not copied.
LeftToCopy_FullSectors == (cmd.size \div SectorSize - done) * SectorSize

\* copy_raw, sector by sector: the destination is erased, then the source read,
LeftToCopy == Rounded(cmd.size) - done * SectorSize
CopyErase ==
    /\ phase = "copy" /\ LeftToCopy > 0
    /\ flash' = Wipe(flash, DestOf(done)) /\ erased' = Max({erased, done + 1})
    /\ sector' = [k \in 1..SectorSize |-> flash'[cmd.src + done * SectorSize + k - 1]]
    /\ phase' = "copyWrite"
    /\ UNCHANGED <<rtc, app, updater, caller, cmd, done, res, torn, ended, updates, fails, resets, cuts>>

\* and the destination programmed.
CopyWrite ==
    /\ phase = "copyWrite"
    /\ flash' = Program(flash, done * SectorSize, sector)
    /\ done' = done + 1 /\ phase' = "copy"
    /\ UNCHANGED <<rtc, app, updater, caller, cmd, sector, res, history>>

\* An erase, a read or a programming fails, and copy_raw returns its number.
CopyFails ==
    /\ phase \in {"copy", "copyWrite"} /\ LeftToCopy > 0
    /\ fails < MaxFails /\ fails' = fails + 1
    /\ flash' = Spoil(flash, DestOf(done)) /\ erased' = Max({erased, done + 1})
    /\ res' = FALSE /\ phase' = "clear"
    /\ UNCHANGED <<rtc, app, updater, caller, cmd, done, sector, torn, ended, updates, resets, cuts>>

CopyEnds ==
    /\ phase = "copy" /\ LeftToCopy <= 0
    /\ phase' = "clear"
    /\ UNCHANGED <<mem, app, updater, caller, loader, history>>

\* eboot_command_clear; after a copy that failed the processor is reset.
ClearCommand ==
    /\ phase = "clear"
    /\ rtc' = None /\ erased' = 0
    /\ phase' = IF res THEN "load" ELSE "boot"
    /\ torn' = IF torn = "no" /\ ~res THEN "failed" ELSE torn
    /\ UNCHANGED <<flash, app, updater, caller, loader, ended, updates, fails, resets, cuts>>

\* load_app_from_flash_raw(0): what starts is what lies there.
LoadApp ==
    /\ phase = "load" /\ phase' = "sketch"
    /\ app' = IF \E i \in Images : Whole(0, i) THEN CHOOSE i \in Images : Whole(0, i) ELSE Garbage
    /\ UNCHANGED <<mem, updater, caller, loader, history>>

-----------------------------------------------------------------------------
(* Restarts.                                                               *)

\* What is in RAM is gone.
Restart ==
    /\ phase' = "boot" /\ app' = None
    /\ error' = "ok" /\ size' = 0 /\ startAddress' = 0 /\ currentAddress' = 0
    /\ buffer' = <<>> /\ bufferSize' = PageSize
    /\ upload' = None /\ sent' = 0 /\ left' = 0
    /\ cmd' = None /\ done' = 0 /\ sector' = <<>> /\ res' = TRUE
    /\ UNCHANGED <<flash, ended, updates, fails>>

\* ESP.restart(), the watchdog, the reset button.  The command is still there
\* and the copy begins again: from staged sectors it has itself overwritten,
\* when the image is longer than what lies before them.
Reset ==
    /\ phase # "boot" /\ resets < MaxResets /\ resets' = resets + 1
    /\ torn' = IF torn = "no" /\ rtc # None /\ erased * SectorSize > rtc.src /\ erased > 0
               THEN "overlap" ELSE torn
    /\ Restart
    /\ UNCHANGED <<rtc, erased, cuts>>

\* The command is lost with the power: in the middle of a copy, half of one is
\* at 0; before it, the old sketch, whatever is staged.
PowerCut ==
    /\ cuts < MaxCuts /\ cuts' = cuts + 1
    /\ rtc' = None /\ erased' = 0
    /\ torn' = IF erased > 0 THEN IF torn \in Staging \cup {"no"} THEN "cut" ELSE torn
               ELSE IF torn \in Staging /\ rtc # None THEN "no" ELSE torn
    /\ Restart
    /\ UNCHANGED resets

-----------------------------------------------------------------------------

\* The sketch was written through the serial port; the update area holds nothing.
Init ==
    /\ \E i \in Images :
         /\ app = i
         /\ flash = [a \in 0..FsStart + SectorSize - 1 |->
                       IF a >= FsStart THEN FsData ELSE IF a < SizeOf(i) THEN <<i, a>> ELSE Erased]
         /\ Rounded(SizeOf(i)) <= FsStart
    /\ rtc = None /\ phase = "sketch"
    /\ error = "ok" /\ size = 0 /\ startAddress = 0 /\ currentAddress = 0
    /\ buffer = <<>> /\ bufferSize = PageSize
    /\ upload = None /\ sent = 0 /\ left = 0
    /\ cmd = None /\ done = 0 /\ sector = <<>> /\ res = TRUE
    /\ erased = 0 /\ torn = "no" /\ ended = FALSE /\ updates = 0 /\ fails = 0 /\ resets = 0 /\ cuts = 0

Loader == BootStart \/ CopyErase \/ CopyWrite \/ CopyEnds \/ ClearCommand \/ LoadApp

Next ==
    \/ \E i \in Images, n \in Sizes \cup {FsStart}, b \in {PageSize, SectorSize} : Begin(i, n, b)
    \/ \E k \in 1..MaxChunk : WriteCall(k) \/ WriteSome(k)
    \/ WriteFull \/ WriteRest
    \/ WriteStream
    \/ \E k \in 1..SectorSize : StreamRead(k)
    \/ StreamEnds
    \/ \E even \in BOOLEAN : EndPremature(even) \/ EndComplete(even)
    \/ EndFlushes
    \/ Loader \/ CopyFails
    \/ Reset \/ PowerCut

\* The boot loader runs with the watchdog off until it has started a sketch.
Spec == Init /\ [][Next]_vars /\ WF_vars(Loader)

-----------------------------------------------------------------------------
(* Properties.                                                             *)

Cells == (Images \X (0..FsStart)) \cup {Erased, Garbage, FsData}

TypeOK ==
    /\ DOMAIN flash = 0..FsStart + SectorSize - 1 /\ \A a \in DOMAIN flash : flash[a] \in Cells
    /\ rtc = None \/ (rtc.src \in 0..FsStart /\ rtc.size \in 0..FsStart)
    /\ phase \in {"sketch", "write", "stream", "boot", "copy", "copyWrite", "clear", "load"}
    /\ app \in Images \cup {None, Garbage}
    /\ size \in 0..FsStart /\ startAddress \in 0..FsStart
    /\ currentAddress \in startAddress..startAddress + size
    /\ Len(buffer) \in 0..bufferSize /\ bufferSize \in {PageSize, SectorSize}
    /\ torn \in {"no", "overlap", "failed", "cut"} \cup Staging

\* The sketch that runs is whole in flash while an update is written: the power
\* may be cut at any moment of it and the old sketch starts again.
OldSketchSurvives ==
    app \in Images => Whole(0, app)

\* What the boot loader starts is a whole image, but for five causes: the copy
\* was cut by the loss of power ("cut"), by a flash operation that failed
\* ("failed"), or by a reset after it had reached its own source ("overlap",
\* eboot.c:197); an image was staged over one already announced ("restaged",
\* Updater.cpp:175); or the caller declared less than the image has, and end()
\* announced that part of it ("truncated").  The code does nothing against
\* these five; that no other is needed is what is stated: copy_raw takes the
\* last, partly filled sector along, a reset of it at any other moment does no
\* harm, and an update that is announced has been written whole.
BootsWhole ==
    app = Garbage => torn # "no"

\* An image that is staged whole when the boot loader starts runs, if the power
\* stays on, whatever resets there are.
UpdateTakesEffect ==
    \A i \in Images :
        (phase = "boot" /\ rtc # None /\ cuts = MaxCuts /\ rtc.size = SizeOf(i) /\ Whole(rtc.src, i))
            ~> (app = i \/ torn # "no")

\* Updater.h: end() returns false if "there is an error".
ErrorMeansFalse ==
    ended => error = "ok"

\* Updater.h: writeStream "Writes the remaining bytes from the Stream".
StreamStaysInUpdate ==
    currentAddress <= startAddress + size
=============================================================================
