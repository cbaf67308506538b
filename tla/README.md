# A TLA+ development of the UART-to-TCP bridge

The repository is one ESP8266 program, `src/UartToTcp/`, over a vendored copy of
the ESP8266 Arduino core, `src/ESP8266/Libs/`. The program that is built
(`UartToTcp/main.cpp`) connects the serial port of the chip with up to two TCP
clients on port 23: what a client sends goes out of the UART, what the UART
receives goes to every client. It consists of 190 lines; what makes it correct
or not is mostly in the three pieces of the core it stands on: the UART driver
with its interrupt handler, the TCP connection object behind `WiFiClient`, and
the server object with its list of connections nobody has claimed yet. Those
four are modelled here, and with them the task that runs `loop()`, its yields and
the functions it runs between them; the transmit side of the UART; the update of
the firmware with its boot loader; and the microphone sketch that lies beside the
bridge, with its sample buffer and its settings in emulated EEPROM.

All TLC runs are named in `PROJECT.json`; each has a `.cfg` that instantiates
its module directly, with numbers for the constants.

## 1. Inventory

Who runs when, on this chip, is the first thing to know:

- **Interrupt handlers** (the UART's `uart_isr`, a hardware timer) preempt
  everything else and run to their end; a critical section is a stretch with
  that interrupt disabled.
- **The sketch** (`setup`, `loop`) runs on its own stack and is never preempted
  by the network stack. It gives the processor away only in `yield` and `delay`,
  and at the end of `loop()`.
- **lwIP's callbacks** run only while the sketch is there. They see all its
  state as it left it.

| Component | State | Operations | Interacts with |
| --- | --- | --- | --- |
| UART receive path: `uart.cpp`, `HardwareSerial.cpp` | hardware FIFO and status bits; ring (`size`, `rpos`, `wpos`, `buffer`); `rx_overrun`; the interrupt's enable bit | `uart_isr`; `begin`, `end`, `available`, `peek`, `read`/`readBytes`, `setRxBufferSize`, `hasOverrun` | the wire preempts it; `loop()` calls it |
| TCP connection: `ClientContext.h` | control block `_pcb`; chain of received pbufs and offset; `_datasource`, `_written`, `_send_waiting`, `_connect_pending`, `_op_start_time`; reference count | `connect`, `read`, `write`, `wait_until_sent`, `close`, `abort`, `ref`, `unref`; callbacks `_connected`, `_recv`, `_acked`, `_poll`, `_error` | lwIP calls it; `WiFiClient` calls it |
| `WiFiClient` handles: `WiFiClient.cpp` | a pointer to a counted `ClientContext` | copy, assignment, destruction, `available`, `connected`, `operator bool`, `availableForWrite`, `read`, `write`, `flush`, `stop` | shares contexts with other handles and with the server |
| `WiFiServer.cpp` | list `_unclaimed`; lwIP's count of pending connections | `_accept` (a callback), `hasClient`, `available` | makes contexts, hands them out as `WiFiClient`s |
| Bridge program: `main.cpp` | `serverClients[]` and the locals of `loop()` | `loop()` | all of the above |
| UART transmit path: `uart.cpp:460-540`, `HardwareSerial.cpp` | the TX FIFO and the shift register | `uart_write`, `uart_tx_free`, `uart_wait_tx_empty`; `flush` | busy-waits for the wire; `flush` yields |
| Loop task: `core_esp8266_main.cpp`, `core_esp8266_wiring.cpp` | the continuation, the loop task's queue of one event, the delay timer, the stack of saved interrupt levels | `loop_task`, `loop_wrapper`, `loop_end`, `yield`, `optimistic_yield`, `delay`, `esp_schedule`, `ets_intr_lock`/`unlock` | gives the rule "who runs when" above; runs the scheduled functions |
| Scheduled functions: `Schedule.cpp` | a queue `sFirst`/`sLast` with a free list and a limit; a list `rFirst`/`rLast` of recurrent functions and its `fence` | `schedule_function` (from interrupts too), `run_scheduled_functions`; `schedule_recurrent_function_us`, `run_scheduled_recurrent_functions` | run at the end of `loop()`, the recurrent ones at every `yield()` too; the bridge itself schedules none |
| Sample buffer: `AudioInput.h` | two buffers, write position, and a published read position and number | `write` (timer interrupt), `read` | not included by `main.cpp` |
| Microphone commands and EEPROM emulation: `Mic.h`, `Classes/EEPROM.cpp` | a RAM copy of a flash sector with a dirty flag; the settings | `loadCfg`, `saveCfg`, `parseCmd`, `commit` | masks the sampling interrupt; not included by `main.cpp` |
| Hardware timer: `Timer0.h`, `core_esp8266_timer.cpp` | registers | set-up | writer of the sample buffer |
| Boot loader and updater: `eboot.c`, `Updater.cpp`, `core_esp8266_eboot_command.cpp` | boot command in RTC memory, flash, the updater's addresses and buffer | `begin`, `write`, `writeStream`, `end`; read and clear the command, copy, start | speak to each other through RTC memory and flash, across a restart; not used by the bridge |
| WiFi station: `ESP8266WiFiSTA.cpp`, `ESP8266WiFiGeneric.cpp` | the SDK's | wrappers of the closed SDK | used once, in `setup()` |

lwIP itself, the SDK and the ROM are binary or outside this copy of the core;
they are modelled only as the code calls them and is called by them. The rest of
`src/ESP8266/` (other libraries, tools, tests for the host, the SDK's headers) is
not linked into the program.

What is hard in this code, and what makes each part correct:

- **UART receive.** The handler moves the indices of a ring that the sketch
  reads; each call masks the interrupt only for some of its steps; the sketch
  also reads the FIFO behind the handler's back once the ring is empty; an
  overflow discards the oldest byte, which moves the *reader's* index. Correct
  means: bytes come out in the order of the wire, none twice and none invented;
  what `available()` announced can be read; every loss is reported; no path
  leaves the receiver dead.
- **TCP connection.** `write`, `connect` and `wait_until_sent` sleep, and every
  callback may run while they do: it may acknowledge, free the control block, or
  close it. Correct means: no received byte is lost or credited wrongly to the
  peer's window; what a write reports is what lwIP was given, in order; a sleeper
  that could go on is woken; nothing uses a freed control block; each call
  returns.
- **Handles and server.** Counted pointers, temporaries that die at the end of a
  statement, a list of contexts whose connection may have failed while waiting, a
  limit that lwIP enforces from the marks the server sets. Correct means: a
  context exists exactly as long as it can be reached, and lwIP's backlog is given
  back exactly once.
- **`loop()`.** Each test of a slot may yield, so what was true of the slots
  tested before it may no longer be. Correct means: an open client keeps its
  slot; a waiting client gets one or is told no; each client receives the UART's
  bytes in order and in whole chunks; a write is begun only where there is room for it.
- **UART transmit.** A write waits for the line without a yield; `flush` must wait
  for a frame that no register shows any more, and computes its length. Correct
  means: nothing is dropped or reordered, a flush that has returned has sent, and a
  write that asked for room does not wait long.
- **Loop task.** All delays share one timer and the queue holds one event; a
  function run at a yield may yield or delay itself; any event wakes any sleeper.
  Correct means: whoever sleeps is woken, and every function gets its turn.
- **Updater and boot loader.** The only thing that survives from one to the other
  is flash and 128 bytes of RTC memory; a reset or a loss of power may come at
  every step. Correct means: until the new image is complete the old one starts,
  and what starts is whole.
- **Sample buffer and settings.** The interrupt swaps the buffers in the middle of
  a read; a save erases before it writes, and looks at no error. Correct means: a
  packet is a piece of one buffer, the pieces follow each other, and the setting in
  flash is the one saved last, or one whose save came to grief.
- **Scheduled functions.** An interrupt may link an item in between any two steps
  of a pass, items are recycled while the pass remembers one of them as its end,
  and a recurrent function may yield, which begins a pass inside the pass. Correct
  means: each function runs once and in order, a pass ends, no item is lost to both
  lists, and no pass follows a pointer to a deleted item.

`PROJECT.json` lists under `hazards` where each of these bites, by line, and
which property would notice.

## 2. Plan

| Step | Module | Status |
| --- | --- | --- |
| 1 | `ByteQueue`: the abstract byte queue that the receive path promises | written, proved |
| 2 | `UartRx`: the driver; it implements `ByteQueue` | written, checked, proved |
| 3 | `ClientContext`: one connection against lwIP | written, checked, proved |
| 4 | `Bridge`: `loop()`, server and handles, over `ByteQueue` and an abstract connection | written, checked, proved |
| 5 | `Schedule`, `Recurrent`: the two queues of scheduled functions | written, checked, proved |
| 6 | `LoopTask`: the task, yields and delays; it composes `Schedule` and `Recurrent` | written, checked, proved |
| 7 | `UartTx`: the transmit FIFO, its busy wait and `flush` | written, checked, proved |
| 8 | `Updater`: updater and boot loader across resets and power cuts | written, checked, proved |
| 9 | `Mic`: sample buffer and settings | written, checked, proved |
| 10 | a theorem for every invariant and every action property that a run checks | done |
| 11 | an abstract connection (bytes unread, room, open or not) that both `Bridge` uses and `ClientContext` implements | next |
| 12 | the stack of saved interrupt levels (`core_esp8266_main.cpp:140-165`) | planned |

Composition: `UartRx` implements `ByteQueue`; `Bridge` instantiates `ByteQueue` as
its UART (`Uart == INSTANCE ByteQueue WITH MaxBytes <- MaxUart`), so what is
proved of the driver is what the bridge is allowed to use. `ClientContext` shows
what one connection does in detail; `Bridge` uses the part that `loop()` can see.
`LoopTask` extends `Schedule` and instantiates `Recurrent` (`R`): each of its
actions is one of theirs, or none, and a step of the task.

None of these modules has a `RECURSIVE` operator. The theorems are in modules of
their own, `X_proofs` for module `X`; those about `Schedule` and `Recurrent` are in
`LoopTask_proofs`, those about `ByteQueue` beside it.

## 3. The modules and the code

### `ByteQueue`

A queue `queue` between the wire and the sketch. `Receive` queues an arriving
byte or drops it; `Discard(k)` loses the oldest `k`; `Take(k)` gives the first `k`
to the sketch. Bytes are numbered in the order of their arrival on the wire, so
"in order, none twice, none invented" is a statement about `delivered` alone. It
is deliberately a queue that may lose bytes: the driver may.

### `UartRx`

Three actors. `Arrive` is the wire. `IsrEnter`, `IsrCopy`, `IsrCopied`, `IsrAck`
are `uart_isr`: the snapshot of the status register, the loop that copies FIFO to
ring (one byte an action, the wire may interrupt it), and the acknowledge of the
snapshot's bits. All other actions are the sketch's calls; `pc` says how far it
has got, `masked` whether it has the interrupt disabled, and `At(l)` that the
handler is not running. A call is split where the wire or the handler can be
between: `AvailableRing`/`AvailableFifo` (the two halves of
`uart_rx_available`), `ReadChunk`/`ReadAdvance` (the `memcpy` and the advance of
`rpos`), `PeekBegin`/`PeekCopy`/`PeekReturn`, `ResizeBegin`/`ResizeMove`/
`ResizeReturn`, `HasOverrun`/`HasOverrunClear`.

The history variables are `arrived`, `delivered`, `promised` (bytes that
`available()` announced and that have not been read since, up to the capacity of the ring),
`peeked`, and `lost` (a byte was discarded and nobody has been told).

Abstracted: bytes are numbers; parity, break and framing bits (the `rx_error`
flag) are left out, and the receive time-out with them, which raises that flag and
moves no byte (`uart.cpp:386-396`); so are the GDB stub, pin swapping and baud
detection.

### `ClientContext`

One connection, from its birth (accepted by the server, or `connect`) to
`unref`. Received pbufs are sequences of byte numbers, `rx_buf` a sequence of
them, `rx_buf_offset` the offset into the first. lwIP's callbacks (`Connected`,
`Received`, `PeerClosed`, `Error`, `Acked`, `Poll`) are enabled only at
`AtYield`: inside the delays of `connect`, `write` and `wait_until_sent`, and
between two calls. `ReadBegin`/`ReadPiece` are `read`, pbuf by pbuf; `WriteBegin`,
`WriteSome`, `WriteWakes` are `_write_from_source`; `Flush`, `FlushTurn`,
`FlushResume` are `wait_until_sent`, called by `flush`, by `stop` and by a
synchronous write; `Close` and `Unref` end it. `expired` stands for
`millis() - _op_start_time > _timeout_ms`; starting the clock sets it to FALSE.
`tcp_write` may return `ERR_MEM` on any turn: for want of memory, or because too
many pieces wait unacknowledged in its queue (`TCP_SND_QUEUELEN`), which is not
counted.

`state` is what `ClientContext::state()` says, which reports CLOSED in
CLOSE_WAIT too. The inner loop of `_write_some` is one `tcp_write`: after it
either the source or the send buffer is exhausted.

### `Bridge`

`loop()`, with a `pc` for each place where it can yield. `LoopBegin`, `Spot`,
`SpotResume`: `server.hasClient()` and the search for a free slot
(`Spot`/`SpotResume` are the halves of `operator bool` before and after the yield
inside `available()`). `Available`, `Assign`, `Drop`: `server.available()`, the
assignment of its temporary to a slot (which lets go of the slot's old context
first) and the end of the temporary's life. `Line`: the two writes of
`println("busy")`. `Drain`: bytes of a client to the UART. `Afw`/`AfwResume`: the
computation of `maxToTcp`. `UartRead`, `Push`, `WriteTurn`, `WriteWakes`: the
chunk from the UART and its way into each client. lwIP is `Accept`, `Received`,
`PeerClosed`, `Error`, `Acked`, at the yields only; the UART's queue moves at any
time.

A connection is seen as `loop()` sees it: its control block (`pcb`), the number
of unread bytes (`rx`), the room for writing (`room`), its reference count. The
content of the client-to-UART direction is left out; the other direction is kept
(`got`). `TimerFires`, `WriteTurn` and `WriteWakes` are the write of
`ClientContext`, whose delay may also be ended early; the `ERR_MEM` of `WriteTurn`
has the same two reasons.

`handle` is indexed by the slots and by `Temp`, the unnamed `WiFiClient` that
`server.available()` returns. `setup()` is the initial state.

### `Schedule`

The queue of functions to be run once. `queue` and `unused` are the two linked
lists as sequences of items, `sLast` the pointer that it is in the code, `mFunc`
what each item holds; calls of `schedule_function` are numbered, so "once and in
order" is a statement about `ran` alone. `LinkAfter` is `sLast->mNext = item`: it
is an append only if `sLast` really is the last item. `ScheduleFunction` is
`schedule_function` with `get_fn_unsafe`, in one action because it holds the
interrupt lock; it is enabled between any two steps of a pass, as an interrupt
is. `PassBegin` (`stop = sLast`, read without a lock), `RunFirst` (the call, its
item still in the queue), `Recycle` (unlink and `recycle_fn_unsafe`, under the
lock) and `PassEnd` are `run_scheduled_functions`. The yield of a long pass is
`LoopTask`'s `PassYields`.

### `Recurrent`

The list of functions to be run until they return false. `active` is the stack of
passes with the locals of each, because a recurrent function that yields calls
`run_scheduled_recurrent_functions` again; the `fence` is what should keep that
stack at one, and the model does not presume that it does. `Enter` and
`EnterReturns` are the function up to the fence, `Begin` reads `rLast`, `Call` and
`Skip` are one turn of the loop with and without the call, `Keep` and `Cancel` the
two returns of the function (`Unlink` is `prev->mNext = current->mNext`, or the
same for `rFirst`), `Leave` opens the fence. Time is abstract: alarm and interval
choose between `Call` and `Skip` freely. When the actions are taken is `LoopTask`'s
matter; the module has no specification of its own.

### `LoopTask`

The continuation on which the sketch runs, its event and its timer, around the
two queues. `phase` says where a turn of `loop_wrapper` is: in `loop()`, in the
pass over scheduled functions or in that over recurrent ones (`LoopReturns`,
`ScheduledStep`, `ScheduledReturns`, `ScheduledEnds`, `LoopEnd`, `RecurrentEnds`
are `loop_wrapper` and `loop_end`). `Yields` is `yield` (`esp_schedule`, then
`cont_yield`), `Delays` is `delay(ms)`, `PassYields` the `yieldNow` of a long pass;
they may be taken by `loop()`, by a scheduled and by a recurrent function
(`UserCode`). `RunTask` is `loop_task` taking the event and `cont_run` going on
where the innermost yield was; `Resume` is the rest of `esp_yield_within_cont`,
which runs the recurrent functions before it returns to the caller. `sleeps` is the
stack of yields that have not returned, since a recurrent function may yield
inside one. `Posts` is `esp_schedule` called by anyone, which ends a delay early;
`TimerFires` is `delay_end`. `Schedules` is enabled at every step, as an interrupt
is.

### `UartTx`

Time is bits of the line (`Tick`). `fifo` and `shift` are the hardware: the FIFO
drops what it has no room for (`Put`) and does not count the character in the shift
register. `Write`, `WriteChar`, `WriteReturns` are `uart_write` with its busy wait
at 127 (`uart_tx_fifo_full`); `WriteIfAvailable` is the guarded write of
`main.cpp:116` with `uart_tx_free`, which counts to 128; `Flush`, `FlushWaits`,
`FlushReturns` are `HardwareSerial::flush` with `uart_get_bit_length`, computed
from the bits of the mode as the code does, in 8 bits of width; `WriteInYield` is a
callback that writes while `flush` yields; `Begin` is `begin`, which resets the
FIFO and destroys the frame on the line.

### `Updater`

Flash is an array of units that hold unit k of image i, or are erased, or
garbage: programming a unit twice and a failed operation give garbage. The
sketch's side is `UpdaterClass`, one action a call and one for each turn of the
loops of `write` and `writeStream` (`WriteFull`, `StreamRead`); `_writeBuffer` is
`WriteBufferOk` or `WriteBufferFails`, which erases when the address is the first
of a sector, and `_setError` resets the addresses whoever goes on using them
(`EndFlushes`). The boot loader is `BootStart`, `CopyErase`, `CopyWrite`,
`CopyFails`, `CopyEnds`, `ClearCommand`, `LoadApp`. `Reset` keeps flash and the
command; `PowerCut` keeps flash only.

`torn` names why the image at 0, or a staged one, may be in pieces: `restaged` (a
second update wrote over an image whose command is still there), `truncated` (the
caller declared less than the image has), `overlap` (a reset, after the copy had
reached the sectors it copies from), `failed` (the flash failed during the copy),
`cut` (the power went during the copy). `app` is what runs, or `Garbage`. That
`writeStream` looks at the first byte of the stream before its loop is not an action:
what it does about a wrong one, an error with nothing written, is what `StreamEnds`
does right after `WriteStream`.

### `Mic`

`Sample` is `PcmBuf::write` in the timer interrupt: it stores, and publishes a full
buffer by setting `_readPos`, `_readPcmBufNum` and the next buffer. `Read`,
`ReadBuffer`, `Copy`, `Compare`, `SetReadPos`, `ReadReturns` are `PcmBuf::read`,
between any two steps of which a sample may be stored.

`saveCfg` is `EEPROMClass::begin`, `write` and `commit`: `SaveClean` (what was read
is what is to be written), `SaveMisses` (the read failed, its result is ignored, and
what happens to be in the buffer is taken for the sector), or `SaveErases`,
`SaveWrites`, `SaveReturns`, which leave the sector half erased, half written and
written, with interrupts masked until the last. `SaveFails` is an erase or a write
that fails: the byte stays as far as it had come, since `Partly` is whatever a byte
may hold on the way (0, 1, blank or torn), and `saveCfg` does not look. `Restart` is
a reset between any two of these, or anywhere else, with the `loadCfg` that follows,
whose read may fail too.

The history for the samples is `gen` (how many buffers were published when the read
took its own) and `slipped` (the last publication met a read at one of the places
`Slips` names); for the setting it is `saved` (by the last save that did all it
should), `tried` (the settings of the saves since then that failed, were cut short,
or are on their way) and `misread` (one of those could not read the sector).

## 4. The runs

| Run | Question | Constants | Distinct states |
| --- | --- | --- | --- |
| `uart_rx` | Does the driver keep order, count and losses right, is it a byte queue, and is the handler ever locked out for good? | FIFO 3, trigger 2, rings 2, 3, 4, first 3, 5 bytes | 480,761 |
| `uart_tx` | Is everything sent, does `flush` wait long enough, and a guarded write never long? | FIFO 3, frames of 7, 10 (inverted) and 12 bits, writes of 2 and 5, 6 characters | 532,655 |
| `client_context` | Does one connection keep its bytes, its window and its sleepers, and does each call return? | window 3, send buffer 2, 4 bytes in, 3 out | 202,491 |
| `bridge` | Are contexts, slots and backlog right while three clients fight for two slots, and is each accepted client claimed? | 2 slots, backlog 2, 3 connections, 1 byte each way | 398,935 |
| `bridge_streams` | What do two clients of different pace receive? | 2 slots, chunks of at most 2, 4 UART bytes | 450,744 |
| `loop_task` | Do scheduled and recurrent functions run as they should while everything yields and delays, and is every sleeper woken? | 3 items, 5 calls, 3 recurrent functions | 1,007,356 |
| `loop_task_live` | Does every function get its turn? | 2 items, 4 calls, 2 recurrent functions | 62,076 |
| `updater` | What starts after updates with failures, resets and power cuts, and does a whole update take effect? | sectors of 2 units, pages of 1, images of 3 and 5 units in two versions, 10 units of room; 2 updates, 1 failure, 2 resets, 1 power cut | 511,534 |
| `mic` | Are packets pieces of one buffer and in order, and what can a save leave in flash? | buffers of 3, reads of 1 and 2, 11 samples, 2 failures, 1 restart | 1,132,597 |

Three further runs each show something the code does that its documentation says it
does not; see section 7.

What each property says is in the comment above it. In short:

- `uart_rx`: **DeliveredInOrder** (order, no repetition, no byte from an
  unwritten cell); **AnnouncedIsHeld** (a read of what `available()` announced
  never comes up short, although it counts ring and FIFO at two moments);
  **LossIsRecorded** (no overrun flag is lost between acknowledge, test and
  clear); **PeekThenRead**; **ImplementsByteQueue** (refinement); **FifoIsServed**
  (an interrupt that is due is taken, however often calls mask it).
- `uart_tx`: **SentInOrder** (the FIFO is never given a character it would drop);
  **FlushMeansSent** (the last stop bit has left, whatever the frame, inverted lines
  included); **WritesWaitOneFrame** (`availableForWrite()` counts one place more
  than `write` uses; that costs a guarded write one frame at most).
- `client_context`: **NothingLost** (bytes read, then those still held, are all
  that arrived, over pbufs and reads of any size, the end of the stream, an error
  and `stop`); **WindowConserved** (window and held bytes always make up
  `TCP_WND`); **WriteReportsPrefix**; **NoLostWakeup** (a writer that sleeps
  could do nothing awake); **FlushOnLivePcb**; **CallsReturn**.
- `bridge`: **HandlesCounted** (a context lives exactly as long as a handle or
  the server's list holds it, and each handle is counted once);
  **BacklogIsUnclaimed** (lwIP's count is exactly the waiting open connections);
  **OpenClientKeepsSlot** (a slot is given away only after its connection has
  closed); **EveryClientIsClaimed** (a client accepted by lwIP is taken by `loop()`
  in the end, into a slot or to be told "busy").
- `bridge_streams`: **ClientStreamInOrder**, **NeverWaitsForRoom** (a write that
  sleeps has room in the send buffer for all that is left: the room that was tested is
  still there when its turn comes, and `tcp_write` has refused it; section 7 says
  what that leaves open), **ChunksStayWhole**.
- `loop_task`: **RunOnceInOrder** (what has run, then what waits, are all calls in
  order); **NoItemLeaks** (each item is queued or unused, so the limit counts
  waiting functions only); **StopEndsThePass** (the remembered end of the pass is in
  the queue until its turn, though items are reused); **ListIsWhole** (unlinking and
  appending lose and repeat nobody); **NoItemIsDangling**; **OncePerPass**;
  **SleeperIsWoken** (whoever has given the processor back has an event waiting or
  the timer armed). The run also looks for deadlock.
- `loop_task_live`: **EveryFunctionRuns** (a scheduled function runs in the end);
  **EveryFunctionIsVisited** (a recurrent one is looked at again and again: no path
  leaves the fence closed, none sleeps for ever).
- `updater`: **OldSketchSurvives** (nothing an update writes touches the sketch
  that writes it); **BootsWhole** (what starts is a whole image, but for the five
  causes of `torn`, which the code does nothing against); **UpdateTakesEffect** (a command for a whole image
  leads to that image running, across resets of the boot loader).
- `mic`: **PacketIsOneSlice** (each sample of a packet is the one that belongs
  there of the buffer read, also when buffers are published in the middle of the
  read, unless the interrupt has come round to that very place again);
  **SlicesInOrder** (the packets of a buffer are its samples from the first on,
  although publications interrupted reads, unless this buffer's publication met a
  read at one of the three places of section 7); **SettingIsKept** (the flash
  holds the setting saved last; after saves that failed or were cut short, that one
  or one of theirs; and never one that nobody asked for, unless `begin()` could not
  read).

### Bounds, and why they are enough

`MaxBytes`, `MaxRx`, `MaxTx`, `MaxUart`, `MaxConns`, `MaxCalls`, `MaxFns`,
`MaxChars`, `MaxBegins`, `MaxSamples`, and the numbers of updates, failures, resets,
restarts and power cuts bound the counters; they occur in guards only (the proofs
hold for every value of them).

- *UART.* Rings of 2 (one usable cell), 3 and 4 cells with a FIFO of 3 make every
  wrap, a full ring, a full FIFO, a resize to smaller and to larger, and a resize
  that meets an exactly full buffer. With 5 bytes the ring wraps and both
  overflows happen in the same behaviour. The trigger is above one, so that bytes
  can sit in the FIFO without an interrupt. For the transmit side, a write of 5 is
  longer than FIFO and shift register together, and the modes are the shortest
  frame, the longest, and one whose inversion bits enter the computation of its
  length.
- *Connection.* A window of 3 and 4 bytes give pbufs of 1 to 3 bytes, chains of up
  to three, reads that end inside, at the end of and beyond a pbuf, and a peer that
  has to wait for credit. A send buffer of 2 with 3 bytes to send makes a write
  that does not fit and must sleep, and a second write after it.
- *Bridge.* Three connections for two slots and a backlog of two make the full
  house, the rejected client, the recycled slot and the full backlog. One byte per
  client is enough for "something is unread". For the streams, two slots, a send
  buffer of 2 and 4 bytes make a congested client, a chunk that fits one client and
  not the other, and catching up afterwards.
- *Task.* Three items and five calls make a full queue, items that are reused, and
  an item reused inside the pass that it is to end (32 in the code is only more of
  the same). Three recurrent functions make the first, a middle, the last and the
  only item leave, with another appended behind `stop`, and a function that yields
  with others behind it. Yields nest once (the outer one and one of a recurrent
  function), which the fence, checked here and proved in section 5, makes the most
  there is. Liveness is checked with two of each: all kinds of yields, and every
  position in the lists.
- *Updater.* Sectors of two units and images of 3 and 5 make every image end inside
  a sector. A small and a large one fill the room to the last sector, two large ones
  do not fit, and the copy of a large one overlaps its own source. Pages of one unit make
  the small buffer smaller than a sector. Two updates make one staged over the
  other. In this run the stream of `writeStream` ends with the image; the one where
  it does not has a run of its own.
- *Sample buffer.* Eleven samples publish three buffers, so both are published and
  one of them again, during one read or between two, and the one that is read is
  being overwritten. Two failures make a save fail and the next one too, or a read
  fail and then the erase after it; the restart falls between any two steps.

`CHECK_DEADLOCK FALSE` appears where the system may stop: a deleted context
(`ClientContext`), all characters sent (`UartTx`), all samples taken (`Mic`), and a
sketch that does nothing more, or garbage at 0 (`Updater`).

### Fairness

- `UartRx`: `SF` of `IsrEnter`. The interrupt is enabled only for moments
  between two calls, but the processor takes a pending interrupt at the first
  instruction with it enabled. `WF` of the rest of the handler, which runs to its
  end, and of `Continue`: a call that has begun is carried on. Nothing is assumed
  about the wire or about whether the sketch makes another call.
- `ClientContext`: `WF` of `Running` (the core returns to a delayed sketch, as
  `SleeperIsWoken` says) and `SF` of `TimerFires`: the clock goes on even if the
  delay is broken off and begun again and again. lwIP, the peer and the sketch
  between two calls may do nothing for ever.
- `Bridge`: `WF` of `Loop` (`loop_wrapper` posts itself again) and `SF` of
  `TimerFires`, as above. The clients and the UART owe nothing.
- `LoopTask`: `WF` of `RunTask` and `TimerFires` (the SDK's scheduler takes the
  event, the timer fires). `SF` of the steps of the core's own code, and of the
  return of user code: `loop()`, a scheduled and a recurrent function may yield and
  delay as often as they like, so they are not enabled all the time, but they end.
  One that never returned would stop every other by design. Nobody has to schedule
  anything, nor post an event.
- `Updater`: `WF` of `Loader`: the boot loader runs to its end, with the watchdog
  off. Resets are bounded by `MaxResets`. **UpdateTakesEffect** speaks of states
  with `cuts = MaxCuts`, which is to say that the power stays on from there.

## 5. What is proved

With TLAPS, for every value of the constants. Under the assumptions of `UartRx`,
`FifoAssumption` (the trigger is within the FIFO), `SizeAssumption` (each ring
has at least two cells) and `BoundAssumption` (`MaxBytes` is a number, any):

| Theorem | Module | States |
| --- | --- | --- |
| `TypeCorrect` | `UartRx_proofs` | `Spec => []TypeOK` |
| `AnnouncedIsAlwaysHeld` | `UartRx_proofs` | `Spec => []AnnouncedIsHeld` |
| `LossIsAlwaysRecorded` | `UartRx_proofs` | `Spec => []LossIsRecorded` |
| `PeekedByteIsReadNext` | `UartRx_proofs` | `Spec => PeekThenRead` |
| `QueueInOrder` | `ByteQueue` | `QSpec => []InOrder` |
| `DriverIsAQueue` | `UartRx_proofs` | `Spec => ImplementsByteQueue` |
| `AlwaysDeliveredInOrder` | `UartRx_proofs` | `Spec => []DeliveredInOrder` |

Under the assumptions of `Schedule`, `CountAssumption` (the limit is at least
one) and `BoundAssumption` (`MaxCalls` is a number, any):

| Theorem | Module | States |
| --- | --- | --- |
| `TypeCorrect` | `LoopTask_proofs` | `Spec => []TypeOK` |
| `NoItemEverLeaks` | `LoopTask_proofs` | `Spec => []NoItemLeaks` |
| `StopAlwaysEndsThePass` | `LoopTask_proofs` | `Spec => []StopEndsThePass` |
| `AlwaysRunOnceInOrder` | `LoopTask_proofs` | `Spec => []RunOnceInOrder` |
| `TaskRunsThePass` | `LoopTask_proofs` | `TaskSpec => Init /\ [][Next]_vars` |
| `TaskRunsOnceInOrder` | `LoopTask_proofs` | `TaskSpec => []RunOnceInOrder` |
| `TaskLeaksNoItem` | `LoopTask_proofs` | `TaskSpec => []NoItemLeaks` |
| `TaskStopEndsThePass` | `LoopTask_proofs` | `TaskSpec => []StopEndsThePass` |
| `SleeperIsAlwaysWoken` | `LoopTask_proofs` | `TaskSpec => []SleeperIsWoken` |
| `ListIsAlwaysWhole` | `LoopTask_proofs` | `TaskSpec => []ListIsWhole` |
| `NoItemEverDangles` | `LoopTask_proofs` | `TaskSpec => []NoItemIsDangling` |
| `AlwaysOncePerPass` | `LoopTask_proofs` | `TaskSpec => []OncePerPass` |

Under the assumptions of `ClientContext`, `BufferAssumption` (window and send
buffer are not empty) and `BoundAssumption` (`MaxRx` and `MaxTx` are numbers, any):

| Theorem | Module | States |
| --- | --- | --- |
| `NothingIsLost` | `ClientContext_proofs` | `Spec => []NothingLost` |
| `WindowIsConserved` | `ClientContext_proofs` | `Spec => []WindowConserved` |
| `WritesReportAPrefix` | `ClientContext_proofs` | `Spec => []WriteReportsPrefix` |
| `NoWakeupIsLost` | `ClientContext_proofs` | `Spec => []NoLostWakeup` |
| `FlushesAreOnALivePcb` | `ClientContext_proofs` | `Spec => []FlushOnLivePcb` |
| `TypeCorrect` | `ClientContext_proofs` | `Spec => []TypeOK` |

Under the assumptions of `Bridge`, `SizeAssumption` (at least one slot, one place in
the backlog, one byte a chunk, and a send buffer that holds the two lines of
`println("busy")`) and `BoundAssumption`:

| Theorem | Module | States |
| --- | --- | --- |
| `ContextsAreCounted` | `Bridge_proofs` | `Spec => []HandlesCounted` |
| `BacklogIsKept` | `Bridge_proofs` | `Spec => []BacklogIsUnclaimed` |
| `OpenClientsKeepTheirSlots` | `Bridge_proofs` | `Spec => OpenClientKeepsSlot` |
| `StreamsAreInOrder` | `Bridge_proofs` | `Spec => []ClientStreamInOrder` |
| `WritesHaveRoom` | `Bridge_proofs` | `Spec => []NeverWaitsForRoom` |
| `ChunksAreWhole` | `Bridge_proofs` | `Spec => ChunksStayWhole` |
| `TypeCorrect` | `Bridge_proofs` | `Spec => []TypeOK` |

Under the assumptions of `UartTx`, `SizeAssumption` (the FIFO has at least two
places), `ModesAssumption` (a mode is one of the 24 of `uart.h:53-77`, inverted or not)
and `BoundAssumption`:

| Theorem | Module | States |
| --- | --- | --- |
| `AllIsSentInOrder` | `UartTx_proofs` | `Spec => []SentInOrder` |
| `FlushWaitsForTheLine` | `UartTx_proofs` | `Spec => []FlushMeansSent` |
| `PromisedRoomComes` | `UartTx_proofs` | `Spec => []WritesWaitOneFrame` |

Under the assumptions of `Updater`, `SectorAssumption` (sectors are not empty, a
page divides a sector as 256 divides 4096, the file system begins at a sector),
`SizesAssumption` (an image fits before the file system), `CellAssumption` (an erased
unit is not part of an image, no command is not a command) and `BoundAssumption`:

| Theorem | Module | States |
| --- | --- | --- |
| `OldSketchAlwaysSurvives` | `Updater_proofs` | `Spec => []OldSketchSurvives` |
| `AlwaysBootsWhole` | `Updater_proofs` | `Spec => []BootsWhole` |
| `TypeCorrect` | `Updater_proofs` | `Spec => []TypeOK`, if `StreamExtra = 0` |
| `ShortStreamStaysInUpdate` | `Updater_proofs` | `Spec => []StreamStaysInUpdate`, if `StreamExtra = 0` |

The condition of the last two says that a stream ends with its image. It is needed:
without it `writeStream` writes beyond the update (section 7), and `TypeOK`, which
says that it does not, is false. `AlwaysBootsWhole` holds with longer streams too.

Under the assumption of `Mic`, `SizeAssumption` (a buffer is not empty):

| Theorem | Module | States |
| --- | --- | --- |
| `PacketsAreSlices` | `Mic_proofs` | `Spec => []PacketIsOneSlice` |
| `PacketsAreInOrder` | `Mic_proofs` | `Spec => []SlicesInOrder` |
| `SettingsSurvive` | `Mic_proofs` | `Spec => []SettingIsKept` |

The argument for the driver, in order:

1. **Types.** `TypeOK` is not inductive: a local of a call is meaningful only
   while the call is on its way. `TypeInv` adds that (`LocalsInUse`). The only
   real work is the ring's indices, through `(p + 1) % size`.
2. **The invariant `Inv`** of `UartRx_proofs`: `TypeInv`, together with which steps
   of a call are inside its critical section (`MaskInv`: then `masked` holds and
   the handler does not run) and what the locals say about the ring then (`CallInv`).
   It is what makes the mask mean something: the lemmas that follow use it to
   exclude the handler from the middle of a read or of a resize.
   `AnnouncedIsHeld`, `LossIsRecorded` and `PeekThenRead` follow from it and from
   one lemma about each variable they mention that names the steps that write it.
3. **The queue.** `ByteQueue!QInv` (`Ordered`): the delivered bytes are strictly
   increasing, so are the waiting ones, and every delivered byte is smaller than
   every waiting one. It is inductive, and implies `InOrder`.
4. **The refinement mapping** `Waiting`: the bytes a resize has moved so far, then
   the ring behind those just copied (`RingSeq(size, rpos + chunk, ...)`), then the
   FIFO; nothing while the port is closed. Each step of the driver is shown to be a
   step of the queue or a stutter, by lemmas about sequences laid out in a ring
   (`RingPush`, `RingWrap` and their like). Two cases are why the mapping looks
   as it does. Between the `memcpy` and the advance of `rpos` the bytes are
   already the sketch's, hence `chunk`. And once a resize has stored a -1 (see 7)
   what it had moved can no longer be saved: `Spoiled`, with the invariant
   `ResizeInv` that from then on only the FIFO counts.
5. **Order.** `DeliveredInOrder` is then the queue's `InOrder`, for the mapped
   state.

The argument for the queue of scheduled functions is one inductive invariant,
`Inv` of `LoopTask_proofs`, because its parts lean on each other. The lists share
out the items without repetition (`Shared`); hence an item from the free list is
not in the queue, and linking it in behind `sLast`, which is the end of the queue
(`LastInv`), cuts nothing off. The items of the queue hold consecutive calls, the
last of which is the latest (`OrderInv`), and exactly those before have been run.
The item that ends the pass is in the queue as long as the pass is not done
(`StopInv`), which needs that only the first item ever leaves, and that `done` was
set when it was the one.

The argument for the task has two halves.

1. **It adds nothing to `Schedule`.** Every step of `LoopTask` is a step of
   `Schedule`, or leaves its variables alone (`TaskStep`), hence `TaskRunsThePass`,
   and the invariant above carries over. The same theorem says that no rule on when
   a pass begins is needed for it.
2. **Waking, and one pass.** `WakeInv`: there is at most one pass over the recurrent
   functions, and the fence is closed exactly while there is (`OnePass`); between two
   turns of `loop()` there is none and nobody sleeps; whoever sleeps will be woken.
   They are proved together, because a sketch sleeps only in user code, and what
   user code is depends on the pass. That a return from a delay disarms the timer for
   everybody is harmless because the sketch is running when it does.
3. **The list.** `ListInv`: the list is ascending, it holds
   those that were not cancelled, and `rLast` is its end. So appending behind `rLast`
   cuts nothing off (`Linked`), and unlinking takes out one item (`Unlinked`).
4. **The pass.** `PassesInv`: the one pass is at some item k and will stop at some
   item m of the list, k <= m, `prev` is the item before k, and it has called nothing
   beyond k (`AtItem`). Scheduling appends behind m; cancelling removes k, which is m
   only when the pass is done; nothing else can happen meanwhile, because there is no
   other pass (`WakeInv`).

The argument for the updater has three invariants, each resting on the one before.

1. **The old sketch.** `OldInv` says that an update begins at or behind the rounded
   end of the sketch that writes it (`UpdateBehind`), that it is only ever written
   from there upwards, and that no update is going on while the boot loader runs. Its
   heart is `TouchedAbove`: `_writeBuffer` erases the sector of an address only when
   the address is the sector's first, so nothing below the address is touched. That
   begin() rounds both sizes is what `Fits` gives to it.
2. **What is uploaded.** `UploadInv`: what was taken of an image is in flash from the
   start of the update on, and behind it in the buffer. For the next page to be
   programmed onto erased units, the address must be one where `_writeBuffer` erases,
   or one behind which the sector is erased already; so it stays a multiple of the
   buffer's size until the end of the update (`Multiple`), which is where a page that
   divides a sector is used (`PageInSector`, `PageWritten`, `PagePut`).
3. **What is announced and copied.** `BootInv`: unless a cause of `torn` has struck,
   what a command announces is staged where the copy has not erased it (`StagedAs`),
   what lies below the sectors done is the image (`CopiedAs`), and the copy has
   erased no more than it has copied, or nothing of its source (`Ahead`). The last is
   the reason why a reset in the middle is harmless as long as it is: the copy
   begins again with its source intact. While nothing is erased the old image is at 0
   (`OldAtZero`). So whatever `LoadApp` finds there is whole.

`TypeInv` adds what the types need: a command lies in the room for updates
(`AnnouncedFits`, which rests on rounding being monotone), so every sector that
`copy_raw` reads is in flash and no sector it writes is the file system's.

The argument for the bridge is one inductive invariant, `Inv` of `Bridge_proofs`.
What may change while `loop()` yields is small: a connection closes, bytes arrive and
are acknowledged, somebody new is put at the end of the list of the unclaimed. The
rest is where `loop()` is (`Control`): the temporary holds somebody only
while a client is being claimed or told "busy", and only between the assignment and
the end of the statement do two handles hold the same connection (`HeldOnce`); everywhere else the counts are one.
That the slot given away stays free until the assignment is `FreeSlot`; a connection
that has closed never opens again. For the streams: a client not yet claimed has been
written nothing and has its whole send buffer (`Fresh`); a chunk is no longer than
the room of every client it goes to, so it is written whole or not at all (`Written`);
its bytes are in order because those of the UART's queue are (`Uart!QInv`, the
invariant that `ByteQueue` is proved with), and behind those of each slot that is
still to be served (`Streams`).

The argument for the UART's transmit side: from the moment `flush` has seen the FIFO
empty, what is left of the frame on the line is no longer than what is left of its
delay (`Draining`). This needs that the frame was begun in the mode that is set now
(`Fits`), and that `uart_get_bit_length`, computed in 8 bits from a mode whose bits
for inversion are above them, is the true length (`Frames`, case by case over
`ModesAssumption`). For the guarded write: the FIFO has one character too many
only, and the line takes the next one within a frame (`Spinning`).

The argument for the sample buffer has two halves. Each place of a buffer holds the
sample of its last round (`Buffers`), and a read that has taken a buffer stays in it
(`Reads`); so what it copies is its own sample, or one newer by at least a whole round
of both buffers (`Own`, `Slice`). And what has been sent of the buffer published last
is what lies before `_readPos` (`Sent`): a publication sets both back, a read moves both
if the test finds the position unchanged, and unless the publication came where
`Slips` says the test finds that exactly when there was none (`Position`).

The argument for the setting is `ConfigInv`: a save under way is one of those tried,
and, if the sector could be read, TRUE is the setting saved or one of those tried. So
whatever a byte may be that is not 0, it is loaded as a setting somebody asked for; and
a byte on its way is 0 only if the old one or the one to be written is (`PartOf`,
`OnlyFalseIsZero`). That an erase never begins when all of these are FALSE is where
`Dirty` is used.

The argument for the receiving side of a connection is the invariant `RxInv`. The
chain of pbufs is flattened by `FlattenSeq`, which is defined by recursion; the
lemmas about it (what appending a pbuf and dropping the first one do to it) are
proved by induction over the length of the chain, with `SetInduction`, induction
for a *set* of numbers, from the well-foundedness of the natural numbers. With them, a read of any size
moves a prefix of what is unread and gives the same number back to the window.

The argument for the sending side of a connection is the invariant `TxInv`. The
three properties need little beside each other: that a data source is there
exactly while a write is on its way (`Writing`), and that nothing is accepted that
the running write has still to give (`NotBeyond`), without which the bytes of one
write could not be told from those of the next. The work is one turn of a write
(`WriteSomeStep`): the bytes it hands over go on where the accepted ones end
(`BytesAppended`), and if it goes to sleep it has just filled the send buffer or
been refused. Every callback then either wakes the writer or leaves what it waits
for as it was (`lwIPStep`).

Only model-checked: liveness. `FifoIsServed`, `CallsReturn`, `EveryClientIsClaimed`,
`EveryFunctionRuns`, `EveryFunctionIsVisited` and `UpdateTakesEffect` rest on fairness
and ENABLED, which are out of the prover's reach. Every invariant and every action
property of a passing run is proved.

## 6. Modelled, and not

Not modelled, with the reason:

- The hardware timer: register set-up without control; its interrupt is `Mic`'s
  `Sample`.
- WiFi station: wrappers of the SDK, used once before `loop()` begins.
- The nesting of interrupt levels (`core_esp8266_main.cpp:140-165`): planned. The
  modules take a locked section as one step.
- In modelled parts:
  - `peek` and the getters of `ClientContext` (they change nothing), options of lwIP
    (`setNoDelay`, keep-alive), name resolution, `WiFiServer::begin`/`close`;
  - `rx_error`, the GDB stub, pin swapping, changes of the baud rate, UART1;
  - a failed allocation of an item by `schedule_function` or
    `schedule_recurrent_function_us`, which changes nothing, and a null function,
    which is refused; `optimistic_yield`, which yields or does nothing;
  - of updates: file-system and compressed images, signatures and sums beyond their
    being right or wrong, the byte for the flash mode;
  - of the microphone: the commands `start`, `stop`, `tc` and `td` with the start
    time-out, which set fields; that `PcmBuf::read` falls off its end without a
    `return` after it has sent a packet (`AudioInput.h:109`), whose result is
    undefined and is not modelled.
- Wrap-around of `millis()`: time is the single fact that a time-out has passed.

`ClientContext` and `Bridge` assume that lwIP runs only at yields. `LoopTask` shows
where those are.

## 7. Where documentation and code disagree

Each has a run that TLC must find violated.

- `bridge_unread` (**NothingUnreadIsDropped**). A closed connection is kept
  because "there is still something to read" (`ClientContext.h:598`). When the last
  bytes and the end of the stream arrive inside the yield of `available()`, the
  0 it read before the yield meets a `connected()` of 0 after it, and `loop()`
  gives the slot away, unread bytes included.
- `update_end` (**ErrorMeansFalse**). `Updater.h:91-93` says that `end()` returns
  false if there is an error. `end(true)` does not look at what its last write
  returned; the error has by then reset the addresses, so it verifies the sketch that
  runs, leaves a command that copies nothing, and returns true.
- `update_stream` (**StreamStaysInUpdate**). `writeStream` limits its reads by
  `remaining()`, which does not count what waits in the buffer. After a read that
  timed out in the middle of a buffer, a stream that is longer than the update is
  written into what follows it, until `remaining()` happens to be 0.

Met on the way, and part of the models without a run of its own:

- A resize of the receive buffer counts the bytes of the FIFO but reads the ring
  only, stores -1 and may end with an empty ring (`uart.cpp:351`); the order of bytes
  is unharmed, which `DeliveredInOrder` is proved with.
- `wait_until_sent` returns true when the peer has merely closed its side.
- `availableForWrite()` is not 0 for a client in CLOSE_WAIT, whatever `main.cpp:141`
  says: such a client lets `loop()` take bytes from the UART for nobody.
- A connection that fails while it waits gives its place in the backlog back, but
  its context stays in the server's list.
- A pass that reads `sLast` from an empty queue has no end: it runs on for as long as
  functions are scheduled (`Schedule.cpp:122-124`).
- The second `begin` of an update leaves the command of the first (`Updater.cpp:175`):
  a reset then copies pieces of both. A reset in the middle of a copy whose source
  overlaps its destination begins again from what it has itself overwritten
  (`eboot.c:197`). Both are causes that **BootsWhole** excepts, as it does an update
  that its caller ends with less than its image: nothing in the code prevents them.
- A client that does not acknowledge can hold up `loop()` after all. With
  `setNoDelay` (`main.cpp:49`) each small chunk is a segment of its own, and
  `tcp_write` returns `ERR_MEM` when `TCP_SND_QUEUELEN` of them are unacknowledged
  (`lwipopts.h:1329-1335`), although the send buffer still has room. The write
  then sleeps up to 5 s for that client, with the UART unread. The models count
  this as an `ERR_MEM` like any other.
- A publication skips or repeats samples of its buffer when it meets a
  `PcmBuf::read` at one of three places (`AudioInput.h:71-104`): between the
  loads of `_readPos` and of `_readPcmBufNum`, the position not 0 (the old position
  is used in the new buffer); between the second load and the comparison, the
  position 0 (0 equals 0, so the count of the old buffer is stored for the new one);
  between the comparison and the store.
- A blank byte, or one that was written half, is loaded as TRUE (`Mic.h:34`).
  That nobody's FALSE is lost this way hangs on `write()` not marking an unchanged byte
  as dirty (`EEPROM.cpp:105-111`).
