------------------------------- MODULE Bridge -------------------------------
(***************************************************************************)
(* The program: UartToTcp/main.cpp, its WiFiServer (WiFiServer.cpp) and    *)
(* the WiFiClient handles (WiFiClient.cpp) that share reference-counted    *)
(* ClientContexts.  The UART is the queue that UartRx implements; a        *)
(* connection is what ClientContext keeps of it, seen from loop().         *)
(*                                                                         *)
(* lwIP's callbacks run only where the sketch yields or delays: at the end *)
(* of loop(), in WiFiClient::available when it finds nothing, and in a     *)
(* write that lwIP refused.  Everything between two yields is atomic to    *)
(* them, but not to the UART.  Connections are numbered as they come.      *)
(***************************************************************************)
EXTENDS Integers, Sequences, FiniteSets, SequencesExt

CONSTANTS
    MAX_SRV_CLIENTS,
    STACK_PROTECTOR,     \* bytes moved from the UART at once
    Backlog,             \* MAX_PENDING_CLIENTS_PER_PORT
    SndBuf,              \* lwIP's send buffer, TCP_SND_BUF
    MaxConns,            \* bound of the model: connections ever accepted
    MaxRx,               \* bound of the model: bytes each client sends
    MaxUart              \* bound of the model: bytes that arrive on the UART

ASSUME SizeAssumption ==
    /\ MAX_SRV_CLIENTS \in Nat \ {0} /\ STACK_PROTECTOR \in Nat \ {0}
    /\ Backlog \in Nat \ {0}
    /\ SndBuf \in Nat \ {0, 1}          \* it holds both lines of println("busy")
ASSUME BoundAssumption == MaxConns \in Nat /\ MaxRx \in Nat /\ MaxUart \in Nat

Conns == 1..MaxConns
Slots == 1..MAX_SRV_CLIENTS
None  == 0           \* a null _client
Temp  == 0           \* the index of the WiFiClient that server.available() returned
Busy  == 0           \* a byte of a line of println("busy")

VARIABLES
    \* connections
    nconn,       \* accepted so far
    ctx,         \* its ClientContext: "none", "live" or "deleted"
    pcb,         \* its control block: "ESTABLISHED", "CLOSE_WAIT", "GONE"
    pending,     \* counted in lwIP's backlog
    rx, nrx,     \* bytes received and unread; received so far
    room,        \* tcp_sndbuf
    refcnt,
    \* WiFiServer
    unclaimed,   \* the list _unclaimed
    \* the sketch
    handle,      \* serverClients[], and Temp: the _client of each WiFiClient
    pc, i,       \* where loop() is; its slot, beyond the last one on the way to "busy"
    maxToTcp,
    chunk, left, \* the buffer of the running write and what is left of it
    lines,       \* writes that println("busy") has still to make
    expired,     \* the time-out of the running write has passed
    \* the UART
    queue, arrived, delivered,
    \* history
    got          \* bytes handed to lwIP for each connection

connVars  == <<nconn, ctx, pcb, pending, rx, nrx, room, refcnt>>
writeVars == <<chunk, left, lines, expired>>
uartVars  == <<queue, arrived, delivered>>
vars == <<connVars, unclaimed, handle, pc, i, maxToTcp, writeVars, uartVars, got>>

Uart == INSTANCE ByteQueue WITH MaxBytes <- MaxUart

-----------------------------------------------------------------------------
(* lwIP's callbacks.                                                       *)

AtYield == pc \in {"loop", "spotYield", "drainYield", "afwYield", "stalled"}

Open(c) == ctx[c] = "live" /\ pcb[c] # "GONE"

\* A control block is freed, and with it its place in the backlog.
Freed(c) ==
    /\ pcb' = [pcb EXCEPT ![c] = "GONE"]
    /\ pending' = [pending EXCEPT ![c] = FALSE]

\* WiFiServer::_accept, when lwIP's backlog has room
Accept ==
    LET c == nconn + 1
    IN  /\ AtYield /\ nconn < MaxConns
        /\ Cardinality({d \in Conns : pending[d]}) < Backlog
        /\ nconn' = c
        /\ ctx' = [ctx EXCEPT ![c] = "live"]
        /\ pcb' = [pcb EXCEPT ![c] = "ESTABLISHED"]
        /\ pending' = [pending EXCEPT ![c] = TRUE]
        /\ unclaimed' = Append(unclaimed, c)
        /\ UNCHANGED <<rx, nrx, room, refcnt, handle, pc, i, maxToTcp, writeVars, uartVars, got>>

\* ClientContext::_recv
Received(c) ==
    /\ AtYield /\ Open(c) /\ pcb[c] = "ESTABLISHED" /\ nrx[c] < MaxRx
    /\ rx' = [rx EXCEPT ![c] = @ + 1]
    /\ nrx' = [nrx EXCEPT ![c] = @ + 1]
    /\ UNCHANGED <<nconn, ctx, pcb, pending, room, refcnt, unclaimed, handle, pc, i, maxToTcp, writeVars,
                   uartVars, got>>

\* ClientContext::_recv, at the end of the client's stream
PeerClosed(c) ==
    /\ AtYield /\ Open(c) /\ pcb[c] = "ESTABLISHED"
    /\ IF rx[c] > 0
       THEN pcb' = [pcb EXCEPT ![c] = "CLOSE_WAIT"] /\ UNCHANGED pending
       ELSE Freed(c)
    /\ UNCHANGED <<nconn, ctx, rx, nrx, room, refcnt, unclaimed, handle, pc, i, maxToTcp, writeVars,
                   uartVars, got>>

\* ClientContext::_error
Error(c) ==
    /\ AtYield /\ Open(c)
    /\ Freed(c)
    /\ UNCHANGED <<nconn, ctx, rx, nrx, room, refcnt, unclaimed, handle, pc, i, maxToTcp, writeVars,
                   uartVars, got>>

\* ClientContext::_acked
Acked(c) ==
    /\ AtYield /\ Open(c) /\ room[c] < SndBuf
    /\ room' = [room EXCEPT ![c] = @ + 1]
    /\ UNCHANGED <<nconn, ctx, pcb, pending, rx, nrx, refcnt, unclaimed, handle, pc, i, maxToTcp, writeVars,
                   uartVars, got>>

\* The time-out of a write that is waiting.
TimerFires ==
    /\ pc = "stalled" /\ ~expired
    /\ expired' = TRUE
    /\ UNCHANGED <<connVars, unclaimed, handle, pc, i, maxToTcp, chunk, left, lines, uartVars, got>>

\* The UART receives and loses bytes at any time, whatever the sketch does.
UartStep ==
    /\ Uart!Receive \/ \E k \in 1..Len(queue) : Uart!Discard(k)
    /\ UNCHANGED <<connVars, unclaimed, handle, pc, i, maxToTcp, writeVars, got>>

-----------------------------------------------------------------------------
(* WiFiClient.                                                             *)

\* getSize(), of the WiFiClient h
getSize(h) == IF handle[h] = None THEN 0 ELSE rx[handle[h]]

\* availableForWrite()
availableForWrite(c) == IF c # None /\ pcb[c] # "GONE" THEN room[c] ELSE 0

\* Mutant: connected() only asks available() once more.
connected_OnlyAvailable(c) == FALSE

\* connected(), in the state in which available() has just found nothing
connected(c) == c # None /\ pcb[c] = "ESTABLISHED"

\* unref() of the counts r: the last one discards what was received, closes
\* and deletes.
unref(c, r) ==
    /\ refcnt' = r
    /\ IF c # None /\ r[c] = 0
       THEN ctx' = [ctx EXCEPT ![c] = "deleted"] /\ rx' = [rx EXCEPT ![c] = 0] /\ Freed(c)
       ELSE UNCHANGED <<ctx, rx, pcb, pending>>
    /\ UNCHANGED <<nconn, nrx, room>>

Count(r, c, n) == IF c = None THEN r ELSE [r EXCEPT ![c] = @ + n]

\* Mutant: a copy does not count itself.
ref_Forgotten(c, r) == r

\* ref(), on the counts r
ref(c, r) == Count(r, c, 1)

\* Mutant: lwIP is not told that a client has been taken.
tcp_backlog_accepted_Never(c) == UNCHANGED pending

tcp_backlog_accepted(c) == pending' = [pending EXCEPT ![c] = FALSE]

-----------------------------------------------------------------------------
(* loop().                                                                 *)

Goto(label, slot) == pc' = label /\ i' = slot

\* The next slot of the for loop at label, or what comes after it.
NextSlot(label, after, slot) ==
    IF i < MAX_SRV_CLIENTS THEN Goto(label, i + 1) ELSE Goto(after, slot)

LoopBegin ==
    /\ pc = "loop"
    /\ IF unclaimed # <<>> THEN Goto("spot", 1) ELSE Goto("drain", 1)
    /\ maxToTcp' = 0 /\ chunk' = <<>>
    /\ UNCHANGED <<connVars, unclaimed, handle, left, lines, expired, uartVars, got>>

\* Mutant: without a free slot nobody is claimed.
NextSpot_Waits == NextSlot("spot", "drain", 1)

\* No slot is free: the client is claimed all the same, and told so.
NextSpot == NextSlot("spot", "claim", MAX_SRV_CLIENTS + 1)

\* if (!serverClients[i]), up to the yield in available()
Spot ==
    /\ pc = "spot"
    /\ \/ handle[i] = None /\ Goto("claim", i)
       \/ getSize(i) > 0 /\ NextSpot
       \/ handle[i] # None /\ getSize(i) = 0 /\ Goto("spotYield", i)
    /\ UNCHANGED <<connVars, unclaimed, handle, maxToTcp, writeVars, uartVars, got>>

\* available() returns the 0 it found before the yield; connected() is asked now.
SpotResume ==
    /\ pc = "spotYield"
    /\ IF connected(handle[i]) THEN NextSpot ELSE Goto("claim", i)
    /\ UNCHANGED <<connVars, unclaimed, handle, maxToTcp, writeVars, uartVars, got>>

\* server.available()
Available ==
    LET c == Head(unclaimed)
    IN  /\ pc = "claim"
        /\ handle' = [handle EXCEPT ![Temp] = c]
        /\ refcnt' = [refcnt EXCEPT ![c] = @ + 1]
        /\ IF pcb[c] # "GONE" THEN tcp_backlog_accepted(c) ELSE UNCHANGED pending
        /\ unclaimed' = Tail(unclaimed)
        /\ lines' = IF i > MAX_SRV_CLIENTS THEN 2 ELSE 0
        /\ Goto(IF i > MAX_SRV_CLIENTS THEN "busy" ELSE "assign", i)
        /\ UNCHANGED <<nconn, ctx, pcb, rx, nrx, room, maxToTcp, chunk, left, expired, uartVars, got>>

\* serverClients[i] = ...: operator= lets go of the old context first
Assign ==
    /\ pc = "assign"
    /\ handle' = [handle EXCEPT ![i] = handle[Temp]]
    /\ unref(handle[i], ref(handle[Temp], Count(refcnt, handle[i], -1)))
    /\ Goto("drop", i)
    /\ UNCHANGED <<unclaimed, maxToTcp, writeVars, uartVars, got>>

\* The temporary WiFiClient goes out of scope.
Drop ==
    /\ pc = "drop"
    /\ handle' = [handle EXCEPT ![Temp] = None]
    /\ unref(handle[Temp], Count(refcnt, handle[Temp], -1))
    /\ Goto("drain", 1)
    /\ UNCHANGED <<unclaimed, maxToTcp, writeVars, uartVars, got>>

(* server.available().println("busy"): two writes to the temporary *)

Line ==
    /\ pc = "busy"
    /\ IF lines = 0
       THEN Goto("drop", i) /\ chunk' = <<>> /\ UNCHANGED <<left, lines, expired>>
       ELSE IF pcb[handle[Temp]] = "GONE"
       THEN lines' = lines - 1 /\ UNCHANGED <<pc, i, chunk, left, expired>>
       ELSE /\ chunk' = <<Busy>> /\ left' = 1 /\ lines' = lines - 1 /\ expired' = FALSE
            /\ Goto("write", i)
    /\ UNCHANGED <<connVars, unclaimed, handle, maxToTcp, uartVars, got>>

(* while (serverClients[i].available() && uart.availableForWrite() > 0)
       uart.write(serverClients[i].read()) *)

NextDrain == NextSlot("drain", "afw", 1)

\* There is a byte, and the UART may have room for it or not.
Drain ==
    /\ pc = "drain"
    /\ \/ /\ getSize(i) > 0
          /\ rx' = [rx EXCEPT ![handle[i]] = @ - 1]
          /\ UNCHANGED <<pc, i>>
       \/ /\ handle[i] # None => getSize(i) > 0
          /\ NextDrain /\ UNCHANGED rx
       \/ /\ handle[i] # None /\ getSize(i) = 0
          /\ Goto("drainYield", i) /\ UNCHANGED rx
    /\ UNCHANGED <<nconn, ctx, pcb, pending, nrx, room, refcnt, unclaimed, handle, maxToTcp, writeVars, uartVars, got>>

DrainResume ==
    /\ pc = "drainYield"
    /\ NextDrain
    /\ UNCHANGED <<connVars, unclaimed, handle, maxToTcp, writeVars, uartVars, got>>

(* maxToTcp: the least room of the clients that have any *)

NextAfw == NextSlot("afw", "uart", 1)

Least(afw) ==
    maxToTcp' = IF afw = 0 THEN maxToTcp ELSE IF maxToTcp = 0 \/ afw < maxToTcp THEN afw ELSE maxToTcp

\* if (serverClients[i]), up to the yield in available()
Afw ==
    /\ pc = "afw"
    /\ \/ handle[i] = None /\ NextAfw /\ UNCHANGED maxToTcp
       \/ getSize(i) > 0 /\ NextAfw /\ Least(availableForWrite(handle[i]))
       \/ handle[i] # None /\ getSize(i) = 0 /\ Goto("afwYield", i) /\ UNCHANGED maxToTcp
    /\ UNCHANGED <<connVars, unclaimed, handle, writeVars, uartVars, got>>

AfwResume ==
    /\ pc = "afwYield"
    /\ NextAfw
    /\ IF connected(handle[i]) THEN Least(availableForWrite(handle[i])) ELSE UNCHANGED maxToTcp
    /\ UNCHANGED <<connVars, unclaimed, handle, writeVars, uartVars, got>>

(* The UART's bytes, to every client with enough room *)

\* len and readBytes: uart.available() counts the bytes that its interrupt
\* handler is not moving just then, and never more than the queue holds.
UartRead ==
    /\ pc = "uart"
    /\ \/ Goto("loop", 1) /\ UNCHANGED <<chunk, uartVars>>
       \/ \E len \in 1..Len(queue) :
              /\ len <= maxToTcp /\ len <= STACK_PROTECTOR
              /\ chunk' = Uart!Front(len) /\ Uart!Take(len)
              /\ Goto("push", 1)
    /\ UNCHANGED <<connVars, unclaimed, handle, maxToTcp, left, lines, expired, got>>

NextPush == NextSlot("push", "loop", 1)

\* Mutant: a client with any room at all is written to.
Fits_Any(c) == availableForWrite(c) > 0

Fits(c) == availableForWrite(c) >= Len(chunk)

Push ==
    /\ pc = "push"
    /\ IF Fits(handle[i])
       THEN Goto("write", i) /\ left' = Len(chunk) /\ expired' = FALSE
       ELSE NextPush /\ UNCHANGED <<left, expired>>
    /\ UNCHANGED <<connVars, unclaimed, handle, maxToTcp, chunk, lines, uartVars, got>>

(* ClientContext::_write_from_source *)

\* The client that is written to.
target == IF i \in Slots THEN handle[i] ELSE handle[Temp]

WriteOver == left' = 0 /\ IF i \in Slots THEN NextPush ELSE Goto("busy", i)

\* Mutant: the source does not release what lwIP has accepted.
release_buffer_Forgotten(n) == left

\* What is left after lwIP has accepted n bytes.
release_buffer(n) == left - n

\* One turn: tcp_write takes what there is room for, or nothing: ERR_MEM is for
\* want of memory, or because too many pieces that this client has not yet
\* acknowledged are queued (TCP_SND_QUEUELEN, lwipopts.h:1329-1335).
WriteTurn ==
    \E ok \in BOOLEAN :
        LET c      == target
            closed == pcb[c] # "ESTABLISHED"
            n      == IF closed \/ ~ok THEN 0 ELSE IF room[c] < left THEN room[c] ELSE left
            first  == Len(chunk) - left + 1
            rest   == release_buffer(n)
        IN  /\ pc = "write"
            /\ room' = [room EXCEPT ![c] = @ - n]
            /\ got' = [got EXCEPT ![c] = @ \o SubSeq(chunk, first, first + n - 1)]
            /\ expired' = FALSE
            /\ IF rest = 0 \/ closed \/ (expired /\ n = 0)
               THEN WriteOver
               ELSE left' = rest /\ Goto("stalled", i)
            /\ UNCHANGED <<nconn, ctx, pcb, pending, rx, nrx, refcnt, unclaimed, handle, maxToTcp, chunk,
                           lines, uartVars>>

\* An acknowledgement, the poll timer, an error, the end of the client's
\* stream or the time-out ends the delay (NoLostWakeup of ClientContext).
WriteWakes ==
    /\ pc = "stalled"
    /\ Goto("write", i)
    /\ UNCHANGED <<connVars, unclaimed, handle, maxToTcp, writeVars, uartVars, got>>

-----------------------------------------------------------------------------

Init ==
    /\ nconn = 0
    /\ ctx = [c \in Conns |-> "none"] /\ pcb = [c \in Conns |-> "GONE"]
    /\ pending = [c \in Conns |-> FALSE]
    /\ rx = [c \in Conns |-> 0] /\ nrx = [c \in Conns |-> 0]
    /\ room = [c \in Conns |-> SndBuf] /\ refcnt = [c \in Conns |-> 0]
    /\ unclaimed = <<>> /\ handle = [h \in Slots \cup {Temp} |-> None]
    /\ pc = "loop" /\ i = 1 /\ maxToTcp = 0
    /\ chunk = <<>> /\ left = 0 /\ lines = 0 /\ expired = FALSE
    /\ Uart!QInit
    /\ got = [c \in Conns |-> <<>>]

lwIP ==
    \/ Accept
    \/ \E c \in Conns : Received(c) \/ PeerClosed(c) \/ Error(c) \/ Acked(c)

Loop ==
    \/ LoopBegin \/ Spot \/ SpotResume \/ Available \/ Assign \/ Drop \/ Line
    \/ Drain \/ DrainResume \/ Afw \/ AfwResume \/ UartRead \/ Push \/ WriteTurn \/ WriteWakes

Next == lwIP \/ TimerFires \/ UartStep \/ Loop

\* loop() is called again for ever, and returns to from every delay; the clock
\* goes on while a write waits.  Nothing is assumed of the clients or the UART.
Fairness == WF_vars(Loop) /\ SF_vars(TimerFires)

Spec == Init /\ [][Next]_vars /\ Fairness

-----------------------------------------------------------------------------

TypeOK ==
    /\ nconn \in 0..MaxConns
    /\ ctx \in [Conns -> {"none", "live", "deleted"}]
    /\ pcb \in [Conns -> {"ESTABLISHED", "CLOSE_WAIT", "GONE"}] /\ pending \in [Conns -> BOOLEAN]
    /\ rx \in [Conns -> 0..MaxRx] /\ nrx \in [Conns -> 0..MaxRx]
    /\ room \in [Conns -> 0..SndBuf] /\ refcnt \in [Conns -> 0..2]
    /\ unclaimed \in Seq(Conns) /\ handle \in [Slots \cup {Temp} -> Conns \cup {None}]
    /\ pc \in {"loop", "spot", "spotYield", "claim", "assign", "drop", "busy", "drain", "drainYield", "afw",
               "afwYield", "uart", "push", "write", "stalled"}
    /\ i \in 1..MAX_SRV_CLIENTS + 1 /\ maxToTcp \in 0..SndBuf
    /\ chunk \in Seq(0..MaxUart) /\ left \in 0..Len(chunk) /\ lines \in 0..2 /\ expired \in BOOLEAN
    /\ queue \in Seq(1..MaxUart) /\ arrived \in 0..MaxUart /\ delivered \in Seq(1..MaxUart)
    /\ got \in [Conns -> Seq(0..MaxUart)]

\* A context is there exactly as long as somebody can reach it: the server's
\* list or a WiFiClient, and each WiFiClient that holds it has been counted.
\* No handle is left to a deleted context and none is forgotten undeleted
\* (ref, unref, operator= and the temporary of server.available()).
HandlesCounted ==
    \A c \in Conns :
        LET holders == {h \in DOMAIN handle : handle[h] = c}
        IN  /\ refcnt[c] = Cardinality(holders)
            /\ ctx[c] = "live" <=> holders # {} \/ c \in Range(unclaimed)
            /\ holders = {} \/ c \notin Range(unclaimed)
            /\ ctx[c] # "live" => pcb[c] = "GONE"

\* lwIP counts in its backlog exactly the connections that wait in the
\* server's list and are still open, so the server does not fall silent for
\* good (_accept's tcp_backlog_delayed, available's tcp_backlog_accepted).
BacklogIsUnclaimed ==
    \A c \in Conns : pending[c] <=> c \in Range(unclaimed) /\ pcb[c] # "GONE"

\* A client gets what the UART delivered, in order and nothing twice, or the
\* lines "busy": never both, whatever slots it and others have held.
ClientStreamInOrder ==
    \A c \in Conns :
        \/ got[c] \in {<<>>, <<Busy>>, <<Busy, Busy>>}
        \/ /\ Range(got[c]) \subseteq Range(delivered)
           /\ \A j, k \in 1..Len(got[c]) : j < k => got[c][j] < got[c][k]

\* Each client gets a chunk whole or not at all, even one whose room changed
\* while the others' was asked, and even from a write that had to wait.
ChunksStayWhole ==
    [][\A c \in Conns : got'[c] # got[c] => got'[c] = got[c] \o chunk]_vars

\* A write that sleeps does not wait for room in the send buffer, although other
\* slots were asked and written between the test of its room and its turn
\* (main.cpp:180-182): tcp_write has refused it.  That is not to say that a slow
\* client cannot hold up the UART and the others: tcp_write refuses, for up to
\* the 5 s of the time-out, also while too many small pieces of that client
\* are unacknowledged.
NeverWaitsForRoom ==
    pc = "stalled" /\ pcb[target] = "ESTABLISHED" => room[target] >= left

\* A slot is given to another client only after its own has closed or failed.
OpenClientKeepsSlot ==
    [][\A s \in Slots : handle'[s] # handle[s] /\ handle[s] # None => pcb[handle[s]] # "ESTABLISHED"]_vars

\* Every client that the server has accepted gets a slot or its answer.
EveryClientIsClaimed ==
    \A c \in Conns : c \in Range(unclaimed) ~> c \notin Range(unclaimed)

-----------------------------------------------------------------------------
(* What a comment says and the code does not do.                           *)

\* "there is still something to read" is why a closed connection is kept
\* (ClientContext.h:598).  What arrived during the yield of available() is
\* dropped with the slot: available() returns the 0 it read before the yield.
NothingUnreadIsDropped ==
    [][\A s \in Slots : handle'[s] # handle[s] /\ handle[s] # None /\ pcb[handle[s]] = "CLOSE_WAIT"
                        => rx[handle[s]] = 0]_vars

=============================================================================
