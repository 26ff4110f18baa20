---------------------------- MODULE LinReceiver -----------------------------
(* The receiving side of the LIN bus (Lin/LinBus.cpp, Lin/LinDrv.cpp): the    *)
(* USART interrupt collects a frame in rxBuf and hands it to the ring linPkt; *)
(* checkTimeout of the main loop does the same for a frame nothing follows.   *)
(* Nothing guards one against the other, so rxComplete in the main loop is    *)
(* split into its accesses to rxBuf and the ring.                             *)
(*                                                                           *)
(* A byte is named by its frame and its place in it.  The bus is any: frames  *)
(* of any length with any pauses, cut short by the next break or by an error. *)
EXTENDS CircularBuffer, Sequences, TLC

CONSTANTS BufSize,    \* bytes in rxBuf.data, the identifier's included (17)
          RingSize,   \* cells of linPkt (16)
          MaxLen,     \* bound: bytes of a frame after its sync byte
          MaxFrames   \* bound: frames on the bus

ASSUME BufSizeAssumption == BufSize \in Nat /\ BufSize > 1
ASSUME RingSizeAssumption == RingSize \in Nat /\ RingSize > 1

Zero  == <<0, 0>>   \* what a break reads as, and what LinBuf() fills data with
Sync  == <<0, 1>>   \* 0x55
Bytes == {Zero, Sync} \cup (1..MaxFrames) \X (0..(MaxLen - 1))

VARIABLES
    on, open,               \* interrupt enabled; linSettings.open
    rxTimeout,              \* whether it is above 0
    quiet,                  \* rxTimer has passed rxTimeout
    state, dataIdx, data,   \* rxBuf
    linPkt, putIdx, getIdx, \* the ring to the host
    mpc, pkt, len, idx,     \* rxComplete in the main loop: its next step, its
                            \*   packet, data_len and loaded index
    frame, phase, pos,      \* bus: the frame it is at, what comes next of it,
                            \*   and which of its bytes
    hostGot,                \* history: frame of the last packet the host was sent
    ear,                    \* history: the frame was heard from its break on, all open
    due,                    \* history: frames heard in part and not yet in the ring
    stale,                  \* history: rxBuf holds a part from before an opening
    raced, mixed            \* history: the interrupt came into the main loop's
                            \*   rxComplete; it did, or a stale packet was put

rxBuf    == <<state, dataIdx, data>>
ringPut  == <<linPkt, putIdx>>
mainVars == <<mpc, pkt, len, idx>>
busVars  == <<frame, phase, pos>>
setVars  == <<on, open, rxTimeout>>
history  == <<due, stale, raced, mixed>>
vars == <<setVars, quiet, rxBuf, ringPut, getIdx, mainVars, busVars, hostGot, ear, history>>

Unread == Avail(putIdx, getIdx, RingSize)

\* The frame of a packet, by its identifier
FrameOf(p) == IF p = <<>> THEN 0 ELSE p[1][1]

Init ==
    /\ on = FALSE /\ open = FALSE /\ rxTimeout = FALSE /\ quiet = FALSE
    /\ state = "Idle" /\ dataIdx = 0 /\ data = [i \in 0..(BufSize - 1) |-> Zero]
    /\ linPkt = [i \in 0..(RingSize - 1) |-> <<>>] /\ putIdx = 0 /\ getIdx = 0
    /\ mpc = "idle" /\ pkt = <<>> /\ len = 0 /\ idx = 0
    /\ frame = 0 /\ phase = "silent" /\ pos = 0
    /\ hostGot = 0 /\ ear = FALSE /\ due = {}
    /\ stale = FALSE /\ raced = FALSE /\ mixed = FALSE

----------------------------------------------------------------------------
(* The interrupt, as functions of what it may change.                       *)

rx == [state |-> state, dataIdx |-> dataIdx, data |-> data, linPkt |-> linPkt, putIdx |-> putIdx,
       due |-> due, stale |-> stale, mixed |-> mixed]

\* Faulty: dataIdx is not reset.
FreshKeepingIndex(r) == [r EXCEPT !.state = "Idle", !.data = [i \in DOMAIN @ |-> Zero],
                                  !.stale = FALSE]

\* rxBuf = LinBuf()
Fresh(r) == [r EXCEPT !.state = "Idle", !.dataIdx = 0, !.data = [i \in DOMAIN @ |-> Zero],
                      !.stale = FALSE]

Packet(r) == [i \in 1..r.dataIdx |-> r.data[i - 1]]

\* packetReceived: a closed bus has no packets.
PacketReceived(r) ==
    IF open THEN [r EXCEPT !.linPkt[r.putIdx] = Packet(r), !.putIdx = Advance(@, RingSize),
                           !.due = @ \ {FrameOf(Packet(r))}, !.mixed = @ \/ r.stale]
    ELSE r

\* Faulty: the buffer is not reset after the packet.
RxCompleteKeeping(r) ==
    IF r.state = "Data" /\ r.dataIdx >= 1 THEN PacketReceived(r) ELSE r

\* rxComplete
RxComplete(r) ==
    IF r.state = "Data" /\ r.dataIdx >= 1 THEN Fresh(PacketReceived(r)) ELSE r

\* rxData.  Outside of a frame bytes fill the buffer, too; they are left out, as
\* only rxBreak begins a frame and resets the buffer first.
RxData(r, b) ==
    LET kept == IF r.dataIdx < BufSize
                THEN [r EXCEPT !.data[r.dataIdx] = b, !.dataIdx = @ + 1] ELSE r
    IN  CASE r.state = "Break" /\ b = Sync -> [r EXCEPT !.state = "Data"]
          [] r.state = "Data" -> IF kept.dataIdx = BufSize THEN RxComplete(kept) ELSE kept
          [] OTHER -> Fresh(r)

\* Faulty: the packet before the error is dropped.
RxErrorBare(r) == Fresh(r)

\* rxError
RxError(r) == Fresh(RxComplete(r))

\* rxBreak
RxBreak(r) == [Fresh(RxComplete(r)) EXCEPT !.state = "Break"]

\* The steps of the main loop's rxComplete after its checks
Completing == {"id", "data", "store", "load", "publish", "reset"}

\* irqHandler with outcome r; with the interrupt disabled the bus is not heard.
\* Each call restarts rxTimer.
Hear(r) ==
    IF on
    THEN /\ state' = r.state /\ dataIdx' = r.dataIdx /\ data' = r.data
         /\ linPkt' = r.linPkt /\ putIdx' = r.putIdx
         /\ due' = r.due /\ stale' = r.stale
         /\ raced' = (raced \/ mpc \in Completing)
         /\ mixed' = (r.mixed \/ raced')
         /\ quiet' = FALSE
    ELSE UNCHANGED <<rxBuf, ringPut, history, quiet>>

----------------------------------------------------------------------------
(* The bus.                                                                  *)

\* A break, or noise, is at first a zero byte with a framing error: RXNE and FE.
\* LBD follows a bit later in an interrupt of its own or in the same one.
BusBreak ==
    /\ \/ /\ frame < MaxFrames /\ frame' = frame + 1
          /\ \/ phase' = "break" /\ Hear(RxError(RxData(rx, Zero)))
             \/ phase' = "sync" /\ Hear(RxBreak(RxError(RxData(rx, Zero))))
       \/ /\ phase = "bytes" /\ phase' = "silent"
          /\ Hear(RxError(RxData(rx, Zero)))
          /\ UNCHANGED frame
    /\ pos' = 0 /\ ear' = (on /\ open /\ phase' = "sync")
    /\ UNCHANGED <<setVars, getIdx, mainVars, hostGot>>

BusBreakEnd ==
    /\ phase = "break" /\ phase' = "sync"
    /\ Hear(RxBreak(rx))
    /\ ear' = (on /\ open)
    /\ UNCHANGED <<setVars, getIdx, mainVars, frame, pos, hostGot>>

\* The sync byte, or something else
BusSync ==
    /\ phase = "sync"
    /\ \/ phase' = "bytes" /\ Hear(RxData(rx, Sync)) /\ UNCHANGED ear
       \/ phase' = "silent" /\ Hear(RxData(rx, Zero)) /\ ear' = FALSE
    /\ UNCHANGED <<setVars, getIdx, mainVars, frame, pos, hostGot>>

BusByte ==
    /\ phase = "bytes" /\ pos < MaxLen /\ pos' = pos + 1
    /\ LET heard == IF ear THEN {frame} ELSE {}
       IN  Hear(RxData([rx EXCEPT !.due = @ \cup heard], <<frame, pos>>))
    /\ ear' = FALSE
    /\ UNCHANGED <<setVars, getIdx, mainVars, frame, phase, hostGot>>

\* rxTimeout milliseconds without a byte
Tick ==
    /\ rxTimeout /\ ~quiet /\ quiet' = TRUE
    /\ UNCHANGED <<setVars, rxBuf, ringPut, getIdx, mainVars, busVars, hostGot, ear, history>>

----------------------------------------------------------------------------
(* The main loop.                                                            *)

\* Faulty: checkTimeout asks for the wrong state.
CheckTimeoutOfBreak ==
    /\ mpc = "idle" /\ rxTimeout /\ quiet /\ state = "Break"
    /\ mpc' = "check"
    /\ UNCHANGED <<setVars, quiet, rxBuf, ringPut, getIdx, pkt, len, idx, busVars, hostGot, ear, history>>

\* checkTimeout
CheckTimeout ==
    /\ mpc = "idle" /\ rxTimeout /\ quiet /\ state # "Idle"
    /\ mpc' = "check"
    /\ UNCHANGED <<setVars, quiet, rxBuf, ringPut, getIdx, pkt, len, idx, busVars, hostGot, ear, history>>

\* rxComplete looks at state and dataIdx, which it does not read again ...
CompleteCheck ==
    /\ mpc = "check"
    /\ IF state = "Data" /\ dataIdx >= 1
       THEN mpc' = "id" /\ len' = dataIdx
       ELSE mpc' = "idle" /\ UNCHANGED len
    /\ UNCHANGED <<setVars, quiet, rxBuf, ringPut, getIdx, pkt, idx, busVars, hostGot, ear, history>>

\* ... copies the identifier ...
CompleteId ==
    /\ mpc = "id" /\ mpc' = "data"
    /\ pkt' = <<data[0]>>
    /\ UNCHANGED <<setVars, quiet, rxBuf, ringPut, getIdx, len, idx, busVars, hostGot, ear, history>>

\* ... and the data ...
CompleteData ==
    /\ mpc = "data"
    /\ mpc' = IF open THEN "store" ELSE "reset"
    /\ pkt' = pkt \o [i \in 1..(len - 1) |-> data[i]]
    /\ UNCHANGED <<setVars, quiet, rxBuf, ringPut, getIdx, len, idx, busVars, hostGot, ear, history>>

\* ... puts the packet: the cell, the load of putIdx and its store ...
CompleteStore ==
    /\ mpc = "store" /\ mpc' = "load"
    /\ linPkt' = [linPkt EXCEPT ![putIdx] = pkt]
    /\ UNCHANGED <<setVars, quiet, rxBuf, putIdx, getIdx, pkt, len, idx, busVars, hostGot, ear, history>>

CompleteLoad ==
    /\ mpc = "load" /\ mpc' = "publish"
    /\ idx' = putIdx
    /\ UNCHANGED <<setVars, quiet, rxBuf, ringPut, getIdx, pkt, len, busVars, hostGot, ear, history>>

CompletePublish ==
    /\ mpc = "publish" /\ mpc' = "reset"
    /\ putIdx' = Advance(idx, RingSize)
    /\ due' = due \ {FrameOf(pkt)}
    /\ mixed' = (mixed \/ stale)
    /\ UNCHANGED <<setVars, quiet, rxBuf, linPkt, getIdx, pkt, len, idx, busVars, hostGot, ear, stale, raced>>

\* ... and resets rxBuf, whatever it holds by now.
CompleteReset ==
    /\ mpc = "reset" /\ mpc' = "idle"
    /\ state' = "Idle" /\ dataIdx' = 0 /\ data' = [i \in DOMAIN data |-> Zero]
    /\ quiet' = FALSE /\ stale' = FALSE
    /\ pkt' = <<>> /\ len' = 0 /\ idx' = 0
    /\ UNCHANGED <<setVars, ringPut, getIdx, busVars, hostGot, ear, due, raced, mixed>>

\* processPackets: what the interrupt may do to a Get is RingChannel's subject.
PacketGet ==
    /\ mpc = "idle" /\ Unread > 0
    /\ getIdx' = Advance(getIdx, RingSize)
    /\ LET f == FrameOf(linPkt[getIdx]) IN hostGot' = IF f = 0 THEN hostGot ELSE f
    /\ UNCHANGED <<setVars, quiet, rxBuf, ringPut, mainVars, busVars, ear, history>>

\* canOpen: LinBus::init enables the interrupt and keeps rxBuf, ...
OpenBus ==
    /\ mpc = "idle" /\ mpc' = "open"
    /\ on' = TRUE /\ rxTimeout' \in BOOLEAN
    /\ stale' = (state # "Idle") /\ ear' = FALSE
    /\ UNCHANGED <<open, quiet, rxBuf, ringPut, getIdx, pkt, len, idx, busVars, hostGot, due, raced, mixed>>

\* ... then the settings say open.
OpenSettings ==
    /\ mpc = "open" /\ mpc' = "idle"
    /\ open' = TRUE
    /\ UNCHANGED <<on, rxTimeout, quiet, rxBuf, ringPut, getIdx, pkt, len, idx, busVars, hostGot, ear, history>>

\* canClose: rxBuf and rxTimeout stay.
Close ==
    /\ mpc = "idle"
    /\ on' = FALSE /\ open' = FALSE /\ ear' = FALSE /\ due' = {}
    /\ UNCHANGED <<rxTimeout, quiet, rxBuf, ringPut, getIdx, mainVars, busVars, hostGot, stale, raced, mixed>>

\* The handshake resets linSettings only.
Handshake ==
    /\ mpc = "idle"
    /\ open' = FALSE /\ ear' = FALSE /\ due' = {}
    /\ UNCHANGED <<on, rxTimeout, quiet, rxBuf, ringPut, getIdx, mainVars, busVars, hostGot, stale, raced, mixed>>

----------------------------------------------------------------------------
Complete ==
    \/ CompleteCheck \/ CompleteId \/ CompleteData
    \/ CompleteStore \/ CompleteLoad \/ CompletePublish \/ CompleteReset

Bus == BusBreak \/ BusBreakEnd \/ BusSync \/ BusByte

Next ==
    \/ Bus \/ Tick
    \/ CheckTimeout \/ Complete \/ PacketGet
    \/ OpenBus \/ OpenSettings \/ Close \/ Handshake

Spec == Init /\ [][Next]_vars

\* Each turn of the main loop calls checkTimeout, whatever else it finds to do.
FairSpec == Spec /\ WF_vars(Tick) /\ WF_vars(Complete \/ OpenSettings) /\ SF_vars(CheckTimeout)

----------------------------------------------------------------------------
\* While a frame is received rxBuf holds the bytes of that frame so far, from its
\* identifier on, whatever the main loop's rxComplete did to it in between; but
\* not when the bus was opened over the remains of an earlier frame.  It never
\* holds more than fits.
BufferIsOneFrame ==
    /\ dataIdx <= BufSize
    /\ on /\ state = "Data" /\ ~stale =>
           \A i \in 0..(dataIdx - 1) : data[i] = <<frame, i>>

\* The first bytes of one frame, and perhaps the zero that its end reads as; that
\* zero is all of a frame cut after its sync byte.
IsOneFrame(p) ==
    /\ p # <<>> /\ p[1][2] = 0 /\ (p[1] = Zero => Len(p) = 1)
    /\ \A i \in 2..Len(p) : p[i] = <<FrameOf(p), i - 1>> \/ (i = Len(p) /\ p[i] = Zero)

\* How many packets are before a cell of the ring, and the cells that wait.
Place(c) == Avail(c, getIdx, RingSize)
Waiting  == {c \in 0..(RingSize - 1) : Place(c) < Unread}

\* What waits for the host is a packet of one frame each, each frame once and in
\* their order, through overruns, closings and handshakes; until the interrupt
\* comes into the main loop's rxComplete or remains of an earlier frame are put.
PacketsAreFrames ==
    ~mixed =>
        \A c \in Waiting :
            /\ IsOneFrame(linPkt[c])
            /\ FrameOf(linPkt[c]) # 0 =>
                   /\ FrameOf(linPkt[c]) > hostGot
                   /\ \A d \in Waiting : Place(d) < Place(c) => FrameOf(linPkt[d]) < FrameOf(linPkt[c])

\* No frame is lost on its way to the ring: one that was heard from its break on
\* and is not there yet is in rxBuf, while the main loop copies and puts it, too.
NoFrameLost ==
    ~raced => \A f \in due : state = "Data" /\ dataIdx >= 1 /\ data[0] = <<f, 0>>

\* With an inter-byte timeout the last frame before a silence gets to the ring
\* without anything following it on the bus.
SilenceDelivers == []<>(due = {} \/ ~rxTimeout \/ raced)
=============================================================================
