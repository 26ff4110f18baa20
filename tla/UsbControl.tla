----------------------------- MODULE UsbControl -----------------------------
(* Control transfers on endpoint 0: the state machine of usb_control.c, the   *)
(* part of dwc_poll that drives it, and the endpoint of the OTG core.         *)
(*                                                                          *)
(* The interrupt handler looks at XFRC (a packet went to the host) before it  *)
(* takes one entry from the receive FIFO, so that InComplete precedes RxEntry. *)
(* A host that gives up a transfer does so after a timeout or a bus reset, and *)
(* one whose request was refused comes back later than an interrupt takes: in  *)
(* both times the device has handled what it received (Settled).              *)
EXTENDS Integers, SequencesExt

CONSTANTS EpSize,     \* bMaxPacketSize0 (64)
          BufLen,     \* ctrl_buf_len
          MaxLen,     \* bound: wLength
          MaxRequests \* bound: requests of the host

ASSUME SizeAssumption == {EpSize, BufLen, MaxLen, MaxRequests} \subseteq Nat \ {0}

VARIABLES
    host,   \* [no, req, stage, got, ended]: its last request, its stage, bytes
            \*   moved; the last request that was done
    rx,     \* the receive FIFO
    in,     \* the packet to the host, [no, from, n]; no = 0: PKTCNT is 0
    inNak, outOpen, stall, xfrc,   \* NAK for IN, OUT accepted, STALL, XFRC
    state, req, ctrl_len, needs_zlp, complete,   \* control_state; complete # NULL
    force_nak,
    handled, refused, completed, tooLong,
                    \* history: last request dispatched with success, stalled,
                    \*   reported by its complete callback, stalled for its length
    times, reports  \* history: dispatches with success and calls of complete
                    \*   callbacks since the host's last SETUP

hwVars   == <<rx, in, inNak, outOpen, stall, xfrc>>
ctrlVars == <<state, req, ctrl_len, needs_zlp, complete, force_nak>>
dispatched == <<handled, times>>
reported   == <<completed, reports>>
history  == <<dispatched, reported, refused, tooLong>>
vars     == <<host, hwVars, ctrlVars, history>>

(* A request: in: the host reads; len: wLength; reply: what the device has to  *)
(* say to it; ok: some callback handles it. Replies that no callback cuts to   *)
(* wLength fit into one packet.                                              *)
Requests ==
    {r \in [in : BOOLEAN, len : 0..MaxLen, reply : 0..MaxLen, ok : BOOLEAN] :
        /\ (r.reply <= r.len \/ r.reply <= EpSize) /\ (r.len = 0 => ~r.in)
        /\ (~(r.in /\ r.ok) => r.reply = 0)}

NoPacket == [no |-> 0, from |-> 0, n |-> 0]
NoReq    == [no |-> 0, in |-> FALSE, len |-> 0, reply |-> 0, ok |-> FALSE]

Init ==
    /\ host = [no |-> 0, req |-> NoReq, stage |-> "done", got |-> 0, ended |-> 0]
    /\ rx = <<>> /\ in = NoPacket /\ inNak = TRUE /\ outOpen = FALSE /\ stall = FALSE /\ xfrc = FALSE
    /\ state = "IDLE" /\ req = NoReq /\ ctrl_len = 0 /\ needs_zlp = FALSE /\ complete = FALSE
    /\ force_nak = FALSE
    /\ handled = 0 /\ refused = 0 /\ completed = 0 /\ tooLong = 0 /\ times = 0 /\ reports = 0

----------------------------------------------------------------------------
(* The host, and what the core does by itself: a SETUP is taken always, sets  *)
(* NAK in both directions and ends a STALL.                                  *)

Idle    == host.stage \in {"done", "failed"}
Settled == rx = <<>> /\ ~xfrc
Done    == [host EXCEPT !.stage = "done", !.ended = host.no]

\* A packet of n bytes of the request from byte from on, or its end
Entry(entry, r, from, n) == [entry |-> entry, req |-> r, from |-> from, n |-> n]

HostSetup ==
    /\ host.no < MaxRequests /\ (host.stage = "done" \/ Settled)
    /\ \E r \in Requests :
           LET q == [no |-> host.no + 1, in |-> r.in, len |-> r.len, reply |-> r.reply, ok |-> r.ok]
           IN  /\ host' = [host EXCEPT !.no = q.no, !.req = q, !.got = 0,
                                       !.stage = IF r.len = 0 THEN "status" ELSE "data"]
               /\ rx' = rx \o <<Entry("SETUP", q, 0, 8), Entry("SETUP_COMP", q, 0, 0)>>
    /\ inNak' = TRUE /\ outOpen' = FALSE /\ stall' = FALSE /\ times' = 0 /\ reports' = 0
    /\ UNCHANGED <<in, xfrc, ctrlVars, handled, refused, completed, tooLong>>

\* The transfers' IN tokens: data of a read, status of the others
HostIn ==
    /\ in.no # 0 /\ ~inNak /\ ~stall
    /\ \/ /\ host.stage = "data" /\ host.req.in /\ host.got + in.n <= host.req.len
          /\ host' = [host EXCEPT !.got = @ + in.n,
                                  !.stage = IF in.n < EpSize \/ host.got + in.n >= host.req.len THEN "status" ELSE @]
       \/ host.stage = "status" /\ ~host.req.in /\ host' = Done
    /\ in' = NoPacket /\ xfrc' = TRUE
    /\ UNCHANGED <<rx, inNak, outOpen, stall, ctrlVars, history>>

\* A packet longer than what the host still asks for: it does not acknowledge it.
HostOverrun ==
    /\ in.no # 0 /\ ~inNak /\ ~stall
    /\ host.stage = "data" /\ host.req.in /\ host.got + in.n > host.req.len
    /\ host' = [host EXCEPT !.stage = "failed"]
    /\ UNCHANGED <<hwVars, ctrlVars, history>>

\* The transfers' OUT packets: data of a write, status of a read
HostOut ==
    /\ outOpen /\ ~stall
    /\ \E n \in 0..EpSize :
           /\ \/ /\ host.stage = "data" /\ ~host.req.in
                 /\ n = Min({EpSize, host.req.len - host.got})
                 /\ host' = [host EXCEPT !.got = @ + n,
                                         !.stage = IF host.got + n = host.req.len THEN "status" ELSE @]
              \/ host.stage = "status" /\ host.req.in /\ n = 0 /\ host' = Done
           /\ rx' = rx \o <<Entry("OUT", host.req, host.got, n), Entry("OUT_COMP", host.req, 0, 0)>>
    /\ outOpen' = FALSE
    /\ UNCHANGED <<in, inNak, stall, xfrc, ctrlVars, history>>

HostStalled ==
    /\ stall /\ ~Idle /\ host' = [host EXCEPT !.stage = "failed"]
    /\ UNCHANGED <<hwVars, ctrlVars, history>>

\* _usbd_reset, dwc_ep_setup: the packet to the host is gone, control_state stays.
BusReset ==
    /\ Settled /\ host' = [host EXCEPT !.stage = IF Idle THEN @ ELSE "failed"]
    /\ in' = NoPacket /\ inNak' = TRUE /\ outOpen' = FALSE /\ stall' = FALSE
    /\ UNCHANGED <<rx, xfrc, ctrlVars, history>>

----------------------------------------------------------------------------
(* The device, with the faulty variants of its steps before each.             *)

\* dwc_ep_write_packet: nothing happens while a packet is pending.
WritePacket(from, n) ==
    IF in.no # 0 THEN UNCHANGED <<in, inNak>>
    ELSE in' = [no |-> req.no, from |-> from, n |-> n] /\ inNak' = FALSE

\* stall_transaction
Stall ==
    /\ stall' = TRUE /\ state' = "IDLE" /\ refused' = req.no

\* usb_control_request_dispatch, when a callback handles the request
Dispatch == handled' = req.no /\ times' = times + 1

\* The call of the complete callback that the dispatch has left, if any
Report == IF complete THEN completed' = req.no /\ reports' = reports + 1 ELSE UNCHANGED reported

\* Faulty: nothing ends a reply of whole packets.
NeedsZlpNever(len, wLength) == FALSE

\* needs_zlp
NeedsZlp(len, wLength) == len < wLength /\ len # 0 /\ len % EpSize = 0

\* usb_control_send_chunk, with len left to send
SendChunk(len, zlp) ==
    /\ WritePacket(req.reply - len, Min({EpSize, len}))
    /\ IF EpSize < len THEN state' = "DATA_IN" /\ ctrl_len' = len - EpSize /\ needs_zlp' = zlp
       ELSE state' = (IF zlp THEN "DATA_IN" ELSE "LAST_DATA_IN") /\ ctrl_len' = 0 /\ needs_zlp' = FALSE

\* usb_control_setup_read; usb_control_request_dispatch may set complete.
SetupRead ==
    /\ force_nak' = TRUE
    /\ IF req.ok
       THEN /\ complete' = TRUE /\ Dispatch
            /\ UNCHANGED <<stall, refused>>
            /\ IF req.len > 0 THEN SendChunk(req.reply, NeedsZlp(req.reply, req.len))
               ELSE WritePacket(0, 0) /\ state' = "STATUS_IN" /\ ctrl_len' = 0 /\ UNCHANGED needs_zlp
       ELSE Stall /\ complete' = FALSE /\ ctrl_len' = req.len /\ UNCHANGED <<in, inNak, needs_zlp, dispatched>>

\* Faulty: the count of the last write goes on.
SetupWriteCounting ==
    /\ complete' = FALSE /\ UNCHANGED <<in, inNak, needs_zlp, dispatched>>
    /\ IF req.len > BufLen THEN Stall /\ force_nak' = TRUE /\ tooLong' = req.no /\ UNCHANGED ctrl_len
       ELSE /\ force_nak' = FALSE /\ UNCHANGED <<stall, refused, tooLong, ctrl_len>>
            /\ state' = IF req.len > EpSize THEN "DATA_OUT" ELSE "LAST_DATA_OUT"

\* Faulty: dispatched as a read is, and again when its data has come.
SetupWriteDispatching ==
    /\ complete' = FALSE /\ UNCHANGED <<in, inNak, needs_zlp>>
    /\ IF req.len > BufLen THEN Stall /\ force_nak' = TRUE /\ tooLong' = req.no /\ UNCHANGED <<ctrl_len, dispatched>>
       ELSE /\ force_nak' = FALSE /\ ctrl_len' = 0 /\ UNCHANGED <<stall, refused, tooLong>>
            /\ IF req.ok THEN Dispatch ELSE UNCHANGED dispatched
            /\ state' = IF req.len > EpSize THEN "DATA_OUT" ELSE "LAST_DATA_OUT"

\* usb_control_setup_write
SetupWrite ==
    /\ complete' = FALSE /\ UNCHANGED <<in, inNak, needs_zlp, dispatched>>
    /\ IF req.len > BufLen THEN Stall /\ force_nak' = TRUE /\ tooLong' = req.no /\ UNCHANGED ctrl_len
       ELSE /\ force_nak' = FALSE /\ ctrl_len' = 0 /\ UNCHANGED <<stall, refused, tooLong>>
            /\ state' = IF req.len > EpSize THEN "DATA_OUT" ELSE "LAST_DATA_OUT"

\* dwc_flush_txfifo, called for a SETUP when PKTCNT is not 0
Flush == NoPacket

\* Faulty: the last packet taken for a whole one.
ChunkWhole == EpSize

\* The packet that usb_control_recv_chunk expects
Chunk == Min({EpSize, req.len - ctrl_len})

\* _usbd_control_out for a packet of n bytes
ControlOut(n) ==
    LET size == Chunk
        rest == req.len - ctrl_len - n
    IN  CASE state \in {"DATA_OUT", "LAST_DATA_OUT"} /\ n < size ->
                 Stall /\ UNCHANGED <<in, inNak, ctrl_len, complete, dispatched, reported>>
          [] state = "DATA_OUT" /\ n >= size ->
                 /\ ctrl_len' = ctrl_len + size /\ state' = IF rest <= EpSize THEN "LAST_DATA_OUT" ELSE state
                 /\ UNCHANGED <<in, inNak, stall, complete, dispatched, refused, reported>>
          [] state = "LAST_DATA_OUT" /\ n >= size ->
                 /\ ctrl_len' = ctrl_len + size /\ UNCHANGED reported
                 /\ IF req.ok THEN /\ WritePacket(0, 0) /\ state' = "STATUS_IN" /\ complete' = TRUE /\ Dispatch
                                   /\ UNCHANGED <<stall, refused>>
                    ELSE Stall /\ UNCHANGED <<in, inNak, complete, dispatched>>
          [] state = "STATUS_OUT" ->
                 /\ state' = "IDLE" /\ complete' = FALSE /\ Report
                 /\ UNCHANGED <<in, inNak, stall, ctrl_len, dispatched, refused>>
          [] OTHER -> Stall /\ UNCHANGED <<in, inNak, ctrl_len, complete, dispatched, reported>>

\* dwc_poll for XFRC, _usbd_control_in; it is cleared long before the host can
\* have taken the next packet.
InComplete ==
    /\ xfrc /\ xfrc' = FALSE
    /\ CASE state = "DATA_IN" ->
                SendChunk(ctrl_len, needs_zlp) /\ UNCHANGED <<outOpen, stall, force_nak, refused, reported>>
         [] state = "LAST_DATA_IN" ->
                /\ state' = "STATUS_OUT" /\ force_nak' = FALSE /\ outOpen' = TRUE
                /\ UNCHANGED <<in, inNak, stall, ctrl_len, needs_zlp, refused, reported>>
         [] state = "STATUS_IN" ->
                /\ state' = "IDLE" /\ Report
                /\ UNCHANGED <<in, inNak, outOpen, stall, ctrl_len, needs_zlp, force_nak, refused>>
         [] OTHER -> Stall /\ UNCHANGED <<in, inNak, outOpen, ctrl_len, needs_zlp, force_nak, reported>>
    /\ UNCHANGED <<host, rx, req, complete, dispatched, tooLong>>

\* Faulty: the receive FIFO is served before XFRC.
RxReadyFirst == rx # <<>>

RxReady == ~xfrc /\ rx # <<>>

\* dwc_poll for one entry of the receive FIFO
RxEntry ==
    /\ RxReady /\ rx' = Tail(rx)
    /\ CASE Head(rx).entry = "SETUP" ->
                /\ req' = Head(rx).req /\ in' = Flush
                /\ UNCHANGED <<inNak, outOpen, stall, state, ctrl_len, needs_zlp, complete, force_nak, history>>
         [] Head(rx).entry = "SETUP_COMP" ->
                /\ IF req.len = 0 \/ req.in THEN SetupRead /\ UNCHANGED tooLong ELSE SetupWrite
                /\ outOpen' = ~force_nak' /\ UNCHANGED <<req, reported>>
         [] Head(rx).entry = "OUT" ->
                ControlOut(Head(rx).n) /\ UNCHANGED <<outOpen, req, needs_zlp, force_nak, tooLong>>
         [] OTHER ->
                /\ outOpen' = ~force_nak
                /\ UNCHANGED <<in, inNak, stall, ctrlVars, history>>
    /\ UNCHANGED <<host, xfrc>>

Next == HostSetup \/ HostIn \/ HostOverrun \/ HostOut \/ HostStalled \/ BusReset \/ InComplete \/ RxEntry

Spec == Init /\ [][Next]_vars

\* The interrupt handler runs; the host goes on with its transfer.
FairSpec == /\ Spec /\ WF_vars(InComplete) /\ WF_vars(RxEntry)
            /\ WF_vars(HostIn) /\ WF_vars(HostOverrun) /\ WF_vars(HostOut) /\ WF_vars(HostStalled)

----------------------------------------------------------------------------
\* A packet the host can take is the next one of its own request.
RepliesBelong ==
    in.no # 0 /\ ~inNak /\ ~Idle =>
        /\ in.no = host.no
        /\ host.stage = "data" => in.from = host.got /\ in.n = Min({EpSize, host.req.reply - host.got})
        /\ host.stage = "status" => in.n = 0

\* Data of a write is put where it belongs in ctrl_buf, whatever write was given up
\* before.
WritesInPlace ==
    rx # <<>> /\ Head(rx).entry = "OUT" /\ state \in {"DATA_OUT", "LAST_DATA_OUT"} =>
        Head(rx).req = req /\ Head(rx).from = ctrl_len

\* The host is stalled only for what no callback handles or the buffer cannot
\* hold, whatever was given up or refused before.
StallsJustified ==
    stall /\ ~Idle => host.no = refused /\ (~host.req.ok \/ host.no = tooLong)

\* A transfer the host goes on with ends.
TransfersEnd == \A k \in 1..MaxRequests : (host.no = k /\ ~Idle) ~> (host.no # k \/ Idle)

\* Whatever the host gives up, each of its requests is dispatched with success at
\* most once, while it waits for it, and its complete callback runs at most once,
\* after the host has seen its status stage: both are counted.
Pipe == INSTANCE ControlPipe WITH
    no <- host.no, ended <- host.ended,
    phase <- IF Idle THEN host.stage
             ELSE IF handled = host.no THEN "handled" ELSE IF refused = host.no THEN "refused" ELSE "made"
ImplementsControlPipe == Pipe!Spec
=============================================================================
