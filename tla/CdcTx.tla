------------------------------- MODULE CdcTx --------------------------------
(* The way of a byte from Usb::send to the host (USB/cdcacm.cpp): the ring   *)
(* txBuf, the static packet buffer of cdcacm_data_tx_cb, the transmit FIFO of *)
(* the bulk IN endpoint.  cdcacm_data_tx_cb runs both in the main loop, from *)
(* Usb::send, and in the OTG_FS interrupt, from dwc_poll; the host takes     *)
(* packets at any moment, also while the interrupt handler runs.             *)
(*                                                                          *)
(* Bytes are numbered in the order Usb::send puts them.  The endpoint        *)
(* registers are modelled by what the code relies on: PKTCNT is set by the   *)
(* write of a packet and cleared when the host has taken it, which raises    *)
(* XFRC; XFRC stays until the handler clears it.                             *)
EXTENDS CircularBuffer, SequencesExt

CONSTANTS TxSize,     \* cells of txBuf (1024)
          PktSize,    \* sizeof(buf), the endpoint's packet size (64)
          Burst,      \* largest dataLen of a Usb::send
          MaxBytes,   \* bound: bytes put in a behaviour
          MaxReplugs  \* bound: cable pulls and bus resets in a behaviour

ASSUME TxSizeAssumption == TxSize \in Nat /\ TxSize > 1
ASSUME PktSizeAssumption == PktSize \in Nat /\ PktSize > 0
ASSUME BoundsAssumption == {Burst, MaxBytes, MaxReplugs} \subseteq Nat

VARIABLES
    txBuf, putIdx, getIdx,  \* the ring
    buf,                    \* buf[0..buf_ptr-1] of cdcacm_data_tx_cb
    mpc, togo, held,        \* main loop: its next step, dataLen, the byte in hand
    irqOff,                 \* OTG_FS disabled in the NVIC
    isr,                    \* dwc_poll: "idle", or "clear" once the callback is done
    pktcnt, fifo, xfrc,     \* the IN endpoint: PKTCNT, the packet in it, XFRC
    vbus, connected, sdis,  \* the cable, what checkConnect made of it, the
                            \*   soft-disconnect bit
    configured,             \* the host has configured the device and polls it
    accepted, hostGot,      \* history: bytes put, newest byte the host has
    taken,                  \* history: how many packets the host took
    overrun, dropped,       \* history: a Put met a full ring; Configure lost a packet
    missed,                 \* history: bytes wait and no completion will fetch them
    stale,                  \* history: XFRC was raised again since the callback ran
    replugs

ringVars == <<txBuf, putIdx, getIdx>>
mainVars == <<mpc, togo, held>>
epVars   == <<pktcnt, fifo, xfrc>>
linkVars == <<vbus, connected, sdis, configured, replugs>>
sentVars == <<accepted, overrun>>
hostVars == <<hostGot, taken>>
ghostVars == <<dropped, missed, stale>>
vars == <<ringVars, mainVars, epVars, linkVars, buf, irqOff, isr, sentVars, hostVars, ghostVars>>

Unread == Avail(putIdx, getIdx, TxSize)

Init ==
    /\ txBuf = [i \in 0..(TxSize - 1) |-> 0] /\ putIdx = 0 /\ getIdx = 0
    /\ buf = <<>> /\ mpc = "idle" /\ togo = 0 /\ held = 0
    /\ irqOff = FALSE /\ isr = "idle"
    /\ pktcnt = 0 /\ fifo = <<>> /\ xfrc = FALSE
    /\ vbus = FALSE /\ connected = FALSE /\ sdis = FALSE /\ configured = FALSE
    /\ accepted = 0 /\ hostGot = 0 /\ taken = 0
    /\ overrun = FALSE /\ dropped = FALSE /\ missed = FALSE /\ stale = FALSE
    /\ replugs = 0

----------------------------------------------------------------------------
(* Faulty variants of the operators below, for the mutants of PROJECT.json.  *)

\* The loop forgets what is in the buffer already.
FillCountBlind == IF Unread < PktSize THEN Unread ELSE PktSize

\* The endpoint is written although PKTCNT says it is in use.
WritePacketBlind(packet) ==
    IF packet # <<>>
    THEN /\ pktcnt' = 1 /\ fifo' = packet /\ buf' = <<>> /\ missed' = FALSE
    ELSE /\ buf' = packet /\ UNCHANGED <<pktcnt, fifo, missed>>

\* buf_ptr is not reset after a successful write.
WritePacketKeeping(packet) ==
    /\ buf' = packet
    /\ IF packet # <<>> /\ pktcnt = 0
       THEN pktcnt' = 1 /\ fifo' = packet /\ missed' = FALSE
       ELSE UNCHANGED <<pktcnt, fifo, missed>>

\* cdcacm_data_tx_cb leaves without NVIC_EnableIRQ.
FillDoneDisabled ==
    /\ isr = "idle" /\ mpc = "enable" /\ mpc' = "idle"
    /\ UNCHANGED <<ringVars, togo, held, epVars, linkVars, buf, irqOff, isr, sentVars, hostVars,
                   ghostVars>>

----------------------------------------------------------------------------
(* cdcacm_data_tx_cb after its loop: need_zlp is recomputed on every call, so *)
(* that it only repeats buf_ptr > 0, and dwc_ep_write_packet refuses a packet *)
(* while PKTCNT is set.                                                       *)
WritePacket(packet) ==
    LET needZlp == Len(packet) = PktSize
    IN  IF (packet # <<>> \/ needZlp) /\ pktcnt = 0
        THEN /\ pktcnt' = 1 /\ fifo' = packet /\ buf' = <<>>
             /\ missed' = FALSE
        ELSE /\ buf' = packet
             /\ UNCHANGED <<pktcnt, fifo, missed>>

\* What the loop of cdcacm_data_tx_cb adds when nothing runs in between.
FillCount == LET room == PktSize - Len(buf) IN IF Unread < room THEN Unread ELSE room

Filled == buf \o [i \in 1..FillCount |-> txBuf[(getIdx + i - 1) % TxSize]]

----------------------------------------------------------------------------
(* The main loop.  It stands still while the handler runs.                   *)

Main(from) == isr = "idle" /\ mpc = from

\* Usb::send is called with some answer or packet.
SendCall ==
    /\ Main("idle")
    /\ \E n \in 1..Burst :
         /\ accepted + n <= MaxBytes
         /\ togo' = n
    /\ mpc' = "put"
    /\ UNCHANGED <<ringVars, epVars, linkVars, held, buf, irqOff, isr, sentVars, hostVars,
                   ghostVars>>

\* txBuf.Put(*p++), its two accesses
SendPut ==
    /\ Main("put")
    /\ txBuf' = [txBuf EXCEPT ![putIdx] = accepted + 1]
    /\ mpc' = "publish"
    /\ UNCHANGED <<putIdx, getIdx, togo, held, epVars, linkVars, buf, irqOff, isr, sentVars,
                   hostVars, ghostVars>>

SendPublish ==
    /\ Main("publish")
    /\ putIdx' = Advance(putIdx, TxSize)
    /\ accepted' = accepted + 1
    /\ overrun' = (overrun \/ Free(putIdx, getIdx, TxSize) = 0)
    /\ togo' = togo - 1
    /\ mpc' = IF togo > 1 THEN "put" ELSE "check"
    /\ UNCHANGED <<txBuf, getIdx, held, epVars, linkVars, buf, irqOff, isr, hostVars,
                   ghostVars>>

\* if (usbd_dev && connected), then NVIC_DisableIRQ of cdcacm_data_tx_cb
SendCheck ==
    /\ Main("check")
    /\ IF connected
       THEN mpc' = "fill" /\ irqOff' = TRUE /\ UNCHANGED missed
       ELSE mpc' = "idle" /\ missed' = TRUE /\ UNCHANGED irqOff
    /\ UNCHANGED <<ringVars, togo, held, epVars, linkVars, buf, isr, sentVars, hostVars,
                   dropped, stale>>

\* One turn of the loop: txBuf.Get(), then the store into buf[buf_ptr++].
FillGet ==
    /\ Main("fill")
    /\ Len(buf) < PktSize /\ Unread > 0
    /\ held' = txBuf[getIdx]
    /\ getIdx' = Advance(getIdx, TxSize)
    /\ mpc' = "store"
    /\ UNCHANGED <<txBuf, putIdx, togo, epVars, linkVars, buf, irqOff, isr, sentVars, hostVars,
                   ghostVars>>

FillStore ==
    /\ Main("store")
    /\ buf' = Append(buf, held)
    /\ held' = 0
    /\ mpc' = "fill"
    /\ UNCHANGED <<ringVars, togo, epVars, linkVars, irqOff, isr, sentVars, hostVars,
                   ghostVars>>

\* The loop ends, usbd_ep_write_packet
FillWrite ==
    /\ Main("fill")
    /\ Len(buf) >= PktSize \/ Unread = 0
    /\ WritePacket(buf)
    /\ mpc' = "enable"
    /\ UNCHANGED <<ringVars, togo, held, xfrc, linkVars, irqOff, isr, sentVars, hostVars,
                   dropped, stale>>

\* NVIC_EnableIRQ
FillDone ==
    /\ Main("enable")
    /\ irqOff' = FALSE
    /\ mpc' = "idle"
    /\ UNCHANGED <<ringVars, togo, held, epVars, linkVars, buf, isr, sentVars, hostVars,
                   ghostVars>>

\* Usb::checkConnect
CheckConnect ==
    /\ Main("idle")
    /\ connected # vbus
    /\ connected' = vbus
    /\ sdis' = ~vbus
    /\ UNCHANGED <<ringVars, mainVars, epVars, vbus, configured, replugs, buf, irqOff, isr,
                   sentVars, hostVars, ghostVars>>

----------------------------------------------------------------------------
(* dwc_poll, entered while XFRC is set unless the NVIC line is disabled.     *)

\* Transfer complete: the callback runs ...
IrqCallback ==
    /\ isr = "idle" /\ ~irqOff /\ xfrc
    /\ WritePacket(Filled)
    /\ getIdx' = (getIdx + FillCount) % TxSize
    /\ isr' = "clear"
    /\ stale' = FALSE
    /\ UNCHANGED <<txBuf, putIdx, xfrc, irqOff, mainVars, sentVars, hostVars, linkVars, dropped>>

\* ... and XFRC is cleared after it, also when a packet the main loop had written
\* was completed in between.
IrqClear ==
    /\ isr = "clear"
    /\ xfrc' = FALSE
    /\ isr' = "idle"
    /\ stale' = FALSE
    /\ missed' = (missed \/ (stale /\ pktcnt = 0))
    /\ UNCHANGED <<ringVars, pktcnt, fifo, buf, irqOff, mainVars, sentVars, hostVars, linkVars,
                   dropped>>

\* SET_CONFIGURATION, handled in the interrupt: dwc_endpoints_reset flushes the
\* FIFOs and dwc_ep_setup writes DIEPTSIZ, which clears PKTCNT.
Configure ==
    /\ isr = "idle" /\ ~irqOff
    /\ vbus /\ ~sdis /\ ~configured
    /\ configured' = TRUE
    /\ pktcnt' = 0 /\ fifo' = <<>>
    /\ dropped' = (dropped \/ pktcnt = 1)
    /\ missed' = (missed \/ pktcnt = 1)
    /\ UNCHANGED <<ringVars, xfrc, buf, irqOff, isr, mainVars, sentVars, hostVars, vbus,
                   connected, sdis, replugs, stale>>

----------------------------------------------------------------------------
(* The host and the cable, which ask nobody.                                 *)

\* The host takes the packet in the endpoint and acknowledges it.
HostTake ==
    /\ vbus /\ configured /\ pktcnt = 1
    /\ hostGot' = Last(fifo) /\ taken' = taken + 1
    /\ pktcnt' = 0 /\ fifo' = <<>>
    /\ xfrc' = TRUE
    /\ stale' = (isr = "clear")
    /\ UNCHANGED <<ringVars, buf, irqOff, isr, mainVars, sentVars, linkVars, dropped, missed>>

Plug ==
    /\ ~vbus
    /\ vbus' = TRUE
    /\ UNCHANGED <<ringVars, mainVars, epVars, sentVars, hostVars, ghostVars, connected, sdis,
                   configured, replugs, buf, irqOff, isr>>

\* The cable is pulled, or the host resets the bus without pulling it.
Unplug ==
    /\ vbus /\ replugs < MaxReplugs
    /\ vbus' = FALSE \/ (configured /\ vbus' = TRUE)
    /\ configured' = FALSE
    /\ replugs' = replugs + 1
    /\ UNCHANGED <<ringVars, mainVars, epVars, sentVars, hostVars, ghostVars, connected, sdis,
                   buf, irqOff, isr>>

----------------------------------------------------------------------------
MainStep == \/ SendPut \/ SendPublish \/ SendCheck
            \/ FillGet \/ FillStore \/ FillWrite \/ FillDone
Handler == IrqCallback \/ IrqClear

Next == \/ SendCall \/ CheckConnect \/ MainStep
        \/ Handler \/ Configure
        \/ HostTake \/ Plug \/ Unplug

Spec == Init /\ [][Next]_vars

\* The main loop and the handler always go on; the host, once it has configured
\* the device, keeps polling the endpoint.  Nobody has to call Usb::send.
FairSpec ==
    /\ Spec
    /\ WF_vars(MainStep) /\ WF_vars(CheckConnect) /\ WF_vars(Handler)
    /\ WF_vars(Configure) /\ WF_vars(HostTake) /\ WF_vars(Plug)

----------------------------------------------------------------------------
TypeOK ==
    /\ txBuf \in [0..(TxSize - 1) -> 0..MaxBytes]
    /\ putIdx \in 0..(TxSize - 1) /\ getIdx \in 0..(TxSize - 1)
    /\ mpc \in {"idle", "put", "publish", "check", "fill", "store", "enable"}
    /\ isr \in {"idle", "clear"}
    /\ togo \in 0..Burst /\ held \in 0..MaxBytes
    /\ Len(buf) <= PktSize /\ Len(fifo) <= PktSize
    /\ pktcnt \in {0, 1} /\ (pktcnt = 1 <=> fifo # <<>>)
    /\ accepted \in 0..MaxBytes /\ hostGot \in 0..MaxBytes /\ taken \in Nat
    /\ replugs \in 0..MaxReplugs
    /\ {irqOff, xfrc, vbus, connected, sdis, configured, overrun, dropped, missed, stale}
          \subseteq BOOLEAN

\* Everything between the program and the host, oldest first.
Pipeline == fifo \o buf \o (IF mpc = "store" THEN <<held>> ELSE <<>>)
            \o [i \in 1..Unread |-> txBuf[(getIdx + i - 1) % TxSize]]

\* The packet buffer is shared by the main loop and the interrupt handler: no
\* interleaving duplicates, reorders or makes up a byte, not even when the ring
\* is overrun or the host resets the bus in the middle of a packet.
PipelineInOrder ==
    LET line == <<hostGot>> \o Pipeline \o <<accepted + 1>>
    IN  \A i \in 1..(Len(line) - 1) : line[i] < line[i + 1]

\* Bytes are lost by overrunning the ring and by SET_CONFIGURATION only: else
\* what lies between the program and the host is every byte the host lacks.
PipelineComplete ==
    ~overrun /\ ~dropped => Pipeline = [i \in 1..(accepted - hostGot) |-> hostGot + i]

\* To the host the adapter is an ordered channel, a packet being one delivery.
Channel == INSTANCE OrderedChannel WITH sent <- accepted, got <- hostGot, count <- taken
ImplementsOrderedChannel == Channel!Spec

\* While the host polls, waiting bytes go out without another Usb::send, unless
\* they were put while disconnected, the configuration discarded the packet that
\* would have fetched them, or the handler cleared the XFRC of a packet it had not
\* seen; each successful usbd_ep_write_packet makes good for those three.
KeepsMoving == []<>(Pipeline = <<>> \/ missed \/ ~(connected /\ configured))
=============================================================================
