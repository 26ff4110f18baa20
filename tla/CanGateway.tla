----------------------------- MODULE CanGateway ------------------------------
(* One direction of the gateway (Can/candrv.cpp): the receive interrupt of a  *)
(* source channel hands each frame to the host's ring canPkt and, while the   *)
(* gate is on, to CanDrv::send for the other channel.  The main loop calls    *)
(* CanDrv::send for the same channel, step by step, and the interrupt may     *)
(* come between any two of its register accesses.                            *)
(*                                                                          *)
(* The hardware is modelled by what the code relies on: three mailboxes that  *)
(* ignore writes while their request is pending and leave in the order of     *)
(* their requests (TXFP), and a receive FIFO whose last frame is overwritten  *)
(* when it is full (RFLM off).  The other channel stays open; its             *)
(* bus may be slow, so that mailboxes stay pending.                          *)
EXTENDS CircularBuffer, FiniteSets, SequencesExt

CONSTANTS RingSize,   \* cells of canPkt[ch] (32)
          FifoDepth,  \* frames in the receive FIFO (3)
          Boxes,      \* the transmit mailboxes (0..2)
          MaxFrames,  \* bound: frames on the source bus
          MaxSends    \* bound: frames the host sends

ASSUME RingSizeAssumption == RingSize \in Nat /\ RingSize > 1
ASSUME FifoDepthAssumption == FifoDepth \in Nat /\ FifoDepth > 0
ASSUME BoundsAssumption == {MaxFrames, MaxSends} \subseteq Nat

VARIABLES
    on, open, gate,           \* source channel: running; its settings open and gate
    arrived, rxFifo,          \* frames on its bus so far; those in the receive FIFO
    canPkt, putIdx, getIdx,   \* the ring to the host
    hostGot, delivered,       \* history: the last frame the host was sent; how many
                              \*   frames it was sent
    box,                      \* box[m]: whose data and id mailbox m holds
    pending,                  \* the mailboxes with TXRQ, oldest request first
    mpc, mbox, mainNo,        \* CanDrv::send in the main loop: its next step, its
                              \*   mailbox_num, the number of its frame
    mainOk, gateOk,           \* history: frames for which send returned 0
    mainDone, gateDone,       \* history: frames that left under the id of each
    raced                     \* history: frames of the main loop whose send a gated
                              \*   frame interrupted

srcVars  == <<on, open, gate, arrived>>
ringVars == <<canPkt, putIdx, getIdx>>
hostVars == <<hostGot, delivered>>
mainVars == <<mpc, mbox, mainNo, mainOk>>
sentVars == <<mainDone, gateDone>>
vars == <<srcVars, rxFifo, ringVars, hostVars, box, pending, mainVars, gateOk, sentVars, raced>>

\* A frame is named by who sends it and its number.
FromMain(n) == <<"main", n>>
FromGate(n) == <<"gate", n>>
Mailboxes   == [lo : {"main", "gate"} \X Nat, hi : {"main", "gate"} \X Nat,
                id : {"main", "gate"} \X Nat]
Whole(frame) == [lo |-> frame, hi |-> frame, id |-> frame]

Pending == ToSet(pending)
FreeBoxes == Boxes \ Pending

Unread == Avail(putIdx, getIdx, RingSize)

Init ==
    /\ on = FALSE /\ open = FALSE /\ gate = FALSE
    /\ arrived = 0 /\ rxFifo = <<>>
    /\ canPkt = [i \in 0..(RingSize - 1) |-> 0] /\ putIdx = 0 /\ getIdx = 0
    /\ hostGot = 0 /\ delivered = 0
    /\ box = [m \in Boxes |-> Whole(FromMain(0))] /\ pending = <<>>
    /\ mpc = "idle" /\ mbox \in Boxes /\ mainNo = 0
    /\ mainOk = {} /\ gateOk = {} /\ mainDone = {} /\ gateDone = {} /\ raced = {}

----------------------------------------------------------------------------
(* The main loop.                                                           *)

\* canOpen of the source channel: the master reset empties the receive FIFO.
Open ==
    /\ mpc = "idle"
    /\ on' = TRUE /\ open' = TRUE /\ rxFifo' = <<>>
    /\ UNCHANGED <<gate, arrived, ringVars, hostVars, box, pending, mainVars, gateOk, sentVars, raced>>

\* canClose: CAN1 keeps running while CAN2 is open, CAN2 stops.
Close ==
    /\ mpc = "idle" /\ open
    /\ open' = FALSE
    /\ on' \in {on, FALSE}
    /\ UNCHANGED <<gate, arrived, rxFifo, ringVars, hostVars, box, pending, mainVars, gateOk,
                   sentVars, raced>>

\* The handshake resets the settings and leaves the controllers running.
Handshake ==
    /\ mpc = "idle" /\ (open \/ gate)
    /\ open' = FALSE /\ gate' = FALSE
    /\ UNCHANGED <<on, arrived, rxFifo, ringVars, hostVars, box, pending, mainVars, gateOk,
                   sentVars, raced>>

\* canGate, which asks neither channel whether it is open
SwitchGate ==
    /\ mpc = "idle"
    /\ gate' = ~gate
    /\ UNCHANGED <<on, open, arrived, rxFifo, ringVars, hostVars, box, pending, mainVars, gateOk,
                   sentVars, raced>>

\* One turn of processPackets (RingChannel splits its Get)
PacketGet ==
    /\ mpc = "idle" /\ Unread > 0
    /\ hostGot' = canPkt[getIdx] /\ delivered' = delivered + 1
    /\ getIdx' = Advance(getIdx, RingSize)
    /\ UNCHANGED <<srcVars, rxFifo, canPkt, putIdx, box, pending, mainVars, gateOk, sentVars, raced>>

\* Faulty: CanDrv::send without the test of TME0, TME1 and TME2.
SendUnchecked ==
    /\ mpc = "idle" /\ mainNo < MaxSends
    /\ mainNo' = mainNo + 1
    /\ mpc' = "pick"
    /\ UNCHANGED <<srcVars, rxFifo, ringVars, hostVars, box, pending, mbox, mainOk, gateOk,
                   sentVars, raced>>

\* canSend calls CanDrv::send, which reads TSR for a free mailbox and drops the
\* frame if there is none; canSend does not look at the result.
SendCheck ==
    /\ mpc = "idle" /\ mainNo < MaxSends
    /\ mainNo' = mainNo + 1
    /\ mpc' = IF FreeBoxes # {} THEN "pick" ELSE "idle"
    /\ UNCHANGED <<srcVars, rxFifo, ringVars, hostVars, box, pending, mbox, mainOk, gateOk,
                   sentVars, raced>>

\* TSR is read again for CODE: a free mailbox, or the last one to leave when
\* none is free any more.
SendPick ==
    /\ mpc = "pick"
    /\ \/ mbox' \in FreeBoxes
       \/ FreeBoxes = {} /\ mbox' = Last(pending)
    /\ mpc' = "low"
    /\ UNCHANGED <<srcVars, rxFifo, ringVars, hostVars, box, pending, mainNo, mainOk, gateOk,
                   sentVars, raced>>

\* What a write to a mailbox register leaves in it
Written(m, field, value) ==
    IF m \in Pending THEN box ELSE [box EXCEPT ![m][field] = value]

\* TDLR, then TDHR and TDTR
SendData(from, field, to) ==
    /\ mpc = from
    /\ box' = Written(mbox, field, FromMain(mainNo))
    /\ mpc' = to
    /\ UNCHANGED <<srcVars, rxFifo, ringVars, hostVars, pending, mbox, mainNo, mainOk, gateOk,
                   sentVars, raced>>
SendLow  == SendData("low", "lo", "high")
SendHigh == SendData("high", "hi", "request")

\* TIR with TXRQ; send returns 0 in any case.
SendRequest ==
    /\ mpc = "request"
    /\ box' = Written(mbox, "id", FromMain(mainNo))
    /\ pending' = IF mbox \in Pending THEN pending ELSE Append(pending, mbox)
    /\ mainOk' = mainOk \cup {mainNo}
    /\ mpc' = "idle"
    /\ UNCHANGED <<srcVars, rxFifo, ringVars, hostVars, mbox, mainNo, gateOk, sentVars, raced>>

----------------------------------------------------------------------------
(* The receive interrupt, whose registers and variables nothing else touches   *)
(* until it returns.                                                        *)

\* packetReceived for frame n
Received(n) ==
    IF open
    THEN canPkt' = [canPkt EXCEPT ![putIdx] = n] /\ putIdx' = Advance(putIdx, RingSize)
    ELSE UNCHANGED <<canPkt, putIdx>>

\* Faulty: the same, in the interrupt.
ForwardUnchecked(n) ==
    /\ \E m \in Boxes :
         /\ \/ m \in FreeBoxes
            \/ FreeBoxes = {} /\ m = Last(pending)
         /\ box' = [box EXCEPT ![m] = IF m \in Pending THEN @ ELSE Whole(FromGate(n))]
         /\ pending' = IF m \in Pending THEN pending ELSE Append(pending, m)
    /\ gateOk' = gateOk \cup {n}
    /\ raced' = IF mpc = "idle" THEN raced ELSE raced \cup {mainNo}

\* The interrupt's CanDrv::send of frame n
Forward(n) ==
    \/ /\ FreeBoxes = {}
       /\ UNCHANGED <<box, pending, gateOk, raced>>
    \/ /\ \E m \in FreeBoxes :
            /\ box' = [box EXCEPT ![m] = Whole(FromGate(n))]
            /\ pending' = Append(pending, m)
       /\ gateOk' = gateOk \cup {n}
       /\ raced' = IF mpc = "idle" THEN raced ELSE raced \cup {mainNo}

\* Faulty: RFOM0 is not written, the FIFO keeps the frame.
RxIrqKeeping ==
    /\ on /\ rxFifo # <<>>
    /\ Received(Head(rxFifo))
    /\ IF gate THEN Forward(Head(rxFifo)) ELSE UNCHANGED <<box, pending, gateOk, raced>>
    /\ UNCHANGED <<srcVars, rxFifo, getIdx, hostVars, mainVars, sentVars>>

\* CAN1_RX0_IRQHandler, CAN2_RX0_IRQHandler
RxIrq ==
    /\ on /\ rxFifo # <<>>
    /\ rxFifo' = Tail(rxFifo)
    /\ Received(Head(rxFifo))
    /\ IF gate THEN Forward(Head(rxFifo)) ELSE UNCHANGED <<box, pending, gateOk, raced>>
    /\ UNCHANGED <<srcVars, getIdx, hostVars, mainVars, sentVars>>

----------------------------------------------------------------------------
(* The two buses.                                                           *)

\* A frame that passes the filters arrives.
Arrive ==
    /\ on /\ arrived < MaxFrames
    /\ arrived' = arrived + 1
    /\ rxFifo' = Append(IF Len(rxFifo) < FifoDepth THEN rxFifo ELSE Front(rxFifo), arrived + 1)
    /\ UNCHANGED <<on, open, gate, ringVars, hostVars, box, pending, mainVars, gateOk, sentVars,
                   raced>>

\* The oldest request has been sent and acknowledged.
Transmit ==
    /\ pending # <<>>
    /\ pending' = Tail(pending)
    /\ LET id == box[Head(pending)].id
       IN  /\ mainDone' = IF id[1] = "main" THEN mainDone \cup {id[2]} ELSE mainDone
           /\ gateDone' = IF id[1] = "gate" THEN gateDone \cup {id[2]} ELSE gateDone
    /\ UNCHANGED <<srcVars, rxFifo, ringVars, hostVars, box, mainVars, gateOk, raced>>

Next ==
    \/ Open \/ Close \/ Handshake \/ SwitchGate \/ PacketGet
    \/ SendCheck \/ SendPick \/ SendLow \/ SendHigh \/ SendRequest
    \/ RxIrq \/ Arrive \/ Transmit

Spec == Init /\ [][Next]_vars

----------------------------------------------------------------------------
TypeOK ==
    /\ {on, open, gate} \subseteq BOOLEAN /\ (open => on)
    /\ arrived \in 0..MaxFrames /\ hostGot \in 0..MaxFrames /\ delivered \in Nat
    /\ rxFifo \in Seq(1..MaxFrames) /\ Len(rxFifo) <= FifoDepth
    /\ canPkt \in [0..(RingSize - 1) -> 0..MaxFrames]
    /\ putIdx \in 0..(RingSize - 1) /\ getIdx \in 0..(RingSize - 1)
    /\ \A m \in Boxes : box[m] \in Mailboxes
    /\ IsInjective(pending) /\ Pending \subseteq Boxes
    /\ mpc \in {"idle", "pick", "low", "high", "request"} /\ mbox \in Boxes
    /\ mainNo \in 0..MaxSends /\ mainOk \cup mainDone \cup raced \subseteq 1..MaxSends
    /\ gateOk \cup gateDone \subseteq 1..MaxFrames

\* The frames of a sender that wait in the mailboxes
Waiting(sender) == {box[m].id[2] : m \in {b \in Pending : box[b].id[1] = sender}}

\* The frames of a sender leave in the order of their numbers, none from two
\* mailboxes.
InOrder(sender) ==
    \A i, j \in 1..Len(pending) :
       i < j /\ box[pending[i]].id[1] = sender /\ box[pending[j]].id[1] = sender
          => box[pending[i]].id[2] < box[pending[j]].id[2]

\* Whatever the main loop is doing with the mailboxes, a frame the gate's send
\* accepted leaves once, whole, and in the order of arrival.
GateFramesSafe ==
    /\ gateOk = gateDone \cup Waiting("gate")
    /\ gateDone \cap Waiting("gate") = {} /\ InOrder("gate")
    /\ \A m \in Pending : box[m].id[1] = "gate" => box[m] = Whole(box[m].id)

\* A frame of the main loop leaves at most once and in the order of the sends; one
\* that send accepted does leave, and whole, unless a gated frame was accepted
\* between its look for a free mailbox and its request.
MainFramesSafe ==
    /\ mainOk \ raced \subseteq mainDone \cup Waiting("main")
    /\ mainDone \cap Waiting("main") = {} /\ InOrder("main")
    /\ \A m \in Pending : box[m].id[1] = "main" /\ box[m] # Whole(box[m].id)
                             => box[m].id[2] \in raced

\* The host is sent the frames of the source bus in order and none twice, across
\* full FIFOs and rings, handshakes and new openings: each frame sent is a delivery
\* of the channel, of a frame newer than the last.
Channel == INSTANCE OrderedChannel WITH sent <- arrived, got <- hostGot,
                                    count <- delivered
ImplementsOrderedChannel == Channel!Spec

----------------------------------------------------------------------------
\* CanDrv::send: "check free mailboxes".  The mailbox the main loop fills is free
\* until it makes the request.
FilledMailboxIsFree == mpc \in {"low", "high", "request"} => mbox \in FreeBoxes
=============================================================================
