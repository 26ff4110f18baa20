# A verification project for SCan_fw

SCan_fw is the firmware of a USB adapter for two CAN buses and one LIN bus on an STM32F105. A host
talks to it over a USB CDC serial channel, in a binary protocol (`BinaryProtocol.txt`) or, chosen at
build time, in the Lawicel protocol. There is no operating system: a main loop (`main.cpp:29-61`) polls
its parts, and interrupt handlers preempt it. All handlers that matter have the same priority and never
preempt each other; `SysTick`, which only counts milliseconds, has the lowest. So concurrency is always
*a handler that runs to completion in the middle of the main loop*, with hardware and host moving freely.

This directory holds TLA+ modules of the firmware, TLC runs of them, and TLAPS proofs.

## The system

| Part | Code | State | Operations | Interacts with |
|---|---|---|---|---|
| Ring buffers | `Buffer.h` | `buff`, `putIdx`, `getIdx` | `Put`, `Get`, `Avail`, `Free` | shared by one handler and the main loop: `canPkt[2]`, `linPkt`, `rxBuf`, `txBuf` |
| CDC data | `USB/cdcacm.cpp` | `txBuf`, `rxBuf`, the static `buf` of the transmit callback, `connected` | `send`, `receive`, `checkConnect`, the endpoint callbacks | called by the protocol from the main loop, by `dwc_poll` from the OTG interrupt |
| USB device core | `USB/usb_dwc_common.c`, `usb.c` | endpoint registers, `rxbcnt`, callbacks | `dwc_poll`, `ep_setup`, `ep_write_packet`, `ep_read_packet`, `endpoints_reset` | the host |
| USB control endpoint | `USB/usb_control.c`, `usb_standard.c` | `control_state` | the stages of a control transfer, standard requests | CDC and DFU register callbacks in it |
| Binary protocol | `CanHackerBinary.*` | `cmd` (bytes, masks), `canSettings`, `linSettings`, `canPkt`, `linPkt` | `processCmd` (framing, then one handler per command), `processPackets` | CDC data, CAN driver, LIN bus |
| CAN driver | `Can/candrv.cpp` | bxCAN registers: clocks, filter banks (shared by the channels), mailboxes, receive FIFOs | `init`, `setFilter`, `deinit`, `send`, receive interrupts | main loop, other channel (gate) |
| LIN bus | `Lin/LinBus.cpp`, `LinDrv.cpp` | `rxBuf`, `txBuf` with their states, timers | `init`, `deinit`, `send`, `checkTimeout`, USART interrupt | main loop, `linPkt` |
| Boot loader | `boot_main.cpp` | DFU state, block to program, flash | DFU requests, start of the application | USB core |
| Lawicel protocol | `canhacker.*` | its own settings and rings | text commands | as the binary protocol |
| The rest | `timer.*`, `LedBlink.h`, `CHLic.h`, `Rtt/`, `Pins.h`, `stm32tpl/`, `system/` | counters, no protocol state | | |

What is hard here, and what correctness means for each part:

* **Rings.** `Put` and `Get` are not atomic and not guarded (`Buffer.h:6`). They are correct when nothing is
  lost, repeated, reordered or torn until a ring overruns, and when an overrun loses data but not order.
* **CDC transmit.** One callback with static state runs in two contexts. It is correct when the bytes the host
  gets are the bytes sent, in order, and waiting bytes move on.
* **CAN control.** Two controllers share one clock, one filter initialisation and 28 filter banks. Correct: an
  open channel has what it needs, a command for one channel does not disturb the other, an open channel passes
  what the host asked for.
* **CAN transmission.** Main loop and receive interrupt (gate) share three mailboxes without a lock. Correct:
  an accepted frame leaves once, in order and whole.
* **LIN receiver.** The interrupt and the main loop both complete a frame and both put it into one ring. Correct: each
  frame that was heard reaches the host once, alone and in order, and a collision does no lasting harm.
* **Command framing.** Bytes come in packets and batches, a command may block the main loop for seconds, and a timeout is
  measured when bytes are processed. Correct: each whole command is executed once, in order, as it was sent, and framing
  leaves step with the host for known reasons only and comes back.
* **LIN transmitter.** `send` replaces the buffer under the interrupt and both change CR1. Correct: a packet sent on a quiet
  transmitter goes out whole; the transmitter always comes to rest.
* **Control endpoint.** A SETUP may come at any stage of another transfer. Correct: a reply belongs to its request, a request is
  handled at most once, each transfer ends, and none is stalled without a reason.
* **Boot loader.** Requests are lost and repeated, hosts give up, power fails. Correct: what was acknowledged is in flash, and a
  program that is started is never made of two.

## Modules and how they correspond to the code

**`CircularBuffer`** is the arithmetic of `Buffer.h` as pure operators; every module with a ring extends it.

**`OrderedChannel`** is the abstract specification that several parts implement: items numbered in order, the
receiver's last item only grows and never exceeds what was sent. Gaps are allowed, repetitions, reordering and
invention are not. Deliveries are counted, so that handing out the newest item again is a step of the implementing
module which this one has no step for (without the count it would be a stutter and go unnoticed).

**`RingChannel`** is one ring with its two sides. `Put` is two steps (`PutStore`, `PutPublish`), `Get` four
(`GetCheck`, the reading of `Avail()`; `GetHead` and `GetTail`, the first and last word of the copied item;
`GetAdvance`). `ProducerIsr` says which side is the handler; the handler's steps exclude the main loop's, so that
a handler runs to completion. `BufLen` is how many `Get`s rest on one `Avail()`: 1 for `processPackets` and the
transmit callback, 32 for `Usb::receive`. `puts`, `gets`, `head`, `tail`, their counts and `overrun` are history.

**`CdcTx`** is the way of a byte from `Usb::send` to the host: ring, packet buffer, endpoint FIFO. The main
loop's call is split into its accesses; `NVIC_DisableIRQ` is `irqOff`; the interrupt is `IrqCallback` (the callback)
and `IrqClear` (the clear of XFRC after it, between which the host may act). `Configure` is what SET_CONFIGURATION does
to the endpoint. The host takes packets at any time, pulls the cable or resets the bus; `taken` counts the packets it took.

**`CanControl`** is the command side: one action per command, complete with every driver call it makes. The
registers are a record on which `CanInit`, `CanSetFilter` and `CanDeinit` act as functions, as the driver does; a register
whose clock is off ignores writes. Targets are 1, 2 (CAN) and 3 (LIN), addressed by comparison with the masks as in
`ChCan1()`. The slot of a filter is the low byte of the word in the command (`CanHackerBinary.cpp:398`), as a `uint8_t` keeps it,
so that 256 addresses slot 0 (`Words`). The rest of a target's settings (bit rate, listen mode, LIN options) is one value. `CarefulSpec` is
the same under a host that respects two rules the code does not enforce.

**`CanChannels`** is what the host may expect of the two channels: what an open channel passes, and that commands for
one do not change the other. `CanControl` implements it under `CarefulSpec`.

**`CanGateway`** is one direction of the gateway with the host as a second sender: receive FIFO, receive
interrupt (whole: `rcvIrq`, `packetReceived`, gate), ring to the host, `CanDrv::send` of the main loop in its five
accesses, mailboxes. `delivered` counts what the host is sent. The interrupt's own `CanDrv::send` is one step because nothing it reads can change against it
before it returns: only the hardware acts meanwhile, and it only frees mailboxes.

**`LinReceiver`** is the LIN receiver. The interrupt's functions (`RxData`, `RxError`, `RxBreak`, `RxComplete`) act on a record
of what they may change, in the order in which `irqHandler` calls them for the flags a break, an error or a byte raises. The
main loop's `rxComplete` is split into its accesses (`CompleteCheck` to `CompleteReset`), with the index of the ring loaded and
stored in steps of their own, because the interrupt is a second producer. The bus is another actor, with frames of any length,
any pauses, errors in the middle and any moment of opening and closing. `ear`, `due`, `stale`, `raced` and `mixed` are history.

**`CmdFraming`** is `processCmd`: `rxBuf` before it (`HostSend`), the batch of 32 bytes it takes (`Receive`, with the timeout and
`flush`), its loop (`Push`), and a command that keeps the main loop waiting (`busy`, `Return`). A byte carries the command and the
position the host means it to have; the program looks only at its value. The host sends commands of both header lengths in any
pieces, stops in the middle of one and may begin the next at once. The main loop calls `processCmd` only when `processPackets` found
nothing (`main.cpp:34-35` short-circuits): `BusPacket` and `Packets` are the traffic of the buses and the turns it takes away.

**`LinTransmitter`** splits `LinBus::send` into its accesses (`SendFill`, `BreakLoad`, `BreakStore`, `StateSync`, `Start`); `TxEmpty`
is the interrupt (`irqHandler` with `getTxData`), `Shift` the USART with its data register, shift register and break request. `line` is
what was heard since the last `send` began; `clean` remembers whether that one found the transmitter quiet, and `bytes` how many
bytes it was given, whatever `dataLength` makes of them.

**`UsbControl`** is a control transfer: the state machine of `usb_control.c`, one action for each half of `dwc_poll` (`InComplete`,
`RxEntry`), the endpoint of the OTG core, and a host that makes requests of every length, gives them up at any stage, and resets the
bus. A callback's work on a request is only whether it takes it (`ok`) and how much it answers (`reply`), which may be more than was
asked, as nothing holds it to `wLength` (`cdcacm.cpp:213`, `boot_main.cpp:158`); `HostOverrun` is a host that gets such a packet.
**`ControlPipe`** is what its host may expect; `UsbControl` implements it. Both count how often a request is dispatched and its rest begun
(`times`, `reports`), so that doing either again is no stutter.

**`DfuBoot`** is the boot loader, whose loop has no interrupts: one action per request, one for the work after GETSTATUS (`Work`), one
for the decision at power-up (`Boot`). The host follows the plan of erasures, address, blocks and end; each request may reach the device
without its end reaching the host. `PowerFail` in the middle of `Work` leaves any part of the erasure done, or a block half written.
Erasing and programming may fail at the blocks of `Weak`; the loader looks at no result (`boot_main.cpp:95`) and goes on. `failed` is history.

`MC*` modules add bounds and symmetry for TLC.

Definitions named `...Unchecked`, `...Swapped` and the like, under a comment that starts with "Faulty", are deliberate
mistakes: each is used in place of the definition it varies to show that a property notices.

## Runs

| Run | Question | Result |
|---|---|---|
| `Ring` | producer in the interrupt (`canPkt`, `linPkt`) | exact FIFO until overrun; lost are whole rings; torn only by an overrun; ordered channel |
| `CdcTx` | callback in two contexts, cable pulls, bus resets, overruns | bytes in order, none lost but by overrun and SET_CONFIGURATION; waiting bytes move, with three named exceptions (`missed`) |
| `CanControl` | modes, set-up, open, filters, close, handshake, failing initialisation | clocks cover every open channel and no other (`ClocksMatchUse`), except from a handshake to the next close; refused commands change nothing, except in a CAN channel that has LIN's mask; each half of the banks stays in order and is changed by its channel's commands only |
| `CanCareful` | does `CanControl` implement `CanChannels`? | yes for a host that opens channel 1 first and never again under channel 2 |
| `CanDeaf` | does an open channel hear without a filter command? | violated: opening channel 1 clears channel 2's banks |
| `CanGateway` | mailboxes shared by main loop and interrupt; bus to host | every frame leaves at most once and in order; gated frames are never lost or mixed, the main loop's only if raced; ordered channel to the host, across overruns, closings and handshakes |
| `CanGatewayRace` | "check free mailboxes" (`candrv.cpp:227`) | violated: the free mailbox is taken in between |
| `LinReceiver` | interrupt against `checkTimeout` | packets are single frames, none lost, unless the interrupt comes into the main loop's `rxComplete`; the buffer is right again even then; a silence delivers |
| `CmdFraming` | any cut of commands into packets and batches, blocked main loop, turns taken by bus traffic, a host that stops in a command, ring overrun | out of step only for the four named reasons; whole commands executed once in order; a pause that is seen resynchronises; nothing whole stays behind, unless the buses keep the main loop from `processCmd` for ever (`Starved`) |
| `LinTransmitter` | `send` against the interrupt, packets over each other, closing and opening | a packet on a quiet transmitter goes out whole, but for a full one, which is a break and the sync byte; the transmitter comes to rest after any overlap |
| `UsbControl` | transfers of every length around packet and buffer size, replies shorter and longer than asked for, given up at any stage, bus resets | replies and data belong to their request; each is dispatched at most once and its `complete` runs at most once, after the status stage (`ControlPipe`); every transfer ends; stalls have a reason |
| `DfuBoot` | lost and repeated requests, hosts that give up, power failure anywhere, failing flash | acknowledged blocks are in flash and no program of two parts starts, but for blocks at which the flash failed; a host that goes on ends |

A `violation` run is expected to fail: its property says what a document or a comment says, and the counterexample
is what the code does. What each shows is under "findings" in `PROJECT.json`.

### Bounds

* `Ring` has 4 cells and 14 items, more than three rounds: overrun, wrap-around and both at once happen. The code is uniform
  in the size, and the proofs cover every size, both assignments of the sides and every batch length of `Usb::receive`.
* `CdcTx`: 4 cells, packets of 2 bytes, 7 bytes, one replug: full packets, an overrun, and bytes left behind a packet all
  occur. Without the bound on bytes the behaviour only repeats with other numbers.
* `CanControl`: 2 filter slots for 14. Banks 0-1 and 2-3 are the halves; empty, partly filled and full halves occur. The
  constants `Modes`, `Gated` and `Outcomes` limit each run to the commands its question is about: the run `CanControl` has one
  filter, one set of bit rates, modes 0 and 2 and a stuck controller, slots 0, 1, an illegal one and 256; `CanCareful` two filters, modes 1 and 3 (refused) and a gate.
* `CanGateway`: three mailboxes, three frames on the bus and two of the main loop's, so that the mailboxes run full and two of one
  sender wait in them; a FIFO of 1 and a ring of 2, so that both overrun.
* `LinReceiver`: a buffer of 3 bytes, frames of up to 4, so that a frame can be shorter, as long and longer, also by the zero
  its end reads as; 2 frames, the second of which meets the main loop at every step of completing the first; a ring of 2,
  which overruns.
* `CmdFraming`: a command buffer of 7, a ring of 8, batches of 3, packets of up to 4, three commands with 0 or 1 byte after the
  header: commands end inside, at and across batches and packets, one is as long as the buffer (`idx` wraps), one longer, and the ring
  overruns behind a blocking command. Three commands are the one before a disturbance, the disturbed one and the one after.
* `LinTransmitter`: 3 bytes of data, so that a packet is empty, full without its checksum (a break and the sync byte are all that goes out), or in
  between; 3 packets, so that one is sent over another that was sent over a third.
* `UsbControl`: packets of 2, a buffer of 4, lengths up to 5: below, at and above one packet, whole and broken last packets, replies
  shorter than asked for with and without an empty packet at the end, and longer, a write longer than the buffer; 4 requests, three of them given up
  or refused, because what one leaves behind can only be mistaken by the next but one.
* `DfuBoot`: 5 blocks on pages of two, the last page not full, and four programs: the one in flash and three attempts, which is
  one more than a mixture needs. The flash may fail at a block that shares its page with another and at the one that has a page for itself.

`CHECK_DEADLOCK FALSE` stands in runs whose bound on bytes or frames ends the behaviour: the program then waits for input.

### Fairness

`CdcTx!FairSpec` assumes that the main loop goes on (`MainStep`, `CheckConnect`: it is one endless loop without a blocking
call between them), that the interrupt runs when it is raised and enabled, and that the host configures the device and polls
it while it is plugged in. Nobody has to call `Usb::send`. That is weak fairness of each; no step disables another's handler for ever.

`LinReceiver!FairSpec` assumes that time passes (`Tick`), that a `rxComplete` begun goes on, and strong fairness of
`CheckTimeout`: each turn of the main loop calls it after at most one batch of commands (`main.cpp:34-45`), so that a host that
sends commands without end cannot keep it away.

`CmdFraming!FairSpec` is weak fairness of the main loop as a whole (`MainLoop`) and of nothing else: it takes its turns, and a
blocking command returns (`CanDrv::init` counts its attempts). Which turns reach `processCmd` is up to the buses: nothing in the code
bounds how many turns in a row `processPackets` finds packets in, and `NothingStays` names that case.

`LinTransmitter!TxFairSpec`: the main loop, the interrupt and the USART go on. `UsbControl!FairSpec`: the handler runs, and a host goes on with a transfer it has not given up. `DfuBoot!FairSpec`: `usbd_poll` is called in an endless loop and the button does
not matter for it; `DownloadEnds` is about a host that repeats its request until it gets through (strong fairness of the ends it sees).

### Assumptions about the machine

At a break the USART raises RXNE and FE with a zero byte first, LBD in the same interrupt or later (`LinBus.cpp:77`). An interrupt
is served before the next byte is complete. `rxComplete` reads `dataIdx` once. Bytes outside of a LIN frame, which the code
stores where nothing reads them, are left out. The compiler keeps the store into `buff` before the store to the `volatile` index (the array itself is not volatile; the code
relies on the order). `NVIC_DisableIRQ` takes effect at once. bxCAN ignores writes to a mailbox whose request is pending, and a
master reset empties the receive FIFO. A filter bank written as 32-bit and read as 16-bit matches what it was written for only
if it is empty (FR1 and FR2 then hold two 16-bit filters, each a half of the identifier with a half of 0).

In `UsbControl` XFRC's callback and its clear are one step: a host cannot take another packet in the microsecond between them (in
`CdcTx`, where the callback does much more, they are two). A host that gives up a transfer does so after a timeout or a reset, and
one that was refused comes back later than an interrupt takes: in both cases the device has served what it received (`Settled`). A
host that ends one properly may send the next SETUP at once. The proof needs this: without it SETUPs pile up in the FIFO, what is left
of the data of a refused write stalls the next request, and from the fourth request on a reply may be taken for another's. In
`LinTransmitter` the hardware clears SBK at the end of the break, long after `send` has returned (a break takes 13 bit times). In
`DfuBoot` a flash cell takes a value only when it is erased, or the value it has (PGERR otherwise), and an unfinished operation leaves any
part of it done. `addChecksum` on a full packet writes one byte beyond `data`; the model has the effect on what is sent and not
that on the byte written over.

## Proofs

`RingChannel_proofs` proves for every `Size > 1`, every `BufLen > 0` and either value of `ProducerIsr`:

* `TypeCorrect`: `Spec => []TypeOK`.
* `FifoCorrect`: `Spec => []FifoUntilOverrun`. The invariant says where items lie: `CellInv` gives the content of every
  cell from `putIdx` and `puts` alone (`CellsHoldNewest`), and `InStep` adds that `Avail()` is the number of items not yet taken and
  covers the `Get`s still to go. `FifoUntilOverrun` alone is not inductive: it does not say what the next `Get` will find.
* `TornCorrect`: a torn item needs a producer in the interrupt and an overrun. With a consumer in the interrupt the producer
  stands still during the copy (`HandlerInv`).
* `LossCorrect`: `Spec => []LossIsWholeRings`. `LossInv` says that each index is its count modulo the ring, and so is what the
  last `Get` copied. `Rings(a, b)` states it with a quotient, which the lemmas (`RingsLemma`, `RingsAdvance`) carry along, because the
  solver does not reason about remainders by a symbolic size.
* `OrderCorrect`: with `BufLen = 1` the ring implements `OrderedChannel`, each item's delivery counted, at its first word and at its last. `OrderInv` bounds what the copied words and the next cell
  can be after any number of overruns.

They rest on the constants' assumptions only. With `BufLen > 1` the last theorem is false: an overrun in the
middle of a batch makes the rest of the batch newer than what follows it. That is the reason for the hypothesis.

`CanGateway_proofs`, for any number of mailboxes, FIFO and ring sizes and frames:

* `TypeCorrect`; `GateCorrect`: `Spec => []GateFramesSafe`, which together with the type invariant is inductive, because a gated
  frame's send is one step.
* `MainCorrect`: `Spec => []MainFramesSafe`, for every frame that it leaves at most once and in order, for an unraced one that it
  leaves whole. `MainNumbers` says that the numbers waiting or gone are below that of the send under way, so that none can
  leave again. `MainInv` says for each place of the main loop in `CanDrv::send` what it rests on: unless `raced`, the mailbox it picked is free and holds exactly what has been written so far. `raced` is set by a gated frame in between.
* `ChannelCorrect`: the way of a frame implements `OrderedChannel`. `ArrivalInv`: the receive FIFO is rising and newer than what
  was accepted; with that each delivery counted is of a frame newer than the last;
  `RingInv`: the cells between `getIdx` and `putIdx`, counted from `getIdx`, hold rising numbers above the host's last.

`DfuBoot_proofs`, for any program length, page layout, number of programs and blocks where the flash may fail: `TypeCorrect`, `AckedCorrect`, `NeverMixedCorrect`. `SessionInv`
ties the device to the host: in a download, the block or command in `prog` and the DFU state are those of its own request, even
if a repetition is under way. `AckedInv` adds the address and what the current block may be. `NeverMixed` is not inductive, as two programs
do share the flash for a while: `MixInv` says that then the first block is erased, which is what `Boots` looks at. It depends on the plan of the host (erase all, first
page first, blocks after that).

`LinBus_proofs`, for the transmitter and any length: `TransmitterTypeCorrect`, `CleanFrameCorrect`. `CleanInv` says place by place in `send` what the line, the shift
register and DR hold between them after a clean start; the part handed out by the interrupt is a prefix of the frame whose length
`dataIdx` and the state give. The frame is that of the bytes handed to `send`, also where `dataLength` is not their number.

`CanControl_proofs`, for any number of filter slots (`NSlots > 1`, with as many banks for each channel):
`ClocksCorrect`, `BanksCorrect`, `IsolationCorrect`, `UnansweredCorrect`, `ChannelsCorrect` (the refinement of `CanChannels`). `CanInit`, `CanSetFilter` and `CanDeinit` are first
characterised as functions on the registers, by lemmas of their own; the commands then need only their guards. That the list of filters fits a half of the banks
follows from the cardinality of the set of slots in use. The type invariant, `ClocksMatchUse` and `BanksInOrder` are inductive together.
For the refinement, `FramesOf` is what a record of the registers lets through: `FiltArrHolds` (the slots in use, ranked, are a bijection with the list's indices) gives
that the list holds the stored filters and nothing else, `SetFilterPasses` that the banks then let through just that, if they are 32 bits wide, and leave the other half.
Beyond the invariant above it needs only that they are wide while a channel is open; no mode and no outcome of an initialisation is excluded, where the run has modes 1 and 3 and "ok".

`LinBus_proofs`, for the receiver and any buffer and ring size: `BufferCorrect`, `NoFrameLostCorrect`, `PacketsCorrect`. `ShapeInv` says what `rxBuf` is in each state of the
receiver and ties `dataIdx` to the position in the frame on the bus; `EarInv`, that a frame heard from its break is received from its first byte;
`MainInv`, place by place in the main loop's `rxComplete`, that without `raced` it finds `rxBuf` as it looked at it, and owes nothing when it resets the state.
For the packets, `CopyInv` says that the main loop's half-written packet is what `rxBuf` held and that its cell of the ring is its own until `putIdx` moves, and
`InOrder` that the cells from `getIdx` to `putIdx` hold one frame each, rising, above the host's last and up to `Limit`: the frame on the bus,
or the one before it while this one may still get there. Both fail once a frame is `mixed`, which is the excuse `PacketsAreFrames` makes.

`CdcTx_proofs`, for any sizes of ring and packet and any number of bytes: `TypeCorrect`, `InOrderCorrect`, `CompleteCorrect`, `ChannelCorrect`. Each
step is reduced to what it does to `Pipeline` (`PipelineStep`): it keeps it, adds a byte, forgets the ring, or hands over or discards the packet in the endpoint.
That the callback, in either context, only moves bytes along is an identity of concatenations (`RingTake`, `Regroup`). `OrderInv` and `CompleteInv` are then
preserved by four lemmas about sequences that rise and sequences without a gap.

`CmdFraming_proofs`, for any sizes of command buffer, ring, batch and packet and any length of a command: `StaysInStepCorrect`, `CommandsExecutedCorrect`,
`PauseResyncsCorrect`. `InStep` is not inductive: it says nothing of where in the stream `cmd` ends. `GenuineInv` (every byte is one of a command the host
began, witnessed by the history of its commands), `ShapeInv` (a `cmd` without a gap is the beginning of one command, as a whole one has been executed) and `PauseInv`
(what came after the pause is of later commands) give that a flush drops nothing that goes on. `CompleteLemma` is the code's length test for one command;
`ReceiveStream` and `PushStream` say what a step does to a clean stream.

`UsbControl_proofs`, for any packet size, buffer, lengths and number of requests: `TypeCorrect`, `RepliesCorrect`, `WritesCorrect`,
`StallsCorrect`, `ControlPipeCorrect` (the refinement of `ControlPipe`, in which every dispatch and every report is counted). None is inductive, because none says which of the host's packets are still
in the FIFO. `Inv` is a disjunction of phases: the SETUP waits (`Waiting`, with the end of the transfer before, perhaps), is read (`Seen`),
or is taken (`Taken`), and then the device is `Reading`, `Writing`, `Answering`, `Stalled`, `Finished` or the host has `GivenUp`. Each
phase says what the FIFO, the endpoint and `control_state` hold, so that each step of host or device leads from phases to phases.

Model-checked only: all liveness, which is beyond the prover. Assumed by every proof: the named assumptions on the constants and nothing else.

## Read in the code, without a run of its own

* The empty packet after a full one is never sent: `need_zlp` is computed from `buf_ptr`, just reset (`cdcacm.cpp:252`).
* The handler clears an XFRC raised since its callback (`usb_dwc_common.c:325`); bytes may wait for the next `Usb::send`. `KeepsMoving`
  names this case (`missed`).
* Filters are 32 bits wide only after an initialisation of CAN1 (`candrv.cpp:88`): channel 2 alone has 16-bit filters. `CanCareful` excludes it.
* A mask of 0 stands for an absent channel and matches channel byte 0 (`CanHackerBinary.h:121`): commands then address CAN in LIN mode.
* The boot loader starts a program with holes, if only its first block is there (`boot_main.cpp:192`). `NeverMixed` allows holes.
* A control write longer than the buffer is refused twice, if its data came before the SETUP was served: the device sets STALL again
  when it reads the data. A host that made its next request in between would see that one stalled; `Settled` excludes it.
* LIN packets sent over each other garble the frame on the line; of a LIN packet of 16 bytes a break and the sync byte go out
  (`LinPkt.h:21-28`), which `FrameGoesOut` names.
* Under enough bus traffic commands wait for ever (`main.cpp:34`: `processPackets() || processCmd()`), and one that arrives in parts
  may be dropped for it; `NothingStays` and `StaysInStep` name both.
* A reply may be longer than the host asked for (`cdcacm.cpp:213` sets a length and nothing compares it to `wLength`). The host
  sees its transfer fail; the next one is not disturbed.
* A block whose erasure or programming failed is acknowledged (`boot_main.cpp:95` drops the result), and the program is started with it.
* A CAN command where the channel's mask is LIN's is stored for the channel and then refused for LIN: a command without an answer
  that has changed a setting. `UnansweredChangesNothing` names it.
* The LIN bus closed and opened again in the middle of a frame on the bus can take the rest for the beginning of one, until the next
  break; the receiver's properties excuse it (`stale`, `mixed`), as no stronger one holds of the code.
* `canSend` of the Lawicel protocol compares the characters left with `dataLength` instead of its double (`canhacker.cpp:246`).

## Not modelled

* The Lawicel protocol: a build-time alternative of the binary protocol on the same rings and drivers; its text commands are
  executed one by one in the main loop. What it shares with the binary protocol (rings, CDC, CAN driver) is modelled.
* What the standard requests store (address, configuration, halt bits), the notification endpoint; SET_CONFIGURATION's effect on the
  data endpoint is in `CdcTx`.
* Sleep and wake-up of the LIN transceiver and `CanDrv::sleep`: nothing waits for them.
* `__WFI` in the main loop: any interrupt ends it, and `SysTick` comes every millisecond, so it delays and changes no order.
* Descriptors, LEDs, pins, debug output, the licence cipher: constant data or pure output. Start-up, CMSIS, `stm32tpl` and the RTT library,
  which are most of the lines of the repository: vendor code without state of this program.

## Plan

1. Done: rings, CDC in both directions, framing, CAN control and filters, gateway, LIN in both directions, control endpoint, boot loader;
   proofs about all of them.
2. `Pipeline`: CAN interrupt to host through `canPkt`, `processPackets` and `CdcTx`, with the main loop's order of calls.
3. Lawicel protocol.
4. Done: every safety property and every refinement that a passing run checks is a theorem.
