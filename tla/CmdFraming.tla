----------------------------- MODULE CmdFraming -----------------------------
(* How the binary protocol finds commands in the bytes from the host         *)
(* (CanHackerBinary::processCmd): the OTG interrupt puts a packet into rxBuf; *)
(* the main loop takes a batch, drops a begun command if the last batch is    *)
(* more than 50 ms ago, and collects bytes until their length field says the  *)
(* command is complete.  Executing one may block the main loop for seconds    *)
(* (CanDrv::init on a stuck bus), with the rest of its batch still to collect. *)
(* The main loop calls processCmd only in a turn in which processPackets has    *)
(* found no packet of a bus (main.cpp).                                       *)
(*                                                                          *)
(* A byte is [no, pos, last, val]: the pos-th of the host's no-th command.    *)
(* Only val is known to the program.                                          *)
EXTENDS Integers, SequencesExt

CONSTANTS BufSize,   \* sizeof(Cmd::data) (64)
          RxSize,    \* cells of rxBuf (256)
          BatchLen,  \* bytes processCmd takes at once (32)
          PktLen,    \* largest packet of the host (64)
          Extras,    \* bound: the values of a length field
          MaxCmds    \* bound: commands of the host

ASSUME SizeAssumption == /\ {BufSize, RxSize, BatchLen, PktLen} \subseteq Nat \ {0}
                         /\ BufSize > 4 /\ Extras \subseteq Nat

VARIABLES
    cur, at, quit,      \* host: its command, bytes of it sent, given up
    rxBuf, batch, cmd,  \* bytes in the ring, in processCmd's rxBuf, in cmd.data[0..idx-1]
    late,               \* lastRx: "no", or 50 ms have passed: a "pause" of the host
                        \*   or the main loop was "blocked"
    busy,               \* parse() is waiting for a controller
    traffic,            \* packets of the buses wait for processPackets
    parsed              \* history: the last command executed as it was sent

hostVars == <<cur, at, quit>>
vars == <<hostVars, rxBuf, batch, cmd, late, busy, traffic, parsed>>

(* The host. Command 0x40 has its length in byte 5 and a header of 6, the     *)
(* others in byte 4 and a header of 4.                                        *)
Total(c) == c.extra + (IF c.frame THEN 6 ELSE 4)

Byte(c, i) ==
    [no |-> c.no, pos |-> i, last |-> i = Total(c),
     val |-> CASE i = 1 -> (IF c.frame THEN 64 ELSE 1)
               [] i = (IF c.frame THEN 5 ELSE 4) -> c.extra
               [] OTHER -> 0]

Init ==
    /\ cur = [no |-> 0, frame |-> FALSE, extra |-> 0] /\ at = 4 /\ quit = FALSE
    /\ rxBuf = <<>> /\ batch = <<>> /\ cmd = <<>>
    /\ late = "no" /\ busy = FALSE /\ traffic = FALSE /\ parsed = 0

HostBegin ==
    /\ (at = Total(cur) \/ quit) /\ cur.no < MaxCmds
    /\ \E frame \in BOOLEAN, extra \in Extras :
           cur' = [no |-> cur.no + 1, frame |-> frame, extra |-> extra]
    /\ at' = 0 /\ quit' = FALSE
    /\ UNCHANGED <<rxBuf, batch, cmd, late, busy, traffic, parsed>>

\* The host stops in the middle of a command.
HostQuit ==
    /\ at \in 1..(Total(cur) - 1) /\ ~quit /\ quit' = TRUE
    /\ UNCHANGED <<cur, at, rxBuf, batch, cmd, late, busy, traffic, parsed>>

\* The ring with more bytes: one that fills up looks empty, and shows what has
\* been put since.
Filled(bytes) == LET all == rxBuf \o bytes
                 IN  SubSeq(all, Len(all) - (Len(all) % RxSize) + 1, Len(all))

\* cdcacm_data_rx_cb
HostSend ==
    /\ ~quit
    /\ \E k \in 1..PktLen :
           /\ at + k <= Total(cur) /\ at' = at + k
           /\ rxBuf' = Filled([i \in 1..k |-> Byte(cur, at + i)])
    /\ UNCHANGED <<cur, quit, batch, cmd, late, busy, traffic, parsed>>

\* Between two calls of processCmd
NextTurn == ~busy /\ batch = <<>>

\* An interrupt puts a packet of a bus into its ring; it counts from the next turn on.
BusPacket ==
    /\ NextTurn /\ ~traffic /\ traffic' = TRUE
    /\ UNCHANGED <<hostVars, rxBuf, batch, cmd, late, busy, parsed>>

\* 50 ms pass.  A host does not pause within a command, and the main loop takes
\* less to fetch what waits, unless parse() keeps it, or the traffic of the buses
\* while it holds a part of a command.
Tick ==
    /\ late = "no"
    /\ \/ (busy \/ (traffic /\ cmd # <<>>)) /\ late' = "blocked"
       \/ ~busy /\ rxBuf = <<>> /\ batch = <<>> /\ (quit \/ at \in {0, Total(cur)}) /\ late' = "pause"
    /\ UNCHANGED <<hostVars, rxBuf, batch, cmd, busy, traffic, parsed>>

----------------------------------------------------------------------------
(* The main loop, with the faulty variants of its steps before each.         *)

\* Cmd::complete.  With BufSize bytes idx is 0 again.  A byte 5 from an earlier
\* command cannot complete one: its header alone has 6.
Complete(s) ==
    Len(s) \in 4..(BufSize - 1) /\
    IF s[1].val = 64 THEN Len(s) > 5 /\ s[5].val + 6 = Len(s) ELSE s[4].val + 4 = Len(s)

\* Faulty: flush is not called.
FlushedNever == cmd

\* Faulty: flush is called for every batch.
FlushedAlways == <<>>

\* The begun command after the timeout
Flushed == IF late = "no" THEN cmd ELSE <<>>

\* A turn in which processPackets finds packets; processCmd is not called.
Packets ==
    /\ NextTurn /\ traffic /\ traffic' = FALSE
    /\ UNCHANGED <<hostVars, rxBuf, batch, cmd, late, busy, parsed>>

\* Faulty: waits for a full batch.
ReceiveFull ==
    /\ NextTurn /\ ~traffic /\ Len(rxBuf) >= BatchLen
    /\ batch' = SubSeq(rxBuf, 1, BatchLen)
    /\ rxBuf' = SubSeq(rxBuf, BatchLen + 1, Len(rxBuf))
    /\ cmd' = Flushed /\ late' = "no"
    /\ UNCHANGED <<hostVars, busy, traffic, parsed>>

\* processCmd up to its loop
Receive ==
    /\ NextTurn /\ ~traffic /\ rxBuf # <<>>
    /\ LET n == Min({BatchLen, Len(rxBuf)})
       IN  batch' = SubSeq(rxBuf, 1, n) /\ rxBuf' = SubSeq(rxBuf, n + 1, Len(rxBuf))
    /\ cmd' = Flushed /\ late' = "no"
    /\ UNCHANGED <<hostVars, busy, traffic, parsed>>

Whole(s) == s[1].pos = 1 /\ Last(s).last /\ \A i \in DOMAIN s : s[i] = [s[i] EXCEPT !.no = s[1].no, !.pos = i]

\* Cmd::push
Pushed(s) == IF Len(s) = BufSize THEN <<>> ELSE s

\* One turn of the loop.  Commands other than 0x40 may block.
Push ==
    /\ ~busy /\ batch # <<>> /\ batch' = Tail(batch)
    /\ LET s == Append(cmd, Head(batch))
       IN  IF Complete(s)
           THEN /\ cmd' = <<>>
                /\ busy' \in {FALSE, s[1].val # 64}
                /\ parsed' = IF Whole(s) THEN s[1].no ELSE parsed
           ELSE cmd' = Pushed(s) /\ UNCHANGED <<busy, parsed>>
    /\ UNCHANGED <<hostVars, rxBuf, late, traffic>>

\* Faulty: what came meanwhile is dropped.
ReturnFlushing ==
    /\ busy /\ busy' = FALSE /\ batch' = <<>> /\ rxBuf' = <<>>
    /\ UNCHANGED <<hostVars, cmd, late, traffic, parsed>>

\* parse() returns.
Return ==
    /\ busy /\ busy' = FALSE
    /\ UNCHANGED <<hostVars, rxBuf, batch, cmd, late, traffic, parsed>>

MainLoop == Packets \/ Receive \/ Push \/ Return

Next == HostBegin \/ HostQuit \/ HostSend \/ BusPacket \/ Tick \/ MainLoop

Spec == Init /\ [][Next]_vars

\* The main loop goes on. What its turns find is up to the buses.
FairSpec == Spec /\ WF_vars(MainLoop)

----------------------------------------------------------------------------
\* s is what the host has sent lately: from the first byte of a command, without
\* a gap, all commands complete up to the one the host is at, and none too long.
Clean(s) ==
    IF s = <<>> THEN at \in {0, Total(cur)} \/ quit
    ELSE /\ s[1].pos = 1 /\ \A i \in DOMAIN s : s[i].pos < BufSize
         /\ \A i \in 1..(Len(s) - 1) :
                IF s[i].last THEN s[i+1].no = s[i].no + 1 /\ s[i+1].pos = 1
                             ELSE s[i+1].no = s[i].no /\ s[i+1].pos = s[i].pos + 1
         /\ IF at = 0 THEN Last(s).last /\ Last(s).no = cur.no - 1 ELSE Last(s) = Byte(cur, at)

\* All bytes on their way to the commands, oldest first
Stream == cmd \o batch \o rxBuf
InStep == Clean(Stream)

\* The oldest command not executed yet
Oldest == IF Stream # <<>> THEN Stream[1].no ELSE IF at = 0 THEN cur.no ELSE cur.no + 1

\* The host sends more than the ring can take.
Overrun == at' > at /\ Len(rxBuf) + at' - at >= RxSize

\* Framing gets out of step only when the host stops in a command and begins
\* another, sends one that is too long or overruns the ring, or when the main loop
\* was kept for 50 ms, by a controller or by the traffic of the buses, with a part
\* of a command in its hands. (A host that pauses for 50 ms in a command and goes on
\* with it is not modelled: see Tick.)
StaysInStep ==
    [][InStep => \/ InStep'
                 \/ quit /\ ~quit'
                 \/ at' >= BufSize /\ at' > at
                 \/ Overrun
                 \/ late = "blocked" /\ late' = "no" /\ cmd # <<>>]_vars

\* While in step, a command leaves the buffers only by being executed as it was
\* sent, unless the host gave it up.
CommandsExecuted ==
    [][InStep /\ InStep' /\ Oldest' # Oldest =>
           \/ parsed' = Oldest /\ Oldest' = Oldest + 1
           \/ quit /\ Oldest = cur.no
           \/ Overrun]_vars

\* A pause the main loop sees puts framing in step again, whatever came before,
\* if the bytes after it are clean.
PauseResyncs == [][late = "pause" /\ late' = "no" /\ Clean(rxBuf) => InStep']_vars

\* The buses leave no turn of the main loop without a packet.
Starved == <>[][~Receive]_vars /\ []<><<Packets>>_vars

\* No command sent whole stays in the buffers if framing stays in step, unless the
\* traffic of the buses keeps the main loop from processCmd for ever; with
\* CommandsExecuted it is executed.
NothingStays == <>[]InStep => []<>(at < Total(cur) \/ Stream = <<>>) \/ Starved
=============================================================================
