--------------------------- MODULE LinTransmitter ---------------------------
(* Sending on the LIN bus: LinBus::send in the main loop, getTxData in the     *)
(* USART interrupt, and the USART between them and the line. They share txBuf  *)
(* and CR1, which both sides change by a load and a store. The interrupt runs  *)
(* to its end; the main loop may be interrupted between any two steps.         *)
(* Names are other than those of LinReceiver, the bus's other direction.       *)
EXTENDS Integers, SequencesExt

CONSTANTS MaxData,  \* sizeof(Pkt::data) (16)
          MaxSends  \* bound: packets sent

ASSUME SizeAssumption == {MaxData, MaxSends} \subseteq Nat \ {0}

VARIABLES
    pc,           \* main loop: its place in send, "idle" outside
    loaded,       \* main loop: the TXEIE it has loaded from CR1
    txBuf,        \* [state, no, dataIdx, dataLength], of the no-th packet
    busOpen, TXEIE, SBK,   \* linSettings.open; CR1
    DR, shift,    \* <<>> or one symbol; TXE is DR = <<>>
    line,         \* history: symbols on the line since the last send began
    clean,        \* history: the last send found the transmitter quiet
    bytes         \* history: data_len of the packet handed to it

txVars == <<pc, loaded, txBuf, busOpen, TXEIE, SBK, DR, shift, line, clean, bytes>>

Break    == [sym |-> "break", no |-> 0, i |-> 0]
SyncByte == [sym |-> "sync", no |-> 0, i |-> 0]
Data(no, i) == [sym |-> "data", no |-> no, i |-> i]

TxInit ==
    /\ pc = "idle" /\ loaded = FALSE
    /\ txBuf = [state |-> "Idle", no |-> 0, dataIdx |-> 0, dataLength |-> 0]
    /\ busOpen = FALSE /\ TXEIE = FALSE /\ SBK = FALSE
    /\ DR = <<>> /\ shift = <<>> /\ line = <<>> /\ clean = FALSE /\ bytes = 0

Quiet == pc = "idle" /\ ~TXEIE /\ ~SBK /\ DR = <<>> /\ shift = <<>>

----------------------------------------------------------------------------
(* The main loop, with the faulty variants of its steps before each.         *)

\* addChecksum: one byte more, except for a packet without data
WithChecksum(n) == IF n > 0 THEN n + 1 ELSE 0

\* Faulty: goes on where the last packet was left.
LinBufKeeping(n) ==
    [state |-> "Idle", no |-> txBuf.no + 1, dataIdx |-> txBuf.dataIdx,
     dataLength |-> IF n > MaxData THEN 0 ELSE n + 1]

\* LinBuf(pkt) with n bytes of data and checksum; the identifier comes before
\* them. A packet that is full without its checksum leaves it empty.
LinBuf(n) ==
    [state |-> "Idle", no |-> txBuf.no + 1, dataIdx |-> 0,
     dataLength |-> IF n > MaxData THEN 0 ELSE n + 1]

\* canSend, send: the copy to txBuf begins with state, which stops the interrupt.
SendFill ==
    /\ pc = "idle" /\ busOpen /\ txBuf.no < MaxSends
    /\ \E n \in 0..MaxData : bytes' = WithChecksum(n)
    /\ txBuf' = LinBuf(bytes')
    /\ pc' = "break" /\ line' = <<>> /\ clean' = Quiet
    /\ UNCHANGED <<loaded, busOpen, TXEIE, SBK, DR, shift>>

\* sendBreak: load and store of CR1. A break starts at once on an idle line.
BreakLoad ==
    /\ pc = "break" /\ pc' = "breakStore" /\ loaded' = TXEIE
    /\ UNCHANGED <<txBuf, busOpen, TXEIE, SBK, DR, shift, line, clean, bytes>>

BreakStore ==
    /\ pc = "breakStore" /\ pc' = "sync" /\ TXEIE' = loaded /\ SBK' = TRUE
    /\ shift' = IF shift = <<>> THEN <<Break>> ELSE shift
    /\ UNCHANGED <<loaded, txBuf, busOpen, DR, line, clean, bytes>>

StateSync ==
    /\ pc = "sync" /\ pc' = "start" /\ txBuf' = [txBuf EXCEPT !.state = "Sync"]
    /\ UNCHANGED <<loaded, busOpen, TXEIE, SBK, DR, shift, line, clean, bytes>>

\* Faulty: writes CR1 as it was loaded for the break.
StartStale ==
    /\ pc = "start" /\ pc' = "idle" /\ TXEIE' = loaded
    /\ UNCHANGED <<loaded, txBuf, busOpen, SBK, DR, shift, line, clean, bytes>>

\* startSend: what it loads of TXEIE does not matter, and SBK is not cleared so soon.
Start ==
    /\ pc = "start" /\ pc' = "idle" /\ TXEIE' = TRUE
    /\ UNCHANGED <<loaded, txBuf, busOpen, SBK, DR, shift, line, clean, bytes>>

\* The USART switched off loses what is in its shift register, perhaps DR too.
SwitchedOff ==
    /\ TXEIE' = FALSE /\ SBK' = FALSE /\ shift' = <<>> /\ DR' \in {DR, <<>>}
    /\ clean' = FALSE /\ UNCHANGED <<pc, loaded, txBuf, line, bytes>>

\* canOpen, LinBus::init; LinDrv::init writes CR1 from nothing.
LinInit == pc = "idle" /\ busOpen' = TRUE /\ SwitchedOff

\* canClose, LinBus::deinit
LinDeinit == pc = "idle" /\ busOpen /\ busOpen' = FALSE /\ SwitchedOff

----------------------------------------------------------------------------
(* The interrupt                                                              *)

\* Faulty: the last byte once more.
MoreUnbounded == txBuf.state = "Data" /\ txBuf.dataIdx <= txBuf.dataLength

More == txBuf.state = "Data" /\ txBuf.dataIdx < txBuf.dataLength

\* Faulty: the interrupt stays enabled.
TxEndKeeping == UNCHANGED TXEIE

TxEnd == TXEIE' = FALSE

\* irqHandler for TXE, getTxData
TxEmpty ==
    /\ busOpen /\ TXEIE /\ DR = <<>>
    /\ \/ /\ txBuf.state = "Sync" /\ DR' = <<SyncByte>>
          /\ txBuf' = [txBuf EXCEPT !.state = "Data"] /\ UNCHANGED TXEIE
       \/ /\ More /\ DR' = <<Data(txBuf.no, txBuf.dataIdx)>>
          /\ txBuf' = [txBuf EXCEPT !.dataIdx = @ + 1] /\ UNCHANGED TXEIE
       \/ txBuf.state # "Sync" /\ ~More /\ TxEnd /\ UNCHANGED <<DR, txBuf>>
    /\ UNCHANGED <<pc, loaded, busOpen, SBK, shift, line, clean, bytes>>

\* The USART: a symbol is over and the next begins. A break asked for before DR
\* was written comes first; asked for later, either may. SBK lasts as long as the
\* break, much longer than send.
Shift ==
    /\ busOpen /\ shift \o DR # <<>>
    /\ (shift = <<Break>> => pc = "idle")
    /\ line' = line \o shift /\ SBK' = (SBK /\ shift # <<Break>>)
    /\ \/ SBK' /\ shift' = <<Break>> /\ UNCHANGED DR
       \/ (SBK' => DR # <<>>) /\ shift' = DR /\ DR' = <<>>
    /\ UNCHANGED <<pc, loaded, txBuf, busOpen, TXEIE, clean, bytes>>

Main == BreakLoad \/ BreakStore \/ StateSync \/ Start

TxNext == SendFill \/ Main \/ LinInit \/ LinDeinit \/ TxEmpty \/ Shift

TxSpec == TxInit /\ [][TxNext]_txVars

TxFairSpec == TxSpec /\ WF_txVars(Main) /\ WF_txVars(TxEmpty) /\ WF_txVars(Shift)

----------------------------------------------------------------------------
TypeOK ==
    /\ pc \in {"idle", "break", "breakStore", "sync", "start"}
    /\ {loaded, busOpen, TXEIE, SBK, clean} \subseteq BOOLEAN
    /\ txBuf.state \in {"Idle", "Sync", "Data"} /\ txBuf.no \in 0..MaxSends /\ bytes \in 0..(MaxData + 1)
    /\ txBuf.dataLength \in 0..(MaxData + 1) /\ txBuf.dataIdx \in 0..txBuf.dataLength
    /\ Len(DR) <= 1 /\ Len(shift) <= 1

\* The packet on the line: its identifier is byte 0.
Frame == <<Break, SyncByte>> \o [i \in 1..(bytes + 1) |-> Data(txBuf.no, i - 1)]

\* A packet sent when the transmitter is quiet goes out as a break, the sync byte
\* and its bytes in order, whatever was cut short, closed or overtaken before.
CleanFrame == clean => IsPrefix(line \o shift \o DR, Frame)

\* Such a packet goes out to its end, unless another is sent or the bus is closed,
\* with one exception: of a packet that the checksum makes longer than Pkt::data
\* LinBuf(pkt) keeps nothing, and a break and the sync byte are all that is sent.
FrameGoesOut ==
    \A k \in 1..MaxSends :
        (clean /\ txBuf.no = k) ~>
            \/ line = (IF bytes > MaxData THEN <<Break, SyncByte>> ELSE Frame)
            \/ txBuf.no # k \/ ~clean

\* The transmitter comes to rest, however packets have overtaken each other.
ComesToRest == \A k \in 0..MaxSends : (txBuf.no = k) ~> (Quiet \/ ~busOpen \/ txBuf.no # k)
=============================================================================
