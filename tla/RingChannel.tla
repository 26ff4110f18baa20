----------------------------- MODULE RingChannel ----------------------------
(* One CircularBuffer (Buffer.h) between the main loop and an interrupt      *)
(* handler.  The handler runs to completion while the main loop is frozen   *)
(* at any of its steps, so Put and Get are split into the accesses they make *)
(* and the side that is the handler excludes the other.                     *)
(*                                                                          *)
(*   ring           producer                       consumer        BufLen   *)
(*   canPkt[ch]     CAN interrupt                  processPackets    1      *)
(*   rxBuf          cdcacm_data_rx_cb (interrupt)  Usb::receive     32      *)
(*   txBuf          Usb::send (main loop)          tx_cb             1      *)
(*                                                                          *)
(* Items are numbered in the order of their Put; a cell holds the number of *)
(* the item written to it last, and a number below 1 before its first Put.  *)
EXTENDS CircularBuffer

CONSTANTS Size,         \* cells of the ring
          BufLen,       \* Gets the consumer makes on one reading of Avail()
          ProducerIsr   \* whether the producer (else the consumer) is the handler

ASSUME SizeAssumption == Size \in Nat /\ Size > 1
ASSUME BufLenAssumption == BufLen \in Nat /\ BufLen > 0
ASSUME ProducerIsrAssumption == ProducerIsr \in BOOLEAN

VARIABLES buff, putIdx, getIdx,  \* the fields of the class
          ppc,                   \* producer: "idle" or "publish"
          cpc, left,             \* consumer: its next access; Gets to go
          puts, gets,            \* history: completed Puts and Gets
          head, tail,            \* history: the items whose first and last word
                                 \*   the last Get copied
          overrun                \* history: some Put filled the last free cell

prodVars == <<buff, putIdx, ppc, puts, overrun>>
consVars == <<getIdx, cpc, left, gets, head, tail>>
vars     == <<prodVars, consVars>>

Cells == 0..(Size - 1)

Unread == Avail(putIdx, getIdx, Size)

Init ==
    /\ buff = [i \in Cells |-> i + 1 - Size]
    /\ putIdx = 0 /\ getIdx = 0
    /\ ppc = "idle" /\ puts = 0 /\ overrun = FALSE
    /\ cpc = "idle" /\ left = 0 /\ gets = 0 /\ head = 0 /\ tail = 0

----------------------------------------------------------------------------
ProducerRuns == ProducerIsr \/ (cpc = "idle" /\ left = 0)
ConsumerRuns == ~ProducerIsr \/ ppc = "idle"

(* Faulty variants of the accesses below, for the mutants of PROJECT.json.   *)

\* The index moves before the item is stored.
PutSwapped ==
    /\ ProducerRuns
    /\ \/ /\ ppc = "idle" /\ ppc' = "late"
          /\ putIdx' = Advance(putIdx, Size)
          /\ puts' = puts + 1
          /\ UNCHANGED buff
       \/ /\ ppc = "late" /\ ppc' = "idle"
          /\ buff' = [buff EXCEPT ![(putIdx + Size - 1) % Size] = puts]
          /\ UNCHANGED <<putIdx, puts>>
    /\ UNCHANGED <<overrun, consVars>>

\* A full ring drops its oldest item from under the consumer.
PutDroppingOldest ==
    /\ ProducerRuns
    /\ ppc = "publish" /\ ppc' = "idle"
    /\ putIdx' = Advance(putIdx, Size)
    /\ puts' = puts + 1
    /\ overrun' = (overrun \/ Free(putIdx, getIdx, Size) = 0)
    /\ getIdx' = IF Free(putIdx, getIdx, Size) = 0 THEN Advance(getIdx, Size) ELSE getIdx
    /\ UNCHANGED <<buff, cpc, left, gets, head, tail>>

\* Get without a look at Avail().
GetUnchecked ==
    /\ ConsumerRuns
    /\ cpc = "idle" /\ left = 0
    /\ left' = 1 /\ cpc' = "head"
    /\ UNCHANGED <<getIdx, gets, head, tail, prodVars>>

\* The index moves while the item is still being copied.
GetHeadAdvancing ==
    /\ ConsumerRuns
    /\ cpc = "head" /\ cpc' = "tail"
    /\ head' = buff[getIdx]
    /\ getIdx' = Advance(getIdx, Size)
    /\ UNCHANGED <<left, gets, tail, prodVars>>

\* buff[putIdx] = data;  no caller asks Free() first.
PutStore ==
    /\ ProducerRuns
    /\ ppc = "idle"
    /\ buff' = [buff EXCEPT ![putIdx] = puts + 1]
    /\ ppc' = "publish"
    /\ UNCHANGED <<putIdx, puts, overrun, consVars>>

\* putIdx = (putIdx + 1) % Size
PutPublish ==
    /\ ProducerRuns
    /\ ppc = "publish"
    /\ putIdx' = Advance(putIdx, Size)
    /\ puts' = puts + 1
    /\ overrun' = (overrun \/ Free(putIdx, getIdx, Size) = 0)
    /\ ppc' = "idle"
    /\ UNCHANGED <<buff, consVars>>

\* The caller reads Avail() and commits to that many Gets, at most BufLen.
GetCheck ==
    /\ ConsumerRuns
    /\ cpc = "idle" /\ left = 0
    /\ Unread > 0
    /\ left' = IF Unread < BufLen THEN Unread ELSE BufLen
    /\ cpc' = "head"
    /\ UNCHANGED <<getIdx, gets, head, tail, prodVars>>

\* Type data = buff[getIdx]; a packet takes several words to copy, and the
\* handler may run between the first and the last of them.
GetHead ==
    /\ ConsumerRuns
    /\ cpc = "head"
    /\ head' = buff[getIdx]
    /\ cpc' = "tail"
    /\ UNCHANGED <<getIdx, left, gets, tail, prodVars>>

GetTail ==
    /\ ConsumerRuns
    /\ cpc = "tail"
    /\ tail' = buff[getIdx]
    /\ cpc' = "advance"
    /\ UNCHANGED <<getIdx, left, gets, head, prodVars>>

\* getIdx = (getIdx + 1) % Size
GetAdvance ==
    /\ ConsumerRuns
    /\ cpc = "advance"
    /\ getIdx' = Advance(getIdx, Size)
    /\ gets' = gets + 1
    /\ left' = left - 1
    /\ cpc' = IF left = 1 THEN "idle" ELSE "head"
    /\ UNCHANGED <<head, tail, prodVars>>

Next == PutStore \/ PutPublish \/ GetCheck \/ GetHead \/ GetTail \/ GetAdvance

Spec == Init /\ [][Next]_vars

----------------------------------------------------------------------------
\* The fields and indices stay in range, and Gets to go means a Get is under way.
TypeOK ==
    /\ buff \in [Cells -> Int]
    /\ putIdx \in Cells /\ getIdx \in Cells
    /\ ppc \in {"idle", "publish"} /\ cpc \in {"idle", "head", "tail", "advance"}
    /\ left \in 0..BufLen /\ (left = 0 <=> cpc = "idle")
    /\ puts \in Nat /\ gets \in Nat /\ head \in Int /\ tail \in Int
    /\ overrun \in BOOLEAN

\* How many Gets have copied the first, the last word of their item.
Heads == IF cpc \in {"tail", "advance"} THEN gets + 1 ELSE gets
Tails == IF cpc = "advance" THEN gets + 1 ELSE gets

\* Until a Put fills the last free cell, Avail() is the true number of items
\* not yet taken and the k-th Get returns all of the k-th item: nothing is lost,
\* repeated, reordered or torn, wherever the handler preempts the main loop.
FifoUntilOverrun ==
    ~overrun => /\ Unread = puts - gets
                /\ head = Heads /\ tail = Tails

\* The full ring looks empty: whatever is lost is lost Size items at a time,
\* so the k-th Get of any run returns item k modulo Size, and a torn item mixes
\* two items a whole number of rings apart.
LossIsWholeRings == (head - Heads) % Size = 0 /\ (tail - Tails) % Size = 0

\* Only an interrupt that overruns the ring while the main loop copies tears.
TornOnlyByOverrun ==
    cpc \in {"idle", "advance"} /\ head # tail => ProducerIsr /\ overrun

\* A consumer that reads Avail() before every Get (processPackets, tx_cb) never
\* copies from an item twice, out of order or before its Put completed, however
\* often the ring is overrun between its steps.
HeadChannel == INSTANCE OrderedChannel WITH sent <- puts, got <- head, count <- Heads
TailChannel == INSTANCE OrderedChannel WITH sent <- puts, got <- tail, count <- Tails
ImplementsOrderedChannel == HeadChannel!Spec /\ TailChannel!Spec
=============================================================================
