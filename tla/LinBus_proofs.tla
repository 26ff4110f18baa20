---------------------------- MODULE LinBus_proofs ----------------------------
(* Proofs about both directions of the LIN bus. LinReceiver, for every buffer *)
(* and ring, any number of frames of any length: the buffer holds one frame,  *)
(* no frame heard is lost before the ring, and what waits in the ring is one  *)
(* frame each, in order. LinTransmitter, for every packet length and any      *)
(* number of packets: the fields keep their types, and a packet sent when the *)
(* transmitter is quiet goes out clean.                                       *)
EXTENDS LinReceiver, LinTransmitter, TLAPS

Byte == Nat \X Nat
Buffer == [0..(BufSize - 1) -> Byte]

TypeInv ==
    /\ {on, open, stale, raced, ear} \subseteq BOOLEAN
    /\ state \in {"Idle", "Break", "Data"} /\ dataIdx \in 0..BufSize /\ data \in Buffer
    /\ mpc \in {"idle", "check", "open"} \cup Completing
    /\ frame \in Nat /\ pos \in Nat /\ phase \in {"silent", "break", "sync", "bytes"}
    /\ phase \in {"break", "sync"} => pos = 0

\* What is received is the frame the bus is at, from its beginning on.
ShapeInv ==
    on /\ ~stale =>
        /\ state = "Break" => phase = "sync" /\ dataIdx = 0
        /\ state = "Data" => /\ phase = "bytes" /\ dataIdx = pos
                             /\ \A i \in 0..(dataIdx - 1) : data[i] = <<frame, i>>

\* A frame heard from its break on is received from its first byte on.
EarInv ==
    ear => /\ on /\ open /\ phase \in {"sync", "bytes"} /\ pos = 0
           /\ ~raced => /\ mpc \notin Completing /\ dataIdx = 0
                        /\ state = IF phase = "sync" THEN "Break" ELSE "Data"

\* Unless raced, the main loop's rxComplete finds rxBuf as it was when it looked.
MainInv ==
    /\ ~open => due = {}
    /\ mpc \in Completing /\ ~raced =>
           /\ state = "Data" /\ dataIdx >= 1 /\ len = dataIdx
           /\ mpc # "id" => pkt \in Seq(Byte) /\ pkt # <<>> /\ pkt[1] = data[0]
           /\ mpc = "reset" => due = {}

Inv == TypeInv /\ ShapeInv /\ EarInv /\ MainInv /\ NoFrameLost

----------------------------------------------------------------------------
(* The interrupt's functions                                                 *)

IsRx(r) ==
    /\ r = [state |-> r.state, dataIdx |-> r.dataIdx, data |-> r.data, linPkt |-> r.linPkt,
            putIdx |-> r.putIdx, due |-> r.due, stale |-> r.stale, mixed |-> r.mixed]
    /\ r.state \in {"Idle", "Break", "Data"} /\ r.dataIdx \in 0..BufSize /\ r.data \in Buffer
    /\ r.stale \in BOOLEAN

\* NoFrameLost of a record, and what MainInv says of due
Held(r) ==
    /\ ~open => r.due = {}
    /\ \A f \in r.due : r.state = "Data" /\ r.dataIdx >= 1 /\ r.data[0] = <<f, 0>>

IsFresh(g, r) == IsRx(g) /\ g.state = "Idle" /\ g.dataIdx = 0 /\ g.stale = FALSE /\ g.due = r.due

LEMMA Sizes == BufSize \in Nat /\ BufSize > 1 /\ 0 \in 0..(BufSize - 1)
BY BufSizeAssumption

LEMMA ByteLemma == Zero \in Byte /\ Sync \in Byte /\ (\A i, j \in Nat : <<i, j>> \in Byte)
BY DEF Zero, Sync, Byte

LEMMA FreshLemma == ASSUME NEW r, IsRx(r) PROVE IsFresh(Fresh(r), r)
<1>1. DOMAIN r.data = 0..(BufSize - 1)
  BY DEF IsRx, Buffer
<1>2. [i \in DOMAIN r.data |-> Zero] \in Buffer
  BY <1>1, ByteLemma DEF Buffer
<1>3. Fresh(r) = [r EXCEPT !.state = "Idle", !.dataIdx = 0, !.data = [i \in DOMAIN r.data |-> Zero],
                           !.stale = FALSE]
  BY DEF Fresh, IsRx
<1> DEFINE z == [i \in DOMAIN r.data |-> Zero]
           g == Fresh(r)
<1> HIDE DEF z, g
<1>4. g = [r EXCEPT !.state = "Idle", !.dataIdx = 0, !.data = z, !.stale = FALSE]
  BY <1>3 DEF z, g
<1>5. /\ g.state = "Idle" /\ g.dataIdx = 0 /\ g.data = z /\ g.stale = FALSE /\ g.due = r.due
      /\ g = [state |-> g.state, dataIdx |-> g.dataIdx, data |-> g.data, linPkt |-> g.linPkt,
               putIdx |-> g.putIdx, due |-> g.due, stale |-> g.stale, mixed |-> g.mixed]
  BY <1>4 DEF IsRx
<1>6. z \in Buffer /\ 0 \in 0..BufSize
  BY <1>2, Sizes DEF z
<1> QED BY <1>5, <1>6 DEF IsFresh, IsRx, g

LEMMA PacketLemma ==
    ASSUME NEW r, IsRx(r), r.dataIdx >= 1
    PROVE  FrameOf(Packet(r)) = r.data[0][1]
<1>1. r.dataIdx \in Nat /\ 1 \in 1..r.dataIdx
  BY Sizes DEF IsRx
<1>2. Packet(r)[1] = r.data[0] /\ DOMAIN Packet(r) = 1..r.dataIdx
  BY <1>1 DEF Packet
<1>3. Packet(r) # <<>>
  BY <1>1, <1>2
<1> QED BY <1>2, <1>3 DEF FrameOf

LEMMA CompleteLemma ==
    ASSUME NEW r, IsRx(r)
    PROVE  LET g == RxComplete(r)
           IN  IF r.state = "Data" /\ r.dataIdx >= 1
               THEN /\ IsRx(g) /\ g.state = "Idle" /\ g.dataIdx = 0 /\ g.stale = FALSE
                    /\ g.due = IF open THEN r.due \ {r.data[0][1]} ELSE r.due
               ELSE g = r
<1>1. CASE ~(r.state = "Data" /\ r.dataIdx >= 1)
  BY <1>1 DEF RxComplete
<1>2. CASE r.state = "Data" /\ r.dataIdx >= 1
  <2> DEFINE p == PacketReceived(r)
  <2>1. IsRx(p) /\ p.due = IF open THEN r.due \ {r.data[0][1]} ELSE r.due
    <3>1. CASE ~open
      BY <3>1 DEF PacketReceived
    <3>2. CASE open
      <4> DEFINE q == Packet(r)
      <4>1. FrameOf(q) = r.data[0][1]
        BY <1>2, PacketLemma
      <4>2. p = [r EXCEPT !.linPkt = [r.linPkt EXCEPT ![r.putIdx] = q],
                          !.putIdx = Advance(r.putIdx, RingSize),
                          !.due = r.due \ {FrameOf(q)}, !.mixed = (r.mixed \/ r.stale)]
        BY <3>2 DEF PacketReceived, IsRx
      <4> HIDE DEF p, q
      <4> QED BY <4>1, <4>2, <3>2 DEF IsRx
    <3> QED BY <3>1, <3>2
  <2>2. RxComplete(r) = Fresh(p)
    BY <1>2 DEF RxComplete
  <2> HIDE DEF p
  <2> QED BY <1>2, <2>1, <2>2, FreshLemma DEF IsFresh
<1> QED BY <1>1, <1>2

LEMMA CompleteHeld ==
    ASSUME NEW r, IsRx(r), Held(r)
    PROVE  IsRx(RxComplete(r)) /\ Held(RxComplete(r))
<1> DEFINE g == RxComplete(r)
<1>1. CASE r.state = "Data" /\ r.dataIdx >= 1
  <2>1. /\ IsRx(g) /\ g.due = IF open THEN r.due \ {r.data[0][1]} ELSE r.due
    BY <1>1, CompleteLemma
  <2> HIDE DEF g
  <2>2. \A f \in r.due : r.data[0][1] = f
    BY DEF Held
  <2>3. g.due = {}
    BY <2>1, <2>2 DEF Held
  <2> QED BY <2>1, <2>3 DEF Held, g
<1>2. CASE ~(r.state = "Data" /\ r.dataIdx >= 1)
  BY <1>2, CompleteLemma
<1> QED BY <1>1, <1>2

\* The outcomes of a byte: it begins the data, is added, or completes or drops what
\* there is.
DataOutcome(g, r, b) ==
    \/ /\ r.state = "Break" /\ b = Sync /\ g.state = "Data"
       /\ g.dataIdx = r.dataIdx /\ g.data = r.data /\ g.due = r.due /\ g.stale = r.stale
    \/ /\ r.state = "Data" /\ r.dataIdx < BufSize - 1 /\ g.state = "Data"
       /\ g.dataIdx = r.dataIdx + 1 /\ g.data = [r.data EXCEPT ![r.dataIdx] = b]
       /\ g.due = r.due /\ g.stale = r.stale
    \/ /\ r.state = "Data" /\ r.dataIdx >= BufSize - 1
       /\ g.state = "Idle" /\ g.dataIdx = 0 /\ g.stale = FALSE
       /\ (Held(r) => Held(g))
    \/ /\ r.state # "Data" /\ g.state = "Idle" /\ g.dataIdx = 0 /\ g.stale = FALSE
       /\ g.due = r.due /\ (r.state = "Break" => b # Sync)

LEMMA DataLemma ==
    ASSUME NEW r, IsRx(r), NEW b \in Byte
    PROVE  IsRx(RxData(r, b)) /\ DataOutcome(RxData(r, b), r, b)
<1> DEFINE kept == IF r.dataIdx < BufSize
                   THEN [r EXCEPT !.data[r.dataIdx] = b, !.dataIdx = @ + 1] ELSE r
           g == RxData(r, b)
<1> USE DEF DataOutcome
<1>1. CASE r.state = "Break" /\ b = Sync
  <2>1. g = [r EXCEPT !.state = "Data"]
    BY <1>1 DEF RxData
  <2> HIDE DEF g
  <2>2. IsRx(g) /\ g.state = "Data" /\ g.dataIdx = r.dataIdx /\ g.data = r.data /\ g.due = r.due /\ g.stale = r.stale
    BY <2>1 DEF IsRx
  <2> QED BY <1>1, <2>2 DEF g
<1>2. CASE r.state # "Data" /\ ~(r.state = "Break" /\ b = Sync)
  <2>1. g = Fresh(r)
    BY <1>2 DEF RxData
  <2> HIDE DEF g
  <2> QED BY <1>2, <2>1, FreshLemma DEF IsFresh, g
<1>3. CASE r.state = "Data"
  <2>1. g = IF kept.dataIdx = BufSize THEN RxComplete(kept) ELSE kept
    BY <1>3 DEF RxData
  <2>2. /\ IsRx(kept) /\ kept.state = "Data" /\ kept.due = r.due /\ kept.stale = r.stale
        /\ r.dataIdx < BufSize => /\ kept.dataIdx = r.dataIdx + 1
                                  /\ kept.data = [r.data EXCEPT ![r.dataIdx] = b]
        /\ r.dataIdx = BufSize => kept = r
        /\ r.dataIdx \in 0..BufSize
    <3>1. CASE r.dataIdx < BufSize
      <4>1. kept = [r EXCEPT !.data = [r.data EXCEPT ![r.dataIdx] = b], !.dataIdx = r.dataIdx + 1]
        BY <3>1 DEF IsRx
      <4>2. [r.data EXCEPT ![r.dataIdx] = b] \in Buffer
        BY DEF IsRx, Buffer
      <4>3. r.dataIdx + 1 \in 0..BufSize /\ r.dataIdx \in 0..BufSize /\ r.dataIdx # BufSize
        BY <3>1, Sizes DEF IsRx
      <4> DEFINE d == [r.data EXCEPT ![r.dataIdx] = b]
      <4> HIDE DEF d, kept
      <4> QED BY <1>3, <4>1, <4>2, <4>3 DEF IsRx, d
    <3>2. CASE ~(r.dataIdx < BufSize)
      BY <1>3, <3>2, Sizes DEF IsRx
    <3> QED BY <3>1, <3>2
  <2> HIDE DEF g, kept
  <2>3. CASE kept.dataIdx # BufSize
    <3>1. r.dataIdx < BufSize - 1
      BY <2>2, <2>3, Sizes
    <3> QED BY <1>3, <2>1, <2>2, <2>3, <3>1, Sizes DEF g
  <2>4. CASE kept.dataIdx = BufSize
    <3>1. r.dataIdx >= BufSize - 1 /\ r.dataIdx >= 1 /\ kept.dataIdx >= 1
      BY <2>2, <2>4, Sizes
    <3>2. IsRx(g) /\ g.state = "Idle" /\ g.dataIdx = 0 /\ g.stale = FALSE
      BY <2>1, <2>2, <2>4, <3>1, CompleteLemma
    <3>3. Held(r) => Held(kept)
      <4>1. kept.data[0] = r.data[0]
        BY <2>2, <3>1, Sizes DEF IsRx, Buffer
      <4> QED BY <2>2, <3>1, <4>1 DEF Held
    <3>4. Held(r) => Held(g)
      BY <2>1, <2>2, <2>4, <3>3, CompleteHeld
    <3> QED BY <1>3, <3>1, <3>2, <3>4 DEF g
  <2> QED BY <2>3, <2>4
<1> QED BY <1>1, <1>2, <1>3 DEF IsRx

LEMMA DataHeld ==
    ASSUME NEW r, IsRx(r), NEW b \in Byte, Held(r)
    PROVE  Held(RxData(r, b))
<1> DEFINE g == RxData(r, b)
<1>1. r.dataIdx \in 0..BufSize /\ r.data \in Buffer
  BY DEF IsRx
<1>2. r.dataIdx >= 1 /\ r.dataIdx < BufSize - 1 => [r.data EXCEPT ![r.dataIdx] = b][0] = r.data[0]
  BY <1>1, Sizes DEF Buffer
<1> HIDE DEF g
<1>3. CASE r.state = "Data" /\ r.dataIdx < BufSize - 1 /\ g.state = "Data" /\ g.dataIdx = r.dataIdx + 1
           /\ g.data = [r.data EXCEPT ![r.dataIdx] = b] /\ g.due = r.due
  <2> SUFFICES ASSUME NEW f \in r.due PROVE g.dataIdx >= 1 /\ g.data[0] = <<f, 0>>
    BY <1>3 DEF Held, g
  <2>1. r.dataIdx >= 1 /\ r.data[0] = <<f, 0>>
    BY DEF Held
  <2>2. g.data[0] = r.data[0]
    BY <1>2, <1>3, <2>1
  <2> QED BY <1>1, <1>3, <2>1, <2>2
<1>4. r.state # "Data" => r.due = {}
  BY DEF Held
<1>5. r.due = {} /\ g.due = r.due => Held(g)
  BY DEF Held
<1>6. CASE Held(g)
  BY <1>6 DEF g
<1>7. \/ r.state = "Break" /\ g.due = r.due
      \/ /\ r.state = "Data" /\ r.dataIdx < BufSize - 1 /\ g.state = "Data" /\ g.dataIdx = r.dataIdx + 1
         /\ g.data = [r.data EXCEPT ![r.dataIdx] = b] /\ g.due = r.due
      \/ Held(g)
      \/ r.state # "Data" /\ g.due = r.due
  BY DataLemma DEF g, DataOutcome
<1> QED BY <1>3, <1>4, <1>5, <1>6, <1>7 DEF g

LEMMA ErrorLemma ==
    ASSUME NEW r, IsRx(r)
    PROVE  LET g == RxError(r)
           IN  /\ IsRx(g) /\ g.state = "Idle" /\ g.dataIdx = 0 /\ g.stale = FALSE
               /\ Held(r) => Held(g)
<1> DEFINE c == RxComplete(r)
<1>1. IsRx(c) /\ (Held(r) => Held(c))
  BY CompleteLemma, CompleteHeld
<1>2. Held(r) => c.due = {}
  BY CompleteLemma, CompleteHeld, <1>1 DEF Held
<1> HIDE DEF c
<1>3. IsFresh(Fresh(c), c)
  BY <1>1, FreshLemma
<1> QED BY <1>1, <1>2, <1>3 DEF RxError, IsFresh, Held, c

LEMMA BreakLemma ==
    ASSUME NEW r, IsRx(r)
    PROVE  LET g == RxBreak(r)
           IN  /\ IsRx(g) /\ g.state = "Break" /\ g.dataIdx = 0 /\ g.stale = FALSE
               /\ Held(r) => Held(g)
<1> DEFINE e == RxError(r)
<1>1. IsRx(e) /\ e.dataIdx = 0 /\ e.stale = FALSE /\ e.state = "Idle" /\ (Held(r) => Held(e))
  BY ErrorLemma
<1>2. RxBreak(r) = [e EXCEPT !.state = "Break"]
  BY DEF RxBreak, RxError
<1> HIDE DEF e
<1> QED BY <1>1, <1>2 DEF IsRx, Held

----------------------------------------------------------------------------
(* The steps of the bus                                                      *)

LEMMA RxOf ==
    ASSUME Inv
    PROVE  /\ IsRx(rx) /\ rx.state = state /\ rx.dataIdx = dataIdx /\ rx.data = data
           /\ rx.due = due /\ rx.stale = stale
           /\ ~raced => Held(rx)
BY DEF Inv, TypeInv, MainInv, NoFrameLost, rx, IsRx, Held

\* What the interrupt leaves behind.  Only a frame in Data or Break can be heard further.
LEMMA HearLemma ==
    ASSUME Inv, NEW r, IsRx(r), Hear(r), on
    PROVE  /\ state' = r.state /\ dataIdx' = r.dataIdx /\ data' = r.data
           /\ due' = r.due /\ stale' = r.stale /\ raced' = (raced \/ mpc \in Completing)
           /\ {stale', raced'} \subseteq BOOLEAN
           /\ state' \in {"Idle", "Break", "Data"} /\ dataIdx' \in 0..BufSize /\ data' \in Buffer
BY DEF Hear, IsRx, Inv, TypeInv

LEMMA DeafLemma ==
    ASSUME NEW r, Hear(r), ~on
    PROVE  UNCHANGED <<state, dataIdx, data, due, stale, raced>>
BY DEF Hear, rxBuf, history

\* MainInv and NoFrameLost after the interrupt
LEMMA HeldStep ==
    ASSUME Inv, NEW r, IsRx(r), Hear(r), on, ~raced /\ mpc \notin Completing => Held(r),
           UNCHANGED <<open, mpc>>, ~open => r.due = {}
    PROVE  MainInv' /\ NoFrameLost'
<1>1. /\ state' = r.state /\ dataIdx' = r.dataIdx /\ data' = r.data
      /\ due' = r.due /\ raced' = (raced \/ mpc \in Completing)
  BY HearLemma
<1>2. ~open' => due' = {}
  BY <1>1
<1>3. mpc' \in Completing => raced'
  BY <1>1
<1>4. NoFrameLost'
  BY <1>1 DEF NoFrameLost, Held
<1> QED BY <1>2, <1>3, <1>4 DEF MainInv

\* Whatever is heard, nothing is added to due for a closed bus.
LEMMA ClosedLemma ==
    ASSUME NEW r, IsRx(r), ~open, r.due = {}, NEW b \in Byte
    PROVE  /\ RxData(r, b).due = {} /\ RxError(r).due = {} /\ RxBreak(r).due = {}
<1>1. Held(r)
  BY DEF Held
<1> QED BY <1>1, DataHeld, ErrorLemma, BreakLemma DEF Held

LEMMA BreakStep == ASSUME Inv, BusBreak PROVE Inv'
<1>1. PICK r : /\ Hear(r)
               /\ r \in {RxError(RxData(rx, Zero)), RxBreak(RxError(RxData(rx, Zero)))}
               /\ phase' = "sync" => r = RxBreak(RxError(RxData(rx, Zero)))
               /\ phase' # "sync" => r = RxError(RxData(rx, Zero))
  BY DEF BusBreak
<1>2. /\ frame' \in Nat /\ phase' \in {"silent", "break", "sync"} /\ pos' = 0 /\ pos' \in Nat
      /\ ear' = (on /\ open /\ phase' = "sync") /\ UNCHANGED <<on, open, mpc, pkt, len>>
  BY DEF BusBreak, setVars, mainVars, Inv, TypeInv
<1> DEFINE d == RxData(rx, Zero)
           e == RxError(d)
<1>3. IsRx(d) /\ (~raced => Held(d)) /\ (~open => d.due = {})
  <2>1. IsRx(rx) /\ (~raced => Held(rx)) /\ (~open => rx.due = {}) /\ Zero \in Byte
    BY RxOf, ByteLemma DEF Inv, MainInv
  <2> QED BY <2>1, DataLemma, DataHeld, ClosedLemma
<1> HIDE DEF d
<1>4. /\ IsRx(e) /\ (~raced => Held(e)) /\ (~open => e.due = {})
      /\ e.state = "Idle" /\ e.dataIdx = 0 /\ e.stale = FALSE
  BY <1>3, ErrorLemma, ClosedLemma, ByteLemma
<1> HIDE DEF e
<1>5. /\ IsRx(r) /\ (~raced => Held(r)) /\ (~open => r.due = {})
      /\ r.dataIdx = 0 /\ r.stale = FALSE
      /\ r.state = IF phase' = "sync" THEN "Break" ELSE "Idle"
  <2>1. CASE phase' = "sync"
    <3>1. r = RxBreak(e)
      BY <1>1, <2>1 DEF d, e
    <3> QED BY <1>4, <2>1, <3>1, BreakLemma, ClosedLemma, ByteLemma
  <2>2. CASE phase' # "sync"
    BY <1>1, <1>4, <2>2 DEF d, e
  <2> QED BY <2>1, <2>2
<1>6. CASE on
  <2>1. MainInv' /\ NoFrameLost'
    BY <1>1, <1>2, <1>5, <1>6, HeldStep
  <2>2. /\ state' = r.state /\ dataIdx' = r.dataIdx /\ data' = r.data
        /\ stale' = r.stale /\ raced' = (raced \/ mpc \in Completing)
        /\ {stale', raced'} \subseteq BOOLEAN
        /\ state' \in {"Idle", "Break", "Data"} /\ dataIdx' \in 0..BufSize /\ data' \in Buffer
    BY <1>1, <1>5, <1>6, HearLemma
  <2>3. TypeInv'
    BY <1>2, <2>2 DEF Inv, TypeInv
  <2>4. ShapeInv'
    BY <1>2, <1>5, <2>2 DEF ShapeInv
  <2>5. EarInv'
    BY <1>2, <1>5, <2>2 DEF EarInv
  <2> QED BY <2>1, <2>3, <2>4, <2>5 DEF Inv
<1>7. CASE ~on
  <2>1. UNCHANGED <<state, dataIdx, data, due, stale, raced>>
    BY <1>1, <1>7, DeafLemma
  <2>2. TypeInv'
    BY <1>2, <1>7, <2>1 DEF Inv, TypeInv
  <2>3. ShapeInv' /\ EarInv'
    BY <1>2, <1>7 DEF ShapeInv, EarInv, Inv, TypeInv
  <2>4. MainInv' /\ NoFrameLost'
    BY <1>2, <2>1 DEF Inv, MainInv, NoFrameLost
  <2> QED BY <2>2, <2>3, <2>4 DEF Inv
<1> QED BY <1>6, <1>7 DEF Inv, TypeInv

LEMMA BreakEndStep == ASSUME Inv, BusBreakEnd PROVE Inv'
<1> DEFINE r == RxBreak(rx)
<1>1. Hear(r) /\ phase = "break" /\ phase' = "sync" /\ ear' = (on /\ open) /\ pos = 0
  BY DEF BusBreakEnd, Inv, TypeInv
<1>2. UNCHANGED <<frame, pos, on, open, mpc, pkt, len>>
  BY DEF BusBreakEnd, setVars, mainVars
<1>3. /\ IsRx(r) /\ (~raced => Held(r)) /\ (~open => r.due = {})
      /\ r.dataIdx = 0 /\ r.stale = FALSE /\ r.state = "Break"
  BY RxOf, BreakLemma, ClosedLemma, ByteLemma DEF Inv, MainInv
<1> HIDE DEF r
<1>4. CASE on
  <2>1. MainInv' /\ NoFrameLost'
    BY <1>1, <1>2, <1>3, <1>4, HeldStep
  <2>2. /\ state' = r.state /\ dataIdx' = r.dataIdx /\ data' = r.data
        /\ stale' = r.stale /\ raced' = (raced \/ mpc \in Completing)
        /\ {stale', raced'} \subseteq BOOLEAN
        /\ state' \in {"Idle", "Break", "Data"} /\ dataIdx' \in 0..BufSize /\ data' \in Buffer
    BY <1>1, <1>3, <1>4, HearLemma
  <2>3. TypeInv'
    BY <1>1, <1>2, <2>2 DEF Inv, TypeInv
  <2>4. ShapeInv' /\ EarInv'
    BY <1>1, <1>2, <1>3, <2>2 DEF ShapeInv, EarInv
  <2> QED BY <2>1, <2>3, <2>4 DEF Inv
<1>5. CASE ~on
  <2>1. UNCHANGED <<state, dataIdx, data, due, stale, raced>>
    BY <1>1, <1>5, DeafLemma
  <2>2. TypeInv'
    BY <1>1, <1>2, <1>5, <2>1 DEF Inv, TypeInv
  <2>3. ShapeInv' /\ EarInv'
    BY <1>1, <1>2, <1>5 DEF ShapeInv, EarInv, Inv, TypeInv
  <2>4. MainInv' /\ NoFrameLost'
    BY <1>2, <2>1 DEF Inv, MainInv, NoFrameLost
  <2> QED BY <2>2, <2>3, <2>4 DEF Inv
<1> QED BY <1>4, <1>5 DEF Inv, TypeInv

LEMMA SyncStep == ASSUME Inv, BusSync PROVE Inv'
<1>1. PICK b \in {Sync, Zero} :
         /\ Hear(RxData(rx, b)) /\ phase' = IF b = Sync THEN "bytes" ELSE "silent"
         /\ b = Sync => ear' = ear
         /\ b = Zero => ear' = FALSE
  BY DEF BusSync, Sync, Zero
<1>2. UNCHANGED <<frame, pos, on, open, mpc, pkt, len>> /\ phase = "sync" /\ pos = 0
  BY DEF BusSync, setVars, mainVars, Inv, TypeInv
<1> DEFINE r == RxData(rx, b)
<1>3. /\ IsRx(r) /\ (~raced => Held(r)) /\ (~open => r.due = {})
  <2>1. IsRx(rx) /\ (~raced => Held(rx)) /\ (~open => rx.due = {}) /\ b \in Byte
    BY RxOf, ByteLemma DEF Inv, MainInv
  <2> QED BY <2>1, DataLemma, DataHeld, ClosedLemma
<1>4. \/ /\ state = "Break" /\ b = Sync /\ r.state = "Data"
         /\ r.dataIdx = dataIdx /\ r.stale = stale
      \/ state = "Data" /\ r.state = "Data" /\ r.stale = stale
      \/ r.state = "Idle" /\ ~(state = "Break" /\ b = Sync)
  <2>1. DataOutcome(r, rx, b)
    BY RxOf, DataLemma, ByteLemma
  <2> HIDE DEF r
  <2> QED BY <2>1, RxOf DEF DataOutcome
<1>5. Hear(r)
  BY <1>1
<1> HIDE DEF r
<1>6. CASE on
  <2>1. MainInv' /\ NoFrameLost'
    BY <1>2, <1>3, <1>5, <1>6, HeldStep
  <2>2. /\ state' = r.state /\ dataIdx' = r.dataIdx /\ data' = r.data
        /\ stale' = r.stale /\ raced' = (raced \/ mpc \in Completing)
        /\ {stale', raced'} \subseteq BOOLEAN
        /\ state' \in {"Idle", "Break", "Data"} /\ dataIdx' \in 0..BufSize /\ data' \in Buffer
    BY <1>3, <1>5, <1>6, HearLemma
  <2>3. Sync # Zero /\ ear' \in BOOLEAN /\ (ear' => ear /\ b = Sync)
    <3>1. Sync # Zero
      BY DEF Sync, Zero
    <3>2. CASE b = Sync
      BY <1>1, <3>1, <3>2 DEF Inv, TypeInv
    <3>3. CASE b = Zero
      BY <1>1, <3>1, <3>3
    <3> QED BY <3>1, <3>2, <3>3
  <2>4. TypeInv'
    BY <1>1, <1>2, <2>2, <2>3 DEF Inv, TypeInv
  <2>5. ShapeInv'
    <3> SUFFICES ASSUME on, ~stale', state' \in {"Break", "Data"}
                 PROVE  state' = "Data" /\ phase' = "bytes" /\ dataIdx' = 0 /\ pos' = 0
      BY <1>2 DEF ShapeInv
    <3>1. ~stale /\ state # "Data"
      BY <1>2, <1>4, <2>2 DEF Inv, ShapeInv
    <3> QED BY <1>1, <1>2, <1>4, <2>2, <3>1 DEF Inv, ShapeInv
  <2>6. EarInv'
    <3> SUFFICES ASSUME ear' PROVE EarInv'
      BY DEF EarInv
    <3>1. phase' = "bytes" /\ ear /\ b = Sync
      BY <1>1, <2>3
    <3>2. ~raced' => /\ ~raced /\ mpc \notin Completing /\ state = "Break" /\ dataIdx = 0
      BY <1>2, <2>2, <3>1 DEF Inv, EarInv
    <3>3. ~raced' => state' = "Data" /\ dataIdx' = 0
      BY <1>4, <2>2, <3>1, <3>2
    <3> QED BY <1>2, <3>1, <3>2, <3>3 DEF Inv, EarInv
  <2> QED BY <2>1, <2>4, <2>5, <2>6 DEF Inv
<1>7. CASE ~on
  <2>1. UNCHANGED <<state, dataIdx, data, due, stale, raced>>
    BY <1>5, <1>7, DeafLemma
  <2>2. ~ear /\ ~ear' /\ ear' \in BOOLEAN
    <3>1. ~ear /\ ear \in BOOLEAN
      BY <1>7 DEF Inv, TypeInv, EarInv
    <3>2. CASE b = Sync
      BY <1>1, <3>1, <3>2
    <3>3. CASE b = Zero
      BY <1>1, <3>1, <3>3
    <3> QED BY <3>1, <3>2, <3>3
  <2>3. TypeInv'
    BY <1>1, <1>2, <1>7, <2>1, <2>2 DEF Inv, TypeInv
  <2>4. ShapeInv' /\ EarInv'
    BY <1>2, <1>7, <2>2 DEF ShapeInv, EarInv
  <2>5. MainInv' /\ NoFrameLost'
    BY <1>2, <2>1 DEF Inv, MainInv, NoFrameLost
  <2> QED BY <2>3, <2>4, <2>5 DEF Inv
<1> QED BY <1>6, <1>7 DEF Inv, TypeInv

LEMMA ByteStep == ASSUME Inv, BusByte PROVE Inv'
<1> DEFINE h == [rx EXCEPT !.due = due \cup (IF ear THEN {frame} ELSE {})]
           b == <<frame, pos>>
           r == RxData(h, b)
<1>1. phase = "bytes" /\ pos' = pos + 1 /\ ear' = FALSE /\ UNCHANGED <<frame, phase, on, open, mpc, pkt, len>>
  BY DEF BusByte, setVars, mainVars
<1>2. Hear(r)
  BY DEF BusByte, rx
<1>3. b \in Byte /\ pos \in Nat /\ pos' \in Nat /\ frame \in Nat
  BY <1>1, ByteLemma DEF Inv, TypeInv
<1>4. /\ IsRx(h) /\ h.state = state /\ h.dataIdx = dataIdx /\ h.data = data /\ h.stale = stale
      /\ h.due = due \cup (IF ear THEN {frame} ELSE {})
  BY RxOf DEF IsRx
<1> HIDE DEF h
<1>5. IsRx(r)
  BY <1>3, <1>4, DataLemma
<1>6. \/ /\ state = "Break" /\ b = Sync /\ r.state = "Data"
         /\ r.dataIdx = dataIdx /\ r.stale = stale
      \/ /\ state = "Data" /\ dataIdx < BufSize - 1 /\ r.state = "Data" /\ r.stale = stale
         /\ r.dataIdx = dataIdx + 1 /\ r.data = [data EXCEPT ![dataIdx] = b] /\ r.due = h.due
      \/ r.state = "Idle" /\ (state = "Data" => dataIdx >= BufSize - 1)
  <2>1. DataOutcome(r, h, b)
    BY <1>3, <1>4, DataLemma
  <2> HIDE DEF r
  <2> QED BY <1>4, <2>1 DEF DataOutcome
<1>7. ~open => r.due = {}
  <2>1. ~open => h.due = {}
    BY <1>4 DEF Inv, MainInv, EarInv
  <2> QED BY <1>3, <1>4, <2>1, ClosedLemma
<1>8. ~raced /\ mpc \notin Completing => Held(r)
  <2> SUFFICES ASSUME ~raced, mpc \notin Completing PROVE Held(r)
    OBVIOUS
  <2>1. CASE ~ear
    <3>1. Held(h)
      BY <1>4, <2>1 DEF Inv, MainInv, NoFrameLost, Held
    <3> QED BY <1>3, <1>4, <3>1, DataHeld
  <2>2. CASE ear
    <3>1. state = "Data" /\ dataIdx = 0 /\ pos = 0 /\ open
      BY <1>1, <2>2 DEF Inv, EarInv
    <3>2. due = {}
      BY <3>1 DEF Inv, NoFrameLost
    <3>3. r.state = "Data" /\ r.dataIdx = 1 /\ r.data[0] = <<frame, 0>> /\ r.due = {frame}
      <4>1. dataIdx < BufSize - 1 /\ 0 \in 0..(BufSize - 1)
        BY <3>1, Sizes
      <4>2. r.state = "Data" /\ r.dataIdx = dataIdx + 1 /\ r.data = [data EXCEPT ![dataIdx] = b] /\ r.due = h.due
        BY <1>6, <3>1, <4>1, Sizes
      <4>3. h.due = {frame}
        BY <1>4, <2>2, <3>2
      <4>4. data \in Buffer
        BY DEF Inv, TypeInv
      <4>5. [data EXCEPT ![0] = b][0] = b /\ dataIdx + 1 = 1 /\ b = <<frame, 0>>
        BY <3>1, <4>1, <4>4 DEF Buffer
      <4> QED BY <3>1, <4>2, <4>3, <4>5
    <3> QED BY <3>1, <3>3 DEF Held
  <2> QED BY <2>1, <2>2
<1> HIDE DEF r
<1>9. CASE on
  <2>1. MainInv' /\ NoFrameLost'
    BY <1>1, <1>2, <1>5, <1>7, <1>8, <1>9, HeldStep
  <2>2. /\ state' = r.state /\ dataIdx' = r.dataIdx /\ data' = r.data
        /\ stale' = r.stale /\ raced' = (raced \/ mpc \in Completing)
        /\ {stale', raced'} \subseteq BOOLEAN
        /\ state' \in {"Idle", "Break", "Data"} /\ dataIdx' \in 0..BufSize /\ data' \in Buffer
    BY <1>2, <1>5, <1>9, HearLemma
  <2>3. TypeInv'
    BY <1>1, <1>3, <2>2 DEF Inv, TypeInv
  <2>4. ShapeInv'
    <3> SUFFICES ASSUME on, ~stale', state' \in {"Break", "Data"}
                 PROVE  /\ state' = "Data" /\ dataIdx' = pos + 1
                        /\ \A i \in 0..(dataIdx' - 1) : data'[i] = <<frame, i>>
      BY <1>1 DEF ShapeInv
    <3>1. ~stale /\ state = "Data" /\ r.state = "Data" /\ dataIdx < BufSize - 1
          /\ r.dataIdx = dataIdx + 1 /\ r.data = [data EXCEPT ![dataIdx] = b]
      BY <1>1, <1>6, <2>2 DEF Inv, ShapeInv
    <3>2. dataIdx = pos /\ \A i \in 0..(dataIdx - 1) : data[i] = <<frame, i>>
      BY <1>9, <3>1 DEF Inv, ShapeInv
    <3>3. ASSUME NEW i \in 0..dataIdx PROVE data'[i] = <<frame, i>>
      <4>1. data \in Buffer /\ dataIdx \in 0..BufSize
        BY DEF Inv, TypeInv
      <4>2. i \in 0..(BufSize - 1) /\ dataIdx \in 0..(BufSize - 1) /\ (i # dataIdx => i \in 0..(dataIdx - 1))
        BY <3>1, <4>1, Sizes
      <4> QED BY <2>2, <3>1, <3>2, <4>1, <4>2 DEF Buffer
    <3>4. dataIdx' - 1 = dataIdx
      BY <2>2, <3>1 DEF Inv, TypeInv
    <3> QED BY <2>2, <3>1, <3>2, <3>3, <3>4
  <2>5. EarInv'
    BY <1>1 DEF EarInv
  <2> QED BY <2>1, <2>3, <2>4, <2>5 DEF Inv
<1>10. CASE ~on
  <2>1. UNCHANGED <<state, dataIdx, data, due, stale, raced>>
    BY <1>2, <1>10, DeafLemma
  <2>2. TypeInv'
    BY <1>1, <1>3, <1>10, <2>1 DEF Inv, TypeInv
  <2>3. ShapeInv' /\ EarInv'
    BY <1>1, <1>10 DEF ShapeInv, EarInv
  <2>4. MainInv' /\ NoFrameLost'
    BY <1>1, <2>1 DEF Inv, MainInv, NoFrameLost
  <2> QED BY <2>2, <2>3, <2>4 DEF Inv
<1> QED BY <1>9, <1>10 DEF Inv, TypeInv

----------------------------------------------------------------------------
(* The steps of the main loop                                                *)

\* Steps that leave rxBuf and its histories alone
LEMMA AsideStep ==
    ASSUME Inv, UNCHANGED <<state, dataIdx, data, due, stale, raced, frame, phase, pos, on, open, len, pkt, ear>>,
           mpc' \in {"idle", "check", "open"}, mpc \notin Completing
    PROVE  Inv'
<1>1. mpc' \notin Completing
  BY DEF Completing
<1>2. TypeInv'
  BY DEF Inv, TypeInv
<1>3. ShapeInv' /\ EarInv'
  BY <1>1 DEF Inv, ShapeInv, EarInv
<1>4. MainInv' /\ NoFrameLost'
  BY <1>1 DEF Inv, MainInv, NoFrameLost
<1> QED BY <1>2, <1>3, <1>4 DEF Inv

\* Steps of rxComplete between its checks and its reset
LEMMA CompletingStep ==
    ASSUME Inv, UNCHANGED <<state, dataIdx, data, stale, raced, frame, phase, pos, on, open, ear>>,
           mpc' \in Completing, ~raced => mpc \in Completing \/ (dataIdx >= 1 /\ state = "Data"),
           due' \subseteq due, ~raced => MainInv', MainInv \/ raced
    PROVE  Inv'
<1>1. TypeInv'
  BY DEF Inv, TypeInv
<1>2. ShapeInv'
  BY DEF Inv, ShapeInv
<1>3. NoFrameLost'
  BY DEF Inv, NoFrameLost
<1>4. ear /\ ~raced => FALSE
  BY DEF Inv, EarInv, MainInv
<1>5. EarInv'
  BY <1>4 DEF Inv, EarInv
<1>6. MainInv'
  BY DEF Inv, MainInv
<1> QED BY <1>1, <1>2, <1>3, <1>5, <1>6 DEF Inv

LEMMA AsideSteps == ASSUME Inv, Tick \/ CheckTimeout \/ PacketGet \/ UNCHANGED vars PROVE Inv'
<1>1. UNCHANGED <<state, dataIdx, data, due, stale, raced, frame, phase, pos, on, open, len, pkt, ear>>
  BY DEF Tick, CheckTimeout, PacketGet, vars, setVars, rxBuf, mainVars, busVars, history
<1>2. CASE mpc \notin Completing /\ mpc' \in {"idle", "check", "open"}
  BY <1>1, <1>2, AsideStep
<1>3. CASE UNCHANGED mpc
  BY <1>1, <1>3 DEF Inv, TypeInv, ShapeInv, EarInv, MainInv, NoFrameLost
<1>4. CASE CheckTimeout
  BY <1>2, <1>4 DEF CheckTimeout, Completing
<1>5. CASE Tick \/ PacketGet \/ UNCHANGED vars
  BY <1>3, <1>5 DEF Tick, PacketGet, vars, mainVars
<1> QED BY <1>4, <1>5

LEMMA CheckStep == ASSUME Inv, CompleteCheck PROVE Inv'
<1>1. UNCHANGED <<state, dataIdx, data, due, stale, raced, frame, phase, pos, on, open, ear, pkt>> /\ mpc = "check"
  BY DEF CompleteCheck, setVars, rxBuf, busVars, history
<1>2. CASE state = "Data" /\ dataIdx >= 1 /\ mpc' = "id" /\ len' = dataIdx
  <2>1. MainInv'
    BY <1>1, <1>2 DEF Inv, MainInv
  <2>2. mpc' \in Completing
    BY <1>2 DEF Completing
  <2> QED BY <1>1, <1>2, <2>1, <2>2, CompletingStep DEF Inv
<1>3. CASE mpc' = "idle" /\ UNCHANGED len
  <2>1. mpc \notin Completing
    BY <1>1 DEF Completing
  <2> QED BY <1>1, <1>3, <2>1, AsideStep
<1> QED BY <1>2, <1>3 DEF CompleteCheck

LEMMA IdStep == ASSUME Inv, CompleteId PROVE Inv'
<1>1. /\ UNCHANGED <<state, dataIdx, data, due, stale, raced, frame, phase, pos, on, open, ear, len>>
      /\ mpc = "id" /\ mpc' = "data" /\ pkt' = <<data[0]>>
  BY DEF CompleteId, setVars, rxBuf, busVars, history
<1>2. mpc \in Completing /\ mpc' \in Completing
  BY <1>1 DEF Completing
<1>3. data[0] \in Byte
  BY Sizes DEF Inv, TypeInv, Buffer
<1>4. pkt' \in Seq(Byte) /\ pkt' # <<>> /\ pkt'[1] = data[0]
  BY <1>1, <1>3
<1>5. MainInv'
  BY <1>1, <1>2, <1>4 DEF Inv, MainInv
<1> QED BY <1>1, <1>2, <1>5, CompletingStep DEF Inv

LEMMA FunctionIsSeq ==
    ASSUME NEW S, NEW n \in Nat, NEW f \in [1..n -> S]
    PROVE  f \in Seq(S) /\ Len(f) = n
OBVIOUS

LEMMA JoinLemma ==
    ASSUME NEW S, NEW p \in Seq(S), p # <<>>, NEW q \in Seq(S)
    PROVE  p \o q \in Seq(S) /\ p \o q # <<>> /\ (p \o q)[1] = p[1]
<1>1. Len(p) \in Nat /\ Len(q) \in Nat /\ Len(p) >= 1
  OBVIOUS
<1>2. p \o q \in Seq(S) /\ Len(p \o q) = Len(p) + Len(q)
  OBVIOUS
<1>3. (p \o q)[1] = p[1]
  BY <1>1
<1>4. Len(p \o q) >= 1
  BY <1>1, <1>2
<1>5. p \o q # <<>>
  BY <1>2, <1>4
<1> QED BY <1>2, <1>3, <1>5

LEMMA DataStep == ASSUME Inv, CompleteData PROVE Inv'
<1> DEFINE rest == [i \in 1..(len - 1) |-> data[i]]
<1>1. /\ UNCHANGED <<state, dataIdx, data, due, stale, raced, frame, phase, pos, on, open, ear, len>>
      /\ mpc = "data" /\ mpc' = IF open THEN "store" ELSE "reset"
      /\ pkt' = pkt \o rest
  BY DEF CompleteData, setVars, rxBuf, busVars, history
<1>2. mpc \in Completing /\ mpc' \in Completing
  BY <1>1 DEF Completing
<1>3. MainInv'
  <2> SUFFICES ASSUME ~raced PROVE MainInv'
    BY <1>1 DEF Inv, MainInv
  <2>1. len = dataIdx /\ dataIdx \in 1..BufSize /\ pkt \in Seq(Byte) /\ pkt # <<>> /\ pkt[1] = data[0]
        /\ state = "Data" /\ (~open => due = {})
    BY <1>1, <1>2, Sizes DEF Inv, MainInv, TypeInv
  <2>2. rest \in Seq(Byte)
    <3>1. len - 1 \in Nat /\ \A i \in 1..(len - 1) : i \in 0..(BufSize - 1)
      BY <2>1, Sizes
    <3>2. rest \in [1..(len - 1) -> Byte]
      BY <3>1 DEF Inv, TypeInv, Buffer
    <3> HIDE DEF rest
    <3> QED BY <3>1, <3>2, FunctionIsSeq
  <2> HIDE DEF rest
  <2>3. pkt' \in Seq(Byte) /\ pkt' # <<>> /\ pkt'[1] = data[0]
    BY <1>1, <2>1, <2>2, JoinLemma
  <2> QED BY <1>1, <2>1, <2>3 DEF MainInv
<1> QED BY <1>1, <1>2, <1>3, CompletingStep DEF Inv

LEMMA PutSteps == ASSUME Inv, CompleteStore \/ CompleteLoad PROVE Inv'
<1>1. /\ UNCHANGED <<state, dataIdx, data, due, stale, raced, frame, phase, pos, on, open, ear, len, pkt>>
      /\ mpc \in {"store", "load"} /\ mpc' \in {"load", "publish"}
  BY DEF CompleteStore, CompleteLoad, setVars, rxBuf, busVars, history
<1>2. mpc \in Completing /\ mpc' \in Completing
  BY <1>1 DEF Completing
<1>3. MainInv'
  BY <1>1, <1>2 DEF Inv, MainInv
<1> QED BY <1>1, <1>2, <1>3, CompletingStep DEF Inv

LEMMA PublishStep == ASSUME Inv, CompletePublish PROVE Inv'
<1>1. /\ UNCHANGED <<state, dataIdx, data, stale, raced, frame, phase, pos, on, open, ear, len, pkt>>
      /\ mpc = "publish" /\ mpc' = "reset" /\ due' = due \ {FrameOf(pkt)}
  BY DEF CompletePublish, setVars, rxBuf, busVars
<1>2. mpc \in Completing /\ mpc' \in Completing
  BY <1>1 DEF Completing
<1>3. MainInv'
  <2>1. ASSUME ~raced PROVE due' = {}
    <3>1. pkt # <<>> /\ pkt[1] = data[0]
      BY <1>1, <1>2, <2>1 DEF Inv, MainInv
    <3>2. FrameOf(pkt) = data[0][1]
      BY <3>1 DEF FrameOf
    <3>3. \A f \in due : data[0][1] = f
      BY <2>1 DEF Inv, NoFrameLost
    <3> QED BY <1>1, <3>2, <3>3
  <2> QED BY <1>1, <1>2, <2>1 DEF Inv, MainInv
<1> QED BY <1>1, <1>2, <1>3, CompletingStep DEF Inv

LEMMA ResetStep == ASSUME Inv, CompleteReset PROVE Inv'
<1>1. /\ mpc = "reset" /\ mpc' = "idle" /\ state' = "Idle" /\ dataIdx' = 0
      /\ data' = [i \in DOMAIN data |-> Zero] /\ stale' = FALSE
      /\ UNCHANGED <<on, open, frame, phase, pos, ear, due, raced>>
  BY DEF CompleteReset, setVars, busVars
<1>2. mpc \in Completing /\ mpc' \notin Completing
  BY <1>1 DEF Completing
<1>3. data' \in Buffer
  BY <1>1, ByteLemma DEF Inv, TypeInv, Buffer
<1>4. TypeInv'
  <2>1. dataIdx' \in 0..BufSize /\ state' \in {"Idle", "Break", "Data"}
    BY <1>1, Sizes
  <2>2. {on', open', stale', raced', ear'} \subseteq BOOLEAN
    BY <1>1 DEF Inv, TypeInv
  <2>3. frame' \in Nat /\ pos' \in Nat /\ phase' \in {"silent", "break", "sync", "bytes"}
        /\ (phase' \in {"break", "sync"} => pos' = 0)
    BY <1>1 DEF Inv, TypeInv
  <2> QED BY <1>1, <1>3, <2>1, <2>2, <2>3 DEF TypeInv
<1>5. ShapeInv'
  BY <1>1 DEF ShapeInv
<1>6. EarInv'
  BY <1>1, <1>2 DEF Inv, EarInv
<1>7. ~raced => due = {}
  BY <1>1, <1>2 DEF Inv, MainInv
<1>8. MainInv' /\ NoFrameLost'
  BY <1>1, <1>2, <1>7 DEF Inv, MainInv, NoFrameLost
<1> QED BY <1>4, <1>5, <1>6, <1>8 DEF Inv

LEMMA CommandStep == ASSUME Inv, OpenBus \/ OpenSettings \/ Close \/ Handshake PROVE Inv'
<1>1. /\ mpc \in {"idle", "open"} /\ mpc' \in {"idle", "open"}
      /\ UNCHANGED <<state, dataIdx, data, frame, phase, pos, raced>>
  <2>1. CASE OpenBus \/ OpenSettings
    BY <2>1 DEF OpenBus, OpenSettings, rxBuf, busVars, history
  <2>2. CASE Close \/ Handshake
    BY <2>2 DEF Close, Handshake, rxBuf, busVars, mainVars
  <2> QED BY <2>1, <2>2
<1>2. mpc \notin Completing /\ mpc' \notin Completing
  BY <1>1 DEF Completing
<1>3. CASE OpenBus
  <2>1. on' = TRUE /\ stale' = (state # "Idle") /\ ear' = FALSE /\ UNCHANGED <<open, due>>
    BY <1>3 DEF OpenBus
  <2>2. TypeInv'
    BY <1>1, <2>1 DEF Inv, TypeInv
  <2>3. ShapeInv' /\ EarInv'
    BY <1>1, <2>1 DEF ShapeInv, EarInv
  <2>4. MainInv' /\ NoFrameLost'
    BY <1>1, <1>2, <2>1 DEF Inv, MainInv, NoFrameLost
  <2> QED BY <2>2, <2>3, <2>4 DEF Inv
<1>4. CASE OpenSettings
  <2>1. open' = TRUE /\ UNCHANGED <<on, ear, due, stale>>
    BY <1>4 DEF OpenSettings, history
  <2>2. TypeInv'
    BY <1>1, <2>1 DEF Inv, TypeInv
  <2>3. ShapeInv' /\ EarInv'
    BY <1>1, <1>2, <2>1 DEF Inv, ShapeInv, EarInv
  <2>4. MainInv' /\ NoFrameLost'
    BY <1>1, <1>2, <2>1 DEF Inv, MainInv, NoFrameLost
  <2> QED BY <2>2, <2>3, <2>4 DEF Inv
<1>5. CASE Close \/ Handshake
  <2>1. open' = FALSE /\ ear' = FALSE /\ due' = {} /\ UNCHANGED stale
        /\ on' \in BOOLEAN /\ (on' => on)
    <3>1. CASE Close
      BY <3>1 DEF Close
    <3>2. CASE Handshake
      BY <3>2 DEF Handshake, Inv, TypeInv
    <3> QED BY <1>5, <3>1, <3>2
  <2>2. TypeInv'
    BY <1>1, <2>1 DEF Inv, TypeInv
  <2>3. ShapeInv' /\ EarInv'
    <3>1. EarInv'
      BY <2>1 DEF EarInv
    <3>2. ASSUME on' /\ ~stale' PROVE on /\ ~stale
      BY <2>1, <3>2
    <3>3. ShapeInv'
      BY <1>1, <3>2 DEF Inv, ShapeInv
    <3> QED BY <3>1, <3>3
  <2>4. MainInv' /\ NoFrameLost'
    BY <1>1, <1>2, <2>1 DEF MainInv, NoFrameLost
  <2> QED BY <2>2, <2>3, <2>4 DEF Inv
<1> QED BY <1>3, <1>4, <1>5

----------------------------------------------------------------------------
LEMMA Initial == Init => Inv
<1> SUFFICES ASSUME Init PROVE Inv
  OBVIOUS
<1>1. data \in Buffer
  BY ByteLemma DEF Init, Buffer
<1>2. TypeInv
  <2>1. {on, open, stale, raced, ear} \subseteq BOOLEAN /\ state = "Idle" /\ dataIdx = 0 /\ mpc = "idle"
        /\ frame = 0 /\ phase = "silent" /\ pos = 0
    BY DEF Init
  <2>2. dataIdx \in 0..BufSize
    BY <2>1, Sizes
  <2> QED BY <1>1, <2>1, <2>2 DEF TypeInv
<1>3. ShapeInv /\ EarInv /\ MainInv
  BY DEF Init, ShapeInv, EarInv, MainInv, Completing
<1>4. NoFrameLost
  BY DEF Init, NoFrameLost
<1> QED BY <1>2, <1>3, <1>4 DEF Inv

LEMMA Always == Spec => []Inv
<1>1. Inv /\ [Next]_vars => Inv'
  BY BreakStep, BreakEndStep, SyncStep, ByteStep, AsideSteps, CheckStep, IdStep, DataStep, PutSteps,
     PublishStep, ResetStep, CommandStep, Zenon DEF Next, Bus, Complete
<1> QED BY Initial, <1>1, PTL DEF Spec

\* While a frame is received rxBuf holds that frame so far and nothing else, whatever
\* rxComplete of the main loop did to it in between (LinBus::rxData, rxComplete).
THEOREM BufferCorrect == Spec => []BufferIsOneFrame
<1>1. Inv => BufferIsOneFrame
  BY Sizes DEF Inv, TypeInv, ShapeInv, BufferIsOneFrame
<1> QED BY <1>1, Always, PTL

\* A frame heard from its break on is in rxBuf until it is in the ring, unless the
\* interrupt came into the main loop's rxComplete (LinBus::rxBreak, checkTimeout).
THEOREM NoFrameLostCorrect == Spec => []NoFrameLost
BY Always, PTL DEF Inv

----------------------------------------------------------------------------
(* The ring to the host: what is put are packets of one frame, and newer ones *)
(* than all that wait.                                                        *)

Cells == 0..(RingSize - 1)

\* The frame the bus is at may still get to the ring.
Unsent ==
    \/ phase \in {"break", "sync"}
    \/ phase = "bytes" /\ (pos = 0 \/ (state = "Data" /\ mpc # "reset"))

\* The last frame the ring may hold.
Limit == IF Unsent THEN frame - 1 ELSE frame

\* The steps of the main loop at which it has a packet to put
Putting == {"store", "load", "publish"}

IndexInv ==
    /\ putIdx \in Cells /\ getIdx \in Cells /\ idx \in Cells
    /\ linPkt = [c \in Cells |-> linPkt[c]]
    /\ phase # "silent" => frame >= 1
    /\ open \/ mpc = "open" => on
    /\ mpc \in Putting => open
    /\ raced => mixed

\* The main loop's packet is what rxBuf holds, and where it is put nobody else puts.
CopyInv ==
    ~mixed =>
        /\ mpc = "data" => pkt = <<data[0]>>
        /\ mpc \in Putting => pkt = [i \in 1..dataIdx |-> data[i - 1]]
        /\ mpc \in {"load", "publish"} => linPkt[putIdx] = pkt
        /\ mpc = "publish" => idx = putIdx

\* What waits in a ring whose host has got frame got.
InOrder(ring, got, limit) ==
    /\ got \in Nat /\ got <= limit
    /\ \A c \in Waiting :
           /\ IsOneFrame(ring[c]) /\ FrameOf(ring[c]) \in 0..limit
           /\ FrameOf(ring[c]) # 0 => FrameOf(ring[c]) > got
    /\ \A c, d \in Waiting :
           Place(d) < Place(c) /\ FrameOf(ring[c]) # 0 => FrameOf(ring[d]) < FrameOf(ring[c])

RingInv == ~mixed => InOrder(linPkt, hostGot, Limit)

----------------------------------------------------------------------------
(* Cells and their places                                                     *)

LEMMA Rounds == RingSize \in Nat /\ RingSize > 1
BY RingSizeAssumption

LEMMA AdvanceLemma ==
    ASSUME NEW i \in Cells
    PROVE  /\ Advance(i, RingSize) = IF i = RingSize - 1 THEN 0 ELSE i + 1
           /\ Advance(i, RingSize) \in Cells
<1>1. Advance(i, RingSize) = IF i = RingSize - 1 THEN 0 ELSE i + 1
  BY Rounds, SMT DEF Advance, Cells
<1> QED BY <1>1, Rounds DEF Cells

LEMMA PlaceLemma ==
    ASSUME IndexInv
    PROVE  /\ Unread \in Cells /\ Place(putIdx) = Unread /\ Place(getIdx) = 0
           /\ \A c \in Cells : /\ Place(c) \in Cells /\ (Place(c) = Unread => c = putIdx)
                               /\ Place(c) = 0 => c = getIdx
           /\ putIdx \notin Waiting /\ Waiting \subseteq Cells
BY Rounds DEF IndexInv, Cells, Unread, Avail, Place, Waiting

\* A Put adds its cell behind all that wait, or empties a ring it overruns.
LEMMA AfterPut ==
    ASSUME IndexInv, putIdx' = Advance(putIdx, RingSize), getIdx' = getIdx
    PROVE  /\ \A c \in Cells : Place(c)' = Place(c)
           /\ Waiting' = {} \/ Waiting' = Waiting \cup {putIdx}
           /\ \A c \in Waiting : Place(c) < Place(putIdx)
<1>1. putIdx' = (IF putIdx = RingSize - 1 THEN 0 ELSE putIdx + 1) /\ putIdx' \in Cells
  BY AdvanceLemma DEF IndexInv
<1>2. \A c \in Cells : Place(c)' = Place(c)
  BY DEF Place
<1>3. Unread' = Unread + 1 \/ Unread' = 0
  BY <1>1, Rounds DEF Unread, Avail, IndexInv, Cells
<1>4. CASE Unread' = 0
  <2>1. ASSUME NEW c \in Cells PROVE ~(Place(c)' < Unread')
    BY <1>2, <1>4, <2>1, PlaceLemma, Rounds DEF Cells
  <2>2. Waiting' = {}
    BY <2>1 DEF Waiting, Cells
  <2> QED BY <1>2, <2>2, PlaceLemma DEF Waiting
<1>5. CASE Unread' = Unread + 1
  <2>1. ASSUME NEW c \in Cells PROVE Place(c)' < Unread' <=> Place(c) < Unread \/ c = putIdx
    BY <1>2, <1>5, <2>1, PlaceLemma, Rounds DEF Cells
  <2>2. Waiting' = Waiting \cup {putIdx}
    BY <2>1 DEF Waiting, Cells, IndexInv
  <2> QED BY <1>2, <2>2, PlaceLemma DEF Waiting
<1> QED BY <1>3, <1>4, <1>5

\* A Get takes the first that waits.
LEMMA AfterGet ==
    ASSUME IndexInv, Unread > 0, getIdx' = Advance(getIdx, RingSize), putIdx' = putIdx
    PROVE  /\ getIdx \in Waiting /\ Waiting' = Waiting \ {getIdx}
           /\ \A c \in Waiting' : Place(c)' = Place(c) - 1 /\ Place(getIdx) < Place(c)
<1>1. getIdx' = (IF getIdx = RingSize - 1 THEN 0 ELSE getIdx + 1) /\ getIdx' \in Cells
  BY AdvanceLemma DEF IndexInv
<1>2. Unread' = Unread - 1
  <2>1. putIdx \in Int /\ getIdx \in Int /\ 0 <= putIdx /\ putIdx < RingSize /\ 0 <= getIdx /\ getIdx < RingSize
    BY Rounds DEF IndexInv, Cells
  <2>2. CASE getIdx = RingSize - 1
    BY <1>1, <2>1, <2>2, Rounds DEF Unread, Avail
  <2>3. CASE getIdx # RingSize - 1
    BY <1>1, <2>1, <2>3, Rounds DEF Unread, Avail
  <2> QED BY <2>2, <2>3
<1>3. ASSUME NEW c \in Cells
      PROVE  Place(c)' = IF c = getIdx THEN RingSize - 1 ELSE Place(c) - 1
  BY <1>1, Rounds DEF Place, Avail, IndexInv, Cells
<1>4. getIdx \in Waiting
  BY PlaceLemma DEF Waiting, IndexInv, Cells
<1>5. ASSUME NEW c \in Cells
      PROVE  Place(c)' < Unread' <=> Place(c) < Unread /\ c # getIdx
  BY <1>2, <1>3, <1>5, PlaceLemma, Rounds DEF Cells
<1>6. Waiting' = Waiting \ {getIdx}
  BY <1>5 DEF Waiting, Cells
<1>7. ASSUME NEW c \in Waiting' PROVE Place(c)' = Place(c) - 1 /\ Place(getIdx) < Place(c)
  <2>1. c \in Cells /\ c # getIdx
    BY <1>6, PlaceLemma
  <2> QED BY <1>3, <2>1, PlaceLemma, Rounds DEF Cells
<1> QED BY <1>4, <1>6, <1>7

LEMMA LimitNat == ASSUME Inv, IndexInv PROVE frame \in Nat /\ Limit \in Nat
BY DEF Inv, TypeInv, IndexInv, Limit, Unsent

LEMMA LimitNatNext == ASSUME Inv', IndexInv' PROVE frame' \in Nat /\ Limit' \in Nat
BY DEF Inv, TypeInv, IndexInv, Limit, Unsent

\* Steps that leave what waits alone, and do not step back in the frames.
LEMMA OrderSame ==
    ASSUME IndexInv, InOrder(linPkt, hostGot, Limit), UNCHANGED <<putIdx, getIdx, hostGot>>,
           \A c \in Waiting : linPkt'[c] = linPkt[c],
           Limit \in Nat, Limit' \in Nat, Limit <= Limit'
    PROVE  InOrder(linPkt, hostGot, Limit)'
<1>1. Waiting' = Waiting /\ \A c \in Waiting : Place(c)' = Place(c)
  BY DEF Waiting, Place, Unread
<1>2. hostGot' \in Nat /\ hostGot' <= Limit'
  BY DEF InOrder
<1>3. ASSUME NEW c \in Waiting
      PROVE  /\ IsOneFrame(linPkt'[c]) /\ FrameOf(linPkt'[c]) \in 0..Limit'
             /\ FrameOf(linPkt'[c]) # 0 => FrameOf(linPkt'[c]) > hostGot'
  <2>1. /\ IsOneFrame(linPkt[c]) /\ FrameOf(linPkt[c]) \in 0..Limit
        /\ FrameOf(linPkt[c]) # 0 => FrameOf(linPkt[c]) > hostGot
    BY Zenon DEF InOrder
  <2>2. linPkt'[c] = linPkt[c] /\ hostGot' = hostGot
    OBVIOUS
  <2>3. FrameOf(linPkt[c]) \in 0..Limit'
    BY <2>1
  <2> QED BY <2>1, <2>2, <2>3
<1>4. ASSUME NEW c \in Waiting, NEW d \in Waiting, Place(d)' < Place(c)', FrameOf(linPkt'[c]) # 0
      PROVE  FrameOf(linPkt'[d]) < FrameOf(linPkt'[c])
  BY <1>1, <1>4, Zenon DEF InOrder
<1> QED BY <1>1, <1>2, <1>3, <1>4 DEF InOrder

\* A Put of one frame newer than all that wait, or of a zero byte alone
LEMMA OrderPut ==
    ASSUME IndexInv, InOrder(linPkt, hostGot, Limit), UNCHANGED <<getIdx, hostGot>>,
           NEW p, linPkt' = [linPkt EXCEPT ![putIdx] = p], putIdx' = Advance(putIdx, RingSize),
           IsOneFrame(p), FrameOf(p) = 0 \/ FrameOf(p) \in (Limit + 1)..Limit',
           Limit \in Nat, Limit' \in Nat, Limit <= Limit'
    PROVE  InOrder(linPkt, hostGot, Limit)'
<1>1. /\ \A c \in Cells : Place(c)' = Place(c)
      /\ Waiting' = {} \/ Waiting' = Waiting \cup {putIdx}
      /\ \A c \in Waiting : Place(c) < Place(putIdx)
  BY AfterPut
<1>2. hostGot' \in Nat /\ hostGot' <= Limit' /\ hostGot <= Limit /\ hostGot \in Nat
  BY DEF InOrder
<1>3. CASE Waiting' = {}
  BY <1>2, <1>3 DEF InOrder
<1>4. CASE Waiting' = Waiting \cup {putIdx}
  <2>1. linPkt'[putIdx] = p /\ \A c \in Waiting : linPkt'[c] = linPkt[c]
    BY PlaceLemma DEF IndexInv
  <2>2. ASSUME NEW c \in Waiting
        PROVE  /\ IsOneFrame(linPkt[c]) /\ FrameOf(linPkt[c]) \in 0..Limit
               /\ FrameOf(linPkt[c]) # 0 => FrameOf(linPkt[c]) > hostGot
    BY Zenon DEF InOrder
  <2>3. ASSUME NEW c \in Waiting'
        PROVE  /\ IsOneFrame(linPkt'[c]) /\ FrameOf(linPkt'[c]) \in 0..Limit'
               /\ FrameOf(linPkt'[c]) # 0 => FrameOf(linPkt'[c]) > hostGot'
    <3>1. CASE c \in Waiting
      <4>1. linPkt'[c] = linPkt[c] /\ hostGot' = hostGot
        BY <2>1, <3>1
      <4>2. FrameOf(linPkt[c]) \in 0..Limit'
        BY <2>2, <3>1
      <4> QED BY <2>2, <3>1, <4>1, <4>2
    <3>2. CASE c = putIdx
      <4>1. FrameOf(p) \in 0..Limit' /\ (FrameOf(p) # 0 => FrameOf(p) > hostGot)
        BY <1>2
      <4> QED BY <2>1, <3>2, <4>1
    <3> QED BY <1>4, <3>1, <3>2
  <2>4. ASSUME NEW c \in Waiting', NEW d \in Waiting', Place(d)' < Place(c)', FrameOf(linPkt'[c]) # 0
        PROVE  FrameOf(linPkt'[d]) < FrameOf(linPkt'[c])
    <3>1. /\ c \in Cells /\ d \in Cells /\ putIdx \in Cells
          /\ Place(c) \in Int /\ Place(d) \in Int /\ Place(putIdx) \in Int
      BY <1>4, PlaceLemma, Rounds DEF IndexInv, Cells
    <3>2. Place(d) < Place(c)
      BY <1>1, <2>4, <3>1
    <3>3. d # putIdx
      <4>1. c = putIdx \/ Place(c) < Place(putIdx)
        BY <1>1, <1>4
      <4> QED BY <3>1, <3>2, <4>1
    <3>4. d \in Waiting
      BY <1>4, <3>3
    <3>5. CASE c \in Waiting
      <4>1. FrameOf(linPkt[d]) < FrameOf(linPkt[c])
        BY <2>1, <2>4, <3>2, <3>4, <3>5, Zenon DEF InOrder
      <4> QED BY <2>1, <3>4, <3>5, <4>1
    <3>6. CASE c = putIdx
      <4>1. FrameOf(p) \in (Limit + 1)..Limit' /\ FrameOf(linPkt[d]) \in 0..Limit
        BY <2>1, <2>2, <2>4, <3>4, <3>6
      <4>2. FrameOf(linPkt[d]) < FrameOf(p)
        BY <4>1
      <4> QED BY <2>1, <3>4, <3>6, <4>2
    <3> QED BY <1>4, <3>5, <3>6
  <2> QED BY <1>2, <2>3, <2>4 DEF InOrder
<1> QED BY <1>1, <1>3, <1>4

\* A Get: the host goes on to the frame it takes.
LEMMA OrderGet ==
    ASSUME IndexInv, InOrder(linPkt, hostGot, Limit), PacketGet, Limit \in Nat, Limit' = Limit
    PROVE  InOrder(linPkt, hostGot, Limit)'
<1> DEFINE f == FrameOf(linPkt[getIdx])
<1>1. /\ getIdx' = Advance(getIdx, RingSize) /\ hostGot' = (IF f = 0 THEN hostGot ELSE f)
      /\ Unread > 0 /\ UNCHANGED <<linPkt, putIdx>>
  BY DEF PacketGet, ringPut
<1>2. /\ getIdx \in Waiting /\ Waiting' = Waiting \ {getIdx}
      /\ \A c \in Waiting' : Place(c)' = Place(c) - 1 /\ Place(getIdx) < Place(c)
  BY <1>1, AfterGet
<1> HIDE DEF f
<1>3. ASSUME NEW c \in Waiting
      PROVE  /\ IsOneFrame(linPkt[c]) /\ FrameOf(linPkt[c]) \in 0..Limit
             /\ FrameOf(linPkt[c]) # 0 => FrameOf(linPkt[c]) > hostGot
  BY Zenon DEF InOrder
<1>4. f \in 0..Limit /\ hostGot \in Nat /\ hostGot <= Limit
  BY <1>2, <1>3 DEF f, InOrder
<1>5. hostGot' \in Nat /\ hostGot' <= Limit'
  BY <1>1, <1>4
<1>6. ASSUME NEW c \in Waiting', NEW d \in Waiting, Place(d) < Place(c), FrameOf(linPkt[c]) # 0
      PROVE  FrameOf(linPkt[d]) < FrameOf(linPkt[c])
  <2>1. c \in Waiting
    BY <1>2
  <2> QED BY <1>6, <2>1, Zenon DEF InOrder
<1>7. ASSUME NEW c \in Waiting'
      PROVE  /\ IsOneFrame(linPkt'[c]) /\ FrameOf(linPkt'[c]) \in 0..Limit'
             /\ FrameOf(linPkt'[c]) # 0 => FrameOf(linPkt'[c]) > hostGot'
  <2>1. c \in Waiting /\ Place(getIdx) < Place(c)
    BY <1>2
  <2>2. FrameOf(linPkt[c]) # 0 => f < FrameOf(linPkt[c])
    BY <1>2, <1>6, <2>1 DEF f
  <2>3. /\ IsOneFrame(linPkt[c]) /\ FrameOf(linPkt[c]) \in 0..Limit
        /\ FrameOf(linPkt[c]) # 0 => FrameOf(linPkt[c]) > hostGot
    BY <1>3, <2>1
  <2> QED BY <1>1, <1>4, <2>2, <2>3
<1>8. ASSUME NEW c \in Waiting', NEW d \in Waiting', Place(d)' < Place(c)', FrameOf(linPkt'[c]) # 0
      PROVE  FrameOf(linPkt'[d]) < FrameOf(linPkt'[c])
  <2>1. d \in Waiting /\ c \in Waiting /\ Place(c)' = Place(c) - 1 /\ Place(d)' = Place(d) - 1
    BY <1>2
  <2>2. Place(c) \in Int /\ Place(d) \in Int
    BY <2>1, PlaceLemma, Rounds DEF Cells
  <2>3. Place(d) < Place(c)
    BY <1>8, <2>1, <2>2
  <2> QED BY <1>1, <1>6, <1>8, <2>1, <2>3
<1> QED BY <1>5, <1>7, <1>8 DEF InOrder

----------------------------------------------------------------------------
(* What the interrupt's functions put                                         *)

Kept(g, r) == g.linPkt = r.linPkt /\ g.putIdx = r.putIdx /\ g.mixed = r.mixed

IsPut(g, r, p) ==
    /\ g.linPkt = [r.linPkt EXCEPT ![r.putIdx] = p] /\ g.putIdx = Advance(r.putIdx, RingSize)
    /\ g.mixed = (r.mixed \/ r.stale)

\* rxBuf with one more byte, if it fits
Extended(r, b) ==
    IF r.dataIdx < BufSize THEN [r EXCEPT !.data[r.dataIdx] = b, !.dataIdx = @ + 1] ELSE r

LEMMA FreshKept == ASSUME NEW r, IsRx(r) PROVE Kept(Fresh(r), r)
<1> DEFINE z == [i \in DOMAIN r.data |-> Zero]
           g == Fresh(r)
<1>1. g = [r EXCEPT !.state = "Idle", !.dataIdx = 0, !.data = z, !.stale = FALSE]
  BY DEF Fresh, IsRx
<1> HIDE DEF g, z
<1> QED BY <1>1 DEF Kept, IsRx, g

LEMMA CompletePut ==
    ASSUME NEW r, IsRx(r)
    PROVE  IF r.state = "Data" /\ r.dataIdx >= 1 /\ open
           THEN IsPut(RxComplete(r), r, Packet(r)) ELSE Kept(RxComplete(r), r)
<1>1. CASE ~(r.state = "Data" /\ r.dataIdx >= 1)
  BY <1>1 DEF RxComplete, Kept
<1>2. CASE r.state = "Data" /\ r.dataIdx >= 1 /\ ~open
  BY <1>2, FreshKept DEF RxComplete, PacketReceived
<1>3. CASE r.state = "Data" /\ r.dataIdx >= 1 /\ open
  <2> DEFINE q == Packet(r)
             u == r.due \ {FrameOf(q)}
             p == PacketReceived(r)
  <2> HIDE DEF q, u
  <2>1. p = [r EXCEPT !.linPkt = [r.linPkt EXCEPT ![r.putIdx] = q], !.putIdx = Advance(r.putIdx, RingSize),
                      !.due = u, !.mixed = (r.mixed \/ r.stale)]
    BY <1>3 DEF PacketReceived, IsRx, q, u
  <2> HIDE DEF p
  <2>2. IsRx(p) /\ IsPut(p, r, q)
    BY <2>1 DEF IsRx, IsPut
  <2>3. RxComplete(r) = Fresh(p)
    BY <1>3 DEF RxComplete, p
  <2>4. Kept(Fresh(p), p)
    BY <2>2, FreshKept
  <2> QED BY <1>3, <2>2, <2>3, <2>4 DEF IsPut, Kept, q
<1> QED BY <1>1, <1>2, <1>3

LEMMA ExtendedLemma ==
    ASSUME NEW r, IsRx(r), NEW b \in Byte
    PROVE  LET k == Extended(r, b)
           IN  /\ IsRx(k) /\ Kept(k, r) /\ k.state = r.state /\ k.stale = r.stale /\ k.dataIdx >= 1
               /\ r.dataIdx < BufSize => /\ k.dataIdx = r.dataIdx + 1
                                         /\ k.data = [r.data EXCEPT ![r.dataIdx] = b]
               /\ r.dataIdx = BufSize => k = r
               /\ r.dataIdx \in 0..BufSize
<1> DEFINE k == Extended(r, b)
           d == [r.data EXCEPT ![r.dataIdx] = b]
<1>1. r.dataIdx \in 0..BufSize /\ r.data \in Buffer
  BY DEF IsRx
<1>2. CASE r.dataIdx < BufSize
  <2>1. k = [r EXCEPT !.data = d, !.dataIdx = r.dataIdx + 1]
    BY <1>2 DEF Extended, IsRx
  <2>2. d \in Buffer /\ r.dataIdx + 1 \in 0..BufSize /\ r.dataIdx + 1 >= 1 /\ r.dataIdx # BufSize
    BY <1>1, <1>2, Sizes DEF Buffer
  <2> HIDE DEF k, d
  <2>3. /\ k.state = r.state /\ k.stale = r.stale /\ k.dataIdx = r.dataIdx + 1 /\ k.data = d
        /\ Kept(k, r) /\ IsRx(k)
    BY <2>1, <2>2 DEF IsRx, Kept
  <2> QED BY <1>1, <1>2, <2>2, <2>3 DEF k, d
<1>3. CASE ~(r.dataIdx < BufSize)
  <2>1. k = r /\ r.dataIdx = BufSize /\ r.dataIdx >= 1
    BY <1>1, <1>3, Sizes DEF Extended
  <2> HIDE DEF k
  <2> QED BY <1>1, <1>3, <2>1 DEF Kept, k
<1> QED BY <1>2, <1>3

\* A byte is added, or ends a full buffer, which is put.
LEMMA DataPut ==
    ASSUME NEW r, IsRx(r), NEW b \in Byte
    PROVE  LET g == RxData(r, b)
               k == Extended(r, b)
           IN  \/ Kept(g, r) /\ (r.state = "Data" /\ open => g = k)
               \/ r.state = "Data" /\ open /\ g.state = "Idle" /\ IsRx(g) /\ IsPut(g, r, Packet(k))
<1> DEFINE k == Extended(r, b)
           g == RxData(r, b)
<1>1. CASE r.state = "Break" /\ b = Sync
  <2>1. g = [r EXCEPT !.state = "Data"]
    BY <1>1 DEF RxData
  <2> HIDE DEF g, k
  <2> QED BY <1>1, <2>1 DEF IsRx, Kept, g
<1>2. CASE r.state # "Data" /\ ~(r.state = "Break" /\ b = Sync)
  <2>1. g = Fresh(r)
    BY <1>2 DEF RxData
  <2> HIDE DEF g, k
  <2> QED BY <1>2, <2>1, FreshKept DEF g
<1>3. CASE r.state = "Data"
  <2>1. g = IF k.dataIdx = BufSize THEN RxComplete(k) ELSE k
    BY <1>3 DEF RxData, Extended
  <2>2. IsRx(k) /\ Kept(k, r) /\ k.state = "Data" /\ k.stale = r.stale /\ k.dataIdx >= 1
    BY <1>3, ExtendedLemma
  <2> HIDE DEF g, k
  <2>3. CASE k.dataIdx # BufSize
    BY <2>1, <2>2, <2>3 DEF g, k
  <2>4. CASE k.dataIdx = BufSize /\ ~open
    <3>1. g = RxComplete(k) /\ Kept(RxComplete(k), k)
      BY <2>1, <2>2, <2>4, CompletePut
    <3> QED BY <2>2, <2>4, <3>1 DEF Kept, g
  <2>5. CASE k.dataIdx = BufSize /\ open
    <3>1. g = RxComplete(k) /\ IsPut(g, k, Packet(k)) /\ IsRx(g) /\ g.state = "Idle"
      BY <2>1, <2>2, <2>5, CompletePut, CompleteLemma
    <3>2. IsPut(g, r, Packet(k))
      BY <2>2, <3>1 DEF IsPut, Kept
    <3> QED BY <1>3, <2>5, <3>1, <3>2 DEF g, k
  <2> QED BY <2>3, <2>4, <2>5
<1> QED BY <1>1, <1>2, <1>3

\* rxError and rxBreak put what rxComplete puts.
LEMMA EndPut ==
    ASSUME NEW r, IsRx(r), NEW g \in {RxError(r), RxBreak(r), RxBreak(RxError(r))}
    PROVE  IF r.state = "Data" /\ r.dataIdx >= 1 /\ open THEN IsPut(g, r, Packet(r)) ELSE Kept(g, r)
<1> DEFINE c == RxComplete(r)
           e == Fresh(c)
           f == RxComplete(e)
<1>1. IsRx(c) /\ IsRx(e) /\ Kept(e, c) /\ e.state = "Idle"
  BY CompleteHeld, CompleteLemma, FreshLemma, FreshKept DEF IsFresh
<1>2. RxError(r) = e /\ RxBreak(r) = [e EXCEPT !.state = "Break"]
      /\ RxBreak(e) = [Fresh(f) EXCEPT !.state = "Break"]
  BY DEF RxError, RxBreak
<1> HIDE DEF e
<1>3. f = e
  BY <1>1, CompleteLemma
<1> HIDE DEF c, f
<1>4. IsRx(Fresh(f)) /\ Kept(Fresh(f), e)
  BY <1>1, <1>3, FreshLemma, FreshKept DEF IsFresh
<1>5. Kept(g, c)
  <2>1. CASE g = RxError(r)
    BY <1>1, <1>2, <2>1
  <2>2. CASE g = RxBreak(r)
    BY <1>1, <1>2, <2>2 DEF IsRx, Kept
  <2>3. CASE g = RxBreak(RxError(r))
    <3>1. g = [Fresh(f) EXCEPT !.state = "Break"]
      BY <1>2, <2>3
    <3> QED BY <1>1, <1>4, <3>1 DEF IsRx, Kept
  <2> QED BY <2>1, <2>2, <2>3
<1>6. IF r.state = "Data" /\ r.dataIdx >= 1 /\ open THEN IsPut(c, r, Packet(r)) ELSE Kept(c, r)
  BY CompletePut DEF c
<1> QED BY <1>5, <1>6 DEF IsPut, Kept

\* A break or an error: the zero it reads as first, then what rxComplete puts
LEMMA CutPut ==
    ASSUME NEW r, IsRx(r),
           NEW g \in {RxError(RxData(r, Zero)), RxBreak(RxError(RxData(r, Zero)))}
    PROVE  \/ Kept(g, r)
           \/ r.state = "Data" /\ open /\ IsPut(g, r, Packet(Extended(r, Zero)))
<1> DEFINE d == RxData(r, Zero)
           k == Extended(r, Zero)
<1>1. \/ Kept(d, r) /\ (r.state = "Data" /\ open => d = k)
      \/ r.state = "Data" /\ open /\ d.state = "Idle" /\ IsRx(d) /\ IsPut(d, r, Packet(k))
  BY DataPut, ByteLemma
<1>2. IsRx(d) /\ (r.state # "Data" => d.state # "Data")
  <2>1. Zero # Sync
    BY DEF Zero, Sync
  <2>2. IsRx(d) /\ DataOutcome(d, r, Zero)
    BY DataLemma, ByteLemma
  <2> HIDE DEF d
  <2> QED BY <2>1, <2>2 DEF DataOutcome
<1>3. IsRx(k) /\ Kept(k, r) /\ k.state = r.state /\ k.stale = r.stale /\ k.dataIdx >= 1
  BY ExtendedLemma, ByteLemma
<1> HIDE DEF d, k
<1>4. IF d.state = "Data" /\ d.dataIdx >= 1 /\ open THEN IsPut(g, d, Packet(d)) ELSE Kept(g, d)
  <2>1. g \in {RxError(d), RxBreak(d), RxBreak(RxError(d))}
    BY DEF d
  <2> QED BY <1>2, <2>1, EndPut
<1>5. CASE Kept(d, r) /\ r.state = "Data" /\ open
  BY <1>1, <1>2, <1>3, <1>4, <1>5 DEF Kept, IsPut, k
<1>6. CASE Kept(d, r) /\ ~(r.state = "Data" /\ open)
  BY <1>2, <1>4, <1>6 DEF Kept
<1>7. CASE r.state = "Data" /\ open /\ d.state = "Idle" /\ IsPut(d, r, Packet(k))
  BY <1>4, <1>7 DEF Kept, IsPut, k
<1> QED BY <1>1, <1>5, <1>6, <1>7

----------------------------------------------------------------------------
(* The steps of the bus                                                       *)

LEMMA OneFrame ==
    ASSUME NEW n \in Nat, n >= 1, NEW f \in Nat, f >= 1, NEW d,
           \A i \in 0..(n - 2) : d[i] = <<f, i>>, d[n - 1] \in {Zero, <<f, n - 1>>}
    PROVE  LET p == [i \in 1..n |-> d[i - 1]] IN IsOneFrame(p) /\ FrameOf(p) \in {0, f}
<1> DEFINE p == [i \in 1..n |-> d[i - 1]]
<1>1. /\ p # <<>> /\ Len(p) = n /\ p[1] = d[0] /\ \A i \in 1..n : p[i] = d[i - 1]
  <2>1. 1 \in 1..n /\ 1 - 1 = 0
    OBVIOUS
  <2>2. Len(p) = n
    OBVIOUS
  <2>3. p # <<>>
    BY <2>2
  <2> QED BY <2>1, <2>2, <2>3
<1>2. /\ n = 1 => d[0] \in {Zero, <<f, 0>>}
      /\ n # 1 => d[0] = <<f, 0>>
  <2>1. n = 1 => n - 1 = 0
    OBVIOUS
  <2>2. n # 1 => 0 \in 0..(n - 2)
    OBVIOUS
  <2> QED BY <2>1, <2>2
<1> HIDE DEF p
<1>3. <<f, 0>> # Zero
  BY DEF Zero
<1>4. FrameOf(p) = d[0][1] /\ Zero[1] = 0 /\ Zero[2] = 0
  BY <1>1 DEF FrameOf, Zero
<1>5. FrameOf(p) \in {0, f} /\ (n # 1 => FrameOf(p) = f)
  BY <1>2, <1>4
<1>6. p[1][2] = 0 /\ (p[1] = Zero => Len(p) = 1)
  BY <1>1, <1>2, <1>3, <1>4
<1>7. ASSUME NEW i \in 2..Len(p) PROVE p[i] = <<FrameOf(p), i - 1>> \/ (i = Len(p) /\ p[i] = Zero)
  <2>1. n # 1 /\ i \in 1..n /\ i - 1 \in 0..(n - 1) /\ (i # n => i - 1 \in 0..(n - 2))
    BY <1>1
  <2>2. p[i] = d[i - 1] /\ FrameOf(p) = f
    BY <1>1, <1>5, <2>1
  <2>3. CASE i = n
    BY <1>1, <2>2, <2>3
  <2>4. CASE i # n
    BY <2>1, <2>2, <2>4
  <2> QED BY <2>3, <2>4
<1> QED BY <1>1, <1>5, <1>6, <1>7 DEF IsOneFrame, p

\* The packet of a frame received from its beginning and one byte more
LEMMA ExtendedFrame ==
    ASSUME NEW r, IsRx(r), NEW f \in Nat, f >= 1, \A i \in 0..(r.dataIdx - 1) : r.data[i] = <<f, i>>,
           NEW b \in {Zero, <<f, r.dataIdx>>}
    PROVE  LET p == Packet(Extended(r, b)) IN IsOneFrame(p) /\ FrameOf(p) \in {0, f}
<1> DEFINE k == Extended(r, b)
           n == k.dataIdx
           d == k.data
<1>1. b \in Byte /\ r.dataIdx \in 0..BufSize /\ r.data \in Buffer
  BY ByteLemma DEF IsRx, Byte
<1>2. /\ IsRx(k) /\ k.dataIdx >= 1
      /\ r.dataIdx < BufSize => /\ k.dataIdx = r.dataIdx + 1
                                /\ k.data = [r.data EXCEPT ![r.dataIdx] = b]
      /\ r.dataIdx = BufSize => k = r
  BY <1>1, ExtendedLemma
<1> HIDE DEF k
<1>3. n \in Nat /\ n >= 1
  BY <1>2, Sizes DEF IsRx
<1>4. (\A i \in 0..(n - 2) : d[i] = <<f, i>>) /\ d[n - 1] \in {Zero, <<f, n - 1>>}
  <2>1. CASE r.dataIdx < BufSize
    <3>1. n = r.dataIdx + 1 /\ n - 1 = r.dataIdx /\ n - 2 = r.dataIdx - 1 /\ r.dataIdx \in 0..(BufSize - 1)
      BY <1>1, <1>2, <2>1, Sizes
    <3>2. d = [r.data EXCEPT ![r.dataIdx] = b]
      BY <1>2, <2>1
    <3>3. d[r.dataIdx] = b
      BY <1>1, <3>1, <3>2 DEF Buffer
    <3>4. ASSUME NEW i \in 0..(r.dataIdx - 1) PROVE d[i] = <<f, i>>
      <4>1. i # r.dataIdx /\ i \in 0..(BufSize - 1)
        BY <3>1, Sizes
      <4> QED BY <1>1, <3>2, <4>1 DEF Buffer
    <3> HIDE DEF n, d
    <3> QED BY <3>1, <3>3, <3>4
  <2>2. CASE r.dataIdx = BufSize
    <3>1. k = r /\ n = BufSize
      BY <1>2, <2>2
    <3>2. n - 1 \in 0..(r.dataIdx - 1) /\ \A i \in 0..(n - 2) : i \in 0..(r.dataIdx - 1)
      BY <2>2, <3>1, Sizes
    <3>3. ASSUME NEW i \in 0..(r.dataIdx - 1) PROVE d[i] = <<f, i>>
      BY <3>1
    <3> HIDE DEF n, d
    <3> QED BY <3>2, <3>3
  <2> QED BY <1>1, <2>1, <2>2, Sizes
<1>5. Packet(k) = [i \in 1..n |-> d[i - 1]]
  BY DEF Packet
<1> HIDE DEF n, d
<1>6. LET p == [i \in 1..n |-> d[i - 1]] IN IsOneFrame(p) /\ FrameOf(p) \in {0, f}
  BY <1>3, <1>4, OneFrame
<1> QED BY <1>5, <1>6 DEF k

\* rxBuf before the interrupt adds to it, in a frame received from its beginning
LEMMA BusFrame ==
    ASSUME Inv, IndexInv, on, ~stale, state = "Data", mpc \notin Completing
    PROVE  /\ phase = "bytes" /\ dataIdx = pos /\ frame >= 1 /\ Limit = frame - 1 /\ frame \in Nat
           /\ \A i \in 0..(dataIdx - 1) : data[i] = <<frame, i>>
<1>1. phase = "bytes" /\ dataIdx = pos /\ (\A i \in 0..(dataIdx - 1) : data[i] = <<frame, i>>)
  BY DEF Inv, ShapeInv
<1>2. mpc # "reset"
  BY DEF Completing
<1> QED BY <1>1, <1>2 DEF Inv, TypeInv, IndexInv, Limit, Unsent

RingVarsInv == IndexInv /\ CopyInv /\ RingInv

\* An interrupt that keeps the ring, or puts one packet of a frame that is newer
LEMMA HearRing ==
    ASSUME Inv, Inv', RingVarsInv, NEW r, Hear(r), UNCHANGED <<on, open, getIdx, hostGot, mpc, pkt, len, idx>>,
           phase' # "silent" => frame' >= 1,
           ~mixed' => Limit <= Limit',
           \/ Kept(r, rx)
           \/ \E p : /\ open /\ IsPut(r, rx, p)
                     /\ on /\ ~stale /\ mpc \notin Completing =>
                           IsOneFrame(p) /\ (FrameOf(p) = 0 \/ FrameOf(p) \in (Limit + 1)..Limit')
    PROVE  RingVarsInv'
<1>1. rx.linPkt = linPkt /\ rx.putIdx = putIdx /\ rx.mixed = mixed /\ rx.stale = stale
  BY DEF rx
<1>2. CASE ~on
  <2>1. UNCHANGED <<state, dataIdx, data, linPkt, putIdx, due, stale, raced, mixed>>
    BY <1>2 DEF Hear, rxBuf, ringPut, history
  <2>2. IndexInv'
    BY <2>1 DEF RingVarsInv, IndexInv
  <2>3. CopyInv'
    BY <2>1 DEF RingVarsInv, CopyInv
  <2>4. RingInv'
    <3> SUFFICES ASSUME ~mixed' PROVE InOrder(linPkt, hostGot, Limit)'
      BY DEF RingInv
    <3>1. InOrder(linPkt, hostGot, Limit) /\ Limit \in Nat /\ Limit' \in Nat
      BY <2>1, <2>2, LimitNat, LimitNatNext DEF RingVarsInv, RingInv
    <3> QED BY <2>1, <3>1, OrderSame DEF RingVarsInv
  <2> QED BY <2>2, <2>3, <2>4 DEF RingVarsInv
<1>3. CASE on
  <2>1. /\ linPkt' = r.linPkt /\ putIdx' = r.putIdx /\ raced' = (raced \/ mpc \in Completing)
        /\ mixed' = (r.mixed \/ raced')
    BY <1>3 DEF Hear
  <2>2. IndexInv'
    <3>1. putIdx' \in Cells /\ linPkt' = [c \in Cells |-> linPkt'[c]]
      <4>1. CASE Kept(r, rx)
        BY <1>1, <2>1, <4>1 DEF Kept, RingVarsInv, IndexInv
      <4>2. ASSUME NEW p, IsPut(r, rx, p) PROVE putIdx' \in Cells /\ linPkt' = [c \in Cells |-> linPkt'[c]]
        <5>1. linPkt' = [linPkt EXCEPT ![putIdx] = p] /\ putIdx' = Advance(putIdx, RingSize)
          BY <1>1, <2>1, <4>2 DEF IsPut
        <5>2. putIdx' \in Cells
          BY <5>1, AdvanceLemma DEF RingVarsInv, IndexInv
        <5> QED BY <5>1, <5>2 DEF RingVarsInv, IndexInv
      <4> QED BY <4>1, <4>2
    <3>2. raced' => mixed'
      BY <2>1
    <3> QED BY <3>1, <3>2 DEF RingVarsInv, IndexInv
  <2>3. ~mixed' => mpc \notin Completing /\ ~r.mixed /\ ~mixed
    <3>1. r.mixed \/ ~mixed
      BY <1>1 DEF Kept, IsPut
    <3> QED BY <2>1, <3>1
  <2>4. CopyInv'
    <3>1. ~mixed' => mpc' # "data" /\ mpc' \notin Putting
      BY <2>3 DEF Completing, Putting
    <3>2. ~mixed' => mpc' # "publish" /\ mpc' \notin {"load", "publish"}
      BY <3>1 DEF Putting
    <3> QED BY <3>1, <3>2 DEF CopyInv
  <2>5. RingInv'
    <3> SUFFICES ASSUME ~mixed' PROVE InOrder(linPkt, hostGot, Limit)'
      BY DEF RingInv
    <3>1. /\ InOrder(linPkt, hostGot, Limit) /\ Limit \in Nat /\ Limit' \in Nat /\ Limit <= Limit' /\ IndexInv
          /\ mpc \notin Completing /\ ~r.mixed
      BY <2>2, <2>3, LimitNat, LimitNatNext DEF RingVarsInv, RingInv
    <3>2. CASE Kept(r, rx)
      <4>1. UNCHANGED <<linPkt, putIdx, getIdx, hostGot>>
        BY <1>1, <2>1, <3>2 DEF Kept
      <4> QED BY <3>1, <4>1, OrderSame
    <3>3. ASSUME NEW p, IsPut(r, rx, p),
                 on /\ ~stale /\ mpc \notin Completing =>
                           IsOneFrame(p) /\ (FrameOf(p) = 0 \/ FrameOf(p) \in (Limit + 1)..Limit')
          PROVE  InOrder(linPkt, hostGot, Limit)'
      <4>1. linPkt' = [linPkt EXCEPT ![putIdx] = p] /\ putIdx' = Advance(putIdx, RingSize) /\ ~stale
        BY <1>1, <2>1, <3>1, <3>3 DEF IsPut
      <4>2. IsOneFrame(p) /\ (FrameOf(p) = 0 \/ FrameOf(p) \in (Limit + 1)..Limit')
        BY <1>3, <3>1, <3>3, <4>1
      <4> QED BY <3>1, <4>1, <4>2, OrderPut
    <3> QED BY <3>2, <3>3
  <2> QED BY <2>2, <2>4, <2>5 DEF RingVarsInv
<1> QED BY <1>2, <1>3 DEF Inv, TypeInv

LEMMA BreakRing == ASSUME Inv, Inv', RingVarsInv, BusBreak PROVE RingVarsInv'
<1>1. PICK r : Hear(r) /\ r \in {RxError(RxData(rx, Zero)), RxBreak(RxError(RxData(rx, Zero)))}
  BY DEF BusBreak
<1>2. /\ UNCHANGED <<on, open, getIdx, hostGot, mpc, pkt, len, idx>>
      /\ \/ frame' = frame + 1 /\ phase' \in {"break", "sync"}
         \/ frame' = frame /\ phase' = "silent"
  BY DEF BusBreak, setVars, mainVars
<1>3. frame \in Nat /\ Limit \in Nat /\ Limit <= frame /\ Limit' = frame
  <2>1. frame \in Nat /\ Limit \in Nat
    BY LimitNat DEF RingVarsInv
  <2> QED BY <1>2, <2>1 DEF Limit, Unsent
<1>4. phase' # "silent" => frame' >= 1
  BY <1>2, <1>3
<1>5. IsRx(rx) /\ rx.state = state /\ rx.dataIdx = dataIdx /\ rx.data = data
  BY RxOf
<1>6. \/ Kept(r, rx)
      \/ state = "Data" /\ open /\ IsPut(r, rx, Packet(Extended(rx, Zero)))
  BY <1>1, <1>5, CutPut
<1>7. ASSUME on, ~stale, mpc \notin Completing, state = "Data"
      PROVE  LET p == Packet(Extended(rx, Zero))
             IN  IsOneFrame(p) /\ (FrameOf(p) = 0 \/ FrameOf(p) \in (Limit + 1)..Limit')
  <2>1. frame >= 1 /\ Limit = frame - 1 /\ \A i \in 0..(dataIdx - 1) : data[i] = <<frame, i>>
    BY <1>7, BusFrame DEF RingVarsInv
  <2>2. LET p == Packet(Extended(rx, Zero)) IN IsOneFrame(p) /\ FrameOf(p) \in {0, frame}
    BY <1>3, <1>5, <2>1, ExtendedFrame
  <2>3. frame \in (Limit + 1)..Limit'
    BY <1>3, <2>1
  <2> QED BY <2>2, <2>3
<1> DEFINE q == Packet(Extended(rx, Zero))
<1>8. on /\ ~stale /\ mpc \notin Completing /\ state = "Data" =>
          IsOneFrame(q) /\ (FrameOf(q) = 0 \/ FrameOf(q) \in (Limit + 1)..Limit')
  BY <1>7
<1>9. Kept(r, rx) \/ (state = "Data" /\ open /\ IsPut(r, rx, q))
  BY <1>6
<1>10. Hear(r) /\ Limit <= Limit'
  BY <1>1, <1>3
<1> HIDE DEF q
<1> QED BY <1>2, <1>4, <1>8, <1>9, <1>10, HearRing

LEMMA BreakEndRing == ASSUME Inv, Inv', RingVarsInv, BusBreakEnd PROVE RingVarsInv'
<1> DEFINE r == RxBreak(rx)
           q == Packet(rx)
<1>1. /\ Hear(r) /\ phase = "break" /\ phase' = "sync"
      /\ UNCHANGED <<on, open, getIdx, hostGot, mpc, pkt, len, idx, frame, pos>>
  BY DEF BusBreakEnd, setVars, mainVars
<1>2. Limit' = Limit /\ Limit \in Nat /\ frame >= 1
  BY <1>1, LimitNat DEF Limit, Unsent, RingVarsInv, IndexInv
<1>3. IsRx(rx) /\ rx.state = state /\ rx.dataIdx = dataIdx
  BY RxOf
<1>4. IF state = "Data" /\ dataIdx >= 1 /\ open THEN IsPut(r, rx, q) ELSE Kept(r, rx)
  BY <1>3, EndPut
<1>5. ~(on /\ ~stale /\ state = "Data")
  BY <1>1 DEF Inv, ShapeInv
<1>6. Hear(r)
  BY <1>1
<1> HIDE DEF r, q
<1> QED BY <1>1, <1>2, <1>4, <1>5, <1>6, HearRing

LEMMA SyncRing == ASSUME Inv, Inv', RingVarsInv, BusSync PROVE RingVarsInv'
<1>1. PICK b \in {Sync, Zero} : Hear(RxData(rx, b))
  BY DEF BusSync
<1> DEFINE r == RxData(rx, b)
           q == Packet(Extended(rx, b))
<1>2. /\ UNCHANGED <<on, open, getIdx, hostGot, mpc, pkt, len, idx, frame, pos>>
      /\ phase = "sync" /\ phase' \in {"bytes", "silent"} /\ pos = 0
  BY DEF BusSync, setVars, mainVars, Inv, TypeInv
<1>3. frame \in Nat /\ Limit \in Nat /\ frame >= 1
  BY <1>2, LimitNat DEF RingVarsInv, IndexInv
<1>4. Limit <= Limit'
  BY <1>2, <1>3 DEF Limit, Unsent
<1>5. IsRx(rx) /\ rx.state = state
  BY RxOf
<1>6. Kept(r, rx) \/ (state = "Data" /\ open /\ IsPut(r, rx, q))
  BY <1>5, ByteLemma, DataPut
<1>7. ~(on /\ ~stale /\ state = "Data")
  BY <1>2 DEF Inv, ShapeInv
<1>8. Hear(r)
  BY <1>1
<1> HIDE DEF r, q
<1> QED BY <1>2, <1>3, <1>4, <1>6, <1>7, <1>8, HearRing

LEMMA ByteRing == ASSUME Inv, Inv', RingVarsInv, BusByte PROVE RingVarsInv'
<1> DEFINE h == [rx EXCEPT !.due = due \cup (IF ear THEN {frame} ELSE {})]
           b == <<frame, pos>>
           r == RxData(h, b)
           q == Packet(Extended(h, b))
<1>1. /\ phase = "bytes" /\ pos' = pos + 1
      /\ UNCHANGED <<on, open, getIdx, hostGot, mpc, pkt, len, idx, frame, phase>>
  BY DEF BusByte, setVars, mainVars
<1>2. Hear(r)
  BY DEF BusByte, rx
<1>3. frame \in Nat /\ Limit \in Nat /\ frame >= 1 /\ pos \in Nat /\ b \in Byte
  BY <1>1, LimitNat, ByteLemma DEF RingVarsInv, IndexInv, Inv, TypeInv
<1>4. /\ IsRx(h) /\ h.state = state /\ h.dataIdx = dataIdx /\ h.data = data /\ Kept(h, rx) /\ h.stale = rx.stale
  BY RxOf DEF IsRx, Kept
<1> HIDE DEF h
<1>5. \/ Kept(r, h)
      \/ state = "Data" /\ open /\ r.state = "Idle" /\ IsPut(r, h, q)
  BY <1>3, <1>4, DataPut
<1>6. r.state = "Data" => state = "Data"
  <2>1. b # Sync
    BY <1>3 DEF Sync
  <2>2. DataOutcome(r, h, b)
    BY <1>3, <1>4, DataLemma
  <2> HIDE DEF r
  <2> QED BY <1>4, <2>1, <2>2 DEF DataOutcome
<1> HIDE DEF r
<1>7. on => state' = r.state
  BY <1>2 DEF Hear
<1>8. ~on => state' = state
  BY <1>2 DEF Hear, rxBuf
<1>9. Limit <= Limit' /\ (state' # "Data" => Limit' = frame)
  <2>1. pos' # 0
    BY <1>1, <1>3
  <2>2. state' = "Data" => state = "Data"
    BY <1>6, <1>7, <1>8 DEF Inv, TypeInv
  <2> QED BY <1>1, <1>3, <2>1, <2>2 DEF Limit, Unsent
<1>10. ASSUME on, ~stale, mpc \notin Completing, state = "Data", r.state = "Idle"
       PROVE  IsOneFrame(q) /\ (FrameOf(q) = 0 \/ FrameOf(q) \in (Limit + 1)..Limit')
  <2>1. frame >= 1 /\ Limit = frame - 1 /\ dataIdx = pos /\ \A i \in 0..(dataIdx - 1) : data[i] = <<frame, i>>
    BY <1>10, BusFrame DEF RingVarsInv
  <2>2. IsOneFrame(q) /\ FrameOf(q) \in {0, frame}
    BY <1>3, <1>4, <2>1, ExtendedFrame
  <2>3. Limit' = frame
    BY <1>7, <1>9, <1>10
  <2>4. frame \in (Limit + 1)..Limit'
    BY <1>3, <2>1, <2>3
  <2> QED BY <2>2, <2>4
<1>11. Kept(r, rx) \/ (state = "Data" /\ open /\ r.state = "Idle" /\ IsPut(r, rx, q))
  BY <1>4, <1>5 DEF Kept, IsPut
<1> HIDE DEF q
<1> QED BY <1>1, <1>2, <1>3, <1>9, <1>10, <1>11, HearRing

----------------------------------------------------------------------------
(* The steps of the main loop                                                 *)

\* Steps that leave the ring and mixed alone
LEMMA AsideRing ==
    ASSUME Inv, Inv', RingVarsInv, UNCHANGED <<linPkt, putIdx, getIdx, hostGot, mixed, raced, phase, frame, pos>>,
           Unsent' => Unsent, idx' \in Cells, CopyInv',
           open' \/ mpc' = "open" => on', mpc' \in Putting => open'
    PROVE  RingVarsInv'
<1>1. IndexInv'
  BY DEF RingVarsInv, IndexInv
<1>2. Limit \in Nat /\ Limit' \in Nat /\ frame \in Nat
  BY <1>1, LimitNat, LimitNatNext DEF RingVarsInv
<1>3. Limit <= Limit'
  <2>1. CASE Unsent'
    BY <1>2, <2>1 DEF Limit
  <2>2. CASE ~Unsent'
    BY <1>2, <2>2 DEF Limit
  <2> QED BY <2>1, <2>2
<1>4. RingInv'
  BY <1>2, <1>3, OrderSame DEF RingVarsInv, RingInv
<1> QED BY <1>1, <1>4 DEF RingVarsInv

LEMMA QuietRing ==
    ASSUME Inv, Inv', RingVarsInv, Tick \/ CheckTimeout \/ CompleteCheck \/ UNCHANGED vars
    PROVE  RingVarsInv'
<1>1. /\ UNCHANGED <<linPkt, putIdx, getIdx, hostGot, mixed, raced, state, dataIdx, data, phase, frame, pos>>
      /\ UNCHANGED <<idx, on, open, pkt>>
      /\ mpc' = mpc \/ (mpc \in {"idle", "check"} /\ mpc' \in {"idle", "check", "id"})
  BY DEF Tick, CheckTimeout, CompleteCheck, vars, setVars, rxBuf, ringPut, mainVars, busVars, history
<1>2. Unsent' => Unsent
  BY <1>1 DEF Unsent
<1>3. CopyInv'
  BY <1>1 DEF RingVarsInv, CopyInv, Putting
<1>4. idx' \in Cells /\ (open' \/ mpc' = "open" => on') /\ (mpc' \in Putting => open')
  BY <1>1 DEF RingVarsInv, IndexInv, Putting
<1> QED BY <1>1, <1>2, <1>3, <1>4, AsideRing

LEMMA CommandRing ==
    ASSUME Inv, Inv', RingVarsInv, OpenBus \/ OpenSettings \/ Close \/ Handshake
    PROVE  RingVarsInv'
<1>1. /\ UNCHANGED <<linPkt, putIdx, getIdx, hostGot, mixed, raced, state, dataIdx, data, phase, frame, pos, idx>>
      /\ mpc \in {"idle", "open"} /\ mpc' \in {"idle", "open"}
  BY DEF OpenBus, OpenSettings, Close, Handshake, rxBuf, ringPut, mainVars, busVars, history
<1>2. Unsent' => Unsent
  BY <1>1 DEF Unsent
<1>3. CopyInv'
  BY <1>1 DEF CopyInv, Putting
<1>4. open' \/ mpc' = "open" => on'
  <2>1. CASE OpenBus
    BY <2>1 DEF OpenBus
  <2>2. CASE OpenSettings
    BY <2>2 DEF OpenSettings, RingVarsInv, IndexInv
  <2>3. CASE Close \/ Handshake
    BY <2>3 DEF Close, Handshake, mainVars
  <2> QED BY <2>1, <2>2, <2>3
<1>5. idx' \in Cells /\ mpc' \notin Putting
  BY <1>1 DEF RingVarsInv, IndexInv, Putting
<1> QED BY <1>1, <1>2, <1>3, <1>4, <1>5, AsideRing

LEMMA GetRing == ASSUME Inv, Inv', RingVarsInv, PacketGet PROVE RingVarsInv'
<1>1. /\ UNCHANGED <<linPkt, putIdx, mixed, raced, state, dataIdx, data, phase, frame, pos, idx, mpc, on, open>>
      /\ mpc = "idle" /\ getIdx' = Advance(getIdx, RingSize)
  BY DEF PacketGet, setVars, rxBuf, ringPut, mainVars, busVars, history
<1>2. IndexInv'
  <2>1. getIdx' \in Cells
    BY <1>1, AdvanceLemma DEF RingVarsInv, IndexInv
  <2> QED BY <1>1, <2>1 DEF RingVarsInv, IndexInv
<1>3. CopyInv'
  BY <1>1 DEF CopyInv, Putting
<1>4. Limit \in Nat /\ Limit' = Limit
  BY <1>1, LimitNat DEF RingVarsInv, Limit, Unsent
<1>5. RingInv'
  BY <1>1, <1>4, OrderGet DEF RingVarsInv, RingInv
<1> QED BY <1>2, <1>3, <1>5 DEF RingVarsInv

LEMMA CopyRing == ASSUME Inv, Inv', RingVarsInv, CompleteId \/ CompleteData PROVE RingVarsInv'
<1>1. /\ UNCHANGED <<linPkt, putIdx, getIdx, hostGot, mixed, raced, state, dataIdx, data, phase, frame, pos>>
      /\ UNCHANGED <<idx, on, open, len>>
  BY DEF CompleteId, CompleteData, setVars, rxBuf, ringPut, busVars, history
<1>2. CASE CompleteId
  <2>1. mpc = "id" /\ mpc' = "data" /\ pkt' = <<data[0]>>
    BY <1>2 DEF CompleteId
  <2>2. (Unsent' => Unsent) /\ CopyInv'
    BY <1>1, <2>1 DEF Unsent, CopyInv, Putting
  <2>3. idx' \in Cells /\ (open' \/ mpc' = "open" => on') /\ mpc' \notin Putting
    BY <1>1, <2>1 DEF RingVarsInv, IndexInv, Putting
  <2> QED BY <1>1, <2>2, <2>3, AsideRing
<1>3. CASE CompleteData
  <2> DEFINE rest == [i \in 1..(len - 1) |-> data[i]]
  <2>1. mpc = "data" /\ mpc' = (IF open THEN "store" ELSE "reset") /\ pkt' = pkt \o rest
    BY <1>3 DEF CompleteData
  <2>2. Unsent' => Unsent
    BY <1>1, <2>1 DEF Unsent
  <2>3. ASSUME ~mixed PROVE pkt' = [i \in 1..dataIdx |-> data[i - 1]]
    <3>1. ~raced /\ mpc \in Completing
      BY <2>1, <2>3 DEF RingVarsInv, IndexInv, Completing
    <3>2. len = dataIdx /\ dataIdx \in Nat /\ dataIdx >= 1 /\ pkt = <<data[0]>>
      BY <2>1, <2>3, <3>1, Sizes DEF Inv, MainInv, TypeInv, RingVarsInv, CopyInv
    <3>3. <<data[0]>> \o rest = [i \in 1..dataIdx |-> data[i - 1]]
      <4>1. len - 1 \in Nat /\ 1 + (len - 1) = dataIdx
        BY <3>2
      <4>2. \A i \in 1..dataIdx : i = 1 \/ i - 1 \in 1..(len - 1)
        BY <3>2
      <4> QED BY <3>2, <4>1, <4>2
    <3> QED BY <2>1, <3>2, <3>3
  <2>4. CopyInv'
    <3>1. mpc' # "data" /\ mpc' \notin {"load", "publish"} /\ mpc' # "publish"
      BY <2>1
    <3> QED BY <1>1, <2>3, <3>1 DEF CopyInv
  <2>5. idx' \in Cells /\ (open' \/ mpc' = "open" => on') /\ (mpc' \in Putting => open')
    BY <1>1, <2>1 DEF RingVarsInv, IndexInv, Putting
  <2> QED BY <1>1, <2>2, <2>4, <2>5, AsideRing
<1> QED BY <1>2, <1>3

LEMMA StoreRing == ASSUME Inv, Inv', RingVarsInv, CompleteStore PROVE RingVarsInv'
<1>1. /\ UNCHANGED <<putIdx, getIdx, hostGot, mixed, raced, state, dataIdx, data, phase, frame, pos, idx, on, open, pkt>>
      /\ mpc = "store" /\ mpc' = "load" /\ linPkt' = [linPkt EXCEPT ![putIdx] = pkt]
  BY DEF CompleteStore, setVars, rxBuf, busVars, history
<1>2. IndexInv'
  BY <1>1 DEF RingVarsInv, IndexInv, Putting
<1>3. CopyInv'
  BY <1>1 DEF RingVarsInv, IndexInv, CopyInv, Putting
<1>4. Limit \in Nat /\ Limit' = Limit
  BY <1>1, LimitNat DEF RingVarsInv, Limit, Unsent
<1>5. \A c \in Waiting : linPkt'[c] = linPkt[c]
  BY <1>1, PlaceLemma DEF RingVarsInv, IndexInv
<1>6. RingInv'
  BY <1>1, <1>4, <1>5, OrderSame DEF RingVarsInv, RingInv
<1> QED BY <1>2, <1>3, <1>6 DEF RingVarsInv

LEMMA LoadRing == ASSUME Inv, Inv', RingVarsInv, CompleteLoad PROVE RingVarsInv'
<1>1. /\ UNCHANGED <<linPkt, putIdx, getIdx, hostGot, mixed, raced, state, dataIdx, data, phase, frame, pos, on, open, pkt>>
      /\ mpc = "load" /\ mpc' = "publish" /\ idx' = putIdx
  BY DEF CompleteLoad, setVars, rxBuf, ringPut, busVars, history
<1>2. (Unsent' => Unsent) /\ CopyInv'
  BY <1>1 DEF Unsent, RingVarsInv, CopyInv, Putting
<1>3. idx' \in Cells /\ (open' \/ mpc' = "open" => on') /\ (mpc' \in Putting => open')
  BY <1>1 DEF RingVarsInv, IndexInv, Putting
<1> QED BY <1>1, <1>2, <1>3, AsideRing

LEMMA PublishRing == ASSUME Inv, Inv', RingVarsInv, CompletePublish PROVE RingVarsInv'
<1>1. /\ UNCHANGED <<linPkt, getIdx, hostGot, raced, state, dataIdx, data, stale, phase, frame, pos, idx, on, open, pkt>>
      /\ mpc = "publish" /\ mpc' = "reset" /\ putIdx' = Advance(idx, RingSize) /\ mixed' = (mixed \/ stale)
  BY DEF CompletePublish, setVars, rxBuf, busVars
<1>2. IndexInv'
  <2>1. putIdx' \in Cells
    BY <1>1, AdvanceLemma DEF RingVarsInv, IndexInv
  <2> QED BY <1>1, <2>1 DEF RingVarsInv, IndexInv, Putting
<1>3. CopyInv'
  BY <1>1 DEF CopyInv, Putting
<1>4. ASSUME ~mixed' PROVE InOrder(linPkt, hostGot, Limit)'
  <2>1. ~mixed /\ ~stale /\ ~raced /\ open /\ on /\ mpc \in Completing
    BY <1>1, <1>4 DEF RingVarsInv, IndexInv, Putting, Completing
  <2>2. state = "Data" /\ dataIdx >= 1
    BY <2>1 DEF Inv, MainInv
  <2>3. /\ phase = "bytes" /\ dataIdx = pos /\ \A i \in 0..(dataIdx - 1) : data[i] = <<frame, i>>
    BY <2>1, <2>2 DEF Inv, ShapeInv
  <2>4. /\ frame \in Nat /\ frame >= 1 /\ Limit = frame - 1 /\ Limit' = frame /\ dataIdx \in Nat
    <3>1. dataIdx \in Nat /\ pos # 0
      BY <2>2, <2>3, Sizes DEF Inv, TypeInv
    <3>2. frame \in Nat /\ frame >= 1
      BY <2>3, LimitNat DEF RingVarsInv, IndexInv
    <3> QED BY <1>1, <2>2, <2>3, <3>1, <3>2 DEF Limit, Unsent
  <2>5. pkt = [i \in 1..dataIdx |-> data[i - 1]] /\ linPkt[putIdx] = pkt /\ idx = putIdx
    BY <1>1, <2>1 DEF RingVarsInv, CopyInv, Putting
  <2>6. IsOneFrame(pkt) /\ FrameOf(pkt) \in {0, frame}
    <3>1. (\A i \in 0..(dataIdx - 2) : data[i] = <<frame, i>>) /\ data[dataIdx - 1] \in {Zero, <<frame, dataIdx - 1>>}
      BY <2>2, <2>3, <2>4
    <3>2. LET p == [i \in 1..dataIdx |-> data[i - 1]] IN IsOneFrame(p) /\ FrameOf(p) \in {0, frame}
      BY <2>2, <2>4, <3>1, OneFrame
    <3> QED BY <2>5, <3>2
  <2>7. linPkt' = [linPkt EXCEPT ![putIdx] = pkt] /\ putIdx' = Advance(putIdx, RingSize)
    BY <1>1, <2>5 DEF RingVarsInv, IndexInv
  <2>8. Limit \in Nat /\ Limit' \in Nat /\ Limit <= Limit' /\ frame \in (Limit + 1)..Limit'
    BY <2>4
  <2>9. FrameOf(pkt) = 0 \/ FrameOf(pkt) \in (Limit + 1)..Limit'
    BY <2>6, <2>8
  <2>10. IndexInv /\ InOrder(linPkt, hostGot, Limit)
    BY <2>1 DEF RingVarsInv, RingInv
  <2> QED BY <1>1, <2>6, <2>7, <2>8, <2>9, <2>10, OrderPut
<1> QED BY <1>2, <1>3, <1>4 DEF RingVarsInv, RingInv

LEMMA ResetRing == ASSUME Inv, Inv', RingVarsInv, CompleteReset PROVE RingVarsInv'
<1>1. /\ UNCHANGED <<linPkt, putIdx, getIdx, hostGot, mixed, raced, phase, frame, pos, on, open>>
      /\ mpc = "reset" /\ mpc' = "idle" /\ state' = "Idle" /\ idx' = 0
  BY DEF CompleteReset, setVars, ringPut, busVars
<1>2. (Unsent' => Unsent) /\ CopyInv'
  BY <1>1 DEF Unsent, CopyInv, Putting
<1>3. idx' \in Cells /\ (open' \/ mpc' = "open" => on') /\ mpc' \notin Putting
  BY <1>1, Rounds DEF RingVarsInv, IndexInv, Putting, Cells
<1> QED BY <1>1, <1>2, <1>3, AsideRing

LEMMA InitialRing == Init => RingVarsInv
<1> SUFFICES ASSUME Init PROVE RingVarsInv
  OBVIOUS
<1>1. 0 \in Cells
  BY Rounds DEF Cells
<1>2. IndexInv
  BY <1>1 DEF Init, IndexInv, Cells, Putting
<1>3. CopyInv
  BY DEF Init, CopyInv, Putting
<1>4. Unread = 0
  BY DEF Init, Unread, Avail
<1>5. Waiting = {}
  BY <1>2, <1>4, PlaceLemma, Rounds DEF Waiting, Cells
<1>6. Limit = 0 /\ hostGot = 0
  BY DEF Init, Limit, Unsent
<1> QED BY <1>2, <1>3, <1>5, <1>6 DEF RingVarsInv, RingInv, InOrder

\* Every packet that waits for the host is one frame, and the host gets each once and
\* in their order, until the interrupt comes into rxComplete of the main loop or
\* remains of an earlier frame are put (LinBus::rxComplete, CanHackerBinary).
THEOREM PacketsCorrect == Spec => []PacketsAreFrames
<1>1. Inv /\ Inv' /\ RingVarsInv /\ [Next]_vars => RingVarsInv'
  BY BreakRing, BreakEndRing, SyncRing, ByteRing, QuietRing, CommandRing, GetRing, CopyRing, StoreRing,
     LoadRing, PublishRing, ResetRing, Zenon DEF Next, Bus, Complete
<1>2. RingVarsInv => PacketsAreFrames
  BY Zenon DEF RingVarsInv, RingInv, InOrder, PacketsAreFrames
<1> QED BY <1>1, <1>2, Always, InitialRing, PTL DEF Spec

----------------------------------------------------------------------------
(* The transmitter: a packet sent when it is quiet goes out clean.             *)

Symbol == [sym : {"break", "sync", "data"}, no : Nat, i : Nat]
BufType == [state : {"Idle", "Sync", "Data"}, no : Nat, dataIdx : Nat, dataLength : Nat]

TxTypeInv ==
    /\ TypeOK /\ txBuf \in BufType /\ txBuf.dataLength <= bytes + 1
    /\ DR \in Seq(Symbol) /\ shift \in Seq(Symbol) /\ line \in Seq(Symbol)

\* A register that holds nothing; a name that the provers take as it is.
Nothing == <<>>

Out == line \o shift \o DR

\* What the interrupt has handed out of a clean frame.
Handed == IF txBuf.state = "Sync" THEN 1 ELSE 2 + txBuf.dataIdx

\* How far the sending of a clean frame has come, place by place in send: nothing is
\* on its way until the break is, and the interrupt is off until startSend. SBK
\* outlives the other steps of send and not its own break.
CleanInv ==
    clean =>
        /\ pc \in {"break", "breakStore"} => Out = <<>> /\ ~SBK
        /\ pc \in {"break", "breakStore", "sync", "start"} => ~TXEIE /\ txBuf.dataIdx = 0
        /\ pc = "breakStore" => ~loaded
        /\ pc \in {"sync", "start"} => line = <<>> /\ shift = <<Break>> /\ DR = <<>>
        /\ pc \in {"start", "idle"} => txBuf.state \in {"Sync", "Data"}
        /\ txBuf.state = "Sync" => txBuf.dataIdx = 0
        /\ pc = "start" => txBuf.state = "Sync"
        /\ pc = "idle" => /\ SBK => shift = <<Break>>
                          /\ Len(Out) = Handed /\ \A k \in 1..Handed : Out[k] = Frame[k]

LEMMA NothingType == Nothing \in Seq(Symbol) /\ Len(Nothing) = 0
BY DEF Nothing

----------------------------------------------------------------------------
(* The frame                                                                  *)

LEMMA FrameLemma ==
    ASSUME TxTypeInv
    PROVE  /\ Frame \in Seq(Symbol) /\ Len(Frame) = bytes + 3
           /\ Frame[1] = Break /\ Frame[2] = SyncByte
           /\ \A d \in 0..bytes : Frame[3 + d] = Data(txBuf.no, d)
<1> DEFINE body == [i \in 1..(bytes + 1) |-> Data(txBuf.no, i - 1)]
<1>1. bytes \in Nat /\ txBuf.no \in Nat
  BY SizeAssumption DEF TxTypeInv, TypeOK, BufType
<1>2. body \in Seq(Symbol) /\ Len(body) = bytes + 1
  <2>1. ASSUME NEW i \in 1..(bytes + 1) PROVE Data(txBuf.no, i - 1) \in Symbol
    BY <1>1 DEF Data, Symbol
  <2>2. body \in [1..(bytes + 1) -> Symbol]
    BY <2>1
  <2> HIDE DEF body
  <2> QED
    BY <1>1, <2>2, FunctionIsSeq
<1>3. <<Break, SyncByte>> \in Seq(Symbol) /\ Len(<<Break, SyncByte>>) = 2
  BY DEF Break, SyncByte, Symbol
<1> HIDE DEF body
<1>4. Frame = <<Break, SyncByte>> \o body
  BY DEF Frame, body
<1>5. ASSUME NEW d \in 0..bytes PROVE Frame[3 + d] = Data(txBuf.no, d)
  <2>1. Frame[3 + d] = body[d + 1]
    BY <1>1, <1>2, <1>3, <1>4
  <2> QED
    BY <1>1, <2>1 DEF body
<1> QED
  BY <1>1, <1>2, <1>3, <1>4, <1>5

----------------------------------------------------------------------------
(* Types                                                                      *)

LEMMA TxTypeStep == TxTypeInv /\ [TxNext]_txVars => TxTypeInv'
<1> SUFFICES ASSUME TxTypeInv, [TxNext]_txVars PROVE TxTypeInv'
  OBVIOUS
<1> USE DEF TxTypeInv, TypeOK
<1>1. ASSUME SendFill PROVE TxTypeInv'
  <2>1. PICK n \in 0..MaxData : bytes' = WithChecksum(n) /\ txBuf' = LinBuf(bytes')
    BY <1>1 DEF SendFill
  <2>2. bytes' \in 0..(MaxData + 1)
    BY <2>1, SizeAssumption DEF WithChecksum
  <2>3. /\ txBuf' \in BufType /\ txBuf'.state = "Idle" /\ txBuf'.no = txBuf.no + 1
        /\ txBuf'.dataIdx = 0 /\ txBuf'.dataLength \in 0..(MaxData + 1) /\ txBuf'.dataLength <= bytes' + 1
    <3>1. txBuf' = [state |-> "Idle", no |-> txBuf.no + 1, dataIdx |-> 0,
                    dataLength |-> IF bytes' > MaxData THEN 0 ELSE bytes' + 1]
      BY <2>1 DEF LinBuf
    <3>3. txBuf.no + 1 \in Nat
      BY DEF BufType
    <3> HIDE DEF TxTypeInv, TypeOK
    <3> DEFINE length == IF bytes' > MaxData THEN 0 ELSE bytes' + 1
    <3>2. MaxData \in Nat /\ bytes' \in Nat /\ bytes' <= MaxData + 1
      BY <2>2, SizeAssumption
    <3>4. length = 0 \/ (length = bytes' + 1 /\ bytes' <= MaxData)
      <4>1. CASE bytes' > MaxData
        BY <4>1, Zenon
      <4>2. CASE ~(bytes' > MaxData)
        <5>1. bytes' <= MaxData
          BY <3>2, <4>2
        <5> QED BY <4>2, <5>1, Zenon
      <4> QED BY <4>1, <4>2
    <3> HIDE DEF length
    <3>6. length \in Nat /\ length \in 0..(MaxData + 1) /\ length <= bytes' + 1
      BY <3>2, <3>4
    <3>5. txBuf' = [state |-> "Idle", no |-> txBuf.no + 1, dataIdx |-> 0, dataLength |-> length]
      BY <3>1 DEF length
    <3> QED BY <3>3, <3>5, <3>6 DEF BufType
  <2>5. pc' = "break" /\ clean' \in BOOLEAN /\ UNCHANGED <<loaded, busOpen, TXEIE, SBK, DR, shift>>
    BY <1>1 DEF SendFill, Quiet
  <2>6. txBuf'.no \in 0..MaxSends
    <3>1. txBuf.no < MaxSends /\ txBuf.no \in Nat
      BY <1>1 DEF SendFill, BufType
    <3> HIDE DEF TxTypeInv, TypeOK
    <3> QED BY <2>3, <3>1, SizeAssumption
  <2>7. txBuf'.dataIdx \in 0..txBuf'.dataLength
    BY <2>3, SizeAssumption
  <2>4. TypeOK'
    BY <2>2, <2>3, <2>5, <2>6, <2>7
  <2> QED
    BY <1>1, <2>3, <2>4 DEF SendFill
<1>2. ASSUME BreakLoad PROVE TxTypeInv'
  BY <1>2 DEF BreakLoad
<1>3. ASSUME BreakStore PROVE TxTypeInv'
  <2>1. <<Break>> \in Seq(Symbol) /\ Len(<<Break>>) = 1
    BY DEF Break, Symbol
  <2> QED
    BY <1>3, <2>1 DEF BreakStore
<1>4. ASSUME StateSync PROVE TxTypeInv'
  BY <1>4 DEF StateSync, BufType
<1>5. ASSUME Start PROVE TxTypeInv'
  BY <1>5 DEF Start
<1>6. ASSUME LinInit \/ LinDeinit PROVE TxTypeInv'
  <2>1. /\ TXEIE' = FALSE /\ SBK' = FALSE /\ clean' = FALSE /\ busOpen' \in BOOLEAN /\ shift' = Nothing
        /\ DR' = DR \/ DR' = Nothing
        /\ UNCHANGED <<pc, loaded, txBuf, line, bytes>>
    BY <1>6 DEF LinInit, LinDeinit, SwitchedOff, Nothing
  <2>2. DR' \in Seq(Symbol)
    BY <2>1, NothingType
  <2>3. Len(DR') <= 1
    BY <2>1, <2>2, NothingType
  <2>4. shift' \in Seq(Symbol) /\ Len(shift') <= 1
    BY <2>1, NothingType
  <2>5. {loaded', busOpen', TXEIE', SBK', clean'} \subseteq BOOLEAN
    BY <2>1
  <2> QED
    BY <2>1, <2>2, <2>3, <2>4, <2>5
<1>7. ASSUME TxEmpty PROVE TxTypeInv'
  <2>1. <<SyncByte>> \in Seq(Symbol) /\ Len(<<SyncByte>>) = 1
    BY DEF SyncByte, Symbol
  <2>2. <<Data(txBuf.no, txBuf.dataIdx)>> \in Seq(Symbol) /\ Len(<<Data(txBuf.no, txBuf.dataIdx)>>) = 1
    BY DEF Data, Symbol, BufType
  <2>3. CASE txBuf.state = "Sync"
    <3>1. DR' = <<SyncByte>> /\ UNCHANGED <<pc, loaded, busOpen, TXEIE, SBK, shift, line, clean, bytes>>
      BY <1>7, <2>3 DEF TxEmpty, More
    <3>2. /\ txBuf' \in BufType /\ txBuf'.state = "Data"
          /\ txBuf'.no = txBuf.no /\ txBuf'.dataIdx = txBuf.dataIdx /\ txBuf'.dataLength = txBuf.dataLength
      BY <1>7, <2>3 DEF TxEmpty, More, BufType
    <3> QED
      BY <2>1, <3>1, <3>2
  <2>4. CASE txBuf.state # "Sync" /\ More
    <3>1. /\ DR' = <<Data(txBuf.no, txBuf.dataIdx)>>
          /\ UNCHANGED <<pc, loaded, busOpen, TXEIE, SBK, shift, line, clean, bytes>>
      BY <1>7, <2>4 DEF TxEmpty
    <3>2. /\ txBuf' \in BufType /\ txBuf'.state = txBuf.state /\ txBuf'.no = txBuf.no
          /\ txBuf'.dataIdx = txBuf.dataIdx + 1 /\ txBuf'.dataLength = txBuf.dataLength
      <4>1. txBuf' = [txBuf EXCEPT !.dataIdx = @ + 1]
        BY <1>7, <2>4 DEF TxEmpty
      <4> QED
        BY <4>1 DEF BufType
    <3> QED
      BY <2>2, <2>4, <3>1, <3>2 DEF More, BufType
  <2>5. CASE txBuf.state # "Sync" /\ ~More
    BY <1>7, <2>5 DEF TxEmpty, TxEnd
  <2> QED
    BY <2>3, <2>4, <2>5
<1>8. ASSUME Shift PROVE TxTypeInv'
  <2>1. <<Break>> \in Seq(Symbol) /\ Len(<<Break>>) = 1
    BY DEF Break, Symbol
  <2>2. /\ line' \in Seq(Symbol) /\ SBK' \in BOOLEAN
        /\ UNCHANGED <<pc, loaded, txBuf, busOpen, TXEIE, clean, bytes>>
    BY <1>8 DEF Shift
  <2>3. \/ shift' = <<Break>> /\ DR' = DR
        \/ shift' = DR /\ DR' = Nothing
    BY <1>8 DEF Shift, Nothing
  <2>4. DR' \in Seq(Symbol) /\ shift' \in Seq(Symbol)
    BY <2>1, <2>3, NothingType
  <2>5. Len(DR') <= 1 /\ Len(shift') <= 1
    <3>1. CASE shift' = <<Break>> /\ DR' = DR
      BY <2>1, <2>4, <3>1
    <3>2. CASE shift' = DR /\ DR' = Nothing
      BY <2>4, <3>2, NothingType
    <3> QED
      BY <2>3, <3>1, <3>2
  <2> QED
    BY <2>2, <2>4, <2>5
<1>9. ASSUME UNCHANGED txVars PROVE TxTypeInv'
  BY <1>9 DEF txVars
<1> QED
  BY <1>1, <1>2, <1>3, <1>4, <1>5, <1>6, <1>7, <1>8, <1>9 DEF TxNext, Main

----------------------------------------------------------------------------
(* The clean frame                                                            *)

LEMMA CleanStep == TxTypeInv /\ CleanInv /\ [TxNext]_txVars => CleanInv'
<1> SUFFICES ASSUME TxTypeInv, CleanInv, [TxNext]_txVars, clean' PROVE CleanInv'
  BY DEF CleanInv
<1>1. ASSUME SendFill PROVE CleanInv'
  <2>0. Quiet
    BY <1>1 DEF SendFill
  <2>1. /\ pc' = "break" /\ line' = <<>> /\ shift' = <<>> /\ DR' = <<>> /\ ~SBK' /\ ~TXEIE'
        /\ txBuf'.dataIdx = 0 /\ txBuf'.state = "Idle"
    BY <1>1, <2>0 DEF SendFill, Quiet, LinBuf
  <2> QED
    BY <2>1 DEF CleanInv, Out
<1>2. ASSUME BreakLoad PROVE CleanInv'
  BY <1>2 DEF BreakLoad, CleanInv, Out
<1>3. ASSUME BreakStore PROVE CleanInv'
  <2>1. line = <<>> /\ shift = <<>> /\ DR = <<>>
    BY <1>3 DEF BreakStore, CleanInv, Out, TxTypeInv
  <2> QED
    BY <1>3, <2>1 DEF BreakStore, CleanInv
<1>4. ASSUME StateSync PROVE CleanInv'
  BY <1>4 DEF StateSync, CleanInv, TxTypeInv, BufType
<1>5. ASSUME Start PROVE CleanInv'
  <2>1. /\ line' = <<>> /\ shift' = <<Break>> /\ DR' = <<>> /\ pc' = "idle"
        /\ txBuf' = txBuf /\ txBuf.state = "Sync" /\ txBuf.dataIdx = 0
    BY <1>5 DEF Start, CleanInv
  <2>2. Out' = <<Break>> /\ Handed' = 1 /\ Frame'[1] = Break
    BY <2>1, FrameLemma DEF Out, Handed, Frame
  <2> QED
    BY <2>1, <2>2 DEF CleanInv
<1>6. ASSUME LinInit \/ LinDeinit PROVE CleanInv'
  BY <1>6 DEF LinInit, LinDeinit, SwitchedOff
<1>7. ASSUME TxEmpty PROVE CleanInv'
  <2>1. /\ DR = <<>> /\ TXEIE /\ clean
        /\ UNCHANGED <<pc, loaded, busOpen, SBK, shift, line, clean, bytes>>
    BY <1>7 DEF TxEmpty
  <2>2. pc = "idle"
    BY <2>1 DEF CleanInv, TxTypeInv, TypeOK
  <2>3. Frame' = Frame
    BY <1>7 DEF TxEmpty, Frame, TxTypeInv, BufType
  <2>4. ASSUME NEW x \in Symbol, DR' = <<x>>, Handed' = Handed + 1, Frame[Handed + 1] = x,
               txBuf'.state = "Data"
        PROVE  CleanInv'
    <3>1. Out' = Append(Out, x) /\ Out \in Seq(Symbol)
      BY <2>1, <2>4 DEF Out, TxTypeInv
    <3>2. Len(Out) = Handed /\ \A k \in 1..Handed : Out[k] = Frame[k]
      BY <2>1, <2>2 DEF CleanInv
    <3>3. Len(Out') = Handed' /\ \A k \in 1..Handed' : Out'[k] = Frame'[k]
      BY <2>3, <2>4, <3>1, <3>2
    <3> QED
      BY <2>1, <2>2, <2>4, <3>3 DEF CleanInv
  <2>5. CASE txBuf.state = "Sync"
    <3>1. DR' = <<SyncByte>> /\ txBuf' = [txBuf EXCEPT !.state = "Data"]
      BY <1>7, <2>5 DEF TxEmpty, More
    <3>2. txBuf.dataIdx = 0
      BY <2>1, <2>2, <2>5 DEF CleanInv
    <3> QED
      BY <2>4, <2>5, <3>1, <3>2, FrameLemma DEF Handed, TxTypeInv, BufType, SyncByte, Symbol
  <2>6. CASE txBuf.state # "Sync" /\ More
    <3>1. DR' = <<Data(txBuf.no, txBuf.dataIdx)>> /\ txBuf' = [txBuf EXCEPT !.dataIdx = @ + 1]
      BY <1>7, <2>6 DEF TxEmpty
    <3>2. /\ txBuf.state = "Data" /\ txBuf'.state = "Data" /\ txBuf.dataIdx \in 0..(txBuf.dataLength - 1)
          /\ Handed' = Handed + 1 /\ Handed = 2 + txBuf.dataIdx
      BY <2>6, <3>1 DEF More, Handed, TxTypeInv, BufType
    <3>3. Data(txBuf.no, txBuf.dataIdx) \in Symbol
      BY DEF Data, Symbol, TxTypeInv, BufType
    <3>4. txBuf.dataIdx \in 0..bytes /\ 3 + txBuf.dataIdx = Handed + 1
      <4>1. txBuf.dataLength \in Nat /\ txBuf.dataLength <= bytes + 1 /\ bytes \in Nat
        BY SizeAssumption DEF TxTypeInv, TypeOK, BufType
      <4> QED BY <3>2, <4>1
    <3>5. Frame[Handed + 1] = Data(txBuf.no, txBuf.dataIdx)
      BY <3>4, FrameLemma
    <3> QED
      BY <2>4, <3>1, <3>2, <3>3, <3>5
  <2>7. CASE txBuf.state # "Sync" /\ ~More
    <3>1. UNCHANGED <<DR, txBuf>>
      BY <1>7, <2>7 DEF TxEmpty
    <3> QED
      BY <2>1, <2>2, <2>3, <3>1 DEF CleanInv, Out, Handed
  <2> QED
    BY <2>5, <2>6, <2>7
<1>8. ASSUME Shift PROVE CleanInv'
  <2>1. /\ shift \o DR # <<>> /\ (shift = <<Break>> => pc = "idle")
        /\ line' = line \o shift /\ SBK' = (SBK /\ shift # <<Break>>) /\ clean
        /\ UNCHANGED <<pc, loaded, txBuf, busOpen, TXEIE, clean, bytes>>
    BY <1>8 DEF Shift
  <2>2. pc = "idle"
    BY <2>1 DEF CleanInv, Out, TxTypeInv, TypeOK
  <2>3. ~SBK' /\ shift' = DR /\ DR' = <<>>
    BY <1>8, <2>1, <2>2 DEF CleanInv, Shift
  <2>4. Out' = Out
    BY <2>1, <2>3 DEF Out, TxTypeInv
  <2> QED
    BY <2>1, <2>2, <2>3, <2>4 DEF CleanInv, Handed, Frame
<1>9. ASSUME UNCHANGED txVars PROVE CleanInv'
  BY <1>9 DEF txVars, CleanInv, Out, Handed, Frame
<1> QED
  BY <1>1, <1>2, <1>3, <1>4, <1>5, <1>6, <1>7, <1>8, <1>9 DEF TxNext, Main

----------------------------------------------------------------------------
(* The theorems                                                               *)

LEMMA TxInvariance == TxSpec => [](TxTypeInv /\ CleanInv)
<1>1. TxInit => TxTypeInv /\ CleanInv
  <2> SUFFICES ASSUME TxInit PROVE TxTypeInv /\ CleanInv
    OBVIOUS
  <2>1. txBuf \in BufType
    BY DEF TxInit, BufType
  <2>2. DR = Nothing /\ shift = Nothing /\ line = Nothing
    BY DEF TxInit, Nothing
  <2>3. Len(DR) <= 1 /\ Len(shift) <= 1
    BY <2>2, NothingType
  <2>4. TypeOK
    <3>1. {loaded, busOpen, TXEIE, SBK, clean} \subseteq BOOLEAN /\ pc = "idle"
      BY DEF TxInit
    <3>2. /\ txBuf.state = "Idle" /\ txBuf.no \in 0..MaxSends
          /\ txBuf.dataLength \in 0..(MaxData + 1) /\ txBuf.dataIdx \in 0..txBuf.dataLength
          /\ bytes \in 0..(MaxData + 1)
      BY SizeAssumption DEF TxInit
    <3> QED
      BY <2>3, <3>1, <3>2 DEF TypeOK
  <2> QED
    BY <2>1, <2>2, <2>4, NothingType DEF TxInit, TxTypeInv, CleanInv
<1>2. TxTypeInv /\ CleanInv /\ [TxNext]_txVars => (TxTypeInv /\ CleanInv)'
  BY TxTypeStep, CleanStep
<1> QED
  BY <1>1, <1>2, PTL DEF TxSpec

\* The state stays in its type: dataIdx never passes dataLength, and no symbol is
\* written over another, wherever the interrupt comes between the steps of send.
THEOREM TransmitterTypeCorrect == TxSpec => []TypeOK
<1>1. TxTypeInv => TypeOK
  BY DEF TxTypeInv
<1> QED
  BY <1>1, TxInvariance, PTL

\* A packet sent when the transmitter is quiet goes out as a break, the sync byte and
\* its bytes in order.
THEOREM CleanFrameCorrect == TxSpec => []CleanFrame
<1>1. TxTypeInv /\ CleanInv => CleanFrame
  <2> SUFFICES ASSUME TxTypeInv, CleanInv, clean PROVE IsPrefix(Out, Frame)
    BY DEF CleanFrame, Out
  <2>1. /\ Out \in Seq(Symbol) /\ Frame \in Seq(Symbol) /\ Len(Frame) = bytes + 3
        /\ bytes \in Nat /\ txBuf.dataLength <= bytes + 1
    BY FrameLemma, SizeAssumption DEF Out, TxTypeInv, TypeOK
  <2>2. Len(Out) <= Len(Frame) /\ \A k \in 1..Len(Out) : Out[k] = Frame[k]
    <3>1. CASE pc \in {"break", "breakStore"}
      <4>1. Len(Out) = 0 /\ txBuf.dataLength \in Nat
        BY <3>1 DEF CleanInv, TxTypeInv, BufType
      <4> QED
        BY <2>1, <4>1
    <3>2. CASE pc \in {"sync", "start"}
      <4>1. Out = <<Break>> /\ txBuf.dataLength \in Nat
        <5>1. line = <<>> /\ shift = <<Break>> /\ DR = <<>>
          BY <3>2 DEF CleanInv
        <5> QED
          BY <5>1 DEF Out, TxTypeInv, BufType
      <4> QED
        BY <2>1, <4>1, FrameLemma
    <3>3. CASE pc = "idle"
      <4>1. Len(Out) = Handed /\ \A k \in 1..Handed : Out[k] = Frame[k]
        BY <3>3 DEF CleanInv
      <4>2. Handed \in Nat /\ Handed <= bytes + 3
        BY <2>1 DEF Handed, TxTypeInv, TypeOK, BufType
      <4> QED
        BY <2>1, <4>1, <4>2
    <3> QED
      BY <3>1, <3>2, <3>3 DEF TxTypeInv, TypeOK
  <2> QED
    BY <2>1, <2>2 DEF IsPrefix
<1> QED
  BY <1>1, TxInvariance, PTL
=============================================================================
