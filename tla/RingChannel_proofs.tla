------------------------- MODULE RingChannel_proofs -------------------------
(* For every ring size, every batch length and either side in the interrupt *)
(* handler: the ring is a faithful queue until it is overrun, and with one   *)
(* Avail() per Get it keeps order even when it is overrun.                   *)
EXTENDS RingChannel, TLAPS

\* The index arithmetic of Put and Get, free of the modulus.
LEMMA AdvanceLemma ==
    ASSUME NEW i \in Cells
    PROVE  /\ Advance(i, Size) = IF i = Size - 1 THEN 0 ELSE i + 1
           /\ Advance(i, Size) \in Cells
  <1>1. Advance(i, Size) = IF i = Size - 1 THEN 0 ELSE i + 1
    BY SizeAssumption, SMT DEF Advance, Cells
  <1> QED
    BY <1>1, SizeAssumption DEF Cells

\* Avail() never leaves the ring and is zero exactly when the indices meet.
LEMMA AvailLemma ==
    ASSUME NEW p \in Cells, NEW g \in Cells
    PROVE  /\ Avail(p, g, Size) \in Cells
           /\ Avail(p, g, Size) = 0 <=> p = g
  BY SizeAssumption DEF Avail, Cells

\* The fields, the indices and the program counters keep their types.
THEOREM TypeCorrect == Spec => []TypeOK
<1>1. Init => TypeOK
  <2> SUFFICES ASSUME Init PROVE TypeOK
    OBVIOUS
  <2>1. buff \in [Cells -> Int]
    <3>1. \A i \in Cells : i + 1 - Size \in Int
      BY SizeAssumption DEF Cells
    <3> QED
      BY <3>1 DEF Init
  <2>2. 0 \in Cells /\ 0 \in 0..BufLen
    BY SizeAssumption, BufLenAssumption DEF Cells
  <2>3. overrun \in BOOLEAN
    BY DEF Init
  <2> QED
    BY <2>1, <2>2, <2>3 DEF Init, TypeOK
<1>2. TypeOK /\ [Next]_vars => TypeOK'
  <2> SUFFICES ASSUME TypeOK, [Next]_vars PROVE TypeOK'
    OBVIOUS
  <2> USE DEF TypeOK, prodVars, consVars
  <2>1. CASE PutStore
    BY <2>1 DEF PutStore
  <2>2. CASE PutPublish
    BY <2>2, AdvanceLemma DEF PutPublish
  <2>3. CASE GetCheck
    <3>1. Unread \in Int
      BY SizeAssumption DEF Unread, Avail, Cells
    <3> QED
      BY <2>3, <3>1, BufLenAssumption DEF GetCheck
  <2>4. CASE GetHead
    BY <2>4 DEF GetHead
  <2>5. CASE GetTail
    BY <2>5 DEF GetTail
  <2>6. CASE GetAdvance
    BY <2>6, AdvanceLemma, BufLenAssumption DEF GetAdvance
  <2>7. CASE UNCHANGED vars
    BY <2>7 DEF vars
  <2> QED
    BY <2>1, <2>2, <2>3, <2>4, <2>5, <2>6, <2>7 DEF Next
<1> QED
  BY <1>1, <1>2, PTL DEF Spec

----------------------------------------------------------------------------
\* Where every item lies: going back from putIdx the cells hold the Size newest
\* items, and between the two accesses of Put the oldest is already replaced.
CellInv ==
    \A i \in Cells :
        buff[i] = IF i < putIdx THEN puts + 1 + i - putIdx
                  ELSE IF i = putIdx /\ ppc = "publish" THEN puts + 1
                  ELSE puts + 1 + i - putIdx - Size

\* In every reachable state the cells lie so.
LEMMA CellsHoldNewest == Spec => []CellInv
<1>1. Init => CellInv
  BY SizeAssumption DEF Init, CellInv, Cells
<1>2. TypeOK /\ CellInv /\ [Next]_vars => CellInv'
  <2> SUFFICES ASSUME TypeOK, CellInv, [Next]_vars PROVE CellInv'
    OBVIOUS
  <2> USE SizeAssumption DEF TypeOK, CellInv, Cells, prodVars, consVars
  <2>1. CASE PutStore
    BY <2>1 DEF PutStore
  <2>2. CASE PutPublish
    <3>1. putIdx' = IF putIdx = Size - 1 THEN 0 ELSE putIdx + 1
      BY <2>2, AdvanceLemma DEF PutPublish
    <3> SUFFICES ASSUME NEW i \in Cells
                 PROVE  buff'[i] = IF i < putIdx' THEN puts' + 1 + i - putIdx'
                                   ELSE IF i = putIdx' /\ ppc' = "publish" THEN puts' + 1
                                   ELSE puts' + 1 + i - putIdx' - Size
      OBVIOUS
    <3>2. buff'[i] = buff[i] /\ puts' = puts + 1 /\ ppc = "publish" /\ ppc' = "idle"
      BY <2>2 DEF PutPublish
    <3>3. i \in Int /\ i >= 0 /\ i < Size /\ putIdx \in Int /\ Size \in Int /\ puts \in Int
      OBVIOUS
    <3>4. buff[i] = IF i <= putIdx THEN puts + 1 + i - putIdx ELSE puts + 1 + i - putIdx - Size
      <4>1. i = putIdx => puts + 1 = puts + 1 + i - putIdx
        BY <3>3
      <4> QED
        BY <3>2, <3>3, <4>1
    <3> HIDE DEF CellInv, TypeOK, Cells
    <3>5. CASE putIdx = Size - 1
      BY <3>1, <3>2, <3>3, <3>4, <3>5
    <3>6. CASE putIdx # Size - 1
      BY <3>1, <3>2, <3>3, <3>4, <3>6
    <3> QED
      BY <3>5, <3>6
  <2>3. CASE GetCheck \/ GetHead \/ GetTail \/ GetAdvance \/ UNCHANGED vars
    BY <2>3 DEF GetCheck, GetHead, GetTail, GetAdvance, vars
  <2> QED
    BY <2>1, <2>2, <2>3 DEF Next
<1> QED
  BY <1>1, <1>2, TypeCorrect, PTL DEF Spec

\* The queue discipline needs to know, besides, that the Gets of a batch are
\* covered by items that were there when Avail() was read.
InStep ==
    /\ Unread = puts - gets
    /\ left <= Unread
    /\ head = Heads /\ tail = Tails

FifoInv == ~overrun => InStep

\* No access of either side leaves the queue discipline before an overrun.
LEMMA FifoStep ==
    ASSUME TypeOK, TypeOK', CellInv, FifoInv, [Next]_vars
    PROVE  FifoInv'
<1> USE SizeAssumption, BufLenAssumption
    DEF TypeOK, FifoInv, InStep, Heads, Tails, Unread, Avail, prodVars, consVars
<1>1. CASE PutStore
  BY <1>1 DEF PutStore
<1>2. CASE PutPublish
  <2>1. putIdx' = IF putIdx = Size - 1 THEN 0 ELSE putIdx + 1
    BY <1>2, AdvanceLemma DEF PutPublish
  <2> SUFFICES ASSUME ~overrun' PROVE InStep'
    OBVIOUS
  <2>2. ~overrun /\ Free(putIdx, getIdx, Size) # 0
    BY <1>2 DEF PutPublish
  <2>3. Unread' = Unread + 1
    BY <1>2, <2>1, <2>2 DEF PutPublish, Free, Cells
  <2> QED
    BY <1>2, <2>2, <2>3 DEF PutPublish
<1>3. CASE GetCheck
  BY <1>3 DEF GetCheck
<1>4. CASE GetHead
  BY <1>4 DEF GetHead, CellInv, Cells
<1>5. CASE GetTail
  BY <1>5 DEF GetTail, CellInv, Cells
<1>6. CASE GetAdvance
  <2>1. getIdx' = IF getIdx = Size - 1 THEN 0 ELSE getIdx + 1
    BY <1>6, AdvanceLemma DEF GetAdvance
  <2> QED
    BY <1>6, <2>1 DEF GetAdvance, Cells
<1>7. CASE UNCHANGED vars
  BY <1>7 DEF vars
<1> QED
  BY <1>1, <1>2, <1>3, <1>4, <1>5, <1>6, <1>7 DEF Next

\* Nothing is lost, repeated, reordered or torn before the first overrun.
THEOREM FifoCorrect == Spec => []FifoUntilOverrun
<1>1. Init => FifoInv
  BY DEF Init, FifoInv, InStep, Heads, Tails, Unread, Avail
<1>2. TypeOK /\ TypeOK' /\ CellInv /\ FifoInv /\ [Next]_vars => FifoInv'
  BY FifoStep
<1>3. FifoInv => FifoUntilOverrun
  BY DEF FifoInv, InStep, FifoUntilOverrun
<1> QED
  BY <1>1, <1>2, <1>3, TypeCorrect, CellsHoldNewest, PTL DEF Spec

----------------------------------------------------------------------------
\* Two numbers are the same modulo the ring when they are whole rings apart.
Rings(a, b) == \E k \in Int : a - b = k * Size

\* Being whole rings apart is kept by adding the same to both, by another ring
\* more, and along a chain; and it is what the remainder of the difference says.
LEMMA RingsLemma ==
    ASSUME NEW a \in Int, NEW b \in Int, Rings(a, b)
    PROVE  /\ \A x, y \in Int : x - y = a - b => Rings(x, y)
           /\ \A x, y \in Int : x - y = a - b + Size => Rings(x, y)
           /\ \A x, y \in Int : x - y = a - b - Size => Rings(x, y)
           /\ \A c \in Int : Rings(b, c) => Rings(a, c)
           /\ (a - b) % Size = 0
<1> USE SizeAssumption
<1>1. PICK k \in Int : a - b = k * Size
  BY DEF Rings
<1>2. k + 1 \in Int /\ k - 1 \in Int
  OBVIOUS
<1>3. (k + 1) * Size = k * Size + Size /\ (k - 1) * Size = k * Size - Size
  OBVIOUS
<1>4. \A x, y \in Int : x - y = a - b => Rings(x, y)
  BY <1>1 DEF Rings
<1>5. \A x, y \in Int : x - y = a - b + Size => Rings(x, y)
  <2> TAKE x, y \in Int
  <2> HAVE x - y = a - b + Size
  <2>1. x - y = (k + 1) * Size
    BY <1>1, <1>3
  <2> QED
    BY <2>1, <1>2 DEF Rings
<1>6. \A x, y \in Int : x - y = a - b - Size => Rings(x, y)
  <2> TAKE x, y \in Int
  <2> HAVE x - y = a - b - Size
  <2>1. x - y = (k - 1) * Size
    BY <1>1, <1>3
  <2> QED
    BY <2>1, <1>2 DEF Rings
<1>7. \A c \in Int : Rings(b, c) => Rings(a, c)
  <2> TAKE c \in Int
  <2> HAVE Rings(b, c)
  <2>1. PICK j \in Int : b - c = j * Size
    BY DEF Rings
  <2>2. (k + j) * Size = k * Size + j * Size
    OBVIOUS
  <2>3. a - c = (k + j) * Size
    BY <1>1, <2>1, <2>2
  <2> QED
    BY <2>3 DEF Rings
<1>8. (a - b) % Size = 0
  BY <1>1
<1> QED
  BY <1>4, <1>5, <1>6, <1>7, <1>8

\* The indices count the completed Puts and Gets modulo the ring, and so does
\* what the last Get copied: the loss of an overrun cannot be seen in them.
LossInv ==
    /\ Rings(puts, putIdx) /\ Rings(gets, getIdx)
    /\ Rings(head, Heads) /\ Rings(tail, Tails)

\* A step forward of an index, once round the ring or not, keeps it in step
\* with its count.
LEMMA RingsAdvance ==
    ASSUME NEW i \in Cells, NEW n \in Int, Rings(n, i)
    PROVE  Rings(n + 1, Advance(i, Size))
<1>1. Size \in Int /\ i \in Int
  BY SizeAssumption DEF Cells
<1>2. /\ Advance(i, Size) = IF i = Size - 1 THEN 0 ELSE i + 1
      /\ Advance(i, Size) \in Int
  BY AdvanceLemma, <1>1
<1>5. n + 1 \in Int
  OBVIOUS
<1>3. CASE i = Size - 1
  <2>1. (n + 1) - Advance(i, Size) = n - i + Size
    BY <1>1, <1>2, <1>3
  <2>2. \A x, y \in Int : x - y = n - i + Size => Rings(x, y)
    BY <1>1, RingsLemma
  <2> QED
    BY <2>1, <2>2, <1>2, <1>5, Zenon
<1>4. CASE i # Size - 1
  <2>1. (n + 1) - Advance(i, Size) = n - i
    BY <1>1, <1>2, <1>4
  <2>2. \A x, y \in Int : x - y = n - i => Rings(x, y)
    BY <1>1, RingsLemma
  <2> QED
    BY <2>1, <2>2, <1>2, <1>5, Zenon
<1> QED
  BY <1>3, <1>4

\* The cell a Get copies from holds, whole rings apart, the item it is due.
LEMMA CellIsDue ==
    ASSUME TypeOK, CellInv, LossInv
    PROVE  Rings(buff[getIdx], gets + 1)
<1> DEFINE b == buff[getIdx]
<1> USE SizeAssumption DEF TypeOK, Cells
<1>1. b \in Int /\ puts \in Int /\ putIdx \in Int /\ gets \in Int /\ getIdx \in Int
  OBVIOUS
<1>5. gets + 1 \in Int /\ getIdx + 1 \in Int
  BY <1>1
<1>2. \/ b - (getIdx + 1) = puts - putIdx
      \/ b - (getIdx + 1) = puts - putIdx - Size
  <2>1. b = IF getIdx < putIdx THEN puts + 1 + getIdx - putIdx
            ELSE IF getIdx = putIdx /\ ppc = "publish" THEN puts + 1
            ELSE puts + 1 + getIdx - putIdx - Size
    BY DEF CellInv
  <2> HIDE DEF b
  <2> QED
    BY <1>1, <2>1
<1>3. Rings(b, getIdx + 1)
  <2>1. /\ \A x, y \in Int : x - y = puts - putIdx => Rings(x, y)
        /\ \A x, y \in Int : x - y = puts - putIdx - Size => Rings(x, y)
    BY <1>1, RingsLemma DEF LossInv
  <2> HIDE DEF b
  <2> QED
    BY <1>1, <1>2, <1>5, <2>1, Zenon
<1>4. Rings(getIdx + 1, gets + 1)
  <2>1. PICK k \in Int : gets - getIdx = k * Size
    BY DEF LossInv, Rings
  <2>2. 0 - k \in Int /\ (0 - k) * Size = 0 - k * Size
    OBVIOUS
  <2>3. (getIdx + 1) - (gets + 1) = (0 - k) * Size
    BY <1>1, <2>1, <2>2
  <2> QED
    BY <2>2, <2>3 DEF Rings
<1> HIDE DEF b
<1> QED
  BY <1>1, <1>3, <1>4, <1>5, RingsLemma DEF b

\* No access of either side moves a count and its index apart.
LEMMA LossStep ==
    ASSUME TypeOK, CellInv, LossInv, [Next]_vars
    PROVE  LossInv'
<1>1. CASE PutStore \/ GetCheck \/ UNCHANGED vars
  BY <1>1 DEF PutStore, GetCheck, vars, prodVars, consVars, LossInv, Rings, Heads, Tails
<1>2. CASE PutPublish
  <2>1. /\ puts' = puts + 1 /\ putIdx' = Advance(putIdx, Size)
        /\ UNCHANGED <<gets, getIdx, head, tail, cpc>>
    BY <1>2 DEF PutPublish, consVars
  <2>2. Rings(puts', putIdx')
    BY <2>1, RingsAdvance DEF LossInv, TypeOK
  <2> QED
    BY <2>1, <2>2 DEF LossInv, Rings, Heads, Tails
<1>3. CASE GetHead
  <2>1. /\ head' = buff[getIdx] /\ cpc = "head" /\ cpc' = "tail"
        /\ UNCHANGED <<puts, putIdx, gets, getIdx, tail>>
    BY <1>3 DEF GetHead, prodVars
  <2>2. Rings(head', Heads')
    BY <2>1, CellIsDue DEF Heads
  <2> QED
    BY <2>1, <2>2 DEF LossInv, Rings, Tails
<1>4. CASE GetTail
  <2>1. /\ tail' = buff[getIdx] /\ cpc = "tail" /\ cpc' = "advance"
        /\ UNCHANGED <<puts, putIdx, gets, getIdx, head>>
    BY <1>4 DEF GetTail, prodVars
  <2>2. Rings(tail', Tails')
    BY <2>1, CellIsDue DEF Tails
  <2> QED
    BY <2>1, <2>2 DEF LossInv, Rings, Heads
<1>5. CASE GetAdvance
  <2>1. /\ gets' = gets + 1 /\ getIdx' = Advance(getIdx, Size)
        /\ cpc = "advance" /\ cpc' \in {"idle", "head"}
        /\ UNCHANGED <<puts, putIdx, head, tail>>
    BY <1>5 DEF GetAdvance, prodVars
  <2>2. Rings(gets', getIdx')
    BY <2>1, RingsAdvance DEF LossInv, TypeOK
  <2>3. Heads' = Heads /\ Tails' = Tails
    BY <2>1 DEF Heads, Tails
  <2> QED
    BY <2>1, <2>2, <2>3 DEF LossInv, Rings
<1> QED
  BY <1>1, <1>2, <1>3, <1>4, <1>5 DEF Next

\* However often and wherever the ring is overrun, what is lost is lost in
\* whole rings, for the first and for the last word of every item.
THEOREM LossCorrect == Spec => []LossIsWholeRings
<1>1. Init => LossInv
  <2> SUFFICES ASSUME Init PROVE LossInv
    OBVIOUS
  <2>1. Rings(0, 0)
    BY SizeAssumption DEF Rings
  <2> QED
    BY <2>1 DEF Init, LossInv, Heads, Tails
<1>2. TypeOK /\ CellInv /\ LossInv /\ [Next]_vars => LossInv'
  BY LossStep
<1>3. TypeOK /\ LossInv => LossIsWholeRings
  <2> SUFFICES ASSUME TypeOK, LossInv PROVE LossIsWholeRings
    OBVIOUS
  <2>1. head \in Int /\ tail \in Int /\ Heads \in Int /\ Tails \in Int
    BY DEF TypeOK, Heads, Tails
  <2> QED
    BY <2>1, RingsLemma DEF LossInv, LossIsWholeRings
<1> QED
  BY <1>1, <1>2, <1>3, TypeCorrect, CellsHoldNewest, PTL DEF Spec

----------------------------------------------------------------------------
\* From here on the consumer reads Avail() before every Get.

\* The item about to be copied is newer than what was copied before: the cell
\* under getIdx while a Get is due, the next cell once its word is copied.  A
\* Put in between can only make the cell newer still.
OrderInv ==
    LET next == Advance(getIdx, Size)
    IN  /\ head <= puts /\ tail <= puts
        /\ cpc = "idle" /\ putIdx # getIdx => head < buff[getIdx] /\ tail < buff[getIdx]
        /\ cpc = "head" => head < buff[getIdx] /\ tail < buff[getIdx]
        /\ cpc = "tail" => /\ tail < buff[getIdx]
                           /\ putIdx # next => head < buff[next]
        /\ cpc = "advance" /\ putIdx # next => head < buff[next] /\ tail < buff[next]

\* A handler that consumes finds all the items it counted still there, with a
\* half-finished Put only in the cell behind them, and copies each in one piece.
HandlerInv ==
    ~ProducerIsr => /\ left <= Unread
                    /\ cpc = "tail" => head = buff[getIdx]
                    /\ cpc \in {"idle", "head", "advance"} => head = tail

\* What GetHead and GetTail copy was published, and the next cell is newer
\* unless it is the one Put writes next.
LEMMA CopiedCell ==
    ASSUME TypeOK, CellInv, ConsumerRuns, ~ProducerIsr => putIdx # getIdx
    PROVE  LET next == Advance(getIdx, Size)
           IN  /\ buff[getIdx] <= puts
               /\ putIdx # next => buff[getIdx] < buff[next]
<1>1. ppc = "idle" \/ putIdx # getIdx
  BY ProducerIsrAssumption DEF ConsumerRuns
<1>2. buff[getIdx] <= puts
  BY <1>1, SizeAssumption DEF TypeOK, CellInv, Cells
<1>3. ASSUME putIdx # Advance(getIdx, Size)
      PROVE  buff[getIdx] < buff[Advance(getIdx, Size)]
  <2>1. /\ Advance(getIdx, Size) = IF getIdx = Size - 1 THEN 0 ELSE getIdx + 1
        /\ Advance(getIdx, Size) \in Cells
    BY AdvanceLemma DEF TypeOK
  <2> QED
    BY <1>1, <1>3, <2>1, SizeAssumption DEF TypeOK, CellInv, Cells
<1> QED
  BY <1>2, <1>3

\* The consumer of a ring whose producer stands still has something to copy.
LEMMA Pending ==
    ASSUME TypeOK, HandlerInv, cpc # "idle", ~ProducerIsr
    PROVE  putIdx # getIdx
  BY DEF TypeOK, HandlerInv, Unread, Avail, Cells

\* No access disturbs what a consumer in the handler relies on.
LEMMA HandlerStep ==
    ASSUME TypeOK, HandlerInv, [Next]_vars
    PROVE  HandlerInv'
<1> SUFFICES ASSUME ~ProducerIsr PROVE HandlerInv'
  BY DEF HandlerInv
<1> USE SizeAssumption, BufLenAssumption
    DEF TypeOK, HandlerInv, Unread, Avail, Cells, prodVars, consVars
<1>1. CASE PutStore \/ PutPublish
  <2>1. /\ left' = 0 /\ cpc = "idle"
        /\ UNCHANGED <<cpc, head, tail, getIdx>>
    BY <1>1 DEF PutStore, PutPublish, ProducerRuns
  <2>2. putIdx' \in Cells /\ getIdx' \in Cells
    BY <1>1, <2>1, AdvanceLemma DEF PutStore, PutPublish
  <2>3. left' <= Unread'
    <3>1. Avail(putIdx', getIdx', Size) \in Cells
      BY <2>2, AvailLemma
    <3> QED
      BY <2>1, <3>1
  <2>4. cpc' = "idle" /\ head' = tail'
    BY <2>1
  <2> QED
    BY <2>3, <2>4
<1>2. CASE GetCheck
  BY <1>2 DEF GetCheck
<1>3. CASE GetHead
  BY <1>3 DEF GetHead
<1>4. CASE GetTail
  BY <1>4 DEF GetTail
<1>5. CASE GetAdvance
  <2>1. getIdx' = IF getIdx = Size - 1 THEN 0 ELSE getIdx + 1
    BY <1>5, AdvanceLemma DEF GetAdvance
  <2> QED
    BY <1>5, <2>1 DEF GetAdvance
<1>6. CASE UNCHANGED vars
  BY <1>6 DEF vars
<1> QED
  BY <1>1, <1>2, <1>3, <1>4, <1>5, <1>6 DEF Next

\* An item is torn only where the producer is the handler and has overrun the ring.
THEOREM TornCorrect == Spec => []TornOnlyByOverrun
<1>1. Init => FifoInv /\ HandlerInv
  BY SizeAssumption DEF Init, FifoInv, InStep, HandlerInv, Heads, Tails, Unread, Avail
<1>2. TypeOK /\ TypeOK' /\ CellInv /\ FifoInv /\ HandlerInv /\ [Next]_vars
      => FifoInv' /\ HandlerInv'
  BY FifoStep, HandlerStep
<1>3. TypeOK /\ FifoInv /\ HandlerInv => TornOnlyByOverrun
  BY ProducerIsrAssumption
  DEF TypeOK, FifoInv, InStep, HandlerInv, Heads, Tails, TornOnlyByOverrun
<1> QED
  BY <1>1, <1>2, <1>3, TypeCorrect, CellsHoldNewest, PTL DEF Spec

\* No access takes the copied words past what is published or back in order.
LEMMA OrderStep ==
    ASSUME TypeOK, TypeOK', CellInv, OrderInv, HandlerInv, [Next]_vars, BufLen = 1
    PROVE  OrderInv'
<1> DEFINE next == Advance(getIdx, Size)
<1>n. /\ next = IF getIdx = Size - 1 THEN 0 ELSE getIdx + 1
      /\ next \in Cells
  BY AdvanceLemma DEF TypeOK
<1>1. CASE PutStore
  <2>1. /\ UNCHANGED <<putIdx, getIdx, cpc, head, tail, puts>>
        /\ \A i \in Cells : buff'[i] = IF i = putIdx THEN puts + 1 ELSE buff[i]
    BY <1>1 DEF PutStore, consVars, TypeOK
  <2> QED
    BY <2>1, <1>n DEF OrderInv, TypeOK
<1>2. CASE PutPublish
  <2>1. /\ UNCHANGED <<buff, getIdx, cpc, head, tail>>
        /\ puts' = puts + 1
    BY <1>2 DEF PutPublish, consVars
  <2>2. buff[putIdx] = puts + 1
    BY <1>2 DEF PutPublish, TypeOK, CellInv, Cells
  <2> QED
    BY <2>1, <2>2, <1>n DEF OrderInv, TypeOK
<1>3. CASE GetCheck
  <2>1. /\ cpc = "idle" /\ cpc' = "head" /\ putIdx # getIdx
        /\ UNCHANGED <<buff, getIdx, head, tail, puts>>
    BY <1>3, SizeAssumption DEF GetCheck, Unread, Avail, prodVars, TypeOK, Cells
  <2> QED
    BY <2>1 DEF OrderInv
<1>4. CASE GetHead
  <2>1. /\ cpc = "head" /\ cpc' = "tail" /\ head' = buff[getIdx]
        /\ UNCHANGED <<buff, putIdx, getIdx, tail, puts>>
    BY <1>4 DEF GetHead, prodVars
  <2>2. buff[getIdx] <= puts /\ (putIdx # next => buff[getIdx] < buff[next])
    BY <1>4, <2>1, CopiedCell, Pending DEF GetHead
  <2> QED
    BY <2>1, <2>2 DEF OrderInv
<1>5. CASE GetTail
  <2>1. /\ cpc = "tail" /\ cpc' = "advance" /\ tail' = buff[getIdx]
        /\ UNCHANGED <<buff, putIdx, getIdx, head, puts>>
    BY <1>5 DEF GetTail, prodVars
  <2>2. buff[getIdx] <= puts /\ (putIdx # next => buff[getIdx] < buff[next])
    BY <1>5, <2>1, CopiedCell, Pending DEF GetTail
  <2> QED
    BY <2>1, <2>2 DEF OrderInv
<1>6. CASE GetAdvance
  <2>1. /\ cpc = "advance" /\ cpc' = "idle" /\ getIdx' = next
        /\ UNCHANGED <<buff, putIdx, head, tail, puts>>
    BY <1>6 DEF GetAdvance, prodVars, TypeOK
  <2> QED
    BY <2>1 DEF OrderInv
<1>7. CASE UNCHANGED vars
  BY <1>7 DEF vars, prodVars, consVars, OrderInv
<1> QED
  BY <1>1, <1>2, <1>3, <1>4, <1>5, <1>6, <1>7 DEF Next

\* A ring read one Avail() per Get keeps the promise of an ordered channel for
\* the first and for the last word of its items, overrun or not.
THEOREM OrderCorrect == BufLen = 1 => (Spec => ImplementsOrderedChannel)
<1> SUFFICES ASSUME BufLen = 1 PROVE Spec => ImplementsOrderedChannel
  OBVIOUS
<1>1. Init => OrderInv /\ HandlerInv
  BY SizeAssumption DEF Init, OrderInv, HandlerInv, Unread, Avail
<1>2. /\ TypeOK /\ TypeOK' /\ CellInv /\ OrderInv /\ HandlerInv /\ [Next]_vars
      => OrderInv' /\ HandlerInv'
  BY OrderStep, HandlerStep
<1>3. Init => HeadChannel!Init /\ TailChannel!Init
  BY DEF Init, HeadChannel!Init, TailChannel!Init, Heads, Tails
<1>4. TypeOK /\ CellInv /\ OrderInv /\ HandlerInv /\ [Next]_vars
      => [HeadChannel!Next]_(HeadChannel!vars) /\ [TailChannel!Next]_(TailChannel!vars)
  <2> SUFFICES ASSUME TypeOK, CellInv, OrderInv, HandlerInv, [Next]_vars
               PROVE  /\ [HeadChannel!Next]_(HeadChannel!vars)
                      /\ [TailChannel!Next]_(TailChannel!vars)
    OBVIOUS
  <2> USE DEF HeadChannel!Next, HeadChannel!vars, HeadChannel!Send, HeadChannel!Deliver,
              TailChannel!Next, TailChannel!vars, TailChannel!Send, TailChannel!Deliver
  <2>1. CASE PutPublish
    BY <2>1 DEF PutPublish, consVars, Heads, Tails
  <2>2. CASE GetHead
    <3>1. buff[getIdx] <= puts /\ head < buff[getIdx] /\ buff[getIdx] \in Int
      BY <2>2, CopiedCell, Pending DEF GetHead, OrderInv, TypeOK
    <3>2. /\ head' \in (head + 1)..puts /\ Heads' = Heads + 1
          /\ UNCHANGED <<tail, Tails, puts>>
      BY <2>2, <3>1 DEF GetHead, prodVars, TypeOK, Heads, Tails
    <3> QED
      BY <3>2
  <2>3. CASE GetTail
    <3>1. buff[getIdx] <= puts /\ tail < buff[getIdx] /\ buff[getIdx] \in Int
      BY <2>3, CopiedCell, Pending DEF GetTail, OrderInv, TypeOK
    <3>2. /\ tail' \in (tail + 1)..puts /\ Tails' = Tails + 1
          /\ UNCHANGED <<head, Heads, puts>>
      BY <2>3, <3>1 DEF GetTail, prodVars, TypeOK, Heads, Tails
    <3> QED
      BY <3>2
  <2>4. CASE PutStore \/ GetCheck \/ GetAdvance \/ UNCHANGED vars
    BY <2>4 DEF PutStore, GetCheck, GetAdvance, vars, prodVars, consVars, Heads, Tails, TypeOK
  <2> QED
    BY <2>1, <2>2, <2>3, <2>4 DEF Next
<1> QED
  BY <1>1, <1>2, <1>3, <1>4, TypeCorrect, CellsHoldNewest, PTL
  DEF Spec, ImplementsOrderedChannel, HeadChannel!Spec, TailChannel!Spec
=============================================================================
