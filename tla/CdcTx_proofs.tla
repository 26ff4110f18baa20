---------------------------- MODULE CdcTx_proofs -----------------------------
(* Proofs about CdcTx, for every size of the ring and of the packets and any  *)
(* number of bytes.  Every step of the program and the handler is seen as     *)
(* what it does to Pipeline, the bytes between Usb::send and the host: most   *)
(* of them only move a byte along, which is an identity of concatenations.    *)
EXTENDS CdcTx, SequenceTheorems, TLAPS

Idx == 0..(TxSize - 1)
Num == 0..MaxBytes

TypeInv ==
    /\ TypeOK
    /\ buf \in Seq(Num) /\ fifo \in Seq(Num)
    /\ irqOff <=> mpc \in {"fill", "store", "enable"}
    /\ mpc = "store" => Len(buf) < PktSize
    /\ mpc \in {"put", "publish"} => togo > 0
    /\ accepted + togo <= MaxBytes
    /\ mpc = "publish" => txBuf[putIdx] = accepted + 1

----------------------------------------------------------------------------
(* The ring as a sequence                                                     *)

Stretch(t, g, n) == [i \in 1..n |-> t[(g + i - 1) % TxSize]]
Ring(t, p, g) == Stretch(t, g, Avail(p, g, TxSize))

\* Indices wrap around at most once.
LEMMA Wrap ==
    ASSUME NEW g \in Idx, NEW k \in 0..TxSize
    PROVE  /\ (g + k) % TxSize = IF g + k < TxSize THEN g + k ELSE g + k - TxSize
           /\ (g + k) % TxSize \in Idx
<1>1. (g + k) % TxSize = IF g + k < TxSize THEN g + k ELSE g + k - TxSize
  BY TxSizeAssumption, SMT DEF Idx
<1> QED
  BY <1>1, TxSizeAssumption DEF Idx

LEMMA AvailLemma ==
    ASSUME NEW p \in Idx, NEW g \in Idx
    PROVE  /\ Avail(p, g, TxSize) \in Idx
           /\ Advance(p, TxSize) = IF p = TxSize - 1 THEN 0 ELSE p + 1
           /\ Advance(p, TxSize) \in Idx
           /\ Free(p, g, TxSize) = 0 <=> Avail(p, g, TxSize) = TxSize - 1
           /\ \A n \in 0..Avail(p, g, TxSize) :
                 /\ (g + n) % TxSize \in Idx
                 /\ Avail(p, (g + n) % TxSize, TxSize) = Avail(p, g, TxSize) - n
           /\ Free(p, g, TxSize) # 0 => Avail(Advance(p, TxSize), g, TxSize) = Avail(p, g, TxSize) + 1
           /\ Free(p, g, TxSize) = 0 => Avail(Advance(p, TxSize), g, TxSize) = 0
           /\ (g + Avail(p, g, TxSize)) % TxSize = p
           /\ \A n \in 0..(Avail(p, g, TxSize) - 1) : (g + n) % TxSize # p
<1>1. Advance(p, TxSize) = IF p = TxSize - 1 THEN 0 ELSE p + 1
  <2>1. (p + 1) % TxSize = IF p + 1 < TxSize THEN p + 1 ELSE p + 1 - TxSize
    BY Wrap, TxSizeAssumption
  <2> QED
    BY <2>1, TxSizeAssumption DEF Advance, Idx
<1>2. Avail(p, g, TxSize) \in Idx /\ Avail(p, g, TxSize) = IF p < g THEN p - g + TxSize ELSE p - g
  BY TxSizeAssumption DEF Avail, Idx
<1>3. \A n \in 0..Avail(p, g, TxSize) :
         /\ (g + n) % TxSize = IF g + n < TxSize THEN g + n ELSE g + n - TxSize
         /\ (g + n) % TxSize \in Idx
  <2> TAKE n \in 0..Avail(p, g, TxSize)
  <2>1. n \in 0..TxSize
    BY <1>2, TxSizeAssumption DEF Idx
  <2> QED
    BY <2>1, Wrap
<1>4. Free(p, g, TxSize) = 0 <=> Avail(p, g, TxSize) = TxSize - 1
  BY TxSizeAssumption DEF Avail, Free, Idx
<1>5. \A n \in 0..Avail(p, g, TxSize) : Avail(p, (g + n) % TxSize, TxSize) = Avail(p, g, TxSize) - n
  BY <1>2, <1>3, TxSizeAssumption DEF Avail, Idx
<1>6. /\ Free(p, g, TxSize) # 0 => Avail(Advance(p, TxSize), g, TxSize) = Avail(p, g, TxSize) + 1
      /\ Free(p, g, TxSize) = 0 => Avail(Advance(p, TxSize), g, TxSize) = 0
  BY <1>1, <1>2, <1>4, TxSizeAssumption DEF Avail, Idx
<1>7. /\ (g + Avail(p, g, TxSize)) % TxSize = p
      /\ \A n \in 0..(Avail(p, g, TxSize) - 1) : (g + n) % TxSize # p
  BY <1>2, <1>3, TxSizeAssumption DEF Idx
<1> QED
  BY <1>1, <1>2, <1>3, <1>4, <1>5, <1>6, <1>7, TxSizeAssumption DEF Idx

LEMMA StretchLemma ==
    ASSUME NEW t \in [Idx -> Num], NEW g \in Idx, NEW n \in Idx
    PROVE  /\ Stretch(t, g, n) \in Seq(Num) /\ Len(Stretch(t, g, n)) = n
           /\ \A i \in 1..n : /\ Stretch(t, g, n)[i] = t[(g + i - 1) % TxSize]
                              /\ (g + i - 1) % TxSize = (g + (i - 1)) % TxSize
<1>1. n \in Nat /\ g \in Nat
  BY TxSizeAssumption DEF Idx
<1>2. \A i \in 1..n : g + i - 1 = g + (i - 1) /\ (g + (i - 1)) % TxSize \in Idx
  <2> TAKE i \in 1..n
  <2>1. i - 1 \in 0..TxSize /\ g + i - 1 = g + (i - 1)
    BY <1>1, TxSizeAssumption DEF Idx
  <2> QED
    BY <2>1, Wrap
<1>3. \A i \in 1..n : (g + i - 1) % TxSize \in Idx /\ (g + i - 1) % TxSize = (g + (i - 1)) % TxSize
  BY <1>2
<1>4. \A i \in 1..n : t[(g + i - 1) % TxSize] \in Num
  BY <1>3
<1>5. Stretch(t, g, n) \in [1..n -> Num]
  BY <1>4, Zenon DEF Stretch
<1>6. Stretch(t, g, n) \in Seq(Num) /\ Len(Stretch(t, g, n)) = n
  BY <1>1, <1>5
<1>7. \A i \in 1..n : Stretch(t, g, n)[i] = t[(g + i - 1) % TxSize]
  BY Zenon DEF Stretch
<1> QED
  BY <1>3, <1>6, <1>7

LEMMA RingLemma ==
    ASSUME NEW t \in [Idx -> Num], NEW p \in Idx, NEW g \in Idx
    PROVE  Ring(t, p, g) \in Seq(Num) /\ Len(Ring(t, p, g)) = Avail(p, g, TxSize)
<1>1. Avail(p, g, TxSize) \in Idx
  BY AvailLemma
<1> QED
  BY <1>1, StretchLemma DEF Ring

\* What Get takes n times, and what is left
LEMMA RingTake ==
    ASSUME NEW t \in [Idx -> Num], NEW p \in Idx, NEW g \in Idx, NEW n \in 0..Avail(p, g, TxSize)
    PROVE  /\ Stretch(t, g, n) \in Seq(Num) /\ Len(Stretch(t, g, n)) = n
           /\ Ring(t, p, g) = Stretch(t, g, n) \o Ring(t, p, (g + n) % TxSize)
<1> DEFINE m == Avail(p, g, TxSize)
           h == (g + n) % TxSize
           a == Stretch(t, g, n)
           b == Stretch(t, h, m - n)
           c == Stretch(t, g, m)
<1>1. m \in Idx /\ n \in Idx /\ m - n \in Idx /\ h \in Idx /\ Avail(p, h, TxSize) = m - n /\ m \in Nat /\ n \in 0..m
  <2>0. \A k \in 0..m : (g + k) % TxSize \in Idx /\ Avail(p, (g + k) % TxSize, TxSize) = m - k
    BY AvailLemma
  <2>1. m \in Idx /\ h \in Idx /\ Avail(p, h, TxSize) = m - n
    BY <2>0, AvailLemma
  <2> HIDE DEF m, h
  <2>2. n \in 0..m
    BY DEF m
  <2> QED
    BY <2>1, <2>2, TxSizeAssumption DEF Idx
<1>2. /\ a \in Seq(Num) /\ b \in Seq(Num) /\ c \in Seq(Num)
      /\ Len(a) = n /\ Len(b) = m - n /\ Len(c) = m
      /\ \A i \in 1..n : a[i] = t[(g + (i - 1)) % TxSize]
      /\ \A i \in 1..(m - n) : b[i] = t[(h + (i - 1)) % TxSize]
      /\ \A i \in 1..m : c[i] = t[(g + (i - 1)) % TxSize]
  <2> HIDE DEF m, h
  <2>1. a \in Seq(Num) /\ Len(a) = n /\ \A i \in 1..n : a[i] = t[(g + (i - 1)) % TxSize]
    BY <1>1, StretchLemma
  <2>2. b \in Seq(Num) /\ Len(b) = m - n /\ \A i \in 1..(m - n) : b[i] = t[(h + (i - 1)) % TxSize]
    BY <1>1, StretchLemma
  <2>3. c \in Seq(Num) /\ Len(c) = m /\ \A i \in 1..m : c[i] = t[(g + (i - 1)) % TxSize]
    BY <1>1, StretchLemma
  <2> QED BY <2>1, <2>2, <2>3
<1> HIDE DEF a, b, c, m
<1>3. \A i \in (n + 1)..m : (h + (i - n - 1)) % TxSize = (g + (i - 1)) % TxSize
  <2> TAKE i \in (n + 1)..m
  <2>1. i - n - 1 \in 0..TxSize /\ i - 1 \in 0..TxSize /\ n \in 0..TxSize /\ g \in 0..(TxSize - 1)
        /\ i - 1 < TxSize /\ n <= i - 1 /\ TxSize \in Nat /\ TxSize > 0
    BY <1>1, TxSizeAssumption DEF Idx
  <2>2. h = IF g + n < TxSize THEN g + n ELSE g + n - TxSize
    BY <2>1, Wrap
  <2>3. /\ (h + (i - n - 1)) % TxSize = IF h + (i - n - 1) < TxSize THEN h + (i - n - 1) ELSE h + (i - n - 1) - TxSize
        /\ (g + (i - 1)) % TxSize = IF g + (i - 1) < TxSize THEN g + (i - 1) ELSE g + (i - 1) - TxSize
    BY <1>1, <2>1, Wrap
  <2> HIDE DEF h
  <2> QED
    BY <2>1, <2>2, <2>3
<1> HIDE DEF h
<1>4. a \o b \in Seq(Num) /\ Len(a \o b) = m /\ \A i \in 1..m : (a \o b)[i] = IF i <= n THEN a[i] ELSE b[i - n]
  <2>1. /\ a \o b \in Seq(Num) /\ Len(a \o b) = Len(a) + Len(b)
        /\ \A i \in 1..(Len(a) + Len(b)) : (a \o b)[i] = IF i <= Len(a) THEN a[i] ELSE b[i - Len(a)]
    BY <1>2, ConcatProperties
  <2>2. Len(a) + Len(b) = m
    BY <1>1, <1>2
  <2> QED
    BY <1>2, <2>1, <2>2
<1>5. \A i \in 1..m : (a \o b)[i] = c[i]
  <2> TAKE i \in 1..m
  <2>1. CASE i <= n
    <3>1. i \in 1..n
      BY <1>1, <2>1
    <3> QED
      BY <1>2, <1>4, <2>1, <3>1
  <2>2. CASE ~(i <= n)
    <3>1. i - n \in 1..(m - n) /\ i \in (n + 1)..m /\ i - n - 1 = (i - n) - 1
      BY <1>1, <2>2
    <3>2. b[i - n] = t[(h + (i - n - 1)) % TxSize]
      BY <1>2, <3>1
    <3> QED
      BY <1>2, <1>3, <1>4, <2>2, <3>1, <3>2
  <2> QED
    BY <2>1, <2>2
<1>6. a \o b = c
  BY <1>2, <1>4, <1>5, SeqEqual
<1> QED
  BY <1>1, <1>2, <1>6 DEF Ring, a, b, c, h, m

\* Put into a ring that has a free cell, and into a full one
LEMMA RingMore ==
    ASSUME NEW t \in [Idx -> Num], NEW p \in Idx, NEW g \in Idx
    PROVE  /\ Free(p, g, TxSize) # 0 => Ring(t, Advance(p, TxSize), g) = Ring(t, p, g) \o <<t[p]>>
           /\ Free(p, g, TxSize) = 0 => Ring(t, Advance(p, TxSize), g) = <<>>
<1> DEFINE q == Advance(p, TxSize)
           m == Avail(p, g, TxSize)
<1>1. q \in Idx /\ m \in Idx /\ m \in Nat
  <2>1. q \in Idx /\ m \in Idx
    BY AvailLemma
  <2> QED
    BY <2>1, TxSizeAssumption DEF Idx
<1>2. ASSUME Free(p, g, TxSize) # 0 PROVE Ring(t, q, g) = Ring(t, p, g) \o <<t[p]>>
  <2>1. Avail(q, g, TxSize) = m + 1 /\ m \in 0..Avail(q, g, TxSize)
    BY <1>1, <1>2, AvailLemma
  <2>2. (g + m) % TxSize = p
    BY AvailLemma
  <2>3. Ring(t, q, g) = Stretch(t, g, m) \o Ring(t, q, p)
    <3> HIDE DEF q, m
    <3>1. Ring(t, q, g) = Stretch(t, g, m) \o Ring(t, q, (g + m) % TxSize)
      BY <1>1, <2>1, RingTake
    <3> QED
      BY <2>2, <3>1
  <2>4. Avail(q, p, TxSize) = 1
    <3>1. q = IF p = TxSize - 1 THEN 0 ELSE p + 1
      BY AvailLemma
    <3> QED
      BY <3>1, TxSizeAssumption DEF Avail, Idx
  <2>5. Ring(t, q, p) = <<t[p]>>
    <3> HIDE DEF q
    <3>1. 1 \in Idx
      BY TxSizeAssumption DEF Idx
    <3>2. /\ Ring(t, q, p) \in Seq(Num) /\ Len(Ring(t, q, p)) = 1
          /\ Ring(t, q, p)[1] = t[(p + (1 - 1)) % TxSize]
      <4>1. Ring(t, q, p) = Stretch(t, p, 1)
        BY <2>4 DEF Ring
      <4>2. /\ Stretch(t, p, 1) \in Seq(Num) /\ Len(Stretch(t, p, 1)) = 1
            /\ \A i \in 1..1 : /\ Stretch(t, p, 1)[i] = t[(p + i - 1) % TxSize]
                              /\ (p + i - 1) % TxSize = (p + (i - 1)) % TxSize
        BY <3>1, StretchLemma
      <4>3. 1 \in 1..1
        OBVIOUS
      <4> QED
        BY <4>1, <4>2, <4>3
    <3>3. (p + (1 - 1)) % TxSize = p
      <4>1. 1 - 1 = 0 /\ 0 \in 0..TxSize /\ p + 0 = p /\ p < TxSize
        BY TxSizeAssumption DEF Idx
      <4> QED
        BY <4>1, Wrap
    <3> QED
      BY <3>2, <3>3
  <2> QED
    BY <2>3, <2>5 DEF Ring
<1>3. ASSUME Free(p, g, TxSize) = 0 PROVE Ring(t, q, g) = <<>>
  <2>1. Avail(q, g, TxSize) = 0
    BY <1>3, AvailLemma
  <2>2. Ring(t, q, g) \in Seq(Num) /\ Len(Ring(t, q, g)) = 0
    BY <1>1, <2>1, RingLemma
  <2> QED
    BY <2>2
<1> QED
  BY <1>2, <1>3

\* The first half of a Put is invisible.
LEMMA RingSame ==
    ASSUME NEW t \in [Idx -> Num], NEW p \in Idx, NEW g \in Idx, NEW x \in Num
    PROVE  Ring([t EXCEPT ![p] = x], p, g) = Ring(t, p, g)
<1> DEFINE u == [t EXCEPT ![p] = x]
           m == Avail(p, g, TxSize)
<1>1. u \in [Idx -> Num] /\ \A c \in Idx : c # p => u[c] = t[c]
  OBVIOUS
<1>2. m \in Idx /\ \A n \in 0..(m - 1) : (g + n) % TxSize # p /\ (g + n) % TxSize \in Idx
  <2>1. /\ m \in Idx /\ \A n \in 0..(m - 1) : (g + n) % TxSize # p
        /\ \A n \in 0..m : (g + n) % TxSize \in Idx
    BY AvailLemma
  <2> HIDE DEF m
  <2>2. \A n \in 0..(m - 1) : n \in 0..m
    BY <2>1, TxSizeAssumption DEF Idx
  <2> QED
    BY <2>1, <2>2
<1> HIDE DEF u, m
<1>3. /\ Stretch(t, g, m) \in Seq(Num) /\ Stretch(u, g, m) \in Seq(Num)
      /\ Len(Stretch(t, g, m)) = m /\ Len(Stretch(u, g, m)) = m
      /\ \A i \in 1..m : /\ Stretch(t, g, m)[i] = t[(g + (i - 1)) % TxSize]
                         /\ Stretch(u, g, m)[i] = u[(g + (i - 1)) % TxSize]
  BY <1>1, <1>2, StretchLemma
<1>4. \A i \in 1..m : Stretch(u, g, m)[i] = Stretch(t, g, m)[i]
  <2> TAKE i \in 1..m
  <2>1. i - 1 \in 0..(m - 1)
    BY <1>2, TxSizeAssumption DEF Idx
  <2> QED
    BY <1>1, <1>2, <1>3, <2>1
<1>5. Stretch(u, g, m) = Stretch(t, g, m)
  BY <1>3, <1>4, SeqEqual
<1> QED
  BY <1>5 DEF Ring, u, m

----------------------------------------------------------------------------
(* Types                                                                      *)

Flags == {irqOff, xfrc, vbus, connected, sdis, configured, overrun, dropped, missed, stale}

LEMMA Sizes ==
    /\ TxSize \in Nat /\ TxSize > 1 /\ PktSize \in Nat /\ PktSize > 0
    /\ Burst \in Nat /\ MaxBytes \in Nat /\ MaxReplugs \in Nat
BY TxSizeAssumption, PktSizeAssumption, BoundsAssumption

\* What the loop of the callback makes of the packet buffer
LEMMA FilledLemma ==
    ASSUME TypeInv, mpc # "store"
    PROVE  /\ FillCount \in 0..Unread
           /\ Filled = buf \o Stretch(txBuf, getIdx, FillCount)
           /\ Filled \in Seq(Num) /\ Len(Filled) <= PktSize
<1>1. /\ txBuf \in [Idx -> Num] /\ putIdx \in Idx /\ getIdx \in Idx
      /\ buf \in Seq(Num) /\ Len(buf) \in Nat /\ Len(buf) <= PktSize
  BY DEF TypeInv, TypeOK, Idx, Num
<1>2. Unread \in Idx /\ Unread = Avail(putIdx, getIdx, TxSize)
  BY <1>1, AvailLemma DEF Unread
<1>3. FillCount \in 0..Unread /\ FillCount \in Idx /\ Len(buf) + FillCount <= PktSize
  BY <1>1, <1>2, Sizes DEF FillCount, Idx
<1>4. Filled = buf \o Stretch(txBuf, getIdx, FillCount)
  BY Zenon DEF Filled, Stretch
<1>5. Stretch(txBuf, getIdx, FillCount) \in Seq(Num) /\ Len(Stretch(txBuf, getIdx, FillCount)) = FillCount
  BY <1>1, <1>3, StretchLemma
<1>6. Filled \in Seq(Num) /\ Len(Filled) = Len(buf) + FillCount
  BY <1>1, <1>4, <1>5, ConcatProperties
<1> QED
  BY <1>3, <1>4, <1>6

\* usbd_ep_write_packet takes the packet or leaves it in the buffer.
LEMMA WriteLemma ==
    ASSUME TypeInv, NEW packet \in Seq(Num), WritePacket(packet)
    PROVE  \/ /\ pktcnt = 0 /\ fifo = <<>> /\ packet # <<>>
              /\ pktcnt' = 1 /\ fifo' = packet /\ buf' = <<>> /\ missed' = FALSE
           \/ pktcnt' = pktcnt /\ fifo' = fifo /\ buf' = packet /\ missed' = missed
<1>1. Len(packet) = PktSize => packet # <<>>
  BY Sizes
<1>2. pktcnt = 0 => fifo = <<>>
  BY DEF TypeInv, TypeOK
<1> QED
  BY <1>1, <1>2 DEF WritePacket

LEMMA TypeStep == TypeInv /\ [Next]_vars => TypeInv'
<1> SUFFICES ASSUME TypeInv, [Next]_vars PROVE TypeInv'
  OBVIOUS
<1> USE Sizes
<1>1. CASE SendCall
  <2>1. togo' \in 1..Burst /\ accepted + togo' <= MaxBytes /\ mpc = "idle" /\ mpc' = "put"
    BY <1>1 DEF SendCall, Main
  <2>2. UNCHANGED <<ringVars, epVars, linkVars, held, buf, irqOff, isr, sentVars, hostVars, ghostVars>>
    BY <1>1 DEF SendCall
  <2>3. /\ UNCHANGED <<txBuf, putIdx, getIdx, held, buf, isr, fifo, pktcnt, accepted, hostGot, taken, replugs>>
        /\ UNCHANGED <<irqOff, xfrc, vbus, connected, sdis, configured, overrun, dropped, missed, stale>>
    BY <2>2 DEF ringVars, epVars, linkVars, sentVars, ghostVars, hostVars
  <2>4. /\ Len(buf') <= PktSize /\ Len(fifo') <= PktSize /\ (pktcnt' = 1 <=> fifo' # <<>>)
        /\ buf' \in Seq(Num) /\ fifo' \in Seq(Num)
    BY <2>3 DEF TypeInv, TypeOK
  <2>5. {irqOff, xfrc, vbus, connected, sdis, configured, overrun, dropped, missed, stale}' \subseteq BOOLEAN
    BY <2>3, Zenon DEF TypeInv, TypeOK
  <2>6. /\ txBuf' \in [0..(TxSize - 1) -> 0..MaxBytes] /\ mpc' = "put" /\ togo' \in 0..Burst /\ togo' > 0
        /\ accepted + togo' <= MaxBytes /\ ~irqOff
    <3>1. txBuf \in [0..(TxSize - 1) -> 0..MaxBytes] /\ (mpc = "idle" => ~irqOff)
      BY DEF TypeInv, TypeOK
    <3> QED BY <2>1, <2>3, <3>1
  <2>7. TypeOK'
    BY <2>3, <2>4, <2>5, <2>6 DEF TypeInv, TypeOK
  <2> HIDE DEF TypeOK
  <2> QED
    BY <2>3, <2>4, <2>6, <2>7 DEF TypeInv
<1>2. CASE SendPut
  BY <1>2 DEF TypeInv, TypeOK, SendPut, Main, ringVars, epVars, linkVars, sentVars, ghostVars, hostVars, Num
<1>3. CASE SendPublish
  <2>1. putIdx' \in 0..(TxSize - 1)
    BY <1>3, AvailLemma DEF TypeInv, TypeOK, SendPublish, Idx
  <2>2. accepted' \in 0..MaxBytes /\ togo' \in 0..Burst /\ accepted' + togo' <= MaxBytes
        /\ (mpc' \in {"put", "publish"} => togo' > 0)
    BY <1>3 DEF TypeInv, TypeOK, SendPublish, Main
  <2>3. overrun' \in BOOLEAN
    BY <1>3, Zenon DEF TypeInv, TypeOK, SendPublish
  <2> QED
    BY <1>3, <2>1, <2>2, <2>3 DEF TypeInv, TypeOK, SendPublish, Main, epVars, linkVars, ghostVars, hostVars
<1>4. CASE SendCheck
  BY <1>4 DEF TypeInv, TypeOK, SendCheck, Main, ringVars, epVars, linkVars, sentVars, ghostVars, hostVars
<1>5. CASE FillGet
  BY <1>5, AvailLemma DEF TypeInv, TypeOK, FillGet, Main, ringVars, epVars, linkVars, sentVars, ghostVars, hostVars, Idx
<1>6. CASE FillStore
  <2>1. buf \in Seq(Num) /\ held \in Num /\ buf' = Append(buf, held) /\ Len(buf) < PktSize
    BY <1>6 DEF TypeInv, TypeOK, FillStore, Main, Num
  <2>2. buf' \in Seq(Num) /\ Len(buf') = Len(buf) + 1 /\ Len(buf) \in Nat
    BY <2>1, AppendProperties
  <2>3. buf' \in Seq(Num) /\ Len(buf') <= PktSize
    BY <2>1, <2>2
  <2>4. /\ UNCHANGED <<ringVars, togo, epVars, linkVars, irqOff, isr, sentVars, hostVars, ghostVars>>
        /\ held' = 0 /\ mpc = "store" /\ mpc' = "fill"
    BY <1>6 DEF FillStore, Main
  <2>5. Flags' \subseteq BOOLEAN
    BY <2>4 DEF TypeInv, TypeOK, Flags, epVars, linkVars, sentVars, ghostVars, hostVars
  <2>6. UNCHANGED <<txBuf, putIdx, getIdx, isr, togo, fifo, pktcnt, accepted, hostGot, taken, replugs, irqOff>>
    BY <2>4 DEF ringVars, epVars, linkVars, sentVars, hostVars
  <2>7. TypeOK'
    BY <2>3, <2>4, <2>5, <2>6 DEF TypeInv, TypeOK, Flags
  <2> QED
    BY <2>3, <2>4, <2>6, <2>7 DEF TypeInv
<1>7. CASE FillWrite
  BY <1>7, WriteLemma DEF TypeInv, TypeOK, FillWrite, Main, ringVars, epVars, linkVars, sentVars, ghostVars, hostVars
<1>8. CASE FillDone
  BY <1>8 DEF TypeInv, TypeOK, FillDone, Main, ringVars, epVars, linkVars, sentVars, ghostVars, hostVars
<1>9. CASE CheckConnect
  BY <1>9 DEF TypeInv, TypeOK, CheckConnect, Main, ringVars, mainVars, epVars, linkVars, sentVars, ghostVars, hostVars
<1>10. CASE IrqCallback
  <2>1. mpc # "store" /\ WritePacket(Filled) /\ putIdx \in Idx /\ getIdx \in Idx
    BY <1>10 DEF TypeInv, TypeOK, IrqCallback, Idx
  <2>2. Filled \in Seq(Num) /\ Len(Filled) <= PktSize /\ FillCount \in 0..Unread
    BY <2>1, FilledLemma
  <2>3. (getIdx + FillCount) % TxSize \in Idx
    <3>1. \A n \in 0..Unread : (getIdx + n) % TxSize \in Idx
      BY <2>1, AvailLemma DEF Unread
    <3> QED
      BY <2>2, <3>1
  <2>4. \/ /\ pktcnt = 0 /\ fifo = <<>> /\ Filled # <<>>
           /\ pktcnt' = 1 /\ fifo' = Filled /\ buf' = <<>> /\ missed' = FALSE
        \/ pktcnt' = pktcnt /\ fifo' = fifo /\ buf' = Filled /\ missed' = missed
    BY <2>1, <2>2, WriteLemma
  <2>5. getIdx' \in 0..(TxSize - 1)
    BY <1>10, <2>3 DEF IrqCallback, Idx
  <2>6. /\ buf' \in Seq(Num) /\ fifo' \in Seq(Num) /\ Len(buf') <= PktSize /\ Len(fifo') <= PktSize
        /\ pktcnt' \in {0, 1} /\ (pktcnt' = 1 <=> fifo' # <<>>)
    BY <2>2, <2>4 DEF TypeInv, TypeOK
  <2>7. missed' \in BOOLEAN
    BY <2>4 DEF TypeInv, TypeOK
  <2> QED
    BY <1>10, <2>1, <2>5, <2>6, <2>7 DEF TypeInv, TypeOK, IrqCallback, mainVars, linkVars, sentVars, hostVars
<1>11. CASE IrqClear
  BY <1>11 DEF TypeInv, TypeOK, IrqClear, ringVars, mainVars, linkVars, sentVars, hostVars
<1>12. CASE Configure
  BY <1>12 DEF TypeInv, TypeOK, Configure, ringVars, mainVars, sentVars, hostVars
<1>13. CASE HostTake
  BY <1>13 DEF TypeInv, TypeOK, HostTake, ringVars, mainVars, sentVars, linkVars, Last, Num
<1>14. CASE Plug \/ Unplug
  <2>1. vbus' \in BOOLEAN /\ configured' \in BOOLEAN
    BY <1>14 DEF TypeInv, TypeOK, Plug, Unplug
  <2>2. replugs' \in 0..MaxReplugs
    BY <1>14 DEF TypeInv, TypeOK, Plug, Unplug
  <2>3. UNCHANGED <<ringVars, mainVars, epVars, sentVars, hostVars, ghostVars, connected, sdis, buf, irqOff, isr>>
    BY <1>14 DEF Plug, Unplug
  <2> QED
    BY <2>1, <2>2, <2>3 DEF TypeInv, TypeOK, ringVars, mainVars, epVars, sentVars, ghostVars, hostVars
<1>15. CASE UNCHANGED vars
  BY <1>15 DEF TypeInv, TypeOK, vars, ringVars, mainVars, epVars, linkVars, sentVars, ghostVars, hostVars
<1> QED
  BY <1>1, <1>2, <1>3, <1>4, <1>5, <1>6, <1>7, <1>8, <1>9, <1>10, <1>11, <1>12, <1>13, <1>14, <1>15
     DEF Next, MainStep, Handler

----------------------------------------------------------------------------
(* What a step does to the pipeline                                           *)

Hand == IF mpc = "store" THEN <<held>> ELSE <<>>
Unsent == Ring(txBuf, putIdx, getIdx)
Rest == (buf \o Hand) \o Unsent

Still == UNCHANGED <<hostGot, taken, accepted, overrun, dropped>>

\* A byte moves along, or nothing happens.
Moved == Pipeline' = Pipeline /\ Still

Added == /\ Pipeline' = Pipeline \o <<accepted + 1>>
         /\ accepted' = accepted + 1 /\ UNCHANGED <<hostGot, taken, overrun, dropped>>

\* The ring forgets what it held.
Emptied == /\ \E s, t \in Seq(Num) : Pipeline = s \o t /\ Pipeline' = s
           /\ accepted' = accepted + 1 /\ overrun' = TRUE /\ UNCHANGED <<hostGot, taken, dropped>>

Taken == /\ fifo # <<>> /\ hostGot' = fifo[Len(fifo)] /\ taken' = taken + 1
         /\ Pipeline = fifo \o Rest /\ Pipeline' = Rest /\ UNCHANGED <<accepted, overrun, dropped>>

\* SET_CONFIGURATION has lost the packet in the endpoint.
Flushed == /\ Pipeline = fifo \o Rest /\ Pipeline' = Rest
           /\ dropped' = TRUE /\ UNCHANGED <<hostGot, taken, accepted, overrun>>

\* Concatenations of the four parts
LEMMA Regroup ==
    ASSUME NEW S, NEW a \in Seq(S), NEW b \in Seq(S), NEW c \in Seq(S), NEW d \in Seq(S)
    PROVE  /\ (a \o b) \o c \in Seq(S) /\ ((a \o b) \o c) \o d \in Seq(S) /\ (b \o c) \o d \in Seq(S)
           /\ ((a \o b) \o c) \o d = a \o ((b \o c) \o d)
<1>1. a \o b \in Seq(S) /\ b \o c \in Seq(S)
  BY ConcatProperties
<1>2. (a \o b) \o c \in Seq(S) /\ (b \o c) \o d \in Seq(S)
  BY <1>1, ConcatProperties
<1>3. ((a \o b) \o c) \o d \in Seq(S)
  BY <1>2, ConcatProperties
<1>4. (a \o b) \o c = a \o (b \o c)
  BY ConcatAssociative, SMTT(30)
<1>5. (a \o (b \o c)) \o d = a \o ((b \o c) \o d)
  BY <1>1, ConcatAssociative, SMTT(30)
<1> QED
  BY <1>2, <1>3, <1>4, <1>5

LEMMA Associative ==
    ASSUME NEW a \in Seq(Num), NEW b \in Seq(Num), NEW c \in Seq(Num)
    PROVE  (a \o b) \o c = a \o (b \o c)
BY ConcatAssociative, SMTT(30)

LEMMA Parts ==
    ASSUME TypeInv
    PROVE  /\ fifo \in Seq(Num) /\ buf \in Seq(Num) /\ Hand \in Seq(Num) /\ Unsent \in Seq(Num)
           /\ txBuf \in [Idx -> Num] /\ putIdx \in Idx /\ getIdx \in Idx
           /\ Pipeline = ((fifo \o buf) \o Hand) \o Unsent
           /\ Pipeline = fifo \o Rest /\ Pipeline \in Seq(Num) /\ Rest \in Seq(Num)
<1>1. /\ fifo \in Seq(Num) /\ buf \in Seq(Num) /\ Hand \in Seq(Num)
      /\ txBuf \in [Idx -> Num] /\ putIdx \in Idx /\ getIdx \in Idx
  <2>1. /\ fifo \in Seq(Num) /\ buf \in Seq(Num) /\ held \in Num
        /\ txBuf \in [Idx -> Num] /\ putIdx \in Idx /\ getIdx \in Idx
    BY DEF TypeInv, TypeOK, Idx, Num
  <2>2. Hand \in Seq(Num)
    BY <2>1 DEF Hand
  <2> QED
    BY <2>1, <2>2
<1>2. Unsent \in Seq(Num)
  BY <1>1, RingLemma DEF Unsent
<1>3. Pipeline = ((fifo \o buf) \o Hand) \o Unsent
  BY Zenon DEF Pipeline, Hand, Unsent, Ring, Stretch, Unread
<1>4. /\ ((fifo \o buf) \o Hand) \o Unsent \in Seq(Num) /\ (buf \o Hand) \o Unsent \in Seq(Num)
      /\ ((fifo \o buf) \o Hand) \o Unsent = fifo \o ((buf \o Hand) \o Unsent)
  <2> DEFINE a == fifo
             b == buf
             c == Hand
             d == Unsent
  <2>1. a \in Seq(Num) /\ b \in Seq(Num) /\ c \in Seq(Num) /\ d \in Seq(Num)
    BY <1>1, <1>2
  <2> HIDE DEF a, b, c, d
  <2>2. /\ ((a \o b) \o c) \o d \in Seq(Num) /\ (b \o c) \o d \in Seq(Num)
        /\ ((a \o b) \o c) \o d = a \o ((b \o c) \o d)
    BY <2>1, Regroup, SMTT(60)
  <2> QED
    BY <2>2 DEF a, b, c, d
<1> QED
  BY <1>1, <1>2, <1>3, <1>4 DEF Rest

LEMMA PipelineStep ==
    TypeInv /\ TypeInv' /\ [Next]_vars => Moved \/ Added \/ Emptied \/ Taken \/ Flushed
<1> SUFFICES ASSUME TypeInv, TypeInv', [Next]_vars PROVE Moved \/ Added \/ Emptied \/ Taken \/ Flushed
  OBVIOUS
<1>1. /\ fifo \in Seq(Num) /\ buf \in Seq(Num) /\ Hand \in Seq(Num) /\ Unsent \in Seq(Num)
      /\ txBuf \in [Idx -> Num] /\ putIdx \in Idx /\ getIdx \in Idx
      /\ Pipeline = ((fifo \o buf) \o Hand) \o Unsent
      /\ Pipeline = fifo \o Rest /\ Pipeline \in Seq(Num) /\ Rest \in Seq(Num)
  BY Parts
<1>2. Pipeline' = ((fifo' \o buf') \o Hand') \o Unsent'
  BY Zenon DEF Pipeline, Hand, Unsent, Ring, Stretch, Unread
<1>3. ASSUME UNCHANGED <<fifo, buf, ringVars>>, mpc # "store", mpc' # "store", Still PROVE Moved
  BY <1>1, <1>2, <1>3 DEF Moved, Hand, Unsent, ringVars
<1>4. ASSUME UNCHANGED <<fifo, buf, ringVars, mpc, held>>, Still PROVE Moved
  BY <1>1, <1>2, <1>4 DEF Moved, Hand, Unsent, ringVars
<1>5. CASE SendCall \/ SendCheck \/ FillDone \/ CheckConnect
  BY <1>3, <1>5 DEF SendCall, SendCheck, FillDone, CheckConnect, Main, mainVars, epVars, sentVars, ghostVars, hostVars, Still
<1>6. CASE IrqClear \/ Plug \/ Unplug \/ UNCHANGED vars
  BY <1>4, <1>6 DEF IrqClear, Plug, Unplug, vars, mainVars, epVars, sentVars, ghostVars, hostVars, Still
<1>7. CASE SendPut
  <2>1. /\ txBuf' = [txBuf EXCEPT ![putIdx] = accepted + 1] /\ accepted + 1 \in Num
        /\ UNCHANGED <<fifo, buf, putIdx, getIdx>> /\ mpc = "put" /\ mpc' = "publish" /\ Still
    BY <1>7, Sizes DEF SendPut, Main, TypeInv, TypeOK, epVars, sentVars, ghostVars, hostVars, Still, Num
  <2>2. Unsent' = Unsent
    BY <1>1, <2>1, RingSame DEF Unsent
  <2> QED
    BY <1>1, <1>2, <2>1, <2>2 DEF Moved, Hand
<1>8. CASE SendPublish
  <2>1. /\ putIdx' = Advance(putIdx, TxSize) /\ accepted' = accepted + 1
        /\ UNCHANGED <<fifo, buf, txBuf, getIdx, hostGot, taken, dropped>> /\ mpc = "publish" /\ mpc' # "store"
        /\ txBuf[putIdx] = accepted + 1 /\ accepted + 1 \in Num
    BY <1>8, Sizes DEF SendPublish, Main, TypeInv, TypeOK, epVars, ghostVars, hostVars, Num
  <2>2. /\ Free(putIdx, getIdx, TxSize) # 0 => overrun' = overrun
        /\ Free(putIdx, getIdx, TxSize) = 0 => overrun' = TRUE
    BY <1>8, Zenon DEF SendPublish, TypeInv, TypeOK
  <2>3. Hand = <<>> /\ Hand' = <<>>
    BY <2>1 DEF Hand
  <2>4. CASE Free(putIdx, getIdx, TxSize) # 0
    <3>1. Unsent' = Unsent \o <<accepted + 1>>
      BY <1>1, <2>1, <2>4, RingMore DEF Unsent
    <3>2. Pipeline' = ((fifo \o buf) \o Hand) \o (Unsent \o <<accepted + 1>>)
      BY <1>2, <2>1, <2>3, <3>1
    <3>3. (fifo \o buf) \o Hand \in Seq(Num) /\ <<accepted + 1>> \in Seq(Num)
      BY <1>1, <2>1, ConcatProperties
    <3>4. Pipeline' = Pipeline \o <<accepted + 1>>
      <4> DEFINE x == (fifo \o buf) \o Hand
                 y == <<accepted + 1>>
      <4>1. x \in Seq(Num) /\ Unsent \in Seq(Num) /\ y \in Seq(Num)
        BY <1>1, <3>3
      <4>2. Pipeline' = x \o (Unsent \o y) /\ Pipeline = x \o Unsent
        BY <1>1, <3>2
      <4> HIDE DEF x, y
      <4>3. (x \o Unsent) \o y = x \o (Unsent \o y)
        BY <4>1, Associative, Zenon
      <4>4. Pipeline' = Pipeline \o y
        BY <4>2, <4>3
      <4> QED
        BY <4>4 DEF y
    <3> QED
      BY <2>1, <2>2, <2>4, <3>4 DEF Added
  <2>5. CASE Free(putIdx, getIdx, TxSize) = 0
    <3>1. Unsent' = <<>>
      BY <1>1, <2>1, <2>5, RingMore DEF Unsent
    <3>2. (fifo \o buf) \o Hand \in Seq(Num)
      BY <1>1, ConcatProperties
    <3>3. Pipeline' = (fifo \o buf) \o Hand
      BY <1>2, <2>1, <2>3, <3>1, <3>2, ConcatEmptySeq
    <3> QED
      BY <1>1, <2>1, <2>2, <2>5, <3>2, <3>3 DEF Emptied
  <2> QED
    BY <2>4, <2>5
<1>9. CASE FillGet
  <2>1. /\ getIdx' = (getIdx + 1) % TxSize /\ held' = txBuf[getIdx] /\ Unread > 0
        /\ UNCHANGED <<fifo, buf, txBuf, putIdx>> /\ mpc = "fill" /\ mpc' = "store" /\ Still
    BY <1>9 DEF FillGet, Main, Advance, epVars, sentVars, ghostVars, hostVars, Still
  <2>2. 1 \in 0..Avail(putIdx, getIdx, TxSize)
    <3>1. Unread \in Idx /\ Unread = Avail(putIdx, getIdx, TxSize)
      BY <1>1, AvailLemma DEF Unread
    <3> QED
      BY <2>1, <3>1, Sizes DEF Idx
  <2>3. Unsent = Stretch(txBuf, getIdx, 1) \o Unsent'
    BY <1>1, <2>1, <2>2, RingTake DEF Unsent
  <2>4. Stretch(txBuf, getIdx, 1) = <<held'>>
    <3>1. 1 \in Idx /\ 0 \in 0..TxSize /\ getIdx + 0 = getIdx /\ getIdx < TxSize /\ 1 - 1 = 0 /\ 1 \in 1..1
      BY <1>1, Sizes DEF Idx
    <3>2. /\ Stretch(txBuf, getIdx, 1) \in Seq(Num) /\ Len(Stretch(txBuf, getIdx, 1)) = 1
          /\ Stretch(txBuf, getIdx, 1)[1] = txBuf[(getIdx + (1 - 1)) % TxSize]
      BY <1>1, <3>1, StretchLemma
    <3>3. (getIdx + 0) % TxSize = getIdx
      BY <1>1, <3>1, Wrap
    <3> QED
      BY <2>1, <3>1, <3>2, <3>3
  <2>5. Hand = <<>> /\ Hand' = <<held'>> /\ Hand' \in Seq(Num)
    BY <2>1 DEF Hand, TypeInv, TypeOK, Num
  <2>6. Unsent' \in Seq(Num)
    BY <1>1, RingLemma DEF Unsent, TypeInv, TypeOK, Idx, Num
  <2>7. Pipeline = (fifo \o buf) \o (Hand' \o Unsent')
    <3>1. fifo \o buf \in Seq(Num) /\ (fifo \o buf) \o <<>> = fifo \o buf
      BY <1>1, ConcatProperties, ConcatEmptySeq
    <3> QED
      BY <1>1, <2>3, <2>4, <2>5, <3>1
  <2>8. Pipeline' = (fifo \o buf) \o (Hand' \o Unsent')
    <3>1. fifo \o buf \in Seq(Num)
      BY <1>1, ConcatProperties
    <3> QED
      BY <1>2, <2>1, <2>5, <2>6, <3>1, Associative, Zenon
  <2> QED
    BY <2>1, <2>7, <2>8 DEF Moved
<1>10. CASE FillStore
  <2>1. /\ buf' = Append(buf, held) /\ held \in Num
        /\ UNCHANGED <<fifo, ringVars>> /\ mpc = "store" /\ mpc' = "fill" /\ Still
    BY <1>10 DEF FillStore, Main, epVars, sentVars, ghostVars, hostVars, Still, TypeInv, TypeOK, Num
  <2>2. Hand = <<held>> /\ Hand' = <<>> /\ Unsent' = Unsent
    BY <2>1 DEF Hand, Unsent, ringVars
  <2>3. buf' = buf \o Hand
    BY <1>1, <2>1, <2>2, AppendIsConcat
  <2>4. Pipeline' = (fifo \o (buf \o Hand)) \o Unsent
    <3>1. fifo \o (buf \o Hand) \in Seq(Num)
      BY <1>1, ConcatProperties
    <3>2. (fifo \o (buf \o Hand)) \o <<>> = fifo \o (buf \o Hand)
      BY <3>1, ConcatEmptySeq
    <3> QED
      BY <1>2, <2>1, <2>2, <2>3, <3>2
  <2> QED
    <3>1. (fifo \o buf) \o Hand = fifo \o (buf \o Hand)
      <4>1. fifo \in Seq(Num) /\ buf \in Seq(Num) /\ Hand \in Seq(Num)
        BY <1>1
      <4> QED BY <4>1, Associative, Zenon
    <3> QED
      BY <1>1, <2>1, <2>4, <3>1 DEF Moved
<1>11. CASE FillWrite
  <2>1. WritePacket(buf) /\ UNCHANGED ringVars /\ mpc = "fill" /\ mpc' = "enable" /\ Still
    BY <1>11 DEF FillWrite, Main, sentVars, hostVars, Still
  <2>2. (fifo = <<>> /\ fifo' = buf /\ buf' = <<>>) \/ (fifo' = fifo /\ buf' = buf)
    BY <1>1, <2>1, WriteLemma
  <2>3. fifo' \o buf' = fifo \o buf
    BY <1>1, <2>2, ConcatEmptySeq
  <2> QED
    BY <1>1, <1>2, <2>1, <2>3 DEF Moved, Hand, Unsent, ringVars
<1>12. CASE IrqCallback
  <2> DEFINE chunk == Stretch(txBuf, getIdx, FillCount)
  <2>1. /\ WritePacket(Filled) /\ getIdx' = (getIdx + FillCount) % TxSize /\ UNCHANGED <<txBuf, putIdx, mpc>>
        /\ mpc # "store" /\ Still
    BY <1>12 DEF IrqCallback, mainVars, sentVars, hostVars, Still, TypeInv
  <2>2. /\ FillCount \in 0..Avail(putIdx, getIdx, TxSize) /\ Filled = buf \o chunk /\ Filled \in Seq(Num)
    BY <2>1, FilledLemma DEF Unread
  <2>3. chunk \in Seq(Num) /\ Unsent = chunk \o Unsent'
    BY <1>1, <2>1, <2>2, RingTake DEF Unsent
  <2> HIDE DEF chunk
  <2>4. (fifo = <<>> /\ fifo' = Filled /\ buf' = <<>>) \/ (fifo' = fifo /\ buf' = Filled)
    BY <2>1, <2>2, WriteLemma
  <2>5. fifo' \o buf' = fifo \o (buf \o chunk)
    BY <2>2, <2>4, ConcatEmptySeq
  <2>6. Hand = <<>> /\ Hand' = <<>>
    BY <2>1 DEF Hand
  <2>7. Unsent' \in Seq(Num)
    BY <1>1, RingLemma DEF Unsent, TypeInv, TypeOK, Idx, Num
  <2>8. fifo \o buf \in Seq(Num) /\ (fifo \o buf) \o chunk \in Seq(Num) /\ (fifo \o buf) \o chunk = fifo \o (buf \o chunk)
    <3>1. fifo \o buf \in Seq(Num)
      BY <1>1, ConcatProperties
    <3>2. (fifo \o buf) \o chunk \in Seq(Num)
      BY <2>3, <3>1, ConcatProperties
    <3>3. (fifo \o buf) \o chunk = fifo \o (buf \o chunk)
      <4>1. fifo \in Seq(Num) /\ buf \in Seq(Num) /\ chunk \in Seq(Num)
        BY <1>1, <2>3
      <4> QED BY <4>1, Associative, Zenon
    <3> QED
      BY <3>1, <3>2, <3>3
  <2>9. Pipeline' = ((fifo \o buf) \o chunk) \o Unsent'
    BY <1>2, <2>5, <2>6, <2>8, ConcatEmptySeq
  <2>10. Pipeline = (fifo \o buf) \o (chunk \o Unsent')
    BY <1>1, <2>3, <2>6, <2>8, ConcatEmptySeq
  <2> QED
    <3>1. ((fifo \o buf) \o chunk) \o Unsent' = (fifo \o buf) \o (chunk \o Unsent')
      BY <2>3, <2>7, <2>8, Associative, Zenon
    <3> QED
      BY <2>1, <2>9, <2>10, <3>1 DEF Moved
<1>13. ASSUME fifo' = <<>>, UNCHANGED <<buf, ringVars, mpc, held>> PROVE Pipeline' = Rest
  <2>1. Hand' = Hand /\ Unsent' = Unsent
    BY <1>13 DEF Hand, Unsent, ringVars
  <2>2. <<>> \o buf = buf
    BY <1>1, ConcatEmptySeq
  <2> QED
    BY <1>2, <1>13, <2>1, <2>2 DEF Rest
<1>14. CASE Configure
  <2>1. fifo' = <<>> /\ UNCHANGED <<buf, ringVars, mpc, held, hostGot, taken, accepted, overrun>>
        /\ pktcnt \in {0, 1} /\ (pktcnt = 1 <=> fifo # <<>>)
    BY <1>14 DEF Configure, mainVars, sentVars, hostVars, TypeInv, TypeOK
  <2>2. CASE pktcnt = 1
    <3>1. dropped' = TRUE
      BY <1>14, <2>2 DEF Configure
    <3> QED
      BY <1>1, <1>13, <2>1, <3>1 DEF Flushed
  <2>3. CASE pktcnt = 0
    <3>1. dropped' = dropped
      BY <1>14, <2>3, Zenon DEF Configure, TypeInv, TypeOK
    <3> QED
      BY <1>4, <2>1, <2>3, <3>1 DEF Still
  <2> QED
    BY <2>1, <2>2, <2>3
<1>15. CASE HostTake
  <2>1. /\ pktcnt = 1 /\ fifo' = <<>> /\ hostGot' = fifo[Len(fifo)] /\ taken' = taken + 1
        /\ UNCHANGED <<buf, ringVars, mpc, held, accepted, overrun, dropped>>
    BY <1>15 DEF HostTake, mainVars, sentVars, Last
  <2>2. fifo # <<>>
    BY <2>1 DEF TypeInv, TypeOK
  <2> QED
    BY <1>1, <1>13, <2>1, <2>2 DEF Taken
<1> QED
  BY <1>5, <1>6, <1>7, <1>8, <1>9, <1>10, <1>11, <1>12, <1>14, <1>15 DEF Next, MainStep, Handler

----------------------------------------------------------------------------
(* The bytes between lo, the newest the host has, and hi, the newest sent     *)

Ordered(s, lo, hi) ==
    /\ lo <= hi
    /\ \A i \in 1..Len(s) : lo < s[i] /\ s[i] <= hi
    /\ \A i, j \in 1..Len(s) : i < j => s[i] < s[j]

Counted(s, lo, hi) == Len(s) = hi - lo /\ \A i \in 1..Len(s) : s[i] = lo + i

LEMMA Elements ==
    ASSUME NEW a \in Seq(Num), NEW b \in Seq(Num)
    PROVE  /\ a \o b \in Seq(Num) /\ Len(a) \in Nat /\ Len(b) \in Nat /\ Len(a \o b) = Len(a) + Len(b)
           /\ \A i \in 1..Len(a) : i \in 1..Len(a \o b) /\ (a \o b)[i] = a[i] /\ a[i] \in Nat
           /\ \A i \in 1..Len(b) : Len(a) + i \in 1..Len(a \o b) /\ (a \o b)[Len(a) + i] = b[i] /\ b[i] \in Nat
           /\ \A i \in 1..Len(a \o b) : i \in 1..Len(a) \/ \E j \in 1..Len(b) : i = Len(a) + j
<1>1. /\ a \o b \in Seq(Num) /\ Len(a) \in Nat /\ Len(b) \in Nat /\ Len(a \o b) = Len(a) + Len(b)
      /\ \A i \in 1..(Len(a) + Len(b)) : (a \o b)[i] = IF i <= Len(a) THEN a[i] ELSE b[i - Len(a)]
  BY ConcatProperties
<1>2. \A i \in 1..Len(a) : a[i] \in Nat
  <2>1. \A i \in 1..Len(a) : a[i] \in Num
    BY ElementOfSeq
  <2> QED
    BY <2>1, Sizes DEF Num
<1>3. \A i \in 1..Len(b) : b[i] \in Nat
  <2>1. \A i \in 1..Len(b) : b[i] \in Num
    BY ElementOfSeq
  <2> QED
    BY <2>1, Sizes DEF Num
<1>4. \A i \in 1..Len(a) : i \in 1..Len(a \o b) /\ (a \o b)[i] = a[i]
  BY <1>1
<1>5. \A i \in 1..Len(b) : Len(a) + i \in 1..Len(a \o b) /\ (a \o b)[Len(a) + i] = b[i]
  <2> TAKE i \in 1..Len(b)
  <2>1. Len(a) + i \in 1..(Len(a) + Len(b)) /\ ~(Len(a) + i <= Len(a)) /\ Len(a) + i - Len(a) = i
    BY <1>1
  <2> QED
    BY <1>1, <2>1
<1>6. \A i \in 1..Len(a \o b) : i \in 1..Len(a) \/ \E j \in 1..Len(b) : i = Len(a) + j
  <2> TAKE i \in 1..Len(a \o b)
  <2>1. i \in 1..Len(a) \/ (i - Len(a) \in 1..Len(b) /\ i = Len(a) + (i - Len(a)))
    BY <1>1
  <2> QED
    BY <2>1
<1> QED
  BY <1>1, <1>2, <1>3, <1>4, <1>5, <1>6

LEMMA ConcatOrdered ==
    ASSUME NEW a \in Seq(Num), NEW b \in Seq(Num), NEW lo \in Nat, NEW mid \in Nat, NEW hi \in Nat,
           Ordered(a, lo, mid), Ordered(b, mid, hi)
    PROVE  Ordered(a \o b, lo, hi)
<1> DEFINE n == Len(a)
           s == a \o b
<1>1. /\ n \in Nat
      /\ \A i \in 1..n : s[i] = a[i] /\ a[i] \in Nat
      /\ \A i \in 1..Len(b) : s[n + i] = b[i] /\ b[i] \in Nat
      /\ \A i \in 1..Len(s) : i \in 1..n \/ \E j \in 1..Len(b) : i = n + j
  BY Elements
<1> HIDE DEF s, n
<1>2. \A i \in 1..n : lo < s[i] /\ s[i] <= mid /\ s[i] <= hi
  BY <1>1 DEF Ordered, n
<1>3. \A i \in 1..Len(b) : lo < s[n + i] /\ mid < s[n + i] /\ s[n + i] <= hi
  BY <1>1 DEF Ordered
<1>4. ASSUME NEW i \in 1..Len(s), NEW j \in 1..Len(s), i < j PROVE s[i] < s[j]
  <2>1. CASE i \in 1..n /\ j \in 1..n
    BY <1>1, <1>4, <2>1 DEF Ordered, n
  <2>2. CASE j \notin 1..n
    <3>1. PICK k \in 1..Len(b) : j = n + k
      BY <1>1, <2>2
    <3>2. CASE i \in 1..n
      <4>1. s[i] \in Nat /\ s[j] \in Nat /\ s[i] <= mid /\ mid < s[j]
        BY <1>1, <1>2, <1>3, <3>1, <3>2
      <4> QED
        BY <4>1
    <3>3. CASE i \notin 1..n
      <4>1. PICK l \in 1..Len(b) : i = n + l
        BY <1>1, <3>3
      <4>2. l < k
        BY <1>1, <1>4, <3>1, <4>1
      <4> QED
        BY <1>1, <3>1, <4>1, <4>2 DEF Ordered
    <3> QED
      BY <3>2, <3>3
  <2>3. CASE i \notin 1..n /\ j \in 1..n
    <3>1. PICK l \in 1..Len(b) : i = n + l
      BY <1>1, <2>3
    <3> QED
      BY <1>1, <1>4, <2>3, <3>1
  <2> QED
    BY <2>1, <2>2, <2>3
<1>5. \A i \in 1..Len(s) : lo < s[i] /\ s[i] <= hi
  BY <1>1, <1>2, <1>3
<1> QED
  BY <1>4, <1>5 DEF Ordered, s

LEMMA SplitOrdered ==
    ASSUME NEW a \in Seq(Num), NEW b \in Seq(Num), NEW lo \in Nat, NEW hi \in Nat,
           Ordered(a \o b, lo, hi)
    PROVE  /\ Ordered(a, lo, hi) /\ Ordered(b, lo, hi)
           /\ a # <<>> => a[Len(a)] \in (lo + 1)..hi /\ Ordered(b, a[Len(a)], hi)
<1> DEFINE n == Len(a)
           s == a \o b
<1>1. /\ n \in Nat
      /\ \A i \in 1..n : i \in 1..Len(s) /\ s[i] = a[i] /\ a[i] \in Nat
      /\ \A i \in 1..Len(b) : n + i \in 1..Len(s) /\ s[n + i] = b[i] /\ b[i] \in Nat
  BY Elements
<1>2. a # <<>> => n \in 1..n
  BY <1>1
<1>3. Ordered(s, lo, hi)
  OBVIOUS
<1> HIDE DEF s
<1>4. Ordered(a, lo, hi)
  BY <1>1, <1>3 DEF Ordered
<1> HIDE DEF n
<1>5. \A i, j \in 1..Len(b) : i < j => n + i < n + j
  BY <1>1
<1>6. Ordered(b, lo, hi)
  BY <1>1, <1>3, <1>5 DEF Ordered
<1>7. ASSUME a # <<>> PROVE a[n] \in (lo + 1)..hi /\ Ordered(b, a[n], hi)
  <2>1. n \in 1..Len(s) /\ n \in 1..n /\ s[n] = a[n] /\ a[n] \in Nat
    BY <1>1, <1>2, <1>7
  <2>2. \A i \in 1..Len(b) : n < n + i
    BY <1>1
  <2>3. \A i \in 1..Len(b) : a[n] < b[i]
    BY <1>1, <1>3, <2>1, <2>2 DEF Ordered
  <2>4. a[n] \in (lo + 1)..hi
    BY <1>3, <2>1 DEF Ordered
  <2> QED
    BY <1>6, <2>1, <2>3, <2>4 DEF Ordered
<1> QED
  BY <1>4, <1>6, <1>7 DEF n

LEMMA ConcatCounted ==
    ASSUME NEW a \in Seq(Num), NEW lo \in Nat, NEW hi \in Nat, hi + 1 \in Num, Counted(a, lo, hi)
    PROVE  Counted(a \o <<hi + 1>>, lo, hi + 1)
<1> DEFINE b == <<hi + 1>>
           n == Len(a)
           s == a \o b
<1>1. b \in Seq(Num) /\ Len(b) = 1 /\ b[1] = hi + 1 /\ 1 \in 1..1
  OBVIOUS
<1> HIDE DEF b
<1>2. /\ n \in Nat /\ Len(s) = n + 1
      /\ \A i \in 1..n : s[i] = a[i]
      /\ s[n + 1] = hi + 1
      /\ \A i \in 1..Len(s) : i \in 1..n \/ i = n + 1
  <2>1. /\ n \in Nat /\ Len(s) = n + Len(b)
        /\ \A i \in 1..n : s[i] = a[i]
        /\ \A i \in 1..Len(b) : s[n + i] = b[i]
    BY <1>1, Elements
  <2> HIDE DEF s, n
  <2> QED
    BY <1>1, <2>1
<1>3. n = hi - lo /\ \A i \in 1..n : a[i] = lo + i
  BY DEF Counted
<1> HIDE DEF s, n
<1>4. Len(s) = hi + 1 - lo /\ \A i \in 1..Len(s) : s[i] = lo + i
  BY <1>2, <1>3
<1> QED
  BY <1>4 DEF Counted, s, b

LEMMA SplitCounted ==
    ASSUME NEW a \in Seq(Num), NEW b \in Seq(Num), NEW lo \in Nat, NEW hi \in Nat, a # <<>>,
           Counted(a \o b, lo, hi)
    PROVE  Counted(b, a[Len(a)], hi)
<1> DEFINE n == Len(a)
           s == a \o b
<1>1. /\ n \in Nat /\ Len(b) \in Nat /\ Len(s) = n + Len(b)
      /\ \A i \in 1..n : i \in 1..Len(s) /\ s[i] = a[i]
      /\ \A i \in 1..Len(b) : n + i \in 1..Len(s) /\ s[n + i] = b[i]
  BY Elements
<1>2. n \in 1..n
  BY <1>1
<1>3. Len(s) = hi - lo /\ \A i \in 1..Len(s) : s[i] = lo + i
  BY DEF Counted
<1> HIDE DEF s, n
<1>4. a[n] = lo + n
  BY <1>1, <1>2, <1>3
<1>5. Len(b) = hi - a[n]
  <2>1. n \in Nat /\ Len(b) \in Nat /\ Len(s) = n + Len(b) /\ Len(s) = hi - lo
    BY <1>1, <1>3
  <2> QED
    BY <1>4, <2>1
<1>6. ASSUME NEW i \in 1..Len(b) PROVE b[i] = a[n] + i
  <2>1. b[i] = lo + (n + i)
    BY <1>1, <1>3
  <2>2. i \in Nat
    BY <1>1
  <2> QED
    BY <1>1, <1>4, <2>1, <2>2
<1> QED
  BY <1>5, <1>6 DEF Counted, n

----------------------------------------------------------------------------
(* The invariant                                                              *)

OrderInv == Ordered(Pipeline, hostGot, accepted)
CompleteInv == ~overrun /\ ~dropped => Counted(Pipeline, hostGot, accepted)
Inv == TypeInv /\ OrderInv /\ CompleteInv

LEMMA Numbers ==
    ASSUME TypeInv
    PROVE  hostGot \in Nat /\ accepted \in Nat /\ accepted \in Num /\ overrun \in BOOLEAN /\ dropped \in BOOLEAN
BY Sizes DEF TypeInv, TypeOK, Num

LEMMA Initial == Init => Inv
<1> SUFFICES ASSUME Init PROVE Inv
  OBVIOUS
<1>1. TypeInv
  <2>1. /\ txBuf \in [0..(TxSize - 1) -> 0..MaxBytes] /\ buf = <<>> /\ fifo = <<>>
        /\ putIdx \in 0..(TxSize - 1) /\ getIdx \in 0..(TxSize - 1)
        /\ togo \in 0..Burst /\ held \in 0..MaxBytes /\ accepted \in 0..MaxBytes
        /\ hostGot \in 0..MaxBytes /\ replugs \in 0..MaxReplugs /\ taken \in Nat
    BY Sizes DEF Init
  <2> QED
    <3>1. /\ {irqOff, xfrc, vbus, connected, sdis, configured, overrun, dropped, missed, stale}
                \subseteq BOOLEAN
          /\ mpc = "idle" /\ isr = "idle" /\ pktcnt = 0
      BY DEF Init
    <3>2. TypeOK
      BY <2>1, <3>1, Sizes DEF TypeOK
    <3> QED
      BY <2>1, <3>1, <3>2, Sizes DEF Init, TypeInv
<1>2. Avail(0, 0, TxSize) = 0
  BY DEF Avail
<1>3. Unsent = <<>>
  <2>1. Unsent \in Seq(Num) /\ Len(Unsent) = 0
    BY <1>1, <1>2, Parts, RingLemma DEF Init, Unsent
  <2> QED
    BY <2>1
<1>4. fifo = <<>> /\ buf = <<>> /\ Hand = <<>>
  BY DEF Init, Hand
<1>5. Pipeline = <<>>
  BY <1>1, <1>3, <1>4, Parts
<1>6. Ordered(<<>>, 0, 0) /\ Counted(<<>>, 0, 0)
  BY DEF Ordered, Counted
<1> QED
  BY <1>1, <1>5, <1>6 DEF Inv, OrderInv, CompleteInv, Init

LEMMA Step == Inv /\ [Next]_vars => Inv'
<1> SUFFICES ASSUME Inv, [Next]_vars PROVE Inv'
  OBVIOUS
<1>1. TypeInv /\ TypeInv' /\ OrderInv /\ CompleteInv
  BY TypeStep DEF Inv
<1>2. /\ hostGot \in Nat /\ accepted \in Nat
      /\ accepted' \in Num /\ overrun \in BOOLEAN /\ dropped \in BOOLEAN
  BY <1>1, Numbers DEF TypeInv, TypeOK, Num
<1>3. Pipeline \in Seq(Num) /\ fifo \in Seq(Num) /\ Rest \in Seq(Num)
  BY <1>1, Parts
<1>4. CASE Moved
  BY <1>1, <1>4 DEF Moved, Still, Inv, OrderInv, CompleteInv
<1>5. CASE Added
  <2>1. <<accepted + 1>> \in Seq(Num) /\ Ordered(<<accepted + 1>>, accepted, accepted + 1)
    <3>1. accepted + 1 \in Num
      BY <1>2, <1>5 DEF Added
    <3> QED
      BY <1>2, <3>1 DEF Ordered
  <2>2. OrderInv'
    <3>1. /\ accepted + 1 \in Nat /\ accepted' = accepted + 1 /\ hostGot' = hostGot
          /\ Pipeline' = Pipeline \o <<accepted + 1>> /\ Ordered(Pipeline, hostGot, accepted)
      BY <1>1, <1>2, <1>5 DEF Added, OrderInv
    <3>2. Ordered(Pipeline \o <<accepted + 1>>, hostGot, accepted + 1)
      BY <1>2, <1>3, <2>1, <3>1, ConcatOrdered
    <3> QED
      BY <3>1, <3>2 DEF OrderInv
  <2>3. CompleteInv'
    BY <1>1, <1>2, <1>3, <1>5, ConcatCounted DEF Added, CompleteInv
  <2> QED
    BY <1>1, <2>2, <2>3 DEF Inv
<1>6. CASE Emptied
  <2>1. PICK s, t \in Seq(Num) : Pipeline = s \o t /\ Pipeline' = s
    BY <1>6 DEF Emptied
  <2>2. Ordered(s, hostGot, accepted)
    BY <1>1, <1>2, <2>1, SplitOrdered DEF OrderInv
  <2>3. Ordered(s, hostGot, accepted + 1)
    <3>1. \A i \in 1..Len(s) : s[i] \in Nat
      <4>1. \A i \in 1..Len(s) : s[i] \in Num
        BY ElementOfSeq
      <4> QED
        BY <4>1, Sizes DEF Num
    <3> QED
      BY <1>2, <2>2, <3>1 DEF Ordered
  <2> QED
    BY <1>1, <1>6, <2>1, <2>3 DEF Emptied, Inv, OrderInv, CompleteInv
<1>7. CASE Flushed
  <2>1. Ordered(Rest, hostGot, accepted)
    BY <1>1, <1>2, <1>3, <1>7, SplitOrdered DEF OrderInv, Flushed
  <2> QED
    BY <1>1, <1>7, <2>1 DEF Flushed, Inv, OrderInv, CompleteInv
<1>8. CASE Taken
  <2>1. Ordered(Rest, fifo[Len(fifo)], accepted)
    BY <1>1, <1>2, <1>3, <1>8, SplitOrdered DEF OrderInv, Taken
  <2>2. ~overrun /\ ~dropped => Counted(Rest, fifo[Len(fifo)], accepted)
    BY <1>1, <1>2, <1>3, <1>8, SplitCounted DEF CompleteInv, Taken
  <2> QED
    BY <1>1, <1>8, <2>1, <2>2 DEF Taken, Inv, OrderInv, CompleteInv
<1> QED
  BY <1>1, <1>4, <1>5, <1>6, <1>7, <1>8, PipelineStep

LEMMA Always == Spec => []Inv
<1>1. Inv /\ [Next]_vars => Inv'
  BY Step
<1> QED BY <1>1, Initial, PTL DEF Spec

----------------------------------------------------------------------------
\* The indices, the packet buffer and the endpoint stay in range (cdcacm_data_tx_cb
\* never fills more than buf has, in either context).
THEOREM TypeCorrect == Spec => []TypeOK
<1>1. Inv => TypeOK
  BY DEF Inv, TypeInv
<1> QED BY <1>1, Always, PTL

\* No interleaving of the main loop with the transmit callback in the interrupt
\* duplicates or reorders a byte (Usb::send, cdcacm_data_tx_cb, dwc_poll).
THEOREM InOrderCorrect == Spec => []PipelineInOrder
<1>1. Inv => PipelineInOrder
  <2> SUFFICES ASSUME Inv PROVE PipelineInOrder
    OBVIOUS
  <2> DEFINE first == <<hostGot>>
             last == <<accepted + 1>>
             front == first \o Pipeline
             line == front \o last
  <2>1. /\ hostGot \in Nat /\ accepted \in Nat /\ Pipeline \in Seq(Num)
        /\ Ordered(Pipeline, hostGot, accepted) /\ Len(Pipeline) \in Nat
        /\ \A i \in 1..Len(Pipeline) : Pipeline[i] \in Nat
    <3>1. Pipeline \in Seq(Num) /\ hostGot \in Nat /\ accepted \in Nat
      BY Parts, Numbers DEF Inv
    <3>2. \A i \in 1..Len(Pipeline) : Pipeline[i] \in Num
      BY <3>1, ElementOfSeq
    <3> QED
      BY <3>1, <3>2, Sizes DEF Inv, OrderInv, Num
  <2>2. /\ first \in Seq(Nat) /\ Len(first) = 1 /\ first[1] = hostGot
        /\ last \in Seq(Nat) /\ Len(last) = 1 /\ last[1] = accepted + 1 /\ Pipeline \in Seq(Nat)
    BY <2>1
  <2> DEFINE n == Len(Pipeline)
  <2> HIDE DEF first, last
  <2>3. /\ front \in Seq(Nat) /\ Len(front) = n + 1 /\ front[1] = hostGot
        /\ \A i \in 2..(n + 1) : front[i] = Pipeline[i - 1]
    <3>1. /\ front \in Seq(Nat) /\ Len(front) = Len(first) + n
          /\ \A i \in 1..(Len(first) + n) : front[i] = IF i <= Len(first) THEN first[i] ELSE Pipeline[i - Len(first)]
      BY <2>2, ConcatProperties
    <3> HIDE DEF front
    <3>2. /\ Len(front) = 1 + n
          /\ \A i \in 1..(1 + n) : front[i] = IF i <= 1 THEN first[i] ELSE Pipeline[i - 1]
      BY <2>2, <3>1
    <3>3. n \in Nat /\ front[1] = first[1]
      BY <2>1, <3>2
    <3>4. \A i \in 2..(n + 1) : i \in 1..(1 + n) /\ ~(i <= 1)
      BY <3>3
    <3>5. \A i \in 2..(n + 1) : front[i] = Pipeline[i - 1]
      BY <3>2, <3>4, Zenon
    <3> QED
      BY <2>2, <3>1, <3>2, <3>3, <3>5
  <2> HIDE DEF front
  <2>4. /\ Len(line) = n + 2 /\ line[1] = hostGot /\ line[n + 2] = accepted + 1
        /\ \A i \in 2..(n + 1) : line[i] = Pipeline[i - 1]
    <3>1. /\ Len(line) = Len(front) + Len(last)
          /\ \A i \in 1..(Len(front) + Len(last)) : line[i] = IF i <= Len(front) THEN front[i] ELSE last[i - Len(front)]
      BY <2>2, <2>3, ConcatProperties
    <3> HIDE DEF line
    <3>2. /\ n \in Nat /\ Len(front) = n + 1 /\ Len(last) = 1
      BY <2>1, <2>2, <2>3
    <3>3. /\ Len(line) = n + 2
          /\ \A i \in 1..(n + 2) : line[i] = IF i <= n + 1 THEN front[i] ELSE last[i - (n + 1)]
      BY <3>1, <3>2
    <3>4. 1 \in 1..(n + 2) /\ n + 2 \in 1..(n + 2) /\ 1 <= n + 1 /\ ~(n + 2 <= n + 1) /\ n + 2 - (n + 1) = 1
      BY <3>2
    <3>5. \A i \in 2..(n + 1) : i \in 1..(n + 2) /\ i <= n + 1
      BY <3>2
    <3> HIDE DEF n
    <3> QED
      <4>1. line[1] = hostGot
        BY <2>3, <3>3, <3>4
      <4>2. line[n + 2] = accepted + 1
        <5>1. PICK k \in 1..(n + 2) : k = n + 2 /\ ~(k <= n + 1) /\ k - (n + 1) = 1
          BY <3>2, <3>4
        <5>2. line[k] = last[k - (n + 1)]
          BY <3>3, <5>1
        <5> QED
          BY <2>2, <5>1, <5>2
      <4>3. \A i \in 2..(n + 1) : line[i] = Pipeline[i - 1]
        <5>1. \A i \in 2..(n + 1) : line[i] = front[i]
          BY <3>3, <3>5
        <5> QED
          BY <2>3, <5>1
      <4> QED
        BY <3>3, <4>1, <4>2, <4>3
  <2> HIDE DEF line
  <2>5. ASSUME NEW i \in 1..(n + 1) PROVE line[i] < line[i + 1]
    <3>1. line[i] = IF i = 1 THEN hostGot ELSE Pipeline[i - 1]
      BY <2>1, <2>4
    <3>2. line[i + 1] = IF i = n + 1 THEN accepted + 1 ELSE Pipeline[i]
      BY <2>1, <2>4
    <3>3. /\ i = 1 \/ i - 1 \in 1..n
          /\ i = n + 1 \/ i \in 1..n
          /\ i - 1 < i
      BY <2>1
    <3>4. hostGot <= accepted
      BY <2>1 DEF Ordered
    <3>5. /\ hostGot \in Nat /\ accepted \in Nat /\ n \in Nat /\ i \in 1..(n + 1)
          /\ \A k \in 1..n : Pipeline[k] \in Nat /\ hostGot < Pipeline[k] /\ Pipeline[k] <= accepted
          /\ \A k, m \in 1..n : k < m => Pipeline[k] < Pipeline[m]
      BY <2>1 DEF Ordered
    <3> HIDE DEF n
    <3>6. CASE i = 1 /\ i = n + 1
      BY <3>1, <3>2, <3>4, <3>5, <3>6
    <3>7. CASE i = 1 /\ i # n + 1
      BY <3>1, <3>2, <3>3, <3>5, <3>7
    <3>8. CASE i # 1 /\ i = n + 1
      <4>1. i - 1 \in 1..n /\ line[i] = Pipeline[i - 1] /\ line[i + 1] = accepted + 1
        BY <3>1, <3>2, <3>3, <3>8
      <4>2. Pipeline[i - 1] \in Nat /\ Pipeline[i - 1] <= accepted
        BY <3>5, <4>1
      <4> QED BY <3>5, <4>1, <4>2
    <3>9. CASE i # 1 /\ i # n + 1
      <4>1. i - 1 \in 1..n /\ i \in 1..n /\ line[i] = Pipeline[i - 1] /\ line[i + 1] = Pipeline[i]
        BY <3>1, <3>2, <3>3, <3>9
      <4> QED BY <3>3, <3>5, <4>1
    <3> QED
      BY <3>6, <3>7, <3>8, <3>9
  <2> QED
    BY <2>1, <2>4, <2>5 DEF PipelineInOrder, line, front, first, last
<1> QED BY <1>1, Always, PTL

\* Bytes are lost by overrunning the ring and by SET_CONFIGURATION only, wherever the
\* interrupt falls into Usb::send.
THEOREM CompleteCorrect == Spec => []PipelineComplete
<1>1. Inv => PipelineComplete
  <2> SUFFICES ASSUME Inv, ~overrun, ~dropped
               PROVE  Pipeline = [i \in 1..(accepted - hostGot) |-> hostGot + i]
    BY DEF PipelineComplete
  <2>1. Pipeline \in Seq(Num) /\ Counted(Pipeline, hostGot, accepted)
    BY Parts DEF Inv, CompleteInv
  <2>2. Pipeline = [i \in 1..Len(Pipeline) |-> Pipeline[i]]
    BY <2>1
  <2> QED
    BY <2>1, <2>2, Zenon DEF Counted
<1> QED BY <1>1, Always, PTL

\* From Usb::send to the host, the adapter is an ordered channel.
THEOREM ChannelCorrect == Spec => ImplementsOrderedChannel
<1>1. Init => Channel!Init
  BY DEF Init, Channel!Init
<1>2. Inv /\ [Next]_vars => [Channel!Next]_(Channel!vars)
  <2> SUFFICES ASSUME Inv, [Next]_vars PROVE [Channel!Next]_(Channel!vars)
    OBVIOUS
  <2>1. TypeInv /\ TypeInv'
    BY TypeStep DEF Inv
  <2>2. CASE Moved \/ Flushed
    BY <2>2 DEF Moved, Flushed, Still, Channel!vars
  <2>3. CASE Added \/ Emptied
    BY <2>3 DEF Added, Emptied, Channel!Next, Channel!Send
  <2>4. CASE Taken
    <3>1. fifo[Len(fifo)] \in (hostGot + 1)..accepted
      BY <2>1, <2>4, Parts, Numbers, SplitOrdered DEF Inv, OrderInv, Taken
    <3> QED
      BY <2>4, <3>1 DEF Taken, Channel!Next, Channel!Deliver
  <2> QED
    BY <2>1, <2>2, <2>3, <2>4, PipelineStep
<1> QED
  BY <1>1, <1>2, Always, PTL DEF Spec, ImplementsOrderedChannel, Channel!Spec
=============================================================================
