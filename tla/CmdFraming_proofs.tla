------------------------- MODULE CmdFraming_proofs --------------------------
(* Proofs about CmdFraming, for every size of the buffers, the batches and    *)
(* the packets and every length of a command.                                *)
EXTENDS CmdFraming, SequenceTheorems, TLAPS

ByteSet == [no : Nat, pos : Nat, last : BOOLEAN, val : Nat]
CmdSet == [no : Nat, frame : BOOLEAN, extra : Nat]

TypeInv ==
    /\ cur \in CmdSet /\ at \in 0..Total(cur) /\ quit \in BOOLEAN
    /\ rxBuf \in Seq(ByteSet) /\ batch \in Seq(ByteSet) /\ cmd \in Seq(ByteSet)
    /\ Len(cmd) < BufSize
    /\ late \in {"no", "pause", "blocked"} /\ busy \in BOOLEAN /\ traffic \in BOOLEAN
    /\ quit => at < Total(cur) /\ at > 0

\* What the bytes in s are: of commands up to c, of which a bytes were sent.
Genuine(f, c, a, s) ==
    \A i \in 1..Len(s) :
       /\ s[i].no \in 0..c.no
       /\ s[i].pos \in 1..Total(f[s[i].no])
       /\ s[i] = Byte(f[s[i].no], s[i].pos)
       /\ s[i].no = c.no => s[i].pos <= a

\* f gives the commands of the host by their numbers.
History(f, c) == f \in [Nat -> CmdSet] /\ f[c.no] = c /\ \A n \in Nat : f[n].no = n

GenuineInv ==
    \E f : /\ History(f, cur)
           /\ Genuine(f, cur, at, cmd) /\ Genuine(f, cur, at, batch) /\ Genuine(f, cur, at, rxBuf)

\* Bytes that follow each other without a gap
Linked(s) ==
    \A i \in 1..(Len(s) - 1) :
        IF s[i].last THEN s[i+1].no = s[i].no + 1 /\ s[i+1].pos = 1
                     ELSE s[i+1].no = s[i].no /\ s[i+1].pos = s[i].pos + 1

Started(s) == s # <<>> /\ s[1].pos = 1 /\ Linked(s)

\* The beginning of a command, not all of it
Begun(s) == \A i \in 1..Len(s) : s[i].no = s[1].no /\ s[i].pos = i /\ ~s[i].last

\* A gapless cmd is the beginning of one command: a whole one has been executed.
ShapeInv == Started(cmd) => Begun(cmd)

\* What came after the host's pause is of later commands than what came before.
PauseInv ==
    late = "pause" =>
        /\ batch = <<>>
        /\ \A i \in 1..Len(cmd) :
               /\ cmd[i].no < cur.no \/ (cmd[i].no = cur.no /\ (at = Total(cur) \/ quit))
               /\ \A j \in 1..Len(rxBuf) : cmd[i].no < rxBuf[j].no

Inv == TypeInv /\ GenuineInv /\ ShapeInv /\ PauseInv

----------------------------------------------------------------------------
(* Bytes and commands                                                         *)

LEMMA Sizes ==
    /\ BufSize \in Nat /\ BufSize > 4 /\ RxSize \in Nat /\ RxSize > 0
    /\ BatchLen \in Nat /\ BatchLen > 0 /\ PktLen \in Nat /\ Extras \subseteq Nat
BY SizeAssumption

LEMMA TotalLemma ==
    ASSUME NEW c \in CmdSet
    PROVE  Total(c) \in Nat /\ Total(c) >= 4 /\ (c.frame => Total(c) >= 6) /\ c.no \in Nat
           /\ Total(c) = IF c.frame THEN c.extra + 6 ELSE c.extra + 4
BY DEF CmdSet, Total

LEMMA ByteLemma ==
    ASSUME NEW c \in CmdSet, NEW i \in Nat
    PROVE  /\ Byte(c, i) \in ByteSet /\ Byte(c, i).no = c.no /\ Byte(c, i).pos = i
           /\ Byte(c, i).last <=> i = Total(c)
           /\ i = 1 => Byte(c, i).val = IF c.frame THEN 64 ELSE 1
           /\ i = 4 /\ ~c.frame => Byte(c, i).val = c.extra
           /\ i = 5 /\ c.frame => Byte(c, i).val = c.extra
<1> DEFINE v == CASE i = 1 -> (IF c.frame THEN 64 ELSE 1)
                  [] i = (IF c.frame THEN 5 ELSE 4) -> c.extra
                  [] OTHER -> 0
<1>1. /\ v \in Nat
      /\ i = 1 => v = IF c.frame THEN 64 ELSE 1
      /\ i = 4 /\ ~c.frame => v = c.extra
      /\ i = 5 /\ c.frame => v = c.extra
  BY DEF CmdSet
<1>2. Byte(c, i) = [no |-> c.no, pos |-> i, last |-> i = Total(c), val |-> v]
  BY DEF Byte
<1> HIDE DEF v
<1>3. c.no \in Nat /\ (i = Total(c)) \in BOOLEAN
  BY DEF CmdSet
<1> DEFINE l == i = Total(c)
<1>4. Byte(c, i) = [no |-> c.no, pos |-> i, last |-> l, val |-> v] /\ l \in BOOLEAN
  BY <1>2
<1>5. l <=> i = Total(c)
  OBVIOUS
<1> HIDE DEF l
<1>6. Byte(c, i).no = c.no /\ Byte(c, i).pos = i /\ Byte(c, i).val = v /\ Byte(c, i).last = l
  BY <1>4
<1>7. Byte(c, i) \in ByteSet
  BY <1>1, <1>3, <1>4 DEF ByteSet
<1>8. Byte(c, i).last <=> i = Total(c)
  BY <1>5, <1>6, Zenon
<1>9. /\ i = 1 => Byte(c, i).val = IF c.frame THEN 64 ELSE 1
      /\ i = 4 /\ ~c.frame => Byte(c, i).val = c.extra
      /\ i = 5 /\ c.frame => Byte(c, i).val = c.extra
  BY <1>1, <1>6, Zenon
<1> QED
  BY <1>6, <1>7, <1>8, <1>9, Zenon

\* Cmd::complete finds the end of the command, if it fits into the buffer.
LEMMA CompleteLemma ==
    ASSUME NEW s \in Seq(ByteSet), NEW c \in CmdSet, Len(s) \in 1..Total(c), Len(s) < BufSize,
           \A i \in 1..Len(s) : s[i] = Byte(c, i)
    PROVE  Complete(s) <=> Len(s) = Total(c)
<1>1. Len(s) \in Nat /\ Len(s) > 0
  OBVIOUS
<1>2. s[1].val = IF c.frame THEN 64 ELSE 1
  BY <1>1, ByteLemma
<1>3. Len(s) >= 4 /\ ~c.frame => s[4].val = c.extra
  BY <1>1, ByteLemma
<1>4. Len(s) >= 5 /\ c.frame => s[5].val = c.extra
  BY <1>1, ByteLemma
<1>5. c.extra \in Nat /\ c.frame \in BOOLEAN
  BY DEF CmdSet
<1> QED
  BY <1>1, <1>2, <1>3, <1>4, <1>5, TotalLemma, Sizes DEF Complete

\* rxBuf after a packet
LEMMA FilledLemma ==
    ASSUME TypeInv, NEW bytes \in Seq(ByteSet)
    PROVE  /\ Filled(bytes) \in Seq(ByteSet)
           /\ \A i \in 1..Len(Filled(bytes)) :
                 \/ \E j \in 1..Len(rxBuf) : Filled(bytes)[i] = rxBuf[j]
                 \/ \E j \in 1..Len(bytes) : Filled(bytes)[i] = bytes[j]
           /\ Len(rxBuf) + Len(bytes) < RxSize => Filled(bytes) = rxBuf \o bytes
<1> DEFINE all == rxBuf \o bytes
           n == Len(all)
           m == n % RxSize
           r == SubSeq(all, n - m + 1, n)
<1>1. /\ rxBuf \in Seq(ByteSet) /\ Len(rxBuf) \in Nat /\ Len(bytes) \in Nat
      /\ all \in Seq(ByteSet) /\ n = Len(rxBuf) + Len(bytes) /\ n \in Nat
      /\ \A i \in 1..n : all[i] = IF i <= Len(rxBuf) THEN rxBuf[i] ELSE bytes[i - Len(rxBuf)]
  <2>1. rxBuf \in Seq(ByteSet)
    BY DEF TypeInv
  <2>2. /\ all \in Seq(ByteSet) /\ n = Len(rxBuf) + Len(bytes)
        /\ \A i \in 1..(Len(rxBuf) + Len(bytes)) : all[i] = IF i <= Len(rxBuf) THEN rxBuf[i] ELSE bytes[i - Len(rxBuf)]
    BY <2>1, ConcatProperties
  <2> QED
    BY <2>1, <2>2
<1>2. Filled(bytes) = r
  BY DEF Filled
<1> HIDE DEF all, n
<1>3. m \in 0..n /\ (n < RxSize => m = n)
  <2>1. n \in Nat /\ RxSize \in Nat /\ RxSize > 0
    BY <1>1, Sizes
  <2>2. m \in 0..(RxSize - 1)
    BY <2>1
  <2>3. n < RxSize => m = n
    BY <2>1
  <2> HIDE DEF m
  <2> QED
    BY <2>1, <2>2, <2>3
<1> HIDE DEF m
<1>4. \A i \in 1..n : all[i] \in ByteSet
  BY <1>1, ElementOfSeq DEF n
<1>5. \A i \in (n - m + 1)..n : all[i] \in ByteSet
  BY <1>1, <1>3, <1>4
<1>6. /\ r \in Seq(ByteSet)
      /\ Len(r) = IF n - m + 1 <= n THEN n - (n - m + 1) + 1 ELSE 0
      /\ \A i \in 1..(n - (n - m + 1) + 1) : r[i] = all[n - m + 1 + i - 1]
  BY <1>1, <1>3, <1>5, SubSeqProperties
<1> HIDE DEF r
<1>7. Len(r) = m /\ \A i \in 1..m : r[i] = all[n - m + i] /\ n - m + i \in 1..n
  BY <1>1, <1>3, <1>6
<1>8. \A i \in 1..n : \/ \E j \in 1..Len(rxBuf) : all[i] = rxBuf[j]
                      \/ \E j \in 1..Len(bytes) : all[i] = bytes[j]
  <2> TAKE i \in 1..n
  <2>1. CASE i <= Len(rxBuf)
    <3>1. i \in 1..Len(rxBuf) /\ all[i] = rxBuf[i]
      BY <1>1, <2>1
    <3> QED
      BY <3>1
  <2>2. CASE ~(i <= Len(rxBuf))
    <3>1. i - Len(rxBuf) \in 1..Len(bytes) /\ all[i] = bytes[i - Len(rxBuf)]
      BY <1>1, <2>2
    <3> QED
      BY <3>1
  <2> QED
    BY <2>1, <2>2
<1>9. n < RxSize => r = all
  <2> SUFFICES ASSUME n < RxSize PROVE r = all
    OBVIOUS
  <2>1. m = n /\ \A i \in 1..n : n - m + i = i
    BY <1>1, <1>3
  <2> QED
    BY <1>1, <1>6, <1>7, <2>1, SeqEqual DEF n
<1>10. \A i \in 1..Len(r) : \/ \E j \in 1..Len(rxBuf) : r[i] = rxBuf[j]
                           \/ \E j \in 1..Len(bytes) : r[i] = bytes[j]
  BY <1>7, <1>8
<1>11. Len(rxBuf) + Len(bytes) < RxSize => r = rxBuf \o bytes
  BY <1>1, <1>9 DEF all
<1> QED
  BY <1>2, <1>6, <1>10, <1>11

----------------------------------------------------------------------------
(* What the steps do to the buffers                                           *)

Sent(k) == [i \in 1..k |-> Byte(cur, at + i)]

LEMMA SentLemma ==
    ASSUME TypeInv, NEW k \in Nat
    PROVE  Sent(k) \in Seq(ByteSet) /\ Len(Sent(k)) = k /\ \A i \in 1..k : Sent(k)[i] = Byte(cur, at + i)
<1>1. \A i \in 1..k : at + i \in Nat
  BY TotalLemma DEF TypeInv
<1>2. \A i \in 1..k : Byte(cur, at + i) \in ByteSet
  BY <1>1, ByteLemma DEF TypeInv
<1>3. Sent(k) \in [1..k -> ByteSet] /\ \A i \in 1..k : Sent(k)[i] = Byte(cur, at + i)
  BY <1>2, Zenon DEF Sent
<1> QED
  BY <1>3

LEMMA HostSendLemma ==
    ASSUME TypeInv, HostSend
    PROVE  /\ ~quit /\ UNCHANGED <<cur, quit, batch, cmd, late, busy, traffic, parsed>>
           /\ \E k \in Nat : /\ k > 0 /\ at + k <= Total(cur) /\ at' = at + k
                            /\ rxBuf' = Filled(Sent(k))
<1>1. /\ ~quit /\ UNCHANGED <<cur, quit, batch, cmd, late, busy, traffic, parsed>>
      /\ \E k \in 1..PktLen : /\ at + k <= Total(cur) /\ at' = at + k
                              /\ rxBuf' = Filled(Sent(k))
  BY Zenon DEF HostSend, Sent
<1> QED
  BY <1>1, Sizes

LEMMA ReceiveLemma ==
    ASSUME TypeInv, Receive
    PROVE  /\ batch = <<>> /\ rxBuf # <<>> /\ cmd' = Flushed /\ late' = "no" /\ UNCHANGED <<hostVars, busy, traffic, parsed>>
           /\ batch' \in Seq(ByteSet) /\ rxBuf' \in Seq(ByteSet) /\ batch' \o rxBuf' = rxBuf
           /\ \A i \in 1..Len(batch') : i \in 1..Len(rxBuf) /\ batch'[i] = rxBuf[i]
           /\ \A i \in 1..Len(rxBuf') : \E j \in 1..Len(rxBuf) : rxBuf'[i] = rxBuf[j]
<1> DEFINE n == Min({BatchLen, Len(rxBuf)})
           m == Len(rxBuf)
<1>1. /\ batch = <<>> /\ rxBuf # <<>> /\ cmd' = Flushed /\ late' = "no" /\ UNCHANGED <<hostVars, busy, traffic, parsed>>
      /\ batch' = SubSeq(rxBuf, 1, n) /\ rxBuf' = SubSeq(rxBuf, n + 1, m)
  BY DEF Receive, NextTurn
<1>2. rxBuf \in Seq(ByteSet) /\ m \in Nat /\ m > 0
  BY <1>1 DEF TypeInv
<1>3. n \in 1..m
  <2>1. \E x \in {BatchLen, m} : \A y \in {BatchLen, m} : x <= y
    BY <1>2, Sizes
  <2>2. n \in {BatchLen, m} /\ \A y \in {BatchLen, m} : n <= y
    BY <2>1, Zenon DEF Min
  <2> HIDE DEF n
  <2> QED
    BY <1>2, <2>2, Sizes
<1> HIDE DEF n, m
<1>4. \A i \in 1..m : rxBuf[i] \in ByteSet
  BY <1>2, ElementOfSeq DEF m
<1>5. /\ batch' \in Seq(ByteSet) /\ Len(batch') = n
      /\ \A i \in 1..n : batch'[i] = rxBuf[i] /\ i \in 1..m
  <2>1. \A i \in 1..n : rxBuf[i] \in ByteSet /\ i \in 1..m
    BY <1>2, <1>3, <1>4
  <2>2. /\ SubSeq(rxBuf, 1, n) \in Seq(ByteSet)
        /\ Len(SubSeq(rxBuf, 1, n)) = IF 1 <= n THEN n - 1 + 1 ELSE 0
        /\ \A i \in 1..(n - 1 + 1) : SubSeq(rxBuf, 1, n)[i] = rxBuf[1 + i - 1]
    BY <1>2, <1>3, <2>1, SubSeqProperties
  <2>3. n - 1 + 1 = n /\ 1 <= n /\ \A i \in 1..n : 1 + i - 1 = i
    BY <1>2, <1>3
  <2> QED
    BY <1>1, <2>1, <2>2, <2>3
<1>6. /\ rxBuf' \in Seq(ByteSet) /\ Len(rxBuf') = m - n
      /\ \A i \in 1..(m - n) : rxBuf'[i] = rxBuf[n + i] /\ n + i \in 1..m
  <2>1. \A i \in (n + 1)..m : rxBuf[i] \in ByteSet
    BY <1>2, <1>3, <1>4
  <2>2. /\ SubSeq(rxBuf, n + 1, m) \in Seq(ByteSet)
        /\ Len(SubSeq(rxBuf, n + 1, m)) = IF n + 1 <= m THEN m - (n + 1) + 1 ELSE 0
        /\ \A i \in 1..(m - (n + 1) + 1) : SubSeq(rxBuf, n + 1, m)[i] = rxBuf[n + 1 + i - 1]
    BY <1>2, <1>3, <2>1, SubSeqProperties
  <2>3. /\ m - (n + 1) + 1 = m - n /\ (n + 1 <= m \/ m - n = 0)
        /\ \A i \in 1..(m - n) : n + 1 + i - 1 = n + i /\ n + i \in 1..m
    BY <1>2, <1>3
  <2> QED
    BY <1>1, <2>2, <2>3
<1>7. batch' \o rxBuf' = rxBuf
  <2>1. /\ batch' \o rxBuf' \in Seq(ByteSet) /\ Len(batch' \o rxBuf') = Len(batch') + Len(rxBuf')
        /\ \A i \in 1..(Len(batch') + Len(rxBuf')) :
              (batch' \o rxBuf')[i] = IF i <= Len(batch') THEN batch'[i] ELSE rxBuf'[i - Len(batch')]
    BY <1>5, <1>6, ConcatProperties
  <2>2. Len(batch') + Len(rxBuf') = m
    BY <1>2, <1>3, <1>5, <1>6
  <2>3. \A i \in 1..m : (batch' \o rxBuf')[i] = rxBuf[i]
    <3> TAKE i \in 1..m
    <3>1. CASE i <= n
      <4>1. i \in 1..n
        BY <1>2, <1>3, <3>1
      <4> QED
        BY <1>5, <2>1, <2>2, <3>1, <4>1
    <3>2. CASE ~(i <= n)
      <4>1. i - n \in 1..(m - n) /\ n + (i - n) = i
        BY <1>2, <1>3, <3>2
      <4>2. rxBuf'[i - n] = rxBuf[i]
        BY <1>6, <4>1
      <4> QED
        BY <1>5, <2>1, <2>2, <3>2, <4>2
    <3> QED
      BY <3>1, <3>2
  <2> QED
    BY <1>2, <2>1, <2>2, <2>3, SeqEqual DEF m
<1>8. \A i \in 1..Len(rxBuf') : \E j \in 1..m : rxBuf'[i] = rxBuf[j]
  BY <1>6
<1> QED
  BY <1>1, <1>5, <1>6, <1>7, <1>8 DEF m

\* cmd with the next byte of the batch, and what is left
Next1 == Append(cmd, Head(batch))
Later == Tail(batch) \o rxBuf

LEMMA PushLemma ==
    ASSUME TypeInv, batch # <<>>
    PROVE  /\ Next1 \in Seq(ByteSet) /\ Len(Next1) = Len(cmd) + 1 /\ Len(cmd) \in Nat /\ Next1 # <<>>
           /\ \A i \in 1..Len(cmd) : Next1[i] = cmd[i]
           /\ Next1[Len(cmd) + 1] = batch[1] /\ 1 \in 1..Len(batch)
           /\ Tail(batch) \in Seq(ByteSet)
           /\ \A i \in 1..Len(Tail(batch)) : i + 1 \in 1..Len(batch) /\ Tail(batch)[i] = batch[i + 1]
           /\ Later \in Seq(ByteSet) /\ Stream = Next1 \o Later
           /\ Stream = (Next1 \o Tail(batch)) \o rxBuf
<1> DEFINE x == Head(batch)
           t == Tail(batch)
<1>1. /\ cmd \in Seq(ByteSet) /\ batch \in Seq(ByteSet) /\ rxBuf \in Seq(ByteSet)
      /\ x \in ByteSet /\ x = batch[1] /\ t \in Seq(ByteSet) /\ Len(t) = Len(batch) - 1 /\ Len(batch) \in Nat
      /\ Len(batch) > 0 /\ \A i \in 1..(Len(batch) - 1) : t[i] = batch[i + 1]
  BY DEF TypeInv
<1>2. batch = <<x>> \o t
  <2>1. <<x>> \in Seq(ByteSet) /\ Len(<<x>>) = 1 /\ <<x>>[1] = x
    BY <1>1
  <2> DEFINE y == <<x>>
  <2> HIDE DEF y, x, t
  <2>2. /\ y \o t \in Seq(ByteSet) /\ Len(y \o t) = Len(y) + Len(t)
        /\ \A i \in 1..(Len(y) + Len(t)) : (y \o t)[i] = IF i <= Len(y) THEN y[i] ELSE t[i - Len(y)]
    <3>1. y \in Seq(ByteSet) /\ t \in Seq(ByteSet)
      BY <1>1, <2>1 DEF y
    <3> QED
      BY <3>1, ConcatProperties
  <2>3. Len(y \o t) = Len(batch) /\ \A i \in 1..Len(batch) : (y \o t)[i] = IF i = 1 THEN x ELSE t[i - 1]
    BY <1>1, <2>1, <2>2 DEF y
  <2>4. \A i \in 1..Len(batch) : (y \o t)[i] = batch[i]
    <3> TAKE i \in 1..Len(batch)
    <3>1. CASE i = 1
      BY <1>1, <2>3, <3>1
    <3>2. CASE i # 1
      <4>1. i - 1 \in 1..(Len(batch) - 1) /\ i - 1 + 1 = i
        BY <1>1, <3>2
      <4>2. t[i - 1] = batch[i]
        BY <1>1, <4>1
      <4> QED
        BY <2>3, <3>2, <4>2
    <3> QED
      BY <3>1, <3>2
  <2>5. y \o t = batch
    BY <1>1, <2>2, <2>3, <2>4, SeqEqual
  <2> QED
    BY <2>5 DEF y
<1>3. Next1 = cmd \o <<x>> /\ <<x>> \in Seq(ByteSet)
  BY <1>1, AppendIsConcat DEF Next1
<1>4. /\ Next1 \in Seq(ByteSet) /\ Len(Next1) = Len(cmd) + 1 /\ Len(cmd) \in Nat /\ Next1 # <<>>
      /\ \A i \in 1..Len(cmd) : Next1[i] = cmd[i]
      /\ Next1[Len(cmd) + 1] = x
  BY <1>1, AppendProperties DEF Next1
<1> HIDE DEF x, t
<1>5. cmd \o batch = Next1 \o t
  <2>1. cmd \in Seq(ByteSet) /\ <<x>> \in Seq(ByteSet) /\ t \in Seq(ByteSet)
    BY <1>1, <1>3
  <2>2. (cmd \o <<x>>) \o t = cmd \o (<<x>> \o t)
    BY <2>1, ConcatAssociative, SMTT(30)
  <2> QED
    BY <1>2, <1>3, <2>2
<1>6. (Next1 \o t) \o rxBuf = Next1 \o (t \o rxBuf) /\ t \o rxBuf \in Seq(ByteSet)
  <2>1. (Next1 \o t) \o rxBuf = Next1 \o (t \o rxBuf)
    <3>1. Next1 \in Seq(ByteSet) /\ t \in Seq(ByteSet) /\ rxBuf \in Seq(ByteSet)
      BY <1>1, <1>4
    <3> QED
      BY <3>1, ConcatAssociative, SMTT(30)
  <2>2. t \o rxBuf \in Seq(ByteSet)
    BY <1>1, ConcatProperties
  <2> QED
    BY <2>1, <2>2
<1>7. Stream = (Next1 \o t) \o rxBuf
  BY <1>5 DEF Stream
<1>8. \A i \in 1..Len(t) : i + 1 \in 1..Len(batch) /\ t[i] = batch[i + 1]
  BY <1>1
<1>9. 1 \in 1..Len(batch)
  BY <1>1
<1> QED
  BY <1>1, <1>4, <1>6, <1>7, <1>8, <1>9 DEF Later, x, t

----------------------------------------------------------------------------
(* Types                                                                      *)

LEMMA CmdLemma ==
    ASSUME TypeInv, Push
    PROVE  /\ batch # <<>> /\ batch' = Tail(batch) /\ ~busy /\ UNCHANGED <<hostVars, rxBuf, late, traffic>>
           /\ Complete(Next1) => /\ cmd' = <<>> /\ busy' \in BOOLEAN
                                 /\ parsed' = IF Whole(Next1) THEN Next1[1].no ELSE parsed
           /\ ~Complete(Next1) => /\ cmd' = IF Len(Next1) = BufSize THEN <<>> ELSE Next1
                                  /\ busy' = busy /\ parsed' = parsed
<1>1. /\ batch # <<>> /\ batch' = Tail(batch) /\ ~busy /\ UNCHANGED <<hostVars, rxBuf, late, traffic>>
      /\ IF Complete(Next1)
         THEN /\ cmd' = <<>>
              /\ busy' \in {FALSE, Next1[1].val # 64}
              /\ parsed' = IF Whole(Next1) THEN Next1[1].no ELSE parsed
         ELSE cmd' = Pushed(Next1) /\ UNCHANGED <<busy, parsed>>
  BY Zenon DEF Push, Next1
<1>2. Complete(Next1) => busy' \in BOOLEAN
  BY <1>1
<1> QED
  BY <1>1, <1>2, Zenon DEF Pushed

LEMMA TypeStep == TypeInv /\ [Next]_vars => TypeInv'
<1> SUFFICES ASSUME TypeInv, [Next]_vars PROVE TypeInv'
  OBVIOUS
<1>1. CASE HostBegin
  <2>1. PICK frame \in BOOLEAN, extra \in Extras : cur' = [no |-> cur.no + 1, frame |-> frame, extra |-> extra]
    BY <1>1 DEF HostBegin
  <2>2. cur' \in CmdSet
    BY <2>1, Sizes DEF TypeInv, CmdSet
  <2>3. at' = 0 /\ quit' = FALSE /\ UNCHANGED <<rxBuf, batch, cmd, late, busy, traffic, parsed>>
    BY <1>1 DEF HostBegin
  <2>4. 0 \in 0..Total(cur')
    BY <2>2, TotalLemma
  <2> QED
    BY <2>2, <2>3, <2>4 DEF TypeInv
<1>2. CASE HostQuit
  BY <1>2, TotalLemma DEF HostQuit, TypeInv
<1>3. CASE HostSend
  <2>1. PICK k \in Nat : k > 0 /\ at + k <= Total(cur) /\ at' = at + k /\ rxBuf' = Filled(Sent(k))
    BY <1>3, HostSendLemma
  <2>2. rxBuf' \in Seq(ByteSet)
    BY <2>1, SentLemma, FilledLemma
  <2>3. ~quit /\ UNCHANGED <<cur, quit, batch, cmd, late, busy, traffic, parsed>>
    BY <1>3, HostSendLemma
  <2>4. at' \in 0..Total(cur)
    BY <2>1, TotalLemma DEF TypeInv
  <2> QED
    BY <2>2, <2>3, <2>4 DEF TypeInv
<1>4. CASE Tick
  BY <1>4 DEF Tick, TypeInv, hostVars
<1>5. CASE Receive
  <2>1. /\ batch' \in Seq(ByteSet) /\ rxBuf' \in Seq(ByteSet) /\ late' = "no"
        /\ cmd' = Flushed /\ UNCHANGED <<cur, at, quit, busy, traffic>>
    BY <1>5, ReceiveLemma DEF hostVars
  <2>2. cmd' \in Seq(ByteSet) /\ Len(cmd') < BufSize
    BY <2>1, Sizes DEF TypeInv, Flushed
  <2> QED
    BY <2>1, <2>2 DEF TypeInv
<1>6. CASE Push
  <2>1. /\ batch' = Tail(batch) /\ batch # <<>> /\ UNCHANGED <<cur, at, quit, rxBuf, late, traffic>> /\ busy' \in BOOLEAN
        /\ cmd' \in {<<>>, Next1} /\ (cmd' = Next1 => cmd' = <<>> \/ Len(Next1) # BufSize)
    BY <1>6, CmdLemma DEF hostVars, TypeInv
  <2>2. /\ Next1 \in Seq(ByteSet) /\ Len(Next1) = Len(cmd) + 1 /\ Len(cmd) \in Nat
        /\ Tail(batch) \in Seq(ByteSet)
    BY <2>1, PushLemma
  <2>3. cmd' \in Seq(ByteSet) /\ Len(cmd') < BufSize
    <3>1. Len(cmd) < BufSize /\ BufSize \in Nat /\ 0 < BufSize
      BY Sizes DEF TypeInv
    <3>2. CASE cmd' = <<>>
      BY <3>1, <3>2
    <3>3. CASE cmd' = Next1 /\ Len(Next1) # BufSize
      BY <2>2, <3>1, <3>3
    <3> QED
      BY <2>1, <3>2, <3>3
  <2> QED
    BY <2>1, <2>2, <2>3 DEF TypeInv
<1>7. CASE Return \/ BusPacket \/ Packets
  <2>1. UNCHANGED <<cur, at, quit, rxBuf, batch, cmd, late>>
    BY <1>7 DEF Return, BusPacket, Packets, hostVars
  <2>2. busy \in BOOLEAN /\ traffic \in BOOLEAN
    BY DEF TypeInv
  <2>3. busy' \in BOOLEAN /\ traffic' \in BOOLEAN
    BY <1>7, <2>2 DEF Return, BusPacket, Packets
  <2> QED
    BY <2>1, <2>3 DEF TypeInv
<1>8. CASE UNCHANGED vars
  BY <1>8 DEF vars, TypeInv, hostVars
<1> QED
  BY <1>1, <1>2, <1>3, <1>4, <1>5, <1>6, <1>7, <1>8 DEF Next, MainLoop

----------------------------------------------------------------------------
(* Every byte is one of a command of the host                                 *)

LEMMA GenuinePart ==
    ASSUME NEW f, NEW c, NEW a, NEW s, NEW t, Genuine(f, c, a, s),
           \A i \in 1..Len(t) : \E j \in 1..Len(s) : t[i] = s[j]
    PROVE  Genuine(f, c, a, t)
BY DEF Genuine

LEMMA GenuineNone ==
    ASSUME NEW f, NEW c, NEW a
    PROVE  Genuine(f, c, a, <<>>)
BY DEF Genuine

\* The host goes on in its command or begins one.
LEMMA GenuineMore ==
    ASSUME NEW f, NEW c \in CmdSet, NEW a \in Nat, NEW b \in Nat, NEW s, a <= b, History(f, c), Genuine(f, c, a, s)
    PROVE  Genuine(f, c, b, s)
<1>1. \A i \in 1..Len(s) : s[i].pos \in Nat
  <2> TAKE i \in 1..Len(s)
  <2>1. s[i].no \in 0..c.no /\ s[i].pos \in 1..Total(f[s[i].no])
    BY DEF Genuine
  <2>2. s[i].no \in Nat
    BY <2>1 DEF CmdSet
  <2>3. f[s[i].no] \in CmdSet
    BY <2>2 DEF History
  <2>4. Total(f[s[i].no]) \in Nat
    BY <2>3, TotalLemma
  <2> QED
    BY <2>1, <2>4
<1> QED
  BY <1>1 DEF Genuine

LEMMA GenuineNew ==
    ASSUME NEW f, NEW c \in CmdSet, NEW a, NEW d \in CmdSet, d.no = c.no + 1, NEW s, History(f, c), Genuine(f, c, a, s)
    PROVE  History([f EXCEPT ![d.no] = d], d) /\ Genuine([f EXCEPT ![d.no] = d], d, 0, s)
<1> DEFINE g == [f EXCEPT ![d.no] = d]
<1>1. c.no \in Nat /\ d.no \in Nat /\ d.no = c.no + 1
  BY DEF CmdSet
<1>2. g \in [Nat -> CmdSet] /\ g[d.no] = d /\ \A n \in Nat : n # d.no => g[n] = f[n]
  BY <1>1 DEF History
<1> HIDE DEF g
<1>3. \A i \in 1..Len(s) : s[i].no \in 0..d.no /\ s[i].no # d.no /\ g[s[i].no] = f[s[i].no]
  <2> TAKE i \in 1..Len(s)
  <2>1. s[i].no \in 0..c.no
    BY DEF Genuine
  <2>2. s[i].no \in Nat /\ s[i].no # d.no /\ s[i].no \in 0..d.no
    BY <1>1, <2>1
  <2> QED
    BY <1>2, <2>2
<1>4. Genuine(g, d, 0, s)
  BY <1>3 DEF Genuine
<1>5. History(g, d)
  BY <1>1, <1>2 DEF History
<1> QED
  BY <1>4, <1>5 DEF g

LEMMA GenuineStep == TypeInv /\ TypeInv' /\ GenuineInv /\ [Next]_vars => GenuineInv'
<1> SUFFICES ASSUME TypeInv, TypeInv', GenuineInv, [Next]_vars PROVE GenuineInv'
  OBVIOUS
<1>1. PICK f : /\ History(f, cur)
               /\ Genuine(f, cur, at, cmd) /\ Genuine(f, cur, at, batch) /\ Genuine(f, cur, at, rxBuf)
  BY DEF GenuineInv
<1>2. /\ cur \in CmdSet /\ at \in Nat /\ Total(cur) \in Nat
      /\ cmd \in Seq(ByteSet) /\ batch \in Seq(ByteSet) /\ rxBuf \in Seq(ByteSet)
  BY TotalLemma DEF TypeInv
<1>3. ASSUME UNCHANGED <<cur, at, rxBuf, batch, cmd>> PROVE GenuineInv'
  BY <1>1, <1>3 DEF GenuineInv
<1>4. CASE HostBegin
  <2>1. cur' \in CmdSet /\ cur'.no = cur.no + 1 /\ at' = 0 /\ UNCHANGED <<rxBuf, batch, cmd>>
    BY <1>4 DEF HostBegin, TypeInv
  <2> DEFINE g == [f EXCEPT ![cur'.no] = cur']
  <2>2. History(g, cur') /\ Genuine(g, cur', 0, cmd)
    BY <1>1, <1>2, <2>1, GenuineNew
  <2>3. Genuine(g, cur', 0, batch)
    BY <1>1, <1>2, <2>1, GenuineNew
  <2>4. Genuine(g, cur', 0, rxBuf)
    BY <1>1, <1>2, <2>1, GenuineNew
  <2> HIDE DEF g
  <2> QED
    BY <2>1, <2>2, <2>3, <2>4 DEF GenuineInv
<1>5. CASE HostSend
  <2>1. PICK k \in Nat : k > 0 /\ at + k <= Total(cur) /\ at' = at + k /\ rxBuf' = Filled(Sent(k))
    BY <1>5, HostSendLemma
  <2>2. UNCHANGED <<cur, batch, cmd>> /\ at' \in Nat /\ at <= at'
    BY <1>2, <1>5, <2>1, HostSendLemma
  <2>3. Genuine(f, cur, at', cmd) /\ Genuine(f, cur, at', batch) /\ Genuine(f, cur, at', rxBuf)
    BY <1>1, <1>2, <2>2, GenuineMore
  <2>4. Genuine(f, cur, at', Sent(k))
    <3> SUFFICES ASSUME NEW i \in 1..Len(Sent(k))
                 PROVE  /\ Sent(k)[i].no \in 0..cur.no
                        /\ Sent(k)[i].pos \in 1..Total(f[Sent(k)[i].no])
                        /\ Sent(k)[i] = Byte(f[Sent(k)[i].no], Sent(k)[i].pos)
                        /\ Sent(k)[i].no = cur.no => Sent(k)[i].pos <= at'
      BY DEF Genuine
    <3>1. i \in 1..k /\ Sent(k)[i] = Byte(cur, at + i)
      BY SentLemma
    <3>2. at + i \in Nat /\ at + i \in 1..Total(cur) /\ at + i <= at'
      BY <1>2, <2>1, <3>1
    <3>3. Sent(k)[i].no = cur.no /\ Sent(k)[i].pos = at + i
      BY <1>2, <3>1, <3>2, ByteLemma
    <3>4. f[cur.no] = cur /\ cur.no \in 0..cur.no
      BY <1>1, <1>2 DEF History, CmdSet
    <3> QED
      BY <3>1, <3>2, <3>3, <3>4
  <2>5. \A i \in 1..Len(rxBuf') : \/ \E j \in 1..Len(rxBuf) : rxBuf'[i] = rxBuf[j]
                                 \/ \E j \in 1..Len(Sent(k)) : rxBuf'[i] = Sent(k)[j]
    BY <2>1, SentLemma, FilledLemma
  <2>6. Genuine(f, cur, at', rxBuf')
    BY <2>3, <2>4, <2>5 DEF Genuine
  <2> QED
    BY <1>1, <2>2, <2>3, <2>6 DEF GenuineInv
<1>6. CASE Receive
  <2>1. /\ cmd' = Flushed /\ UNCHANGED <<cur, at>>
        /\ \A i \in 1..Len(batch') : \E j \in 1..Len(rxBuf) : batch'[i] = rxBuf[j]
        /\ \A i \in 1..Len(rxBuf') : \E j \in 1..Len(rxBuf) : rxBuf'[i] = rxBuf[j]
    BY <1>6, ReceiveLemma DEF hostVars
  <2>2. Genuine(f, cur, at, batch') /\ Genuine(f, cur, at, rxBuf')
    BY <1>1, <2>1, GenuinePart
  <2>3. Genuine(f, cur, at, cmd')
    BY <1>1, <2>1, GenuineNone DEF Flushed
  <2> QED
    BY <1>1, <2>1, <2>2, <2>3 DEF GenuineInv
<1>7. CASE Push
  <2>1. /\ batch' = Tail(batch) /\ batch # <<>> /\ UNCHANGED <<cur, at, rxBuf>> /\ cmd' \in {<<>>, Next1}
    BY <1>7, CmdLemma DEF hostVars
  <2>2. \A i \in 1..Len(Tail(batch)) : \E j \in 1..Len(batch) : Tail(batch)[i] = batch[j]
    BY <2>1, PushLemma
  <2>3. \A i \in 1..Len(Next1) : \/ \E j \in 1..Len(cmd) : Next1[i] = cmd[j]
                                \/ \E j \in 1..Len(batch) : Next1[i] = batch[j]
    <3> TAKE i \in 1..Len(Next1)
    <3>1. /\ Len(Next1) = Len(cmd) + 1 /\ Len(cmd) \in Nat /\ Next1[Len(cmd) + 1] = batch[1] /\ 1 \in 1..Len(batch)
          /\ \A j \in 1..Len(cmd) : Next1[j] = cmd[j]
      BY <2>1, PushLemma
    <3>2. i \in 1..Len(cmd) \/ i = Len(cmd) + 1
      BY <3>1
    <3> QED
      BY <3>1, <3>2
  <2>4. Genuine(f, cur, at, Next1)
    BY <1>1, <2>3 DEF Genuine
  <2>5. Genuine(f, cur, at, Tail(batch))
    BY <1>1, <2>2, GenuinePart
  <2>6. Genuine(f, cur, at, cmd')
    BY <2>1, <2>4, GenuineNone
  <2> QED
    BY <1>1, <2>1, <2>5, <2>6 DEF GenuineInv
<1>8. CASE HostQuit \/ Tick \/ Return \/ BusPacket \/ Packets \/ UNCHANGED vars
  BY <1>3, <1>8 DEF HostQuit, Tick, Return, BusPacket, Packets, NextTurn, vars, hostVars
<1> QED
  BY <1>4, <1>5, <1>6, <1>7, <1>8 DEF Next, MainLoop

----------------------------------------------------------------------------
(* What cmd can hold                                                          *)

LEMMA StartedPart ==
    ASSUME NEW a \in Seq(ByteSet), NEW b \in Seq(ByteSet), a # <<>>, Started(a \o b)
    PROVE  Started(a)
<1>1. /\ Len(a) \in Nat /\ Len(a) > 0 /\ Len(b) \in Nat /\ Len(a \o b) = Len(a) + Len(b)
      /\ \A i \in 1..(Len(a) + Len(b)) : (a \o b)[i] = IF i <= Len(a) THEN a[i] ELSE b[i - Len(a)]
  BY ConcatProperties
<1>2. \A i \in 1..Len(a) : (a \o b)[i] = a[i]
  BY <1>1
<1>3. 1 \in 1..Len(a) /\ \A i \in 1..(Len(a) - 1) : i \in 1..Len(a) /\ i + 1 \in 1..Len(a) /\ i \in 1..(Len(a \o b) - 1)
  BY <1>1
<1>4. a[1].pos = 1
  BY <1>2, <1>3 DEF Started
<1>5. Linked(a)
  BY <1>2, <1>3 DEF Started, Linked
<1> QED
  BY <1>4, <1>5 DEF Started

\* If the command under way is without a gap, it is one command so far.
LEMMA NextShape ==
    ASSUME TypeInv, GenuineInv, ShapeInv, batch # <<>>, Started(Next1)
    PROVE  \E c \in CmdSet : /\ Len(Next1) \in 1..Total(c)
                             /\ \A i \in 1..Len(Next1) : Next1[i] = Byte(c, i)
<1> DEFINE n == Len(cmd)
<1>1. /\ Next1 \in Seq(ByteSet) /\ Len(Next1) = n + 1 /\ n \in Nat
      /\ \A i \in 1..n : Next1[i] = cmd[i]
      /\ Next1[n + 1] = batch[1] /\ 1 \in 1..Len(batch)
  BY PushLemma
<1>2. PICK f : History(f, cur) /\ Genuine(f, cur, at, cmd) /\ Genuine(f, cur, at, batch)
  BY DEF GenuineInv
<1>3. \A i \in 1..(n + 1) : i \in 1..n \/ i = n + 1
  BY <1>1
<1>4. Genuine(f, cur, at, Next1)
  BY <1>1, <1>2, <1>3 DEF Genuine
<1>5. \A i \in 1..(n + 1) : Next1[i].no = Next1[1].no /\ Next1[i].pos = i
  <2>1. Next1[1].pos = 1 /\ Linked(Next1)
    BY DEF Started
  <2>2. CASE n = 0
    BY <2>1, <2>2
  <2>3. CASE n # 0
    <3>1. n \in 1..n /\ n \in 1..(Len(Next1) - 1) /\ 1 \in 1..n /\ cmd # <<>>
      BY <1>1, <2>3
    <3>2. \A i \in 1..(n - 1) : i \in 1..(Len(Next1) - 1) /\ i \in 1..n /\ i + 1 \in 1..n
      BY <1>1
    <3>3. Started(cmd)
      BY <1>1, <2>1, <3>1, <3>2 DEF Started, Linked
    <3>4. Begun(cmd)
      BY <3>3 DEF ShapeInv
    <3>5. \A i \in 1..n : Next1[i].no = Next1[1].no /\ Next1[i].pos = i /\ ~Next1[i].last
      BY <1>1, <3>1, <3>4 DEF Begun
    <3>6. Next1[n + 1].no = Next1[n].no /\ Next1[n + 1].pos = Next1[n].pos + 1
      BY <2>1, <3>1, <3>5 DEF Linked
    <3>7. Next1[n + 1].no = Next1[1].no /\ Next1[n + 1].pos = n + 1
      BY <3>1, <3>5, <3>6
    <3> QED
      BY <1>3, <3>5, <3>7
  <2> QED
    BY <2>2, <2>3
<1> DEFINE c == f[Next1[1].no]
<1>6. c \in CmdSet
  <2>1. 1 \in 1..Len(Next1)
    BY <1>1
  <2>2. Next1[1].no \in 0..cur.no
    BY <1>4, <2>1 DEF Genuine
  <2>3. Next1[1].no \in Nat
    BY <2>2 DEF TypeInv, CmdSet
  <2> QED
    BY <1>2, <2>3 DEF History
<1>7. \A i \in 1..Len(Next1) : i \in 1..Total(c) /\ Next1[i] = Byte(c, i)
  BY <1>1, <1>4, <1>5 DEF Genuine
<1> HIDE DEF c
<1>8. Len(Next1) \in 1..Total(c)
  BY <1>1, <1>7
<1> QED
  BY <1>6, <1>7, <1>8

LEMMA ShapeStep == TypeInv /\ GenuineInv /\ ShapeInv /\ [Next]_vars => ShapeInv'
<1> SUFFICES ASSUME TypeInv, GenuineInv, ShapeInv, [Next]_vars PROVE ShapeInv'
  OBVIOUS
<1>1. ASSUME cmd' = cmd \/ cmd' = <<>> PROVE ShapeInv'
  BY <1>1 DEF ShapeInv, Started, Begun
<1>2. CASE Push
  <2>1. batch # <<>> /\ (cmd' = <<>> \/ (cmd' = Next1 /\ ~Complete(Next1) /\ Len(Next1) # BufSize))
    BY <1>2, CmdLemma
  <2>2. CASE cmd' = Next1 /\ ~Complete(Next1) /\ Len(Next1) # BufSize
    <3> SUFFICES ASSUME Started(Next1) PROVE Begun(Next1)
      BY <2>2 DEF ShapeInv
    <3>1. PICK c \in CmdSet : /\ Len(Next1) \in 1..Total(c)
                              /\ \A i \in 1..Len(Next1) : Next1[i] = Byte(c, i)
      BY <2>1, NextShape
    <3>2. Next1 \in Seq(ByteSet) /\ Len(Next1) = Len(cmd) + 1 /\ Len(cmd) \in Nat
      BY <2>1, PushLemma
    <3>3. Len(Next1) < BufSize
      BY <2>2, <3>2, Sizes DEF TypeInv
    <3>4. Len(Next1) # Total(c)
      BY <2>2, <3>1, <3>2, <3>3, CompleteLemma
    <3>5. \A i \in 1..Len(Next1) : i \in Nat /\ i # Total(c)
      BY <3>1, <3>2, <3>4, TotalLemma
    <3>6. 1 \in 1..Len(Next1)
      BY <3>2
    <3>7. ASSUME NEW i \in 1..Len(Next1) PROVE Next1[i].no = c.no /\ Next1[i].pos = i /\ ~Next1[i].last
      BY <3>1, <3>5, ByteLemma
    <3> QED
      BY <3>6, <3>7 DEF Begun
  <2> QED
    BY <1>1, <2>1, <2>2
<1>3. CASE Receive
  BY <1>1, <1>3, ReceiveLemma DEF Flushed
<1>4. CASE HostSend
  BY <1>1, <1>4, HostSendLemma
<1>5. CASE HostBegin \/ HostQuit \/ Tick \/ Return \/ BusPacket \/ Packets \/ UNCHANGED vars
  BY <1>1, <1>5 DEF HostBegin, HostQuit, Tick, Return, BusPacket, Packets, NextTurn, vars
<1> QED
  BY <1>2, <1>3, <1>4, <1>5 DEF Next, MainLoop

LEMMA PauseStep == TypeInv /\ GenuineInv /\ PauseInv /\ [Next]_vars => PauseInv'
<1> SUFFICES ASSUME TypeInv, GenuineInv, PauseInv, [Next]_vars PROVE PauseInv'
  OBVIOUS
<1>1. /\ cur \in CmdSet /\ cur.no \in Nat /\ at \in Nat /\ Total(cur) \in Nat
      /\ \A i \in 1..Len(cmd) : cmd[i].no \in 0..cur.no /\ (cmd[i].no = cur.no => at > 0)
  <2>1. PICK f : History(f, cur) /\ Genuine(f, cur, at, cmd)
    BY DEF GenuineInv
  <2>2. cur \in CmdSet /\ cur.no \in Nat /\ at \in Nat /\ Total(cur) \in Nat
    BY TotalLemma DEF TypeInv, CmdSet
  <2>3. ASSUME NEW i \in 1..Len(cmd), cmd[i].no = cur.no PROVE at > 0
    <3>1. cmd[i].pos \in 1..Total(cur) /\ cmd[i].pos <= at
      BY <2>1, <2>3 DEF Genuine, History
    <3> QED
      BY <2>2, <3>1
  <2>4. \A i \in 1..Len(cmd) : cmd[i].no \in 0..cur.no
    BY <2>1 DEF Genuine
  <2> QED
    BY <2>2, <2>3, <2>4
<1>2. CASE HostBegin
  <2>1. cur'.no = cur.no + 1 /\ UNCHANGED <<rxBuf, batch, cmd, late>>
    BY <1>2 DEF HostBegin
  <2>2. \A i \in 1..Len(cmd) : cmd[i].no < cur'.no
    BY <1>1, <2>1
  <2> QED
    BY <2>1, <2>2 DEF PauseInv
<1>3. CASE HostQuit
  BY <1>3 DEF HostQuit, PauseInv
<1>4. CASE HostSend
  <2>1. PICK k \in Nat : k > 0 /\ at + k <= Total(cur) /\ at' = at + k /\ rxBuf' = Filled(Sent(k))
    BY <1>4, HostSendLemma
  <2>2. ~quit /\ UNCHANGED <<cur, quit, batch, cmd, late>>
    BY <1>4, HostSendLemma
  <2>3. SUFFICES ASSUME late = "pause" PROVE PauseInv'
    BY <2>2 DEF PauseInv
  <2>4. at # Total(cur)
    BY <1>1, <2>1
  <2>5. batch = <<>> /\ \A i \in 1..Len(cmd) : cmd[i].no < cur.no /\ \A j \in 1..Len(rxBuf) : cmd[i].no < rxBuf[j].no
    BY <2>2, <2>3, <2>4 DEF PauseInv
  <2>6. \A j \in 1..Len(Sent(k)) : Sent(k)[j].no = cur.no
    <3> TAKE j \in 1..Len(Sent(k))
    <3>1. Sent(k)[j] = Byte(cur, at + j)
      BY SentLemma
    <3>2. at + j \in Nat
      BY <1>1, SentLemma
    <3> QED
      BY <1>1, <3>1, <3>2, ByteLemma
  <2>7. \A i \in 1..Len(rxBuf') : \/ \E j \in 1..Len(rxBuf) : rxBuf'[i] = rxBuf[j]
                                 \/ \E j \in 1..Len(Sent(k)) : rxBuf'[i] = Sent(k)[j]
    BY <2>1, SentLemma, FilledLemma
  <2>8. \A i \in 1..Len(cmd) : \A j \in 1..Len(rxBuf') : cmd[i].no < rxBuf'[j].no
    BY <2>5, <2>6, <2>7
  <2> QED
    BY <2>2, <2>5, <2>8 DEF PauseInv
<1>5. CASE Tick
  <2>1. CASE late' = "pause"
    <3>1. rxBuf = <<>> /\ batch = <<>> /\ (quit \/ at \in {0, Total(cur)}) /\ UNCHANGED <<cur, at, quit, rxBuf, batch, cmd>>
      BY <1>5, <2>1 DEF Tick, hostVars
    <3>2. \A i \in 1..Len(cmd) : cmd[i].no < cur.no \/ (cmd[i].no = cur.no /\ (at = Total(cur) \/ quit))
      BY <1>1, <3>1
    <3>3. Len(rxBuf) = 0
      BY <3>1
    <3> QED
      BY <3>1, <3>2, <3>3 DEF PauseInv
  <2> QED
    BY <2>1 DEF PauseInv
<1>6. CASE Receive
  BY <1>6, ReceiveLemma DEF PauseInv
<1>7. CASE Push
  BY <1>7, CmdLemma DEF PauseInv
<1>8. CASE Return \/ BusPacket \/ Packets \/ UNCHANGED vars
  BY <1>8 DEF Return, BusPacket, Packets, NextTurn, vars, hostVars, PauseInv
<1> QED
  BY <1>2, <1>3, <1>4, <1>5, <1>6, <1>7, <1>8 DEF Next, MainLoop

LEMMA Initial == Init => Inv
<1> SUFFICES ASSUME Init PROVE Inv
  OBVIOUS
<1>1. cur \in CmdSet /\ Total(cur) = 4 /\ cur.no = 0
  BY DEF Init, CmdSet, Total
<1>2. TypeInv
  <2>1. <<>> \in Seq(ByteSet) /\ Len(<<>>) = 0 /\ 0 < BufSize
    BY Sizes
  <2>2. at \in 0..Total(cur) /\ (quit => at < Total(cur) /\ at > 0) /\ quit \in BOOLEAN
    <3>1. at = 4 /\ quit = FALSE
      BY DEF Init
    <3>2. at \in 0..Total(cur)
      BY <1>1, <3>1
    <3> QED
      BY <3>1, <3>2, Zenon
  <2> QED
    BY <1>1, <2>1, <2>2 DEF Init, TypeInv
<1>3. GenuineInv
  <2> DEFINE f == [n \in Nat |-> [no |-> n, frame |-> FALSE, extra |-> 0]]
  <2>1. History(f, cur)
    BY DEF Init, History, CmdSet
  <2> HIDE DEF f
  <2>2. Genuine(f, cur, at, <<>>)
    BY GenuineNone
  <2> QED
    BY <2>1, <2>2 DEF Init, GenuineInv
<1>4. ShapeInv
  BY DEF Init, ShapeInv, Started
<1>5. PauseInv
  BY DEF Init, PauseInv
<1> QED
  BY <1>2, <1>3, <1>4, <1>5 DEF Inv

LEMMA Always == Spec => []Inv
<1>1. Inv /\ [Next]_vars => Inv'
  BY TypeStep, GenuineStep, ShapeStep, PauseStep DEF Inv
<1> QED BY <1>1, Initial, PTL DEF Spec

----------------------------------------------------------------------------
(* The stream is clean                                                        *)

End(s, c, a) == IF a = 0 THEN Last(s).last /\ Last(s).no = c.no - 1 ELSE Last(s) = Byte(c, a)

\* Clean, of what the host has sent when it is at byte a of c
CleanOf(s, c, a, q) ==
    IF s = <<>> THEN a \in {0, Total(c)} \/ q
    ELSE Started(s) /\ (\A i \in 1..Len(s) : s[i].pos < BufSize) /\ End(s, c, a)

LEMMA CleanLemma ==
    ASSUME NEW s \in Seq(ByteSet)
    PROVE  Clean(s) <=> CleanOf(s, cur, at, quit)
<1>1. DOMAIN s = 1..Len(s)
  OBVIOUS
<1> QED
  BY <1>1, Zenon DEF Clean, CleanOf, Started, Linked, End

LEMMA StreamLemma ==
    ASSUME TypeInv
    PROVE  /\ Stream \in Seq(ByteSet) /\ Stream = (cmd \o batch) \o rxBuf
           /\ InStep <=> CleanOf(Stream, cur, at, quit)
<1>1. cmd \in Seq(ByteSet) /\ batch \in Seq(ByteSet) /\ rxBuf \in Seq(ByteSet)
  BY DEF TypeInv
<1>2. cmd \o batch \in Seq(ByteSet)
  BY <1>1, ConcatProperties
<1>3. Stream \in Seq(ByteSet)
  BY <1>1, <1>2, ConcatProperties DEF Stream
<1> QED
  BY <1>3, CleanLemma DEF Stream, InStep

\* The same of the next state
LEMMA StreamNext ==
    ASSUME TypeInv'
    PROVE  /\ Stream' \in Seq(ByteSet) /\ Stream' = (cmd' \o batch') \o rxBuf'
           /\ InStep' <=> CleanOf(Stream', cur', at', quit')
<1>1. cmd' \in Seq(ByteSet) /\ batch' \in Seq(ByteSet) /\ rxBuf' \in Seq(ByteSet)
  BY DEF TypeInv
<1>2. cmd' \o batch' \in Seq(ByteSet)
  BY <1>1, ConcatProperties
<1>3. Stream' \in Seq(ByteSet) /\ Stream' = (cmd' \o batch') \o rxBuf'
  BY <1>1, <1>2, ConcatProperties DEF Stream
<1>4. DOMAIN Stream' = 1..Len(Stream')
  BY <1>3
<1>5. InStep' <=> CleanOf(Stream', cur', at', quit')
  BY <1>4, Zenon DEF InStep, Clean, CleanOf, Started, Linked, End
<1> QED
  BY <1>3, <1>5

LEMMA Joined ==
    ASSUME NEW a \in Seq(ByteSet), NEW b \in Seq(ByteSet)
    PROVE  /\ a \o b \in Seq(ByteSet) /\ Len(a) \in Nat /\ Len(b) \in Nat /\ Len(a \o b) = Len(a) + Len(b)
           /\ \A i \in 1..Len(a) : i \in 1..Len(a \o b) /\ (a \o b)[i] = a[i]
           /\ \A i \in 1..Len(b) : Len(a) + i \in 1..Len(a \o b) /\ (a \o b)[Len(a) + i] = b[i]
           /\ \A i \in 1..Len(a \o b) : i \in 1..Len(a) \/ \E j \in 1..Len(b) : i = Len(a) + j
<1>1. /\ a \o b \in Seq(ByteSet) /\ Len(a) \in Nat /\ Len(b) \in Nat /\ Len(a \o b) = Len(a) + Len(b)
      /\ \A i \in 1..(Len(a) + Len(b)) : (a \o b)[i] = IF i <= Len(a) THEN a[i] ELSE b[i - Len(a)]
  BY ConcatProperties
<1>2. \A i \in 1..Len(a) : i \in 1..Len(a \o b) /\ (a \o b)[i] = a[i]
  BY <1>1
<1>3. \A i \in 1..Len(b) : Len(a) + i \in 1..Len(a \o b) /\ (a \o b)[Len(a) + i] = b[i]
  <2> TAKE i \in 1..Len(b)
  <2>1. Len(a) + i \in 1..(Len(a) + Len(b)) /\ ~(Len(a) + i <= Len(a)) /\ Len(a) + i - Len(a) = i
    BY <1>1
  <2> QED
    BY <1>1, <2>1
<1>4. \A i \in 1..Len(a \o b) : i \in 1..Len(a) \/ \E j \in 1..Len(b) : i = Len(a) + j
  <2> TAKE i \in 1..Len(a \o b)
  <2>1. i \in 1..Len(a) \/ (i - Len(a) \in 1..Len(b) /\ i = Len(a) + (i - Len(a)))
    BY <1>1
  <2> QED
    BY <2>1
<1> QED
  BY <1>1, <1>2, <1>3, <1>4

\* The byte after a
LEMMA Boundary ==
    ASSUME NEW a \in Seq(ByteSet), NEW b \in Seq(ByteSet), a # <<>>, b # <<>>, Linked(a \o b)
    PROVE  IF a[Len(a)].last THEN b[1].no = a[Len(a)].no + 1 /\ b[1].pos = 1
                             ELSE b[1].no = a[Len(a)].no /\ b[1].pos = a[Len(a)].pos + 1
<1>1. /\ Len(a) \in Nat /\ Len(b) \in Nat /\ Len(a \o b) = Len(a) + Len(b)
      /\ \A i \in 1..Len(a) : (a \o b)[i] = a[i]
      /\ \A i \in 1..Len(b) : (a \o b)[Len(a) + i] = b[i]
  BY Joined
<1>2. Len(a) \in 1..Len(a) /\ 1 \in 1..Len(b) /\ Len(a) \in 1..(Len(a \o b) - 1)
  BY <1>1
<1>3. (a \o b)[Len(a)] = a[Len(a)] /\ (a \o b)[Len(a) + 1] = b[1]
  BY <1>1, <1>2
<1> QED
  BY <1>2, <1>3 DEF Linked

\* Without the commands at its beginning, a clean stream is clean.
LEMMA CleanRest ==
    ASSUME NEW a \in Seq(ByteSet), NEW b \in Seq(ByteSet), NEW c \in CmdSet, NEW k \in Nat, NEW q,
           a # <<>>, a[Len(a)].last, CleanOf(a \o b, c, k, q)
    PROVE  CleanOf(b, c, k, q)
<1> DEFINE s == a \o b
<1>1. /\ s \in Seq(ByteSet) /\ Len(a) \in Nat /\ Len(b) \in Nat /\ Len(s) = Len(a) + Len(b)
      /\ \A i \in 1..Len(a) : i \in 1..Len(s) /\ s[i] = a[i]
      /\ \A i \in 1..Len(b) : Len(a) + i \in 1..Len(s) /\ s[Len(a) + i] = b[i]
  BY Joined
<1>2. Len(a) > 0 /\ s # <<>>
  BY <1>1
<1>3. Started(s) /\ (\A i \in 1..Len(s) : s[i].pos < BufSize) /\ End(s, c, k)
  BY <1>2 DEF CleanOf
<1>4. CASE b = <<>>
  <2>1. Last(s) = a[Len(a)]
    BY <1>1, <1>2, <1>4 DEF Last
  <2>2. k # 0 => k = Total(c)
    BY <1>3, <2>1, ByteLemma DEF End
  <2> QED
    BY <1>4, <2>2 DEF CleanOf
<1>5. CASE b # <<>>
  <2>1. Len(b) > 0
    BY <1>1, <1>5
  <2>2. Linked(s)
    BY <1>3 DEF Started
  <2>3. b[1].pos = 1
    BY <1>5, <2>2, Boundary
  <2>4. \A i \in 1..(Len(b) - 1) : /\ Len(a) + i \in 1..(Len(s) - 1) /\ Len(a) + i + 1 = Len(a) + (i + 1)
                                 /\ i \in 1..Len(b) /\ i + 1 \in 1..Len(b)
    BY <1>1, <2>1
  <2> HIDE DEF s
  <2>5. Linked(b)
    <3> SUFFICES ASSUME NEW i \in 1..(Len(b) - 1)
                 PROVE  IF b[i].last THEN b[i+1].no = b[i].no + 1 /\ b[i+1].pos = 1
                                     ELSE b[i+1].no = b[i].no /\ b[i+1].pos = b[i].pos + 1
      BY DEF Linked
    <3>1. s[Len(a) + i] = b[i] /\ s[Len(a) + i + 1] = b[i + 1]
      BY <1>1, <2>4
    <3> QED
      BY <2>2, <2>4, <3>1 DEF Linked
  <2>6. \A i \in 1..Len(b) : b[i].pos < BufSize
    <3> TAKE i \in 1..Len(b)
    <3>1. Len(a) + i \in 1..Len(s) /\ s[Len(a) + i] = b[i]
      BY <1>1
    <3> QED
      BY <1>3, <3>1
  <2>7. Last(s) = Last(b)
    <3>1. Len(b) \in 1..Len(b)
      BY <1>1, <2>1
    <3> QED
      BY <1>1, <3>1 DEF Last
  <2> QED
    BY <1>3, <1>5, <2>3, <2>5, <2>6, <2>7 DEF CleanOf, Started, End
<1> QED
  BY <1>4, <1>5

\* The host goes on.
LEMMA CleanMore ==
    ASSUME TypeInv, NEW k \in Nat, k > 0, at + k <= Total(cur), at + k < BufSize, ~quit,
           NEW s \in Seq(ByteSet), CleanOf(s, cur, at, quit)
    PROVE  CleanOf(s \o Sent(k), cur, at + k, quit)
<1> DEFINE b == Sent(k)
           r == s \o b
<1>1. /\ b \in Seq(ByteSet) /\ Len(b) = k /\ cur \in CmdSet /\ at \in Nat /\ Total(cur) \in Nat
      /\ \A i \in 1..k : b[i] = Byte(cur, at + i)
  <2>1. b \in Seq(ByteSet) /\ Len(b) = k /\ \A i \in 1..k : b[i] = Byte(cur, at + i)
    BY SentLemma
  <2>2. cur \in CmdSet /\ at \in 0..Total(cur)
    BY DEF TypeInv
  <2>3. Total(cur) \in Nat
    BY <2>2, TotalLemma
  <2>4. at \in Nat
    BY <2>2, <2>3
  <2> QED
    BY <2>1, <2>2, <2>3, <2>4
<1>2. \A i \in 1..k : /\ at + i \in Nat /\ at + i < BufSize
                       /\ at + i = Total(cur) => i = k
                       /\ at + i # 0
  BY <1>1, Sizes
<1>3. /\ \A i \in 1..k : b[i].no = cur.no
      /\ \A i \in 1..k : b[i].pos = at + i
      /\ \A i \in 1..k : b[i].pos < BufSize
      /\ \A i \in 1..k : b[i].last => i = k
  <2>1. \A i \in 1..k : b[i].no = cur.no /\ b[i].pos = at + i
    BY <1>1, <1>2, ByteLemma
  <2>2. \A i \in 1..k : b[i].last => i = k
    BY <1>1, <1>2, ByteLemma
  <2>3. \A i \in 1..k : b[i].no = cur.no
    BY <2>1
  <2>4. \A i \in 1..k : b[i].pos = at + i
    BY <2>1
  <2>5. \A i \in 1..k : at + i < BufSize
    BY <1>1, Sizes
  <2> HIDE DEF b
  <2>6. \A i \in 1..k : b[i].pos < BufSize
    BY <2>4, <2>5, Zenon
  <2> QED
    BY <2>2, <2>3, <2>4, <2>6
<1> HIDE DEF b
<1>4. /\ r \in Seq(ByteSet) /\ Len(s) \in Nat /\ Len(r) = Len(s) + k
      /\ \A i \in 1..Len(s) : i \in 1..Len(r) /\ r[i] = s[i]
      /\ \A i \in 1..k : Len(s) + i \in 1..Len(r) /\ r[Len(s) + i] = b[i]
      /\ \A i \in 1..Len(r) : i \in 1..Len(s) \/ \E j \in 1..k : i = Len(s) + j
  <2>1. /\ r \in Seq(ByteSet) /\ Len(s) \in Nat /\ Len(r) = Len(s) + Len(b)
        /\ \A i \in 1..Len(s) : i \in 1..Len(r) /\ r[i] = s[i]
        /\ \A i \in 1..Len(b) : Len(s) + i \in 1..Len(r) /\ r[Len(s) + i] = b[i]
        /\ \A i \in 1..Len(r) : i \in 1..Len(s) \/ \E j \in 1..Len(b) : i = Len(s) + j
    BY <1>1, Joined
  <2> HIDE DEF r
  <2> QED
    BY <1>1, <2>1
<1>5. Last(r) = Byte(cur, at + k) /\ r # <<>>
  <2> HIDE DEF r
  <2>1. k \in 1..k /\ Len(s) + k > 0
    BY <1>4
  <2> QED
    BY <1>1, <1>4, <2>1 DEF Last
<1>6. at # Total(cur)
  BY <1>1
\* Where the new bytes join the old ones
<1>7. s # <<>> => /\ Len(s) \in 1..Len(s)
                  /\ IF s[Len(s)].last THEN b[1].no = s[Len(s)].no + 1 /\ b[1].pos = 1
                                       ELSE b[1].no = s[Len(s)].no /\ b[1].pos = s[Len(s)].pos + 1
  <2> SUFFICES ASSUME s # <<>>
               PROVE  /\ Len(s) \in 1..Len(s)
                      /\ IF s[Len(s)].last THEN b[1].no = s[Len(s)].no + 1 /\ b[1].pos = 1
                                           ELSE b[1].no = s[Len(s)].no /\ b[1].pos = s[Len(s)].pos + 1
    OBVIOUS
  <2>1. 1 \in 1..k /\ Len(s) \in 1..Len(s)
    BY <1>4
  <2>2. b[1].no = cur.no /\ b[1].pos = at + 1
    <3>1. b[1].no = cur.no /\ b[1].pos = at + 1
      BY <1>3, <2>1, Zenon
    <3> QED
      BY <3>1
  <2>3. End(s, cur, at)
    BY DEF CleanOf
  <2>4. CASE at = 0
    <3>1. s[Len(s)].last /\ s[Len(s)].no = cur.no - 1 /\ cur.no \in Nat
      BY <1>1, <2>3, <2>4 DEF End, Last, CmdSet
    <3> QED
      BY <2>1, <2>2, <2>4, <3>1
  <2>5. CASE at # 0
    <3>1. s[Len(s)] = Byte(cur, at)
      BY <2>3, <2>5 DEF End, Last
    <3>2. s[Len(s)].no = cur.no /\ s[Len(s)].pos = at /\ ~s[Len(s)].last
      BY <1>1, <1>6, <3>1, ByteLemma
    <3> QED
      BY <2>1, <2>2, <3>2
  <2> QED
    BY <2>4, <2>5
<1>8. r[1].pos = 1
  <2>1. CASE s # <<>>
    <3>1. 1 \in 1..Len(s) /\ s[1].pos = 1
      BY <1>4, <2>1 DEF CleanOf, Started
    <3> QED
      BY <1>4, <3>1
  <2>2. CASE s = <<>>
    <3>1. at = 0
      BY <1>6, <2>2 DEF CleanOf
    <3>2. Len(s) = 0 /\ 1 \in 1..k /\ Len(s) + 1 = 1
      BY <2>2
    <3>3. r[1] = b[1]
      BY <1>4, <3>2
    <3>4. b[1].pos = at + 1
      BY <1>3, <3>2, Zenon
    <3> QED
      BY <3>1, <3>3, <3>4
  <2> QED
    BY <2>1, <2>2
<1>9. \A i \in 1..Len(r) : r[i].pos < BufSize
  <2>1. \A i \in 1..Len(s) : s[i].pos < BufSize
    <3>1. CASE s = <<>>
      <4>1. Len(s) = 0
        BY <3>1
      <4> QED
        BY <4>1
    <3> QED
      BY <3>1 DEF CleanOf
  <2> HIDE DEF r
  <2> TAKE i \in 1..Len(r)
  <2>2. CASE i \in 1..Len(s)
    <3>1. r[i] = s[i]
      BY <1>4, <2>2
    <3> QED
      BY <2>1, <2>2, <3>1
  <2>3. CASE \E j \in 1..k : i = Len(s) + j
    <3>1. PICK j \in 1..k : i = Len(s) + j
      BY <2>3
    <3>2. r[i] = b[j]
      BY <1>4, <3>1
    <3>3. b[j].pos < BufSize
      BY <1>3
    <3> QED
      BY <3>2, <3>3
  <2> QED
    BY <1>4, <2>2, <2>3
<1>10. Linked(r)
  <2> HIDE DEF r
  <2> SUFFICES ASSUME NEW i \in 1..(Len(r) - 1)
               PROVE  IF r[i].last THEN r[i+1].no = r[i].no + 1 /\ r[i+1].pos = 1
                                   ELSE r[i+1].no = r[i].no /\ r[i+1].pos = r[i].pos + 1
    BY DEF Linked
  <2>1. CASE i < Len(s)
    <3>1. i \in 1..(Len(s) - 1) /\ i \in 1..Len(s) /\ i + 1 \in 1..Len(s) /\ s # <<>>
      BY <1>4, <2>1
    <3>2. r[i] = s[i] /\ r[i + 1] = s[i + 1]
      BY <1>4, <3>1
    <3> QED
      BY <3>1, <3>2 DEF CleanOf, Started, Linked
  <2>2. CASE i = Len(s)
    <3>1. i \in 1..Len(s) /\ 1 \in 1..k /\ s # <<>>
      BY <1>4, <2>2
    <3>2. r[i] = s[Len(s)] /\ r[i + 1] = b[1]
      BY <1>4, <2>2, <3>1
    <3> QED
      BY <1>7, <3>1, <3>2
  <2>3. CASE i > Len(s)
    <3>1. PICK j \in 1..(k - 1) : i = Len(s) + j
      <4>1. i - Len(s) \in 1..(k - 1) /\ i = Len(s) + (i - Len(s))
        BY <1>4, <2>3
      <4> QED
        BY <4>1
    <3>2. j \in 1..k /\ j + 1 \in 1..k /\ j # k /\ i + 1 = Len(s) + (j + 1) /\ at + j + 1 = at + (j + 1)
      BY <1>1, <1>4, <3>1
    <3>3. r[i] = b[j] /\ r[i + 1] = b[j + 1]
      BY <1>4, <3>1, <3>2
    <3>4. b[j].no = cur.no /\ b[j].pos = at + j /\ ~b[j].last
      BY <1>3, <3>2
    <3>5. b[j + 1].no = cur.no /\ b[j + 1].pos = at + (j + 1)
      BY <1>3, <3>2
    <3> QED
      BY <3>2, <3>3, <3>4, <3>5
  <2> QED
    BY <1>4, <2>1, <2>2, <2>3
<1>11. End(r, cur, at + k)
  <2>1. at + k # 0
    BY <1>1
  <2> QED
    BY <1>5, <2>1 DEF End
<1> QED
  BY <1>5, <1>8, <1>9, <1>10, <1>11 DEF CleanOf, Started, b

----------------------------------------------------------------------------
(* What the steps do to a clean stream                                        *)

\* A packet of the host is added, if there is room for it.
LEMMA SendStream ==
    ASSUME TypeInv, NEW k \in Nat, UNCHANGED <<batch, cmd>>, rxBuf' = Filled(Sent(k)), Len(rxBuf) + k < RxSize
    PROVE  Stream' = Stream \o Sent(k)
<1>1. cmd \in Seq(ByteSet) /\ batch \in Seq(ByteSet) /\ rxBuf \in Seq(ByteSet)
  BY DEF TypeInv
<1>2. Sent(k) \in Seq(ByteSet) /\ Len(Sent(k)) = k
  BY SentLemma
<1>3. rxBuf' = rxBuf \o Sent(k)
  BY <1>2, FilledLemma
<1>4. cmd \o batch \in Seq(ByteSet)
  BY <1>1, ConcatProperties
<1>5. ((cmd \o batch) \o rxBuf) \o Sent(k) = (cmd \o batch) \o (rxBuf \o Sent(k))
  <2>1. cmd \o batch \in Seq(ByteSet) /\ rxBuf \in Seq(ByteSet) /\ Sent(k) \in Seq(ByteSet)
    BY <1>1, <1>2, <1>4
  <2> QED
    BY <2>1, ConcatAssociative, SMTT(30)
<1>6. Stream = (cmd \o batch) \o rxBuf
  BY DEF Stream
<1>7. Stream' = (cmd \o batch) \o rxBuf'
  BY DEF Stream
<1> QED
  BY <1>3, <1>5, <1>6, <1>7, Zenon

\* Taking a batch leaves the stream, or a begun command is dropped, whose next
\* byte is the first of the batch.
LEMMA ReceiveStream ==
    ASSUME Inv, TypeInv', Receive, InStep
    PROVE  \/ Stream' = Stream
           \/ /\ late # "no" /\ cmd # <<>> /\ Stream' = rxBuf /\ rxBuf # <<>>
              /\ rxBuf[1].no = cmd[Len(cmd)].no /\ rxBuf[1].pos > 1 /\ Len(cmd) \in 1..Len(cmd)
<1>1. /\ cmd \in Seq(ByteSet) /\ rxBuf \in Seq(ByteSet) /\ batch = <<>> /\ rxBuf # <<>> /\ cmd' = Flushed
      /\ batch' \in Seq(ByteSet) /\ rxBuf' \in Seq(ByteSet) /\ batch' \o rxBuf' = rxBuf
  BY ReceiveLemma DEF Inv, TypeInv
<1>2. Stream = cmd \o rxBuf
  <2>1. cmd \o <<>> = cmd
    BY <1>1, ConcatEmptySeq
  <2> QED
    BY <1>1, <2>1 DEF Stream
<1>3. ASSUME cmd' = cmd PROVE Stream' = cmd \o rxBuf
  <2>1. (cmd \o batch') \o rxBuf' = cmd \o (batch' \o rxBuf')
    <3>1. cmd \in Seq(ByteSet) /\ batch' \in Seq(ByteSet) /\ rxBuf' \in Seq(ByteSet)
      BY <1>1
    <3> QED
      BY <3>1, ConcatAssociative, SMTT(30)
  <2>2. Stream' = (cmd' \o batch') \o rxBuf'
    BY DEF Stream
  <2> QED
    BY <1>1, <1>3, <2>1, <2>2, Zenon
<1>4. ASSUME cmd' = <<>> PROVE Stream' = rxBuf
  <2>1. <<>> \o batch' = batch'
    BY <1>1, ConcatEmptySeq
  <2>2. Stream' = (cmd' \o batch') \o rxBuf'
    BY DEF Stream
  <2> QED
    BY <1>1, <1>4, <2>1, <2>2, Zenon
<1>5. CASE late = "no" \/ cmd = <<>>
  BY <1>1, <1>2, <1>3, <1>5 DEF Flushed
<1>6. CASE late # "no" /\ cmd # <<>>
  <2>1. Stream' = rxBuf
    BY <1>1, <1>4, <1>6 DEF Flushed
  <2>2. Len(cmd) \in 1..Len(cmd) /\ Len(cmd) \in Nat
    BY <1>1, <1>6
  <2>3. cmd \o rxBuf # <<>>
    <3>1. Len(cmd \o rxBuf) = Len(cmd) + Len(rxBuf) /\ Len(rxBuf) \in Nat
      BY <1>1, Joined
    <3>2. Len(cmd \o rxBuf) > 0
      BY <2>2, <3>1
    <3> QED
      BY <3>2
  <2>4. Started(cmd \o rxBuf)
    BY <1>2, <2>3, StreamLemma DEF Inv, CleanOf
  <2>5. Begun(cmd)
    BY <1>1, <1>6, <2>4, StartedPart DEF Inv, ShapeInv
  <2>6. ~cmd[Len(cmd)].last /\ cmd[Len(cmd)].pos = Len(cmd)
    BY <2>2, <2>5 DEF Begun
  <2>7. Linked(cmd \o rxBuf)
    BY <2>4 DEF Started
  <2>8. rxBuf[1].no = cmd[Len(cmd)].no /\ rxBuf[1].pos = cmd[Len(cmd)].pos + 1
    BY <1>1, <1>6, <2>6, <2>7, Boundary
  <2>9. rxBuf[1].pos > 1
    BY <2>2, <2>6, <2>8
  <2> QED
    BY <1>1, <1>6, <2>1, <2>2, <2>8, <2>9
<1> QED
  BY <1>5, <1>6

\* A byte of a clean stream goes into the command, or is its last one.
LEMMA PushStream ==
    ASSUME Inv, TypeInv', Push, InStep
    PROVE  \/ Stream' = Stream
           \/ /\ Stream' = Later /\ Stream = Next1 \o Later
              /\ Next1 \in Seq(ByteSet) /\ Later \in Seq(ByteSet) /\ Next1 # <<>>
              /\ Next1[Len(Next1)].last /\ Next1[Len(Next1)].no = Next1[1].no
              /\ parsed' = Next1[1].no
<1>1. TypeInv /\ GenuineInv /\ ShapeInv /\ batch # <<>>
  BY CmdLemma DEF Inv
<1>2. /\ Next1 \in Seq(ByteSet) /\ Len(Next1) = Len(cmd) + 1 /\ Len(cmd) \in Nat /\ Next1 # <<>>
      /\ Later \in Seq(ByteSet) /\ Stream = Next1 \o Later
      /\ Stream = (Next1 \o Tail(batch)) \o rxBuf /\ Tail(batch) \in Seq(ByteSet)
  BY <1>1, PushLemma
<1>3. Len(Next1) \in 1..Len(Next1) /\ 1 \in 1..Len(Next1)
  BY <1>2
<1>4. Stream # <<>> /\ \A i \in 1..Len(Next1) : i \in 1..Len(Stream) /\ Stream[i] = Next1[i]
  <2>1. \A i \in 1..Len(Next1) : i \in 1..Len(Next1 \o Later) /\ (Next1 \o Later)[i] = Next1[i]
    BY <1>2, Joined
  <2>2. 1 \in 1..Len(Stream)
    BY <1>2, <1>3, <2>1
  <2> QED
    BY <1>2, <2>1, <2>2
<1>5. Started(Stream) /\ \A i \in 1..Len(Stream) : Stream[i].pos < BufSize
  BY <1>1, <1>4, StreamLemma DEF CleanOf
<1>6. Started(Next1)
  BY <1>2, <1>5, StartedPart
<1>7. PICK c \in CmdSet : Len(Next1) \in 1..Total(c) /\ \A i \in 1..Len(Next1) : Next1[i] = Byte(c, i)
  BY <1>1, <1>6, NextShape
<1>8. \A i \in 1..Len(Next1) : /\ i \in Nat /\ Next1[i].no = c.no /\ Next1[i].pos = i
                               /\ Next1[i].last <=> i = Total(c)
  <2>1. \A i \in 1..Len(Next1) : i \in Nat
    BY <1>2
  <2> QED
    BY <1>7, <2>1, ByteLemma
<1>9. Len(Next1) < BufSize
  <2>1. Next1[Len(Next1)].pos < BufSize
    BY <1>3, <1>4, <1>5
  <2> QED
    BY <1>3, <1>8, <2>1
<1>10. Complete(Next1) <=> Len(Next1) = Total(c)
  BY <1>2, <1>7, <1>9, CompleteLemma
<1>11. CASE ~Complete(Next1)
  <2>1. cmd' = Next1 /\ batch' = Tail(batch) /\ rxBuf' = rxBuf
    BY <1>1, <1>9, <1>11, CmdLemma
  <2>2. Stream' = (cmd' \o batch') \o rxBuf'
    BY DEF Stream
  <2> QED
    BY <1>2, <2>1, <2>2, Zenon
<1>12. CASE Complete(Next1)
  <2>1. /\ cmd' = <<>> /\ batch' = Tail(batch) /\ rxBuf' = rxBuf
        /\ parsed' = IF Whole(Next1) THEN Next1[1].no ELSE parsed
    BY <1>1, <1>12, CmdLemma
  <2>2. Stream' = Later
    <3>1. Stream' = (cmd' \o batch') \o rxBuf'
      BY DEF Stream
    <3>2. <<>> \o Tail(batch) = Tail(batch)
      BY <1>2, ConcatEmptySeq
    <3> QED
      BY <2>1, <3>1, <3>2, Zenon DEF Later
  <2>3. Next1[Len(Next1)].last /\ Next1[Len(Next1)].no = Next1[1].no
    BY <1>3, <1>8, <1>10, <1>12
  <2>4. Whole(Next1)
    <3>1. DOMAIN Next1 = 1..Len(Next1) /\ Last(Next1) = Next1[Len(Next1)]
      BY <1>2 DEF Last
    <3>2. Next1[1].pos = 1
      BY <1>3, <1>8
    <3>3. ASSUME NEW i \in 1..Len(Next1) PROVE Next1[i] = [Next1[i] EXCEPT !.no = Next1[1].no, !.pos = i]
      <4>1. Next1[i] \in ByteSet
        BY <1>2, ElementOfSeq
      <4>2. Next1[i].no = Next1[1].no /\ Next1[i].pos = i
        BY <1>3, <1>8
      <4> QED
        BY <4>1, <4>2 DEF ByteSet
    <3> QED
      BY <2>3, <3>1, <3>2, <3>3, Zenon DEF Whole
  <2> QED
    BY <1>2, <2>1, <2>2, <2>3, <2>4
<1> QED
  BY <1>11, <1>12

----------------------------------------------------------------------------
\* processCmd stays in step with the commands of the host unless the host stops
\* in a command, sends one too long or overruns rxBuf, or a part of a command is
\* flushed because the main loop was blocked: for every size of the buffers.
THEOREM StaysInStepCorrect == Spec => StaysInStep
<1> DEFINE Step == InStep => \/ InStep'
                             \/ quit /\ ~quit'
                             \/ at' >= BufSize /\ at' > at
                             \/ Overrun
                             \/ late = "blocked" /\ late' = "no" /\ cmd # <<>>
<1>1. Inv /\ Inv' /\ [Next]_vars => Step
  <2> SUFFICES ASSUME Inv, Inv', [Next]_vars, InStep, ~(quit /\ ~quit'),
                      ~(at' >= BufSize /\ at' > at), ~Overrun,
                      ~(late = "blocked" /\ late' = "no" /\ cmd # <<>>)
               PROVE  InStep'
    OBVIOUS
  <2>1. /\ TypeInv /\ TypeInv' /\ cur \in CmdSet /\ at \in Nat /\ Total(cur) \in Nat /\ Total(cur) >= 4
        /\ cur.no \in Nat /\ Len(rxBuf) \in Nat
    <3>1. TypeInv /\ TypeInv' /\ cur \in CmdSet /\ at \in 0..Total(cur) /\ Len(rxBuf) \in Nat
      BY DEF Inv, TypeInv
    <3> QED
      BY <3>1, TotalLemma
  <2>2. Stream \in Seq(ByteSet) /\ CleanOf(Stream, cur, at, quit)
    BY <2>1, StreamLemma
  <2>3. SUFFICES CleanOf(Stream', cur', at', quit')
    BY <2>1, StreamNext
  <2>4. ASSUME Stream' = Stream, UNCHANGED <<cur, at, quit>> PROVE CleanOf(Stream', cur', at', quit')
    BY <2>2, <2>4
  <2>5. CASE HostBegin
    <3>1. at' = 0 /\ cur'.no = cur.no + 1 /\ ~quit' /\ UNCHANGED <<rxBuf, batch, cmd>> /\ (at = Total(cur) \/ quit)
      BY <2>5 DEF HostBegin
    <3>2. at = Total(cur) /\ at # 0
      BY <2>1, <3>1
    <3>3. Stream' = Stream
      BY <3>1 DEF Stream
    <3>4. CASE Stream = <<>>
      BY <3>1, <3>3, <3>4 DEF CleanOf
    <3>5. CASE Stream # <<>>
      <4>1. Last(Stream) = Byte(cur, at)
        BY <2>2, <3>2, <3>5 DEF CleanOf, End
      <4>2. Last(Stream).last /\ Last(Stream).no = cur.no
        BY <2>1, <3>2, <4>1, ByteLemma
      <4>3. cur.no = cur'.no - 1
        BY <2>1, <3>1
      <4>4. End(Stream, cur', at')
        BY <3>1, <4>2, <4>3 DEF End
      <4> QED
        BY <2>2, <3>3, <3>5, <4>4 DEF CleanOf
    <3> QED
      BY <3>4, <3>5
  <2>6. CASE HostQuit
    <3>1. quit' = TRUE /\ UNCHANGED <<cur, at, rxBuf, batch, cmd>>
      BY <2>6 DEF HostQuit
    <3>2. Stream' = Stream
      BY <3>1 DEF Stream
    <3> QED
      BY <2>2, <3>1, <3>2 DEF CleanOf
  <2>7. CASE HostSend
    <3>1. PICK k \in Nat : k > 0 /\ at + k <= Total(cur) /\ at' = at + k /\ rxBuf' = Filled(Sent(k))
      BY <2>1, <2>7, HostSendLemma
    <3>2. ~quit /\ UNCHANGED <<cur, quit, batch, cmd>>
      BY <2>1, <2>7, HostSendLemma
    <3>3. at' > at /\ at' - at = k
      BY <2>1, <3>1
    <3>4. at + k < BufSize
      BY <2>1, <3>1, <3>3, Sizes
    <3>5. Len(rxBuf) + k < RxSize
      <4>1. ~(Len(rxBuf) + at' - at >= RxSize)
        BY <3>3 DEF Overrun
      <4> QED
        BY <2>1, <3>1, <4>1, Sizes
    <3>6. Stream' = Stream \o Sent(k)
      BY <2>1, <3>1, <3>2, <3>5, SendStream
    <3>7. CleanOf(Stream \o Sent(k), cur, at + k, quit)
      BY <2>1, <2>2, <3>1, <3>2, <3>4, CleanMore
    <3> QED
      BY <3>1, <3>2, <3>6, <3>7
  <2>8. CASE Receive
    <3>1. UNCHANGED <<cur, at, quit>> /\ late' = "no"
      BY <2>1, <2>8, ReceiveLemma DEF hostVars
    <3>2. CASE Stream' = Stream
      BY <2>4, <3>1, <3>2
    <3>3. CASE /\ late # "no" /\ cmd # <<>> /\ rxBuf # <<>>
               /\ rxBuf[1].no = cmd[Len(cmd)].no /\ Len(cmd) \in 1..Len(cmd)
      <4>1. late = "pause"
        BY <2>1, <3>1, <3>3 DEF TypeInv
      <4>2. 1 \in 1..Len(rxBuf)
        BY <2>1, <3>3 DEF TypeInv
      <4>3. cmd[Len(cmd)].no < rxBuf[1].no
        BY <3>3, <4>1, <4>2 DEF Inv, PauseInv
      <4>4. cmd[Len(cmd)].no \in Nat
        <5>1. cmd[Len(cmd)] \in ByteSet
          BY <2>1, <3>3, ElementOfSeq DEF TypeInv
        <5> QED
          BY <5>1 DEF ByteSet
      <4> QED
        BY <3>3, <4>3, <4>4
    <3> QED
      BY <2>1, <2>8, <3>2, <3>3, ReceiveStream
  <2>9. CASE Push
    <3>1. UNCHANGED <<cur, at, quit>>
      BY <2>1, <2>9, CmdLemma DEF hostVars
    <3>2. CASE Stream' = Stream
      BY <2>4, <3>1, <3>2
    <3>3. CASE /\ Stream' = Later /\ Stream = Next1 \o Later
               /\ Next1 \in Seq(ByteSet) /\ Later \in Seq(ByteSet) /\ Next1 # <<>>
               /\ Next1[Len(Next1)].last
      <4>1. CleanOf(Next1 \o Later, cur, at, quit)
        BY <2>2, <3>3
      <4>2. CleanOf(Later, cur, at, quit)
        BY <2>1, <3>3, <4>1, CleanRest
      <4> QED
        BY <3>1, <3>3, <4>2
    <3> QED
      BY <2>1, <2>9, <3>2, <3>3, PushStream
  <2>10. CASE Tick \/ Return \/ BusPacket \/ Packets \/ UNCHANGED vars
    BY <2>4, <2>10 DEF Tick, Return, BusPacket, Packets, NextTurn, vars, hostVars, Stream
  <2> QED
    BY <2>5, <2>6, <2>7, <2>8, <2>9, <2>10 DEF Next, MainLoop
<1>2. Spec => [][Step]_vars
  BY <1>1, Always, PTL DEF Spec
<1> QED
  BY <1>2 DEF StaysInStep

\* In step, Cmd::push never drops a command: one leaves the buffers by being
\* parsed exactly as the host sent it, in order.
THEOREM CommandsExecutedCorrect == Spec => CommandsExecuted
<1> DEFINE Step == InStep /\ InStep' /\ Oldest' # Oldest =>
                       \/ parsed' = Oldest /\ Oldest' = Oldest + 1
                       \/ quit /\ Oldest = cur.no
                       \/ Overrun
<1>1. Inv /\ Inv' /\ [Next]_vars => Step
  <2> SUFFICES ASSUME Inv, Inv', [Next]_vars, InStep, InStep', ~Overrun
               PROVE  Oldest' = Oldest \/ (parsed' = Oldest /\ Oldest' = Oldest + 1)
    OBVIOUS
  <2>1. /\ TypeInv /\ TypeInv' /\ cur \in CmdSet /\ at \in Nat /\ Total(cur) \in Nat /\ Total(cur) >= 4
        /\ cur.no \in Nat /\ Len(rxBuf) \in Nat /\ (quit => at > 0)
    <3>1. TypeInv /\ TypeInv' /\ cur \in CmdSet /\ at \in 0..Total(cur) /\ Len(rxBuf) \in Nat /\ (quit => at > 0)
      BY DEF Inv, TypeInv
    <3> QED
      BY <3>1, TotalLemma
  <2>2. Stream \in Seq(ByteSet) /\ CleanOf(Stream, cur, at, quit)
    BY <2>1, StreamLemma
  <2>3. Stream' \in Seq(ByteSet) /\ CleanOf(Stream', cur', at', quit')
    BY <2>1, StreamNext
  <2>4. Oldest' = IF Stream' # <<>> THEN Stream'[1].no ELSE IF at' = 0 THEN cur'.no ELSE cur'.no + 1
    BY DEF Oldest
  <2>5. CASE HostBegin
    <3>1. at' = 0 /\ cur'.no = cur.no + 1 /\ UNCHANGED <<rxBuf, batch, cmd>> /\ (at = Total(cur) \/ quit)
      BY <2>5 DEF HostBegin
    <3>2. Stream' = Stream /\ at # 0
      BY <2>1, <3>1 DEF Stream
    <3> QED
      BY <2>4, <3>1, <3>2 DEF Oldest
  <2>6. CASE HostSend
    <3>1. PICK k \in Nat : k > 0 /\ at + k <= Total(cur) /\ at' = at + k /\ rxBuf' = Filled(Sent(k))
      BY <2>1, <2>6, HostSendLemma
    <3>2. ~quit /\ UNCHANGED <<cur, quit, batch, cmd>>
      BY <2>1, <2>6, HostSendLemma
    <3>3. at' > at /\ at' - at = k
      BY <2>1, <3>1
    <3>4. Len(rxBuf) + k < RxSize
      <4>1. ~(Len(rxBuf) + at' - at >= RxSize)
        BY <3>3 DEF Overrun
      <4> QED
        BY <2>1, <3>1, <4>1, Sizes
    <3>5. Stream' = Stream \o Sent(k)
      BY <2>1, <3>1, <3>2, <3>4, SendStream
    <3>6. /\ Sent(k) \in Seq(ByteSet) /\ Len(Sent(k)) = k /\ 1 \in 1..k
          /\ Sent(k)[1] = Byte(cur, at + 1) /\ at + 1 \in Nat
      <4>1. Sent(k) \in Seq(ByteSet) /\ Len(Sent(k)) = k /\ \A i \in 1..k : Sent(k)[i] = Byte(cur, at + i)
        BY <2>1, SentLemma
      <4>2. 1 \in 1..k /\ at + 1 \in Nat
        BY <2>1, <3>1
      <4> QED
        BY <4>1, <4>2
    <3>7. Stream' # <<>>
      BY <2>2, <3>1, <3>5, <3>6
    <3>8. CASE Stream = <<>>
      <4>1. at = 0
        BY <2>1, <2>2, <3>1, <3>2, <3>8 DEF CleanOf
      <4>2. Stream'[1] = Byte(cur, at + 1)
        <5>1. <<>> \o Sent(k) = Sent(k)
          BY <3>6, ConcatEmptySeq
        <5> QED
          BY <3>5, <3>6, <3>8, <5>1
      <4>3. Stream'[1].no = cur.no
        BY <2>1, <3>6, <4>2, ByteLemma
      <4> QED
        BY <2>4, <3>7, <3>8, <4>1, <4>3 DEF Oldest
    <3>9. CASE Stream # <<>>
      <4>1. 1 \in 1..Len(Stream)
        BY <2>2, <3>9
      <4>2. Stream'[1] = Stream[1]
        BY <2>2, <3>5, <3>6, <4>1, Joined
      <4> QED
        BY <2>4, <3>7, <3>9, <4>2 DEF Oldest
    <3> QED
      BY <3>8, <3>9
  <2>7. CASE Receive
    <3>1. UNCHANGED <<cur, at>>
      BY <2>1, <2>7, ReceiveLemma DEF hostVars
    <3>2. CASE Stream' = Stream
      BY <2>4, <3>1, <3>2 DEF Oldest
    <3>3. CASE Stream' = rxBuf /\ rxBuf # <<>> /\ rxBuf[1].pos > 1
      BY <2>3, <3>3 DEF CleanOf, Started
    <3> QED
      BY <2>1, <2>7, <3>2, <3>3, ReceiveStream
  <2>8. CASE Push
    <3>1. UNCHANGED <<cur, at>>
      BY <2>1, <2>8, CmdLemma DEF hostVars
    <3>2. CASE Stream' = Stream
      BY <2>4, <3>1, <3>2 DEF Oldest
    <3>3. CASE /\ Stream' = Later /\ Stream = Next1 \o Later
               /\ Next1 \in Seq(ByteSet) /\ Later \in Seq(ByteSet) /\ Next1 # <<>>
               /\ Next1[Len(Next1)].last /\ Next1[Len(Next1)].no = Next1[1].no
               /\ parsed' = Next1[1].no
      <4>1. 1 \in 1..Len(Next1) /\ Len(Next1) \in 1..Len(Next1)
        BY <3>3
      <4>2. Stream # <<>> /\ Stream[1] = Next1[1]
        <5>1. 1 \in 1..Len(Stream) /\ Stream[1] = Next1[1]
          BY <3>3, <4>1, Joined
        <5> QED
          BY <5>1
      <4>3. Oldest = Next1[1].no
        BY <4>2 DEF Oldest
      <4>4. Started(Stream) /\ End(Stream, cur, at)
        BY <2>2, <4>2 DEF CleanOf
      <4>5. Next1[1].no \in Nat
        <5>1. Next1[1] \in ByteSet
          BY <3>3, <4>1, ElementOfSeq
        <5> QED
          BY <5>1 DEF ByteSet
      <4>6. CASE Later = <<>>
        <5>1. Stream = Next1
          BY <3>3, <4>6, ConcatEmptySeq
        <5>2. Last(Stream) = Next1[Len(Next1)]
          BY <5>1 DEF Last
        <5>3. CASE at = 0
          <6>1. Next1[1].no = cur.no - 1
            BY <3>3, <4>4, <5>2, <5>3 DEF End
          <6>2. Oldest' = cur.no
            BY <2>4, <3>1, <3>3, <4>6, <5>3
          <6> QED
            BY <2>1, <3>3, <4>3, <6>1, <6>2
        <5>4. CASE at # 0
          <6>1. Next1[1].no = cur.no
            BY <2>1, <3>3, <4>4, <5>2, <5>4, ByteLemma DEF End
          <6>2. Oldest' = cur.no + 1
            BY <2>4, <3>1, <3>3, <4>6, <5>4
          <6> QED
            BY <3>3, <4>3, <6>1, <6>2
        <5> QED
          BY <5>3, <5>4
      <4>7. CASE Later # <<>>
        <5>1. Linked(Next1 \o Later)
          BY <3>3, <4>4 DEF Started
        <5>2. Later[1].no = Next1[Len(Next1)].no + 1
          BY <3>3, <4>7, <5>1, Boundary
        <5>3. Oldest' = Later[1].no
          BY <2>4, <3>3, <4>7
        <5> QED
          BY <3>3, <4>3, <5>2, <5>3
      <4> QED
        BY <4>6, <4>7
    <3> QED
      BY <2>1, <2>8, <3>2, <3>3, PushStream
  <2>9. CASE HostQuit \/ Tick \/ Return \/ BusPacket \/ Packets \/ UNCHANGED vars
    BY <2>9 DEF HostQuit, Tick, Return, BusPacket, Packets, NextTurn, vars, hostVars, Stream, Oldest
  <2> QED
    BY <2>5, <2>6, <2>7, <2>8, <2>9 DEF Next, MainLoop
<1>2. Spec => [][Step]_vars
  BY <1>1, Always, PTL DEF Spec
<1> QED
  BY <1>2 DEF CommandsExecuted

\* The flush after the host's pause of 50 ms puts processCmd in step again,
\* whatever garbage it held.
THEOREM PauseResyncsCorrect == Spec => PauseResyncs
<1> DEFINE Step == late = "pause" /\ late' = "no" /\ Clean(rxBuf) => InStep'
<1>1. Inv /\ Inv' /\ [Next]_vars => Step
  <2> SUFFICES ASSUME Inv, Inv', [Next]_vars, late = "pause", late' = "no", Clean(rxBuf)
               PROVE  InStep'
    OBVIOUS
  <2>1. TypeInv /\ TypeInv' /\ rxBuf \in Seq(ByteSet)
    BY DEF Inv, TypeInv
  <2>2. Receive
    BY <2>1, HostSendLemma, CmdLemma DEF Next, MainLoop, HostBegin, HostQuit, Tick, Return, BusPacket, Packets, NextTurn, vars
  <2>3. /\ cmd' = <<>> /\ batch' \in Seq(ByteSet) /\ batch' \o rxBuf' = rxBuf /\ UNCHANGED <<cur, at, quit>>
    BY <2>1, <2>2, ReceiveLemma DEF Flushed, hostVars
  <2>4. Stream' = rxBuf
    <3>1. <<>> \o batch' = batch'
      BY <2>3, ConcatEmptySeq
    <3>2. Stream' = (cmd' \o batch') \o rxBuf'
      BY DEF Stream
    <3> QED
      BY <2>3, <3>1, <3>2, Zenon
  <2> QED
    BY <2>1, <2>3, <2>4, CleanLemma, StreamNext
<1>2. Spec => [][Step]_vars
  BY <1>1, Always, PTL DEF Spec
<1> QED
  BY <1>2 DEF PauseResyncs
=============================================================================
