------------------------- MODULE CanGateway_proofs --------------------------
(* Proofs about CanGateway, for every size of the ring and of the receive     *)
(* FIFO, any number of mailboxes and of frames.                              *)
EXTENDS CanGateway, SequenceTheorems, TLAPS

Name == {"main", "gate"} \X Nat

\* A frame that someone really sends.
Bounded(name) == name[2] \in (IF name[1] = "main" THEN 1..MaxSends ELSE 1..MaxFrames)

TypeInv ==
    /\ TypeOK
    /\ box \in [Boxes -> Mailboxes] /\ pending \in Seq(Boxes)
    /\ mpc # "idle" => mainNo > 0
    /\ \A m \in Pending : Bounded(box[m].id)

----------------------------------------------------------------------------
(* Sequences of different members, as the requests are                        *)

LEMMA RangeOf ==
    ASSUME NEW S, NEW s \in Seq(S)
    PROVE  /\ Len(s) \in Nat /\ \A i \in 1..Len(s) : s[i] \in S
           /\ ToSet(s) \subseteq S
           /\ \A x : x \in ToSet(s) <=> \E i \in 1..Len(s) : s[i] = x
BY DEF ToSet

LEMMA Ends ==
    ASSUME NEW S, NEW s \in Seq(S), s # <<>>
    PROVE  /\ Head(s) \in S /\ Head(s) = s[1] /\ Len(s) > 0
           /\ Tail(s) \in Seq(S) /\ Len(Tail(s)) = Len(s) - 1
           /\ \A i \in 1..(Len(s) - 1) : Tail(s)[i] = s[i + 1]
           /\ Front(s) \in Seq(S) /\ Len(Front(s)) = Len(s) - 1
           /\ \A i \in 1..(Len(s) - 1) : Front(s)[i] = s[i]
<1>1. Len(s) \in Nat /\ Len(s) > 0
  OBVIOUS
<1>2. /\ Head(s) \in S /\ Head(s) = s[1]
      /\ Tail(s) \in Seq(S) /\ Len(Tail(s)) = Len(s) - 1
      /\ \A i \in 1..(Len(s) - 1) : Tail(s)[i] = s[i + 1]
  OBVIOUS
<1>3. \A i \in 1..(Len(s) - 1) : s[i] \in S
  BY <1>1
<1>4. /\ Front(s) \in Seq(S) /\ Len(Front(s)) = Len(s) - 1
      /\ \A i \in 1..(Len(s) - 1) : Front(s)[i] = s[i]
  <2>0. PICK n \in Nat : n = Len(s) - 1
    BY <1>1
  <2>1. n \in Int /\ n - 1 + 1 = n /\ (1 <= n \/ n = 0) /\ \A i \in 1..n : 1 + i - 1 = i
    OBVIOUS
  <2>2. \A i \in 1..n : s[i] \in S
    BY <1>3, <2>0
  <2>3. /\ SubSeq(s, 1, n) \in Seq(S) /\ Len(SubSeq(s, 1, n)) = IF 1 <= n THEN n - 1 + 1 ELSE 0
        /\ \A i \in 1..(n - 1 + 1) : SubSeq(s, 1, n)[i] = s[1 + i - 1]
    BY <2>1, <2>2, SubSeqProperties
  <2>4. SubSeq(s, 1, n) \in Seq(S) /\ Len(SubSeq(s, 1, n)) = n /\ \A i \in 1..n : SubSeq(s, 1, n)[i] = s[i]
    BY <2>1, <2>3
  <2> QED
    BY <2>0, <2>4 DEF Front
<1> QED
  BY <1>1, <1>2, <1>4

LEMMA Appended ==
    ASSUME NEW S, NEW s \in Seq(S), NEW m \in S, m \notin ToSet(s), IsInjective(s)
    PROVE  /\ Append(s, m) \in Seq(S) /\ IsInjective(Append(s, m))
           /\ Len(Append(s, m)) = Len(s) + 1 /\ Append(s, m)[Len(s) + 1] = m
           /\ \A i \in 1..Len(s) : Append(s, m)[i] = s[i]
           /\ ToSet(Append(s, m)) = ToSet(s) \cup {m}
<1> DEFINE t == Append(s, m)
<1>1. /\ t \in Seq(S) /\ Len(t) = Len(s) + 1 /\ t[Len(s) + 1] = m
      /\ \A i \in 1..Len(s) : t[i] = s[i]
  OBVIOUS
<1> HIDE DEF t
<1>2. ToSet(t) = ToSet(s) \cup {m}
  BY <1>1, RangeOf
<1>3. \A i \in 1..Len(s) : s[i] # m
  BY RangeOf
<1>4. IsInjective(t)
  BY <1>1, <1>3 DEF IsInjective
<1> QED
  BY <1>1, <1>2, <1>4 DEF t

LEMMA Shortened ==
    ASSUME NEW S, NEW s \in Seq(S), s # <<>>, IsInjective(s)
    PROVE  /\ Tail(s) \in Seq(S) /\ IsInjective(Tail(s))
           /\ Len(Tail(s)) = Len(s) - 1 /\ \A i \in 1..(Len(s) - 1) : Tail(s)[i] = s[i + 1]
           /\ Head(s) = s[1] /\ Len(s) > 0
           /\ ToSet(Tail(s)) = ToSet(s) \ {Head(s)} /\ Head(s) \in ToSet(s)
<1> DEFINE t == Tail(s)
<1>1. /\ t \in Seq(S) /\ Len(t) = Len(s) - 1 /\ Len(s) > 0 /\ Head(s) = s[1]
      /\ \A i \in 1..(Len(s) - 1) : t[i] = s[i + 1]
  OBVIOUS
<1> HIDE DEF t
<1>2. IsInjective(t)
  <2> SUFFICES ASSUME NEW a \in 1..Len(t), NEW b \in 1..Len(t), t[a] = t[b] PROVE a = b
    BY <1>1 DEF IsInjective
  <2>1. a + 1 \in 1..Len(s) /\ b + 1 \in 1..Len(s) /\ s[a + 1] = s[b + 1]
    BY <1>1
  <2> QED
    BY <2>1 DEF IsInjective
<1>3. \A i \in 2..Len(s) : s[i] # s[1]
  BY <1>1 DEF IsInjective
<1>4. ASSUME NEW x PROVE x \in ToSet(t) <=> x \in ToSet(s) /\ x # s[1]
  <2>1. ASSUME x \in ToSet(t) PROVE x \in ToSet(s) /\ x # s[1]
    <3>1. PICK i \in 1..Len(t) : t[i] = x
      BY <1>1, <2>1, RangeOf
    <3>2. i + 1 \in 2..Len(s) /\ s[i + 1] = x
      BY <1>1, <3>1
    <3> QED
      BY <1>3, <3>2, RangeOf
  <2>2. ASSUME x \in ToSet(s), x # s[1] PROVE x \in ToSet(t)
    <3>1. PICK i \in 1..Len(s) : s[i] = x
      BY <2>2, RangeOf
    <3>2. i - 1 \in 1..Len(t) /\ t[i - 1] = x
      BY <1>1, <2>2, <3>1
    <3> QED
      BY <1>1, <3>2, RangeOf
  <2> QED
    BY <2>1, <2>2
<1>5. s[1] \in ToSet(s)
  BY <1>1, RangeOf
<1> QED
  BY <1>1, <1>2, <1>4, <1>5 DEF t

----------------------------------------------------------------------------
(* Steps of the mailboxes and the rings                                       *)

LEMMA WrittenLemma ==
    ASSUME TypeInv, NEW m \in Boxes, NEW field \in {"lo", "hi", "id"}, NEW v \in Name
    PROVE  /\ Written(m, field, v) \in [Boxes -> Mailboxes]
           /\ \A b \in Boxes : b \in Pending => Written(m, field, v)[b] = box[b]
           /\ \A b \in Boxes : b # m => Written(m, field, v)[b] = box[b]
           /\ m \notin Pending => Written(m, field, v)[m] = [box[m] EXCEPT ![field] = v]
<1> USE DEF TypeInv
<1>1. CASE m \in Pending
  BY <1>1 DEF Written
<1>2. CASE m \notin Pending
  <2>1. Written(m, field, v) = [box EXCEPT ![m] = [box[m] EXCEPT ![field] = v]]
    BY <1>2 DEF Written
  <2>2. box[m] \in Mailboxes
    OBVIOUS
  <2>3. [box[m] EXCEPT ![field] = v] \in Mailboxes
    <3>1. CASE field = "lo"
      BY <2>2, <3>1 DEF Mailboxes, Name
    <3>2. CASE field = "hi"
      BY <2>2, <3>2 DEF Mailboxes, Name
    <3>3. CASE field = "id"
      BY <2>2, <3>3 DEF Mailboxes, Name
    <3> QED
      BY <3>1, <3>2, <3>3
  <2> QED
    BY <1>2, <2>1, <2>3
<1> QED
  BY <1>1, <1>2

\* The other fields of a mailbox keep what they hold.
LEMMA OtherFields ==
    ASSUME NEW x \in Mailboxes, NEW v \in Name
    PROVE  /\ [x EXCEPT !["lo"] = v].lo = v /\ [x EXCEPT !["lo"] = v].id = x.id
           /\ [x EXCEPT !["hi"] = v].hi = v /\ [x EXCEPT !["hi"] = v].lo = x.lo
           /\ [x EXCEPT !["hi"] = v].id = x.id
           /\ [x EXCEPT !["id"] = v].id = v /\ [x EXCEPT !["id"] = v].lo = x.lo
           /\ [x EXCEPT !["id"] = v].hi = x.hi
BY DEF Mailboxes

LEMMA WholeLemma ==
    ASSUME NEW n \in Nat
    PROVE  /\ FromMain(n) \in Name /\ FromGate(n) \in Name
           /\ Whole(FromMain(n)) \in Mailboxes /\ Whole(FromGate(n)) \in Mailboxes
           /\ FromMain(n)[1] = "main" /\ FromMain(n)[2] = n
           /\ FromGate(n)[1] = "gate" /\ FromGate(n)[2] = n
BY DEF FromMain, FromGate, Whole, Mailboxes, Name

LEMMA AdvanceLemma ==
    ASSUME NEW i \in 0..(RingSize - 1)
    PROVE  /\ Advance(i, RingSize) = IF i = RingSize - 1 THEN 0 ELSE i + 1
           /\ Advance(i, RingSize) \in 0..(RingSize - 1)
<1>1. Advance(i, RingSize) = IF i = RingSize - 1 THEN 0 ELSE i + 1
  BY RingSizeAssumption, SMT DEF Advance
<1> QED
  BY <1>1, RingSizeAssumption

----------------------------------------------------------------------------
(* Types. What main writes to a pending mailbox is ignored, so that the       *)
(* request's frame is of the sender it names.                                *)

\* The mailboxes keep their types at a step that leaves the pending ones alone
\* and makes at most one request.
LEMMA BoxTypes ==
    ASSUME TypeInv, box' \in [Boxes -> Mailboxes], \A b \in Pending : box'[b] = box[b],
           \/ pending' = pending
           \/ \E m \in Boxes \ Pending :
                /\ pending' = Append(pending, m)
                /\ Bounded(box'[m].id)
    PROVE  /\ pending' \in Seq(Boxes) /\ IsInjective(pending') /\ Pending' \subseteq Boxes
           /\ \A m \in Boxes : box'[m] \in Mailboxes
           /\ \A m \in Pending' : Bounded(box'[m].id)
<1> USE DEF TypeInv, TypeOK
<1>1. CASE pending' = pending
  <2>1. Pending' = Pending
    BY <1>1 DEF Pending
  <2> QED
    BY <1>1, <2>1
<1>2. ASSUME NEW m \in Boxes \ Pending, pending' = Append(pending, m),
             Bounded(box'[m].id)
      PROVE  /\ pending' \in Seq(Boxes) /\ IsInjective(pending') /\ Pending' \subseteq Boxes
             /\ \A b \in Pending' : Bounded(box'[b].id)
  <2>1. /\ pending' \in Seq(Boxes) /\ IsInjective(pending') /\ Pending' = Pending \cup {m}
    BY <1>2, Appended DEF Pending
  <2> QED
    BY <1>2, <2>1
<1> QED
  BY <1>1, <1>2

LEMMA FifoTypes ==
    ASSUME TypeInv
    PROVE  /\ rxFifo # <<>> => /\ Head(rxFifo) \in 1..MaxFrames
                               /\ Tail(rxFifo) \in Seq(1..MaxFrames) /\ Len(Tail(rxFifo)) <= FifoDepth
           /\ \A n \in 1..MaxFrames :
                LET f == Append(IF Len(rxFifo) < FifoDepth THEN rxFifo ELSE Front(rxFifo), n)
                IN  f \in Seq(1..MaxFrames) /\ Len(f) <= FifoDepth
<1>1. rxFifo \in Seq(1..MaxFrames) /\ Len(rxFifo) \in Nat /\ Len(rxFifo) <= FifoDepth
  BY DEF TypeInv, TypeOK
<1>2. ASSUME rxFifo # <<>>
      PROVE  /\ Head(rxFifo) \in 1..MaxFrames
             /\ Tail(rxFifo) \in Seq(1..MaxFrames) /\ Len(Tail(rxFifo)) <= FifoDepth
  <2>1. /\ Head(rxFifo) \in 1..MaxFrames /\ Tail(rxFifo) \in Seq(1..MaxFrames)
        /\ Len(Tail(rxFifo)) = Len(rxFifo) - 1
    BY <1>1, <1>2, Ends
  <2> QED
    BY <1>1, <2>1, FifoDepthAssumption
<1>3. ASSUME NEW n \in 1..MaxFrames
      PROVE  LET f == Append(IF Len(rxFifo) < FifoDepth THEN rxFifo ELSE Front(rxFifo), n)
             IN  f \in Seq(1..MaxFrames) /\ Len(f) <= FifoDepth
  <2>1. ASSUME NEW g \in Seq(1..MaxFrames), Len(g) < FifoDepth
        PROVE  Append(g, n) \in Seq(1..MaxFrames) /\ Len(Append(g, n)) <= FifoDepth
    <3>1. Append(g, n) \in Seq(1..MaxFrames) /\ Len(Append(g, n)) = Len(g) + 1 /\ Len(g) \in Nat
      OBVIOUS
    <3> QED
      BY <2>1, <3>1, FifoDepthAssumption
  <2>2. CASE Len(rxFifo) < FifoDepth
    BY <1>1, <2>1, <2>2
  <2>3. CASE ~(Len(rxFifo) < FifoDepth)
    <3>1. rxFifo # <<>>
      BY <2>3, FifoDepthAssumption
    <3>2. Front(rxFifo) \in Seq(1..MaxFrames) /\ Len(Front(rxFifo)) < FifoDepth
      BY <1>1, <3>1, Ends, FifoDepthAssumption
    <3> QED
      BY <2>1, <2>3, <3>2
  <2> QED
    BY <2>2, <2>3
<1> QED
  BY <1>2, <1>3

\* Steps that leave the mailboxes and the numbers of frames alone.
LEMMA SameBoxes ==
    ASSUME TypeInv, UNCHANGED <<box, pending, mbox, mainNo, mainOk, gateOk, sentVars, raced>>,
           mpc' = mpc,
           {on', open', gate'} \subseteq BOOLEAN, open' => on',
           arrived' \in 0..MaxFrames, hostGot' \in 0..MaxFrames, delivered' \in Nat,
           rxFifo' \in Seq(1..MaxFrames), Len(rxFifo') <= FifoDepth,
           canPkt' \in [0..(RingSize - 1) -> 0..MaxFrames],
           putIdx' \in 0..(RingSize - 1), getIdx' \in 0..(RingSize - 1)
    PROVE  TypeInv'
BY DEF TypeInv, TypeOK, sentVars, Pending

\* Steps that change nothing but the mailboxes and the numbers.
LEMMA SameRings ==
    ASSUME TypeInv, UNCHANGED <<srcVars, rxFifo, ringVars, hostVars>>,
           box' \in [Boxes -> Mailboxes], \A b \in Pending : box'[b] = box[b],
           \/ pending' = pending
           \/ \E m \in Boxes \ Pending : pending' = Append(pending, m) /\ Bounded(box'[m].id),
           mpc' \in {"idle", "pick", "low", "high", "request"}, mbox' \in Boxes,
           mainNo' \in 0..MaxSends, mpc' # "idle" => mainNo' > 0,
           mainOk' \cup mainDone' \cup raced' \subseteq 1..MaxSends, gateOk' \cup gateDone' \subseteq 1..MaxFrames
    PROVE  TypeInv'
<1>1. /\ pending' \in Seq(Boxes) /\ IsInjective(pending') /\ Pending' \subseteq Boxes
      /\ \A m \in Boxes : box'[m] \in Mailboxes
      /\ \A m \in Pending' : Bounded(box'[m].id)
  BY BoxTypes
<1> QED
  BY <1>1 DEF TypeInv, TypeOK, srcVars, ringVars, hostVars

LEMMA TypeStep == TypeInv /\ [Next]_vars => TypeInv'
<1> SUFFICES ASSUME TypeInv, [Next]_vars PROVE TypeInv'
  OBVIOUS
<1> USE RingSizeAssumption, FifoDepthAssumption, BoundsAssumption
<1>t. /\ {on, open, gate} \subseteq BOOLEAN /\ (open => on)
      /\ arrived \in 0..MaxFrames /\ hostGot \in 0..MaxFrames /\ delivered \in Nat
      /\ rxFifo \in Seq(1..MaxFrames) /\ Len(rxFifo) <= FifoDepth
      /\ canPkt \in [0..(RingSize - 1) -> 0..MaxFrames]
      /\ putIdx \in 0..(RingSize - 1) /\ getIdx \in 0..(RingSize - 1)
  BY DEF TypeInv, TypeOK
<1>u. /\ box \in [Boxes -> Mailboxes] /\ Pending \subseteq Boxes
      /\ mpc \in {"idle", "pick", "low", "high", "request"} /\ mbox \in Boxes
      /\ mainNo \in 0..MaxSends /\ (mpc # "idle" => mainNo > 0)
      /\ mainOk \cup mainDone \cup raced \subseteq 1..MaxSends
      /\ gateOk \cup gateDone \subseteq 1..MaxFrames
  BY DEF TypeInv, TypeOK
<1>1. ASSUME Open \/ Close \/ Handshake \/ SwitchGate PROVE TypeInv'
  <2>1. /\ UNCHANGED <<arrived, ringVars, hostVars, box, pending, mainVars, gateOk, sentVars, raced>>
        /\ {on', open', gate'} \subseteq BOOLEAN /\ (open' => on')
        /\ rxFifo' = rxFifo \/ rxFifo' = <<>>
    <3>1. CASE Open
      BY <3>1, <1>t DEF Open
    <3>2. CASE Close
      BY <3>2, <1>t DEF Close
    <3>3. CASE Handshake
      BY <3>3, <1>t DEF Handshake
    <3>4. CASE SwitchGate
      BY <3>4, <1>t DEF SwitchGate
    <3> QED
      BY <1>1, <3>1, <3>2, <3>3, <3>4
  <2>2. rxFifo' \in Seq(1..MaxFrames) /\ Len(rxFifo') <= FifoDepth
    <3>1. CASE rxFifo' = <<>>
      BY <3>1
    <3> QED
      BY <1>t, <2>1, <3>1
  <2> QED
    BY <1>t, <2>1, <2>2, SameBoxes DEF ringVars, hostVars, mainVars
<1>2. ASSUME PacketGet PROVE TypeInv'
  <2>1. /\ UNCHANGED <<srcVars, rxFifo, canPkt, putIdx, box, pending, mainVars, gateOk, sentVars, raced>>
        /\ hostGot' \in 0..MaxFrames /\ delivered' \in Nat /\ getIdx' \in 0..(RingSize - 1)
    BY <1>2, <1>t, AdvanceLemma DEF PacketGet
  <2> QED
    BY <1>t, <2>1, SameBoxes DEF srcVars, mainVars
<1>3. ASSUME Arrive PROVE TypeInv'
  <2>1. /\ UNCHANGED <<on, open, gate, ringVars, hostVars, box, pending, mainVars, gateOk, sentVars, raced>>
        /\ arrived' \in 1..MaxFrames /\ arrived' = arrived + 1
        /\ rxFifo' = Append(IF Len(rxFifo) < FifoDepth THEN rxFifo ELSE Front(rxFifo), arrived')
    BY <1>3, <1>t DEF Arrive
  <2>2. rxFifo' \in Seq(1..MaxFrames) /\ Len(rxFifo') <= FifoDepth
    BY <2>1, FifoTypes
  <2> QED
    BY <1>t, <2>1, <2>2, SameBoxes DEF ringVars, hostVars, mainVars
<1>4. ASSUME SendCheck PROVE TypeInv'
  <2>1. /\ UNCHANGED <<srcVars, rxFifo, ringVars, hostVars, box, pending, mbox, mainOk, gateOk, sentVars, raced>>
        /\ mainNo' \in 1..MaxSends /\ mpc' \in {"pick", "idle"}
    BY <1>4, <1>u DEF SendCheck
  <2> QED
    BY <1>u, <2>1, SameRings DEF sentVars
<1>5. ASSUME SendPick PROVE TypeInv'
  <2>1. /\ UNCHANGED <<srcVars, rxFifo, ringVars, hostVars, box, pending, mainNo, mainOk, gateOk, sentVars, raced>>
        /\ mpc = "pick" /\ mpc' = "low"
        /\ \/ mbox' \in FreeBoxes
           \/ FreeBoxes = {} /\ mbox' = Last(pending)
    BY <1>5 DEF SendPick
  <2>2. ASSUME FreeBoxes = {} PROVE Last(pending) \in Boxes
    <3>1. mbox \in ToSet(pending) /\ pending \in Seq(Boxes)
      BY <1>u, <2>2 DEF FreeBoxes, TypeInv, Pending
    <3>2. Len(pending) > 0
      BY <3>1, RangeOf
    <3> QED
      BY <3>1, <3>2 DEF Last
  <2>3. mbox' \in Boxes
    BY <2>1, <2>2 DEF FreeBoxes
  <2> QED
    BY <1>u, <2>1, <2>3, SameRings DEF sentVars
<1>6. ASSUME NEW field \in {"lo", "hi"}, NEW from \in {"low", "high"}, NEW to \in {"high", "request"},
             SendData(from, field, to)
      PROVE  TypeInv'
  <2>1. /\ UNCHANGED <<srcVars, rxFifo, ringVars, hostVars, pending, mbox, mainNo, mainOk, gateOk, sentVars, raced>>
        /\ mpc # "idle" /\ mpc' = to /\ box' = Written(mbox, field, FromMain(mainNo))
    BY <1>6 DEF SendData
  <2>2. box' \in [Boxes -> Mailboxes] /\ \A b \in Pending : box'[b] = box[b]
    <3>1. FromMain(mainNo) \in Name /\ field \in {"lo", "hi", "id"}
      BY <1>u, WholeLemma
    <3>2. ASSUME NEW b \in Pending PROVE Written(mbox, field, FromMain(mainNo))[b] = box[b]
      BY <1>u DEF Written
    <3>3. Written(mbox, field, FromMain(mainNo)) \in [Boxes -> Mailboxes]
      BY <1>u, <3>1, WrittenLemma
    <3> QED
      BY <1>u, <2>1, <3>2, <3>3
  <2> QED
    BY <1>u, <2>1, <2>2, SameRings DEF sentVars
<1>7. ASSUME SendRequest PROVE TypeInv'
  <2>1. /\ UNCHANGED <<srcVars, rxFifo, ringVars, hostVars, mbox, mainNo, gateOk, sentVars, raced>>
        /\ mainNo \in 1..MaxSends /\ mpc' = "idle" /\ box' = Written(mbox, "id", FromMain(mainNo))
        /\ pending' = IF mbox \in Pending THEN pending ELSE Append(pending, mbox)
        /\ mainOk' = mainOk \cup {mainNo}
    BY <1>7, <1>u DEF SendRequest
  <2>2. box' \in [Boxes -> Mailboxes] /\ \A b \in Pending : box'[b] = box[b]
    <3>1. FromMain(mainNo) \in Name
      BY <1>u, WholeLemma
    <3>2. ASSUME NEW b \in Pending PROVE Written(mbox, "id", FromMain(mainNo))[b] = box[b]
      BY <1>u DEF Written
    <3>3. Written(mbox, "id", FromMain(mainNo)) \in [Boxes -> Mailboxes]
      BY <1>u, <3>1, WrittenLemma
    <3> QED
      BY <1>u, <2>1, <3>2, <3>3
  <2>3. ASSUME mbox \notin Pending PROVE Bounded(box'[mbox].id)
    <3>1. box'[mbox].id = FromMain(mainNo)
      <4>1. FromMain(mainNo) \in Name /\ box[mbox] \in Mailboxes
        BY <1>u, WholeLemma
      <4>2. box'[mbox] = [box[mbox] EXCEPT !["id"] = FromMain(mainNo)]
        BY <1>u, <2>1, <2>3, <4>1, WrittenLemma
      <4> QED
        BY <4>1, <4>2, OtherFields
    <3> QED
      BY <2>1, <3>1, WholeLemma DEF Bounded
  <2>4. \/ pending' = pending
        \/ \E m \in Boxes \ Pending : pending' = Append(pending, m) /\ Bounded(box'[m].id)
    BY <1>u, <2>1, <2>3
  <2>5. UNCHANGED <<mbox, mainDone, gateDone, gateOk, raced>>
    BY <2>1 DEF sentVars
  <2> QED
    BY <1>u, <2>1, <2>2, <2>4, <2>5, SameRings
<1>8. ASSUME RxIrq PROVE TypeInv'
  <2>1. /\ UNCHANGED <<on, open, gate, arrived, getIdx, hostVars, mpc, mbox, mainNo, mainOk, mainDone, gateDone>>
        /\ rxFifo # <<>> /\ rxFifo' = Tail(rxFifo)
        /\ Received(Head(rxFifo))
        /\ Forward(Head(rxFifo)) \/ UNCHANGED <<box, pending, gateOk, raced>>
    BY <1>8 DEF RxIrq, srcVars, mainVars, sentVars
  <2> DEFINE n == Head(rxFifo)
  <2>2. n \in 1..MaxFrames /\ rxFifo' \in Seq(1..MaxFrames) /\ Len(rxFifo') <= FifoDepth
    BY <2>1, FifoTypes
  <2>3. canPkt' \in [0..(RingSize - 1) -> 0..MaxFrames] /\ putIdx' \in 0..(RingSize - 1)
    <3>1. n \in 0..MaxFrames
      BY <2>2
    <3> HIDE DEF n
    <3> QED
      BY <1>t, <2>1, <3>1, AdvanceLemma DEF Received, n
  <2> DEFINE Moved ==
        /\ box' \in [Boxes -> Mailboxes] /\ \A b \in Pending : box'[b] = box[b]
        /\ \/ pending' = pending
           \/ \E m \in Boxes \ Pending : pending' = Append(pending, m) /\ Bounded(box'[m].id)
        /\ gateOk' \subseteq gateOk \cup {n} /\ raced' \subseteq raced \cup {mainNo}
        /\ mpc = "idle" => raced' = raced
  <2>4. Moved
    <3>1. CASE UNCHANGED <<box, pending, gateOk, raced>>
      BY <1>u, <3>1
    <3>2. ASSUME NEW m \in FreeBoxes, box' = [box EXCEPT ![m] = Whole(FromGate(n))],
                 pending' = Append(pending, m), gateOk' = gateOk \cup {n},
                 raced' = IF mpc = "idle" THEN raced ELSE raced \cup {mainNo}
          PROVE  Moved
      <4>1. m \in Boxes \ Pending /\ n \in Nat
        BY <2>2 DEF FreeBoxes
      <4>2. Whole(FromGate(n)) \in Mailboxes /\ Bounded(Whole(FromGate(n)).id)
        BY <2>2, <4>1, WholeLemma DEF Bounded, Whole
      <4> HIDE DEF n
      <4>3. box' \in [Boxes -> Mailboxes] /\ box'[m] = Whole(FromGate(n))
        BY <1>u, <3>2, <4>1, <4>2
      <4>4. \A b \in Pending : box'[b] = box[b]
        BY <1>u, <3>2, <4>1
      <4> QED
        BY <3>2, <4>1, <4>2, <4>3, <4>4
    <3> QED
      BY <2>1, <3>1, <3>2 DEF Forward
  <2>5. gateOk' \cup gateDone' \subseteq 1..MaxFrames /\ mainOk' \cup mainDone' \cup raced' \subseteq 1..MaxSends
    <3>1. mpc # "idle" => mainNo \in 1..MaxSends
      BY <1>u
    <3>2. raced' \subseteq 1..MaxSends
      BY <1>u, <2>4, <3>1
    <3> HIDE DEF n
    <3> QED
      BY <1>u, <2>1, <2>2, <2>4, <3>2
  <2>6. /\ pending' \in Seq(Boxes) /\ IsInjective(pending') /\ Pending' \subseteq Boxes
        /\ \A m \in Boxes : box'[m] \in Mailboxes
        /\ \A m \in Pending' : Bounded(box'[m].id)
    BY <2>4, BoxTypes
  <2> QED
    BY <1>t, <1>u, <2>1, <2>2, <2>3, <2>4, <2>5, <2>6 DEF TypeInv, TypeOK, hostVars
<1>9. ASSUME Transmit PROVE TypeInv'
  <2> DEFINE m == Head(pending)
  <2>1. /\ UNCHANGED <<srcVars, rxFifo, ringVars, hostVars, box, mainVars, gateOk, raced>>
        /\ pending # <<>> /\ pending' = Tail(pending)
        /\ mainDone' = IF box[m].id[1] = "main" THEN mainDone \cup {box[m].id[2]} ELSE mainDone
        /\ gateDone' = IF box[m].id[1] = "gate" THEN gateDone \cup {box[m].id[2]} ELSE gateDone
    BY <1>9 DEF Transmit
  <2>2. /\ pending' \in Seq(Boxes) /\ IsInjective(pending') /\ m \in Pending
        /\ Pending' = Pending \ {m}
    BY <2>1, Shortened DEF TypeInv, TypeOK, Pending
  <2>3. box[m] \in Mailboxes /\ Bounded(box[m].id)
    BY <2>2, <1>u DEF TypeInv
  <2>4. box[m].id[1] \in {"main", "gate"}
    BY <2>3 DEF Mailboxes
  <2> HIDE DEF m
  <2>5. mainDone' \subseteq 1..MaxSends /\ gateDone' \subseteq 1..MaxFrames
    BY <1>u, <2>1, <2>3, <2>4 DEF Bounded
  <2> QED
    BY <1>t, <1>u, <2>1, <2>2, <2>5 DEF TypeInv, TypeOK, srcVars, ringVars, hostVars, mainVars
<1>0. ASSUME UNCHANGED vars PROVE TypeInv'
  BY <1>0 DEF vars, srcVars, ringVars, hostVars, mainVars, sentVars, TypeInv, TypeOK, Pending
<1> QED
  BY <1>0, <1>1, <1>2, <1>3, <1>4, <1>5, <1>6, <1>7, <1>8, <1>9 DEF Next, SendLow, SendHigh

----------------------------------------------------------------------------
(* The frames of the source bus come out of the receive FIFO in order, so that *)
(* each one is newer than those the gate has accepted.                       *)

ArrivalInv ==
    /\ \A i \in 1..Len(rxFifo) : rxFifo[i] <= arrived
    /\ \A i, j \in 1..Len(rxFifo) : i < j => rxFifo[i] < rxFifo[j]
    /\ \A n \in gateOk : n <= arrived /\ \A i \in 1..Len(rxFifo) : n < rxFifo[i]

LEMMA ArrivalStep == TypeInv /\ ArrivalInv /\ [Next]_vars => ArrivalInv'
<1> SUFFICES ASSUME TypeInv, ArrivalInv, [Next]_vars PROVE ArrivalInv'
  OBVIOUS
<1>t. /\ rxFifo \in Seq(1..MaxFrames) /\ Len(rxFifo) \in Nat /\ arrived \in Nat /\ gateOk \subseteq Nat
      /\ \A i \in 1..Len(rxFifo) : rxFifo[i] \in Nat
  <2>1. rxFifo \in Seq(1..MaxFrames) /\ arrived \in 0..MaxFrames /\ gateOk \subseteq 1..MaxFrames
    BY DEF TypeInv, TypeOK
  <2>2. Len(rxFifo) \in Nat /\ \A i \in 1..Len(rxFifo) : rxFifo[i] \in 1..MaxFrames
    BY <2>1, RangeOf
  <2> QED
    BY <2>1, <2>2, BoundsAssumption
<1>1. ASSUME rxFifo' = rxFifo \/ rxFifo' = <<>>, arrived' = arrived, gateOk' = gateOk PROVE ArrivalInv'
  <2>1. CASE rxFifo' = <<>>
    <3>1. Len(rxFifo') = 0
      BY <2>1
    <3> QED
      BY <1>1, <3>1 DEF ArrivalInv
  <2> QED
    BY <1>1, <2>1 DEF ArrivalInv
<1>2. ASSUME RxIrq PROVE ArrivalInv'
  <2>1. /\ rxFifo # <<>> /\ rxFifo' = Tail(rxFifo) /\ arrived' = arrived
        /\ gateOk' \in {gateOk, gateOk \cup {Head(rxFifo)}}
    BY <1>2 DEF RxIrq, Forward, srcVars
  <2>2. /\ Len(rxFifo) > 0 /\ Head(rxFifo) = rxFifo[1] /\ Len(rxFifo') = Len(rxFifo) - 1
        /\ \A i \in 1..(Len(rxFifo) - 1) : rxFifo'[i] = rxFifo[i + 1]
    BY <1>t, <2>1, Ends
  <2>3. \A i \in 1..Len(rxFifo') : i + 1 \in 1..Len(rxFifo) /\ rxFifo'[i] = rxFifo[i + 1] /\ 1 < i + 1
    BY <1>t, <2>2
  <2>4. 1 \in 1..Len(rxFifo)
    BY <1>t, <2>2
  <2>5. \A i \in 1..Len(rxFifo') : rxFifo'[i] <= arrived' /\ rxFifo[1] < rxFifo'[i]
    BY <2>1, <2>3, <2>4 DEF ArrivalInv
  <2>6. ASSUME NEW i \in 1..Len(rxFifo'), NEW j \in 1..Len(rxFifo'), i < j PROVE rxFifo'[i] < rxFifo'[j]
    <3>1. i + 1 < j + 1
      BY <2>6
    <3> QED
      BY <2>3, <3>1 DEF ArrivalInv
  <2>7. ASSUME NEW n \in gateOk' PROVE n <= arrived' /\ \A i \in 1..Len(rxFifo') : n < rxFifo'[i]
    <3>1. CASE n \in gateOk
      BY <2>1, <2>3, <3>1 DEF ArrivalInv
    <3>2. CASE n = rxFifo[1]
      BY <2>1, <2>4, <2>5, <3>2 DEF ArrivalInv
    <3> QED
      BY <2>1, <2>2, <3>1, <3>2
  <2> QED
    BY <2>5, <2>6, <2>7 DEF ArrivalInv
<1>3. ASSUME Arrive PROVE ArrivalInv'
  <2> DEFINE f == IF Len(rxFifo) < FifoDepth THEN rxFifo ELSE Front(rxFifo)
  <2>1. arrived' = arrived + 1 /\ gateOk' = gateOk /\ rxFifo' = Append(f, arrived + 1)
    BY <1>3 DEF Arrive
  <2>2. f \in Seq(1..MaxFrames) /\ Len(f) \in Nat /\ Len(f) <= Len(rxFifo) /\ \A i \in 1..Len(f) : f[i] = rxFifo[i]
    <3>1. CASE Len(rxFifo) < FifoDepth
      BY <1>t, <3>1
    <3>2. CASE ~(Len(rxFifo) < FifoDepth)
      <4>1. rxFifo # <<>>
        BY <3>2, FifoDepthAssumption
      <4>2. /\ f = Front(rxFifo) /\ Len(f) = Len(rxFifo) - 1 /\ f \in Seq(1..MaxFrames) /\ Len(rxFifo) > 0
            /\ \A i \in 1..(Len(rxFifo) - 1) : f[i] = rxFifo[i]
        BY <1>t, <3>2, <4>1, Ends
      <4> QED
        BY <1>t, <4>2
    <3> QED
      BY <3>1, <3>2
  <2> HIDE DEF f
  <2>3. /\ Len(rxFifo') = Len(f) + 1 /\ rxFifo'[Len(f) + 1] = arrived + 1
        /\ \A i \in 1..Len(f) : rxFifo'[i] = rxFifo[i] /\ i \in 1..Len(rxFifo)
    BY <1>t, <2>1, <2>2
  <2>4. \A i \in 1..Len(rxFifo') : i \in 1..Len(f) \/ i = Len(f) + 1
    BY <2>2, <2>3
  <2>5. \A i \in 1..Len(f) : rxFifo'[i] <= arrived /\ rxFifo'[i] \in Nat
    BY <1>t, <2>3 DEF ArrivalInv
  <2>6. \A i \in 1..Len(rxFifo') : rxFifo'[i] <= arrived'
    BY <1>t, <2>1, <2>3, <2>4, <2>5
  <2>7. ASSUME NEW i \in 1..Len(rxFifo'), NEW j \in 1..Len(rxFifo'), i < j PROVE rxFifo'[i] < rxFifo'[j]
    <3>1. i \in 1..Len(f)
      BY <2>2, <2>3, <2>7
    <3>2. CASE j \in 1..Len(f)
      BY <2>3, <2>7, <3>1, <3>2 DEF ArrivalInv
    <3>3. CASE j = Len(f) + 1
      BY <1>t, <2>3, <2>5, <3>1, <3>3
    <3> QED
      BY <2>4, <3>2, <3>3
  <2>8. ASSUME NEW n \in gateOk' PROVE n <= arrived' /\ \A i \in 1..Len(rxFifo') : n < rxFifo'[i]
    <3>1. n \in Nat /\ n <= arrived /\ \A i \in 1..Len(rxFifo) : n < rxFifo[i]
      BY <1>t, <2>1, <2>8 DEF ArrivalInv
    <3>2. n < arrived + 1
      BY <1>t, <3>1
    <3> QED
      BY <1>t, <2>1, <2>3, <2>4, <3>1, <3>2
  <2> QED
    BY <2>6, <2>7, <2>8 DEF ArrivalInv
<1>4. ASSUME Open \/ Close \/ Handshake \/ SwitchGate \/ PacketGet PROVE ArrivalInv'
  BY <1>1, <1>4 DEF Open, Close, Handshake, SwitchGate, PacketGet, srcVars
<1>5. ASSUME SendCheck \/ SendPick \/ SendLow \/ SendHigh \/ SendRequest \/ Transmit PROVE ArrivalInv'
  BY <1>1, <1>5 DEF SendCheck, SendPick, SendLow, SendHigh, SendData, SendRequest, Transmit, srcVars
<1>6. ASSUME UNCHANGED vars PROVE ArrivalInv'
  BY <1>1, <1>6 DEF vars, srcVars
<1> QED
  BY <1>2, <1>3, <1>4, <1>5, <1>6 DEF Next

----------------------------------------------------------------------------
(* The frames that wait in the mailboxes                                      *)

LEMMA WaitingSame ==
    ASSUME Pending' = Pending, \A b \in Pending : box'[b] = box[b], NEW who
    PROVE  Waiting(who)' = Waiting(who)
BY DEF Waiting

LEMMA WaitingMore ==
    ASSUME NEW m, Pending' = Pending \cup {m}, \A b \in Pending : box'[b] = box[b], NEW who
    PROVE  Waiting(who)' = Waiting(who) \cup (IF box'[m].id[1] = who THEN {box'[m].id[2]} ELSE {})
BY DEF Waiting

LEMMA WaitingLess ==
    ASSUME NEW m \in Pending, Pending' = Pending \ {m}, box' = box, NEW who
    PROVE  Waiting(who) = Waiting(who)' \cup (IF box[m].id[1] = who THEN {box[m].id[2]} ELSE {})
BY DEF Waiting

LEMMA PendingMore ==
    ASSUME TypeInv, NEW m \in Boxes \ Pending, pending' = Append(pending, m)
    PROVE  /\ Pending' = Pending \cup {m} /\ Len(pending') = Len(pending) + 1 /\ Len(pending) \in Nat
           /\ pending'[Len(pending) + 1] = m
           /\ \A i \in 1..Len(pending) : pending'[i] = pending[i] /\ pending[i] \in Pending
<1>1. pending \in Seq(Boxes) /\ IsInjective(pending) /\ m \in Boxes /\ m \notin ToSet(pending)
  BY DEF TypeInv, TypeOK, Pending
<1>2. Len(pending) \in Nat /\ \A i \in 1..Len(pending) : pending[i] \in Pending
  BY <1>1, RangeOf DEF Pending
<1>3. /\ Pending' = Pending \cup {m} /\ Len(pending') = Len(pending) + 1
      /\ pending'[Len(pending) + 1] = m /\ \A i \in 1..Len(pending) : pending'[i] = pending[i]
  BY <1>1, Appended DEF Pending
<1> QED
  BY <1>2, <1>3

LEMMA PendingLess ==
    ASSUME TypeInv, Transmit
    PROVE  /\ Pending' = Pending \ {Head(pending)} /\ Head(pending) \in Pending
           /\ Head(pending) = pending[1]
           /\ Len(pending) > 0 /\ Len(pending') = Len(pending) - 1 /\ Len(pending) \in Nat
           /\ \A i \in 1..(Len(pending) - 1) : pending'[i] = pending[i + 1]
           /\ \A b \in Pending : \E i \in 1..Len(pending) : b = pending[i]
<1>1. pending # <<>> /\ pending' = Tail(pending)
  BY DEF Transmit
<1>2. pending \in Seq(Boxes) /\ IsInjective(pending)
  BY DEF TypeInv, TypeOK
<1>3. /\ Len(pending) \in Nat
      /\ \A b \in Pending : \E i \in 1..Len(pending) : b = pending[i]
  BY <1>2, RangeOf DEF Pending
<1>4. /\ Len(pending') = Len(pending) - 1 /\ \A i \in 1..(Len(pending) - 1) : pending'[i] = pending[i + 1]
      /\ Head(pending) = pending[1] /\ Len(pending) > 0
      /\ Pending' = Pending \ {Head(pending)} /\ Head(pending) \in Pending
  BY <1>1, <1>2, Shortened DEF Pending
<1> QED
  BY <1>3, <1>4

\* The order of a sender's frames, when no mailbox is requested, when one is for a
\* frame newer than those that wait, and when the oldest leaves.
LEMMA OrderSame ==
    ASSUME TypeInv, pending' = pending, \A b \in Pending : box'[b] = box[b], NEW who, InOrder(who)
    PROVE  InOrder(who)'
<1>1. \A i \in 1..Len(pending) : pending[i] \in Pending
  BY RangeOf DEF Pending, TypeInv
<1> QED
  BY <1>1 DEF InOrder

LEMMA OrderMore ==
    ASSUME TypeInv, NEW m \in Boxes \ Pending, pending' = Append(pending, m),
           \A b \in Pending : box'[b] = box[b], NEW who, InOrder(who),
           box'[m].id[1] = who => \A k \in Waiting(who) : k < box'[m].id[2]
    PROVE  InOrder(who)'
<1> SUFFICES ASSUME NEW i \in 1..Len(pending'), NEW j \in 1..Len(pending'), i < j,
                    box'[pending'[i]].id[1] = who, box'[pending'[j]].id[1] = who
             PROVE  box'[pending'[i]].id[2] < box'[pending'[j]].id[2]
  BY DEF InOrder
<1>1. /\ Len(pending') = Len(pending) + 1 /\ Len(pending) \in Nat /\ pending'[Len(pending) + 1] = m
      /\ \A k \in 1..Len(pending) : pending'[k] = pending[k] /\ pending[k] \in Pending
  BY PendingMore
<1>2. i \in 1..Len(pending) /\ (j \in 1..Len(pending) \/ j = Len(pending) + 1)
  BY <1>1
<1>3. CASE j \in 1..Len(pending)
  BY <1>1, <1>2, <1>3 DEF InOrder
<1>4. CASE j = Len(pending) + 1
  <2>1. box[pending[i]].id[2] \in Waiting(who) /\ box'[pending'[i]] = box[pending[i]]
    BY <1>1, <1>2 DEF Waiting
  <2> QED
    BY <1>1, <1>4, <2>1
<1> QED
  BY <1>2, <1>3, <1>4

LEMMA OrderLess ==
    ASSUME TypeInv, Transmit, NEW who, InOrder(who)
    PROVE  /\ InOrder(who)'
           /\ box[Head(pending)].id[1] = who => box[Head(pending)].id[2] \notin Waiting(who)'
<1> DEFINE m == Head(pending)
<1>1. box' = box
  BY DEF Transmit
<1>2. /\ Pending' = Pending \ {m} /\ m \in Pending /\ m = pending[1]
      /\ Len(pending) > 0 /\ Len(pending') = Len(pending) - 1 /\ Len(pending) \in Nat
      /\ \A i \in 1..(Len(pending) - 1) : pending'[i] = pending[i + 1]
      /\ \A b \in Pending : \E i \in 1..Len(pending) : b = pending[i]
  BY PendingLess
<1> HIDE DEF m
<1>3. ASSUME box[m].id[1] = who PROVE box[m].id[2] \notin Waiting(who)'
  <2> SUFFICES ASSUME NEW b \in Pending', box[b].id[1] = who, box[b].id[2] = box[m].id[2] PROVE FALSE
    BY <1>1 DEF Waiting
  <2>1. PICK i \in 1..Len(pending) : b = pending[i]
    BY <1>2
  <2>2. i # 1
    BY <1>2, <2>1
  <2>3. 1 \in 1..Len(pending) /\ 1 < i
    BY <1>2, <2>1, <2>2
  <2>4. box[m].id[2] < box[b].id[2]
    BY <1>2, <1>3, <2>1, <2>3 DEF InOrder
  <2>5. box[m].id[2] \in Nat
    BY <1>2 DEF TypeInv, TypeOK, Mailboxes
  <2> QED
    BY <2>4, <2>5
<1>4. InOrder(who)'
  <2> SUFFICES ASSUME NEW i \in 1..Len(pending'), NEW j \in 1..Len(pending'), i < j,
                      box[pending'[i]].id[1] = who, box[pending'[j]].id[1] = who
               PROVE  box[pending'[i]].id[2] < box[pending'[j]].id[2]
    BY <1>1 DEF InOrder
  <2>1. i + 1 \in 1..Len(pending) /\ j + 1 \in 1..Len(pending) /\ i + 1 < j + 1
    BY <1>2
  <2>2. pending'[i] = pending[i + 1] /\ pending'[j] = pending[j + 1]
    BY <1>2
  <2> QED
    BY <2>1, <2>2 DEF InOrder
<1> QED
  BY <1>3, <1>4 DEF m

----------------------------------------------------------------------------
(* The frames of the gate                                                     *)

\* Steps that leave the pending mailboxes alone.
LEMMA GateSame ==
    ASSUME TypeInv, GateFramesSafe, pending' = pending, \A b \in Pending : box'[b] = box[b],
           gateOk' = gateOk, gateDone' = gateDone
    PROVE  GateFramesSafe'
<1>1. Pending' = Pending
  BY DEF Pending
<1>2. Waiting("gate")' = Waiting("gate")
  BY <1>1, WaitingSame
<1>3. \A m \in Pending' : box'[m].id[1] = "gate" => box'[m] = Whole(box'[m].id)
  BY <1>1 DEF GateFramesSafe
<1>4. InOrder("gate")'
  BY OrderSame DEF GateFramesSafe
<1> QED
  BY <1>2, <1>3, <1>4 DEF GateFramesSafe

\* A new request, of the main loop or of the gate for a frame newer than all before.
LEMMA GateMore ==
    ASSUME TypeInv, GateFramesSafe, NEW m \in Boxes \ Pending,
           pending' = Append(pending, m), \A b \in Pending : box'[b] = box[b], gateDone' = gateDone,
           \/ gateOk' = gateOk /\ box'[m].id[1] = "main"
           \/ \E n \in 1..MaxFrames : /\ \A k \in gateOk : k < n
                                      /\ gateOk' = gateOk \cup {n} /\ box'[m] = Whole(FromGate(n))
    PROVE  GateFramesSafe'
<1>1. Pending' = Pending \cup {m}
  BY PendingMore
<1>2. Waiting("gate")' = Waiting("gate") \cup (IF box'[m].id[1] = "gate" THEN {box'[m].id[2]} ELSE {})
  BY <1>1, WaitingMore
<1>3. CASE gateOk' = gateOk /\ box'[m].id[1] = "main"
  <2>1. Waiting("gate")' = Waiting("gate")
    BY <1>2, <1>3
  <2>2. \A b \in Pending' : box'[b].id[1] = "gate" => box'[b] = Whole(box'[b].id)
    BY <1>1, <1>3 DEF GateFramesSafe
  <2>3. InOrder("gate")'
    BY <1>3, OrderMore DEF GateFramesSafe
  <2> QED
    BY <1>3, <2>1, <2>2, <2>3 DEF GateFramesSafe
<1>4. ASSUME NEW n \in 1..MaxFrames, \A k \in gateOk : k < n,
             gateOk' = gateOk \cup {n}, box'[m] = Whole(FromGate(n))
      PROVE  GateFramesSafe'
  <2>1. n \in Nat /\ box'[m].id = FromGate(n) /\ FromGate(n)[1] = "gate" /\ FromGate(n)[2] = n
    <3>1. n \in Nat
      BY BoundsAssumption
    <3>2. Whole(FromGate(n)).id = FromGate(n)
      BY DEF Whole
    <3> QED
      BY <1>4, <3>1, <3>2, WholeLemma
  <2>2. Waiting("gate")' = Waiting("gate") \cup {n}
    BY <1>2, <2>1
  <2>3. n \notin gateOk /\ \A k \in Waiting("gate") : k < n
    BY <1>4, <2>1 DEF GateFramesSafe
  <2>4. gateOk' = gateDone' \cup Waiting("gate")' /\ gateDone' \cap Waiting("gate")' = {}
    BY <1>4, <2>2, <2>3 DEF GateFramesSafe
  <2>5. \A b \in Pending' : box'[b].id[1] = "gate" => box'[b] = Whole(box'[b].id)
    BY <1>1, <1>4, <2>1 DEF GateFramesSafe
  <2>6. InOrder("gate")'
    BY <2>1, <2>3, OrderMore DEF GateFramesSafe
  <2> QED
    BY <2>4, <2>5, <2>6 DEF GateFramesSafe
<1> QED
  BY <1>3, <1>4

\* A frame leaves: the oldest, and no other of its number waits.
LEMMA GateLess == TypeInv /\ GateFramesSafe /\ Transmit => GateFramesSafe'
<1> SUFFICES ASSUME TypeInv, GateFramesSafe, Transmit PROVE GateFramesSafe'
  OBVIOUS
<1> DEFINE m == Head(pending)
<1>1. /\ box' = box /\ gateOk' = gateOk
      /\ gateDone' = IF box[m].id[1] = "gate" THEN gateDone \cup {box[m].id[2]} ELSE gateDone
  BY DEF Transmit
<1>2. Pending' = Pending \ {m} /\ m \in Pending
  BY PendingLess
<1>3. InOrder("gate")' /\ (box[m].id[1] = "gate" => box[m].id[2] \notin Waiting("gate")')
  BY OrderLess DEF GateFramesSafe
<1> HIDE DEF m
<1>4. Waiting("gate") = Waiting("gate")' \cup (IF box[m].id[1] = "gate" THEN {box[m].id[2]} ELSE {})
  BY <1>1, <1>2, WaitingLess
<1>5. gateOk' = gateDone' \cup Waiting("gate")' /\ gateDone' \cap Waiting("gate")' = {}
  BY <1>1, <1>3, <1>4 DEF GateFramesSafe
<1>6. \A b \in Pending' : box'[b].id[1] = "gate" => box'[b] = Whole(box'[b].id)
  BY <1>1, <1>2 DEF GateFramesSafe
<1> QED
  BY <1>3, <1>5, <1>6 DEF GateFramesSafe

LEMMA MainNumber == TypeInv => mainNo \in Nat /\ FromMain(mainNo) \in Name
<1> SUFFICES ASSUME TypeInv PROVE mainNo \in Nat /\ FromMain(mainNo) \in Name
  OBVIOUS
<1>1. mainNo \in Nat
  BY BoundsAssumption DEF TypeInv, TypeOK
<1> QED
  BY <1>1, WholeLemma

\* The steps of CanDrv::send in the main loop and in the interrupt, by what they do
\* to the mailboxes.
LEMMA SendDataBoxes ==
    ASSUME TypeInv, NEW from, NEW to, NEW field \in {"lo", "hi", "id"}, SendData(from, field, to)
    PROVE  /\ \A b \in Pending : box'[b] = box[b]
           /\ mbox \notin Pending => box'[mbox] = [box[mbox] EXCEPT ![field] = FromMain(mainNo)]
<1>1. box' = Written(mbox, field, FromMain(mainNo)) /\ Pending \subseteq Boxes /\ mbox \in Boxes
  BY DEF SendData, TypeInv, TypeOK
<1>2. FromMain(mainNo) \in Name
  BY MainNumber
<1>3. ASSUME NEW b \in Pending PROVE box'[b] = box[b]
  BY <1>1 DEF Written, TypeInv
<1>4. ASSUME mbox \notin Pending PROVE box'[mbox] = [box[mbox] EXCEPT ![field] = FromMain(mainNo)]
  BY <1>1, <1>2, <1>4, WrittenLemma
<1> QED
  BY <1>3, <1>4

LEMMA RequestBoxes ==
    ASSUME TypeInv, SendRequest
    PROVE  /\ \A b \in Pending : box'[b] = box[b]
           /\ mbox \notin Pending => /\ pending' = Append(pending, mbox)
                                     /\ box'[mbox] = [box[mbox] EXCEPT !["id"] = FromMain(mainNo)]
                                     /\ box'[mbox].id = FromMain(mainNo)
           /\ mbox \in Pending => pending' = pending
<1>1. /\ box' = Written(mbox, "id", FromMain(mainNo)) /\ Pending \subseteq Boxes /\ mbox \in Boxes
      /\ pending' = IF mbox \in Pending THEN pending ELSE Append(pending, mbox)
      /\ box[mbox] \in Mailboxes
  BY DEF SendRequest, TypeInv, TypeOK
<1>2. FromMain(mainNo) \in Name
  BY MainNumber
<1>3. ASSUME NEW b \in Pending PROVE box'[b] = box[b]
  BY <1>1 DEF Written, TypeInv
<1>4. ASSUME mbox \notin Pending PROVE box'[mbox] = [box[mbox] EXCEPT !["id"] = FromMain(mainNo)]
  BY <1>1, <1>2, <1>4, WrittenLemma
<1>5. ASSUME mbox \notin Pending PROVE box'[mbox].id = FromMain(mainNo)
  <2>1. box[mbox] \in Mailboxes /\ box'[mbox] = [box[mbox] EXCEPT !["id"] = FromMain(mainNo)]
    BY <1>1, <1>4, <1>5
  <2> QED
    BY ONLY <1>2, <2>1, OtherFields
<1> QED
  BY <1>1, <1>3, <1>4, <1>5

LEMMA IrqBoxes ==
    ASSUME TypeInv, RxIrq
    PROVE  \/ UNCHANGED <<box, pending, gateOk, raced>>
           \/ \E m \in Boxes \ Pending :
                /\ pending' = Append(pending, m) /\ box'[m] = Whole(FromGate(Head(rxFifo)))
                /\ \A b \in Boxes : b # m => box'[b] = box[b]
                /\ gateOk' = gateOk \cup {Head(rxFifo)}
                /\ mpc # "idle" => mainNo \in raced'
                /\ raced \subseteq raced'
<1>1. ASSUME NEW m \in FreeBoxes, box' = [box EXCEPT ![m] = Whole(FromGate(Head(rxFifo)))]
      PROVE  /\ m \in Boxes \ Pending /\ box'[m] = Whole(FromGate(Head(rxFifo)))
             /\ \A b \in Boxes : b # m => box'[b] = box[b]
  BY <1>1 DEF FreeBoxes, TypeInv
<1>2. Forward(Head(rxFifo)) \/ UNCHANGED <<box, pending, gateOk, raced>>
  BY DEF RxIrq
<1>3. ASSUME NEW m \in FreeBoxes, box' = [box EXCEPT ![m] = Whole(FromGate(Head(rxFifo)))],
             pending' = Append(pending, m), gateOk' = gateOk \cup {Head(rxFifo)},
             raced' = IF mpc = "idle" THEN raced ELSE raced \cup {mainNo}
      PROVE  \E x \in Boxes \ Pending :
                /\ pending' = Append(pending, x) /\ box'[x] = Whole(FromGate(Head(rxFifo)))
                /\ \A b \in Boxes : b # x => box'[b] = box[b]
                /\ gateOk' = gateOk \cup {Head(rxFifo)}
                /\ mpc # "idle" => mainNo \in raced'
                /\ raced \subseteq raced'
  BY <1>1, <1>3
<1> QED
  BY <1>2, <1>3 DEF Forward

LEMMA GateStep == TypeInv /\ TypeInv' /\ ArrivalInv /\ GateFramesSafe /\ [Next]_vars => GateFramesSafe'
<1> SUFFICES ASSUME TypeInv, TypeInv', ArrivalInv, GateFramesSafe, [Next]_vars PROVE GateFramesSafe'
  OBVIOUS
<1>1. ASSUME UNCHANGED <<box, pending, gateOk, gateDone>> PROVE GateFramesSafe'
  BY <1>1, GateSame
<1>2. ASSUME Open \/ Close \/ Handshake \/ SwitchGate \/ PacketGet \/ Arrive PROVE GateFramesSafe'
  BY <1>1, <1>2 DEF Open, Close, Handshake, SwitchGate, PacketGet, Arrive, sentVars
<1>3. ASSUME SendCheck \/ SendPick \/ UNCHANGED vars PROVE GateFramesSafe'
  BY <1>1, <1>3 DEF SendCheck, SendPick, sentVars, vars
<1>4. ASSUME SendLow \/ SendHigh PROVE GateFramesSafe'
  <2>1. \A b \in Pending : box'[b] = box[b]
    BY <1>4, SendDataBoxes DEF SendLow, SendHigh
  <2>2. pending' = pending /\ gateOk' = gateOk /\ gateDone' = gateDone
    BY <1>4 DEF SendLow, SendHigh, SendData, sentVars
  <2> QED
    BY <2>1, <2>2, GateSame
<1>5. ASSUME SendRequest PROVE GateFramesSafe'
  <2>1. \A b \in Pending : box'[b] = box[b]
    BY <1>5, RequestBoxes
  <2>2. gateOk' = gateOk /\ gateDone' = gateDone /\ mbox \in Boxes
    BY <1>5 DEF SendRequest, sentVars, TypeInv, TypeOK
  <2>3. CASE mbox \in Pending
    BY <1>5, <2>1, <2>2, <2>3, RequestBoxes, GateSame
  <2>4. CASE mbox \notin Pending
    <3>1. pending' = Append(pending, mbox) /\ box'[mbox].id = FromMain(mainNo)
      BY <1>5, <2>4, RequestBoxes
    <3>2. box'[mbox].id[1] = "main"
      BY <3>1 DEF FromMain
    <3> QED
      BY <2>1, <2>2, <2>4, <3>1, <3>2, GateMore
  <2> QED
    BY <2>3, <2>4
<1>6. ASSUME RxIrq PROVE GateFramesSafe'
  <2> DEFINE n == Head(rxFifo)
  <2>1. gateDone' = gateDone /\ rxFifo # <<>> /\ Pending \subseteq Boxes
    BY <1>6 DEF RxIrq, sentVars, TypeInv, TypeOK
  <2>2. n \in 1..MaxFrames /\ \A k \in gateOk : k < n
    <3>1. rxFifo \in Seq(1..MaxFrames)
      BY DEF TypeInv, TypeOK
    <3>2. n \in 1..MaxFrames /\ n = rxFifo[1] /\ Len(rxFifo) > 0 /\ Len(rxFifo) \in Nat
      BY <2>1, <3>1, Ends, RangeOf
    <3>3. 1 \in 1..Len(rxFifo)
      BY <3>2
    <3> QED
      BY <3>2, <3>3 DEF ArrivalInv
  <2>3. CASE UNCHANGED <<box, pending, gateOk, raced>>
    BY <1>1, <2>1, <2>3
  <2> HIDE DEF n
  <2>4. ASSUME NEW m \in Boxes \ Pending, pending' = Append(pending, m), box'[m] = Whole(FromGate(n)),
               \A b \in Boxes : b # m => box'[b] = box[b], gateOk' = gateOk \cup {n}
        PROVE  GateFramesSafe'
    <3>1. \A b \in Pending : box'[b] = box[b]
      BY <2>1, <2>4
    <3> QED
      BY <2>1, <2>2, <2>4, <3>1, GateMore
  <2> QED
    BY <1>6, <2>3, <2>4, IrqBoxes DEF n
<1>7. ASSUME Transmit PROVE GateFramesSafe'
  BY <1>7, GateLess
<1> QED
  BY <1>2, <1>3, <1>4, <1>5, <1>6, <1>7 DEF Next

----------------------------------------------------------------------------
(* The frames of the main loop: while no gated frame has come in between, the  *)
(* mailbox send has picked is free, and holds what send has written so far.   *)

\* Its frames so far, of which the one that send is busy with is none.
MainNumbers == \A n \in mainDone \cup Waiting("main") : n <= mainNo /\ (mpc # "idle" => n < mainNo)

MainInv ==
    /\ MainFramesSafe /\ MainNumbers
    /\ mainNo \notin raced =>
         /\ mpc = "pick" => FreeBoxes # {}
         /\ mpc \in {"low", "high", "request"} => mbox \notin Pending
         /\ mpc \in {"high", "request"} => box[mbox].lo = FromMain(mainNo)
         /\ mpc = "request" => box[mbox].hi = FromMain(mainNo)

\* Steps at which the main loop is not in send, or a frame overtakes it, keep it safe
\* as long as its frames that wait do.
LEMMA MainSame ==
    ASSUME TypeInv, MainFramesSafe, pending' = pending, \A b \in Pending : box'[b] = box[b],
           raced' = raced, mainOk' = mainOk, mainDone' = mainDone
    PROVE  MainFramesSafe' /\ Waiting("main")' = Waiting("main")
<1>1. Pending' = Pending
  BY DEF Pending
<1>2. Waiting("main")' = Waiting("main")
  BY <1>1, WaitingSame
<1>3. InOrder("main")'
  BY OrderSame DEF MainFramesSafe
<1> QED
  BY <1>1, <1>2, <1>3 DEF MainFramesSafe

LEMMA MainStep == TypeInv /\ TypeInv' /\ MainInv /\ [Next]_vars => MainInv'
<1> SUFFICES ASSUME TypeInv, TypeInv', MainInv, [Next]_vars PROVE MainInv'
  OBVIOUS
<1>t. /\ Pending \subseteq Boxes /\ mbox \in Boxes /\ box \in [Boxes -> Mailboxes]
      /\ mpc \in {"idle", "pick", "low", "high", "request"}
  BY DEF TypeInv, TypeOK
<1>1. ASSUME UNCHANGED <<box, pending, mainVars, raced, mainDone>> PROVE MainInv'
  <2>1. Pending' = Pending /\ FreeBoxes' = FreeBoxes
    BY <1>1 DEF Pending, FreeBoxes
  <2>2. MainFramesSafe' /\ MainNumbers'
    BY <1>1, MainSame DEF MainInv, MainNumbers, mainVars
  <2> QED
    BY <1>1, <2>1, <2>2 DEF MainInv, mainVars
<1>2. ASSUME Open \/ Close \/ Handshake \/ SwitchGate \/ PacketGet \/ Arrive PROVE MainInv'
  BY <1>1, <1>2 DEF Open, Close, Handshake, SwitchGate, PacketGet, Arrive, sentVars
<1>3. ASSUME SendCheck \/ SendPick PROVE MainInv'
  <2>1. /\ UNCHANGED <<box, pending, raced, mainOk, mainDone>>
        /\ mpc' = "idle" \/ (mpc' = "pick" /\ FreeBoxes # {})
           \/ (mpc = "pick" /\ mpc' = "low" /\ mainNo' = mainNo
               /\ (mbox' \in FreeBoxes \/ FreeBoxes = {}))
    BY <1>3 DEF SendCheck, SendPick, sentVars
  <2>2. Pending' = Pending /\ FreeBoxes' = FreeBoxes
    BY <2>1 DEF Pending, FreeBoxes
  <2>3. MainFramesSafe' /\ Waiting("main")' = Waiting("main")
    BY <2>1, MainSame DEF MainInv
  <2>4. MainNumbers'
    <3>1. /\ (mainNo' = mainNo + 1 /\ mpc = "idle") \/ (mainNo' = mainNo /\ mpc # "idle")
          /\ mainDone' = mainDone
      BY <1>3 DEF SendCheck, SendPick, sentVars
    <3>2. mainNo \in Nat /\ mainDone \cup Waiting("main") \subseteq Nat
      <4>1. \A b \in Pending : box[b].id[2] \in Nat
        BY DEF TypeInv, TypeOK, Mailboxes
      <4>2. mainDone \subseteq Nat
        <5>1. mainDone \subseteq 1..MaxSends
          BY DEF TypeInv, TypeOK
        <5> QED
          BY <5>1, BoundsAssumption
      <4> QED
        BY <4>1, <4>2, MainNumber DEF Waiting
    <3> QED
      BY <2>3, <3>1, <3>2 DEF MainInv, MainNumbers
  <2> QED
    BY <2>1, <2>2, <2>3, <2>4 DEF MainInv, FreeBoxes
<1>4. ASSUME NEW from, NEW to, NEW field \in {"lo", "hi", "id"}, SendData(from, field, to),
             \/ from = "low" /\ field = "lo" /\ to = "high"
             \/ from = "high" /\ field = "hi" /\ to = "request"
      PROVE  MainInv'
  <2>1. /\ UNCHANGED <<pending, mbox, mainNo, raced, mainOk, mainDone>> /\ mpc = from /\ mpc' = to
    BY <1>4 DEF SendData, sentVars
  <2>2. Pending' = Pending
    BY <2>1 DEF Pending
  <2>3. MainFramesSafe' /\ MainNumbers'
    BY <1>4, <2>1, SendDataBoxes, MainSame DEF MainInv, MainNumbers
  <2>4. ASSUME mbox \notin Pending
        PROVE  /\ field = "lo" => box'[mbox].lo = FromMain(mainNo)
               /\ field = "hi" => box'[mbox].hi = FromMain(mainNo) /\ box'[mbox].lo = box[mbox].lo
    <3>1. box'[mbox] = [box[mbox] EXCEPT ![field] = FromMain(mainNo)]
      BY <1>4, <2>4, SendDataBoxes
    <3>2. box[mbox] \in Mailboxes /\ FromMain(mainNo) \in Name
      BY <1>t, MainNumber
    <3> QED
      BY ONLY <3>1, <3>2, OtherFields
  <2> QED
    BY <1>4, <2>1, <2>2, <2>3, <2>4 DEF MainInv
<1>5. ASSUME SendRequest PROVE MainInv'
  <2>1. /\ UNCHANGED <<mbox, mainNo, raced, mainDone>> /\ mpc = "request" /\ mpc' = "idle"
        /\ mainOk' = mainOk \cup {mainNo}
    BY <1>5 DEF SendRequest, sentVars
  <2>2. \A b \in Pending : box'[b] = box[b]
    BY <1>5, RequestBoxes
  <2>3. CASE mbox \in Pending
    <3>1. mainNo \in raced /\ Pending' = Pending
      BY <1>5, <2>1, <2>3, RequestBoxes DEF MainInv, Pending
    <3>2. Waiting("main")' = Waiting("main")
      BY <2>2, <3>1, WaitingSame
    <3>3. InOrder("main")'
      BY <1>5, <2>2, <2>3, RequestBoxes, OrderSame DEF MainInv, MainFramesSafe
    <3>4. MainNumbers'
      BY <2>1, <3>2 DEF MainInv, MainNumbers
    <3> QED
      BY <2>1, <2>2, <3>1, <3>2, <3>3, <3>4 DEF MainInv, MainFramesSafe
  <2>4. CASE mbox \notin Pending
    <3>1. /\ pending' = Append(pending, mbox)
          /\ box'[mbox] = [box[mbox] EXCEPT !["id"] = FromMain(mainNo)]
          /\ box'[mbox].id = FromMain(mainNo)
      BY <1>5, <2>4, RequestBoxes
    <3>2. Pending' = Pending \cup {mbox}
      BY <1>t, <2>4, <3>1, PendingMore
    <3>3. FromMain(mainNo)[1] = "main" /\ FromMain(mainNo)[2] = mainNo
      BY MainNumber, WholeLemma
    <3>4. Waiting("main")' = Waiting("main") \cup {mainNo}
      <4>1. Waiting("main")' = Waiting("main") \cup (IF box'[mbox].id[1] = "main" THEN {box'[mbox].id[2]} ELSE {})
        BY <2>2, <3>2, WaitingMore
      <4> QED
        BY <3>1, <3>3, <4>1
    <3>5. mainNo \notin raced => box'[mbox] = Whole(box'[mbox].id)
      <4>1. ASSUME mainNo \notin raced PROVE box[mbox].lo = FromMain(mainNo) /\ box[mbox].hi = FromMain(mainNo)
        BY <2>1, <4>1 DEF MainInv
      <4>2. box[mbox] \in Mailboxes /\ FromMain(mainNo) \in Name
        BY <1>t, MainNumber
      <4>3. box'[mbox].lo = box[mbox].lo /\ box'[mbox].hi = box[mbox].hi /\ box'[mbox] \in Mailboxes
        <5>1. box'[mbox].lo = box[mbox].lo /\ box'[mbox].hi = box[mbox].hi
          BY ONLY <3>1, <4>2, OtherFields
        <5> QED
          BY <1>t, <2>1, <5>1 DEF TypeInv
      <4> QED
        BY <3>1, <4>1, <4>3 DEF Mailboxes, Whole
    <3>6. \A k \in mainDone \cup Waiting("main") : k <= mainNo /\ k < mainNo /\ k # mainNo
      BY <2>1, MainNumber DEF MainInv, MainNumbers
    <3>7. InOrder("main")'
      <4>1. mbox \in Boxes \ Pending /\ InOrder("main") /\ \A k \in Waiting("main") : k < box'[mbox].id[2]
        BY <1>t, <2>4, <3>1, <3>3, <3>6 DEF MainInv, MainFramesSafe
      <4> QED
        BY <2>2, <3>1, <4>1, OrderMore
    <3>8. MainNumbers'
      BY <2>1, <3>4, <3>6, MainNumber DEF MainNumbers
    <3>9. mainDone' \cap Waiting("main")' = {}
      BY <2>1, <3>4, <3>6 DEF MainInv, MainFramesSafe
    <3> QED
      BY <2>1, <2>2, <3>1, <3>2, <3>3, <3>4, <3>5, <3>7, <3>8, <3>9 DEF MainInv, MainFramesSafe
  <2> QED
    BY <2>3, <2>4
<1>6. ASSUME RxIrq PROVE MainInv'
  <2>1. UNCHANGED <<mpc, mbox, mainNo, mainOk, mainDone>>
    BY <1>6 DEF RxIrq, mainVars, sentVars
  <2>2. CASE UNCHANGED <<box, pending, gateOk, raced>>
    BY <1>1, <2>1, <2>2 DEF mainVars
  <2>3. ASSUME NEW m \in Boxes \ Pending, NEW n, pending' = Append(pending, m), box'[m] = Whole(FromGate(n)),
               \A b \in Boxes : b # m => box'[b] = box[b],
               mpc # "idle" => mainNo \in raced', raced \subseteq raced'
        PROVE  MainInv'
    <3>1. Pending' = Pending \cup {m}
      BY <2>3, PendingMore
    <3>2. \A b \in Pending : box'[b] = box[b]
      BY <1>t, <2>3
    <3>3. box'[m].id[1] = "gate"
      BY <2>3 DEF Whole, FromGate
    <3>4. Waiting("main")' = Waiting("main")
      <4>1. Waiting("main")' = Waiting("main") \cup (IF box'[m].id[1] = "main" THEN {box'[m].id[2]} ELSE {})
        BY <3>1, <3>2, WaitingMore
      <4> QED
        BY <3>3, <4>1
    <3>5. InOrder("main")'
      BY <2>3, <3>2, <3>3, OrderMore DEF MainInv, MainFramesSafe
    <3>6. MainFramesSafe' /\ MainNumbers'
      BY <2>1, <2>3, <3>1, <3>2, <3>3, <3>4, <3>5 DEF MainInv, MainFramesSafe, MainNumbers
    <3> QED
      BY <2>1, <2>3, <3>6 DEF MainInv
  <2> QED
    BY <1>6, <2>2, <2>3, IrqBoxes
<1>7. ASSUME Transmit PROVE MainInv'
  <2> DEFINE m == Head(pending)
  <2>1. /\ UNCHANGED <<box, mpc, mbox, mainNo, mainOk, raced>>
        /\ pending # <<>> /\ pending' = Tail(pending)
        /\ mainDone' = IF box[m].id[1] = "main" THEN mainDone \cup {box[m].id[2]} ELSE mainDone
    BY <1>7 DEF Transmit, mainVars
  <2>2. Pending' = Pending \ {m} /\ m \in Pending
    BY <1>7, PendingLess
  <2>o. InOrder("main")' /\ (box[m].id[1] = "main" => box[m].id[2] \notin Waiting("main")')
    BY <1>7, OrderLess DEF MainInv, MainFramesSafe
  <2> HIDE DEF m
  <2>3. Waiting("main") = Waiting("main")' \cup (IF box[m].id[1] = "main" THEN {box[m].id[2]} ELSE {})
    BY <2>1, <2>2, WaitingLess
  <2>4. MainFramesSafe' /\ MainNumbers'
    <3>1. mainDone' \cap Waiting("main")' = {} /\ mainDone' \cup Waiting("main")' = mainDone \cup Waiting("main")
      BY <2>1, <2>3, <2>o DEF MainInv, MainFramesSafe
    <3> QED
      BY <2>1, <2>2, <2>3, <2>o, <3>1 DEF MainInv, MainFramesSafe, MainNumbers
  <2>5. FreeBoxes # {} => FreeBoxes' # {}
    BY <2>2 DEF FreeBoxes
  <2> QED
    BY <2>1, <2>2, <2>4, <2>5 DEF MainInv
<1>8. ASSUME UNCHANGED vars PROVE MainInv'
  BY <1>1, <1>8 DEF vars, sentVars
<1>9. ASSUME SendLow \/ SendHigh PROVE MainInv'
  BY <1>4, <1>9 DEF SendLow, SendHigh
<1> QED
  BY <1>2, <1>3, <1>5, <1>6, <1>7, <1>8, <1>9 DEF Next

----------------------------------------------------------------------------
(* The ring to the host. Going on from getIdx, the unread cells hold frames of *)
(* rising numbers, all newer than what the host has got; a ring that has been *)
(* overrun has forgotten all it held.                                        *)

Cells == 0..(RingSize - 1)

\* How far a cell is from getIdx.
Distance(c) == IF c >= getIdx THEN c - getIdx ELSE c - getIdx + RingSize

RingInv ==
    /\ hostGot <= arrived /\ \A i \in 1..Len(rxFifo) : hostGot < rxFifo[i]
    /\ \A c \in Cells : canPkt[c] <= arrived /\ \A i \in 1..Len(rxFifo) : canPkt[c] < rxFifo[i]
    /\ \A c \in Cells : Distance(c) < Unread => hostGot < canPkt[c]
    /\ \A c, d \in Cells : Distance(c) < Distance(d) /\ Distance(d) < Unread => canPkt[c] < canPkt[d]

LEMMA DistanceOfPut ==
    ASSUME TypeInv
    PROVE  /\ Unread \in Cells /\ Distance(putIdx) = Unread /\ Distance(getIdx) = 0
           /\ \A c \in Cells : Distance(c) \in Cells /\ (Distance(c) = Unread => c = putIdx)
           /\ \A c \in Cells : Distance(c) = 0 => c = getIdx
BY RingSizeAssumption DEF TypeInv, TypeOK, Unread, Avail, Distance, Cells

\* The distances after a Put and after a Get.
LEMMA AfterPut ==
    ASSUME TypeInv, putIdx' = Advance(putIdx, RingSize), getIdx' = getIdx
    PROVE  /\ \A c \in Cells : Distance(c)' = Distance(c)
           /\ Unread' = Unread + 1 \/ Unread' = 0
<1>1. putIdx' = IF putIdx = RingSize - 1 THEN 0 ELSE putIdx + 1
  BY AdvanceLemma DEF TypeInv, TypeOK
<1> QED
  BY <1>1, RingSizeAssumption DEF TypeInv, TypeOK, Unread, Avail, Distance, Cells

LEMMA AfterGet ==
    ASSUME TypeInv, getIdx' = Advance(getIdx, RingSize), putIdx' = putIdx, Unread > 0
    PROVE  /\ \A c \in Cells : Distance(c)' = IF c = getIdx THEN RingSize - 1 ELSE Distance(c) - 1
           /\ Unread' = Unread - 1
<1>1. getIdx' = IF getIdx = RingSize - 1 THEN 0 ELSE getIdx + 1
  BY AdvanceLemma DEF TypeInv, TypeOK
<1> QED
  BY <1>1, RingSizeAssumption DEF TypeInv, TypeOK, Unread, Avail, Distance, Cells

LEMMA RingStep == TypeInv /\ TypeInv' /\ ArrivalInv /\ RingInv /\ [Next]_vars => RingInv'
<1> SUFFICES ASSUME TypeInv, TypeInv', ArrivalInv, RingInv, [Next]_vars PROVE RingInv'
  OBVIOUS
<1>t. /\ rxFifo \in Seq(1..MaxFrames) /\ Len(rxFifo) \in Nat
      /\ \A i \in 1..Len(rxFifo) : rxFifo[i] \in Nat
      /\ arrived \in Nat /\ hostGot \in Nat /\ putIdx \in Cells /\ getIdx \in Cells
      /\ canPkt \in [Cells -> Nat]
  <2>1. /\ rxFifo \in Seq(1..MaxFrames) /\ arrived \in Nat /\ hostGot \in Nat
        /\ canPkt \in [Cells -> Nat] /\ putIdx \in Cells /\ getIdx \in Cells
    BY BoundsAssumption DEF TypeInv, TypeOK, Cells
  <2>2. Len(rxFifo) \in Nat /\ \A i \in 1..Len(rxFifo) : rxFifo[i] \in 1..MaxFrames
    BY <2>1, RangeOf
  <2> QED
    BY <2>1, <2>2, BoundsAssumption
<1>1. ASSUME UNCHANGED <<arrived, ringVars, hostVars>>, rxFifo' = rxFifo \/ rxFifo' = <<>> PROVE RingInv'
  <2>1. \A c \in Cells : Distance(c)' = Distance(c) /\ Unread' = Unread
    BY <1>1 DEF Distance, Unread, ringVars, hostVars
  <2>2. \A i \in 1..Len(rxFifo') : i \in 1..Len(rxFifo) /\ rxFifo'[i] = rxFifo[i]
    <3>1. CASE rxFifo' = <<>>
      <4>1. Len(rxFifo') = 0
        BY <3>1
      <4> QED
        BY <4>1
    <3> QED
      BY <1>1, <3>1
  <2> QED
    BY <1>1, <2>1, <2>2 DEF RingInv, ringVars, hostVars
<1>2. ASSUME Open \/ Close \/ Handshake \/ SwitchGate PROVE RingInv'
  BY <1>1, <1>2 DEF Open, Close, Handshake, SwitchGate
<1>3. ASSUME SendCheck \/ SendPick \/ SendLow \/ SendHigh \/ SendRequest \/ Transmit \/ UNCHANGED vars PROVE RingInv'
  BY <1>1, <1>3 DEF SendCheck, SendPick, SendLow, SendHigh, SendData, SendRequest, Transmit, srcVars, vars
<1>4. ASSUME Arrive PROVE RingInv'
  <2> DEFINE f == IF Len(rxFifo) < FifoDepth THEN rxFifo ELSE Front(rxFifo)
  <2>1. arrived' = arrived + 1 /\ UNCHANGED <<ringVars, hostVars>> /\ rxFifo' = Append(f, arrived + 1)
    BY <1>4 DEF Arrive
  <2>2. f \in Seq(1..MaxFrames) /\ Len(f) \in Nat /\ \A i \in 1..Len(f) : i \in 1..Len(rxFifo) /\ f[i] = rxFifo[i]
    <3>1. CASE Len(rxFifo) < FifoDepth
      BY <1>t, <3>1
    <3>2. CASE ~(Len(rxFifo) < FifoDepth)
      <4>1. rxFifo # <<>>
        BY <3>2, FifoDepthAssumption
      <4>2. /\ f = Front(rxFifo) /\ Len(f) = Len(rxFifo) - 1 /\ f \in Seq(1..MaxFrames) /\ Len(rxFifo) > 0
            /\ \A i \in 1..(Len(rxFifo) - 1) : f[i] = rxFifo[i]
        BY <1>t, <3>2, <4>1, Ends
      <4> QED
        BY <1>t, <4>2
    <3> QED
      BY <3>1, <3>2
  <2> HIDE DEF f
  <2>3. \A i \in 1..Len(rxFifo') : rxFifo'[i] = arrived + 1 \/ (\E j \in 1..Len(rxFifo) : rxFifo'[i] = rxFifo[j])
    <3>1. /\ Len(rxFifo') = Len(f) + 1 /\ rxFifo'[Len(f) + 1] = arrived + 1
          /\ \A i \in 1..Len(f) : rxFifo'[i] = f[i]
      BY <1>t, <2>1, <2>2
    <3> QED
      BY <2>2, <3>1
  <2>4. \A c \in Cells : Distance(c)' = Distance(c) /\ Unread' = Unread
    BY <2>1 DEF Distance, Unread, ringVars, hostVars
  <2>5. hostGot < arrived + 1 /\ \A c \in Cells : canPkt[c] < arrived + 1
    BY <1>t DEF RingInv
  <2>6. hostGot <= arrived + 1 /\ \A c \in Cells : canPkt[c] <= arrived + 1
    BY <1>t, <2>5
  <2> QED
    BY <2>1, <2>3, <2>4, <2>5, <2>6 DEF RingInv, ringVars, hostVars
<1>5. ASSUME PacketGet PROVE RingInv'
  <2>1. /\ UNCHANGED <<arrived, rxFifo, canPkt, putIdx>> /\ Unread > 0
        /\ hostGot' = canPkt[getIdx] /\ getIdx' = Advance(getIdx, RingSize)
    BY <1>5 DEF PacketGet, srcVars
  <2>2. /\ \A c \in Cells : Distance(c)' = IF c = getIdx THEN RingSize - 1 ELSE Distance(c) - 1
        /\ Unread' = Unread - 1
    BY <2>1, AfterGet
  <2>3. Unread \in Cells /\ Distance(getIdx) = 0 /\ \A c \in Cells : Distance(c) \in Cells /\ (Distance(c) = 0 => c = getIdx)
    BY DistanceOfPut
  <2>4. \A c \in Cells : Distance(c)' < Unread' => c # getIdx /\ Distance(c)' = Distance(c) - 1
                                                  /\ Distance(c) < Unread /\ 0 < Distance(c)
    <3> SUFFICES ASSUME NEW c \in Cells, Distance(c)' < Unread'
                 PROVE  /\ c # getIdx /\ Distance(c)' = Distance(c) - 1
                        /\ Distance(c) < Unread /\ 0 < Distance(c)
      OBVIOUS
    <3>1. Distance(c) \in 0..(RingSize - 1) /\ Unread \in 0..(RingSize - 1) /\ RingSize \in Nat
      BY <2>3, RingSizeAssumption DEF Cells
    <3>2. c # getIdx
      BY <2>2, <3>1
    <3>3. Distance(c)' = Distance(c) - 1 /\ Distance(c) # 0
      BY <2>2, <2>3, <3>2
    <3> QED
      BY <2>2, <3>1, <3>2, <3>3
  <2>5. ASSUME NEW c \in Cells, Distance(c)' < Unread' PROVE hostGot' < canPkt'[c]
    BY <1>t, <2>1, <2>3, <2>4, <2>5 DEF RingInv
  <2>6. ASSUME NEW c \in Cells, NEW d \in Cells, Distance(c)' < Distance(d)', Distance(d)' < Unread'
        PROVE  canPkt'[c] < canPkt'[d]
    <3>1. Distance(c)' < Unread'
      BY <2>2, <2>3, <2>6, RingSizeAssumption DEF Cells
    <3>2. Distance(c) < Distance(d) /\ Distance(d) < Unread
      BY <2>3, <2>4, <2>6, <3>1 DEF Cells
    <3> QED
      BY <2>1, <3>2 DEF RingInv
  <2> QED
    BY <1>t, <2>1, <2>5, <2>6 DEF RingInv
<1>6. ASSUME RxIrq PROVE RingInv'
  <2> DEFINE n == Head(rxFifo)
  <2>1. /\ UNCHANGED <<arrived, getIdx, hostGot>> /\ rxFifo # <<>> /\ rxFifo' = Tail(rxFifo)
        /\ \/ UNCHANGED <<canPkt, putIdx>>
           \/ canPkt' = [canPkt EXCEPT ![putIdx] = n] /\ putIdx' = Advance(putIdx, RingSize)
    BY <1>6 DEF RxIrq, srcVars, hostVars, Received
  <2>2. /\ n = rxFifo[1] /\ 1 \in 1..Len(rxFifo)
        /\ \A i \in 1..Len(rxFifo') : i + 1 \in 1..Len(rxFifo) /\ rxFifo'[i] = rxFifo[i + 1] /\ 1 < i + 1
    <3>1. /\ n = rxFifo[1] /\ Len(rxFifo) > 0 /\ Len(rxFifo') = Len(rxFifo) - 1
          /\ \A i \in 1..(Len(rxFifo) - 1) : rxFifo'[i] = rxFifo[i + 1]
      BY <1>t, <2>1, Ends
    <3> HIDE DEF n
    <3> QED
      BY <1>t, <3>1
  <2> HIDE DEF n
  <2>3. /\ n \in Nat /\ n <= arrived /\ hostGot < n /\ \A c \in Cells : canPkt[c] < n
        /\ \A i \in 1..Len(rxFifo') : n < rxFifo'[i] /\ hostGot < rxFifo'[i]
        /\ \A i \in 1..Len(rxFifo'), c \in Cells : canPkt[c] < rxFifo'[i]
    BY <1>t, <2>2 DEF ArrivalInv, RingInv
  <2>4. CASE UNCHANGED <<canPkt, putIdx>>
    <3>1. \A c \in Cells : Distance(c)' = Distance(c) /\ Unread' = Unread
      BY <2>1, <2>4 DEF Distance, Unread
    <3> QED
      BY <2>1, <2>3, <2>4, <3>1 DEF RingInv
  <2>5. CASE canPkt' = [canPkt EXCEPT ![putIdx] = n] /\ putIdx' = Advance(putIdx, RingSize)
    <3>1. \A c \in Cells : canPkt'[c] = IF c = putIdx THEN n ELSE canPkt[c]
      BY <1>t, <2>5
    <3>2. (\A c \in Cells : Distance(c)' = Distance(c)) /\ (Unread' = Unread + 1 \/ Unread' = 0)
      BY <2>1, <2>5, AfterPut
    <3>3. /\ Unread \in Cells /\ Distance(putIdx) = Unread
          /\ \A c \in Cells : Distance(c) \in Cells /\ (Distance(c) = Unread => c = putIdx)
      BY DistanceOfPut
    <3>4. \A c \in Cells : Distance(c)' < Unread' => c = putIdx \/ Distance(c) < Unread
      BY <3>2, <3>3 DEF Cells
    <3>5. \A c \in Cells : Distance(c)' < Unread' => hostGot' < canPkt'[c]
      BY <2>1, <2>3, <3>1, <3>4 DEF RingInv
    <3>6. ASSUME NEW c \in Cells, NEW d \in Cells, Distance(c)' < Distance(d)', Distance(d)' < Unread'
          PROVE  canPkt'[c] < canPkt'[d]
      <4>1. c # putIdx /\ Distance(c) < Distance(d) /\ (d = putIdx \/ Distance(d) < Unread)
        <5>1. Distance(c)' = Distance(c) /\ Distance(d)' = Distance(d)
          BY <3>2
        <5>2. Distance(c) < Distance(d) /\ (d = putIdx \/ Distance(d) < Unread)
          BY <3>4, <3>6, <5>1
        <5>3. Distance(c) \in Nat /\ Distance(d) \in Nat /\ Unread \in Nat
          BY <3>3, RingSizeAssumption DEF Cells
        <5>4. Distance(c) # Unread
          BY <3>3, <5>2, <5>3
        <5> QED
          BY <3>3, <5>2, <5>4
      <4> QED
        BY <2>3, <3>1, <4>1 DEF RingInv
    <3> QED
      BY <2>1, <2>3, <3>1, <3>5, <3>6 DEF RingInv
  <2> QED
    BY <2>1, <2>4, <2>5
<1> QED
  BY <1>2, <1>3, <1>4, <1>5, <1>6 DEF Next

----------------------------------------------------------------------------
(* The theorems                                                               *)

Inv == TypeInv /\ ArrivalInv /\ GateFramesSafe /\ MainInv /\ RingInv

LEMMA InitLemma == Init => Inv
<1> SUFFICES ASSUME Init PROVE Inv
  OBVIOUS
<1>1. /\ Pending = {} /\ Len(pending) = 0 /\ pending \in Seq(Boxes) /\ IsInjective(pending)
  BY DEF Init, Pending, ToSet, IsInjective
<1>2. Len(rxFifo) = 0 /\ rxFifo \in Seq(1..MaxFrames)
  BY DEF Init
<1>3. box \in [Boxes -> Mailboxes] /\ \A m \in Boxes : box[m] \in Mailboxes
  BY WholeLemma DEF Init
<1>4. TypeInv
  <2>1. {on, open, gate} \subseteq BOOLEAN /\ (open => on)
    BY DEF Init
  <2>2. /\ arrived \in 0..MaxFrames /\ hostGot \in 0..MaxFrames /\ delivered \in Nat
        /\ canPkt \in [0..(RingSize - 1) -> 0..MaxFrames]
        /\ putIdx \in 0..(RingSize - 1) /\ getIdx \in 0..(RingSize - 1)
    BY RingSizeAssumption, BoundsAssumption DEF Init
  <2>3. /\ mpc = "idle" /\ mbox \in Boxes /\ mainNo \in 0..MaxSends
        /\ mainOk \cup mainDone \cup raced \subseteq 1..MaxSends
        /\ gateOk \cup gateDone \subseteq 1..MaxFrames
    BY BoundsAssumption DEF Init
  <2> QED
    BY <1>1, <1>2, <1>3, <2>1, <2>2, <2>3, FifoDepthAssumption DEF TypeInv, TypeOK
<1>5. ArrivalInv
  BY <1>2 DEF ArrivalInv, Init
<1>6. GateFramesSafe
  BY <1>1 DEF GateFramesSafe, InOrder, Waiting, Init
<1>7. MainInv
  BY <1>1 DEF MainInv, MainFramesSafe, MainNumbers, InOrder, Waiting, Init
<1>8. RingInv
  <2>1. Unread = 0 /\ arrived = 0 /\ hostGot = 0 /\ \A c \in Cells : canPkt[c] = 0
    BY RingSizeAssumption DEF Init, Unread, Avail, Cells
  <2>2. \A c \in Cells : ~(Distance(c) < Unread)
    BY <1>4, <2>1, DistanceOfPut DEF Cells
  <2> QED
    BY <1>2, <2>1, <2>2 DEF RingInv
<1> QED
  BY <1>4, <1>5, <1>6, <1>7, <1>8 DEF Inv

LEMMA Invariance == Spec => []Inv
<1>1. Inv /\ [Next]_vars => Inv'
  <2> SUFFICES ASSUME Inv, [Next]_vars PROVE Inv'
    OBVIOUS
  <2>1. TypeInv'
    BY TypeStep DEF Inv
  <2>2. ArrivalInv' /\ GateFramesSafe' /\ MainInv' /\ RingInv'
    BY <2>1, ArrivalStep, GateStep, MainStep, RingStep DEF Inv
  <2> QED
    BY <2>1, <2>2 DEF Inv
<1> QED
  BY <1>1, InitLemma, PTL DEF Spec

\* The state stays in its type: no mailbox is requested twice, and what waits in one
\* is a frame that someone has sent.
THEOREM TypeCorrect == Spec => []TypeOK
<1>1. Inv => TypeOK
  BY DEF Inv, TypeInv
<1> QED
  BY <1>1, Invariance, PTL

\* A frame that the gate's send accepts leaves once, whole and in the order of arrival,
\* wherever in its own send it has interrupted the main loop.
THEOREM GateCorrect == Spec => []GateFramesSafe
<1>1. Inv => GateFramesSafe
  BY DEF Inv
<1> QED
  BY <1>1, Invariance, PTL

\* The frames of the main loop leave once each at most and in their order; one that its
\* send accepts is lost or mixed up only if a gated frame was accepted in the middle of
\* that send.
THEOREM MainCorrect == Spec => []MainFramesSafe
<1>1. Inv => MainFramesSafe
  BY DEF Inv, MainInv
<1> QED
  BY <1>1, Invariance, PTL

\* The path from the source bus to the host keeps the promise of an ordered channel,
\* however its FIFO and its ring overrun.
THEOREM ChannelCorrect == Spec => ImplementsOrderedChannel
<1>1. Init => Channel!Init
  BY DEF Init, Channel!Init
<1>2. Inv /\ [Next]_vars => [Channel!Next]_(Channel!vars)
  <2> SUFFICES ASSUME Inv, [Next]_vars PROVE [Channel!Next]_(Channel!vars)
    OBVIOUS
  <2> USE DEF Channel!Next, Channel!vars, Channel!Send, Channel!Deliver
  <2>1. CASE Arrive
    BY <2>1 DEF Arrive, hostVars
  <2>2. CASE PacketGet
    <3>1. /\ arrived' = arrived /\ hostGot' = canPkt[getIdx] /\ Unread > 0
          /\ delivered' = delivered + 1
      BY <2>2 DEF PacketGet, srcVars
    <3>2. getIdx \in Cells /\ Distance(getIdx) < Unread
      BY <3>1, DistanceOfPut DEF Inv, TypeInv, TypeOK, Cells
    <3>3. hostGot < canPkt[getIdx] /\ canPkt[getIdx] <= arrived
      BY <3>2 DEF Inv, RingInv
    <3>4. hostGot \in Nat /\ arrived \in Nat /\ canPkt[getIdx] \in Nat
      BY <3>2, BoundsAssumption DEF Inv, TypeInv, TypeOK, Cells
    <3>5. hostGot' \in (hostGot + 1)..arrived
      BY <3>1, <3>3, <3>4
    <3> QED
      BY <3>1, <3>5
  <2>3. CASE UNCHANGED <<arrived, hostVars>>
    BY <2>3 DEF hostVars
  <2> QED
    BY <2>1, <2>2, <2>3
    DEF Next, Open, Close, Handshake, SwitchGate, SendCheck, SendPick, SendLow, SendHigh, SendData,
        SendRequest, RxIrq, Transmit, srcVars, vars
<1> QED
  BY <1>1, <1>2, Invariance, PTL DEF Spec, ImplementsOrderedChannel, Channel!Spec
=============================================================================
