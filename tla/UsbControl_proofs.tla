------------------------- MODULE UsbControl_proofs -------------------------
(* Proofs about UsbControl, for every packet size, every buffer and requests  *)
(* of any length, any number of them: what passes belongs to the request at   *)
(* hand, and the control pipe keeps its promise to the host.                  *)
EXTENDS UsbControl, TLAPS

ReqType ==
    {r \in [no : Nat, in : BOOLEAN, len : Nat, reply : Nat, ok : BOOLEAN] :
        /\ (r.reply <= r.len \/ r.reply <= EpSize) /\ (r.len = 0 => ~r.in)
        /\ (~(r.in /\ r.ok) => r.reply = 0)}
EntryType == [entry : {"SETUP", "SETUP_COMP", "OUT", "OUT_COMP"}, req : ReqType, from : Nat, n : Nat]
HostType  == [no : Nat, req : ReqType, stage : {"data", "status", "done", "failed"},
              got : Nat, ended : Nat]
States == {"IDLE", "DATA_IN", "LAST_DATA_IN", "STATUS_OUT", "DATA_OUT", "LAST_DATA_OUT", "STATUS_IN"}

TypeInv ==
    /\ host \in HostType /\ host.req.no = host.no
    /\ rx \in Seq(EntryType) /\ req \in ReqType
    /\ in \in [no : Nat, from : Nat, n : Nat]
    /\ inNak \in BOOLEAN /\ outOpen \in BOOLEAN /\ stall \in BOOLEAN /\ xfrc \in BOOLEAN
    /\ state \in States /\ ctrl_len \in Nat
    /\ needs_zlp \in BOOLEAN /\ complete \in BOOLEAN /\ force_nak \in BOOLEAN
    /\ handled \in Nat /\ refused \in Nat /\ completed \in Nat /\ tooLong \in Nat

Smaller(a, b) == IF a <= b THEN a ELSE b

\* The entries of a SETUP of the host's request from the i-th on, and of the packet
\* of its data from byte f on
SetupAt(i) == /\ rx[i].entry = "SETUP" /\ rx[i].req = host.req
              /\ rx[i + 1].entry = "SETUP_COMP"
DataAt(i, f) == /\ rx[i].entry = "OUT" /\ rx[i].req = host.req /\ rx[i].from = f
                /\ rx[i].n = Smaller(EpSize, host.req.len - f)
                /\ rx[i + 1].entry = "OUT_COMP"

\* The host has made its request and moved nothing of it yet, or has sent its first
\* packet before the device has seen the SETUP that is k entries into the FIFO.
Begun(k) ==
    /\ ~stall /\ inNak /\ handled < host.no /\ refused < host.no
    /\ \/ /\ Len(rx) = k /\ host.got = 0
          /\ host.stage = IF host.req.len = 0 THEN "status" ELSE "data"
       \/ /\ Len(rx) = k + 2 /\ DataAt(k + 1, 0) /\ ~outOpen /\ ~xfrc
          /\ host.req.len > 0 /\ ~host.req.in /\ host.got = rx[k + 1].n
          /\ host.stage = IF host.got = host.req.len THEN "status" ELSE "data"

\* The last request of which the device has heard is done for the host, its rest not.
RestDue == complete /\ completed < req.no /\ host.ended = req.no

\* The SETUP waits in the FIFO, perhaps behind the end of the request before, ...
Waiting ==
    \/ /\ Begun(2) /\ SetupAt(1)
       /\ xfrc => state = "STATUS_IN" /\ RestDue /\ ~outOpen
    \/ /\ Begun(3) /\ Len(rx) = 3 /\ rx[1].entry = "OUT_COMP" /\ SetupAt(2) /\ ~outOpen
       /\ xfrc => state = "STATUS_IN" /\ RestDue
    \/ /\ Begun(4) /\ Len(rx) = 4 /\ rx[1].entry = "OUT" /\ rx[2].entry = "OUT_COMP" /\ SetupAt(3)
       /\ ~outOpen /\ ~xfrc /\ state = "STATUS_OUT" /\ RestDue

\* ... the device has read it ...
Seen ==
    /\ Begun(1) /\ rx[1].entry = "SETUP_COMP" /\ req = host.req /\ in.no = 0 /\ ~xfrc

\* ... and sends the data that the host reads, ...
Reading ==
    /\ Len(rx) = 0 /\ ~stall /\ req.in /\ req.ok /\ complete
    /\ handled = host.no /\ refused < host.no
    /\ \/ /\ state = "DATA_IN" /\ ~outOpen /\ host.stage = "data"
          /\ \/ ~xfrc /\ ~inNak /\ in.no = host.no /\ in.from = host.got /\ in.n = EpSize /\ host.got + in.n + ctrl_len = req.reply
             \/ xfrc /\ in.no = 0 /\ host.got + ctrl_len = req.reply
          /\ IF ctrl_len = 0 THEN req.reply < req.len /\ ~needs_zlp
             ELSE /\ ctrl_len % EpSize = req.reply % EpSize
                  /\ needs_zlp <=> NeedsZlp(req.reply, req.len)
       \/ /\ state = "LAST_DATA_IN" /\ ~outOpen
          /\ \/ /\ ~xfrc /\ ~inNak /\ host.stage = "data"
                /\ in.no = host.no /\ in.from = host.got /\ in.n <= EpSize /\ host.got + in.n = req.reply
                /\ in.n < EpSize \/ req.reply >= req.len
             \/ xfrc /\ in.no = 0 /\ host.stage = "status"
       \/ state = "STATUS_OUT" /\ ~xfrc /\ in.no = 0 /\ host.stage = "status"

\* ... or takes what the host writes, up to two packets behind, ...
Writing ==
    /\ ~stall /\ inNak /\ ~xfrc /\ in.no = 0 /\ ~req.in /\ ctrl_len < req.len
    /\ handled < host.no /\ refused < host.no
    /\ state = IF req.len - ctrl_len <= EpSize THEN "LAST_DATA_OUT" ELSE "DATA_OUT"
    /\ host.stage = IF host.got = req.len THEN "status" ELSE "data"
    /\ \/ Len(rx) = 0 /\ host.got = ctrl_len
       \/ Len(rx) = 1 /\ rx[1].entry = "OUT_COMP" /\ host.got = ctrl_len
       \/ Len(rx) = 2 /\ DataAt(1, ctrl_len) /\ host.got = ctrl_len + rx[1].n
       \/ /\ Len(rx) = 3 /\ ~outOpen /\ rx[1].entry = "OUT_COMP" /\ DataAt(2, ctrl_len)
          /\ host.got = ctrl_len + rx[2].n
       \/ /\ Len(rx) = 4 /\ ~outOpen /\ DataAt(1, ctrl_len) /\ DataAt(3, ctrl_len + rx[1].n)
          /\ host.got = ctrl_len + rx[1].n + rx[3].n /\ rx[1].n = EpSize /\ ctrl_len + EpSize < req.len

OnlyEnd == Len(rx) = 0 \/ (Len(rx) = 1 /\ rx[1].entry = "OUT_COMP")

\* ... or waits for the host to ask for its empty status packet, ...
Answering ==
    /\ OnlyEnd /\ ~stall /\ ~inNak /\ ~xfrc /\ ~req.in /\ complete
    /\ state = "STATUS_IN" /\ in.no = host.no /\ in.n = 0 /\ host.stage = "status"
    /\ handled = host.no /\ refused < host.no

\* ... or has refused it, with data perhaps still in the FIFO.
Refused ==
    /\ OnlyEnd \/ (Len(rx) = 2 /\ rx[1].entry = "OUT" /\ rx[2].entry = "OUT_COMP")
    /\ ~xfrc /\ in.no = 0 /\ state = "IDLE" /\ handled < host.no /\ refused = host.no
    /\ ~host.req.ok \/ tooLong = host.no
Stalled == Refused /\ stall /\ host.stage \in {"data", "status"}

Finished ==
    /\ host.stage = "done" /\ host.ended = host.no
    /\ \/ OnlyEnd /\ xfrc /\ state = "STATUS_IN" /\ RestDue
       \/ OnlyEnd /\ ~xfrc /\ state = "IDLE"
       \/ /\ Len(rx) = 2 /\ rx[1].entry = "OUT" /\ rx[2].entry = "OUT_COMP"
          /\ ~xfrc /\ state = "STATUS_OUT" /\ RestDue

GivenUp == host.stage = "failed" /\ ~xfrc /\ (Refused \/ Len(rx) = 0)

Taken == req = host.req /\ (Reading \/ Writing \/ Answering \/ Stalled \/ Finished \/ GivenUp)

Counts ==
    /\ handled <= host.no /\ refused <= host.no
    /\ completed <= host.ended /\ host.ended <= host.no
    /\ host.ended = host.no => host.stage = "done"

Inv == TypeInv /\ Counts /\ (Waiting \/ Seen \/ Taken)

----------------------------------------------------------------------------
(* Numbers and sequences                                                      *)

LEMMA Sizes == EpSize \in Nat /\ EpSize > 0 /\ BufLen \in Nat /\ MaxLen \in Nat /\ MaxRequests \in Nat
BY SizeAssumption

LEMMA MinLemma ==
    ASSUME NEW a \in Int, NEW b \in Int
    PROVE  Min({a, b}) = Smaller(a, b) /\ Min({a, b}) \in Int
<1>1. Smaller(a, b) \in {a, b} /\ \A y \in {a, b} : Smaller(a, b) <= y
  BY DEF Smaller
<1>2. ASSUME NEW x \in {a, b}, \A y \in {a, b} : x <= y PROVE x = Smaller(a, b)
  BY <1>2 DEF Smaller
<1>3. Min({a, b}) \in {a, b} /\ \A y \in {a, b} : Min({a, b}) <= y
  BY <1>1 DEF Min
<1> QED BY <1>2, <1>3

LEMMA QuotientLemma ==
    ASSUME NEW q \in Int, NEW r \in 0..(EpSize - 1)
    PROVE  (q * EpSize + r) % EpSize = r
BY Sizes

\* One packet less leaves the remainder, and of the rests that fit into one packet
\* only a whole one and none leave nothing.
LEMMA RemainderLemma ==
    ASSUME NEW x \in Nat
    PROVE  /\ x >= EpSize => (x - EpSize) % EpSize = x % EpSize
           /\ x \in 1..EpSize => (x % EpSize = 0 <=> x = EpSize)
           /\ 0 % EpSize = 0
<1> DEFINE q == x \div EpSize
           r == x % EpSize
<1>1. q \in Int /\ r \in 0..(EpSize - 1)
  BY Sizes
<1>2. x = q * EpSize + r
  BY Sizes, Z3T(20)
<1>3. ASSUME x >= EpSize PROVE (x - EpSize) % EpSize = r
  <2>1. q - 1 \in Int /\ x - EpSize = (q - 1) * EpSize + r
    <3> HIDE DEF q, r
    <3>1. (q - 1) * EpSize = q * EpSize - EpSize
      BY Sizes, <1>1
    <3> QED BY <1>1, <1>2, <3>1, Sizes
  <2> HIDE DEF q, r
  <2> QED BY <1>1, <2>1, QuotientLemma
<1>4. ASSUME x \in 1..EpSize PROVE x % EpSize = 0 <=> x = EpSize
  BY <1>4, Sizes
<1>5. 0 % EpSize = 0
  BY Sizes
<1> QED BY <1>3, <1>4, <1>5

LEMMA TailLemma ==
    ASSUME NEW S, NEW s \in Seq(S), s # <<>>
    PROVE  /\ Head(s) = s[1] /\ s[1] \in S /\ Tail(s) \in Seq(S) /\ Len(s) \in Nat
           /\ Len(s) >= 1 /\ Len(Tail(s)) = Len(s) - 1
           /\ \A i \in 1..(Len(s) - 1) : Tail(s)[i] = s[i + 1]
OBVIOUS

LEMMA PairLemma ==
    ASSUME NEW S, NEW s \in Seq(S), NEW a \in S, NEW b \in S
    PROVE  /\ s \o <<a, b>> \in Seq(S) /\ Len(s) \in Nat /\ Len(s \o <<a, b>>) = Len(s) + 2
           /\ \A i \in 1..Len(s) : (s \o <<a, b>>)[i] = s[i]
           /\ (s \o <<a, b>>)[Len(s) + 1] = a /\ (s \o <<a, b>>)[Len(s) + 2] = b
OBVIOUS

LEMMA EmptyLemma == ASSUME NEW S, NEW s \in Seq(S) PROVE Len(s) \in Nat /\ (s = <<>> <=> Len(s) = 0)
OBVIOUS

----------------------------------------------------------------------------
(* The host's steps                                                           *)

LEMMA SetupStep == ASSUME Inv, HostSetup PROVE Inv'
<1>1. /\ host.stage = "done" \/ (rx = <<>> /\ ~xfrc)
      /\ inNak' = TRUE /\ outOpen' = FALSE /\ stall' = FALSE
      /\ UNCHANGED <<in, xfrc, state, req, ctrl_len, needs_zlp, complete, force_nak>>
      /\ UNCHANGED <<handled, refused, completed, tooLong>> /\ times' = 0 /\ reports' = 0
  BY DEF HostSetup, Settled, ctrlVars
<1>2. PICK r \in Requests :
        LET q == [no |-> host.no + 1, in |-> r.in, len |-> r.len, reply |-> r.reply, ok |-> r.ok]
        IN  /\ host' = [host EXCEPT !.no = q.no, !.req = q, !.got = 0,
                                    !.stage = IF r.len = 0 THEN "status" ELSE "data"]
            /\ rx' = rx \o <<Entry("SETUP", q, 0, 8), Entry("SETUP_COMP", q, 0, 0)>>
  BY DEF HostSetup
<1> DEFINE q == [no |-> host.no + 1, in |-> r.in, len |-> r.len, reply |-> r.reply, ok |-> r.ok]
           a == Entry("SETUP", q, 0, 8)
           b == Entry("SETUP_COMP", q, 0, 0)
<1>t. /\ host \in HostType /\ host.no \in Nat /\ host.ended \in Nat /\ rx \in Seq(EntryType)
      /\ handled \in Nat /\ refused \in Nat /\ completed \in Nat
  BY DEF Inv, TypeInv, HostType
<1>3. q \in ReqType /\ q.no = host.no + 1 /\ q.len = r.len
  <2>1. /\ r.in \in BOOLEAN /\ r.ok \in BOOLEAN /\ r.len \in Nat /\ r.reply \in Nat
        /\ (r.reply <= r.len \/ r.reply <= EpSize) /\ (r.len = 0 => ~r.in) /\ (~(r.in /\ r.ok) => r.reply = 0)
    BY Sizes DEF Requests
  <2>2. q \in [no : Nat, in : BOOLEAN, len : Nat, reply : Nat, ok : BOOLEAN]
    BY <1>t, <2>1
  <2>3. q.reply = r.reply /\ q.len = r.len /\ q.in = r.in /\ q.ok = r.ok /\ q.no = host.no + 1
    OBVIOUS
  <2> HIDE DEF q
  <2>4. (q.reply <= q.len \/ q.reply <= EpSize) /\ (q.len = 0 => ~q.in) /\ (~(q.in /\ q.ok) => q.reply = 0)
    BY <2>1, <2>3, Zenon
  <2> QED BY <2>2, <2>3, <2>4 DEF ReqType
<1>4. a \in EntryType /\ b \in EntryType /\ a.entry = "SETUP" /\ a.req = q /\ b.entry = "SETUP_COMP"
  <2> HIDE DEF q
  <2> QED BY <1>3 DEF Entry, EntryType
<1>5. host' = [host EXCEPT !.no = q.no, !.req = q, !.got = 0,
                           !.stage = IF r.len = 0 THEN "status" ELSE "data"]
      /\ rx' = rx \o <<a, b>>
  BY <1>2
<1> HIDE DEF q, a, b
<1>6. /\ host'.no = host.no + 1 /\ host'.req = q /\ host'.got = 0 /\ host'.ended = host.ended
      /\ host'.stage = IF q.len = 0 THEN "status" ELSE "data"
      /\ host' \in HostType
  <2> DEFINE st == IF r.len = 0 THEN "status" ELSE "data"
  <2>1. st \in {"data", "status", "done", "failed"} /\ st = IF q.len = 0 THEN "status" ELSE "data"
    BY <1>3
  <2>2. host' = [host EXCEPT !.no = q.no, !.req = q, !.got = 0, !.stage = st]
    BY <1>5
  <2>3. q.no \in Nat
    BY <1>3, <1>t
  <2> HIDE DEF st
  <2> QED BY <1>t, <1>3, <2>1, <2>2, <2>3 DEF HostType
<1>7. /\ rx' \in Seq(EntryType) /\ Len(rx) \in Nat /\ Len(rx') = Len(rx) + 2
      /\ \A i \in 1..Len(rx) : rx'[i] = rx[i]
      /\ rx'[Len(rx) + 1] = a /\ rx'[Len(rx) + 2] = b
  BY <1>t, <1>4, <1>5, PairLemma
<1>8. TypeInv'
  BY <1>1, <1>3, <1>6, <1>7 DEF Inv, TypeInv
<1>9. Counts'
  BY <1>1, <1>6, <1>t DEF Inv, Counts
<1>10. handled' < host'.no /\ refused' < host'.no
  BY <1>1, <1>6, <1>t DEF Inv, Counts
<1>11. \/ Len(rx) = 0 /\ ~xfrc
       \/ Taken /\ Finished
  <2>1. CASE host.stage # "done"
    BY <1>1, <1>t, <2>1, EmptyLemma
  <2>2. CASE host.stage = "done"
    BY <2>2 DEF Inv, Waiting, Seen, Taken, Begun, Reading, Writing, Answering, Stalled, GivenUp, Finished
  <2> QED BY <2>1, <2>2
<1>12. Waiting'
  <2>1. CASE Len(rx) = 0 /\ (xfrc => state = "STATUS_IN" /\ RestDue)
    <3>1. Begun(2)'
      BY <1>1, <1>6, <1>7, <1>10, <2>1 DEF Begun
    <3>2. SetupAt(1)'
      BY <1>4, <1>6, <1>7, <2>1 DEF SetupAt
    <3> QED BY <1>1, <1>6, <2>1, <3>1, <3>2 DEF Waiting, RestDue
  <2>2. CASE Len(rx) = 1 /\ rx[1].entry = "OUT_COMP" /\ (xfrc => state = "STATUS_IN" /\ RestDue)
    <3>1. Begun(3)' /\ Len(rx') = 3
      BY <1>1, <1>6, <1>7, <1>10, <2>2 DEF Begun
    <3>2. SetupAt(2)' /\ rx'[1].entry = "OUT_COMP"
      BY <1>4, <1>6, <1>7, <2>2 DEF SetupAt
    <3> QED BY <1>1, <1>6, <2>2, <3>1, <3>2 DEF Waiting, RestDue
  <2>3. CASE /\ Len(rx) = 2 /\ rx[1].entry = "OUT" /\ rx[2].entry = "OUT_COMP"
             /\ ~xfrc /\ state = "STATUS_OUT" /\ RestDue
    <3>1. Begun(4)' /\ Len(rx') = 4
      BY <1>1, <1>6, <1>7, <1>10, <2>3 DEF Begun
    <3>2. SetupAt(3)' /\ rx'[1].entry = "OUT" /\ rx'[2].entry = "OUT_COMP"
      BY <1>4, <1>6, <1>7, <2>3 DEF SetupAt
    <3> QED BY <1>1, <1>6, <2>3, <3>1, <3>2 DEF Waiting, RestDue
  <2> QED BY <1>11, <2>1, <2>2, <2>3 DEF Finished, OnlyEnd
<1> QED BY <1>8, <1>9, <1>12 DEF Inv

\* What the types say about numbers
LEMMA Numbers ==
    ASSUME TypeInv
    PROVE  /\ host.no \in Nat /\ host.got \in Nat /\ host.ended \in Nat /\ host.req \in ReqType
           /\ host.req.len \in Nat /\ host.req.reply \in Nat
           /\ host.req.no = host.no /\ host.stage \in {"data", "status", "done", "failed"}
           /\ req.no \in Nat /\ req.len \in Nat /\ req.reply \in Nat
           /\ (req.reply <= req.len \/ req.reply <= EpSize)
           /\ in.no \in Nat /\ in.from \in Nat /\ in.n \in Nat /\ ctrl_len \in Nat
           /\ handled \in Nat /\ refused \in Nat /\ completed \in Nat /\ tooLong \in Nat
           /\ rx \in Seq(EntryType) /\ Len(rx) \in Nat
<1>1. ASSUME NEW r \in ReqType PROVE  /\ r.no \in Nat /\ r.len \in Nat /\ r.reply \in Nat
                                    /\ (r.reply <= r.len \/ r.reply <= EpSize)
  BY DEF ReqType
<1> QED BY <1>1, EmptyLemma DEF TypeInv, HostType

\* What the phases tell apart
LEMMA ActiveLemma ==
    ASSUME Inv, host.stage \in {"data", "status"}
    PROVE  /\ host.ended < host.no
           /\ ~inNak /\ ~stall => /\ req = host.req /\ (Reading \/ Answering)
           /\ host.stage = "data" => ~Answering
<1>1. host.ended < host.no
  <2>1. host.ended <= host.no /\ host.ended # host.no
    BY DEF Inv, Counts
  <2>2. host.ended \in Nat /\ host.no \in Nat
    BY Numbers DEF Inv
  <2> QED BY <2>1, <2>2
<1>2. ASSUME ~inNak, ~stall PROVE req = host.req /\ (Reading \/ Answering)
  BY <1>2 DEF Inv, Waiting, Seen, Begun, Taken, Writing, Stalled, Finished, GivenUp
<1>3. host.stage = "data" => ~Answering
  BY DEF Answering
<1> QED BY <1>1, <1>2, <1>3

LEMMA InStep == ASSUME Inv, HostIn PROVE Inv'
<1>1. /\ in.no # 0 /\ ~inNak /\ ~stall /\ in' = NoPacket /\ xfrc' = TRUE
      /\ UNCHANGED <<rx, inNak, outOpen, stall, state, req, ctrl_len, needs_zlp, complete, force_nak>>
      /\ UNCHANGED <<handled, refused, completed, tooLong, times, reports>>
  BY DEF HostIn, ctrlVars, history, dispatched, reported
<1>n. TypeInv /\ Counts /\ host \in HostType
  BY DEF Inv, TypeInv
<1>2. /\ in' \in [no : Nat, from : Nat, n : Nat] /\ in'.no = 0
  BY <1>1 DEF NoPacket
<1>3. CASE host.stage = "data" /\ host.req.in /\ host.got + in.n <= host.req.len
  <2> DEFINE st == IF in.n < EpSize \/ host.got + in.n >= host.req.len THEN "status" ELSE host.stage
  <2>1. host' = [host EXCEPT !.got = @ + in.n, !.stage = st]
    BY <1>3 DEF HostIn
  <2>2. st \in {"data", "status"} /\ host.got + in.n \in Nat
    <3>1. host.got \in Nat /\ in.n \in Nat
      BY <1>n, Numbers
    <3>2. st \in {"data", "status"}
      BY <1>3, Zenon
    <3> QED BY <3>1, <3>2
  <2>3. /\ host' \in HostType /\ host'.no = host.no /\ host'.req = host.req /\ host'.ended = host.ended
        /\ host'.got = host.got + in.n /\ host'.stage = st
    <3> HIDE DEF st
    <3> QED BY <1>n, <2>1, <2>2 DEF HostType
  <2>4. TypeInv'
    BY <1>1, <1>2, <1>n, <2>3 DEF TypeInv
  <2>5. Counts'
    BY <1>1, <1>3, <1>n, <2>3, ActiveLemma, Numbers DEF Counts
  <2>6. req = host.req /\ Reading
    BY <1>1, <1>3, ActiveLemma
  <2>7. CASE state = "DATA_IN"
    <3>1. /\ ~xfrc /\ in.n = EpSize /\ host.got + in.n + ctrl_len = req.reply
          /\ ctrl_len = 0 => req.reply < req.len
      BY <1>1, <2>6, <2>7 DEF Reading
    <3>2. host.got + in.n < host.req.len
      <4>1. /\ host.got \in Nat /\ in.n \in Nat /\ ctrl_len \in Nat
            /\ req.len \in Nat /\ req.reply \in Nat /\ EpSize \in Nat /\ EpSize > 0
            /\ (req.reply <= req.len \/ req.reply <= EpSize)
        BY <1>n, Numbers, Sizes
      <4>2. host.req.len = req.len
        BY <2>6
      <4> QED BY <3>1, <4>1, <4>2
    <3>3. st = "data"
      <4>1. /\ host.got \in Nat /\ in.n \in Nat /\ host.req.len \in Nat /\ EpSize \in Nat
        BY <1>n, Numbers, Sizes
      <4>2. ~(in.n < EpSize) /\ ~(host.got + in.n >= host.req.len)
        BY <3>1, <3>2, <4>1
      <4> QED BY <1>3, <4>2, Zenon
    <3> QED BY <1>1, <1>2, <2>3, <2>4, <2>5, <2>6, <2>7, <3>1, <3>3 DEF Inv, Taken, Reading
  <2>8. CASE state # "DATA_IN"
    <3>1. /\ state = "LAST_DATA_IN" /\ ~outOpen
          /\ host.got + in.n = req.reply /\ (in.n < EpSize \/ req.reply >= req.len)
      BY <1>1, <1>3, <2>6, <2>8 DEF Reading
    <3>2. st = "status"
      BY <1>n, <2>6, <3>1, Numbers, Sizes
    <3> QED BY <1>1, <1>2, <2>3, <2>4, <2>5, <2>6, <3>1, <3>2 DEF Inv, Taken, Reading
  <2> QED BY <2>7, <2>8
<1>4. CASE host.stage = "status" /\ ~host.req.in
  <2>1. host' = Done
    BY <1>3, <1>4 DEF HostIn
  <2>2. /\ host' \in HostType /\ host'.no = host.no /\ host'.req = host.req /\ host'.ended = host.no
        /\ host'.got = host.got /\ host'.stage = "done"
    BY <1>n, <2>1, Numbers DEF HostType, Done
  <2>3. TypeInv'
    BY <1>1, <1>2, <1>n, <2>2 DEF TypeInv
  <2>4. Counts'
    <3>1. /\ host'.no = host.no /\ host'.ended = host.no /\ host'.stage = "done"
          /\ UNCHANGED <<handled, refused, completed>>
      BY <1>1, <2>2
    <3>2. /\ handled <= host.no /\ refused <= host.no /\ completed <= host.ended /\ host.ended <= host.no
          /\ host.no \in Nat /\ host.ended \in Nat /\ completed \in Nat
      BY <1>n, Numbers DEF Counts
    <3> QED BY <3>1, <3>2 DEF Counts
  <2>5. req = host.req /\ Answering
    BY <1>1, <1>4, ActiveLemma DEF Reading
  <2>6. completed < host.no /\ req.no = host.no
    BY <1>4, <1>n, <2>5, ActiveLemma, Numbers DEF Counts
  <2>7. Finished'
    BY <1>1, <2>2, <2>5, <2>6 DEF Finished, Answering, OnlyEnd, RestDue
  <2> QED BY <1>1, <2>2, <2>3, <2>4, <2>5, <2>7 DEF Inv, Taken
<1> QED BY <1>3, <1>4 DEF HostIn

\* A host that gives up, when the device owes it nothing
LEMMA FailLemma ==
    ASSUME Inv, host.stage \in {"data", "status"}, host' = [host EXCEPT !.stage = "failed"],
           UNCHANGED <<rx, in, inNak, outOpen, stall, xfrc, state, req, ctrl_len, needs_zlp, complete, force_nak>>,
           UNCHANGED <<handled, refused, completed, tooLong>>
    PROVE  /\ TypeInv' /\ Counts' /\ host'.stage = "failed"
           /\ host'.no = host.no /\ host'.req = host.req /\ host'.ended = host.ended
<1>1. TypeInv /\ Counts /\ host \in HostType
  BY DEF Inv, TypeInv
<1>2. /\ host' \in HostType /\ host'.no = host.no /\ host'.req = host.req /\ host'.ended = host.ended
      /\ host'.got = host.got /\ host'.stage = "failed"
  BY <1>1 DEF HostType
<1>3. TypeInv'
  BY <1>1, <1>2 DEF TypeInv
<1>4. Counts'
  BY <1>1, <1>2 DEF Counts
<1> QED BY <1>2, <1>3, <1>4

LEMMA OverrunStep == ASSUME Inv, HostOverrun PROVE Inv'
<1>1. /\ in.no # 0 /\ ~inNak /\ ~stall /\ host.stage = "data"
      /\ host' = [host EXCEPT !.stage = "failed"]
      /\ UNCHANGED <<rx, in, inNak, outOpen, stall, xfrc, state, req, ctrl_len, needs_zlp, complete, force_nak>>
      /\ UNCHANGED <<handled, refused, completed, tooLong>>
  BY DEF HostOverrun, hwVars, ctrlVars, history, dispatched, reported
<1>2. TypeInv' /\ Counts' /\ host'.stage = "failed" /\ host'.req = host.req
  BY <1>1, FailLemma
<1>3. req = host.req /\ Reading
  BY <1>1, ActiveLemma
<1>4. Len(rx) = 0 /\ ~xfrc
  BY <1>1, <1>3 DEF Reading
<1>5. GivenUp'
  BY <1>1, <1>2, <1>4 DEF GivenUp
<1> QED BY <1>1, <1>2, <1>3, <1>5 DEF Inv, Taken

LEMMA LenLemma == ASSUME Inv PROVE host.req.len # 0 => host.req.len > 0
<1>1. host.req.len \in Nat
  BY Numbers, Zenon DEF Inv
<1> QED BY <1>1

\* Who hears an OUT packet
LEMMA OpenLemma ==
    ASSUME Inv, outOpen, ~stall, host.stage \in {"data", "status"}
    PROVE  /\ host.stage = "data" /\ ~host.req.in =>
                 \/ /\ Len(rx) = 2 /\ SetupAt(1) /\ inNak /\ handled < host.no /\ refused < host.no
                    /\ ~xfrc /\ host.got = 0 /\ host.req.len > 0
                 \/ /\ Len(rx) = 1 /\ Seen /\ inNak /\ handled < host.no /\ refused < host.no
                    /\ host.got = 0 /\ host.req.len > 0
                 \/ req = host.req /\ Writing
           /\ host.stage = "status" /\ host.req.in => req = host.req /\ Reading /\ state = "STATUS_OUT"
<1>1. ASSUME host.stage = "data", ~host.req.in, Waiting
      PROVE  /\ Len(rx) = 2 /\ SetupAt(1) /\ inNak /\ handled < host.no /\ refused < host.no
             /\ ~xfrc /\ host.got = 0 /\ host.req.len > 0
  <2>1. Begun(2) /\ SetupAt(1) /\ ~xfrc
    BY <1>1 DEF Waiting
  <2>2. host.req.len # 0 => host.req.len > 0
    BY LenLemma
  <2> QED BY <1>1, <2>1, <2>2 DEF Begun
<1>2. ASSUME host.stage = "data", ~host.req.in, Seen
      PROVE  /\ Len(rx) = 1 /\ inNak /\ handled < host.no /\ refused < host.no
             /\ host.got = 0 /\ host.req.len > 0
  <2>1. host.req.len # 0 => host.req.len > 0
    BY LenLemma
  <2> QED BY <1>2, <2>1 DEF Seen, Begun
<1>3. ASSUME host.req.in, Waiting \/ Seen PROVE host.stage = "data"
  <2>1. host.req.len # 0
    BY <1>3 DEF Inv, TypeInv, HostType, ReqType
  <2> QED BY <1>3, <2>1 DEF Waiting, Seen, Begun
<1>4. ASSUME Taken, host.stage = "data", ~host.req.in PROVE req = host.req /\ Writing
  BY <1>4 DEF Taken, Reading, Answering, Stalled, Finished, GivenUp
<1>5. ASSUME Taken, host.stage = "status", host.req.in PROVE req = host.req /\ Reading /\ state = "STATUS_OUT"
  <2>1. req = host.req /\ Reading
    BY <1>5 DEF Taken, Writing, Answering, Stalled, Finished, GivenUp
  <2> QED BY <1>5, <2>1 DEF Reading
<1> QED BY <1>1, <1>2, <1>3, <1>4, <1>5 DEF Inv

LEMMA OutStep == ASSUME Inv, HostOut PROVE Inv'
<1>1. /\ outOpen /\ ~stall /\ outOpen' = FALSE
      /\ UNCHANGED <<in, inNak, stall, xfrc, state, req, ctrl_len, needs_zlp, complete, force_nak>>
      /\ UNCHANGED <<handled, refused, completed, tooLong, times, reports>>
  BY DEF HostOut, ctrlVars, history, dispatched, reported
<1>n. TypeInv /\ Counts /\ host \in HostType
  BY DEF Inv, TypeInv
<1>t. /\ host.got \in Nat /\ host.req.len \in Nat /\ EpSize \in Nat /\ EpSize > 0 /\ ctrl_len \in Nat
      /\ rx \in Seq(EntryType) /\ Len(rx) \in Nat /\ host.req \in ReqType
  BY <1>n, Numbers, Sizes
<1>2. PICK n \in 0..EpSize :
           /\ \/ /\ host.stage = "data" /\ ~host.req.in
                 /\ n = Min({EpSize, host.req.len - host.got})
                 /\ host' = [host EXCEPT !.got = @ + n,
                                         !.stage = IF host.got + n = host.req.len THEN "status" ELSE @]
              \/ host.stage = "status" /\ host.req.in /\ n = 0 /\ host' = Done
           /\ rx' = rx \o <<Entry("OUT", host.req, host.got, n), Entry("OUT_COMP", host.req, 0, 0)>>
  BY DEF HostOut
<1> DEFINE a == Entry("OUT", host.req, host.got, n)
           b == Entry("OUT_COMP", host.req, 0, 0)
<1>3. /\ a \in EntryType /\ a.entry = "OUT" /\ a.req = host.req /\ a.from = host.got /\ a.n = n
      /\ b \in EntryType /\ b.entry = "OUT_COMP"
  BY <1>t DEF Entry, EntryType
<1>4. rx' = rx \o <<a, b>>
  BY <1>2
<1> HIDE DEF a, b
<1>5. /\ rx' \in Seq(EntryType) /\ Len(rx') = Len(rx) + 2
      /\ \A i \in 1..Len(rx) : rx'[i] = rx[i]
      /\ rx'[Len(rx) + 1] = a /\ rx'[Len(rx) + 2] = b
  BY <1>t, <1>3, <1>4, PairLemma
<1>6. CASE host.stage = "data" /\ ~host.req.in
  <2> DEFINE st == IF host.got + n = host.req.len THEN "status" ELSE host.stage
  <2>1. host' = [host EXCEPT !.got = @ + n, !.stage = st]
    BY <1>2, <1>6
  <2>2. n = Smaller(EpSize, host.req.len - host.got) /\ n \in Nat /\ n <= EpSize
    <3>1. host.req.len - host.got \in Int /\ EpSize \in Int
      BY <1>t
    <3>2. Min({EpSize, host.req.len - host.got}) = Smaller(EpSize, host.req.len - host.got)
      BY <3>1, MinLemma
    <3>3. n = Min({EpSize, host.req.len - host.got})
      BY <1>2, <1>6
    <3> QED BY <3>2, <3>3, Sizes
  <2>3. st = (IF host.got + n = host.req.len THEN "status" ELSE "data") /\ host.got + n \in Nat
    BY <1>6, <1>t, <2>2
  <2>4. /\ host' \in HostType /\ host'.no = host.no /\ host'.req = host.req /\ host'.ended = host.ended
        /\ host'.got = host.got + n /\ host'.stage = st
    <3>1. st \in {"data", "status", "done", "failed"}
      BY <2>3
    <3> HIDE DEF st
    <3> QED BY <1>n, <2>1, <2>3, <3>1 DEF HostType
  <2> HIDE DEF st
  <2>5. TypeInv'
    BY <1>1, <1>5, <1>n, <2>4 DEF TypeInv
  <2>6. Counts'
    BY <1>1, <1>6, <1>n, <2>4 DEF Counts
  <2>7. CASE Len(rx) = 2 /\ SetupAt(1) /\ inNak /\ handled < host.no /\ refused < host.no
             /\ ~xfrc /\ host.got = 0 /\ host.req.len > 0
    <3>1. DataAt(3, 0)' /\ SetupAt(1)' /\ Len(rx') = 4 /\ rx'[3].n = n
      BY <1>3, <1>5, <2>2, <2>4, <2>7 DEF DataAt, SetupAt
    <3>2. host'.got = n
      BY <2>2, <2>4, <2>7
    <3>3. Begun(2)'
      BY <1>1, <1>6, <2>3, <2>4, <2>7, <3>1, <3>2 DEF Begun
    <3> QED BY <1>1, <2>5, <2>6, <2>7, <3>1, <3>3 DEF Inv, Waiting
  <2>8. CASE Len(rx) = 1 /\ Seen /\ inNak /\ handled < host.no /\ refused < host.no
             /\ host.got = 0 /\ host.req.len > 0
    <3>1. DataAt(2, 0)' /\ Len(rx') = 3 /\ rx'[2].n = n /\ rx'[1] = rx[1]
      BY <1>3, <1>5, <2>2, <2>4, <2>8 DEF DataAt
    <3>2. host'.got = n
      BY <2>2, <2>4, <2>8
    <3>3. Begun(1)'
      BY <1>1, <1>6, <2>3, <2>4, <2>8, <3>1, <3>2 DEF Begun, Seen
    <3> QED BY <1>1, <2>4, <2>5, <2>6, <2>8, <3>1, <3>3 DEF Inv, Seen
  <2>9. CASE req = host.req /\ Writing
    <3>1. host.got # req.len /\ host'.stage = (IF host'.got = req.len THEN "status" ELSE "data")
      BY <1>6, <2>3, <2>4, <2>9 DEF Writing
    <3>2. CASE Len(rx) = 0 /\ host.got = ctrl_len
      <4>1. Len(rx') = 2 /\ DataAt(1, ctrl_len)' /\ rx'[1].n = n
        BY <1>1, <1>3, <1>5, <2>2, <2>4, <3>2 DEF DataAt
      <4> QED BY <1>1, <2>4, <2>5, <2>6, <2>9, <3>1, <3>2, <4>1 DEF Inv, Taken, Writing
    <3>3. CASE Len(rx) = 1 /\ rx[1].entry = "OUT_COMP" /\ host.got = ctrl_len
      <4>1. Len(rx') = 3 /\ DataAt(2, ctrl_len)' /\ rx'[2].n = n /\ rx'[1] = rx[1]
        BY <1>1, <1>3, <1>5, <2>2, <2>4, <3>3 DEF DataAt
      <4> QED BY <1>1, <2>4, <2>5, <2>6, <2>9, <3>1, <3>3, <4>1 DEF Inv, Taken, Writing
    <3>4. CASE Len(rx) = 2 /\ DataAt(1, ctrl_len) /\ host.got = ctrl_len + rx[1].n
      <4>1. Len(rx') = 4 /\ DataAt(1, ctrl_len)' /\ rx'[1].n = rx[1].n /\ rx'[3].n = n
        BY <1>1, <1>3, <1>5, <2>2, <2>4, <3>4 DEF DataAt
      <4>2. DataAt(3, ctrl_len + rx[1].n)'
        BY <1>1, <1>3, <1>5, <2>2, <2>4, <3>4, <4>1 DEF DataAt
      <4>3. rx[1].n = EpSize /\ ctrl_len + EpSize < req.len
        <5>1. /\ rx[1].n = Smaller(EpSize, req.len - ctrl_len) /\ req.len \in Nat
              /\ ctrl_len + rx[1].n # req.len
          BY <1>t, <2>9, <3>1, <3>4 DEF DataAt
        <5> QED BY <1>t, <5>1 DEF Smaller
      <4> QED BY <1>1, <2>4, <2>5, <2>6, <2>9, <3>1, <3>4, <4>1, <4>2, <4>3 DEF Inv, Taken, Writing
    <3> QED BY <1>1, <2>9, <3>2, <3>3, <3>4 DEF Writing
  <2> QED BY <1>1, <1>6, <2>7, <2>8, <2>9, OpenLemma
<1>7. CASE host.stage = "status" /\ host.req.in
  <2>1. host' = Done
    BY <1>2, <1>7
  <2>2. /\ host' \in HostType /\ host'.no = host.no /\ host'.req = host.req /\ host'.ended = host.no
        /\ host'.got = host.got /\ host'.stage = "done"
    BY <1>n, <2>1, Numbers DEF HostType, Done
  <2>3. TypeInv'
    BY <1>1, <1>5, <1>n, <2>2 DEF TypeInv
  <2>4. Counts'
    <3>1. host.no \in Nat /\ host.ended \in Nat /\ host.ended < host.no
      BY <1>7, <1>n, ActiveLemma, Numbers, Zenon
    <3>2. UNCHANGED <<handled, refused, completed>>
      BY <1>1
    <3>3. completed \in Nat /\ completed <= host.ended /\ handled <= host.no /\ refused <= host.no
      BY <1>n, Numbers, Zenon DEF Counts
    <3> QED BY <2>2, <3>1, <3>2, <3>3 DEF Counts
  <2>5. req = host.req /\ Reading /\ state = "STATUS_OUT"
    BY <1>1, <1>7, OpenLemma
  <2>6. completed < host.no /\ req.no = host.no
    <3>1. /\ host.no \in Nat /\ host.ended \in Nat /\ completed \in Nat
          /\ host.ended < host.no /\ host.req.no = host.no
      BY <1>7, <1>n, ActiveLemma, Numbers, Zenon
    <3>2. completed <= host.ended
      BY <1>n DEF Counts
    <3> QED BY <2>5, <3>1, <3>2
  <2>7. Len(rx') = 2 /\ rx'[1].entry = "OUT" /\ rx'[2].entry = "OUT_COMP"
    BY <1>3, <1>5, <2>5 DEF Reading
  <2>8. Finished'
    BY <1>1, <2>2, <2>5, <2>6, <2>7 DEF Finished, Reading, RestDue
  <2> QED BY <1>1, <2>2, <2>3, <2>4, <2>5, <2>8 DEF Inv, Taken
<1> QED BY <1>2, <1>6, <1>7

LEMMA StalledStep == ASSUME Inv, HostStalled PROVE Inv'
<1>1. /\ stall /\ ~Idle /\ host' = [host EXCEPT !.stage = "failed"]
      /\ UNCHANGED <<rx, in, inNak, outOpen, stall, xfrc, state, req, ctrl_len, needs_zlp, complete, force_nak>>
      /\ UNCHANGED <<handled, refused, completed, tooLong, times, reports>>
  BY DEF HostStalled, hwVars, ctrlVars, history, dispatched, reported
<1>2. host.stage \in {"data", "status"}
  BY <1>1, Numbers DEF Idle, Inv
<1>3. /\ TypeInv' /\ Counts' /\ host'.stage = "failed"
      /\ host'.no = host.no /\ host'.req = host.req /\ host'.ended = host.ended
  BY <1>1, <1>2, FailLemma
<1>4. req = host.req /\ Stalled
  BY <1>1, <1>2 DEF Inv, Waiting, Seen, Begun, Taken, Reading, Writing, Answering, Finished, GivenUp
<1>5. GivenUp'
  BY <1>1, <1>3, <1>4 DEF Stalled, Refused, OnlyEnd, GivenUp
<1> QED BY <1>1, <1>3, <1>4, <1>5 DEF Inv, Taken

LEMMA ResetStep == ASSUME Inv, BusReset PROVE Inv'
<1>1. /\ rx = <<>> /\ ~xfrc
      /\ in' = NoPacket /\ inNak' = TRUE /\ outOpen' = FALSE /\ stall' = FALSE
      /\ UNCHANGED <<rx, xfrc, state, req, ctrl_len, needs_zlp, complete, force_nak>>
      /\ UNCHANGED <<handled, refused, completed, tooLong, times, reports>>
  BY DEF BusReset, Settled, ctrlVars, history, dispatched, reported
<1>n. TypeInv /\ Counts /\ host \in HostType
  BY DEF Inv, TypeInv
<1>2. /\ host' \in HostType /\ host'.no = host.no /\ host'.req = host.req /\ host'.ended = host.ended
      /\ host'.got = host.got /\ host'.stage = IF Idle THEN host.stage ELSE "failed"
  <2> DEFINE st == IF Idle THEN host.stage ELSE "failed"
  <2>1. host' = [host EXCEPT !.stage = st]
    BY DEF BusReset
  <2>2. st \in {"data", "status", "done", "failed"}
    BY <1>n, Numbers
  <2> HIDE DEF st
  <2>3. /\ host' \in HostType /\ host'.no = host.no /\ host'.req = host.req /\ host'.ended = host.ended
        /\ host'.got = host.got /\ host'.stage = st
    BY <1>n, <2>1, <2>2 DEF HostType
  <2> QED BY <2>3 DEF st
<1>3. /\ in' \in [no : Nat, from : Nat, n : Nat] /\ in'.no = 0
  BY <1>1 DEF NoPacket
<1>4. TypeInv'
  BY <1>1, <1>n, <1>2, <1>3 DEF TypeInv
<1>5. Counts'
  BY <1>1, <1>n, <1>2 DEF Counts, Idle
<1>6. Len(rx) = 0
  BY <1>1
<1>7. Taken
  BY <1>6 DEF Inv, Waiting, Seen, Begun
<1>8. CASE host.stage = "done"
  <2>1. Finished'
    BY <1>1, <1>2, <1>6, <1>7, <1>8 DEF Idle, Taken, Reading, Writing, Answering, Stalled, GivenUp, Finished, OnlyEnd
  <2> QED BY <1>1, <1>2, <1>4, <1>5, <1>7, <2>1 DEF Inv, Taken
<1>9. CASE host.stage # "done"
  <2>1. GivenUp'
    BY <1>1, <1>2, <1>6, <1>9 DEF Idle, GivenUp
  <2> QED BY <1>1, <1>2, <1>4, <1>5, <1>7, <2>1 DEF Inv, Taken
<1> QED BY <1>8, <1>9

----------------------------------------------------------------------------
(* The device's steps                                                         *)

\* usb_control_send_chunk with an empty endpoint
LEMMA ChunkLemma ==
    ASSUME TypeInv, in.no = 0, NEW len \in Nat, NEW zlp \in BOOLEAN, len <= req.reply, SendChunk(len, zlp)
    PROVE  /\ in' \in [no : Nat, from : Nat, n : Nat] /\ inNak' = FALSE
           /\ in'.no = req.no /\ in'.from = req.reply - len /\ in'.n = Smaller(EpSize, len)
           /\ len > EpSize => state' = "DATA_IN" /\ ctrl_len' = len - EpSize /\ needs_zlp' = zlp
           /\ len <= EpSize => /\ state' = IF zlp THEN "DATA_IN" ELSE "LAST_DATA_IN"
                               /\ ctrl_len' = 0 /\ needs_zlp' = FALSE
           /\ state' \in States /\ ctrl_len' \in Nat /\ needs_zlp' \in BOOLEAN
<1>1. EpSize \in Nat /\ EpSize > 0 /\ req.reply \in Nat /\ req.no \in Nat
  BY Numbers, Sizes
<1>2. Min({EpSize, len}) = Smaller(EpSize, len) /\ Smaller(EpSize, len) \in Nat
  BY <1>1, MinLemma DEF Smaller
<1>3. in' = [no |-> req.no, from |-> req.reply - len, n |-> Smaller(EpSize, len)] /\ inNak' = FALSE
  BY <1>2 DEF SendChunk, WritePacket
<1>4. req.reply - len \in Nat
  BY <1>1
<1>5. /\ len > EpSize => state' = "DATA_IN" /\ ctrl_len' = len - EpSize /\ needs_zlp' = zlp
      /\ len <= EpSize => /\ state' = IF zlp THEN "DATA_IN" ELSE "LAST_DATA_IN"
                          /\ ctrl_len' = 0 /\ needs_zlp' = FALSE
  BY <1>1 DEF SendChunk
<1>6. state' \in States /\ ctrl_len' \in Nat /\ needs_zlp' \in BOOLEAN
  <2>1. CASE len > EpSize
    BY <1>1, <1>5, <2>1 DEF States
  <2>2. CASE len <= EpSize
    <3>1. state' \in {"DATA_IN", "LAST_DATA_IN"} /\ ctrl_len' = 0 /\ needs_zlp' = FALSE
      BY <1>5, <2>2
    <3> QED BY <3>1 DEF States
  <2> QED BY <1>1, <2>1, <2>2
<1> QED BY <1>1, <1>2, <1>3, <1>4, <1>5, <1>6

\* A chunk is what the host reads next, and after the last one it asks for no more.
LEMMA SentLemma ==
    ASSUME TypeInv, in.no = 0, req = host.req, NEW len \in Nat, NEW zlp \in BOOLEAN, len <= req.reply,
           SendChunk(len, zlp),
           \/ /\ zlp <=> NeedsZlp(req.reply, req.len)
              /\ len % EpSize = req.reply % EpSize /\ (zlp => len > 0)
           \/ len = 0 /\ ~zlp,
           host.got = req.reply - len, host.stage = "data",
           host' = host, req' = req, Len(rx') = 0, ~stall', ~xfrc', ~outOpen', complete', req.in, req.ok,
           handled' = host.no, refused' < host.no
    PROVE  Reading'
<1>1. /\ EpSize \in Nat /\ EpSize > 0 /\ req.reply \in Nat /\ req.len \in Nat
      /\ req.no = host.no /\ host.got \in Nat
  BY Numbers, Sizes
<1>2. /\ inNak' = FALSE /\ in'.no = host.no /\ in'.from = host.got /\ in'.n = Smaller(EpSize, len)
  BY <1>1, ChunkLemma
<1>3. CASE len > EpSize
  <2>1. state' = "DATA_IN" /\ ctrl_len' = len - EpSize /\ needs_zlp' = zlp
    BY <1>3, ChunkLemma
  <2>2. in'.n = EpSize /\ host.got + in'.n + ctrl_len' = req.reply /\ ctrl_len' # 0
    <3>1. in'.n = EpSize
      BY <1>1, <1>2, <1>3 DEF Smaller
    <3> QED BY <1>1, <1>3, <2>1, <3>1
  <2>3. ctrl_len' % EpSize = req.reply % EpSize /\ (needs_zlp' <=> NeedsZlp(req.reply, req.len))
    <3>1. (len - EpSize) % EpSize = len % EpSize
      BY <1>1, <1>3, RemainderLemma
    <3>2. len # 0
      BY <1>1, <1>3
    <3> QED BY <2>1, <3>1, <3>2
  <2> QED BY <1>2, <2>1, <2>2, <2>3 DEF Reading
<1>4. CASE len <= EpSize /\ zlp
  <2>1. state' = "DATA_IN" /\ ctrl_len' = 0 /\ needs_zlp' = FALSE
    BY <1>4, ChunkLemma
  <2>2. req.reply < req.len /\ req.reply % EpSize = 0 /\ len % EpSize = 0 /\ len \in 1..EpSize
    BY <1>1, <1>4 DEF NeedsZlp
  <2>3. len = EpSize
    BY <2>2, RemainderLemma
  <2>4. in'.n = EpSize /\ host.got + in'.n + ctrl_len' = req.reply
    BY <1>1, <1>2, <2>1, <2>3 DEF Smaller
  <2> QED BY <1>2, <2>1, <2>2, <2>4 DEF Reading
<1>5. CASE len <= EpSize /\ ~zlp
  <2>1. state' = "LAST_DATA_IN"
    BY <1>5, ChunkLemma
  <2>2. in'.n = len /\ in'.n <= EpSize /\ host.got + in'.n = req.reply
    BY <1>1, <1>2, <1>5 DEF Smaller
  <2>3. in'.n < EpSize \/ req.reply >= req.len
    <3> SUFFICES ASSUME len = EpSize PROVE req.reply >= req.len
      BY <1>1, <1>5, <2>2
    <3>1. req.reply % EpSize = 0 /\ ~NeedsZlp(req.reply, req.len)
      <4>1. len % EpSize = 0
        BY <1>1, RemainderLemma
      <4> QED BY <1>1, <1>5, <4>1
    <3> QED BY <1>1, <3>1 DEF NeedsZlp
  <2> QED BY <1>2, <2>1, <2>2, <2>3 DEF Reading
<1> QED BY <1>1, <1>3, <1>4, <1>5

LEMMA CompleteStep == ASSUME Inv, InComplete PROVE Inv'
<1>1. /\ xfrc /\ xfrc' = FALSE /\ UNCHANGED <<host, rx, req, complete, handled, tooLong>>
  BY DEF InComplete, dispatched, reported
<1>n. TypeInv /\ Counts
  BY DEF Inv
<1>2. CASE Waiting \/ (Taken /\ Finished)
  <2>1. state = "STATUS_IN" /\ RestDue
    BY <1>1, <1>2 DEF Waiting, Finished
  <2>2. /\ state' = "IDLE" /\ completed' = req.no
        /\ UNCHANGED <<in, inNak, outOpen, stall, ctrl_len, needs_zlp, force_nak, refused>>
    BY <2>1 DEF InComplete, Report, dispatched, RestDue
  <2>3. TypeInv'
    BY <1>1, <1>n, <2>2, Numbers DEF TypeInv, States
  <2>4. Counts'
    BY <1>1, <1>n, <2>1, <2>2, Numbers DEF Counts, RestDue
  <2>5. CASE Waiting
    <3>1. \/ Begun(2) /\ SetupAt(1)
          \/ Begun(3) /\ Len(rx) = 3 /\ rx[1].entry = "OUT_COMP" /\ SetupAt(2) /\ ~outOpen
      BY <1>1, <2>5 DEF Waiting
    <3>2. Waiting'
      BY <1>1, <2>2, <3>1 DEF Waiting, Begun, SetupAt, DataAt
    <3> QED BY <2>3, <2>4, <3>2 DEF Inv
  <2>6. CASE Taken /\ Finished
    <3>1. Finished'
      BY <1>1, <2>1, <2>2, <2>6 DEF Finished, OnlyEnd
    <3> QED BY <1>1, <2>3, <2>4, <2>6, <3>1 DEF Inv, Taken
  <2> QED BY <1>2, <2>5, <2>6
<1>3. CASE req = host.req /\ Reading /\ state = "DATA_IN"
  <2>1. /\ SendChunk(ctrl_len, needs_zlp)
        /\ UNCHANGED <<outOpen, stall, force_nak, refused, completed>>
    BY <1>1, <1>3 DEF InComplete, dispatched, reported
  <2>2. /\ in.no = 0 /\ host.got + ctrl_len = req.reply /\ host.stage = "data" /\ ~outOpen
        /\ Len(rx) = 0 /\ ~stall /\ req.in /\ req.ok /\ complete /\ handled = host.no /\ refused < host.no
    BY <1>1, <1>3 DEF Reading
  <2>3. ctrl_len <= req.reply /\ host.got = req.reply - ctrl_len /\ ctrl_len \in Nat /\ needs_zlp \in BOOLEAN
    <3>1. ctrl_len \in Nat /\ host.got \in Nat /\ req.reply \in Nat
      BY <1>n, Numbers
    <3>2. needs_zlp \in BOOLEAN
      BY <1>n DEF TypeInv
    <3> QED BY <2>2, <3>1, <3>2
  <2>4. \/ /\ needs_zlp <=> NeedsZlp(req.reply, req.len)
           /\ ctrl_len % EpSize = req.reply % EpSize /\ (needs_zlp => ctrl_len > 0)
        \/ ctrl_len = 0 /\ ~needs_zlp
    BY <1>3, <2>3 DEF Reading
  <2>5. Reading'
    BY <1>1, <1>3, <1>n, <2>1, <2>2, <2>3, <2>4, SentLemma
  <2>6. TypeInv'
    BY <1>1, <1>n, <2>1, <2>2, <2>3, ChunkLemma DEF TypeInv
  <2>7. Counts'
    BY <1>1, <1>n, <2>1 DEF Counts
  <2> QED BY <1>1, <1>3, <2>5, <2>6, <2>7 DEF Inv, Taken
<1>4. CASE req = host.req /\ Reading /\ state # "DATA_IN"
  <2>1. state = "LAST_DATA_IN" /\ in.no = 0 /\ host.stage = "status"
    BY <1>1, <1>4 DEF Reading
  <2>2. /\ state' = "STATUS_OUT" /\ force_nak' = FALSE /\ outOpen' = TRUE
        /\ UNCHANGED <<in, inNak, stall, ctrl_len, needs_zlp, refused, completed>>
    BY <2>1 DEF InComplete, dispatched, reported
  <2>3. TypeInv' /\ Counts'
    BY <1>1, <1>n, <2>2 DEF TypeInv, Counts, States
  <2>4. Reading'
    BY <1>1, <1>4, <2>1, <2>2 DEF Reading
  <2> QED BY <1>1, <1>4, <2>3, <2>4 DEF Inv, Taken
<1>5. Waiting \/ (Taken /\ Finished) \/ (req = host.req /\ Reading)
  BY <1>1 DEF Inv, Seen, Taken, Writing, Answering, Stalled, Refused, GivenUp
<1> QED BY <1>2, <1>3, <1>4, <1>5

\* What taking an entry leaves of the FIFO
LEMMA EntryLemma ==
    ASSUME Inv, RxEntry
    PROVE  /\ TypeInv /\ Counts /\ ~xfrc /\ Head(rx) = rx[1] /\ rx[1] \in EntryType /\ Len(rx) >= 1
           /\ rx' \in Seq(EntryType) /\ Len(rx) \in Nat /\ Len(rx') = Len(rx) - 1
           /\ \A i \in 1..(Len(rx) - 1) : rx'[i] = rx[i + 1]
           /\ host' = host /\ xfrc' = xfrc
<1>1. rx # <<>> /\ ~xfrc /\ rx' = Tail(rx) /\ UNCHANGED <<host, xfrc>>
  BY DEF RxEntry, RxReady
<1>2. rx \in Seq(EntryType)
  BY DEF Inv, TypeInv
<1>3. /\ Head(rx) = rx[1] /\ rx[1] \in EntryType /\ Len(rx) >= 1
      /\ rx' \in Seq(EntryType) /\ Len(rx) \in Nat /\ Len(rx') = Len(rx) - 1
      /\ \A i \in 1..(Len(rx) - 1) : rx'[i] = rx[i + 1]
  BY <1>1, <1>2, TailLemma
<1> QED BY <1>1, <1>3 DEF Inv

LEMMA EntrySetup == ASSUME Inv, RxEntry, rx[1].entry = "SETUP" PROVE Inv'
<1>1. /\ req' = rx[1].req /\ in' = NoPacket
      /\ UNCHANGED <<inNak, outOpen, stall, state, ctrl_len, needs_zlp, complete, force_nak>>
      /\ UNCHANGED <<handled, refused, completed, tooLong, times, reports>>
  BY EntryLemma DEF RxEntry, Flush, history, dispatched, reported
<1>2. Begun(2) /\ SetupAt(1)
  BY EntryLemma DEF Inv, Waiting, Seen, Taken, Reading, Writing, Answering, Stalled, Refused, OnlyEnd,
                    Finished, GivenUp, DataAt
<1>3. in'.no = 0 /\ in' \in [no : Nat, from : Nat, n : Nat] /\ req' \in ReqType /\ req' = host.req
  BY <1>1, <1>2, EntryLemma DEF NoPacket, EntryType, SetupAt
<1>4. TypeInv'
  BY <1>1, <1>3, EntryLemma DEF TypeInv
<1>5. Counts'
  BY <1>1, EntryLemma DEF Counts
<1>6. rx'[1].entry = "SETUP_COMP"
  BY <1>2, EntryLemma DEF SetupAt, Begun
<1>7. Begun(1)'
  <2>1. CASE Len(rx) = 2
    BY <1>1, <1>2, <2>1, EntryLemma DEF Begun
  <2>2. CASE Len(rx) = 4 /\ DataAt(3, 0)
    <3>1. Len(rx') = 3 /\ rx'[2] = rx[3] /\ rx'[3] = rx[4]
      BY <2>2, EntryLemma
    <3>2. DataAt(2, 0)'
      BY <2>2, <3>1, EntryLemma DEF DataAt
    <3> QED BY <1>1, <1>2, <2>2, <3>1, <3>2, EntryLemma DEF Begun
  <2> QED BY <1>2, <2>1, <2>2 DEF Begun
<1> QED BY <1>3, <1>4, <1>5, <1>6, <1>7, EntryLemma DEF Inv, Seen

LEMMA EntrySetupComp == ASSUME Inv, RxEntry, rx[1].entry = "SETUP_COMP" PROVE Inv'
<1>1. /\ IF req.len = 0 \/ req.in THEN SetupRead /\ UNCHANGED tooLong ELSE SetupWrite
      /\ outOpen' = ~force_nak' /\ UNCHANGED <<req, completed>>
  BY EntryLemma DEF RxEntry, reported
<1>2. Seen
  BY EntryLemma DEF Inv, Waiting, SetupAt, Taken, Reading, Writing, Answering, Stalled, Refused, OnlyEnd,
                    Finished, GivenUp, DataAt
<1>3. /\ req = host.req /\ in.no = 0 /\ ~stall /\ inNak /\ handled < host.no /\ refused < host.no
      /\ host.stage \in {"data", "status"}
  BY <1>2 DEF Seen, Begun
<1>t. /\ req \in ReqType /\ req.no = host.no /\ host.no \in Nat /\ req.len \in Nat /\ req.reply \in Nat
      /\ (req.len = 0 => ~req.in) /\ EpSize \in Nat /\ EpSize > 0
      /\ handled \in Nat /\ refused \in Nat /\ completed \in Nat /\ tooLong \in Nat /\ BufLen \in Nat
  BY <1>3, EntryLemma, Numbers, Sizes DEF TypeInv, ReqType
<1>4. \/ Len(rx') = 0 /\ host.got = 0 /\ host.stage = IF req.len = 0 THEN "status" ELSE "data"
      \/ /\ Len(rx') = 2 /\ DataAt(1, 0)' /\ req.len > 0 /\ ~req.in /\ host.got = rx'[1].n
         /\ host.stage = IF host.got = req.len THEN "status" ELSE "data"
  <2>1. CASE Len(rx) = 1
    BY <1>2, <1>3, <2>1, EntryLemma DEF Seen, Begun
  <2>2. CASE Len(rx) = 3 /\ DataAt(2, 0)
    <3>1. Len(rx') = 2 /\ rx'[1] = rx[2] /\ rx'[2] = rx[3]
      BY <2>2, EntryLemma
    <3>2. DataAt(1, 0)'
      BY <2>2, <3>1, EntryLemma DEF DataAt
    <3> QED BY <1>2, <1>3, <2>2, <3>1, <3>2, EntryLemma DEF Seen, Begun
  <2> QED BY <1>2, <2>1, <2>2 DEF Seen, Begun
<1>5. CASE req.len = 0 \/ req.in
  <2>1. SetupRead /\ UNCHANGED tooLong /\ force_nak' = TRUE /\ ~outOpen' /\ Len(rx') = 0 /\ host.got = 0
        /\ host.stage = IF req.len = 0 THEN "status" ELSE "data"
    <3>1. SetupRead /\ UNCHANGED tooLong
      BY <1>1, <1>5
    <3>2. force_nak' = TRUE
      BY <3>1 DEF SetupRead, Dispatch, dispatched
    <3>3. outOpen' = FALSE
      BY <1>1, <3>2
    <3>4. ~(req.len > 0 /\ ~req.in)
      BY <1>5, <1>t
    <3>5. Len(rx') = 0 /\ host.got = 0 /\ host.stage = IF req.len = 0 THEN "status" ELSE "data"
      BY <1>4, <3>4
    <3> QED BY <3>1, <3>2, <3>3, <3>5
  <2>2. CASE req.ok /\ req.len > 0
    <3>1. /\ complete' = TRUE /\ handled' = host.no /\ UNCHANGED <<stall, refused>>
          /\ SendChunk(req.reply, NeedsZlp(req.reply, req.len))
      BY <1>t, <2>1, <2>2 DEF SetupRead, Dispatch, dispatched
    <3>2. /\ NeedsZlp(req.reply, req.len) \in BOOLEAN
          /\ NeedsZlp(req.reply, req.len) => req.reply > 0
      BY <1>t DEF NeedsZlp
    <3>3. Reading'
      <4> DEFINE z == NeedsZlp(req.reply, req.len)
      <4>1. host.got = req.reply - req.reply /\ host.stage = "data" /\ req.in /\ ~xfrc'
        BY <1>5, <1>t, <2>1, <2>2, EntryLemma
      <4>2. SendChunk(req.reply, z) /\ z \in BOOLEAN /\ (z <=> NeedsZlp(req.reply, req.len)) /\ (z => req.reply > 0)
        BY <3>1, <3>2
      <4>3. req.reply <= req.reply
        BY <1>t
      <4> HIDE DEF z
      <4> QED BY <1>1, <1>3, <1>t, <2>1, <2>2, <3>1, <4>1, <4>2, <4>3, EntryLemma, SentLemma
    <3>4. TypeInv'
      <4>1. /\ in' \in [no : Nat, from : Nat, n : Nat] /\ inNak' = FALSE
            /\ state' \in States /\ ctrl_len' \in Nat /\ needs_zlp' \in BOOLEAN
        <5>1. req.reply <= req.reply
          BY <1>t
        <5> QED BY <1>3, <1>t, <3>1, <3>2, <5>1, EntryLemma, ChunkLemma
      <4> QED BY <1>1, <1>t, <2>1, <3>1, <4>1, EntryLemma DEF TypeInv
    <3>5. Counts'
      BY <1>1, <1>t, <3>1, EntryLemma DEF Counts
    <3> QED BY <1>1, <1>3, <3>3, <3>4, <3>5, EntryLemma DEF Inv, Taken
  <2>3. CASE req.ok /\ req.len = 0
    <3>1. /\ complete' = TRUE /\ handled' = host.no /\ UNCHANGED <<stall, refused, needs_zlp>>
          /\ in' = [no |-> host.no, from |-> 0, n |-> 0] /\ inNak' = FALSE /\ state' = "STATUS_IN" /\ ctrl_len' = 0
      BY <1>3, <1>t, <2>1, <2>3 DEF SetupRead, Dispatch, dispatched, WritePacket
    <3>2. Answering'
      BY <1>1, <1>3, <1>t, <2>1, <2>3, <3>1, EntryLemma DEF Answering, OnlyEnd
    <3>3. TypeInv'
      <4>1. in' \in [no : Nat, from : Nat, n : Nat]
        BY <1>t, <3>1
      <4> QED BY <1>1, <1>t, <2>1, <3>1, <4>1, EntryLemma DEF TypeInv, States
    <3>4. Counts'
      BY <1>1, <1>t, <3>1, EntryLemma DEF Counts
    <3> QED BY <1>1, <1>3, <3>2, <3>3, <3>4, EntryLemma DEF Inv, Taken
  <2>4. CASE ~req.ok
    <3>1. /\ stall' = TRUE /\ state' = "IDLE" /\ refused' = host.no /\ complete' = FALSE /\ ctrl_len' = req.len
          /\ UNCHANGED <<in, inNak, needs_zlp, handled>>
      BY <1>t, <2>1, <2>4 DEF SetupRead, Dispatch, dispatched, Stall
    <3>2. Stalled'
      BY <1>1, <1>3, <1>t, <2>1, <2>4, <3>1, EntryLemma DEF Stalled, Refused, OnlyEnd
    <3>3. TypeInv'
      BY <1>1, <1>t, <2>1, <3>1, EntryLemma DEF TypeInv, States
    <3>4. Counts'
      BY <1>1, <1>t, <3>1, EntryLemma DEF Counts
    <3> QED BY <1>1, <1>3, <3>2, <3>3, <3>4, EntryLemma DEF Inv, Taken
  <2> QED BY <1>t, <2>2, <2>3, <2>4
<1>6. CASE req.len # 0 /\ ~req.in
  <2>1. /\ complete' = FALSE /\ UNCHANGED <<in, inNak, needs_zlp, handled>>
        /\ IF req.len > BufLen
           THEN stall' = TRUE /\ state' = "IDLE" /\ refused' = host.no /\ force_nak' = TRUE /\ tooLong' = host.no
                /\ UNCHANGED ctrl_len
           ELSE /\ force_nak' = FALSE /\ ctrl_len' = 0 /\ UNCHANGED <<stall, refused, tooLong>>
                /\ state' = IF req.len > EpSize THEN "DATA_OUT" ELSE "LAST_DATA_OUT"
    BY <1>1, <1>6, <1>t DEF SetupWrite, dispatched, Stall
  <2>2. CASE req.len > BufLen
    <3>1. OnlyEnd' \/ (Len(rx') = 2 /\ rx'[1].entry = "OUT" /\ rx'[2].entry = "OUT_COMP")
      BY <1>4 DEF OnlyEnd, DataAt
    <3>2. Stalled'
      BY <1>1, <1>3, <1>t, <2>1, <2>2, <3>1, EntryLemma DEF Stalled, Refused
    <3>3. TypeInv'
      <4>1. /\ state' \in States /\ outOpen' \in BOOLEAN /\ stall' \in BOOLEAN /\ complete' \in BOOLEAN
            /\ force_nak' \in BOOLEAN
        BY <1>1, <2>1, <2>2 DEF States
      <4> QED BY <1>1, <1>t, <2>1, <2>2, <4>1, EntryLemma DEF TypeInv
    <3>4. Counts'
      BY <1>1, <1>t, <2>1, <2>2, EntryLemma DEF Counts
    <3> QED BY <1>1, <1>3, <3>2, <3>3, <3>4, EntryLemma DEF Inv, Taken
  <2>3. CASE ~(req.len > BufLen)
    <3>1. /\ force_nak' = FALSE /\ ctrl_len' = 0 /\ UNCHANGED <<stall, refused, tooLong>>
          /\ state' = IF req.len > EpSize THEN "DATA_OUT" ELSE "LAST_DATA_OUT"
      BY <2>1, <2>3
    <3>2. /\ ctrl_len' < req.len
          /\ state' = IF req.len - ctrl_len' <= EpSize THEN "LAST_DATA_OUT" ELSE "DATA_OUT"
      BY <1>6, <1>t, <3>1
    <3>3. host.stage = IF host.got = req.len THEN "status" ELSE "data"
      BY <1>4, <1>6, <1>t
    <3>4. \/ Len(rx') = 0 /\ host.got = ctrl_len'
          \/ Len(rx') = 2 /\ DataAt(1, ctrl_len)' /\ host.got = ctrl_len' + rx'[1].n
      <4>1. CASE Len(rx') = 2 /\ DataAt(1, 0)' /\ host.got = rx'[1].n
        <5>1. DataAt(1, ctrl_len)'
          BY <3>1, <4>1 DEF DataAt
        <5>2. host.got \in Nat
          BY EntryLemma, Numbers
        <5> QED BY <3>1, <4>1, <5>1, <5>2
      <4> QED BY <1>4, <3>1, <4>1
    <3>5. Writing'
      BY <1>1, <1>3, <1>6, <2>1, <3>1, <3>2, <3>3, <3>4, EntryLemma DEF Writing
    <3>6. TypeInv'
      <4>1. state' \in States
        <5>1. state' \in {"DATA_OUT", "LAST_DATA_OUT"}
          BY <3>1
        <5> QED BY <5>1 DEF States
      <4>2. outOpen' = TRUE /\ stall' = FALSE /\ complete' = FALSE /\ force_nak' = FALSE
        <5>1. stall \in BOOLEAN
          BY EntryLemma DEF TypeInv
        <5> QED BY <1>1, <1>3, <2>1, <3>1, <5>1
      <4> QED BY <1>1, <1>t, <2>1, <3>1, <4>1, <4>2, EntryLemma DEF TypeInv
    <3>7. Counts'
      BY <1>1, <2>1, <3>1, EntryLemma DEF Counts
    <3> QED BY <1>1, <1>3, <3>5, <3>6, <3>7, EntryLemma DEF Inv, Taken
  <2> QED BY <2>2, <2>3
<1> QED BY <1>5, <1>6


LEMMA EntryOutComp == ASSUME Inv, RxEntry, rx[1].entry = "OUT_COMP" PROVE Inv'
<1>1. /\ outOpen' = ~force_nak
      /\ UNCHANGED <<in, inNak, stall, state, req, ctrl_len, needs_zlp, complete, force_nak>>
      /\ UNCHANGED <<handled, refused, completed, tooLong, times, reports>>
  BY EntryLemma DEF RxEntry, ctrlVars, history, dispatched, reported
<1>2. outOpen' \in BOOLEAN
  BY <1>1
<1>3. TypeInv'
  BY <1>1, <1>2, EntryLemma DEF TypeInv
<1>4. Counts'
  BY <1>1, EntryLemma DEF Counts
<1>5. \/ Begun(3) /\ Len(rx) = 3 /\ SetupAt(2)
      \/ req = host.req /\ Writing
      \/ Len(rx) = 1 /\ req = host.req /\ (Answering \/ Stalled \/ Finished \/ GivenUp)
  <2>1. CASE Waiting
    BY <2>1 DEF Waiting, SetupAt
  <2>2. ~Seen
    BY DEF Seen
  <2>3. CASE Taken
    BY <2>3, EntryLemma DEF Taken, Reading, Answering, Stalled, Refused, OnlyEnd, Finished, GivenUp
  <2> QED BY <2>1, <2>2, <2>3 DEF Inv
<1>6. CASE Begun(3) /\ Len(rx) = 3 /\ SetupAt(2)
  <2>1. Len(rx') = 2 /\ rx'[1] = rx[2] /\ rx'[2] = rx[3]
    BY <1>6, EntryLemma
  <2>2. Begun(2)' /\ SetupAt(1)' /\ ~xfrc'
    BY <1>1, <1>6, <2>1, EntryLemma DEF Begun, SetupAt
  <2> QED BY <1>3, <1>4, <2>2 DEF Inv, Waiting
<1>7. CASE req = host.req /\ Writing
  <2>1. CASE Len(rx) = 1 /\ host.got = ctrl_len
    <3>1. Len(rx') = 0
      BY <2>1, EntryLemma
    <3>2. Writing'
      BY <1>1, <1>7, <2>1, <3>1, EntryLemma DEF Writing
    <3> QED BY <1>1, <1>3, <1>4, <1>7, <3>2, EntryLemma DEF Inv, Taken
  <2>2. CASE Len(rx) = 3 /\ DataAt(2, ctrl_len) /\ host.got = ctrl_len + rx[2].n
    <3>1. Len(rx') = 2 /\ rx'[1] = rx[2] /\ rx'[2] = rx[3]
      BY <2>2, EntryLemma
    <3>2. DataAt(1, ctrl_len)' /\ host.got = ctrl_len + rx'[1].n
      BY <1>1, <2>2, <3>1, EntryLemma DEF DataAt
    <3>3. Writing'
      BY <1>1, <1>7, <3>1, <3>2, EntryLemma DEF Writing
    <3> QED BY <1>1, <1>3, <1>4, <1>7, <3>3, EntryLemma DEF Inv, Taken
  <2>3. \/ Len(rx) = 1 /\ host.got = ctrl_len
        \/ Len(rx) = 3 /\ DataAt(2, ctrl_len) /\ host.got = ctrl_len + rx[2].n
    BY <1>7, EntryLemma DEF Writing, DataAt
  <2> QED BY <2>1, <2>2, <2>3
<1>8. CASE Len(rx) = 1 /\ req = host.req /\ (Answering \/ Stalled \/ Finished \/ GivenUp)
  <2>1. Len(rx') = 0
    BY <1>8, EntryLemma
  <2>2. (Answering \/ Stalled \/ Finished \/ GivenUp)'
    BY <1>1, <1>8, <2>1, EntryLemma DEF Answering, Stalled, Refused, OnlyEnd, Finished, GivenUp, RestDue
  <2> QED BY <1>1, <1>3, <1>4, <1>8, <2>2, EntryLemma DEF Inv, Taken
<1> QED BY <1>5, <1>6, <1>7, <1>8

\* The packet of a write that comes as usb_control_recv_chunk expects it
LEMMA DataLemma ==
    ASSUME TypeInv, req = host.req, Writing, DataAt(1, ctrl_len)
    PROVE  /\ Chunk = rx[1].n /\ rx[1].n \in Nat /\ rx[1].n = Smaller(EpSize, req.len - ctrl_len)
           /\ ctrl_len \in Nat /\ req.len \in Nat /\ EpSize \in Nat /\ EpSize > 0 /\ req.no \in Nat
           /\ rx[1].n <= EpSize /\ ctrl_len + rx[1].n <= req.len
           /\ state = "DATA_OUT" => rx[1].n = EpSize /\ ctrl_len + EpSize < req.len
           /\ state = "LAST_DATA_OUT" => ctrl_len + rx[1].n = req.len
           /\ state \in {"DATA_OUT", "LAST_DATA_OUT"}
<1>1. /\ ctrl_len \in Nat /\ req.len \in Nat /\ EpSize \in Nat /\ EpSize > 0 /\ req.no \in Nat
  BY Numbers, Sizes
<1>2. rx[1].n = Smaller(EpSize, req.len - ctrl_len)
  BY DEF DataAt
<1>3. Chunk = Smaller(EpSize, req.len - ctrl_len)
  <2>1. EpSize \in Int /\ req.len - ctrl_len \in Int
    BY <1>1
  <2> QED BY <2>1, MinLemma DEF Chunk
<1>4. ctrl_len < req.len /\ state = IF req.len - ctrl_len <= EpSize THEN "LAST_DATA_OUT" ELSE "DATA_OUT"
  BY DEF Writing
<1>5. CASE req.len - ctrl_len <= EpSize
  <2>1. rx[1].n = req.len - ctrl_len /\ state = "LAST_DATA_OUT"
    BY <1>1, <1>2, <1>4, <1>5 DEF Smaller
  <2> QED BY <1>1, <1>2, <1>3, <1>4, <1>5, <2>1
<1>6. CASE ~(req.len - ctrl_len <= EpSize)
  <2>1. rx[1].n = EpSize /\ state = "DATA_OUT"
    BY <1>1, <1>2, <1>4, <1>6 DEF Smaller
  <2> QED BY <1>1, <1>2, <1>3, <1>4, <1>6, <2>1
<1> QED BY <1>5, <1>6


\* When the device takes a packet from the host
LEMMA OutCases ==
    ASSUME Inv, RxEntry, rx[1].entry = "OUT"
    PROVE  \/ Waiting /\ Begun(4) /\ Len(rx) = 4 /\ rx[2].entry = "OUT_COMP" /\ SetupAt(3) /\ ~outOpen
              /\ state = "STATUS_OUT" /\ RestDue
           \/ req = host.req /\ Writing
           \/ req = host.req /\ Refused /\ Len(rx) = 2 /\ rx[2].entry = "OUT_COMP" /\ (Stalled \/ GivenUp)
           \/ req = host.req /\ Finished /\ Len(rx) = 2 /\ rx[2].entry = "OUT_COMP" /\ state = "STATUS_OUT" /\ RestDue
<1>1. CASE Waiting
  BY <1>1 DEF Waiting, SetupAt
<1>2. ~Seen
  BY DEF Seen
<1>3. CASE Taken
  BY <1>3, EntryLemma DEF Taken, Reading, Answering, Stalled, Refused, OnlyEnd, Finished, GivenUp
<1> QED BY <1>1, <1>2, <1>3 DEF Inv

LEMMA EntryOut == ASSUME Inv, RxEntry, rx[1].entry = "OUT" PROVE Inv'
<1>1. ControlOut(rx[1].n) /\ UNCHANGED <<outOpen, req, needs_zlp, force_nak, tooLong>>
  BY EntryLemma DEF RxEntry
<1>t. TypeInv /\ Counts
  BY DEF Inv
<1>2. \/ Waiting /\ Begun(4) /\ Len(rx) = 4 /\ rx[2].entry = "OUT_COMP" /\ SetupAt(3) /\ ~outOpen
         /\ state = "STATUS_OUT" /\ RestDue
      \/ req = host.req /\ Writing
      \/ req = host.req /\ Refused /\ Len(rx) = 2 /\ rx[2].entry = "OUT_COMP" /\ (Stalled \/ GivenUp)
      \/ req = host.req /\ Finished /\ Len(rx) = 2 /\ rx[2].entry = "OUT_COMP" /\ state = "STATUS_OUT" /\ RestDue
  BY OutCases
<1>3. CASE state = "STATUS_OUT" /\ RestDue
  <2>1. /\ state' = "IDLE" /\ complete' = FALSE /\ completed' = req.no
        /\ UNCHANGED <<in, inNak, stall, ctrl_len, handled, refused>>
    BY <1>1, <1>3 DEF ControlOut, Dispatch, Report, dispatched, reported, RestDue
  <2>2. TypeInv'
    BY <1>1, <1>t, <2>1, EntryLemma, Numbers DEF TypeInv, States
  <2>3. Counts'
    <3>1. completed' = host.ended /\ UNCHANGED <<host, handled, refused>>
      BY <1>3, <2>1, EntryLemma DEF RestDue
    <3>2. host.ended \in Nat
      BY <1>t, Numbers
    <3> QED BY <1>t, <3>1, <3>2 DEF Counts
  <2>4. CASE Begun(4) /\ Len(rx) = 4 /\ rx[2].entry = "OUT_COMP" /\ SetupAt(3) /\ ~outOpen
    <3>1. Len(rx') = 3 /\ rx'[1] = rx[2] /\ rx'[2] = rx[3] /\ rx'[3] = rx[4]
      BY <2>4, EntryLemma
    <3>2. Begun(3)' /\ SetupAt(2)' /\ ~xfrc' /\ ~outOpen'
      BY <1>1, <2>1, <2>4, <3>1, EntryLemma DEF Begun, SetupAt
    <3> QED BY <2>2, <2>3, <2>4, <3>1, <3>2 DEF Inv, Waiting
  <2>5. CASE req = host.req /\ Finished /\ Len(rx) = 2 /\ rx[2].entry = "OUT_COMP"
    <3>1. Len(rx') = 1 /\ rx'[1] = rx[2]
      BY <2>5, EntryLemma
    <3>2. Finished'
      BY <2>1, <2>5, <3>1, EntryLemma DEF Finished, OnlyEnd
    <3> QED BY <1>1, <2>2, <2>3, <2>5, <3>2, EntryLemma DEF Inv, Taken
  <2> QED BY <1>2, <1>3, <2>4, <2>5 DEF Writing, Refused
<1>4. CASE req = host.req /\ Refused /\ Len(rx) = 2 /\ rx[2].entry = "OUT_COMP" /\ (Stalled \/ GivenUp)
  <2>1. state = "IDLE"
    BY <1>4 DEF Refused
  <2>2. /\ stall' = TRUE /\ state' = "IDLE" /\ refused' = req.no
        /\ UNCHANGED <<in, inNak, ctrl_len, complete, handled, completed>>
    BY <1>1, <2>1 DEF ControlOut, Dispatch, Report, dispatched, reported, Stall
  <2>3. refused' = refused /\ Len(rx') = 1 /\ rx'[1] = rx[2]
    BY <1>4, <1>t, <2>2, EntryLemma, Numbers DEF Refused
  <2>4. TypeInv'
    BY <1>1, <1>t, <2>2, <2>3, EntryLemma DEF TypeInv, States
  <2>5. Counts'
    BY <1>t, <2>2, <2>3, EntryLemma DEF Counts
  <2>6. Refused'
    BY <1>1, <1>4, <2>2, <2>3, EntryLemma DEF Refused, OnlyEnd
  <2>7. (Stalled \/ GivenUp)'
    BY <1>4, <2>2, <2>6, EntryLemma DEF Stalled, GivenUp
  <2> QED BY <1>1, <1>4, <2>4, <2>5, <2>7, EntryLemma DEF Inv, Taken
<1>5. CASE req = host.req /\ Writing
  <2>1. \/ Len(rx) = 2 /\ rx[2].entry = "OUT_COMP" /\ host.got = ctrl_len + rx[1].n
        \/ /\ Len(rx) = 4 /\ rx[2].entry = "OUT_COMP" /\ ~outOpen /\ DataAt(3, ctrl_len + rx[1].n)
           /\ host.got = ctrl_len + rx[1].n + rx[3].n /\ rx[1].n = EpSize /\ ctrl_len + EpSize < req.len
    BY <1>5, EntryLemma DEF Writing, DataAt
  <2>2. DataAt(1, ctrl_len)
    BY <1>5, EntryLemma DEF Writing
  <2>3. /\ ~stall /\ inNak /\ ~xfrc /\ in.no = 0 /\ ~req.in /\ handled < host.no /\ refused < host.no
        /\ host.stage = IF host.got = req.len THEN "status" ELSE "data"
        /\ host.no = req.no
    BY <1>5, <1>t, Numbers DEF Writing
  <2>4. CASE state = "DATA_OUT"
    <3>1. Chunk = EpSize /\ rx[1].n = EpSize /\ ctrl_len + EpSize < req.len
          /\ ctrl_len \in Nat /\ req.len \in Nat /\ EpSize \in Nat
      BY <1>5, <1>t, <2>2, <2>4, DataLemma
    <3>2. /\ ctrl_len' = ctrl_len + EpSize
          /\ state' = IF req.len - ctrl_len - EpSize <= EpSize THEN "LAST_DATA_OUT" ELSE "DATA_OUT"
          /\ UNCHANGED <<in, inNak, stall, complete, handled, refused, completed>>
      BY <1>1, <2>4, <3>1 DEF ControlOut, Dispatch, Report, dispatched, reported
    <3>3. /\ ctrl_len' < req.len /\ ctrl_len' \in Nat
          /\ state' = IF req.len - ctrl_len' <= EpSize THEN "LAST_DATA_OUT" ELSE "DATA_OUT"
      BY <3>1, <3>2
    <3>4. state' \in States
      <4>1. state' \in {"DATA_OUT", "LAST_DATA_OUT"}
        BY <3>2
      <4> QED BY <4>1 DEF States
    <3>5. TypeInv'
      BY <1>1, <1>t, <3>2, <3>3, <3>4, EntryLemma DEF TypeInv
    <3>6. Counts'
      BY <1>t, <3>2, EntryLemma DEF Counts
    <3>7. CASE Len(rx) = 2 /\ rx[2].entry = "OUT_COMP" /\ host.got = ctrl_len + rx[1].n
      <4>1. Len(rx') = 1 /\ rx'[1] = rx[2] /\ host.got = ctrl_len'
        BY <3>1, <3>2, <3>7, EntryLemma
      <4>2. Writing'
        BY <1>1, <2>3, <3>2, <3>3, <3>7, <4>1, EntryLemma DEF Writing
      <4> QED BY <1>1, <1>5, <3>5, <3>6, <4>2, EntryLemma DEF Inv, Taken
    <3>8. CASE /\ Len(rx) = 4 /\ rx[2].entry = "OUT_COMP" /\ ~outOpen /\ DataAt(3, ctrl_len + rx[1].n)
               /\ host.got = ctrl_len + rx[1].n + rx[3].n
      <4>1. Len(rx') = 3 /\ rx'[1] = rx[2] /\ rx'[2] = rx[3] /\ rx'[3] = rx[4]
        BY <3>8, EntryLemma
      <4>2. DataAt(2, ctrl_len)' /\ host.got = ctrl_len' + rx'[2].n
        BY <1>1, <3>1, <3>2, <3>8, <4>1, EntryLemma DEF DataAt
      <4>3. Writing'
        BY <1>1, <2>3, <3>2, <3>3, <3>8, <4>1, <4>2, EntryLemma DEF Writing
      <4> QED BY <1>1, <1>5, <3>5, <3>6, <4>3, EntryLemma DEF Inv, Taken
    <3> QED BY <2>1, <3>7, <3>8
  <2>5. CASE state = "LAST_DATA_OUT"
    <3>1. Chunk = rx[1].n /\ rx[1].n \in Nat /\ ctrl_len + rx[1].n = req.len
          /\ ctrl_len \in Nat /\ req.len \in Nat /\ EpSize \in Nat /\ req.no \in Nat
      BY <1>5, <1>t, <2>2, <2>5, DataLemma
    <3>2. Len(rx) = 2 /\ rx[2].entry = "OUT_COMP" /\ host.got = req.len
      BY <2>1, <3>1
    <3>3. Len(rx') = 1 /\ rx'[1] = rx[2] /\ host.stage = "status"
      BY <2>3, <3>2, EntryLemma
    <3>4. /\ ctrl_len' = req.len /\ UNCHANGED completed
          /\ IF req.ok THEN /\ WritePacket(0, 0) /\ state' = "STATUS_IN" /\ complete' = TRUE /\ handled' = req.no
                            /\ UNCHANGED <<stall, refused>>
             ELSE Stall /\ UNCHANGED <<in, inNak, complete, handled>>
      BY <1>1, <2>5, <3>1 DEF ControlOut, Dispatch, Report, dispatched, reported
    <3>5. CASE req.ok
      <4>1. /\ in' = [no |-> req.no, from |-> 0, n |-> 0] /\ inNak' = FALSE
            /\ state' = "STATUS_IN" /\ complete' = TRUE /\ handled' = req.no /\ UNCHANGED <<stall, refused>>
        BY <2>3, <3>4, <3>5 DEF WritePacket
      <4>2. in' \in [no : Nat, from : Nat, n : Nat] /\ in'.no = req.no /\ in'.n = 0
        BY <3>1, <4>1
      <4>3. TypeInv'
        BY <1>1, <1>t, <3>1, <3>4, <4>1, <4>2, EntryLemma DEF TypeInv, States
      <4>4. Counts'
        BY <1>t, <2>3, <3>1, <3>4, <4>1, EntryLemma DEF Counts
      <4>5. Answering'
        BY <1>1, <2>3, <3>2, <3>3, <4>1, <4>2, EntryLemma DEF Answering, OnlyEnd
      <4> QED BY <1>1, <1>5, <4>3, <4>4, <4>5, EntryLemma DEF Inv, Taken
    <3>6. CASE ~req.ok
      <4>1. /\ stall' = TRUE /\ state' = "IDLE" /\ refused' = req.no /\ UNCHANGED <<in, inNak, complete, handled>>
        BY <3>4, <3>6 DEF Stall
      <4>2. TypeInv'
        BY <1>1, <1>t, <3>1, <3>4, <4>1, EntryLemma DEF TypeInv, States
      <4>3. Counts'
        BY <1>t, <2>3, <3>1, <3>4, <4>1, EntryLemma DEF Counts
      <4>4. Stalled'
        BY <1>1, <1>5, <2>3, <3>2, <3>3, <3>6, <4>1, EntryLemma DEF Stalled, Refused, OnlyEnd
      <4> QED BY <1>1, <1>5, <4>2, <4>3, <4>4, EntryLemma DEF Inv, Taken
    <3> QED BY <3>5, <3>6
  <2> QED BY <1>5, <1>t, <2>2, <2>4, <2>5, DataLemma
<1> QED BY <1>2, <1>3, <1>4, <1>5

\* One entry of the receive FIFO
LEMMA EntryStep == ASSUME Inv, RxEntry PROVE Inv'
<1>1. rx[1].entry \in {"SETUP", "SETUP_COMP", "OUT", "OUT_COMP"}
  BY EntryLemma DEF EntryType
<1> QED BY <1>1, EntrySetup, EntrySetupComp, EntryOut, EntryOutComp

----------------------------------------------------------------------------
(* The invariant                                                              *)

LEMMA InitInv == ASSUME Init PROVE Inv
<1>1. NoReq \in ReqType /\ NoReq.no = 0
  BY DEF NoReq, ReqType
<1>2. host \in HostType /\ host.req = NoReq /\ host.no = 0 /\ host.stage = "done" /\ host.ended = 0
  BY <1>1 DEF Init, HostType
<1>3. rx \in Seq(EntryType) /\ Len(rx) = 0 /\ in \in [no : Nat, from : Nat, n : Nat]
  BY DEF Init, NoPacket
<1>4. TypeInv
  BY <1>1, <1>2, <1>3 DEF Init, TypeInv, States
<1>5. Counts
  BY <1>2 DEF Init, Counts
<1>6. req = host.req /\ Finished
  BY <1>2, <1>3 DEF Init, Finished, OnlyEnd
<1> QED BY <1>4, <1>5, <1>6 DEF Inv, Taken

LEMMA NextInv == ASSUME Inv, [Next]_vars PROVE Inv'
<1>1. CASE UNCHANGED vars
  <2>1. UNCHANGED <<hwVars, ctrlVars, history>> /\ TypeInv /\ Counts
    BY <1>1 DEF vars, Inv
  <2>2. TypeInv' /\ Counts'
    BY <1>1, <2>1 DEF vars, hwVars, ctrlVars, history, dispatched, reported, TypeInv, Counts
  <2>3. CASE Waiting
    <3>1. Waiting'
      BY <1>1, <2>3 DEF vars, hwVars, ctrlVars, history, dispatched, reported, Waiting, Begun, SetupAt, DataAt, RestDue
    <3> QED BY <2>2, <3>1 DEF Inv
  <2>4. CASE Seen
    <3>1. Seen'
      BY <1>1, <2>4 DEF vars, hwVars, ctrlVars, history, dispatched, reported, Seen, Begun, SetupAt, DataAt, RestDue
    <3> QED BY <2>2, <3>1 DEF Inv
  <2>5. CASE Taken
    <3>1. Taken'
      BY <1>1, <2>5 DEF vars, hwVars, ctrlVars, history, dispatched, reported, Taken, RestDue, DataAt, Reading, Writing, Answering,
                        Stalled, Refused, OnlyEnd, Finished, GivenUp
    <3> QED BY <2>2, <3>1 DEF Inv
  <2> QED BY <2>3, <2>4, <2>5 DEF Inv
<1>2. CASE Next
  BY <1>2, SetupStep, InStep, OverrunStep, OutStep, StalledStep, ResetStep, CompleteStep, EntryStep DEF Next
<1> QED BY <1>1, <1>2

LEMMA Always == Spec => []Inv
BY InitInv, NextInv, PTL DEF Spec

Counters == times \in Nat /\ reports \in Nat

LEMMA CounterStep == ASSUME Counters, [Next]_vars PROVE Counters'
<1>1. CASE UNCHANGED vars
  BY <1>1 DEF vars, history, dispatched, reported, Counters
<1>2. CASE HostSetup
  BY <1>2 DEF HostSetup, Counters
<1>3. CASE HostIn \/ HostOverrun \/ HostOut \/ HostStalled \/ BusReset
  BY <1>3 DEF HostIn, HostOverrun, HostOut, HostStalled, BusReset, history, dispatched, reported, Counters
<1>4. CASE InComplete
  BY <1>4 DEF InComplete, Report, dispatched, reported, Counters
<1>5. CASE RxEntry
  BY <1>5 DEF RxEntry, SetupRead, SetupWrite, ControlOut, Dispatch, Report, history, dispatched, reported, Counters
<1> QED BY <1>1, <1>2, <1>3, <1>4, <1>5 DEF Next

\* What the device holds and does is of its type: the request that is read, the
\* packets and what is left to send never leave their ranges (usb_control.c).
THEOREM TypeCorrect == Spec => [](TypeInv /\ Counters)
<1>1. Inv => TypeInv
  BY DEF Inv
<1>2. Init => Counters
  BY DEF Init, Counters
<1>3. Spec => []Counters
  BY <1>2, CounterStep, PTL DEF Spec
<1> QED BY <1>1, <1>3, Always, PTL

\* What the host can take from endpoint 0 is the next packet of the reply to its
\* own request, whatever it gave up before (usb_control_send_chunk, dwc_flush_txfifo).
THEOREM RepliesCorrect == Spec => []RepliesBelong
<1>1. ASSUME Inv PROVE RepliesBelong
  <2> SUFFICES ASSUME in.no # 0, ~inNak, ~Idle
               PROVE  /\ in.no = host.no
                      /\ host.stage = "data" => in.from = host.got /\ in.n = Min({EpSize, host.req.reply - host.got})
                      /\ host.stage = "status" => in.n = 0
    BY DEF RepliesBelong
  <2>1. host.stage \in {"data", "status"} /\ TypeInv
    BY <1>1, Numbers DEF Inv, Idle
  <2>2. ~stall
    BY <1>1, <2>1 DEF Inv, Waiting, Seen, Begun, Taken, Reading, Writing, Answering, Stalled, Refused, Finished, GivenUp
  <2>3. req = host.req /\ (Reading \/ Answering)
    BY <1>1, <2>1, <2>2, ActiveLemma
  <2>4. CASE Answering
    BY <2>4 DEF Answering
  <2>5. CASE Reading
    <3>1. /\ in.no = host.no /\ in.from = host.got /\ host.stage = "data"
          /\ \/ in.n = EpSize /\ host.got + in.n + ctrl_len = req.reply
             \/ in.n <= EpSize /\ host.got + in.n = req.reply
      BY <2>5 DEF Reading
    <3>2. /\ host.got \in Nat /\ in.n \in Nat /\ ctrl_len \in Nat /\ req.reply \in Nat /\ EpSize \in Nat
      BY <2>1, Numbers, Sizes
    <3>3. in.n = Smaller(EpSize, req.reply - host.got) /\ req.reply - host.got \in Int
      BY <3>1, <3>2 DEF Smaller
    <3>4. in.n = Min({EpSize, host.req.reply - host.got})
      BY <2>3, <3>2, <3>3, MinLemma
    <3> QED BY <3>1, <3>4
  <2> QED BY <2>3, <2>4, <2>5
<1> QED BY <1>1, Always, PTL

\* The data of a write goes to its place in ctrl_buf (usb_control_recv_chunk), whatever
\* write was given up before.
THEOREM WritesCorrect == Spec => []WritesInPlace
<1>1. ASSUME Inv PROVE WritesInPlace
  <2> SUFFICES ASSUME rx # <<>>, Head(rx).entry = "OUT", state \in {"DATA_OUT", "LAST_DATA_OUT"}
               PROVE  Head(rx).req = req /\ Head(rx).from = ctrl_len
    BY DEF WritesInPlace
  <2>1. rx \in Seq(EntryType)
    BY <1>1 DEF Inv, TypeInv
  <2>2. Head(rx) = rx[1] /\ Len(rx) \in Nat /\ Len(rx) >= 1
    BY <2>1, TailLemma
  <2>3. req = host.req /\ Writing
    BY <1>1, <2>2 DEF Inv, Waiting, SetupAt, Seen, Taken, Reading, Answering, Stalled, Refused, OnlyEnd, Finished, GivenUp
  <2> QED BY <2>2, <2>3 DEF Writing, DataAt
<1> QED BY <1>1, Always, PTL

\* The device answers STALL only for a request that no callback handles or that is
\* too long for ctrl_buf (stall_transaction).
THEOREM StallsCorrect == Spec => []StallsJustified
<1>1. ASSUME Inv PROVE StallsJustified
  <2> SUFFICES ASSUME stall, ~Idle PROVE host.no = refused /\ (~host.req.ok \/ host.no = tooLong)
    BY DEF StallsJustified
  <2>1. host.stage \in {"data", "status"}
    BY <1>1, Numbers DEF Inv, Idle
  <2>2. Stalled
    BY <1>1, <2>1 DEF Inv, Waiting, Seen, Begun, Taken, Reading, Writing, Answering, Finished, GivenUp
  <2> QED BY <2>2 DEF Stalled, Refused
<1> QED BY <1>1, Always, PTL


----------------------------------------------------------------------------
(* The promise of the control pipe                                            *)

Phase == IF Idle THEN host.stage
         ELSE IF handled = host.no THEN "handled" ELSE IF refused = host.no THEN "refused" ELSE "made"

LEMMA PhaseLemma ==
    ASSUME Inv
    PROVE  /\ host.stage \in {"data", "status"} => ~Idle
           /\ host.stage \notin {"data", "status"} => Idle /\ Phase = host.stage
           /\ Phase \in {"done", "failed", "handled", "refused", "made"}
           /\ Phase = "done" <=> host.stage = "done"
<1>1. host.stage \in {"data", "status", "done", "failed"}
  BY Numbers DEF Inv
<1> QED BY <1>1 DEF Phase, Idle

LEMMA HostPromise ==
    ASSUME Inv, HostSetup \/ HostIn \/ HostOverrun \/ HostOut \/ HostStalled \/ BusReset
    PROVE  Pipe!Next \/ UNCHANGED <<host.no, Phase, host.ended, completed, times, reports>>
<1>t. /\ TypeInv /\ Counts /\ host \in HostType /\ host.no \in Nat /\ handled \in Nat /\ refused \in Nat
      /\ host.stage \in {"data", "status", "done", "failed"}
  BY Numbers DEF Inv, TypeInv
<1>1. CASE HostSetup
  <2>1. /\ host'.no = host.no + 1 /\ host'.ended = host.ended /\ host'.stage \in {"data", "status"}
        /\ UNCHANGED <<handled, refused, completed>> /\ times' = 0 /\ reports' = 0
    <3>1. PICK r \in Requests : \E q :
             /\ q.no = host.no + 1
             /\ host' = [host EXCEPT !.no = q.no, !.req = q, !.got = 0,
                                     !.stage = IF r.len = 0 THEN "status" ELSE "data"]
      BY <1>1 DEF HostSetup
    <3> DEFINE st == IF r.len = 0 THEN "status" ELSE "data"
    <3>2. st \in {"data", "status"} /\ UNCHANGED <<handled, refused, completed>> /\ times' = 0 /\ reports' = 0
      BY <1>1 DEF HostSetup, history, dispatched, reported
    <3>3. PICK q : q.no = host.no + 1 /\ host' = [host EXCEPT !.no = q.no, !.req = q, !.got = 0, !.stage = st]
      BY <3>1
    <3> HIDE DEF st
    <3> QED BY <1>t, <3>2, <3>3 DEF HostType
  <2>2. handled <= host.no /\ refused <= host.no
    BY <1>t DEF Counts
  <2>3. Phase' = "made"
    BY <1>t, <2>1, <2>2 DEF Phase, Idle
  <2>4. Pipe!Make
    BY <2>1, <2>3 DEF Pipe!Make, Phase
  <2> QED BY <2>4 DEF Pipe!Next
<1>2. CASE HostIn
  <2>1. /\ in.no # 0 /\ ~inNak /\ ~stall /\ UNCHANGED <<handled, refused, completed, times, reports>>
    BY <1>2 DEF HostIn, history, dispatched, reported
  <2>2. CASE host.stage = "data" /\ host.req.in
    <3> DEFINE st == IF in.n < EpSize \/ host.got + in.n >= host.req.len THEN "status" ELSE host.stage
    <3>1. host' = [host EXCEPT !.got = @ + in.n, !.stage = st] /\ st \in {"data", "status"}
      BY <1>2, <2>2 DEF HostIn
    <3> HIDE DEF st
    <3>2. host'.no = host.no /\ host'.ended = host.ended /\ host'.stage \in {"data", "status"}
      BY <1>t, <3>1 DEF HostType
    <3> QED BY <2>1, <2>2, <3>2 DEF Phase, Idle
  <2>3. CASE host.stage = "status" /\ ~host.req.in
    <3>1. host' = Done
      BY <1>2, <2>2, <2>3 DEF HostIn
    <3>2. host'.no = host.no /\ host'.ended = host.no /\ host'.stage = "done"
      BY <1>t, <3>1 DEF HostType, Done
    <3>3. Answering
      BY <2>1, <2>3, ActiveLemma DEF Reading
    <3>4. Phase = "handled" /\ Phase' = "done"
      BY <2>1, <2>3, <3>2, <3>3 DEF Phase, Idle, Answering
    <3>5. Pipe!Finish
      BY <2>1, <3>2, <3>4 DEF Pipe!Finish, Phase
    <3> QED BY <3>5 DEF Pipe!Next
  <2> QED BY <1>2, <2>2, <2>3 DEF HostIn
<1>3. CASE HostOut
  <2>1. /\ outOpen /\ ~stall /\ UNCHANGED <<handled, refused, completed, times, reports>>
    BY <1>3 DEF HostOut, history, dispatched, reported
  <2>2. PICK n \in 0..EpSize :
           \/ /\ host.stage = "data" /\ ~host.req.in
              /\ host' = [host EXCEPT !.got = @ + n,
                                      !.stage = IF host.got + n = host.req.len THEN "status" ELSE @]
           \/ host.stage = "status" /\ host.req.in /\ host' = Done
    BY <1>3 DEF HostOut
  <2>3. CASE host.stage = "data" /\ ~host.req.in
    <3> DEFINE st == IF host.got + n = host.req.len THEN "status" ELSE host.stage
    <3>1. host' = [host EXCEPT !.got = @ + n, !.stage = st] /\ st \in {"data", "status"}
      BY <2>2, <2>3
    <3> HIDE DEF st
    <3>2. host'.no = host.no /\ host'.ended = host.ended /\ host'.stage \in {"data", "status"}
      BY <1>t, <3>1 DEF HostType
    <3> QED BY <2>1, <2>3, <3>2 DEF Phase, Idle
  <2>4. CASE host.stage = "status" /\ host.req.in
    <3>1. host' = Done
      BY <2>2, <2>4
    <3>2. host'.no = host.no /\ host'.ended = host.no /\ host'.stage = "done"
      BY <1>t, <3>1 DEF HostType, Done
    <3>3. Reading
      BY <2>1, <2>4, OpenLemma
    <3>4. Phase = "handled" /\ Phase' = "done"
      BY <2>1, <2>4, <3>2, <3>3 DEF Phase, Idle, Reading
    <3>5. Pipe!Finish
      BY <2>1, <3>2, <3>4 DEF Pipe!Finish, Phase
    <3> QED BY <3>5 DEF Pipe!Next
  <2> QED BY <2>2, <2>3, <2>4
<1>4. CASE HostOverrun \/ HostStalled \/ BusReset
  <2> DEFINE st == IF Idle THEN host.stage ELSE "failed"
  <2>1. host' = [host EXCEPT !.stage = st] /\ UNCHANGED <<handled, refused, completed, times, reports>>
    BY <1>4 DEF HostOverrun, HostStalled, BusReset, Idle, history, dispatched, reported
  <2>2. host'.no = host.no /\ host'.ended = host.ended /\ host'.stage = st
    <3> HIDE DEF st
    <3> QED BY <1>t, <2>1 DEF HostType
  <2>3. CASE Idle
    BY <2>1, <2>2, <2>3 DEF Phase, Idle
  <2>4. CASE ~Idle
    <3>1. Phase' = "failed" /\ Phase # "done"
      BY <2>2, <2>4, PhaseLemma DEF Phase, Idle
    <3>2. Pipe!Fail
      BY <2>1, <2>2, <3>1 DEF Pipe!Fail, Phase
    <3> QED BY <3>2 DEF Pipe!Next
  <2> QED BY <2>3, <2>4
<1> QED BY <1>1, <1>2, <1>3, <1>4

\* The rest of a request is begun, or the device decides about the host's request.
LEMMA RestPromise ==
    ASSUME Inv, RestDue, completed' = req.no, reports' = reports + 1,
           host' = host, handled' = handled, refused' = refused, times' = times
    PROVE  Pipe!Next
<1>1. Phase' = Phase
  BY DEF Phase, Idle
<1>2. completed < host.ended /\ completed' = host.ended
  BY DEF RestDue
<1>3. Pipe!Complete
  BY <1>1, <1>2 DEF Pipe!Complete, Phase
<1> QED BY <1>3 DEF Pipe!Next

LEMMA DecisionPromise ==
    ASSUME Inv, host.stage \in {"data", "status"}, handled < host.no, refused < host.no,
           host' = host, completed' = completed, reports' = reports,
           \/ handled' = host.no /\ times' = times + 1 /\ refused' = refused
           \/ handled' = handled /\ times' = times /\ refused' = host.no
           \/ handled' = handled /\ times' = times /\ refused' = refused
    PROVE  Pipe!Next \/ UNCHANGED <<host.no, Phase, host.ended, completed, times, reports>>
<1>1. handled # host.no /\ refused # host.no
  <2>1. handled \in Nat /\ refused \in Nat /\ host.no \in Nat
    BY Numbers, Zenon DEF Inv
  <2> QED BY <2>1
<1>2. Phase = "made"
  BY <1>1 DEF Phase, Idle
<1>3. CASE handled' = host.no /\ times' = times + 1 /\ refused' = refused
  <2>1. Phase' = "handled"
    BY <1>3 DEF Phase, Idle
  <2>2. Pipe!Handle
    BY <1>2, <2>1 DEF Pipe!Handle, Phase
  <2> QED BY <2>2 DEF Pipe!Next
<1>4. CASE handled' = handled /\ times' = times /\ refused' = host.no
  <2>1. Phase' = "refused"
    BY <1>1, <1>4 DEF Phase, Idle
  <2>2. Pipe!Refuse
    BY <1>2, <2>1 DEF Pipe!Refuse, Phase
  <2> QED BY <2>2 DEF Pipe!Next
<1>5. CASE handled' = handled /\ times' = times /\ refused' = refused
  BY <1>5 DEF Phase, Idle
<1> QED BY <1>3, <1>4, <1>5

LEMMA DevicePromise ==
    ASSUME Inv, InComplete \/ RxEntry
    PROVE  Pipe!Next \/ UNCHANGED <<host.no, Phase, host.ended, completed, times, reports>>
<1>t. TypeInv /\ Counts
  BY DEF Inv
<1>1. ASSUME host' = host, handled' = handled, refused' = refused, completed' = completed,
             times' = times, reports' = reports
      PROVE  UNCHANGED <<host.no, Phase, host.ended, completed, times, reports>>
  BY <1>1 DEF Phase, Idle
<1>2. CASE InComplete
  <2>1. xfrc /\ host' = host /\ handled' = handled /\ times' = times
    BY <1>2 DEF InComplete, dispatched, reported
  <2>2. CASE state = "STATUS_IN"
    <3>1. RestDue
      BY <2>1, <2>2 DEF Inv, Waiting, Seen, Taken, Reading, Writing, Answering, Stalled, Refused, Finished, GivenUp
    <3>2. completed' = req.no /\ reports' = reports + 1 /\ refused' = refused
      BY <1>2, <2>2, <3>1 DEF InComplete, Report, dispatched, RestDue
    <3> QED BY <2>1, <3>1, <3>2, RestPromise
  <2>3. CASE state \in {"DATA_IN", "LAST_DATA_IN"}
    <3>1. refused' = refused /\ completed' = completed /\ reports' = reports
      BY <1>2, <2>3 DEF InComplete, dispatched, reported
    <3> QED BY <1>1, <2>1, <3>1
  <2>4. state \in {"DATA_IN", "LAST_DATA_IN", "STATUS_IN"}
    BY <2>1 DEF Inv, Waiting, Seen, Taken, Reading, Writing, Answering, Stalled, Refused, Finished, GivenUp
  <2> QED BY <2>2, <2>3, <2>4
<1>3. CASE RxEntry /\ rx[1].entry \in {"SETUP", "OUT_COMP"}
  <2>1. UNCHANGED <<handled, refused, completed, times, reports>> /\ host' = host
    BY <1>3, EntryLemma DEF RxEntry, history, dispatched, reported
  <2> QED BY <1>1, <2>1
<1>4. CASE RxEntry /\ rx[1].entry = "SETUP_COMP"
  <2>1. /\ IF req.len = 0 \/ req.in THEN SetupRead /\ UNCHANGED tooLong ELSE SetupWrite
        /\ host' = host /\ completed' = completed /\ reports' = reports
    BY <1>4, EntryLemma DEF RxEntry, reported
  <2>2. Seen
    BY <1>4, EntryLemma DEF Inv, Waiting, SetupAt, Taken, Reading, Writing, Answering, Stalled, Refused, OnlyEnd,
                            Finished, GivenUp, DataAt
  <2>3. host.stage \in {"data", "status"} /\ handled < host.no /\ refused < host.no /\ req.no = host.no
    BY <1>t, <2>2, Numbers DEF Seen, Begun
  <2>4. \/ handled' = host.no /\ times' = times + 1 /\ refused' = refused
        \/ handled' = handled /\ times' = times /\ refused' = host.no
        \/ handled' = handled /\ times' = times /\ refused' = refused
    <3>1. CASE SetupRead
      BY <2>3, <3>1 DEF SetupRead, Dispatch, dispatched, Stall
    <3>2. CASE SetupWrite
      BY <2>3, <3>2 DEF SetupWrite, dispatched, Stall
    <3> QED BY <2>1, <3>1, <3>2
  <2> QED BY <2>1, <2>3, <2>4, DecisionPromise
<1>5. CASE RxEntry /\ rx[1].entry = "OUT"
  <2>1. ControlOut(rx[1].n) /\ host' = host
    BY <1>5, EntryLemma DEF RxEntry
  <2>2. CASE state = "STATUS_OUT" /\ RestDue
    <3>1. completed' = req.no /\ reports' = reports + 1 /\ handled' = handled /\ times' = times /\ refused' = refused
      BY <2>1, <2>2 DEF ControlOut, Dispatch, Report, dispatched, reported, RestDue
    <3> QED BY <2>1, <2>2, <3>1, RestPromise
  <2>3. CASE req = host.req /\ Refused
    <3>1. /\ handled' = handled /\ completed' = completed /\ refused' = req.no
          /\ times' = times /\ reports' = reports
      BY <2>1, <2>3 DEF ControlOut, Dispatch, Report, dispatched, reported, Stall, Refused
    <3>2. refused' = refused
      BY <1>t, <2>3, <3>1, Numbers DEF Refused
    <3> QED BY <1>1, <2>1, <3>1, <3>2
  <2>4. CASE req = host.req /\ Writing
    <3>1. host.stage \in {"data", "status"} /\ handled < host.no /\ refused < host.no /\ req.no = host.no
      BY <1>t, <2>4, Numbers DEF Writing
    <3>2. /\ completed' = completed /\ reports' = reports
          /\ \/ handled' = host.no /\ times' = times + 1 /\ refused' = refused
             \/ handled' = handled /\ times' = times /\ refused' = host.no
             \/ handled' = handled /\ times' = times /\ refused' = refused
      <4>1. state \in {"DATA_OUT", "LAST_DATA_OUT"}
        BY <2>4 DEF Writing
      <4> QED BY <2>1, <3>1, <4>1 DEF ControlOut, Dispatch, Report, dispatched, reported, Stall
    <3> QED BY <2>1, <3>1, <3>2, DecisionPromise
  <2>5. (state = "STATUS_OUT" /\ RestDue) \/ (req = host.req /\ Refused) \/ (req = host.req /\ Writing)
    BY <1>5, OutCases
  <2> QED BY <2>2, <2>3, <2>4, <2>5
<1>6. RxEntry => rx[1].entry \in {"SETUP", "SETUP_COMP", "OUT", "OUT_COMP"}
  BY EntryLemma DEF EntryType
<1> QED BY <1>2, <1>3, <1>4, <1>5, <1>6

\* Whatever the host gives up, each request is dispatched with success at most once,
\* while it is the host's, and its complete callback runs at most once, after the host
\* has seen its end, both counted: UsbControl implements ControlPipe (usb_control.c).
THEOREM ControlPipeCorrect == Spec => ImplementsControlPipe
<1>1. Init => Pipe!Init
  BY DEF Init, Pipe!Init, Idle
<1>2. Inv /\ [Next]_vars => [Pipe!Next]_<<host.no, Phase, host.ended, completed, times, reports>>
  <2> SUFFICES ASSUME Inv, [Next]_vars PROVE Pipe!Next \/ UNCHANGED <<host.no, Phase, host.ended, completed, times, reports>>
    OBVIOUS
  <2>1. CASE UNCHANGED vars
    BY <2>1 DEF vars, history, dispatched, reported, Phase, Idle
  <2>2. CASE Next
    BY <2>2, HostPromise, DevicePromise DEF Next
  <2> QED BY <2>1, <2>2
<1>3. Inv /\ [Next]_vars => [Pipe!Next]_<<host.no, IF Idle THEN host.stage
             ELSE IF handled = host.no THEN "handled" ELSE IF refused = host.no THEN "refused" ELSE "made", host.ended, completed, times, reports>>
  BY <1>2 DEF Phase
<1> QED BY <1>1, <1>3, Always, PTL DEF Spec, ImplementsControlPipe, Pipe!Spec
=============================================================================
