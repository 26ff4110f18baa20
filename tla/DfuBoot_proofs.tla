--------------------------- MODULE DfuBoot_proofs ---------------------------
(* Proofs about DfuBoot, for every number of blocks and pages, every layout   *)
(* of the pages, and every number of programs.                               *)
EXTENDS DfuBoot, TLAPS

ProgType == [op : {"none", "erase", "setaddr", "block"}, arg : 0..(Size + 1),
             image : 0..MaxPrograms, addr : 0..(Size + 1)]
HostType == [image : 0..MaxPrograms, step : 1..LastStep, phase : {"request", "status"}]

TypeInv == TypeOK /\ prog \in ProgType /\ host \in HostType

\* The device holds what the host asked for at its step.
Mine ==
    /\ prog.op = Plan(host.step).op /\ prog.arg = Plan(host.step).arg
    /\ prog.image = host.image

\* From its first answered request on, the state of the device is that of the
\* host's own download.
SessionInv ==
    /\ working => mode = "boot" /\ usbdfu_state = "DNBUSY"
    /\ host.image # 0 =>
         /\ mode = "boot"
         /\ (host.step > 1 \/ host.phase = "status") /\ host.step < LastStep =>
              /\ usbdfu_state \in {"DNLOAD_SYNC", "DNBUSY", "DNLOAD_IDLE"}
              /\ usbdfu_state # "DNLOAD_IDLE" => Mine
         /\ host.step = LastStep =>
              /\ usbdfu_state \in {"DNLOAD_IDLE", "MANIFEST_SYNC", "MANIFEST"}
              /\ host.phase = "status" => usbdfu_state # "DNLOAD_IDLE"

\* AckedInFlash, the address the blocks count from, and what the host's step has
\* done when the device says so.
AckedInv ==
    host.image # 0 =>
        /\ host.step > Pages + 1 => prog.addr = 1
        /\ \A b \in Blocks \ failed :
             /\ host.step > Pages + 1 + b => flash[b] = host.image
             /\ PageNo[b] < host.step /\ host.step < Pages + 1 + b => flash[b] = Erased
             /\ host.step = Pages + 1 + b => flash[b] \in {Erased, host.image}
        /\ host.phase = "status" /\ usbdfu_state = "DNLOAD_IDLE" =>
             /\ host.step = Pages + 1 => prog.addr = 1
             /\ \A b \in Blocks \ failed : /\ host.step = PageNo[b] => flash[b] = Erased
                                           /\ host.step = Pages + 1 + b => flash[b] = host.image

PartsOf(v) == \A b \in Blocks \ failed : flash[b] \in {v, Half, Erased}

\* Two programs are in flash only while the first block is erased; a block waiting
\* to be programmed finds only its own program there.
MixInv ==
    /\ NeverMixed
    /\ flash[1] # Erased => \E v \in 1..MaxPrograms : PartsOf(v)
    /\ prog.op = "block" => prog.image # 0 /\ PartsOf(prog.image)

----------------------------------------------------------------------------
(* The constants and the host's plan                                          *)

LEMMA Constants ==
    /\ Size \in Nat /\ Size > 0 /\ Pages \in Nat /\ Pages > 0 /\ MaxPrograms \in Nat /\ MaxPrograms > 0
    /\ LastStep \in Nat /\ LastStep = Pages + Size + 2
    /\ 1 \in Blocks /\ \A b \in Blocks : b \in Nat /\ b > 0 /\ PageNo[b] \in 1..Pages
BY FlashAssumption DEF LastStep, Blocks

LEMMA PlanErase ==
    ASSUME NEW i \in 1..Pages
    PROVE  /\ Plan(i).op = "erase" /\ Plan(i).arg \in Blocks
           /\ PageNo[Plan(i).arg] = i
<1>1. \E b \in Blocks : PageNo[b] = i
  BY FlashAssumption DEF Blocks
<1>2. Plan(i) = [op |-> "erase", arg |-> CHOOSE b \in Blocks : PageNo[b] = i]
  BY Constants DEF Plan
<1> QED
  BY <1>1, <1>2

LEMMA PlanOther ==
    /\ Plan(Pages + 1) = [op |-> "setaddr", arg |-> 1]
    /\ Plan(LastStep) = [op |-> "end", arg |-> 0]
    /\ \A b \in Blocks : Plan(Pages + 1 + b) = [op |-> "block", arg |-> b + 1]
<1>1. ~(Pages + 1 <= Pages) /\ ~(LastStep <= Pages) /\ LastStep # Pages + 1
  BY Constants
<1>2. ASSUME NEW b \in Blocks
      PROVE  /\ ~(Pages + 1 + b <= Pages) /\ Pages + 1 + b # Pages + 1
             /\ Pages + 1 + b # LastStep /\ (Pages + 1 + b) - Pages = b + 1
  BY Constants DEF Blocks
<1> QED
  BY <1>1, <1>2 DEF Plan

LEMMA Steps ==
    ASSUME NEW i \in 1..LastStep
    PROVE  i \in 1..Pages \/ i = Pages + 1 \/ i = LastStep \/ \E b \in Blocks : i = Pages + 1 + b
<1>1. CASE i > Pages + 1 /\ i < LastStep
  <2>1. i - (Pages + 1) \in Blocks /\ i = Pages + 1 + (i - (Pages + 1))
    BY <1>1, Constants DEF Blocks
  <2> QED
    BY <2>1
<1> QED
  BY <1>1, Constants

LEMMA PlanType ==
    ASSUME NEW i \in 1..LastStep
    PROVE  /\ Plan(i).op \in {"erase", "setaddr", "block", "end"} /\ Plan(i).arg \in 0..(Size + 1)
           /\ Plan(i).op = "end" <=> i = LastStep
           /\ Plan(i).op \in {"erase", "setaddr"} => Plan(i).arg \in 1..Size
           /\ Plan(i).op = "block" => \E b \in Blocks : i = Pages + 1 + b
<1>1. CASE i \in 1..Pages
  BY <1>1, PlanErase, Constants DEF Blocks
<1>2. CASE i = Pages + 1
  BY <1>2, PlanOther, Constants DEF Blocks
<1>3. CASE i = LastStep
  BY <1>3, PlanOther, Constants
<1>4. CASE \E b \in Blocks : i = Pages + 1 + b
  <2>1. PICK b \in Blocks : i = Pages + 1 + b
    BY <1>4
  <2>2. Plan(i) = [op |-> "block", arg |-> b + 1] /\ i # LastStep /\ b + 1 \in 0..(Size + 1)
    BY <2>1, PlanOther, Constants DEF Blocks
  <2> QED
    BY <2>1, <2>2
<1> QED
  BY <1>1, <1>2, <1>3, <1>4, Steps

----------------------------------------------------------------------------
(* Type correctness, with the session of a host: the step stays in range      *)
(* because the device never answers dfuDNLOAD-IDLE to the last one.          *)

LEMMA FlashTypes ==
    ASSUME TypeInv
    PROVE  /\ \A P \in SUBSET Blocks : ErasedAt(P) \in [Blocks -> -1..MaxPrograms]
           /\ \A b \in Int, v \in {Half} \cup 0..MaxPrograms :
                  ProgrammedAt(b, v) \in [Blocks -> -1..MaxPrograms]
           /\ \A S : Worked(S) \subseteq [Blocks -> -1..MaxPrograms]
           /\ Underway \subseteq [Blocks -> -1..MaxPrograms]
<1> USE Constants DEF TypeInv, TypeOK
<1>1. \A P \in SUBSET Blocks : ErasedAt(P) \in [Blocks -> -1..MaxPrograms]
  BY DEF ErasedAt, Erased
<1>2. \A b \in Int, v \in {Half} \cup 0..MaxPrograms : ProgrammedAt(b, v) \in [Blocks -> -1..MaxPrograms]
  <2>1. ASSUME NEW v \in {Half} \cup 0..MaxPrograms PROVE v \in -1..MaxPrograms
    BY DEF Half
  <2>2. Half \in -1..MaxPrograms
    BY DEF Half
  <2> QED
    BY <2>1, <2>2 DEF ProgrammedAt
<1>3. \A b, S : PageOf(b) \in SUBSET Blocks /\ PageOf(b) \ S \in SUBSET Blocks
  BY DEF PageOf
<1>4. Programmed \in Int /\ prog.image \in {Half} \cup 0..MaxPrograms
  BY DEF Programmed, ProgType
<1>5. ASSUME NEW S PROVE Worked(S) \subseteq [Blocks -> -1..MaxPrograms]
  <2>1. ErasedAt(PageOf(prog.arg) \ S) \in [Blocks -> -1..MaxPrograms]
    BY <1>1, <1>3
  <2>2. /\ ProgrammedAt(Programmed, prog.image) \in [Blocks -> -1..MaxPrograms]
        /\ ProgrammedAt(Programmed, Half) \in [Blocks -> -1..MaxPrograms]
    BY <1>2, <1>4
  <2> QED
    BY <2>1, <2>2 DEF Worked
<1>6. Underway \subseteq [Blocks -> -1..MaxPrograms]
  BY <1>1, <1>2, <1>3, <1>4 DEF Underway
<1> QED
  BY <1>1, <1>2, <1>5, <1>6

LEMMA NoHostType ==
    /\ NoHost \in HostType /\ NoHost.image = 0 /\ NoHost.step = 1 /\ NoHost.phase = "request"
    /\ NoHost.image \in 0..MaxPrograms /\ NoHost.step \in 1..LastStep
<1>1. 0 \in 0..MaxPrograms /\ 1 \in 1..LastStep
  BY Constants
<1> QED
  BY <1>1 DEF NoHost, HostType

LEMMA TypeStep == TypeInv /\ SessionInv /\ [Next]_vars => TypeInv' /\ SessionInv'
<1> SUFFICES ASSUME TypeInv, SessionInv, [Next]_vars PROVE TypeInv' /\ SessionInv'
  OBVIOUS
<1> USE Constants DEF TypeInv, TypeOK, SessionInv, Mine
<1>0. UNCHANGED vars => TypeInv' /\ SessionInv'
  BY DEF vars
<1>1. ASSUME Boot PROVE TypeInv' /\ SessionInv'
  BY <1>1 DEF Boot, Boots, ProgType
<1>2. ASSUME Work PROVE TypeInv' /\ SessionInv'
  <2>1. flash' \in [Blocks -> -1..MaxPrograms] /\ failed' \subseteq Blocks
    <3>1. Touched \subseteq Blocks
      BY DEF Touched, PageOf
    <3>2. PICK S \in SUBSET (Touched \cap Weak) :
              flash' \in Worked(S) /\ failed' = S \cup (IF prog.op = "erase" THEN failed \ Touched ELSE failed)
      BY <1>2 DEF Work, AtTheFlash
    <3> QED
      BY <3>1, <3>2, FlashTypes
  <2>2. prog' \in ProgType
    BY <1>2 DEF Work, ProgType
  <2> QED
    BY <1>2, <2>1, <2>2 DEF Work
<1>3. ASSUME PowerFail PROVE TypeInv' /\ SessionInv'
  <2>1. flash' \in [Blocks -> -1..MaxPrograms]
    BY <1>3, FlashTypes DEF PowerFail
  <2>2. /\ mode' = "off" /\ working' = FALSE /\ host' = NoHost
        /\ UNCHANGED <<failed, usbdfu_state, prog>>
    BY <1>3 DEF PowerFail
  <2>3. prog' \in ProgType
    BY <2>2 DEF ProgType
  <2>4. /\ usbdfu_state' = usbdfu_state /\ failed' \subseteq Blocks
        /\ usbdfu_state \in {"IDLE", "DNLOAD_SYNC", "DNBUSY", "DNLOAD_IDLE", "MANIFEST_SYNC", "MANIFEST"}
    BY <2>2
  <2>5. TypeOK'
    BY ONLY <2>1, <2>2, <2>4, NoHostType DEF TypeOK
  <2>6. TypeInv'
    BY <2>2, <2>3, <2>5, NoHostType
  <2> QED
    BY <2>2, <2>6, NoHostType
<1>4. ASSUME Begin PROVE TypeInv' /\ SessionInv'
  BY <1>4 DEF Begin, NoHost, HostType
<1>5. ASSUME NEW end \in {"seen", "unseen"}, HostDownload(end) PROVE TypeInv' /\ SessionInv'
  <2>1. host.step \in 1..LastStep /\ host' \in HostType /\ host'.step = host.step /\ host'.image = host.image
    BY <1>5 DEF HostDownload, HostType
  <2>2. CASE host.step = LastStep
    BY <1>5, <2>1, <2>2, PlanType DEF HostDownload, Download, Connected
  <2>3. CASE host.step # LastStep
    <3>1. prog' \in ProgType
      BY <1>5, <2>1, <2>3, PlanType DEF HostDownload, Download, ProgType, HostType
    <3>2. Mine' /\ usbdfu_state' = "DNLOAD_SYNC"
      BY <1>5, <2>1, <2>3, PlanType DEF HostDownload, Download, ProgType
    <3> QED
      BY <1>5, <2>1, <2>3, <3>1, <3>2 DEF HostDownload, Connected
  <2> QED
    BY <2>2, <2>3
<1>6. ASSUME NEW end \in {"seen", "unseen", "cut"}, HostStatus(end) PROVE TypeInv' /\ SessionInv'
  <2> DEFINE s == Status(usbdfu_state)
  <2>1. s \in {"IDLE", "DNBUSY", "DNLOAD_IDLE", "MANIFEST"}
    BY DEF Status
  <2>2. CASE s = "MANIFEST" /\ end # "cut"
    <3>1. /\ mode' = "off" /\ working' = FALSE /\ host' = NoHost /\ usbdfu_state' = "MANIFEST"
          /\ UNCHANGED <<flash, failed, prog>>
      BY <1>6, <2>2 DEF HostStatus
    <3>2. prog' \in ProgType
      BY <3>1 DEF ProgType
    <3>3. TypeInv'
      BY <3>1, <3>2, NoHostType
    <3> QED
      BY <3>1, <3>3, NoHostType
  <2>3. CASE ~(s = "MANIFEST" /\ end # "cut")
    <3>1. usbdfu_state' = s /\ UNCHANGED <<flash, failed, mode, prog>> /\ working' = (s = "DNBUSY" /\ end # "cut")
      BY <1>6, <2>3 DEF HostStatus
    <3>2. CASE end = "seen" /\ host.phase = "status" /\ s = "DNLOAD_IDLE"
      <4>1. usbdfu_state = "DNLOAD_IDLE" /\ host.step # LastStep
        BY <1>6, <3>2 DEF Status, HostStatus, Connected
      <4>2. host' \in HostType /\ host'.phase = "request" /\ host'.image = host.image
        <5>1. host' = [host EXCEPT !.step = @ + 1, !.phase = "request"]
          BY <1>6, <2>3, <3>2 DEF HostStatus
        <5>2. host \in HostType /\ host.step + 1 \in 1..LastStep
          BY <4>1 DEF HostType
        <5> QED
          BY <5>1, <5>2 DEF HostType
      <4> QED
        BY <1>6, <3>1, <3>2, <4>1, <4>2 DEF HostStatus, Connected, HostType
    <3>3. CASE ~(end = "seen" /\ host.phase = "status" /\ s = "DNLOAD_IDLE")
      <4>1. host' = host
        BY <1>6, <2>3, <3>3 DEF HostStatus
      <4>2. s = "DNLOAD_IDLE" <=> usbdfu_state = "DNLOAD_IDLE"
        BY DEF Status
      <4> QED
        BY <1>6, <3>1, <4>1, <4>2, <2>1 DEF HostStatus, Connected, HostType, Status
    <3> QED
      BY <3>2, <3>3
  <2> QED
    BY <2>2, <2>3
<1>7. ASSUME HostAbort PROVE TypeInv' /\ SessionInv'
  BY <1>7 DEF HostAbort, Connected, NoHost, HostType
<1>8. ASSUME HostGivesUp PROVE TypeInv' /\ SessionInv'
  BY <1>8 DEF HostGivesUp, Connected, NoHost, HostType
<1> QED
  BY <1>0, <1>1, <1>2, <1>3, <1>4, <1>5, <1>6, <1>7, <1>8 DEF Next
----------------------------------------------------------------------------
(* What the device does at the host's step                                    *)

\* What a step of the work leaves in flash at each block.
LEMMA WorkAt ==
    ASSUME TypeInv, AtTheFlash
    PROVE  /\ prog.op = "erase" => \A x \in Blocks :
                 IF PageNo[x] = PageNo[prog.arg]
                 THEN flash'[x] \in {flash[x], Erased} /\ (x \notin failed' => flash'[x] = Erased)
                 ELSE flash'[x] = flash[x] /\ (x \notin failed' => x \notin failed)
           /\ prog.op = "block" => \A x \in Blocks :
                 /\ x \notin failed' => x \notin failed
                 /\ x # Programmed => flash'[x] = flash[x]
                 /\ flash'[x] \in {flash[x], prog.image, Half}
                 /\ x = Programmed /\ x \notin failed' /\ flash[x] \in {Erased, prog.image} => flash'[x] = prog.image
           /\ prog.op \notin {"erase", "block"} => flash' = flash /\ failed' = failed
<1> USE DEF TypeInv, TypeOK
<1>0. PICK S \in SUBSET (Touched \cap Weak) :
          flash' \in Worked(S) /\ failed' = S \cup (IF prog.op = "erase" THEN failed \ Touched ELSE failed)
  BY DEF AtTheFlash
<1>1. CASE prog.op = "erase"
  <2>1. Touched = PageOf(prog.arg) /\ flash' = ErasedAt(PageOf(prog.arg) \ S) /\ failed' = S \cup (failed \ Touched)
    BY <1>0, <1>1 DEF Touched, Worked
  <2>2. \A x \in Blocks : flash'[x] = IF x \in PageOf(prog.arg) \ S THEN Erased ELSE flash[x]
    BY <2>1 DEF ErasedAt
  <2>3. \A x \in Blocks : x \in PageOf(prog.arg) <=> PageNo[x] = PageNo[prog.arg]
    BY DEF PageOf
  <2> QED
    BY <1>0, <1>1, <2>1, <2>2, <2>3
<1>2. CASE prog.op = "block"
  <2>1. Touched \subseteq {Programmed} /\ failed' = S \cup failed
    BY <1>0, <1>2 DEF Touched
  <2>2. flash' \in (IF S = {} THEN {ProgrammedAt(Programmed, prog.image)}
                    ELSE {ProgrammedAt(Programmed, Half), flash})
    BY <1>0, <1>2 DEF Worked
  <2>3. CASE S = {}
    <3>1. \A x \in Blocks : flash'[x] = IF x # Programmed THEN flash[x]
                                       ELSE IF flash[x] \in {Erased, prog.image} THEN prog.image ELSE Half
      BY <2>2, <2>3 DEF ProgrammedAt
    <3> QED
      BY <1>2, <2>1, <3>1
  <2>4. CASE S # {}
    <3>1. \A x \in Blocks : flash'[x] \in {flash[x], Half} /\ (x # Programmed => flash'[x] = flash[x])
      BY <2>2, <2>4 DEF ProgrammedAt
    <3>2. Programmed \in failed'
      BY <1>0, <2>1, <2>4
    <3> QED
      BY <1>2, <2>1, <3>1, <3>2
  <2> QED
    BY <2>3, <2>4
<1>3. CASE prog.op \notin {"erase", "block"}
  <2>1. Touched = {} /\ flash' = flash
    BY <1>0, <1>3 DEF Touched, Worked
  <2> QED
    BY <1>0, <1>3, <2>1
<1> QED
  BY <1>1, <1>2, <1>3

\* What the work interrupted by a power failure may leave there.
LEMMA UnderwayAt ==
    ASSUME TypeInv, NEW f \in Underway, NEW x \in Blocks
    PROVE  /\ prog.op = "block" => f[x] \in {flash[x], Half}
           /\ prog.op # "block" => f[x] \in {flash[x], Erased}
<1> USE DEF TypeInv, TypeOK
<1>1. CASE prog.op = "erase"
  BY <1>1 DEF Underway, ErasedAt, PageOf
<1>2. CASE prog.op = "block"
  <2>1. ProgrammedAt(Programmed, Half)[x] \in {flash[x], Half}
    BY DEF ProgrammedAt
  <2> QED
    BY <1>2, <2>1 DEF Underway
<1>3. CASE prog.op \notin {"erase", "block"}
  BY <1>3 DEF Underway
<1> QED
  BY <1>1, <1>2, <1>3

\* While the device is at work for a host that has had an answer, it works at the
\* host's step.
LEMMA WorkIsMine ==
    ASSUME TypeInv, SessionInv, working, host.image # 0, host.step > 1 \/ host.phase = "status"
    PROVE  Mine /\ host.step < LastStep
<1>1. usbdfu_state = "DNBUSY" /\ host.step \in 1..LastStep
  BY DEF SessionInv, TypeInv, TypeOK
<1>2. host.step # LastStep
  BY <1>1 DEF SessionInv
<1>3. host.step < LastStep
  BY <1>1, <1>2, Constants
<1> QED
  BY <1>1, <1>3 DEF SessionInv

----------------------------------------------------------------------------
(* What was acknowledged is in flash                                          *)

LEMMA AckedWork == TypeInv /\ SessionInv /\ AckedInv /\ Work => AckedInv'
<1> SUFFICES ASSUME TypeInv, SessionInv, AckedInv, Work, host.image # 0 PROVE AckedInv'
  BY DEF AckedInv, Work
<1>1. /\ working /\ AtTheFlash /\ host' = host
      /\ prog'.addr = IF prog.op \in {"erase", "setaddr"} THEN prog.arg ELSE prog.addr
  BY DEF Work, TypeInv, ProgType
<1>2. host.step \in 1..LastStep /\ host.phase \in {"request", "status"} /\ prog \in ProgType
  BY DEF TypeInv, TypeOK, HostType
<1>3. CASE host.step = 1 /\ host.phase = "request"
  <2>1. ~(1 > Pages + 1) /\ \A b \in Blocks : ~(PageNo[b] < 1) /\ ~(1 >= Pages + 1 + b)
    BY Constants
  <2> QED
    BY <1>1, <1>3, <2>1, Constants DEF AckedInv
<1>4. CASE host.step > 1 \/ host.phase = "status"
  <2>1. Mine /\ host.step < LastStep
    BY <1>1, <1>2, <1>4, WorkIsMine
  <2>2. CASE host.step \in 1..Pages
    <3>1. prog.op = "erase" /\ PageNo[prog.arg] = host.step
      BY <2>1, <2>2, PlanErase DEF Mine
    <3>2. \A x \in Blocks \ failed' : IF PageNo[x] = host.step THEN flash'[x] = Erased
                                      ELSE flash'[x] = flash[x] /\ x \notin failed
      BY <1>1, <3>1, WorkAt
    <3>3. ~(host.step > Pages + 1) /\ host.step # Pages + 1
      BY ONLY <2>2, Constants
    <3>4. ASSUME NEW b \in Blocks
          PROVE  /\ ~(host.step > Pages + 1 + b) /\ host.step # Pages + 1 + b
                 /\ PageNo[b] < host.step => PageNo[b] # host.step
      BY ONLY <2>2, <3>4, Constants
    <3> QED
      BY <1>1, <3>2, <3>3, <3>4 DEF AckedInv
  <2>3. CASE host.step = Pages + 1
    <3>1. prog.op = "setaddr" /\ prog.arg = 1
      BY <2>1, <2>3, PlanOther DEF Mine
    <3>2. flash' = flash /\ failed' = failed /\ prog'.addr = 1
      BY <1>1, <1>2, <3>1, WorkAt DEF ProgType
    <3>3. ASSUME NEW b \in Blocks
          PROVE  ~(host.step > Pages + 1 + b) /\ host.step # PageNo[b] /\ host.step # Pages + 1 + b
      BY ONLY <2>3, <3>3, Constants
    <3> QED
      BY <1>1, <3>2, <3>3 DEF AckedInv
  <2>4. ASSUME NEW c \in Blocks, host.step = Pages + 1 + c PROVE AckedInv'
    <3>1. prog.op = "block" /\ prog.arg = c + 1 /\ prog.image = host.image
      <4>1. Plan(host.step) = [op |-> "block", arg |-> c + 1]
        BY ONLY <2>4, PlanOther
      <4> QED
        BY <2>1, <4>1 DEF Mine
    <3>2. prog.addr = 1 /\ prog'.addr = 1 /\ Programmed = c
      <4>1. c \in Nat /\ c > 0 /\ host.step > Pages + 1 /\ 1 + (c + 1) - 2 = c
        BY ONLY <2>4, Constants
      <4> QED
        BY <1>1, <3>1, <4>1 DEF AckedInv, Programmed
    <3>3. c \notin failed => flash[c] \in {Erased, host.image}
      BY <2>4 DEF AckedInv
    <3>4. \A x \in Blocks \ failed' : x \notin failed /\ flash'[x] = IF x = c THEN host.image ELSE flash[x]
      BY <1>1, <3>1, <3>2, <3>3, WorkAt
    <3>5. \A b \in Blocks : host.step # PageNo[b] /\ (host.step = Pages + 1 + b <=> b = c)
      BY <2>4, Constants
    <3> QED
      BY <1>1, <2>4, <3>2, <3>4, <3>5, Constants DEF AckedInv
  <2> QED
    BY <1>2, <2>1, <2>2, <2>3, <2>4, Steps
<1> QED
  BY <1>2, <1>3, <1>4, Constants

LEMMA AckedStep == TypeInv /\ SessionInv /\ AckedInv /\ [Next]_vars => AckedInv'
<1> SUFFICES ASSUME TypeInv, SessionInv, AckedInv, [Next]_vars PROVE AckedInv'
  OBVIOUS
<1>0. UNCHANGED vars => AckedInv'
  BY DEF vars, AckedInv
<1>1. ASSUME host'.image = 0 PROVE AckedInv'
  BY <1>1 DEF AckedInv
<1>2. ASSUME Boot PROVE AckedInv'
  BY <1>2, <1>1 DEF Boot, SessionInv
<1>3. ASSUME PowerFail \/ HostAbort \/ HostGivesUp PROVE AckedInv'
  BY <1>3, <1>1, NoHostType DEF PowerFail, HostAbort, HostGivesUp
<1>4. ASSUME Begin PROVE AckedInv'
  <2>1. host'.step = 1 /\ host'.phase = "request"
    BY <1>4 DEF Begin, NoHost
  <2>2. ~(1 > Pages + 1) /\ \A b \in Blocks : ~(PageNo[b] < 1) /\ ~(1 >= Pages + 1 + b)
    BY Constants
  <2> QED
    BY <2>1, <2>2, Constants DEF AckedInv
<1>5. ASSUME NEW end \in {"seen", "unseen"}, HostDownload(end) PROVE AckedInv'
  <2>1. flash' = flash /\ failed' = failed /\ host'.image = host.image /\ host'.step = host.step
    BY <1>5 DEF HostDownload, TypeInv, HostType
  <2>2. usbdfu_state' # "DNLOAD_IDLE" /\ prog'.addr = prog.addr
    BY <1>5 DEF HostDownload, Download
  <2> QED
    BY <2>1, <2>2 DEF AckedInv
<1>6. ASSUME NEW end \in {"seen", "unseen", "cut"}, HostStatus(end) PROVE AckedInv'
  <2>1. CASE host' = NoHost
    BY <2>1, <1>1, NoHostType
  <2>2. CASE host' = host /\ host' # NoHost
    <3>1. flash' = flash /\ failed' = failed /\ prog' = prog /\ (usbdfu_state' = "DNLOAD_IDLE" => usbdfu_state = "DNLOAD_IDLE")
      BY <1>6, <2>2 DEF HostStatus, Status
    <3> QED
      BY <2>2, <3>1 DEF AckedInv
  <2>3. CASE host' = [host EXCEPT !.step = @ + 1, !.phase = "request"] /\ host' # NoHost /\ host' # host
    <3>1. /\ flash' = flash /\ failed' = failed /\ prog' = prog
          /\ host.phase = "status" /\ usbdfu_state = "DNLOAD_IDLE" /\ host.image # 0
      BY <1>6, <2>3 DEF HostStatus, Status, Connected
    <3>2. /\ host'.step = host.step + 1 /\ host'.phase = "request" /\ host'.image = host.image
          /\ host.step \in 1..LastStep
      BY <2>3 DEF TypeInv, TypeOK, HostType
    <3>3. host'.step > Pages + 1 => prog.addr = 1
      BY <3>1, <3>2, Constants DEF AckedInv
    <3>4. ASSUME NEW b \in Blocks \ failed
          PROVE  /\ host'.step > Pages + 1 + b => flash[b] = host.image
                 /\ PageNo[b] < host'.step /\ host'.step < Pages + 1 + b => flash[b] = Erased
                 /\ host'.step = Pages + 1 + b => flash[b] \in {Erased, host.image}
      <4>1. PageNo[b] \in 1..Pages /\ b \in Nat /\ b > 0 /\ Pages \in Nat /\ host.step \in Nat
        BY <3>2, Constants DEF Blocks
      <4>2. /\ host.step > Pages + 1 + b \/ host.step = Pages + 1 + b => flash[b] = host.image
            /\ PageNo[b] < host.step /\ host.step < Pages + 1 + b => flash[b] = Erased
            /\ host.step = PageNo[b] => flash[b] = Erased
        BY <3>1 DEF AckedInv
      <4> QED
        BY <3>2, <4>1, <4>2
    <3> QED
      BY <3>1, <3>2, <3>3, <3>4 DEF AckedInv
  <2> QED
    BY <1>6, <2>1, <2>2, <2>3 DEF HostStatus
<1> QED
  BY <1>0, <1>2, <1>3, <1>4, <1>5, <1>6, AckedWork DEF Next

----------------------------------------------------------------------------
(* The program that runs is not made of parts of two                          *)

\* A block is asked for only when the flash holds nothing but the host's program.
LEMMA OwnParts ==
    ASSUME TypeInv, AckedInv, host.image # 0, host.step > Pages + 1
    PROVE  PartsOf(host.image)
<1> SUFFICES ASSUME NEW b \in Blocks \ failed PROVE flash[b] \in {host.image, Half, Erased}
  BY DEF PartsOf
<1>1. /\ host.step > Pages + 1 + b => flash[b] = host.image
      /\ PageNo[b] < host.step /\ host.step < Pages + 1 + b => flash[b] = Erased
      /\ host.step = Pages + 1 + b => flash[b] \in {Erased, host.image}
  BY DEF AckedInv
<1>2. /\ PageNo[b] < host.step
      /\ host.step > Pages + 1 + b \/ host.step < Pages + 1 + b \/ host.step = Pages + 1 + b
  <2>1. host.step \in Nat
    BY Constants DEF TypeInv, TypeOK
  <2> QED
    BY <2>1, Constants
<1> QED
  BY <1>1, <1>2

LEMMA MixStep == TypeInv /\ SessionInv /\ AckedInv /\ MixInv /\ [Next]_vars => MixInv'
<1> SUFFICES ASSUME TypeInv, SessionInv, AckedInv, MixInv, [Next]_vars PROVE MixInv'
  OBVIOUS
<1>0. ASSUME flash' = flash, failed' = failed, prog' = prog, mode' = mode \/ mode' # "app" PROVE MixInv'
  BY <1>0 DEF MixInv, NeverMixed, PartsOf
<1>1. ASSUME Boot PROVE MixInv'
  <2>1. flash' = flash /\ failed' = failed /\ prog'.op = "none" /\ (mode' = "app" => flash[1] # Erased)
    BY <1>1 DEF Boot, Boots, Half, Erased
  <2> QED
    BY <2>1 DEF MixInv, NeverMixed, PartsOf
<1>2. ASSUME Work PROVE MixInv'
  <2>1. /\ mode' = "boot" /\ AtTheFlash
        /\ prog'.op = prog.op /\ prog'.image = prog.image
    BY <1>2 DEF Work, SessionInv, TypeInv, ProgType
  <2>2. CASE prog.op = "block"
    <3>1. prog.image \in 1..MaxPrograms /\ PartsOf(prog.image)
      BY <2>2, Constants DEF MixInv, TypeInv, ProgType
    <3>2. PartsOf(prog.image)'
      BY <2>1, <2>2, <3>1, WorkAt DEF PartsOf
    <3> QED
      BY <2>1, <3>1, <3>2 DEF MixInv, NeverMixed, PartsOf
  <2>3. CASE prog.op # "block"
    <3>1. /\ \A x \in Blocks : flash'[x] \in {flash[x], Erased}
          /\ \A x \in Blocks \ failed' : flash'[x] = Erased \/ (flash'[x] = flash[x] /\ x \notin failed)
      <4>1. CASE prog.op = "erase"
        BY <2>1, <4>1, WorkAt
      <4>2. CASE prog.op # "erase"
        BY <2>1, <2>3, <4>2, WorkAt
      <4> QED
        BY <4>1, <4>2
    <3>2. flash'[1] # Erased => flash[1] # Erased
      BY <3>1, Constants
    <3>3. \A v : PartsOf(v) => PartsOf(v)'
      BY <3>1 DEF PartsOf
    <3> QED
      BY <2>1, <2>3, <3>2, <3>3 DEF MixInv, NeverMixed
  <2> QED
    BY <2>2, <2>3
<1>3. ASSUME PowerFail PROVE MixInv'
  <2>1. mode' = "off" /\ failed' = failed /\ prog' = prog /\ (working => flash' \in Underway) /\ (~working => flash' = flash)
    BY <1>3 DEF PowerFail
  <2>2. CASE ~working
    BY <1>0, <2>1, <2>2
  <2>3. CASE working /\ prog.op = "block"
    <3>1. \A x \in Blocks : flash'[x] \in {flash[x], Half}
      BY <2>1, <2>3, UnderwayAt
    <3>2. prog.image \in 1..MaxPrograms /\ PartsOf(prog.image)
      BY <2>3, Constants DEF MixInv, TypeInv, ProgType
    <3>3. PartsOf(prog.image)'
      BY <2>1, <3>1, <3>2 DEF PartsOf
    <3> QED
      BY <2>1, <3>2, <3>3 DEF MixInv, NeverMixed, PartsOf
  <2>4. CASE working /\ prog.op # "block"
    <3>1. \A x \in Blocks : flash'[x] \in {flash[x], Erased}
      BY <2>1, <2>4, UnderwayAt
    <3>2. flash'[1] # Erased => flash[1] # Erased
      BY <3>1, Constants
    <3>3. \A v : PartsOf(v) => PartsOf(v)'
      BY <2>1, <3>1 DEF PartsOf
    <3> QED
      BY <2>1, <2>4, <3>2, <3>3 DEF MixInv, NeverMixed
  <2> QED
    BY <2>2, <2>3, <2>4
<1>4. ASSUME Begin PROVE MixInv'
  BY <1>0, <1>4 DEF Begin
<1>5. ASSUME NEW end \in {"seen", "unseen"}, HostDownload(end) PROVE MixInv'
  <2>1. flash' = flash /\ failed' = failed /\ mode' = mode /\ mode = "boot" /\ host.image # 0 /\ host.step \in 1..LastStep
    BY <1>5 DEF HostDownload, Connected, TypeInv, TypeOK
  <2>2. CASE prog' = prog
    BY <1>0, <2>1, <2>2
  <2>3. CASE prog'.op = Plan(host.step).op /\ prog'.image = host.image
    <3>1. ASSUME prog'.op = "block" PROVE PartsOf(host.image)
      <4>1. PICK b \in Blocks : host.step = Pages + 1 + b
        BY <2>1, <2>3, <3>1, PlanType
      <4>2. host.step > Pages + 1
        BY ONLY <4>1, Constants
      <4> QED
        BY <2>1, <4>2, OwnParts
    <3> QED
      BY <2>1, <2>3, <3>1 DEF MixInv, NeverMixed, PartsOf
  <2> QED
    BY <1>5, <2>2, <2>3 DEF HostDownload, Download
<1>6. ASSUME NEW end \in {"seen", "unseen", "cut"}, HostStatus(end) PROVE MixInv'
  BY <1>0, <1>6 DEF HostStatus
<1>7. ASSUME HostAbort \/ HostGivesUp PROVE MixInv'
  BY <1>0, <1>7 DEF HostAbort, HostGivesUp
<1>8. ASSUME UNCHANGED vars PROVE MixInv'
  BY <1>0, <1>8 DEF vars
<1> QED
  BY <1>1, <1>2, <1>3, <1>4, <1>5, <1>6, <1>7, <1>8 DEF Next

----------------------------------------------------------------------------
(* The theorems                                                               *)

LEMMA InitLemma == Init => TypeInv /\ SessionInv /\ AckedInv /\ MixInv
<1> SUFFICES ASSUME Init PROVE TypeInv /\ SessionInv /\ AckedInv /\ MixInv
  OBVIOUS
<1> USE Constants DEF Init
<1>1. TypeInv
  <2>1. flash \in [Blocks -> -1..MaxPrograms]
    OBVIOUS
  <2>2. prog \in ProgType
    BY DEF ProgType
  <2> QED
    BY <2>1, <2>2, NoHostType DEF TypeInv, TypeOK
<1>2. SessionInv /\ AckedInv
  BY NoHostType DEF SessionInv, AckedInv
<1>3. MixInv
  BY DEF MixInv, NeverMixed, PartsOf
<1> QED
  BY <1>1, <1>2, <1>3

LEMMA Invariance == Spec => [](TypeInv /\ SessionInv /\ AckedInv /\ MixInv)
<1>1. TypeInv /\ SessionInv /\ AckedInv /\ MixInv /\ [Next]_vars
      => (TypeInv /\ SessionInv /\ AckedInv /\ MixInv)'
  BY TypeStep, AckedStep, MixStep
<1> QED
  BY <1>1, InitLemma, PTL DEF Spec

\* The state stays in its type: above all the host's step, which a device that
\* answered dfuDNLOAD-IDLE to the end of a download would let run past the plan.
THEOREM TypeCorrect == Spec => []TypeOK
<1>1. TypeInv => TypeOK
  BY DEF TypeInv
<1> QED
  BY <1>1, Invariance, PTL

\* Whatever requests are repeated and whichever of their ends the host misses, the
\* pages and blocks it has seen acknowledged are in flash as it sent them.
THEOREM AckedCorrect == Spec => []AckedInFlash
<1>1. AckedInv => AckedInFlash
  BY DEF AckedInv, AckedInFlash
<1> QED
  BY <1>1, Invariance, PTL

\* However downloads are cut short by the host or by a power failure, the boot
\* loader never starts a program made of parts of two.
THEOREM NeverMixedCorrect == Spec => []NeverMixed
<1>1. MixInv => NeverMixed
  BY DEF MixInv
<1> QED
  BY <1>1, Invariance, PTL
=============================================================================
