------------------------------ MODULE DfuBoot ------------------------------
(* The boot loader: the decision at power-up which program to start, and      *)
(* downloading one over USB in the DFU protocol with ST's commands.           *)
(*                                                                          *)
(* Everything runs in one loop (usbd_poll), so that requests, the work done   *)
(* after the status stage of GETSTATUS, and the boot decision each are one    *)
(* step. A request may reach the device without its end reaching the host,    *)
(* the host may repeat it or give up, and power may fail at any time, in the  *)
(* middle of erasing or programming too.                                      *)
(*                                                                          *)
(* Flash is counted in blocks of wTransferSize from APP_ADDRESS on; a block    *)
(* holds the number of a program, or is erased, or has been written halfway.  *)
(* Erasing or programming a block may fail, which nobody notices.             *)
EXTENDS Integers

CONSTANTS Size,        \* blocks of a program
          Pages,       \* pages of flash that it takes
          PageNo,      \* the page of a block
          Weak,        \* blocks at which erasing and programming may fail
          MaxPrograms  \* bound: programs, the one in flash at first included

ASSUME FlashAssumption == /\ {Size, Pages, MaxPrograms} \subseteq Nat \ {0}
                          /\ PageNo \in [1..Size -> 1..Pages]
                          /\ \A i \in 1..Pages : \E b \in 1..Size : PageNo[b] = i
                          /\ Weak \subseteq 1..Size

VARIABLES
    flash,         \* the program's blocks
    failed,        \* history: blocks at which a step failed since they were last erased
    mode,          \* the processor: "off", in the "boot" loader, or in the "app"
    usbdfu_state,  \* usbdfu_state, the names without STATE_DFU_
    prog,          \* prog: a command of blocknum 0 or a block; addr
    working,       \* getstatus_complete is at the flash
    host           \* [image, step, phase] of the download; image 0: none

vars == <<flash, failed, mode, usbdfu_state, prog, working, host>>

Blocks == 1..Size
Erased == 0
Half   == -1

(* The host erases all pages, sets the address and sends the blocks, numbered *)
(* from 2; a download without data is the end.                                *)
LastStep == Pages + Size + 2

Plan(i) ==
    CASE i <= Pages    -> [op |-> "erase", arg |-> CHOOSE b \in Blocks : PageNo[b] = i]
      [] i = Pages + 1 -> [op |-> "setaddr", arg |-> 1]
      [] i = LastStep  -> [op |-> "end", arg |-> 0]
      [] OTHER         -> [op |-> "block", arg |-> i - Pages]

NoHost == [image |-> 0, step |-> 1, phase |-> "request"]

Init ==
    /\ flash = [b \in Blocks |-> 1] /\ failed = {}
    /\ mode = "off" /\ usbdfu_state = "IDLE"
    /\ prog = [op |-> "none", arg |-> 0, image |-> 0, addr |-> 0]
    /\ working = FALSE /\ host = NoHost

----------------------------------------------------------------------------
(* The device, with the faulty variants of its steps before each.             *)

\* main up to its loop: the top of the stack is in the first block.
Boots == IF flash[1] = Erased THEN {"boot"} ELSE IF flash[1] = Half THEN {"app", "boot"} ELSE {"app"}

\* Power-up; the button leads to the boot loader.
Boot ==
    /\ mode = "off" /\ mode' \in {"boot"} \cup Boots
    /\ usbdfu_state' = "IDLE" /\ prog' = [op |-> "none", arg |-> 0, image |-> 0, addr |-> 0]
    /\ UNCHANGED <<flash, failed, working, host>>

\* Faulty: a block is not taken while another waits to be programmed.
DownloadWhenIdle(r, image) ==
    IF r.op = "end" THEN usbdfu_state' = "MANIFEST_SYNC" /\ UNCHANGED prog
    ELSE /\ usbdfu_state' = "DNLOAD_SYNC"
         /\ prog' = IF usbdfu_state = "DNLOAD_SYNC" THEN prog
                    ELSE [op |-> r.op, arg |-> r.arg, image |-> image, addr |-> prog.addr]

\* usbdfu_control_request, DFU_DNLOAD: in every state
Download(r, image) ==
    IF r.op = "end" THEN usbdfu_state' = "MANIFEST_SYNC" /\ UNCHANGED prog
    ELSE /\ usbdfu_state' = "DNLOAD_SYNC"
         /\ prog' = [op |-> r.op, arg |-> r.arg, image |-> image, addr |-> prog.addr]

\* Faulty: the manifest goes back to dfuDNLOAD-IDLE.
StatusBack(s) == CASE s = "DNLOAD_SYNC" -> "DNBUSY" [] s = "MANIFEST_SYNC" -> "DNLOAD_IDLE" [] OTHER -> s

\* usbdfu_getstatus: the state it leaves and answers
Status(s) == CASE s = "DNLOAD_SYNC" -> "DNBUSY" [] s = "MANIFEST_SYNC" -> "MANIFEST" [] OTHER -> s

\* The block that getstatus_complete programs
Programmed == prog.addr + prog.arg - 2

\* Faulty: the page taken for as large as a block.
PageOfTransfer(b) == {b}

\* What erasing at b erases
PageOf(b) == {x \in Blocks : PageNo[x] = PageNo[b]}

\* Flash after erasing a part of it, and with a value programmed. A cell takes a
\* value only when it is erased (PGERR); the result is not looked at.
ErasedAt(P) == [b \in Blocks |-> IF b \in P THEN Erased ELSE flash[b]]
ProgrammedAt(b, v) == [flash EXCEPT ![b] = IF @ \in {Erased, v} THEN v ELSE Half]

\* Flash in the middle of getstatus_complete, and after it
Underway ==
    CASE prog.op = "erase" -> {ErasedAt(P) : P \in SUBSET PageOf(prog.arg)}
      [] prog.op = "block" -> {ProgrammedAt(Programmed, Half), flash}
      [] OTHER -> {flash}

\* The blocks that getstatus_complete erases or programs
Touched ==
    CASE prog.op = "erase" -> PageOf(prog.arg)
      [] prog.op = "block" -> {Programmed} \cap Blocks
      [] OTHER -> {}

\* The flash it may leave when it fails at the blocks S.
Worked(S) ==
    CASE prog.op = "erase" -> {ErasedAt(PageOf(prog.arg) \ S)}
      [] prog.op = "block" -> IF S = {} THEN {ProgrammedAt(Programmed, prog.image)}
                              ELSE {ProgrammedAt(Programmed, Half), flash}
      [] OTHER -> {flash}

\* What ErasePage returns is ignored, and WriteHalfword returns true in any case.
AtTheFlash ==
    \E S \in SUBSET (Touched \cap Weak) :
        /\ flash' \in Worked(S)
        /\ failed' = S \cup (IF prog.op = "erase" THEN failed \ Touched ELSE failed)

\* Faulty: stays busy.
WorkBusy ==
    /\ working /\ working' = FALSE /\ AtTheFlash /\ UNCHANGED <<usbdfu_state, mode, host, prog>>

\* usbdfu_getstatus_complete, DNBUSY
Work ==
    /\ working /\ working' = FALSE /\ AtTheFlash
    /\ usbdfu_state' = "DNLOAD_IDLE"
    /\ prog' = IF prog.op \in {"erase", "setaddr"} THEN [prog EXCEPT !.addr = prog.arg] ELSE prog
    /\ UNCHANGED <<mode, host>>

PowerFail ==
    /\ mode # "off" /\ mode' = "off"
    /\ flash' \in (IF working THEN Underway ELSE {flash})
    /\ working' = FALSE /\ host' = NoHost
    /\ UNCHANGED <<failed, usbdfu_state, prog>>

----------------------------------------------------------------------------
(* The host and the requests it makes. "unseen": the device does all of it,   *)
(* the host sees an error; "cut": the status stage of GETSTATUS is missing.   *)

Connected == mode = "boot" /\ ~working /\ host.image # 0

Begin ==
    /\ mode = "boot" /\ ~working /\ host.image = 0
    /\ \E v \in 2..MaxPrograms : (\A b \in Blocks : flash[b] < v) /\ prog.image < v
                                 /\ host' = [NoHost EXCEPT !.image = v]
    /\ UNCHANGED <<flash, failed, mode, usbdfu_state, prog, working>>

HostDownload(end) ==
    /\ Connected /\ host.phase = "request"
    /\ Download(Plan(host.step), host.image)
    /\ host' = IF end = "seen" THEN [host EXCEPT !.phase = "status"] ELSE host
    /\ UNCHANGED <<flash, failed, mode, working>>

\* A host may ask for the status at any time and waits for dfuDNLOAD-IDLE.
HostStatus(end) ==
    /\ Connected
    /\ LET s == Status(usbdfu_state)
       IN  /\ working' = (s = "DNBUSY" /\ end # "cut")
           /\ IF s = "MANIFEST" /\ end # "cut" THEN mode' = "off" /\ host' = NoHost /\ usbdfu_state' = s
              ELSE /\ usbdfu_state' = s /\ UNCHANGED mode
                   /\ host' = IF end = "seen" /\ host.phase = "status" /\ s = "DNLOAD_IDLE"
                              THEN [host EXCEPT !.step = @ + 1, !.phase = "request"] ELSE host
    /\ UNCHANGED <<flash, failed, prog>>

HostAbort ==
    /\ Connected /\ usbdfu_state' = "IDLE" /\ host' = NoHost
    /\ UNCHANGED <<flash, failed, mode, prog, working>>

\* The host dies or its cable is pulled.
HostGivesUp ==
    /\ Connected /\ host' = NoHost
    /\ UNCHANGED <<flash, failed, mode, usbdfu_state, prog, working>>

Next ==
    \/ Boot \/ Work \/ PowerFail \/ Begin
    \/ \E end \in {"seen", "unseen"} : HostDownload(end)
    \/ \E end \in {"seen", "unseen", "cut"} : HostStatus(end)
    \/ HostAbort \/ HostGivesUp

Spec == Init /\ [][Next]_vars

\* usbd_poll in an endless loop; a host that goes on gets through at last.
FairSpec ==
    /\ Spec /\ WF_vars(Work) /\ WF_vars(Boot)
    /\ SF_vars(HostDownload("seen")) /\ SF_vars(HostStatus("seen") /\ host.phase = "status")

----------------------------------------------------------------------------
TypeOK ==
    /\ flash \in [Blocks -> -1..MaxPrograms] /\ failed \subseteq Blocks
    /\ mode \in {"off", "boot", "app"} /\ working \in BOOLEAN
    /\ usbdfu_state \in {"IDLE", "DNLOAD_SYNC", "DNBUSY", "DNLOAD_IDLE", "MANIFEST_SYNC", "MANIFEST"}
    /\ host.image \in 0..MaxPrograms /\ host.step \in 1..LastStep

\* What the host has seen acknowledged is in flash: a page it erased is erased
\* until it sends the page's blocks, and the blocks it sent are there, all but those
\* at which the flash itself failed, which the loader acknowledges like the rest.
AckedInFlash ==
    host.image # 0 =>
        \A b \in Blocks \ failed :
            /\ host.step > Pages + 1 + b => flash[b] = host.image
            /\ PageNo[b] < host.step /\ host.step < Pages + 1 + b => flash[b] = Erased

\* A program that runs may have holes where its download or the erasure of its
\* pages was cut short, but is never made of parts of two, unless the flash failed:
\* then the rest still is of one.
NeverMixed ==
    mode = "app" => \E v \in 1..MaxPrograms : \A b \in Blocks \ failed : flash[b] \in {v, Half, Erased}

\* A download comes to an end if the host goes on with it.
DownloadEnds == host.image # 0 ~> host.image = 0
=============================================================================
