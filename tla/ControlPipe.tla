---------------------------- MODULE ControlPipe ----------------------------
(* What a control pipe promises its host: requests are numbered in the order  *)
(* the host makes them; the device handles a request at most once, while it   *)
(* is the current one, before the host sees it end, and never one it refuses; *)
(* what is left to do afterwards it begins at most once, when the host has     *)
(* seen the end. It counts what the device does, so that doing it again is no  *)
(* step of the pipe.                                                         *)
EXTENDS Naturals

VARIABLES no,        \* the host's last request
          phase,     \* "made", "handled", "refused"; "done" or "failed" for the host
          ended,     \* the last request that was done for the host
          completed, \* the last request whose rest the device has begun
          times,     \* how often the device has handled one, since the last was made
          reports    \* how often it has begun the rest of one, since then

Init == no = 0 /\ phase = "done" /\ ended = 0 /\ completed = 0 /\ times = 0 /\ reports = 0

Make   == /\ no' = no + 1 /\ phase' = "made" /\ times' = 0 /\ reports' = 0
          /\ UNCHANGED <<ended, completed>>
Handle == /\ phase = "made" /\ phase' = "handled" /\ times' = times + 1
          /\ UNCHANGED <<no, ended, completed, reports>>
Refuse == phase = "made" /\ phase' = "refused" /\ UNCHANGED <<no, ended, completed, times, reports>>
Finish == phase = "handled" /\ phase' = "done" /\ ended' = no /\ UNCHANGED <<no, completed, times, reports>>
Fail   == phase # "done" /\ phase' = "failed" /\ UNCHANGED <<no, ended, completed, times, reports>>
Complete == /\ completed < ended /\ completed' = ended /\ reports' = reports + 1
            /\ UNCHANGED <<no, phase, ended, times>>

Next == Make \/ Handle \/ Refuse \/ Finish \/ Fail \/ Complete

Spec == Init /\ [][Next]_<<no, phase, ended, completed, times, reports>>
=============================================================================
