--------------------------- MODULE OrderedChannel ---------------------------
(* What a byte or packet path of the adapter promises to its far end at the *)
(* least: items are numbered 1, 2, 3 ... in the order they are handed in,   *)
(* and each one that comes out was handed in and is newer than every one    *)
(* that came out before.  Items may be lost; none is duplicated, reordered  *)
(* or made up.  Deliveries are counted, so that the newest item coming out  *)
(* again is a step this module has no action for, and not a stutter.        *)
EXTENDS Integers

VARIABLES sent,   \* how many items were handed in
          got,    \* number of the newest item that came out, 0 for none
          count   \* how many deliveries there were

vars == <<sent, got, count>>

Init == sent = 0 /\ got = 0 /\ count = 0

Send == sent' = sent + 1 /\ UNCHANGED <<got, count>>

\* A delivery may be several items at once (a whole USB packet); the newest of
\* them is what "got" remembers.
Deliver == \E n \in (got + 1)..sent : got' = n /\ count' = count + 1 /\ UNCHANGED sent

Next == Send \/ Deliver

Spec == Init /\ [][Next]_vars
=============================================================================
