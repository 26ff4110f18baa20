--------------------------- MODULE MCRingChannel ----------------------------
(* Small instances of RingChannel: the ring has three or four cells, and the *)
(* run stops exploring once MaxPuts items were put, enough to go round the  *)
(* ring several times with every cell in every position.                    *)
EXTENDS RingChannel

CONSTANT MaxPuts

PutsBound == puts <= MaxPuts
=============================================================================
