----------------------------- MODULE MCDfuBoot -----------------------------
(* An instance of DfuBoot: the pages have two blocks, as those of the chips   *)
(* with 2048 bytes have, the last one perhaps fewer.                          *)
EXTENDS DfuBoot

MCPageNo == [b \in 1..Size |-> (b + 1) \div 2]
=============================================================================
