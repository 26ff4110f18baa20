----------------------------- MODULE CanChannels ----------------------------
(* What the host may expect of the CAN channels: a channel it opens passes   *)
(* every frame of its bus until a filter command narrows it to the filters   *)
(* stored for that channel, and commands for one channel leave the frames    *)
(* the other one passes alone.                                              *)
CONSTANTS Channels, Slots,  \* the CAN channels; the filter numbers of one channel
          Filters, NoFilter, Frames

VARIABLES open,     \* the channel is open
          filters,  \* filters[ch][slot]: the host's filter, or NoFilter
          passed    \* passed[ch]: the frames an open channel lets through

vars == <<open, filters, passed>>

Stored(ch) == {filters[ch][s] : s \in Slots} \ {NoFilter}

Init ==
    /\ open = [ch \in Channels |-> FALSE]
    /\ filters = [ch \in Channels |-> [s \in Slots |-> NoFilter]]
    /\ passed = [ch \in Channels |-> {}]

\* The start-up handshake forgets everything.
Handshake ==
    /\ open' = [ch \in Channels |-> FALSE]
    /\ filters' = [ch \in Channels |-> [s \in Slots |-> NoFilter]]
    /\ passed' = [ch \in Channels |-> {}]

Open(C) ==
    /\ open' = [ch \in Channels |-> open[ch] \/ ch \in C]
    /\ passed' = [ch \in Channels |-> IF ch \in C THEN Frames ELSE passed[ch]]
    /\ UNCHANGED filters

Close(C) ==
    /\ open' = [ch \in Channels |-> open[ch] /\ ch \notin C]
    /\ passed' = [ch \in Channels |-> IF ch \in C THEN {} ELSE passed[ch]]
    /\ UNCHANGED filters

\* A filter is stored for a closed channel too, but takes effect on an open one.
SetFilter(C, s, f) ==
    /\ filters' = [ch \in Channels |->
                     IF ch \in C THEN [filters[ch] EXCEPT ![s] = f] ELSE filters[ch]]
    /\ passed' = [ch \in Channels |->
                     IF ch \notin C \/ ~open[ch] THEN passed[ch]
                     ELSE IF Stored(ch)' = {} THEN Frames ELSE Stored(ch)']
    /\ UNCHANGED open

Next ==
    \/ Handshake
    \/ \E C \in SUBSET Channels :
          \/ Open(C) \/ Close(C)
          \/ \E s \in Slots, f \in Filters \cup {NoFilter} : SetFilter(C, s, f)

Spec == Init /\ [][Next]_vars
=============================================================================
