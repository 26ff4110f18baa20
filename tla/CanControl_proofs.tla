------------------------- MODULE CanControl_proofs -------------------------
(* Proofs about CanControl, for any number of filters and banks, and all      *)
(* modes, settings and outcomes of initialisations: clocks and filter banks    *)
(* that two channels share stay in order and stay apart, a command that is not *)
(* answered has changed nothing, and a careful host gets what it asked for.   *)
EXTENDS CanControl, FiniteSetTheorems, TLAPS

TypeInv ==
    /\ mask = [t \in Targets |-> mask[t]]
    /\ open \in [Targets -> BOOLEAN]
    /\ cfg = [t \in Targets |-> cfg[t]]
    /\ filters = [ch \in Channels |-> filters[ch]]
    /\ {reply, abandoned} \subseteq BOOLEAN
    /\ clk \subseteq Channels /\ pins \subseteq Channels
    /\ enabled \subseteq Banks /\ listMode \subseteq Banks
    /\ bank = [b \in Banks |-> bank[b]]

\* A record of the registers: what the driver's functions take and return.
IsHw(h) ==
    /\ h = [clk |-> h.clk, pins |-> h.pins, enabled |-> h.enabled, listMode |-> h.listMode,
            scale32 |-> h.scale32, bank |-> h.bank]
    /\ h.clk \subseteq Channels /\ h.pins \subseteq Channels
    /\ h.enabled \subseteq Banks /\ h.listMode \subseteq Banks
    /\ h.bank = [b \in Banks |-> h.bank[b]]

\* BanksInOrder of a record
InOrder(h) ==
    /\ h.enabled \cap h.listMode = {}
    /\ \A ch \in Channels : \A b \in h.enabled \cap Half(ch) : FirstBank(ch)..b \subseteq h.enabled

\* The banks of a channel are the same in both records.
SameHalf(h, g, ch) ==
    /\ h.enabled \cap Half(ch) = g.enabled \cap Half(ch)
    /\ h.listMode \cap Half(ch) = g.listMode \cap Half(ch)
    /\ \A b \in Half(ch) : h.bank[b] = g.bank[b]

\* A list of filters that fits into a half
Fits(list) == Len(list) \in 0..NSlots

----------------------------------------------------------------------------
(* The driver                                                                *)

LEMMA Halves ==
    /\ NSlots \in Nat /\ NSlots > 1
    /\ Half(1) = 0..(NSlots - 1) /\ Half(2) = NSlots..(2 * NSlots - 1)
    /\ FirstBank(1) = 0 /\ FirstBank(2) = NSlots
BY NSlotsAssumption DEF Half, FirstBank

LEMMA InitLemma ==
    ASSUME NEW h, IsHw(h), NEW ch \in Channels, NEW o
    PROVE  LET g == CanInit(h, ch, o)
           IN  /\ IsHw(g) /\ g.clk = h.clk \cup {1, ch} /\ g.pins = h.pins \cup {ch}
               /\ InOrder(h) => InOrder(g)
BY Halves DEF CanInit, IsHw, InOrder, Channels, Banks

LEMMA DeinitLemma ==
    ASSUME NEW h, IsHw(h), NEW ch \in Channels
    PROVE  LET g == CanDeinit(h, ch)
           IN  /\ IsHw(g) /\ g.clk = h.clk \ {ch} /\ g.pins = h.pins \ {ch}
               /\ InOrder(h) => InOrder(g)
<1>1. CanDeinit(h, ch) = [h EXCEPT !.clk = h.clk \ {ch}, !.pins = h.pins \ {ch}]
  BY DEF CanDeinit, IsHw
<1> DEFINE g == CanDeinit(h, ch)
<1> HIDE DEF g
<1>2. /\ IsHw(g) /\ g.clk = h.clk \ {ch} /\ g.pins = h.pins \ {ch}
      /\ g.enabled = h.enabled /\ g.listMode = h.listMode
  BY <1>1 DEF IsHw, g
<1> QED BY <1>2 DEF InOrder, g

LEMMA SetFilterLemma ==
    ASSUME NEW h, IsHw(h), NEW ch \in Channels, NEW list, Fits(list)
    PROVE  LET g == CanSetFilter(h, ch, list)
           IN  /\ IsHw(g) /\ g.clk = h.clk /\ g.pins = h.pins
               /\ InOrder(h) => InOrder(g)
               /\ \A other \in Channels \ {ch} : SameHalf(g, h, other)
<1> DEFINE used == FirstBank(ch)..(FirstBank(ch) + Len(list) - 1)
           g == CanSetFilter(h, ch, list)
<1>1. /\ used \subseteq Half(ch) /\ Half(ch) \subseteq Banks
      /\ \A b \in used : FirstBank(ch)..b \subseteq used
  BY Halves DEF Fits, Channels, Banks
<1>2. \A other \in Channels \ {ch} : Half(other) \cap Half(ch) = {} /\ Half(other) \subseteq Banks
  BY Halves DEF Channels, Banks
<1>3. CASE 1 \notin h.clk
  BY <1>3 DEF CanSetFilter, SameHalf
<1>4. CASE 1 \in h.clk
  <2>1. g = [h EXCEPT !.bank = [b \in Banks |-> IF b \in used
                                                THEN list[b - FirstBank(ch) + 1] ELSE h.bank[b]],
                      !.enabled = (h.enabled \cap (Banks \ Half(ch))) \cup used,
                      !.listMode = h.listMode \ used]
    BY <1>4 DEF CanSetFilter, IsHw
  <2> HIDE DEF g, used
  <2>2. /\ IsHw(g) /\ g.clk = h.clk /\ g.pins = h.pins
        /\ g.enabled = (h.enabled \cap (Banks \ Half(ch))) \cup used
        /\ g.listMode = h.listMode \ used
        /\ \A b \in Banks \ used : g.bank[b] = h.bank[b]
    BY <2>1, <1>1 DEF IsHw
  <2>3. InOrder(h) => InOrder(g)
    <3> SUFFICES ASSUME InOrder(h) PROVE InOrder(g)
      OBVIOUS
    <3>1. g.enabled \cap g.listMode = {}
      BY <2>2 DEF InOrder
    <3>2. ASSUME NEW c \in Channels, NEW b \in g.enabled \cap Half(c)
          PROVE  FirstBank(c)..b \subseteq g.enabled
      <4>1. CASE c = ch
        BY <4>1, <2>2, <1>1
      <4>2. CASE c # ch
        <5>1. b \in h.enabled /\ FirstBank(c)..b \subseteq Half(c)
          BY <4>2, <2>2, <1>1, <1>2, Halves DEF Channels
        <5>2. FirstBank(c)..b \subseteq h.enabled
          BY <5>1 DEF InOrder
        <5> QED BY <5>1, <5>2, <4>2, <2>2, <1>2
      <4> QED BY <4>1, <4>2
    <3> QED BY <3>1, <3>2 DEF InOrder
  <2>4. \A other \in Channels \ {ch} : SameHalf(g, h, other)
    BY <2>2, <1>1, <1>2 DEF SameHalf
  <2> QED BY <2>2, <2>3, <2>4 DEF g
<1> QED BY <1>3, <1>4

LEMMA FunctionIsSeq ==
    ASSUME NEW S, NEW n \in Nat, NEW f \in [1..n -> S]
    PROVE  f \in Seq(S) /\ Len(f) = n
OBVIOUS

LEMMA EverythingFits == Fits(Everything)
BY Halves DEF Fits, Everything

\* There are no more filters to set than slots.
LEMMA FiltArrFits == ASSUME NEW stored PROVE Fits(FiltArr(stored))
<1> DEFINE set == {s \in Slots : stored[s] # NoFilter}
           At(i) == CHOOSE s \in set : Cardinality({x \in set : x < s}) = i - 1
           list == [i \in 1..Cardinality(set) |-> stored[At(i)]]
           items == {stored[At(i)] : i \in 1..Cardinality(set)}
<1>1. IsFiniteSet(Slots) /\ Cardinality(Slots) = NSlots
  <2>1. 0 \in Int /\ NSlots - 1 \in Int /\ ~(0 > NSlots - 1) /\ NSlots - 1 - 0 + 1 = NSlots
    BY Halves
  <2> QED BY <2>1, FS_Interval DEF Slots
<1>2. Cardinality(set) \in 0..NSlots
  <2>1. set \in SUBSET Slots
    OBVIOUS
  <2>2. IsFiniteSet(set) /\ Cardinality(set) <= NSlots
    BY <2>1, <1>1, FS_Subset
  <2>3. Cardinality(set) \in Nat
    BY <2>2, FS_CardinalityType
  <2> QED BY <2>2, <2>3, Halves
<1>3. list \in [1..Cardinality(set) -> items]
  OBVIOUS
<1>4. Len(list) = Cardinality(set)
  <2> HIDE DEF set, list, items
  <2> QED BY <1>2, <1>3, Halves, FunctionIsSeq
<1>5. FiltArr(stored) = list
  BY DEF FiltArr
<1> QED BY <1>2, <1>4, <1>5 DEF Fits

LEMMA ApplyLemma ==
    ASSUME NEW h, IsHw(h), NEW ch \in Channels, NEW stored
    PROVE  LET g == ApplyFilters(h, ch, stored)
           IN  /\ IsHw(g) /\ g.clk = h.clk /\ g.pins = h.pins
               /\ InOrder(h) => InOrder(g)
               /\ \A other \in Channels \ {ch} : SameHalf(g, h, other)
BY SetFilterLemma, FiltArrFits, EverythingFits DEF ApplyFilters

LEMMA OpenLemma ==
    ASSUME NEW h, IsHw(h), NEW ch \in Channels, NEW o
    PROVE  LET g == OpenChannel(h, ch, o)
           IN  /\ IsHw(g) /\ g.clk = h.clk \cup {1, ch} /\ g.pins = h.pins \cup {ch}
               /\ InOrder(h) => InOrder(g)
<1> DEFINE i == CanInit(h, ch, o)
<1>1. IsHw(i) /\ i.clk = h.clk \cup {1, ch} /\ i.pins = h.pins \cup {ch} /\ (InOrder(h) => InOrder(i))
  BY InitLemma
<1> HIDE DEF i
<1>2. LET g == CanSetFilter(i, ch, Everything)
      IN  IsHw(g) /\ g.clk = i.clk /\ g.pins = i.pins /\ (InOrder(i) => InOrder(g))
  BY <1>1, SetFilterLemma, EverythingFits
<1> QED BY <1>1, <1>2 DEF OpenChannel, i

----------------------------------------------------------------------------
(* The commands                                                              *)

\* The registers after the channels in C have been opened, or given the stored filters.
Opened(h, C, o) ==
    LET one == IF 1 \in C THEN OpenChannel(h, 1, o) ELSE h
    IN  IF 2 \in C THEN OpenChannel(one, 2, o) ELSE one

Applied(h, C, stored) ==
    LET one == IF 1 \in C THEN ApplyFilters(h, 1, stored[1]) ELSE h
    IN  IF 2 \in C THEN ApplyFilters(one, 2, stored[2]) ELSE one

LEMMA HwOf ==
    ASSUME TypeInv
    PROVE  /\ IsHw(hw) /\ hw.clk = clk /\ hw.pins = pins
           /\ hw.enabled = enabled /\ hw.listMode = listMode /\ hw.bank = bank
           /\ BanksInOrder <=> InOrder(hw)
BY DEF TypeInv, IsHw, hw, InOrder, BanksInOrder

\* The step of the registers to a record g
LEMMA BecomesLemma ==
    ASSUME NEW g, IsHw(g), HwBecomes(g)
    PROVE  /\ clk' \subseteq Channels /\ pins' \subseteq Channels
           /\ enabled' \subseteq Banks /\ listMode' \subseteq Banks
           /\ bank' = [b \in Banks |-> bank'[b]]
           /\ clk' = g.clk /\ pins' = g.pins
           /\ InOrder(g) => BanksInOrder'
BY DEF HwBecomes, IsHw, InOrder, BanksInOrder, Half, FirstBank, Channels, Banks

LEMMA OpenStep ==
    ASSUME TypeInv, NEW C \in SUBSET Targets, NEW o,
           HwBecomes(Opened(hw, C, o))
    PROVE  /\ clk' \subseteq Channels /\ pins' \subseteq Channels
           /\ enabled' \subseteq Banks /\ listMode' \subseteq Banks
           /\ bank' = [b \in Banks |-> bank'[b]]
           /\ clk' = clk \cup (C \cap Channels) \cup (IF C \cap Channels = {} THEN {} ELSE {1})
           /\ pins' = pins \cup (C \cap Channels)
           /\ BanksInOrder => BanksInOrder'
<1> DEFINE one == IF 1 \in C THEN OpenChannel(hw, 1, o) ELSE hw
           g == IF 2 \in C THEN OpenChannel(one, 2, o) ELSE one
<1>1. HwBecomes(g)
  BY DEF Opened
<1>2. IsHw(hw) /\ hw.clk = clk /\ hw.pins = pins /\ (BanksInOrder <=> InOrder(hw))
  BY HwOf
<1>3. /\ IsHw(one) /\ one.clk = clk \cup (C \cap {1}) /\ one.pins = pins \cup (C \cap {1})
      /\ BanksInOrder => InOrder(one)
  <2> DEFINE o1 == OpenChannel(hw, 1, o)
  <2>1. /\ IsHw(o1) /\ o1.clk = hw.clk \cup {1} /\ o1.pins = hw.pins \cup {1}
        /\ InOrder(hw) => InOrder(o1)
    BY <1>2, OpenLemma DEF Channels
  <2> HIDE DEF o1
  <2>2. one = IF 1 \in C THEN o1 ELSE hw
    BY DEF o1
  <2> HIDE DEF one
  <2> QED BY <1>2, <2>1, <2>2
<1> HIDE DEF one
<1>4. /\ IsHw(g) /\ g.clk = one.clk \cup (IF 2 \in C THEN {1, 2} ELSE {}) /\ g.pins = one.pins \cup (C \cap {2})
      /\ InOrder(one) => InOrder(g)
  <2> DEFINE o2 == OpenChannel(one, 2, o)
  <2>1. /\ IsHw(o2) /\ o2.clk = one.clk \cup {1, 2} /\ o2.pins = one.pins \cup {2}
        /\ InOrder(one) => InOrder(o2)
    BY <1>3, OpenLemma DEF Channels
  <2> HIDE DEF o2
  <2>2. g = IF 2 \in C THEN o2 ELSE one
    BY DEF o2
  <2> HIDE DEF g
  <2> QED BY <1>3, <2>1, <2>2
<1> HIDE DEF g
<1>5. /\ clk' \subseteq Channels /\ pins' \subseteq Channels
      /\ enabled' \subseteq Banks /\ listMode' \subseteq Banks
      /\ bank' = [b \in Banks |-> bank'[b]]
      /\ clk' = g.clk /\ pins' = g.pins /\ (InOrder(g) => BanksInOrder')
  BY <1>1, <1>4, BecomesLemma
<1>6. pins' = pins \cup (C \cap Channels)
  BY <1>3, <1>4, <1>5 DEF Channels
<1>7. clk' = clk \cup (C \cap Channels) \cup (IF C \cap Channels = {} THEN {} ELSE {1})
  <2>1. clk' = (clk \cup (C \cap {1})) \cup (IF 2 \in C THEN {1, 2} ELSE {})
    BY <1>3, <1>4, <1>5
  <2>2. CASE 2 \in C
    BY <2>1, <2>2 DEF Channels
  <2>3. CASE 2 \notin C
    BY <2>1, <2>3 DEF Channels
  <2> QED BY <2>2, <2>3
<1> QED BY <1>3, <1>4, <1>5, <1>6, <1>7

LEMMA ApplyStep ==
    ASSUME TypeInv, NEW C \in SUBSET Targets, NEW stored,
           HwBecomes(Applied(hw, C, stored))
    PROVE  /\ clk' \subseteq Channels /\ pins' \subseteq Channels
           /\ enabled' \subseteq Banks /\ listMode' \subseteq Banks
           /\ bank' = [b \in Banks |-> bank'[b]]
           /\ clk' = clk /\ pins' = pins
           /\ BanksInOrder => BanksInOrder'
           /\ \A ch \in Channels \ C :
                 /\ enabled' \cap Half(ch) = enabled \cap Half(ch)
                 /\ listMode' \cap Half(ch) = listMode \cap Half(ch)
                 /\ \A b \in Half(ch) : bank'[b] = bank[b]
<1> DEFINE one == IF 1 \in C THEN ApplyFilters(hw, 1, stored[1]) ELSE hw
           g == IF 2 \in C THEN ApplyFilters(one, 2, stored[2]) ELSE one
<1>1. HwBecomes(g)
  BY DEF Applied
<1>2. /\ IsHw(hw) /\ hw.clk = clk /\ hw.pins = pins /\ (BanksInOrder <=> InOrder(hw))
      /\ hw.enabled = enabled /\ hw.listMode = listMode /\ hw.bank = bank
  BY HwOf
<1>3. /\ IsHw(one) /\ one.clk = clk /\ one.pins = pins /\ (BanksInOrder => InOrder(one))
      /\ SameHalf(one, hw, 2) /\ (1 \notin C => one = hw)
  <2> DEFINE a1 == ApplyFilters(hw, 1, stored[1])
  <2>1. /\ IsHw(a1) /\ a1.clk = hw.clk /\ a1.pins = hw.pins
        /\ InOrder(hw) => InOrder(a1)
        /\ \A other \in Channels \ {1} : SameHalf(a1, hw, other)
    BY <1>2, ApplyLemma DEF Channels
  <2> HIDE DEF a1
  <2>2. SameHalf(a1, hw, 2) /\ SameHalf(hw, hw, 2)
    <3>1. 2 \in Channels \ {1}
      BY DEF Channels
    <3> QED BY <2>1, <3>1 DEF SameHalf
  <2>3. one = IF 1 \in C THEN a1 ELSE hw
    BY DEF a1
  <2> HIDE DEF one
  <2> QED BY <1>2, <2>1, <2>2, <2>3
<1> HIDE DEF one
<1>4. /\ IsHw(g) /\ g.clk = one.clk /\ g.pins = one.pins /\ (InOrder(one) => InOrder(g))
      /\ SameHalf(g, one, 1) /\ (2 \notin C => g = one)
  <2> DEFINE a2 == ApplyFilters(one, 2, stored[2])
  <2>1. /\ IsHw(a2) /\ a2.clk = one.clk /\ a2.pins = one.pins
        /\ InOrder(one) => InOrder(a2)
        /\ \A other \in Channels \ {2} : SameHalf(a2, one, other)
    BY <1>3, ApplyLemma DEF Channels
  <2> HIDE DEF a2
  <2>2. SameHalf(a2, one, 1) /\ SameHalf(one, one, 1)
    <3>1. 1 \in Channels \ {2}
      BY DEF Channels
    <3> QED BY <2>1, <3>1 DEF SameHalf
  <2>3. g = IF 2 \in C THEN a2 ELSE one
    BY DEF a2
  <2> HIDE DEF g
  <2> QED BY <1>3, <2>1, <2>2, <2>3
<1> HIDE DEF g
<1>5. \A ch \in Channels \ C : SameHalf(g, hw, ch)
  BY <1>3, <1>4 DEF Channels, SameHalf
<1>6. enabled' = g.enabled /\ listMode' = g.listMode /\ bank' = g.bank
  BY <1>1 DEF HwBecomes
<1>7. \A ch \in Channels \ C :
         /\ enabled' \cap Half(ch) = enabled \cap Half(ch)
         /\ listMode' \cap Half(ch) = listMode \cap Half(ch)
         /\ \A b \in Half(ch) : bank'[b] = bank[b]
  BY <1>2, <1>5, <1>6 DEF SameHalf
<1> QED BY <1>1, <1>3, <1>4, <1>7, BecomesLemma

LEMMA DeinitStep ==
    ASSUME TypeInv, NEW C \in SUBSET Channels, HwBecomes(OnChannels(hw, C, CanDeinit))
    PROVE  /\ clk' \subseteq Channels /\ pins' \subseteq Channels
           /\ enabled' \subseteq Banks /\ listMode' \subseteq Banks
           /\ bank' = [b \in Banks |-> bank'[b]]
           /\ clk' = clk \ C /\ pins' = pins \ C
           /\ BanksInOrder => BanksInOrder'
<1> DEFINE one == IF 1 \in C THEN CanDeinit(hw, 1) ELSE hw
           g == IF 2 \in C THEN CanDeinit(one, 2) ELSE one
<1>1. HwBecomes(g)
  BY DEF OnChannels
<1>2. IsHw(hw) /\ hw.clk = clk /\ hw.pins = pins /\ (BanksInOrder <=> InOrder(hw))
  BY HwOf
<1>3. IsHw(one) /\ one.clk = clk \ (C \cap {1}) /\ one.pins = pins \ (C \cap {1}) /\ (BanksInOrder => InOrder(one))
  BY <1>2, DeinitLemma DEF Channels
<1> HIDE DEF one
<1>4. IsHw(g) /\ g.clk = one.clk \ (C \cap {2}) /\ g.pins = one.pins \ (C \cap {2}) /\ (InOrder(one) => InOrder(g))
  BY <1>3, DeinitLemma DEF Channels
<1> HIDE DEF g
<1> QED BY <1>1, <1>3, <1>4, BecomesLemma DEF Channels

----------------------------------------------------------------------------
(* The steps.  Each lemma is about one command.                              *)

Inv == TypeInv /\ ClocksMatchUse /\ BanksInOrder

LEMMA Initial == Init => Inv
BY Halves DEF Init, Inv, TypeInv, ClocksMatchUse, ClockCovered, NoOrphanClock, BanksInOrder,
             Channels, Targets

\* A step that touches neither the registers nor what is open
LEMMA QuietStep ==
    ASSUME Inv, UNCHANGED <<hwVars, open, abandoned>>,
           mask' = [t \in Targets |-> mask'[t]], cfg' = [t \in Targets |-> cfg'[t]],
           filters' = [ch \in Channels |-> filters'[ch]], reply' \in BOOLEAN
    PROVE  Inv'
BY DEF Inv, TypeInv, ClocksMatchUse, ClockCovered, NoOrphanClock, BanksInOrder, hwVars

LEMMA RefuseStep == ASSUME Inv, Refuse PROVE Inv'
BY QuietStep DEF Refuse, settings, Inv, TypeInv

LEMMA HandshakeStep == ASSUME Inv, Handshake PROVE Inv'
BY DEF Handshake, Answer, Inv, TypeInv, ClocksMatchUse, ClockCovered, NoOrphanClock, BanksInOrder, hwVars,
       Channels, Targets

LEMMA ModeStep == ASSUME Inv, NEW mode, SetMode(mode) PROVE Inv'
<1>1. CASE mode \in {0, 1, 2} /\ Answer /\ UNCHANGED <<open, cfg, gate, filters, hwVars, abandoned>>
      /\ mask' = CASE mode = 0 -> <<2, 4, 6>> [] mode = 1 -> <<2, 4, 0>> [] mode = 2 -> <<0, 0, 2>>
  <2>1. mask' = [t \in Targets |-> mask'[t]]
    BY <1>1 DEF Targets, Channels, Lin
  <2> QED BY <1>1, <2>1, QuietStep DEF Answer, Inv, TypeInv
<1>2. CASE Refuse
  BY <1>2, RefuseStep
<1> QED BY <1>1, <1>2 DEF SetMode

LEMMA SetupStep ==
    ASSUME Inv, NEW n, NEW c, NEW x \in BOOLEAN, NEW y \in BOOLEAN,
           SetupSpeed(n, c, x, y) \/ SetupManual(n, c, x) \/ SetupOption(n, c, x)
    PROVE  Inv'
<1>1. CASE \E T : Setup(T, c) /\ reply' \in BOOLEAN
  BY <1>1, QuietStep DEF Setup, Inv, TypeInv
<1>2. CASE Refuse
  BY <1>2, RefuseStep
<1> QED BY <1>1, <1>2 DEF SetupSpeed, SetupManual, SetupOption, Answer

LEMMA OpenCommand == ASSUME Inv, NEW n, CanOpen(n) PROVE Inv'
<1> DEFINE C == Addressed(n)
<1>1. C \in SUBSET Targets
  BY DEF Addressed
<1>2. CASE Refuse
  BY <1>2, RefuseStep
<1>3. CASE /\ \E o \in Outcomes : LET F(h, ch) == OpenChannel(h, ch, o)
                                  IN  HwBecomes(OnChannels(hw, C, F))
           /\ open' = [t \in Targets |-> open[t] \/ t \in C] /\ Answer
           /\ UNCHANGED <<mask, cfg, gate, filters, abandoned>>
  <2> HIDE DEF C
  <2>0. \E o \in Outcomes : HwBecomes(Opened(hw, C, o))
    BY <1>3 DEF OnChannels, Opened
  <2>1. /\ clk' \subseteq Channels /\ pins' \subseteq Channels
        /\ enabled' \subseteq Banks /\ listMode' \subseteq Banks
        /\ bank' = [b \in Banks |-> bank'[b]]
        /\ clk' = clk \cup (C \cap Channels) \cup (IF C \cap Channels = {} THEN {} ELSE {1})
        /\ pins' = pins \cup (C \cap Channels)
        /\ BanksInOrder'
    BY <1>1, <2>0, OpenStep DEF Inv
  <2>2. TypeInv'
    BY <1>3, <2>1 DEF Inv, TypeInv, Answer
  <2>3. abandoned' = abandoned /\ ClockCovered /\ NoOrphanClock
    BY <1>3 DEF Inv, ClocksMatchUse
  <2>4. (open'[1] <=> open[1] \/ 1 \in C) /\ (open'[2] <=> open[2] \/ 2 \in C)
    BY <1>3 DEF Channels, Targets
  <2>5. /\ clk' = clk \cup (IF 2 \in C THEN {1, 2} ELSE IF 1 \in C THEN {1} ELSE {})
        /\ pins' = pins \cup (C \cap {1, 2})
    BY <2>1, Zenon DEF Channels
  <2>6. ClockCovered'
    BY <2>3, <2>4, <2>5 DEF ClockCovered, Channels
  <2>7. NoOrphanClock'
    BY <2>3, <2>4, <2>5 DEF NoOrphanClock
  <2> QED BY <2>1, <2>2, <2>6, <2>7 DEF Inv, ClocksMatchUse
<1> QED BY <1>2, <1>3 DEF CanOpen

LEMMA FilterCommand == ASSUME Inv, NEW n, NEW word, NEW f, CanFilter(n, word, f) PROVE Inv'
<1> DEFINE C == Addressed(n)
           slot == word % 256
           stored == [ch \in Channels |->
                        IF ch \in C THEN [filters[ch] EXCEPT ![slot] = f] ELSE filters[ch]]
<1>1. C \in SUBSET Targets
  BY DEF Addressed
<1>2. CASE Refuse
  BY <1>2, RefuseStep
<1>3. CASE /\ filters' = stored
           /\ LET F(h, ch) == ApplyFilters(h, ch, stored[ch]) IN HwBecomes(OnChannels(hw, C, F))
           /\ Answer /\ UNCHANGED <<mask, open, cfg, gate, abandoned>>
  <2>0. filters' = [ch \in Channels |-> filters'[ch]]
    BY <1>3
  <2> HIDE DEF C, stored
  <2>3. HwBecomes(Applied(hw, C, stored))
    BY <1>3 DEF OnChannels, Applied
  <2>1. /\ clk' \subseteq Channels /\ pins' \subseteq Channels
        /\ enabled' \subseteq Banks /\ listMode' \subseteq Banks
        /\ bank' = [b \in Banks |-> bank'[b]]
        /\ clk' = clk /\ pins' = pins /\ BanksInOrder'
    BY <1>1, <2>3, ApplyStep DEF Inv
  <2>2. TypeInv'
    BY <1>3, <2>0, <2>1 DEF Inv, TypeInv, Answer
  <2> QED BY <1>3, <2>1, <2>2 DEF Inv, ClocksMatchUse, ClockCovered, NoOrphanClock
<1> QED BY <1>2, <1>3 DEF CanFilter

LEMMA CloseCommand == ASSUME Inv, NEW n, CanClose(n) PROVE Inv'
<1> DEFINE C == Addressed(n)
           left == [t \in Targets |-> open[t] /\ t \notin C]
           unused == IF left[2] THEN {} ELSE IF left[1] THEN {2} ELSE {1, 2}
<1>1. C \in SUBSET Targets
  BY DEF Addressed
<1>2. CASE Refuse
  BY <1>2, RefuseStep
<1>3. CASE /\ C # {} /\ open' = left
           /\ HwBecomes(IF C = {Lin} THEN hw ELSE OnChannels(hw, unused, CanDeinit))
           /\ abandoned' = (abandoned /\ C = {Lin})
           /\ Answer /\ UNCHANGED <<mask, cfg, gate, filters>>
  <2>1. open \in [Targets -> BOOLEAN] /\ ClockCovered /\ NoOrphanClock /\ TypeInv /\ BanksInOrder
    BY DEF Inv, TypeInv, ClocksMatchUse
  <2>2. open' \in [Targets -> BOOLEAN] /\ \A t \in Targets : open'[t] = (open[t] /\ t \notin C)
    BY <1>3, <2>1
  <2>3. CASE C = {Lin}
    <3>1. UNCHANGED hwVars
      BY <1>3, <2>3 DEF HwBecomes, hw, hwVars
    <3>2. \A ch \in Channels : open'[ch] = open[ch]
      BY <2>1, <2>2, <2>3 DEF Channels, Targets, Lin
    <3>3. abandoned' = abandoned
      BY <1>3, <2>1, <2>3 DEF TypeInv
    <3>4. ClocksMatchUse' /\ BanksInOrder'
      BY <2>1, <3>1, <3>2, <3>3 DEF ClocksMatchUse, ClockCovered, NoOrphanClock, BanksInOrder, hwVars, Channels
    <3>5. TypeInv'
      BY <1>3, <2>1, <2>2, <3>1, <3>3 DEF TypeInv, hwVars, Answer
    <3> QED BY <3>4, <3>5 DEF Inv
  <2>4. CASE C # {Lin}
    <3>1. unused \in SUBSET Channels
      BY DEF Channels
    <3>2. HwBecomes(OnChannels(hw, unused, CanDeinit))
      BY <1>3, <2>4
    <3>3. unused = IF open'[2] THEN {} ELSE IF open'[1] THEN {2} ELSE {1, 2}
      BY <1>3
    <3> HIDE DEF unused
    <3>4. /\ clk' \subseteq Channels /\ pins' \subseteq Channels
          /\ enabled' \subseteq Banks /\ listMode' \subseteq Banks
          /\ bank' = [b \in Banks |-> bank'[b]]
          /\ clk' = clk \ unused /\ pins' = pins \ unused /\ BanksInOrder'
      BY <2>1, <3>1, <3>2, DeinitStep
    <3>5. abandoned' = FALSE
      BY <1>3, <2>4
    <3>6. TypeInv'
      BY <1>3, <2>1, <2>2, <3>4, <3>5 DEF TypeInv, Answer
    <3>7. ClockCovered'
      BY <2>1, <2>2, <3>3, <3>4 DEF ClockCovered, Channels, Targets
    <3>8. NoOrphanClock'
      BY <2>1, <2>2, <3>3, <3>4 DEF NoOrphanClock, Channels, Targets
    <3> QED BY <3>4, <3>6, <3>7, <3>8 DEF Inv, ClocksMatchUse
  <2> QED BY <2>3, <2>4
<1> QED BY <1>2, <1>3 DEF CanClose

LEMMA Step == ASSUME Inv, [Next]_vars PROVE Inv'
<1>1. CASE Handshake
  BY <1>1, HandshakeStep
<1>2. CASE Information
  BY <1>2, QuietStep DEF Information, Answer, settings, Inv, TypeInv
<1>3. CASE Malformed
  BY <1>3, RefuseStep DEF Malformed
<1>4. CASE \E mode \in Modes : SetMode(mode)
  BY <1>4, ModeStep
<1>5. CASE \E n \in Nibbles, c \in Configs, x \in BOOLEAN :
              (\E y \in BOOLEAN : SetupSpeed(n, c, x, y)) \/ SetupManual(n, c, x) \/ SetupOption(n, c, x)
  BY <1>5, SetupStep
<1>6. CASE \E n \in Nibbles : CanClose(n)
  BY <1>6, CloseCommand
<1>7. CASE \E n \in Nibbles, w \in Words, f \in Filters \cup {NoFilter} : CanFilter(n, w, f)
  BY <1>7, FilterCommand
<1>8. CASE \E ch \in Gated, en \in BOOLEAN : CanGate(ch, en)
  BY <1>8, QuietStep DEF CanGate, Answer, Inv, TypeInv
<1>9. CASE \E n \in Nibbles : CanOpen(n)
  BY <1>9, OpenCommand
<1>10. CASE UNCHANGED vars
  BY <1>10, QuietStep DEF vars, settings, Inv, TypeInv
<1> QED BY <1>1, <1>2, <1>3, <1>4, <1>5, <1>6, <1>7, <1>8, <1>9, <1>10 DEF Next, OtherCommands

LEMMA Always == Spec => []Inv
<1>1. Init => Inv
  BY Initial
<1>2. Inv /\ [Next]_vars => Inv'
  BY Step
<1> QED BY <1>1, <1>2, PTL DEF Spec

----------------------------------------------------------------------------
\* The clocks that run are those of the open channels, for every order of openings,
\* closings and handshakes (canOpen, canClose, CanDrv::init and deinit).
THEOREM ClocksCorrect == Spec => []ClocksMatchUse
BY Always, PTL DEF Inv

\* The enabled banks of each half are its first ones and in mask mode, whatever is
\* opened and filtered for either channel (CanDrv::setFilter), for any number of them.
THEOREM BanksCorrect == Spec => []BanksInOrder
BY Always, PTL DEF Inv

----------------------------------------------------------------------------
(* What a single command may not do                                          *)

OtherHalfAlone ==
    \A ch \in Channels :
        mask[1] # mask[2] /\ filters' # filters /\ filters'[ch] = filters[ch] =>
            /\ enabled' \cap Half(ch) = enabled \cap Half(ch)
            /\ listMode' \cap Half(ch) = listMode \cap Half(ch)
            /\ \A b \in Half(ch) : bank'[b] = bank[b]

LEMMA IsolationStep == ASSUME Inv, Next PROVE OtherHalfAlone
<1>1. CASE UNCHANGED filters
  BY <1>1 DEF OtherHalfAlone
<1>2. CASE UNCHANGED hwVars
  BY <1>2 DEF OtherHalfAlone, hwVars
<1>3. ASSUME NEW n, NEW word, NEW f, CanFilter(n, word, f) PROVE OtherHalfAlone
  <2> DEFINE C == Addressed(n)
             slot == word % 256
             stored == [ch \in Channels |->
                          IF ch \in C THEN [filters[ch] EXCEPT ![slot] = f] ELSE filters[ch]]
  <2>1. CASE Refuse
    BY <1>2, <2>1 DEF Refuse
  <2>2. CASE /\ filters' = stored
             /\ LET F(h, ch) == ApplyFilters(h, ch, stored[ch]) IN HwBecomes(OnChannels(hw, C, F))
    <3>1. C \in SUBSET Targets /\ (mask[1] # mask[2] => ~(1 \in C /\ 2 \in C))
      BY DEF Addressed
    <3>2. filters = [ch \in Channels |-> filters[ch]]
      BY DEF Inv, TypeInv
    <3>3. \A ch \in Channels \ C : filters'[ch] = filters[ch]
      BY <2>2
    <3>4. filters' = [ch \in Channels |-> filters'[ch]]
      BY <2>2
    <3> HIDE DEF C, stored
    <3>5. HwBecomes(Applied(hw, C, stored))
      BY <2>2 DEF OnChannels, Applied
    <3>6. \A ch \in Channels \ C :
             /\ enabled' \cap Half(ch) = enabled \cap Half(ch)
             /\ listMode' \cap Half(ch) = listMode \cap Half(ch)
             /\ \A b \in Half(ch) : bank'[b] = bank[b]
      BY <3>1, <3>5, ApplyStep DEF Inv
    <3>7. ASSUME NEW ch \in Channels, mask[1] # mask[2], filters' # filters, filters'[ch] = filters[ch]
          PROVE  ch \notin C
      <4>1. PICK other \in Channels : filters'[other] # filters[other]
        BY <3>2, <3>4, <3>7, Zenon
      <4>2. other \in C /\ other # ch
        BY <4>1, <3>3, <3>7
      <4> QED BY <4>2, <3>1, <3>7 DEF Channels
    <3> QED BY <3>6, <3>7 DEF OtherHalfAlone
  <2> QED BY <1>3, <2>1, <2>2 DEF CanFilter
<1>4. CASE Handshake \/ Information \/ Malformed
  BY <1>1, <1>2, <1>4 DEF Handshake, Information, Malformed, Refuse, settings
<1>5. CASE \E mode \in Modes : SetMode(mode)
  BY <1>2, <1>5 DEF SetMode, Refuse
<1>6. CASE \E n \in Nibbles, c \in Configs, x \in BOOLEAN :
              (\E y \in BOOLEAN : SetupSpeed(n, c, x, y)) \/ SetupManual(n, c, x) \/ SetupOption(n, c, x)
  BY <1>2, <1>6 DEF SetupSpeed, SetupManual, SetupOption, Setup, Refuse
<1>7. CASE \E n \in Nibbles : CanClose(n) \/ CanOpen(n)
  BY <1>1, <1>7 DEF CanClose, CanOpen, Refuse, settings
<1>8. CASE \E ch \in Gated, en \in BOOLEAN : CanGate(ch, en)
  BY <1>2, <1>8 DEF CanGate
<1> QED BY <1>3, <1>4, <1>5, <1>6, <1>7, <1>8 DEF Next, OtherCommands

\* What UnansweredChangesNothing says of a step
RefusedIsNothing ==
    ~reply' => /\ UNCHANGED <<mask, open, gate, filters>>
               /\ \A t \in Targets : cfg'[t] # cfg[t] => t # Lin /\ mask[t] = mask[Lin]

LEMMA RefusedStep == ASSUME Inv, Next PROVE RefusedIsNothing
<1>1. CASE reply' = TRUE
  BY <1>1 DEF RefusedIsNothing
<1>2. CASE UNCHANGED settings
  BY <1>2 DEF RefusedIsNothing, settings
<1>3. ASSUME NEW n, NEW c, NEW x \in BOOLEAN, NEW y \in BOOLEAN,
             SetupSpeed(n, c, x, y) \/ SetupManual(n, c, x) \/ SetupOption(n, c, x)
      PROVE  RefusedIsNothing
  <2> DEFINE C == Addressed(n)
  <2>1. CASE Refuse
    BY <1>2, <2>1 DEF Refuse
  <2>2. CASE Answer
    BY <1>1, <2>2 DEF Answer
  <2>3. ASSUME NEW ok \in BOOLEAN, Setup(IF ok THEN C ELSE C \ {Lin}, c), reply' = (Lin \in C => ok)
        PROVE  RefusedIsNothing
    <3> SUFFICES ASSUME ~reply' PROVE RefusedIsNothing
      BY DEF RefusedIsNothing
    <3>1. Lin \in C /\ ~ok
      BY <2>3
    <3>2. \A t \in C : mask[t] = mask[Lin]
      BY <3>1 DEF Addressed
    <3> HIDE DEF C
    <3>3. /\ UNCHANGED <<mask, open, gate, filters>>
          /\ cfg' = [t \in Targets |-> IF t \in C \ {Lin} THEN c ELSE cfg[t]]
      BY <2>3, <3>1 DEF Setup
    <3>4. ASSUME NEW t \in Targets, cfg'[t] # cfg[t] PROVE t # Lin /\ mask[t] = mask[Lin]
      BY <3>2, <3>3, <3>4
    <3> QED BY <3>3, <3>4 DEF RefusedIsNothing
  <2> QED BY <1>3, <2>1, <2>2, <2>3 DEF SetupSpeed, SetupManual, SetupOption
<1>4. CASE Handshake \/ Information \/ Malformed
  BY <1>1, <1>2, <1>4 DEF Handshake, Information, Malformed, Answer, Refuse
<1>5. CASE \E mode \in Modes : SetMode(mode)
  BY <1>1, <1>2, <1>5 DEF SetMode, Answer, Refuse
<1>6. CASE \E n \in Nibbles, c \in Configs, x \in BOOLEAN :
              (\E y \in BOOLEAN : SetupSpeed(n, c, x, y)) \/ SetupManual(n, c, x) \/ SetupOption(n, c, x)
  BY <1>3, <1>6
<1>7. CASE \E n \in Nibbles : CanClose(n) \/ CanOpen(n)
  BY <1>1, <1>2, <1>7 DEF CanClose, CanOpen, Answer, Refuse
<1>8. CASE \E ch \in Gated, en \in BOOLEAN : CanGate(ch, en)
  BY <1>1, <1>8 DEF CanGate, Answer
<1>9. CASE \E n \in Nibbles, w \in Words, f \in Filters \cup {NoFilter} : CanFilter(n, w, f)
  BY <1>1, <1>2, <1>9 DEF CanFilter, Answer, Refuse
<1> QED BY <1>4, <1>5, <1>6, <1>7, <1>8, <1>9 DEF Next, OtherCommands

\* A command that changes the filters of one channel leaves the banks of the other as
\* they are (canFilter, CanDrv::setFilter with its masks), for any number of banks.
THEOREM IsolationCorrect == Spec => FilterIsolation
<1>1. Inv /\ [Next]_vars => [OtherHalfAlone]_vars
  BY IsolationStep
<1>2. [OtherHalfAlone]_vars =>
        [\A ch \in Channels :
            mask[1] # mask[2] /\ filters' # filters /\ filters'[ch] = filters[ch] =>
            /\ enabled' \cap Half(ch) = enabled \cap Half(ch)
            /\ listMode' \cap Half(ch) = listMode \cap Half(ch)
            /\ \A b \in Half(ch) : bank'[b] = bank[b]]_vars
  BY DEF OtherHalfAlone
<1> QED BY <1>1, <1>2, Always, PTL DEF Spec, FilterIsolation

\* A command without an answer has changed no setting but those of a CAN channel that
\* shares the mask of LIN (canSetup, whose LIN part refuses after the CAN part).
THEOREM UnansweredCorrect == Spec => UnansweredChangesNothing
<1>1. Inv /\ [Next]_vars =>
        [~reply' => /\ UNCHANGED <<mask, open, gate, filters>>
                    /\ \A t \in Targets : cfg'[t] # cfg[t] => t # Lin /\ mask[t] = mask[Lin]]_vars
  BY RefusedStep DEF RefusedIsNothing
<1> QED BY <1>1, Always, PTL DEF Spec, UnansweredChangesNothing

----------------------------------------------------------------------------
(* What the banks let through                                                *)

\* The number of a slot among those in use, from 1
LEMMA RankLemma ==
    ASSUME NEW set \in SUBSET Slots, NEW s \in set, NEW t \in set
    PROVE  LET r(x) == Cardinality({y \in set : y < x})
           IN  /\ r(s) \in 0..(Cardinality(set) - 1)
               /\ r(s) = r(t) => s = t
<1> DEFINE Below(x) == {y \in set : y < x}
<1>0. IsFiniteSet(set) /\ Cardinality(set) \in Nat
  <2>1. 0 \in Int /\ NSlots - 1 \in Int
    BY Halves
  <2>2. IsFiniteSet(Slots)
    BY <2>1, FS_Interval DEF Slots
  <2>3. IsFiniteSet(set)
    BY <2>2, FS_Subset
  <2> QED BY <2>3, FS_CardinalityType
<1>1. \A x \in set : /\ IsFiniteSet(Below(x)) /\ Cardinality(Below(x)) \in Nat
                     /\ Cardinality(Below(x)) < Cardinality(set)
  <2> TAKE x \in set
  <2>1. Below(x) \in SUBSET set /\ Below(x) # set
    <3>1. set \subseteq Int
      BY Halves DEF Slots
    <3> QED BY <3>1
  <2> HIDE DEF Below
  <2>2. /\ IsFiniteSet(Below(x)) /\ Cardinality(Below(x)) <= Cardinality(set)
        /\ Cardinality(set) = Cardinality(Below(x)) => set = Below(x)
    BY <1>0, <2>1, FS_Subset
  <2>3. Cardinality(Below(x)) \in Nat
    BY <2>2, FS_CardinalityType
  <2> QED BY <1>0, <2>1, <2>2, <2>3
<1>2. ASSUME NEW x \in set, NEW z \in set, x < z
      PROVE  Cardinality(Below(x)) < Cardinality(Below(z))
  <2>1. Below(x) \in SUBSET Below(z) /\ x \in Below(z) /\ x \notin Below(x)
    <3>1. set \subseteq Int /\ x \in Int /\ z \in Int
      BY Halves DEF Slots
    <3>2. \A y \in set : y < x => y < z
      BY <1>2, <3>1
    <3>3. ~(x < x)
      BY <3>1
    <3> QED BY <1>2, <3>2, <3>3, Zenon
  <2> HIDE DEF Below
  <2>2. /\ Cardinality(Below(x)) <= Cardinality(Below(z))
        /\ Cardinality(Below(z)) = Cardinality(Below(x)) => Below(z) = Below(x)
    BY <1>1, <2>1, FS_Subset
  <2> QED BY <1>1, <2>1, <2>2
<1>3. s \in Int /\ t \in Int
  BY Halves DEF Slots
<1>4. Cardinality(Below(s)) \in 0..(Cardinality(set) - 1)
  <2> HIDE DEF Below
  <2> QED BY <1>0, <1>1
<1>5. Cardinality(Below(s)) = Cardinality(Below(t)) => s = t
  <2> HIDE DEF Below
  <2>1. Cardinality(Below(s)) \in Nat /\ Cardinality(Below(t)) \in Nat
    BY <1>1
  <2>2. s < t => Cardinality(Below(s)) < Cardinality(Below(t))
    BY <1>2
  <2>3. t < s => Cardinality(Below(t)) < Cardinality(Below(s))
    BY <1>2
  <2> QED BY <1>3, <2>1, <2>2, <2>3
<1> QED BY <1>4, <1>5

\* filtArr holds the stored filters and nothing else.
LEMMA FiltArrHolds ==
    ASSUME NEW stored
    PROVE  LET set == {s \in Slots : stored[s] # NoFilter}
               list == FiltArr(stored)
           IN  /\ Len(list) = Cardinality(set)
               /\ \A i \in 1..Len(list) : \E s \in set : list[i] = stored[s]
               /\ \A s \in set : \E i \in 1..Len(list) : list[i] = stored[s]
<1> DEFINE set == {s \in Slots : stored[s] # NoFilter}
           Rank(s) == Cardinality({x \in set : x < s})
           At(i) == CHOOSE s \in set : Rank(s) = i - 1
           list == [i \in 1..Cardinality(set) |-> stored[At(i)]]
           items == {stored[At(i)] : i \in 1..Cardinality(set)}
           rank == [s \in set |-> Rank(s) + 1]
<1>1. IsFiniteSet(set) /\ Cardinality(set) \in Nat
  <2>1. 0 \in Int /\ NSlots - 1 \in Int
    BY Halves
  <2>2. IsFiniteSet(Slots)
    BY <2>1, FS_Interval DEF Slots
  <2>3. IsFiniteSet(set)
    BY <2>2, FS_Subset
  <2> QED BY <2>3, FS_CardinalityType
<1>2. FiltArr(stored) = list
  BY DEF FiltArr
<1>3. Len(list) = Cardinality(set)
  <2>1. list \in [1..Cardinality(set) -> items]
    OBVIOUS
  <2> HIDE DEF set, list, items
  <2> QED BY <1>1, <2>1, FunctionIsSeq
<1>4. \A s, t \in set : Rank(s) \in 0..(Cardinality(set) - 1) /\ (Rank(s) = Rank(t) => s = t)
  <2>1. set \in SUBSET Slots
    OBVIOUS
  <2> HIDE DEF set
  <2> QED BY <2>1, RankLemma
<1> HIDE DEF Rank
<1>5. rank \in Injection(set, 1..Cardinality(set))
  <2> HIDE DEF set
  <2>1. \A s \in set : rank[s] \in 1..Cardinality(set) /\ Rank(s) \in Int
    BY <1>1, <1>4
  <2>2. \A s, t \in set : rank[s] = rank[t] => s = t
    BY <1>4, <2>1
  <2> HIDE DEF rank
  <2>3. rank \in [set -> 1..Cardinality(set)]
    BY <2>1 DEF rank
  <2> QED BY <2>2, <2>3 DEF Injection, IsInjective
<1>6. rank \in Surjection(set, 1..Cardinality(set))
  <2> HIDE DEF set, rank
  <2>1. IsFiniteSet(1..Cardinality(set)) /\ Cardinality(1..Cardinality(set)) = Cardinality(set)
    <3>1. 1 \in Int /\ Cardinality(set) \in Int
      BY <1>1
    <3>2. /\ IsFiniteSet(1..Cardinality(set))
          /\ Cardinality(1..Cardinality(set)) = IF 1 > Cardinality(set) THEN 0 ELSE Cardinality(set) - 1 + 1
      BY <3>1, FS_Interval
    <3> QED BY <1>1, <3>2
  <2> QED BY <1>5, <2>1, FS_Injection
<1>7. \A i \in 1..Cardinality(set) : \E s \in set : Rank(s) = i - 1
  <2> HIDE DEF set
  <2> TAKE i \in 1..Cardinality(set)
  <2>1. PICK s \in set : rank[s] = i
    <3> HIDE DEF rank
    <3> QED BY <1>6 DEF Surjection
  <2>2. Rank(s) \in Int
    BY <1>1, <1>4
  <2>3. Rank(s) + 1 = i
    BY <2>1
  <2> QED BY <2>2, <2>3, <1>1
<1>8. \A i \in 1..Cardinality(set) : At(i) \in set /\ Rank(At(i)) = i - 1
  <2> HIDE DEF set
  <2> QED BY <1>7
<1>9. \A s \in set : Rank(s) + 1 \in 1..Cardinality(set) /\ At(Rank(s) + 1) = s
  <2> HIDE DEF set
  <2> TAKE s \in set
  <2> DEFINE i == Rank(s) + 1
  <2>1. Rank(s) \in Int /\ i \in 1..Cardinality(set) /\ i - 1 = Rank(s)
    BY <1>1, <1>4
  <2> HIDE DEF i
  <2>2. At(i) \in set /\ Rank(At(i)) = Rank(s)
    BY <1>8, <2>1
  <2> HIDE DEF At
  <2>3. At(i) = s
    BY <1>4, <2>2
  <2> QED BY <2>1, <2>3 DEF i
<1>10. \A i \in 1..Cardinality(set) : list[i] = stored[At(i)]
  <2> HIDE DEF set, At
  <2> QED OBVIOUS
<1>11. \A i \in 1..Len(list) : \E s \in set : list[i] = stored[s]
  <2> HIDE DEF set, At, list
  <2> QED BY <1>3, <1>8, <1>10
<1>12. \A s \in set : \E i \in 1..Len(list) : list[i] = stored[s]
  <2> HIDE DEF set, At, list
  <2> TAKE s \in set
  <2>1. Rank(s) + 1 \in 1..Len(list)
    BY <1>3, <1>9
  <2>2. list[Rank(s) + 1] = stored[s]
    BY <1>9, <1>10
  <2> QED BY <2>1, <2>2
<1> QED
  <2> HIDE DEF set, list
  <2>1. /\ Len(FiltArr(stored)) = Cardinality(set)
        /\ \A i \in 1..Len(FiltArr(stored)) : \E s \in set : FiltArr(stored)[i] = stored[s]
        /\ \A s \in set : \E i \in 1..Len(FiltArr(stored)) : FiltArr(stored)[i] = stored[s]
    BY <1>2, <1>3, <1>11, <1>12
  <2> QED BY <2>1 DEF set

\* The frames that pass the banks of a channel
FramesOf(h, ch) ==
    {f \in Frames : /\ {1, ch} \subseteq h.clk
                    /\ \E b \in (h.enabled \cap Half(ch)) \ h.listMode :
                          h.bank[b] = AnyId \/ (h.bank[b] = f /\ h.scale32)}

\* What a list lets through
ListFrames(list) == {f \in Frames : \E i \in 1..Len(list) : list[i] = AnyId \/ list[i] = f}

LEMMA SamePasses ==
    ASSUME NEW h, NEW g, NEW ch \in Channels, SameHalf(g, h, ch), g.scale32 = h.scale32,
           {1, ch} \subseteq g.clk <=> {1, ch} \subseteq h.clk
    PROVE  FramesOf(g, ch) = FramesOf(h, ch)
<1> DEFINE G == (g.enabled \cap Half(ch)) \ g.listMode
           H == (h.enabled \cap Half(ch)) \ h.listMode
<1>1. G = H /\ \A b \in H : g.bank[b] = h.bank[b]
  BY DEF SameHalf
<1> HIDE DEF G, H
<1>2. FramesOf(g, ch) = {f \in Frames : {1, ch} \subseteq g.clk /\ \E b \in G : g.bank[b] = AnyId \/ (g.bank[b] = f /\ g.scale32)}
  BY DEF FramesOf, G
<1>3. FramesOf(h, ch) = {f \in Frames : {1, ch} \subseteq h.clk /\ \E b \in H : h.bank[b] = AnyId \/ (h.bank[b] = f /\ h.scale32)}
  BY DEF FramesOf, H
<1> QED BY <1>1, <1>2, <1>3

\* setFilter lets through what is in the list, if the banks are as wide as its filters.
LEMMA SetFilterPasses ==
    ASSUME NEW h, IsHw(h), NEW ch \in Channels, NEW list, Fits(list), {1, ch} \subseteq h.clk
    PROVE  LET g == CanSetFilter(h, ch, list)
           IN  /\ g.scale32 = h.scale32
               /\ h.scale32 = TRUE \/ (\A i \in 1..Len(list) : list[i] = AnyId) =>
                     FramesOf(g, ch) = ListFrames(list)
<1> DEFINE used == FirstBank(ch)..(FirstBank(ch) + Len(list) - 1)
           g == CanSetFilter(h, ch, list)
<1>0. FirstBank(ch) \in Nat /\ Len(list) \in Nat
  BY Halves DEF Fits, Channels
<1>1. /\ used \subseteq Half(ch) /\ Half(ch) \subseteq Banks
      /\ \A b \in used : b - FirstBank(ch) + 1 \in 1..Len(list)
  BY Halves DEF Fits, Channels, Banks
<1>a. ASSUME NEW i \in 1..Len(list)
      PROVE  \E b \in used : b - FirstBank(ch) + 1 = i
  <2> DEFINE b == i - 1 + FirstBank(ch)
  <2>1. b \in used /\ b - FirstBank(ch) + 1 = i
    BY <1>0
  <2> QED BY <2>1
<1>2. g = [h EXCEPT !.bank = [b \in Banks |-> IF b \in used
                                              THEN list[b - FirstBank(ch) + 1] ELSE h.bank[b]],
                    !.enabled = (h.enabled \cap (Banks \ Half(ch))) \cup used,
                    !.listMode = h.listMode \ used]
  BY DEF CanSetFilter, IsHw
<1> HIDE DEF g, used
<1>3. /\ g.clk = h.clk /\ g.scale32 = h.scale32
      /\ (g.enabled \cap Half(ch)) \ g.listMode = used
      /\ \A b \in used : g.bank[b] = list[b - FirstBank(ch) + 1]
  <2>1. /\ g.clk = h.clk /\ g.scale32 = h.scale32
        /\ g.enabled = (h.enabled \cap (Banks \ Half(ch))) \cup used
        /\ g.listMode = h.listMode \ used
        /\ g.bank = [b \in Banks |-> IF b \in used THEN list[b - FirstBank(ch) + 1] ELSE h.bank[b]]
    BY <1>2, Zenon DEF IsHw
  <2>2. (g.enabled \cap Half(ch)) \ g.listMode = used
    BY <1>1, <2>1
  <2>3. \A b \in used : g.bank[b] = list[b - FirstBank(ch) + 1]
    BY <1>1, <2>1
  <2> QED BY <2>1, <2>2, <2>3
<1>4. ASSUME h.scale32 = TRUE \/ (\A i \in 1..Len(list) : list[i] = AnyId)
      PROVE  FramesOf(g, ch) = ListFrames(list)
  <2>1. ASSUME NEW f \in Frames, NEW b \in used, g.bank[b] = AnyId \/ (g.bank[b] = f /\ g.scale32)
        PROVE  \E i \in 1..Len(list) : list[i] = AnyId \/ list[i] = f
    BY <1>1, <1>3, <2>1
  <2>2. ASSUME NEW f \in Frames, NEW i \in 1..Len(list), list[i] = AnyId \/ list[i] = f
        PROVE  \E b \in used : g.bank[b] = AnyId \/ (g.bank[b] = f /\ g.scale32)
    <3>1. PICK b \in used : b - FirstBank(ch) + 1 = i
      BY <1>a
    <3>2. g.bank[b] = list[i]
      BY <1>3, <3>1
    <3>3. list[i] = AnyId \/ g.scale32
      BY <1>3, <1>4
    <3> QED BY <2>2, <3>1, <3>2, <3>3, Zenon
  <2>3. FramesOf(g, ch) = {f \in Frames : \E b \in used : g.bank[b] = AnyId \/ (g.bank[b] = f /\ g.scale32)}
    BY <1>3 DEF FramesOf
  <2> QED BY <2>1, <2>2, <2>3 DEF ListFrames
<1> QED BY <1>3, <1>4 DEF g

LEMMA EverythingPasses == ListFrames(Everything) = Frames /\ \A i \in 1..Len(Everything) : Everything[i] = AnyId
BY DEF ListFrames, Everything

\* The frames that a channel's stored filters ask for
Asked(slots) ==
    LET set == {slots[s] : s \in Slots} \ {NoFilter}
    IN  IF set = {} THEN Frames ELSE set

LEMMA AskedLemma ==
    ASSUME NEW stored \in [Slots -> Filters \cup {NoFilter}]
    PROVE  ListFrames(IF FiltArr(stored) # <<>> THEN FiltArr(stored) ELSE Everything) = Asked(stored)
<1> DEFINE set == {s \in Slots : stored[s] # NoFilter}
           list == FiltArr(stored)
           found == {stored[s] : s \in Slots} \ {NoFilter}
<1>1. /\ Len(list) = Cardinality(set)
      /\ \A i \in 1..Len(list) : \E s \in set : list[i] = stored[s]
      /\ \A s \in set : \E i \in 1..Len(list) : list[i] = stored[s]
  BY FiltArrHolds
<1>2. Len(list) \in Nat /\ (list = <<>> <=> Len(list) = 0)
  <2>1. Fits(list)
    BY FiltArrFits
  <2>2. list = [i \in 1..Cardinality(set) |-> list[i]]
    BY DEF FiltArr
  <2> HIDE DEF list, set
  <2>3. Len(list) \in Nat
    BY <2>1, Halves DEF Fits
  <2>4. list = [i \in 1..Len(list) |-> list[i]]
    BY <1>1, <2>2
  <2>5. list = <<>> => Len(list) = 0
    OBVIOUS
  <2>6. Len(list) = 0 => list = <<>>
    BY <2>4
  <2> QED BY <2>3, <2>5, <2>6
<1>3. found = {f \in Filters : \E s \in set : f = stored[s]} /\ found \subseteq Frames
  BY FiltersAssumption DEF Frames
<1>4. \A f \in found : f # AnyId
  BY FiltersAssumption
<1>5. (\E s \in set : TRUE) <=> found # {}
  OBVIOUS
<1>6. \A s \in set : stored[s] \in found
  OBVIOUS
<1> HIDE DEF list, set, found
<1>7. CASE list = <<>>
  <2>1. found = {}
    BY <1>1, <1>2, <1>5, <1>7
  <2> QED BY <1>7, <2>1, EverythingPasses DEF Asked, list, found
<1>8. CASE list # <<>>
  <2>1. PICK s \in set : TRUE
    <3>1. 1 \in 1..Len(list)
      BY <1>2, <1>8
    <3> QED BY <1>1, <3>1
  <2>2. found # {}
    BY <1>5, <2>1
  <2>3. ListFrames(list) \subseteq found
    <3> SUFFICES ASSUME NEW f \in Frames, NEW i \in 1..Len(list), list[i] = AnyId \/ list[i] = f
                 PROVE  f \in found
      BY DEF ListFrames
    <3>1. list[i] \in found
      BY <1>1, <1>6
    <3> QED BY <3>1, <1>4
  <2>4. found \subseteq ListFrames(list)
    <3> SUFFICES ASSUME NEW f \in found PROVE f \in ListFrames(list)
      OBVIOUS
    <3>1. f \in Frames /\ \E x \in set : f = stored[x]
      BY <1>3
    <3>2. \E i \in 1..Len(list) : list[i] = f
      BY <1>1, <3>1
    <3> QED BY <3>1, <3>2 DEF ListFrames
  <2> QED BY <1>8, <2>2, <2>3, <2>4 DEF Asked, list, found
<1> QED BY <1>7, <1>8

\* Opening a channel lets everything through, and opening channel 2 leaves channel 1
\* alone.  (Opening channel 1 disables the banks of channel 2: CarefulSpec.)
LEMMA OpenPasses ==
    ASSUME NEW h, IsHw(h), h.scale32 \in BOOLEAN, NEW ch \in Channels, NEW o
    PROVE  LET g == OpenChannel(h, ch, o)
           IN  /\ IsHw(g) /\ g.scale32 \in BOOLEAN /\ (h.scale32 => g.scale32)
               /\ FramesOf(g, ch) = Frames
               /\ ch = 2 => g.scale32 = h.scale32 /\ (1 \in h.clk => FramesOf(g, 1) = FramesOf(h, 1))
<1> DEFINE i == CanInit(h, ch, o)
           g == CanSetFilter(i, ch, Everything)
<1>1. IsHw(i) /\ i.clk = h.clk \cup {1, ch}
  BY InitLemma
<1>2. i.scale32 \in BOOLEAN /\ (h.scale32 => i.scale32)
  BY DEF CanInit, IsHw
<1>3. ch = 2 => SameHalf(i, h, 1) /\ i.scale32 = h.scale32
  BY DEF CanInit, IsHw, SameHalf
<1> HIDE DEF i
<1>4. /\ IsHw(g) /\ g.clk = i.clk
      /\ \A other \in Channels \ {ch} : SameHalf(g, i, other)
  BY <1>1, SetFilterLemma, EverythingFits
<1>5. g.scale32 = i.scale32 /\ FramesOf(g, ch) = Frames
  <2>1. {1, ch} \subseteq i.clk
    BY <1>1
  <2>2. /\ g.scale32 = i.scale32
        /\ i.scale32 = TRUE \/ (\A n \in 1..Len(Everything) : Everything[n] = AnyId) =>
              FramesOf(g, ch) = ListFrames(Everything)
    BY <1>1, <2>1, SetFilterPasses, EverythingFits
  <2> QED BY <2>2, EverythingPasses
<1> HIDE DEF g
<1>6. ASSUME ch = 2, 1 \in h.clk PROVE FramesOf(g, 1) = FramesOf(h, 1)
  <2>1. SameHalf(g, i, 1)
    BY <1>4, <1>6 DEF Channels
  <2>2. SameHalf(g, h, 1)
    BY <1>3, <1>6, <2>1 DEF SameHalf
  <2>3. {1, 1} \subseteq g.clk /\ {1, 1} \subseteq h.clk /\ 1 \in Channels /\ g.scale32 = h.scale32
    BY <1>1, <1>3, <1>4, <1>5, <1>6 DEF Channels
  <2> QED BY <2>2, <2>3, SamePasses
<1> QED BY <1>2, <1>3, <1>4, <1>5, <1>6 DEF OpenChannel, g, i

LEMMA OpenedPasses ==
    ASSUME NEW h, IsHw(h), h.scale32 \in BOOLEAN, NEW C, NEW o
    PROVE  LET g == Opened(h, C, o)
           IN  /\ IsHw(g) /\ g.scale32 \in BOOLEAN /\ (h.scale32 => g.scale32)
               /\ \A ch \in Channels \cap C : FramesOf(g, ch) = Frames
               /\ 1 \notin C /\ 1 \in h.clk => FramesOf(g, 1) = FramesOf(h, 1)
               /\ C \cap Channels = {} => g = h
<1> DEFINE one == IF 1 \in C THEN OpenChannel(h, 1, o) ELSE h
           two == OpenChannel(one, 2, o)
           g == IF 2 \in C THEN two ELSE one
<1>1. /\ IsHw(one) /\ one.scale32 \in BOOLEAN /\ (h.scale32 => one.scale32)
      /\ 1 \in C => FramesOf(one, 1) = Frames /\ 1 \in one.clk
      /\ 1 \notin C => one = h
  <2> DEFINE o1 == OpenChannel(h, 1, o)
  <2>0. 1 \in Channels
    BY DEF Channels
  <2>1. /\ IsHw(o1) /\ o1.scale32 \in BOOLEAN /\ (h.scale32 => o1.scale32)
        /\ FramesOf(o1, 1) = Frames
    BY <2>0, OpenPasses
  <2>2. 1 \in o1.clk
    BY <2>0, OpenLemma
  <2> HIDE DEF o1
  <2>3. one = IF 1 \in C THEN o1 ELSE h
    BY DEF o1
  <2> HIDE DEF one
  <2> QED BY <2>1, <2>2, <2>3
<1> HIDE DEF one
<1>2. /\ IsHw(two) /\ two.scale32 \in BOOLEAN /\ (one.scale32 => two.scale32)
      /\ FramesOf(two, 2) = Frames
      /\ 1 \in one.clk => FramesOf(two, 1) = FramesOf(one, 1)
  BY <1>1, OpenPasses DEF Channels
<1> HIDE DEF two
<1>3. /\ IsHw(g) /\ g.scale32 \in BOOLEAN /\ (h.scale32 => g.scale32)
      /\ 1 \in C => FramesOf(g, 1) = Frames
      /\ 2 \in C => FramesOf(g, 2) = Frames
      /\ 1 \notin C /\ 1 \in h.clk => FramesOf(g, 1) = FramesOf(h, 1)
      /\ 1 \notin C /\ 2 \notin C => g = h
  <2>1. CASE 2 \in C
    BY <1>1, <1>2, <2>1
  <2>2. CASE 2 \notin C
    BY <1>1, <2>2
  <2> QED BY <2>1, <2>2
<1> HIDE DEF g
<1>4. /\ \A ch \in Channels \cap C : FramesOf(g, ch) = Frames
      /\ C \cap Channels = {} => g = h
  BY <1>3 DEF Channels
<1>5. g = Opened(h, C, o)
  BY DEF g, two, one, Opened
<1> QED BY <1>3, <1>4, <1>5

\* Registers with 32-bit banks
IsWide(h) == IsHw(h) /\ h.scale32 = TRUE

\* The stored filters, once applied, let through what they ask for.
LEMMA ApplyPasses ==
    ASSUME NEW h, IsWide(h), NEW ch \in Channels,
           NEW stored \in [Slots -> Filters \cup {NoFilter}]
    PROVE  LET g == ApplyFilters(h, ch, stored)
           IN  /\ IsWide(g) /\ g.clk = h.clk
               /\ {1, ch} \subseteq h.clk => FramesOf(g, ch) = Asked(stored)
               /\ \A other \in Channels \ {ch} : FramesOf(g, other) = FramesOf(h, other)
<1> DEFINE list == IF FiltArr(stored) # <<>> THEN FiltArr(stored) ELSE Everything
           g == CanSetFilter(h, ch, list)
<1>0. IsHw(h) /\ h.scale32 = TRUE
  BY DEF IsWide
<1>1. Fits(list) /\ ListFrames(list) = Asked(stored)
  BY FiltArrFits, EverythingFits, AskedLemma
<1> HIDE DEF list
<1>2. /\ IsHw(g) /\ g.clk = h.clk
      /\ \A other \in Channels \ {ch} : SameHalf(g, h, other)
  BY <1>0, <1>1, SetFilterLemma
<1>3. g.scale32 = TRUE
  BY <1>0 DEF CanSetFilter, IsHw
<1>4. {1, ch} \subseteq h.clk => FramesOf(g, ch) = Asked(stored)
  BY <1>0, <1>1, SetFilterPasses
<1> HIDE DEF g
<1>5. \A other \in Channels \ {ch} : FramesOf(g, other) = FramesOf(h, other)
  BY <1>0, <1>2, <1>3, SamePasses
<1>6. IsWide(g)
  BY <1>2, <1>3 DEF IsWide
<1> QED BY <1>2, <1>4, <1>5, <1>6 DEF ApplyFilters, g, list

LEMMA AppliedPasses ==
    ASSUME NEW h, IsWide(h), NEW C,
           NEW stored \in [Channels -> [Slots -> Filters \cup {NoFilter}]]
    PROVE  LET g == Applied(h, C, stored)
           IN  /\ IsWide(g)
               /\ \A ch \in Channels \cap C :
                     {1, ch} \subseteq h.clk => FramesOf(g, ch) = Asked(stored[ch])
               /\ \A ch \in Channels \ C : FramesOf(g, ch) = FramesOf(h, ch)
<1> DEFINE one == IF 1 \in C THEN ApplyFilters(h, 1, stored[1]) ELSE h
           two == ApplyFilters(one, 2, stored[2])
           g == IF 2 \in C THEN two ELSE one
<1>1. /\ IsWide(one) /\ one.clk = h.clk
      /\ 1 \in C /\ 1 \in h.clk => FramesOf(one, 1) = Asked(stored[1])
      /\ 1 \notin C => one = h
      /\ FramesOf(one, 2) = FramesOf(h, 2)
  <2> DEFINE a1 == ApplyFilters(h, 1, stored[1])
  <2>0. 1 \in Channels /\ 2 \in Channels \ {1} /\ stored[1] \in [Slots -> Filters \cup {NoFilter}]
    BY DEF Channels
  <2>a. /\ IsWide(a1) /\ a1.clk = h.clk
        /\ {1, 1} \subseteq h.clk => FramesOf(a1, 1) = Asked(stored[1])
        /\ \A other \in Channels \ {1} : FramesOf(a1, other) = FramesOf(h, other)
    BY <2>0, ApplyPasses, Zenon
  <2> HIDE DEF a1
  <2>1. /\ IsWide(a1) /\ a1.clk = h.clk
        /\ {1, 1} \subseteq h.clk => FramesOf(a1, 1) = Asked(stored[1])
        /\ FramesOf(a1, 2) = FramesOf(h, 2)
    BY <2>0, <2>a, Zenon
  <2>2. one = IF 1 \in C THEN a1 ELSE h
    BY DEF a1
  <2> HIDE DEF one
  <2> QED BY <2>1, <2>2
<1> HIDE DEF one
<1>2. /\ IsWide(two)
      /\ {1, 2} \subseteq one.clk => FramesOf(two, 2) = Asked(stored[2])
      /\ FramesOf(two, 1) = FramesOf(one, 1)
  <2>1. 2 \in Channels /\ 1 \in Channels \ {2} /\ stored[2] \in [Slots -> Filters \cup {NoFilter}]
    BY DEF Channels
  <2>2. ASSUME NEW k, IsWide(k)
        PROVE  LET a2 == ApplyFilters(k, 2, stored[2])
               IN  /\ IsWide(a2)
                   /\ {1, 2} \subseteq k.clk => FramesOf(a2, 2) = Asked(stored[2])
                   /\ FramesOf(a2, 1) = FramesOf(k, 1)
    <3> DEFINE a2 == ApplyFilters(k, 2, stored[2])
    <3>1. /\ IsWide(a2) /\ a2.clk = k.clk
          /\ {1, 2} \subseteq k.clk => FramesOf(a2, 2) = Asked(stored[2])
          /\ \A other \in Channels \ {2} : FramesOf(a2, other) = FramesOf(k, other)
      BY <2>1, <2>2, ApplyPasses, Zenon
    <3> HIDE DEF a2
    <3>2. FramesOf(a2, 1) = FramesOf(k, 1)
      BY <2>1, <3>1, Zenon
    <3> QED BY <3>1, <3>2 DEF a2
  <2> QED BY <1>1, <2>2
<1> HIDE DEF two
<1>3. /\ IsWide(g)
      /\ 1 \in C /\ 1 \in h.clk => FramesOf(g, 1) = Asked(stored[1])
      /\ 2 \in C /\ {1, 2} \subseteq h.clk => FramesOf(g, 2) = Asked(stored[2])
      /\ 1 \notin C => FramesOf(g, 1) = FramesOf(h, 1)
      /\ 2 \notin C => FramesOf(g, 2) = FramesOf(h, 2)
  <2>1. CASE 2 \in C
    BY <1>1, <1>2, <2>1
  <2>2. CASE 2 \notin C
    BY <1>1, <2>2
  <2> QED BY <2>1, <2>2
<1> HIDE DEF g
<1>4. /\ \A ch \in Channels \cap C :
            {1, ch} \subseteq h.clk => FramesOf(g, ch) = Asked(stored[ch])
      /\ \A ch \in Channels \ C : FramesOf(g, ch) = FramesOf(h, ch)
  BY <1>3 DEF Channels
<1>5. g = Applied(h, C, stored)
  BY DEF g, two, one, Applied
<1> QED BY <1>3, <1>4, <1>5

\* Closing a channel leaves the banks alone.
LEMMA DeinitPasses ==
    ASSUME NEW h, IsHw(h), NEW C \in SUBSET Channels
    PROVE  LET g == OnChannels(h, C, CanDeinit)
           IN  /\ IsHw(g) /\ g.scale32 = h.scale32
               /\ \A ch \in Channels : {1, ch} \cap C = {} => FramesOf(g, ch) = FramesOf(h, ch)
<1> DEFINE one == IF 1 \in C THEN CanDeinit(h, 1) ELSE h
           two == CanDeinit(one, 2)
           g == IF 2 \in C THEN two ELSE one
<1>0. 1 \in Channels /\ 2 \in Channels
  BY DEF Channels
<1>1. /\ IsHw(one) /\ one.clk = h.clk \ (C \cap {1}) /\ one.scale32 = h.scale32
      /\ \A ch \in Channels : SameHalf(one, h, ch)
  <2>1. IsHw(CanDeinit(h, 1)) /\ CanDeinit(h, 1).clk = h.clk \ {1}
    BY <1>0, DeinitLemma
  <2>2. CanDeinit(h, 1).scale32 = h.scale32 /\ \A ch \in Channels : SameHalf(CanDeinit(h, 1), h, ch)
    BY DEF CanDeinit, IsHw, SameHalf
  <2>3. \A ch \in Channels : SameHalf(h, h, ch)
    BY DEF SameHalf
  <2>4. CASE 1 \in C
    BY <2>1, <2>2, <2>4
  <2>5. CASE 1 \notin C
    BY <2>3, <2>5
  <2> QED BY <2>4, <2>5
<1> HIDE DEF one
<1>2. /\ IsHw(two) /\ two.clk = one.clk \ {2} /\ two.scale32 = one.scale32
      /\ \A ch \in Channels : SameHalf(two, one, ch)
  <2>1. IsHw(two) /\ two.clk = one.clk \ {2}
    BY <1>0, <1>1, DeinitLemma
  <2>2. two.scale32 = one.scale32 /\ \A ch \in Channels : SameHalf(two, one, ch)
    BY <1>1 DEF CanDeinit, IsHw, SameHalf
  <2> QED BY <2>1, <2>2
<1> HIDE DEF two
<1>3. /\ IsHw(g) /\ g.clk = h.clk \ C /\ g.scale32 = h.scale32
      /\ \A ch \in Channels : SameHalf(g, h, ch)
  <2>1. CASE 2 \in C
    <3>1. g.clk = h.clk \ C
      BY <1>1, <1>2, <2>1 DEF Channels
    <3> QED BY <1>1, <1>2, <2>1, <3>1 DEF SameHalf
  <2>2. CASE 2 \notin C
    <3>1. g.clk = h.clk \ C
      BY <1>1, <2>2 DEF Channels
    <3> QED BY <1>1, <2>2, <3>1
  <2> QED BY <2>1, <2>2
<1> HIDE DEF g
<1>4. ASSUME NEW ch \in Channels, {1, ch} \cap C = {} PROVE FramesOf(g, ch) = FramesOf(h, ch)
  <2>1. {1, ch} \subseteq g.clk <=> {1, ch} \subseteq h.clk
    BY <1>3, <1>4
  <2> QED BY <1>3, <2>1, SamePasses
<1>5. g = OnChannels(h, C, CanDeinit)
  BY DEF g, two, one, OnChannels
<1> QED BY <1>3, <1>4, <1>5

----------------------------------------------------------------------------
(* The steps of a careful host, as steps of CanChannels                      *)

Passed(ch) == IF open[ch] THEN {f \in Frames : Passes(ch, f)} ELSE {}

CarefulInv ==
    /\ Inv
    /\ scale32 \in BOOLEAN
    /\ \A ch \in Channels : open[ch] => scale32
    /\ filters \in [Channels -> [Slots -> Filters \cup {NoFilter}]]

LEMMA PassesOf ==
    /\ TypeInv => IsHw(hw) /\ hw.clk = clk /\ hw.scale32 = scale32
    /\ \A ch \in Channels : FramesOf(hw, ch) = {f \in Frames : Passes(ch, f)}
<1>1. TypeInv => IsHw(hw) /\ hw.clk = clk /\ hw.scale32 = scale32
  BY HwOf DEF hw
<1>2. \A ch \in Channels : FramesOf(hw, ch) = {f \in Frames : Passes(ch, f)}
  <2>1. hw.clk = clk /\ hw.enabled = enabled /\ hw.listMode = listMode /\ hw.bank = bank /\ hw.scale32 = scale32
    BY DEF hw
  <2> QED BY <2>1, Zenon DEF FramesOf, Passes
<1> QED BY <1>1, <1>2

LEMMA PassesNext ==
    ASSUME NEW g, HwBecomes(g)
    PROVE  /\ scale32' = g.scale32 /\ clk' = g.clk
           /\ \A ch \in Channels : FramesOf(g, ch) = {f \in Frames : Passes(ch, f)'}
<1>1. clk' = g.clk /\ enabled' = g.enabled /\ listMode' = g.listMode /\ bank' = g.bank /\ scale32' = g.scale32
  BY DEF HwBecomes
<1> QED BY <1>1, Zenon DEF FramesOf, Passes, Half, FirstBank

\* Whatever the banks hold, setFilter does not change their width.
LEMMA AppliedScale ==
    ASSUME NEW h, IsHw(h), NEW C, NEW stored
    PROVE  Applied(h, C, stored).scale32 = h.scale32
<1> DEFINE one == IF 1 \in C THEN ApplyFilters(h, 1, stored[1]) ELSE h
           two == ApplyFilters(one, 2, stored[2])
<1>1. ASSUME NEW k, IsHw(k), NEW ch, NEW list PROVE CanSetFilter(k, ch, list).scale32 = k.scale32
  BY <1>1 DEF CanSetFilter, IsHw
<1>2. IsHw(one) /\ one.scale32 = h.scale32
  <2>1. IsHw(ApplyFilters(h, 1, stored[1]))
    BY ApplyLemma DEF Channels
  <2>2. ApplyFilters(h, 1, stored[1]).scale32 = h.scale32
    BY <1>1 DEF ApplyFilters
  <2> QED BY <2>1, <2>2
<1> HIDE DEF one
<1>3. two.scale32 = one.scale32
  BY <1>1, <1>2 DEF ApplyFilters
<1> HIDE DEF two
<1>4. (IF 2 \in C THEN two ELSE one).scale32 = h.scale32
  BY <1>2, <1>3
<1> QED BY <1>4 DEF Applied, one, two

\* What CarefulInv adds to Inv
Wide ==
    /\ scale32 \in BOOLEAN
    /\ \A ch \in Channels : open[ch] => scale32
    /\ filters \in [Channels -> [Slots -> Filters \cup {NoFilter}]]

\* A step that CanChannels does not see
Unseen == filters' = filters /\ \A ch \in Channels : open'[ch] = open[ch] /\ Passed(ch)' = Passed(ch)

PromiseVars ==
    <<[ch \in Channels |-> open[ch]], filters,
      [ch \in Channels |-> IF open[ch] THEN {f \in Frames : Passes(ch, f)} ELSE {}]>>

LEMMA UnseenLemma == ASSUME Unseen PROVE UNCHANGED PromiseVars
BY DEF Unseen, PromiseVars, Passed

LEMMA QuietUnseen ==
    ASSUME UNCHANGED <<hwVars, filters>>, \A ch \in Channels : open'[ch] = open[ch]
    PROVE  Unseen /\ (Wide => Wide')
<1>1. \A ch \in Channels : {f \in Frames : Passes(ch, f)'} = {f \in Frames : Passes(ch, f)}
  BY DEF Passes, Half, FirstBank, hwVars
<1>2. \A ch \in Channels : Passed(ch)' = Passed(ch)
  BY <1>1 DEF Passed
<1> QED BY <1>2 DEF Unseen, Wide, hwVars

LEMMA RefuseUnseen == ASSUME Refuse PROVE Unseen /\ (Wide => Wide')
BY QuietUnseen DEF Refuse, settings

\* The steps that CanChannels sees, channel by channel
LEMMA SeenOpen ==
    ASSUME NEW C, filters' = filters,
           \A ch \in Channels : /\ open'[ch] = (open[ch] \/ ch \in C)
                                /\ Passed(ch)' = IF ch \in C THEN Frames ELSE Passed(ch)
    PROVE  Promise!Next
<1> DEFINE D == C \cap Channels
<1>1. Promise!Open(D)
  BY DEF Promise!Open, Passed
<1> QED BY <1>1 DEF Promise!Next

LEMMA SeenClose ==
    ASSUME NEW C, filters' = filters,
           \A ch \in Channels : /\ open'[ch] = (open[ch] /\ ch \notin C)
                                /\ Passed(ch)' = IF ch \in C THEN {} ELSE Passed(ch)
    PROVE  Promise!Next
<1> DEFINE D == C \cap Channels
<1>1. Promise!Close(D)
  BY DEF Promise!Close, Passed
<1> QED BY <1>1 DEF Promise!Next

LEMMA SeenFilter ==
    ASSUME NEW C, NEW s \in Slots, NEW f \in Filters \cup {NoFilter},
           filters' = [ch \in Channels |-> IF ch \in C THEN [filters[ch] EXCEPT ![s] = f] ELSE filters[ch]],
           \A ch \in Channels : /\ open'[ch] = open[ch]
                                /\ Passed(ch)' = IF ch \notin C \/ ~open[ch] THEN Passed(ch)
                                                 ELSE Asked(filters'[ch])
    PROVE  Promise!Next
<1> DEFINE D == C \cap Channels
<1>1. Promise!SetFilter(D, s, f)
  <2>1. filters' = [ch \in Channels |-> IF ch \in D THEN [filters[ch] EXCEPT ![s] = f] ELSE filters[ch]]
    OBVIOUS
  <2>2. \A ch \in Channels : Promise!Stored(ch)' = {filters'[ch][x] : x \in Slots} \ {NoFilter}
    BY DEF Promise!Stored
  <2>3. \A ch \in Channels :
           Passed(ch)' = IF ch \notin D \/ ~open[ch] THEN Passed(ch)
                         ELSE IF Promise!Stored(ch)' = {} THEN Frames ELSE Promise!Stored(ch)'
    BY <2>2 DEF Asked
  <2>4. [ch \in Channels |-> open'[ch]] = [ch \in Channels |-> open[ch]]
    OBVIOUS
  <2> QED BY <2>1, <2>3, <2>4 DEF Promise!SetFilter, Passed
<1> QED BY <1>1 DEF Promise!Next

LEMMA HandshakeSeen == ASSUME Wide, Handshake PROVE Promise!Next /\ Wide'
<1>1. \A ch \in Channels : open'[ch] = FALSE
  BY DEF Handshake, Channels, Targets
<1>2. \A ch \in Channels : (IF open[ch] THEN {f \in Frames : Passes(ch, f)} ELSE {})' = {}
  BY <1>1
<1>3. Promise!Handshake
  <2>1. [ch \in Channels |-> open[ch]]' = [ch \in Channels |-> FALSE]
    BY <1>1
  <2>2. [ch \in Channels |-> IF open[ch] THEN {f \in Frames : Passes(ch, f)} ELSE {}]' = [ch \in Channels |-> {}]
    BY <1>2
  <2>3. filters' = [ch \in Channels |-> [s \in Slots |-> NoFilter]]
    BY DEF Handshake
  <2> QED BY <2>1, <2>2, <2>3 DEF Promise!Handshake
<1>4. Wide'
  BY <1>1 DEF Wide, Handshake, hwVars
<1> QED BY <1>3, <1>4 DEF Promise!Next

LEMMA OpenSeen ==
    ASSUME CarefulInv, NEW n, CanOpen(n), open[2] /\ 1 \in Addressed(n) => 2 \in Addressed(n),
           (\E ch \in Channels : open'[ch]) => scale32'
    PROVE  (Promise!Next \/ Unseen) /\ Wide'
<1> DEFINE C == Addressed(n)
<1>0. Wide /\ TypeInv /\ ClockCovered
  BY DEF CarefulInv, Inv, Wide, ClocksMatchUse
<1>1. CASE Refuse
  BY <1>0, <1>1, RefuseUnseen
<1>2. CASE /\ \E o \in Outcomes : LET F(h, ch) == OpenChannel(h, ch, o)
                                  IN  HwBecomes(OnChannels(hw, C, F))
           /\ open' = [t \in Targets |-> open[t] \/ t \in C] /\ Answer
           /\ UNCHANGED <<mask, cfg, gate, filters, abandoned>>
  <2>1. open[2] /\ 1 \in C => 2 \in C
    OBVIOUS
  <2> HIDE DEF C
  <2>2. PICK o \in Outcomes : HwBecomes(Opened(hw, C, o))
    BY <1>2 DEF OnChannels, Opened
  <2> DEFINE g == Opened(hw, C, o)
  <2>3. IsHw(hw) /\ hw.clk = clk /\ hw.scale32 \in BOOLEAN
    BY <1>0, PassesOf DEF Wide
  <2>4. /\ g.scale32 \in BOOLEAN
        /\ \A ch \in Channels \cap C : FramesOf(g, ch) = Frames
        /\ 1 \notin C /\ 1 \in clk => FramesOf(g, 1) = FramesOf(hw, 1)
        /\ C \cap Channels = {} => g = hw
    BY <2>3, OpenedPasses
  <2> HIDE DEF g
  <2>5. scale32' = g.scale32 /\ \A ch \in Channels : FramesOf(g, ch) = {f \in Frames : Passes(ch, f)'}
    BY <2>2, PassesNext DEF g
  <2>6. \A ch \in Channels : open'[ch] = (open[ch] \/ ch \in C)
    BY <1>2 DEF Channels, Targets
  <2>7. \A ch \in Channels \ C : open[ch] => FramesOf(g, ch) = FramesOf(hw, ch)
    <3>1. open[1] /\ 1 \notin C => FramesOf(g, 1) = FramesOf(hw, 1)
      BY <1>0, <2>4 DEF ClockCovered, Channels
    <3>2. open[2] /\ 2 \notin C => FramesOf(g, 2) = FramesOf(hw, 2)
      <4>1. open[2] /\ 2 \notin C => C \cap Channels = {}
        BY <2>1 DEF Channels
      <4> QED BY <2>4, <4>1
    <3> QED BY <3>1, <3>2 DEF Channels
  <2>8. \A ch \in Channels : Passed(ch)' = IF ch \in C THEN Frames ELSE Passed(ch)
    <3> SUFFICES ASSUME NEW ch \in Channels PROVE Passed(ch)' = IF ch \in C THEN Frames ELSE Passed(ch)
      OBVIOUS
    <3>1. FramesOf(hw, ch) = {f \in Frames : Passes(ch, f)}
      BY PassesOf
    <3>2. Passed(ch)' = IF open'[ch] THEN FramesOf(g, ch) ELSE {}
      BY <2>5 DEF Passed
    <3>3. Passed(ch) = IF open[ch] THEN FramesOf(hw, ch) ELSE {}
      BY <3>1 DEF Passed
    <3>4. open'[ch] = (open[ch] \/ ch \in C)
      BY <2>6
    <3>5. CASE ch \in C
      <4>1. FramesOf(g, ch) = Frames
        BY <2>4, <3>5
      <4> QED BY <3>2, <3>4, <3>5, <4>1
    <3>6. CASE ch \notin C /\ open[ch]
      BY <2>7, <3>2, <3>3, <3>4, <3>6
    <3>7. CASE ch \notin C /\ ~open[ch]
      BY <3>2, <3>3, <3>4, <3>7
    <3> QED BY <3>5, <3>6, <3>7
  <2>9. Promise!Next
    BY <1>2, <2>6, <2>8, SeenOpen
  <2>10. Wide'
    BY <1>0, <1>2, <2>4, <2>5 DEF Wide
  <2> QED BY <2>9, <2>10
<1> QED BY <1>1, <1>2 DEF CanOpen

LEMMA FilterSeen ==
    ASSUME CarefulInv, NEW n, NEW word, NEW f \in Filters \cup {NoFilter}, CanFilter(n, word, f)
    PROVE  (Promise!Next \/ Unseen) /\ Wide'
<1> DEFINE C == Addressed(n)
           slot == word % 256
           stored == [ch \in Channels |->
                        IF ch \in C THEN [filters[ch] EXCEPT ![slot] = f] ELSE filters[ch]]
<1>0. Wide /\ TypeInv /\ ClockCovered
  BY DEF CarefulInv, Inv, Wide, ClocksMatchUse
<1>1. CASE Refuse
  BY <1>0, <1>1, RefuseUnseen
<1>2. CASE /\ slot \in Slots /\ filters' = stored
           /\ LET F(h, ch) == ApplyFilters(h, ch, stored[ch]) IN HwBecomes(OnChannels(hw, C, F))
           /\ UNCHANGED <<mask, open, cfg, gate, abandoned>>
  <2>1. stored \in [Channels -> [Slots -> Filters \cup {NoFilter}]]
    <3> HIDE DEF C
    <3>1. \A ch \in Channels : filters[ch] \in [Slots -> Filters \cup {NoFilter}]
      BY <1>0 DEF Wide
    <3> QED BY <1>2, <3>1
  <2>2. filters' = [ch \in Channels |-> IF ch \in C THEN [filters[ch] EXCEPT ![slot] = f] ELSE filters[ch]]
    BY <1>2
  <2>s. slot \in Slots
    BY <1>2
  <2> HIDE DEF C, stored, slot
  <2> DEFINE Told == \A ch \in Channels : /\ open'[ch] = open[ch]
                                          /\ Passed(ch)' = IF ch \notin C \/ ~open[ch] THEN Passed(ch)
                                                           ELSE Asked(filters'[ch])
  <2>t. Told => Promise!Next
    BY <2>2, <2>s, SeenFilter, Zenon
  <2>3. HwBecomes(Applied(hw, C, stored))
    BY <1>2 DEF OnChannels, Applied
  <2> DEFINE g == Applied(hw, C, stored)
  <2>4. IsHw(hw) /\ hw.clk = clk /\ hw.scale32 = scale32
    BY <1>0, PassesOf
  <2>5. scale32' = g.scale32 /\ \A ch \in Channels : FramesOf(g, ch) = {x \in Frames : Passes(ch, x)'}
    BY <2>3, PassesNext
  <2>6. \A ch \in Channels : FramesOf(hw, ch) = {x \in Frames : Passes(ch, x)}
    BY PassesOf
  <2> HIDE DEF g
  <2>7. CASE ~open[1] /\ ~open[2]
    <3>1. \A ch \in Channels : ~open[ch] /\ ~open'[ch]
      BY <1>2, <2>7 DEF Channels
    <3>2. \A ch \in Channels : Passed(ch)' = {} /\ Passed(ch) = {}
      BY <3>1 DEF Passed
    <3>3. Promise!Next
      <4>1. Told
        BY <1>2, <3>1, <3>2
      <4> QED BY <2>t, <4>1
    <3>4. g.scale32 \in BOOLEAN
      BY <1>0, <2>1, <2>4, AppliedScale DEF Wide, g
    <3> QED BY <1>2, <2>1, <2>5, <3>1, <3>3, <3>4 DEF Wide
  <2>8. CASE open[1] \/ open[2]
    <3>1. IsWide(hw)
      BY <1>0, <2>4, <2>8 DEF Wide, Channels, IsWide
    <3>a. /\ IsWide(g)
          /\ \A ch \in Channels \cap C : {1, ch} \subseteq hw.clk => FramesOf(g, ch) = Asked(stored[ch])
          /\ \A ch \in Channels \ C : FramesOf(g, ch) = FramesOf(hw, ch)
      BY <2>1, <3>1, AppliedPasses DEF g
    <3>2. /\ g.scale32 = TRUE
          /\ \A ch \in Channels \cap C : {1, ch} \subseteq clk => FramesOf(g, ch) = Asked(stored[ch])
          /\ \A ch \in Channels \ C : FramesOf(g, ch) = FramesOf(hw, ch)
      BY <2>4, <3>a DEF IsWide
    <3>3. ASSUME NEW ch \in Channels
          PROVE  Passed(ch)' = IF ch \notin C \/ ~open[ch] THEN Passed(ch) ELSE Asked(stored[ch])
      <4>1. Passed(ch)' = (IF open[ch] THEN FramesOf(g, ch) ELSE {}) /\ Passed(ch) = IF open[ch] THEN FramesOf(hw, ch) ELSE {}
        BY <1>2, <2>5, <2>6 DEF Passed
      <4>2. open[ch] => {1, ch} \subseteq clk
        BY <1>0 DEF ClockCovered
      <4> QED BY <3>2, <4>1, <4>2
    <3>4. Promise!Next
      <4>1. Told
        BY <1>2, <3>3
      <4> QED BY <2>t, <4>1
    <3> QED BY <1>2, <2>1, <2>5, <3>2, <3>4 DEF Wide
  <2> QED BY <2>7, <2>8
<1> QED BY <1>1, <1>2 DEF CanFilter

LEMMA CloseSeen ==
    ASSUME CarefulInv, NEW n, CanClose(n)
    PROVE  (Promise!Next \/ Unseen) /\ Wide'
<1> DEFINE C == Addressed(n)
           left == [t \in Targets |-> open[t] /\ t \notin C]
           unused == IF left[2] THEN {} ELSE IF left[1] THEN {2} ELSE {1, 2}
<1>0. Wide /\ TypeInv
  BY DEF CarefulInv, Inv, Wide
<1>1. CASE Refuse
  BY <1>0, <1>1, RefuseUnseen
<1>2. CASE /\ open' = left
           /\ HwBecomes(IF C = {Lin} THEN hw ELSE OnChannels(hw, unused, CanDeinit))
           /\ UNCHANGED <<mask, cfg, gate, filters>>
  <2>1. \A ch \in Channels : open'[ch] = (open[ch] /\ ch \notin C)
    BY <1>2 DEF Channels, Targets
  <2>2. CASE C = {Lin}
    <3>1. UNCHANGED hwVars
      BY <1>2, <2>2 DEF HwBecomes, hw, hwVars
    <3>2. \A ch \in Channels : open'[ch] = open[ch]
      BY <1>0, <2>1, <2>2 DEF Channels, Targets, Lin, TypeInv
    <3> QED BY <1>0, <1>2, <3>1, <3>2, QuietUnseen
  <2>3. CASE C # {Lin}
    <3>1. HwBecomes(OnChannels(hw, unused, CanDeinit)) /\ unused \in SUBSET Channels
      BY <1>2, <2>3 DEF Channels
    <3>2. unused = IF open'[2] THEN {} ELSE IF open'[1] THEN {2} ELSE {1, 2}
      BY <1>2
    <3> HIDE DEF C, left, unused
    <3> DEFINE g == OnChannels(hw, unused, CanDeinit)
    <3>3. IsHw(hw) /\ hw.scale32 = scale32
      BY <1>0, PassesOf
    <3>4. /\ g.scale32 = scale32
          /\ \A ch \in Channels : {1, ch} \cap unused = {} => FramesOf(g, ch) = FramesOf(hw, ch)
      BY <3>1, <3>3, DeinitPasses
    <3>5. scale32' = g.scale32 /\ \A ch \in Channels : FramesOf(g, ch) = {f \in Frames : Passes(ch, f)'}
      BY <3>1, PassesNext
    <3>6. \A ch \in Channels : FramesOf(hw, ch) = {f \in Frames : Passes(ch, f)}
      BY PassesOf
    <3> HIDE DEF g
    <3>7. \A ch \in Channels : open'[ch] => {1, ch} \cap unused = {}
      BY <3>2 DEF Channels
    <3>8. ASSUME NEW ch \in Channels
          PROVE  Passed(ch)' = IF ch \in C THEN {} ELSE Passed(ch)
      <4>1. Passed(ch)' = (IF open'[ch] THEN FramesOf(g, ch) ELSE {}) /\ Passed(ch) = IF open[ch] THEN FramesOf(hw, ch) ELSE {}
        BY <3>5, <3>6 DEF Passed
      <4> QED BY <2>1, <3>4, <3>7, <4>1
    <3>9. Promise!Next
      BY <1>2, <2>1, <3>8, SeenClose
    <3>10. Wide'
      BY <1>0, <1>2, <2>1, <3>4, <3>5 DEF Wide
    <3> QED BY <3>9, <3>10
  <2> QED BY <2>2, <2>3
<1> QED BY <1>1, <1>2 DEF CanClose

LEMMA CarefulInitial == Init => CarefulInv /\ Promise!Init
<1> SUFFICES ASSUME Init PROVE CarefulInv /\ Promise!Init
  OBVIOUS
<1>1. Inv
  BY Initial
<1>2. \A ch \in Channels : ~open[ch]
  BY DEF Init, Channels, Targets
<1>3. CarefulInv
  BY <1>1, <1>2 DEF Init, CarefulInv
<1>4. Promise!Init
  <2>1. \A ch \in Channels : open[ch] = FALSE
    BY DEF Init, Channels, Targets
  <2>2. \A ch \in Channels : (IF open[ch] THEN {f \in Frames : Passes(ch, f)} ELSE {}) = {}
    BY <2>1
  <2>3. filters = [ch \in Channels |-> [s \in Slots |-> NoFilter]]
    BY DEF Init
  <2> QED BY <2>1, <2>2, <2>3 DEF Promise!Init
<1> QED BY <1>3, <1>4

LEMMA CarefulStep ==
    ASSUME CarefulInv, [CarefulNext]_vars
    PROVE  CarefulInv' /\ (Promise!Next \/ Unseen)
<1>0. Inv /\ Wide
  BY DEF CarefulInv, Wide
<1> SUFFICES Wide' /\ (Promise!Next \/ Unseen)
  <2>1. [Next]_vars
    BY DEF CarefulNext, Next
  <2>2. Inv'
    BY <1>0, <2>1, Step
  <2> QED BY <2>2 DEF CarefulInv, Wide
<1>1. CASE Handshake
  BY <1>0, <1>1, HandshakeSeen
<1>2. CASE Information \/ UNCHANGED vars
  BY <1>0, <1>2, QuietUnseen DEF Information, vars, settings
<1>3. CASE Malformed
  BY <1>0, <1>3, RefuseUnseen DEF Malformed
<1>4. CASE \E mode \in Modes : SetMode(mode)
  BY <1>0, <1>4, QuietUnseen, RefuseUnseen DEF SetMode
<1>5. CASE \E n \in Nibbles, c \in Configs, x \in BOOLEAN :
              (\E y \in BOOLEAN : SetupSpeed(n, c, x, y)) \/ SetupManual(n, c, x) \/ SetupOption(n, c, x)
  <2>1. Refuse \/ \E T, c : Setup(T, c)
    BY <1>5 DEF SetupSpeed, SetupManual, SetupOption
  <2> QED BY <1>0, <2>1, QuietUnseen, RefuseUnseen DEF Setup
<1>6. CASE \E n \in Nibbles : CanClose(n)
  BY <1>6, CloseSeen
<1>7. CASE \E n \in Nibbles, w \in Words, f \in Filters \cup {NoFilter} : CanFilter(n, w, f)
  BY <1>7, FilterSeen
<1>8. CASE \E ch \in Gated, en \in BOOLEAN : CanGate(ch, en)
  BY <1>0, <1>8, QuietUnseen DEF CanGate
<1>9. CASE \E n \in Nibbles : /\ open[2] /\ 1 \in Addressed(n) => 2 \in Addressed(n)
                              /\ CanOpen(n)
                              /\ (\E ch \in Channels : open'[ch]) => scale32'
  BY <1>9, OpenSeen
<1> QED BY <1>1, <1>2, <1>3, <1>4, <1>5, <1>6, <1>7, <1>8, <1>9 DEF CarefulNext, OtherCommands

\* With a host that opens channel 1 first and never again under channel 2, the banks the
\* two controllers share give each channel what CanChannels promises (canOpen, canFilter,
\* canClose and CanDrv behind them), whatever the modes, filters and outcomes.
THEOREM ChannelsCorrect == CarefulSpec => ImplementsCanChannels
<1>1. Init => CarefulInv /\ Promise!Init
  BY CarefulInitial
<1>2. CarefulInv /\ [CarefulNext]_vars => CarefulInv' /\ [Promise!Next]_PromiseVars
  BY CarefulStep, UnseenLemma
<1>3. CarefulInv /\ [CarefulNext]_vars => CarefulInv' /\ [Promise!Next]_(Promise!vars)
  BY <1>2 DEF PromiseVars, Promise!vars
<1> QED BY <1>1, <1>3, PTL DEF CarefulSpec, ImplementsCanChannels, Promise!Spec
=============================================================================
