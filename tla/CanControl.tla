----------------------------- MODULE CanControl -----------------------------
(* The command side of the binary protocol (CanHackerBinary.cpp) and the CAN  *)
(* driver calls it makes (Can/candrv.cpp): modes, channel set-up, opening,    *)
(* filters, gates and closing, with the clocks and the filter banks the two   *)
(* controllers share.  A command is complete when it is parsed, so that each  *)
(* one is a single step of the main loop.                                    *)
EXTENDS Integers, FiniteSets, Sequences

CONSTANTS NSlots,    \* filters per channel, banks per half (14)
          Filters,   \* filters the host may set
          NoFilter,  \* a slot with mask 0
          Other,     \* frames that match none of Filters
          AnyId,     \* a bank with mask 0
          Configs,   \* bit rates and listen modes
          NoConfig,  \* those of a channel nobody has set up
          Modes,     \* bound: the modes the host selects, 0..3 (3 stands for 3..255)
          Gated,     \* bound: the channels whose gate the host switches
          Outcomes   \* how an initialisation may end: "ok", "stuck"

ASSUME NSlotsAssumption == NSlots \in Nat /\ NSlots > 1
ASSUME FiltersAssumption == NoFilter \notin Filters /\ Other \notin Filters /\ AnyId \notin Filters

Channels == {1, 2}
Lin      == 3
Targets  == Channels \cup {Lin}   \* what a command may address
Slots    == 0..(NSlots - 1)
Banks    == 0..(2 * NSlots - 1)
Frames   == Filters \cup {Other}
Nibbles  == {0, 2, 4, 6}   \* the high half of the channel byte, in units of 0x10
Words    == 0..NSlots \cup {256}   \* bound: one beyond the slots, one beyond a byte

VARIABLES
    mask,       \* maskCh1, maskCh2 and maskLin of Cmd
    open,       \* canSettings[ch].open and linSettings.open
    cfg,        \* the rest of a target's settings, as one value
    gate, filters,  \* canSettings[ch].gate and .filters
    reply,      \* history: the last command was answered
    clk, pins,  \* channels whose clock is on, whose pins are connected
    enabled,    \* FA1R: the enabled filter banks
    listMode,   \* FM1R: the banks in identifier list mode
    scale32,    \* FS1R: 32-bit banks; the reset value is two 16-bit filters a bank
    bank,       \* what FR1 and FR2 of each bank hold
    abandoned   \* history: a handshake came since the last close of a CAN channel

settings == <<mask, open, cfg, gate, filters>>
hwVars == <<clk, pins, enabled, listMode, scale32, bank>>
vars == <<settings, reply, hwVars, abandoned>>

\* The registers as a record, for the driver functions below.
hw == [clk |-> clk, pins |-> pins, enabled |-> enabled, listMode |-> listMode,
       scale32 |-> scale32, bank |-> bank]

HwBecomes(h) ==
    /\ clk' = h.clk /\ pins' = h.pins
    /\ enabled' = h.enabled /\ listMode' = h.listMode
    /\ scale32' = h.scale32 /\ bank' = h.bank

Init ==
    /\ mask = [t \in Targets |-> 0]
    /\ open = [t \in Targets |-> FALSE]
    /\ cfg = [t \in Targets |-> NoConfig]
    /\ gate = [ch \in Channels |-> FALSE]
    /\ filters = [ch \in Channels |-> [s \in Slots |-> NoFilter]]
    /\ reply = FALSE /\ abandoned = FALSE
    /\ clk = {} /\ pins = {}
    /\ enabled = {} /\ listMode = {} /\ scale32 = FALSE
    /\ bank = [b \in Banks |-> AnyId]

----------------------------------------------------------------------------
(* The driver.  A write to a register whose clock is off does nothing.       *)

\* CAN2SB: 14 after reset and set to 14 by init, so each channel has one half.
FirstBank(ch) == IF ch = 2 THEN NSlots ELSE 0
Half(ch) == FirstBank(ch)..(FirstBank(ch) + NSlots - 1)

\* CanDrv::init.  "stuck": the controller never acknowledges initialisation mode
\* and init gives up before the filters; no caller looks at the result.  (Giving up
\* later, on a busy bus, leaves the registers below as a success does.)
CanInit(h, ch, outcome) ==
    LET on == [h EXCEPT !.clk = @ \cup {1, ch}, !.pins = @ \cup {ch}]
    IN  IF ch = 1 /\ outcome = "ok"
        THEN [on EXCEPT !.enabled = {}, !.listMode = Banks, !.scale32 = TRUE]
        ELSE on

\* Faulty: the mask of the other channel's half is not inverted for channel 1.
CanSetFilterOneMask(h, ch, list) ==
    LET used == FirstBank(ch)..(FirstBank(ch) + Len(list) - 1)
        otherChannelMask == Half(1)
    IN  IF 1 \notin h.clk THEN h
        ELSE [h EXCEPT !.bank = [b \in Banks |-> IF b \in used
                                                 THEN list[b - FirstBank(ch) + 1] ELSE @[b]],
                       !.enabled = (@ \cap otherChannelMask) \cup used,
                       !.listMode = @ \ used]

\* Faulty: FM1R is not written.
CanSetFilterKeepingMode(h, ch, list) ==
    LET used == FirstBank(ch)..(FirstBank(ch) + Len(list) - 1)
    IN  IF 1 \notin h.clk THEN h
        ELSE [h EXCEPT !.bank = [b \in Banks |-> IF b \in used
                                                 THEN list[b - FirstBank(ch) + 1] ELSE @[b]],
                       !.enabled = (@ \ Half(ch)) \cup used]

\* CanDrv::setFilter: the banks of the channel's half are filled from its start
\* and enabled, those of the other half keep their enable bits.
\* No list is longer than a half, so that the code's check for the last bank holds.
CanSetFilter(h, ch, list) ==
    LET used == FirstBank(ch)..(FirstBank(ch) + Len(list) - 1)
        otherChannelMask == Banks \ Half(ch)
    IN  IF 1 \notin h.clk THEN h
        ELSE [h EXCEPT !.bank = [b \in Banks |-> IF b \in used
                                                 THEN list[b - FirstBank(ch) + 1] ELSE @[b]],
                       !.enabled = (@ \cap otherChannelMask) \cup used,
                       !.listMode = @ \ used]

\* CanDrv::deinit
CanDeinit(h, ch) == [h EXCEPT !.clk = @ \ {ch}, !.pins = @ \ {ch}]

\* canFilterEverything
Everything == <<AnyId, AnyId>>

\* The lambda open of canOpen
OpenChannel(h, ch, outcome) == CanSetFilter(CanInit(h, ch, outcome), ch, Everything)

\* filtArr of canFilter: the filters of the slots with a mask, in their order.
FiltArr(stored) ==
    LET set == {s \in Slots : stored[s] # NoFilter}
        At(i) == CHOOSE s \in set : Cardinality({x \in set : x < s}) = i - 1
    IN  [i \in 1..Cardinality(set) |-> stored[At(i)]]

\* Faulty: with no filter left, none is set instead of the one for everything.
ApplyFiltersBare(h, ch, stored) == CanSetFilter(h, ch, FiltArr(stored))

\* The lambda applyFilters of canFilter
ApplyFilters(h, ch, stored) ==
    CanSetFilter(h, ch, IF FiltArr(stored) # <<>> THEN FiltArr(stored) ELSE Everything)

----------------------------------------------------------------------------
(* The commands.  nibble is the high half of the channel byte.  A command that *)
(* addresses no target is refused, which the host sees by the missing answer.  *)

\* ChCan1, ChCan2 and ChLin: a mask of 0 is a mask like any other.
Addressed(nibble) == {t \in Targets : nibble = mask[t]}

\* f applied to what C addresses of the CAN channels, CAN1 first
OnChannels(h, C, F(_, _)) ==
    LET one == IF 1 \in C THEN F(h, 1) ELSE h
    IN  IF 2 \in C THEN F(one, 2) ELSE one

Refuse == reply' = FALSE /\ UNCHANGED <<settings, hwVars, abandoned>>
Answer == reply' = TRUE

\* 0xa5
Handshake ==
    /\ open' = [t \in Targets |-> FALSE]
    /\ cfg' = [t \in Targets |-> NoConfig]
    /\ gate' = [ch \in Channels |-> FALSE]
    /\ filters' = [ch \in Channels |-> [s \in Slots |-> NoFilter]]
    /\ abandoned' = TRUE
    /\ Answer
    /\ UNCHANGED <<mask, hwVars>>

\* 0x04 with mode 0 (2 CAN + LIN), 1 (2 CAN), 2 (LIN) or another
SetMode(mode) ==
    \/ /\ mode \in {0, 1, 2}
       /\ mask' = CASE mode = 0 -> <<2, 4, 6>>
                    [] mode = 1 -> <<2, 4, 0>>
                    [] mode = 2 -> <<0, 0, 2>>
       /\ Answer
       /\ UNCHANGED <<open, cfg, gate, filters, hwVars, abandoned>>
    \/ mode \notin {0, 1, 2} /\ Refuse

\* A part of 0x11: the targets T take the setting c.
Setup(T, c) ==
    /\ cfg' = [t \in Targets |-> IF t \in T THEN c ELSE cfg[t]]
    /\ UNCHANGED <<mask, open, gate, filters, hwVars, abandoned>>

\* Faulty: the speed is stored before its index is checked.
SetupSpeedUnchecked(nibble, c, inCanTable, inLinTable) ==
    LET C == Addressed(nibble)
    IN  /\ Setup(C, c)
        /\ reply' = ((C \cap Channels # {} => inCanTable) /\ (Lin \in C => inLinTable))

\* 0x11, speed index: each bus has its table.  A LIN target refuses after the CAN
\* channels have taken the speed.
SetupSpeed(nibble, c, inCanTable, inLinTable) ==
    LET C == Addressed(nibble)
    IN  \/ /\ C # {}
           /\ C \cap Channels = {} \/ inCanTable
           /\ Setup(IF inLinTable THEN C ELSE C \ {Lin}, c)
           /\ reply' = (Lin \in C => inLinTable)
        \/ C = {} /\ Refuse
        \/ C \cap Channels # {} /\ ~inCanTable /\ Refuse

\* 0x11, manual speed: only a LIN target checks the length of the data.
SetupManual(nibble, c, eightBytes) ==
    LET C == Addressed(nibble)
    IN  \/ /\ C # {}
           /\ Setup(IF eightBytes THEN C ELSE C \ {Lin}, c)
           /\ reply' = (Lin \in C => eightBytes)
        \/ C = {} /\ Refuse

\* 0x11, LIN checksum mode (whatever the command addresses), byte delay (ignored
\* unless it is LIN's and in the table) and CAN listen mode
SetupOption(nibble, c, inTable) ==
    LET C == Addressed(nibble)
    IN  \/ /\ C # {}
           /\ \/ Setup({Lin}, c)
              \/ Setup(IF inTable THEN C \cap {Lin} ELSE {}, c)
              \/ Setup(C \cap Channels, c)
           /\ Answer
        \/ C = {} /\ Refuse

\* 0x18
CanOpen(nibble) ==
    LET C == Addressed(nibble)
    IN  \/ /\ C # {}
           /\ \E o \in Outcomes :   \* channel 2 has no use for it
                LET F(h, ch) == OpenChannel(h, ch, o)
                IN  HwBecomes(OnChannels(hw, C, F))
           /\ open' = [t \in Targets |-> open[t] \/ t \in C]
           /\ Answer
           /\ UNCHANGED <<mask, cfg, gate, filters, abandoned>>
        \/ C = {} /\ Refuse

\* 0x21 and 0x22: the filter is stored and all stored filters are applied,
\* whether the channel is open or not.  A LIN target ignores them.  The slot is the
\* low byte of the word sent, so that the words from 256 on name the slots again.
CanFilter(nibble, word, f) ==
    LET C == Addressed(nibble)
        slot == word % 256
        stored == [ch \in Channels |->
                     IF ch \in C THEN [filters[ch] EXCEPT ![slot] = f] ELSE filters[ch]]
        F(h, ch) == ApplyFilters(h, ch, stored[ch])
    IN  \/ /\ C # {} /\ slot \in Slots
           /\ filters' = stored
           /\ HwBecomes(OnChannels(hw, C, F))
           /\ Answer
           /\ UNCHANGED <<mask, open, cfg, gate, abandoned>>
        \/ (C = {} \/ slot \notin Slots) /\ Refuse

\* 0x31 and 0x32, which name the channels by fixed codes instead of the masks
CanGate(ch, en) ==
    /\ gate' = [gate EXCEPT ![ch] = en]
    /\ Answer
    /\ UNCHANGED <<mask, open, cfg, filters, hwVars, abandoned>>

\* Faulty: closing CAN1 stops it although CAN2 is open.
CanCloseForgettingCan2(nibble) ==
    LET C == Addressed(nibble)
    IN  /\ C # {}
        /\ open' = [t \in Targets |-> open[t] /\ t \notin C]
        /\ HwBecomes(OnChannels(hw, C, CanDeinit))
        /\ Answer /\ abandoned' = FALSE
        /\ UNCHANGED <<mask, cfg, gate, filters>>

\* 0x19: CAN2 needs the clock of CAN1, so that CAN1 stops with the last channel.
CanClose(nibble) ==
    LET C == Addressed(nibble)
        left == [t \in Targets |-> open[t] /\ t \notin C]
        unused == IF left[2] THEN {} ELSE IF left[1] THEN {2} ELSE {1, 2}
    IN  \/ /\ C # {}
           /\ open' = left
           /\ HwBecomes(IF C = {Lin} THEN hw ELSE OnChannels(hw, unused, CanDeinit))
           /\ abandoned' = (abandoned /\ C = {Lin})
           /\ Answer
           /\ UNCHANGED <<mask, cfg, gate, filters>>
        \/ C = {} /\ Refuse

\* Commands that change no setting: the device information, and those refused for
\* their form, an unknown code or a missing byte.
Information == Answer /\ UNCHANGED <<settings, hwVars, abandoned>>
Malformed == Refuse

OtherCommands ==
    \/ Handshake \/ Information \/ Malformed
    \/ \E mode \in Modes : SetMode(mode)
    \/ \E n \in Nibbles, c \in Configs, x \in BOOLEAN :
          (\E y \in BOOLEAN : SetupSpeed(n, c, x, y)) \/ SetupManual(n, c, x) \/ SetupOption(n, c, x)
    \/ \E n \in Nibbles : CanClose(n)
    \/ \E n \in Nibbles, w \in Words, f \in Filters \cup {NoFilter} : CanFilter(n, w, f)
    \/ \E ch \in Gated, en \in BOOLEAN : CanGate(ch, en)

Next == OtherCommands \/ \E n \in Nibbles : CanOpen(n)

Spec == Init /\ [][Next]_vars

\* A host that opens a channel only with 32-bit banks, which take an earlier
\* initialisation of channel 1, and channel 1 never by itself under channel 2.
CarefulNext ==
    \/ OtherCommands
    \/ \E n \in Nibbles :
          /\ open[2] /\ 1 \in Addressed(n) => 2 \in Addressed(n)
          /\ CanOpen(n)
          /\ (\E ch \in Channels : open'[ch]) => scale32'

CarefulSpec == Init /\ [][CarefulNext]_vars

----------------------------------------------------------------------------
\* A frame passes a bank that is enabled, in mask mode, and holds a match; read as
\* two 16-bit filters, a bank matches what it was written for only if it is empty.
Passes(ch, frame) ==
    /\ {1, ch} \subseteq clk
    /\ \E b \in (enabled \cap Half(ch)) \ listMode :
         bank[b] = AnyId \/ (bank[b] = frame /\ scale32)

\* An open channel has its clock, and channel 2 that of channel 1.
ClockCovered == \A ch \in Channels : open[ch] => {1, ch} \subseteq clk /\ ch \in pins

\* No clock stays on for nobody, except from a handshake, which forgets what is open,
\* to the next command that closes a CAN channel.
NoOrphanClock ==
    /\ clk # {} => open[1] \/ open[2] \/ abandoned
    /\ 2 \in clk => open[2] \/ abandoned

\* The clocks that run are those of the open channels, whatever the order in which
\* the two were opened, closed and abandoned.
ClocksMatchUse == ClockCovered /\ NoOrphanClock

\* The enabled banks of each half are its first ones and are in mask mode: there is
\* never a hole, a bank of the other channel, or one that setFilter has not written.
BanksInOrder ==
    /\ enabled \cap listMode = {}
    /\ \A ch \in Channels : \A b \in enabled \cap Half(ch) : FirstBank(ch)..b \subseteq enabled

\* Where both channels exist, a command that changes the filters stored for one only
\* leaves the banks in which the other channel's are alone.
FilterIsolation ==
    [][\A ch \in Channels :
          mask[1] # mask[2] /\ filters' # filters /\ filters'[ch] = filters[ch] =>
          /\ enabled' \cap Half(ch) = enabled \cap Half(ch)
          /\ listMode' \cap Half(ch) = listMode \cap Half(ch)
          /\ \A b \in Half(ch) : bank'[b] = bank[b]]_vars

\* A command that is not answered has changed no setting, with one exception: where a
\* CAN channel has the mask of LIN, as they do before a mode is chosen, the channel has
\* taken what LIN then refused.
UnansweredChangesNothing ==
    [][~reply' => /\ UNCHANGED <<mask, open, gate, filters>>
                  /\ \A t \in Targets : cfg'[t] # cfg[t] => t # Lin /\ mask[t] = mask[Lin]]_vars

\* With a careful host the shared banks give each channel what CanChannels promises.
Promise == INSTANCE CanChannels WITH
    open <- [ch \in Channels |-> open[ch]],
    passed <- [ch \in Channels |-> IF open[ch] THEN {f \in Frames : Passes(ch, f)} ELSE {}]
ImplementsCanChannels == Promise!Spec

----------------------------------------------------------------------------
\* BinaryProtocol.txt: "set filters (optional)".  An open channel passes frames
\* without a filter command.
OpenChannelHears == \A ch \in Channels : open[ch] => \E f \in Frames : Passes(ch, f)
=============================================================================
