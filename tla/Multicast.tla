------------------------------ MODULE Multicast ------------------------------
(***************************************************************************)
(* Multicast membership and the receive filter: unit_commands_mcast.c,     *)
(* bcmgenet_set_rx_mode of genet/bcmgenet.c and MulticastFilter of         *)
(* unit_io.c.  All of it runs in the unit task, command by command.        *)
(*                                                                         *)
(* Stacks register ranges of addresses; the driver counts them and the     *)
(* addresses they hold, programs the MAC's MDF filter while it is large    *)
(* enough, and otherwise goes promiscuous and filters in software.         *)
(***************************************************************************)
EXTENDS Integers, Sequences, SequencesExt, FiniteSets, FiniteSetsExt, Functions

CONSTANTS
    Stacks,             \* protocol stacks with the device open
    MaxAddr,            \* addresses are 0 .. MaxAddr (48 bits in the code)
    FirstGroup,         \* from here on the multicast bit is set
    OwnMac, ZeroMac,    \* ios2_SrcAddr of S2_CONFIGINTERFACE; the unset address
    Ranges,             \* the <<lower, upper>> pairs the stacks ask for
    MAX_MDF_FILTER,     \* 17 in the code
    COUNT_SPAN,         \* 2^32: range of the ULONG multicastCount
    MaxUses             \* bound on a range's use count

ASSUME AddressAssumption ==
    /\ MaxAddr \in Nat /\ FirstGroup \in 1 .. MaxAddr
    /\ OwnMac \in 1 .. FirstGroup - 1 /\ ZeroMac = 0
    /\ Ranges \subseteq (0 .. MaxAddr) \X (0 .. MaxAddr)
    /\ MAX_MDF_FILTER \in Nat /\ COUNT_SPAN \in Nat /\ COUNT_SPAN > 2 * MAX_MDF_FILTER
    /\ IsFiniteSet(Stacks) /\ MaxUses \in Nat \ {0}

VARIABLES
    state,              \* unit->state
    prom,               \* unit->flags & SANA2OPF_PROM
    mac,                \* unit->currentMacAddress
    multicastRanges,    \* the list: records with the bounds and the use count
    multicastCount,     \* addresses in the list, modulo COUNT_SPAN
    mdfEnabled,
    promisc,            \* CMD_PROMISC (hardware)
    mdf, mdfCtrl,       \* the filter registers, forgotten while none is enabled, and
                        \* how many are enabled (hardware)
    held,               \* what each stack has added and not deleted again
    cutOff              \* history: a start needed promiscuous mode, which its last
                        \* step cleared, and set_rx_mode has not run since

hwVars == <<promisc, mdf, mdfCtrl, cutOff>>
unitVars == <<state, prom, mac>>
vars == <<unitVars, multicastRanges, multicastCount, mdfEnabled, hwVars, held>>

Addrs == 0 .. MaxAddr
Broadcast == MaxAddr
Groups == FirstGroup .. MaxAddr - 1
Unused == {a \in 1 .. FirstGroup - 1 : a # OwnMac}

Lower(range) == range[1]
Upper(range) == range[2]
Size(range) == Upper(range) - Lower(range) + 1
CountOf(range) == Size(range) % COUNT_SPAN
AddressesIn(range) == [k \in 1 .. Size(range) |-> Lower(range) + k - 1]

(* A ULONG assigned to a signed int. *)
Signed(n) == LET w == n % COUNT_SPAN
             IN  IF 2 * w >= COUNT_SPAN THEN w - COUNT_SPAN ELSE w

(***************************************************************************)
(* bcmgenet_set_rx_mode, given the list, the count and the station address *)
(* it reads.  The filter entries are broadcast, the own address and every  *)
(* address of every range, in list order.                                  *)
(***************************************************************************)
NeedsPromiscuousLate(count) == prom \/ Signed(2 + count) > MAX_MDF_FILTER + 1  \* mutant
NeedsPromiscuous(count) == prom \/ Signed(2 + count) > MAX_MDF_FILTER

Entries(list, own) == <<Broadcast, own>> \o FlattenSeq([i \in DOMAIN list |-> AddressesIn(list[i].range)])

SetRxFilter(list, count, own) ==
    \/ /\ NeedsPromiscuous(count)
       /\ mdfCtrl' = 0 /\ mdfEnabled' = FALSE /\ mdf' = <<>>
    \/ /\ ~NeedsPromiscuous(count)
       /\ mdfCtrl' = Max({Signed(2 + count), 0}) /\ mdfEnabled' = TRUE
       /\ mdf' = Entries(list, own)

SetRxMode(list, count, own) ==
    SetRxFilter(list, count, own) /\ promisc' = NeedsPromiscuous(count) /\ cutOff' = FALSE

RxModeUnchanged == UNCHANGED <<mdfEnabled, hwVars>>

Init ==
    /\ state = "UNCONFIGURED" /\ prom \in BOOLEAN /\ mac = ZeroMac
    /\ multicastRanges = <<>> /\ multicastCount = 0
    /\ mdfEnabled = FALSE
    /\ promisc = FALSE /\ mdf = <<>> /\ mdfCtrl = 0 /\ cutOff = FALSE
    /\ held = [s \in Stacks |-> [range \in Ranges |-> 0]]

(***************************************************************************)
(* S2_ADDMULTICASTADDRESS(ES).  When AllocPooled fails the request reports *)
(* an error and nothing changes.                                           *)
(***************************************************************************)
Find(range) == SelectInSeq(multicastRanges, LAMBDA e : e.range = range)

AddUse(range) ==
    LET i == Find(range) IN
    /\ i # 0 /\ multicastRanges[i].useCount < MaxUses
    /\ multicastRanges' = [multicastRanges EXCEPT ![i].useCount = @ + 1]
    /\ UNCHANGED multicastCount /\ RxModeUnchanged

AddRange(range) ==
    /\ Find(range) = 0
    /\ multicastRanges' = <<[range |-> range, useCount |-> 1]>> \o multicastRanges
    /\ multicastCount' = (multicastCount + CountOf(range)) % COUNT_SPAN
    /\ SetRxMode(multicastRanges', multicastCount', mac)

AddMulticast(s, range) ==
    /\ AddUse(range) \/ AddRange(range)
    /\ held' = [held EXCEPT ![s][range] = @ + 1]
    /\ UNCHANGED unitVars

(***************************************************************************)
(* S2_DELMULTICASTADDRESS(ES).  A stack deletes what it has added; the     *)
(* driver would also take a use that belongs to another stack.             *)
(***************************************************************************)
DropUseEarly(range) ==                                            \* mutant
    LET i == Find(range)
    IN  /\ i # 0
        /\ multicastRanges' = RemoveAt(multicastRanges, i)
        /\ multicastCount' = (multicastCount - CountOf(range)) % COUNT_SPAN
        /\ SetRxMode(multicastRanges', multicastCount', mac)

DropUse(range) ==
    LET i == Find(range)
        e == multicastRanges[i]
    IN  /\ i # 0
        /\ \/ /\ e.useCount > 1
              /\ multicastRanges' = [multicastRanges EXCEPT ![i].useCount = @ - 1]
              /\ UNCHANGED multicastCount /\ RxModeUnchanged
           \/ /\ e.useCount = 1
              /\ multicastRanges' = RemoveAt(multicastRanges, i)
              /\ multicastCount' = (multicastCount - CountOf(range)) % COUNT_SPAN
              /\ SetRxMode(multicastRanges', multicastCount', mac)

DelMulticast(s, range) ==
    /\ held[s][range] > 0
    /\ DropUse(range)
    /\ held' = [held EXCEPT ![s][range] = @ - 1]
    /\ UNCHANGED unitVars

(* CloseDevice of one stack while others stay: its ranges are not dropped. *)
CloseStack(s) ==
    /\ Stacks \ {s} # {}
    /\ held' = [held EXCEPT ![s] = [range \in Ranges |-> 0]]
    /\ UNCHANGED <<unitVars, multicastRanges, multicastCount, mdfEnabled, hwVars>>

(***************************************************************************)
(* The unit: bcmgenet_gmac_eth_start resets the MAC, sets the receive mode *)
(* and then waits for the PHY.  bcmgenet_adjust_link writes the whole of   *)
(* UMAC_CMD, so a start that succeeds ends with CMD_PROMISC clear; one     *)
(* that fails at the PHY leaves the mode it set.                           *)
(***************************************************************************)
StartWithoutRxMode(own) ==                                        \* mutant
    /\ promisc' = FALSE /\ cutOff' = NeedsPromiscuous(multicastCount)
    /\ UNCHANGED <<mdf, mdfCtrl, mdfEnabled>>
EthStart(own) ==
    /\ SetRxFilter(multicastRanges, multicastCount, own)
    /\ promisc' = FALSE /\ cutOff' = NeedsPromiscuous(multicastCount)

(* Probing, the buffers or the DMA fail: at most the MAC was reset. *)
StartFails(own) ==
    \/ SetRxMode(multicastRanges, multicastCount, own)
    \/ promisc' \in {promisc, FALSE} /\ UNCHANGED <<mdf, mdfCtrl, mdfEnabled, cutOff>>

ConfigInterface ==
    /\ state = "UNCONFIGURED"
    /\ mac' = OwnMac
    /\ \/ state' = "ONLINE" /\ EthStart(OwnMac)
       \/ state' = "CONFIGURED" /\ StartFails(OwnMac)
       \/ state' = "UNCONFIGURED" /\ promisc' \in {promisc, FALSE}
          /\ UNCHANGED <<mdf, mdfCtrl, mdfEnabled, cutOff>>
    /\ UNCHANGED <<prom, multicastRanges, multicastCount, held>>

Online ==
    /\ state # "ONLINE"
    /\ \/ state' = "ONLINE" /\ EthStart(mac)
       \/ state' = state /\ StartFails(mac)
    /\ UNCHANGED <<prom, mac, multicastRanges, multicastCount, held>>

Offline ==
    /\ state = "ONLINE"
    /\ state' = "OFFLINE"
    /\ UNCHANGED <<prom, mac, multicastRanges, multicastCount, mdfEnabled, hwVars, held>>

(* The last CloseDevice frees the unit, the next OpenDevice starts afresh; the
   hardware keeps its registers. *)
Reopen ==
    /\ state' = "UNCONFIGURED" /\ prom' \in BOOLEAN /\ mac' = ZeroMac
    /\ multicastRanges' = <<>> /\ multicastCount' = 0 /\ mdfEnabled' = FALSE
    /\ held' = [s \in Stacks |-> [range \in Ranges |-> 0]]
    /\ UNCHANGED hwVars

Next ==
    \/ \E range \in Ranges :
           \E s \in Stacks : AddMulticast(s, range) \/ DelMulticast(s, range)
    \/ \E s \in Stacks : CloseStack(s)
    \/ ConfigInterface \/ Online \/ Offline \/ Reopen

Spec == Init /\ [][Next]_vars

(***************************************************************************)
(* What reaches the openers.                                               *)
(***************************************************************************)
HwAccepts(d) == promisc \/ \E k \in 1 .. Min({mdfCtrl, Len(mdf)}) : mdf[k] = d

Listed(d) == \E i \in DOMAIN multicastRanges :
    Lower(multicastRanges[i].range) <= d /\ d <= Upper(multicastRanges[i].range)

MulticastFilter(d) == d \in Groups => Listed(d)

(* ReceiveFrame filters in software only when the MDF filter is off. *)
Accepts(d) == HwAccepts(d) /\ (mdfEnabled \/ MulticastFilter(d))

(***************************************************************************)
(* Properties.                                                             *)
(***************************************************************************)
(* Type invariant. *)
TypeOK ==
    /\ state \in {"UNCONFIGURED", "CONFIGURED", "ONLINE", "OFFLINE"}
    /\ prom \in BOOLEAN /\ mac \in {OwnMac, ZeroMac}
    /\ multicastRanges \in Seq([range : Ranges, useCount : 1 .. MaxUses])
    /\ multicastCount \in 0 .. COUNT_SPAN - 1
    /\ mdfEnabled \in BOOLEAN /\ promisc \in BOOLEAN
    /\ mdf \in Seq(Addrs) /\ mdfCtrl \in 0 .. MAX_MDF_FILTER /\ cutOff \in BOOLEAN
    /\ held \in [Stacks -> [Ranges -> 0 .. MaxUses]]

(* Which of the frames they asked for the openers of an online unit receive, whichever
   of the two filters is in charge and however often they took turns: broadcast, the
   unit's own address and every group of every registered range, or nothing at all.
   Nothing is received after a start that needed promiscuous mode (for SANA2OPF_PROM
   or too many groups), because bcmgenet_adjust_link clears what set_rx_mode has just
   set; that lasts until a range is added or removed and set_rx_mode runs again.
   Either way no other group ever reaches them, and a foreign unicast address only
   when the MAC is promiscuous. *)
Wanted == {Broadcast, mac} \cup {g \in Groups : Listed(g)}
WantedReceived == \A d \in Wanted : Accepts(d) <=> ~cutOff
UnwantedDropped ==
    /\ \A g \in Groups : Accepts(g) => Listed(g)
    /\ \A d \in Unused : Accepts(d) => promisc \/ Listed(d)
ReceivedAsAsked == state = "ONLINE" => WantedReceived /\ UnwantedDropped

(* A stack keeps receiving a group it joined until it leaves it itself, and the
   choice between the filters rests on the right number: the list has every range
   somebody holds, with at least as many uses as there are registrations, whatever
   the other stacks add, delete or leave behind, and multicastCount is the number
   of addresses on it. *)
CountIsExact ==
    multicastCount = SumFunction([i \in DOMAIN multicastRanges |-> Size(multicastRanges[i].range)])
JoinedStaysListed ==
    \A range \in Ranges :
        LET holders == SumFunction([s \in Stacks |-> held[s][range]])
            i == Find(range)
        IN  holders > 0 => i # 0 /\ multicastRanges[i].useCount >= holders
MembershipExact == CountIsExact /\ JoinedStaysListed

(* "Turn on promicuous mode for two scenarios: 1. SANA2OPF_PROM flag is set, 2. the
   number of filters needed exceeds the number of filters supported by the
   hardware" (bcmgenet.c, set_rx_mode). *)
PromiscuousAsAsked ==
    state = "ONLINE" /\ (prom \/ Len(Entries(multicastRanges, mac)) > MAX_MDF_FILTER) => promisc
=============================================================================
