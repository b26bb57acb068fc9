---------------------------------- MODULE Phy ----------------------------------
(***************************************************************************)
(* The PHY: genet/phy.c, the PHY part of bcmgenet_eth_probe and            *)
(* bcmgenet_gmac_eth_start, and the commands of the unit task that run     *)
(* them.  All of it is one task; what moves in between is the PHY chip     *)
(* itself, the link partner and the MDIO bus, whose accesses may time out. *)
(* One action is one MDIO access with the code up to the next one.         *)
(*                                                                         *)
(* A register value is the set of its bits that are set; a failed access   *)
(* returns -1, which has them all, SIGN included.                          *)
(***************************************************************************)
EXTENDS Naturals

CONSTANTS
    Abilities,          \* what the chip may be able to do: sets of modes
    Peers,              \* what a link partner may advertise; {} is no cable
    AnegPolls,          \* CONFIG_PHY_ANEG_TIMEOUT / 50
    ResetPolls,         \* 500 in the code
    NULL

VARIABLES
    state,              \* unit->state
    phydev,             \* unit->phydev is not NULL
    dev,                \* the phy_device in the pool, or NULL
    speed,              \* the speed in UMAC_CMD
    ringReady,          \* tx_ring_sem has been initialised
    pc,                 \* which access the unit task is at
    loc,                \* locals: the last register, changed, polls, estatus wanted
    chip, peer,         \* hardware: the PHY and the partner at the other end
    err, moved          \* history: an access or a reset timed out since the PHY was last
                        \* reset; the link was lost since the start began
unitVars == <<state, phydev, dev, speed, ringReady>>
vars == <<unitVars, pc, loc, chip, peer, err, moved>>

Base == {"10H", "10F", "100H", "100F"}
Giga == {"1000H", "1000F"}
Modes == Base \cup Giga
Full == {"10F", "100F", "1000F"}

PhyDevices == [link : BOOLEAN, speed : {0, 10, 100, 1000}, full : BOOLEAN,
               supported : SUBSET Modes, broken : BOOLEAN]

ASSUME PhyAssumption ==
    /\ Abilities \subseteq SUBSET Modes /\ Peers \subseteq SUBSET Modes
    /\ AnegPolls \in Nat /\ ResetPolls \in Nat
    /\ NULL \notin PhyDevices

(***************************************************************************)
(* The chip.  What it advertises, how far autonegotiation is, and what the *)
(* link was resolved to: the best mode of both sides, IEEE 802.3 annex 28B.*)
(***************************************************************************)
SpeedOf(m) == IF m \in Giga THEN 1000 ELSE IF m \in {"100H", "100F"} THEN 100 ELSE 10
Rank(m) == 2 * SpeedOf(m) + (IF m \in Full THEN 1 ELSE 0)
Best(S) == CHOOSE m \in S : \A n \in S : Rank(n) <= Rank(m)

AllOnes == Modes \cup {"ESTATEN", "ERCAP", "ANEGCOMPLETE", "LSTATUS", "RESET", "ANENABLE", "ISOLATE", "SIGN"}
Failed(v) == "SIGN" \in v
Chips == [able : SUBSET Modes, ercap : BOOLEAN, adv : SUBSET Modes, bmcr : SUBSET AllOnes,
          lpa : SUBSET Modes, used : SUBSET Modes, complete : BOOLEAN, up : BOOLEAN,
          lstatus : BOOLEAN]
Bit(name, on) == IF on THEN {name} ELSE {}

Register(r) ==
    CASE r = "BMSR" -> (chip.able \cap Base) \cup Bit("ESTATEN", chip.able \cap Giga # {})
                       \cup Bit("ERCAP", chip.ercap) \cup Bit("ANEGCOMPLETE", chip.complete)
                       \cup Bit("LSTATUS", chip.lstatus)
      [] r = "BMCR" -> chip.bmcr
      [] r = "ESTATUS" -> chip.able \cap Giga
      [] r = "ADVERTISE" -> chip.adv \cap Base
      [] r = "CTRL1000" -> chip.adv \cap Giga
      [] r = "LPA" -> chip.lpa \cap Base
      [] r = "STAT1000" -> IF chip.ercap THEN chip.lpa \cap Giga ELSE {}
      [] OTHER -> {}

LinkLost(c) == [c EXCEPT !.complete = FALSE, !.up = FALSE, !.lstatus = FALSE, !.lpa = {}]

(* While it resets the chip ignores writes; ANRESTART drops the link. *)
Written(r, v) ==
    IF "RESET" \in chip.bmcr THEN chip ELSE
    CASE r = "ADVERTISE" -> [chip EXCEPT !.adv = (@ \cap Giga) \cup v]
      [] r = "CTRL1000" -> [chip EXCEPT !.adv = (@ \cap Base) \cup (IF chip.ercap THEN v ELSE {})]
      [] r = "BMCR" -> [LinkLost(chip) EXCEPT !.bmcr = v]

Negotiate ==
    /\ "ANENABLE" \in chip.bmcr /\ "ISOLATE" \notin chip.bmcr /\ ~chip.complete /\ peer # {}
    /\ chip' = [chip EXCEPT !.complete = TRUE, !.lpa = peer, !.used = chip.adv,
                            !.up = chip.adv \cap peer # {}]
    /\ UNCHANGED <<unitVars, pc, loc, peer, err, moved>>

ResetEnds ==
    /\ "RESET" \in chip.bmcr
    /\ chip' = [LinkLost(chip) EXCEPT !.bmcr = {"ANENABLE"},
                    !.adv = IF chip.ercap THEN chip.able ELSE chip.able \cap Base]
    /\ UNCHANGED <<unitVars, pc, loc, peer, err, moved>>

Replug ==
    /\ peer' \in Peers \ {peer}
    /\ chip' = LinkLost(chip)
    /\ moved' = TRUE
    /\ UNCHANGED <<unitVars, pc, loc, err>>

(***************************************************************************)
(* MDIO.  An access that times out may or may not have reached the chip.   *)
(* Reading BMSR renews its latched link bit.                               *)
(***************************************************************************)
Polled(r) == IF r = "BMSR" THEN [chip EXCEPT !.lstatus = chip.up] ELSE chip

Values(r) == {Register(r), AllOnes}

BusRead(r, v) ==
    /\ chip' \in {Polled(r)} \cup (IF Failed(v) THEN {chip} ELSE {})
    /\ UNCHANGED <<peer, moved>>

mdio_read(r, v) == BusRead(r, v) /\ err' = (err \/ Failed(v))

mdio_write(r, v, ok) ==
    /\ \/ ok /\ chip' = Written(r, v) /\ err' = err
       \/ ~ok /\ chip' \in {chip, Written(r, v)} /\ err' = TRUE
    /\ UNCHANGED <<peer, moved>>

Goto(to) == pc' = to
Keep(to) == Goto(to) /\ UNCHANGED <<unitVars, loc>>
NoAccess == UNCHANGED <<chip, peer, err>>

(***************************************************************************)
(* bcmgenet_gmac_eth_stop: the end of every failure and of going offline.  *)
(* It reclaims the transmit ring before it destroys the PHY, and hangs     *)
(* there when tx_ring_sem was never initialised.  A probe that fails has   *)
(* freed its phy_device before.                                            *)
(***************************************************************************)
NoLocals == [reg |-> {}, changed |-> FALSE, polls |-> 0, estatus |-> FALSE]

NoPhy == phydev' = FALSE /\ dev' = NULL
Reclaim(ready) == /\ pc' = IF ready THEN "idle" ELSE "hung"
                  /\ ringReady' = ready /\ loc' = NoLocals
EthStopKeepsPhy(ready) == Reclaim(ready) /\ phydev' = FALSE /\ UNCHANGED dev  \* mutant
EthStop(ready) == Reclaim(ready) /\ IF ready THEN NoPhy ELSE UNCHANGED <<phydev, dev>>

ProbeFails == Reclaim(ringReady) /\ NoPhy /\ UNCHANGED <<state, speed>>
StartFails(ready) == EthStop(ready) /\ UNCHANGED <<state, speed>>

(***************************************************************************)
(* S2_CONFIGINTERFACE: UnitConfigure, bcmgenet_eth_probe.  The probe may   *)
(* refuse the version or the interface mode.                               *)
(***************************************************************************)
ConfigInterface ==
    /\ pc = "idle" /\ state = "UNCONFIGURED"
    /\ Keep("create") \/ ProbeFails
    /\ NoAccess /\ UNCHANGED moved

(* phy_create.  flags is not initialised: PHY_FLAG_BROKEN_RESET may be set. *)
FreshPhy(flagged) == [link |-> FALSE, speed |-> 0, full |-> FALSE, supported |-> Modes, broken |-> flagged]

PhyCreate ==
    /\ pc = "create"
    /\ \/ ProbeFails
       \/ /\ Goto("id1") /\ UNCHANGED <<state, phydev, speed, ringReady, loc>>
          /\ dev' \in {FreshPhy(flagged) : flagged \in BOOLEAN}
    /\ NoAccess /\ UNCHANGED moved

(* get_phy_id: the bus answers with ones when there is no PHY at the address. *)
GetPhyId ==
    /\ pc \in {"id1", "id2"}
    /\ \E v \in Values("PHYSID") :
           /\ mdio_read("PHYSID", v)
           /\ \/ Failed(v) /\ ProbeFails
              \/ ~Failed(v) /\ pc = "id1" /\ Keep("id2")
              \/ ~Failed(v) /\ pc = "id2" /\ ProbeFails
              \/ /\ ~Failed(v) /\ pc = "id2" /\ phydev' = TRUE
                 /\ Goto(IF dev.broken THEN "features" ELSE "reset")
                 /\ UNCHANGED <<state, dev, speed, ringReady, loc>>

(* phy_reset, whose result phy_create ignores: the write, then the polls. *)
Reset ==
    /\ pc = "reset"
    /\ \E ok \in BOOLEAN :
           /\ mdio_write("BMCR", {"RESET"}, ok)
           /\ Keep(IF ok THEN "resetting" ELSE "features")

ResetPoll ==
    /\ pc = "resetting"
    /\ \E v \in Values("BMCR") :
           /\ BusRead("BMCR", v)
           /\ LET again == /\ "RESET" \in v /\ loc.polls < ResetPolls
                           /\ Failed(v) => loc.polls = 0 IN
              /\ Goto(IF again THEN "resetting" ELSE "features")
              /\ err' = ("RESET" \in v /\ (err \/ Failed(v) \/ ~again))
              /\ loc' = [loc EXCEPT !.polls = IF again THEN @ + 1 ELSE 0]
    /\ UNCHANGED unitVars

(***************************************************************************)
(* phy_config and genphy_config_aneg.  autoneg is always AUTONEG_ENABLE,   *)
(* and after this the PHY advertises what both it and the driver support.  *)
(***************************************************************************)
Access(at, r, Then(_)) ==
    /\ pc = at
    /\ \E v \in Values(r) : mdio_read(r, v) /\ (IF Failed(v) THEN ProbeFails ELSE Then(v))

SupportedUnmasked(v) == v                                         \* mutant
SupportedBy(v) == v \cap Base

Features ==
    Access("features", "BMSR", LAMBDA v :
        /\ dev' = [dev EXCEPT !.supported = SupportedBy(v)]
        /\ Goto(IF "ESTATEN" \in v THEN "extended" ELSE "advert")
        /\ UNCHANGED <<state, phydev, speed, ringReady, loc>>)

Extended ==
    Access("extended", "ESTATUS", LAMBDA v :
        /\ dev' = [dev EXCEPT !.supported = @ \cup v]
        /\ Goto("advert") /\ UNCHANGED <<state, phydev, speed, ringReady, loc>>)

Advertising(S) == dev.supported \cap S

(* The pause and 100BASE4 bits of the register are cleared as well: it may have to
   be written for their sake alone. *)
ReadAdvert ==
    Access("advert", "ADVERTISE", LAMBDA v :
        /\ \/ Goto("setAdvert")
           \/ v = Advertising(Base) /\ Goto("estaten")
        /\ loc' = [loc EXCEPT !.changed = FALSE] /\ UNCHANGED unitVars)

WriteAdvert ==
    /\ pc = "setAdvert"
    /\ \E ok \in BOOLEAN :
           /\ mdio_write("ADVERTISE", Advertising(Base), ok)
           /\ \/ ~ok /\ ProbeFails
              \/ /\ ok /\ Goto("estaten") /\ UNCHANGED unitVars
                 /\ loc' = [loc EXCEPT !.changed = TRUE]

AskRestartNever(changed) == "aneg"                                \* mutant
AskRestart(changed) == IF changed THEN "restart" ELSE "aneg"

ReadEstaten ==
    Access("estaten", "BMSR", LAMBDA v :
        Keep(IF "ESTATEN" \in v THEN "giga" ELSE AskRestart(loc.changed)))

ReadGiga ==
    Access("giga", "CTRL1000", LAMBDA v :
        /\ Goto("setGiga") /\ UNCHANGED unitVars
        /\ loc' = [loc EXCEPT !.changed = @ \/ v # Advertising(Giga)])

WriteGiga ==
    /\ pc = "setGiga"
    /\ \E ok \in BOOLEAN :
           /\ mdio_write("CTRL1000", Advertising(Giga), ok)
           /\ IF ok THEN Keep(AskRestart(loc.changed)) ELSE ProbeFails

(* UnitConfigure and then Do_S2_ONLINE. *)
Configured ==
    /\ Goto("start") /\ state' = "CONFIGURED" /\ loc' = NoLocals /\ UNCHANGED <<phydev, dev, speed, ringReady>>

(* Nothing new to advertise: is autonegotiation on at all? *)
CheckAneg ==
    Access("aneg", "BMCR", LAMBDA v :
        IF "ANENABLE" \notin v \/ "ISOLATE" \in v THEN Keep("restart") ELSE Configured)

RestartAneg ==
    Access("restart", "BMCR", LAMBDA v :
        /\ Goto("setAneg") /\ UNCHANGED unitVars
        /\ loc' = [loc EXCEPT !.reg = (v \cup {"ANENABLE"}) \ {"ISOLATE"}])

RestartWrite ==
    /\ pc = "setAneg"
    /\ \E ok \in BOOLEAN :
           mdio_write("BMCR", loc.reg, ok) /\ (IF ok THEN Configured ELSE ProbeFails)

(***************************************************************************)
(* S2_ONLINE and S2_OFFLINE, and the last CloseDevice, which frees the     *)
(* pool with everything in it, and the unit.                               *)
(***************************************************************************)
Online ==
    /\ pc = "idle" /\ state # "ONLINE"
    /\ Keep("start") /\ NoAccess /\ UNCHANGED moved

Offline ==
    /\ pc = "idle" /\ state = "ONLINE"
    /\ state' = "OFFLINE" /\ EthStop(ringReady) /\ NoAccess /\ UNCHANGED <<speed, moved>>

Close ==
    /\ pc = "idle" /\ state' = "UNCONFIGURED" /\ NoPhy /\ ringReady' = FALSE
    /\ NoAccess /\ UNCHANGED <<pc, loc, speed, moved>>

(* bcmgenet_gmac_eth_start up to phy_startup: buffers and DMA rings may fail, before
   or after bcmgenet_init_tx_ring has initialised the semaphore.  The MAC reset
   clears UMAC_CMD. *)
EthStart ==
    /\ pc = "start"
    /\ \/ StartFails(ringReady) /\ UNCHANGED moved
       \/ StartFails(TRUE) /\ UNCHANGED moved
       \/ /\ Goto("startup") /\ speed' = 0 /\ moved' = FALSE /\ ringReady' = TRUE
          /\ UNCHANGED <<state, phydev, dev, loc>>
    /\ NoAccess

(* phy_startup(NULL) takes its device from address 0: the start may end either
   way, with any speed. *)
StartupNull ==
    /\ pc = "startup" /\ ~phydev
    /\ \/ StartFails(ringReady)
       \/ /\ Goto("idle") /\ state' = "ONLINE" /\ speed' \in {10, 100, 1000}
          /\ UNCHANGED <<phydev, dev, ringReady, loc>>
    /\ NoAccess /\ UNCHANGED moved

(***************************************************************************)
(* phy_startup.  genphy_update_link: dev.link is FALSE on every call with  *)
(* a device, so the first test of the code never ends it early.  A failed  *)
(* access has the ANEGCOMPLETE bit and so ends the wait.                   *)
(***************************************************************************)
UpdateLink ==
    /\ pc = "startup" /\ phydev
    /\ \E v \in Values("BMSR") :
           mdio_read("BMSR", v) /\ Keep(IF "ANEGCOMPLETE" \in v THEN "link" ELSE "wait")

(* ETIMEDOUT, or the next poll. *)
WaitForever == FALSE                                              \* mutant
WaitOver == loc.polls > AnegPolls

WaitAneg ==
    /\ pc = "wait"
    /\ \/ WaitOver /\ StartFails(ringReady) /\ NoAccess /\ UNCHANGED moved
       \/ /\ ~WaitOver
          /\ \E v \in Values("BMSR") :
                 /\ mdio_read("BMSR", v)
                 /\ loc' = [loc EXCEPT !.polls = (@ + 1) % (AnegPolls + 2)]
                 /\ IF "ANEGCOMPLETE" \in v
                    THEN dev' = [dev EXCEPT !.link = TRUE] /\ Goto("parse")
                    ELSE UNCHANGED <<dev, pc>>
          /\ UNCHANGED <<state, phydev, speed, ringReady>>

ReadLink ==
    /\ pc = "link"
    /\ \E v \in Values("BMSR") :
           /\ mdio_read("BMSR", v) /\ dev' = [dev EXCEPT !.link = "LSTATUS" \in v]
    /\ Goto("parse") /\ UNCHANGED <<state, phydev, speed, ringReady, loc>>

(***************************************************************************)
(* genphy_parse_link.  phy_device gets the speed and duplex of the best    *)
(* mode among those left after the AND of both sides' registers.           *)
(***************************************************************************)
Resolved(S) ==
    LET fast == {m \in S : SpeedOf(m) = 1000}
        mid  == {m \in S : SpeedOf(m) = 100}
        use  == IF fast # {} THEN fast ELSE IF mid # {} THEN mid ELSE S \cap {"10F"}
    IN  [dev EXCEPT !.speed = IF fast # {} THEN 1000 ELSE IF mid # {} THEN 100 ELSE 10,
                    !.full = use \cap Full # {}]

ParseLink ==
    /\ pc = "parse"
    /\ \E v \in Values("BMSR") :
           /\ mdio_read("BMSR", v)
           /\ loc' = [loc EXCEPT !.estatus = "ESTATEN" \in v /\ "ERCAP" \notin v]
    /\ Goto(IF dev.supported \cap Giga # {} THEN "stat1000" ELSE "advertise")
    /\ UNCHANGED unitVars

ReadStat1000 ==
    /\ pc = "stat1000"
    /\ \E v \in Values("STAT1000") :
           /\ mdio_read("STAT1000", v)
           /\ loc' = [loc EXCEPT !.reg = IF Failed(v) THEN {} ELSE v]
    /\ Goto("ctrl1000") /\ UNCHANGED unitVars

ReadCtrl1000 ==
    /\ pc = "ctrl1000"
    /\ \E v \in Values("CTRL1000") :
           /\ mdio_read("CTRL1000", v)
           /\ IF loc.reg \cap v \cap Giga # {}
              THEN dev' = Resolved(loc.reg \cap v) /\ Goto("adjust")
              ELSE UNCHANGED dev /\ Goto("advertise")
    /\ UNCHANGED <<state, phydev, speed, ringReady, loc>>

ReadAdvertise ==
    /\ pc = "advertise"
    /\ \E v \in Values("ADVERTISE") :
           mdio_read("ADVERTISE", v) /\ loc' = [loc EXCEPT !.reg = v \cap Base]
    /\ Goto("lpa") /\ UNCHANGED unitVars

ReadLpa ==
    /\ pc = "lpa"
    /\ \E v \in Values("LPA") : mdio_read("LPA", v) /\ dev' = Resolved(loc.reg \cap v)
    /\ Goto(IF loc.estatus THEN "estatus" ELSE "adjust")
    /\ UNCHANGED <<state, phydev, speed, ringReady, loc>>

(* The 1000BASE-T registers are missing: take the chip's ability for granted. *)
ReadEstatus ==
    /\ pc = "estatus"
    /\ \E v \in Values("ESTATUS") :
           /\ mdio_read("ESTATUS", v)
           /\ dev' = IF v \cap Giga = {} THEN dev
                     ELSE IF "1000F" \in v THEN [dev EXCEPT !.speed = 1000, !.full = TRUE]
                     ELSE [dev EXCEPT !.speed = 1000]
    /\ Goto("adjust") /\ UNCHANGED <<state, phydev, speed, ringReady, loc>>

(* bcmgenet_adjust_link and the end of UnitOnline. *)
AdjustLink ==
    /\ pc = "adjust"
    /\ speed' = dev.speed /\ state' = "ONLINE"
    /\ Goto("idle") /\ loc' = NoLocals /\ NoAccess /\ UNCHANGED <<phydev, dev, ringReady, moved>>

(***************************************************************************)
(* The specification.  The chip starts as the firmware left it.            *)
(***************************************************************************)
Init ==
    /\ state = "UNCONFIGURED" /\ phydev = FALSE /\ dev = NULL /\ speed = 0 /\ ringReady = FALSE
    /\ pc = "idle" /\ loc = NoLocals
    /\ peer \in Peers
    /\ \E able \in Abilities, ercap \in BOOLEAN, bmcr \in SUBSET {"ANENABLE", "ISOLATE"} :
          \E adv \in {able \cap {"100F"}, {m \in able : m \in Base \/ ercap}} :
             chip = [able |-> able, ercap |-> ercap, adv |-> adv, bmcr |-> bmcr, lpa |-> {},
                     used |-> {}, complete |-> FALSE, up |-> FALSE, lstatus |-> FALSE]
    /\ err = FALSE /\ moved = FALSE

Task ==
    \/ PhyCreate \/ GetPhyId \/ Reset \/ ResetPoll
    \/ Features \/ Extended \/ ReadAdvert \/ WriteAdvert \/ ReadEstaten \/ ReadGiga \/ WriteGiga
    \/ CheckAneg \/ RestartAneg \/ RestartWrite
    \/ EthStart \/ StartupNull \/ UpdateLink \/ WaitAneg \/ ReadLink
    \/ ParseLink \/ ReadStat1000 \/ ReadCtrl1000 \/ ReadAdvertise \/ ReadLpa \/ ReadEstatus \/ AdjustLink

Command == ConfigInterface \/ Online \/ Offline \/ Close
Environment == Negotiate \/ ResetEnds \/ Replug
Next == Task \/ Command \/ Environment

(* The unit task runs on: every MDIO access ends, by its own time-out at the
   latest.  Nothing is assumed of the chip or the partner. *)
Spec == Init /\ [][Next]_vars
FairSpec == Spec /\ WF_vars(Task)

(***************************************************************************)
(* Properties.                                                             *)
(***************************************************************************)
(* Type invariant. *)
TypeOK ==
    /\ state \in {"UNCONFIGURED", "CONFIGURED", "ONLINE", "OFFLINE"} /\ phydev \in BOOLEAN
    /\ dev \in {NULL} \cup PhyDevices
    /\ speed \in {0, 10, 100, 1000} /\ ringReady \in BOOLEAN
    /\ loc \in [reg : SUBSET AllOnes, changed : BOOLEAN, polls : 0 .. AnegPolls + ResetPolls + 2,
                estatus : BOOLEAN]
    /\ chip \in Chips
    /\ peer \in SUBSET Modes /\ err \in BOOLEAN /\ moved \in BOOLEAN

(* A unit that came online with no time-out on the MDIO bus since the reset has a
   PHY that finished negotiating, and until the link is lost the MAC runs at the
   speed of the best mode the two PHYs have in common, and the phy_device says that
   mode's duplex.  The MAC's own duplex is another matter: bcmgenet_adjust_link
   writes the speed only, and the MAC is left at full duplex.  The one chip this
   cannot hold for is a gigabit PHY without 1000BASE-T registers, of which
   genphy_parse_link assumes that its partner can do what it can. *)
LinkAsNegotiated ==
    state = "ONLINE" /\ pc = "idle" /\ phydev /\ ~err /\ ~moved
      /\ (chip.ercap \/ chip.able \cap Giga = {}) =>
        LET common == chip.used \cap peer IN
        /\ chip.complete
        /\ common # {} => /\ speed = SpeedOf(Best(common))
                          /\ dev.full = (Best(common) \in Full)

(* No phy_device is lost or used after it was freed: none exists when a new one is
   created, and unit->phydev points to one exactly while it exists. *)
DeviceOwned ==
    /\ pc = "create" => dev = NULL
    /\ pc \in {"idle", "create"} => (phydev <=> dev # NULL)
    /\ phydev => dev # NULL

(* Configuring and starting end, one way or the other, whatever the PHY, the bus and
   the partner do: every wait for them is bounded.  What does not end is the
   clean-up of a probe or start that failed before the unit's transmit semaphore was
   ever initialised. *)
Hung == pc = "hung" /\ ~ringReady
CommandReturns == (pc # "idle") ~> (pc = "idle" \/ Hung)

(* When a configured unit is started, phy_startup gets the "target phy_device struct"
   its comments ask for (phy.c, genphy_update_link). *)
StartupHasDevice == pc = "startup" /\ state = "CONFIGURED" => phydev
=============================================================================
