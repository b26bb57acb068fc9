----------------------------- MODULE Phy_proofs -----------------------------
(***************************************************************************)
(* Types and the ownership of the phy_device, for every chip, partner and  *)
(* bound on the polls, whichever MDIO accesses time out.                   *)
(***************************************************************************)
EXTENDS Phy, TLAPS

(***************************************************************************)
(* The two halves of TypeOK: what the unit task keeps and what it does not. *)
(***************************************************************************)
Locals == [reg : SUBSET AllOnes, changed : BOOLEAN, polls : 0 .. AnegPolls + ResetPolls + 2,
           estatus : BOOLEAN]
UnitOK ==
    /\ state \in {"UNCONFIGURED", "CONFIGURED", "ONLINE", "OFFLINE"} /\ phydev \in BOOLEAN
    /\ dev \in {NULL} \cup PhyDevices /\ speed \in {0, 10, 100, 1000}
    /\ ringReady \in BOOLEAN /\ loc \in Locals
HwOK == chip \in Chips /\ peer \in SUBSET Modes /\ err \in BOOLEAN /\ moved \in BOOLEAN

LEMMA Halves == TypeOK <=> UnitOK /\ HwOK
  BY DEF TypeOK, UnitOK, HwOK, Locals

(* A register holds known bits, those of modes in particular, and a failed
   access has them all. *)
LEMMA RegisterBits ==
  ASSUME HwOK, NEW r, NEW v \in Values(r)
  PROVE  /\ v \subseteq AllOnes
         /\ ~Failed(v) => v = Register(r)
<1>1. Register(r) \subseteq AllOnes
  BY DEF HwOK, Chips, Register, AllOnes, Bit, Modes, Base, Giga
<1>2. Failed(AllOnes)
  BY DEF Failed, AllOnes
<1> QED BY <1>1, <1>2 DEF Values

LEMMA ReadHw ==
  ASSUME HwOK, NEW r, NEW v, BusRead(r, v), err' \in BOOLEAN PROVE HwOK'
<1>1. Polled(r) \in Chips
  BY DEF HwOK, Polled, Chips
<1> QED BY <1>1 DEF BusRead, HwOK

LEMMA MdioReadHw ==
  ASSUME HwOK, NEW r, NEW v, mdio_read(r, v) PROVE HwOK'
<1>1. err' \in BOOLEAN
  BY Zenon DEF mdio_read
<1> QED BY <1>1, ReadHw DEF mdio_read

LEMMA MdioWriteHw ==
  ASSUME HwOK, NEW r \in {"BMCR", "ADVERTISE", "CTRL1000"}, NEW v \in SUBSET AllOnes,
         r # "BMCR" => v \subseteq Modes,
         NEW ok \in BOOLEAN, mdio_write(r, v, ok)
  PROVE  HwOK'
<1>1. Written(r, v) \in Chips
  BY DEF HwOK, Written, LinkLost, Chips, Base, Giga, Modes
<1> QED BY <1>1 DEF mdio_write, HwOK

(* The chip and the partner by themselves. *)
LEMMA EnvironmentHw == ASSUME HwOK, Environment PROVE HwOK'
<1>1. CASE Negotiate
  BY <1>1 DEF Negotiate, HwOK, Chips
<1>2. CASE ResetEnds
  BY <1>2 DEF ResetEnds, LinkLost, HwOK, Chips, AllOnes
<1>3. CASE Replug
  BY <1>3, PhyAssumption DEF Replug, LinkLost, HwOK, Chips
<1> QED BY <1>1, <1>2, <1>3 DEF Environment

(***************************************************************************)
(* Which steps have a phy_device.  While the PHY is created unit->phydev   *)
(* does not point to it yet; between the identification and the end of the *)
(* configuration, and while the link is read, it does; a unit that is not  *)
(* configured has none.  A task that hangs keeps what it had.              *)
(***************************************************************************)
AtRest == {"idle", "create", "start", "startup", "hung"}
Creating == {"id1", "id2"}
DevInv ==
    /\ pc \in AtRest /\ pc # "hung" => (phydev <=> dev # NULL)
    /\ pc \in AtRest /\ pc # "hung" /\ state = "UNCONFIGURED" => dev = NULL
    /\ pc = "hung" => (phydev => dev # NULL)
    /\ pc \in Creating => ~phydev /\ dev # NULL
    /\ pc \notin AtRest \cup Creating => phydev /\ dev # NULL
    /\ pc = "create" => state = "UNCONFIGURED"

LEMMA InitPhy == Init => TypeOK /\ DevInv
<1> SUFFICES ASSUME Init PROVE TypeOK /\ DevInv
  OBVIOUS
<1>1. HwOK
  <2>1. PICK able \in Abilities, ercap \in BOOLEAN, bmcr \in SUBSET {"ANENABLE", "ISOLATE"} :
          \E adv \in {able \cap {"100F"}, {m \in able : m \in Base \/ ercap}} :
             chip = [able |-> able, ercap |-> ercap, adv |-> adv, bmcr |-> bmcr, lpa |-> {},
                     used |-> {}, complete |-> FALSE, up |-> FALSE, lstatus |-> FALSE]
    BY DEF Init
  <2>2. PICK adv \in {able \cap {"100F"}, {m \in able : m \in Base \/ ercap}} :
             chip = [able |-> able, ercap |-> ercap, adv |-> adv, bmcr |-> bmcr, lpa |-> {},
                     used |-> {}, complete |-> FALSE, up |-> FALSE, lstatus |-> FALSE]
    BY <2>1
  <2>3. able \in SUBSET Modes /\ adv \in SUBSET Modes /\ bmcr \in SUBSET AllOnes
    BY <2>2, PhyAssumption DEF AllOnes
  <2>4. chip \in Chips
    BY <2>2, <2>3 DEF Chips
  <2> QED BY <2>4, PhyAssumption DEF Init, HwOK
<1>2. UnitOK
  <2>1. NoLocals \in Locals
    BY PhyAssumption DEF NoLocals, Locals
  <2> QED BY <2>1 DEF Init, UnitOK
<1>3. DevInv
  BY DEF Init, DevInv, AtRest, Creating
<1> QED BY <1>1, <1>2, <1>3, Halves

(* The end of every failure leaves no device, or a task that hangs, and everything
   typed. *)
LEMMA StopKeeps ==
  ASSUME UnitOK, DevInv, NEW ready \in BOOLEAN, EthStop(ready),
         state' \in {"UNCONFIGURED", "CONFIGURED", "ONLINE", "OFFLINE"}, UNCHANGED speed
  PROVE  UnitOK' /\ DevInv'
<1>1. NoLocals \in Locals
  BY PhyAssumption DEF NoLocals, Locals
<1>2. CASE ready
  BY <1>1, <1>2 DEF EthStop, Reclaim, NoPhy, UnitOK, DevInv, AtRest, Creating
<1>3. CASE ~ready
  <2>1. pc' = "hung" /\ UNCHANGED <<phydev, dev>> /\ ringReady' \in BOOLEAN /\ loc' \in Locals
    BY <1>1, <1>3 DEF EthStop, Reclaim
  <2>2. phydev => dev # NULL
    BY DEF DevInv
  <2> QED BY <2>1, <2>2 DEF UnitOK, DevInv, AtRest, Creating
<1> QED BY <1>2, <1>3

LEMMA StartFailsKeeps ==
  ASSUME UnitOK, DevInv, NEW ready \in BOOLEAN, StartFails(ready) PROVE UnitOK' /\ DevInv'
  BY StopKeeps DEF StartFails, UnitOK

LEMMA ProbeFailsKeeps == ASSUME UnitOK, ProbeFails PROVE UnitOK' /\ DevInv'
<1>1. NoLocals \in Locals
  BY PhyAssumption DEF NoLocals, Locals
<1>2. /\ pc' \in {"idle", "hung"} /\ phydev' = FALSE /\ dev' = NULL /\ loc' = NoLocals
      /\ UNCHANGED <<state, speed, ringReady>>
  BY DEF ProbeFails, Reclaim, NoPhy
<1>3. UnitOK'
  <2>1. phydev' \in BOOLEAN /\ dev' \in {NULL} \cup PhyDevices /\ loc' \in Locals
    BY <1>1, <1>2
  <2>2. /\ state' \in {"UNCONFIGURED", "CONFIGURED", "ONLINE", "OFFLINE"}
        /\ speed' \in {0, 10, 100, 1000}
    BY <1>2 DEF UnitOK
  <2>3. ringReady' \in BOOLEAN
    BY <1>2 DEF UnitOK
  <2> QED BY <2>1, <2>2, <2>3 DEF UnitOK
<1>4. DevInv'
  BY <1>2 DEF DevInv, AtRest, Creating
<1> QED BY <1>3, <1>4

(***************************************************************************)
(* The steps of the unit task, by the phases of a command.  Each proof     *)
(* speaks of the unit only; the hardware's half is TaskHw.                 *)
(***************************************************************************)
Phases == UnitOK' /\ DevInv'

LEMMA CommandKeeps == ASSUME UnitOK, DevInv, Command PROVE Phases
<1> USE DEF Phases
<1>1. CASE ConfigInterface
  <2>1. CASE ProbeFails
    BY <2>1, ProbeFailsKeeps
  <2>2. CASE Keep("create")
    BY <1>1, <2>2 DEF ConfigInterface, Keep, Goto, unitVars, UnitOK, DevInv, AtRest, Creating
  <2> QED BY <1>1, <2>1, <2>2 DEF ConfigInterface
<1>2. CASE Online
  BY <1>2 DEF Online, Keep, Goto, unitVars, UnitOK, DevInv, AtRest, Creating
<1>3. CASE Offline
  <2>1. ringReady \in BOOLEAN
    BY DEF UnitOK
  <2> QED BY <1>3, <2>1, StopKeeps DEF Offline
<1>4. CASE Close
  BY <1>4 DEF Close, NoPhy, UnitOK, DevInv, AtRest, Creating
<1> QED BY <1>1, <1>2, <1>3, <1>4 DEF Command

(* phy_create and phy_reset. *)
LEMMA CreateKeeps ==
  ASSUME UnitOK, DevInv, PhyCreate \/ GetPhyId \/ Reset \/ ResetPoll PROVE Phases
<1> USE DEF Phases
<1>1. CASE ProbeFails
  BY <1>1, ProbeFailsKeeps
<1>2. CASE PhyCreate /\ ~ProbeFails
  <2>1. dev' \in PhyDevices
    <3>1. PICK flagged \in BOOLEAN : dev' = FreshPhy(flagged)
      BY <1>2 DEF PhyCreate
    <3> QED BY <3>1 DEF FreshPhy, PhyDevices
  <2> QED BY <1>2, <2>1, PhyAssumption DEF PhyCreate, Goto, UnitOK, DevInv, AtRest, Creating
<1>3. CASE GetPhyId /\ ~ProbeFails
  <2>1. CASE Keep("id2")
    BY <1>3, <2>1 DEF GetPhyId, Keep, Goto, unitVars, UnitOK, DevInv, AtRest, Creating
  <2>2. CASE ~Keep("id2")
    <3>1. /\ pc = "id2" /\ phydev' = TRUE /\ pc' \in {"features", "reset"}
          /\ UNCHANGED <<state, dev, speed, ringReady, loc>>
      BY <1>3, <2>2 DEF GetPhyId, Goto
    <3> QED BY <3>1 DEF UnitOK, DevInv, AtRest, Creating
  <2> QED BY <2>1, <2>2
<1>4. CASE Reset
  BY <1>4 DEF Reset, Keep, Goto, unitVars, UnitOK, DevInv, AtRest, Creating
<1>5. CASE ResetPoll
  <2>1. loc' \in Locals
    <3>1. PICK again \in BOOLEAN :
            /\ loc' = [loc EXCEPT !.polls = IF again THEN @ + 1 ELSE 0]
            /\ again => loc.polls < ResetPolls
      BY <1>5 DEF ResetPoll
    <3>2. loc.polls \in 0 .. AnegPolls + ResetPolls + 2 /\ loc \in Locals
      BY DEF UnitOK, Locals
    <3>3. (IF again THEN loc.polls + 1 ELSE 0) \in 0 .. AnegPolls + ResetPolls + 2
      BY <3>1, <3>2, PhyAssumption
    <3> QED BY <3>1, <3>2, <3>3 DEF Locals
  <2> QED BY <1>5, <2>1 DEF ResetPoll, Goto, unitVars, UnitOK, DevInv, AtRest, Creating
<1> QED BY <1>1, <1>2, <1>3, <1>4, <1>5

(* A step that keeps the device's place: it moves within the steps that have a
   device, or to the start, changes the device's fields but not whether there is
   one, and changes no other part of the unit than its locals. *)
LEMMA WithDevice ==
  ASSUME UnitOK, DevInv, pc \notin AtRest \cup Creating, pc' \notin AtRest \cup Creating,
         dev' \in PhyDevices, loc' \in Locals, UNCHANGED <<state, phydev, speed, ringReady>>
  PROVE  Phases
  BY PhyAssumption DEF UnitOK, DevInv, AtRest, Creating, Phases

LEMMA HasDevice == ASSUME UnitOK, DevInv, pc \notin AtRest \cup Creating
                   PROVE  dev \in PhyDevices
  BY DEF UnitOK, DevInv

LEMMA ConfiguredKeeps ==
  ASSUME UnitOK, DevInv, pc \notin AtRest \cup Creating, Configured PROVE Phases
<1>1. NoLocals \in Locals
  BY PhyAssumption DEF NoLocals, Locals
<1> QED BY <1>1 DEF Configured, Goto, UnitOK, DevInv, AtRest, Creating, Phases

(* phy_config. *)
LEMMA ConfigKeeps ==
  ASSUME UnitOK, DevInv, HwOK,
         \/ Features \/ Extended \/ ReadAdvert \/ WriteAdvert \/ ReadEstaten \/ ReadGiga
         \/ WriteGiga \/ CheckAneg \/ RestartAneg \/ RestartWrite
  PROVE  Phases
<1> DEFINE Configuring == pc' \notin AtRest \cup Creating
<1>1. pc \notin AtRest \cup Creating
  BY DEF Features, Extended, ReadAdvert, WriteAdvert, ReadEstaten, ReadGiga, WriteGiga,
     CheckAneg, RestartAneg, RestartWrite, Access, AtRest, Creating
<1>2. dev \in PhyDevices /\ loc \in Locals
  BY <1>1, HasDevice DEF UnitOK
<1>3. CASE ProbeFails
  BY <1>3, ProbeFailsKeeps DEF Phases
<1>4. CASE Configured
  BY <1>1, <1>4, ConfiguredKeeps
<1>5. CASE Features /\ ~ProbeFails
  <2>1. PICK v \in Values("BMSR") :
           /\ dev' = [dev EXCEPT !.supported = SupportedBy(v)]
           /\ Goto(IF "ESTATEN" \in v THEN "extended" ELSE "advert")
           /\ UNCHANGED <<state, phydev, speed, ringReady, loc>>
    BY <1>5 DEF Features, Access
  <2>2. SupportedBy(v) \in SUBSET Modes
    BY DEF SupportedBy, Modes
  <2>3. dev' \in PhyDevices
    BY <1>2, <2>1, <2>2 DEF PhyDevices
  <2> QED BY <1>1, <1>2, <2>1, <2>3, WithDevice DEF Goto, AtRest, Creating
<1>6. CASE Extended /\ ~ProbeFails
  <2>1. PICK v \in Values("ESTATUS") :
           /\ ~Failed(v)
           /\ dev' = [dev EXCEPT !.supported = @ \cup v]
           /\ Goto("advert") /\ UNCHANGED <<state, phydev, speed, ringReady, loc>>
    BY <1>6 DEF Extended, Access
  <2>2. v \subseteq Modes
    <3>1. v = Register("ESTATUS")
      BY <2>1, RegisterBits
    <3> QED BY <3>1 DEF Register, Modes
  <2>3. dev' \in PhyDevices
    BY <1>2, <2>1, <2>2 DEF PhyDevices
  <2> QED BY <1>1, <1>2, <2>1, <2>3, WithDevice DEF Goto, AtRest, Creating
<1>7. CASE (ReadAdvert \/ WriteAdvert \/ ReadGiga) /\ ~ProbeFails
  <2>1. /\ UNCHANGED unitVars /\ pc' \in {"estaten", "setAdvert", "setGiga"}
        /\ \E b : loc' = [loc EXCEPT !.changed = b] /\ b \in BOOLEAN
    <3>1. CASE ReadAdvert
      BY <1>7, <3>1 DEF ReadAdvert, Access, Goto
    <3>2. CASE WriteAdvert
      BY <1>7, <3>2 DEF WriteAdvert, Goto
    <3>3. CASE ReadGiga
      <4>1. PICK v \in Values("CTRL1000") :
               /\ Goto("setGiga") /\ UNCHANGED unitVars
               /\ loc' = [loc EXCEPT !.changed = @ \/ v # Advertising(Giga)]
        BY <1>7, <3>3 DEF ReadGiga, Access
      <4>2. (loc.changed \/ v # Advertising(Giga)) \in BOOLEAN
        BY Zenon
      <4> QED BY <4>1, <4>2 DEF Goto
    <3> QED BY <1>7, <3>1, <3>2, <3>3
  <2>2. loc' \in Locals
    BY <1>2, <2>1 DEF Locals
  <2> QED BY <1>1, <1>2, <2>1, <2>2, WithDevice DEF unitVars, AtRest, Creating
<1>8. CASE (ReadEstaten \/ WriteGiga \/ CheckAneg) /\ ~ProbeFails /\ ~Configured
  <2>1. UNCHANGED <<unitVars, loc>> /\ pc' \in {"giga", "restart", "aneg"}
    BY <1>8 DEF ReadEstaten, WriteGiga, CheckAneg, Access, AskRestart, Keep, Goto
  <2> QED BY <1>1, <1>2, <2>1, WithDevice DEF unitVars, AtRest, Creating
<1>9. CASE RestartAneg /\ ~ProbeFails
  <2>1. PICK v \in Values("BMCR") :
           /\ Goto("setAneg") /\ UNCHANGED unitVars
           /\ loc' = [loc EXCEPT !.reg = (v \cup {"ANENABLE"}) \ {"ISOLATE"}]
    BY <1>9 DEF RestartAneg, Access
  <2>2. v \subseteq AllOnes
    BY RegisterBits
  <2>3. (v \cup {"ANENABLE"}) \ {"ISOLATE"} \in SUBSET AllOnes
    BY <2>2 DEF AllOnes
  <2>4. loc' \in Locals
    BY <1>2, <2>1, <2>3 DEF Locals
  <2> QED BY <1>1, <1>2, <2>1, <2>4, WithDevice DEF Goto, unitVars, AtRest, Creating
<1>10. CASE RestartWrite /\ ~ProbeFails /\ ~Configured
  BY <1>10 DEF RestartWrite
<1> QED
  BY <1>3, <1>4, <1>5, <1>6, <1>7, <1>8, <1>9, <1>10

(* phy_startup up to the resolved link. *)
LEMMA LinkField ==
  ASSUME NEW d \in PhyDevices, NEW b \in BOOLEAN PROVE [d EXCEPT !.link = b] \in PhyDevices
  BY DEF PhyDevices

LEMMA ResolvedDevice ==
  ASSUME dev \in PhyDevices, NEW S PROVE Resolved(S) \in PhyDevices
<1> DEFINE s == Resolved(S).speed
           f == Resolved(S).full
<1>1. Resolved(S) = [dev EXCEPT !.speed = s, !.full = f]
  BY DEF Resolved, PhyDevices
<1>2. s \in {0, 10, 100, 1000}
  BY DEF Resolved, PhyDevices
<1>3. f \in BOOLEAN
  BY DEF Resolved, PhyDevices
<1> HIDE DEF s, f
<1>4. [dev EXCEPT !.speed = s, !.full = f] \in PhyDevices
  <2>1. PICK e \in PhyDevices : e = [dev EXCEPT !.speed = s]
    <3>1. [dev EXCEPT !.speed = s] \in PhyDevices
      BY <1>2 DEF PhyDevices
    <3> QED BY <3>1
  <2>2. [e EXCEPT !.full = f] \in PhyDevices
    BY <1>3 DEF PhyDevices
  <2>3. [dev EXCEPT !.speed = s, !.full = f] = [e EXCEPT !.full = f]
    BY <2>1
  <2> QED BY <2>2, <2>3
<1> QED BY <1>1, <1>4

LEMMA LinkKeeps ==
  ASSUME UnitOK, DevInv, HwOK, pc \notin AtRest \cup Creating,
         \/ WaitAneg \/ ReadLink \/ ParseLink \/ ReadStat1000 \/ ReadCtrl1000
         \/ ReadAdvertise \/ ReadLpa \/ ReadEstatus
  PROVE  Phases
<1>1. dev \in PhyDevices /\ loc \in Locals
  BY HasDevice DEF UnitOK
<1>2. CASE StartFails(ringReady)
  BY <1>2, StartFailsKeeps DEF UnitOK, Phases
<1>3. CASE WaitAneg /\ ~StartFails(ringReady)
  <2>1. /\ loc' = [loc EXCEPT !.polls = (@ + 1) % (AnegPolls + 2)]
        /\ dev' \in {dev, [dev EXCEPT !.link = TRUE]} /\ pc' \in {"wait", "parse"}
        /\ UNCHANGED <<state, phydev, speed, ringReady>>
    BY <1>3 DEF WaitAneg, Goto
  <2>2. loc' \in Locals
    <3>1. loc.polls \in 0 .. AnegPolls + ResetPolls + 2
      BY <1>1 DEF Locals
    <3>2. (loc.polls + 1) % (AnegPolls + 2) \in 0 .. AnegPolls + ResetPolls + 2
      <4>1. (loc.polls + 1) % (AnegPolls + 2) \in 0 .. AnegPolls + 1
        BY <3>1, PhyAssumption
      <4> QED BY <4>1, PhyAssumption
    <3> QED BY <1>1, <2>1, <3>2 DEF Locals
  <2>3. dev' \in PhyDevices
    BY <1>1, <2>1, LinkField
  <2> QED BY <2>1, <2>2, <2>3, WithDevice DEF AtRest, Creating
<1>4. CASE ReadLink
  <2>1. PICK v \in Values("BMSR") : dev' = [dev EXCEPT !.link = "LSTATUS" \in v]
    BY <1>4 DEF ReadLink
  <2>2. [dev EXCEPT !.link = TRUE] \in PhyDevices /\ [dev EXCEPT !.link = FALSE] \in PhyDevices
    BY <1>1, LinkField
  <2>3. dev' \in PhyDevices
    <3>1. CASE "LSTATUS" \in v
      BY <2>1, <2>2, <3>1
    <3>2. CASE "LSTATUS" \notin v
      <4>1. ("LSTATUS" \in v) = FALSE
        BY <3>2
      <4>2. dev' = [dev EXCEPT !.link = FALSE]
        BY <2>1, <4>1, Zenon
      <4> QED BY <2>2, <4>2
    <3> QED BY <3>1, <3>2
  <2> QED BY <1>1, <1>4, <2>3, WithDevice DEF ReadLink, Goto, AtRest, Creating
<1>5. CASE ParseLink
  <2>1. PICK v \in Values("BMSR") :
           loc' = [loc EXCEPT !.estatus = "ESTATEN" \in v /\ "ERCAP" \notin v]
    BY <1>5 DEF ParseLink
  <2>2. ("ESTATEN" \in v /\ "ERCAP" \notin v) \in BOOLEAN
    BY Zenon
  <2>3. loc' \in Locals
    BY <1>1, <2>1, <2>2 DEF Locals
  <2> QED BY <1>1, <1>5, <2>3, WithDevice DEF ParseLink, Goto, unitVars, AtRest, Creating
<1>6. CASE ReadStat1000
  <2>1. PICK v \in Values("STAT1000") :
           loc' = [loc EXCEPT !.reg = IF Failed(v) THEN {} ELSE v]
    BY <1>6 DEF ReadStat1000
  <2>2. v \subseteq AllOnes
    BY RegisterBits
  <2>3. loc' \in Locals
    BY <1>1, <2>1, <2>2 DEF Locals
  <2> QED BY <1>1, <1>6, <2>3, WithDevice DEF ReadStat1000, Goto, unitVars, AtRest, Creating
<1>7. CASE ReadAdvertise
  <2>1. PICK v \in Values("ADVERTISE") : loc' = [loc EXCEPT !.reg = v \cap Base]
    BY <1>7 DEF ReadAdvertise
  <2>2. v \cap Base \subseteq AllOnes
    BY DEF AllOnes, Modes
  <2>3. loc' \in Locals
    BY <1>1, <2>1, <2>2 DEF Locals
  <2> QED BY <1>1, <1>7, <2>3, WithDevice DEF ReadAdvertise, Goto, unitVars, AtRest, Creating
<1>8. CASE ReadCtrl1000 \/ ReadLpa
  <2>1. /\ dev' = dev \/ \E S : dev' = Resolved(S)
        /\ pc' \in {"adjust", "advertise", "estatus"}
        /\ UNCHANGED <<state, phydev, speed, ringReady, loc>>
    BY <1>8 DEF ReadCtrl1000, ReadLpa, Goto
  <2>2. dev' \in PhyDevices
    BY <1>1, <2>1, ResolvedDevice
  <2> QED BY <1>1, <2>1, <2>2, WithDevice DEF AtRest, Creating
<1>9. CASE ReadEstatus
  <2>1. dev' \in {dev, [dev EXCEPT !.speed = 1000], [dev EXCEPT !.speed = 1000, !.full = TRUE]}
    BY <1>9 DEF ReadEstatus
  <2>2. dev' \in PhyDevices
    <3>1. PICK e \in PhyDevices : e = [dev EXCEPT !.speed = 1000]
      <4>1. [dev EXCEPT !.speed = 1000] \in PhyDevices
        BY <1>1 DEF PhyDevices
      <4> QED BY <4>1
    <3>2. PICK yes \in BOOLEAN : yes = TRUE
      OBVIOUS
    <3>3. [e EXCEPT !.full = yes] \in PhyDevices
      BY DEF PhyDevices
    <3>4. [dev EXCEPT !.speed = 1000, !.full = TRUE] = [e EXCEPT !.full = yes]
      BY <3>1, <3>2
    <3> QED BY <1>1, <2>1, <3>1, <3>3, <3>4
  <2> QED BY <1>1, <1>9, <2>2, WithDevice DEF ReadEstatus, Goto, AtRest, Creating
<1> QED BY <1>2, <1>3, <1>4, <1>5, <1>6, <1>7, <1>8, <1>9

LEMMA StartKeeps ==
  ASSUME UnitOK, DevInv, HwOK, EthStart \/ StartupNull \/ UpdateLink \/ AdjustLink
  PROVE  Phases
<1> USE DEF Phases
<1>1. CASE StartFails(ringReady) \/ StartFails(TRUE)
  BY <1>1, StartFailsKeeps DEF UnitOK
<1>2. CASE EthStart /\ ~StartFails(ringReady) /\ ~StartFails(TRUE)
  <2>1. /\ pc = "start" /\ pc' = "startup" /\ speed' = 0 /\ ringReady' = TRUE
        /\ UNCHANGED <<state, phydev, dev, loc>>
    BY <1>2 DEF EthStart, Goto
  <2> QED BY <2>1 DEF UnitOK, DevInv, AtRest, Creating
<1>3. CASE StartupNull /\ ~StartFails(ringReady) /\ ~StartFails(TRUE)
  BY <1>3 DEF StartupNull, Goto, UnitOK, DevInv, AtRest, Creating
<1>4. CASE UpdateLink
  <2>1. UNCHANGED <<unitVars, loc>> /\ pc' \in {"link", "wait"} /\ phydev /\ pc = "startup"
    BY <1>4 DEF UpdateLink, Keep, Goto
  <2> QED BY <2>1 DEF unitVars, UnitOK, DevInv, AtRest, Creating
<1>5. CASE AdjustLink
  <2>1. dev \in PhyDevices /\ dev # NULL /\ phydev
    BY <1>5 DEF AdjustLink, UnitOK, DevInv, AtRest, Creating
  <2>2. NoLocals \in Locals
    BY PhyAssumption DEF NoLocals, Locals
  <2>3. speed' \in {0, 10, 100, 1000}
    BY <1>5, <2>1 DEF AdjustLink, PhyDevices
  <2> QED BY <1>5, <2>1, <2>2, <2>3 DEF AdjustLink, Goto, UnitOK, DevInv, AtRest, Creating
<1> QED BY <1>1, <1>2, <1>3, <1>4, <1>5

LEMMA TaskKeeps == ASSUME UnitOK, DevInv, HwOK, Task PROVE Phases
<1>1. CASE \/ WaitAneg \/ ReadLink \/ ParseLink \/ ReadStat1000 \/ ReadCtrl1000
           \/ ReadAdvertise \/ ReadLpa \/ ReadEstatus
  <2>1. pc \notin AtRest \cup Creating
    BY <1>1 DEF WaitAneg, ReadLink, ParseLink, ReadStat1000, ReadCtrl1000, ReadAdvertise,
       ReadLpa, ReadEstatus, AtRest, Creating
  <2> QED BY <1>1, <2>1, LinkKeeps
<1> QED BY <1>1, CreateKeeps, ConfigKeeps, StartKeeps DEF Task

(***************************************************************************)
(* The hardware's half.                                                    *)
(***************************************************************************)
Reads == {"PHYSID", "BMCR", "BMSR", "ESTATUS", "ADVERTISE", "CTRL1000", "STAT1000", "LPA"}

LEMMA TaskHw == ASSUME UnitOK, DevInv, HwOK, Task PROVE HwOK'
<1>1. CASE NoAccess /\ moved' \in BOOLEAN
  BY <1>1 DEF NoAccess, HwOK
<1>2. ASSUME NEW r, NEW v, mdio_read(r, v) PROVE HwOK'
  BY <1>2, MdioReadHw
<1>3. CASE PhyCreate \/ EthStart \/ StartupNull \/ AdjustLink
  BY <1>1, <1>3 DEF PhyCreate, EthStart, StartupNull, AdjustLink, HwOK
<1>4. CASE \/ GetPhyId \/ Features \/ Extended \/ ReadAdvert \/ ReadEstaten \/ ReadGiga
           \/ CheckAneg \/ RestartAneg
  BY <1>2, <1>4 DEF GetPhyId, Features, Extended, ReadAdvert, ReadEstaten, ReadGiga,
     CheckAneg, RestartAneg, Access
<1>5. CASE \/ UpdateLink \/ WaitAneg \/ ReadLink \/ ParseLink \/ ReadStat1000
           \/ ReadCtrl1000 \/ ReadAdvertise \/ ReadLpa \/ ReadEstatus
  BY <1>1, <1>2, <1>5 DEF UpdateLink, WaitAneg, ReadLink, ParseLink, ReadStat1000,
     ReadCtrl1000, ReadAdvertise, ReadLpa, ReadEstatus, HwOK
<1>6. CASE Reset
  BY <1>6, MdioWriteHw DEF Reset, AllOnes
<1>7. CASE ResetPoll
  <2>1. PICK v \in Values("BMCR"), again \in BOOLEAN :
           /\ BusRead("BMCR", v)
           /\ err' = ("RESET" \in v /\ (err \/ Failed(v) \/ ~again))
    BY <1>7 DEF ResetPoll
  <2>2. err' \in BOOLEAN
    BY <2>1, Zenon
  <2> QED BY <2>1, <2>2, ReadHw
<1>8. CASE WriteAdvert
  <2>1. Advertising(Base) \subseteq Modes /\ Advertising(Base) \subseteq AllOnes
    BY DEF Advertising, AllOnes, Modes
  <2> QED BY <1>8, <2>1, MdioWriteHw DEF WriteAdvert
<1>9. CASE WriteGiga
  <2>1. Advertising(Giga) \subseteq Modes /\ Advertising(Giga) \subseteq AllOnes
    BY DEF Advertising, AllOnes, Modes
  <2> QED BY <1>9, <2>1, MdioWriteHw DEF WriteGiga
<1>10. CASE RestartWrite
  <2>1. loc.reg \subseteq AllOnes
    BY DEF UnitOK, Locals
  <2> QED BY <1>10, <2>1, MdioWriteHw DEF RestartWrite
<1> QED
  BY <1>3, <1>4, <1>5, <1>6, <1>7, <1>8, <1>9, <1>10 DEF Task

(***************************************************************************)
(* The theorems.                                                           *)
(***************************************************************************)
LEMMA NextPhy == TypeOK /\ DevInv /\ [Next]_vars => TypeOK' /\ DevInv'
<1> SUFFICES ASSUME UnitOK, HwOK, DevInv, [Next]_vars PROVE (UnitOK /\ HwOK)' /\ DevInv'
  BY Halves, PTL
<1>1. CASE Task
  BY <1>1, TaskKeeps, TaskHw DEF Phases
<1>2. CASE Command
  <2>1. HwOK'
    BY <1>2 DEF Command, ConfigInterface, Online, Offline, Close, NoAccess, HwOK
  <2> QED BY <1>2, <2>1, CommandKeeps DEF Phases
<1>3. CASE Environment
  <2>1. UNCHANGED <<unitVars, pc, loc>>
    BY <1>3 DEF Environment, Negotiate, ResetEnds, Replug
  <2>2. UnitOK' /\ DevInv'
    BY <2>1 DEF unitVars, UnitOK, DevInv
  <2> QED BY <1>3, <2>2, EnvironmentHw
<1>4. CASE UNCHANGED vars
  BY <1>4 DEF vars, unitVars, UnitOK, HwOK, DevInv
<1> QED BY <1>1, <1>2, <1>3, <1>4 DEF Next

(* Every variable keeps its type: the polls stay bounded, and the speed written
   to the MAC is one the field can hold. *)
THEOREM PhyTypeCorrect == Spec => []TypeOK
<1> QED BY InitPhy, NextPhy, PTL DEF Spec

(* No phy_device is lost or used after it was freed, for every chip, partner and
   number of polls and whichever MDIO accesses time out: none exists when one is
   created, and unit->phydev points to one exactly while it exists. *)
THEOREM PhyDeviceOwned == Spec => []DeviceOwned
<1>1. TypeOK /\ DevInv => DeviceOwned
  <2> SUFFICES ASSUME DevInv, UnitOK PROVE DeviceOwned
    BY Halves
  <2> QED BY DEF DevInv, UnitOK, DeviceOwned, AtRest, Creating
<1> QED BY <1>1, InitPhy, NextPhy, PTL DEF Spec

(***************************************************************************)
(* The link.  What the unit task reads of the chip is what the chip        *)
(* negotiated, as long as no access has failed: the driver's abilities are *)
(* the chip's, a change of what is advertised restarts the negotiation     *)
(* before anybody reads its result, and the registers read one by one      *)
(* belong to one negotiation.                                              *)
(***************************************************************************)
(* What a read leaves as it was: all but the latched link bit. *)
SameChip == /\ chip'.able = chip.able /\ chip'.ercap = chip.ercap /\ chip'.adv = chip.adv
            /\ chip'.bmcr = chip.bmcr /\ chip'.lpa = chip.lpa /\ chip'.used = chip.used
            /\ chip'.complete = chip.complete
            /\ peer' = peer

(* A read changes nothing that matters; if it did not time out its value is the
   register's. *)
LEMMA BusReadFine ==
  ASSUME HwOK, NEW r, NEW v, BusRead(r, v) PROVE SameChip /\ moved' = moved
<1>1. Polled(r) \in {chip, [chip EXCEPT !.lstatus = chip.up]}
  BY DEF Polled
<1> QED BY <1>1 DEF BusRead, SameChip, HwOK, Chips

LEMMA ReadFine ==
  ASSUME HwOK, NEW r, NEW v \in Values(r), mdio_read(r, v)
  PROVE  /\ SameChip /\ moved' = moved
         /\ Failed(v) => err'
         /\ ~err' => ~err /\ v = Register(r)
<1>1. SameChip /\ moved' = moved
  BY BusReadFine DEF mdio_read
<1>2. (err \/ Failed(v)) => err'
  BY Zenon DEF mdio_read
<1> QED BY <1>1, <1>2, RegisterBits

LEMMA WriteFine ==
  ASSUME HwOK, NEW r, NEW v, NEW ok \in BOOLEAN, mdio_write(r, v, ok)
  PROVE  /\ chip' \in {chip, Written(r, v)} /\ peer' = peer /\ moved' = moved
         /\ ~ok => err'
         /\ ok => chip' = Written(r, v) /\ err' = err
  BY DEF mdio_write

LEMMA Registers ==
  ASSUME HwOK
  PROVE  /\ "ESTATEN" \in Register("BMSR") <=> chip.able \cap Giga # {}
         /\ "ANEGCOMPLETE" \in Register("BMSR") <=> chip.complete
         /\ "ERCAP" \in Register("BMSR") <=> chip.ercap
         /\ Register("BMSR") \cap Base = chip.able \cap Base
         /\ Register("BMCR") = chip.bmcr
         /\ Register("ESTATUS") = chip.able \cap Giga
         /\ Register("ADVERTISE") = chip.adv \cap Base
         /\ Register("CTRL1000") = chip.adv \cap Giga
         /\ Register("LPA") = chip.lpa \cap Base
         /\ chip.ercap => Register("STAT1000") = chip.lpa \cap Giga
<1>1. chip.able \subseteq Modes
  BY DEF HwOK, Chips
<1> DEFINE b == Bit("ESTATEN", chip.able \cap Giga # {})
           c == Bit("ERCAP", chip.ercap)
           a == Bit("ANEGCOMPLETE", chip.complete)
           l == Bit("LSTATUS", chip.lstatus)
<1>2. /\ b \subseteq {"ESTATEN"} /\ c \subseteq {"ERCAP"} /\ a \subseteq {"ANEGCOMPLETE"}
      /\ l \subseteq {"LSTATUS"}
      /\ "ESTATEN" \in b <=> chip.able \cap Giga # {}
      /\ "ERCAP" \in c <=> chip.ercap
      /\ "ANEGCOMPLETE" \in a <=> chip.complete
  BY DEF Bit
<1>b. Register("BMSR") = (chip.able \cap Base) \cup b \cup c \cup a \cup l
  BY DEF Register
<1> HIDE DEF a, b, c, l
<1>3. /\ "ESTATEN" \in Register("BMSR") <=> chip.able \cap Giga # {}
      /\ "ANEGCOMPLETE" \in Register("BMSR") <=> chip.complete
      /\ "ERCAP" \in Register("BMSR") <=> chip.ercap
      /\ Register("BMSR") \cap Base = chip.able \cap Base
  BY <1>1, <1>2, <1>b DEF Base
<1>4. /\ Register("BMCR") = chip.bmcr
      /\ Register("ESTATUS") = chip.able \cap Giga
      /\ Register("ADVERTISE") = chip.adv \cap Base
      /\ Register("CTRL1000") = chip.adv \cap Giga
      /\ Register("LPA") = chip.lpa \cap Base
      /\ chip.ercap => Register("STAT1000") = chip.lpa \cap Giga
  BY DEF Register
<1> QED BY <1>3, <1>4

(* What a write may do to the chip. *)
LEMMA WrittenChip ==
  ASSUME HwOK, NEW r \in {"BMCR", "ADVERTISE", "CTRL1000"}, NEW v, NEW c, c = Written(r, v)
  PROVE  /\ c.able = chip.able /\ c.ercap = chip.ercap
         /\ "RESET" \in chip.bmcr => c = chip
         /\ "RESET" \notin chip.bmcr /\ r \in {"ADVERTISE", "CTRL1000"} =>
                /\ c.bmcr = chip.bmcr /\ c.lpa = chip.lpa /\ c.complete = chip.complete
                /\ c.used = chip.used
                /\ c.adv = IF r = "ADVERTISE" THEN (chip.adv \cap Giga) \cup v
                          ELSE (chip.adv \cap Base) \cup (IF chip.ercap THEN v ELSE {})
         /\ "RESET" \notin chip.bmcr /\ r = "BMCR" =>
                c.bmcr = v /\ ~c.complete /\ c.adv = chip.adv
<1>1. chip \in Chips
  BY DEF HwOK
<1>2. CASE "RESET" \in chip.bmcr
  BY <1>2 DEF Written
<1>3. CASE "RESET" \notin chip.bmcr /\ r = "ADVERTISE"
  <2>1. c = [chip EXCEPT !.adv = (@ \cap Giga) \cup v]
    BY <1>3 DEF Written
  <2> QED BY <1>1, <1>3, <2>1 DEF Chips
<1>4. CASE "RESET" \notin chip.bmcr /\ r = "CTRL1000"
  <2>1. c = [chip EXCEPT !.adv = (@ \cap Base) \cup (IF chip.ercap THEN v ELSE {})]
    BY <1>4 DEF Written
  <2> QED BY <1>1, <1>4, <2>1 DEF Chips
<1>5. CASE "RESET" \notin chip.bmcr /\ r = "BMCR"
  <2>1. c = [LinkLost(chip) EXCEPT !.bmcr = v]
    BY <1>5 DEF Written
  <2> QED BY <1>1, <1>5, <2>1 DEF Chips, LinkLost
<1> QED BY <1>2, <1>3, <1>4, <1>5

(* The driver supports what the chip is able to do once phy_config has read it, and
   a unit is online only while no command is under way. *)
Unread == {"reset", "resetting", "features", "extended", "hung"}
AbleInv ==
    /\ pc = "extended" => dev.supported = chip.able \cap Base
    /\ phydev /\ pc \notin Unread => dev.supported = chip.able
    /\ pc \notin {"idle", "hung"} => state # "ONLINE"

(* The chip's abilities never change. *)
LEMMA AbleFixed == ASSUME HwOK, [Next]_vars PROVE chip'.able = chip.able /\ chip'.ercap = chip.ercap
<1> DEFINE Fixed == chip'.able = chip.able /\ chip'.ercap = chip.ercap
<1> SUFFICES Fixed
  OBVIOUS
<1>1. CASE chip' = chip
  BY <1>1
<1>2. ASSUME NEW r, NEW v, BusRead(r, v) PROVE Fixed
  BY <1>2, BusReadFine DEF SameChip
<1>3. ASSUME NEW r \in {"BMCR", "ADVERTISE", "CTRL1000"}, NEW v, NEW ok, mdio_write(r, v, ok)
      PROVE  Fixed
  <2>1. Written(r, v).able = chip.able /\ Written(r, v).ercap = chip.ercap
    BY WrittenChip
  <2> QED BY <1>3, <2>1 DEF mdio_write
<1>4. CASE Environment
  BY <1>4 DEF Environment, Negotiate, ResetEnds, Replug, LinkLost, HwOK, Chips
<1>5. CASE Command \/ PhyCreate \/ EthStart \/ StartupNull \/ AdjustLink \/ UNCHANGED vars
  BY <1>1, <1>5 DEF Command, ConfigInterface, Online, Offline, Close, PhyCreate, EthStart,
     StartupNull, AdjustLink, NoAccess, vars
<1>6. CASE Reset \/ WriteAdvert \/ WriteGiga \/ RestartWrite
  BY <1>3, <1>6 DEF Reset, WriteAdvert, WriteGiga, RestartWrite
<1>7. CASE \/ GetPhyId \/ Features \/ Extended \/ ReadAdvert \/ ReadEstaten \/ ReadGiga
           \/ CheckAneg \/ RestartAneg \/ ResetPoll
  BY <1>2, <1>7 DEF GetPhyId, Features, Extended, ReadAdvert, ReadEstaten, ReadGiga,
     CheckAneg, RestartAneg, ResetPoll, Access, mdio_read
<1>8. CASE \/ UpdateLink \/ WaitAneg \/ ReadLink \/ ParseLink \/ ReadStat1000
           \/ ReadCtrl1000 \/ ReadAdvertise \/ ReadLpa \/ ReadEstatus
  BY <1>1, <1>2, <1>8 DEF UpdateLink, WaitAneg, ReadLink, ParseLink, ReadStat1000,
     ReadCtrl1000, ReadAdvertise, ReadLpa, ReadEstatus, mdio_read, NoAccess
<1> QED BY <1>4, <1>5, <1>6, <1>7, <1>8 DEF Next, Task

LEMMA SupportedKept ==
  ASSUME AbleInv, chip'.able = chip.able, dev'.supported = dev.supported, phydev' => phydev,
         pc \notin Unread, pc' \notin Unread, pc' # "idle" => state' # "ONLINE"
  PROVE  AbleInv'
  BY DEF AbleInv, Unread

LEMMA ResolvedSupported ==
  ASSUME dev \in PhyDevices, NEW S PROVE Resolved(S).supported = dev.supported
<1> DEFINE s == Resolved(S).speed
           f == Resolved(S).full
<1>1. Resolved(S) = [dev EXCEPT !.speed = s, !.full = f]
  BY DEF Resolved, PhyDevices
<1> HIDE DEF s, f
<1>2. [dev EXCEPT !.speed = s, !.full = f].supported = dev.supported
  BY DEF PhyDevices
<1> QED BY <1>1, <1>2

Fails == ProbeFails \/ StartFails(ringReady) \/ StartFails(TRUE)

LEMMA AbleKept ==
  ASSUME UnitOK, HwOK, DevInv, AbleInv, [Next]_vars PROVE AbleInv'
<1> DEFINE Goal == AbleInv'
<1> SUFFICES Goal
  OBVIOUS
<1>a. chip'.able = chip.able
  BY AbleFixed
<1>1. CASE Fails
  BY <1>1 DEF Fails, ProbeFails, StartFails, EthStop, Reclaim, NoPhy, AbleInv, Unread
<1>2. CASE Environment \/ UNCHANGED vars
  <2>1. UNCHANGED <<unitVars, pc>>
    BY <1>2 DEF Environment, Negotiate, ResetEnds, Replug, vars
  <2> QED BY <1>a, <2>1 DEF unitVars, AbleInv
<1>3. CASE Command /\ ~Fails
  <2>1. \/ pc' = "idle" /\ phydev' = FALSE
        \/ pc' = "hung"
        \/ pc = "idle" /\ UNCHANGED unitVars /\ pc' \in {"create", "start"} /\ state # "ONLINE"
    <3>1. CASE ConfigInterface
      BY <1>3, <3>1 DEF ConfigInterface, Keep, Goto, Fails
    <3>2. CASE Online
      BY <3>2 DEF Online, Keep, Goto
    <3>3. CASE Offline
      BY <3>3 DEF Offline, EthStop, Reclaim, NoPhy
    <3>4. CASE Close
      BY <3>4 DEF Close, NoPhy
    <3> QED BY <1>3, <3>1, <3>2, <3>3, <3>4 DEF Command
  <2> QED BY <1>a, <2>1 DEF unitVars, AbleInv, Unread
<1>4. CASE PhyCreate /\ ~Fails
  <2>1. ~phydev /\ phydev' = phydev /\ pc' = "id1" /\ state' = state /\ pc = "create"
    BY <1>4 DEF Fails, PhyCreate, Goto, DevInv, AtRest
  <2> QED BY <2>1 DEF AbleInv
<1>5. CASE (GetPhyId \/ Reset \/ ResetPoll) /\ ~Fails
  <2>1. /\ state' = state /\ pc \in {"id1", "id2", "reset", "resetting"}
        /\ pc' \in {"id2", "reset", "resetting", "features"}
        /\ pc' = "id2" => phydev' = phydev /\ pc = "id1"
    BY <1>5 DEF Fails, GetPhyId, Reset, ResetPoll, Keep, Goto, unitVars
  <2> QED BY <2>1 DEF AbleInv, DevInv, Unread, Creating
<1>6. CASE Features /\ ~Fails
  <2>1. PICK v \in Values("BMSR") :
           /\ ~Failed(v)
           /\ dev' = [dev EXCEPT !.supported = SupportedBy(v)]
           /\ pc' = IF "ESTATEN" \in v THEN "extended" ELSE "advert"
           /\ UNCHANGED <<state, phydev>>
    BY <1>6 DEF Fails, Features, Access, Goto
  <2>2. v = Register("BMSR")
    BY <2>1, RegisterBits
  <2>3. dev \in PhyDevices /\ pc = "features"
    BY <1>6, HasDevice DEF Features, Access, AtRest, Creating
  <2>4. dev'.supported = chip.able \cap Base
    BY <2>1, <2>2, <2>3, Registers DEF SupportedBy, PhyDevices
  <2>5. pc' = "advert" => chip.able \cap Base = chip.able
    <3>1. chip.able \subseteq Modes
      BY DEF HwOK, Chips
    <3> QED BY <2>1, <2>2, <3>1, Registers DEF Modes
  <2> QED BY <1>a, <2>1, <2>3, <2>4, <2>5 DEF AbleInv, Unread
<1>7. CASE Extended /\ ~Fails
  <2>1. PICK v \in Values("ESTATUS") :
           /\ ~Failed(v) /\ dev' = [dev EXCEPT !.supported = @ \cup v]
           /\ pc' = "advert" /\ UNCHANGED <<state, phydev>> /\ pc = "extended"
    BY <1>7 DEF Fails, Extended, Access, Goto
  <2>2. v = chip.able \cap Giga
    BY <2>1, RegisterBits, Registers
  <2>3. dev \in PhyDevices
    BY <2>1, HasDevice DEF AtRest, Creating
  <2>4. dev'.supported = (chip.able \cap Base) \cup (chip.able \cap Giga)
    BY <2>1, <2>2, <2>3 DEF AbleInv, PhyDevices
  <2>5. (chip.able \cap Base) \cup (chip.able \cap Giga) = chip.able
    BY DEF HwOK, Chips, Modes
  <2> QED BY <1>a, <2>1, <2>4, <2>5 DEF AbleInv, Unread
<1>8. CASE (\/ ReadAdvert \/ WriteAdvert \/ ReadEstaten \/ ReadGiga \/ WriteGiga
            \/ CheckAneg \/ RestartAneg \/ RestartWrite) /\ ~Fails
  <2>1. /\ UNCHANGED <<dev, phydev>> /\ state' \in {state, "CONFIGURED"}
        /\ pc \in {"advert", "setAdvert", "estaten", "giga", "setGiga", "aneg", "restart", "setAneg"}
        /\ pc' \in {"estaten", "setAdvert", "giga", "restart", "aneg", "setGiga", "setAneg", "start"}
    <3>1. CASE ReadAdvert \/ WriteAdvert \/ ReadEstaten \/ ReadGiga
      BY <1>8, <3>1 DEF Fails, ReadAdvert, WriteAdvert, ReadEstaten, ReadGiga, Access, AskRestart, Keep,
         Goto, unitVars
    <3>2. CASE WriteGiga \/ CheckAneg \/ RestartAneg \/ RestartWrite
      BY <1>8, <3>2 DEF Fails, WriteGiga, CheckAneg, RestartAneg, RestartWrite, Access, AskRestart, Keep,
         Goto, unitVars, Configured
    <3> QED BY <1>8, <3>1, <3>2
  <2>2. state # "ONLINE" /\ pc \notin Unread /\ pc' \notin Unread
    BY <2>1 DEF AbleInv, Unread
  <2> QED BY <1>a, <2>1, <2>2, SupportedKept
<1>9. CASE (EthStart \/ StartupNull \/ UpdateLink \/ AdjustLink) /\ ~Fails
  <2>1. /\ UNCHANGED <<dev, phydev>> /\ pc \in {"start", "startup", "adjust"}
        /\ \/ pc' = "idle"
           \/ pc' \in {"startup", "link", "wait"} /\ state' = state
    BY <1>9 DEF Fails, EthStart, StartupNull, UpdateLink, AdjustLink, Keep, Goto, unitVars
  <2>2. state # "ONLINE" /\ pc \notin Unread /\ pc' \notin Unread
    BY <2>1 DEF AbleInv, Unread
  <2> QED BY <1>a, <2>1, <2>2, SupportedKept
<1>10. CASE (\/ WaitAneg \/ ReadLink \/ ParseLink \/ ReadStat1000 \/ ReadCtrl1000
             \/ ReadAdvertise \/ ReadLpa \/ ReadEstatus) /\ ~Fails
  <2>1. /\ UNCHANGED <<state, phydev>>
        /\ pc \in {"wait", "link", "parse", "stat1000", "ctrl1000", "advertise", "lpa", "estatus"}
        /\ pc' \in {"wait", "parse", "stat1000", "ctrl1000", "advertise", "lpa", "estatus", "adjust"}
    BY <1>10 DEF Fails, WaitAneg, ReadLink, ParseLink, ReadStat1000, ReadCtrl1000, ReadAdvertise,
       ReadLpa, ReadEstatus, Goto, unitVars
  <2>2. dev \in PhyDevices
    BY <2>1, HasDevice DEF AtRest, Creating
  <2>3. dev'.supported = dev.supported
    <3>1. \/ dev' = dev \/ (\E b : dev' = [dev EXCEPT !.link = b]) \/ (\E S : dev' = Resolved(S))
          \/ dev' = [dev EXCEPT !.speed = 1000, !.full = TRUE] \/ dev' = [dev EXCEPT !.speed = 1000]
      <4>1. CASE WaitAneg
        <5>1. dev' = [dev EXCEPT !.link = TRUE] \/ dev' = dev
          BY <1>10, <4>1 DEF Fails, WaitAneg
        <5> QED BY <5>1
      <4>6. CASE ReadLink \/ ParseLink \/ ReadStat1000
        BY <4>6 DEF ReadLink, ParseLink, ReadStat1000, unitVars
      <4>2. CASE ReadCtrl1000
        <5>1. PICK v : dev' = dev \/ dev' = Resolved(loc.reg \cap v)
          BY <4>2 DEF ReadCtrl1000
        <5> QED BY <5>1
      <4>3. CASE ReadLpa
        <5>1. PICK v : dev' = Resolved(loc.reg \cap v)
          BY <4>3 DEF ReadLpa
        <5> QED BY <5>1
      <4>4. CASE ReadAdvertise
        BY <4>4 DEF ReadAdvertise, unitVars
      <4>5. CASE ReadEstatus
        BY <4>5 DEF ReadEstatus
      <4> QED BY <1>10, <4>1, <4>2, <4>3, <4>4, <4>5, <4>6
    <3>2. \A b : [dev EXCEPT !.link = b].supported = dev.supported
      BY <2>2 DEF PhyDevices
    <3>3. /\ [dev EXCEPT !.speed = 1000, !.full = TRUE].supported = dev.supported
          /\ [dev EXCEPT !.speed = 1000].supported = dev.supported
      BY <2>2 DEF PhyDevices
    <3>4. ASSUME NEW b, dev' = [dev EXCEPT !.link = b] PROVE dev'.supported = dev.supported
      BY <3>2, <3>4
    <3>5. ASSUME NEW S, dev' = Resolved(S) PROVE dev'.supported = dev.supported
      BY <2>2, <3>5, ResolvedSupported
    <3>6. CASE dev' = dev
      BY <3>6
    <3>7. CASE \/ dev' = [dev EXCEPT !.speed = 1000, !.full = TRUE]
               \/ dev' = [dev EXCEPT !.speed = 1000]
      BY <3>3, <3>7
    <3>8. CASE \E b : dev' = [dev EXCEPT !.link = b]
      BY <3>4, <3>8
    <3>9. CASE \E S : dev' = Resolved(S)
      BY <3>5, <3>9
    <3> QED BY <3>1, <3>6, <3>7, <3>8, <3>9
  <2>4. state # "ONLINE" /\ pc \notin Unread /\ pc' \notin Unread
    BY <2>1 DEF AbleInv, Unread
  <2> QED BY <1>a, <2>1, <2>3, <2>4, SupportedKept
<1> QED
  BY <1>1, <1>2, <1>3, <1>4, <1>5, <1>6, <1>7, <1>8, <1>9, <1>10 DEF Next, Task

(***************************************************************************)
(* The chip advertises no more than it can, and while a negotiation is     *)
(* complete it holds what the partner advertises.                          *)
(***************************************************************************)
ChipSound ==
    /\ chip.adv \subseteq chip.able /\ (chip.adv \cap Giga # {} => chip.ercap)
    /\ chip.complete => chip.lpa = peer

LEMMA ChipSoundKept ==
  ASSUME UnitOK, HwOK, DevInv, AbleInv, ChipSound, [Next]_vars PROVE ChipSound'
<1> DEFINE Goal == ChipSound'
<1> SUFFICES Goal
  OBVIOUS
<1>a. chip \in Chips /\ chip'.able = chip.able /\ chip'.ercap = chip.ercap
  BY AbleFixed DEF HwOK
<1>1. CASE SameChip
  BY <1>1 DEF SameChip, ChipSound
<1>2. CASE Environment
  <2>1. CASE Negotiate
    BY <1>a, <2>1 DEF Negotiate, ChipSound, Chips
  <2>2. CASE ResetEnds
    <3>1. ~chip'.complete /\ chip'.adv = IF chip.ercap THEN chip.able ELSE chip.able \cap Base
      BY <1>a, <2>2 DEF ResetEnds, LinkLost, Chips
    <3> QED BY <1>a, <3>1 DEF ChipSound, Base, Giga
  <2>3. CASE Replug
    <3>1. ~chip'.complete /\ chip'.adv = chip.adv
      BY <1>a, <2>3 DEF Replug, LinkLost, Chips
    <3> QED BY <1>a, <3>1 DEF ChipSound
  <2> QED BY <1>2, <2>1, <2>2, <2>3 DEF Environment
<1>3. ASSUME NEW r \in {"BMCR", "ADVERTISE", "CTRL1000"}, NEW v, NEW ok \in BOOLEAN,
             mdio_write(r, v, ok),
             r # "BMCR" => v = Advertising(IF r = "ADVERTISE" THEN Base ELSE Giga)
                           /\ dev.supported = chip.able
      PROVE  ChipSound'
  <2>1. chip' \in {chip, Written(r, v)} /\ peer' = peer
    BY <1>3, WriteFine
  <2>2. CASE chip' = chip
    BY <2>1, <2>2 DEF ChipSound
  <2>3. CASE chip' = Written(r, v) /\ "RESET" \notin chip.bmcr
    <3>1. CASE r = "BMCR"
      BY <1>a, <2>3, <3>1, WrittenChip DEF ChipSound
    <3>2. CASE r = "ADVERTISE"
      <4>1. /\ chip'.adv = (chip.adv \cap Giga) \cup v /\ v \subseteq chip.able \cap Base
            /\ chip'.lpa = chip.lpa /\ chip'.complete = chip.complete
        BY <1>3, <2>3, <3>2, WrittenChip DEF Advertising
      <4> QED BY <1>a, <2>1, <4>1 DEF ChipSound, Base, Giga
    <3>3. CASE r = "CTRL1000"
      <4>1. /\ chip'.adv = (chip.adv \cap Base) \cup (IF chip.ercap THEN v ELSE {})
            /\ v \subseteq chip.able \cap Giga
            /\ chip'.lpa = chip.lpa /\ chip'.complete = chip.complete
        BY <1>3, <2>3, <3>3, WrittenChip DEF Advertising
      <4> QED BY <1>a, <2>1, <4>1 DEF ChipSound, Base, Giga
    <3> QED BY <3>1, <3>2, <3>3
  <2> QED BY <2>1, <2>2, <2>3, WrittenChip
<1>4. ASSUME NEW r, NEW v, BusRead(r, v) PROVE ChipSound'
  BY <1>1, <1>4, BusReadFine
<1>5. CASE Command \/ PhyCreate \/ EthStart \/ StartupNull \/ AdjustLink \/ UNCHANGED vars
  BY <1>1, <1>5 DEF Command, ConfigInterface, Online, Offline, Close, PhyCreate, EthStart,
     StartupNull, AdjustLink, NoAccess, vars, SameChip
<1>6. CASE Reset \/ RestartWrite
  BY <1>3, <1>6 DEF Reset, RestartWrite
<1>7. CASE WriteAdvert \/ WriteGiga
  <2>1. pc \in {"setAdvert", "setGiga"}
    BY <1>7 DEF WriteAdvert, WriteGiga
  <2>2. dev.supported = chip.able
    BY <2>1 DEF AbleInv, DevInv, AtRest, Creating, Unread
  <2> QED BY <1>3, <1>7, <2>2 DEF WriteAdvert, WriteGiga
<1>8. CASE \/ GetPhyId \/ Features \/ Extended \/ ReadAdvert \/ ReadEstaten \/ ReadGiga
           \/ CheckAneg \/ RestartAneg \/ ResetPoll
  BY <1>4, <1>8 DEF GetPhyId, Features, Extended, ReadAdvert, ReadEstaten, ReadGiga,
     CheckAneg, RestartAneg, ResetPoll, Access, mdio_read
<1>9. CASE \/ UpdateLink \/ WaitAneg \/ ReadLink \/ ParseLink \/ ReadStat1000
           \/ ReadCtrl1000 \/ ReadAdvertise \/ ReadLpa \/ ReadEstatus
  BY <1>1, <1>4, <1>9 DEF UpdateLink, WaitAneg, ReadLink, ParseLink, ReadStat1000,
     ReadCtrl1000, ReadAdvertise, ReadLpa, ReadEstatus, mdio_read, NoAccess, SameChip
<1> QED BY <1>2, <1>5, <1>6, <1>7, <1>8, <1>9 DEF Next, Task

(***************************************************************************)
(* A completed negotiation used what the chip advertises now, except while *)
(* phy_config changes it: then it remembers to restart the negotiation.    *)
(* With a failed access nothing of this holds, until a reset has ended.    *)
(***************************************************************************)
Fresh == chip.complete => chip.used = chip.adv
Changing == {"estaten", "giga", "setGiga"}
Special == {"resetting", "restart", "setAneg"} \cup Changing
FreshInv ==
    /\ ~err /\ "RESET" \in chip.bmcr => pc = "resetting"
    /\ ~err /\ pc = "setAneg" => "RESET" \notin loc.reg
    /\ pc = "resetting" /\ "RESET" \notin chip.bmcr => Fresh
    /\ ~err /\ pc \notin {"resetting", "restart", "setAneg"} =>
           Fresh \/ (pc \in Changing /\ loc.changed)
    /\ ~err /\ pc = "setGiga" /\ ~loc.changed => chip.adv \cap Giga = Advertising(Giga)

LEMMA FailedFresh == ASSUME err', pc' # "resetting" PROVE FreshInv'
  BY DEF FreshInv

(* A step that leaves the chip alone, outside of phy_reset and phy_config. *)
LEMMA QuietFresh ==
  ASSUME FreshInv, SameChip, ~err' => ~err, pc \notin Special, pc' \notin Special PROVE FreshInv'
  BY DEF FreshInv, Fresh, SameChip, Special, Changing

LEMMA EnvironmentFresh == ASSUME HwOK, FreshInv, Environment PROVE FreshInv'
<1>a. chip \in Chips /\ UNCHANGED <<unitVars, pc, loc, err>>
  BY DEF HwOK, Environment, Negotiate, ResetEnds, Replug
<1>b. Advertising(Giga)' = Advertising(Giga)
  BY <1>a DEF Advertising, unitVars
<1>1. CASE Negotiate
  <2>1. /\ chip'.bmcr = chip.bmcr /\ chip'.adv = chip.adv /\ chip'.used = chip.adv
    BY <1>a, <1>1 DEF Negotiate, Chips
  <2> QED BY <1>a, <1>b, <2>1 DEF FreshInv, Fresh
<1>2. CASE Replug
  <2>1. /\ chip'.bmcr = chip.bmcr /\ chip'.adv = chip.adv /\ ~chip'.complete
    BY <1>a, <1>2 DEF Replug, LinkLost, Chips
  <2> QED BY <1>a, <1>b, <2>1 DEF FreshInv, Fresh
<1>3. CASE ResetEnds
  <2>1. /\ chip'.bmcr = {"ANENABLE"} /\ ~chip'.complete /\ "RESET" \in chip.bmcr
    BY <1>a, <1>3 DEF ResetEnds, LinkLost, Chips
  <2> QED BY <1>a, <2>1 DEF FreshInv, Fresh
<1> QED BY <1>1, <1>2, <1>3 DEF Environment

(* phy_create and phy_reset. *)
LEMMA ResetFresh ==
  ASSUME HwOK, FreshInv, GetPhyId \/ Reset \/ ResetPoll PROVE FreshInv'
<1>1. CASE GetPhyId
  <2>1. PICK v \in Values("PHYSID") : mdio_read("PHYSID", v)
    BY <1>1 DEF GetPhyId
  <2>2. pc \in {"id1", "id2"} /\ pc' \in {"idle", "hung", "id2", "features", "reset"}
    BY <1>1 DEF GetPhyId, ProbeFails, Reclaim, Keep, Goto
  <2> QED BY <2>1, <2>2, ReadFine, QuietFresh DEF Special, Changing
<1>2. CASE Reset
  <2>1. PICK ok \in BOOLEAN : /\ mdio_write("BMCR", {"RESET"}, ok)
                              /\ pc' = IF ok THEN "resetting" ELSE "features"
    BY <1>2 DEF Reset, Keep, Goto
  <2>2. CASE ok
    <3>1. chip' = Written("BMCR", {"RESET"}) /\ pc' = "resetting"
      BY <2>1, <2>2, WriteFine
    <3>2. "RESET" \in chip'.bmcr
      BY <3>1, WrittenChip
    <3> QED BY <3>1, <3>2 DEF FreshInv
  <2>3. CASE ~ok
    <3>1. err' /\ pc' = "features"
      BY <2>1, <2>3, WriteFine
    <3> QED BY <3>1, FailedFresh
  <2> QED BY <2>2, <2>3
<1>3. CASE ResetPoll
  <2>1. PICK v \in Values("BMCR"), again \in BOOLEAN :
           /\ BusRead("BMCR", v) /\ pc = "resetting"
           /\ again => "RESET" \in v
           /\ pc' = IF again THEN "resetting" ELSE "features"
           /\ err' = ("RESET" \in v /\ (err \/ Failed(v) \/ ~again))
    BY <1>3 DEF ResetPoll, Goto
  <2>2. SameChip
    BY <2>1, BusReadFine
  <2>3. CASE again
    BY <2>1, <2>2, <2>3 DEF FreshInv, Fresh, SameChip
  <2>4. CASE ~again /\ "RESET" \notin v
    <3>1. v = chip.bmcr
      <4>1. v \in {Register("BMCR"), AllOnes} /\ "RESET" \in AllOnes
        BY DEF Values, AllOnes
      <4> QED BY <2>4, <4>1, Registers
    <3> QED BY <2>1, <2>2, <2>4, <3>1 DEF FreshInv, Fresh, SameChip
  <2>5. CASE ~again /\ "RESET" \in v
    <3>1. err'
      BY <2>1, <2>5, Zenon
    <3>2. pc' # "resetting"
      BY <2>1, <2>5
    <3> QED BY <3>1, <3>2, FailedFresh
  <2> QED BY <2>3, <2>4, <2>5
<1> QED BY <1>1, <1>2, <1>3

(* phy_config. *)
LEMMA ConfigFresh ==
  ASSUME UnitOK, HwOK, DevInv, AbleInv, ChipSound, FreshInv,
         \/ Features \/ Extended \/ ReadAdvert \/ WriteAdvert \/ ReadEstaten \/ ReadGiga
         \/ WriteGiga \/ CheckAneg \/ RestartAneg \/ RestartWrite
  PROVE  FreshInv'
<1> DEFINE Goal == FreshInv'
<1> SUFFICES Goal
  OBVIOUS
<1>a. ASSUME NEW r, NEW v \in Values(r), mdio_read(r, v)
      PROVE  SameChip /\ (Failed(v) => err') /\ (~err' => ~err /\ v = Register(r))
  BY <1>a, ReadFine
<1>1. CASE Features \/ Extended
  <2>1. PICK r \in {"BMSR", "ESTATUS"} : \E v \in Values(r) : mdio_read(r, v)
    BY <1>1 DEF Features, Extended, Access
  <2>2. pc \in {"features", "extended"} /\ pc' \in {"extended", "advert", "idle", "hung"}
    BY <1>1 DEF Features, Extended, Access, ProbeFails, Reclaim, Goto
  <2> QED BY <1>a, <2>1, <2>2, QuietFresh DEF Special, Changing
<1>2. CASE ReadAdvert
  <2>1. PICK v \in Values("ADVERTISE") : mdio_read("ADVERTISE", v)
    BY <1>2 DEF ReadAdvert, Access
  <2>2. pc = "advert" /\ pc' \in {"estaten", "setAdvert", "idle", "hung"}
    BY <1>2 DEF ReadAdvert, Access, ProbeFails, Reclaim, Goto
  <2> QED BY <1>a, <2>1, <2>2 DEF FreshInv, Fresh, SameChip, Changing
<1>3. CASE WriteAdvert
  <2>1. PICK ok \in BOOLEAN :
           /\ mdio_write("ADVERTISE", Advertising(Base), ok)
           /\ \/ ~ok /\ pc' \in {"idle", "hung"}
              \/ ok /\ pc' = "estaten" /\ loc' = [loc EXCEPT !.changed = TRUE]
    BY <1>3 DEF WriteAdvert, ProbeFails, Reclaim, Goto
  <2>2. CASE err'
    BY <2>1, <2>2, FailedFresh
  <2>3. CASE ~err'
    <3>1. ok /\ chip' = Written("ADVERTISE", Advertising(Base)) /\ ~err
      BY <2>1, <2>3, WriteFine
    <3>2. "RESET" \notin chip.bmcr /\ loc'.changed
      BY <1>3, <2>1, <3>1 DEF FreshInv, WriteAdvert, UnitOK, Locals
    <3>3. chip'.bmcr = chip.bmcr
      BY <3>1, <3>2, WrittenChip
    <3> QED BY <2>1, <3>1, <3>2, <3>3 DEF FreshInv, Changing
  <2> QED BY <2>2, <2>3
<1>4. CASE ReadEstaten
  <2>1. PICK v \in Values("BMSR") :
           /\ mdio_read("BMSR", v)
           /\ \/ Failed(v) /\ pc' \in {"idle", "hung"}
              \/ loc' = loc /\ pc' \in {"giga", AskRestart(loc.changed)}
    BY <1>4 DEF ReadEstaten, Access, ProbeFails, Reclaim, Keep, Goto
  <2>2. CASE err'
    BY <2>1, <2>2, FailedFresh DEF AskRestart
  <2>3. CASE ~err'
    BY <1>a, <1>4, <2>1, <2>3 DEF ReadEstaten, Access, AskRestart, FreshInv, Fresh, SameChip, Changing
  <2> QED BY <2>2, <2>3
<1>5. CASE ReadGiga
  <2>1. PICK v \in Values("CTRL1000") :
           /\ mdio_read("CTRL1000", v)
           /\ \/ Failed(v) /\ pc' \in {"idle", "hung"}
              \/ /\ pc' = "setGiga" /\ UNCHANGED dev
                 /\ loc' = [loc EXCEPT !.changed = @ \/ v # Advertising(Giga)]
    BY <1>5 DEF ReadGiga, Access, ProbeFails, Reclaim, Goto, unitVars
  <2>2. CASE err'
    BY <2>1, <2>2, FailedFresh
  <2>3. CASE ~err'
    <3>1. /\ SameChip /\ v = chip.adv \cap Giga /\ ~err /\ pc' = "setGiga" /\ UNCHANGED dev
          /\ loc' = [loc EXCEPT !.changed = @ \/ v # Advertising(Giga)]
      BY <1>a, <2>1, <2>3, Registers
    <3>2. ~loc'.changed => ~loc.changed /\ v = Advertising(Giga)
      <4>1. loc'.changed = (loc.changed \/ v # Advertising(Giga))
        BY <3>1 DEF UnitOK, Locals
      <4> QED BY <4>1, Zenon
    <3>3. Fresh \/ loc.changed
      BY <1>5, <3>1 DEF FreshInv, ReadGiga, Access
    <3>4. Advertising(Giga)' = Advertising(Giga)
      BY <3>1 DEF Advertising
    <3>5. "RESET" \notin chip.bmcr
      BY <1>5, <3>1 DEF FreshInv, ReadGiga, Access
    <3> QED BY <3>1, <3>2, <3>3, <3>4, <3>5 DEF FreshInv, Fresh, SameChip, Changing
  <2> QED BY <2>2, <2>3
<1>6. CASE WriteGiga
  <2>1. PICK ok \in BOOLEAN :
           /\ mdio_write("CTRL1000", Advertising(Giga), ok)
           /\ \/ ~ok /\ pc' \in {"idle", "hung"}
              \/ ok /\ loc' = loc /\ pc' = AskRestart(loc.changed)
    BY <1>6 DEF WriteGiga, ProbeFails, Reclaim, Keep, Goto
  <2>2. CASE err'
    BY <2>1, <2>2, FailedFresh DEF AskRestart
  <2>3. CASE ~err'
    <3>1. ok /\ chip' = Written("CTRL1000", Advertising(Giga)) /\ ~err
      BY <2>1, <2>3, WriteFine
    <3>2. "RESET" \notin chip.bmcr
      BY <1>6, <3>1 DEF FreshInv, WriteGiga
    <3>3. /\ chip'.bmcr = chip.bmcr /\ chip'.complete = chip.complete /\ chip'.used = chip.used
          /\ chip'.adv = (chip.adv \cap Base) \cup (IF chip.ercap THEN Advertising(Giga) ELSE {})
      BY <3>1, <3>2, WrittenChip
    <3>4. ~loc.changed => chip'.adv = chip.adv
      <4>1. chip.adv \subseteq Base \cup Giga
        BY DEF HwOK, Chips, Modes
      <4>2. ~loc.changed => chip.adv \cap Giga = Advertising(Giga)
        BY <1>6, <3>1 DEF FreshInv, WriteGiga
      <4> QED BY <3>3, <4>1, <4>2 DEF ChipSound
    <3>5. ~loc.changed => Fresh
      BY <1>6, <3>1 DEF FreshInv, WriteGiga
    <3> QED BY <2>1, <3>1, <3>2, <3>3, <3>4, <3>5 DEF FreshInv, Fresh, AskRestart, Changing
  <2> QED BY <2>2, <2>3
<1>7. CASE CheckAneg
  <2>1. PICK v \in Values("BMCR") : mdio_read("BMCR", v)
    BY <1>7 DEF CheckAneg, Access
  <2>2. pc = "aneg" /\ pc' \in {"restart", "start", "idle", "hung"}
    BY <1>7 DEF CheckAneg, Access, Configured, ProbeFails, Reclaim, Keep, Goto
  <2> QED BY <1>a, <2>1, <2>2 DEF FreshInv, Fresh, SameChip, Changing
<1>8. CASE RestartAneg
  <2>1. PICK v \in Values("BMCR") :
           /\ mdio_read("BMCR", v)
           /\ \/ Failed(v) /\ pc' \in {"idle", "hung"}
              \/ pc' = "setAneg" /\ loc' = [loc EXCEPT !.reg = (v \cup {"ANENABLE"}) \ {"ISOLATE"}]
    BY <1>8 DEF RestartAneg, Access, ProbeFails, Reclaim, Goto
  <2>2. CASE err'
    BY <2>1, <2>2, FailedFresh
  <2>3. CASE ~err'
    <3>1. /\ SameChip /\ v = chip.bmcr /\ ~err /\ pc' = "setAneg"
          /\ loc' = [loc EXCEPT !.reg = (v \cup {"ANENABLE"}) \ {"ISOLATE"}]
      BY <1>a, <2>1, <2>3, Registers
    <3>2. "RESET" \notin chip.bmcr
      BY <1>8, <3>1 DEF FreshInv, RestartAneg, Access
    <3>3. "RESET" \notin loc'.reg
      BY <3>1, <3>2 DEF UnitOK, Locals
    <3> QED BY <3>1, <3>2, <3>3 DEF FreshInv, SameChip
  <2> QED BY <2>2, <2>3
<1>9. CASE RestartWrite
  <2>1. PICK ok \in BOOLEAN :
           /\ mdio_write("BMCR", loc.reg, ok)
           /\ IF ok THEN pc' = "start" ELSE pc' \in {"idle", "hung"}
    BY <1>9 DEF RestartWrite, Configured, ProbeFails, Reclaim, Goto
  <2>2. CASE err'
    BY <2>1, <2>2, FailedFresh
  <2>3. CASE ~err'
    <3>1. ok /\ chip' = Written("BMCR", loc.reg) /\ ~err
      BY <2>1, <2>3, WriteFine
    <3>2. "RESET" \notin chip.bmcr /\ "RESET" \notin loc.reg
      BY <1>9, <3>1 DEF FreshInv, RestartWrite
    <3>3. chip'.bmcr = loc.reg /\ ~chip'.complete
      BY <3>1, <3>2, WrittenChip
    <3> QED BY <2>1, <3>1, <3>2, <3>3 DEF FreshInv, Fresh
  <2> QED BY <2>2, <2>3
<1> QED BY <1>1, <1>2, <1>3, <1>4, <1>5, <1>6, <1>7, <1>8, <1>9

LEMMA FreshKept ==
  ASSUME UnitOK, HwOK, DevInv, AbleInv, ChipSound, FreshInv, [Next]_vars PROVE FreshInv'
<1> DEFINE Goal == FreshInv'
           AccessFine == SameChip /\ (~err' => ~err)
<1> SUFFICES Goal
  OBVIOUS
<1>1. CASE UNCHANGED vars
  BY <1>1 DEF vars, unitVars, FreshInv, Fresh, Advertising
<1>2. CASE Command \/ PhyCreate \/ EthStart \/ StartupNull \/ AdjustLink
  <2>1. NoAccess /\ pc \notin Special /\ pc' \notin Special
    BY <1>2 DEF Command, ConfigInterface, Online, Offline, Close, PhyCreate, EthStart,
       StartupNull, AdjustLink, EthStop, ProbeFails, StartFails, Reclaim, Keep, Goto, Special, Changing
  <2>2. AccessFine
    BY <2>1 DEF NoAccess, SameChip
  <2> QED BY <2>1, <2>2, QuietFresh
<1>3. CASE \/ UpdateLink \/ WaitAneg \/ ReadLink \/ ParseLink \/ ReadStat1000
           \/ ReadCtrl1000 \/ ReadAdvertise \/ ReadLpa \/ ReadEstatus
  <2>1. NoAccess \/ \E r : \E v \in Values(r) : mdio_read(r, v)
    BY <1>3 DEF UpdateLink, WaitAneg, ReadLink, ParseLink, ReadStat1000,
       ReadCtrl1000, ReadAdvertise, ReadLpa, ReadEstatus
  <2>2. AccessFine
    BY <2>1, ReadFine DEF NoAccess, SameChip
  <2>3. pc \notin Special
    BY <1>3 DEF UpdateLink, WaitAneg, ReadLink, ParseLink, ReadStat1000,
       ReadCtrl1000, ReadAdvertise, ReadLpa, ReadEstatus, Special, Changing
  <2>4. pc' \notin Special
    BY <1>3 DEF UpdateLink, WaitAneg, ReadLink, ParseLink, ReadStat1000, StartFails, EthStop, Reclaim,
       ReadCtrl1000, ReadAdvertise, ReadLpa, ReadEstatus, Keep, Goto, Special, Changing
  <2> QED BY <2>2, <2>3, <2>4, QuietFresh
<1> QED BY <1>1, <1>2, <1>3, EnvironmentFresh, ResetFresh, ConfigFresh DEF Next, Task

(***************************************************************************)
(* The mode the two PHYs choose and the one genphy_parse_link finds.       *)
(***************************************************************************)
LEMMA BestIs ==
  ASSUME NEW C \in SUBSET Modes, NEW m \in C, \A n \in C : Rank(n) <= Rank(m)
  PROVE  Best(C) = m
<1>1. \A a, b \in Modes : Rank(a) <= Rank(b) /\ Rank(b) <= Rank(a) => a = b
  BY DEF Rank, SpeedOf, Modes, Base, Giga, Full
<1> DEFINE IsBest(b) == \A n \in C : Rank(n) <= Rank(b)
<1>2. \E b \in C : IsBest(b)
  OBVIOUS
<1>3. Best(C) = CHOOSE b \in C : IsBest(b)
  BY DEF Best
<1>4. Best(C) \in C /\ IsBest(Best(C))
  <2> HIDE DEF IsBest
  <2> QED BY <1>2, <1>3
<1> QED BY <1>1, <1>4

LEMMA ResolvedFields ==
  ASSUME dev \in PhyDevices, NEW S, NEW s, NEW f \in BOOLEAN,
         Resolved(S) = [dev EXCEPT !.speed = s, !.full = f]
  PROVE  Resolved(S).speed = s /\ Resolved(S).full = f
  BY DEF PhyDevices

(* genphy_parse_link looks at the 1000BASE-T modes first and at the others when
   there is none: what it resolves is the best mode of both. *)
LEMMA ResolvedBest ==
  ASSUME dev \in PhyDevices, NEW C \in SUBSET Modes, C # {}, NEW S,
         S = IF C \cap Giga # {} THEN C \cap Giga ELSE C \cap Base
  PROVE  /\ Resolved(S).speed = SpeedOf(Best(C))
         /\ Resolved(S).full = (Best(C) \in Full)
<1> DEFINE fast == {m \in S : SpeedOf(m) = 1000}
           mid == {m \in S : SpeedOf(m) = 100}
           use == IF fast # {} THEN fast ELSE IF mid # {} THEN mid ELSE S \cap {"10F"}
           s == IF fast # {} THEN 1000 ELSE IF mid # {} THEN 100 ELSE 10
           f == use \cap Full # {}
<1>1. Resolved(S).speed = s /\ Resolved(S).full = f
  <2>1. Resolved(S) = [dev EXCEPT !.speed = s, !.full = f]
    BY DEF Resolved
  <2>3. f = TRUE \/ f = FALSE
    BY Zenon
  <2> HIDE DEF s, f
  <2>2. ASSUME NEW g \in BOOLEAN, f = g PROVE Resolved(S).speed = s /\ Resolved(S).full = g
    <3>1. Resolved(S) = [dev EXCEPT !.speed = s, !.full = g]
      BY <2>1, <2>2, Zenon
    <3> QED BY <3>1, ResolvedFields
  <2> QED BY <2>2, <2>3
<1>2. C \subseteq {"10H", "10F", "100H", "100F", "1000H", "1000F"} /\ S \subseteq C
  BY DEF Modes, Base, Giga
<1>3. /\ "1000F" \in S <=> "1000F" \in C
      /\ "1000H" \in S <=> "1000H" \in C
      /\ C \cap {"1000F", "1000H"} = {} => S = C
  BY <1>2 DEF Giga, Base
<1>4. /\ SpeedOf("1000F") = 1000 /\ SpeedOf("1000H") = 1000 /\ SpeedOf("100F") = 100
      /\ SpeedOf("100H") = 100 /\ SpeedOf("10F") = 10 /\ SpeedOf("10H") = 10
  BY DEF SpeedOf, Giga
<1>5. /\ Rank("1000F") = 2001 /\ Rank("1000H") = 2000 /\ Rank("100F") = 201
      /\ Rank("100H") = 200 /\ Rank("10F") = 21 /\ Rank("10H") = 20
  BY <1>4 DEF Rank, Full
<1>6. fast = S \cap {"1000F", "1000H"} /\ mid = S \cap {"100F", "100H"}
  <2>1. ASSUME NEW m \in S
        PROVE  /\ SpeedOf(m) = 1000 <=> m \in {"1000F", "1000H"}
               /\ SpeedOf(m) = 100 <=> m \in {"100F", "100H"}
    BY <1>2 DEF SpeedOf, Giga
  <2> QED BY <2>1
<1> HIDE DEF fast, mid
<1>7. CASE "1000F" \in C
  <2>1. Best(C) = "1000F"
    BY <1>2, <1>5, <1>7, BestIs
  <2>2. s = 1000 /\ f
    BY <1>3, <1>6, <1>7 DEF Full
  <2> QED BY <1>1, <1>4, <2>1, <2>2 DEF Full
<1>8. CASE "1000F" \notin C /\ "1000H" \in C
  <2>1. Best(C) = "1000H"
    BY <1>2, <1>5, <1>8, BestIs
  <2>2. s = 1000 /\ ~f
    BY <1>3, <1>6, <1>8 DEF Full
  <2> QED BY <1>1, <1>4, <2>1, <2>2 DEF Full
<1> DEFINE Slow == C \cap {"1000F", "1000H"} = {}
<1>9. CASE Slow /\ "100F" \in C
  <2>1. Best(C) = "100F"
    BY <1>2, <1>5, <1>9, BestIs
  <2>2. s = 100 /\ f
    BY <1>3, <1>6, <1>9 DEF Full
  <2> QED BY <1>1, <1>4, <2>1, <2>2 DEF Full
<1>10. CASE Slow /\ "100F" \notin C /\ "100H" \in C
  <2>1. Best(C) = "100H"
    BY <1>2, <1>5, <1>10, BestIs
  <2>2. s = 100 /\ ~f
    BY <1>3, <1>6, <1>10 DEF Full
  <2> QED BY <1>1, <1>4, <2>1, <2>2 DEF Full
<1>11. CASE Slow /\ "100F" \notin C /\ "100H" \notin C /\ "10F" \in C
  <2>1. Best(C) = "10F"
    BY <1>2, <1>5, <1>11, BestIs
  <2>2. s = 10 /\ f
    BY <1>3, <1>6, <1>11 DEF Full
  <2> QED BY <1>1, <1>4, <2>1, <2>2 DEF Full
<1>12. CASE Slow /\ "100F" \notin C /\ "100H" \notin C /\ "10F" \notin C
  <2>1. C = {"10H"}
    BY <1>2, <1>12
  <2>2. Best(C) = "10H"
    BY <1>2, <1>5, <2>1, BestIs
  <2>3. s = 10 /\ ~f
    BY <1>3, <1>6, <1>12 DEF Full
  <2> QED BY <1>1, <1>4, <2>2, <2>3 DEF Full
<1> QED BY <1>7, <1>8, <1>9, <1>10, <1>11, <1>12

(***************************************************************************)
(* The registers read one after the other, while no access fails and the   *)
(* link stays: each belongs to the one completed negotiation.              *)
(***************************************************************************)
Good == ~err /\ ~moved
Both == chip.adv \cap peer
Reading == {"link", "parse", "stat1000", "ctrl1000", "advertise", "lpa", "estatus", "adjust"}
Agrees(s, full) == Both # {} => s = SpeedOf(Best(Both)) /\ full = (Best(Both) \in Full)
Told == chip.ercap \/ chip.able \cap Giga = {}
ReadInv ==
    /\ Good /\ pc \in Reading => chip.complete
    /\ Good /\ pc \in {"stat1000", "ctrl1000"} => chip.able \cap Giga # {}
    /\ Good /\ Told =>
         /\ pc = "ctrl1000" => loc.reg = peer \cap Giga
         /\ pc \in {"advertise", "lpa"} => Both \cap Giga = {}
         /\ pc = "lpa" => loc.reg = chip.adv \cap Base
         /\ pc \in {"stat1000", "ctrl1000", "advertise", "lpa"} => ~loc.estatus
         /\ pc # "estatus"
         /\ pc = "adjust" => Agrees(dev.speed, dev.full)
         /\ pc = "idle" /\ state = "ONLINE" /\ phydev => chip.complete /\ Agrees(speed, dev.full)

LEMMA Elsewhere ==
  ASSUME pc' \notin Reading, pc' = "idle" => state' # "ONLINE" \/ ~phydev' PROVE ReadInv'
  BY DEF ReadInv, Reading

LEMMA SettledStays ==
  ASSUME HwOK, FreshInv, ReadInv, Environment PROVE ReadInv'
<1>a. chip \in Chips /\ UNCHANGED <<unitVars, pc, loc, err>>
  BY DEF HwOK, Environment, Negotiate, ResetEnds, Replug
<1>1. CASE moved' \/ err
  BY <1>a, <1>1 DEF ReadInv, Good
<1>2. CASE ~moved' /\ ~err /\ (pc \in Reading \/ (pc = "idle" /\ state = "ONLINE" /\ phydev /\ Told))
  <2>1. ~Replug
    BY <1>2 DEF Replug
  <2>2. ~ResetEnds
    BY <1>2 DEF ResetEnds, FreshInv, Reading
  <2>3. ~Negotiate
    BY <1>2 DEF Negotiate, ReadInv, Good
  <2> QED BY <2>1, <2>2, <2>3 DEF Environment
<1>3. CASE ~moved' /\ ~err /\ pc \notin Reading
           /\ ~(pc = "idle" /\ state = "ONLINE" /\ phydev /\ Told)
  <2>1. chip'.ercap = chip.ercap /\ chip'.able = chip.able
    BY <1>a DEF Environment, Negotiate, ResetEnds, Replug, LinkLost, Chips
  <2>2. Told' <=> Told
    BY <2>1 DEF Told
  <2> QED BY <1>a, <1>3, <2>2 DEF ReadInv, Reading, unitVars
<1> QED BY <1>1, <1>2, <1>3

(* An access that times out, or a lost link, ends what is claimed; any other read
   returns the register of a chip that is as it was. *)
LEMMA GoodRead ==
  ASSUME HwOK, NEW r, NEW v \in Values(r), mdio_read(r, v), Good'
  PROVE  /\ Good /\ v = Register(r)
         /\ (Told' <=> Told) /\ chip'.able = chip.able /\ chip'.complete = chip.complete
         /\ Both' = Both /\ chip'.adv = chip.adv /\ peer' = peer
<1>1. SameChip /\ moved' = moved /\ (~err' => ~err /\ v = Register(r))
  BY ReadFine
<1> QED BY <1>1 DEF Good, SameChip, Both, Told

LEMMA ClaimEnds == ASSUME ~Good' PROVE ReadInv'
  BY DEF ReadInv

(* The end of the wait for the negotiation. *)
LEMMA WaitRead ==
  ASSUME HwOK, UpdateLink \/ WaitAneg PROVE ReadInv'
<1> DEFINE Goal == ReadInv'
<1> SUFFICES Goal
  OBVIOUS
<1>1. CASE StartFails(ringReady)
  BY <1>1, Elsewhere DEF ProbeFails, StartFails, EthStop, Reclaim, NoPhy, Reading
<1>2. CASE ~StartFails(ringReady) /\ ~Good'
  BY <1>2, ClaimEnds
<1>3. CASE ~StartFails(ringReady) /\ Good'
  <2>1. PICK v \in Values("BMSR") :
           /\ mdio_read("BMSR", v) /\ pc' \in {"link", "wait", "parse"}
           /\ pc' # "wait" => "ANEGCOMPLETE" \in v
    BY <1>3 DEF UpdateLink, WaitAneg, Keep, Goto
  <2>2. "ANEGCOMPLETE" \in v => chip'.complete
    BY <1>3, <2>1, GoodRead, Registers
  <2> QED BY <2>1, <2>2 DEF ReadInv, Reading
<1> QED BY <1>1, <1>2, <1>3

(* genphy_update_link's last read and genphy_parse_link. *)
LEMMA ParseRead ==
  ASSUME UnitOK, HwOK, DevInv, AbleInv, ChipSound, ReadInv, ReadLink \/ ParseLink PROVE ReadInv'
<1> DEFINE Goal == ReadInv'
<1> SUFFICES Goal
  OBVIOUS
<1>1. CASE ~Good'
  BY <1>1, ClaimEnds
<1>2. CASE Good' /\ ReadLink
  <2>1. PICK v \in Values("BMSR") : mdio_read("BMSR", v) /\ pc = "link" /\ pc' = "parse"
    BY <1>2 DEF ReadLink, Goto
  <2>2. Good /\ chip'.complete = chip.complete
    BY <1>2, <2>1, GoodRead
  <2> QED BY <2>1, <2>2 DEF ReadInv, Reading
<1>3. CASE Good' /\ ParseLink
  <2>1. PICK v \in Values("BMSR") :
           /\ mdio_read("BMSR", v) /\ pc = "parse"
           /\ loc' = [loc EXCEPT !.estatus = "ESTATEN" \in v /\ "ERCAP" \notin v]
           /\ pc' = IF dev.supported \cap Giga # {} THEN "stat1000" ELSE "advertise"
    BY <1>3 DEF ParseLink, Goto
  <2>2. /\ Good /\ v = Register("BMSR") /\ chip'.complete = chip.complete
        /\ (Told' <=> Told) /\ chip'.able = chip.able /\ Both' = Both
    BY <1>3, <2>1, GoodRead
  <2>3. chip'.complete
    BY <2>1, <2>2 DEF ReadInv, Reading
  <2>4. Told => ~loc'.estatus
    <3>1. loc'.estatus = ("ESTATEN" \in v /\ "ERCAP" \notin v)
      BY <2>1 DEF UnitOK, Locals
    <3>2. Told => "ERCAP" \in v \/ "ESTATEN" \notin v
      BY <2>2, Registers DEF Told
    <3> QED BY <3>1, <3>2, Zenon
  <2>5. /\ pc' = "advertise" => Both' \cap Giga = {}
        /\ pc' = "stat1000" => chip'.able \cap Giga # {}
    <3>1. dev.supported = chip.able
      BY <2>1 DEF AbleInv, DevInv, AtRest, Creating, Unread
    <3> QED BY <2>1, <2>2, <3>1 DEF ChipSound, Both
  <2> QED BY <2>1, <2>2, <2>3, <2>4, <2>5 DEF ReadInv, Reading
<1> QED BY <1>1, <1>2, <1>3

(* The 1000BASE-T registers: the common modes, if there are any. *)
LEMMA GigaRead ==
  ASSUME UnitOK, HwOK, DevInv, ChipSound, ReadInv, ReadStat1000 \/ ReadCtrl1000 PROVE ReadInv'
<1> DEFINE Goal == ReadInv'
<1> SUFFICES Goal
  OBVIOUS
<1>a. loc \in Locals
  BY DEF UnitOK
<1>1. CASE ~Good'
  BY <1>1, ClaimEnds
<1>2. CASE Good' /\ ReadStat1000
  <2>1. PICK v \in Values("STAT1000") :
           /\ mdio_read("STAT1000", v) /\ pc = "stat1000" /\ pc' = "ctrl1000"
           /\ loc' = [loc EXCEPT !.reg = IF Failed(v) THEN {} ELSE v]
    BY <1>2 DEF ReadStat1000, Goto
  <2>2. /\ Good /\ v = Register("STAT1000") /\ chip'.complete = chip.complete
        /\ (Told' <=> Told) /\ chip'.able = chip.able /\ peer' = peer
    BY <1>2, <2>1, GoodRead
  <2>3. chip.complete /\ chip.able \cap Giga # {}
    BY <2>1, <2>2 DEF ReadInv, Reading
  <2>4. Told => v = peer \cap Giga
    BY <2>2, <2>3, Registers DEF ChipSound, Told
  <2>5. Told => loc'.reg = peer \cap Giga
    BY <1>a, <2>1, <2>4 DEF Failed, Giga, Locals
  <2>6. Told => ~loc'.estatus
    BY <1>a, <2>1, <2>2 DEF ReadInv, Locals
  <2> QED BY <2>1, <2>2, <2>3, <2>5, <2>6 DEF ReadInv, Reading
<1>3. CASE Good' /\ ReadCtrl1000
  <2>1. PICK v \in Values("CTRL1000") :
           /\ mdio_read("CTRL1000", v) /\ pc = "ctrl1000" /\ loc' = loc
           /\ IF loc.reg \cap v \cap Giga # {}
              THEN dev' = Resolved(loc.reg \cap v) /\ pc' = "adjust"
              ELSE pc' = "advertise"
    BY <1>3 DEF ReadCtrl1000, Goto
  <2>2. /\ Good /\ v = chip.adv \cap Giga /\ chip'.complete = chip.complete
        /\ (Told' <=> Told) /\ Both' = Both
    BY <1>3, <2>1, GoodRead, Registers
  <2>3. chip.complete
    BY <2>1, <2>2 DEF ReadInv, Reading
  <2>4. Told => loc.reg = peer \cap Giga /\ ~loc.estatus
    BY <2>1, <2>2 DEF ReadInv
  <2>5. Told => loc.reg \cap v = Both \cap Giga
    BY <2>2, <2>4 DEF Both
  <2>6. CASE Told /\ pc' = "adjust"
    <3>1. dev' = Resolved(Both \cap Giga) /\ Both \cap Giga # {} /\ Both # {}
      BY <2>1, <2>5, <2>6
    <3>2. dev \in PhyDevices /\ Both \in SUBSET Modes
      BY <2>1, HasDevice DEF AtRest, Creating, HwOK, Chips, Both
    <3>3. Resolved(Both \cap Giga).speed = SpeedOf(Best(Both))
      BY <3>1, <3>2, ResolvedBest
    <3>4. Resolved(Both \cap Giga).full = (Best(Both) \in Full)
      BY <3>1, <3>2, ResolvedBest
    <3>5. dev'.speed = SpeedOf(Best(Both'))
      BY <2>2, <3>1, <3>3
    <3>6. dev'.full = (Best(Both') \in Full)
      BY <2>2, <3>1, <3>4, Zenon
    <3>7. Agrees(dev.speed, dev.full)'
      BY <3>5, <3>6 DEF Agrees
    <3> QED BY <2>2, <2>3, <2>6, <3>7 DEF ReadInv, Reading
  <2>7. CASE pc' = "advertise"
    <3>1. Told => Both' \cap Giga = {}
      BY <2>1, <2>2, <2>5, <2>7
    <3> QED BY <2>1, <2>2, <2>3, <2>4, <2>7, <3>1 DEF ReadInv, Reading
  <2>8. CASE ~Told /\ pc' = "adjust"
    BY <2>2, <2>3, <2>8 DEF ReadInv, Reading
  <2> QED BY <2>1, <2>6, <2>7, <2>8
<1> QED BY <1>1, <1>2, <1>3

(* The 10 and 100BASE-T registers, read when no 1000BASE-T mode is common. *)
LEMMA BaseRead ==
  ASSUME UnitOK, HwOK, DevInv, ChipSound, ReadInv, ReadAdvertise \/ ReadLpa \/ ReadEstatus
  PROVE  ReadInv'
<1> DEFINE Goal == ReadInv'
<1> SUFFICES Goal
  OBVIOUS
<1>a. loc \in Locals
  BY DEF UnitOK
<1>1. CASE ~Good'
  BY <1>1, ClaimEnds
<1>2. CASE Good' /\ ReadAdvertise
  <2>1. PICK v \in Values("ADVERTISE") :
           /\ mdio_read("ADVERTISE", v) /\ pc = "advertise" /\ pc' = "lpa"
           /\ loc' = [loc EXCEPT !.reg = v \cap Base]
    BY <1>2 DEF ReadAdvertise, Goto
  <2>2. /\ Good /\ v = chip.adv \cap Base /\ chip'.complete = chip.complete
        /\ (Told' <=> Told) /\ Both' = Both /\ chip'.adv = chip.adv
    BY <1>2, <2>1, GoodRead, Registers
  <2>3. chip.complete
    BY <2>1, <2>2 DEF ReadInv, Reading
  <2>4. loc'.reg = chip'.adv \cap Base /\ loc'.estatus = loc.estatus
    BY <1>a, <2>1, <2>2 DEF Locals
  <2> QED BY <2>1, <2>2, <2>3, <2>4 DEF ReadInv, Reading
<1>3. CASE Good' /\ ReadLpa
  <2>1. PICK v \in Values("LPA") :
           /\ mdio_read("LPA", v) /\ pc = "lpa" /\ loc' = loc
           /\ dev' = Resolved(loc.reg \cap v)
           /\ pc' = IF loc.estatus THEN "estatus" ELSE "adjust"
    BY <1>3 DEF ReadLpa, Goto
  <2>2. /\ Good /\ v = chip.lpa \cap Base /\ chip'.complete = chip.complete
        /\ (Told' <=> Told) /\ Both' = Both
    BY <1>3, <2>1, GoodRead, Registers
  <2>3. chip.complete /\ chip.lpa = peer
    BY <2>1, <2>2 DEF ReadInv, Reading, ChipSound
  <2>4. CASE Told
    <3>1. loc.reg = chip.adv \cap Base /\ ~loc.estatus /\ Both \cap Giga = {}
      BY <2>1, <2>2, <2>4 DEF ReadInv
    <3>2. dev' = Resolved(Both \cap Base) /\ pc' = "adjust"
      <4>1. loc.reg \cap v = Both \cap Base
        BY <2>2, <2>3, <3>1 DEF Both
      <4> QED BY <2>1, <3>1, <4>1
    <3>3. dev \in PhyDevices /\ Both \in SUBSET Modes
      BY <2>1, HasDevice DEF AtRest, Creating, HwOK, Chips, Both
    <3>4. Both # {} => Resolved(Both \cap Base).speed = SpeedOf(Best(Both))
      BY <3>1, <3>3, ResolvedBest
    <3>5. Both # {} => Resolved(Both \cap Base).full = (Best(Both) \in Full)
      BY <3>1, <3>3, ResolvedBest
    <3>6. Both' # {} => dev'.speed = SpeedOf(Best(Both'))
      BY <2>2, <3>2, <3>4
    <3>7. Both' # {} => dev'.full = (Best(Both') \in Full)
      BY <2>2, <3>2, <3>5, Zenon
    <3>8. Agrees(dev.speed, dev.full)'
      BY <3>6, <3>7 DEF Agrees
    <3> QED BY <2>2, <2>3, <3>2, <3>8 DEF ReadInv, Reading
  <2>5. CASE ~Told
    BY <2>1, <2>2, <2>3, <2>5 DEF ReadInv, Reading
  <2> QED BY <2>4, <2>5
<1>4. CASE Good' /\ ReadEstatus
  <2>1. PICK v \in Values("ESTATUS") :
           mdio_read("ESTATUS", v) /\ pc = "estatus" /\ pc' = "adjust"
    BY <1>4 DEF ReadEstatus, Goto
  <2>2. Good /\ chip'.complete = chip.complete /\ (Told' <=> Told)
    BY <1>4, <2>1, GoodRead
  <2> QED BY <2>1, <2>2 DEF ReadInv, Reading
<1> QED BY <1>1, <1>2, <1>3, <1>4

LEMMA ReadKept ==
  ASSUME UnitOK, HwOK, DevInv, AbleInv, ChipSound, FreshInv, ReadInv, [Next]_vars PROVE ReadInv'
<1> DEFINE Goal == ReadInv'
<1> SUFFICES Goal
  OBVIOUS
<1>1. CASE UNCHANGED vars
  BY <1>1 DEF vars, unitVars, ReadInv, Good, Agrees, Both, Told
<1>2. CASE Command \/ PhyCreate \/ GetPhyId \/ Reset \/ ResetPoll \/ EthStart
  <2>1. pc' \notin Reading /\ (pc' = "idle" => ~phydev')
    BY <1>2 DEF Command, ConfigInterface, Online, Offline, Close, PhyCreate, GetPhyId, Reset,
       ResetPoll, EthStart, ProbeFails, StartFails, EthStop, Reclaim, NoPhy, Keep, Goto, Reading
  <2> QED BY <2>1, Elsewhere
<1>3. CASE \/ Features \/ Extended \/ ReadAdvert \/ WriteAdvert \/ ReadEstaten \/ ReadGiga
           \/ WriteGiga \/ CheckAneg \/ RestartAneg \/ RestartWrite
  <2>1. pc' \notin Reading /\ (pc' = "idle" => ~phydev')
    BY <1>3 DEF Features, Extended, ReadAdvert, WriteAdvert, ReadEstaten, ReadGiga, WriteGiga,
       CheckAneg, RestartAneg, RestartWrite, Access, AskRestart, Configured, ProbeFails, StartFails, EthStop, Reclaim, NoPhy,
       Keep, Goto, Reading
  <2> QED BY <2>1, Elsewhere
<1>4. CASE StartupNull
  <2>1. pc' \in {"idle", "hung"} /\ ~phydev'
    <3>1. CASE StartFails(ringReady)
      BY <1>4, <3>1 DEF StartupNull, StartFails, EthStop, Reclaim, NoPhy, UnitOK
    <3>2. CASE ~StartFails(ringReady)
      BY <1>4, <3>2 DEF StartupNull, Goto, UnitOK
    <3> QED BY <3>1, <3>2
  <2> QED BY <2>1, Elsewhere DEF Reading
<1>5. CASE AdjustLink
  <2>1. /\ pc = "adjust" /\ pc' = "idle" /\ UNCHANGED <<chip, peer, err, moved, dev>>
        /\ speed' = dev.speed
    BY <1>5 DEF AdjustLink, NoAccess, Goto
  <2> QED BY <2>1 DEF ReadInv, Reading, Good, Agrees, Both, Told
<1> QED
  BY <1>1, <1>2, <1>3, <1>4, <1>5, SettledStays, WaitRead, ParseRead, GigaRead, BaseRead
  DEF Next, Task

LEMMA InitLink == Init => AbleInv /\ ChipSound /\ FreshInv /\ ReadInv
<1> SUFFICES ASSUME Init PROVE AbleInv /\ ChipSound /\ FreshInv /\ ReadInv
  OBVIOUS
<1>1. PICK able \in Abilities, ercap \in BOOLEAN, bmcr \in SUBSET {"ANENABLE", "ISOLATE"} :
        \E adv \in {able \cap {"100F"}, {m \in able : m \in Base \/ ercap}} :
           chip = [able |-> able, ercap |-> ercap, adv |-> adv, bmcr |-> bmcr, lpa |-> {},
                   used |-> {}, complete |-> FALSE, up |-> FALSE, lstatus |-> FALSE]
  BY DEF Init
<1>2. PICK adv \in {able \cap {"100F"}, {m \in able : m \in Base \/ ercap}} :
         chip = [able |-> able, ercap |-> ercap, adv |-> adv, bmcr |-> bmcr, lpa |-> {},
                 used |-> {}, complete |-> FALSE, up |-> FALSE, lstatus |-> FALSE]
  BY <1>1
<1>3. /\ chip.adv = adv /\ chip.able = able /\ chip.ercap = ercap /\ chip.bmcr = bmcr
      /\ ~chip.complete
  BY <1>2
<1>4. adv \subseteq able /\ (adv \cap Giga # {} => ercap)
  BY <1>2 DEF Base, Giga
<1>5. ChipSound
  BY <1>3, <1>4 DEF ChipSound
<1>6. FreshInv
  BY <1>1, <1>3 DEF Init, FreshInv, Fresh
<1>7. AbleInv /\ ReadInv
  BY DEF Init, AbleInv, ReadInv, Reading
<1> QED BY <1>5, <1>6, <1>7

(* A unit that came online while no MDIO access timed out has a PHY that finished
   negotiating, and until the link is lost the MAC runs at the speed of the best mode
   the two PHYs have in common and the phy_device says that mode's duplex, for every
   partner, number of polls and chip but a gigabit one without 1000BASE-T registers:
   the registers genphy_parse_link reads one after the other belong to the negotiation
   the chip made of what genphy_config_advert had it advertise.  Nothing is said of the
   MAC's duplex, which bcmgenet_adjust_link leaves alone. *)
THEOREM LinkCorrect == Spec => []LinkAsNegotiated
<1> DEFINE LinkInv == AbleInv /\ ChipSound /\ FreshInv /\ ReadInv
           PhyInv == TypeOK /\ DevInv /\ LinkInv
<1>1. Init => PhyInv
  BY InitPhy, InitLink
<1>2. PhyInv /\ [Next]_vars => PhyInv'
  <2>1. TypeOK /\ DevInv /\ [Next]_vars => TypeOK' /\ DevInv'
    BY NextPhy
  <2>2. ASSUME UnitOK, HwOK, DevInv, LinkInv, [Next]_vars PROVE LinkInv'
    BY <2>2, AbleKept, ChipSoundKept, FreshKept, ReadKept
  <2> QED BY <2>1, <2>2, Halves
<1>3. PhyInv => LinkAsNegotiated
  <2> SUFFICES ASSUME PhyInv, state = "ONLINE", pc = "idle", phydev, Good, Told
               PROVE  /\ chip.complete
                      /\ chip.used \cap peer # {} =>
                           /\ speed = SpeedOf(Best(chip.used \cap peer))
                           /\ dev.full = (Best(chip.used \cap peer) \in Full)
    BY DEF LinkAsNegotiated, Good, Told
  <2>1. chip.complete /\ Agrees(speed, dev.full)
    BY DEF ReadInv
  <2>2. chip.used = chip.adv
    BY <2>1 DEF FreshInv, Fresh, Good, Changing
  <2> QED BY <2>1, <2>2, Zenon DEF Agrees, Both
<1> QED BY <1>1, <1>2, <1>3, PTL DEF Spec
=============================================================================
