--------------------------- MODULE TxRing_proofs ---------------------------
(***************************************************************************)
(* Proofs about TxRing for every number of clients, requests, descriptors  *)
(* and index range: mutual exclusion and the life of the buffers first,    *)
(* then where a write request is, what the DMA engine finds, and that the  *)
(* requests on the ring are a TxQueue.                                     *)
(***************************************************************************)
EXTENDS TxRing, SharedTheorems, FunctionTheorems

(* The slot of any index is a slot: what truncating to a UBYTE yields. *)
LEMMA SlotType == ASSUME NEW i \in Int PROVE Slot(i) \in Slots
  BY RingAssumption DEF Slot, Slots

(* Wrapping an index or pointer that was advanced by one keeps it in range. *)
LEMMA WrapType ==
  ASSUME NEW span \in Nat, span > 0, NEW a \in 0 .. span - 1
  PROVE  Wrap(a + 1, span) \in 0 .. span - 1
  BY DEF Wrap

(* The distance between two indices is one of the ring's index values. *)
LEMMA DistType ==
  ASSUME NEW a \in Index, NEW b \in Index PROVE Dist(a, b) \in Index
  BY RingAssumption DEF Index, Dist

(* A reclaim frees slots of the ring, so it replies finitely many requests. *)
LEMMA FreedCount ==
  ASSUME TypeOK, NEW n \in Nat, NEW r
  PROVE  /\ RetireSlots(n) \subseteq Slots
         /\ Cardinality({s \in RetireSlots(n) : cb[s] = r}) \in Nat
<1>1. RetireSlots(n) \subseteq Slots
  BY SlotType DEF RetireSlots, TypeOK, Slots
<1>2. IsFiniteSet(Slots)
  BY FS_Interval, RingAssumption DEF Slots
<1>3. IsFiniteSet({s \in RetireSlots(n) : cb[s] = r})
  BY <1>1, <1>2, FS_Subset
<1> QED BY <1>1, <1>3, FS_CardinalityType

USE DEF Tasks

(***************************************************************************)
(* Type correctness.                                                       *)
(***************************************************************************)
AllSteps == ClientSteps \cup SharedSteps \cup UnitSteps

LEMMA InitType == Init => TypeOK
<1> SUFFICES ASSUME Init PROVE TypeOK
  OBVIOUS
<1>1. /\ clean_ptr \in Slots /\ write_ptr \in Slots /\ free_bds \in Int
      /\ tx_cons_index \in Index /\ tx_prod_index \in Index
      /\ hwCons \in Index /\ hwProd \in Index
  BY RingAssumption DEF Init, Slots, Index
<1>2. snap \in [Tasks -> Index]
  BY RingAssumption DEF Init, Index
<1>3. cb \in [Slots -> Reqs \cup {NoReq}] /\ desc \in [Slots -> Descs]
  BY DEF Init, Descs, NoDesc
<1>4. pc \in [Tasks -> AllSteps]
  BY DEF Init, AllSteps, ClientSteps, SharedSteps, UnitSteps
<1>5. due \in [Reqs -> Int] /\ port \in Seq(Reqs)
  BY DEF Init
<1>6. /\ aborted \subseteq Reqs /\ lost \subseteq Reqs /\ wild \in BOOLEAN
      /\ behind \in Reqs \cup {NoReq}
  BY DEF Init
<1> QED
  BY <1>1, <1>2, <1>3, <1>4, <1>5, <1>6 DEF Init, TypeOK, UnitStates, AllSteps

(* What a step that is no AbortIO does with the record of late removals. *)
LateSame == UNCHANGED lateVars /\ behind' \in Reqs \cup {NoReq}

LEMMA FollowType == ASSUME TypeOK, FollowHand PROVE behind' \in Reqs \cup {NoReq}
<1>1. Len(port) > 1 => port[2] \in Reqs
  BY DEF TypeOK
<1> QED BY <1>1 DEF FollowHand, TypeOK

(* Retiring descriptors keeps the types, whichever task does it. *)
LEMMA RetireType ==
  ASSUME TypeOK, NEW t \in Tasks, Retire(t), NEW step \in AllSteps, Goto(t, step),
         LateSame
  PROVE  TypeOK'
<1> DEFINE ready == Dist(tx_cons_index, snap[t])
<1>1. ready \in Nat /\ snap[t] \in Index
  <2>1. snap[t] \in Index /\ tx_cons_index \in Index
    BY DEF TypeOK
  <2>2. ready \in Index
    BY <2>1, DistType
  <2> QED BY <2>1, <2>2 DEF Index
<1>2. clean_ptr' \in Slots /\ free_bds' \in Int /\ tx_cons_index' \in Index
  <2>1. clean_ptr + ready \in Int
    BY <1>1 DEF TypeOK, Slots
  <2>2. Slot(clean_ptr + ready) \in Slots
    BY <2>1, SlotType
  <2>3. /\ clean_ptr' = Slot(clean_ptr + ready)
        /\ free_bds' = free_bds + ready /\ tx_cons_index' = snap[t]
    BY DEF Retire
  <2> QED BY <1>1, <2>2, <2>3 DEF TypeOK
<1>3. due' \in [Reqs -> Int]
  <2> DEFINE count(r) == Cardinality({s \in RetireSlots(ready) : cb[s] = r})
  <2>1. ASSUME NEW r \in Reqs PROVE count(r) \in Int
    <3>1. count(r) \in Nat
      BY <1>1, FreedCount
    <3> QED BY <3>1
  <2>2. due' = [r \in Reqs |-> due[r] - count(r)]
    BY DEF Retire
  <2> HIDE DEF count
  <2>3. \A r \in Reqs : due[r] - count(r) \in Int
    BY <2>1 DEF TypeOK
  <2> QED BY <2>2, <2>3
<1>4. cb' \in [Slots -> Reqs \cup {NoReq}] /\ desc' \in [Slots -> Descs]
  BY DEF Retire, TypeOK, Descs, NoDesc
<1>5. pc' \in [Tasks -> AllSteps] /\ snap' \in [Tasks -> Index]
  BY RingAssumption DEF Goto, Retire, TypeOK, AllSteps, Index
<1>6. owner' \in Tasks \cup {NoTask} /\ nest' \in Int /\ semInit' \in BOOLEAN
  BY DEF Retire, Release, TypeOK
<1> QED
  BY <1>2, <1>3, <1>4, <1>5, <1>6 DEF Retire, TypeOK, hwVars, unitVars, AllSteps, LateSame, lateVars

(* A step of the write path keeps the types. *)
LEMMA XmitType ==
  ASSUME TypeOK, NEW t \in Tasks, XmitStep(t), LateSame PROVE TypeOK'
<1> USE RingAssumption DEF Goto, After, Obtain, Release, Complete, ringVars, hwVars, semVars,
        unitVars, ClientSteps, SharedSteps, UnitSteps, LateSame, lateVars
<1>1. CASE Reclaimed(t)
  BY <1>1, RetireType DEF Reclaimed, AllSteps
<1>2. CASE RejectOffline(t)
  BY <1>2 DEF RejectOffline, TypeOK
<1>3. CASE AcceptWrite(t)
  BY <1>3 DEF AcceptWrite, TypeOK
<1>4. CASE XmitEnter(t)
  BY <1>4 DEF XmitEnter, TypeOK
<1>5. CASE XmitHeader(t)
  <2>1. write_ptr' \in Slots
    BY <1>5, WrapType DEF XmitHeader, TypeOK, Slots
  <2>2. tx_prod_index' \in Index
    BY <1>5, WrapType DEF XmitHeader, TypeOK, Index
  <2> QED BY <1>5, <2>1, <2>2 DEF XmitHeader, TypeOK, Descs
<1>6. CASE XmitBody(t)
  <2>1. write_ptr' \in Slots
    BY <1>6, WrapType DEF XmitBody, TypeOK, Slots
  <2> QED BY <1>6, <2>1 DEF XmitBody, TypeOK
<1>7. CASE XmitPublish(t)
  <2>1. tx_prod_index' \in Index
    BY <1>7, WrapType DEF XmitPublish, TypeOK, Index
  <2>2. desc' \in [Slots -> Descs]
    BY <1>7 DEF XmitPublish, TypeOK, Descs
  <2> QED BY <1>7, <2>1, <2>2 DEF XmitPublish, TypeOK
<1>8. CASE XmitFail(t)
  BY <1>8 DEF XmitFail, TypeOK
<1> QED
  BY <1>1, <1>2, <1>3, <1>4, <1>5, <1>6, <1>7, <1>8 DEF XmitStep

(* A step of a client keeps the types. *)
LEMMA ClientType ==
  ASSUME TypeOK, NEW c \in Clients, BeginIO(c) \/ ClientStep(c), LateSame
  PROVE  TypeOK'
<1> USE DEF Goto, Obtain, Release, ringVars, hwVars, semVars, unitVars,
        ClientSteps, SharedSteps, UnitSteps, LateSame, lateVars
<1>1. ASSUME NEW r \in Reqs, BeginIOQuick(c, r) PROVE TypeOK'
  BY <1>1 DEF BeginIOQuick, TypeOK
<1>2. ASSUME NEW r \in Reqs, BeginIOQueue(c, r) PROVE TypeOK'
  BY <1>2 DEF BeginIOQueue, TypeOK
<1>3. CASE QuickReclaim(c)
  BY <1>3 DEF QuickReclaim, EnterReclaim, TypeOK
<1>4. CASE QuickSkip(c)
  BY <1>4 DEF QuickSkip, TypeOK
<1>5. CASE LeaveBeginIO(c)
  BY <1>5 DEF LeaveBeginIO, TypeOK
<1> QED
  BY <1>1, <1>2, <1>3, <1>4, <1>5, XmitType DEF BeginIO, ClientStep

(* A step of the unit task keeps the types. *)
LEMMA UnitType ==
  ASSUME TypeOK, UnitStep, LateSame PROVE TypeOK'
<1> USE RingAssumption DEF Goto, Obtain, Release, Complete, ringVars, hwVars, semVars, unitVars,
        ClientSteps, SharedSteps, UnitSteps, UnitStates, LateSame, lateVars
<1>1. CASE GetMsg
  BY <1>1 DEF GetMsg, TypeOK
<1>2. CASE PeriodicReclaim
  BY <1>2 DEF PeriodicReclaim, EnterReclaim, TypeOK
<1>3. CASE CmdFlush \/ CmdOffline
  <2>1. PICK step \in AllSteps : FlushTo(step)
    BY <1>3 DEF CmdFlush, CmdOffline, AllSteps
  <2>2. due' \in [Reqs -> Int]
    BY <2>1 DEF FlushTo, TypeOK
  <2>3. pc' \in [Tasks -> AllSteps] /\ port' \in Seq(Reqs)
    BY <2>1 DEF FlushTo, TypeOK, AllSteps
  <2> QED BY <2>1, <2>2, <2>3 DEF FlushTo, TypeOK, AllSteps
<1>4. CASE CmdConfigure \/ CmdOnline
  BY <1>4 DEF CmdConfigure, CmdOnline, TypeOK
<1>5. CASE StopStep
  <2>1. CASE UnitOffline
    BY <2>1 DEF UnitOffline, TypeOK
  <2>2. CASE StopDma
    BY <2>2 DEF StopDma, TypeOK
  <2>3. CASE StopReclaim
    BY <2>3 DEF StopReclaim, EnterReclaim, TypeOK
  <2>4. CASE StopRetire
    BY <2>4, RetireType DEF StopRetire, AllSteps
  <2>5. CASE StopFree
    BY <2>5 DEF StopFree, TypeOK
  <2> QED BY <1>5, <2>1, <2>2, <2>3, <2>4, <2>5 DEF StopStep
<1>6. CASE StartStep
  <2>1. CASE AllocBuffers
    <3>1. bufLive' \in BOOLEAN /\ pc' \in [Tasks -> AllSteps]
      BY <2>1 DEF AllocBuffers, TypeOK, AllSteps
    <3>2. sessions' \in Nat
      BY <2>1 DEF AllocBuffers, TypeOK
    <3> QED BY <2>1, <3>1, <3>2 DEF AllocBuffers, TypeOK, AllSteps
  <2>2. CASE InitRing
    <3>1. Slot(hwCons) \in Slots
      BY SlotType DEF TypeOK, Index
    <3> QED BY <2>2, <3>1 DEF InitRing, TypeOK, Descs, NoDesc
  <2>3. CASE PhyStartup
    BY <2>3 DEF PhyStartup, TypeOK
  <2> QED BY <1>6, <2>1, <2>2, <2>3 DEF StartStep
<1>7. CASE XmitStep(Unit)
  BY <1>7, XmitType
<1> QED
  BY <1>1, <1>2, <1>3, <1>4, <1>5, <1>6, <1>7 DEF UnitStep

(* AbortIO takes nothing from the ring, the semaphore, the unit or the tasks. *)
Aside == UNCHANGED <<ringVars, hwVars, semVars, unitVars, pc, req, snap>>

LEMMA AbortAside == ASSUME NEW r \in Reqs, AbortIO(r) PROVE Aside
  BY DEF AbortIO, Aside

(* A step is a step of a client, the unit task or the DMA engine, an AbortIO, or
   nothing. *)
LEMMA NextCases ==
  ASSUME [Next]_vars
  PROVE  \/ \E c \in Clients : BeginIO(c) \/ ClientStep(c)
         \/ UnitStep
         \/ HwTransmit
         \/ Aside
<1>1. CASE UNCHANGED vars
  BY <1>1 DEF vars, taskVars, Aside
<1>2. CASE Next
  BY <1>1, <1>2, AbortAside DEF Next, Working, Handling
<1> QED BY <1>1, <1>2

(* AbortIO keeps the types: what it takes out of the port leaves a port. *)
LEMMA AbortType == ASSUME TypeOK, NEW r \in Reqs, AbortIO(r) PROVE TypeOK'
<1>1. port' \in Seq(Reqs)
  <2>1. ASSUME NEW i \in DOMAIN port
        PROVE  SubSeq(port, 1, i - 1) \o SubSeq(port, i + 1, Len(port)) \in Seq(Reqs)
    <3>1. port \in Seq(Reqs) /\ i \in 1 .. Len(port)
      BY DEF TypeOK
    <3>2. SubSeq(port, 1, i - 1) \in Seq(Reqs)
      BY <3>1
    <3>3. SubSeq(port, i + 1, Len(port)) \in Seq(Reqs)
      BY <3>1
    <3> QED BY <3>2, <3>3
  <2>2. ASSUME NEW i, i \in DOMAIN port \/ i = Len(port) + 1
        PROVE  SubSeq(port, i, Len(port)) \in Seq(Reqs)
    <3>1. port \in Seq(Reqs) /\ i \in 1 .. Len(port) + 1
      BY <2>2 DEF TypeOK
    <3> QED BY <3>1
  <2>3. AbortTaken(r) => port' \in Seq(Reqs)
    <3>1. ASSUME NEW i, i \in DOMAIN port \/ i = Len(port) + 1, CutPortAt(i) PROVE port' \in Seq(Reqs)
      BY <2>2, <3>1 DEF CutPortAt
    <3>2. Damage => port' \in Seq(Reqs)
      BY DEF Damage, TypeOK
    <3> QED BY <3>1, <3>2 DEF AbortTaken
  <2> QED BY <2>1, <2>3 DEF AbortIO, AbortQueued, AbortLost, Damage, TypeOK
<1>2. due' \in [Reqs -> Int]
  BY DEF AbortIO, Complete, TypeOK
<1>3. aborted' \subseteq Reqs /\ behind' \in Reqs \cup {NoReq}
  BY RequestAssumption DEF AbortIO, AbortQueued, AbortTaken, AbortLost, lateVars, TypeOK
<1>4. lost' \subseteq Reqs /\ wild' \in BOOLEAN
  <2>1. ASSUME NEW i, i \in DOMAIN port \/ i = Len(port) + 1, CutPortAt(i)
        PROVE  lost' \subseteq Reqs /\ wild' = wild
    <3>1. ASSUME NEW k \in 1 .. i - 1 PROVE port[k] \in Reqs
      <4>1. port \in Seq(Reqs) /\ k \in 1 .. Len(port)
        BY <2>1 DEF TypeOK
      <4> QED BY <4>1
    <3> QED BY <2>1, <3>1 DEF CutPortAt, TypeOK
  <2>2. AbortTaken(r) => lost' \subseteq Reqs /\ (wild' = wild \/ wild' = TRUE)
    BY <2>1 DEF AbortTaken, Damage, TypeOK
  <2> QED BY <2>2 DEF AbortIO, AbortQueued, AbortLost, Damage, lateVars, TypeOK
<1> QED
  BY <1>1, <1>2, <1>3, <1>4 DEF AbortIO, TypeOK, ringVars, hwVars, semVars, unitVars

LEMMA NextType == TypeOK /\ [Next]_vars => TypeOK'
<1> SUFFICES ASSUME TypeOK, [Next]_vars PROVE TypeOK'
  OBVIOUS
<1>1. ASSUME Handling, LateSame PROVE TypeOK'
  <2>1. ASSUME NEW c \in Clients, BeginIO(c) \/ ClientStep(c) PROVE TypeOK'
    BY <1>1, <2>1, ClientType
  <2>2. CASE UnitStep
    BY <1>1, <2>2, UnitType
  <2>3. CASE HwTransmit
    <3>1. hwCons' \in Index
      BY <2>3, WrapType, RingAssumption DEF HwTransmit, TypeOK, Index
    <3> QED
      BY <1>1, <2>3, <3>1
      DEF HwTransmit, TypeOK, ringVars, semVars, unitVars, taskVars, LateSame, lateVars
  <2> QED BY <1>1, <2>1, <2>2, <2>3 DEF Handling
<1>2. CASE UNCHANGED vars
  BY <1>2 DEF vars, ringVars, hwVars, semVars, unitVars, taskVars, lateVars, TypeOK
<1>3. Handling /\ FollowHand /\ UNCHANGED lateVars => TypeOK'
  BY <1>1, FollowType DEF LateSame
<1> QED BY <1>2, <1>3, AbortType DEF Next, Working

(* Every variable keeps its type: in particular the pointers stay inside the
   control-block array and the indices inside the hardware's range. *)
THEOREM TypeCorrect == Spec => []TypeOK
<1> QED BY InitType, NextType, PTL DEF Spec

(***************************************************************************)
(* Mutual exclusion.  SemaphoreExclusion is inductive together with which  *)
(* steps belong to which task and, for the re-initialisation of the        *)
(* semaphore, that clients stay out while S2_ONLINE is being served.       *)
(***************************************************************************)
Roles == /\ \A c \in Clients : pc[c] \in ClientSteps \cup SharedSteps
         /\ pc[Unit] \in SharedSteps \cup UnitSteps
ClientsOut == pc[Unit] \in {"online", "initRing"} => \A c \in Clients : pc[c] = "idle"
ExclInv == Roles /\ ClientsOut /\ SemaphoreExclusion

(* Every step of a task changes its depth by what it does to the semaphore. *)
LEMMA DepthNat == \A t, step : DepthAt(t, step) \in 0 .. 2
  BY DEF DepthAt

LEMMA MovedDepth ==
  ASSUME TypeOK, NEW t \in Tasks, NEW step, Goto(t, step)
  PROVE  \A s \in Tasks : Depth(s)' = IF s = t THEN DepthAt(t, step) ELSE Depth(s)
  BY DEF TypeOK, Goto, Depth, DepthAt

LEMMA ObtainExcl ==
  ASSUME TypeOK, SemaphoreExclusion, NEW t \in Tasks, Obtain(t),
         NEW step, Goto(t, step), DepthAt(t, step) = Depth(t) + 1
  PROVE  SemaphoreExclusion'
<1>1. owner' = t /\ nest' = nest + 1 /\ t # NoTask /\ owner \in {NoTask, t}
  BY TaskAssumption DEF Obtain, CanObtain
<1>2. \A s \in Tasks : s # t => Depth(s) = 0
  <2> SUFFICES ASSUME NEW s \in Tasks, s # t PROVE Depth(s) = 0
    OBVIOUS
  <2>1. Depth(s) \in 0 .. 2
    BY DepthNat DEF Depth
  <2>2. ~(Depth(s) > 0)
    BY <1>1, TaskAssumption DEF SemaphoreExclusion
  <2> QED BY <2>1, <2>2
<1>3. nest = Depth(t)
  <2>1. Depth(t) \in 0 .. 2
    BY DepthNat DEF Depth
  <2>2. CASE owner = t
    BY <1>1, <2>2 DEF SemaphoreExclusion
  <2>3. CASE owner = NoTask
    <3>1. ~(Depth(t) > 0)
      BY <1>1, <2>3 DEF SemaphoreExclusion
    <3> QED BY <2>1, <2>3, <3>1 DEF SemaphoreExclusion
  <2> QED BY <1>1, <2>2, <2>3
<1>4. \A s \in Tasks : Depth(s)' = IF s = t THEN Depth(t) + 1 ELSE 0
  BY <1>2, MovedDepth
<1>5. Depth(t) \in Nat
  BY DepthNat DEF Depth
<1> QED BY <1>1, <1>3, <1>4, <1>5 DEF SemaphoreExclusion

LEMMA ReleaseExcl ==
  ASSUME TypeOK, SemaphoreExclusion, NEW t \in Tasks, Release,
         NEW step, Goto(t, step), Depth(t) > 0, DepthAt(t, step) = Depth(t) - 1
  PROVE  SemaphoreExclusion'
<1>1. owner = t /\ nest = Depth(t) /\ t # NoTask
  BY TaskAssumption DEF SemaphoreExclusion
<1>2. \A s \in Tasks : s # t => Depth(s) = 0
  <2> SUFFICES ASSUME NEW s \in Tasks, s # t PROVE Depth(s) = 0
    OBVIOUS
  <2>1. Depth(s) \in 0 .. 2
    BY DepthNat DEF Depth
  <2>2. ~(Depth(s) > 0)
    BY <1>1, TaskAssumption DEF SemaphoreExclusion
  <2> QED BY <2>1, <2>2
<1>3. \A s \in Tasks : Depth(s)' = IF s = t THEN Depth(t) - 1 ELSE 0
  BY <1>2, MovedDepth
<1>4. Depth(t) \in Nat
  BY DepthNat DEF Depth
<1>5. nest' = nest - 1 /\ owner' = IF nest = 1 THEN NoTask ELSE owner
  BY DEF Release
<1> QED BY <1>1, <1>3, <1>4, <1>5 DEF SemaphoreExclusion

LEMMA MoveExcl ==
  ASSUME TypeOK, SemaphoreExclusion, NEW t \in Tasks, UNCHANGED semVars,
         NEW step, Goto(t, step), DepthAt(t, step) = Depth(t)
  PROVE  SemaphoreExclusion'
<1>1. \A s \in Tasks : Depth(s)' = Depth(s)
  BY MovedDepth
<1>2. owner' = owner /\ nest' = nest /\ owner \in Tasks \cup {NoTask}
  BY DEF semVars, TypeOK
<1> QED BY <1>1, <1>2 DEF SemaphoreExclusion

LEMMA InitExcl == Init => ExclInv
<1> SUFFICES ASSUME Init PROVE ExclInv
  OBVIOUS
<1>1. Roles /\ ClientsOut
  BY TaskAssumption DEF Init, Roles, ClientsOut, ClientSteps, SharedSteps, UnitSteps
<1>2. \A t \in Tasks : Depth(t) = 0
  BY TaskAssumption DEF Init, Depth, DepthAt, InnerSteps, OuterSteps
<1> QED BY <1>1, <1>2 DEF Init, SemaphoreExclusion, ExclInv

LEMMA XmitExcl ==
  ASSUME TypeOK, ExclInv, NEW t \in Tasks, XmitStep(t) PROVE SemaphoreExclusion'
<1> USE DEF Depth, DepthAt, InnerSteps, OuterSteps, After, ExclInv
<1> SemaphoreExclusion
  OBVIOUS
<1>1. CASE Reclaimed(t)
  <2>1. PICK step : Goto(t, step) /\ step = IF t = Unit THEN "wait" ELSE "command"
    BY <1>1 DEF Reclaimed
  <2> QED BY <1>1, <2>1, ReleaseExcl DEF Reclaimed, Retire
<1>2. CASE RejectOffline(t)
  BY <1>2, MoveExcl DEF RejectOffline
<1>3. CASE AcceptWrite(t)
  BY <1>3, MoveExcl DEF AcceptWrite
<1>4. CASE XmitEnter(t)
  <2>1. PICK step \in {"fail", "body", "header"} : Goto(t, step)
    BY <1>4 DEF XmitEnter
  <2> QED BY <1>4, <2>1, ObtainExcl DEF XmitEnter
<1>5. CASE XmitHeader(t)
  BY <1>5, MoveExcl DEF XmitHeader
<1>6. CASE XmitBody(t)
  <2>1. PICK step \in {"publish", "fail"} : Goto(t, step)
    BY <1>6 DEF XmitBody
  <2> QED BY <1>6, <2>1, MoveExcl DEF XmitBody
<1>7. CASE XmitPublish(t)
  BY <1>7, ReleaseExcl DEF XmitPublish
<1>8. CASE XmitFail(t)
  BY <1>8, ReleaseExcl DEF XmitFail
<1> QED
  BY <1>1, <1>2, <1>3, <1>4, <1>5, <1>6, <1>7, <1>8 DEF XmitStep

LEMMA ClientExcl ==
  ASSUME TypeOK, ExclInv, NEW c \in Clients, BeginIO(c) \/ ClientStep(c)
  PROVE  SemaphoreExclusion'
<1> USE TaskAssumption DEF Depth, DepthAt, InnerSteps, OuterSteps, ExclInv
<1> SemaphoreExclusion /\ c \in Tasks /\ c # Unit
  OBVIOUS
<1>1. ASSUME NEW r \in Reqs, BeginIOQuick(c, r) PROVE SemaphoreExclusion'
  BY <1>1, ObtainExcl DEF BeginIOQuick
<1>2. ASSUME NEW r \in Reqs, BeginIOQueue(c, r) PROVE SemaphoreExclusion'
  BY <1>2 DEF BeginIOQueue, semVars, SemaphoreExclusion
<1>3. CASE QuickReclaim(c)
  BY <1>3, ObtainExcl DEF QuickReclaim, EnterReclaim
<1>4. CASE QuickSkip(c)
  BY <1>4, MoveExcl DEF QuickSkip
<1>5. CASE LeaveBeginIO(c)
  BY <1>5, ReleaseExcl DEF LeaveBeginIO
<1> QED
  BY <1>1, <1>2, <1>3, <1>4, <1>5, XmitExcl DEF BeginIO, ClientStep

LEMMA UnitExcl ==
  ASSUME TypeOK, ExclInv, UnitStep PROVE SemaphoreExclusion'
<1> USE DEF Depth, DepthAt, InnerSteps, OuterSteps, ExclInv
<1> SemaphoreExclusion /\ Unit \in Tasks
  OBVIOUS
<1>1. CASE GetMsg
  BY <1>1, MoveExcl DEF GetMsg
<1>2. CASE PeriodicReclaim
  BY <1>2, ObtainExcl DEF PeriodicReclaim, EnterReclaim
<1>3. CASE CmdFlush \/ CmdOffline
  <2>1. PICK step \in {"wait", "offline"} : FlushTo(step)
    BY <1>3 DEF CmdFlush, CmdOffline
  <2> QED BY <2>1, MoveExcl DEF FlushTo
<1>4. CASE CmdConfigure \/ CmdOnline
  <2>1. PICK step \in {"online", "stopDma"} : Goto(Unit, step)
    BY <1>4 DEF CmdConfigure, CmdOnline
  <2> QED BY <1>4, <2>1, MoveExcl DEF CmdConfigure, CmdOnline
<1>5. CASE StopStep
  <2>1. CASE UnitOffline
    BY <2>1, MoveExcl DEF UnitOffline
  <2>2. CASE StopDma
    BY <2>2, MoveExcl DEF StopDma
  <2>3. CASE StopReclaim
    BY <2>3, ObtainExcl DEF StopReclaim, EnterReclaim
  <2>4. CASE StopRetire
    BY <2>4, ReleaseExcl DEF StopRetire, Retire
  <2>5. CASE StopFree
    BY <2>5, MoveExcl DEF StopFree
  <2> QED BY <1>5, <2>1, <2>2, <2>3, <2>4, <2>5 DEF StopStep
<1>6. CASE AllocBuffers
  <2>1. PICK step \in {"initRing", "stopDma"} : Goto(Unit, step)
    BY <1>6 DEF AllocBuffers
  <2> QED BY <1>6, <2>1, MoveExcl DEF AllocBuffers
<1>7. CASE InitRing
  <2>1. \A t \in Tasks : Depth(t)' = 0
    BY <1>7 DEF InitRing, Goto, ClientsOut, TypeOK
  <2> QED BY <1>7, <2>1 DEF InitRing, SemaphoreExclusion
<1>8. CASE PhyStartup
  <2>1. PICK step \in {"wait", "stopDma"} : Goto(Unit, step)
    BY <1>8 DEF PhyStartup
  <2> QED BY <1>8, <2>1, MoveExcl DEF PhyStartup
<1>9. CASE XmitStep(Unit)
  BY <1>9, XmitExcl
<1> QED
  BY <1>1, <1>2, <1>3, <1>4, <1>5, <1>6, <1>7, <1>8, <1>9 DEF UnitStep, StartStep

(* Every step leaves its own task at a step that task may be at, and moves no
   other task. *)
LEMMA XmitMoves ==
  ASSUME NEW t \in Tasks, XmitStep(t)
  PROVE  \E step \in (IF t = Unit THEN {"wait"} ELSE {"leave"}) \cup SharedSteps : Goto(t, step)
  BY DEF XmitStep, Reclaimed, RejectOffline, AcceptWrite, XmitEnter, XmitHeader, XmitBody,
         XmitPublish, XmitFail, After, SharedSteps

LEMMA ClientMoves ==
  ASSUME NEW c \in Clients, BeginIO(c) \/ ClientStep(c)
  PROVE  UNCHANGED pc \/ \E step \in ClientSteps \cup SharedSteps : Goto(c, step)
<1>1. CASE XmitStep(c)
  BY <1>1, XmitMoves, TaskAssumption DEF ClientSteps
<1> QED
  BY <1>1 DEF BeginIO, BeginIOQuick, BeginIOQueue, ClientStep, QuickReclaim, QuickSkip,
     EnterReclaim, LeaveBeginIO, ClientSteps, SharedSteps

LEMMA UnitMoves ==
  ASSUME UnitStep
  PROVE  \E step \in UnitSteps \cup SharedSteps : Goto(Unit, step)
<1>1. CASE XmitStep(Unit)
  BY <1>1, XmitMoves DEF UnitSteps
<1>2. CASE StopStep \/ StartStep
  BY <1>2 DEF StopStep, StartStep, UnitOffline, StopDma, StopReclaim, EnterReclaim, StopRetire,
     StopFree, AllocBuffers, InitRing, PhyStartup, UnitSteps, SharedSteps
<1> QED
  BY <1>1, <1>2 DEF UnitStep, GetMsg, PeriodicReclaim, EnterReclaim, CmdFlush, CmdOffline,
     FlushTo, CmdConfigure, CmdOnline, UnitSteps, SharedSteps

LEMMA NextRoles == TypeOK /\ Roles /\ [Next]_vars => Roles'
<1> SUFFICES ASSUME TypeOK, Roles, [Next]_vars PROVE Roles'
  OBVIOUS
<1>1. ASSUME NEW c \in Clients, BeginIO(c) \/ ClientStep(c) PROVE Roles'
  BY <1>1, ClientMoves, TaskAssumption DEF Roles, Goto, TypeOK
<1>2. CASE UnitStep
  BY <1>2, UnitMoves, TaskAssumption DEF Roles, Goto, TypeOK
<1>3. CASE HwTransmit \/ Aside
  BY <1>3 DEF HwTransmit, Aside, taskVars, Roles
<1> QED BY <1>1, <1>2, <1>3, NextCases

(* A client that is idle can only enter through BeginIO, which the clients do
   not call while the unit is being brought online. *)
LEMMA NextClientsOut ==
  ASSUME QuietRestart = TRUE, TypeOK, ExclInv, [Next]_vars PROVE ClientsOut'
<1> USE TaskAssumption DEF ExclInv
<1>1. ASSUME NEW c \in Clients, BeginIO(c) \/ ClientStep(c) PROVE ClientsOut'
  <2>1. pc[Unit]' = pc[Unit]
    BY <1>1, ClientMoves DEF Goto, TypeOK
  <2>2. CASE pc[Unit] \in {"online", "initRing"}
    <3>1. \A d \in Clients : pc[d] = "idle"
      BY <2>2 DEF ClientsOut
    <3>2. ~ClientStep(c)
      BY <3>1 DEF ClientStep, QuickReclaim, QuickSkip, LeaveBeginIO, XmitStep, Reclaimed,
         RejectOffline, AcceptWrite, XmitEnter, XmitHeader, XmitBody, XmitPublish, XmitFail
    <3>3. UNCHANGED pc
      BY <1>1, <2>2, <3>2 DEF BeginIO, BeginIOQuick, BeginIOQueue
    <3> QED BY <3>1, <3>3 DEF ClientsOut
  <2> QED BY <2>1, <2>2 DEF ClientsOut
<1>2. CASE UnitStep
  <2>1. \A c \in Clients : pc'[c] = pc[c]
    BY <1>2, UnitMoves DEF Goto, TypeOK
  <2>2. CASE CmdConfigure \/ CmdOnline
    BY <2>1, <2>2 DEF CmdConfigure, CmdOnline, Quiet, ClientsOut
  <2>3. CASE AllocBuffers
    BY <2>1, <2>3 DEF AllocBuffers, ClientsOut
  <2>4. CASE GetMsg \/ PeriodicReclaim \/ CmdFlush \/ CmdOffline \/ StopStep
             \/ InitRing \/ PhyStartup
    BY <2>4 DEF GetMsg, PeriodicReclaim, EnterReclaim, CmdFlush, CmdOffline, FlushTo, StopStep,
       UnitOffline, StopDma, StopReclaim, StopRetire, StopFree, InitRing, PhyStartup,
       Goto, TypeOK, ClientsOut
  <2>5. CASE XmitStep(Unit)
    BY <2>5, XmitMoves DEF Goto, TypeOK, ClientsOut, SharedSteps
  <2> QED BY <1>2, <2>2, <2>3, <2>4, <2>5 DEF UnitStep, StartStep
<1>3. CASE HwTransmit \/ Aside
  BY <1>3 DEF HwTransmit, Aside, taskVars, ClientsOut
<1> QED BY <1>1, <1>2, <1>3, NextCases

LEMMA NextExcl ==
  ASSUME QuietRestart = TRUE, TypeOK, ExclInv, [Next]_vars PROVE ExclInv'
<1>1. SemaphoreExclusion'
  <2>1. CASE HwTransmit \/ Aside
    BY <2>1 DEF HwTransmit, Aside, taskVars, semVars, ExclInv, SemaphoreExclusion, Depth
  <2> QED BY <2>1, ClientExcl, UnitExcl, NextCases
<1> QED BY <1>1, NextRoles, NextClientsOut DEF ExclInv

(* At most one task is inside the ring's critical section and the semaphore's
   owner and nesting count describe exactly that task, for any number of
   clients, through S2_OFFLINE and S2_ONLINE, provided no client is inside
   BeginIO while bcmgenet_init_tx_ring re-initialises the semaphore. *)
THEOREM Exclusion == QuietRestart = TRUE => (Spec => []SemaphoreExclusion)
<1> SUFFICES ASSUME QuietRestart = TRUE PROVE Spec => []SemaphoreExclusion
  OBVIOUS
<1>1. TypeOK /\ ExclInv /\ [Next]_vars => ExclInv'
  BY NextExcl
<1>2. ExclInv => SemaphoreExclusion
  BY DEF ExclInv
<1> QED BY <1>1, <1>2, InitExcl, TypeCorrect, PTL DEF Spec

(***************************************************************************)
(* Descriptor accounting.  Accounting and HwWindow are inductive together  *)
(* once each task inside the ring is known to have reserved what it is     *)
(* about to use: bcmgenet_xmit's test counts for all its later decrements. *)
(***************************************************************************)
TaskAcc(t) ==
    /\ pc[t] = "header" => free_bds >= 3
    /\ pc[t] \in {"body", "publish"} => free_bds >= 2
    /\ pc[t] \in {"reclaim", "stopRetire"} => Between(tx_cons_index, snap[t], hwCons)
RingAcc ==
    /\ free_bds + Dist(tx_cons_index, tx_prod_index) = TX_DESCS
    /\ free_bds >= 1
    /\ Between(tx_cons_index, hwProd, tx_prod_index)
    /\ Between(tx_cons_index, hwCons, hwProd)
AccInv == semInit => RingAcc /\ \A t \in Tasks : TaskAcc(t)

accVars == <<free_bds, tx_cons_index, tx_prod_index, hwProd, hwCons, semInit>>
Reserving == {"header", "body", "publish", "reclaim", "stopRetire"}

(* Distances on the index circle: a point between two others splits the
   distance, and advancing the far end by one adds one until it is full. *)
LEMMA DistSplit ==
  ASSUME NEW x \in Index, NEW y \in Index, NEW z \in Index, Between(x, y, z)
  PROVE  Dist(y, z) = Dist(x, z) - Dist(x, y)
  BY RingAssumption DEF Index, Dist, Between

LEMMA DistNext ==
  ASSUME NEW x \in Index, NEW y \in Index, Dist(x, y) + 1 < INDEX_SPAN
  PROVE  Dist(x, Wrap(y + 1, INDEX_SPAN)) = Dist(x, y) + 1
  BY RingAssumption DEF Index, Dist, Wrap

LEMMA DistInjective ==
  ASSUME NEW x \in Index, NEW y \in Index, NEW z \in Index, Dist(x, y) = Dist(x, z)
  PROVE  y = z
  BY RingAssumption DEF Index, Dist

LEMMA DistSelf == ASSUME NEW x \in Index PROVE Dist(x, x) = 0
  BY DEF Index, Dist

(* Who is inside the ring is there alone. *)
LEMMA Alone ==
  ASSUME TypeOK, SemaphoreExclusion, NEW t \in Tasks, pc[t] \in InnerSteps \/ CanObtain(t)
  PROVE  \A s \in Tasks \ {t} : pc[s] \notin InnerSteps /\ Depth(s) = 0
<1> SUFFICES ASSUME NEW s \in Tasks, s # t PROVE pc[s] \notin InnerSteps /\ Depth(s) = 0
  OBVIOUS
<1>1. Depth(s) \in 0 .. 2
  BY DepthNat DEF Depth
<1>2. pc[t] \in InnerSteps => owner = t
  BY DEF SemaphoreExclusion, Depth, DepthAt
<1>3. owner \in {NoTask, t}
  BY <1>2 DEF CanObtain
<1>4. ~(Depth(s) > 0)
  BY <1>3, TaskAssumption DEF SemaphoreExclusion
<1>5. Depth(s) = 0
  BY <1>1, <1>4
<1>6. pc[s] \in InnerSteps => Depth(s) > 0
  BY DEF Depth, DepthAt
<1> QED BY <1>4, <1>5, <1>6

(* A task that moves anywhere but into the ring disturbs nothing. *)
LEMMA MoveAcc ==
  ASSUME TypeOK, AccInv, UNCHANGED <<accVars, snap>>,
         NEW t \in Tasks, NEW step, Goto(t, step), step \notin Reserving
  PROVE  AccInv'
<1>1. \A s \in Tasks : TaskAcc(s) => TaskAcc(s)'
  BY DEF TaskAcc, Goto, TypeOK, Reserving, accVars, Between, Dist
<1>2. RingAcc => RingAcc'
  BY DEF RingAcc, accVars, Between, Dist
<1>3. semInit' = semInit
  BY DEF accVars
<1> QED BY <1>1, <1>2, <1>3 DEF AccInv

(* The index a reclaim takes is inside the window when it is taken. *)
LEMMA EnterReclaimAcc ==
  ASSUME TypeOK, AccInv, NEW t \in Tasks, NEW step \in {"reclaim", "stopRetire"},
         EnterReclaim(t, step)
  PROVE  AccInv'
<1>1. /\ UNCHANGED accVars /\ pc' = [pc EXCEPT ![t] = step]
      /\ snap' = [snap EXCEPT ![t] = hwCons]
  BY DEF EnterReclaim, Obtain, Goto, accVars, ringVars, hwVars
<1>2. TaskAcc(t)'
  <2>1. Dist(tx_cons_index, hwCons) \in Int
    BY DistType DEF TypeOK, Index
  <2>2. Between(tx_cons_index, hwCons, hwCons)
    BY <2>1 DEF Between
  <2>3. pc'[t] = step /\ snap'[t] = hwCons
    BY <1>1 DEF TypeOK
  <2> QED BY <1>1, <2>2, <2>3 DEF TaskAcc, accVars, Between, Dist
<1>3. ASSUME NEW s \in Tasks \ {t}, TaskAcc(s) PROVE TaskAcc(s)'
  <2>1. pc'[s] = pc[s] /\ snap'[s] = snap[s]
    BY <1>1 DEF TypeOK
  <2>2. free_bds' = free_bds /\ tx_cons_index' = tx_cons_index /\ hwCons' = hwCons
    BY <1>1 DEF accVars
  <2> QED BY <1>3, <2>1, <2>2 DEF TaskAcc, Between, Dist
<1>4. RingAcc => RingAcc'
  BY <1>1 DEF RingAcc, accVars, Between, Dist
<1> QED BY <1>1, <1>2, <1>3, <1>4 DEF AccInv, accVars

(* Retiring moves tx_cons_index to the index that was read: what it frees is
   what the window loses. *)
LEMMA RetireAcc ==
  ASSUME TypeOK, SemaphoreExclusion, AccInv, NEW t \in Tasks,
         pc[t] \in {"reclaim", "stopRetire"}, Retire(t),
         NEW step, Goto(t, step), step \notin Reserving
  PROVE  AccInv'
<1> SUFFICES ASSUME semInit PROVE RingAcc' /\ \A s \in Tasks : TaskAcc(s)'
  BY DEF AccInv, Retire, Release
<1>1. /\ snap[t] \in Index /\ tx_cons_index \in Index /\ tx_prod_index \in Index
      /\ hwProd \in Index /\ hwCons \in Index /\ free_bds \in Int
  BY DEF TypeOK
<1>2. /\ free_bds' = free_bds + Dist(tx_cons_index, snap[t]) /\ tx_cons_index' = snap[t]
      /\ UNCHANGED <<tx_prod_index, hwProd, hwCons>>
  BY DEF Retire, hwVars
<1>3. Between(tx_cons_index, snap[t], hwCons) /\ RingAcc
  BY DEF AccInv, TaskAcc
<1> DEFINE d(i) == Dist(tx_cons_index, i)
<1>4. /\ d(snap[t]) \in Nat /\ d(hwCons) \in Nat /\ d(hwProd) \in Nat /\ d(tx_prod_index) \in Nat
  <2>1. \A i \in Index : d(i) \in Index
    BY <1>1, DistType
  <2> QED BY <1>1, <2>1 DEF Index
<1>5. d(snap[t]) <= d(hwCons) /\ d(hwCons) <= d(hwProd) /\ d(hwProd) <= d(tx_prod_index)
  BY <1>3 DEF RingAcc, Between
<1>6. \A i \in {hwCons, hwProd, tx_prod_index} : Dist(snap[t], i) = d(i) - d(snap[t])
  BY <1>1, <1>4, <1>5, DistSplit DEF Between
<1>7. /\ Dist(snap[t], hwCons) = d(hwCons) - d(snap[t])
      /\ Dist(snap[t], hwProd) = d(hwProd) - d(snap[t])
      /\ Dist(snap[t], tx_prod_index) = d(tx_prod_index) - d(snap[t])
  BY <1>6
<1>8. free_bds + d(tx_prod_index) = TX_DESCS /\ free_bds >= 1
  BY <1>3 DEF RingAcc
<1>9. RingAcc'
  <2>1. free_bds' + Dist(tx_cons_index', tx_prod_index') = TX_DESCS /\ free_bds' >= 1
    <3> HIDE DEF d
    <3> QED BY <1>1, <1>2, <1>4, <1>7, <1>8 DEF d
  <2>2. Dist(snap[t], hwProd) <= Dist(snap[t], tx_prod_index)
    <3> HIDE DEF d
    <3> QED BY <1>4, <1>5, <1>7
  <2>3. Dist(snap[t], hwCons) <= Dist(snap[t], hwProd)
    <3> HIDE DEF d
    <3> QED BY <1>4, <1>5, <1>7
  <2> QED BY <1>2, <2>1, <2>2, <2>3 DEF RingAcc, Between, Dist
<1>10. TaskAcc(t)'
  BY DEF TaskAcc, Goto, TypeOK, Reserving
<1>11. ASSUME NEW s \in Tasks, s # t PROVE TaskAcc(s)'
  <2>1. pc[s] \notin InnerSteps
    BY <1>11, Alone DEF InnerSteps
  <2>2. pc'[s] = pc[s]
    BY <1>11 DEF Goto, TypeOK
  <2> QED BY <2>1, <2>2 DEF TaskAcc, InnerSteps
<1> QED BY <1>9, <1>10, <1>11

LEMMA InitAcc == Init => AccInv
  BY DEF Init, AccInv

(* bcmgenet_xmit: what the test at its start grants covers the descriptors it
   goes on to take. *)
LEMMA XmitAcc ==
  ASSUME TypeOK, ExclInv, AccInv, NEW t \in Tasks, XmitStep(t) PROVE AccInv'
<1> USE DEF ringVars, hwVars, semVars
<1> SemaphoreExclusion /\ UNCHANGED semInit
  BY DEF ExclInv, XmitStep, Reclaimed, Retire, RejectOffline, AcceptWrite, XmitEnter, XmitHeader,
         XmitBody, XmitPublish, XmitFail, Obtain, Release
<1>1. CASE Reclaimed(t)
  BY <1>1, RetireAcc DEF Reclaimed, Reserving
<1>2. CASE RejectOffline(t)
  BY <1>2, MoveAcc DEF RejectOffline, After, Reserving, accVars
<1>3. CASE AcceptWrite(t)
  BY <1>3, MoveAcc DEF AcceptWrite, Reserving, accVars
<1>4. CASE XmitEnter(t)
  <2>1. UNCHANGED <<accVars, snap>>
    BY <1>4 DEF XmitEnter, Obtain, accVars
  <2>2. CASE XmitRefused(req[t])
    BY <1>4, <2>1, <2>2, MoveAcc DEF XmitEnter, Reserving
  <2>3. CASE ~XmitRefused(req[t])
    <3>1. /\ pc' = [pc EXCEPT ![t] = IF req[t] \in RawReqs THEN "body" ELSE "header"]
          /\ free_bds > IF req[t] \in RawReqs THEN 1 ELSE 2
      <4>1. ~(free_bds <= BdsRequired(req[t]))
        BY <2>3 DEF XmitRefused
      <4>2. free_bds > BdsRequired(req[t])
        BY <4>1 DEF TypeOK, BdsRequired
      <4> QED BY <1>4, <2>3, <4>2 DEF XmitEnter, Goto, BdsRequired
    <3>2. ASSUME NEW s \in Tasks, TaskAcc(s) PROVE TaskAcc(s)'
      BY <2>1, <3>1, <3>2 DEF TaskAcc, TypeOK, accVars, Between, Dist
    <3>3. RingAcc => RingAcc'
      BY <2>1 DEF RingAcc, accVars, Between, Dist
    <3> QED BY <3>2, <3>3 DEF AccInv
  <2> QED BY <2>2, <2>3
<1>5. CASE XmitHeader(t)
  <2> SUFFICES ASSUME semInit PROVE RingAcc' /\ \A s \in Tasks : TaskAcc(s)'
    BY DEF AccInv
  <2>1. /\ pc[t] = "header" /\ free_bds >= 3 /\ RingAcc
    BY <1>5 DEF XmitHeader, AccInv, TaskAcc
  <2>2. /\ free_bds' = free_bds - 1 /\ tx_prod_index' = Wrap(tx_prod_index + 1, INDEX_SPAN)
        /\ UNCHANGED <<tx_cons_index, hwProd, hwCons, snap>>
        /\ pc' = [pc EXCEPT ![t] = "body"]
    BY <1>5 DEF XmitHeader, Goto
  <2>3. /\ Dist(tx_cons_index, tx_prod_index) \in Int /\ Dist(tx_cons_index, hwProd) \in Int
    BY DistType DEF TypeOK, Index
  <2>4. Dist(tx_cons_index, tx_prod_index') = Dist(tx_cons_index, tx_prod_index) + 1
    BY <2>1, <2>2, <2>3, DistNext, RingAssumption DEF RingAcc, TypeOK
  <2>5. RingAcc'
    <3>1. free_bds' + Dist(tx_cons_index', tx_prod_index') = TX_DESCS /\ free_bds' >= 1
      BY <2>1, <2>2, <2>3, <2>4 DEF RingAcc, TypeOK
    <3>2. Between(tx_cons_index', hwProd', tx_prod_index')
      BY <2>1, <2>2, <2>3, <2>4 DEF RingAcc, Between
    <3>3. Between(tx_cons_index', hwCons', hwProd')
      BY <2>1, <2>2 DEF RingAcc
    <3> QED BY <3>1, <3>2, <3>3 DEF RingAcc, Between, Dist
  <2>6. ASSUME NEW s \in Tasks PROVE TaskAcc(s)'
    <3>1. CASE s = t
      BY <2>1, <2>2, <3>1 DEF TaskAcc, TypeOK
    <3>2. CASE s # t
      <4>1. pc[s] \notin InnerSteps /\ pc'[s] = pc[s]
        BY <2>1, <2>2, <3>2, Alone DEF InnerSteps, TypeOK
      <4> QED BY <4>1 DEF TaskAcc, InnerSteps
    <3> QED BY <3>1, <3>2
  <2> QED BY <2>5, <2>6
<1>6. CASE XmitBody(t)
  <2>1. UNCHANGED <<accVars, snap>> /\ pc[t] = "body"
    BY <1>6 DEF XmitBody, accVars
  <2>2. PICK step \in {"publish", "fail"} : pc' = [pc EXCEPT ![t] = step]
    BY <1>6 DEF XmitBody, Goto
  <2>3. ASSUME NEW s \in Tasks, TaskAcc(s) PROVE TaskAcc(s)'
    BY <2>1, <2>2, <2>3 DEF TaskAcc, TypeOK, accVars, Between, Dist
  <2>4. RingAcc => RingAcc'
    BY <2>1 DEF RingAcc, accVars, Between, Dist
  <2> QED BY <2>3, <2>4 DEF AccInv
<1>7. CASE XmitPublish(t)
  <2> SUFFICES ASSUME semInit PROVE RingAcc' /\ \A s \in Tasks : TaskAcc(s)'
    BY DEF AccInv
  <2>1. /\ pc[t] = "publish" /\ free_bds >= 2 /\ RingAcc
    BY <1>7 DEF XmitPublish, AccInv, TaskAcc
  <2>2. /\ free_bds' = free_bds - 1 /\ tx_prod_index' = Wrap(tx_prod_index + 1, INDEX_SPAN)
        /\ hwProd' = tx_prod_index'
        /\ UNCHANGED <<tx_cons_index, hwCons, snap>>
        /\ pc' = [pc EXCEPT ![t] = After(t)]
    BY <1>7 DEF XmitPublish, Goto
  <2>3. /\ Dist(tx_cons_index, tx_prod_index) \in Int /\ Dist(tx_cons_index, hwProd) \in Int
        /\ Dist(tx_cons_index, hwCons) \in Int
    BY DistType DEF TypeOK, Index
  <2>4. Dist(tx_cons_index, tx_prod_index') = Dist(tx_cons_index, tx_prod_index) + 1
    BY <2>1, <2>2, <2>3, DistNext, RingAssumption DEF RingAcc, TypeOK
  <2>5. RingAcc'
    <3>1. free_bds' + Dist(tx_cons_index', tx_prod_index') = TX_DESCS /\ free_bds' >= 1
      BY <2>1, <2>2, <2>3, <2>4 DEF RingAcc, TypeOK
    <3>2. Between(tx_cons_index', hwProd', tx_prod_index')
      BY <2>2, <2>3, <2>4 DEF Between
    <3>3. Between(tx_cons_index', hwCons', hwProd')
      BY <2>1, <2>2, <2>3, <2>4 DEF RingAcc, Between
    <3> QED BY <3>1, <3>2, <3>3 DEF RingAcc, Between, Dist
  <2>6. ASSUME NEW s \in Tasks PROVE TaskAcc(s)'
    <3>1. CASE s = t
      BY <2>1, <2>2, <3>1 DEF TaskAcc, TypeOK, After
    <3>2. CASE s # t
      <4>1. pc[s] \notin InnerSteps /\ pc'[s] = pc[s]
        BY <2>1, <2>2, <3>2, Alone DEF InnerSteps, TypeOK
      <4> QED BY <4>1 DEF TaskAcc, InnerSteps
    <3> QED BY <3>1, <3>2
  <2> QED BY <2>5, <2>6
<1>8. CASE XmitFail(t)
  BY <1>8, MoveAcc DEF XmitFail, Release, After, Reserving, accVars
<1> QED
  BY <1>1, <1>2, <1>3, <1>4, <1>5, <1>6, <1>7, <1>8 DEF XmitStep

LEMMA ClientAcc ==
  ASSUME TypeOK, ExclInv, AccInv, NEW c \in Clients, BeginIO(c) \/ ClientStep(c)
  PROVE  AccInv'
<1> USE DEF ringVars, hwVars, semVars, Obtain, Release, Reserving, accVars
<1>1. ASSUME NEW r \in Reqs, BeginIOQuick(c, r) PROVE AccInv'
  BY <1>1, MoveAcc DEF BeginIOQuick
<1>2. ASSUME NEW r \in Reqs, BeginIOQueue(c, r) PROVE AccInv'
  BY <1>2 DEF BeginIOQueue, AccInv, RingAcc, TaskAcc, Between, Dist
<1>3. CASE QuickReclaim(c)
  BY <1>3, EnterReclaimAcc DEF QuickReclaim
<1>4. CASE QuickSkip(c)
  BY <1>4, MoveAcc DEF QuickSkip
<1>5. CASE LeaveBeginIO(c)
  BY <1>5, MoveAcc DEF LeaveBeginIO
<1> QED
  BY <1>1, <1>2, <1>3, <1>4, <1>5, XmitAcc DEF BeginIO, ClientStep

LEMMA UnitAcc ==
  ASSUME TypeOK, ExclInv, AccInv, UnitStep PROVE AccInv'
<1> USE DEF ringVars, hwVars, semVars, Obtain, Release, Reserving, accVars
<1> SemaphoreExclusion /\ Unit \in Tasks
  BY DEF ExclInv
<1>1. CASE GetMsg
  BY <1>1, MoveAcc DEF GetMsg
<1>2. CASE PeriodicReclaim
  BY <1>2, EnterReclaimAcc DEF PeriodicReclaim
<1>3. CASE CmdFlush \/ CmdOffline
  <2>1. PICK step \in {"wait", "offline"} : FlushTo(step)
    BY <1>3 DEF CmdFlush, CmdOffline
  <2> QED BY <2>1, MoveAcc DEF FlushTo
<1>4. CASE CmdConfigure \/ CmdOnline
  <2>1. PICK step \in {"online", "stopDma"} : Goto(Unit, step)
    BY <1>4 DEF CmdConfigure, CmdOnline
  <2> QED BY <1>4, <2>1, MoveAcc DEF CmdConfigure, CmdOnline
<1>5. CASE StopStep
  <2>1. CASE UnitOffline
    BY <2>1, MoveAcc DEF UnitOffline
  <2>2. CASE StopDma
    BY <2>2, MoveAcc DEF StopDma
  <2>3. CASE StopReclaim
    BY <2>3, EnterReclaimAcc DEF StopReclaim
  <2>4. CASE StopRetire
    BY <2>4, RetireAcc DEF StopRetire
  <2>5. CASE StopFree
    BY <2>5, MoveAcc DEF StopFree
  <2> QED BY <1>5, <2>1, <2>2, <2>3, <2>4, <2>5 DEF StopStep
<1>6. CASE AllocBuffers
  <2>1. PICK step \in {"initRing", "stopDma"} : Goto(Unit, step)
    BY <1>6 DEF AllocBuffers
  <2> QED BY <1>6, <2>1, MoveAcc DEF AllocBuffers
<1>7. CASE InitRing
  <2>1. \A s \in Tasks : pc'[s] \in {"idle", "phy"}
    BY <1>7 DEF InitRing, Goto, ExclInv, ClientsOut, TypeOK
  <2>2. Dist(hwCons, hwCons) = 0
    BY DistSelf DEF TypeOK
  <2>3. RingAcc'
    BY <1>7, <2>2, RingAssumption DEF InitRing, RingAcc, Between, Dist
  <2> QED BY <2>1, <2>3 DEF AccInv, TaskAcc
<1>8. CASE PhyStartup
  <2>1. PICK step \in {"wait", "stopDma"} : Goto(Unit, step)
    BY <1>8 DEF PhyStartup
  <2> QED BY <1>8, <2>1, MoveAcc DEF PhyStartup
<1>9. CASE XmitStep(Unit)
  BY <1>9, XmitAcc
<1> QED
  BY <1>1, <1>2, <1>3, <1>4, <1>5, <1>6, <1>7, <1>8, <1>9 DEF UnitStep, StartStep

(* The DMA engine stops at the producer index, so it stays inside the window. *)
LEMMA HwAcc == ASSUME TypeOK, AccInv, HwTransmit PROVE AccInv'
<1> SUFFICES ASSUME semInit PROVE RingAcc' /\ \A s \in Tasks : TaskAcc(s)'
  BY DEF AccInv, HwTransmit, semVars
<1>1. /\ hwCons # hwProd /\ hwCons' = Wrap(hwCons + 1, INDEX_SPAN)
      /\ UNCHANGED <<free_bds, tx_cons_index, tx_prod_index, hwProd, pc, snap>>
  BY DEF HwTransmit, ringVars, taskVars
<1>2. /\ tx_cons_index \in Index /\ hwCons \in Index /\ hwProd \in Index
      /\ snap \in [Tasks -> Index]
  BY DEF TypeOK
<1> DEFINE d(i) == Dist(tx_cons_index, i)
<1>3. \A i \in Index : d(i) \in 0 .. INDEX_SPAN - 1
  BY <1>2, DistType DEF Index
<1>4. d(hwCons) <= d(hwProd) /\ d(hwCons) # d(hwProd)
  BY <1>1, <1>2, DistInjective DEF AccInv, RingAcc, Between
<1>5. d(hwCons) < d(hwProd) /\ d(hwCons) + 1 < INDEX_SPAN
  <2> HIDE DEF d
  <2>1. d(hwCons) \in 0 .. INDEX_SPAN - 1 /\ d(hwProd) \in 0 .. INDEX_SPAN - 1
    BY <1>2, <1>3
  <2> QED BY <1>4, <2>1, RingAssumption
<1>6. Dist(tx_cons_index, hwCons') = d(hwCons) + 1
  BY <1>1, <1>2, <1>5, DistNext
<1>7. RingAcc'
  <2>1. Between(tx_cons_index, hwCons', hwProd)
    <3>1. d(hwCons) \in 0 .. INDEX_SPAN - 1 /\ d(hwProd) \in 0 .. INDEX_SPAN - 1
      BY <1>2, <1>3
    <3> HIDE DEF d
    <3>2. d(hwCons) + 1 <= d(hwProd)
      BY <1>5, <3>1
    <3> QED BY <1>6, <3>2 DEF Between, d
  <2>2. RingAcc
    BY DEF AccInv
  <2> QED BY <1>1, <2>1, <2>2 DEF RingAcc, Between, Dist
<1>8. ASSUME NEW s \in Tasks PROVE TaskAcc(s)'
  <2>1. TaskAcc(s)
    BY DEF AccInv
  <2>2. Between(tx_cons_index, snap[s], hwCons) => Between(tx_cons_index, snap[s], hwCons')
    <3>1. d(snap[s]) \in 0 .. INDEX_SPAN - 1 /\ d(hwCons) \in 0 .. INDEX_SPAN - 1
      BY <1>2, <1>3
    <3> HIDE DEF d
    <3>2. d(snap[s]) <= d(hwCons) => d(snap[s]) <= d(hwCons) + 1
      BY <3>1
    <3> QED BY <1>6, <3>2 DEF Between, d
  <2> QED BY <1>1, <2>1, <2>2 DEF TaskAcc, Between, Dist
<1> QED BY <1>7, <1>8

LEMMA NextAcc == ASSUME TypeOK, ExclInv, AccInv, [Next]_vars PROVE AccInv'
<1>1. CASE Aside
  BY <1>1 DEF Aside, ringVars, hwVars, semVars, AccInv, RingAcc, TaskAcc, Between, Dist
<1> QED BY <1>1, ClientAcc, UnitAcc, HwAcc, NextCases

(* free_bds is exact and never 0, and the hardware's index and every reading of
   it lie inside the driver's window, for every ring size and any clients. *)
THEOREM AccountingHolds == QuietRestart = TRUE => (Spec => [](Accounting /\ HwWindow))
<1> SUFFICES ASSUME QuietRestart = TRUE PROVE Spec => [](Accounting /\ HwWindow)
  OBVIOUS
<1>1. TypeOK /\ ExclInv /\ AccInv /\ [Next]_vars => ExclInv' /\ AccInv'
  BY NextExcl, NextAcc
<1>2. AccInv => Accounting /\ HwWindow
  BY DEF AccInv, RingAcc, TaskAcc, Accounting, HwWindow
<1> QED BY <1>1, <1>2, InitExcl, InitAcc, TypeCorrect, PTL DEF Spec

(***************************************************************************)
(* Lifetime of the packet buffers.  BuffersLive is inductive together with *)
(* where the unit task is while the unit is online, and with the fact that *)
(* taking the ring semaphore in bcmgenet_gmac_eth_stop waits out every     *)
(* client that had seen the unit online.                                   *)
(***************************************************************************)
Writing == {"xmit", "header", "body", "publish"}
BufInv ==
    /\ unitState = "ONLINE" => bufLive /\ pc[Unit] \in SharedSteps \cup {"wait", "offline"}
    /\ \A t \in Tasks : pc[t] \in Writing => bufLive
    /\ pc[Unit] \in {"stopRetire", "stopFree"} => \A t \in Tasks : pc[t] \notin Writing
    /\ dmaOn => bufLive
    /\ pc[Unit] \in {"stopReclaim", "stopRetire", "stopFree"} => ~dmaOn
    /\ pc[Unit] \in {"initRing", "phy"} => bufLive

LEMMA InitBuf == Init => BufInv
  BY DEF Init, BufInv, Writing

(* A client starts to write only from "command", and only when the unit is
   online; what else it does leaves the buffers alone. *)
LEMMA ClientBuf ==
  ASSUME TypeOK, BufInv, NEW c \in Clients, BeginIO(c) \/ ClientStep(c)
  PROVE  BufInv'
<1>1. UNCHANGED <<bufLive, unitState, dmaOn>>
  BY DEF BeginIO, BeginIOQuick, BeginIOQueue, ClientStep, QuickReclaim, QuickSkip, EnterReclaim,
     LeaveBeginIO, XmitStep, Reclaimed, Retire, RejectOffline, AcceptWrite, XmitEnter, XmitHeader,
     XmitBody, XmitPublish, XmitFail, unitVars, hwVars
<1>2. pc[Unit]' = pc[Unit] /\ \A t \in Tasks : t # c => pc'[t] = pc[t]
  BY ClientMoves, TaskAssumption DEF Goto, TypeOK
<1>3. pc'[c] \in Writing => pc[c] \in Writing \/ unitState = "ONLINE"
  BY DEF BeginIO, BeginIOQuick, BeginIOQueue, ClientStep, QuickReclaim, QuickSkip, EnterReclaim,
     LeaveBeginIO, XmitStep, Reclaimed, RejectOffline, AcceptWrite, XmitEnter, XmitHeader,
     XmitBody, XmitPublish, XmitFail, After, Goto, TypeOK, Writing
<1> QED BY <1>1, <1>2, <1>3 DEF BufInv, SharedSteps

(* The unit task's own writes. *)
LEMMA UnitWriteBuf ==
  ASSUME TypeOK, BufInv, XmitStep(Unit) PROVE BufInv'
<1>1. UNCHANGED <<bufLive, unitState, dmaOn>>
  BY DEF XmitStep, Reclaimed, Retire, RejectOffline, AcceptWrite, XmitEnter, XmitHeader,
     XmitBody, XmitPublish, XmitFail, unitVars, hwVars
<1>2. pc'[Unit] \in SharedSteps \cup {"wait"} /\ \A t \in Tasks : t # Unit => pc'[t] = pc[t]
  BY XmitMoves DEF Goto, TypeOK, SharedSteps
<1>3. pc'[Unit] \in Writing => pc[Unit] \in Writing \/ unitState = "ONLINE"
  BY DEF XmitStep, Reclaimed, RejectOffline, AcceptWrite, XmitEnter, XmitHeader,
     XmitBody, XmitPublish, XmitFail, After, Goto, TypeOK, Writing
<1> QED BY <1>1, <1>2, <1>3 DEF BufInv, SharedSteps

(* Starting, stopping and serving commands. *)
LEMMA UnitBuf ==
  ASSUME TypeOK, ExclInv, BufInv, UnitStep PROVE BufInv'
<1> USE DEF hwVars, unitVars, Goto, SharedSteps, Writing
<1>1. CASE GetMsg
  BY <1>1 DEF GetMsg, TypeOK, BufInv
<1>2. CASE PeriodicReclaim
  BY <1>2 DEF PeriodicReclaim, EnterReclaim, TypeOK, BufInv
<1>3. CASE CmdFlush
  BY <1>3 DEF CmdFlush, FlushTo, TypeOK, BufInv
<1>4. CASE CmdOffline
  BY <1>4 DEF CmdOffline, FlushTo, TypeOK, BufInv
<1>5. CASE CmdConfigure
  BY <1>5 DEF CmdConfigure, TypeOK, BufInv
<1>6. CASE CmdOnline
  BY <1>6 DEF CmdOnline, TypeOK, BufInv
<1>7. CASE UnitOffline
  BY <1>7 DEF UnitOffline, TypeOK, BufInv
<1>8. CASE StopDma
  BY <1>8 DEF StopDma, TypeOK, BufInv
<1>9. CASE StopReclaim
  <2>1. CanObtain(Unit) /\ UNCHANGED <<bufLive, unitState, dmaOn>>
    BY <1>9 DEF StopReclaim, EnterReclaim, Obtain
  <2>2. \A t \in Tasks \ {Unit} : pc[t] \notin Writing
    <3>1. \A t \in Tasks \ {Unit} : Depth(t) = 0
      BY <2>1, Alone DEF ExclInv
    <3> QED BY <3>1 DEF Depth, DepthAt, InnerSteps, OuterSteps
  <2> QED BY <1>9, <2>1, <2>2 DEF StopReclaim, EnterReclaim, TypeOK, BufInv
<1>10. CASE StopRetire
  BY <1>10 DEF StopRetire, Retire, TypeOK, BufInv
<1>11. CASE StopFree
  BY <1>11 DEF StopFree, TypeOK, BufInv
<1>12. CASE AllocBuffers
  BY <1>12 DEF AllocBuffers, TypeOK, BufInv
<1>13. CASE InitRing
  BY <1>13 DEF InitRing, TypeOK, BufInv
<1>14. CASE PhyStartup
  BY <1>14 DEF PhyStartup, TypeOK, BufInv
<1> QED
  BY <1>1, <1>2, <1>3, <1>4, <1>5, <1>6, <1>7, <1>8, <1>9, <1>10, <1>11, <1>12, <1>13, <1>14,
     UnitWriteBuf DEF UnitStep, StopStep, StartStep

LEMMA NextBuf == ASSUME TypeOK, ExclInv, BufInv, [Next]_vars PROVE BufInv'
<1>1. CASE HwTransmit \/ Aside
  BY <1>1 DEF HwTransmit, Aside, taskVars, hwVars, unitVars, BufInv
<1> QED BY <1>1, ClientBuf, UnitBuf, NextCases

(* No transmission copies into, and the DMA engine never reads, packet buffers
   that S2_OFFLINE or a failed S2_ONLINE has freed, whoever was inside BeginIO
   when the unit went down. *)
THEOREM BufferLifetime == QuietRestart = TRUE => (Spec => []BuffersLive)
<1> SUFFICES ASSUME QuietRestart = TRUE PROVE Spec => []BuffersLive
  OBVIOUS
<1>1. TypeOK /\ ExclInv /\ BufInv /\ [Next]_vars => ExclInv' /\ BufInv'
  BY NextExcl, NextBuf
<1>2. BufInv => BuffersLive
  BY DEF BufInv, BuffersLive, Writing
<1> QED BY <1>1, <1>2, InitExcl, InitBuf, TypeCorrect, PTL DEF Spec

(***************************************************************************)
(* Where a write request is: proofs that the driver's ring stays in step   *)
(* with the hardware, that a request is in one place from BeginIO to its   *)
(* completion and that the DMA engine finds only whole frames, for every   *)
(* ring size and any clients, when no client is inside BeginIO during      *)
(* S2_ONLINE and CopyFromBuff does not fail.                               *)
(***************************************************************************)

Publishing == IF \E t \in Tasks : pc[t] = "publish" THEN 1 ELSE 0
Taken == (TX_DESCS - free_bds) + Publishing

(* Before the first bcmgenet_init_tx_ring the ring is empty and nobody is in it. *)
StartInv ==
    /\ ~semInit => owner = NoTask /\ \A s \in Slots : cb[s] = NoReq
    /\ semInit => sessions >= 1
    /\ pc[Unit] = "initRing" => sessions >= (IF semInit THEN 2 ELSE 1)

(* The pointers follow the indices: write_ptr is ahead while a task is between
   bcmgenet_get_txcb and the write of the descriptor. *)
AlignInv ==
    semInit => /\ clean_ptr = Slot(tx_cons_index)
               /\ write_ptr = Slot(tx_prod_index + Publishing)

(* Only the slots from clean_ptr to write_ptr hold a request. *)
HeldInv ==
    semInit => \A s \in Slots : cb[s] # NoReq =>
                   \E k \in 0 .. Taken - 1 : s = Slot(tx_cons_index + k)

(* A task that is done with a request has put it down. *)
HandInv ==
    /\ \A t \in Tasks : pc[t] \in {"idle", "leave"} \cup UnitSteps => req[t] = NoReq
    /\ pc[Unit] = "reclaim" => req[Unit] = NoReq

RingInv == StartInv /\ AlignInv /\ HeldInv /\ HandInv

(***************************************************************************)
(* Slots and indices.                                                      *)
(***************************************************************************)
(* INDEX_SPAN is a whole number of rings. *)
LEMMA SpanSlot == ASSUME NEW i \in Nat PROVE Slot(i + INDEX_SPAN) = Slot(i)
<1>1. PICK k \in Int : INDEX_SPAN = TX_DESCS * k
  BY Multiple, RingAssumption
<1>2. ASSUME NEW n \in Nat \ {0}, NEW a \in Nat, NEW b \in Nat, NEW j \in Int, b = a + n * j
      PROVE  a % n = b % n
  BY <1>2, SameRemainder
<1>3. i + INDEX_SPAN \in Nat /\ TX_DESCS \in Nat \ {0} /\ i + INDEX_SPAN = i + TX_DESCS * k
  BY <1>1, RingAssumption
<1> QED BY <1>2, <1>3 DEF Slot

(* Advancing an index by one advances its slot by one. *)
LEMMA NextSlot ==
  ASSUME NEW i \in Index
  PROVE  /\ Slot(Wrap(i + 1, INDEX_SPAN)) = Slot(i + 1)
         /\ Wrap(Slot(i) + 1, TX_DESCS) = Slot(i + 1)
<1>1. Slot(Wrap(i + 1, INDEX_SPAN)) = Slot(i + 1)
  <2>1. CASE i + 1 >= INDEX_SPAN
    <3>1. i + 1 = 0 + INDEX_SPAN /\ Wrap(i + 1, INDEX_SPAN) = 0
      BY <2>1, RingAssumption DEF Index, Wrap
    <3> QED BY <3>1, SpanSlot
  <2>2. CASE ~(i + 1 >= INDEX_SPAN)
    BY <2>2 DEF Wrap
  <2> QED BY <2>1, <2>2
<1>2. Wrap(Slot(i) + 1, TX_DESCS) = Slot(i + 1)
  <2>1. TX_DESCS \in Nat \ {0} /\ i \in Nat /\ Slot(i) \in Slots
    BY RingAssumption, SlotType DEF Index
  <2>2. (Slot(i) + 1) % TX_DESCS = (i + 1) % TX_DESCS
    BY <2>1, AddRemainder DEF Slot
  <2>3. Wrap(Slot(i) + 1, TX_DESCS) = (Slot(i) + 1) % TX_DESCS
    <3>1. PICK x \in Slots : x = Slot(i)
      BY <2>1
    <3>2. CASE x + 1 = TX_DESCS
      BY <2>1, <3>1, <3>2 DEF Slots, Wrap
    <3>3. CASE x + 1 < TX_DESCS
      BY <2>1, <3>1, <3>3 DEF Slots, Wrap
    <3> QED BY <2>1, <3>1, <3>2, <3>3 DEF Slots
  <2> QED BY <2>2, <2>3 DEF Slot
<1> QED BY <1>1, <1>2

(* The slot at some distance from an index is the slot of the index there. *)
LEMMA DistSlot ==
  ASSUME NEW x \in Index, NEW y \in Index
  PROVE  Slot(x + Dist(x, y)) = Slot(y)
<1>1. CASE y >= x
  BY <1>1, RingAssumption DEF Index, Dist
<1>2. CASE ~(y >= x)
  <2>1. x + Dist(x, y) = y + INDEX_SPAN /\ y \in Nat
    BY <1>2, RingAssumption DEF Index, Dist
  <2> QED BY <2>1, SpanSlot
<1> QED BY <1>1, <1>2

(* Moving on from a slot. *)
LEMMA SlotSum ==
  ASSUME NEW i \in Nat, NEW k \in Nat PROVE Slot(Slot(i) + k) = Slot(i + k)
<1> TX_DESCS \in Nat \ {0}
  BY RingAssumption
<1> QED BY AddRemainder DEF Slot

(* Slots less than a ring apart differ. *)
LEMMA SlotApart ==
  ASSUME NEW i \in Nat, NEW j \in Nat, i < j, j < i + TX_DESCS PROVE Slot(i) # Slot(j)
<1> TX_DESCS \in Nat \ {0}
  BY RingAssumption
<1> QED BY Apart DEF Slot

(***************************************************************************)
(* The pointers and the slots in use.  Every step keeps the ring, retires  *)
(* slots, takes one or starts afresh.                                      *)
(***************************************************************************)
LEMMA KeepRing ==
  ASSUME AlignInv /\ HeldInv, UNCHANGED <<ringVars, semInit>>,
         \A t \in Tasks : pc'[t] = "publish" <=> pc[t] = "publish"
  PROVE  AlignInv' /\ HeldInv'
<1>1. Publishing' = Publishing
  BY DEF Publishing
<1> QED BY <1>1 DEF AlignInv, HeldInv, Taken, ringVars

(* Who is inside the ring is the only one who can be publishing. *)
LEMMA OnlyPublisher ==
  ASSUME TypeOK, SemaphoreExclusion, NEW t \in Tasks, pc[t] \in InnerSteps
  PROVE  /\ Publishing = IF pc[t] = "publish" THEN 1 ELSE 0
         /\ \A step : Goto(t, step) => Publishing' = IF step = "publish" THEN 1 ELSE 0
<1>1. \A s \in Tasks \ {t} : pc[s] # "publish"
  BY Alone DEF InnerSteps
<1>2. ASSUME NEW step, Goto(t, step)
      PROVE  pc'[t] = step /\ \A s \in Tasks \ {t} : pc'[s] = pc[s]
  BY <1>2 DEF Goto, TypeOK
<1> QED BY <1>1, <1>2 DEF Publishing

(* What the window holds while a task is inside the ring. *)
LEMMA InsideRing ==
  ASSUME TypeOK, ExclInv, AccInv, StartInv, NEW t \in Tasks, pc[t] \in InnerSteps
  PROVE  /\ semInit /\ RingAcc /\ TaskAcc(t) /\ SemaphoreExclusion
         /\ Dist(tx_cons_index, tx_prod_index) = TX_DESCS - free_bds
         /\ tx_cons_index \in Nat /\ tx_prod_index \in Nat /\ free_bds \in Int
         /\ Slot(tx_cons_index + (TX_DESCS - free_bds)) = Slot(tx_prod_index)
         /\ TX_DESCS - free_bds \in Nat
<1>1. owner = t
  BY DEF ExclInv, SemaphoreExclusion, Depth, DepthAt
<1>2. semInit
  BY <1>1, TaskAssumption DEF StartInv, Tasks
<1>3. RingAcc /\ TaskAcc(t)
  BY <1>2 DEF AccInv
<1>4. tx_cons_index \in Index /\ tx_prod_index \in Index /\ free_bds \in Int
  BY DEF TypeOK
<1>5. Dist(tx_cons_index, tx_prod_index) \in Nat
  BY <1>4, DistType DEF Index
<1>6. Dist(tx_cons_index, tx_prod_index) = TX_DESCS - free_bds
  BY <1>3, <1>4, <1>5, RingAssumption DEF RingAcc
<1> QED BY <1>2, <1>3, <1>4, <1>5, <1>6, DistSlot DEF ExclInv, Index

(* What a reclaim frees is the first slots of the window. *)
LEMMA Freed ==
  ASSUME TypeOK, ExclInv, AccInv, StartInv, AlignInv, NEW t \in Tasks,
         pc[t] \in {"reclaim", "stopRetire"}, NEW n \in Nat
  PROVE  RetireSlots(n) = {Slot(tx_cons_index + j) : j \in 0 .. n - 1}
<1>1. clean_ptr = Slot(tx_cons_index) /\ tx_cons_index \in Nat
  BY InsideRing DEF AlignInv, InnerSteps
<1>2. \A j \in 0 .. n - 1 : Slot(clean_ptr + j) = Slot(tx_cons_index + j)
  BY <1>1, SlotSum
<1> QED BY <1>2 DEF RetireSlots

LEMMA RetireRing ==
  ASSUME TypeOK, ExclInv, AccInv, RingInv, NEW t \in Tasks,
         pc[t] \in {"reclaim", "stopRetire"}, Retire(t),
         NEW step, Goto(t, step), step # "publish"
  PROVE  AlignInv' /\ HeldInv'
<1> StartInv /\ AlignInv /\ HeldInv
  BY DEF RingInv
<1>1. /\ semInit /\ RingAcc /\ TaskAcc(t) /\ SemaphoreExclusion
      /\ Dist(tx_cons_index, tx_prod_index) = TX_DESCS - free_bds
      /\ tx_cons_index \in Nat /\ tx_prod_index \in Nat /\ free_bds \in Int
  BY InsideRing DEF InnerSteps
<1>2. Publishing = 0 /\ Publishing' = 0
  BY <1>1, OnlyPublisher DEF InnerSteps
<1>3. PICK n \in Nat : n = Dist(tx_cons_index, snap[t])
  <2>1. tx_cons_index \in Index /\ snap[t] \in Index
    BY DEF TypeOK
  <2>2. Dist(tx_cons_index, snap[t]) \in Index
    BY <2>1, DistType
  <2>3. Index \subseteq Nat
    BY DEF Index
  <2> QED BY <2>2, <2>3
<1>4. /\ clean_ptr' = Slot(clean_ptr + n) /\ tx_cons_index' = snap[t]
      /\ free_bds' = free_bds + n /\ UNCHANGED <<write_ptr, tx_prod_index>>
      /\ cb' = [s \in Slots |-> IF s \in RetireSlots(n) THEN NoReq ELSE cb[s]]
  BY <1>3 DEF Retire
<1>5. clean_ptr = Slot(tx_cons_index) /\ write_ptr = Slot(tx_prod_index + 0)
  BY <1>1, <1>2 DEF AlignInv
<1>6. Slot(tx_cons_index + n) = Slot(snap[t]) /\ snap[t] \in Nat
  BY <1>3, DistSlot DEF TypeOK, Index
<1>7. clean_ptr' = Slot(tx_cons_index')
  BY <1>1, <1>3, <1>4, <1>5, <1>6, SlotSum
<1>8. ASSUME NEW s \in Slots, cb'[s] # NoReq
      PROVE  \E k \in 0 .. Taken' - 1 : s = Slot(tx_cons_index' + k)
  <2>1. cb[s] # NoReq /\ s \notin RetireSlots(n)
    BY <1>4, <1>8
  <2>2. PICK k \in 0 .. Taken - 1 : s = Slot(tx_cons_index + k)
    BY <1>1, <2>1 DEF HeldInv
  <2>3. k \notin 0 .. n - 1
    BY <2>1, <2>2, Freed
  <2>4. PICK m \in Nat : k = n + m
    <3>1. k - n \in Nat /\ k = n + (k - n)
      BY <1>3, <2>3
    <3> QED BY <3>1
  <2>5. Slot(tx_cons_index + k) = Slot(Slot(tx_cons_index + n) + m)
    <3>1. tx_cons_index + n \in Nat /\ (tx_cons_index + n) + m = tx_cons_index + k
      BY <1>1, <1>3, <2>4
    <3> QED BY <3>1, SlotSum
  <2>6. Slot(Slot(snap[t]) + m) = Slot(snap[t] + m)
    BY <1>6, SlotSum
  <2>7. m \in 0 .. Taken' - 1
    BY <1>1, <1>2, <1>3, <1>4, <2>4, RingAssumption DEF Taken
  <2> QED BY <1>4, <1>6, <2>2, <2>5, <2>6, <2>7
<1> QED BY <1>2, <1>4, <1>5, <1>7, <1>8 DEF AlignInv, HeldInv

(* The slot bcmgenet_get_txcb takes is the first one after the window, and free. *)
LEMMA NextFree ==
  ASSUME TypeOK, ExclInv, AccInv, RingInv, NEW t \in Tasks, pc[t] \in {"header", "body"}
  PROVE  /\ write_ptr = Slot(tx_prod_index) /\ write_ptr \in Slots
         /\ write_ptr = Slot(tx_cons_index + Taken)
         /\ Wrap(write_ptr + 1, TX_DESCS) = Slot(tx_prod_index + 1)
         /\ cb[write_ptr] = NoReq
         /\ Taken \in Nat /\ Taken < TX_DESCS
         /\ Taken = TX_DESCS - free_bds
<1> StartInv /\ AlignInv /\ HeldInv
  BY DEF RingInv
<1>1. /\ semInit /\ RingAcc /\ TaskAcc(t) /\ SemaphoreExclusion
      /\ Dist(tx_cons_index, tx_prod_index) = TX_DESCS - free_bds
      /\ tx_cons_index \in Nat /\ tx_prod_index \in Nat /\ free_bds \in Int
      /\ Slot(tx_cons_index + (TX_DESCS - free_bds)) = Slot(tx_prod_index)
      /\ TX_DESCS - free_bds \in Nat
  BY InsideRing DEF InnerSteps
<1>2. Publishing = 0
  BY <1>1, OnlyPublisher DEF InnerSteps
<1>3. Taken = TX_DESCS - free_bds /\ Taken \in Nat /\ Taken < TX_DESCS
  BY <1>1, <1>2, RingAssumption DEF Taken, TaskAcc
<1>4. write_ptr = Slot(tx_prod_index) /\ write_ptr \in Slots
  BY <1>1, <1>2 DEF AlignInv, TypeOK
<1>5. write_ptr = Slot(tx_cons_index + Taken)
  BY <1>1, <1>3, <1>4
<1>6. cb[write_ptr] = NoReq
  <2> SUFFICES ASSUME cb[write_ptr] # NoReq PROVE FALSE
    OBVIOUS
  <2>1. PICK k \in 0 .. Taken - 1 : write_ptr = Slot(tx_cons_index + k)
    BY <1>1, <1>4 DEF HeldInv
  <2>2. /\ tx_cons_index + k \in Nat /\ tx_cons_index + Taken \in Nat
        /\ tx_cons_index + k < tx_cons_index + Taken
        /\ tx_cons_index + Taken < (tx_cons_index + k) + TX_DESCS
    BY <1>1, <1>3, RingAssumption
  <2> QED BY <1>5, <2>1, <2>2, SlotApart
<1>7. Wrap(write_ptr + 1, TX_DESCS) = Slot(tx_prod_index + 1)
  BY <1>4, NextSlot DEF TypeOK
<1> QED BY <1>3, <1>4, <1>5, <1>6, <1>7

LEMMA HeaderRing ==
  ASSUME TypeOK, ExclInv, AccInv, RingInv, NEW t \in Tasks, XmitHeader(t)
  PROVE  AlignInv' /\ HeldInv'
<1> AlignInv /\ HeldInv
  BY DEF RingInv
<1>1. /\ pc[t] = "header" /\ Goto(t, "body")
      /\ write_ptr' = Wrap(write_ptr + 1, TX_DESCS)
      /\ cb' = [cb EXCEPT ![write_ptr] = NoReq]
      /\ free_bds' = free_bds - 1 /\ tx_prod_index' = Wrap(tx_prod_index + 1, INDEX_SPAN)
      /\ UNCHANGED <<clean_ptr, tx_cons_index, semInit>>
  BY DEF XmitHeader, semVars
<1>2. semInit /\ SemaphoreExclusion /\ tx_prod_index \in Nat /\ free_bds \in Int
  BY <1>1, InsideRing DEF InnerSteps, RingInv
<1>3. Publishing = 0 /\ Publishing' = 0
  BY <1>1, <1>2, OnlyPublisher DEF InnerSteps
<1>4. /\ Wrap(write_ptr + 1, TX_DESCS) = Slot(tx_prod_index + 1)
      /\ Taken \in Nat /\ Taken = TX_DESCS - free_bds
  BY <1>1, NextFree
<1>5. Slot(tx_prod_index') = Slot(tx_prod_index + 1)
  BY <1>1, NextSlot DEF TypeOK
<1>6. AlignInv'
  <2>1. tx_prod_index' + 0 = tx_prod_index'
    BY <1>1, <1>2, RingAssumption DEF Wrap
  <2> QED BY <1>1, <1>2, <1>3, <1>4, <1>5, <2>1 DEF AlignInv
<1>7. ASSUME NEW s \in Slots, cb'[s] # NoReq
      PROVE  \E k \in 0 .. Taken' - 1 : s = Slot(tx_cons_index' + k)
  <2>1. cb[s] # NoReq
    BY <1>1, <1>7 DEF TypeOK
  <2>2. PICK k \in 0 .. Taken - 1 : s = Slot(tx_cons_index + k)
    BY <1>2, <2>1 DEF HeldInv
  <2>3. Taken' = Taken + 1
    BY <1>1, <1>2, <1>3, <1>4, RingAssumption DEF Taken
  <2> QED BY <1>1, <1>4, <2>2, <2>3
<1> QED BY <1>6, <1>7 DEF HeldInv

(* The control block is filled in and write_ptr is one ahead. *)
LEMMA BodyRing ==
  ASSUME CopyMayFail = FALSE, TypeOK, ExclInv, AccInv, RingInv, NEW t \in Tasks, XmitBody(t)
  PROVE  AlignInv' /\ HeldInv'
<1> AlignInv /\ HeldInv
  BY DEF RingInv
<1>1. /\ pc[t] = "body" /\ Goto(t, "publish")
      /\ write_ptr' = Wrap(write_ptr + 1, TX_DESCS)
      /\ cb' = [cb EXCEPT ![write_ptr] = req[t]]
      /\ UNCHANGED <<clean_ptr, tx_cons_index, tx_prod_index, free_bds, semInit>>
  BY DEF XmitBody, semVars
<1>2. semInit /\ SemaphoreExclusion /\ tx_prod_index \in Nat /\ free_bds \in Int
  BY <1>1, InsideRing DEF InnerSteps, RingInv
<1>3. Publishing = 0 /\ Publishing' = 1
  BY <1>1, <1>2, OnlyPublisher DEF InnerSteps
<1>4. /\ Wrap(write_ptr + 1, TX_DESCS) = Slot(tx_prod_index + 1)
      /\ Taken \in Nat /\ write_ptr = Slot(tx_cons_index + Taken)
  BY <1>1, NextFree
<1>5. Taken' = Taken + 1
  BY <1>1, <1>2, <1>3, RingAssumption DEF Taken
<1>6. AlignInv'
  BY <1>1, <1>3, <1>4 DEF AlignInv
<1>7. ASSUME NEW s \in Slots, cb'[s] # NoReq
      PROVE  \E k \in 0 .. Taken' - 1 : s = Slot(tx_cons_index' + k)
  <2>1. CASE s = write_ptr
    <3>1. Taken \in 0 .. Taken' - 1
      BY <1>4, <1>5
    <3> QED BY <1>1, <1>4, <2>1, <3>1
  <2>2. CASE s # write_ptr
    <3>1. cb[s] # NoReq
      BY <1>1, <1>7, <2>2 DEF TypeOK
    <3>2. PICK k \in 0 .. Taken - 1 : s = Slot(tx_cons_index + k)
      BY <1>2, <3>1 DEF HeldInv
    <3> QED BY <1>1, <1>4, <1>5, <3>2
  <2> QED BY <2>1, <2>2
<1> QED BY <1>6, <1>7 DEF HeldInv

(* The index catches up with write_ptr. *)
LEMMA PublishRing ==
  ASSUME TypeOK, ExclInv, AccInv, RingInv, NEW t \in Tasks, XmitPublish(t)
  PROVE  AlignInv' /\ HeldInv'
<1> AlignInv /\ HeldInv
  BY DEF RingInv
<1>1. /\ pc[t] = "publish" /\ Goto(t, After(t)) /\ After(t) # "publish"
      /\ free_bds' = free_bds - 1 /\ tx_prod_index' = Wrap(tx_prod_index + 1, INDEX_SPAN)
      /\ UNCHANGED <<clean_ptr, tx_cons_index, write_ptr, cb, semInit>>
  BY DEF XmitPublish, Release, After
<1>2. semInit /\ SemaphoreExclusion /\ tx_prod_index \in Nat /\ free_bds \in Int
  BY <1>1, InsideRing DEF InnerSteps, RingInv
<1>3. Publishing = 1 /\ Publishing' = 0
  BY <1>1, <1>2, OnlyPublisher DEF InnerSteps
<1>4. Taken' = Taken
  BY <1>1, <1>2, <1>3, RingAssumption DEF Taken
<1>5. Slot(tx_prod_index') = Slot(tx_prod_index + 1)
  BY <1>1, NextSlot DEF TypeOK
<1>6. tx_prod_index' + 0 = tx_prod_index'
  BY <1>1, <1>2, RingAssumption DEF Wrap
<1>7. AlignInv'
  BY <1>1, <1>2, <1>3, <1>5, <1>6 DEF AlignInv
<1>8. HeldInv'
  BY <1>1, <1>4 DEF HeldInv
<1> QED BY <1>7, <1>8

LEMMA XmitRing ==
  ASSUME CopyMayFail = FALSE, TypeOK, ExclInv, AccInv, RingInv, NEW t \in Tasks, XmitStep(t)
  PROVE  AlignInv' /\ HeldInv'
<1> AlignInv /\ HeldInv
  BY DEF RingInv
<1>1. CASE Reclaimed(t)
  BY <1>1, RetireRing DEF Reclaimed
<1>2. CASE RejectOffline(t) \/ AcceptWrite(t) \/ XmitEnter(t) \/ XmitFail(t)
  <2>1. UNCHANGED <<ringVars, semInit>>
    BY <1>2 DEF RejectOffline, AcceptWrite, XmitEnter, XmitFail, Obtain, Release, semVars
  <2>2. pc[t] # "publish" /\ \E step \in AllSteps \ {"publish"} : Goto(t, step)
    BY <1>2 DEF RejectOffline, AcceptWrite, XmitEnter, XmitFail, After,
       AllSteps, ClientSteps, SharedSteps, UnitSteps
  <2>3. \A s \in Tasks : pc'[s] = "publish" <=> pc[s] = "publish"
    BY <2>2 DEF Goto, TypeOK
  <2> QED BY <2>1, <2>3, KeepRing
<1> QED
  BY <1>1, <1>2, HeaderRing, BodyRing, PublishRing DEF XmitStep

LEMMA ClientRing ==
  ASSUME CopyMayFail = FALSE, TypeOK, ExclInv, AccInv, RingInv,
         NEW c \in Clients, BeginIO(c) \/ ClientStep(c)
  PROVE  AlignInv' /\ HeldInv'
<1> AlignInv /\ HeldInv /\ c \in Tasks
  BY DEF RingInv, Tasks
<1>1. CASE BeginIO(c) \/ QuickReclaim(c) \/ QuickSkip(c) \/ LeaveBeginIO(c)
  <2>1. UNCHANGED <<ringVars, semInit>>
    BY <1>1 DEF BeginIO, BeginIOQuick, BeginIOQueue, QuickReclaim, EnterReclaim, QuickSkip,
       LeaveBeginIO, Obtain, Release, semVars
  <2>2. \/ UNCHANGED pc
        \/ pc[c] # "publish" /\ \E step \in {"quick", "reclaim", "command", "idle"} : Goto(c, step)
    BY <1>1 DEF BeginIO, BeginIOQuick, BeginIOQueue, QuickReclaim, EnterReclaim, QuickSkip,
       LeaveBeginIO
  <2>3. \A s \in Tasks : pc'[s] = "publish" <=> pc[s] = "publish"
    BY <2>2 DEF Goto, TypeOK
  <2> QED BY <2>1, <2>3, KeepRing
<1> QED
  BY <1>1, XmitRing DEF ClientStep

LEMMA UnitRing ==
  ASSUME CopyMayFail = FALSE, TypeOK, ExclInv, AccInv, RingInv, UnitStep
  PROVE  AlignInv' /\ HeldInv'
<1> AlignInv /\ HeldInv /\ Unit \in Tasks
  BY DEF RingInv, Tasks
<1>1. CASE StopRetire
  BY <1>1, RetireRing DEF StopRetire
<1>2. CASE InitRing
  <2>1. \A s \in Tasks : pc'[s] \in {"idle", "phy"}
    BY <1>2 DEF InitRing, Goto, ExclInv, ClientsOut, TypeOK, Tasks
  <2>2. Publishing' = 0
    BY <2>1 DEF Publishing
  <2>3. hwCons + 0 = hwCons
    BY RingAssumption DEF TypeOK, Index
  <2>4. AlignInv'
    BY <1>2, <2>2, <2>3 DEF InitRing, AlignInv
  <2>5. HeldInv'
    BY <1>2 DEF InitRing, HeldInv
  <2> QED BY <2>4, <2>5
<1>3. CASE GetMsg \/ PeriodicReclaim \/ CmdFlush \/ CmdOffline \/ CmdConfigure \/ CmdOnline
           \/ UnitOffline \/ StopDma \/ StopReclaim \/ StopFree \/ AllocBuffers \/ PhyStartup
  <2>1. UNCHANGED <<ringVars, semInit>>
    BY <1>3 DEF GetMsg, PeriodicReclaim, EnterReclaim, CmdFlush, CmdOffline, FlushTo, CmdConfigure,
       CmdOnline, UnitOffline, StopDma, StopReclaim, StopFree, AllocBuffers, PhyStartup, Obtain, semVars
  <2>2. pc[Unit] # "publish" /\ \E step \in AllSteps \ {"publish"} : Goto(Unit, step)
    BY <1>3 DEF GetMsg, PeriodicReclaim, EnterReclaim, CmdFlush, CmdOffline, FlushTo, CmdConfigure,
       CmdOnline, UnitOffline, StopDma, StopReclaim, StopFree, AllocBuffers, PhyStartup,
       AllSteps, ClientSteps, SharedSteps, UnitSteps
  <2>3. \A s \in Tasks : pc'[s] = "publish" <=> pc[s] = "publish"
    BY <2>2 DEF Goto, TypeOK
  <2> QED BY <2>1, <2>3, KeepRing
<1> QED
  BY <1>1, <1>2, <1>3, XmitRing DEF UnitStep, StopStep, StartStep

LEMMA NextRing ==
  ASSUME CopyMayFail = FALSE, TypeOK, ExclInv, AccInv, RingInv, [Next]_vars
  PROVE  AlignInv' /\ HeldInv'
<1> AlignInv /\ HeldInv
  BY DEF RingInv
<1>1. CASE HwTransmit \/ Aside
  BY <1>1, KeepRing DEF HwTransmit, Aside, semVars, taskVars
<1> QED BY <1>1, ClientRing, UnitRing, NextCases

(***************************************************************************)
(* Before the first start, and what a task has in its hand.                *)
(***************************************************************************)
(* Nobody is inside the ring before the semaphore is initialised. *)
LEMMA NobodyIn ==
  ASSUME ExclInv, StartInv, ~semInit
  PROVE  \A t \in Tasks : pc[t] \notin InnerSteps /\ (t # Unit => pc[t] = "idle")
<1> SUFFICES ASSUME NEW t \in Tasks PROVE pc[t] \notin InnerSteps /\ (t # Unit => pc[t] = "idle")
  OBVIOUS
<1>1. owner # t
  BY TaskAssumption DEF StartInv, Tasks
<1>2. ~(Depth(t) > 0)
  BY <1>1 DEF ExclInv, SemaphoreExclusion
<1>3. t # Unit => pc[t] \in ClientSteps \cup SharedSteps
  BY DEF ExclInv, Roles, Tasks
<1> QED BY <1>2, <1>3 DEF Depth, DepthAt, InnerSteps, OuterSteps, ClientSteps, SharedSteps

(* A step that starts nothing. *)
LEMMA KeepStart ==
  ASSUME StartInv, UNCHANGED <<semInit, sessions>>, pc'[Unit] = "initRing" => pc[Unit] = "initRing",
         ~semInit => UNCHANGED <<cb, owner>>
  PROVE  StartInv'
BY DEF StartInv

LEMMA ClientStart ==
  ASSUME TypeOK, ExclInv, StartInv, NEW c \in Clients, BeginIO(c) \/ ClientStep(c)
  PROVE  StartInv'
<1> c \in Tasks /\ c # Unit
  BY TaskAssumption DEF Tasks
<1>1. UNCHANGED <<semInit, sessions>>
  BY DEF BeginIO, BeginIOQuick, BeginIOQueue, ClientStep, QuickReclaim, QuickSkip, EnterReclaim,
     LeaveBeginIO, XmitStep, Reclaimed, Retire, RejectOffline, AcceptWrite, XmitEnter, XmitHeader,
     XmitBody, XmitPublish, XmitFail, unitVars, semVars, Obtain, Release
<1>2. pc'[Unit] = pc[Unit]
  BY ClientMoves DEF Goto, TypeOK, Tasks
<1>3. ASSUME ~semInit PROVE UNCHANGED <<cb, owner>>
  <2>1. pc[c] = "idle" /\ ~CanObtain(c)
    BY <1>3, NobodyIn DEF CanObtain
  <2> QED
    BY <2>1 DEF BeginIO, BeginIOQuick, BeginIOQueue, ClientStep, QuickReclaim, QuickSkip,
       LeaveBeginIO, XmitStep, Reclaimed, RejectOffline, AcceptWrite, XmitEnter, XmitHeader,
       XmitBody, XmitPublish, XmitFail, Obtain, ringVars, semVars
<1> QED BY <1>1, <1>2, <1>3, KeepStart

LEMMA UnitStart ==
  ASSUME TypeOK, ExclInv, StartInv, UnitStep PROVE StartInv'
<1> Unit \in Tasks
  BY DEF Tasks
<1>1. CASE AllocBuffers
  BY <1>1 DEF AllocBuffers, StartInv, TypeOK, Tasks, ringVars, semVars, Goto
<1>2. CASE InitRing
  BY <1>2 DEF InitRing, StartInv, TypeOK, Tasks, unitVars, Goto
<1>3. CASE GetMsg \/ PeriodicReclaim \/ CmdFlush \/ CmdOffline \/ CmdConfigure \/ CmdOnline
           \/ StopStep \/ PhyStartup \/ XmitStep(Unit)
  <2>1. UNCHANGED <<semInit, sessions>>
    BY <1>3 DEF GetMsg, PeriodicReclaim, EnterReclaim, CmdFlush, CmdOffline, FlushTo, CmdConfigure,
       CmdOnline, StopStep, UnitOffline, StopDma, StopReclaim, StopRetire, Retire, StopFree,
       PhyStartup, Obtain, Release, XmitStep, Reclaimed, RejectOffline, AcceptWrite, XmitEnter,
       XmitHeader, XmitBody, XmitPublish, XmitFail, unitVars, semVars
  <2>2. pc'[Unit] # "initRing"
    BY <1>3 DEF GetMsg, PeriodicReclaim, EnterReclaim, CmdFlush, CmdOffline, FlushTo, CmdConfigure,
       CmdOnline, StopStep, UnitOffline, StopDma, StopReclaim, StopRetire, StopFree,
       PhyStartup, XmitStep, Reclaimed, RejectOffline, AcceptWrite, XmitEnter,
       XmitHeader, XmitBody, XmitPublish, XmitFail, After, Goto, TypeOK
  <2>3. ASSUME ~semInit PROVE UNCHANGED <<cb, owner>>
    <3>1. pc[Unit] \notin InnerSteps /\ ~CanObtain(Unit)
      BY <2>3, NobodyIn DEF CanObtain
    <3> QED
      BY <1>3, <3>1 DEF GetMsg, PeriodicReclaim, EnterReclaim, CmdFlush, CmdOffline, FlushTo,
         CmdConfigure, CmdOnline, StopStep, UnitOffline, StopDma, StopReclaim, StopRetire, StopFree,
         PhyStartup, Obtain, XmitStep, Reclaimed, RejectOffline, AcceptWrite, XmitEnter,
         XmitHeader, XmitBody, XmitPublish, XmitFail, ringVars, semVars, InnerSteps
  <2> QED BY <2>1, <2>2, <2>3, KeepStart
<1> QED BY <1>1, <1>2, <1>3 DEF UnitStep, StartStep

LEMMA NextStart == ASSUME TypeOK, ExclInv, StartInv, [Next]_vars PROVE StartInv'
<1>1. CASE HwTransmit \/ Aside
  BY <1>1, KeepStart DEF HwTransmit, Aside, ringVars, semVars, unitVars, taskVars
<1> QED BY <1>1, ClientStart, UnitStart, NextCases

(* A task that moves on takes only its own hand along. *)
LEMMA MoveHand ==
  ASSUME TypeOK, HandInv, NEW t \in Tasks, NEW step, Goto(t, step),
         \A s \in Tasks \ {t} : req'[s] = req[s],
         \/ req'[t] = NoReq
         \/ step \notin {"idle", "leave"} \cup UnitSteps /\ (t = Unit => step # "reclaim")
  PROVE  HandInv'
<1>1. pc'[t] = step /\ \A s \in Tasks \ {t} : pc'[s] = pc[s]
  BY DEF Goto, TypeOK
<1> QED BY <1>1 DEF HandInv, Tasks

LEMMA XmitHand ==
  ASSUME TypeOK, HandInv, NEW t \in Tasks, XmitStep(t) PROVE HandInv'
<1>1. \A s \in Tasks \ {t} : req'[s] = req[s]
  BY DEF XmitStep, Reclaimed, Retire, RejectOffline, AcceptWrite, XmitEnter, XmitHeader, XmitBody,
     XmitPublish, XmitFail, TypeOK
<1>2. CASE RejectOffline(t) \/ XmitPublish(t) \/ XmitFail(t)
  <2>1. req'[t] = NoReq /\ Goto(t, After(t))
    BY <1>2 DEF RejectOffline, XmitPublish, XmitFail, TypeOK
  <2> QED BY <1>1, <2>1, MoveHand
<1>3. CASE Reclaimed(t)
  <2>1. UNCHANGED req
    BY <1>3 DEF Reclaimed, Retire
  <2>2. CASE t = Unit
    <3>1. Goto(t, "wait") /\ req'[t] = NoReq
      BY <1>3, <2>1, <2>2 DEF Reclaimed, HandInv
    <3> QED BY <1>1, <3>1, MoveHand
  <2>3. CASE t # Unit
    <3>1. Goto(t, "command")
      BY <1>3, <2>3 DEF Reclaimed
    <3> QED BY <1>1, <2>3, <3>1, MoveHand DEF UnitSteps
  <2> QED BY <2>2, <2>3
<1>4. CASE AcceptWrite(t) \/ XmitEnter(t) \/ XmitHeader(t) \/ XmitBody(t)
  <2>1. PICK step \in {"xmit", "header", "body", "publish", "fail"} : Goto(t, step)
    BY <1>4 DEF AcceptWrite, XmitEnter, XmitHeader, XmitBody
  <2> QED BY <1>1, <2>1, MoveHand DEF UnitSteps
<1> QED BY <1>2, <1>3, <1>4 DEF XmitStep

LEMMA NextHand ==
  ASSUME TypeOK, ExclInv, HandInv, [Next]_vars PROVE HandInv'
<1>1. ASSUME NEW c \in Clients, BeginIO(c) \/ ClientStep(c) PROVE HandInv'
  <2> c \in Tasks /\ c # Unit
    BY TaskAssumption DEF Tasks
  <2>1. CASE XmitStep(c)
    BY <2>1, XmitHand
  <2>2. ASSUME NEW r \in Reqs, BeginIOQuick(c, r) PROVE HandInv'
    <3>1. Goto(c, "quick") /\ \A s \in Tasks \ {c} : req'[s] = req[s]
      BY <2>2 DEF BeginIOQuick, TypeOK
    <3> QED BY <3>1, MoveHand DEF UnitSteps
  <2>3. ASSUME NEW r \in Reqs, BeginIOQueue(c, r) PROVE HandInv'
    BY <2>3 DEF BeginIOQueue, HandInv
  <2>4. CASE QuickReclaim(c) \/ QuickSkip(c)
    <3>1. UNCHANGED req /\ \E step \in {"reclaim", "command"} : Goto(c, step)
      BY <2>4 DEF QuickReclaim, EnterReclaim, QuickSkip
    <3> QED BY <3>1, MoveHand DEF UnitSteps
  <2>5. CASE LeaveBeginIO(c)
    <3>1. UNCHANGED req /\ Goto(c, "idle") /\ req[c] = NoReq
      BY <2>5 DEF LeaveBeginIO, HandInv
    <3> QED BY <3>1, MoveHand
  <2> QED BY <1>1, <2>1, <2>2, <2>3, <2>4, <2>5 DEF BeginIO, ClientStep
<1>2. CASE UnitStep
  <2> Unit \in Tasks
    BY DEF Tasks
  <2>1. CASE GetMsg
    <3>1. Goto(Unit, "command") /\ \A s \in Tasks \ {Unit} : req'[s] = req[s]
      BY <2>1 DEF GetMsg, TypeOK
    <3> QED BY <3>1, MoveHand DEF UnitSteps
  <2>2. CASE XmitStep(Unit)
    BY <2>2, XmitHand
  <2>3. CASE PeriodicReclaim \/ CmdFlush \/ CmdOffline \/ CmdConfigure \/ CmdOnline
             \/ StopStep \/ StartStep
    <3>1. UNCHANGED req
      BY <2>3 DEF PeriodicReclaim, EnterReclaim, CmdFlush, CmdOffline, FlushTo, CmdConfigure, CmdOnline,
         StopStep, UnitOffline, StopDma, StopReclaim, StopRetire, Retire, StopFree, StartStep,
         AllocBuffers, InitRing, PhyStartup
    <3>2. pc[Unit] \in UnitSteps /\ \E step \in AllSteps : Goto(Unit, step)
      BY <2>3 DEF PeriodicReclaim, EnterReclaim, CmdFlush, CmdOffline, FlushTo, CmdConfigure, CmdOnline,
         StopStep, UnitOffline, StopDma, StopReclaim, StopRetire, StopFree, StartStep,
         AllocBuffers, InitRing, PhyStartup, AllSteps, ClientSteps, SharedSteps, UnitSteps
    <3>3. req'[Unit] = NoReq
      BY <3>1, <3>2 DEF HandInv
    <3> QED BY <3>1, <3>2, <3>3, MoveHand
  <2> QED BY <1>2, <2>1, <2>2, <2>3 DEF UnitStep
<1>3. CASE HwTransmit \/ Aside
  BY <1>3 DEF HwTransmit, Aside, taskVars, HandInv
<1> QED BY <1>1, <1>2, <1>3, NextCases

LEMMA InitRingInv == Init => RingInv
<1> SUFFICES ASSUME Init PROVE RingInv
  OBVIOUS
<1> QED
  BY DEF Init, RingInv, StartInv, AlignInv, HeldInv, HandInv, Tasks

LEMMA NextRingInv ==
  ASSUME CopyMayFail = FALSE, TypeOK, ExclInv, AccInv, RingInv, [Next]_vars PROVE RingInv'
BY NextRing, NextStart, NextHand DEF RingInv

(* At most one task is at "publish", so counting them is Publishing. *)
LEMMA AlignedRing ==
  ASSUME TypeOK, ExclInv, AccInv, RingInv PROVE RingInStep
<1> DEFINE P == {t \in Tasks : pc[t] = "publish"}
<1>1. Cardinality(P) = Publishing
  <2>1. CASE P = {}
    BY <2>1, FS_EmptySet DEF Publishing
  <2>2. CASE P # {}
    <3>1. PICK t \in Tasks : pc[t] = "publish"
      BY <2>2
    <3>2. P = {t}
      BY <3>1, Alone DEF ExclInv, InnerSteps
    <3> QED BY <3>1, <3>2, FS_Singleton DEF Publishing
  <2> QED BY <2>1, <2>2
<1>2. SlotAlignment
  BY <1>1 DEF RingInv, AlignInv, SlotAlignment
<1>3. HwWindow
  BY DEF AccInv, RingAcc, TaskAcc, HwWindow
<1> QED BY <1>2, <1>3 DEF RingInStep

(* Hardware and driver stay in step: the control block a reclaim frees is the slot
   of the descriptor the hardware consumed, for every ring size, index range and
   any clients, through restarts and wrap-around. *)
THEOREM RingStaysInStep ==
  QuietRestart = TRUE /\ CopyMayFail = FALSE => (Spec => []RingInStep)
<1> SUFFICES ASSUME QuietRestart = TRUE, CopyMayFail = FALSE PROVE Spec => []RingInStep
  OBVIOUS
<1>1. TypeOK /\ ExclInv /\ AccInv /\ RingInv /\ [Next]_vars => ExclInv' /\ AccInv' /\ RingInv'
  BY NextExcl, NextAcc, NextRingInv
<1>2. TypeOK /\ ExclInv /\ AccInv /\ RingInv => RingInStep
  BY AlignedRing
<1> QED BY <1>1, <1>2, InitExcl, InitAcc, InitRingInv, TypeCorrect, PTL DEF Spec

(***************************************************************************)
(* Counting the places of a request.                                       *)
(***************************************************************************)
One(b) == IF b THEN 1 ELSE 0

(* A set in which only p may have come or gone. *)
LEMMA PointCount ==
  ASSUME NEW S, IsFiniteSet(S), NEW A \in SUBSET S, NEW B \in SUBSET S, NEW p \in S,
         \A x \in S \ {p} : x \in A <=> x \in B
  PROVE  /\ Cardinality(A) \in Nat /\ Cardinality(B) \in Nat
         /\ Cardinality(B) = Cardinality(A) + One(p \in B) - One(p \in A)
<1>1. IsFiniteSet(A) /\ IsFiniteSet(B)
  BY FS_Subset
<1>2. Cardinality(A) \in Nat /\ Cardinality(B) \in Nat
  BY <1>1, FS_CardinalityType
<1>3. CASE p \in A /\ p \in B
  <2>1. A = B
    BY <1>3
  <2> QED BY <1>2, <1>3, <2>1 DEF One
<1>4. CASE p \notin A /\ p \notin B
  <2>1. A = B
    BY <1>4
  <2> QED BY <1>2, <1>4, <2>1 DEF One
<1>5. CASE p \in A /\ p \notin B
  <2>1. B = A \ {p}
    BY <1>5
  <2>2. Cardinality(A \ {p}) = Cardinality(A) - 1
    BY <1>1, <1>5, FS_RemoveElement
  <2> QED BY <1>2, <1>5, <2>1, <2>2 DEF One
<1>6. CASE p \notin A /\ p \in B
  <2>1. B = A \cup {p}
    BY <1>6
  <2>2. Cardinality(A \cup {p}) = Cardinality(A) + 1
    BY <1>1, <1>6, FS_AddElement
  <2> QED BY <1>2, <1>6, <2>1, <2>2 DEF One
<1> QED BY <1>3, <1>4, <1>5, <1>6

LEMMA FiniteParts == IsFiniteSet(Tasks) /\ IsFiniteSet(Slots)
<1>1. IsFiniteSet(Clients \cup {Unit})
  BY TaskAssumption, FS_AddElement
<1>2. IsFiniteSet(Slots)
  BY FS_Interval, RingAssumption DEF Slots
<1> QED BY <1>1, <1>2 DEF Tasks

LEMMA CountType ==
  ASSUME TypeOK, NEW r
  PROVE  InPort(r) \in Nat /\ InHand(r) \in Nat /\ OnRing(r) \in Nat
<1>1. IsFiniteSet(DOMAIN port)
  BY FS_Interval DEF TypeOK
<1>2. /\ IsFiniteSet({i \in DOMAIN port : port[i] = r})
      /\ IsFiniteSet({t \in Tasks : req[t] = r /\ pc[t] # "publish"})
      /\ IsFiniteSet({s \in Slots : cb[s] = r})
  BY <1>1, FiniteParts, FS_Subset
<1> QED BY <1>2, FS_CardinalityType DEF InPort, InHand, OnRing

(* One task's hand changes. *)
LEMMA HandCount ==
  ASSUME TypeOK, NEW r, NEW t \in Tasks,
         \A s \in Tasks \ {t} : req'[s] = req[s] /\ pc'[s] = pc[s]
  PROVE  InHand(r)' = InHand(r) + One(req'[t] = r /\ pc'[t] # "publish")
                                - One(req[t] = r /\ pc[t] # "publish")
<1> DEFINE A == {s \in Tasks : req[s] = r /\ pc[s] # "publish"}
           B == {s \in Tasks : req'[s] = r /\ pc'[s] # "publish"}
<1>1. A \in SUBSET Tasks /\ B \in SUBSET Tasks /\ \A s \in Tasks \ {t} : s \in A <=> s \in B
  OBVIOUS
<1>2. /\ t \in A <=> (req[t] = r /\ pc[t] # "publish")
      /\ t \in B <=> (req'[t] = r /\ pc'[t] # "publish")
  OBVIOUS
<1>3. InHand(r) = Cardinality(A) /\ InHand(r)' = Cardinality(B)
  BY DEF InHand
<1> HIDE DEF A, B
<1>4. Cardinality(B) = Cardinality(A) + One(t \in B) - One(t \in A)
  BY <1>1, FiniteParts, PointCount
<1> QED BY <1>2, <1>3, <1>4 DEF One

(* bcmgenet_get_txcb writes a free control block. *)
LEMMA RingCount ==
  ASSUME TypeOK, NEW r \in Reqs, NEW w \in Slots, cb[w] = NoReq, NEW x,
         cb' = [cb EXCEPT ![w] = x]
  PROVE  OnRing(r)' = OnRing(r) + One(x = r)
<1> DEFINE A == {s \in Slots : cb[s] = r}
           B == {s \in Slots : cb'[s] = r}
<1>1. A \in SUBSET Slots /\ B \in SUBSET Slots /\ \A s \in Slots \ {w} : s \in A <=> s \in B
  BY DEF TypeOK
<1>2. w \notin A /\ (w \in B <=> x = r)
  BY RequestAssumption DEF TypeOK
<1>3. OnRing(r) = Cardinality(A) /\ OnRing(r)' = Cardinality(B)
  BY DEF OnRing
<1> HIDE DEF A, B
<1>4. Cardinality(B) = Cardinality(A) + One(w \in B) - One(w \in A) /\ Cardinality(A) \in Nat
  BY <1>1, FiniteParts, PointCount
<1> QED BY <1>2, <1>3, <1>4 DEF One

(* What a reclaim replies is what the ring loses. *)
LEMMA RetireCount ==
  ASSUME TypeOK, NEW r \in Reqs, NEW t \in Tasks, Retire(t)
  PROVE  /\ due'[r] - OnRing(r)' = due[r] - OnRing(r)
         /\ due'[r] <= due[r]
         /\ due'[r] \in Int /\ OnRing(r)' \in Int
<1>1. PICK n \in Nat : n = Dist(tx_cons_index, snap[t])
  <2>1. tx_cons_index \in Index /\ snap[t] \in Index
    BY DEF TypeOK
  <2>2. Dist(tx_cons_index, snap[t]) \in Index
    BY <2>1, DistType
  <2>3. Index \subseteq Nat
    BY DEF Index
  <2> QED BY <2>2, <2>3
<1> DEFINE F == {s \in RetireSlots(n) : cb[s] = r}
           A == {s \in Slots : cb[s] = r}
           B == {s \in Slots : cb'[s] = r}
<1>2. /\ cb' = [s \in Slots |-> IF s \in RetireSlots(n) THEN NoReq ELSE cb[s]]
      /\ due'[r] = due[r] - Cardinality(F)
  BY <1>1 DEF Retire
<1>3. F \subseteq A /\ B = A \ F
  <2>1. RetireSlots(n) \subseteq Slots
    BY FreedCount
  <2> QED BY <1>2, <2>1, RequestAssumption
<1>4. IsFiniteSet(A)
  BY FiniteParts, FS_Subset
<1>5. OnRing(r) = Cardinality(A) /\ OnRing(r)' = Cardinality(B) /\ due[r] \in Int
  BY DEF OnRing, TypeOK
<1>6. Cardinality(F) \in Nat
  BY FreedCount
<1> HIDE DEF A, B, F
<1>7. Cardinality(B) = Cardinality(A) - Cardinality(F) /\ Cardinality(A) \in Nat
  <2>1. A \cap F = F
    BY <1>3
  <2>2. Cardinality(A \ F) = Cardinality(A) - Cardinality(A \cap F)
    BY <1>4, FS_Difference
  <2> QED BY <1>3, <1>4, <2>1, <2>2, FS_CardinalityType
<1> QED BY <1>2, <1>5, <1>6, <1>7

(* A message joins the port. *)
LEMMA PortAppend ==
  ASSUME TypeOK, NEW r \in Reqs, NEW x \in Reqs, port' = Append(port, x)
  PROVE  InPort(r)' = InPort(r) + One(x = r)
<1> DEFINE n == Len(port) + 1
           A == {i \in DOMAIN port : port[i] = r}
           B == {i \in DOMAIN port' : port'[i] = r}
<1>1. /\ port \in Seq(Reqs) /\ Len(port) \in Nat /\ DOMAIN port = 1 .. Len(port)
      /\ DOMAIN port' = 1 .. n /\ port'[n] = x /\ \A i \in 1 .. Len(port) : port'[i] = port[i]
  BY AppendProperties DEF TypeOK
<1>2. /\ A \in SUBSET (1 .. n) /\ B \in SUBSET (1 .. n) /\ n \in 1 .. n
      /\ \A i \in (1 .. n) \ {n} : i \in A <=> i \in B
      /\ n \notin A /\ (n \in B <=> x = r)
  BY <1>1
<1>3. InPort(r) = Cardinality(A) /\ InPort(r)' = Cardinality(B)
  BY DEF InPort
<1>n. n \in Int
  BY <1>1
<1> HIDE DEF A, B, n
<1>s. IsFiniteSet(1 .. n)
  BY <1>n, FS_Interval
<1>4. PICK S : S = 1 .. n /\ IsFiniteSet(S)
  BY <1>s, Zenon
<1>5. Cardinality(B) = Cardinality(A) + One(n \in B) - One(n \in A) /\ Cardinality(A) \in Nat
  <2>1. A \in SUBSET S /\ B \in SUBSET S /\ n \in S /\ \A i \in S \ {n} : i \in A <=> i \in B
    BY <1>2, <1>4
  <2> QED BY <1>4, <2>1, PointCount
<1> QED BY <1>2, <1>3, <1>5 DEF One

Occurs(s, x) == Cardinality({i \in DOMAIN s : s[i] = x})
Without(s, n, u) == /\ Len(u) = Len(s) - 1
                    /\ \A i \in 1 .. Len(s) - 1 : u[i] = IF i < n THEN s[i] ELSE s[i + 1]

(* A message leaves the port: the others keep their order and their number. *)
LEMMA RemovedCount ==
  ASSUME NEW s \in Seq(Reqs), NEW n \in DOMAIN s, NEW u \in Seq(Reqs), NEW x,
         Without(s, n, u)
  PROVE  Occurs(u, x) = Occurs(s, x) - One(s[n] = x)
<1> DEFINE A == {i \in DOMAIN s : s[i] = x}
           B == {i \in DOMAIN u : u[i] = x}
           C == A \ {n}
           f == [i \in B |-> IF i < n THEN i ELSE i + 1]
<1> USE DEF Without
<1>1. Len(s) \in Nat /\ DOMAIN s = 1 .. Len(s) /\ DOMAIN u = 1 .. Len(s) - 1 /\ n \in 1 .. Len(s)
  OBVIOUS
<1>2. f \in Bijection(B, C)
  <2>1. \A i \in B : f[i] \in C
    BY <1>1
  <2>2. \A i, j \in B : f[i] = f[j] => i = j
    BY <1>1
  <2>3. ASSUME NEW k \in C PROVE \E i \in B : f[i] = k
    <3>1. CASE k < n
      <4>1. k \in B /\ f[k] = k
        BY <1>1, <3>1
      <4> QED BY <4>1
    <3>2. CASE k > n
      <4>1. k - 1 \in 1 .. Len(s) - 1 /\ ~(k - 1 < n) /\ (k - 1) + 1 = k
        BY <1>1, <3>2
      <4>2. k - 1 \in B /\ f[k - 1] = k
        BY <1>1, <4>1
      <4> QED BY <4>2
    <3>3. k \in 1 .. Len(s) /\ k # n
      BY <1>1
    <3>4. k < n \/ k > n
      BY <1>1, <3>3
    <3> HIDE DEF f, B, C
    <3> QED BY <3>1, <3>2, <3>4
  <2>4. f \in [B -> C]
    BY <2>1
  <2> HIDE DEF f, B, C
  <2> QED BY <2>2, <2>3, <2>4, Fun_IsBij
<1>3. IsFiniteSet(A) /\ IsFiniteSet(B)
  <2>1. IsFiniteSet(1 .. Len(s)) /\ A \subseteq 1 .. Len(s) /\ B \subseteq 1 .. Len(s)
    <3>1. 1 \in Int /\ Len(s) \in Int
      BY <1>1
    <3>2. IsFiniteSet(1 .. Len(s))
      BY <3>1, FS_Interval
    <3> QED BY <1>1, <3>2
  <2> QED BY <2>1, FS_Subset
<1>4. Cardinality(B) = Cardinality(C)
  <2>1. ExistsBijection(B, C)
    BY <1>2 DEF ExistsBijection
  <2> QED BY <1>3, <2>1, FS_Bijection
<1>5. Cardinality(C) = Cardinality(A) - One(n \in A) /\ Cardinality(A) \in Nat
  <2> HIDE DEF A
  <2>1. Cardinality(A \ {n}) = IF n \in A THEN Cardinality(A) - 1 ELSE Cardinality(A)
    BY <1>3, FS_RemoveElement
  <2> QED BY <1>3, <2>1, FS_CardinalityType DEF One
<1> QED BY <1>4, <1>5 DEF One, Occurs

(* GetMsg takes the first message. *)
LEMMA PortHead ==
  ASSUME TypeOK, NEW r, port # <<>>, port' = Tail(port)
  PROVE  InPort(r)' = InPort(r) - One(Head(port) = r)
<1>1. port \in Seq(Reqs) /\ Len(port) \in Nat /\ 1 \in DOMAIN port /\ Head(port) = port[1]
  BY DEF TypeOK
<1>2. /\ port' \in Seq(Reqs) /\ Len(port') = Len(port) - 1
      /\ \A i \in 1 .. Len(port) - 1 : port'[i] = port[i + 1]
  BY <1>1, HeadTailProperties
<1>3. \A i \in 1 .. Len(port) - 1 : port'[i] = IF i < 1 THEN port[i] ELSE port[i + 1]
  BY <1>2
<1>4. PICK u \in Seq(Reqs) : u = port'
  BY <1>2
<1>5. Occurs(u, r) = Occurs(port, r) - One(port[1] = r)
  <2>1. Without(port, 1, u)
    BY <1>2, <1>3, <1>4 DEF Without
  <2> QED BY <1>1, <2>1, RemovedCount
<1> QED BY <1>1, <1>4, <1>5 DEF InPort, Occurs

(* Remove takes out any message. *)
LEMMA PortRemove ==
  ASSUME TypeOK, NEW r, NEW n \in DOMAIN port,
         port' = SubSeq(port, 1, n - 1) \o SubSeq(port, n + 1, Len(port))
  PROVE  InPort(r)' = InPort(r) - One(port[n] = r)
<1> DEFINE left == SubSeq(port, 1, n - 1)
           right == SubSeq(port, n + 1, Len(port))
<1>1. port \in Seq(Reqs) /\ Len(port) \in Nat /\ n \in 1 .. Len(port)
  BY DEF TypeOK
<1>2. left \in Seq(Reqs) /\ Len(left) = n - 1 /\ \A i \in 1 .. n - 1 : left[i] = port[i]
  BY <1>1
<1>3. /\ right \in Seq(Reqs) /\ Len(right) = Len(port) - n
      /\ \A i \in 1 .. Len(port) - n : right[i] = port[i + n]
  BY <1>1
<1> HIDE DEF left, right
<1>4. PICK u \in Seq(Reqs) :
          /\ u = port' /\ Len(u) = Len(left) + Len(right)
          /\ \A i \in 1 .. Len(left) + Len(right) :
                 u[i] = IF i <= Len(left) THEN left[i] ELSE right[i - Len(left)]
  <2>1. /\ left \o right \in Seq(Reqs) /\ Len(left \o right) = Len(left) + Len(right)
        /\ \A i \in 1 .. Len(left) + Len(right) : (left \o right)[i] =
               IF i <= Len(left) THEN left[i] ELSE right[i - Len(left)]
    BY <1>2, <1>3, ConcatProperties
  <2>2. port' = left \o right
    BY DEF left, right
  <2> QED BY <2>1, <2>2
<1>5. Len(left) + Len(right) = Len(port) - 1 /\ Len(u) = Len(port) - 1
  <2>1. Len(left) = n - 1 /\ Len(right) = Len(port) - n /\ Len(u) = Len(left) + Len(right)
    BY <1>2, <1>3, <1>4
  <2> QED BY <1>1, <2>1
<1>6. \A i \in 1 .. Len(port) - 1 : u[i] = IF i <= n - 1 THEN left[i] ELSE right[i - (n - 1)]
  <2>1. Len(left) = n - 1
    BY <1>2
  <2> QED BY <1>4, <1>5, <2>1
<1>7. ASSUME NEW i \in 1 .. Len(port) - 1
      PROVE  u[i] = IF i < n THEN port[i] ELSE port[i + 1]
  <2>1. CASE i < n
    <3>1. i \in 1 .. n - 1 /\ i <= n - 1
      BY <1>1, <2>1
    <3>2. u[i] = left[i] /\ left[i] = port[i]
      BY <1>2, <1>6, <3>1
    <3> QED BY <2>1, <3>2
  <2>2. CASE i >= n
    <3>1. PICK k \in 1 .. Len(port) - n : k = i - (n - 1) /\ k + n = i + 1
      <4>1. i - (n - 1) \in 1 .. Len(port) - n /\ (i - (n - 1)) + n = i + 1
        BY <1>1, <2>2, Shifted
      <4> QED BY <4>1
    <3>2. ~(i <= n - 1)
      BY <1>1, <2>2
    <3>3. u[i] = right[i - (n - 1)]
      BY <1>6, <3>2
    <3>4. right[k] = port[k + n]
      BY <1>3
    <3> QED BY <1>1, <2>2, <3>1, <3>3, <3>4
  <2> QED BY <1>1, <2>1, <2>2
<1>8. Occurs(u, r) = Occurs(port, r) - One(port[n] = r)
  <2>1. Without(port, n, u)
    BY <1>5, <1>7 DEF Without
  <2> QED BY <1>1, <2>1, RemovedCount
<1> QED BY <1>4, <1>8 DEF InPort, Occurs

(***************************************************************************)
(* What is due and where it is change together.                            *)
(***************************************************************************)
Conserved(r) == /\ due'[r] - Copies(r)' = due[r] - Copies(r)
                /\ due'[r] <= due[r] \/ (due'[r] = 1 /\ r \notin aborted)

(* A step that moves no request. *)
LEMMA KeepPlaces ==
  ASSUME TypeOK, NEW r \in Reqs, UNCHANGED <<port, req, cb, due>>,
         \A t \in Tasks : pc'[t] = "publish" <=> pc[t] = "publish"
  PROVE  Conserved(r)
<1>1. {t \in Tasks : req'[t] = r /\ pc'[t] # "publish"} = {t \in Tasks : req[t] = r /\ pc[t] # "publish"}
  OBVIOUS
<1>2. InHand(r)' = InHand(r)
  BY <1>1 DEF InHand
<1>3. InPort(r)' = InPort(r) /\ OnRing(r)' = OnRing(r)
  BY DEF InPort, OnRing
<1> QED BY <1>2, <1>3 DEF Conserved, Copies, TypeOK

(* A task that is moving between two steps which are both before the control block
   is filled in, or both not, keeps what is in its hand. *)
LEMMA MoveSame ==
  ASSUME TypeOK, NEW t \in Tasks, pc[t] # "publish", NEW step, step # "publish", Goto(t, step)
  PROVE  /\ \A s \in Tasks : pc'[s] = "publish" <=> pc[s] = "publish"
         /\ \A s \in Tasks \ {t} : pc'[s] = pc[s]
         /\ pc'[t] = step
BY DEF Goto, TypeOK

(* A task that replies the request it holds. *)
LEMMA ReplyHeld ==
  ASSUME TypeOK, NEW r \in Reqs, NEW t \in Tasks, pc[t] # "publish", NEW step, step # "publish",
         Goto(t, step), Complete({req[t]}), req' = [req EXCEPT ![t] = NoReq],
         UNCHANGED <<port, cb>>
  PROVE  Conserved(r)
<1>1. \A s \in Tasks \ {t} : req'[s] = req[s] /\ pc'[s] = pc[s]
  BY MoveSame DEF TypeOK
<1>2. /\ req'[t] # r /\ (req[t] = r => due'[r] = due[r] - 1) /\ (req[t] # r => due'[r] = due[r])
      /\ due[r] \in Int
  BY RequestAssumption DEF Complete, TypeOK
<1>3. InHand(r)' = InHand(r) - One(req[t] = r) /\ InHand(r) \in Nat
  BY <1>1, <1>2, HandCount, CountType DEF One
<1>4. InPort(r)' = InPort(r) /\ OnRing(r)' = OnRing(r) /\ InPort(r) \in Nat /\ OnRing(r) \in Nat
  BY CountType DEF InPort, OnRing
<1> QED BY <1>2, <1>3, <1>4 DEF Conserved, Copies, One

(* A reclaim. *)
LEMMA RetirePlaces ==
  ASSUME TypeOK, NEW r \in Reqs, NEW t \in Tasks, pc[t] # "publish", NEW step, step # "publish",
         Goto(t, step), Retire(t)
  PROVE  Conserved(r)
<1>1. UNCHANGED <<port, req>>
  BY DEF Retire
<1>2. {s \in Tasks : req'[s] = r /\ pc'[s] # "publish"} = {s \in Tasks : req[s] = r /\ pc[s] # "publish"}
  BY <1>1, MoveSame
<1>3. InHand(r)' = InHand(r) /\ InPort(r)' = InPort(r)
  BY <1>1, <1>2 DEF InHand, InPort
<1>4. /\ InPort(r) \in Nat /\ InHand(r) \in Nat /\ OnRing(r) \in Nat /\ OnRing(r)' \in Int
      /\ due[r] \in Int /\ due'[r] \in Int
  BY CountType, RetireCount DEF TypeOK
<1> QED BY <1>3, <1>4, RetireCount DEF Conserved, Copies

LEMMA XmitPlaces ==
  ASSUME CopyMayFail = FALSE, TypeOK, ExclInv, AccInv, RingInv,
         NEW t \in Tasks, XmitStep(t), NEW r \in Reqs
  PROVE  Conserved(r)
<1> After(t) # "publish"
  BY DEF After
<1>1. CASE Reclaimed(t)
  <2>1. pc[t] # "publish" /\ Retire(t) /\ \E step \in {"wait", "command"} : Goto(t, step)
    BY <1>1 DEF Reclaimed
  <2> QED BY <2>1, RetirePlaces
<1>2. CASE RejectOffline(t) \/ XmitFail(t)
  <2>1. /\ pc[t] # "publish" /\ Goto(t, After(t)) /\ Complete({req[t]})
        /\ req' = [req EXCEPT ![t] = NoReq] /\ UNCHANGED <<port, cb>>
    BY <1>2 DEF RejectOffline, XmitFail, ringVars
  <2> QED BY <2>1, ReplyHeld
<1>3. CASE AcceptWrite(t) \/ XmitEnter(t) \/ XmitHeader(t)
  <2>1. UNCHANGED <<port, req, due>>
    BY <1>3 DEF AcceptWrite, XmitEnter, XmitHeader
  <2>2. UNCHANGED cb
    <3>1. CASE XmitHeader(t)
      <4>1. cb[write_ptr] = NoReq /\ cb' = [cb EXCEPT ![write_ptr] = NoReq]
        BY <3>1, NextFree DEF XmitHeader
      <4> QED BY <4>1 DEF TypeOK
    <3> QED BY <1>3, <3>1 DEF AcceptWrite, XmitEnter, ringVars
  <2>3. pc[t] # "publish" /\ \E step \in {"xmit", "header", "body", "fail"} : Goto(t, step)
    BY <1>3 DEF AcceptWrite, XmitEnter, XmitHeader
  <2>4. \A s \in Tasks : pc'[s] = "publish" <=> pc[s] = "publish"
    BY <2>3, MoveSame
  <2> QED BY <2>1, <2>2, <2>4, KeepPlaces
<1>4. CASE XmitBody(t)
  <2>1. /\ pc[t] = "body" /\ Goto(t, "publish") /\ cb' = [cb EXCEPT ![write_ptr] = req[t]]
        /\ UNCHANGED <<port, req, due>>
    BY <1>4 DEF XmitBody
  <2>2. cb[write_ptr] = NoReq /\ write_ptr \in Slots
    BY <2>1, NextFree
  <2>3. OnRing(r)' = OnRing(r) + One(req[t] = r)
    <3>1. PICK w, x : w \in Slots /\ w = write_ptr /\ x = req[t]
      BY <2>2
    <3>2. cb[w] = NoReq /\ cb' = [cb EXCEPT ![w] = x]
      BY <2>1, <2>2, <3>1
    <3> QED BY <3>1, <3>2, RingCount
  <2>4. \A s \in Tasks \ {t} : req'[s] = req[s] /\ pc'[s] = pc[s]
    BY <2>1 DEF Goto, TypeOK
  <2>5. pc'[t] = "publish"
    BY <2>1 DEF Goto, TypeOK
  <2>6. InHand(r)' = InHand(r) - One(req[t] = r)
    BY <2>1, <2>4, <2>5, HandCount, CountType DEF One
  <2>7. InPort(r)' = InPort(r) /\ due'[r] = due[r]
    BY <2>1 DEF InPort
  <2>8. InPort(r) \in Nat /\ InHand(r) \in Nat /\ OnRing(r) \in Nat /\ due[r] \in Int
    BY CountType DEF TypeOK
  <2> QED BY <2>3, <2>6, <2>7, <2>8 DEF Conserved, Copies, One
<1>5. CASE XmitPublish(t)
  <2>1. /\ pc[t] = "publish" /\ Goto(t, After(t)) /\ req' = [req EXCEPT ![t] = NoReq]
        /\ UNCHANGED <<port, cb, due>>
    BY <1>5 DEF XmitPublish
  <2>2. \A s \in Tasks \ {t} : req'[s] = req[s] /\ pc'[s] = pc[s]
    BY <2>1 DEF Goto, TypeOK
  <2>3. req'[t] # r
    BY <2>1, RequestAssumption DEF TypeOK
  <2>4. InHand(r)' = InHand(r)
    <3>1. InHand(r)' = InHand(r) + One(req'[t] = r /\ pc'[t] # "publish")
                                 - One(req[t] = r /\ pc[t] # "publish")
      BY <2>2, HandCount
    <3>2. One(req'[t] = r /\ pc'[t] # "publish") = 0 /\ One(req[t] = r /\ pc[t] # "publish") = 0
      BY <2>1, <2>3 DEF One
    <3>3. InHand(r) \in Nat
      BY CountType
    <3> QED BY <3>1, <3>2, <3>3
  <2>5. InPort(r)' = InPort(r) /\ OnRing(r)' = OnRing(r) /\ due'[r] = due[r] /\ due[r] \in Int
    BY <2>1 DEF InPort, OnRing, TypeOK
  <2> QED BY <2>4, <2>5 DEF Conserved, Copies
<1> QED BY <1>1, <1>2, <1>3, <1>4, <1>5 DEF XmitStep

(* BeginIO: the request is due when it is in the task's hand or in the port. *)
LEMMA BeginPlaces ==
  ASSUME TypeOK, ExclInv, RingInv, NEW c \in Clients, BeginIO(c), NEW r \in Reqs
  PROVE  Conserved(r)
<1> c \in Tasks
  BY DEF Tasks
<1>1. ASSUME NEW x \in Reqs, BeginIOQuick(c, x) PROVE Conserved(r)
  <2>1. /\ pc[c] = "idle" /\ Goto(c, "quick") /\ req' = [req EXCEPT ![c] = x]
        /\ due[x] = 0 /\ due' = [due EXCEPT ![x] = 1] /\ x \notin aborted /\ UNCHANGED <<port, cb>>
    BY <1>1 DEF BeginIOQuick, Sendable, ringVars
  <2>2. req[c] = NoReq
    BY <2>1 DEF RingInv, HandInv
  <2>3. /\ \A s \in Tasks \ {c} : req'[s] = req[s] /\ pc'[s] = pc[s]
        /\ req'[c] = x /\ pc'[c] = "quick" /\ req[c] # r
    BY <2>1, <2>2, RequestAssumption DEF Goto, TypeOK
  <2>4. InHand(r)' = InHand(r) + One(x = r) /\ InHand(r) \in Nat
    BY <2>3, HandCount, CountType DEF One
  <2>5. InPort(r)' = InPort(r) /\ OnRing(r)' = OnRing(r) /\ InPort(r) \in Nat /\ OnRing(r) \in Nat
    BY <2>1, CountType DEF InPort, OnRing
  <2>6. due'[r] = due[r] + One(x = r) /\ due[r] \in Int /\ (x = r => due[r] = 0 /\ r \notin aborted)
    BY <2>1 DEF One, TypeOK
  <2> QED BY <2>4, <2>5, <2>6 DEF Conserved, Copies, One
<1>2. ASSUME NEW x \in Reqs, BeginIOQueue(c, x) PROVE Conserved(r)
  <2>1. /\ port' = Append(port, x) /\ due[x] = 0 /\ due' = [due EXCEPT ![x] = 1]
        /\ x \notin aborted /\ UNCHANGED <<pc, req, cb>>
    BY <1>2 DEF BeginIOQueue, Sendable, ringVars
  <2>2. InPort(r)' = InPort(r) + One(x = r) /\ InPort(r) \in Nat
    BY <2>1, PortAppend, CountType
  <2>3. InHand(r)' = InHand(r) /\ OnRing(r)' = OnRing(r) /\ InHand(r) \in Nat /\ OnRing(r) \in Nat
    BY <2>1, CountType DEF InHand, OnRing
  <2>4. due'[r] = due[r] + One(x = r) /\ due[r] \in Int /\ (x = r => due[r] = 0 /\ r \notin aborted)
    BY <2>1 DEF One, TypeOK
  <2> QED BY <2>2, <2>3, <2>4 DEF Conserved, Copies, One
<1> QED BY <1>1, <1>2 DEF BeginIO

LEMMA ClientPlaces ==
  ASSUME CopyMayFail = FALSE, TypeOK, ExclInv, AccInv, RingInv,
         NEW c \in Clients, BeginIO(c) \/ ClientStep(c), NEW r \in Reqs
  PROVE  Conserved(r)
<1> c \in Tasks
  BY DEF Tasks
<1>1. CASE QuickReclaim(c) \/ QuickSkip(c) \/ LeaveBeginIO(c)
  <2>1. UNCHANGED <<port, req, cb, due>>
    BY <1>1 DEF QuickReclaim, EnterReclaim, QuickSkip, LeaveBeginIO, ringVars
  <2>2. pc[c] # "publish" /\ \E step \in {"reclaim", "command", "idle"} : Goto(c, step)
    BY <1>1 DEF QuickReclaim, EnterReclaim, QuickSkip, LeaveBeginIO
  <2>3. \A s \in Tasks : pc'[s] = "publish" <=> pc[s] = "publish"
    BY <2>2, MoveSame
  <2> QED BY <2>1, <2>3, KeepPlaces
<1> QED BY <1>1, XmitPlaces, BeginPlaces DEF ClientStep

(* What OnePlace says of one request. *)
PlaceAt(r) == /\ due[r] \in {0, 1}
              /\ Copies(r) <= due[r]
              /\ sessions <= 1 /\ r \notin lost => Copies(r) = due[r]
              /\ r \in lost => due[r] = 1 /\ Copies(r) = 0

(* A request is in the port when it is one of the messages. *)
LEMMA InPortOrNot ==
  ASSUME TypeOK, NEW r
  PROVE  InPort(r) = 0 <=> \A i \in DOMAIN port : port[i] # r
<1>1. IsFiniteSet(DOMAIN port)
  BY FS_Interval DEF TypeOK
<1>2. IsFiniteSet({i \in DOMAIN port : port[i] = r})
  BY <1>1, FS_Subset
<1> QED BY <1>2, FS_EmptySet DEF InPort

(* Do_CMD_FLUSH replies each message once: none is twice in the port. *)
LEMMA FlushPlaces ==
  ASSUME TypeOK, NEW r \in Reqs, Copies(r) <= 1, pc[Unit] # "publish",
         NEW step, step # "publish", FlushTo(step)
  PROVE  Conserved(r)
<1>1. /\ Goto(Unit, step) /\ port' = <<>> /\ Complete({port[i] : i \in DOMAIN port})
      /\ UNCHANGED <<req, cb>>
  BY DEF FlushTo, ringVars
<1>2. \A s \in Tasks : pc'[s] = "publish" <=> pc[s] = "publish"
  BY <1>1, MoveSame DEF Tasks
<1>3. {t \in Tasks : req'[t] = r /\ pc'[t] # "publish"} = {t \in Tasks : req[t] = r /\ pc[t] # "publish"}
  BY <1>1, <1>2
<1>4. InHand(r)' = InHand(r) /\ OnRing(r)' = OnRing(r)
  BY <1>1, <1>3 DEF InHand, OnRing
<1>5. InPort(r)' = 0
  <2>1. {i \in DOMAIN port' : port'[i] = r} = {}
    BY <1>1
  <2> QED BY <2>1, FS_EmptySet DEF InPort
<1>6. InPort(r) \in Nat /\ InHand(r) \in Nat /\ OnRing(r) \in Nat /\ due[r] \in Int
  BY CountType DEF TypeOK
<1>7. CASE InPort(r) = 0
  <2>1. due'[r] = due[r]
    BY <1>1, <1>7, InPortOrNot DEF Complete
  <2> QED BY <1>4, <1>5, <1>6, <1>7, <2>1 DEF Conserved, Copies
<1>8. CASE InPort(r) # 0
  <2>1. due'[r] = due[r] - 1
    BY <1>1, <1>8, InPortOrNot DEF Complete
  <2>2. InPort(r) = 1
    BY <1>6, <1>8 DEF Copies
  <2> QED BY <1>4, <1>5, <1>6, <2>1, <2>2 DEF Conserved, Copies
<1> QED BY <1>7, <1>8

LEMMA UnitPlaces ==
  ASSUME CopyMayFail = FALSE, TypeOK, ExclInv, AccInv, RingInv, UnitStep, ~InitRing,
         NEW r \in Reqs, Copies(r) <= 1
  PROVE  Conserved(r)
<1> Unit \in Tasks
  BY DEF Tasks
<1>1. CASE GetMsg
  <2>1. /\ pc[Unit] = "wait" /\ port # <<>> /\ req' = [req EXCEPT ![Unit] = Head(port)]
        /\ port' = Tail(port) /\ Goto(Unit, "command") /\ UNCHANGED <<cb, due>>
    BY <1>1 DEF GetMsg, ringVars
  <2>2. req[Unit] = NoReq
    BY <2>1 DEF RingInv, HandInv, UnitSteps
  <2>3. /\ \A s \in Tasks \ {Unit} : req'[s] = req[s] /\ pc'[s] = pc[s]
        /\ req'[Unit] = Head(port) /\ pc'[Unit] = "command" /\ req[Unit] # r
    BY <2>1, <2>2, RequestAssumption DEF Goto, TypeOK
  <2>4. InHand(r)' = InHand(r) + One(Head(port) = r) /\ InHand(r) \in Nat
    BY <2>3, HandCount, CountType DEF One
  <2>5. InPort(r)' = InPort(r) - One(Head(port) = r) /\ InPort(r) \in Nat
    BY <2>1, PortHead, CountType
  <2>6. OnRing(r)' = OnRing(r) /\ OnRing(r) \in Nat /\ due'[r] = due[r] /\ due[r] \in Int
    BY <2>1, CountType DEF OnRing, TypeOK
  <2> QED BY <2>4, <2>5, <2>6 DEF Conserved, Copies, One
<1>2. CASE CmdFlush \/ CmdOffline
  <2>1. pc[Unit] # "publish" /\ \E step \in {"wait", "offline"} : FlushTo(step)
    BY <1>2 DEF CmdFlush, CmdOffline, FlushTo
  <2> QED BY <2>1, FlushPlaces
<1>3. CASE StopRetire
  <2>1. pc[Unit] # "publish" /\ Goto(Unit, "stopFree") /\ Retire(Unit)
    BY <1>3 DEF StopRetire
  <2> QED BY <2>1, RetirePlaces
<1>4. CASE PeriodicReclaim \/ CmdConfigure \/ CmdOnline \/ UnitOffline \/ StopDma \/ StopReclaim
           \/ StopFree \/ AllocBuffers \/ PhyStartup
  <2>1. UNCHANGED <<port, req, cb, due>>
    BY <1>4 DEF PeriodicReclaim, EnterReclaim, CmdConfigure, CmdOnline, UnitOffline, StopDma,
       StopReclaim, StopFree, AllocBuffers, PhyStartup, ringVars
  <2>2. pc[Unit] # "publish" /\ \E step \in UnitSteps \cup {"reclaim"} : Goto(Unit, step)
    BY <1>4 DEF PeriodicReclaim, EnterReclaim, CmdConfigure, CmdOnline, UnitOffline, StopDma,
       StopReclaim, StopFree, AllocBuffers, PhyStartup, UnitSteps
  <2>3. \A s \in Tasks : pc'[s] = "publish" <=> pc[s] = "publish"
    BY <2>2, MoveSame DEF UnitSteps
  <2> QED BY <2>1, <2>3, KeepPlaces
<1> QED BY <1>1, <1>2, <1>3, <1>4, XmitPlaces DEF UnitStep, StopStep, StartStep

PortCounted == \A r \in Reqs : InPort(r) \in Nat
LEMMA InPortNumber == TypeOK => PortCounted
<1> SUFFICES ASSUME TypeOK, NEW r \in Reqs PROVE InPort(r) \in Nat
  BY DEF PortCounted
<1> QED BY CountType

(* Cutting the port loses the messages before the cut, and those only. *)
LEMMA CutPort ==
  ASSUME TypeOK, NEW i \in 1 .. Len(port) + 1, CutPortAt(i), NEW r \in Reqs
  PROVE  /\ InPort(r)' <= InPort(r)
         /\ r \notin lost' => InPort(r)' = InPort(r)
         /\ r \in lost' \ lost /\ InPort(r) <= 1 => InPort(r) = 1 /\ InPort(r)' = 0
<1> DEFINE n == Len(port)
           Old == {k \in 1 .. n : port[k] = r}
           Before == {k \in 1 .. i - 1 : port[k] = r}
           Beyond == {k \in i .. n : port[k] = r}
           New == {k \in 1 .. n - i + 1 : port[k + i - 1] = r}
<1>1. port \in Seq(Reqs) /\ n \in Nat /\ i \in Nat /\ DOMAIN port = 1 .. n
  BY DEF TypeOK
<1>2. /\ port' \in Seq(Reqs) /\ Len(port') = n - i + 1 /\ DOMAIN port' = 1 .. n - i + 1
      /\ \A k \in 1 .. n - i + 1 : port'[k] = port[k + i - 1]
  BY <1>1 DEF CutPortAt
<1>3. InPort(r) = Cardinality(Old) /\ InPort(r)' = Cardinality(New)
  <2>1. {k \in DOMAIN port' : port'[k] = r} = New
    BY <1>2
  <2> QED BY <1>1, <2>1 DEF InPort
<1>4. IsFiniteSet(Before) /\ IsFiniteSet(Beyond) /\ Before \cap Beyond = {} /\ Old = Before \cup Beyond
  <2>1. IsFiniteSet(1 .. i - 1) /\ IsFiniteSet(i .. n)
    BY <1>1, FS_Interval
  <2> QED BY <1>1, <2>1, FS_Subset
<1>5. Cardinality(Old) = Cardinality(Before) + Cardinality(Beyond)
  <2> HIDE DEF Old, Before, Beyond
  <2>1. Cardinality(Old) = Cardinality(Before) + Cardinality(Beyond) - Cardinality(Before \cap Beyond)
    BY <1>4, FS_Union
  <2>2. Cardinality(Before \cap Beyond) = 0
    BY <1>4, FS_EmptySet
  <2>3. Cardinality(Before) \in Nat /\ Cardinality(Beyond) \in Nat
    BY <1>4, FS_CardinalityType
  <2> QED BY <2>1, <2>2, <2>3
<1>6. Cardinality(New) = Cardinality(Beyond)
  <2> DEFINE f == [k \in New |-> k + i - 1]
  <2>1. f \in Bijection(New, Beyond)
    <3>1. \A k \in New : k + i - 1 \in Beyond
      BY <1>1
    <3>2. \A a, b \in New : a + i - 1 = b + i - 1 => a = b
      BY <1>1
    <3>3. ASSUME NEW k \in Beyond PROVE k - i + 1 \in New /\ f[k - i + 1] = k
      <4>1. k \in i .. n /\ k - i + 1 \in 1 .. n - i + 1 /\ k - i + 1 + i - 1 = k
        BY <1>1
      <4> QED BY <4>1
    <3>4. f \in [New -> Beyond] /\ \A a, b \in New : f[a] = f[b] => a = b
      BY <3>1, <3>2
    <3>5. \A k \in Beyond : \E l \in New : f[l] = k
      BY <3>3
    <3> HIDE DEF f, New, Beyond
    <3> QED BY <3>4, <3>5, Fun_IsBij
  <2>2. IsFiniteSet(New)
    <3>1. IsFiniteSet(1 .. n - i + 1)
      BY <1>1, FS_Interval
    <3> QED BY <3>1, FS_Subset
  <2>3. ExistsBijection(New, Beyond)
    BY <2>1 DEF ExistsBijection
  <2> HIDE DEF New, Beyond
  <2> QED BY <2>2, <2>3, FS_Bijection
<1>7. Cardinality(Before) \in Nat /\ Cardinality(Beyond) \in Nat
  BY <1>4, FS_CardinalityType
<1>8. r \notin lost' => Cardinality(Before) = 0
  <2>1. r \notin lost' => Before = {}
    BY DEF CutPortAt
  <2> QED BY <2>1, FS_EmptySet
<1>9. r \in lost' \ lost => Cardinality(Before) # 0
  <2>1. r \in lost' \ lost => Before # {}
    BY DEF CutPortAt
  <2> QED BY <1>4, <2>1, FS_EmptySet
<1> QED BY <1>3, <1>5, <1>6, <1>7, <1>8, <1>9

(* What AbortIO does to the port, as one request sees it. *)
LEMMA AbortPort ==
  ASSUME TypeOK, NEW x \in Reqs, AbortIO(x), ~AbortQueued(x), NEW r \in Reqs
  PROVE  /\ InPort(r)' <= InPort(r) /\ x \in aborted' \ aborted
         /\ r \notin lost' => InPort(r)' = InPort(r)
         /\ r \in lost' \ lost /\ InPort(r) <= 1
                => InPort(r) = 1 /\ InPort(r)' = 0 /\ req[Unit] = x
<1>1. InPort(r) \in Nat
  BY CountType
<1>2. ASSUME Damage \/ UNCHANGED <<port, lost, wild>>
      PROVE  InPort(r)' = InPort(r) /\ lost' = lost
  BY <1>2 DEF Damage, InPort
<1>3. CASE AbortLost(x)
  BY <1>1, <1>2, <1>3 DEF AbortLost
<1>4. CASE AbortTaken(x)
  <2>1. x \in aborted' \ aborted /\ req[Unit] = x
    BY <1>4 DEF AbortTaken
  <2>2. CASE Damage
    BY <1>1, <1>2, <2>1, <2>2
  <2>3. CASE ~Damage
    <3>1. \E i : (i \in DOMAIN port \/ i = Len(port) + 1) /\ CutPortAt(i)
      BY <1>4, <2>3 DEF AbortTaken
    <3>2. PICK i \in 1 .. Len(port) + 1 : CutPortAt(i)
      BY <3>1 DEF TypeOK
    <3> QED BY <2>1, <3>2, CutPort
  <2> QED BY <2>2, <2>3
<1> QED BY <1>3, <1>4 DEF AbortIO

(* AbortIO of a message in the port; a request it replies when it is on no list is
   no longer accounted for, nor is one its second Remove cuts off the port. *)
LEMMA AbortPlaces ==
  ASSUME TypeOK, NEW x \in Reqs, AbortIO(x), NEW r \in Reqs, r \in aborted \/ r \notin aborted'
  PROVE  /\ UNCHANGED lateVars \/ r \notin lost' \/ InPort(r) = 0 => Conserved(r)
         /\ r \in lost' \ lost /\ InPort(r) <= 1
                => /\ due'[r] = due[r] /\ InPort(r) = 1 /\ InPort(r)' = 0
                   /\ InHand(r)' = InHand(r) /\ OnRing(r)' = OnRing(r)
                   /\ req[Unit] \in aborted' \ aborted
         /\ due'[r] <= due[r] /\ due'[r] - Copies(r)' >= due[r] - Copies(r)
<1>1. Complete({x}) /\ UNCHANGED <<cb, pc, req>>
  BY DEF AbortIO, ringVars
<1>2. InHand(r)' = InHand(r) /\ OnRing(r)' = OnRing(r)
  BY <1>1 DEF InHand, OnRing
<1>3. InPort(r) \in Nat /\ InHand(r) \in Nat /\ OnRing(r) \in Nat /\ due[r] \in Int
  BY CountType DEF TypeOK
<1>4. due'[r] = due[r] - One(x = r)
  BY <1>1, <1>3 DEF Complete, One
<1>5. CASE AbortQueued(x)
  <2>1. PICK n \in DOMAIN port :
            /\ port[n] = x
            /\ port' = SubSeq(port, 1, n - 1) \o SubSeq(port, n + 1, Len(port))
    BY <1>5 DEF AbortQueued
  <2>2. InPort(r)' = InPort(r) - One(x = r) /\ lost' = lost
    BY <1>5, <2>1, PortRemove DEF AbortQueued, lateVars
  <2> QED BY <1>2, <1>3, <1>4, <2>2 DEF Conserved, Copies, One
<1>6. CASE ~AbortQueued(x)
  <2>1. InPort(r)' \in Nat
    <3>1. TypeOK'
      BY AbortType
    <3>2. PortCounted'
      BY <3>1, InPortNumber, PTL
    <3> QED BY <3>2 DEF PortCounted
  <2>2. /\ InPort(r)' <= InPort(r) /\ x \in aborted' \ aborted
        /\ r \notin lost' => InPort(r)' = InPort(r)
        /\ r \in lost' \ lost /\ InPort(r) <= 1
               => InPort(r) = 1 /\ InPort(r)' = 0 /\ req[Unit] = x
    BY <1>6, AbortPort
  <2>3. x # r /\ due'[r] = due[r]
    BY <1>3, <1>4, <2>2 DEF One
  <2>4. r \notin lost' \/ InPort(r) = 0 => InPort(r)' = InPort(r)
    BY <1>3, <2>1, <2>2
  <2>5. UNCHANGED lateVars \/ r \notin lost' \/ InPort(r) = 0 => Conserved(r)
    BY <1>2, <1>3, <2>2, <2>3, <2>4 DEF Conserved, Copies, lateVars
  <2>6. due'[r] - Copies(r)' >= due[r] - Copies(r)
    BY <1>2, <1>3, <2>1, <2>2, <2>3 DEF Copies
  <2> QED BY <1>2, <1>3, <2>2, <2>3, <2>5, <2>6
<1> QED BY <1>5, <1>6

(* Re-initialising the ring drops what it holds, which is nothing the first time. *)
LEMMA InitRingCopies ==
  ASSUME TypeOK, InitRing, NEW r \in Reqs
  PROVE  /\ InHand(r)' = InHand(r) /\ InPort(r)' = InPort(r) /\ OnRing(r)' = 0
         /\ UNCHANGED <<due, sessions>> /\ pc[Unit] = "initRing"
<1>1. /\ cb' = [s \in Slots |-> NoReq] /\ pc[Unit] = "initRing" /\ Goto(Unit, "phy")
      /\ UNCHANGED <<port, req, due, sessions>>
  BY DEF InitRing, unitVars
<1>2. \A s \in Tasks : pc'[s] = "publish" <=> pc[s] = "publish"
  BY <1>1, MoveSame DEF Tasks
<1>3. {t \in Tasks : req'[t] = r /\ pc'[t] # "publish"} = {t \in Tasks : req[t] = r /\ pc[t] # "publish"}
  BY <1>1, <1>2
<1>4. InHand(r)' = InHand(r) /\ InPort(r)' = InPort(r)
  BY <1>1, <1>3 DEF InHand, InPort
<1>5. OnRing(r)' = 0
  <2>1. {s \in Slots : cb'[s] = r} = {}
    BY <1>1, RequestAssumption
  <2> QED BY <2>1, FS_EmptySet DEF OnRing
<1> QED BY <1>1, <1>4, <1>5

LEMMA InitRingPlaces ==
  ASSUME TypeOK, ExclInv, RingInv, InitRing, UNCHANGED lateVars, NEW r \in Reqs, PlaceAt(r)
  PROVE  PlaceAt(r)'
<1>1. /\ InHand(r)' = InHand(r) /\ InPort(r)' = InPort(r) /\ OnRing(r)' = 0
      /\ UNCHANGED <<due, sessions>> /\ pc[Unit] = "initRing"
  BY InitRingCopies
<1>2. lost' = lost
  BY DEF lateVars
<1>6. sessions <= 1 => OnRing(r) = 0
  <2> SUFFICES ASSUME sessions <= 1 PROVE OnRing(r) = 0
    OBVIOUS
  <2>1. ~semInit
    BY <1>1 DEF RingInv, StartInv, TypeOK
  <2>2. {s \in Slots : cb[s] = r} = {}
    BY <2>1, RequestAssumption DEF RingInv, StartInv
  <2> QED BY <2>2, FS_EmptySet DEF OnRing
<1>7. InPort(r) \in Nat /\ InHand(r) \in Nat /\ OnRing(r) \in Nat /\ due[r] \in Int
  BY CountType DEF TypeOK
<1> QED BY <1>1, <1>2, <1>6, <1>7 DEF PlaceAt, Copies

(* Every step but the re-initialisation of the ring changes what is due of a request
   and the number of its places together. *)
LEMMA StepConserves ==
  ASSUME CopyMayFail = FALSE, TypeOK, ExclInv, AccInv, RingInv, [Next]_vars, ~InitRing,
         NEW r \in Reqs, r \in aborted \/ r \notin aborted',
         UNCHANGED lateVars \/ r \notin lost' \/ InPort(r) = 0, Copies(r) <= 1
  PROVE  Conserved(r)
<1>1. CASE HwTransmit \/ UNCHANGED vars
  BY <1>1, KeepPlaces DEF HwTransmit, ringVars, taskVars, vars
<1> QED
  BY <1>1, ClientPlaces, UnitPlaces, AbortPlaces DEF Next, Working, Handling

(* How often a request is anywhere is a number. *)
Counted == \A r \in Reqs : Copies(r) \in Nat
LEMMA CopiesType == TypeOK => Counted
<1> SUFFICES ASSUME TypeOK, NEW r \in Reqs PROVE Copies(r) \in Nat
  BY DEF Counted
<1>1. InPort(r) \in Nat /\ InHand(r) \in Nat /\ OnRing(r) \in Nat
  BY CountType
<1> QED BY <1>1 DEF Copies

LEMMA PlacedOnce == ASSUME TypeOK, NEW r \in Reqs, PlaceAt(r) PROVE Copies(r) <= 1
BY CopiesType DEF Counted, PlaceAt

(* The number of starts never goes back. *)
LEMMA SessionsGrow ==
  ASSUME TypeOK, [Next]_vars PROVE sessions' >= sessions
<1>1. CASE AllocBuffers
  BY <1>1 DEF AllocBuffers, TypeOK
<1>2. CASE UnitStep /\ ~AllocBuffers
  BY <1>2 DEF UnitStep, GetMsg, PeriodicReclaim, EnterReclaim, CmdFlush, CmdOffline, FlushTo,
     CmdConfigure, CmdOnline, StopStep, UnitOffline, StopDma, StopReclaim, StopRetire, Retire, StopFree,
     StartStep, InitRing, PhyStartup, XmitStep, Reclaimed, RejectOffline, AcceptWrite, XmitEnter,
     XmitHeader, XmitBody, XmitPublish, XmitFail, unitVars, TypeOK
<1>3. ASSUME NEW c \in Clients, BeginIO(c) \/ ClientStep(c) PROVE sessions' >= sessions
  BY <1>3 DEF BeginIO, BeginIOQuick, BeginIOQueue, ClientStep, QuickReclaim, QuickSkip, EnterReclaim,
     LeaveBeginIO, XmitStep, Reclaimed, Retire, RejectOffline, AcceptWrite, XmitEnter, XmitHeader,
     XmitBody, XmitPublish, XmitFail, unitVars, TypeOK
<1>4. CASE HwTransmit \/ Aside
  BY <1>4 DEF HwTransmit, Aside, unitVars, TypeOK
<1> QED BY <1>1, <1>2, <1>3, <1>4, NextCases

(* The histories grow, and only AbortIO adds to them. *)
LEMMA LateGrow ==
  ASSUME [Next]_vars PROVE aborted \subseteq aborted' /\ lost \subseteq lost'
BY DEF Next, Working, AbortIO, AbortQueued, AbortTaken, AbortLost, CutPortAt, Damage, lateVars, vars

LEMMA StartIsNoAbort ==
  ASSUME TypeOK, [Next]_vars, InitRing PROVE UNCHANGED lateVars
<1>1. ASSUME NEW x \in Reqs, AbortIO(x) PROVE FALSE
  <2>1. pc' = pc /\ pc[Unit] = "initRing" /\ pc'[Unit] = "phy"
    BY <1>1 DEF AbortIO, InitRing, Goto, TypeOK, Tasks
  <2> QED BY <2>1
<1> QED BY <1>1 DEF Next, Working, vars

(* A request is cut off the port in one way: AbortIO meets another in the unit
   task's hand. *)
LEMMA CutByAbort ==
  ASSUME TypeOK, [Next]_vars, NEW r \in Reqs, r \notin aborted', r \in lost' \ lost, InPort(r) <= 1
  PROVE  /\ due'[r] = due[r] /\ InPort(r) = 1 /\ InPort(r)' = 0
         /\ InHand(r)' = InHand(r) /\ OnRing(r)' = OnRing(r)
         /\ LateRemove
<1>1. PICK x \in Reqs : AbortIO(x)
  BY DEF Next, Working, vars, lateVars
<1> QED BY <1>1, AbortPlaces DEF LateRemove

LEMMA NextOnePlace ==
  ASSUME CopyMayFail = FALSE, TypeOK, TypeOK', ExclInv, AccInv, RingInv, OnePlace, [Next]_vars
  PROVE  OnePlace'
<1> SUFFICES ASSUME NEW r \in Reqs \ aborted' PROVE PlaceAt(r)'
  BY DEF OnePlace, PlaceAt
<1>1. r \in Reqs \ aborted /\ lost \subseteq lost'
  BY LateGrow
<1>2. PlaceAt(r)
  BY <1>1 DEF OnePlace, PlaceAt
<1>3. InPort(r) \in Nat /\ InHand(r) \in Nat /\ OnRing(r) \in Nat /\ due[r] \in Int
  BY CountType DEF TypeOK
<1>4. Copies(r)' \in Nat /\ due'[r] \in Int
  <2>1. Counted'
    BY CopiesType, PTL
  <2> QED BY <1>1, <2>1 DEF Counted, TypeOK
<1>5. sessions' <= 1 => sessions <= 1
  BY SessionsGrow DEF TypeOK
<1>6. Copies(r) \in Nat /\ Copies(r) <= 1 /\ InPort(r) <= 1
  BY <1>2, <1>3, PlacedOnce DEF Copies
<1>7. CASE InitRing
  <2>1. UNCHANGED lateVars
    BY <1>7, StartIsNoAbort
  <2> QED BY <1>2, <1>7, <2>1, InitRingPlaces
<1>8. CASE ~InitRing /\ (r \notin lost' \/ InPort(r) = 0)
  <2>1. Conserved(r)
    BY <1>1, <1>6, <1>8, StepConserves
  <2>2. /\ due'[r] - Copies(r)' = due[r] - Copies(r)
        /\ due'[r] <= due[r] \/ due'[r] = 1
    BY <2>1 DEF Conserved
  <2>3. r \in lost' => r \in lost
    <3>1. r \in lost' \ lost => InPort(r) = 1
      BY <1>1, <1>6, CutByAbort
    <3> QED BY <1>3, <1>8, <3>1
  <2>4. PICK c \in Nat, d \in Nat, e \in Int, f \in Int :
            c = Copies(r) /\ d = Copies(r)' /\ e = due[r] /\ f = due'[r]
    BY <1>3, <1>4, <1>6
  <2>5. /\ e \in {0, 1} /\ c <= e /\ f - d = e - c /\ (f <= e \/ f = 1)
        /\ sessions <= 1 /\ r \notin lost => c = e
        /\ r \in lost => e = 1 /\ c = 0
    BY <1>2, <2>2, <2>4 DEF PlaceAt
  <2>6. /\ f \in {0, 1} /\ d <= f /\ (sessions' <= 1 /\ r \notin lost' => d = f)
        /\ r \in lost' => f = 1 /\ d = 0
    BY <1>1, <1>5, <2>3, <2>5
  <2> QED BY <2>4, <2>6 DEF PlaceAt
<1>9. CASE r \in lost' /\ InPort(r) # 0
  <2>1. Copies(r) # 0
    <3>1. \A x, y, z \in Nat : x # 0 => x + y + z # 0
      OBVIOUS
    <3> QED BY <1>3, <1>9, <3>1 DEF Copies
  <2>2. r \in lost' \ lost /\ due[r] = 1
    BY <1>2, <1>3, <1>6, <1>9, <2>1 DEF PlaceAt
  <2>3. /\ due'[r] = due[r] /\ InPort(r) = 1 /\ InPort(r)' = 0
        /\ InHand(r)' = InHand(r) /\ OnRing(r)' = OnRing(r)
    BY <1>1, <1>6, <2>2, CutByAbort
  <2>4. Copies(r)' = 0
    BY <1>3, <1>6, <2>3 DEF Copies
  <2> QED BY <1>9, <2>2, <2>3, <2>4 DEF PlaceAt
<1> QED BY <1>7, <1>8, <1>9

LEMMA InitOnePlace == Init => OnePlace
<1> SUFFICES ASSUME Init, NEW r \in Reqs PROVE PlaceAt(r)
  BY DEF OnePlace, PlaceAt
<1>1. /\ {i \in DOMAIN port : port[i] = r} = {}
      /\ {t \in Tasks : req[t] = r /\ pc[t] # "publish"} = {}
      /\ {s \in Slots : cb[s] = r} = {}
      /\ due[r] = 0
  BY RequestAssumption DEF Init
<1>2. InPort(r) = 0 /\ InHand(r) = 0 /\ OnRing(r) = 0
  BY <1>1, FS_EmptySet DEF InPort, InHand, OnRing
<1>3. r \notin lost
  BY DEF Init
<1> QED BY <1>1, <1>2, <1>3 DEF PlaceAt, Copies

PlaceInv == TypeOK /\ ExclInv /\ AccInv /\ RingInv /\ OnePlace

LEMMA PlacesInvariant == QuietRestart = TRUE /\ CopyMayFail = FALSE => (Spec => []PlaceInv)
<1> SUFFICES ASSUME QuietRestart = TRUE, CopyMayFail = FALSE PROVE Spec => []PlaceInv
  OBVIOUS
<1>1. TypeOK /\ ExclInv /\ AccInv /\ RingInv /\ OnePlace /\ [Next]_vars
          => TypeOK' /\ ExclInv' /\ AccInv' /\ RingInv' /\ OnePlace'
  BY NextType, NextExcl, NextAcc, NextRingInv, NextOnePlace
<1>2. Init => TypeOK /\ ExclInv /\ AccInv /\ RingInv /\ OnePlace
  BY InitType, InitExcl, InitAcc, InitRingInv, InitOnePlace
<1> QED BY <1>1, <1>2, PTL DEF Spec, PlaceInv

(* Every request is in exactly one place from BeginIO to its completion, so it is
   completed once, for any clients, requests and ring: in the port, in one task's
   hand or in one control block.  The exceptions are requests AbortIO takes from the
   unit task's hand, those its second Remove then cuts off the port, which are in no
   place and never answered, and those the ring forgets when it is re-initialised. *)
THEOREM RequestsInOnePlace ==
  QuietRestart = TRUE /\ CopyMayFail = FALSE => (Spec => []OnePlace)
<1> SUFFICES ASSUME QuietRestart = TRUE, CopyMayFail = FALSE PROVE Spec => []OnePlace
  OBVIOUS
<1> QED BY PlacesInvariant, PTL DEF PlaceInv

(* A request leaves the driver's hands unreplied only when S2_ONLINE re-initialises
   the ring it is on, or when AbortIO meets another one in the unit task's hand and
   so cuts this one off the port. *)
THEOREM RequestsLostInTwoWays ==
  QuietRestart = TRUE /\ CopyMayFail = FALSE => (Spec => WaysToLose)
<1> SUFFICES ASSUME QuietRestart = TRUE, CopyMayFail = FALSE PROVE Spec => WaysToLose
  OBVIOUS
<1>1. PlaceInv /\ [Next]_vars =>
          [\A r \in Reqs \ aborted' :
              due'[r] - Copies(r)' # due[r] - Copies(r) =>
                  \/ pc[Unit] = "initRing"
                  \/ LateRemove /\ r \in lost' \ lost /\ InPort(r) = 1]_vars
  <2> SUFFICES ASSUME PlaceInv, [Next]_vars, NEW r \in Reqs \ aborted', pc[Unit] # "initRing",
                      due'[r] - Copies(r)' # due[r] - Copies(r)
               PROVE  LateRemove /\ r \in lost' \ lost /\ InPort(r) = 1
    OBVIOUS
  <2>1. r \in Reqs \ aborted /\ ~InitRing
    BY LateGrow DEF InitRing
  <2>2. PlaceAt(r)
    BY <2>1 DEF PlaceInv, OnePlace, PlaceAt
  <2>3. InPort(r) \in Nat /\ InHand(r) \in Nat /\ OnRing(r) \in Nat
    BY CountType DEF PlaceInv
  <2>4. Copies(r) <= 1 /\ InPort(r) <= 1
    BY <2>2, <2>3, PlacedOnce DEF PlaceInv, Copies
  <2>5. r \in lost' /\ InPort(r) # 0
    <3> SUFFICES ASSUME r \notin lost' \/ InPort(r) = 0 PROVE FALSE
      OBVIOUS
    <3>1. Conserved(r)
      BY <2>1, <2>4, StepConserves DEF PlaceInv
    <3> QED BY <3>1 DEF Conserved
  <2>6. r \notin lost
    BY <2>2, <2>3, <2>5 DEF PlaceAt, Copies
  <2> QED BY <2>4, <2>5, <2>6, CutByAbort DEF PlaceInv
<1> QED BY <1>1, PlacesInvariant, PTL DEF Spec, WaysToLose

(***************************************************************************)
(* What the descriptors describe.  FramesWhole is about the part of the    *)
(* window the hardware may read; it follows from what every descriptor of  *)
(* the window describes, with the one frame whose body is outstanding.     *)
(***************************************************************************)
Used == TX_DESCS - free_bds
At(k) == Slot(tx_cons_index + k)
Part(r, part) == [io |-> r, part |-> part]
Sending == {"header", "body", "publish"}
Half(t) == pc[t] \in {"body", "publish"} /\ req[t] \notin RawReqs

HeaderAt(k) ==
    desc[At(k)].part = "header" =>
        /\ cb[At(k)] = NoReq
        /\ IF k + 1 < Used THEN desc[At(k + 1)] = Part(desc[At(k)].io, "body")
           ELSE \E t \in Tasks : Half(t)
BodyAt(k) ==
    /\ desc[At(k)].part \in {"body", "whole"} => cb[At(k)] = desc[At(k)].io
    /\ desc[At(k)].part = "body" /\ k > 0 => desc[At(k - 1)] = Part(desc[At(k)].io, "header")
WindowInv == \A k \in 0 .. Used - 1 : desc[At(k)].part # "none" /\ HeaderAt(k) /\ BodyAt(k)
SenderAt(t) ==
    /\ Half(t) => /\ Used > 0 /\ desc[At(Used - 1)] = Part(req[t], "header")
                  /\ Dist(tx_cons_index, hwProd) = Used - 1
    /\ pc[t] = "publish" => cb[Slot(tx_prod_index)] = req[t]
    /\ pc[t] = "header" => req[t] \notin RawReqs
FrameInv ==
    /\ semInit => /\ WindowInv
                  /\ \A t \in Tasks : SenderAt(t)
                  /\ (\A t \in Tasks : ~Half(t)) => hwProd = tx_prod_index
    /\ dmaOn => semInit

(* The slots of the window are different slots. *)
LEMMA AtApart ==
  ASSUME TypeOK, NEW j \in Nat, NEW k \in Nat, j < k, k < TX_DESCS PROVE At(j) # At(k)
<1>1. tx_cons_index \in Nat
  BY DEF TypeOK, Index
<1>2. /\ tx_cons_index + j \in Nat /\ tx_cons_index + k \in Nat
      /\ tx_cons_index + j < tx_cons_index + k
      /\ tx_cons_index + k < (tx_cons_index + j) + TX_DESCS
  BY <1>1, RingAssumption
<1> QED BY <1>2, SlotApart DEF At

LEMMA AtSlot == ASSUME TypeOK, NEW k \in Nat PROVE At(k) \in Slots
<1>1. tx_cons_index + k \in Int
  BY DEF TypeOK, Index
<1> QED BY <1>1, SlotType DEF At

(* A step that touches neither the ring nor a task that is sending. *)
LEMMA KeepFrames ==
  ASSUME FrameInv, UNCHANGED <<ringVars, semInit, hwProd>>, dmaOn' => dmaOn,
         \A s \in Tasks : IF pc[s] \in Sending THEN pc'[s] = pc[s] /\ req'[s] = req[s]
                          ELSE pc'[s] \notin Sending
  PROVE  FrameInv'
<1>1. \A s \in Tasks : Half(s)' <=> Half(s)
  BY DEF Half, Sending
<1>2. Used' = Used /\ \A k : At(k)' = At(k)
  BY DEF Used, At, ringVars
<1>3. WindowInv => WindowInv'
  BY <1>1, <1>2 DEF WindowInv, HeaderAt, BodyAt, ringVars
<1>4. \A s \in Tasks : SenderAt(s) => SenderAt(s)'
  BY <1>1, <1>2 DEF SenderAt, Half, Sending, ringVars
<1> QED BY <1>1, <1>3, <1>4 DEF FrameInv, ringVars

(* Nobody else is sending while a task is inside the ring. *)
LEMMA OnlySender ==
  ASSUME TypeOK, ExclInv, NEW t \in Tasks, pc[t] \in InnerSteps, NEW step, Goto(t, step)
  PROVE  /\ \A s \in Tasks \ {t} : pc[s] \notin Sending /\ pc'[s] = pc[s] /\ ~Half(s) /\ ~Half(s)'
         /\ pc'[t] = step
<1>1. \A s \in Tasks \ {t} : pc[s] \notin InnerSteps
  BY Alone DEF ExclInv
<1>2. pc'[t] = step /\ \A s \in Tasks \ {t} : pc'[s] = pc[s]
  BY DEF Goto, TypeOK
<1> QED BY <1>1, <1>2 DEF InnerSteps, Sending, Half

(* A reclaim moves the window on. *)
LEMMA Retired ==
  ASSUME TypeOK, ExclInv, AccInv, RingInv, NEW t \in Tasks,
         pc[t] \in {"reclaim", "stopRetire"}, Retire(t)
  PROVE  \E n \in Nat :
            /\ n = Dist(tx_cons_index, snap[t]) /\ n <= Used /\ n <= Dist(tx_cons_index, hwCons)
            /\ tx_cons_index' = snap[t] /\ Used' = Used - n
            /\ UNCHANGED <<tx_prod_index, hwProd, hwCons, semInit, req, dmaOn>>
            /\ \A k \in Nat : n + k < Used => /\ desc'[At(k)'] = desc[At(n + k)]
                                             /\ cb'[At(k)'] = cb[At(n + k)]
<1> StartInv /\ AlignInv
  BY DEF RingInv
<1>1. /\ semInit /\ RingAcc /\ TaskAcc(t) /\ Used \in Nat /\ Used < TX_DESCS
      /\ Dist(tx_cons_index, tx_prod_index) = Used /\ tx_cons_index \in Nat
  BY InsideRing, RingAssumption DEF InnerSteps, Used, RingAcc
<1>2. PICK n \in Nat : n = Dist(tx_cons_index, snap[t])
  <2>1. tx_cons_index \in Index /\ snap[t] \in Index
    BY DEF TypeOK
  <2>2. Dist(tx_cons_index, snap[t]) \in Index
    BY <2>1, DistType
  <2>3. Index \subseteq Nat
    BY DEF Index
  <2> QED BY <2>2, <2>3
<1>3. n <= Used /\ n <= Dist(tx_cons_index, hwCons)
  <2>1. /\ n <= Dist(tx_cons_index, hwCons)
        /\ Dist(tx_cons_index, hwCons) <= Dist(tx_cons_index, hwProd)
        /\ Dist(tx_cons_index, hwProd) <= Used
    BY <1>1, <1>2 DEF TaskAcc, RingAcc, Between
  <2>2. Dist(tx_cons_index, hwCons) \in Nat /\ Dist(tx_cons_index, hwProd) \in Nat
    BY DistType DEF TypeOK, Index
  <2> QED BY <1>1, <2>1, <2>2
<1>4. /\ tx_cons_index' = snap[t] /\ free_bds' = free_bds + n
      /\ UNCHANGED <<tx_prod_index, hwProd, hwCons, semInit, req, dmaOn>>
      /\ desc' = [s \in Slots |-> IF s \in RetireSlots(n) THEN NoDesc ELSE desc[s]]
      /\ cb' = [s \in Slots |-> IF s \in RetireSlots(n) THEN NoReq ELSE cb[s]]
  BY <1>2 DEF Retire, Release, hwVars
<1>5. Used' = Used - n
  BY <1>2, <1>4, RingAssumption DEF Used, TypeOK
<1>6. ASSUME NEW k \in Nat PROVE At(k)' = At(n + k)
  <2>1. tx_cons_index \in Index /\ snap[t] \in Index
    BY DEF TypeOK
  <2>2. Slot(tx_cons_index + n) = Slot(snap[t])
    BY <1>2, <2>1, DistSlot
  <2>3. Slot(Slot(tx_cons_index + n) + k) = Slot((tx_cons_index + n) + k)
    BY <1>1, <1>2, SlotSum
  <2>4. Slot(Slot(snap[t]) + k) = Slot(snap[t] + k)
    <3>1. snap[t] \in Nat
      BY <2>1 DEF Index
    <3> QED BY <3>1, SlotSum
  <2>5. (tx_cons_index + n) + k = tx_cons_index + (n + k)
    BY <1>1, <1>2
  <2> QED BY <1>4, <2>2, <2>3, <2>4, <2>5 DEF At
<1>7. ASSUME NEW k \in Nat, n + k < Used
      PROVE  desc'[At(k)'] = desc[At(n + k)] /\ cb'[At(k)'] = cb[At(n + k)]
  <2>1. At(n + k) \in Slots
    BY <1>2, AtSlot
  <2>2. At(n + k) \notin RetireSlots(n)
    <3>1. RetireSlots(n) = {At(j) : j \in 0 .. n - 1}
      BY <1>2, Freed DEF At
    <3>2. \A j \in 0 .. n - 1 : At(j) # At(n + k)
      BY <1>1, <1>2, <1>7, AtApart, RingAssumption
    <3> QED BY <3>1, <3>2
  <2> QED BY <1>4, <1>6, <2>1, <2>2
<1> QED BY <1>2, <1>3, <1>4, <1>5, <1>7

LEMMA RetireFrames ==
  ASSUME TypeOK, ExclInv, AccInv, RingInv, FrameInv, NEW t \in Tasks,
         pc[t] \in {"reclaim", "stopRetire"}, Retire(t), NEW step, step \notin Sending, Goto(t, step)
  PROVE  FrameInv'
<1>1. /\ semInit /\ Used \in Nat /\ tx_cons_index \in Nat
      /\ Dist(tx_cons_index, tx_prod_index) = Used
  BY InsideRing, RingAssumption DEF InnerSteps, Used, RingInv
<1>2. PICK n \in Nat :
          /\ n <= Used /\ Used' = Used - n
          /\ UNCHANGED <<tx_prod_index, hwProd, semInit, dmaOn>>
          /\ \A k \in Nat : n + k < Used => /\ desc'[At(k)'] = desc[At(n + k)]
                                           /\ cb'[At(k)'] = cb[At(n + k)]
  BY Retired
<1>3. \A s \in Tasks : ~Half(s) /\ ~Half(s)' /\ pc[s] \notin Sending /\ pc'[s] \notin Sending
  BY OnlySender DEF InnerSteps, Sending, Half
<1>4. WindowInv'
  <2> SUFFICES ASSUME NEW k \in 0 .. Used' - 1
               PROVE  (desc[At(k)].part # "none" /\ HeaderAt(k) /\ BodyAt(k))'
    BY DEF WindowInv
  <2>1. PICK i \in 0 .. Used - 1 : i = n + k /\ k \in Nat /\ i \in Nat
    BY <1>1, <1>2
  <2>2. desc[At(i)].part # "none" /\ HeaderAt(i) /\ BodyAt(i)
    BY <1>1, <2>1 DEF FrameInv, WindowInv
  <2>3. desc'[At(k)'] = desc[At(i)] /\ cb'[At(k)'] = cb[At(i)]
    <3>1. n + k < Used
      BY <1>1, <2>1
    <3> QED BY <1>2, <2>1, <3>1
  <2>4. HeaderAt(k)'
    <3> SUFFICES ASSUME desc'[At(k)'].part = "header"
                 PROVE  cb'[At(k)'] = NoReq /\ k + 1 < Used'
                        /\ desc'[At(k + 1)'] = Part(desc'[At(k)'].io, "body")
      BY DEF HeaderAt, Part
    <3>1. i + 1 < Used /\ cb[At(i)] = NoReq /\ desc[At(i + 1)] = Part(desc[At(i)].io, "body")
      BY <1>3, <2>2, <2>3 DEF HeaderAt
    <3>2. k + 1 \in Nat /\ i + 1 = n + (k + 1) /\ k + 1 < Used'
      BY <1>1, <1>2, <2>1, <3>1
    <3>3. desc'[At(k + 1)'] = desc[At(i + 1)]
      BY <1>2, <3>1, <3>2
    <3> QED BY <2>3, <3>1, <3>2, <3>3
  <2>5. BodyAt(k)'
    <3>1. desc'[At(k)'].part \in {"body", "whole"} => cb'[At(k)'] = desc'[At(k)'].io
      BY <2>2, <2>3 DEF BodyAt
    <3>2. ASSUME desc'[At(k)'].part = "body", k > 0
          PROVE  desc'[At(k - 1)'] = Part(desc'[At(k)'].io, "header")
      <4>1. k - 1 \in Nat /\ i - 1 = n + (k - 1) /\ n + (k - 1) < Used /\ i > 0
        BY <1>1, <1>2, <2>1, <3>2
      <4>2. desc'[At(k - 1)'] = desc[At(i - 1)]
        BY <1>2, <4>1
      <4> QED BY <2>2, <2>3, <3>2, <4>1, <4>2 DEF BodyAt
    <3> QED BY <3>1, <3>2 DEF BodyAt, Part
  <2> QED BY <2>2, <2>3, <2>4, <2>5
<1>5. \A s \in Tasks : SenderAt(s)'
  BY <1>3 DEF SenderAt, Sending
<1>6. hwProd' = tx_prod_index'
  BY <1>1, <1>2, <1>3 DEF FrameInv
<1> QED BY <1>1, <1>2, <1>4, <1>5, <1>6 DEF FrameInv

(* What bcmgenet_xmit finds while a task is sending. *)
LEMMA SendWindow ==
  ASSUME TypeOK, ExclInv, AccInv, RingInv, FrameInv, NEW t \in Tasks, pc[t] \in Sending
  PROVE  /\ semInit /\ Used \in Nat
         /\ Dist(tx_cons_index, tx_prod_index) = Used
         /\ At(Used) = Slot(tx_prod_index) /\ At(Used) \in Slots
         /\ \A k \in 0 .. Used - 1 : At(k) # At(Used) /\ At(k) \in Slots
         /\ WindowInv /\ SenderAt(t)
         /\ \A s \in Tasks \ {t} : ~Half(s)
         /\ ~Half(t) => hwProd = tx_prod_index
<1>1. /\ semInit /\ RingAcc /\ Used \in Nat /\ Used < TX_DESCS
      /\ Dist(tx_cons_index, tx_prod_index) = Used /\ At(Used) = Slot(tx_prod_index)
  BY InsideRing, RingAssumption DEF InnerSteps, Sending, Used, At, RingAcc, RingInv
<1>2. At(Used) \in Slots /\ \A k \in 0 .. Used - 1 : At(k) # At(Used) /\ At(k) \in Slots
  BY <1>1, AtApart, AtSlot
<1>3. WindowInv /\ SenderAt(t)
  BY <1>1 DEF FrameInv
<1>4. \A s \in Tasks \ {t} : ~Half(s)
  <2>1. \A s \in Tasks \ {t} : pc[s] \notin InnerSteps
    BY Alone DEF ExclInv, InnerSteps, Sending
  <2> QED BY <2>1 DEF Half, InnerSteps
<1>5. ~Half(t) => hwProd = tx_prod_index
  BY <1>1, <1>4 DEF FrameInv
<1> QED BY <1>1, <1>2, <1>3, <1>4, <1>5

(* The header goes behind the last complete frame. *)
LEMMA HeaderFrames ==
  ASSUME TypeOK, ExclInv, AccInv, RingInv, FrameInv, NEW t \in Tasks, XmitHeader(t)
  PROVE  FrameInv'
<1>1. /\ pc[t] = "header" /\ Goto(t, "body")
      /\ cb' = [cb EXCEPT ![write_ptr] = NoReq]
      /\ desc' = [desc EXCEPT ![write_ptr] = Part(req[t], "header")]
      /\ free_bds' = free_bds - 1
      /\ UNCHANGED <<tx_cons_index, semInit, req, hwProd, dmaOn>>
  BY DEF XmitHeader, Part, semVars, hwVars
<1>2. /\ semInit /\ Used \in Nat /\ Dist(tx_cons_index, tx_prod_index) = Used
      /\ At(Used) = Slot(tx_prod_index) /\ At(Used) \in Slots
      /\ \A k \in 0 .. Used - 1 : At(k) # At(Used) /\ At(k) \in Slots
      /\ WindowInv /\ SenderAt(t) /\ ~Half(t) /\ hwProd = tx_prod_index
      /\ \A s \in Tasks : ~Half(s)
  BY <1>1, SendWindow DEF Sending, Half
<1>3. write_ptr = At(Used) /\ cb[write_ptr] = NoReq
  BY <1>1, <1>2, NextFree
<1>4. Used' = Used + 1 /\ \A k : At(k)' = At(k)
  BY <1>1, RingAssumption DEF Used, At, TypeOK
<1>5. /\ desc'[At(Used)] = Part(req[t], "header") /\ cb' = cb
      /\ \A k \in 0 .. Used - 1 : desc'[At(k)] = desc[At(k)]
  BY <1>1, <1>2, <1>3 DEF TypeOK
<1>6. /\ pc'[t] = "body" /\ \A s \in Tasks \ {t} : pc'[s] \notin Sending /\ ~Half(s)'
  BY <1>1, OnlySender DEF InnerSteps
<1>7. Half(t)'
  BY <1>1, <1>2, <1>6 DEF Half, SenderAt
<1>8. WindowInv'
  <2> SUFFICES ASSUME NEW k \in 0 .. Used' - 1
               PROVE  (desc[At(k)].part # "none" /\ HeaderAt(k) /\ BodyAt(k))'
    BY DEF WindowInv
  <2>1. CASE k \in 0 .. Used - 1
    <3>1. desc[At(k)].part # "none" /\ HeaderAt(k) /\ BodyAt(k)
      BY <1>2, <2>1 DEF WindowInv
    <3>2. desc'[At(k)'] = desc[At(k)]
      BY <1>4, <1>5, <2>1
    <3>3. ASSUME desc'[At(k)'].part = "header"
          PROVE  cb'[At(k)'] = NoReq /\ k + 1 < Used'
                 /\ desc'[At(k + 1)'] = Part(desc'[At(k)'].io, "body")
      <4>1. k + 1 < Used /\ cb[At(k)] = NoReq /\ desc[At(k + 1)] = Part(desc[At(k)].io, "body")
        BY <1>2, <3>1, <3>2, <3>3 DEF HeaderAt
      <4>2. k + 1 \in 0 .. Used - 1 /\ k + 1 < Used'
        BY <1>2, <1>4, <2>1, <4>1
      <4> QED BY <1>4, <1>5, <3>2, <4>1, <4>2
    <3>4. ASSUME desc'[At(k)'].part = "body", k > 0
          PROVE  desc'[At(k - 1)'] = Part(desc'[At(k)'].io, "header")
      <4>1. k - 1 \in 0 .. Used - 1
        BY <1>2, <2>1, <3>4
      <4> QED BY <1>4, <1>5, <3>1, <3>2, <3>4, <4>1 DEF BodyAt
    <3>5. desc'[At(k)'].part \in {"body", "whole"} => cb'[At(k)'] = desc'[At(k)'].io
      BY <1>4, <1>5, <3>1, <3>2 DEF BodyAt
    <3> QED BY <3>1, <3>2, <3>3, <3>4, <3>5 DEF HeaderAt, BodyAt, Part
  <2>2. CASE k = Used
    <3>1. desc'[At(k)'] = Part(req[t], "header") /\ cb'[At(k)'] = NoReq /\ ~(k + 1 < Used')
      BY <1>2, <1>3, <1>4, <1>5, <2>2
    <3> QED BY <1>7, <3>1 DEF HeaderAt, BodyAt, Part
  <2> QED BY <1>2, <1>4, <2>1, <2>2
<1>9. ASSUME NEW s \in Tasks PROVE SenderAt(s)'
  <2>1. CASE s = t
    <3>1. Used' > 0 /\ Used' - 1 = Used
      BY <1>2, <1>4
    <3>2. desc'[Slot(tx_cons_index' + (Used' - 1))] = Part(req'[t], "header")
      BY <1>1, <1>5, <3>1 DEF At
    <3>3. Dist(tx_cons_index', hwProd') = Used' - 1
      BY <1>1, <1>2, <3>1
    <3> QED BY <1>6, <2>1, <3>1, <3>2, <3>3 DEF SenderAt, Part, At, Dist, Half, Slot
  <2>2. CASE s # t
    BY <1>6, <2>2 DEF SenderAt, Sending
  <2> QED BY <2>1, <2>2
<1> QED BY <1>1, <1>2, <1>7, <1>8, <1>9 DEF FrameInv

(* The control block that belongs to the body is filled in first. *)
LEMMA BodyFrames ==
  ASSUME CopyMayFail = FALSE, TypeOK, ExclInv, AccInv, RingInv, FrameInv, NEW t \in Tasks, XmitBody(t)
  PROVE  FrameInv'
<1>1. /\ pc[t] = "body" /\ Goto(t, "publish")
      /\ cb' = [cb EXCEPT ![write_ptr] = req[t]]
      /\ UNCHANGED <<desc, free_bds, tx_cons_index, tx_prod_index, semInit, req, hwProd, dmaOn>>
  BY DEF XmitBody, semVars, hwVars
<1>2. /\ semInit /\ Used \in Nat
      /\ At(Used) = Slot(tx_prod_index) /\ At(Used) \in Slots
      /\ \A k \in 0 .. Used - 1 : At(k) # At(Used) /\ At(k) \in Slots
      /\ WindowInv /\ SenderAt(t) /\ (~Half(t) => hwProd = tx_prod_index)
      /\ \A s \in Tasks \ {t} : ~Half(s)
  BY <1>1, SendWindow DEF Sending
<1>3. write_ptr = At(Used)
  BY <1>1, <1>2, NextFree
<1>4. Used' = Used /\ \A k : At(k)' = At(k)
  BY <1>1 DEF Used, At
<1>5. cb'[At(Used)] = req[t] /\ \A k \in 0 .. Used - 1 : cb'[At(k)] = cb[At(k)]
  BY <1>1, <1>2, <1>3 DEF TypeOK
<1>6. /\ pc'[t] = "publish" /\ \A s \in Tasks \ {t} : pc'[s] \notin Sending /\ ~Half(s)'
  BY <1>1, OnlySender DEF InnerSteps
<1>7. \A s \in Tasks : Half(s)' <=> Half(s)
  BY <1>1, <1>2, <1>6 DEF Half
<1>8. WindowInv'
  BY <1>1, <1>2, <1>4, <1>5, <1>7 DEF WindowInv, HeaderAt, BodyAt
<1>9. ASSUME NEW s \in Tasks PROVE SenderAt(s)'
  <2>1. CASE s = t
    <3>1. cb'[Slot(tx_prod_index)'] = req'[t]
      BY <1>1, <1>2, <1>5 DEF Slot
    <3> QED BY <1>1, <1>2, <1>4, <1>6, <1>7, <2>1, <3>1 DEF SenderAt, Dist
  <2>2. CASE s # t
    BY <1>6, <2>2 DEF SenderAt, Sending
  <2> QED BY <2>1, <2>2
<1> QED BY <1>1, <1>2, <1>7, <1>8, <1>9 DEF FrameInv

(* The descriptor of the data completes the frame and the hardware is told. *)
LEMMA PublishFrames ==
  ASSUME TypeOK, ExclInv, AccInv, RingInv, FrameInv, NEW t \in Tasks, XmitPublish(t)
  PROVE  FrameInv'
<1> DEFINE d == Part(req[t], IF req[t] \in RawReqs THEN "whole" ELSE "body")
<1>1. /\ pc[t] = "publish" /\ Goto(t, After(t)) /\ After(t) \notin Sending
      /\ desc' = [desc EXCEPT ![BodySlot] = d]
      /\ free_bds' = free_bds - 1 /\ hwProd' = tx_prod_index'
      /\ UNCHANGED <<cb, tx_cons_index, semInit, dmaOn>>
  BY DEF XmitPublish, Part, Release, After, Sending
<1>2. /\ semInit /\ Used \in Nat
      /\ At(Used) = Slot(tx_prod_index) /\ At(Used) \in Slots
      /\ \A k \in 0 .. Used - 1 : At(k) # At(Used) /\ At(k) \in Slots
      /\ WindowInv /\ SenderAt(t)
      /\ \A s \in Tasks \ {t} : ~Half(s)
  BY <1>1, SendWindow DEF Sending
<1>3. BodySlot = At(Used)
  <2>1. Publishing = 1
    BY <1>1, OnlyPublisher DEF InnerSteps, ExclInv
  <2>2. write_ptr = Wrap(Slot(tx_prod_index) + 1, TX_DESCS)
    BY <1>2, <2>1, NextSlot DEF RingInv, AlignInv, TypeOK
  <2>3. PICK x \in Slots : x = Slot(tx_prod_index)
    BY <1>2
  <2>4. BodySlot = x
    BY <2>2, <2>3, RingAssumption DEF BodySlot, Wrap, Slots
  <2> QED BY <1>2, <2>3, <2>4
<1>4. Used' = Used + 1 /\ \A k : At(k)' = At(k)
  BY <1>1, RingAssumption DEF Used, At, TypeOK
<1>5. desc'[At(Used)] = d /\ \A k \in 0 .. Used - 1 : desc'[At(k)] = desc[At(k)]
  BY <1>1, <1>2, <1>3 DEF TypeOK
<1>6. \A s \in Tasks : pc'[s] \notin Sending /\ ~Half(s)'
  BY <1>1, OnlySender DEF InnerSteps, Half, Sending
<1>7. cb[At(Used)] = req[t]
  BY <1>1, <1>2 DEF SenderAt
<1>8. /\ d.io = req[t] /\ d.part # "none" /\ d.part # "header"
      /\ d.part = "body" => d = Part(req[t], "body") /\ Half(t)
      /\ Half(t) => d = Part(req[t], "body")
  BY <1>1 DEF Part, Half
<1> HIDE DEF d
<1>9. WindowInv'
  <2> SUFFICES ASSUME NEW k \in 0 .. Used' - 1
               PROVE  (desc[At(k)].part # "none" /\ HeaderAt(k) /\ BodyAt(k))'
    BY DEF WindowInv
  <2>1. CASE k \in 0 .. Used - 1
    <3>1. desc[At(k)].part # "none" /\ HeaderAt(k) /\ BodyAt(k)
      BY <1>2, <2>1 DEF WindowInv
    <3>2. desc'[At(k)'] = desc[At(k)]
      BY <1>4, <1>5, <2>1
    <3>3. ASSUME desc'[At(k)'].part = "header"
          PROVE  cb'[At(k)'] = NoReq /\ k + 1 < Used'
                 /\ desc'[At(k + 1)'] = Part(desc'[At(k)'].io, "body")
      <4>1. cb'[At(k)'] = NoReq
        BY <1>1, <1>4, <3>1, <3>2, <3>3 DEF HeaderAt
      <4>2. k + 1 < Used'
        BY <1>2, <1>4, <2>1
      <4>3. CASE k + 1 < Used
        <5>1. k + 1 \in 0 .. Used - 1
          BY <1>2, <2>1, <4>3
        <5>2. desc'[At(k + 1)'] = desc[At(k + 1)]
          BY <1>4, <1>5, <5>1
        <5> QED BY <3>1, <3>2, <3>3, <4>1, <4>2, <4>3, <5>2 DEF HeaderAt
      <4>4. CASE ~(k + 1 < Used)
        <5>1. k + 1 = Used /\ k = Used - 1
          BY <1>2, <2>1, <4>4
        <5>2. Half(t)
          BY <1>2, <3>1, <3>2, <3>3, <4>4 DEF HeaderAt
        <5>3. desc[At(k)] = Part(req[t], "header")
          BY <1>2, <5>1, <5>2 DEF SenderAt
        <5>4. desc'[At(k + 1)'] = Part(req[t], "body")
          BY <1>4, <1>5, <1>8, <5>1, <5>2
        <5> QED BY <3>2, <4>1, <4>2, <5>3, <5>4 DEF Part
      <4> QED BY <4>3, <4>4
    <3>4. ASSUME desc'[At(k)'].part = "body", k > 0
          PROVE  desc'[At(k - 1)'] = Part(desc'[At(k)'].io, "header")
      <4>1. k - 1 \in 0 .. Used - 1
        BY <1>2, <2>1, <3>4
      <4> QED BY <1>4, <1>5, <3>1, <3>2, <3>4, <4>1 DEF BodyAt
    <3>5. desc'[At(k)'].part \in {"body", "whole"} => cb'[At(k)'] = desc'[At(k)'].io
      BY <1>1, <1>4, <3>1, <3>2 DEF BodyAt
    <3> QED BY <3>1, <3>2, <3>3, <3>4, <3>5 DEF HeaderAt, BodyAt, Part
  <2>2. CASE k = Used
    <3>1. desc'[At(k)'] = d /\ cb'[At(k)'] = req[t]
      BY <1>1, <1>4, <1>5, <1>7, <2>2
    <3>2. ASSUME d.part = "body", k > 0
          PROVE  desc'[At(k - 1)'] = Part(req[t], "header")
      <4>1. k - 1 \in 0 .. Used - 1
        BY <1>2, <2>2, <3>2
      <4>2. desc[At(Used - 1)] = Part(req[t], "header")
        BY <1>2, <1>8, <3>2 DEF SenderAt
      <4> QED BY <1>4, <1>5, <2>2, <4>1, <4>2
    <3> QED BY <1>8, <3>1, <3>2 DEF HeaderAt, BodyAt, Part
  <2> QED BY <1>2, <1>4, <2>1, <2>2
<1>10. \A s \in Tasks : SenderAt(s)'
  BY <1>6 DEF SenderAt, Sending
<1> QED BY <1>1, <1>2, <1>9, <1>10 DEF FrameInv

LEMMA XmitFrames ==
  ASSUME CopyMayFail = FALSE, TypeOK, ExclInv, AccInv, RingInv, FrameInv, NEW t \in Tasks, XmitStep(t)
  PROVE  FrameInv'
<1>1. CASE Reclaimed(t)
  <2>1. pc[t] = "reclaim" /\ Retire(t) /\ \E step \in {"wait", "command"} : Goto(t, step)
    BY <1>1 DEF Reclaimed
  <2> QED BY <2>1, RetireFrames DEF Sending
<1>2. CASE RejectOffline(t) \/ AcceptWrite(t) \/ XmitFail(t)
  <2>1. /\ UNCHANGED <<ringVars, semInit, hwProd, dmaOn>> /\ pc[t] \notin Sending
        /\ \A s \in Tasks \ {t} : req'[s] = req[s]
    BY <1>2 DEF RejectOffline, AcceptWrite, XmitFail, Release, hwVars, semVars, Sending, TypeOK
  <2>2. \E step \in {"wait", "leave", "xmit"} : Goto(t, step)
    BY <1>2 DEF RejectOffline, AcceptWrite, XmitFail, After
  <2>3. pc'[t] \notin Sending /\ \A s \in Tasks \ {t} : pc'[s] = pc[s]
    BY <2>2 DEF Goto, TypeOK, Sending
  <2> QED BY <2>1, <2>3, KeepFrames
<1>3. CASE XmitEnter(t)
  <2>1. /\ UNCHANGED <<ringVars, semInit, hwProd, dmaOn, req>> /\ pc[t] = "xmit" /\ CanObtain(t)
        /\ pc'[t] = "header" => req[t] \notin RawReqs
        /\ pc'[t] \in {"fail", "body", "header"}
        /\ pc'[t] = "body" => req[t] \in RawReqs
        /\ \A s \in Tasks \ {t} : pc'[s] = pc[s]
    BY <1>3 DEF XmitEnter, Obtain, hwVars, Goto, TypeOK
  <2>2. \A s \in Tasks : Half(s)' <=> Half(s)
    BY <2>1 DEF Half
  <2>3. Used' = Used /\ \A k : At(k)' = At(k)
    BY <2>1 DEF Used, At, ringVars
  <2>4. WindowInv => WindowInv'
    BY <2>1, <2>2, <2>3 DEF WindowInv, HeaderAt, BodyAt, ringVars
  <2>5. ASSUME NEW s \in Tasks, SenderAt(s) PROVE SenderAt(s)'
    BY <2>1, <2>2, <2>3, <2>5 DEF SenderAt, ringVars
  <2> QED BY <2>1, <2>2, <2>4, <2>5 DEF FrameInv, ringVars
<1> QED
  BY <1>1, <1>2, <1>3, HeaderFrames, BodyFrames, PublishFrames DEF XmitStep

LEMMA NextFrames ==
  ASSUME CopyMayFail = FALSE, TypeOK, ExclInv, AccInv, RingInv, FrameInv, [Next]_vars
  PROVE  FrameInv'
<1>1. ASSUME NEW c \in Clients, BeginIO(c) \/ ClientStep(c), ~XmitStep(c) PROVE FrameInv'
  <2>1. /\ UNCHANGED <<ringVars, semInit, hwProd, dmaOn>>
        /\ \A s \in Tasks \ {c} : req'[s] = req[s] /\ pc'[s] = pc[s]
    BY <1>1 DEF BeginIO, BeginIOQuick, BeginIOQueue, ClientStep, QuickReclaim, EnterReclaim, QuickSkip,
       LeaveBeginIO, Obtain, Release, hwVars, semVars, Goto, TypeOK
  <2>2. pc[c] \notin Sending /\ pc'[c] \notin Sending
    BY <1>1 DEF BeginIO, BeginIOQuick, BeginIOQueue, ClientStep, QuickReclaim, EnterReclaim, QuickSkip,
       LeaveBeginIO, Goto, TypeOK, Sending, Tasks
  <2> QED BY <2>1, <2>2, KeepFrames
<1>2. CASE StopRetire
  <2>1. pc[Unit] = "stopRetire" /\ Retire(Unit) /\ Goto(Unit, "stopFree")
    BY <1>2 DEF StopRetire
  <2> QED BY <2>1, RetireFrames DEF Sending, Tasks
<1>3. CASE InitRing
  <2>1. \A s \in Tasks : pc'[s] \in {"idle", "phy"}
    BY <1>3 DEF InitRing, Goto, ExclInv, ClientsOut, TypeOK, Tasks
  <2>2. Used' = 0 /\ semInit' /\ hwProd' = tx_prod_index'
    BY <1>3, RingAssumption DEF InitRing, Used
  <2>3. WindowInv'
    BY <2>2 DEF WindowInv
  <2>4. \A s \in Tasks : SenderAt(s)'
    BY <2>1 DEF SenderAt, Half
  <2> QED BY <2>2, <2>3, <2>4 DEF FrameInv
<1>4. CASE GetMsg \/ PeriodicReclaim \/ CmdFlush \/ CmdOffline \/ CmdConfigure \/ CmdOnline
           \/ UnitOffline \/ StopDma \/ StopReclaim \/ StopFree \/ AllocBuffers \/ PhyStartup
  <2>1. /\ UNCHANGED <<ringVars, semInit, hwProd>> /\ (dmaOn' => dmaOn)
        /\ \A s \in Tasks \ {Unit} : req'[s] = req[s] /\ pc'[s] = pc[s]
    BY <1>4 DEF GetMsg, PeriodicReclaim, EnterReclaim, CmdFlush, CmdOffline, FlushTo, CmdConfigure,
       CmdOnline, UnitOffline, StopDma, StopReclaim, StopFree, AllocBuffers, PhyStartup, Obtain,
       semVars, hwVars, Goto, TypeOK
  <2>2. pc[Unit] \notin Sending /\ pc'[Unit] \notin Sending
    BY <1>4 DEF GetMsg, PeriodicReclaim, EnterReclaim, CmdFlush, CmdOffline, FlushTo, CmdConfigure,
       CmdOnline, UnitOffline, StopDma, StopReclaim, StopFree, AllocBuffers, PhyStartup,
       Goto, TypeOK, Sending, Tasks
  <2> QED BY <2>1, <2>2, KeepFrames
<1>5. CASE HwTransmit \/ Aside
  BY <1>5, KeepFrames DEF HwTransmit, Aside, semVars, hwVars, taskVars
<1>6. ASSUME NEW t \in Tasks, XmitStep(t) PROVE FrameInv'
  BY <1>6, XmitFrames
<1> QED
  BY <1>1, <1>2, <1>3, <1>4, <1>5, <1>6, NextCases DEF UnitStep, StopStep, StartStep, Tasks

LEMMA InitFrames == Init => FrameInv
  BY DEF Init, FrameInv

(* What the hardware may read is the part of the window from hwCons to hwProd, and
   hwProd stops before a header whose body is outstanding. *)
LEMMA HardwareSees ==
  ASSUME TypeOK, ExclInv, AccInv, FrameInv, dmaOn
  PROVE  FramesWhole
<1> DEFINE h == Dist(tx_cons_index, hwCons)
           len == Dist(hwCons, hwProd)
<1>1. semInit /\ RingAcc /\ WindowInv
  BY DEF FrameInv, AccInv
<1>2. tx_cons_index \in Index /\ tx_prod_index \in Index /\ hwCons \in Index /\ hwProd \in Index
  BY DEF TypeOK
<1>3. /\ h \in Nat /\ len \in Nat /\ Dist(tx_cons_index, hwProd) \in Nat
      /\ Dist(tx_cons_index, tx_prod_index) \in Nat
  BY <1>2, DistType DEF Index
<1>4. Dist(tx_cons_index, tx_prod_index) = Used
  <2>1. free_bds \in Int /\ TX_DESCS \in Nat
    BY RingAssumption DEF TypeOK
  <2> HIDE DEF h, len
  <2>2. free_bds + Dist(tx_cons_index, tx_prod_index) = TX_DESCS
    BY <1>1 DEF RingAcc
  <2> QED BY <1>3, <2>1, <2>2 DEF Used
<1>5. h + len = Dist(tx_cons_index, hwProd) /\ h + len <= Used
  <2>1. len = Dist(tx_cons_index, hwProd) - h
    BY <1>1, <1>2, DistSplit DEF RingAcc
  <2>2. Dist(tx_cons_index, hwProd) <= Used
    BY <1>1, <1>4 DEF RingAcc, Between
  <2> HIDE DEF h, len
  <2> QED BY <1>3, <2>1, <2>2
<1>6. ASSUME NEW k \in Nat PROVE HwSlot(k) = At(h + k)
  <2>1. Slot(tx_cons_index + h) = Slot(hwCons) /\ tx_cons_index \in Nat /\ hwCons \in Nat
    BY <1>2, DistSlot DEF Index
  <2> HIDE DEF h
  <2>2. Slot(Slot(tx_cons_index + h) + k) = Slot((tx_cons_index + h) + k)
    <3>1. tx_cons_index + h \in Nat
      BY <1>3, <2>1
    <3> QED BY <3>1, SlotSum
  <2>3. Slot(Slot(hwCons) + k) = Slot(hwCons + k)
    BY <2>1, SlotSum
  <2>4. (tx_cons_index + h) + k = tx_cons_index + (h + k)
    BY <1>3, <2>1
  <2> QED BY <2>1, <2>2, <2>3, <2>4 DEF HwSlot, At
<1> HIDE DEF h, len
<1>7. ASSUME NEW k \in 0 .. len - 1
      PROVE  /\ desc[HwSlot(k)].part # "none" /\ HeaderAt(h + k) /\ BodyAt(h + k)
             /\ HwSlot(k) = At(h + k) /\ h + k \in 0 .. Used - 1
  <2>1. h + k \in 0 .. Used - 1 /\ k \in Nat
    BY <1>3, <1>4, <1>5
  <2> QED BY <1>1, <1>6, <2>1 DEF WindowInv
<1>8. ASSUME NEW k \in 0 .. len - 1, desc[HwSlot(k)].part = "header"
      PROVE  /\ k + 1 < len /\ cb[HwSlot(k)] = NoReq
             /\ desc[HwSlot(k + 1)] = Part(desc[HwSlot(k)].io, "body")
  <2>1. h + k + 1 < Used
    <3> SUFFICES ASSUME ~(h + k + 1 < Used) PROVE FALSE
      OBVIOUS
    <3>1. PICK t \in Tasks : Half(t)
      BY <1>7, <1>8 DEF HeaderAt
    <3>2. h + len = Used - 1
      BY <1>1, <1>5, <3>1 DEF FrameInv, SenderAt
    <3> QED BY <1>3, <1>4, <3>2
  <2>2. desc[At((h + k) + 1)] = Part(desc[At(h + k)].io, "body") /\ cb[At(h + k)] = NoReq
    BY <1>7, <1>8, <2>1 DEF HeaderAt
  <2>3. k + 1 < len
    <3> SUFFICES ASSUME ~(k + 1 < len) PROVE FALSE
      OBVIOUS
    <3>1. k + 1 = len
      BY <1>3
    <3>2. CASE \E t \in Tasks : Half(t)
      <4>1. PICK t \in Tasks : Half(t)
        BY <3>2
      <4>2. h + len = Used - 1 /\ desc[At(Used - 1)] = Part(req[t], "header")
        BY <1>1, <1>5, <4>1 DEF FrameInv, SenderAt
      <4>3. (h + k) + 1 = Used - 1
        BY <1>3, <3>1, <4>2
      <4> QED BY <2>2, <4>2, <4>3 DEF Part
    <3>3. CASE ~(\E t \in Tasks : Half(t))
      <4>1. hwProd = tx_prod_index
        BY <1>1, <3>3 DEF FrameInv
      <4> QED BY <1>3, <1>4, <1>5, <2>1, <3>1, <4>1
    <3> QED BY <3>2, <3>3
  <2>4. HwSlot(k + 1) = At((h + k) + 1)
    <3>1. k + 1 \in Nat /\ h + (k + 1) = (h + k) + 1
      BY <1>3
    <3> QED BY <1>6, <3>1
  <2> QED BY <1>7, <2>2, <2>3, <2>4
<1>9. ASSUME NEW k \in 0 .. len - 1
      PROVE  /\ desc[HwSlot(k)].part \in {"body", "whole"} => cb[HwSlot(k)] = desc[HwSlot(k)].io
             /\ desc[HwSlot(k)].part = "body" /\ k > 0 =>
                    desc[HwSlot(k - 1)] = Part(desc[HwSlot(k)].io, "header")
  <2>1. desc[HwSlot(k)].part \in {"body", "whole"} => cb[HwSlot(k)] = desc[HwSlot(k)].io
    BY <1>7 DEF BodyAt
  <2>2. ASSUME desc[HwSlot(k)].part = "body", k > 0
        PROVE  desc[HwSlot(k - 1)] = Part(desc[HwSlot(k)].io, "header")
    <3>1. k - 1 \in Nat /\ h + (k - 1) = (h + k) - 1 /\ h + k > 0
      BY <1>3, <2>2
    <3>2. HwSlot(k - 1) = At((h + k) - 1)
      BY <1>6, <3>1
    <3> QED BY <1>7, <2>2, <3>1, <3>2 DEF BodyAt
  <2> QED BY <2>1, <2>2
<1> QED BY <1>7, <1>8, <1>9 DEF FramesWhole, Part, len

(* What the DMA engine may read is whole frames whose requests the driver still
   holds, for every ring size, index range and any clients: a frame's header is
   followed by its own body, in a slot nobody has reused or replied. *)
THEOREM WholeFrames ==
  QuietRestart = TRUE /\ CopyMayFail = FALSE => (Spec => []FramesWhole)
<1> SUFFICES ASSUME QuietRestart = TRUE, CopyMayFail = FALSE PROVE Spec => []FramesWhole
  OBVIOUS
<1>1. TypeOK /\ ExclInv /\ AccInv /\ RingInv /\ FrameInv /\ [Next]_vars => FrameInv'
  BY NextFrames
<1>2. TypeOK /\ ExclInv /\ AccInv /\ FrameInv => FramesWhole
  <2>1. ~dmaOn => FramesWhole
    BY DEF FramesWhole
  <2> QED BY <2>1, HardwareSees
<1> QED BY <1>1, <1>2, InitFrames, PlacesInvariant, PTL DEF Spec, PlaceInv

(***************************************************************************)
(* The requests among the control blocks of a window, in ring order.       *)
(***************************************************************************)
Cells == Reqs \cup {NoReq}
Queued(w) == Held(w, Len(w))
Next1(kept, x) == IF x = NoReq THEN kept ELSE Append(kept, x)
IsKept(f, w) == f = [k \in 0 .. Len(w) |-> IF k = 0 THEN <<>>
                                           ELSE IF w[k] = NoReq THEN f[k - 1] ELSE Append(f[k - 1], w[k])]

LEMMA KeptExists ==
  ASSUME NEW w \in Seq(Cells) PROVE \E f : IsKept(f, w)
<1> DEFINE N == Len(w)
           step == [p \in Seq(Reqs) \X (1 .. N) |-> Next1(p[1], w[p[2]])]
<1>1. N \in Nat /\ \A n \in 1 .. N : w[n] \in Cells
  OBVIOUS
<1>2. \A s \in Seq(Reqs) : \A n \in 1 .. N :
         step[<<s, n>>] = Next1(s, w[n]) /\ step[<<s, n>>] \in Seq(Reqs)
  <2> SUFFICES ASSUME NEW s \in Seq(Reqs), NEW n \in 1 .. N
               PROVE  step[<<s, n>>] = Next1(s, w[n]) /\ step[<<s, n>>] \in Seq(Reqs)
    OBVIOUS
  <2>1. step[<<s, n>>] = Next1(s, w[n])
    OBVIOUS
  <2>2. PICK x \in Cells : x = w[n]
    BY <1>1
  <2>3. Next1(s, x) \in Seq(Reqs)
    BY AppendProperties DEF Next1, Cells
  <2> QED BY <2>1, <2>2, <2>3
<1>3. PICK f : Rounds(f, N, Seq(Reqs), <<>>, step)
  <2>1. RoundOf(step, Seq(Reqs), N)
    <3> HIDE DEF step, N
    <3> QED BY <1>2 DEF RoundOf
  <2>2. <<>> \in Seq(Reqs)
    OBVIOUS
  <2> HIDE DEF step, N
  <2> QED BY <1>1, <2>1, <2>2, LoopExists
<1> HIDE DEF step, N
<1>4. f \in [0 .. N -> Seq(Reqs)] /\ f[0] = <<>> /\ \A n \in 1 .. N : f[n] = step[<<f[n - 1], n>>]
  BY <1>3 DEF Rounds
<1>5. ASSUME NEW k \in 0 .. N
      PROVE  f[k] = IF k = 0 THEN <<>> ELSE IF w[k] = NoReq THEN f[k - 1] ELSE Append(f[k - 1], w[k])
  <2>1. CASE k = 0
    BY <1>4, <2>1
  <2>2. CASE k # 0
    <3>1. k \in 1 .. N /\ k - 1 \in 0 .. N
      BY <1>1, <2>2
    <3>2. f[k - 1] \in Seq(Reqs)
      BY <1>4, <3>1
    <3>3. f[k] = Next1(f[k - 1], w[k])
      BY <1>2, <1>4, <3>1, <3>2
    <3> QED BY <2>2, <3>3 DEF Next1
  <2> QED BY <2>1, <2>2
<1>6. f = [k \in 0 .. N |-> f[k]]
  BY <1>4
<1>7. f = [k \in 0 .. N |-> IF k = 0 THEN <<>>
                            ELSE IF w[k] = NoReq THEN f[k - 1] ELSE Append(f[k - 1], w[k])]
  BY <1>5, <1>6
<1> QED BY <1>7 DEF IsKept, N

(* The table one entry at a time. *)
LEMMA KeptEntry ==
  ASSUME NEW w \in Seq(Cells), NEW f, IsKept(f, w)
  PROVE  /\ f[0] = <<>>
         /\ \A k \in 1 .. Len(w) : f[k] = Next1(f[k - 1], w[k])
<1>1. Len(w) \in Nat
  OBVIOUS
<1>2. f[0] = <<>>
  BY <1>1 DEF IsKept
<1>3. ASSUME NEW k \in 1 .. Len(w) PROVE f[k] = Next1(f[k - 1], w[k])
  <2>1. k \in 0 .. Len(w) /\ k # 0
    BY <1>1
  <2>2. f[k] = IF k = 0 THEN <<>> ELSE IF w[k] = NoReq THEN f[k - 1] ELSE Append(f[k - 1], w[k])
    BY <2>1 DEF IsKept
  <2> QED BY <2>1, <2>2 DEF Next1
<1> QED BY <1>2, <1>3

LEMMA HeldIs ==
  ASSUME NEW w \in Seq(Cells) PROVE \E f : IsKept(f, w) /\ Queued(w) = f[Len(w)]
<1>1. PICK a : a = CHOOSE b : IsKept(b, w)
  OBVIOUS
<1>2. IsKept(a, w)
  BY <1>1, KeptExists
<1>3. Queued(w) = a[Len(w)]
  BY <1>1 DEF Queued, Held, IsKept
<1> QED BY <1>2, <1>3

(* What is held: as many requests as the window has, each from the window. *)
ReqsIn(w, n) == {k \in 1 .. n : w[k] # NoReq}
KeptSound(f, w, n) == /\ f[n] \in Seq(Reqs)
                      /\ Len(f[n]) = Cardinality(ReqsIn(w, n))
                      /\ \A i \in 1 .. Len(f[n]) : \E k \in 1 .. n : w[k] = f[n][i]

LEMMA ReqsInNext ==
  ASSUME NEW w \in Seq(Cells), NEW n \in Nat, n + 1 <= Len(w)
  PROVE  /\ Cardinality(ReqsIn(w, n)) \in Nat
         /\ Cardinality(ReqsIn(w, n + 1)) = Cardinality(ReqsIn(w, n)) + (IF w[n + 1] = NoReq THEN 0 ELSE 1)
<1>1. IsFiniteSet(ReqsIn(w, n)) /\ n + 1 \notin ReqsIn(w, n)
  <2>1. IsFiniteSet(1 .. n)
    BY FS_Interval
  <2> QED BY <2>1, FS_Subset DEF ReqsIn
<1>2. CASE w[n + 1] = NoReq
  <2>1. ReqsIn(w, n + 1) = ReqsIn(w, n)
    BY <1>2 DEF ReqsIn
  <2> QED BY <1>1, <1>2, <2>1, FS_CardinalityType
<1>3. CASE w[n + 1] # NoReq
  <2>1. ReqsIn(w, n + 1) = ReqsIn(w, n) \cup {n + 1}
    BY <1>3 DEF ReqsIn
  <2> QED BY <1>1, <1>3, <2>1, FS_CardinalityType, FS_AddElement
<1> QED BY <1>2, <1>3

LEMMA KeptFacts ==
  ASSUME NEW w \in Seq(Cells), NEW f, IsKept(f, w)
  PROVE  \A n \in 0 .. Len(w) : KeptSound(f, w, n)
<1>1. KeptSound(f, w, 0)
  <2>1. ReqsIn(w, 0) = {}
    BY DEF ReqsIn
  <2>2. Cardinality(ReqsIn(w, 0)) = 0
    BY <2>1, FS_EmptySet
  <2>3. f[0] = <<>>
    BY KeptEntry
  <2>4. <<>> \in Seq(Reqs) /\ Len(<<>>) = 0
    OBVIOUS
  <2>5. PICK s \in Seq(Reqs) : s = <<>> /\ Len(s) = 0
    BY <2>4
  <2>6. f[0] = s
    BY <2>3, <2>5
  <2>7. 1 .. Len(s) = {}
    BY <2>5
  <2> QED BY <2>2, <2>5, <2>6, <2>7 DEF KeptSound
<1>2. ASSUME NEW n \in Nat, n + 1 <= Len(w), KeptSound(f, w, n) PROVE KeptSound(f, w, n + 1)
  <2>1. KeptSound(f, w, n) /\ n + 1 \in 1 .. Len(w) /\ (n + 1) - 1 = n
    BY <1>2
  <2>2. f[n + 1] = Next1(f[n], w[n + 1])
    BY <2>1, KeptEntry
  <2>3. PICK s \in Seq(Reqs), x \in Cells : s = f[n] /\ x = w[n + 1]
    BY <2>1 DEF KeptSound
  <2>4. CASE x = NoReq
    <3>1. f[n + 1] = f[n] /\ w[n + 1] = NoReq
      BY <2>2, <2>3, <2>4 DEF Next1
    <3>2. Cardinality(ReqsIn(w, n + 1)) = Cardinality(ReqsIn(w, n))
      BY <1>2, <3>1, ReqsInNext
    <3>3. /\ s \in Seq(Reqs) /\ Len(s) = Cardinality(ReqsIn(w, n))
          /\ \A i \in 1 .. Len(s) : \E k \in 1 .. n : w[k] = s[i]
      BY <2>1, <2>3 DEF KeptSound
    <3>4. \A i \in 1 .. Len(s) : \E k \in 1 .. n + 1 : w[k] = s[i]
      BY <3>3
    <3>5. f[n + 1] = s
      BY <2>3, <3>1
    <3> QED BY <3>2, <3>3, <3>4, <3>5 DEF KeptSound
  <2>5. CASE x # NoReq
    <3>1. f[n + 1] = Append(s, x) /\ x \in Reqs
      BY <2>2, <2>3, <2>5 DEF Next1, Cells
    <3>2. /\ Append(s, x) \in Seq(Reqs) /\ Len(Append(s, x)) = Len(s) + 1
          /\ \A i \in 1 .. Len(s) : Append(s, x)[i] = s[i]
          /\ Append(s, x)[Len(s) + 1] = x
      BY <3>1, AppendProperties
    <3>3. Cardinality(ReqsIn(w, n + 1)) = Cardinality(ReqsIn(w, n)) + 1
      BY <1>2, <2>3, <2>5, ReqsInNext
    <3>4. ASSUME NEW i \in 1 .. Len(s) + 1 PROVE \E k \in 1 .. n + 1 : w[k] = Append(s, x)[i]
      <4>1. CASE i \in 1 .. Len(s)
        <5>1. PICK k \in 1 .. n : w[k] = s[i]
          BY <2>1, <2>3, <4>1 DEF KeptSound
        <5> QED BY <3>2, <4>1, <5>1
      <4>2. CASE i = Len(s) + 1
        BY <2>3, <3>2, <4>2
      <4> QED BY <4>1, <4>2
    <3> QED BY <2>1, <2>3, <3>1, <3>2, <3>3, <3>4 DEF KeptSound
  <2> QED BY <2>4, <2>5
<1> DEFINE T == {n \in Nat : n <= Len(w) => KeptSound(f, w, n)}
<1>3. T = Nat
  <2>1. 0 \in T
    BY <1>1
  <2>2. ASSUME NEW n \in T PROVE n + 1 \in T
    <3>1. n + 1 <= Len(w) => n <= Len(w)
      OBVIOUS
    <3> QED BY <1>2, <3>1
  <2>3. T \subseteq Nat
    OBVIOUS
  <2> HIDE DEF T
  <2> QED BY <2>1, <2>2, <2>3, Induction
<1> QED BY <1>3

LEMMA HeldFacts ==
  ASSUME NEW w \in Seq(Cells)
  PROVE  /\ Queued(w) \in Seq(Reqs) /\ Len(Queued(w)) = Cardinality(ReqsIn(w, Len(w)))
         /\ \A i \in 1 .. Len(Queued(w)) : \E k \in 1 .. Len(w) : w[k] = Queued(w)[i]
<1>1. PICK f : IsKept(f, w) /\ Queued(w) = f[Len(w)]
  BY HeldIs
<1>2. KeptSound(f, w, Len(w))
  <2>1. Len(w) \in 0 .. Len(w)
    OBVIOUS
  <2> QED BY <1>1, <2>1, KeptFacts
<1> QED BY <1>1, <1>2 DEF KeptSound

(* What is held in a window made of two parts. *)
LEMMA ConcatAppend ==
  ASSUME NEW a \in Seq(Reqs), NEW b \in Seq(Reqs), NEW x \in Reqs
  PROVE  Append(a \o b, x) = a \o Append(b, x)
  OBVIOUS

Joined(f, g, h, n, k) == f[n + k] = g[n] \o h[k]

LEMMA HeldSplit ==
  ASSUME NEW w \in Seq(Cells), NEW u \in Seq(Cells), NEW v \in Seq(Cells),
         Len(w) = Len(u) + Len(v),
         \A k \in 1 .. Len(u) : w[k] = u[k],
         \A k \in 1 .. Len(v) : w[Len(u) + k] = v[k]
  PROVE  Queued(w) = Queued(u) \o Queued(v)
<1>1. PICK f : IsKept(f, w) /\ Queued(w) = f[Len(w)]
  BY HeldIs
<1>2. PICK g : IsKept(g, u) /\ Queued(u) = g[Len(u)]
  BY HeldIs
<1>3. PICK h : IsKept(h, v) /\ Queued(v) = h[Len(v)]
  BY HeldIs
<1>4. PICK L \in Nat, M \in Nat : L = Len(u) /\ M = Len(v)
  OBVIOUS
<1>5. /\ f[0] = <<>> /\ \A k \in 1 .. L + M : f[k] = Next1(f[k - 1], w[k])
      /\ g[0] = <<>> /\ \A k \in 1 .. L : g[k] = Next1(g[k - 1], w[k])
      /\ h[0] = <<>> /\ \A k \in 1 .. M : h[k] = Next1(h[k - 1], w[L + k])
  <2>1. f[0] = <<>> /\ \A k \in 1 .. Len(w) : f[k] = Next1(f[k - 1], w[k])
    BY <1>1, KeptEntry
  <2>2. g[0] = <<>> /\ \A k \in 1 .. Len(u) : g[k] = Next1(g[k - 1], u[k])
    BY <1>2, KeptEntry
  <2>3. h[0] = <<>> /\ \A k \in 1 .. Len(v) : h[k] = Next1(h[k - 1], v[k])
    BY <1>3, KeptEntry
  <2> QED BY <1>4, <2>1, <2>2, <2>3
<1>6. g[L] \in Seq(Reqs) /\ \A n \in 0 .. M : h[n] \in Seq(Reqs)
  <2>1. L \in 0 .. Len(u)
    BY <1>4
  <2> QED BY <1>2, <1>3, <1>4, <2>1, KeptFacts DEF KeptSound
<1>7. f[L] = g[L]
  <2> DEFINE T == {n \in Nat : n <= L => f[n] = g[n]}
  <2>1. 0 \in T
    BY <1>5
  <2>2. ASSUME NEW n \in T PROVE n + 1 \in T
    <3>1. n + 1 <= L => n + 1 \in 1 .. L + M /\ n + 1 \in 1 .. L /\ (n + 1) - 1 = n /\ f[n] = g[n]
      BY <1>4
    <3> QED BY <1>5, <3>1
  <2>3. T \subseteq Nat
    OBVIOUS
  <2>4. T = Nat
    <3> HIDE DEF T
    <3> QED BY <2>1, <2>2, <2>3, Induction
  <2> QED BY <2>4
<1>8. Joined(f, g, h, L, 0)
  <2>1. PICK a \in Seq(Reqs) : a = g[L]
    BY <1>6
  <2>2. a \o <<>> = a
    BY ConcatEmptySeq
  <2>3. h[0] = <<>> /\ f[L + 0] = a
    BY <1>4, <1>5, <1>7, <2>1
  <2>4. g[L] \o h[0] = a
    BY <2>1, <2>2, <2>3
  <2> QED BY <2>3, <2>4 DEF Joined
<1>9. ASSUME NEW n \in Nat, n + 1 <= M, Joined(f, g, h, L, n) PROVE Joined(f, g, h, L, n + 1)
  <2>1. /\ L + (n + 1) \in 1 .. L + M /\ (L + (n + 1)) - 1 = L + n
        /\ n + 1 \in 1 .. M /\ (n + 1) - 1 = n /\ n \in 0 .. M
    BY <1>4, <1>9
  <2>2. PICK a \in Seq(Reqs), b \in Seq(Reqs), x \in Cells :
            a = g[L] /\ b = h[n] /\ x = w[L + (n + 1)]
    <3>1. w[L + (n + 1)] \in Cells
      BY <1>4, <2>1
    <3> QED BY <1>6, <2>1, <3>1
  <2>3. f[L + n] = a \o b
    BY <1>9, <2>2 DEF Joined
  <2>4. f[L + (n + 1)] = Next1(a \o b, x)
    <3>1. f[L + (n + 1)] = Next1(f[L + n], x)
      BY <1>5, <2>1, <2>2
    <3> QED BY <2>3, <3>1
  <2>5. h[n + 1] = Next1(b, x)
    BY <1>5, <2>1, <2>2
  <2>6. Next1(a \o b, x) = a \o Next1(b, x)
    <3>1. CASE x = NoReq
      BY <3>1 DEF Next1
    <3>2. CASE x # NoReq
      <4>1. x \in Reqs
        BY <3>2 DEF Cells
      <4>2. Append(a \o b, x) = a \o Append(b, x)
        BY <4>1, ConcatAppend
      <4> QED BY <3>2, <4>2 DEF Next1
    <3> QED BY <3>1, <3>2
  <2>7. f[L + (n + 1)] = g[L] \o h[n + 1]
    BY <2>2, <2>4, <2>5, <2>6
  <2> QED BY <2>7 DEF Joined
<1> DEFINE T == {n \in Nat : n <= M => Joined(f, g, h, L, n)}
<1>10. T = Nat
  <2>1. 0 \in T
    BY <1>8
  <2>2. ASSUME NEW n \in T PROVE n + 1 \in T
    <3>1. n + 1 <= M => n <= M
      BY <1>4
    <3> QED BY <1>9, <3>1
  <2>3. T \subseteq Nat
    OBVIOUS
  <2> HIDE DEF T
  <2> QED BY <2>1, <2>2, <2>3, Induction
<1>11. f[L + M] = g[L] \o h[M]
  <2>1. Joined(f, g, h, L, M)
    BY <1>4, <1>10
  <2> QED BY <2>1 DEF Joined
<1> QED BY <1>1, <1>2, <1>3, <1>4, <1>11

(* One cell more. *)
LEMMA HeldOne == ASSUME NEW x \in Cells PROVE Queued(<<x>>) = IF x = NoReq THEN <<>> ELSE <<x>>
<1>1. PICK w \in Seq(Cells) : w = <<x>> /\ Len(w) = 1 /\ w[1] = x
  <2>1. <<x>> \in Seq(Cells) /\ Len(<<x>>) = 1 /\ <<x>>[1] = x
    OBVIOUS
  <2> QED BY <2>1
<1>2. PICK f : IsKept(f, w) /\ Queued(w) = f[Len(w)]
  BY HeldIs
<1>3. f[0] = <<>> /\ f[1] = Next1(f[0], x)
  <2>1. 1 \in 1 .. Len(w)
    BY <1>1
  <2>2. f[0] = <<>> /\ f[1] = Next1(f[1 - 1], w[1])
    BY <1>2, <2>1, KeptEntry
  <2> QED BY <1>1, <2>2
<1>4. Append(<<>>, x) = <<x>>
  OBVIOUS
<1> QED BY <1>1, <1>2, <1>3, <1>4 DEF Next1

LEMMA HeldAppend ==
  ASSUME NEW w \in Seq(Cells), NEW x \in Cells, NEW v \in Seq(Cells),
         Len(v) = Len(w) + 1, \A k \in 1 .. Len(w) : v[k] = w[k], v[Len(w) + 1] = x
  PROVE  Queued(v) = IF x = NoReq THEN Queued(w) ELSE Append(Queued(w), x)
<1>1. PICK e \in Seq(Cells) : e = <<x>> /\ Len(e) = 1 /\ e[1] = x
  <2>1. <<x>> \in Seq(Cells) /\ Len(<<x>>) = 1 /\ <<x>>[1] = x
    OBVIOUS
  <2> QED BY <2>1
<1>2. Queued(v) = Queued(w) \o Queued(e)
  <2>1. \A k \in 1 .. Len(e) : v[Len(w) + k] = e[k]
    BY <1>1
  <2> QED BY <1>1, <2>1, HeldSplit
<1>3. PICK s \in Seq(Reqs) : s = Queued(w)
  BY HeldFacts
<1>4. CASE x = NoReq
  <2>1. s \o <<>> = s
    BY ConcatEmptySeq
  <2> QED BY <1>1, <1>2, <1>3, <1>4, <2>1, HeldOne
<1>5. CASE x # NoReq
  <2>1. x \in Reqs
    BY <1>5 DEF Cells
  <2>2. s \o <<x>> = Append(s, x)
    BY <2>1
  <2> QED BY <1>1, <1>2, <1>3, <1>5, <2>2, HeldOne
<1> QED BY <1>4, <1>5

(* The first d cells. *)
FirstCells(w, d) == SubSeq(w, 1, d)
LEMMA FrontFacts ==
  ASSUME NEW w \in Seq(Cells), NEW d \in 0 .. Len(w)
  PROVE  /\ FirstCells(w, d) \in Seq(Cells) /\ Len(FirstCells(w, d)) = d
         /\ \A k \in 1 .. d : FirstCells(w, d)[k] = w[k]
         /\ Len(Queued(FirstCells(w, d))) = Cardinality(ReqsIn(w, d))
         /\ Queued(FirstCells(w, d)) \in Seq(Reqs)
<1>1. /\ FirstCells(w, d) \in Seq(Cells) /\ Len(FirstCells(w, d)) = d
      /\ \A k \in 1 .. d : FirstCells(w, d)[k] = w[k]
  BY SubSeqProperties DEF FirstCells
<1>2. ReqsIn(FirstCells(w, d), d) = ReqsIn(w, d)
  BY <1>1 DEF ReqsIn
<1> QED BY <1>1, <1>2, HeldFacts

(***************************************************************************)
(* No request is anywhere twice, whatever AbortIO does: one that was       *)
(* replied while the unit task had it is due no more and not sent again.   *)
(***************************************************************************)
HeldOnce == \A r \in aborted : due[r] <= 0 /\ Copies(r) <= due[r] + 1

LEMMA NextHeldOnce ==
  ASSUME CopyMayFail = FALSE, TypeOK, TypeOK', ExclInv, AccInv, RingInv, OnePlace, HeldOnce, [Next]_vars
  PROVE  HeldOnce'
<1> SUFFICES ASSUME NEW r \in aborted' PROVE due'[r] <= 0 /\ Copies(r)' <= due'[r] + 1
  BY DEF HeldOnce
<1>1. r \in Reqs /\ due[r] \in Int /\ due'[r] \in Int
  BY DEF TypeOK
<1>2. Copies(r) \in Nat /\ Copies(r)' \in Nat
  <2>1. Counted /\ Counted'
    BY CopiesType, PTL
  <2> QED BY <1>1, <2>1 DEF Counted
<1>3. CASE r \notin aborted
  <2>1. PICK x \in Reqs : AbortIO(x) /\ ~AbortQueued(x)
    BY <1>3 DEF Next, Working, AbortIO, AbortQueued, vars, lateVars
  <2>2. x = r
    BY <1>3, <2>1 DEF AbortIO, AbortTaken, AbortLost
  <2>3. due'[r] = due[r] - 1
    BY <1>1, <2>1, <2>2 DEF AbortIO, Complete
  <2>4. UNCHANGED <<pc, req, cb>> /\ InPort(r)' <= InPort(r)
    BY <1>1, <2>1, AbortPort DEF AbortIO, ringVars
  <2>5. InPort(r) \in Nat /\ InHand(r) \in Nat /\ OnRing(r) \in Nat
    BY <1>1, CountType
  <2>6. InPort(r)' + InHand(r) + OnRing(r) = Copies(r)'
    BY <2>4 DEF Copies, InHand, OnRing
  <2>7. due[r] \in {0, 1} /\ Copies(r) <= due[r] /\ Copies(r) = InPort(r) + InHand(r) + OnRing(r)
    BY <1>1, <1>3 DEF OnePlace, Copies
  <2>8. InPort(r)' \in Int
    <3>1. PortCounted'
      BY InPortNumber, PTL
    <3> QED BY <1>1, <3>1 DEF PortCounted
  <2> QED BY <1>1, <1>2, <2>3, <2>4, <2>5, <2>6, <2>7, <2>8
<1>4. CASE r \in aborted
  <2>1. due[r] <= 0 /\ Copies(r) <= due[r] + 1
    BY <1>4 DEF HeldOnce
  <2>2. CASE InitRing
    <3>1. /\ InHand(r)' = InHand(r) /\ InPort(r)' = InPort(r) /\ OnRing(r)' = 0
          /\ due' = due
      BY <1>1, <2>2, InitRingCopies
    <3>2. InPort(r) \in Nat /\ InHand(r) \in Nat /\ OnRing(r) \in Nat
      BY <1>1, CountType
    <3> QED BY <1>1, <2>1, <3>1, <3>2 DEF Copies
  <2>4. CASE \E x \in Reqs : AbortIO(x)
    <3>1. due'[r] <= due[r] /\ due'[r] - Copies(r)' >= due[r] - Copies(r)
      BY <1>1, <1>4, <2>4, AbortPlaces
    <3> QED BY <1>1, <1>2, <2>1, <3>1
  <2>3. CASE ~InitRing /\ ~\E x \in Reqs : AbortIO(x)
    <3>1. Copies(r) <= 1
      BY <1>1, <1>2, <2>1
    <3>2. Conserved(r)
      <4>1. UNCHANGED lateVars
        BY <2>3 DEF Next, Working, vars
      <4> QED BY <1>1, <1>4, <2>3, <3>1, <4>1, StepConserves
    <3>3. due'[r] - Copies(r)' = due[r] - Copies(r) /\ due'[r] <= due[r]
      BY <1>4, <3>2 DEF Conserved
    <3>4. PICK c \in Nat, d \in Nat, e \in Int, f \in Int :
              c = Copies(r) /\ d = Copies(r)' /\ e = due[r] /\ f = due'[r]
      BY <1>1, <1>2
    <3>5. f <= 0 /\ d <= f + 1
      BY <2>1, <3>3, <3>4
    <3> QED BY <3>4, <3>5
  <2> QED BY <2>2, <2>3, <2>4
<1> QED BY <1>3, <1>4

LEMMA AtMostOnce ==
  ASSUME TypeOK, OnePlace, HeldOnce, NEW r \in Reqs PROVE OnRing(r) <= 1
<1>1. Copies(r) \in Nat /\ due[r] \in Int
  BY CopiesType DEF Counted, TypeOK
<1>2. Copies(r) <= 1
  <2>1. CASE r \in aborted
    BY <1>1, <2>1 DEF HeldOnce
  <2>2. CASE r \notin aborted
    BY <1>1, <2>2 DEF OnePlace
  <2> QED BY <2>1, <2>2
<1>3. InPort(r) \in Nat /\ InHand(r) \in Nat /\ OnRing(r) \in Nat
  BY CountType
<1> QED BY <1>2, <1>3 DEF Copies

(* Two slots do not hold one request. *)
LEMMA DifferentRequests ==
  ASSUME TypeOK, OnePlace, HeldOnce, NEW a \in Slots, NEW b \in Slots, a # b, cb[a] = cb[b]
  PROVE  cb[a] = NoReq
<1> SUFFICES ASSUME cb[a] # NoReq PROVE FALSE
  OBVIOUS
<1>1. PICK r \in Reqs : r = cb[a]
  BY DEF TypeOK
<1> DEFINE S == {s \in Slots : cb[s] = r}
<1>2. IsFiniteSet(S) /\ {a, b} \subseteq S
  BY <1>1, FiniteParts, FS_Subset
<1>3. Cardinality({a, b}) = 2
  <2>1. IsFiniteSet({a}) /\ Cardinality({a}) = 1 /\ b \notin {a} /\ {a, b} = {a} \cup {b}
    BY FS_Singleton
  <2> QED BY <2>1, FS_AddElement
<1>4. Cardinality(S) >= 2 /\ Cardinality(S) \in Nat
  BY <1>2, <1>3, FS_Subset, FS_CardinalityType
<1>5. Cardinality(S) <= 1
  BY <1>1, AtMostOnce DEF OnRing
<1> QED BY <1>4, <1>5

(***************************************************************************)
(* The window as a sequence of cells, and how far the hardware is in it.   *)
(***************************************************************************)
View ==
    /\ WindowLen \in Nat /\ Window \in Seq(Cells) /\ Len(Window) = WindowLen
    /\ \A k \in 1 .. WindowLen : Window[k] = cb[Slot(clean_ptr + (k - 1))]
LEMMA ViewType == TypeOK => View
<1> SUFFICES ASSUME TypeOK PROVE View
  OBVIOUS
<1>1. WindowLen \in Nat
  <2>1. tx_cons_index \in Index /\ tx_prod_index \in Index
    BY DEF TypeOK
  <2> QED BY <2>1, DistType DEF WindowLen, Index
<1>2. ASSUME NEW k \in 1 .. WindowLen
      PROVE  cb[Slot(clean_ptr + k - 1)] \in Cells /\ clean_ptr + k - 1 = clean_ptr + (k - 1)
  <2>1. clean_ptr \in Int /\ clean_ptr + k - 1 \in Int
    BY <1>1 DEF TypeOK, Slots
  <2>2. Slot(clean_ptr + k - 1) \in Slots
    BY <2>1, SlotType
  <2> QED BY <1>1, <2>1, <2>2 DEF TypeOK, Cells
<1> DEFINE n == WindowLen
           w == Window
<1>3. w = [k \in 1 .. n |-> cb[Slot(clean_ptr + k - 1)]] /\ n \in Nat
  BY <1>1 DEF Window
<1> HIDE DEF n, w
<1>4. w \in [1 .. n -> Cells]
  BY <1>2, <1>3 DEF n
<1>5. w \in Seq(Cells) /\ Len(w) = n
  BY <1>3, <1>4
<1>6. \A k \in 1 .. n : w[k] = cb[Slot(clean_ptr + (k - 1))]
  BY <1>2, <1>3 DEF n
<1> QED BY <1>1, <1>5, <1>6 DEF View, n, w

(* How many cells of the window the hardware is done with. *)
Gone == Dist(tx_cons_index, hwCons)
Place ==
    /\ View /\ RingFifo = Queued(Window)
    /\ semInit => /\ Used \in Nat /\ Used < TX_DESCS /\ WindowLen = Used
                  /\ \A k \in 1 .. Used : Window[k] = cb[At(k - 1)]
                  /\ Gone \in 0 .. Used
                  /\ RingSent = Cardinality(ReqsIn(Window, Gone))

LEMMA Placed == TypeOK /\ AccInv /\ RingInv => Place
<1> SUFFICES ASSUME TypeOK, AccInv, RingInv PROVE Place
  OBVIOUS
<1>1. View
  BY ViewType
<1>2. RingFifo = Queued(Window)
  BY <1>1 DEF View, RingFifo, Queued
<1>3. ASSUME semInit
      PROVE  /\ Used \in Nat /\ Used < TX_DESCS /\ WindowLen = Used
             /\ \A k \in 1 .. Used : Window[k] = cb[At(k - 1)]
             /\ Gone \in 0 .. Used
             /\ RingSent = Cardinality(ReqsIn(Window, Gone))
  <2>1. RingAcc /\ clean_ptr = Slot(tx_cons_index)
    BY <1>3 DEF AccInv, RingInv, AlignInv
  <2>2. /\ tx_cons_index \in Index /\ hwCons \in Index /\ hwProd \in Index
        /\ tx_cons_index \in Nat /\ free_bds \in Int
    BY DEF TypeOK, Index
  <2>3. Used \in Nat /\ Used < TX_DESCS /\ WindowLen = Used
    <3>1. WindowLen \in Nat
      BY <1>1 DEF View
    <3> QED BY <2>1, <2>2, <3>1, RingAssumption DEF RingAcc, Used, WindowLen
  <2>4. ASSUME NEW k \in 1 .. Used PROVE Window[k] = cb[At(k - 1)]
    <3>1. k - 1 \in Nat
      BY <2>3
    <3>2. Slot(clean_ptr + (k - 1)) = At(k - 1)
      BY <2>1, <2>2, <3>1, SlotSum DEF At
    <3> QED BY <1>1, <2>3, <3>2 DEF View
  <2>5. Gone \in 0 .. Used
    <3>1. Gone \in Nat /\ Dist(tx_cons_index, hwProd) \in Nat
      BY <2>2, DistType DEF Gone, Index
    <3>2. Gone <= Dist(tx_cons_index, hwProd) /\ Dist(tx_cons_index, hwProd) <= WindowLen
      BY <2>1 DEF RingAcc, Between, Gone, WindowLen
    <3> QED BY <2>3, <3>1, <3>2
  <2>6. RingSent = Cardinality(ReqsIn(Window, Gone))
    <3>1. PICK g \in Nat, n \in Nat : g = Gone /\ n = WindowLen /\ g <= n
      BY <2>3, <2>5
    <3>2. {k \in 1 .. g : k <= n /\ Window[k] # NoReq} = ReqsIn(Window, g)
      BY <3>1 DEF ReqsIn
    <3> QED BY <3>1, <3>2 DEF RingSent, Gone
  <2> QED BY <2>3, <2>4, <2>5, <2>6
<1> QED BY <1>1, <1>2, <1>3 DEF Place

(* No control block holds a request: the queue is empty. *)
Vacant == (\A s \in Slots : cb[s] = NoReq) => RingFifo = <<>> /\ RingSent = 0
LEMMA NothingHeld == TypeOK => Vacant
<1> SUFFICES ASSUME TypeOK, \A s \in Slots : cb[s] = NoReq PROVE RingFifo = <<>> /\ RingSent = 0
  BY DEF Vacant
<1>1. View
  BY ViewType
<1>2. \A k \in 1 .. WindowLen : Window[k] = NoReq
  <2> SUFFICES ASSUME NEW k \in 1 .. WindowLen PROVE Window[k] = NoReq
    OBVIOUS
  <2>1. clean_ptr + (k - 1) \in Int
    BY <1>1 DEF View, TypeOK, Slots
  <2>2. Slot(clean_ptr + (k - 1)) \in Slots
    BY <2>1, SlotType
  <2> QED BY <1>1, <2>2 DEF View
<1>3. RingFifo = <<>>
  <2>1. ReqsIn(Window, WindowLen) = {}
    BY <1>2 DEF ReqsIn
  <2>2. Len(Queued(Window)) = 0 /\ Queued(Window) \in Seq(Reqs)
    BY <1>1, <2>1, HeldFacts, FS_EmptySet DEF View
  <2>3. PICK s \in Seq(Reqs) : s = Queued(Window) /\ Len(s) = 0
    BY <2>2
  <2>4. s = <<>>
    BY <2>3, EmptySeq
  <2>5. RingFifo = Queued(Window)
    BY <1>1 DEF View, RingFifo, Queued
  <2> QED BY <2>3, <2>4, <2>5
<1>4. RingSent = 0
  <2>1. {k \in 1 .. Dist(tx_cons_index, hwCons) : k <= WindowLen /\ Window[k] # NoReq} = {}
    <3>1. Dist(tx_cons_index, hwCons) \in Nat /\ WindowLen \in Nat
      <4>1. tx_cons_index \in Index /\ hwCons \in Index
        BY DEF TypeOK
      <4> QED BY <1>1, <4>1, DistType DEF View, Index
    <3> QED BY <1>2, <3>1
  <2> QED BY <2>1, FS_EmptySet DEF RingSent
<1> QED BY <1>3, <1>4

(***************************************************************************)
(* The steps of the queue.                                                 *)
(***************************************************************************)
QueueStep == [TxQ!Next]_(TxQ!vars)

LEMMA KeepQueue ==
  ASSUME UNCHANGED <<tx_cons_index, tx_prod_index, clean_ptr, cb, hwCons>> PROVE QueueStep
<1>1. WindowLen' = WindowLen /\ Window' = Window
  BY DEF WindowLen, Window
<1>2. RingFifo' = RingFifo /\ RingSent' = RingSent
  BY <1>1 DEF RingFifo, RingSent
<1> QED BY <1>2 DEF QueueStep, TxQ!vars

(* One more cell at the end of the window. *)
LEMMA GrowQueue ==
  ASSUME Place, Place', semInit, semInit', UNCHANGED <<tx_cons_index, hwCons>>, WindowLen' = WindowLen + 1,
         \A k \in 1 .. WindowLen : Window'[k] = Window[k],
         NEW x \in Cells, Window'[WindowLen + 1] = x
  PROVE  /\ RingFifo' = IF x = NoReq THEN RingFifo ELSE Append(RingFifo, x)
         /\ RingSent' = RingSent
<1>1. PICK w \in Seq(Cells), v \in Seq(Cells), n \in Nat :
          w = Window /\ v = Window' /\ n = Len(w) /\ Len(v) = n + 1 /\ n = WindowLen
  BY DEF Place, View
<1>2. Queued(v) = IF x = NoReq THEN Queued(w) ELSE Append(Queued(w), x)
  <2>1. Len(v) = Len(w) + 1 /\ v[Len(w) + 1] = x
    BY <1>1
  <2>2. \A k \in 1 .. Len(w) : v[k] = w[k]
    BY <1>1
  <2> QED BY <2>1, <2>2, HeldAppend
<1>3. RingFifo = Queued(w) /\ RingFifo' = Queued(v)
  BY <1>1 DEF Place, Queued
<1>4. PICK g \in Nat : g = Gone /\ g = Gone' /\ g <= n
  BY <1>1 DEF Place, Gone
<1>5. ReqsIn(v, g) = ReqsIn(w, g)
  BY <1>1, <1>4 DEF ReqsIn
<1>6. RingSent = Cardinality(ReqsIn(w, g)) /\ RingSent' = Cardinality(ReqsIn(v, g))
  BY <1>1, <1>4 DEF Place, ReqsIn
<1> QED BY <1>2, <1>3, <1>5, <1>6

(* The first cells of the window are gone: their requests are completed. *)
LEMMA ShrinkQueue ==
  ASSUME Place, Place', semInit, semInit', NEW n \in Nat, n <= Gone, WindowLen' = WindowLen - n,
         Gone' = Gone - n, \A k \in 1 .. WindowLen - n : Window'[k] = Window[n + k]
  PROVE  QueueStep
<1>1. PICK w \in Seq(Cells), v \in Seq(Cells), m \in Nat, g \in Nat :
          /\ w = Window /\ v = Window' /\ m = Len(w) /\ Len(v) = m - n /\ m = WindowLen
          /\ g = Gone /\ n <= g /\ g <= m /\ m - n \in Nat /\ g - n \in Nat /\ g - n = Gone'
  BY DEF Place, View
<1>2. PICK u \in Seq(Cells) : /\ u = FirstCells(w, n) /\ Len(u) = n /\ \A k \in 1 .. n : u[k] = w[k]
                              /\ Len(Queued(u)) \in Nat
  <2>1. n \in 0 .. Len(w)
    BY <1>1
  <2>2. Queued(FirstCells(w, n)) \in Seq(Reqs)
    BY <2>1, FrontFacts
  <2>3. Len(Queued(FirstCells(w, n))) \in Nat
    BY <2>2
  <2> QED BY <2>1, <2>3, FrontFacts
<1>3. Queued(w) = Queued(u) \o Queued(v)
  <2>1. Len(w) = Len(u) + Len(v) /\ \A k \in 1 .. Len(v) : w[Len(u) + k] = v[k]
    BY <1>1, <1>2
  <2>2. \A k \in 1 .. Len(u) : w[k] = u[k]
    BY <1>2
  <2> QED BY <2>1, <2>2, HeldSplit
<1>4. PICK a \in Seq(Reqs), b \in Seq(Reqs), c \in Nat :
          a = Queued(u) /\ b = Queued(v) /\ c = Len(a)
  <2>1. Queued(u) \in Seq(Reqs) /\ Queued(v) \in Seq(Reqs)
    BY <1>2, HeldFacts
  <2>2. Len(Queued(u)) \in Nat
    BY <2>1
  <2> QED BY <2>1, <2>2
<1>5. RingFifo = a \o b /\ RingFifo' = b
  BY <1>1, <1>3, <1>4 DEF Place, Queued
<1>6. PICK p \in Seq(Cells), q \in Seq(Cells) :
          /\ p = FirstCells(w, g) /\ Len(p) = g /\ \A k \in 1 .. g : p[k] = w[k]
          /\ q = FirstCells(v, g - n) /\ Len(q) = g - n /\ \A k \in 1 .. g - n : q[k] = v[k]
          /\ Len(Queued(p)) = Cardinality(ReqsIn(w, g))
          /\ Len(Queued(q)) = Cardinality(ReqsIn(v, g - n))
  <2>1. g \in 0 .. Len(w) /\ g - n \in 0 .. Len(v)
    BY <1>1
  <2> QED BY <2>1, FrontFacts
<1>7. Queued(p) = Queued(u) \o Queued(q)
  <2>1. Len(p) = Len(u) + Len(q)
    BY <1>1, <1>2, <1>6
  <2>2. ASSUME NEW k \in 1 .. Len(u) PROVE p[k] = u[k]
    <3>1. k \in 1 .. n /\ k \in 1 .. g
      BY <1>1, <1>2
    <3> QED BY <1>2, <1>6, <3>1
  <2>3. ASSUME NEW k \in 1 .. Len(q) PROVE p[Len(u) + k] = q[k]
    <3>1. n + k \in 1 .. g /\ k \in 1 .. g - n /\ k \in 1 .. m - n /\ Len(u) + k = n + k
      BY <1>1, <1>2, <1>6
    <3> QED BY <1>1, <1>6, <3>1
  <2> QED BY <2>1, <2>2, <2>3, HeldSplit
<1>8. PICK e \in Seq(Reqs), s \in Nat : e = Queued(q) /\ s = Len(e)
  <2>1. Queued(q) \in Seq(Reqs)
    BY HeldFacts
  <2>2. Len(Queued(q)) \in Nat
    BY <2>1
  <2> QED BY <2>1, <2>2
<1>9. RingSent = c + s /\ RingSent' = s
  <2>1. Len(a \o e) = c + s
    BY <1>4, <1>8
  <2>2. RingSent = Len(a \o e)
    BY <1>1, <1>4, <1>6, <1>7, <1>8 DEF Place
  <2>3. RingSent' = Len(e)
    BY <1>1, <1>6, <1>8 DEF Place, ReqsIn
  <2> QED BY <1>8, <2>1, <2>2, <2>3
<1>10. CASE c = 0
  <2>1. a \o b = b
    BY <1>4, <1>10, EmptySeq, ConcatEmptySeq
  <2> QED BY <1>5, <1>9, <1>10, <2>1 DEF QueueStep, TxQ!vars
<1>11. CASE c # 0
  <2>1. SubSeq(a \o b, c + 1, Len(a \o b)) = b
    BY <1>4, SubSeqOfConcat2, ConcatProperties, SubSeqFull
  <2>2. TxQ!Complete(c) /\ c \in 1 .. RingSent
    BY <1>4, <1>5, <1>8, <1>9, <1>11, <2>1 DEF TxQ!Complete
  <2> QED BY <2>2 DEF QueueStep, TxQ!Next
<1> QED BY <1>4, <1>10, <1>11

(* A reclaim completes the requests of the cells it retires. *)
LEMMA RetireQueue ==
  ASSUME TypeOK, ExclInv, AccInv, RingInv, Place, Place', NEW t \in Tasks,
         pc[t] \in {"reclaim", "stopRetire"}, Retire(t)
  PROVE  QueueStep
<1>1. PICK n \in Nat :
          /\ n = Dist(tx_cons_index, snap[t]) /\ n <= Used /\ n <= Dist(tx_cons_index, hwCons)
          /\ tx_cons_index' = snap[t] /\ Used' = Used - n
          /\ UNCHANGED <<tx_prod_index, hwProd, hwCons, semInit, req, dmaOn>>
          /\ \A k \in Nat : n + k < Used => /\ desc'[At(k)'] = desc[At(n + k)]
                                           /\ cb'[At(k)'] = cb[At(n + k)]
  BY Retired
<1>2. semInit /\ TaskAcc(t)
  BY InsideRing DEF InnerSteps, RingInv
<1>3. semInit'
  BY <1>1, <1>2
<1>4. PICK u \in Nat : u = Used /\ u = WindowLen /\ u - n = WindowLen' /\ u - n \in Nat /\ u - n = Used'
  BY <1>1, <1>2, <1>3 DEF Place
<1>5. Gone' = Gone - n /\ n <= Gone
  <2>1. Between(tx_cons_index, snap[t], hwCons)
    BY <1>2 DEF TaskAcc
  <2>2. tx_cons_index \in Index /\ snap[t] \in Index /\ hwCons \in Index
    BY DEF TypeOK
  <2>3. Dist(snap[t], hwCons) = Dist(tx_cons_index, hwCons) - Dist(tx_cons_index, snap[t])
    BY <2>1, <2>2, DistSplit
  <2> QED BY <1>1, <2>3 DEF Gone
<1>6. ASSUME NEW k \in 1 .. u - n PROVE Window'[k] = Window[n + k]
  <2>1. k - 1 \in Nat /\ n + (k - 1) < u /\ n + k \in 1 .. u /\ n + (k - 1) = n + k - 1
    BY <1>4
  <2>2. Window'[k] = cb'[At(k - 1)']
    BY <1>3, <1>4 DEF Place
  <2>3. Window[n + k] = cb[At(n + k - 1)]
    BY <1>2, <1>4, <2>1 DEF Place
  <2>4. cb'[At(k - 1)'] = cb[At(n + (k - 1))]
    BY <1>1, <1>4, <2>1
  <2> QED BY <2>1, <2>2, <2>3, <2>4
<1>7. \A k \in 1 .. WindowLen - n : Window'[k] = Window[n + k]
  BY <1>4, <1>6
<1>8. WindowLen' = WindowLen - n
  BY <1>4
<1> QED BY <1>2, <1>3, <1>5, <1>7, <1>8, ShrinkQueue

(* A header occupies a cell and no request. *)
LEMMA HeaderQueue ==
  ASSUME TypeOK, ExclInv, AccInv, RingInv, Place, Place', NEW t \in Tasks, XmitHeader(t)
  PROVE  QueueStep
<1>1. /\ pc[t] = "header" /\ cb' = [cb EXCEPT ![write_ptr] = NoReq]
      /\ free_bds' = free_bds - 1
      /\ UNCHANGED <<tx_cons_index, semInit, hwCons>>
  BY DEF XmitHeader, semVars, hwVars
<1>2. semInit /\ semInit'
  BY <1>1, InsideRing DEF InnerSteps, RingInv
<1>3. /\ write_ptr = At(Used) /\ cb[write_ptr] = NoReq /\ write_ptr \in Slots
      /\ Used \in Nat
  BY <1>1, NextFree DEF At, Used
<1>4. cb' = cb /\ \A k : At(k)' = At(k)
  BY <1>1, <1>3 DEF TypeOK, At
<1>5. Used' = Used + 1
  BY <1>1, <1>3, RingAssumption DEF Used, TypeOK
<1>6. PICK u \in Nat : u = Used /\ u = WindowLen /\ u + 1 = WindowLen' /\ u + 1 = Used'
  BY <1>2, <1>3, <1>5 DEF Place
<1>7. ASSUME NEW k \in 1 .. u + 1 PROVE Window'[k] = cb[At(k - 1)]
  BY <1>2, <1>4, <1>6 DEF Place
<1>8. ASSUME NEW k \in 1 .. u PROVE Window[k] = cb[At(k - 1)]
  BY <1>2, <1>6 DEF Place
<1>9. Window'[WindowLen + 1] = NoReq
  <2>1. u + 1 \in 1 .. u + 1 /\ (u + 1) - 1 = u
    OBVIOUS
  <2> QED BY <1>3, <1>6, <1>7, <2>1
<1>10. \A k \in 1 .. WindowLen : Window'[k] = Window[k]
  BY <1>6, <1>7, <1>8
<1>11. WindowLen' = WindowLen + 1 /\ NoReq \in Cells
  BY <1>6 DEF Cells
<1>12. RingFifo' = RingFifo /\ RingSent' = RingSent
  BY <1>1, <1>2, <1>9, <1>10, <1>11, GrowQueue
<1> QED BY <1>12 DEF QueueStep, TxQ!vars

(* The control block of a body is filled in before its cell joins the window. *)
LEMMA BodyQueue ==
  ASSUME TypeOK, ExclInv, AccInv, RingInv, Place, Place', NEW t \in Tasks, XmitBody(t)
  PROVE  QueueStep
<1>1. /\ pc[t] = "body" /\ cb' = [cb EXCEPT ![write_ptr] = req[t]]
      /\ UNCHANGED <<tx_cons_index, tx_prod_index, free_bds, semInit, hwCons>>
  BY DEF XmitBody, semVars, hwVars
<1>2. semInit /\ semInit'
  BY <1>1, InsideRing DEF InnerSteps, RingInv
<1>3. write_ptr = At(Used) /\ Used \in Nat /\ Used < TX_DESCS
  BY <1>1, NextFree DEF At, Used
<1>4. Used' = Used /\ WindowLen' = WindowLen /\ \A k : At(k)' = At(k)
  BY <1>1 DEF Used, WindowLen, At
<1>5. PICK u \in Nat : u = Used /\ u = WindowLen /\ u = Used' /\ u < TX_DESCS
  BY <1>2, <1>3, <1>4 DEF Place
<1>6. ASSUME NEW k \in 1 .. u PROVE Window'[k] = Window[k]
  <2>1. k - 1 \in Nat /\ k - 1 < u
    OBVIOUS
  <2>2. At(k - 1) # At(u) /\ At(k - 1) \in Slots
    BY <1>5, <2>1, AtApart, AtSlot
  <2>3. cb'[At(k - 1)] = cb[At(k - 1)]
    BY <1>1, <1>3, <1>5, <2>2 DEF TypeOK
  <2>4. Window'[k] = cb'[At(k - 1)'] /\ Window[k] = cb[At(k - 1)]
    BY <1>2, <1>5 DEF Place
  <2> QED BY <1>4, <2>3, <2>4
<1>7. Window' = Window
  <2>1. PICK w \in Seq(Cells), v \in Seq(Cells) : w = Window /\ v = Window' /\ Len(w) = u /\ Len(v) = u
    BY <1>4, <1>5 DEF Place, View
  <2> QED BY <1>6, <2>1, SeqEqual
<1>8. RingFifo' = RingFifo /\ RingSent' = RingSent
  BY <1>1, <1>4, <1>7 DEF RingFifo, RingSent
<1> QED BY <1>8 DEF QueueStep, TxQ!vars

(* The request of a transmission is accepted when its last descriptor is written. *)
LEMMA PublishQueue ==
  ASSUME TypeOK, ExclInv, AccInv, RingInv, FrameInv, OnePlace, HeldOnce, Place, Place',
         NEW t \in Tasks, XmitPublish(t)
  PROVE  QueueStep
<1>1. /\ pc[t] = "publish" /\ free_bds' = free_bds - 1
      /\ UNCHANGED <<tx_cons_index, cb, semInit, hwCons>>
  BY DEF XmitPublish, Release
<1>2. semInit /\ semInit' /\ Used \in Nat /\ At(Used) = Slot(tx_prod_index)
  BY <1>1, SendWindow DEF Sending
<1>3. At(Used) \in Slots /\ (\A k \in 0 .. Used - 1 : At(k) # At(Used) /\ At(k) \in Slots) /\ SenderAt(t)
  BY <1>1, SendWindow DEF Sending
<1>4. cb[At(Used)] = req[t] /\ req[t] \in Cells
  BY <1>1, <1>2, <1>3 DEF SenderAt, Cells, TypeOK
<1>5. \A k : At(k)' = At(k)
  BY <1>1 DEF At
<1>6. Used' = Used + 1
  BY <1>1, <1>2, RingAssumption DEF Used, TypeOK
<1>7. PICK u \in Nat : u = Used /\ u = WindowLen /\ u + 1 = WindowLen' /\ u + 1 = Used'
  BY <1>2, <1>6 DEF Place
<1>8. ASSUME NEW k \in 1 .. u + 1 PROVE Window'[k] = cb[At(k - 1)]
  BY <1>1, <1>2, <1>5, <1>7 DEF Place
<1>9. ASSUME NEW k \in 1 .. u PROVE Window[k] = cb[At(k - 1)]
  BY <1>2, <1>7 DEF Place
<1>10. Window'[WindowLen + 1] = req[t]
  <2>1. u + 1 \in 1 .. u + 1 /\ (u + 1) - 1 = u
    OBVIOUS
  <2> QED BY <1>4, <1>7, <1>8, <2>1
<1>11. (\A k \in 1 .. WindowLen : Window'[k] = Window[k]) /\ WindowLen' = WindowLen + 1
  BY <1>7, <1>8, <1>9
<1>12. /\ RingFifo' = IF req[t] = NoReq THEN RingFifo ELSE Append(RingFifo, req[t])
       /\ RingSent' = RingSent
  BY <1>1, <1>2, <1>4, <1>10, <1>11, GrowQueue
<1>13. CASE req[t] = NoReq
  BY <1>12, <1>13 DEF QueueStep, TxQ!vars
<1>14. CASE req[t] # NoReq
  <2>1. PICK w \in Seq(Cells), f \in Seq(Reqs) :
            w = Window /\ f = RingFifo /\ Len(w) = u /\ f = Queued(w)
    BY <1>7, HeldFacts DEF Place, View
  <2>2. ASSUME NEW i \in 1 .. Len(f), f[i] = req[t] PROVE FALSE
    <3>1. PICK k \in 1 .. u : w[k] = f[i]
      BY <2>1, HeldFacts
    <3>2. cb[At(k - 1)] = cb[At(u)] /\ k - 1 \in 0 .. Used - 1 /\ k - 1 \in Int
      BY <1>4, <1>7, <1>9, <2>1, <2>2, <3>1
    <3>3. At(k - 1) # At(u) /\ At(k - 1) \in Slots /\ At(u) \in Slots
      BY <1>3, <1>7, <3>2
    <3>4. cb[At(k - 1)] = NoReq
      BY <3>2, <3>3, DifferentRequests
    <3> QED BY <1>4, <1>7, <1>14, <3>2, <3>4
  <2>3. req[t] \in Reqs /\ req[t] \notin {RingFifo[i] : i \in DOMAIN RingFifo}
    BY <1>4, <1>14, <2>1, <2>2 DEF Cells
  <2>4. TxQ!Accept(req[t])
    BY <1>12, <1>14, <2>3 DEF TxQ!Accept
  <2> QED BY <2>3, <2>4 DEF QueueStep, TxQ!Next
<1> QED BY <1>13, <1>14

(* The wire takes the next cell: a header, or the next request. *)
LEMMA HwQueue ==
  ASSUME TypeOK, FrameInv, Place, Place', HwTransmit PROVE QueueStep
<1>1. /\ dmaOn /\ hwCons # hwProd /\ hwCons' = Wrap(hwCons + 1, INDEX_SPAN)
      /\ UNCHANGED <<clean_ptr, tx_cons_index, tx_prod_index, free_bds, cb, semInit>>
  BY DEF HwTransmit, ringVars, semVars
<1>2. semInit /\ semInit'
  BY <1>1 DEF FrameInv
<1>3. Window' = Window /\ WindowLen' = WindowLen /\ Used' = Used
  BY <1>1 DEF Window, WindowLen, Used
<1>4. RingFifo' = RingFifo
  BY <1>3 DEF RingFifo
<1>5. PICK w \in Seq(Cells), u \in Nat, g \in Nat :
          /\ w = Window /\ u = Len(w) /\ u = Used /\ g = Gone /\ u < TX_DESCS
          /\ g <= u /\ Gone' <= u
          /\ RingSent = Cardinality(ReqsIn(w, g)) /\ RingFifo = Queued(w)
  BY <1>2, <1>3 DEF Place, View
<1>6. Gone' = g + 1
  <2>1. tx_cons_index \in Index /\ hwCons \in Index
    BY DEF TypeOK
  <2>2. Dist(tx_cons_index, hwCons) + 1 < INDEX_SPAN
    BY <1>5, RingAssumption DEF Gone
  <2> QED BY <1>1, <1>5, <2>1, <2>2, DistNext DEF Gone
<1>7. g + 1 <= u
  BY <1>5, <1>6
<1>8. RingSent' = Cardinality(ReqsIn(w, g + 1))
  BY <1>2, <1>3, <1>5, <1>6 DEF Place, ReqsIn
<1>9. /\ RingSent \in Nat
      /\ RingSent' = RingSent + (IF w[g + 1] = NoReq THEN 0 ELSE 1)
  BY <1>5, <1>7, <1>8, ReqsInNext
<1>10. CASE w[g + 1] = NoReq
  BY <1>4, <1>9, <1>10 DEF QueueStep, TxQ!vars
<1>11. CASE w[g + 1] # NoReq
  <2>1. RingSent' = RingSent + 1
    BY <1>9, <1>11
  <2>2. RingSent' <= Len(RingFifo) /\ Len(RingFifo) \in Nat
    <3>1. ReqsIn(w, u) \subseteq 1 .. u /\ ReqsIn(w, g + 1) \subseteq ReqsIn(w, u)
      BY <1>7 DEF ReqsIn
    <3>2. IsFiniteSet(ReqsIn(w, u))
      <4>1. IsFiniteSet(1 .. u)
        BY FS_Interval
      <4> QED BY <3>1, <4>1, FS_Subset
    <3>3. Cardinality(ReqsIn(w, g + 1)) <= Cardinality(ReqsIn(w, u)) /\ Cardinality(ReqsIn(w, u)) \in Nat
      BY <3>1, <3>2, FS_Subset, FS_CardinalityType
    <3>4. Len(Queued(w)) = Cardinality(ReqsIn(w, u))
      BY <1>5, HeldFacts
    <3> QED BY <1>5, <1>8, <3>3, <3>4
  <2>3. TxQ!Transmit
    BY <1>4, <1>9, <2>1, <2>2 DEF TxQ!Transmit
  <2> QED BY <2>3 DEF QueueStep, TxQ!Next
<1> QED BY <1>10, <1>11

(* Initialising the ring forgets what is queued. *)
LEMMA RestartQueue ==
  ASSUME TypeOK', InitRing PROVE QueueStep
<1>1. \A s \in Slots : cb'[s] = NoReq
  BY DEF InitRing
<1>2. Vacant'
  BY NothingHeld, PTL
<1>3. RingFifo' = <<>> /\ RingSent' = 0
  BY <1>1, <1>2 DEF Vacant
<1> QED BY <1>3 DEF QueueStep, TxQ!Next, TxQ!Restart

LEMMA XmitQueue ==
  ASSUME TypeOK, ExclInv, AccInv, RingInv, FrameInv, OnePlace, HeldOnce, Place, Place',
         NEW t \in Tasks, XmitStep(t)
  PROVE  QueueStep
<1>1. CASE Reclaimed(t)
  BY <1>1, RetireQueue DEF Reclaimed
<1>2. CASE RejectOffline(t) \/ AcceptWrite(t) \/ XmitFail(t) \/ XmitEnter(t)
  <2>1. UNCHANGED <<tx_cons_index, tx_prod_index, clean_ptr, cb, hwCons>>
    BY <1>2 DEF RejectOffline, AcceptWrite, XmitFail, XmitEnter, ringVars, hwVars
  <2> QED BY <2>1, KeepQueue
<1> QED BY <1>1, <1>2, HeaderQueue, BodyQueue, PublishQueue DEF XmitStep

RefineInv == PlaceInv /\ FrameInv /\ HeldOnce

LEMMA NextRefinesQueue ==
  ASSUME RefineInv, RefineInv', [Next]_vars PROVE QueueStep
<1>1. TypeOK /\ ExclInv /\ AccInv /\ RingInv /\ FrameInv /\ OnePlace /\ HeldOnce
  BY DEF RefineInv, PlaceInv
<1>2. TypeOK' /\ AccInv' /\ RingInv'
  BY DEF RefineInv, PlaceInv
<1>3. Place
  BY <1>1, Placed
<1>4. Place'
  BY <1>2, Placed, PTL
<1>5. CASE UNCHANGED <<ringVars, hwCons>>
  BY <1>5, KeepQueue DEF ringVars
<1>6. ASSUME NEW c \in Clients, BeginIO(c) \/ ClientStep(c), ~XmitStep(c)
      PROVE  UNCHANGED <<ringVars, hwCons>>
  BY <1>6 DEF BeginIO, BeginIOQuick, BeginIOQueue, ClientStep, QuickReclaim, EnterReclaim, QuickSkip,
     LeaveBeginIO, hwVars
<1>7. CASE GetMsg \/ PeriodicReclaim \/ CmdFlush \/ CmdOffline \/ CmdConfigure \/ CmdOnline
           \/ UnitOffline \/ StopDma \/ StopReclaim \/ StopFree \/ AllocBuffers \/ PhyStartup
  <2>1. UNCHANGED <<ringVars, hwCons>>
    BY <1>7 DEF GetMsg, PeriodicReclaim, EnterReclaim, CmdFlush, CmdOffline, FlushTo, CmdConfigure,
       CmdOnline, UnitOffline, StopDma, StopReclaim, StopFree, AllocBuffers, PhyStartup, hwVars
  <2> QED BY <1>5, <2>1
<1>8. CASE StopRetire
  BY <1>1, <1>3, <1>4, <1>8, RetireQueue DEF StopRetire, Tasks
<1>9. CASE InitRing
  BY <1>2, <1>9, RestartQueue
<1>10. CASE HwTransmit
  BY <1>1, <1>3, <1>4, <1>10, HwQueue
<1>11. ASSUME NEW t \in Tasks, XmitStep(t) PROVE QueueStep
  BY <1>1, <1>3, <1>4, <1>11, XmitQueue
<1>12. CASE Aside
  BY <1>5, <1>12 DEF Aside, hwVars
<1> QED
  BY <1>5, <1>6, <1>7, <1>8, <1>9, <1>10, <1>11, <1>12, NextCases
  DEF UnitStep, StopStep, StartStep, Tasks

LEMMA InitRefinesQueue == Init => TxQ!Init
<1> SUFFICES ASSUME Init PROVE TxQ!Init
  OBVIOUS
<1>1. TypeOK /\ \A s \in Slots : cb[s] = NoReq
  BY InitType DEF Init
<1>2. RingFifo = <<>> /\ RingSent = 0
  BY <1>1, NothingHeld DEF Vacant
<1> QED BY <1>2 DEF TxQ!Init

(* Frames leave in the order they were accepted and are completed in that order, only
   after the hardware has consumed them, for any clients, requests and ring: the
   requests on the ring are a TxQueue, and every step of the driver, of AbortIO and of
   the hardware is a step of that queue or leaves it alone. *)
THEOREM RingRefines ==
  QuietRestart = TRUE /\ CopyMayFail = FALSE => (Spec => ImplementsTxQueue)
<1> SUFFICES ASSUME QuietRestart = TRUE, CopyMayFail = FALSE PROVE Spec => ImplementsTxQueue
  OBVIOUS
<1>1. Spec => []PlaceInv
  BY PlacesInvariant
<1>2. PlaceInv /\ PlaceInv' /\ FrameInv /\ HeldOnce /\ [Next]_vars => FrameInv' /\ HeldOnce'
  BY NextFrames, NextHeldOnce DEF PlaceInv
<1>3. Init => FrameInv /\ HeldOnce
  BY InitFrames DEF Init, HeldOnce
<1>4. RefineInv /\ RefineInv' /\ [Next]_vars => [TxQ!Next]_(TxQ!vars)
  BY NextRefinesQueue DEF QueueStep
<1> QED BY <1>1, <1>2, <1>3, <1>4, InitRefinesQueue, PTL DEF Spec, RefineInv, ImplementsTxQueue, TxQ!Spec
=============================================================================
