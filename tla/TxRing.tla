------------------------------- MODULE TxRing -------------------------------
(***************************************************************************)
(* The transmit ring of the GENET driver: genet/bcmgenet-tx.c, the ring's  *)
(* set-up and tear-down in genet/bcmgenet.c, the quick path of             *)
(* device_beginio.c, device_abortio.c and the part of the unit task that   *)
(* touches the ring.                                                       *)
(*                                                                         *)
(* Several client tasks call BeginIO in their own context and the unit     *)
(* task serves the message port, polls, and starts and stops the MAC.  All *)
(* of them meet at tx_ring_sem, a recursive exec SignalSemaphore; the DMA  *)
(* engine (external) consumes descriptors without any lock.                *)
(***************************************************************************)
EXTENDS Integers, Sequences, FiniteSets

CONSTANTS
    Clients,            \* tasks that call BeginIO
    Unit,               \* the unit task
    Reqs,               \* IOSana2Req structures with a write command
    RawReqs,            \* those with SANA2IOF_RAW: one descriptor, no header
    EmptyReqs,          \* those with ios2_DataLength = 0
    MulticastReqs,      \* S2_MULTICAST: never taken on the quick path
    NoReq, NoTask,      \* NULL
    TX_DESCS,           \* descriptors in the ring (256 in the code)
    INDEX_SPAN,         \* range of the 16 bit ring indices, a multiple of TX_DESCS
    RECLAIM_THRESHOLD,  \* the 10 of device_beginio.c
    HwStart,            \* values TDMA_CONS_INDEX may have when the unit opens
    CopyMayFail,        \* CopyFromBuff may return FALSE
    StartMayFail,       \* probe, buffer allocation or PHY start may fail
    AllowOffline,       \* some client sends S2_OFFLINE
    QuietRestart,       \* no client is inside BeginIO while S2_ONLINE is served
    LateAborts,         \* requests AbortIO may meet in the unit task's hand
    MaxSessions         \* bound on calls of bcmgenet_gmac_eth_start

ASSUME RingAssumption ==
    /\ TX_DESCS \in Nat /\ TX_DESCS >= 4
    /\ INDEX_SPAN \in Nat /\ INDEX_SPAN % TX_DESCS = 0
    /\ INDEX_SPAN >= 2 * TX_DESCS
    /\ HwStart \subseteq 0 .. INDEX_SPAN - 1
    /\ RECLAIM_THRESHOLD \in Nat /\ MaxSessions \in Nat

ASSUME TaskAssumption ==
    Unit \notin Clients /\ NoTask \notin Clients \cup {Unit} /\ IsFiniteSet(Clients)

ASSUME RequestAssumption ==
    /\ RawReqs \subseteq Reqs /\ EmptyReqs \subseteq Reqs
    /\ MulticastReqs \subseteq Reqs /\ NoReq \notin Reqs
    /\ LateAborts \subseteq Reqs

ASSUME SwitchAssumption ==
    {CopyMayFail, StartMayFail, AllowOffline, QuietRestart} \subseteq BOOLEAN

VARIABLES
    clean_ptr, tx_cons_index, free_bds, write_ptr, tx_prod_index,
    cb,           \* tx_control_block[slot].ioReq
    desc,         \* what the descriptor in a slot in use describes; the stale
                  \* contents of a slot that was freed are forgotten
    hwProd, hwCons, dmaOn,                      \* TDMA_PROD/CONS_INDEX, DMA_EN
    semInit, owner, nest,                       \* tx_ring_sem
    unitState, bufLive, sessions,               \* unit->state, unit->txbuffer
    port,         \* unit_MsgPort
    pc, req, snap,                              \* per task: step, request, index
    due,          \* per request: BeginIO calls minus completions
    behind,       \* what ln_Succ of the request in the unit task's hand still names
    aborted,      \* history: requests AbortIO replied when they were on no list
    lost,         \* history: requests a late Remove has cut off the port
    wild          \* a Remove has written through links that lead off the port

ringVars == <<clean_ptr, tx_cons_index, free_bds, write_ptr, tx_prod_index, cb, desc>>
hwVars   == <<hwProd, hwCons, dmaOn>>
semVars  == <<semInit, owner, nest>>
unitVars == <<unitState, bufLive, sessions>>
taskVars == <<port, pc, req, snap, due>>
lateVars == <<aborted, lost, wild>>
vars     == <<ringVars, hwVars, semVars, unitVars, taskVars, behind, lateVars>>

Tasks == Clients \cup {Unit}
Slots == 0 .. TX_DESCS - 1
Index == 0 .. INDEX_SPAN - 1
Slot(i) == i % TX_DESCS

(* Unsigned wrap-around of a UBYTE pointer or of a masked index. *)
WrapUnmasked(a, span) == a                                        \* mutant
WrapLate(a, span) == IF a > span THEN a - span ELSE a             \* mutant
Wrap(a, span) == IF a >= span THEN a - span ELSE a
Dist(a, b) == IF b >= a THEN b - a ELSE b - a + INDEX_SPAN

NoDesc == [io |-> NoReq, part |-> "none"]
Descs == [io : Reqs \cup {NoReq}, part : {"none", "header", "body", "whole"}]

ClientSteps == {"idle", "quick", "leave"}
SharedSteps == {"reclaim", "command", "xmit", "header", "body", "publish", "fail"}
UnitSteps == {"wait", "online", "initRing", "phy", "offline",
              "stopDma", "stopReclaim", "stopRetire", "stopFree"}
UnitStates == {"UNCONFIGURED", "CONFIGURED", "ONLINE", "OFFLINE"}

Goto(t, step) == pc' = [pc EXCEPT ![t] = step]
AfterNoLeave(t) == IF t = Unit THEN "wait" ELSE "idle"            \* mutant
After(t) == IF t = Unit THEN "wait" ELSE "leave"

(***************************************************************************)
(* exec (external).  A semaphore that was never initialised is zeroed      *)
(* memory: AttemptSemaphore fails on it and ObtainSemaphore never returns. *)
(***************************************************************************)
CanObtainHeld(t) == semInit                                       \* mutant
CanObtain(t) == semInit /\ owner \in {NoTask, t}
Obtain(t) == /\ CanObtain(t)
             /\ owner' = t
             /\ nest' = nest + 1
             /\ UNCHANGED semInit
Release == /\ nest' = nest - 1
           /\ owner' = IF nest = 1 THEN NoTask ELSE owner
           /\ UNCHANGED semInit
CompleteNone(ios) == ios \subseteq Reqs /\ due' = due             \* mutant
CompleteTwice(ios) ==                                             \* mutant
    due' = [r \in Reqs |-> IF r \in ios THEN due[r] - 2 ELSE due[r]]
Complete(ios) == due' = [r \in Reqs |-> IF r \in ios THEN due[r] - 1 ELSE due[r]]

Init ==
    /\ clean_ptr = 0 /\ tx_cons_index = 0 /\ free_bds = 0
    /\ write_ptr = 0 /\ tx_prod_index = 0
    /\ cb = [s \in Slots |-> NoReq] /\ desc = [s \in Slots |-> NoDesc]
    /\ hwCons \in HwStart /\ hwProd = hwCons /\ dmaOn = FALSE
    /\ semInit = FALSE /\ owner = NoTask /\ nest = 0
    /\ unitState = "UNCONFIGURED" /\ bufLive = FALSE /\ sessions = 0
    /\ port = <<>>
    /\ pc = [t \in Tasks |-> IF t = Unit THEN "wait" ELSE "idle"]
    /\ req = [t \in Tasks |-> NoReq] /\ snap = [t \in Tasks |-> 0]
    /\ due = [r \in Reqs |-> 0] /\ behind = NoReq
    /\ aborted = {} /\ lost = {} /\ wild = FALSE

(***************************************************************************)
(* BeginIO of a write: quick when the ring semaphore can be had at once,   *)
(* queued on the unit's port otherwise.  A client sends a request again    *)
(* when it has it back; one that came back while a control block or the    *)
(* unit task still has it is not sent again (a second ReplyMsg of it       *)
(* corrupts exec's lists, which the model does not follow).                *)
(***************************************************************************)
OnNoSlot(r) == \A s \in Slots : cb[s] # r
Sendable(r) == due[r] = 0 /\ OnNoSlot(r) /\ r \notin aborted

CanQuick(c, r) == /\ r \notin MulticastReqs
                  /\ CanObtain(c)

BeginIOQuick(c, r) ==
    /\ pc[c] = "idle" /\ Sendable(r) /\ CanQuick(c, r)
    /\ QuietRestart => pc[Unit] \notin {"online", "initRing"}
    /\ Obtain(c)
    /\ Goto(c, "quick")
    /\ req' = [req EXCEPT ![c] = r]
    /\ due' = [due EXCEPT ![r] = 1]
    /\ UNCHANGED <<ringVars, hwVars, unitVars, port, snap>>

BeginIOQueue(c, r) ==
    /\ pc[c] = "idle" /\ Sendable(r) /\ ~CanQuick(c, r)
    /\ port' = Append(port, r)
    /\ due' = [due EXCEPT ![r] = 1]
    /\ UNCHANGED <<ringVars, hwVars, semVars, unitVars, pc, req, snap>>

EnterReclaimReadsProd(t, step) ==                                 \* mutant
    /\ Obtain(t)
    /\ snap' = [snap EXCEPT ![t] = hwProd]
    /\ Goto(t, step)
    /\ UNCHANGED <<ringVars, hwVars, unitVars, port, req, due>>

(* bcmgenet_tx_reclaim: take the semaphore and read the consumer index. *)
EnterReclaim(t, step) ==
    /\ Obtain(t)
    /\ snap' = [snap EXCEPT ![t] = hwCons]
    /\ Goto(t, step)
    /\ UNCHANGED <<ringVars, hwVars, unitVars, port, req, due>>

QuickReclaim(c) ==
    /\ pc[c] = "quick" /\ free_bds < RECLAIM_THRESHOLD
    /\ EnterReclaim(c, "reclaim")

QuickSkip(c) ==
    /\ pc[c] = "quick" /\ free_bds >= RECLAIM_THRESHOLD
    /\ Goto(c, "command")
    /\ UNCHANGED <<ringVars, hwVars, semVars, unitVars, port, req, snap, due>>

(* Free every control block the hardware is done with and reply its request. *)
RetireSlotsOneMore(n) == {Slot(clean_ptr + k) : k \in 0 .. n}     \* mutant
RetireSlots(n) == {Slot(clean_ptr + k) : k \in 0 .. n - 1}

Retire(t) ==
    LET ready == Dist(tx_cons_index, snap[t])
        freed == RetireSlots(ready)
    IN  /\ cb' = [s \in Slots |-> IF s \in freed THEN NoReq ELSE cb[s]]
        /\ desc' = [s \in Slots |-> IF s \in freed THEN NoDesc ELSE desc[s]]
        /\ due' = [r \in Reqs |-> due[r] - Cardinality({s \in freed : cb[s] = r})]
        /\ clean_ptr' = Slot(clean_ptr + ready)
        /\ free_bds' = free_bds + ready
        /\ tx_cons_index' = snap[t]
        /\ Release
        /\ snap' = [snap EXCEPT ![t] = 0]
        /\ UNCHANGED <<write_ptr, tx_prod_index, hwVars, unitVars, port, req>>

Reclaimed(t) ==
    /\ pc[t] = "reclaim"
    /\ Retire(t)
    /\ Goto(t, IF t = Unit THEN "wait" ELSE "command")

(* ProcessCommand and Do_CMD_WRITE: the unit's state is read without a lock
   of its own. *)
RejectOffline(t) ==
    /\ pc[t] = "command" /\ unitState # "ONLINE"
    /\ Complete({req[t]})
    /\ req' = [req EXCEPT ![t] = NoReq]
    /\ Goto(t, After(t))
    /\ UNCHANGED <<ringVars, hwVars, semVars, unitVars, port, snap>>

AcceptWrite(t) ==
    /\ pc[t] = "command" /\ unitState = "ONLINE"
    /\ Goto(t, "xmit")
    /\ UNCHANGED <<ringVars, hwVars, semVars, unitVars, port, req, snap, due>>

(***************************************************************************)
(* bcmgenet_xmit.                                                          *)
(***************************************************************************)
BdsRequired(r) == IF r \in RawReqs THEN 1 ELSE 2
XmitRefusedNever(r) == r \in EmptyReqs                                \* mutant
XmitRefused(r) == free_bds <= BdsRequired(r) \/ r \in EmptyReqs

XmitEnter(t) ==
    /\ pc[t] = "xmit"
    /\ Obtain(t)
    /\ Goto(t, IF XmitRefused(req[t]) THEN "fail"
               ELSE IF req[t] \in RawReqs THEN "body" ELSE "header")
    /\ UNCHANGED <<ringVars, hwVars, unitVars, port, req, snap, due>>

XmitHeader(t) ==
    /\ pc[t] = "header"
    /\ write_ptr' = Wrap(write_ptr + 1, TX_DESCS)
    /\ cb' = [cb EXCEPT ![write_ptr] = NoReq]
    /\ desc' = [desc EXCEPT ![write_ptr] = [io |-> req[t], part |-> "header"]]
    /\ free_bds' = free_bds - 1
    /\ tx_prod_index' = Wrap(tx_prod_index + 1, INDEX_SPAN)
    /\ Goto(t, "body")
    /\ UNCHANGED <<clean_ptr, tx_cons_index, hwVars, semVars, unitVars, port, req, snap, due>>

XmitBody(t) ==
    /\ pc[t] = "body"
    /\ write_ptr' = Wrap(write_ptr + 1, TX_DESCS)
    /\ cb' = [cb EXCEPT ![write_ptr] = req[t]]
    /\ \/ Goto(t, "publish")
       \/ CopyMayFail /\ Goto(t, "fail")
    /\ UNCHANGED <<clean_ptr, tx_cons_index, free_bds, tx_prod_index, desc,
                   hwVars, semVars, unitVars, port, req, snap, due>>

BodySlot == IF write_ptr = 0 THEN TX_DESCS - 1 ELSE write_ptr - 1

XmitPublish(t) ==
    /\ pc[t] = "publish"
    /\ desc' = [desc EXCEPT ![BodySlot] =
                   [io |-> req[t], part |-> IF req[t] \in RawReqs THEN "whole" ELSE "body"]]
    /\ free_bds' = free_bds - 1
    /\ tx_prod_index' = Wrap(tx_prod_index + 1, INDEX_SPAN)
    /\ hwProd' = tx_prod_index'
    /\ Release
    /\ req' = [req EXCEPT ![t] = NoReq]
    /\ Goto(t, After(t))
    /\ UNCHANGED <<clean_ptr, tx_cons_index, write_ptr, cb, hwCons, dmaOn,
                   unitVars, port, snap, due>>

(* ret_error, then the reply ProcessCommand gives a COMMAND_PROCESSED. *)
XmitFail(t) ==
    /\ pc[t] = "fail"
    /\ Release
    /\ Complete({req[t]})
    /\ req' = [req EXCEPT ![t] = NoReq]
    /\ Goto(t, After(t))
    /\ UNCHANGED <<ringVars, hwVars, unitVars, port, snap>>

LeaveBeginIO(c) ==
    /\ pc[c] = "leave"
    /\ Release
    /\ Goto(c, "idle")
    /\ UNCHANGED <<ringVars, hwVars, unitVars, port, req, snap, due>>

(***************************************************************************)
(* AbortIO of a request that was queued, under Forbid only.  It looks      *)
(* queued until bcmgenet_xmit clears its ln_Pred: also while it is in the  *)
(* unit task's hand, which goes on with it after the reply, and after a    *)
(* late Remove has cut it off the port.                                    *)
(*                                                                         *)
(* exec's RemHead and Remove leave the links of the node they take as they *)
(* were, and a second Remove makes the two nodes they name neighbours.     *)
(* For the request in the unit's hand these are the port itself and the    *)
(* message that was second when GetMsg took it: the port then begins at    *)
(* that message, or is empty if there was none, and what else has arrived  *)
(* is lost.  If that message has left the port Remove writes into nodes of *)
(* other lists, and the model goes no further; AbortIO of a request that   *)
(* was itself cut off may do that too.  behind is kept only for a request  *)
(* it can still matter to.                                                 *)
(***************************************************************************)
FollowHand ==
    behind' = IF req'[Unit] \notin LateAborts \ aborted THEN NoReq
              ELSE IF req[Unit] # NoReq THEN behind
              ELSE IF Len(port) > 1 THEN port[2] ELSE NoReq

AbortQueued(r) ==
    /\ \E i \in DOMAIN port :
          /\ port[i] = r
          /\ port' = SubSeq(port, 1, i - 1) \o SubSeq(port, i + 1, Len(port))
    /\ UNCHANGED lateVars

CutPortAt(i) ==
    /\ port' = SubSeq(port, i, Len(port))
    /\ lost' = lost \cup {port[k] : k \in 1 .. i - 1}
    /\ UNCHANGED wild

Damage == wild' = TRUE /\ UNCHANGED <<port, lost>>

AbortTaken(r) ==
    /\ r \in LateAborts \ aborted
    /\ req[Unit] = r /\ OnNoSlot(r)
    /\ aborted' = aborted \cup {r}
    /\ \/ behind = NoReq /\ CutPortAt(Len(port) + 1)
       \/ \E i \in DOMAIN port : port[i] = behind /\ CutPortAt(i)
       \/ behind # NoReq /\ (\A i \in DOMAIN port : port[i] # behind) /\ Damage

AbortLost(r) ==
    /\ r \in lost \ aborted
    /\ aborted' = aborted \cup {r}
    /\ Damage \/ UNCHANGED <<port, lost, wild>>

AbortIO(r) ==
    /\ AbortQueued(r) \/ AbortTaken(r) \/ AbortLost(r)
    /\ Complete({r})
    /\ UNCHANGED <<ringVars, hwVars, semVars, unitVars, pc, req, snap, behind>>

(***************************************************************************)
(* The unit task.                                                          *)
(***************************************************************************)
GetMsg ==
    /\ pc[Unit] = "wait" /\ port # <<>>
    /\ req' = [req EXCEPT ![Unit] = Head(port)]
    /\ port' = Tail(port)
    /\ Goto(Unit, "command")
    /\ UNCHANGED <<ringVars, hwVars, semVars, unitVars, snap, due>>

PeriodicReclaimLow ==                                             \* mutant
    /\ pc[Unit] = "wait" /\ unitState = "ONLINE" /\ free_bds < RECLAIM_THRESHOLD
    /\ EnterReclaim(Unit, "reclaim")

PeriodicReclaim ==
    /\ pc[Unit] = "wait" /\ unitState = "ONLINE"
    /\ EnterReclaim(Unit, "reclaim")

(* Do_CMD_FLUSH of the port, which also opens S2_OFFLINE. *)
FlushTo(step) ==
    /\ pc[Unit] = "wait"
    /\ Complete({port[i] : i \in DOMAIN port})
    /\ port' = <<>>
    /\ Goto(Unit, step)
    /\ UNCHANGED <<ringVars, hwVars, semVars, unitVars, req, snap>>

CmdFlush == FlushTo("wait")
CmdOffline == AllowOffline /\ unitState = "ONLINE" /\ FlushTo("offline")

UnitOffline ==
    /\ pc[Unit] = "offline"
    /\ unitState' = "OFFLINE"
    /\ Goto(Unit, "stopDma")
    /\ UNCHANGED <<ringVars, hwVars, semVars, bufLive, sessions, port, req, snap, due>>

(* bcmgenet_gmac_eth_stop: DMA off, reclaim, free the buffers and the PHY. *)
StopDma ==
    /\ pc[Unit] = "stopDma"
    /\ dmaOn' = FALSE
    /\ Goto(Unit, "stopReclaim")
    /\ UNCHANGED <<ringVars, hwProd, hwCons, semVars, unitVars, port, req, snap, due>>

StopReclaimSkipped ==                                             \* mutant
    /\ pc[Unit] = "stopReclaim"
    /\ Goto(Unit, "stopFree")
    /\ UNCHANGED <<ringVars, hwVars, semVars, unitVars, port, req, snap, due>>

StopReclaim ==
    /\ pc[Unit] = "stopReclaim"
    /\ EnterReclaim(Unit, "stopRetire")

StopRetire ==
    /\ pc[Unit] = "stopRetire"
    /\ Retire(Unit)
    /\ Goto(Unit, "stopFree")

StopFree ==
    /\ pc[Unit] = "stopFree"
    /\ bufLive' = FALSE
    /\ Goto(Unit, "wait")
    /\ UNCHANGED <<ringVars, hwVars, semVars, unitState, sessions, port, req, snap, due>>

Quiet == QuietRestart => \A c \in Clients : pc[c] = "idle"

(* Do_S2_CONFIGINTERFACE: probe, then online. *)
CmdConfigure ==
    /\ pc[Unit] = "wait" /\ unitState = "UNCONFIGURED"
    /\ sessions < MaxSessions /\ Quiet
    /\ \/ unitState' = "CONFIGURED" /\ Goto(Unit, "online")
       \/ StartMayFail /\ Goto(Unit, "stopDma") /\ UNCHANGED unitState
    /\ UNCHANGED <<ringVars, hwVars, semVars, bufLive, sessions, port, req, snap, due>>

CmdOnline ==
    /\ pc[Unit] = "wait" /\ unitState # "ONLINE"
    /\ sessions < MaxSessions /\ Quiet
    /\ Goto(Unit, "online")
    /\ UNCHANGED <<ringVars, hwVars, semVars, unitVars, port, req, snap, due>>

(* bcmgenet_gmac_eth_start up to init_dma: the packet buffers. *)
AllocBuffers ==
    /\ pc[Unit] = "online"
    /\ sessions' = sessions + 1
    /\ \/ bufLive' = TRUE /\ Goto(Unit, "initRing")
       \/ StartMayFail /\ Goto(Unit, "stopDma") /\ UNCHANGED bufLive
    /\ UNCHANGED <<ringVars, hwVars, semVars, unitState, port, req, snap, due>>

(* bcmgenet_init_tx_ring and enable_dma. *)
InitRing ==
    /\ pc[Unit] = "initRing"
    /\ semInit' = TRUE /\ owner' = NoTask /\ nest' = 0
    /\ cb' = [s \in Slots |-> NoReq] /\ desc' = [s \in Slots |-> NoDesc]
    /\ free_bds' = TX_DESCS
    /\ tx_cons_index' = hwCons /\ tx_prod_index' = hwCons /\ hwProd' = hwCons
    /\ write_ptr' = Slot(hwCons) /\ clean_ptr' = Slot(hwCons)
    /\ dmaOn' = TRUE
    /\ Goto(Unit, "phy")
    /\ UNCHANGED <<hwCons, unitVars, port, req, snap, due>>

PhyStartup ==
    /\ pc[Unit] = "phy"
    /\ \/ unitState' = "ONLINE" /\ Goto(Unit, "wait")
       \/ StartMayFail /\ Goto(Unit, "stopDma") /\ UNCHANGED unitState
    /\ UNCHANGED <<ringVars, hwVars, semVars, bufLive, sessions, port, req, snap, due>>

(* The DMA engine (external). *)
HwTransmit ==
    /\ dmaOn /\ hwCons # hwProd
    /\ hwCons' = Wrap(hwCons + 1, INDEX_SPAN)
    /\ UNCHANGED <<ringVars, hwProd, dmaOn, semVars, unitVars, taskVars>>

XmitStep(t) ==
    \/ Reclaimed(t) \/ RejectOffline(t) \/ AcceptWrite(t) \/ XmitEnter(t)
    \/ XmitHeader(t) \/ XmitBody(t) \/ XmitPublish(t) \/ XmitFail(t)

ClientStep(c) == QuickReclaim(c) \/ QuickSkip(c) \/ XmitStep(c) \/ LeaveBeginIO(c)

BeginIO(c) == \E r \in Reqs : BeginIOQuick(c, r) \/ BeginIOQueue(c, r)

StopStep == UnitOffline \/ StopDma \/ StopReclaim \/ StopRetire \/ StopFree
StartStep == AllocBuffers \/ InitRing \/ PhyStartup

UnitStep == \/ GetMsg \/ PeriodicReclaim \/ CmdFlush \/ CmdOffline
            \/ CmdConfigure \/ CmdOnline
            \/ StopStep \/ StartStep \/ XmitStep(Unit)

Handling == \/ \E c \in Clients : BeginIO(c) \/ ClientStep(c)
            \/ UnitStep
            \/ HwTransmit

Working == \/ Handling /\ FollowHand /\ UNCHANGED lateVars
           \/ \E r \in Reqs : AbortIO(r)

Next == \/ ~wild /\ Working
        \/ wild /\ UNCHANGED vars

Spec == Init /\ [][Next]_vars

(***************************************************************************)
(* Properties.                                                             *)
(***************************************************************************)
(* Type correctness of the ring, the hardware's registers, the semaphore and
   the tasks that use them. *)
TypeOK ==
    /\ clean_ptr \in Slots /\ write_ptr \in Slots
    /\ tx_cons_index \in Index /\ tx_prod_index \in Index /\ free_bds \in Int
    /\ cb \in [Slots -> Reqs \cup {NoReq}] /\ desc \in [Slots -> Descs]
    /\ hwProd \in Index /\ hwCons \in Index /\ dmaOn \in BOOLEAN
    /\ semInit \in BOOLEAN /\ owner \in Tasks \cup {NoTask} /\ nest \in Int
    /\ unitState \in UnitStates /\ bufLive \in BOOLEAN /\ sessions \in Nat
    /\ port \in Seq(Reqs)
    /\ pc \in [Tasks -> ClientSteps \cup SharedSteps \cup UnitSteps]
    /\ req \in [Tasks -> Reqs \cup {NoReq}] /\ snap \in [Tasks -> Index]
    /\ due \in [Reqs -> Int] /\ behind \in Reqs \cup {NoReq}
    /\ aborted \subseteq Reqs /\ lost \subseteq Reqs /\ wild \in BOOLEAN

(* The nesting depth a task's position implies: bcmgenet_tx_reclaim and
   bcmgenet_xmit obtain once, BeginIO holds an outer level around them. *)
InnerSteps == {"reclaim", "stopRetire", "header", "body", "publish", "fail"}
OuterSteps == {"quick", "command", "xmit", "leave"}
DepthAt(t, step) ==
    IF step \in InnerSteps THEN (IF t = Unit THEN 1 ELSE 2)
    ELSE IF step \in OuterSteps /\ t # Unit THEN 1 ELSE 0
Depth(t) == DepthAt(t, pc[t])

(* At most one task is inside the ring's critical section, and the semaphore's
   owner and nesting count are exactly that task and its depth: the quick path,
   the unit's own transmissions and both reclaims never overlap, and no release
   is missing or in excess, whatever S2_OFFLINE does in between. *)
SemaphoreExclusion ==
    /\ \A t \in Tasks : Depth(t) > 0 => owner = t
    /\ nest = (IF owner = NoTask THEN 0 ELSE Depth(owner))
    /\ owner # NoTask => nest > 0

(* free_bds counts exactly the descriptors between the two indices and never
   reaches 0, through wrap-around of the indices, failed copies, reclaims from
   both tasks and restarts: tx_prod_index = tx_cons_index always means empty. *)
Accounting ==
    semInit => /\ free_bds + Dist(tx_cons_index, tx_prod_index) = TX_DESCS
               /\ free_bds >= 1

(* The hardware's consumer index, and every copy of it a task is still using,
   lies between the driver's two indices: a reclaim never frees a descriptor
   the driver has not handed out, even when it acts on an old reading. *)
Between(a, x, b) == Dist(a, x) <= Dist(a, b)
HwWindow ==
    semInit => /\ Between(tx_cons_index, hwProd, tx_prod_index)
               /\ Between(tx_cons_index, hwCons, hwProd)
               /\ \A t \in Tasks : pc[t] \in {"reclaim", "stopRetire"} =>
                      Between(tx_cons_index, snap[t], hwCons)

(* The slot pointers follow the indices: the control block a reclaim frees and
   the descriptor the hardware has consumed are the same slot.  write_ptr is one
   slot ahead only between bcmgenet_get_txcb and the end of the transmission. *)
SlotAlignment ==
    semInit => /\ clean_ptr = Slot(tx_cons_index)
               /\ write_ptr = Slot(tx_prod_index
                                   + Cardinality({t \in Tasks : pc[t] = "publish"}))

(* Hardware and driver stay in step: both of the above. *)
RingInStep == HwWindow /\ SlotAlignment

(* What the DMA engine may read is a sequence of whole frames, each with the
   request whose data it carries still held by the driver: a header descriptor
   is followed by its own body, no body stands without its header except the one
   being sent, and no slot in the window has been reused or replied. *)
HwSlot(k) == Slot(hwCons + k)
FramesWhole ==
    LET len == Dist(hwCons, hwProd) IN
    dmaOn => \A k \in 0 .. len - 1 :
        LET d == desc[HwSlot(k)] IN
        /\ d.part = "header" => /\ k + 1 < len
                                /\ desc[HwSlot(k + 1)] = [io |-> d.io, part |-> "body"]
                                /\ cb[HwSlot(k)] = NoReq
        /\ d.part \in {"body", "whole"} => cb[HwSlot(k)] = d.io
        /\ d.part = "body" /\ k > 0 =>
               desc[HwSlot(k - 1)] = [io |-> d.io, part |-> "header"]
        /\ d.part # "none"

(* The packet buffers exist whenever a transmission may copy into them or the
   DMA engine may read them: S2_OFFLINE frees them only after every task that
   saw the unit online has left the ring. *)
BuffersLive ==
    /\ dmaOn => bufLive
    /\ \A t \in Tasks : pc[t] \in {"header", "body", "publish"} => bufLive

(* Where a request the driver has accepted can be: in the port, in a task's
   hand, or on the ring. *)
InHand(r) == Cardinality({t \in Tasks : req[t] = r /\ pc[t] # "publish"})
InPort(r) == Cardinality({i \in DOMAIN port : port[i] = r})
OnRing(r) == Cardinality({s \in Slots : cb[s] = r})
Copies(r) == InPort(r) + InHand(r) + OnRing(r)

(* Every request is in exactly one place from BeginIO to its completion, so it
   is completed once, whoever completes it.  Two things break this.  The next
   S2_ONLINE re-initialises the ring and forgets what is on it; and AbortIO of a
   request in the unit task's hand, which is itself then completed twice, may cut
   others off the port: those are in no place at all and are never answered. *)
OnePlace ==
    \A r \in Reqs \ aborted :
        /\ due[r] \in {0, 1}
        /\ Copies(r) <= due[r]
        /\ sessions <= 1 /\ r \notin lost => Copies(r) = due[r]
        /\ r \in lost => due[r] = 1 /\ Copies(r) = 0

(* A request leaves the driver's hands unreplied in two ways only: the ring it is
   on is re-initialised by the next S2_ONLINE, or AbortIO meets another request
   in the unit task's hand and its second Remove cuts this one off the port. *)
LateRemove == req[Unit] \in aborted' \ aborted
WaysToLose ==
    [][\A r \in Reqs \ aborted' :
          due'[r] - Copies(r)' # due[r] - Copies(r) =>
              \/ pc[Unit] = "initRing"
              \/ LateRemove /\ r \in lost' \ lost /\ InPort(r) = 1]_vars

(* S2_OFFLINE cancels every request (unit_commands.c, "Flush and cancel all
   requests"): once the unit is stopped no control block still holds one.  The
   code does not keep this: see the README. *)
OfflineCancelsAll ==
    unitState = "OFFLINE" /\ pc[Unit] = "wait" => \A s \in Slots : cb[s] = NoReq

(***************************************************************************)
(* Fairness.  Every task that can run is scheduled; the unit task's loop   *)
(* reaches the port and the timer again and again; exec hands a released   *)
(* semaphore to the task waiting for it, so the unit's waits end if the    *)
(* semaphore is free again and again; the DMA engine makes progress.       *)
(* Nothing makes a client or a control command start.                      *)
(***************************************************************************)
Serving(step) == ~wild /\ step /\ FollowHand /\ UNCHANGED lateVars
Fairness ==
    /\ \A c \in Clients : WF_vars(Serving(ClientStep(c)))
    /\ WF_vars(Serving(XmitStep(Unit))) /\ SF_vars(Serving(XmitEnter(Unit)))
    /\ SF_vars(Serving(GetMsg)) /\ SF_vars(Serving(PeriodicReclaim))
    /\ WF_vars(Serving(StartStep)) /\ WF_vars(Serving(StopStep))
    /\ SF_vars(Serving(StopReclaim))
    /\ WF_vars(Serving(HwTransmit))

FairSpec == Spec /\ Fairness

(* A write is completed, queued or quick, whichever task sends it and whichever
   reclaims it, failed copies and failed starts included.  Four things excuse it:
   the unit is taken offline; an earlier CopyFromBuff failed and left write_ptr
   ahead of tx_prod_index, so that control blocks are retired one slot late (see
   the README); the unit task hangs after a first start that failed; a late AbortIO
   has cut the write off the port or damaged the port. *)
Hung == pc[Unit] = "stopReclaim" /\ ~semInit
WritesComplete ==
    \A r \in Reqs : due[r] = 1 ~> \/ due[r] # 1
                                  \/ pc[Unit] = "offline" \/ unitState = "OFFLINE"
                                  \/ ~SlotAlignment \/ Hung \/ r \in lost \/ wild

(* bcmgenet_gmac_eth_stop returns, after S2_OFFLINE and after a failed start: the
   client that holds the ring semaphore always leaves it.  Only a start that fails
   before it has initialised the semaphore hangs. *)
StopReturns == pc[Unit] = "stopDma" /\ semInit ~> pc[Unit] = "wait"

(***************************************************************************)
(* The ring implements TxQueue.  The queue is read off the control blocks  *)
(* between the two indices, in ring order.                                 *)
(***************************************************************************)
WindowLen == Dist(tx_cons_index, tx_prod_index)
Window == [k \in 1 .. WindowLen |-> cb[Slot(clean_ptr + k - 1)]]
Held(w, n) == LET kept[k \in 0 .. n] ==
                      IF k = 0 THEN <<>>
                      ELSE IF w[k] = NoReq THEN kept[k - 1] ELSE Append(kept[k - 1], w[k])
              IN  kept[n]
RingFifo == Held(Window, WindowLen)
RingSent == Cardinality({k \in 1 .. Dist(tx_cons_index, hwCons) :
                            k <= WindowLen /\ Window[k] # NoReq})

TxQ == INSTANCE TxQueue WITH fifo <- RingFifo, sent <- RingSent

(* Frames leave in the order they were accepted and are completed in that order,
   only after the hardware consumed them: every step of the detailed model is a
   step of TxQueue or leaves the queue alone. *)
ImplementsTxQueue == TxQ!Spec
=============================================================================
