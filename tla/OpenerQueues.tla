---------------------------- MODULE OpenerQueues ----------------------------
(***************************************************************************)
(* Requests that wait for something to happen: pending reads, orphan reads *)
(* and event listeners on the queues of the openers.  unit_io.c (receive   *)
(* dispatch), unit_commands.c (CMD_READ, S2_READORPHAN, S2_ONEVENT,        *)
(* CMD_FLUSH, S2_OFFLINE, ReportEvents), the read path of                  *)
(* device_beginio.c and device_abortio.c.                                  *)
(*                                                                         *)
(* The unit task and the clients meet at one recursive semaphore per       *)
(* opener; a client whose transmission fails walks all of them while it    *)
(* holds the transmit ring's semaphore; AbortIO takes none of them.        *)
(***************************************************************************)
EXTENDS Integers, Sequences, SequencesExt, FiniteSets

CONSTANTS
    OpenerList,         \* unit->openers, in list order
    Readers,            \* client tasks that send the requests below
    Writers,            \* client tasks that transmit
    Unit,               \* the unit task
    Request,            \* per request: command, opener, type, mask
    Types,              \* packet types
    FrameTypes,         \* those of the frames that arrive
    FastTypes,          \* 0x0800 and 0x0806: a queue of their own
    LengthTypes,        \* values up to 1500: an 802.3 length, all alike
    NoReq, NoTask,      \* NULL
    FilterRejects,      \* the S2_PacketFilter hook may refuse a packet
    LateAborts          \* requests AbortIO may meet in the unit task's hand

Reqs == DOMAIN Request
Openers == Range(OpenerList)

ASSUME OpenerAssumption == OpenerList \in Seq(Openers)
ASSUME RequestAssumption ==
    /\ NoReq \notin Reqs
    /\ \A r \in Reqs : /\ Request[r].command \in {"read", "orphan", "event"}
                       /\ Request[r].opener \in Openers
                       /\ Request[r].type \in Types
                       /\ Request[r].mask \subseteq {"ONLINE", "OFFLINE", "ERROR"}
ASSUME TypeAssumption ==
    /\ FastTypes \cup LengthTypes \cup FrameTypes \subseteq Types /\ NoReq \notin Types
    /\ FastTypes \cap (LengthTypes \cup {"readQueue", "orphanQueue", "eventQueue"}) = {}
Clients == Readers \cup Writers
ASSUME TaskAssumption == Unit \notin Clients /\ NoTask \notin Clients \cup {Unit}
ASSUME SwitchAssumption == FilterRejects \in BOOLEAN /\ LateAborts \subseteq Reqs

VARIABLES
    unitState, port,
    queue,              \* per opener: its queues
    lock,               \* openerSemaphore: owner and nesting count
    txOwner,            \* who holds tx_ring_sem
    pc, req,
    walk, events,       \* per task: openers ReportEvents or Do_CMD_FLUSH has yet to
                        \* visit, and the event set reported
    frame, todo, orphan,\* ReceiveFrame: the packet type, the openers left, the flag;
                        \* no frame is NoReq, <<>>, FALSE
    viaPort,            \* the request was sent with PutMsg and has not been replied:
                        \* its type is NT_MESSAGE
    due,                \* BeginIO calls minus completions
    late,               \* history: requests queued since the frame arrived
    astray,             \* history: requests AbortIO replied in the unit task's hand
    lost,               \* history: requests that are on no list and not replied: a
                        \* packet filter refused them, or a late Remove cut them off
    near,               \* what the links of the request in the unit's hand still name
    wild,               \* a Remove has written through links that lead off its list
    ringReady           \* tx_ring_sem has been initialised

frameVars == <<frame, todo, orphan>>
walkVars == <<walk, events>>
reqVars == <<port, queue, viaPort, astray, lost, due, late>>
vars == <<unitState, lock, txOwner, pc, req, frameVars, walkVars, reqVars, near, wild, ringReady>>

Tasks == Clients \cup {Unit}
QueueNames == FastTypes \cup {"readQueue", "orphanQueue", "eventQueue"}

GetPacketTypeQueue(type) == IF type \in FastTypes THEN type ELSE "readQueue"
OpenerOf(r) == Request[r].opener
MatchesTypeOnly(r, type) == Request[r].type = type                \* mutant
Matches(r, type) == \/ Request[r].type = type
                    \/ {Request[r].type, type} \subseteq LengthTypes

Goto(t, step) == pc' = [pc EXCEPT ![t] = step]
Home(t) == IF t = Unit THEN "wait" ELSE "idle"
Take(t, r) == req' = [req EXCEPT ![t] = r]

(* The opener's semaphore; a client reaches ProcessCommand holding it once. *)
Free == [owner |-> NoTask, nest |-> 0]
CanLock(t, o) == lock[o].owner \in {NoTask, t}
Lock(t, o) == lock' = [lock EXCEPT ![o] = [owner |-> t, nest |-> @.nest + 1]]
UnlockNot(o) == lock' = lock /\ o \in Openers                     \* mutant
Unlock(o) == lock' = [lock EXCEPT ![o] = IF @.nest = 1 THEN Free ELSE [@ EXCEPT !.nest = @ - 1]]

(* Replying requests, taking them from a list and putting them on one. *)
Complete(rs) == /\ due' = [r \in Reqs |-> IF r \in rs THEN due[r] - 1 ELSE due[r]]
                /\ viaPort' = [r \in Reqs |-> viaPort[r] /\ r \notin rs]
Pending == UNCHANGED <<due, viaPort>>
Enqueue(r, name) == /\ queue' = [queue EXCEPT ![OpenerOf(r)][name] = Append(@, r)]
                    /\ late' = IF frame = NoReq THEN {} ELSE late \cup {r}
DequeueKeeps(o, name, i) == queue' = queue                        \* mutant
Dequeue(o, name, i) == queue' = [queue EXCEPT ![o][name] = RemoveAt(@, i)]

Alone == [before |-> NoReq, after |-> NoReq]
Neighbours(s, i) == [before |-> IF i = 1 THEN NoReq ELSE s[i - 1],
                     after  |-> IF i = Len(s) THEN NoReq ELSE s[i + 1]]

Init ==
    /\ unitState = "OFFLINE" /\ port = <<>>
    /\ queue = [o \in Openers |-> [name \in QueueNames |-> <<>>]]
    /\ lock = [o \in Openers |-> Free] /\ txOwner = NoTask
    /\ pc = [t \in Tasks |-> Home(t)] /\ req = [t \in Tasks |-> NoReq]
    /\ walk = [t \in Tasks |-> <<>>] /\ events = [t \in Tasks |-> {}]
    /\ frame = NoReq /\ todo = <<>> /\ orphan = FALSE
    /\ viaPort = [r \in Reqs |-> FALSE] /\ due = [r \in Reqs |-> 0]
    /\ late = {} /\ astray = {} /\ lost = {}
    /\ near = Alone /\ wild = FALSE /\ ringReady = FALSE

(***************************************************************************)
(* Clients.                                                                *)
(***************************************************************************)
Queues(r) == queue[OpenerOf(r)]
InHand(r) == \E t \in Tasks : req[t] = r
IndicesOf(s, r) == {i \in DOMAIN s : s[i] = r}
PortPlaces(r) == {<<"port", i>> : i \in IndicesOf(port, r)}
QueuePlaces(r, name) == {<<name, i>> : i \in IndicesOf(Queues(r)[name], r)}
HandPlaces(r) == {<<"hand", t>> : t \in {t \in Tasks : req[t] = r}}
PlacesOf(r) ==
    PortPlaces(r) \cup HandPlaces(r) \cup UNION {QueuePlaces(r, name) : name \in QueueNames}

Sendable(r) == due[r] = 0 /\ PlacesOf(r) = {}

BeginIOQuick(c, r) ==
    /\ pc[c] = "idle" /\ Sendable(r) /\ Request[r].command = "read"
    /\ CanLock(c, OpenerOf(r)) /\ Lock(c, OpenerOf(r))
    /\ Take(c, r) /\ Goto(c, "read")
    /\ due' = [due EXCEPT ![r] = 1] /\ viaPort' = [viaPort EXCEPT ![r] = FALSE]
    /\ UNCHANGED <<unitState, txOwner, port, queue, late, astray, lost, frameVars, walkVars>>

BeginIOQueue(c, r) ==
    /\ pc[c] = "idle" /\ Sendable(r)
    /\ Request[r].command = "read" => ~CanLock(c, OpenerOf(r))
    /\ port' = Append(port, r)
    /\ due' = [due EXCEPT ![r] = 1] /\ viaPort' = [viaPort EXCEPT ![r] = TRUE]
    /\ UNCHANGED <<unitState, lock, txOwner, pc, req, queue, late, astray, lost, frameVars, walkVars>>

(* Do_CMD_READ, in a client or in the unit task: the state is looked at before
   the request is queued. *)
LeaveRead(t, r) ==
    /\ Take(t, NoReq) /\ Goto(t, Home(t))
    /\ IF t = Unit THEN UNCHANGED lock ELSE Unlock(OpenerOf(r))
    /\ UNCHANGED <<unitState, txOwner, port, astray, lost, frameVars, walkVars>>

ReadOffline(t) ==
    /\ pc[t] = "read" /\ unitState # "ONLINE"
    /\ Complete({req[t]})
    /\ LeaveRead(t, req[t])
    /\ UNCHANGED <<queue, late>>

ReadAccepted(t) ==
    /\ pc[t] = "read" /\ unitState = "ONLINE"
    /\ Goto(t, "append")
    /\ UNCHANGED <<unitState, lock, txOwner, req, reqVars, frameVars, walkVars>>

ReadAppend(t) ==
    /\ pc[t] = "append" /\ CanLock(t, OpenerOf(req[t]))
    /\ Enqueue(req[t], GetPacketTypeQueue(Request[req[t]].type))
    /\ LeaveRead(t, req[t])
    /\ Pending

(***************************************************************************)
(* AbortIO, under Forbid: a request that came through the port is taken    *)
(* off the list it is on and replied.  A request in the unit's hand, or on *)
(* no list at all, still looks the same: it is replied as well, and the    *)
(* unit goes on with it.                                                   *)
(*                                                                         *)
(* Taking a node off a list leaves its own links as they were, and a       *)
(* second Remove makes the two nodes they name neighbours: what the list   *)
(* now holds between them is lost.  When one of them has left the list,    *)
(* Remove writes into nodes of other lists, and the model goes no further. *)
(* What the links of a request that is lost name is not followed: AbortIO  *)
(* of one does no harm or does that.                                       *)
(***************************************************************************)
Without(s, r) == IF \E i \in DOMAIN s : s[i] = r
                 THEN RemoveAt(s, CHOOSE i \in DOMAIN s : s[i] = r) ELSE s

(* The list GetMsg, ReceiveFrame or the offer to orphan readers took r from. *)
HandQueue(isOrphan) == IF isOrphan THEN "orphanQueue" ELSE GetPacketTypeQueue(frame)
FromQueue(step) == step \in {"copy", "report"}
HandList(r, step, isOrphan) ==
    IF FromQueue(step) THEN Queues(r)[HandQueue(isOrphan)] ELSE port

FollowHand ==
    LET r == req'[Unit]
        s == HandList(r, pc'[Unit], orphan')
    IN  near' = IF r \notin LateAborts \ astray THEN Alone
                ELSE IF req[Unit] # NoReq THEN near
                ELSE Neighbours(s, CHOOSE i \in IndicesOf(s, r) : TRUE)

Before(s) == IF near.before = NoReq THEN {0} ELSE IndicesOf(s, near.before)
After(s) == IF near.after = NoReq THEN {Len(s) + 1} ELSE IndicesOf(s, near.after)
Joints(s) == {e \in Before(s) \X After(s) : e[1] < e[2]}
Joined(s, e) == SubSeq(s, 1, e[1]) \o SubSeq(s, e[2], Len(s))
CutOff(s, e) == {s[i] : i \in e[1] + 1 .. e[2] - 1}

AbortListed(r) ==
    /\ ~InHand(r) /\ r \notin lost
    /\ port' = Without(port, r)
    /\ queue' = [queue EXCEPT ![OpenerOf(r)] = [name \in QueueNames |-> Without(@[name], r)]]
    /\ UNCHANGED <<astray, lost, wild>>

AbortInHand(r) ==
    /\ r \in LateAborts /\ req[Unit] = r
    /\ astray' = astray \cup {r}
    /\ LET step == pc[Unit]
           s == HandList(r, step, orphan)
       IN  \/ Joints(s) = {} /\ wild' = TRUE /\ UNCHANGED <<port, queue, lost>>
           \/ \E e \in Joints(s) :
                 /\ lost' = lost \cup (CutOff(s, e) \ astray)
                 /\ IF FromQueue(step)
                    THEN /\ queue' = [queue EXCEPT ![OpenerOf(r)][HandQueue(orphan)] = Joined(s, e)]
                         /\ UNCHANGED port
                    ELSE port' = Joined(s, e) /\ UNCHANGED queue
                 /\ UNCHANGED wild

AbortLost(r) ==
    /\ r \in lost
    /\ lost' = lost \ {r}
    /\ wild' \in BOOLEAN
    /\ UNCHANGED <<port, queue, astray>>

AbortIO(r) ==
    /\ due[r] = 1 /\ viaPort[r]
    /\ AbortListed(r) \/ AbortInHand(r) \/ AbortLost(r)
    /\ Complete({r})
    /\ UNCHANGED <<unitState, lock, txOwner, pc, req, late, frameVars, walkVars,
                   near, ringReady>>

StartReport(t, set) ==
    /\ walk' = [walk EXCEPT ![t] = OpenerList] /\ events' = [events EXCEPT ![t] = set]
    /\ Goto(t, "report")

(* A quick CMD_WRITE of an online unit that fails: BeginIO holds tx_ring_sem,
   bcmgenet_xmit reports the error before it lets go. *)
WriteFails(c) ==
    /\ pc[c] = "idle" /\ txOwner = NoTask /\ unitState = "ONLINE"
    /\ txOwner' = c
    /\ StartReport(c, {"ERROR"})
    /\ UNCHANGED <<unitState, lock, req, reqVars, frameVars>>

(***************************************************************************)
(* ReportEvents: one listener per opener.                                  *)
(***************************************************************************)
ReportOpener(t) ==
    /\ pc[t] = "report" /\ walk[t] # <<>>
    /\ LET o == Head(walk[t])
           listeners == {i \in DOMAIN queue[o]["eventQueue"] :
                            Request[queue[o]["eventQueue"][i]].mask \cap events[t] # {}}
       IN  /\ CanLock(t, o)
           /\ \/ listeners = {} /\ UNCHANGED queue /\ Pending
              \/ \E i \in listeners :
                     /\ \A j \in listeners : i <= j
                     /\ Dequeue(o, "eventQueue", i) /\ Complete({queue[o]["eventQueue"][i]})
    /\ walk' = [walk EXCEPT ![t] = Tail(@)]
    /\ UNCHANGED <<unitState, lock, txOwner, pc, req, port, astray, lost, late, events, frameVars>>

WriteFailed(c) ==
    /\ pc[c] = "report" /\ walk[c] = <<>>
    /\ txOwner' = NoTask
    /\ events' = [events EXCEPT ![c] = {}]
    /\ Goto(c, "idle")
    /\ UNCHANGED <<unitState, lock, req, reqVars, walk, frameVars>>

(***************************************************************************)
(* The unit task: commands.                                                *)
(***************************************************************************)
GetMsg ==
    /\ pc[Unit] = "wait" /\ port # <<>>
    /\ Take(Unit, Head(port)) /\ port' = Tail(port)
    /\ Goto(Unit, Request[Head(port)].command)
    /\ UNCHANGED <<unitState, lock, txOwner, queue, viaPort, astray, lost, due, late, frameVars, walkVars>>

Answer == /\ Take(Unit, NoReq) /\ Goto(Unit, "wait")
          /\ UNCHANGED <<unitState, lock, txOwner, port, astray, lost, frameVars, walkVars>>

ReadOrphan ==
    /\ pc[Unit] = "orphan"
    /\ \/ unitState # "ONLINE" /\ Complete({req[Unit]}) /\ UNCHANGED <<queue, late>>
       \/ unitState = "ONLINE" /\ Enqueue(req[Unit], "orphanQueue") /\ Pending
    /\ Answer

OnEvent ==
    /\ pc[Unit] = "event"
    /\ \/ unitState \in Request[req[Unit]].mask /\ Complete({req[Unit]}) /\ UNCHANGED <<queue, late>>
       \/ /\ unitState \notin Request[req[Unit]].mask
          /\ CanLock(Unit, OpenerOf(req[Unit]))
          /\ Enqueue(req[Unit], "eventQueue") /\ Pending
    /\ Answer

(* CMD_FLUSH, and S2_OFFLINE, which begins with it. *)
Flush(step) ==
    /\ pc[Unit] = "wait"
    /\ Complete(Range(port)) /\ port' = <<>>
    /\ walk' = [walk EXCEPT ![Unit] = OpenerList]
    /\ Goto(Unit, step)
    /\ UNCHANGED <<unitState, lock, txOwner, req, queue, astray, lost, late, events, frameVars>>

CmdFlush == Flush("flush")
CmdOffline == Flush("flushOffline")

FlushOpener ==
    /\ pc[Unit] \in {"flush", "flushOffline"} /\ walk[Unit] # <<>>
    /\ LET o == Head(walk[Unit]) IN
       /\ CanLock(Unit, o)
       /\ Complete(UNION {Range(queue[o][name]) : name \in QueueNames})
       /\ queue' = [queue EXCEPT ![o] = [name \in QueueNames |-> <<>>]]
    /\ walk' = [walk EXCEPT ![Unit] = Tail(@)]
    /\ UNCHANGED <<unitState, lock, txOwner, pc, req, port, astray, lost, late, events, frameVars>>

FlushDone ==
    /\ pc[Unit] \in {"flush", "flushOffline"} /\ walk[Unit] = <<>>
    /\ Goto(Unit, IF pc[Unit] = "flushOffline" /\ unitState = "ONLINE" THEN "offline" ELSE "wait")
    /\ UNCHANGED <<unitState, lock, txOwner, req, reqVars, frameVars, walkVars>>

UnitOffline ==
    /\ pc[Unit] = "offline"
    /\ unitState' = "OFFLINE"
    /\ Goto(Unit, "stop")
    /\ UNCHANGED <<lock, txOwner, req, reqVars, frameVars, walkVars>>

(* bcmgenet_gmac_eth_stop, after S2_OFFLINE and after a start that failed, reclaims
   the ring under tx_ring_sem.  ObtainSemaphore never returns when the semaphore
   was never initialised. *)
Stopping == {"stop", "failed"}
Hung == pc[Unit] \in Stopping /\ ~ringReady

EthStop ==
    /\ pc[Unit] \in Stopping /\ ringReady /\ txOwner = NoTask
    /\ StartReport(Unit, IF pc[Unit] = "stop" THEN {"OFFLINE"} ELSE {"ERROR"})
    /\ UNCHANGED <<unitState, lock, txOwner, req, reqVars, frameVars>>

CmdOnlineSilent ==                                                \* mutant
    /\ pc[Unit] = "wait" /\ unitState # "ONLINE"
    /\ unitState' = "ONLINE" /\ ringReady' = TRUE
    /\ UNCHANGED <<lock, txOwner, pc, req, reqVars, frameVars, walkVars>>

(* A start that fails may do so before or after bcmgenet_init_tx_ring. *)
CmdOnline ==
    /\ pc[Unit] = "wait" /\ unitState # "ONLINE"
    /\ \/ /\ unitState' = "ONLINE" /\ ringReady' = TRUE
          /\ StartReport(Unit, {"ONLINE"})
       \/ /\ Goto(Unit, "failed") /\ ringReady' \in {ringReady, TRUE}
          /\ UNCHANGED <<unitState, walkVars>>
    /\ UNCHANGED <<lock, txOwner, req, reqVars, frameVars>>

(***************************************************************************)
(* The unit task: ReceiveFrame and CopyPacket.  In the fallback path the   *)
(* opener's semaphore is held until CopyPacket returns.                    *)
(***************************************************************************)
ReceiveFrame(type) ==
    /\ pc[Unit] = "wait" /\ unitState = "ONLINE"
    /\ frame' = type /\ todo' = OpenerList /\ orphan' = TRUE
    /\ Goto(Unit, "deliver")
    /\ UNCHANGED <<unitState, lock, txOwner, req, reqVars, walkVars>>

Deliver ==
    /\ pc[Unit] = "deliver" /\ todo # <<>>
    /\ LET o == Head(todo)
           name == GetPacketTypeQueue(frame)
           matching == {i \in DOMAIN queue[o][name] : Matches(queue[o][name][i], frame)}
       IN  /\ CanLock(Unit, o)
           /\ \/ matching = {} /\ UNCHANGED <<pc, req, queue, lock, orphan>>
              \/ \E i \in matching :
                 /\ \A j \in matching : i <= j
                 /\ Take(Unit, queue[o][name][i]) /\ Dequeue(o, name, i)
                 /\ IF frame \in FastTypes THEN UNCHANGED lock ELSE Lock(Unit, o)
                 /\ orphan' = FALSE
                 /\ Goto(Unit, "copy")
    /\ todo' = Tail(todo)
    /\ UNCHANGED <<unitState, txOwner, port, viaPort, astray, lost, due, late, frame, walkVars>>

FrameDone ==
    /\ Goto(Unit, "wait")
    /\ frame' = NoReq /\ orphan' = FALSE /\ late' = {}
    /\ UNCHANGED <<unitState, lock, txOwner, req, port, queue, viaPort, astray, lost, due, todo, walkVars>>

Delivered == pc[Unit] = "deliver" /\ todo = <<>> /\ ~orphan /\ FrameDone

NobodyTookIt ==
    /\ pc[Unit] = "deliver" /\ todo = <<>> /\ orphan
    /\ Goto(Unit, "offer") /\ todo' = OpenerList
    /\ UNCHANGED <<unitState, lock, txOwner, req, reqVars, frame, orphan, walkVars>>

(* Orphan reads are taken without the semaphore. *)
Offer ==
    /\ pc[Unit] = "offer" /\ todo # <<>>
    /\ LET o == Head(todo) IN
       \/ queue[o]["orphanQueue"] = <<>> /\ UNCHANGED <<pc, req, queue>>
       \/ /\ queue[o]["orphanQueue"] # <<>>
          /\ Take(Unit, Head(queue[o]["orphanQueue"])) /\ Dequeue(o, "orphanQueue", 1)
          /\ Goto(Unit, "copy")
    /\ todo' = Tail(todo)
    /\ UNCHANGED <<unitState, lock, txOwner, port, viaPort, astray, lost, due, late, frame, orphan, walkVars>>

Offered == pc[Unit] = "offer" /\ todo = <<>> /\ FrameDone

HoldingOrphan == frame \notin FastTypes                             \* mutant
Holding == frame \notin FastTypes /\ ~orphan

CopyReturns ==
    /\ IF Holding THEN Unlock(OpenerOf(req[Unit])) ELSE UNCHANGED lock
    /\ Take(Unit, NoReq)
    /\ Goto(Unit, IF orphan THEN "offer" ELSE "deliver")
    /\ UNCHANGED <<unitState, txOwner, port, queue, late, frameVars, walk>>

CopyPacket ==
    /\ pc[Unit] = "copy"
    /\ Complete({req[Unit]})
    /\ CopyReturns /\ UNCHANGED <<astray, lost, events>>

(* The hook refuses the packet: the read is off its queue and is not replied. *)
CopyFiltered ==
    /\ pc[Unit] = "copy" /\ FilterRejects /\ Request[req[Unit]].command = "read"
    /\ lost' = lost \cup ({req[Unit]} \ astray)
    /\ CopyReturns /\ Pending /\ UNCHANGED <<astray, events>>

CopyFails ==
    /\ pc[Unit] = "copy"
    /\ StartReport(Unit, {"ERROR"})
    /\ UNCHANGED <<unitState, lock, txOwner, req, reqVars, frameVars>>

CopyReported ==
    /\ pc[Unit] = "report" /\ walk[Unit] = <<>> /\ req[Unit] # NoReq
    /\ Complete({req[Unit]})
    /\ events' = [events EXCEPT ![Unit] = {}]
    /\ CopyReturns /\ UNCHANGED <<astray, lost>>

StateReported ==
    /\ pc[Unit] = "report" /\ walk[Unit] = <<>> /\ req[Unit] = NoReq
    /\ events' = [events EXCEPT ![Unit] = {}]
    /\ Goto(Unit, "wait")
    /\ UNCHANGED <<unitState, lock, txOwner, req, reqVars, walk, frameVars>>

ReadStep(t) == ReadOffline(t) \/ ReadAccepted(t) \/ ReadAppend(t)
ClientStep(c) == ReadStep(c) \/ ReportOpener(c) \/ WriteFailed(c)
CommandStep == ReadStep(Unit) \/ ReadOrphan \/ OnEvent
FlushStep == FlushOpener \/ FlushDone \/ UnitOffline \/ EthStop
ReceiveStep == Deliver \/ Delivered \/ NobodyTookIt \/ Offer \/ Offered
               \/ CopyPacket \/ CopyFiltered \/ CopyFails
ReportStep == ReportOpener(Unit) \/ CopyReported \/ StateReported
UnitWork == CommandStep \/ FlushStep \/ ReceiveStep \/ ReportStep

Handling ==
    \/ \E c \in Clients : ClientStep(c)
    \/ \E c \in Readers, r \in Reqs : BeginIOQuick(c, r) \/ BeginIOQueue(c, r)
    \/ \E c \in Writers : WriteFails(c)
    \/ GetMsg \/ CmdFlush \/ CmdOffline
    \/ \E type \in FrameTypes : ReceiveFrame(type)
    \/ UnitWork

Serving(step) == ~wild /\ step /\ FollowHand /\ UNCHANGED <<wild, ringReady>>

Next ==
    \/ Serving(Handling)
    \/ ~wild /\ CmdOnline /\ FollowHand /\ UNCHANGED wild
    \/ ~wild /\ \E r \in Reqs : AbortIO(r)
    \/ wild /\ UNCHANGED vars

Spec == Init /\ [][Next]_vars

(***************************************************************************)
(* Properties.                                                             *)
(***************************************************************************)
(* Type invariant. *)
TypeOK ==
    /\ unitState \in {"ONLINE", "OFFLINE"} /\ port \in Seq(Reqs)
    /\ queue \in [Openers -> [QueueNames -> Seq(Reqs)]]
    /\ lock \in [Openers -> [owner : Tasks \cup {NoTask}, nest : Nat]]
    /\ txOwner \in Clients \cup {NoTask}
    /\ pc \in [Tasks -> {"idle", "wait", "read", "append", "orphan", "event", "report", "flush",
                         "flushOffline", "offline", "stop", "failed", "deliver", "offer", "copy"}]
    /\ req \in [Tasks -> Reqs \cup {NoReq}]
    /\ walk \in [Tasks -> Seq(Openers)] /\ todo \in Seq(Openers)
    /\ events \in [Tasks -> SUBSET {"ONLINE", "OFFLINE", "ERROR"}]
    /\ frame \in Types \cup {NoReq} /\ orphan \in BOOLEAN
    /\ viaPort \in [Reqs -> BOOLEAN] /\ due \in [Reqs -> Int]
    /\ late \subseteq Reqs /\ astray \subseteq Reqs /\ lost \subseteq Reqs
    /\ near \in [before : Reqs \cup {NoReq}, after : Reqs \cup {NoReq}]
    /\ wild \in BOOLEAN /\ ringReady \in BOOLEAN

(* Every request is in exactly one place from BeginIO to its completion, so it
   is completed exactly once whoever gets to it first: a frame, an event, a
   flush, S2_OFFLINE or AbortIO.  Two things break this.  The packet filter drops
   a read it refuses.  And AbortIO of a request in the unit task's hand has it
   replied twice, and may cut others off the list it came from.  A request that
   is lost either way is on no list and is never answered. *)
OnePlace ==
    \A r \in Reqs \ astray :
        /\ due[r] \in {0, 1}
        /\ Cardinality(PlacesOf(r)) = IF r \in lost THEN 0 ELSE due[r]
        /\ r \in lost => due[r] = 1

(* The openers' semaphores are held exactly where the code holds them: by a
   client from AttemptSemaphore to the end of BeginIO, and by the unit task, in
   the fallback path, while CopyPacket runs, event reports included. *)
Holds(t, o) ==
    /\ req[t] # NoReq /\ OpenerOf(req[t]) = o
    /\ \/ t # Unit /\ pc[t] \in {"read", "append"}
       \/ t = Unit /\ pc[t] \in {"copy", "report"} /\ Holding
LockDiscipline ==
    \A o \in Openers :
        lock[o] = IF \E t \in Tasks : Holds(t, o)
                  THEN [owner |-> CHOOSE t \in Tasks : Holds(t, o), nest |-> 1]
                  ELSE Free

(* A frame is offered to the orphan readers only if no opener had a read for it
   when it arrived: no read that was waiting is passed over, whichever queue it
   is on and whether its type is an Ethernet type or an 802.3 length. *)
Wants(r, type) == Request[r].type = type \/ (Request[r].type \in LengthTypes /\ type \in LengthTypes)
NoReaderPassedOver ==
    pc[Unit] = "offer" =>
        \A o \in Openers, name \in QueueNames \ {"orphanQueue", "eventQueue"} :
            \A i \in DOMAIN queue[o][name] :
                queue[o][name][i] \notin late => ~Wants(queue[o][name][i], frame)

(* A listener hears of the change of state it waits for: when the unit task is
   back at its port nobody still waits for the state the unit is in.  For one
   listener per opener, ReportEvents leaves a queue after the first it answers:
   see the README. *)
EventsReported ==
    pc[Unit] = "wait" =>
        \A o \in Openers : \A i \in DOMAIN queue[o]["eventQueue"] :
            unitState \notin Request[queue[o]["eventQueue"][i]].mask

(***************************************************************************)
(* Fairness: a task that can run does, and a semaphore that becomes free   *)
(* again and again is given to the task that waits for it (exec queues     *)
(* waiters in order); a task waits at one place at a time.                 *)
(***************************************************************************)
Fairness == SF_vars(Serving(UnitWork)) /\ \A c \in Clients : SF_vars(Serving(ClientStep(c)))

FairSpec == Spec /\ Fairness

(* The unit task always comes back to its port and BeginIO returns to every
   client: neither the openers' semaphores, held across client callbacks and event
   reports, nor the transmit semaphore, under which clients report errors, can
   lock a task out or in.  The unit task hangs only in the clean-up of a start that
   failed before the transmit semaphore was ever initialised; and nothing is said
   of tasks that walk lists a late AbortIO has damaged. *)
TasksReturn ==
    \A t \in Tasks : []<>(pc[t] = Home(t) \/ (t = Unit /\ Hung) \/ wild)
=============================================================================
