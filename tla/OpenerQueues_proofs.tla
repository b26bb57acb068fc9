------------------------ MODULE OpenerQueues_proofs ------------------------
(***************************************************************************)
(* No request is lost or answered twice and the openers' semaphores are    *)
(* held where the code holds them, for any openers, clients, requests and  *)
(* packet types.                                                           *)
(***************************************************************************)
EXTENDS OpenerQueues, SharedTheorems, FiniteSetTheorems, SequenceTheorems, TLAPS

(***************************************************************************)
(* The types, in three parts: where the tasks are, what they work on, and  *)
(* the state of the requests.                                              *)
(***************************************************************************)
ClientSteps == {"idle", "read", "append", "report"}
CommandSteps == {"read", "append", "orphan", "event", "copy"}
EmptyHanded == {"wait", "flush", "flushOffline", "offline", "stop", "failed", "deliver", "offer"}
UnitSteps == CommandSteps \cup EmptyHanded \cup {"report"}

Roles ==
    /\ pc \in [Tasks -> ClientSteps \cup UnitSteps] /\ req \in [Tasks -> Reqs \cup {NoReq}]
    /\ \A c \in Clients : pc[c] \in ClientSteps /\ (req[c] # NoReq <=> pc[c] \in {"read", "append"})
    /\ pc[Unit] \in UnitSteps
    /\ pc[Unit] \in CommandSteps => req[Unit] # NoReq
    /\ pc[Unit] \in EmptyHanded => req[Unit] = NoReq

Work ==
    /\ unitState \in {"ONLINE", "OFFLINE"} /\ txOwner \in Clients \cup {NoTask}
    /\ walk \in [Tasks -> Seq(Openers)] /\ todo \in Seq(Openers)
    /\ events \in [Tasks -> SUBSET {"ONLINE", "OFFLINE", "ERROR"}]
    /\ frame \in Types \cup {NoReq} /\ orphan \in BOOLEAN

Ledger ==
    /\ viaPort \in [Reqs -> BOOLEAN] /\ due \in [Reqs -> Int]
    /\ late \subseteq Reqs /\ astray \subseteq Reqs /\ lost \subseteq Reqs

(***************************************************************************)
(* The lists hold each request at most once, and an opener's queues only   *)
(* its own requests.                                                       *)
(***************************************************************************)
NoDuplicate(s) == \A i, j \in DOMAIN s : s[i] = s[j] => i = j
Has(s, r) == \E i \in DOMAIN s : s[i] = r

Lists ==
    /\ port \in Seq(Reqs) /\ NoDuplicate(port)
    /\ queue \in [Openers -> [QueueNames -> Seq(Reqs)]]
    /\ \A o \in Openers, name \in QueueNames :
           /\ NoDuplicate(queue[o][name])
           /\ \A r \in Reqs : Has(queue[o][name], r) => OpenerOf(r) = o

(* The steps that do something: nothing follows damage to the lists. *)
Step == Handling \/ CmdOnline \/ \E r \in Reqs : AbortIO(r)

LEMMA Steps == Next => Step \/ UNCHANGED vars
  BY DEF Next, Serving, Step

LEMMA Constants ==
  /\ \A r \in Reqs : /\ r # NoReq /\ OpenerOf(r) \in Openers
                     /\ Request[r].command \in {"read", "orphan", "event"}
                     /\ Request[r].type \in Types
                     /\ GetPacketTypeQueue(Request[r].type) \in QueueNames
  /\ NoReq \notin Reqs /\ Unit \notin Clients /\ NoTask \notin Tasks
  /\ OpenerList \in Seq(Openers) /\ FrameTypes \subseteq Types /\ LateAborts \subseteq Reqs
  /\ Tasks = Clients \cup {Unit}
  BY RequestAssumption, TaskAssumption, OpenerAssumption, TypeAssumption, SwitchAssumption
  DEF OpenerOf, GetPacketTypeQueue, QueueNames, Tasks

LEMMA InList ==
  ASSUME Lists, NEW o \in Openers, NEW name \in QueueNames, NEW i \in DOMAIN queue[o][name]
  PROVE  queue[o][name][i] \in Reqs /\ OpenerOf(queue[o][name][i]) = o
<1>1. queue[o][name] \in Seq(Reqs)
  BY DEF Lists
<1>2. queue[o][name][i] \in Reqs
  BY <1>1, ElementOfSeq
<1> QED BY <1>2 DEF Lists, Has

LEMMA HeadInPort ==
  ASSUME Lists, port # <<>>
  PROVE  Head(port) \in Reqs /\ Has(port, Head(port))
  BY TailNode DEF Lists, NoDuplicate, Has

LEMMA HeadInQueue ==
  ASSUME Lists, NEW o \in Openers, NEW name \in QueueNames, queue[o][name] # <<>>
  PROVE  /\ Head(queue[o][name]) \in Reqs /\ Head(queue[o][name]) = queue[o][name][1]
         /\ 1 \in DOMAIN queue[o][name]
<1>1. queue[o][name] \in Seq(Reqs)
  BY DEF Lists
<1>2. Head(queue[o][name]) = queue[o][name][1] /\ 1 \in DOMAIN queue[o][name]
  BY <1>1
<1> QED BY <1>2, InList

LEMMA WorkList ==
  ASSUME Work
  PROVE  /\ todo # <<>> => Head(todo) \in Openers /\ Tail(todo) \in Seq(Openers)
         /\ \A t \in Tasks : walk[t] # <<>> => Head(walk[t]) \in Openers
                                              /\ Tail(walk[t]) \in Seq(Openers)
  BY HeadTailProperties DEF Work

(***************************************************************************)
(* What a second Remove makes of a list.                                   *)
(***************************************************************************)
LEMMA JointBounds ==
  ASSUME NEW s \in Seq(Reqs), NEW e \in Joints(s)
  PROVE  e[1] \in 0 .. Len(s) /\ e[2] \in 1 .. Len(s) + 1 /\ e[1] < e[2]
<1>1. e \in Before(s) \X After(s) /\ e[1] < e[2]
  BY DEF Joints
<1>2. Before(s) \subseteq 0 .. Len(s) /\ After(s) \subseteq 1 .. Len(s) + 1
  BY DEF Before, After, IndicesOf
<1> QED BY <1>1, <1>2

LEMMA CutOffListed ==
  ASSUME NEW s \in Seq(Reqs), NEW e \in Joints(s)
  PROVE  CutOff(s, e) \subseteq Reqs /\ \A r \in CutOff(s, e) : Has(s, r)
<1>1. \A i \in e[1] + 1 .. e[2] - 1 : i \in DOMAIN s /\ s[i] \in Reqs
  BY JointBounds
<1> QED BY <1>1 DEF CutOff, Has

LEMMA JoinEffect ==
  ASSUME NEW s \in Seq(Reqs), NoDuplicate(s), NEW e \in Joints(s)
  PROVE  /\ Joined(s, e) \in Seq(Reqs) /\ NoDuplicate(Joined(s, e))
         /\ \A r : Has(Joined(s, e), r) <=> Has(s, r) /\ r \notin CutOff(s, e)
<1>0. PICK a \in 0 .. Len(s), b \in 1 .. Len(s) + 1 : a = e[1] /\ b = e[2] /\ a < b
  BY JointBounds
<1> DEFINE left == SubSeq(s, 1, a)
           right == SubSeq(s, b, Len(s))
           j == Joined(s, e)
<1>1. /\ Len(s) \in Nat /\ DOMAIN s = 1 .. Len(s) /\ a \in Nat /\ b \in Nat
      /\ a <= Len(s) /\ b <= Len(s) + 1 /\ a < b
  BY <1>0
<1>2. PICK gap \in Nat : gap = b - a - 1
  BY <1>1
<1>3. left \in Seq(Reqs) /\ Len(left) = a /\ \A i \in 1 .. a : left[i] = s[i]
  BY <1>1
<1>4. /\ right \in Seq(Reqs) /\ Len(right) = Len(s) - a - gap
      /\ \A i \in 1 .. Len(s) - a - gap : right[i] = s[i + b - 1]
  BY <1>1, <1>2
<1>5. /\ j \in Seq(Reqs) /\ Len(j) = Len(left) + Len(right)
      /\ \A i \in 1 .. Len(left) + Len(right) :
             j[i] = IF i <= Len(left) THEN left[i] ELSE right[i - Len(left)]
  <2>1. j = left \o right
    BY <1>0 DEF Joined
  <2> HIDE DEF left, right, j
  <2> QED BY <1>3, <1>4, <2>1, ConcatProperties
<1> HIDE DEF left, right, j
<1>6. j \in Seq(Reqs) /\ DOMAIN j = 1 .. Len(s) - gap /\ Len(left) + Len(right) = Len(s) - gap
  <2>1. Len(left) + Len(right) = Len(s) - gap
    BY <1>1, <1>2, <1>3, <1>4
  <2>2. DOMAIN j = 1 .. Len(j)
    BY <1>5
  <2> QED BY <1>5, <2>1, <2>2
<1>7. ASSUME NEW i \in 1 .. Len(s) - gap, i <= a PROVE j[i] = s[i] /\ i \in DOMAIN s
  <2>1. i \in 1 .. a /\ i \in 1 .. Len(left) + Len(right) /\ i <= Len(left)
    BY <1>1, <1>2, <1>3, <1>6, <1>7
  <2>2. j[i] = left[i]
    BY <1>5, <2>1
  <2>3. left[i] = s[i]
    BY <1>3, <2>1
  <2>4. i \in DOMAIN s
    BY <1>1, <2>1
  <2> QED BY <2>2, <2>3, <2>4
<1>8. ASSUME NEW i \in 1 .. Len(s) - gap, i > a PROVE j[i] = s[i + gap] /\ i + gap \in DOMAIN s
  <2>1. i \in 1 .. Len(left) + Len(right) /\ ~(i <= Len(left)) /\ Len(left) = a
    BY <1>1, <1>2, <1>3, <1>6, <1>8
  <2>4. j[i] = right[i - a]
    BY <1>5, <2>1
  <2>2. i - a \in 1 .. Len(s) - a - gap /\ (i - a) + b - 1 = i + gap /\ i + gap \in DOMAIN s
    BY <1>1, <1>2, <1>8
  <2>3. right[i - a] = s[(i - a) + b - 1]
    BY <1>4, <2>2
  <2> QED BY <2>2, <2>3, <2>4
<1>9. NoDuplicate(j)
  <2> SUFFICES ASSUME NEW i \in 1 .. Len(s) - gap, NEW k \in 1 .. Len(s) - gap, j[i] = j[k] PROVE i = k
    BY <1>6 DEF NoDuplicate
  <2>1. CASE i <= a /\ k <= a
    BY <1>7, <2>1 DEF NoDuplicate
  <2>2. CASE i <= a /\ k > a
    <3>1. i = k + gap
      BY <1>7, <1>8, <2>2 DEF NoDuplicate
    <3> QED BY <1>1, <1>2, <2>2, <3>1
  <2>3. CASE i > a /\ k <= a
    <3>1. k = i + gap
      BY <1>7, <1>8, <2>3 DEF NoDuplicate
    <3> QED BY <1>1, <1>2, <2>3, <3>1
  <2>4. CASE i > a /\ k > a
    <3>1. j[i] = s[i + gap] /\ j[k] = s[k + gap] /\ {i + gap, k + gap} \subseteq DOMAIN s
      BY <1>8, <2>4
    <3>2. i + gap = k + gap
      BY <3>1 DEF NoDuplicate
    <3> QED BY <1>1, <1>2, <3>2
  <2> QED BY <1>1, <1>2, <2>1, <2>2, <2>3, <2>4
<1>10. ASSUME NEW r, Has(j, r) PROVE Has(s, r) /\ \A i \in a + 1 .. b - 1 : s[i] # r
  <2>1. PICK i \in 1 .. Len(s) - gap : j[i] = r
    BY <1>6, <1>10 DEF Has
  <2>2. PICK m \in DOMAIN s : s[m] = r /\ (m <= a \/ m >= b)
    <3>1. CASE i <= a
      BY <1>7, <2>1, <3>1
    <3>2. CASE i > a
      <4>1. i + gap >= b
        BY <1>1, <1>2, <3>2
      <4> QED BY <1>8, <2>1, <3>2, <4>1
    <3> QED BY <1>1, <1>2, <3>1, <3>2
  <2>3. \A k \in a + 1 .. b - 1 : k \in DOMAIN s /\ k # m
    BY <1>1, <2>2
  <2> QED BY <2>2, <2>3 DEF Has, NoDuplicate
<1>11. ASSUME NEW r, Has(s, r), \A i \in a + 1 .. b - 1 : s[i] # r PROVE Has(j, r)
  <2>1. PICK m \in DOMAIN s : s[m] = r
    BY <1>11 DEF Has
  <2>2. m \notin a + 1 .. b - 1
    BY <1>11, <2>1
  <2>3. CASE m <= a
    <3>1. m \in 1 .. Len(s) - gap
      BY <1>1, <1>2, <2>3
    <3> QED BY <1>6, <1>7, <2>1, <2>3, <3>1 DEF Has
  <2>4. CASE m >= b
    <3>1. m - gap \in 1 .. Len(s) - gap /\ m - gap > a /\ (m - gap) + gap = m
      BY <1>1, <1>2, <2>4
    <3>2. j[m - gap] = s[m]
      BY <1>8, <3>1
    <3> QED BY <1>6, <2>1, <3>1, <3>2 DEF Has
  <2> QED BY <1>1, <2>2, <2>3, <2>4
<1>12. \A r : r \notin CutOff(s, e) <=> \A i \in a + 1 .. b - 1 : s[i] # r
  BY <1>0 DEF CutOff
<1>13. /\ j \in Seq(Reqs) /\ NoDuplicate(j)
       /\ \A r : Has(j, r) <=> Has(s, r) /\ r \notin CutOff(s, e)
  BY <1>6, <1>9, <1>10, <1>11, <1>12
<1> QED BY <1>13 DEF j

LEMMA InHandList ==
  ASSUME Lists, NEW r \in Reqs, NEW step, NEW isOrphan
  PROVE  /\ HandQueue(isOrphan) \in QueueNames /\ OpenerOf(r) \in Openers
         /\ HandList(r, step, isOrphan) \in Seq(Reqs) /\ NoDuplicate(HandList(r, step, isOrphan))
<1>1. HandQueue(isOrphan) \in QueueNames /\ OpenerOf(r) \in Openers
  BY Constants DEF HandQueue, GetPacketTypeQueue, QueueNames
<1> QED BY <1>1 DEF HandList, Queues, Lists

(***************************************************************************)
(* Every step keeps the types.                                             *)
(***************************************************************************)
LEMMA RolesKept == ASSUME Roles, Lists, Work, Step PROVE Roles'
<1> USE DEF Roles
<1>1. ASSUME NEW c \in Readers, NEW r \in Reqs, BeginIOQuick(c, r) \/ BeginIOQueue(c, r)
      PROVE  Roles'
  BY <1>1, Constants
  DEF BeginIOQuick, BeginIOQueue, Clients, Take, Goto, ClientSteps, UnitSteps, CommandSteps, EmptyHanded
<1>2. ASSUME NEW t \in Tasks, ReadStep(t) PROVE Roles'
  BY <1>2, Constants
  DEF ReadStep, ReadOffline, ReadAccepted, ReadAppend, LeaveRead, Home, Take, Goto,
      ClientSteps, UnitSteps, CommandSteps, EmptyHanded
<1>3. ASSUME NEW r \in Reqs, AbortIO(r) PROVE Roles'
  BY <1>3 DEF AbortIO
<1>4. ASSUME NEW c \in Clients, WriteFails(c) \/ WriteFailed(c) PROVE Roles'
  BY <1>4, Constants
  DEF WriteFails, WriteFailed, StartReport, reqVars, Goto, ClientSteps, UnitSteps, CommandSteps, EmptyHanded
<1>5. ASSUME NEW t \in Tasks, ReportOpener(t) PROVE Roles'
  BY <1>5 DEF ReportOpener
<1>6. CASE GetMsg
  BY <1>6, Constants, HeadInPort
  DEF GetMsg, Take, Goto, ClientSteps, UnitSteps, CommandSteps, EmptyHanded
<1>7. CASE ReadOrphan \/ OnEvent
  BY <1>7, Constants
  DEF ReadOrphan, OnEvent, Answer, Take, Goto, ClientSteps, UnitSteps, CommandSteps, EmptyHanded
<1>8. CASE CmdFlush \/ CmdOffline \/ CmdOnline
  BY <1>8, Constants
  DEF CmdFlush, CmdOffline, Flush, CmdOnline, StartReport, reqVars, Goto,
      ClientSteps, UnitSteps, CommandSteps, EmptyHanded
<1>9. CASE FlushOpener
  BY <1>9 DEF FlushOpener
<1>10. CASE FlushDone \/ UnitOffline \/ EthStop
  BY <1>10, Constants
  DEF FlushDone, UnitOffline, EthStop, Stopping, StartReport, reqVars, Goto,
      ClientSteps, UnitSteps, CommandSteps, EmptyHanded
<1>11. ASSUME NEW type \in Types, ReceiveFrame(type) PROVE Roles'
  BY <1>11, Constants
  DEF ReceiveFrame, Goto, ClientSteps, UnitSteps, CommandSteps, EmptyHanded
<1>12. CASE Deliver
  <2>1. pc[Unit] = "deliver" /\ Head(todo) \in Openers
    BY <1>12, WorkList DEF Deliver
  <2>2. GetPacketTypeQueue(frame) \in QueueNames
    BY DEF GetPacketTypeQueue, QueueNames
  <2>3. CASE UNCHANGED <<pc, req>>
    BY <2>3
  <2>4. CASE \E r \in Reqs : Take(Unit, r) /\ Goto(Unit, "copy")
    BY <2>1, <2>4, Constants
    DEF Take, Goto, ClientSteps, UnitSteps, CommandSteps, EmptyHanded
  <2> QED BY <1>12, <2>1, <2>2, <2>3, <2>4, InList DEF Deliver
<1>13. CASE Delivered \/ NobodyTookIt \/ Offered
  BY <1>13, Constants
  DEF Delivered, Offered, NobodyTookIt, FrameDone, Goto, ClientSteps, UnitSteps, CommandSteps, EmptyHanded
<1>14. CASE Offer
  <2>1. pc[Unit] = "offer" /\ Head(todo) \in Openers
    BY <1>14, WorkList DEF Offer
  <2>2. CASE UNCHANGED <<pc, req>>
    BY <2>2
  <2>3. CASE \E r \in Reqs : Take(Unit, r) /\ Goto(Unit, "copy")
    BY <2>1, <2>3, Constants
    DEF Take, Goto, ClientSteps, UnitSteps, CommandSteps, EmptyHanded
  <2>4. ASSUME queue[Head(todo)]["orphanQueue"] # <<>>
        PROVE  Head(queue[Head(todo)]["orphanQueue"]) \in Reqs
    BY <2>1, <2>4, HeadInQueue DEF QueueNames
  <2> QED BY <1>14, <2>2, <2>3, <2>4 DEF Offer
<1>15. CASE CopyPacket \/ CopyFiltered \/ CopyReported
  BY <1>15, Constants
  DEF CopyPacket, CopyFiltered, CopyReported, CopyReturns, Take, Goto,
      ClientSteps, UnitSteps, CommandSteps, EmptyHanded
<1>16. CASE CopyFails \/ StateReported
  BY <1>16, Constants
  DEF CopyFails, StateReported, StartReport, reqVars, Goto, ClientSteps, UnitSteps, CommandSteps, EmptyHanded
<1> QED
  BY <1>1, <1>2, <1>3, <1>4, <1>5, <1>6, <1>7, <1>8, <1>9, <1>10, <1>11, <1>12, <1>13, <1>14,
     <1>15, <1>16, Constants
  DEF Step, Handling, ClientStep, UnitWork, CommandStep, FlushStep, ReceiveStep, ReportStep, Clients

LEMMA WorkKept == ASSUME Roles, Lists, Work, Step PROVE Work'
<1> USE DEF Work
<1>1. ASSUME NEW c \in Readers, NEW r \in Reqs, BeginIOQuick(c, r) \/ BeginIOQueue(c, r)
      PROVE  Work'
  BY <1>1 DEF BeginIOQuick, BeginIOQueue, frameVars, walkVars
<1>2. ASSUME NEW t \in Tasks, ReadStep(t) PROVE Work'
  BY <1>2 DEF ReadStep, ReadOffline, ReadAccepted, ReadAppend, LeaveRead, frameVars, walkVars
<1>3. ASSUME NEW r \in Reqs, AbortIO(r) PROVE Work'
  BY <1>3 DEF AbortIO, frameVars, walkVars
<1>4. ASSUME NEW c \in Clients, WriteFails(c) \/ WriteFailed(c) PROVE Work'
  <2>1. c \in Tasks
    BY Constants
  <2>2. CASE WriteFails(c)
    BY <2>1, <2>2, Constants DEF WriteFails, StartReport, frameVars
  <2>3. CASE WriteFailed(c)
    BY <2>1, <2>3 DEF WriteFailed, frameVars
  <2> QED BY <1>4, <2>2, <2>3
<1>5. ASSUME NEW t \in Tasks, ReportOpener(t) PROVE Work'
  <2>1. walk' = [walk EXCEPT ![t] = Tail(@)] /\ walk[t] # <<>>
        /\ UNCHANGED <<unitState, txOwner, events, frameVars>>
    BY <1>5 DEF ReportOpener
  <2> QED BY <2>1, WorkList DEF frameVars
<1>6. CASE GetMsg
  BY <1>6 DEF GetMsg, frameVars, walkVars
<1>7. CASE ReadOrphan \/ OnEvent
  BY <1>7 DEF ReadOrphan, OnEvent, Answer, frameVars, walkVars
<1>8. CASE CmdFlush \/ CmdOffline \/ CmdOnline
  <2>1. CASE CmdFlush \/ CmdOffline
    BY <2>1, Constants DEF CmdFlush, CmdOffline, Flush, frameVars
  <2>2. CASE CmdOnline
    <3>1. UNCHANGED <<walk, events>> \/ StartReport(Unit, {"ONLINE"})
      BY <2>2 DEF CmdOnline, walkVars
    <3>2. unitState' \in {"ONLINE", "OFFLINE"} /\ UNCHANGED <<txOwner, frameVars>>
      BY <2>2 DEF CmdOnline
    <3> QED BY <3>1, <3>2, Constants DEF StartReport, frameVars
  <2> QED BY <1>8, <2>1, <2>2
<1>9. CASE FlushOpener
  <2>1. walk' = [walk EXCEPT ![Unit] = Tail(@)] /\ walk[Unit] # <<>>
        /\ UNCHANGED <<unitState, txOwner, events, frameVars>>
    BY <1>9 DEF FlushOpener
  <2> QED BY <2>1, WorkList, Constants DEF frameVars
<1>10. CASE FlushDone \/ UnitOffline \/ EthStop
  BY <1>10, Constants DEF FlushDone, UnitOffline, EthStop, StartReport, frameVars, walkVars
<1>11. ASSUME NEW type \in Types, ReceiveFrame(type) PROVE Work'
  BY <1>11, Constants DEF ReceiveFrame, walkVars
<1>12. CASE Deliver
  BY <1>12, WorkList DEF Deliver, walkVars
<1>13. CASE Delivered \/ NobodyTookIt \/ Offered
  BY <1>13, Constants DEF Delivered, Offered, NobodyTookIt, FrameDone, walkVars
<1>14. CASE Offer
  BY <1>14, WorkList DEF Offer, walkVars
<1>15. CASE CopyPacket \/ CopyFiltered \/ CopyReported
  BY <1>15 DEF CopyPacket, CopyFiltered, CopyReported, CopyReturns, frameVars
<1>16. CASE CopyFails \/ StateReported
  BY <1>16, Constants DEF CopyFails, StateReported, StartReport, frameVars
<1> QED
  BY <1>1, <1>2, <1>3, <1>4, <1>5, <1>6, <1>7, <1>8, <1>9, <1>10, <1>11, <1>12, <1>13, <1>14,
     <1>15, <1>16, Constants
  DEF Step, Handling, ClientStep, UnitWork, CommandStep, FlushStep, ReceiveStep, ReportStep, Clients

LEMMA LedgerKept == ASSUME Roles, Lists, Ledger, Step PROVE Ledger'
<1> USE DEF Ledger
<1>1. \A rs : Complete(rs) => due' \in [Reqs -> Int] /\ viaPort' \in [Reqs -> BOOLEAN]
  <2>1. \A rs : Complete(rs) => due' \in [Reqs -> Int]
    BY DEF Complete
  <2>2. \A rs : Complete(rs) => viaPort' \in [Reqs -> BOOLEAN]
    BY Zenon DEF Complete
  <2> QED BY <2>1, <2>2
<1>2. \A r \in Reqs : \A name : Enqueue(r, name) => late' \subseteq Reqs
  BY DEF Enqueue
<1>3. \A t \in Tasks : pc[t] \in CommandSteps => req[t] \in Reqs
  BY Constants DEF Roles, CommandSteps, EmptyHanded, ClientSteps, UnitSteps
<1>4. ASSUME NEW c \in Readers, NEW r \in Reqs, BeginIOQuick(c, r) \/ BeginIOQueue(c, r)
      PROVE  Ledger'
  <2>1. due' = [due EXCEPT ![r] = 1] /\ UNCHANGED <<late, astray, lost>>
    BY <1>4 DEF BeginIOQuick, BeginIOQueue
  <2>2. viaPort' = [viaPort EXCEPT ![r] = FALSE] \/ viaPort' = [viaPort EXCEPT ![r] = TRUE]
    BY <1>4 DEF BeginIOQuick, BeginIOQueue
  <2>3. viaPort' \in [Reqs -> BOOLEAN]
    BY <2>2
  <2>4. due' \in [Reqs -> Int]
    BY <2>1
  <2> QED BY <2>1, <2>3, <2>4
<1>5. ASSUME NEW t \in Tasks, ReadStep(t) PROVE Ledger'
  BY <1>1, <1>2, <1>3, <1>5
  DEF ReadStep, ReadOffline, ReadAccepted, ReadAppend, LeaveRead, Pending, reqVars, CommandSteps
<1>6. ASSUME NEW r \in Reqs, AbortIO(r) PROVE Ledger'
  <2>1. Complete({r}) /\ late' = late
    BY <1>6 DEF AbortIO
  <2>2. astray' \subseteq Reqs
    BY <1>6 DEF AbortIO, AbortListed, AbortInHand, AbortLost
  <2>3. ASSUME AbortInHand(r) PROVE lost' \subseteq Reqs
    <3>1. PICK l \in Seq(Reqs) : \/ lost' = lost
                                \/ \E e \in Joints(l) : lost' = lost \cup (CutOff(l, e) \ astray)
      BY <2>3, InHandList DEF AbortInHand
    <3> QED BY <3>1, CutOffListed
  <2>4. lost' \subseteq Reqs
    BY <1>6, <2>3 DEF AbortIO, AbortListed, AbortLost
  <2> QED BY <1>1, <2>1, <2>2, <2>4
<1>7. ASSUME NEW c \in Clients, WriteFails(c) \/ WriteFailed(c) PROVE Ledger'
  BY <1>7 DEF WriteFails, WriteFailed, reqVars
<1>8. ASSUME NEW t \in Tasks, ReportOpener(t) PROVE Ledger'
  BY <1>1, <1>8 DEF ReportOpener, Pending
<1>9. CASE ReadOrphan \/ OnEvent
  BY <1>1, <1>2, <1>3, <1>9, Constants DEF ReadOrphan, OnEvent, Answer, Pending, CommandSteps
<1>10. CASE GetMsg \/ CmdFlush \/ CmdOffline \/ CmdOnline \/ FlushOpener
  BY <1>1, <1>10 DEF GetMsg, CmdFlush, CmdOffline, Flush, CmdOnline, FlushOpener, reqVars
<1>11. CASE FlushDone \/ UnitOffline \/ EthStop \/ CopyFails \/ StateReported
  BY <1>11 DEF FlushDone, UnitOffline, EthStop, CopyFails, StateReported, reqVars
<1>12. ASSUME NEW type \in Types, ReceiveFrame(type) PROVE Ledger'
  BY <1>12 DEF ReceiveFrame, reqVars
<1>13. CASE Deliver \/ Offer
  BY <1>13 DEF Deliver, Offer
<1>14. CASE Delivered \/ NobodyTookIt \/ Offered
  BY <1>14 DEF Delivered, Offered, NobodyTookIt, FrameDone, reqVars
<1>15. CASE CopyPacket \/ CopyReported
  BY <1>1, <1>15 DEF CopyPacket, CopyReported, CopyReturns
<1>16. CASE CopyFiltered
  BY <1>3, <1>16, Constants DEF CopyFiltered, CopyReturns, Pending, CommandSteps
<1> QED
  BY <1>4, <1>5, <1>6, <1>7, <1>8, <1>9, <1>10, <1>11, <1>12, <1>13, <1>14, <1>15, <1>16, Constants
  DEF Step, Handling, ClientStep, UnitWork, CommandStep, FlushStep, ReceiveStep, ReportStep, Clients

(* The orphan readers are asked only when nobody took the frame. *)
Offering == pc[Unit] = "offer" => orphan

LEMMA OfferingKept == ASSUME Roles, Lists, Offering, Step PROVE Offering'
<1> USE DEF Offering
<1>1. \A t \in Tasks : \A step : Goto(t, step) /\ step # "offer" /\ UNCHANGED orphan => Offering'
  BY DEF Goto, Roles
<1>2. \A step : Goto(Unit, step) /\ step # "offer" => Offering'
  BY Constants DEF Goto, Roles
<1>3. UNCHANGED <<pc, orphan>> => Offering'
  OBVIOUS
<1>4. ASSUME NEW c \in Readers, NEW r \in Reqs, BeginIOQuick(c, r) \/ BeginIOQueue(c, r)
      PROVE  Offering'
  BY <1>1, <1>3, <1>4, Constants DEF BeginIOQuick, BeginIOQueue, frameVars, Clients
<1>5. ASSUME NEW t \in Tasks, ReadStep(t) PROVE Offering'
  BY <1>1, <1>5 DEF ReadStep, ReadOffline, ReadAccepted, ReadAppend, LeaveRead, Home, frameVars
<1>6. ASSUME NEW r \in Reqs, AbortIO(r) PROVE Offering'
  BY <1>3, <1>6 DEF AbortIO, frameVars
<1>7. ASSUME NEW c \in Clients, WriteFails(c) \/ WriteFailed(c) PROVE Offering'
  BY <1>1, <1>7, Constants DEF WriteFails, WriteFailed, StartReport, frameVars
<1>8. ASSUME NEW t \in Tasks, ReportOpener(t) PROVE Offering'
  BY <1>3, <1>8 DEF ReportOpener, frameVars
<1>9. CASE GetMsg
  <2>1. Request[Head(port)].command # "offer" /\ Goto(Unit, Request[Head(port)].command)
    BY <1>9, HeadInPort, Constants DEF GetMsg
  <2> QED BY <1>2, <2>1
<1>10. CASE ReadOrphan \/ OnEvent
  BY <1>2, <1>10 DEF ReadOrphan, OnEvent, Answer
<1>11. CASE CmdFlush \/ CmdOffline \/ CmdOnline
  BY <1>2, <1>11 DEF CmdFlush, CmdOffline, Flush, CmdOnline, StartReport
<1>12. CASE FlushOpener
  BY <1>3, <1>12 DEF FlushOpener, frameVars
<1>13. CASE FlushDone \/ UnitOffline \/ EthStop
  BY <1>2, <1>13 DEF FlushDone, UnitOffline, EthStop, StartReport
<1>14. CASE (\E type \in Types : ReceiveFrame(type)) \/ Delivered \/ Offered \/ CopyFails \/ StateReported
  BY <1>2, <1>14 DEF ReceiveFrame, Delivered, Offered, FrameDone, CopyFails, StateReported, StartReport
<1>15. CASE Deliver \/ Offer
  BY <1>2, <1>3, <1>15 DEF Deliver, Offer
<1>16. CASE NobodyTookIt \/ CopyPacket \/ CopyFiltered \/ CopyReported
  BY <1>16, Constants
  DEF NobodyTookIt, CopyPacket, CopyFiltered, CopyReported, CopyReturns, Goto, frameVars, Roles
<1> QED
  BY <1>4, <1>5, <1>6, <1>7, <1>8, <1>9, <1>10, <1>11, <1>12, <1>13, <1>14, <1>15, <1>16, Constants
  DEF Step, Handling, ClientStep, UnitWork, CommandStep, FlushStep, ReceiveStep, ReportStep, Clients

(***************************************************************************)
(* The semaphores.                                                         *)
(***************************************************************************)
Locks ==
    /\ lock \in [Openers -> [owner : Tasks \cup {NoTask}, nest : Nat]]
    /\ \A o \in Openers, t \in Tasks : Holds(t, o) => lock[o] = [owner |-> t, nest |-> 1]
    /\ \A o \in Openers : (\A t \in Tasks : ~Holds(t, o)) => lock[o] = Free

LEMMA LocksStay ==
  ASSUME Locks, UNCHANGED lock, \A t \in Tasks, o \in Openers : Holds(t, o)' <=> Holds(t, o)
  PROVE  Locks'
  BY DEF Locks, Free

LEMMA LockTaken ==
  ASSUME Locks, NEW t \in Tasks, NEW o \in Openers, CanLock(t, o), ~Holds(t, o), Lock(t, o),
         \A u \in Tasks, p \in Openers : Holds(u, p)' <=> Holds(u, p) \/ (u = t /\ p = o)
  PROVE  Locks'
<1>1. \A u \in Tasks : ~Holds(u, o)
  BY Constants DEF Locks, CanLock
<1>2. lock[o].nest = 0
  BY <1>1 DEF Locks, Free
<1>3. lock'[o] = [owner |-> t, nest |-> 1] /\ \A p \in Openers : p # o => lock'[p] = lock[p]
  BY <1>2 DEF Lock, Locks
<1>4. lock' \in [Openers -> [owner : Tasks \cup {NoTask}, nest : Nat]]
  BY <1>2 DEF Lock, Locks
<1> QED BY <1>1, <1>3, <1>4 DEF Locks, Free

LEMMA LockReleased ==
  ASSUME Locks, NEW t \in Tasks, NEW o \in Openers, Holds(t, o), Unlock(o),
         \A u \in Tasks, p \in Openers : Holds(u, p)' <=> Holds(u, p) /\ ~(u = t /\ p = o)
  PROVE  Locks'
<1>1. lock[o] = [owner |-> t, nest |-> 1]
  BY DEF Locks
<1>2. \A u \in Tasks : Holds(u, o) => u = t
  BY <1>1 DEF Locks
<1>3. lock' = [lock EXCEPT ![o] = Free]
  BY <1>1 DEF Unlock
<1>4. lock' \in [Openers -> [owner : Tasks \cup {NoTask}, nest : Nat]]
  BY <1>3 DEF Locks, Free
<1>5. lock'[o] = Free /\ \A p \in Openers : p # o => lock'[p] = lock[p]
  BY <1>3 DEF Locks
<1> QED BY <1>2, <1>4, <1>5 DEF Locks, Free

(* A program's read, from AttemptSemaphore to the end of BeginIO. *)
LEMMA ReadLocks ==
  ASSUME Roles, Locks, NEW t \in Tasks, ReadStep(t) PROVE Locks'
<1>1. pc[t] \in {"read", "append"} /\ req[t] \in Reqs /\ OpenerOf(req[t]) \in Openers
  BY Constants DEF ReadStep, ReadOffline, ReadAccepted, ReadAppend, Roles, CommandSteps
<1>2. CASE ReadAccepted(t)
  <2>1. \A u \in Tasks, o \in Openers : Holds(u, o)' <=> Holds(u, o)
    BY <1>1, <1>2 DEF ReadAccepted, Goto, Holds, Holding, frameVars, Roles
  <2> QED BY <1>2, <2>1, LocksStay DEF ReadAccepted
<1>3. CASE (ReadOffline(t) \/ ReadAppend(t)) /\ t = Unit
  <2>1. \A u \in Tasks, o \in Openers : Holds(u, o)' <=> Holds(u, o)
    BY <1>1, <1>3
    DEF ReadOffline, ReadAppend, LeaveRead, Goto, Home, Take, Holds, Holding, frameVars, Roles
  <2>2. UNCHANGED lock
    BY <1>3 DEF ReadOffline, ReadAppend, LeaveRead
  <2> QED BY <2>1, <2>2, LocksStay
<1>4. CASE (ReadOffline(t) \/ ReadAppend(t)) /\ t # Unit
  <2>1. LeaveRead(t, req[t])
    BY <1>4 DEF ReadOffline, ReadAppend
  <2>2. Holds(t, OpenerOf(req[t])) /\ Unlock(OpenerOf(req[t]))
    BY <1>1, <1>4, <2>1, Constants DEF Holds, LeaveRead
  <2>3. \A u \in Tasks, o \in Openers :
            Holds(u, o)' <=> Holds(u, o) /\ ~(u = t /\ o = OpenerOf(req[t]))
    BY <1>1, <1>4, <2>1, Constants
    DEF LeaveRead, Goto, Home, Take, Holds, Holding, frameVars, Roles
  <2> QED BY <1>1, <2>2, <2>3, LockReleased
<1> QED BY <1>2, <1>3, <1>4 DEF ReadStep

LEMMA LocksKept == ASSUME Roles, Lists, Work, Offering, Locks, Step PROVE Locks'
<1> DEFINE Same == \A t \in Tasks, o \in Openers : Holds(t, o)' <=> Holds(t, o)
<1>1. ASSUME NEW c \in Readers, NEW r \in Reqs, BeginIOQuick(c, r) PROVE Locks'
  <2>1. /\ pc[c] = "idle" /\ CanLock(c, OpenerOf(r)) /\ Lock(c, OpenerOf(r))
        /\ Take(c, r) /\ Goto(c, "read") /\ UNCHANGED frameVars
    BY <1>1 DEF BeginIOQuick
  <2>2. c \in Tasks /\ c # Unit /\ OpenerOf(r) \in Openers /\ req[c] = NoReq
    BY <2>1, Constants DEF Clients, Roles
  <2>3. ~Holds(c, OpenerOf(r))
    BY <2>2 DEF Holds
  <2>4. \A u \in Tasks, o \in Openers : Holds(u, o)' <=> Holds(u, o) \/ (u = c /\ o = OpenerOf(r))
    BY <2>1, <2>2, Constants DEF Goto, Take, Holds, Holding, frameVars, Roles
  <2> QED BY <2>1, <2>2, <2>3, <2>4, LockTaken
<1>2. ASSUME NEW c \in Readers, NEW r \in Reqs, BeginIOQueue(c, r) PROVE Locks'
  <2>1. Same /\ UNCHANGED lock
    BY <1>2 DEF BeginIOQueue, Holds, Holding, frameVars
  <2> QED BY <2>1, LocksStay
<1>3. ASSUME NEW t \in Tasks, ReadStep(t) PROVE Locks'
  BY <1>3, ReadLocks
<1>4. ASSUME NEW r \in Reqs, AbortIO(r) PROVE Locks'
  <2>1. Same /\ UNCHANGED lock
    BY <1>4 DEF AbortIO, Holds, Holding, frameVars
  <2> QED BY <2>1, LocksStay
<1>5. ASSUME NEW c \in Clients, WriteFails(c) \/ WriteFailed(c) PROVE Locks'
  <2>1. c # Unit /\ c \in Tasks /\ pc[c] \in {"idle", "report"} /\ req[c] = NoReq
    BY <1>5, Constants DEF WriteFails, WriteFailed, Roles
  <2>2. UNCHANGED <<lock, req, frameVars>> /\ (Goto(c, "idle") \/ Goto(c, "report"))
    BY <1>5 DEF WriteFails, WriteFailed, StartReport
  <2>3. Same
    BY <2>1, <2>2 DEF Goto, Holds, Holding, frameVars, Roles
  <2> QED BY <2>2, <2>3, LocksStay
<1>6. ASSUME NEW t \in Tasks, ReportOpener(t) PROVE Locks'
  <2>1. Same /\ UNCHANGED lock
    BY <1>6 DEF ReportOpener, Holds, Holding, frameVars
  <2> QED BY <2>1, LocksStay
<1>7. CASE GetMsg
  <2>1. pc[Unit] = "wait" /\ req[Unit] = NoReq /\ UNCHANGED <<lock, frameVars>>
        /\ Take(Unit, Head(port)) /\ Goto(Unit, Request[Head(port)].command)
    BY <1>7 DEF GetMsg, Roles, EmptyHanded
  <2>2. Request[Head(port)].command \in {"read", "orphan", "event"}
    BY <1>7, HeadInPort, Constants DEF GetMsg
  <2>3. Same
    BY <2>1, <2>2, Constants DEF Goto, Take, Holds, Holding, frameVars, Roles
  <2> QED BY <2>1, <2>3, LocksStay
<1>8. CASE ReadOrphan \/ OnEvent
  <2>1. pc[Unit] \in {"orphan", "event"} /\ UNCHANGED <<lock, frameVars>>
        /\ Take(Unit, NoReq) /\ Goto(Unit, "wait")
    BY <1>8 DEF ReadOrphan, OnEvent, Answer
  <2>2. Same
    BY <2>1, Constants DEF Goto, Take, Holds, Holding, frameVars, Roles
  <2> QED BY <2>1, <2>2, LocksStay
<1>9. CASE CmdFlush \/ CmdOffline \/ CmdOnline \/ FlushDone \/ UnitOffline \/ EthStop \/ StateReported
  <2>1. /\ req[Unit] = NoReq /\ UNCHANGED <<lock, req, frameVars>>
        /\ \E step : Goto(Unit, step)
    BY <1>9 DEF CmdFlush, CmdOffline, Flush, CmdOnline, FlushDone, UnitOffline, EthStop, Stopping,
                StateReported, StartReport, Roles, EmptyHanded
  <2>2. Same
    BY <2>1, Constants DEF Goto, Holds, Holding, frameVars, Roles
  <2> QED BY <2>1, <2>2, LocksStay
<1>10. CASE FlushOpener
  <2>1. Same /\ UNCHANGED lock
    BY <1>10 DEF FlushOpener, Holds, Holding, frameVars
  <2> QED BY <2>1, LocksStay
<1>11. CASE (\E type \in Types : ReceiveFrame(type)) \/ Delivered \/ NobodyTookIt \/ Offered
  <2>1. /\ req[Unit] = NoReq /\ UNCHANGED <<lock, req>>
        /\ \E step : Goto(Unit, step)
    BY <1>11 DEF ReceiveFrame, Delivered, NobodyTookIt, Offered, FrameDone, Roles, EmptyHanded, reqVars
  <2>2. Same
    BY <2>1, Constants DEF Goto, Holds, Roles
  <2> QED BY <2>1, <2>2, LocksStay
<1>12. CASE Deliver
  <2> DEFINE o == Head(todo)
             name == GetPacketTypeQueue(frame)
  <2>1. /\ o \in Openers /\ name \in QueueNames /\ CanLock(Unit, o)
        /\ pc[Unit] = "deliver" /\ req[Unit] = NoReq /\ frame' = frame
    BY <1>12, WorkList DEF Deliver, GetPacketTypeQueue, QueueNames, Roles, EmptyHanded
  <2>2. CASE UNCHANGED <<pc, req, lock, orphan>>
    <3>1. Same
      BY <2>1, <2>2 DEF Holds, Holding
    <3> QED BY <2>2, <3>1, LocksStay
  <2>3. ASSUME NEW i \in DOMAIN queue[o][name], Take(Unit, queue[o][name][i]),
               IF frame \in FastTypes THEN UNCHANGED lock ELSE Lock(Unit, o),
               orphan' = FALSE, Goto(Unit, "copy")
        PROVE  Locks'
    <3>1. queue[o][name][i] \in Reqs /\ OpenerOf(queue[o][name][i]) = o
      BY <2>1, InList
    <3>2. CASE frame \in FastTypes
      <4>1. Same
        BY <2>1, <2>3, <3>2, Constants DEF Goto, Take, Holds, Holding, Roles
      <4> QED BY <2>3, <3>2, <4>1, LocksStay
    <3>3. CASE frame \notin FastTypes
      <4>1. \A u \in Tasks, p \in Openers : Holds(u, p)' <=> Holds(u, p) \/ (u = Unit /\ p = o)
        BY <2>1, <2>3, <3>1, <3>3, Constants DEF Goto, Take, Holds, Holding, Roles
      <4>2. ~Holds(Unit, o)
        BY <2>1 DEF Holds
      <4> QED BY <2>1, <2>3, <3>3, <4>1, <4>2, Constants, LockTaken
    <3> QED BY <3>2, <3>3
  <2> QED BY <1>12, <2>2, <2>3 DEF Deliver
<1>13. CASE Offer
  <2>1. pc[Unit] = "offer" /\ orphan /\ req[Unit] = NoReq /\ UNCHANGED <<lock, frame, orphan>>
    BY <1>13 DEF Offer, Offering, Roles, EmptyHanded
  <2>2. CASE UNCHANGED <<pc, req>>
    <3>1. Same
      BY <2>1, <2>2 DEF Holds, Holding
    <3> QED BY <2>1, <3>1, LocksStay
  <2>3. ASSUME NEW r, Take(Unit, r), Goto(Unit, "copy") PROVE Locks'
    <3>1. Same
      BY <2>1, <2>3, Constants DEF Goto, Take, Holds, Holding, Roles
    <3> QED BY <2>1, <3>1, LocksStay
  <2> QED BY <1>13, <2>2, <2>3 DEF Offer
<1>14. CASE CopyPacket \/ CopyFiltered \/ CopyReported
  <2>1. CopyReturns /\ pc[Unit] \in {"copy", "report"} /\ req[Unit] \in Reqs
    BY <1>14, Constants DEF CopyPacket, CopyFiltered, CopyReported, Roles, CommandSteps
  <2>2. /\ UNCHANGED frameVars /\ Take(Unit, NoReq)
        /\ \E step : Goto(Unit, step)
    BY <2>1 DEF CopyReturns
  <2>3. CASE Holding
    <3>1. Unlock(OpenerOf(req[Unit])) /\ Holds(Unit, OpenerOf(req[Unit]))
          /\ OpenerOf(req[Unit]) \in Openers
      BY <2>1, <2>3, Constants DEF CopyReturns, Holds
    <3>2. \A u \in Tasks, o \in Openers :
              Holds(u, o)' <=> Holds(u, o) /\ ~(u = Unit /\ o = OpenerOf(req[Unit]))
      BY <2>1, <2>2, <2>3, Constants DEF Goto, Take, Holds, Holding, frameVars, Roles
    <3> QED BY <3>1, <3>2, Constants, LockReleased
  <2>4. CASE ~Holding
    <3>1. Same
      BY <2>1, <2>2, <2>4, Constants DEF Goto, Take, Holds, Holding, frameVars, Roles
    <3> QED BY <2>1, <2>4, <3>1, LocksStay DEF CopyReturns
  <2> QED BY <2>3, <2>4
<1>15. CASE CopyFails
  <2>1. pc[Unit] = "copy" /\ Goto(Unit, "report") /\ UNCHANGED <<lock, req, frameVars>>
    BY <1>15 DEF CopyFails, StartReport
  <2>2. Same
    BY <2>1, Constants DEF Goto, Holds, Holding, frameVars, Roles
  <2> QED BY <2>1, <2>2, LocksStay
<1> HIDE DEF Same
<1> QED
  BY <1>1, <1>2, <1>3, <1>4, <1>5, <1>6, <1>7, <1>8, <1>9, <1>10, <1>11, <1>12, <1>13, <1>14,
     <1>15, Constants
  DEF Step, Handling, ClientStep, UnitWork, CommandStep, FlushStep, ReceiveStep, ReportStep, Clients

(***************************************************************************)
(* Where a request is, and the invariant: at most at one place, and at one *)
(* exactly while it is due, unless it went astray or is lost.              *)
(***************************************************************************)
OnPort(r) == Has(port, r)
OnQueue(r, name) == Has(Queues(r)[name], r)
Somewhere(r) == \/ OnPort(r) \/ InHand(r)
                \/ \E name \in QueueNames : OnQueue(r, name)
Sole(r) ==
    /\ \A n, m \in QueueNames : OnQueue(r, n) /\ OnQueue(r, m) => n = m
    /\ \A t, u \in Tasks : req[t] = r /\ req[u] = r => t = u
    /\ OnPort(r) => ~InHand(r) /\ \A n \in QueueNames : ~OnQueue(r, n)
    /\ InHand(r) => \A n \in QueueNames : ~OnQueue(r, n)
Claim(r) == \/ r \in astray
            \/ due[r] = 1 /\ (Somewhere(r) <=> r \notin lost)
            \/ due[r] = 0 /\ ~Somewhere(r) /\ r \notin lost
Spread == \A r \in Reqs : Sole(r) /\ Claim(r)

(* Whatever happens to x, r is where it was and as due as it was. *)
Aside(r) ==
    /\ OnPort(r)' <=> OnPort(r)
    /\ \A n \in QueueNames : OnQueue(r, n)' <=> OnQueue(r, n)
    /\ \A t \in Tasks : req'[t] = r <=> req[t] = r
    /\ due'[r] = due[r] /\ (r \in astray' <=> r \in astray) /\ (r \in lost' <=> r \in lost)

LEMMA AsideKept ==
  ASSUME NEW r \in Reqs, Aside(r), Sole(r), Claim(r) PROVE Sole(r)' /\ Claim(r)'
<1>1. InHand(r)' <=> InHand(r)
  BY DEF InHand, Aside
<1>2. Somewhere(r)' <=> Somewhere(r)
  BY <1>1 DEF Somewhere, Aside
<1>3. Sole(r)'
  BY <1>1 DEF Sole, Aside
<1> QED BY <1>2, <1>3 DEF Claim, Aside

LEMMA Moved ==
  ASSUME Spread, NEW x \in Reqs, \A r \in Reqs : r # x => Aside(r), Sole(x)', Claim(x)'
  PROVE  Spread'
  BY AsideKept DEF Spread

LEMMA NoPlace == ASSUME NEW r \in Reqs, PlacesOf(r) = {} PROVE ~Somewhere(r)
<1>1. PortPlaces(r) = {} /\ HandPlaces(r) = {} /\ \A n \in QueueNames : QueuePlaces(r, n) = {}
  BY DEF PlacesOf
<1>2. ~OnPort(r)
  BY <1>1 DEF PortPlaces, IndicesOf, OnPort, Has
<1>3. ~InHand(r)
  BY <1>1 DEF HandPlaces, InHand
<1>4. ASSUME NEW n \in QueueNames PROVE ~OnQueue(r, n)
  BY <1>1 DEF QueuePlaces, IndicesOf, OnQueue, Has
<1> QED BY <1>2, <1>3, <1>4 DEF Somewhere

(* What the list operations do to where the requests are. *)
LEMMA QueueEdit ==
  ASSUME Lists, UNCHANGED port, NEW o \in Openers, NEW name \in QueueNames, NEW s \in Seq(Reqs),
         NoDuplicate(s), \A r \in Reqs : Has(s, r) => OpenerOf(r) = o,
         queue' = [queue EXCEPT ![o][name] = s]
  PROVE  /\ Lists'
         /\ \A r \in Reqs, n \in QueueNames :
                OnQueue(r, n)' <=> IF n = name /\ OpenerOf(r) = o THEN Has(s, r) ELSE OnQueue(r, n)
<1>1. /\ queue' \in [Openers -> [QueueNames -> Seq(Reqs)]] /\ queue'[o][name] = s
      /\ \A p \in Openers, n \in QueueNames : p # o \/ n # name => queue'[p][n] = queue[p][n]
  BY DEF Lists
<1>2. ASSUME NEW p \in Openers, NEW n \in QueueNames
      PROVE  /\ NoDuplicate(queue'[p][n])
             /\ \A r \in Reqs : Has(queue'[p][n], r) => OpenerOf(r) = p
  <2>1. CASE p = o /\ n = name
    BY <1>1, <2>1
  <2>2. CASE p # o \/ n # name
    BY <1>1, <2>2 DEF Lists
  <2> QED BY <2>1, <2>2
<1>3. Lists'
  BY <1>1, <1>2 DEF Lists, NoDuplicate, Has
<1>4. ASSUME NEW r \in Reqs, NEW n \in QueueNames
      PROVE  OnQueue(r, n)' <=> IF n = name /\ OpenerOf(r) = o THEN Has(s, r) ELSE OnQueue(r, n)
  <2>1. OnQueue(r, n)' <=> Has(queue'[OpenerOf(r)][n], r)
    BY DEF OnQueue, Has, Queues, OpenerOf
  <2>2. OpenerOf(r) \in Openers
    BY Constants
  <2>3. CASE n = name /\ OpenerOf(r) = o
    BY <1>1, <2>1, <2>3
  <2>4. CASE ~(n = name /\ OpenerOf(r) = o)
    BY <1>1, <2>1, <2>2, <2>4 DEF OnQueue, Queues
  <2> QED BY <2>3, <2>4
<1> QED BY <1>3, <1>4

LEMMA DequeueEffect ==
  ASSUME Lists, UNCHANGED port, NEW o \in Openers, NEW name \in QueueNames,
         NEW i \in DOMAIN queue[o][name], Dequeue(o, name, i)
  PROVE  /\ Lists'
         /\ queue[o][name][i] \in Reqs /\ OnQueue(queue[o][name][i], name)
         /\ \A r \in Reqs, n \in QueueNames :
                OnQueue(r, n)' <=> OnQueue(r, n) /\ ~(n = name /\ r = queue[o][name][i])
<1> DEFINE s == queue[o][name]
           x == queue[o][name][i]
<1>1. s \in Seq(Reqs) /\ NoDuplicate(s) /\ x \in Reqs /\ OpenerOf(x) = o
  BY InList DEF Lists
<1>2. RemoveAt(s, i) \in Seq(Reqs) /\ NoDuplicate(RemoveAt(s, i))
      /\ \A r : Has(RemoveAt(s, i), r) <=> Has(s, r) /\ r # x
  <2>1. \A k, j \in DOMAIN s : s[k] = s[j] => k = j
    BY <1>1 DEF NoDuplicate
  <2>2. /\ RemoveAt(s, i) \in Seq(Reqs)
        /\ \A k, j \in DOMAIN RemoveAt(s, i) : RemoveAt(s, i)[k] = RemoveAt(s, i)[j] => k = j
        /\ \A y : (\E k \in DOMAIN RemoveAt(s, i) : RemoveAt(s, i)[k] = y)
                  <=> (\E k \in DOMAIN s : s[k] = y) /\ y # s[i]
    BY <1>1, <2>1, RemoveNode
  <2> QED BY <2>2, Zenon DEF NoDuplicate, Has
<1>3. queue' = [queue EXCEPT ![o][name] = RemoveAt(s, i)]
  BY DEF Dequeue, Lists
<1>4. \A r \in Reqs : Has(s, r) => OpenerOf(r) = o
  BY DEF Lists
<1> HIDE DEF s, x
<1>5. /\ Lists'
      /\ \A r \in Reqs, n \in QueueNames :
             OnQueue(r, n)' <=> IF n = name /\ OpenerOf(r) = o THEN Has(RemoveAt(s, i), r) ELSE OnQueue(r, n)
  BY <1>2, <1>3, <1>4, QueueEdit
<1>6. \A r \in Reqs : OpenerOf(r) = o => (OnQueue(r, name) <=> Has(s, r))
  BY DEF OnQueue, Queues, s
<1>7. OnQueue(x, name)
  BY <1>1, <1>6 DEF Has, s, x
<1> QED BY <1>1, <1>2, <1>5, <1>6, <1>7 DEF x

LEMMA EnqueueEffect ==
  ASSUME Lists, UNCHANGED port, NEW x \in Reqs, NEW name \in QueueNames, ~OnQueue(x, name),
         Enqueue(x, name)
  PROVE  /\ Lists'
         /\ \A r \in Reqs, n \in QueueNames : OnQueue(r, n)' <=> OnQueue(r, n) \/ (n = name /\ r = x)
<1> DEFINE o == OpenerOf(x)
           s == queue[o][name]
<1>1. s \in Seq(Reqs) /\ NoDuplicate(s) /\ o \in Openers /\ ~Has(s, x)
  BY Constants DEF Lists, OnQueue, Queues
<1>2. Append(s, x) \in Seq(Reqs) /\ NoDuplicate(Append(s, x))
      /\ \A r : Has(Append(s, x), r) <=> Has(s, r) \/ r = x
  <2>1. (\A k, j \in DOMAIN s : s[k] = s[j] => k = j) /\ \A k \in DOMAIN s : s[k] # x
    BY <1>1 DEF NoDuplicate, Has
  <2>2. /\ Append(s, x) \in Seq(Reqs)
        /\ \A k, j \in DOMAIN Append(s, x) : Append(s, x)[k] = Append(s, x)[j] => k = j
        /\ \A y : (\E k \in DOMAIN Append(s, x) : Append(s, x)[k] = y)
                  <=> (\E k \in DOMAIN s : s[k] = y) \/ y = x
    BY <1>1, <2>1, AppendNode
  <2> QED BY <2>2, Zenon DEF NoDuplicate, Has
<1>3. queue' = [queue EXCEPT ![o][name] = Append(s, x)]
  BY DEF Enqueue, Lists
<1>4. \A r \in Reqs : Has(s, r) => OpenerOf(r) = o
  BY <1>1 DEF Lists
<1>5. \A r \in Reqs : OpenerOf(r) = o => (OnQueue(r, name) <=> Has(s, r))
  BY DEF OnQueue, Queues
<1>6. OpenerOf(x) = o
  OBVIOUS
<1> HIDE DEF s, o
<1>7. /\ Lists'
      /\ \A r \in Reqs, n \in QueueNames :
             OnQueue(r, n)' <=> IF n = name /\ OpenerOf(r) = o THEN Has(Append(s, x), r) ELSE OnQueue(r, n)
  <2>1. \A r \in Reqs : Has(Append(s, x), r) => OpenerOf(r) = o
    BY <1>2, <1>4, <1>6
  <2>2. Append(s, x) \in Seq(Reqs) /\ NoDuplicate(Append(s, x)) /\ o \in Openers
    BY <1>1, <1>2
  <2> QED BY <1>3, <2>1, <2>2, QueueEdit
<1> QED BY <1>2, <1>5, <1>6, <1>7

LEMMA TakeEffect ==
  ASSUME Roles, NEW t \in Tasks, NEW v, Take(t, v)
  PROVE  \A u \in Tasks : \A r : req'[u] = r <=> IF u = t THEN r = v ELSE req[u] = r
  BY DEF Take, Roles

(***************************************************************************)
(* The ways a request moves.                                               *)
(***************************************************************************)
LEMMA NothingMoves ==
  ASSUME Lists, Spread, UNCHANGED <<port, queue, req, due, astray, lost>> PROVE Lists' /\ Spread'
<1>1. \A r \in Reqs : Aside(r)
  BY DEF Aside, OnPort, OnQueue, Queues, Has
<1>2. Lists'
  BY DEF Lists, NoDuplicate, Has
<1> QED BY <1>1, <1>2, AsideKept DEF Spread

LEMMA PortStays ==
  UNCHANGED port => \A r : OnPort(r)' <=> OnPort(r)
  BY DEF OnPort, Has

LEMMA QueuesStay ==
  ASSUME Lists, UNCHANGED <<port, queue>>
  PROVE  Lists' /\ \A r, n : OnQueue(r, n)' <=> OnQueue(r, n)
  BY DEF Lists, NoDuplicate, OnQueue, Queues, Has

LEMMA CompleteEffect ==
  ASSUME Ledger, NEW rs, Complete(rs)
  PROVE  \A r \in Reqs : /\ r \in rs => due'[r] = due[r] - 1
                        /\ r \notin rs => due'[r] = due[r]
  BY DEF Ledger, Complete

LEMMA CompleteOne ==
  ASSUME Ledger, NEW x \in Reqs, Complete({x})
  PROVE  due'[x] = due[x] - 1 /\ \A r \in Reqs : r # x => due'[r] = due[r]
  BY DEF Ledger, Complete

(* From the task that has it in hand back to its program, or nowhere. *)
LEMMA HandDone ==
  ASSUME Roles, Lists, Ledger, Spread, NEW t \in Tasks, req[t] \in Reqs, Take(t, NoReq),
         UNCHANGED <<port, queue>>,
         UNCHANGED astray,
         \/ Complete({req[t]}) /\ UNCHANGED lost
         \/ UNCHANGED due /\ lost' = lost \cup ({req[t]} \ astray)
  PROVE  Lists' /\ Spread'
<1>0. PICK x \in Reqs : x = req[t]
  OBVIOUS
<1>1. /\ \A u \in Tasks : \A r : req'[u] = r <=> IF u = t THEN r = NoReq ELSE req[u] = r
      /\ x \in Reqs /\ x # NoReq /\ Sole(x) /\ Claim(x) /\ req[t] = x
  BY <1>0, TakeEffect, Constants DEF Spread
<1>2. Lists' /\ (\A r : OnPort(r)' <=> OnPort(r)) /\ \A r, n : OnQueue(r, n)' <=> OnQueue(r, n)
  BY PortStays, QueuesStay
<1>3. ~Somewhere(x)' /\ Sole(x)' /\ Somewhere(x)
  BY <1>1, <1>2 DEF Somewhere, Sole, InHand
<1>4. /\ \/ due'[x] = due[x] - 1 /\ lost' = lost
         \/ due'[x] = due[x] /\ (x \in lost' \/ x \in astray)
      /\ \A r \in Reqs : r # x => due'[r] = due[r] /\ (r \in lost' <=> r \in lost)
  <2>1. CASE Complete({req[t]}) /\ UNCHANGED lost
    <3>1. due'[x] = due[x] - 1 /\ \A r \in Reqs : r # x => due'[r] = due[r]
      <4>1. Complete({x})
        BY <1>0, <2>1
      <4> QED BY <4>1, CompleteOne
    <3> QED BY <2>1, <3>1
  <2>2. CASE UNCHANGED due /\ lost' = lost \cup ({req[t]} \ astray)
    BY <1>0, <2>2
  <2> QED BY <2>1, <2>2
<1>5. Claim(x)'
  BY <1>1, <1>3, <1>4 DEF Claim, Ledger
<1>6. \A r \in Reqs : r # x => Aside(r)
  BY <1>1, <1>2, <1>4, Constants DEF Aside
<1> QED BY <1>1, <1>2, <1>3, <1>5, <1>6, Moved

(* From the task that has it in hand onto a queue of its opener. *)
LEMMA HandQueued ==
  ASSUME Roles, Lists, Spread, NEW t \in Tasks, req[t] \in Reqs, Take(t, NoReq),
         NEW name \in QueueNames, Enqueue(req[t], name), UNCHANGED <<port, due, astray, lost>>
  PROVE  Lists' /\ Spread'
<1>0. PICK x \in Reqs : x = req[t]
  OBVIOUS
<1>1. /\ \A u \in Tasks : \A r : req'[u] = r <=> IF u = t THEN r = NoReq ELSE req[u] = r
      /\ x \in Reqs /\ x # NoReq /\ Sole(x) /\ Claim(x) /\ req[t] = x
  BY <1>0, TakeEffect, Constants DEF Spread
<1>2. ~OnQueue(x, name)
  BY <1>1 DEF Sole, InHand
<1>3. /\ Lists'
      /\ \A r \in Reqs, n \in QueueNames : OnQueue(r, n)' <=> OnQueue(r, n) \/ (n = name /\ r = x)
  BY <1>1, <1>2, EnqueueEffect
<1>4. \A r : OnPort(r)' <=> OnPort(r)
  BY PortStays
<1>5. Sole(x)' /\ Somewhere(x) /\ Somewhere(x)'
  BY <1>1, <1>3, <1>4 DEF Somewhere, Sole, InHand
<1>6. Claim(x)'
  BY <1>1, <1>5 DEF Claim
<1>7. \A r \in Reqs : r # x => Aside(r)
  BY <1>1, <1>3, <1>4, Constants DEF Aside
<1> QED BY <1>1, <1>3, <1>5, <1>6, <1>7, Moved

(* From a queue into the unit task's hands. *)
LEMMA QueueTaken ==
  ASSUME Roles, Lists, Spread, NEW o \in Openers, NEW name \in QueueNames,
         NEW i \in DOMAIN queue[o][name], Dequeue(o, name, i), Take(Unit, queue[o][name][i]),
         req[Unit] = NoReq, UNCHANGED <<port, due, astray, lost>>
  PROVE  Lists' /\ Spread'
<1>0. PICK x \in Reqs : x = queue[o][name][i]
  BY InList
<1>1. /\ Lists' /\ x \in Reqs /\ OnQueue(x, name)
      /\ \A r \in Reqs, n \in QueueNames : OnQueue(r, n)' <=> OnQueue(r, n) /\ ~(n = name /\ r = x)
  BY <1>0, DequeueEffect
<1>2. /\ \A u \in Tasks : \A r : req'[u] = r <=> IF u = Unit THEN r = x ELSE req[u] = r
      /\ x # NoReq /\ Sole(x) /\ Claim(x)
  <2>1. Take(Unit, x) /\ Unit \in Tasks
    BY <1>0, Constants
  <2>2. \A u \in Tasks : \A r : req'[u] = r <=> IF u = Unit THEN r = x ELSE req[u] = r
    BY <2>1, TakeEffect
  <2>3. Sole(x) /\ Claim(x) /\ x # NoReq
    BY Constants DEF Spread
  <2> QED BY <2>2, <2>3
<1>3. \A r : OnPort(r)' <=> OnPort(r)
  BY PortStays
<1>4. Sole(x)' /\ Somewhere(x) /\ Somewhere(x)'
  BY <1>1, <1>2, <1>3, Constants DEF Somewhere, Sole, InHand
<1>5. Claim(x)'
  BY <1>2, <1>4 DEF Claim
<1>6. \A r \in Reqs : r # x => Aside(r)
  BY <1>1, <1>2, <1>3, Constants DEF Aside
<1> QED BY <1>1, <1>4, <1>5, <1>6, Moved

(* From a queue back to its program. *)
LEMMA QueueDone ==
  ASSUME Lists, Ledger, Spread, NEW o \in Openers, NEW name \in QueueNames,
         NEW i \in DOMAIN queue[o][name], Dequeue(o, name, i), Complete({queue[o][name][i]}),
         UNCHANGED <<port, req, astray, lost>>
  PROVE  Lists' /\ Spread'
<1>0. PICK x \in Reqs : x = queue[o][name][i]
  BY InList
<1>1. /\ Lists' /\ x \in Reqs /\ OnQueue(x, name)
      /\ \A r \in Reqs, n \in QueueNames : OnQueue(r, n)' <=> OnQueue(r, n) /\ ~(n = name /\ r = x)
  BY <1>0, DequeueEffect
<1>2. due'[x] = due[x] - 1 /\ \A r \in Reqs : r # x => due'[r] = due[r]
  <2>1. Complete({x})
    BY <1>0
  <2> QED BY <2>1, CompleteOne
<1>3. (\A r : OnPort(r)' <=> OnPort(r)) /\ Sole(x) /\ Claim(x)
  BY <1>1, PortStays DEF Spread
<1>4. Sole(x)' /\ Somewhere(x) /\ ~Somewhere(x)'
  BY <1>1, <1>3 DEF Somewhere, Sole, InHand
<1>5. Claim(x)'
  <2>1. due'[x] = due[x] - 1 /\ astray' = astray /\ lost' = lost
    BY <1>2
  <2>2. x \in astray \/ (due[x] = 1 /\ x \notin lost)
    BY <1>3, <1>4 DEF Claim
  <2> QED BY <1>4, <2>1, <2>2 DEF Claim
<1>6. \A r \in Reqs : r # x => Aside(r)
  BY <1>1, <1>2, <1>3 DEF Aside
<1> QED BY <1>1, <1>4, <1>5, <1>6, Moved

(* A request that is sent, into its own task's hands or onto the port. *)
LEMMA Sent ==
  ASSUME Roles, Lists, Ledger, Spread, NEW x \in Reqs, Sendable(x), NEW c \in Clients,
         due' = [due EXCEPT ![x] = 1], UNCHANGED <<queue, astray, lost>>,
         \/ req[c] = NoReq /\ Take(c, x) /\ UNCHANGED port
         \/ port' = Append(port, x) /\ UNCHANGED req
  PROVE  Lists' /\ Spread'
<1>1. ~Somewhere(x) /\ ~OnPort(x) /\ ~InHand(x) /\ \A n \in QueueNames : ~OnQueue(x, n)
  BY NoPlace DEF Sendable, Somewhere
<1>2. /\ due'[x] = 1 /\ \A r \in Reqs : r # x => due'[r] = due[r]
      /\ x \in astray' \/ x \notin lost'
  BY <1>1 DEF Ledger, Spread, Claim, Sendable
<1>3. \A r, n : OnQueue(r, n)' <=> OnQueue(r, n)
  BY DEF OnQueue, Queues, Has
<1>4. CASE req[c] = NoReq /\ Take(c, x) /\ UNCHANGED port
  <2>1. c \in Tasks
    BY Constants
  <2>2. \A u \in Tasks : \A r : req'[u] = r <=> IF u = c THEN r = x ELSE req[u] = r
    BY <1>4, <2>1, TakeEffect
  <2>3. Lists' /\ \A r : OnPort(r)' <=> OnPort(r)
    BY <1>4, PortStays, QueuesStay
  <2>4. Sole(x)' /\ Somewhere(x)'
    BY <1>1, <1>3, <2>1, <2>2, <2>3 DEF Somewhere, Sole, InHand
  <2>5. \A r \in Reqs : r # x => Aside(r)
    BY <1>2, <1>3, <1>4, <2>2, <2>3, Constants DEF Aside
  <2> QED BY <1>2, <2>3, <2>4, <2>5, Moved DEF Claim
<1>5. CASE port' = Append(port, x) /\ UNCHANGED req
  <2>1. /\ port' \in Seq(Reqs) /\ NoDuplicate(port')
        /\ \A r : Has(port', r) <=> Has(port, r) \/ r = x
    <3>1. /\ port \in Seq(Reqs) /\ \A k, j \in DOMAIN port : port[k] = port[j] => k = j
          /\ \A k \in DOMAIN port : port[k] # x
      BY <1>1 DEF Lists, NoDuplicate, OnPort, Has
    <3>2. /\ port' \in Seq(Reqs)
          /\ \A k, j \in DOMAIN port' : port'[k] = port'[j] => k = j
          /\ \A y : (\E k \in DOMAIN port' : port'[k] = y) <=> (\E k \in DOMAIN port : port[k] = y) \/ y = x
      BY <1>5, <3>1, AppendNode
    <3> QED BY <3>2, Zenon DEF NoDuplicate, Has
  <2>2. Lists'
    BY <2>1 DEF Lists, NoDuplicate, Has
  <2>3. \A r : OnPort(r)' <=> OnPort(r) \/ r = x
    BY <2>1 DEF OnPort, Has
  <2>4. \A r : InHand(r)' <=> InHand(r)
    BY <1>5 DEF InHand
  <2>5. Sole(x)' /\ Somewhere(x)'
    BY <1>1, <1>3, <1>5, <2>3, <2>4 DEF Somewhere, Sole, InHand
  <2>6. \A r \in Reqs : r # x => Aside(r)
    BY <1>2, <1>3, <1>5, <2>3 DEF Aside
  <2> QED BY <1>2, <2>2, <2>5, <2>6, Moved DEF Claim
<1> QED BY <1>4, <1>5

(* The unit task's next request. *)
LEMMA PortTaken == ASSUME Roles, Lists, Spread, GetMsg PROVE Lists' /\ Spread'
<1>0. PICK x \in Reqs : x = Head(port)
  BY HeadInPort DEF GetMsg
<1>1. /\ UNCHANGED <<queue, due, astray, lost>> /\ port # <<>> /\ port' = Tail(port)
      /\ req[Unit] = NoReq /\ Take(Unit, x)
  BY <1>0 DEF GetMsg, Roles, EmptyHanded
<1>2. /\ port' \in Seq(Reqs) /\ NoDuplicate(port') /\ OnPort(x)
      /\ \A r : Has(port', r) <=> Has(port, r) /\ r # x
  <2>1. port \in Seq(Reqs) /\ \A k, j \in DOMAIN port : port[k] = port[j] => k = j
    BY DEF Lists, NoDuplicate
  <2>2. /\ port' \in Seq(Reqs)
        /\ \A k, j \in DOMAIN port' : port'[k] = port'[j] => k = j
        /\ \A y : (\E k \in DOMAIN port' : port'[k] = y)
                  <=> (\E k \in DOMAIN port : port[k] = y) /\ y # x
    BY <1>0, <1>1, <2>1, TailNode
  <2>3. OnPort(x)
    BY <1>0, <1>1, HeadInPort DEF OnPort
  <2> QED BY <2>2, <2>3, Zenon DEF NoDuplicate, Has
<1>3. Lists'
  BY <1>1, <1>2 DEF Lists, NoDuplicate, Has
<1>4. /\ \A r : OnPort(r)' <=> OnPort(r) /\ r # x
      /\ \A r, n : OnQueue(r, n)' <=> OnQueue(r, n)
  BY <1>1, <1>2 DEF OnPort, OnQueue, Queues, Has
<1>5. \A u \in Tasks : \A r : req'[u] = r <=> IF u = Unit THEN r = x ELSE req[u] = r
  <2>1. Take(Unit, x) /\ Unit \in Tasks
    BY <1>1, Constants
  <2> QED BY <2>1, TakeEffect
<1>6. Sole(x) /\ Claim(x)
  BY DEF Spread
<1>7. Sole(x)' /\ Somewhere(x) /\ Somewhere(x)'
  BY <1>2, <1>4, <1>5, <1>6, Constants DEF Somewhere, Sole, InHand
<1>8. Claim(x)'
  BY <1>1, <1>6, <1>7 DEF Claim
<1>9. \A r \in Reqs : r # x => Aside(r)
  BY <1>1, <1>4, <1>5, Constants DEF Aside
<1> QED BY <1>3, <1>7, <1>8, <1>9, Moved

(* AbortIO. *)
LEMMA WithoutEffect ==
  ASSUME NEW s \in Seq(Reqs), NoDuplicate(s), NEW x \in Reqs
  PROVE  /\ Without(s, x) \in Seq(Reqs) /\ NoDuplicate(Without(s, x))
         /\ \A r : Has(Without(s, x), r) <=> Has(s, r) /\ r # x
<1>1. CASE ~Has(s, x)
  <2>1. Without(s, x) = s
    BY <1>1 DEF Without, Has
  <2> QED BY <1>1, <2>1
<1>2. CASE Has(s, x)
  <2>1. PICK i \in DOMAIN s : s[i] = x /\ Without(s, x) = RemoveAt(s, i)
    BY <1>2 DEF Without, Has
  <2>2. \A k, j \in DOMAIN s : s[k] = s[j] => k = j
    BY DEF NoDuplicate
  <2>3. /\ RemoveAt(s, i) \in Seq(Reqs)
        /\ \A k, j \in DOMAIN RemoveAt(s, i) : RemoveAt(s, i)[k] = RemoveAt(s, i)[j] => k = j
        /\ \A y : (\E k \in DOMAIN RemoveAt(s, i) : RemoveAt(s, i)[k] = y)
                  <=> (\E k \in DOMAIN s : s[k] = y) /\ y # s[i]
    BY <2>2, RemoveNode
  <2> QED BY <2>1, <2>3, Zenon DEF NoDuplicate, Has
<1> QED BY <1>1, <1>2

LEMMA AbortedListed ==
  ASSUME Lists, Ledger, Spread, NEW x \in Reqs, AbortIO(x), AbortListed(x)
  PROVE  Lists' /\ Spread' /\ \A r \in Reqs, n \in QueueNames : OnQueue(r, n)' => OnQueue(r, n)
<1>1. /\ due[x] = 1 /\ port' = Without(port, x) /\ UNCHANGED req /\ Complete({x})
      /\ queue' = [queue EXCEPT ![OpenerOf(x)] = [name \in QueueNames |-> Without(@[name], x)]]
      /\ UNCHANGED <<astray, lost>> /\ ~InHand(x) /\ x \notin lost
  BY DEF AbortIO, AbortListed
<1>2. /\ port' \in Seq(Reqs) /\ NoDuplicate(port')
      /\ \A r : Has(port', r) <=> Has(port, r) /\ r # x
  BY <1>1, WithoutEffect DEF Lists
<1>3. ASSUME NEW n \in QueueNames, NEW p \in Openers
      PROVE  /\ queue'[p][n] \in Seq(Reqs) /\ NoDuplicate(queue'[p][n])
             /\ \A r : Has(queue'[p][n], r) <=> Has(queue[p][n], r) /\ (p = OpenerOf(x) => r # x)
  <2>1. queue[p][n] \in Seq(Reqs) /\ NoDuplicate(queue[p][n])
    BY DEF Lists
  <2>2. CASE p = OpenerOf(x)
    <3>1. queue'[p][n] = Without(queue[p][n], x)
      BY <1>1, <2>2 DEF Lists
    <3> QED BY <2>1, <2>2, <3>1, WithoutEffect
  <2>3. CASE p # OpenerOf(x)
    <3>1. queue'[p][n] = queue[p][n]
      BY <1>1, <2>3 DEF Lists
    <3> QED BY <2>1, <2>3, <3>1
  <2> QED BY <2>2, <2>3
<1>4. queue' \in [Openers -> [QueueNames -> Seq(Reqs)]]
  <2>1. \A n \in QueueNames : Without(queue[OpenerOf(x)][n], x) \in Seq(Reqs)
    BY WithoutEffect, Constants DEF Lists
  <2> QED BY <1>1, <2>1 DEF Lists
<1>5. Lists'
  <2>1. \A o \in Openers, n \in QueueNames : \A r \in Reqs : Has(queue'[o][n], r) => OpenerOf(r) = o
    BY <1>3 DEF Lists
  <2> QED BY <1>2, <1>3, <1>4, <2>1 DEF Lists, NoDuplicate, Has
<1>6. \A r : OnPort(r)' <=> OnPort(r) /\ r # x
  BY <1>2 DEF OnPort, Has
<1>7. ASSUME NEW r \in Reqs, NEW n \in QueueNames PROVE OnQueue(r, n)' <=> OnQueue(r, n) /\ r # x
  <2>1. OnQueue(r, n)' <=> Has(queue'[OpenerOf(r)][n], r)
    BY DEF OnQueue, Has, Queues, OpenerOf
  <2> QED BY <1>3, <2>1, Constants DEF OnQueue, Queues
<1>8. \A r : InHand(r)' <=> InHand(r)
  BY <1>1 DEF InHand
<1>9. Sole(x)'
  BY <1>1, <1>6, <1>7, <1>8 DEF Sole, Spread
<1>10. due'[x] = 0 /\ \A r \in Reqs : r # x => due'[r] = due[r]
  BY <1>1, CompleteOne
<1>11. Claim(x)'
  BY <1>1, <1>6, <1>7, <1>8, <1>10 DEF Claim, Somewhere
<1>12. \A r \in Reqs : r # x => Aside(r)
  BY <1>1, <1>6, <1>7, <1>10 DEF Aside
<1> QED BY <1>5, <1>7, <1>9, <1>11, <1>12, Moved

(* What a second Remove does to the other requests: one it cuts off its list is
   nowhere, the others are where they were. *)
LEMMA HandCut ==
  ASSUME Lists, Spread, NEW x \in Reqs, AbortInHand(x), UNCHANGED req
  PROVE  /\ Lists'
         /\ \A r \in Reqs : OnPort(r)' => OnPort(r)
         /\ \A r \in Reqs, n \in QueueNames : OnQueue(r, n)' => OnQueue(r, n)
         /\ \A r \in Reqs \ astray : r \in lost' \ lost => Somewhere(r) /\ ~Somewhere(r)'
         /\ \A r \in Reqs \ astray : r \notin lost' \ lost => (OnPort(r)' <=> OnPort(r))
         /\ \A r \in Reqs \ astray, n \in QueueNames :
                r \notin lost' \ lost => (OnQueue(r, n)' <=> OnQueue(r, n))
         /\ lost \subseteq lost'
<1> DEFINE step == pc[Unit]
           s == HandList(x, step, orphan)
           name == HandQueue(orphan)
           o == OpenerOf(x)
<1>1. /\ s \in Seq(Reqs) /\ NoDuplicate(s) /\ name \in QueueNames /\ o \in Openers
  BY InHandList
<1>2. CASE UNCHANGED <<port, queue, lost>>
  BY <1>2, PortStays, QueuesStay
<1>3. ASSUME NEW e \in Joints(s), lost' = lost \cup (CutOff(s, e) \ astray),
             IF FromQueue(step)
             THEN queue' = [queue EXCEPT ![o][name] = Joined(s, e)] /\ UNCHANGED port
             ELSE port' = Joined(s, e) /\ UNCHANGED queue
      PROVE  /\ Lists'
             /\ \A r \in Reqs : OnPort(r)' => OnPort(r)
             /\ \A r \in Reqs, n \in QueueNames : OnQueue(r, n)' => OnQueue(r, n)
             /\ \A r \in Reqs \ astray : r \in lost' \ lost => Somewhere(r) /\ ~Somewhere(r)'
             /\ \A r \in Reqs \ astray : r \notin lost' \ lost => (OnPort(r)' <=> OnPort(r))
             /\ \A r \in Reqs \ astray, n \in QueueNames :
                    r \notin lost' \ lost => (OnQueue(r, n)' <=> OnQueue(r, n))
  <2> HIDE DEF step, name, o
  <2>1. PICK j \in Seq(Reqs), cut \in SUBSET Reqs : j = Joined(s, e) /\ cut = CutOff(s, e)
    BY <1>1, JoinEffect, CutOffListed
  <2>2. NoDuplicate(j) /\ (\A r : Has(j, r) <=> Has(s, r) /\ r \notin cut) /\ \A r \in cut : Has(s, r)
    BY <1>1, <2>1, JoinEffect, CutOffListed
  <2>3. ASSUME NEW r \in Reqs PROVE InHand(r)' <=> InHand(r)
    BY DEF InHand
  <2>4. \A r \in Reqs : r \in cut => r \in astray \/ r \in lost'
    BY <1>3, <2>1
  <2>5. \A r \in Reqs \ astray : r \in lost' \ lost => r \in cut
    BY <1>3, <2>1
  <2>6. \A r \in Reqs \ astray : Somewhere(r) => r \notin lost
    BY DEF Spread, Claim
  <2>7. CASE FromQueue(step)
    <3>1. UNCHANGED port /\ queue' = [queue EXCEPT ![o][name] = j] /\ s = queue[o][name]
      BY <1>3, <2>1, <2>7 DEF HandList, Queues, step, name, o
    <3>2. \A r \in Reqs : Has(j, r) => OpenerOf(r) = o
      BY <1>1, <2>2, <3>1 DEF Lists
    <3>3. /\ Lists'
          /\ \A r \in Reqs, n \in QueueNames :
                 OnQueue(r, n)' <=> IF n = name /\ OpenerOf(r) = o THEN Has(j, r) ELSE OnQueue(r, n)
      BY <1>1, <2>2, <3>1, <3>2, QueueEdit
    <3>4. \A r \in Reqs : OpenerOf(r) = o => (OnQueue(r, name) <=> Has(s, r))
      BY <3>1 DEF OnQueue, Queues
    <3>5. \A r \in Reqs : r \in cut => OpenerOf(r) = o
      BY <1>1, <2>2, <3>1 DEF Lists
    <3>6. \A r \in Reqs, n \in QueueNames :
              OnQueue(r, n)' <=> OnQueue(r, n) /\ ~(n = name /\ r \in cut)
      BY <1>1, <2>2, <3>3, <3>4, <3>5
    <3>7. \A r \in Reqs : OnPort(r)' <=> OnPort(r)
      BY <3>1, PortStays
    <3>8. ASSUME NEW r \in Reqs, r \in cut PROVE Somewhere(r) /\ ~Somewhere(r)'
      <4>1. OnQueue(r, name) /\ Sole(r)
        BY <2>2, <3>4, <3>5, <3>8 DEF Spread
      <4>2. ~OnPort(r)' /\ ~InHand(r)'
        BY <1>1, <2>3, <3>7, <4>1 DEF Sole
      <4>3. \A n \in QueueNames : ~OnQueue(r, n)'
        BY <1>1, <3>6, <3>8, <4>1 DEF Sole
      <4> QED BY <1>1, <4>1, <4>2, <4>3 DEF Somewhere
    <3> QED BY <2>4, <2>5, <2>6, <3>3, <3>6, <3>7, <3>8
  <2>8. CASE ~FromQueue(step)
    <3>1. UNCHANGED queue /\ port' = j /\ s = port
      BY <1>3, <2>1, <2>8 DEF HandList, step
    <3>2. Lists'
      BY <2>1, <2>2, <3>1 DEF Lists, NoDuplicate, Has
    <3>3. \A r \in Reqs : OnPort(r)' <=> OnPort(r) /\ r \notin cut
      BY <2>2, <3>1 DEF OnPort, Has
    <3>4. \A r \in Reqs, n \in QueueNames : OnQueue(r, n)' <=> OnQueue(r, n)
      BY <3>1 DEF OnQueue, Queues, Has
    <3>5. ASSUME NEW r \in Reqs, r \in cut PROVE Somewhere(r) /\ ~Somewhere(r)'
      <4>1. OnPort(r) /\ Sole(r)
        BY <2>2, <3>1, <3>5 DEF OnPort, Spread
      <4>2. ~OnPort(r)' /\ ~InHand(r)' /\ \A n \in QueueNames : ~OnQueue(r, n)'
        BY <2>3, <3>3, <3>4, <3>5, <4>1 DEF Sole
      <4> QED BY <4>1, <4>2 DEF Somewhere
    <3> QED BY <2>4, <2>5, <2>6, <3>2, <3>3, <3>4, <3>5
  <2> QED BY <2>7, <2>8
<1>4. lost \subseteq lost'
  BY DEF AbortInHand
<1> QED BY <1>2, <1>3, <1>4 DEF AbortInHand

LEMMA AbortedInHand ==
  ASSUME Lists, Ledger, Spread, NEW x \in Reqs, AbortIO(x), AbortInHand(x)
  PROVE  Lists' /\ Spread' /\ \A r \in Reqs, n \in QueueNames : OnQueue(r, n)' => OnQueue(r, n)
<1>1. /\ Complete({x}) /\ UNCHANGED req /\ astray' = astray \cup {x}
  BY DEF AbortIO, AbortInHand
<1>2. \A r \in Reqs : r # x => due'[r] = due[r]
  BY <1>1, CompleteOne
<1>3. Lists' /\ lost \subseteq lost'
  BY <1>1, HandCut
<1>4. /\ \A r \in Reqs : OnPort(r)' => OnPort(r)
      /\ \A r \in Reqs, n \in QueueNames : OnQueue(r, n)' => OnQueue(r, n)
  BY <1>1, HandCut
<1>5. \A r \in Reqs \ astray : r \in lost' \ lost => Somewhere(r) /\ ~Somewhere(r)'
  BY <1>1, HandCut
<1>6. /\ \A r \in Reqs \ astray : r \notin lost' \ lost => (OnPort(r)' <=> OnPort(r))
      /\ \A r \in Reqs \ astray, n \in QueueNames :
             r \notin lost' \ lost => (OnQueue(r, n)' <=> OnQueue(r, n))
  BY <1>1, HandCut
<1>7. ASSUME NEW r \in Reqs PROVE Sole(r)' /\ Claim(r)'
  <2>1. Sole(r) /\ Claim(r)
    BY DEF Spread
  <2>2. InHand(r)' <=> InHand(r)
    BY <1>1 DEF InHand
  <2>3. Sole(r)'
    <3>1. OnPort(r)' => OnPort(r)
      BY <1>4
    <3>2. \A n \in QueueNames : OnQueue(r, n)' => OnQueue(r, n)
      BY <1>4
    <3>3. req' = req
      BY <1>1
    <3> QED BY <2>1, <2>2, <3>1, <3>2, <3>3 DEF Sole
  <2>4. ASSUME r \in astray' PROVE Claim(r)'
    BY <2>4 DEF Claim
  <2>5. ASSUME r \notin astray', r \in lost' \ lost PROVE Claim(r)'
    <3>1. due'[r] = due[r] /\ r \notin astray
      BY <1>1, <1>2, <2>5
    <3>2. Somewhere(r) /\ ~Somewhere(r)'
      BY <1>5, <2>5, <3>1
    <3> QED BY <2>1, <2>5, <3>1, <3>2 DEF Claim
  <2>6. ASSUME r \notin astray', r \notin lost' \ lost PROVE Claim(r)'
    <3>1. due'[r] = due[r] /\ r \notin astray
      BY <1>1, <1>2, <2>6
    <3>2. Somewhere(r)' <=> Somewhere(r)
      BY <1>6, <2>2, <2>6, <3>1 DEF Somewhere
    <3>3. r \in lost' <=> r \in lost
      BY <1>3, <2>6
    <3> QED BY <2>1, <3>1, <3>2, <3>3 DEF Claim
  <2> QED BY <2>3, <2>4, <2>5, <2>6
<1>8. Spread'
  BY <1>7 DEF Spread
<1> QED BY <1>3, <1>4, <1>8

LEMMA Aborted ==
  ASSUME Lists, Ledger, Spread, NEW x \in Reqs, AbortIO(x)
  PROVE  Lists' /\ Spread' /\ \A r \in Reqs, n \in QueueNames : OnQueue(r, n)' => OnQueue(r, n)
<1>1. CASE AbortLost(x)
  <2>1. /\ due[x] = 1 /\ Complete({x}) /\ UNCHANGED <<port, queue, req, astray>>
        /\ x \in lost /\ lost' = lost \ {x}
    BY <1>1 DEF AbortIO, AbortLost
  <2>2. /\ Lists' /\ \A r : OnPort(r)' <=> OnPort(r)
        /\ \A r, n : OnQueue(r, n)' <=> OnQueue(r, n)
    BY <2>1, PortStays, QueuesStay
  <2>3. due'[x] = 0 /\ \A r \in Reqs : r # x => due'[r] = due[r]
    BY <2>1, CompleteOne
  <2>4. \A r \in Reqs : r # x => Aside(r)
    BY <2>1, <2>2, <2>3 DEF Aside
  <2>5. Sole(x) /\ Claim(x) /\ (InHand(x)' <=> InHand(x))
    BY <2>1 DEF Spread, InHand
  <2>6. Sole(x)' /\ (Somewhere(x)' <=> Somewhere(x))
    BY <2>1, <2>2, <2>5 DEF Sole, Somewhere
  <2>7. Claim(x)'
    BY <2>1, <2>3, <2>5, <2>6 DEF Claim
  <2> QED BY <2>2, <2>4, <2>6, <2>7, Moved
<1> QED BY <1>1, AbortedListed, AbortedInHand DEF AbortIO

(* CMD_FLUSH and S2_OFFLINE: all that waits on a list goes back at once. *)
LEMMA Flushed ==
  ASSUME Ledger, Spread, NEW rs, Complete(rs), UNCHANGED <<req, astray, lost>>,
         \A r \in Reqs : r \in rs => (OnPort(r) \/ \E n \in QueueNames : OnQueue(r, n)),
         \A r \in Reqs : OnPort(r)' <=> OnPort(r) /\ r \notin rs,
         \A r \in Reqs, n \in QueueNames : OnQueue(r, n)' <=> OnQueue(r, n) /\ r \notin rs
  PROVE  Spread'
<1>1. ASSUME NEW r \in Reqs, r \in rs PROVE Sole(r)' /\ Claim(r)'
  <2>1. Sole(r) /\ Claim(r) /\ Somewhere(r) /\ ~InHand(r)
    BY <1>1 DEF Spread, Sole, Somewhere
  <2>2. ~InHand(r)'
    BY <2>1 DEF InHand
  <2>3. ~Somewhere(r)'
    BY <1>1, <2>2 DEF Somewhere
  <2>4. due'[r] = due[r] - 1
    BY <1>1 DEF Complete
  <2>5. Claim(r)'
    BY <2>1, <2>3, <2>4 DEF Claim
  <2>6. Sole(r)'
    BY <1>1, <2>1 DEF Sole
  <2> QED BY <2>5, <2>6
<1>2. ASSUME NEW r \in Reqs, r \notin rs PROVE Sole(r)' /\ Claim(r)'
  <2>1. Aside(r)
    BY <1>2, CompleteEffect DEF Aside
  <2> QED BY <2>1, AsideKept DEF Spread
<1> QED BY <1>1, <1>2 DEF Spread

LEMMA PortFlushed ==
  ASSUME Lists, Ledger, Spread, Complete(Range(port)), port' = <<>>, UNCHANGED <<queue, req, astray, lost>>
  PROVE  Lists' /\ Spread'
<1>1. Lists'
  BY DEF Lists, NoDuplicate, Has
<1>2. \A r : r \in Range(port) <=> OnPort(r)
  BY DEF Range, OnPort, Has
<1>3. \A r : ~OnPort(r)'
  BY DEF OnPort, Has
<1>4. \A r, n : OnQueue(r, n)' <=> OnQueue(r, n)
  BY DEF OnQueue, Queues, Has
<1>5. \A r \in Reqs, n \in QueueNames : OnQueue(r, n)' <=> OnQueue(r, n) /\ r \notin Range(port)
  BY <1>2, <1>4 DEF Spread, Sole
<1> QED BY <1>1, <1>2, <1>3, <1>5, Flushed

LEMMA QueueFlushed ==
  ASSUME Roles, Lists, Work, Ledger, Spread, FlushOpener PROVE Lists' /\ Spread'
<1>1. PICK o \in Openers :
        /\ Complete(UNION {Range(queue[o][name]) : name \in QueueNames})
        /\ queue' = [queue EXCEPT ![o] = [name \in QueueNames |-> <<>>]]
  BY WorkList, Constants DEF FlushOpener
<1>2. PICK rs : rs = UNION {Range(queue[o][name]) : name \in QueueNames}
  OBVIOUS
<1>3. UNCHANGED <<port, req, astray, lost>> /\ Complete(rs)
  BY <1>1, <1>2 DEF FlushOpener
<1>4. \A p \in Openers, n \in QueueNames : queue'[p][n] = IF p = o THEN <<>> ELSE queue[p][n]
  BY <1>1 DEF Lists
<1>5. Lists'
  <2>1. queue' \in [Openers -> [QueueNames -> Seq(Reqs)]]
    BY <1>1 DEF Lists
  <2>2. \A p \in Openers, n \in QueueNames :
            /\ NoDuplicate(queue'[p][n])
            /\ \A r \in Reqs : Has(queue'[p][n], r) => OpenerOf(r) = p
    BY <1>4 DEF Lists, NoDuplicate, Has
  <2> QED BY <1>3, <2>1, <2>2 DEF Lists, NoDuplicate, Has
<1>6. \A r : r \in rs <=> \E n \in QueueNames : Has(queue[o][n], r)
  BY <1>2 DEF Range, Has
<1>7. ASSUME NEW r \in Reqs
      PROVE  r \in rs <=> OpenerOf(r) = o /\ \E n \in QueueNames : OnQueue(r, n)
  BY <1>6 DEF OnQueue, Queues, Lists
<1>8. ASSUME NEW r \in Reqs, NEW n \in QueueNames PROVE OnQueue(r, n)' <=> OnQueue(r, n) /\ r \notin rs
  <2>1. OnQueue(r, n)' <=> Has(queue'[OpenerOf(r)][n], r)
    BY DEF OnQueue, Has, Queues, OpenerOf
  <2>2. OnQueue(r, n) <=> Has(queue[OpenerOf(r)][n], r)
    BY DEF OnQueue, Queues
  <2>3. CASE OpenerOf(r) = o
    BY <1>4, <1>7, <2>1, <2>3, Constants DEF Has
  <2>4. CASE OpenerOf(r) # o
    BY <1>4, <1>7, <2>1, <2>2, <2>4, Constants
  <2> QED BY <2>3, <2>4
<1>9. \A r \in Reqs : OnPort(r)' <=> OnPort(r) /\ r \notin rs
  BY <1>3, <1>7, PortStays DEF Spread, Sole
<1> QED BY <1>3, <1>5, <1>7, <1>8, <1>9, Flushed

(* No step loses a request or answers it twice. *)
LEMMA SpreadKept ==
  ASSUME Roles, Lists, Work, Ledger, Spread, Step PROVE Lists' /\ Spread'
<1>0. \A t \in Tasks : pc[t] \in CommandSteps => req[t] \in Reqs
  BY Constants DEF Roles, CommandSteps, EmptyHanded, ClientSteps, UnitSteps
<1>1. ASSUME NEW c \in Readers, NEW r \in Reqs, BeginIOQuick(c, r) \/ BeginIOQueue(c, r)
      PROVE  Lists' /\ Spread'
  <2>1. c \in Clients /\ Sendable(r) /\ due' = [due EXCEPT ![r] = 1] /\ UNCHANGED <<queue, astray, lost>>
    BY <1>1 DEF BeginIOQuick, BeginIOQueue, Clients
  <2>2. \/ req[c] = NoReq /\ Take(c, r) /\ UNCHANGED port
        \/ port' = Append(port, r) /\ UNCHANGED req
    BY <1>1, <2>1 DEF BeginIOQuick, BeginIOQueue, Roles
  <2> QED BY <2>1, <2>2, Sent
<1>2. ASSUME NEW t \in Tasks, ReadOffline(t) PROVE Lists' /\ Spread'
  <2>1. req[t] \in Reqs /\ Take(t, NoReq) /\ Complete({req[t]}) /\ UNCHANGED <<port, queue, astray, lost>>
    BY <1>0, <1>2 DEF ReadOffline, LeaveRead, CommandSteps
  <2> QED BY <2>1, HandDone
<1>3. ASSUME NEW t \in Tasks, ReadAppend(t) PROVE Lists' /\ Spread'
  <2>1. req[t] \in Reqs /\ Take(t, NoReq) /\ UNCHANGED <<port, due, astray, lost>>
        /\ Enqueue(req[t], GetPacketTypeQueue(Request[req[t]].type))
    BY <1>0, <1>3 DEF ReadAppend, LeaveRead, Pending, CommandSteps
  <2>2. GetPacketTypeQueue(Request[req[t]].type) \in QueueNames
    BY <2>1, Constants
  <2> QED BY <2>1, <2>2, HandQueued
<1>4. ASSUME NEW t \in Tasks, ReadAccepted(t) PROVE Lists' /\ Spread'
  <2>1. UNCHANGED <<port, queue, req, due, astray, lost>>
    BY <1>4 DEF ReadAccepted, reqVars
  <2> QED BY <2>1, NothingMoves
<1>5. ASSUME NEW c \in Clients, WriteFails(c) \/ WriteFailed(c) PROVE Lists' /\ Spread'
  <2>1. UNCHANGED <<port, queue, req, due, astray, lost>>
    BY <1>5 DEF WriteFails, WriteFailed, reqVars
  <2> QED BY <2>1, NothingMoves
<1>6. ASSUME NEW t \in Tasks, ReportOpener(t) PROVE Lists' /\ Spread'
  <2>1. Head(walk[t]) \in Openers /\ "eventQueue" \in QueueNames
    BY <1>6, WorkList DEF ReportOpener, QueueNames
  <2>2. PICK o \in Openers :
          \/ UNCHANGED <<queue, due>>
          \/ \E i \in DOMAIN queue[o]["eventQueue"] :
                 /\ Dequeue(o, "eventQueue", i) /\ Complete({queue[o]["eventQueue"][i]})
    BY <1>6, <2>1 DEF ReportOpener, Pending
  <2>3. UNCHANGED <<port, req, astray, lost>>
    BY <1>6 DEF ReportOpener
  <2>4. CASE UNCHANGED <<queue, due>>
    BY <2>3, <2>4, NothingMoves
  <2> QED BY <2>1, <2>2, <2>3, <2>4, QueueDone
<1>7. CASE GetMsg
  BY <1>7, PortTaken
<1>8. CASE ReadOrphan \/ OnEvent
  <2>1. req[Unit] \in Reqs /\ Unit \in Tasks /\ Take(Unit, NoReq) /\ UNCHANGED <<port, astray, lost>>
    BY <1>0, <1>8, Constants DEF ReadOrphan, OnEvent, Answer, CommandSteps
  <2>2. \/ Complete({req[Unit]}) /\ UNCHANGED queue
        \/ UNCHANGED due /\ \E name \in QueueNames : Enqueue(req[Unit], name)
    BY <1>8 DEF ReadOrphan, OnEvent, Pending, QueueNames
  <2>3. CASE Complete({req[Unit]}) /\ UNCHANGED queue
    BY <2>1, <2>3, HandDone
  <2>4. CASE UNCHANGED due /\ \E name \in QueueNames : Enqueue(req[Unit], name)
    BY <2>1, <2>4, HandQueued
  <2> QED BY <2>2, <2>3, <2>4
<1>9. CASE CmdFlush \/ CmdOffline
  <2>1. Complete(Range(port)) /\ port' = <<>> /\ UNCHANGED <<queue, req, astray, lost>>
    BY <1>9 DEF CmdFlush, CmdOffline, Flush
  <2> QED BY <2>1, PortFlushed
<1>10. CASE FlushOpener
  BY <1>10, QueueFlushed
<1>11. CASE CmdOnline \/ FlushDone \/ UnitOffline \/ EthStop \/ CopyFails \/ StateReported
  <2>1. UNCHANGED <<port, queue, req, due, astray, lost>>
    BY <1>11 DEF CmdOnline, FlushDone, UnitOffline, EthStop, CopyFails, StateReported, reqVars
  <2> QED BY <2>1, NothingMoves
<1>12. CASE (\E type \in Types : ReceiveFrame(type)) \/ Delivered \/ NobodyTookIt \/ Offered
  <2>1. UNCHANGED <<port, queue, req, due, astray, lost>>
    BY <1>12 DEF ReceiveFrame, Delivered, NobodyTookIt, Offered, FrameDone, reqVars
  <2> QED BY <2>1, NothingMoves
<1>13. CASE Deliver \/ Offer
  <2>1. req[Unit] = NoReq /\ UNCHANGED <<port, due, astray, lost>> /\ Head(todo) \in Openers
    BY <1>13, WorkList DEF Deliver, Offer, Roles, EmptyHanded
  <2>2. PICK o \in Openers, name \in QueueNames :
          \/ UNCHANGED <<queue, req>>
          \/ \E i \in DOMAIN queue[o][name] : Dequeue(o, name, i) /\ Take(Unit, queue[o][name][i])
    <3>1. CASE Deliver
      <4>1. GetPacketTypeQueue(frame) \in QueueNames
        BY DEF GetPacketTypeQueue, QueueNames
      <4> QED BY <2>1, <3>1, <4>1 DEF Deliver
    <3>2. CASE Offer
      <4>1. "orphanQueue" \in QueueNames
        BY DEF QueueNames
      <4> QED BY <2>1, <3>2, <4>1, HeadInQueue DEF Offer
    <3> QED BY <1>13, <3>1, <3>2
  <2>3. CASE UNCHANGED <<queue, req>>
    BY <2>1, <2>3, NothingMoves
  <2> QED BY <2>1, <2>2, <2>3, QueueTaken
<1>14. CASE CopyPacket \/ CopyFiltered \/ CopyReported
  <2>1. req[Unit] \in Reqs /\ Unit \in Tasks /\ Take(Unit, NoReq) /\ UNCHANGED <<port, queue, astray>>
    BY <1>0, <1>14, Constants DEF CopyPacket, CopyFiltered, CopyReported, CopyReturns, CommandSteps, Roles
  <2>2. \/ Complete({req[Unit]}) /\ UNCHANGED lost
        \/ UNCHANGED due /\ lost' = lost \cup ({req[Unit]} \ astray)
    BY <1>14 DEF CopyPacket, CopyFiltered, CopyReported, Pending
  <2> QED BY <2>1, <2>2, HandDone
<1>15. ASSUME NEW r \in Reqs, AbortIO(r) PROVE Lists' /\ Spread'
  BY <1>15, Aborted
<1> QED
  BY <1>1, <1>2, <1>3, <1>4, <1>5, <1>6, <1>7, <1>8, <1>9, <1>10, <1>11, <1>12, <1>13, <1>14, <1>15,
     Constants
  DEF Step, Handling, ClientStep, ReadStep, UnitWork, CommandStep, FlushStep, ReceiveStep, ReportStep, Clients

(***************************************************************************)
(* No reader passed over, no change of state missed: what the queues may   *)
(* gain while the unit task is at work.                                    *)
(***************************************************************************)
(* A request joins the queue of its type, or of its command; while a frame is being
   received it is remembered as late, and no listener for the present state joins. *)
Joins(r, n) ==
    /\ frame # NoReq => r \in late'
    /\ \/ n = GetPacketTypeQueue(Request[r].type)
       \/ n = "orphanQueue"
       \/ /\ n = "eventQueue" /\ pc[Unit] = "event" /\ r = req[Unit]
          /\ unitState \notin Request[r].mask

LEMMA GrowsByOne ==
  ASSUME Roles, Lists, Spread, NEW t \in Tasks, req[t] \in Reqs, NEW name \in QueueNames,
         Enqueue(req[t], name), UNCHANGED port, Joins(req[t], name)
  PROVE  \A r \in Reqs, n \in QueueNames : OnQueue(r, n)' => OnQueue(r, n) \/ Joins(r, n)
<1>1. ~OnQueue(req[t], name)
  BY DEF Spread, Sole, InHand
<1>2. \A r \in Reqs, n \in QueueNames : OnQueue(r, n)' <=> OnQueue(r, n) \/ (n = name /\ r = req[t])
  BY <1>1, EnqueueEffect
<1> QED BY <1>2

LEMMA QueuesGrow ==
  ASSUME Roles, Lists, Work, Ledger, Spread, Step
  PROVE  \A r \in Reqs, n \in QueueNames : OnQueue(r, n)' => OnQueue(r, n) \/ Joins(r, n)
<1> DEFINE Goal == \A r \in Reqs, n \in QueueNames : OnQueue(r, n)' => OnQueue(r, n) \/ Joins(r, n)
<1> SUFFICES Goal
  OBVIOUS
<1>1. \A t \in Tasks : pc[t] \in CommandSteps => req[t] \in Reqs
  BY Constants DEF Roles, CommandSteps, EmptyHanded, ClientSteps, UnitSteps
<1>2. UNCHANGED queue => Goal
  BY DEF OnQueue, Queues, Has
<1>3. ASSUME UNCHANGED port, NEW o \in Openers, NEW name \in QueueNames,
             NEW i \in DOMAIN queue[o][name], Dequeue(o, name, i)
      PROVE  Goal
  BY <1>3, DequeueEffect
<1>4. ASSUME NEW t \in Tasks, ReadAppend(t) PROVE Goal
  <2>1. /\ req[t] \in Reqs /\ UNCHANGED port
        /\ Enqueue(req[t], GetPacketTypeQueue(Request[req[t]].type))
    BY <1>1, <1>4 DEF ReadAppend, LeaveRead, CommandSteps
  <2>2. GetPacketTypeQueue(Request[req[t]].type) \in QueueNames
    BY <2>1, Constants
  <2>3. Joins(req[t], GetPacketTypeQueue(Request[req[t]].type))
    BY <2>1 DEF Joins, Enqueue
  <2> QED BY <2>1, <2>2, <2>3, GrowsByOne
<1>5. CASE ReadOrphan \/ OnEvent
  <2>1. req[Unit] \in Reqs /\ Unit \in Tasks /\ UNCHANGED port
    BY <1>1, <1>5, Constants DEF ReadOrphan, OnEvent, Answer, CommandSteps
  <2>2. \/ UNCHANGED queue
        \/ \E name \in QueueNames : Enqueue(req[Unit], name) /\ Joins(req[Unit], name)
    BY <1>5 DEF ReadOrphan, OnEvent, QueueNames, Joins, Enqueue
  <2> QED BY <1>2, <2>1, <2>2, GrowsByOne
<1>6. ASSUME NEW t \in Tasks, ReportOpener(t) PROVE Goal
  <2>1. Head(walk[t]) \in Openers /\ "eventQueue" \in QueueNames /\ UNCHANGED port
    BY <1>6, WorkList DEF ReportOpener, QueueNames
  <2>2. \/ UNCHANGED queue
        \/ \E i \in DOMAIN queue[Head(walk[t])]["eventQueue"] : Dequeue(Head(walk[t]), "eventQueue", i)
    BY <1>6 DEF ReportOpener
  <2> QED BY <1>2, <1>3, <2>1, <2>2
<1>7. CASE Deliver
  <2>1. Head(todo) \in Openers /\ GetPacketTypeQueue(frame) \in QueueNames /\ UNCHANGED port
    BY <1>7, WorkList DEF Deliver, GetPacketTypeQueue, QueueNames
  <2>2. \/ UNCHANGED queue
        \/ \E i \in DOMAIN queue[Head(todo)][GetPacketTypeQueue(frame)] :
               Dequeue(Head(todo), GetPacketTypeQueue(frame), i)
    BY <1>7 DEF Deliver
  <2> QED BY <1>2, <1>3, <2>1, <2>2
<1>8. CASE Offer
  <2>1. Head(todo) \in Openers /\ "orphanQueue" \in QueueNames /\ UNCHANGED port
    BY <1>8, WorkList DEF Offer, QueueNames
  <2>2. \/ UNCHANGED queue
        \/ \E i \in DOMAIN queue[Head(todo)]["orphanQueue"] : Dequeue(Head(todo), "orphanQueue", i)
    BY <1>8, <2>1, HeadInQueue DEF Offer
  <2> QED BY <1>2, <1>3, <2>1, <2>2
<1>9. CASE FlushOpener
  <2>1. Head(walk[Unit]) \in Openers
        /\ queue' = [queue EXCEPT ![Head(walk[Unit])] = [name \in QueueNames |-> <<>>]]
    BY <1>9, WorkList, Constants DEF FlushOpener
  <2>2. ASSUME NEW o \in Openers, NEW n \in QueueNames PROVE queue'[o][n] \in {<<>>, queue[o][n]}
    BY <2>1 DEF Lists
  <2>3. ASSUME NEW r \in Reqs, NEW n \in QueueNames, OnQueue(r, n)' PROVE OnQueue(r, n)
    <3>1. Has(queue'[OpenerOf(r)][n], r) /\ OpenerOf(r) \in Openers
      BY <2>3, Constants DEF OnQueue, Has, Queues, OpenerOf
    <3>2. queue'[OpenerOf(r)][n] = queue[OpenerOf(r)][n]
      BY <2>2, <3>1 DEF Has
    <3> QED BY <3>1, <3>2 DEF OnQueue, Queues
  <2> QED BY <2>3
<1>10. ASSUME NEW x \in Reqs, AbortIO(x) PROVE Goal
  BY <1>10, Aborted
<1>11. ASSUME NEW c \in Readers, NEW r \in Reqs, BeginIOQuick(c, r) \/ BeginIOQueue(c, r)
       PROVE  Goal
  BY <1>2, <1>11 DEF BeginIOQuick, BeginIOQueue
<1>12. ASSUME NEW t \in Tasks, ReadOffline(t) \/ ReadAccepted(t) \/ WriteFails(t) \/ WriteFailed(t)
       PROVE  Goal
  BY <1>2, <1>12 DEF ReadOffline, ReadAccepted, WriteFails, WriteFailed, LeaveRead, reqVars
<1>13. CASE GetMsg \/ CmdFlush \/ CmdOffline \/ CmdOnline \/ \E type \in Types : ReceiveFrame(type)
  BY <1>2, <1>13 DEF GetMsg, CmdFlush, CmdOffline, Flush, CmdOnline, ReceiveFrame, reqVars
<1>14. CASE FlushDone \/ UnitOffline \/ EthStop \/ Delivered \/ NobodyTookIt \/ Offered
  BY <1>2, <1>14
  DEF FlushDone, UnitOffline, EthStop, Delivered, NobodyTookIt, Offered, FrameDone, reqVars
<1>15. CASE CopyPacket \/ CopyFiltered \/ CopyFails \/ CopyReported \/ StateReported
  BY <1>2, <1>15 DEF CopyPacket, CopyFiltered, CopyFails, CopyReported, StateReported, CopyReturns, reqVars
<1> HIDE DEF Goal
<1>16. ASSUME NEW c \in Clients, ClientStep(c) PROVE Goal
  BY <1>2, <1>4, <1>6, <1>12, <1>16, Constants DEF ClientStep, ReadStep
<1>17. CASE UnitWork
  <2>1. ASSUME ReadStep(Unit) PROVE Goal
    BY <1>2, <1>4, <1>12, <2>1, Constants DEF ReadStep
  <2> QED
    BY <1>5, <1>6, <1>7, <1>8, <1>9, <1>14, <1>15, <1>17, <2>1, Constants
    DEF UnitWork, CommandStep, FlushStep, ReceiveStep, ReportStep
<1> QED BY <1>2, <1>10, <1>11, <1>12, <1>13, <1>16, <1>17, Constants DEF Step, Handling, Clients

(* Reads wait on the queue of their type. *)
ReadQueues == QueueNames \ {"orphanQueue", "eventQueue"}
Sorted == \A r \in Reqs, n \in ReadQueues : OnQueue(r, n) => GetPacketTypeQueue(Request[r].type) = n

LEMMA SortedKept == ASSUME Roles, Lists, Work, Ledger, Spread, Sorted, Step PROVE Sorted'
<1> SUFFICES ASSUME NEW r \in Reqs, NEW n \in ReadQueues, OnQueue(r, n)'
             PROVE  GetPacketTypeQueue(Request[r].type) = n
  BY DEF Sorted, ReadQueues, QueueNames, GetPacketTypeQueue
<1>1. n \in QueueNames /\ n \notin {"orphanQueue", "eventQueue"}
  BY DEF ReadQueues
<1>2. OnQueue(r, n) \/ Joins(r, n)
  BY <1>1, QueuesGrow
<1> QED BY <1>1, <1>2 DEF Sorted, Joins

(* While a frame may yet be an orphan, every opener is still to be asked or had no
   read for it when it arrived. *)
Clear(o) == \A r \in Reqs, n \in ReadQueues :
                OnQueue(r, n) /\ OpenerOf(r) = o /\ r \notin late => ~Wants(r, frame)
Passing ==
    orphan =>
        /\ frame \in Types /\ pc[Unit] \in {"deliver", "offer", "copy", "report"}
        /\ pc[Unit] = "report" => req[Unit] # NoReq
        /\ \A o \in Openers : Clear(o) \/ (pc[Unit] = "deliver" /\ Has(todo, o))

LEMMA ClearKept ==
  ASSUME Roles, Lists, Work, Ledger, Spread, Step, frame # NoReq, frame' = frame, late \subseteq late',
         NEW o \in Openers, Clear(o)
  PROVE  Clear(o)'
<1> SUFFICES ASSUME NEW r \in Reqs, NEW n \in ReadQueues, OnQueue(r, n)', OpenerOf(r) = o, r \notin late'
             PROVE  ~Wants(r, frame)
  BY DEF Clear, Wants, OpenerOf, ReadQueues, QueueNames
<1>1. n \in QueueNames
  BY DEF ReadQueues
<1>2. OnQueue(r, n) \/ Joins(r, n)
  BY <1>1, QueuesGrow
<1>3. OnQueue(r, n) /\ r \notin late
  BY <1>2 DEF Joins
<1> QED BY <1>3 DEF Clear

(* An opener that is asked and has no matching read is clear: a read for the frame
   would be on the queue that was searched. *)
LEMMA AskedIsClear ==
  ASSUME Lists, Sorted, NEW o \in Openers, frame \in Types,
         \A i \in DOMAIN queue[o][GetPacketTypeQueue(frame)] :
             ~Matches(queue[o][GetPacketTypeQueue(frame)][i], frame)
  PROVE  Clear(o)
<1> SUFFICES ASSUME NEW r \in Reqs, NEW n \in ReadQueues, OnQueue(r, n), OpenerOf(r) = o, Wants(r, frame)
             PROVE  FALSE
  BY DEF Clear
<1>1. n = GetPacketTypeQueue(Request[r].type)
  BY DEF Sorted
<1>2. n = GetPacketTypeQueue(frame)
  BY <1>1, TypeAssumption DEF Wants, GetPacketTypeQueue
<1>3. PICK i \in DOMAIN queue[o][n] : queue[o][n][i] = r
  BY DEF OnQueue, Has, Queues
<1>4. Matches(r, frame)
  BY DEF Wants, Matches
<1> QED BY <1>2, <1>3, <1>4

LEMMA AskedNext ==
  ASSUME Work, todo # <<>>, NEW o, Has(todo, o)
  PROVE  o = Head(todo) \/ Has(Tail(todo), o)
<1>1. todo \in Seq(Openers)
  BY DEF Work
<1>2. PICK i \in 1 .. Len(todo) : todo[i] = o
  BY <1>1 DEF Has
<1>3. CASE i = 1
  BY <1>1, <1>2, <1>3
<1>4. CASE i # 1
  <2>1. i - 1 \in DOMAIN Tail(todo) /\ Tail(todo)[i - 1] = todo[(i - 1) + 1] /\ (i - 1) + 1 = i
    BY <1>1, <1>2, <1>4
  <2> QED BY <1>2, <2>1 DEF Has
<1> QED BY <1>3, <1>4

LEMMA EveryOpener == \A o \in Openers : Has(OpenerList, o)
  BY DEF Openers, Range, Has

(* A step that leaves the frame where it is. *)
LEMMA PassingStays ==
  ASSUME Passing, UNCHANGED <<frame, orphan, todo>>, pc'[Unit] = pc[Unit], req'[Unit] = req[Unit],
         \A o \in Openers : orphan /\ Clear(o) => Clear(o)'
  PROVE  Passing'
  BY DEF Passing, Has

LEMMA PassingKept ==
  ASSUME Roles, Lists, Work, Ledger, Spread, Sorted, Passing, Step PROVE Passing'
<1>1. ASSUME orphan, UNCHANGED frame, late \subseteq late', NEW o \in Openers, Clear(o)
      PROVE  Clear(o)'
  BY <1>1, ClearKept, TypeAssumption DEF Passing
<1>2. ~orphan' => Passing'
  BY DEF Passing
<1>3. \A r \in Reqs : \A name : orphan /\ Enqueue(r, name) => late \subseteq late'
  BY TypeAssumption DEF Passing, Enqueue
<1>4. \A t \in Tasks : pc[t] \in CommandSteps => req[t] \in Reqs
  BY Constants DEF Roles, CommandSteps, EmptyHanded, ClientSteps, UnitSteps
(* Everything done by a client, or by anyone to the port and the queues. *)
<1>5. ASSUME NEW c \in Readers, NEW r \in Reqs, BeginIOQuick(c, r) \/ BeginIOQueue(c, r)
      PROVE  Passing'
  <2>1. c \in Clients /\ pc'[Unit] = pc[Unit] /\ req'[Unit] = req[Unit] /\ UNCHANGED <<late, frame, orphan, todo>>
    BY <1>5, Constants DEF BeginIOQuick, BeginIOQueue, Goto, Take, frameVars, Clients, Roles
  <2> QED BY <1>1, <2>1, PassingStays
<1>6. ASSUME NEW c \in Clients, ReadStep(c) PROVE Passing'
  <2>1. pc'[Unit] = pc[Unit] /\ req'[Unit] = req[Unit] /\ UNCHANGED <<frame, orphan, todo>>
    BY <1>6, Constants
    DEF ReadStep, ReadOffline, ReadAccepted, ReadAppend, LeaveRead, Goto, Take, frameVars, Roles
  <2>2. orphan => late \subseteq late'
    BY <1>3, <1>4, <1>6, Constants
    DEF ReadStep, ReadOffline, ReadAccepted, ReadAppend, LeaveRead, CommandSteps, reqVars
  <2> QED BY <1>1, <2>1, <2>2, PassingStays
<1>7. ASSUME NEW r \in Reqs, AbortIO(r) PROVE Passing'
  <2>1. UNCHANGED <<pc, req, late, frame, orphan, todo>>
    BY <1>7 DEF AbortIO, frameVars
  <2> QED BY <1>1, <2>1, PassingStays
<1>8. ASSUME NEW c \in Clients, WriteFails(c) \/ WriteFailed(c) PROVE Passing'
  <2>1. pc'[Unit] = pc[Unit] /\ req'[Unit] = req[Unit] /\ UNCHANGED <<late, frame, orphan, todo>>
    BY <1>8, Constants DEF WriteFails, WriteFailed, StartReport, Goto, frameVars, reqVars, Roles
  <2> QED BY <1>1, <2>1, PassingStays
<1>9. ASSUME NEW t \in Tasks, ReportOpener(t) PROVE Passing'
  <2>1. UNCHANGED <<pc, req, late, frame, orphan, todo>>
    BY <1>9 DEF ReportOpener, frameVars
  <2> QED BY <1>1, <2>1, PassingStays
(* Commands: there is no frame. *)
<1>10. CASE ReadStep(Unit) \/ ReadOrphan \/ OnEvent \/ FlushOpener \/ FlushDone \/ UnitOffline \/ EthStop
  <2>1. ~orphan /\ UNCHANGED orphan
    BY <1>10
    DEF Passing, ReadStep, ReadOffline, ReadAccepted, ReadAppend, LeaveRead, ReadOrphan, OnEvent, Answer,
        FlushOpener, FlushDone, UnitOffline, EthStop, Stopping, frameVars
  <2> QED BY <1>2, <2>1
<1>11. CASE GetMsg \/ CmdFlush \/ CmdOffline \/ CmdOnline
  <2>1. ~orphan /\ UNCHANGED orphan
    BY <1>11 DEF Passing, GetMsg, CmdFlush, CmdOffline, Flush, CmdOnline, frameVars
  <2> QED BY <1>2, <2>1
<1>12. CASE Delivered \/ Offered
  BY <1>2, <1>12 DEF Delivered, Offered, FrameDone
<1>13. CASE StateReported
  <2>1. ~orphan /\ UNCHANGED orphan
    BY <1>13 DEF Passing, StateReported, frameVars
  <2> QED BY <1>2, <2>1
(* The frame. *)
<1>14. ASSUME NEW type \in Types, ReceiveFrame(type) PROVE Passing'
  <2>1. frame' = type /\ todo' = OpenerList /\ pc'[Unit] = "deliver"
    BY <1>14, Constants DEF ReceiveFrame, Goto, Roles
  <2>2. \A o \in Openers : Has(todo', o)
    BY <2>1, EveryOpener DEF Has
  <2> QED BY <2>1, <2>2 DEF Passing, Has
<1>15. CASE Deliver
  <2> SUFFICES ASSUME orphan' PROVE Passing'
    BY <1>2
  <2>1. /\ orphan /\ pc[Unit] = "deliver" /\ todo # <<>> /\ todo' = Tail(todo)
        /\ UNCHANGED <<pc, req, queue, frame, late, orphan>>
        /\ \A i \in DOMAIN queue[Head(todo)][GetPacketTypeQueue(frame)] :
               ~Matches(queue[Head(todo)][GetPacketTypeQueue(frame)][i], frame)
    BY <1>15 DEF Deliver
  <2>2. Head(todo) \in Openers /\ frame \in Types
    BY <2>1, WorkList DEF Passing
  <2>3. Clear(Head(todo))
    BY <2>1, <2>2, AskedIsClear
  <2>4. ASSUME NEW o \in Openers PROVE Clear(o)' \/ Has(todo', o)
    <3>1. CASE Clear(o)
      BY <1>1, <2>1, <3>1
    <3>2. CASE Has(todo, o) /\ ~Clear(o)
      <4>1. Has(Tail(todo), o)
        BY <2>1, <2>3, <3>2, AskedNext
      <4> QED BY <2>1, <4>1 DEF Has
    <3> QED BY <2>1, <3>1, <3>2 DEF Passing
  <2> QED BY <2>1, <2>2, <2>4 DEF Passing, Has
<1>16. CASE NobodyTookIt
  <2>1. orphan /\ todo = <<>> /\ pc'[Unit] = "offer" /\ UNCHANGED <<frame, late, orphan>>
    BY <1>16, Constants DEF NobodyTookIt, Goto, Roles, reqVars
  <2>2. \A o \in Openers : Clear(o)
    BY <2>1 DEF Passing, Has
  <2>3. \A o \in Openers : Clear(o)'
    BY <1>1, <2>1, <2>2
  <2> QED BY <2>1, <2>3 DEF Passing
<1>17. CASE Offer \/ CopyPacket \/ CopyFiltered \/ CopyFails \/ CopyReported
  <2> SUFFICES ASSUME orphan' PROVE Passing'
    BY <1>2
  <2>1. orphan /\ pc[Unit] # "deliver" /\ UNCHANGED <<frame, orphan>> /\ UNCHANGED late
    BY <1>17
    DEF Offer, CopyPacket, CopyFiltered, CopyFails, CopyReported, CopyReturns, frameVars, reqVars
  <2>2. \A o \in Openers : Clear(o)'
    BY <1>1, <2>1 DEF Passing
  <2>3. pc'[Unit] \in {"offer", "copy"} \/ (pc'[Unit] = "report" /\ req'[Unit] # NoReq)
    BY <1>17, <2>1, Constants
    DEF Offer, CopyPacket, CopyFiltered, CopyFails, CopyReported, CopyReturns, StartReport, Goto, Roles,
        CommandSteps
  <2> QED BY <2>1, <2>2, <2>3 DEF Passing
<1>18. ASSUME NEW c \in Clients, ClientStep(c) PROVE Passing'
  BY <1>6, <1>8, <1>9, <1>18, Constants DEF ClientStep
<1>19. CASE UnitWork
  BY <1>9, <1>10, <1>12, <1>13, <1>15, <1>16, <1>17, <1>19, Constants
  DEF UnitWork, CommandStep, FlushStep, ReceiveStep, ReportStep
<1> QED
  BY <1>5, <1>7, <1>8, <1>11, <1>14, <1>18, <1>19, Constants DEF Step, Handling, Clients

(* Listeners are requests of S2_ONEVENT, and the unit is off line before it is
   stopped. *)
Listening ==
    /\ pc[Unit] = "stop" => unitState = "OFFLINE"
    /\ pc[Unit] = "event" => Request[req[Unit]].command = "event"
    /\ \A r \in Reqs : OnQueue(r, "eventQueue") => Request[r].command = "event"

(* Nobody of the opener waits for the state the unit is in.  The report of a change
   goes through the openers one by one. *)
Deaf(o) == \A r \in Reqs :
               OnQueue(r, "eventQueue") /\ OpenerOf(r) = o => unitState \notin Request[r].mask
Hearing ==
    pc[Unit] # "stop" =>
        \A o \in Openers :
            Deaf(o) \/ (pc[Unit] = "report" /\ events[Unit] = {unitState} /\ Has(walk[Unit], o))

(* An opener never listens for the same event with two requests: ReportEvents leaves
   a queue after the first request it answers (unit_commands.c, ReportEvents). *)
OneListener ==
    \A r, s \in Reqs :
        /\ r # s /\ OpenerOf(r) = OpenerOf(s)
        /\ Request[r].command = "event" /\ Request[s].command = "event"
        => Request[r].mask \cap Request[s].mask = {}

(* The state of the unit changes in two steps of the unit task only. *)
LEMMA StateChanges ==
  ASSUME Step
  PROVE  unitState' = unitState \/ UnitOffline \/ CmdOnline
  BY DEF Step, Handling, ClientStep, UnitWork, CommandStep, FlushStep, ReceiveStep, ReportStep, ReadStep,
         BeginIOQuick, BeginIOQueue, ReadOffline, ReadAccepted, ReadAppend, LeaveRead, AbortIO,
         WriteFails, WriteFailed, ReportOpener, GetMsg, ReadOrphan, OnEvent, Answer, CmdFlush,
         CmdOffline, Flush, FlushOpener, FlushDone, EthStop, ReceiveFrame, Deliver, Delivered,
         FrameDone, NobodyTookIt, Offer, Offered, CopyPacket, CopyFiltered, CopyFails, CopyReported,
         CopyReturns, StateReported

(* Where the unit task goes, as far as the listeners are concerned. *)
LEMMA ListeningKept ==
  ASSUME Roles, Lists, Work, Ledger, Spread, Listening, Step PROVE Listening'
<1>1. ASSUME NEW r \in Reqs, OnQueue(r, "eventQueue")' PROVE Request[r].command = "event"
  <2>1. "eventQueue" \in QueueNames
    BY DEF QueueNames
  <2>2. OnQueue(r, "eventQueue") \/ Joins(r, "eventQueue")
    BY <1>1, <2>1, QueuesGrow
  <2>3. GetPacketTypeQueue(Request[r].type) # "eventQueue"
    BY TypeAssumption DEF GetPacketTypeQueue
  <2> QED BY <2>2, <2>3 DEF Joins, Listening
<1>2. CASE GetMsg
  <2>1. /\ pc'[Unit] = Request[Head(port)].command /\ req'[Unit] = Head(port)
        /\ Head(port) \in Reqs
    BY <1>2, HeadInPort, Constants DEF GetMsg, Goto, Take, Roles
  <2> QED BY <1>1, <2>1, Constants DEF Listening
<1>3. CASE UnitOffline
  <2>1. unitState' = "OFFLINE" /\ pc'[Unit] = "stop"
    BY <1>3, Constants DEF UnitOffline, Goto, Roles
  <2> QED BY <1>1, <2>1 DEF Listening
<1>4. CASE ~GetMsg /\ ~UnitOffline
  <2>1. \/ pc'[Unit] = pc[Unit] /\ req'[Unit] = req[Unit]
        \/ pc'[Unit] \notin {"stop", "event"}
    <3>1. ASSUME NEW c \in Clients, ClientStep(c) \/ WriteFails(c)
                 \/ \E r \in Reqs : BeginIOQuick(c, r) \/ BeginIOQueue(c, r)
          PROVE  pc'[Unit] = pc[Unit] /\ req'[Unit] = req[Unit]
      BY <3>1, Constants
      DEF ClientStep, ReadStep, ReadOffline, ReadAccepted, ReadAppend, LeaveRead, WriteFails, WriteFailed,
          ReportOpener, StartReport, BeginIOQuick, BeginIOQueue, Goto, Take, reqVars, Roles
    <3>2. ASSUME NEW r \in Reqs, AbortIO(r) PROVE UNCHANGED <<pc, req>>
      BY <3>2 DEF AbortIO
    <3>3. ASSUME CmdFlush \/ CmdOffline \/ CmdOnline \/ \E type \in Types : ReceiveFrame(type)
          PROVE  pc'[Unit] \notin {"stop", "event"}
      BY <3>3, Constants DEF CmdFlush, CmdOffline, Flush, CmdOnline, StartReport, ReceiveFrame, Goto, Roles
    <3>4. ASSUME CommandStep \/ FlushDone \/ EthStop
          PROVE  pc'[Unit] \notin {"stop", "event"}
      BY <3>4, Constants
      DEF CommandStep, ReadStep, ReadOffline, ReadAccepted, ReadAppend, LeaveRead, ReadOrphan, OnEvent,
          Answer, FlushDone, EthStop, StartReport, Goto, Home, Roles
    <3>5. ASSUME FlushOpener \/ ReportOpener(Unit)
          PROVE  UNCHANGED <<pc, req>>
      BY <3>5 DEF FlushOpener, ReportOpener
    <3>6. ASSUME ReceiveStep \/ CopyReported \/ StateReported
          PROVE  (pc'[Unit] = pc[Unit] /\ req'[Unit] = req[Unit]) \/ pc'[Unit] \notin {"stop", "event"}
      BY <3>6, Constants
      DEF ReceiveStep, CopyReported, StateReported, Deliver, Delivered, NobodyTookIt, Offer, Offered,
          FrameDone, CopyPacket, CopyFiltered, CopyFails, CopyReturns, StartReport, Goto, Roles
    <3>7. ASSUME UnitWork
          PROVE  (pc'[Unit] = pc[Unit] /\ req'[Unit] = req[Unit]) \/ pc'[Unit] \notin {"stop", "event"}
      BY <1>4, <3>4, <3>5, <3>6, <3>7 DEF UnitWork, FlushStep, ReportStep
    <3> QED BY <1>4, <3>1, <3>2, <3>3, <3>7, Constants DEF Step, Handling, Clients
  <2>2. pc'[Unit] = "stop" => unitState' = unitState
    BY <1>4, <2>1, StateChanges DEF CmdOnline, Listening
  <2> QED BY <1>1, <2>1, <2>2 DEF Listening
<1> QED BY <1>2, <1>3, <1>4

LEMMA DeafKept ==
  ASSUME Roles, Lists, Work, Ledger, Spread, Step, unitState' = unitState, NEW o \in Openers, Deaf(o)
  PROVE  Deaf(o)'
<1> SUFFICES ASSUME NEW r \in Reqs, OnQueue(r, "eventQueue")', OpenerOf(r) = o
             PROVE  unitState \notin Request[r].mask
  BY DEF Deaf, OpenerOf
<1>1. "eventQueue" \in QueueNames /\ GetPacketTypeQueue(Request[r].type) # "eventQueue"
  BY TypeAssumption DEF QueueNames, GetPacketTypeQueue
<1>2. OnQueue(r, "eventQueue") \/ Joins(r, "eventQueue")
  BY <1>1, QueuesGrow
<1> QED BY <1>1, <1>2 DEF Deaf, Joins

(* The opener ReportEvents visits has no listener for the new state afterwards. *)
LEMMA ReportedIsDeaf ==
  ASSUME Lists, Work, Listening, OneListener, NEW t \in Tasks, ReportOpener(t), events[t] = {unitState},
         NEW o \in Openers, o = Head(walk[t])
  PROVE  Deaf(o)'
<1> DEFINE q == queue[o]["eventQueue"]
           listeners == {i \in DOMAIN q : Request[q[i]].mask \cap events[t] # {}}
<1>1. /\ "eventQueue" \in QueueNames /\ unitState' = unitState /\ UNCHANGED port
      /\ \/ listeners = {} /\ UNCHANGED queue
         \/ \E i \in listeners : Dequeue(o, "eventQueue", i)
  BY DEF ReportOpener, QueueNames
<1>2. \A r \in Reqs : OpenerOf(r) = o /\ OnQueue(r, "eventQueue") => \E i \in DOMAIN q : q[i] = r
  BY DEF OnQueue, Has, Queues
<1>3. \A i \in DOMAIN q : i \in listeners <=> unitState \in Request[q[i]].mask
  OBVIOUS
<1> SUFFICES ASSUME NEW r \in Reqs, OnQueue(r, "eventQueue")', OpenerOf(r) = o, unitState \in Request[r].mask
             PROVE  FALSE
  BY <1>1 DEF Deaf, OpenerOf
<1>4. CASE listeners = {} /\ UNCHANGED queue
  <2>1. OnQueue(r, "eventQueue")
    BY <1>1, <1>4, QueuesStay
  <2> QED BY <1>2, <1>3, <1>4, <2>1
<1>5. ASSUME NEW i \in listeners, Dequeue(o, "eventQueue", i) PROVE FALSE
  <2>1. i \in DOMAIN q /\ unitState \in Request[q[i]].mask
    BY <1>3, <1>5
  <2>2. /\ q[i] \in Reqs /\ OnQueue(q[i], "eventQueue") /\ OpenerOf(q[i]) = o
        /\ OnQueue(r, "eventQueue") /\ r # q[i]
    BY <1>1, <1>5, <2>1, DequeueEffect, InList
  <2>3. Request[r].command = "event" /\ Request[q[i]].command = "event"
    BY <2>2 DEF Listening
  <2>4. Request[r].mask \cap Request[q[i]].mask = {}
    BY <2>2, <2>3 DEF OneListener
  <2> QED BY <2>1, <2>4
<1> QED BY <1>1, <1>4, <1>5

LEMMA ReportedNext ==
  ASSUME Work, NEW t \in Tasks, walk[t] # <<>>, NEW o, Has(walk[t], o)
  PROVE  o = Head(walk[t]) \/ Has(Tail(walk[t]), o)
<1>1. walk[t] \in Seq(Openers)
  BY DEF Work
<1>2. PICK i \in 1 .. Len(walk[t]) : walk[t][i] = o
  BY <1>1 DEF Has
<1>3. CASE i = 1
  BY <1>1, <1>2, <1>3
<1>4. CASE i # 1
  <2>1. i - 1 \in DOMAIN Tail(walk[t]) /\ Tail(walk[t])[i - 1] = walk[t][(i - 1) + 1] /\ (i - 1) + 1 = i
    BY <1>1, <1>2, <1>4
  <2> QED BY <1>2, <2>1 DEF Has
<1> QED BY <1>3, <1>4

(* A step that does not touch the unit task's report. *)
LEMMA HearingStays ==
  ASSUME Roles, Lists, Work, Ledger, Spread, Step, Hearing, unitState' = unitState,
         pc[Unit] \notin {"stop", "report"} \/ (pc'[Unit] = pc[Unit] /\ walk'[Unit] = walk[Unit]
                                              /\ events'[Unit] = events[Unit])
  PROVE  Hearing'
<1>1. \A o \in Openers : Deaf(o) => Deaf(o)'
  BY DeafKept
<1> QED BY <1>1 DEF Hearing, Has

LEMMA HearingKept ==
  ASSUME Roles, Lists, Work, Ledger, Spread, Listening, Hearing, OneListener, Step PROVE Hearing'
<1>1. \A o \in Openers : unitState' = unitState /\ Deaf(o) => Deaf(o)'
  BY DeafKept
<1>2. ASSUME NEW c \in Clients, ClientStep(c) \/ WriteFails(c)
             \/ \E r \in Reqs : BeginIOQuick(c, r) \/ BeginIOQueue(c, r)
      PROVE  Hearing'
  <2>1. /\ pc'[Unit] = pc[Unit] /\ walk'[Unit] = walk[Unit] /\ events'[Unit] = events[Unit]
        /\ unitState' = unitState
    BY <1>2, Constants
    DEF ClientStep, ReadStep, ReadOffline, ReadAccepted, ReadAppend, LeaveRead, WriteFails, WriteFailed,
        ReportOpener, StartReport, BeginIOQuick, BeginIOQueue, Goto, walkVars, Roles, Work
  <2> QED BY <2>1, HearingStays
<1>3. ASSUME NEW r \in Reqs, AbortIO(r) PROVE Hearing'
  <2>1. UNCHANGED <<pc, walk, events, unitState>>
    BY <1>3 DEF AbortIO, walkVars
  <2> QED BY <2>1, HearingStays
<1>4. CASE GetMsg \/ CmdFlush \/ CmdOffline \/ \E type \in Types : ReceiveFrame(type)
  <2>1. pc[Unit] = "wait" /\ unitState' = unitState
    BY <1>4 DEF GetMsg, CmdFlush, CmdOffline, Flush, ReceiveFrame
  <2> QED BY <2>1, HearingStays
(* Going on line: from here the report visits every opener. *)
<1>5. CASE CmdOnline
  <2>1. /\ pc[Unit] = "wait"
        /\ \/ unitState' = unitState
           \/ walk'[Unit] = OpenerList /\ pc'[Unit] = "report" /\ events'[Unit] = {unitState'}
    BY <1>5, Constants DEF CmdOnline, StartReport, Goto, Roles, Work
  <2>2. CASE unitState' = unitState
    BY <2>1, <2>2, HearingStays
  <2>3. CASE walk'[Unit] = OpenerList /\ pc'[Unit] = "report" /\ events'[Unit] = {unitState'}
    BY <2>1, <2>3, EveryOpener DEF Hearing, Has
  <2> QED BY <2>1, <2>2, <2>3
(* Going off line: the change is reported when the MAC has been stopped. *)
<1>6. CASE UnitOffline
  <2>1. pc'[Unit] = "stop"
    BY <1>6, Constants DEF UnitOffline, Goto, Roles
  <2> QED BY <2>1 DEF Hearing
<1>7. CASE EthStop
  <2>1. /\ unitState' = unitState
        /\ \/ pc[Unit] = "failed"
           \/ /\ pc[Unit] = "stop" /\ walk'[Unit] = OpenerList /\ pc'[Unit] = "report"
              /\ events'[Unit] = {"OFFLINE"}
    BY <1>7, Constants DEF EthStop, Stopping, StartReport, Goto, Roles, Work
  <2>2. CASE pc[Unit] = "failed"
    BY <2>1, <2>2, HearingStays
  <2> QED BY <2>1, <2>2, EveryOpener DEF Hearing, Has, Listening
<1>8. CASE ReportOpener(Unit)
  <2>1. /\ Unit \in Tasks /\ walk[Unit] # <<>> /\ pc[Unit] = "report" /\ UNCHANGED <<pc, events, unitState>>
        /\ walk'[Unit] = Tail(walk[Unit])
    BY <1>8, Constants DEF ReportOpener, Work
  <2>2. ASSUME NEW o \in Openers PROVE Deaf(o)' \/ (events[Unit] = {unitState} /\ Has(walk'[Unit], o))
    <3>1. CASE Deaf(o)
      BY <1>1, <2>1, <3>1
    <3>2. CASE events[Unit] = {unitState} /\ Has(walk[Unit], o)
      <4>1. CASE o = Head(walk[Unit])
        BY <1>8, <2>1, <3>2, <4>1, ReportedIsDeaf
      <4>2. CASE Has(Tail(walk[Unit]), o)
        BY <2>1, <3>2, <4>2 DEF Has
      <4> QED BY <2>1, <3>2, <4>1, <4>2, ReportedNext
    <3> QED BY <2>1, <3>1, <3>2 DEF Hearing
  <2> QED BY <2>1, <2>2 DEF Hearing, Has
<1>9. CASE CopyReported \/ StateReported
  <2>1. pc[Unit] = "report" /\ walk[Unit] = <<>> /\ unitState' = unitState
    BY <1>9 DEF CopyReported, StateReported, CopyReturns
  <2>2. \A o \in Openers : Deaf(o)
    BY <2>1 DEF Hearing, Has
  <2> QED BY <1>1, <2>1, <2>2 DEF Hearing
<1>10. CASE CommandStep \/ FlushOpener \/ FlushDone \/ ReceiveStep
  <2>1. pc[Unit] \notin {"stop", "report"} /\ unitState' = unitState
    BY <1>10
    DEF CommandStep, ReadStep, ReadOffline, ReadAccepted, ReadAppend, LeaveRead, ReadOrphan, OnEvent,
        Answer, FlushOpener, FlushDone, ReceiveStep, Deliver, Delivered, NobodyTookIt, Offer, Offered,
        FrameDone, CopyPacket, CopyFiltered, CopyFails, CopyReturns
  <2> QED BY <2>1, HearingStays
<1>11. CASE UnitWork
  BY <1>6, <1>7, <1>8, <1>9, <1>10, <1>11 DEF UnitWork, FlushStep, ReportStep
<1> QED BY <1>2, <1>3, <1>4, <1>5, <1>11, Constants DEF Step, Handling, Clients

(***************************************************************************)
(* What the model remembers of the links of the request in the unit's hand *)
(* and of the transmit semaphore.                                          *)
(***************************************************************************)
Tracked ==
    /\ near \in [before : Reqs \cup {NoReq}, after : Reqs \cup {NoReq}]
    /\ wild \in BOOLEAN /\ ringReady \in BOOLEAN

(* The request that comes into the unit's hand was on the list it is taken from. *)
LEMMA HandTaken ==
  ASSUME Roles, Lists, Work, Offering, Step, req[Unit] = NoReq, NEW r \in Reqs, req'[Unit] = r
  PROVE  Has(HandList(r, pc'[Unit], orphan'), r)
<1>1. CASE GetMsg
  <2>1. pc'[Unit] \in {"read", "orphan", "event"} /\ r = Head(port)
    BY <1>1, HeadInPort, Constants DEF GetMsg, Take, Goto, Roles
  <2> QED BY <1>1, <2>1, HeadInPort DEF GetMsg, HandList, FromQueue
<1>2. CASE Deliver
  <2> DEFINE o == Head(todo)
             name == GetPacketTypeQueue(frame)
  <2>1. o \in Openers /\ name \in QueueNames
    BY <1>2, WorkList DEF Deliver, GetPacketTypeQueue, QueueNames
  <2>2. PICK i \in DOMAIN queue[o][name] :
          Take(Unit, queue[o][name][i]) /\ orphan' = FALSE /\ Goto(Unit, "copy")
    BY <1>2, Constants DEF Deliver
  <2>3. r = queue[o][name][i] /\ pc'[Unit] = "copy" /\ OpenerOf(r) = o
    BY <2>1, <2>2, InList, Constants DEF Take, Goto, Roles
  <2> QED BY <2>2, <2>3 DEF HandList, FromQueue, HandQueue, Queues, Has
<1>3. CASE Offer
  <2> DEFINE o == Head(todo)
  <2>1. o \in Openers /\ "orphanQueue" \in QueueNames /\ pc[Unit] = "offer"
    BY <1>3, WorkList DEF Offer, QueueNames
  <2>2. /\ queue[o]["orphanQueue"] # <<>> /\ Take(Unit, Head(queue[o]["orphanQueue"]))
        /\ Goto(Unit, "copy") /\ orphan' = orphan /\ orphan
    BY <1>3, <2>1, Constants DEF Offer, Offering
  <2>3. /\ r = queue[o]["orphanQueue"][1] /\ 1 \in DOMAIN queue[o]["orphanQueue"]
        /\ pc'[Unit] = "copy" /\ OpenerOf(r) = o
    BY <2>1, <2>2, HeadInQueue, InList, Constants DEF Take, Goto, Roles
  <2> QED BY <2>2, <2>3 DEF HandList, FromQueue, HandQueue, Queues, Has
<1>4. CASE ~GetMsg /\ ~Deliver /\ ~Offer
  <2>1. req'[Unit] = req[Unit] \/ req'[Unit] = NoReq
    <3>1. ASSUME NEW c \in Clients, ClientStep(c) \/ WriteFails(c)
                 \/ \E x \in Reqs : BeginIOQuick(c, x) \/ BeginIOQueue(c, x)
          PROVE  req'[Unit] = req[Unit]
      BY <3>1, Constants
      DEF ClientStep, ReadStep, ReadOffline, ReadAccepted, ReadAppend, LeaveRead, WriteFails, WriteFailed,
          ReportOpener, BeginIOQuick, BeginIOQueue, Take, Roles
    <3>2. ASSUME NEW x \in Reqs, AbortIO(x) PROVE UNCHANGED req
      BY <3>2 DEF AbortIO
    <3>3. ASSUME CmdFlush \/ CmdOffline \/ CmdOnline \/ \E type \in Types : ReceiveFrame(type)
          PROVE  UNCHANGED req
      BY <3>3 DEF CmdFlush, CmdOffline, Flush, CmdOnline, ReceiveFrame
    <3>4. ASSUME CommandStep PROVE req'[Unit] = req[Unit] \/ req'[Unit] = NoReq
      BY <3>4, Constants
      DEF CommandStep, ReadStep, ReadOffline, ReadAccepted, ReadAppend, LeaveRead, ReadOrphan, OnEvent,
          Answer, Take, Roles
    <3>5. ASSUME FlushStep \/ ReportStep \/ ReceiveStep
          PROVE  req'[Unit] = req[Unit] \/ req'[Unit] = NoReq
      BY <1>4, <3>5, Constants
      DEF FlushStep, FlushOpener, FlushDone, UnitOffline, EthStop, ReportStep, ReportOpener, CopyReported,
          StateReported, ReceiveStep, Delivered, NobodyTookIt, Offered, FrameDone, CopyPacket,
          CopyFiltered, CopyFails, CopyReturns, Take, Roles
    <3> QED BY <1>4, <3>1, <3>2, <3>3, <3>4, <3>5, Constants DEF Step, Handling, UnitWork, Clients
  <2> QED BY <2>1, Constants
<1> QED BY <1>1, <1>2, <1>3, <1>4

LEMMA TrackedKept ==
  ASSUME Roles, Lists, Work, Offering, Tracked, [Next]_vars PROVE Tracked'
<1>1. wild' \in BOOLEAN /\ ringReady' \in BOOLEAN
  BY DEF Tracked, Next, Serving, CmdOnline, AbortIO, AbortListed, AbortInHand, AbortLost, vars
<1>2. CASE near' = near
  BY <1>1, <1>2 DEF Tracked
<1>3. CASE Step /\ FollowHand
  <2> DEFINE r == req'[Unit]
             s == HandList(r, pc'[Unit], orphan')
             i == CHOOSE i \in IndicesOf(s, r) : TRUE
  <2>1. CASE r \notin LateAborts \ astray \/ req[Unit] # NoReq
    BY <1>1, <1>3, <2>1 DEF FollowHand, Alone, Tracked
  <2>2. CASE r \in LateAborts \ astray /\ req[Unit] = NoReq
    <3>1. r \in Reqs
      BY <2>2, Constants
    <3>2. Has(s, r) /\ s \in Seq(Reqs)
      BY <1>3, <2>2, <3>1, HandTaken, InHandList
    <3>3. \E k : k \in IndicesOf(s, r)
      BY <3>2 DEF IndicesOf, Has
    <3>4. i \in IndicesOf(s, r)
      BY <3>3, Zenon
    <3>5. near' = Neighbours(s, i)
      BY <1>3, <2>2 DEF FollowHand
    <3> HIDE DEF i, s, r
    <3>6. i \in DOMAIN s
      BY <3>4 DEF IndicesOf
    <3>7. Neighbours(s, i) \in [before : Reqs \cup {NoReq}, after : Reqs \cup {NoReq}]
      BY <3>2, <3>6 DEF Neighbours
    <3> QED BY <1>1, <3>5, <3>7 DEF Tracked
  <2> QED BY <2>1, <2>2
<1> QED BY <1>2, <1>3 DEF Next, Serving, Step, AbortIO, vars

(***************************************************************************)
(* The invariant.                                                          *)
(***************************************************************************)
QueueInv == Roles /\ Work /\ Ledger /\ Tracked /\ Lists /\ Offering /\ Locks /\ Spread

LEMMA InitQueues == Init => QueueInv
<1> SUFFICES ASSUME Init PROVE QueueInv
  OBVIOUS
<1> USE DEF Init
<1>1. Roles
  BY Constants DEF Roles, Home, ClientSteps, UnitSteps, CommandSteps, EmptyHanded
<1>2. Work /\ Ledger
  <2>1. walk \in [Tasks -> Seq(Openers)] /\ todo \in Seq(Openers)
    OBVIOUS
  <2>2. events \in [Tasks -> SUBSET {"ONLINE", "OFFLINE", "ERROR"}]
    OBVIOUS
  <2>3. Work
    BY <2>1, <2>2 DEF Work
  <2>4. Ledger
    BY DEF Ledger
  <2> QED BY <2>3, <2>4
<1>3. Lists
  BY DEF Lists, NoDuplicate, Has
<1>4. Offering
  BY Constants DEF Offering, Home
<1>5. Locks
  <2>1. \A t \in Tasks, o \in Openers : ~Holds(t, o)
    BY DEF Holds
  <2>2. lock \in [Openers -> [owner : Tasks \cup {NoTask}, nest : Nat]]
    BY DEF Free
  <2> QED BY <2>1, <2>2 DEF Locks
<1>6. ASSUME NEW r \in Reqs PROVE Sole(r) /\ Claim(r)
  <2>1. ~OnPort(r) /\ ~InHand(r)
    BY Constants DEF OnPort, Has, InHand
  <2>2. \A n \in QueueNames : ~OnQueue(r, n)
    BY Constants DEF OnQueue, Queues, Has
  <2>3. Sole(r)
    BY <2>1, <2>2 DEF Sole, InHand
  <2> QED BY <2>1, <2>2, <2>3 DEF Claim, Somewhere
<1>7. Tracked
  BY DEF Tracked, Alone
<1> QED BY <1>1, <1>2, <1>3, <1>4, <1>5, <1>6, <1>7 DEF QueueInv, Spread

LEMMA NextQueues == QueueInv /\ [Next]_vars => QueueInv'
<1> SUFFICES ASSUME QueueInv, [Next]_vars PROVE QueueInv'
  OBVIOUS
<1>1. Roles /\ Work /\ Ledger /\ Tracked /\ Lists /\ Offering /\ Locks /\ Spread
  BY DEF QueueInv
<1>2. CASE Step
  <2>1. Roles' /\ Work' /\ Ledger' /\ Offering' /\ Locks'
    BY <1>1, <1>2, RolesKept, WorkKept, LedgerKept, OfferingKept, LocksKept
  <2>2. Lists' /\ Spread'
    BY <1>1, <1>2, SpreadKept
  <2> QED BY <1>1, <2>1, <2>2, TrackedKept DEF QueueInv
<1>3. CASE UNCHANGED vars
  <2>1. UNCHANGED <<unitState, lock, txOwner, pc, req, port, queue, viaPort, astray, lost, due, late,
                    frame, todo, orphan, walk, events>>
    BY <1>3 DEF vars, frameVars, walkVars, reqVars
  <2>2. Roles' /\ Work' /\ Ledger' /\ Offering'
    BY <1>1, <2>1 DEF Roles, Work, Ledger, Offering
  <2>3. Locks'
    BY <1>1, <2>1, LocksStay DEF Holds, Holding
  <2>4. Lists' /\ Spread'
    BY <1>1, <2>1, NothingMoves
  <2> QED BY <1>1, <2>2, <2>3, <2>4, TrackedKept DEF QueueInv
<1> QED BY <1>2, <1>3, Steps

(* The invariant holds from the opening of the unit on: no step of a client, of the
   unit task or of AbortIO breaks it. *)
THEOREM QueueInvariant == Spec => []QueueInv
  BY InitQueues, NextQueues, PTL DEF Spec

(***************************************************************************)
(* What follows.                                                           *)
(***************************************************************************)
(* The places of a request are counted: one at most, one exactly if it is somewhere. *)
LEMMA OnlyPlaces ==
  ASSUME NEW r \in Reqs, Lists, Sole(r)
  PROVE  \A p, q \in PlacesOf(r) : p = q
<1>1. ASSUME NEW i \in IndicesOf(port, r), NEW j \in IndicesOf(port, r) PROVE i = j
  BY DEF IndicesOf, Lists, NoDuplicate
<1>2. ASSUME NEW n \in QueueNames, NEW i \in IndicesOf(Queues(r)[n], r), NEW j \in IndicesOf(Queues(r)[n], r)
      PROVE  i = j
  BY Constants DEF IndicesOf, Queues, Lists, NoDuplicate
<1>3. \A i \in IndicesOf(port, r) : OnPort(r)
  BY DEF IndicesOf, OnPort, Has
<1>4. \A n \in QueueNames : \A i \in IndicesOf(Queues(r)[n], r) : OnQueue(r, n)
  BY DEF IndicesOf, OnQueue, Has
<1>5. \A p \in PortPlaces(r) : OnPort(r) /\ \A q \in PortPlaces(r) : p = q
  BY <1>1, <1>3 DEF PortPlaces
<1>6. \A p \in HandPlaces(r) : InHand(r) /\ \A q \in HandPlaces(r) : p = q
  BY DEF HandPlaces, InHand, Sole
<1>7. \A n \in QueueNames : \A p \in QueuePlaces(r, n) : OnQueue(r, n) /\ \A q \in QueuePlaces(r, n) : p = q
  BY <1>2, <1>4 DEF QueuePlaces
<1>8. \A n, m \in QueueNames : \A p \in QueuePlaces(r, n), q \in QueuePlaces(r, m) : p = q
  BY <1>7 DEF Sole
<1>9. ASSUME NEW p, NEW q,
             p \in PortPlaces(r) \/ p \in HandPlaces(r) \/ \E n \in QueueNames : p \in QueuePlaces(r, n),
             q \in PortPlaces(r) \/ q \in HandPlaces(r) \/ \E n \in QueueNames : q \in QueuePlaces(r, n)
      PROVE  p = q
  BY <1>5, <1>6, <1>7, <1>8, <1>9 DEF Sole
<1> QED BY <1>9 DEF PlacesOf

LEMMA HasPlace ==
  ASSUME NEW r \in Reqs, Somewhere(r) PROVE \E p : p \in PlacesOf(r)
<1>1. ASSUME NEW i \in DOMAIN port, port[i] = r PROVE \E p : p \in PlacesOf(r)
  <2>1. <<"port", i>> \in PortPlaces(r)
    BY <1>1 DEF PortPlaces, IndicesOf
  <2> QED BY <2>1 DEF PlacesOf
<1>2. ASSUME NEW t \in Tasks, req[t] = r PROVE \E p : p \in PlacesOf(r)
  <2>1. <<"hand", t>> \in HandPlaces(r)
    BY <1>2 DEF HandPlaces
  <2> QED BY <2>1 DEF PlacesOf
<1>3. ASSUME NEW n \in QueueNames, NEW i \in DOMAIN Queues(r)[n], Queues(r)[n][i] = r
      PROVE  \E p : p \in PlacesOf(r)
  <2>1. <<n, i>> \in QueuePlaces(r, n)
    BY <1>3 DEF QueuePlaces, IndicesOf
  <2> QED BY <2>1 DEF PlacesOf
<1> QED BY <1>1, <1>2, <1>3 DEF Somewhere, OnPort, OnQueue, InHand, Has

LEMMA NoPlaceAtAll ==
  ASSUME NEW r \in Reqs, ~Somewhere(r) PROVE PlacesOf(r) = {}
<1>1. PortPlaces(r) = {} /\ HandPlaces(r) = {}
  BY DEF Somewhere, PortPlaces, HandPlaces, IndicesOf, OnPort, InHand, Has
<1>2. ASSUME NEW n \in QueueNames PROVE QueuePlaces(r, n) = {}
  BY DEF Somewhere, QueuePlaces, IndicesOf, OnQueue, Has
<1> QED BY <1>1, <1>2 DEF PlacesOf

LEMMA OnePlaceHolds == QueueInv => OnePlace
<1> SUFFICES ASSUME QueueInv, NEW r \in Reqs \ astray
             PROVE  /\ due[r] \in {0, 1}
                    /\ Cardinality(PlacesOf(r)) = IF r \in lost THEN 0 ELSE due[r]
                    /\ r \in lost => due[r] = 1
  BY DEF OnePlace
<1>1. Sole(r) /\ Claim(r) /\ Lists
  BY DEF QueueInv, Spread
<1>2. CASE due[r] = 1 /\ Somewhere(r) /\ r \notin lost
  <2>1. PICK p : p \in PlacesOf(r)
    BY <1>2, HasPlace
  <2>2. PlacesOf(r) = {p}
    BY <1>1, <2>1, OnlyPlaces
  <2> QED BY <1>2, <2>2, FS_Singleton
<1>3. CASE ~Somewhere(r) /\ (IF r \in lost THEN due[r] = 1 ELSE due[r] = 0)
  BY <1>3, NoPlaceAtAll, FS_EmptySet
<1> QED BY <1>1, <1>2, <1>3 DEF Claim

LEMMA LocksHold == QueueInv => LockDiscipline
<1> SUFFICES ASSUME QueueInv, NEW o \in Openers
             PROVE  lock[o] = IF \E t \in Tasks : Holds(t, o)
                              THEN [owner |-> CHOOSE t \in Tasks : Holds(t, o), nest |-> 1]
                              ELSE Free
  BY DEF LockDiscipline
<1>1. /\ \A t \in Tasks : Holds(t, o) => lock[o] = [owner |-> t, nest |-> 1]
      /\ (\A t \in Tasks : ~Holds(t, o)) => lock[o] = Free
  BY DEF QueueInv, Locks
<1>2. CASE \E t \in Tasks : Holds(t, o)
  <2> DEFINE h == CHOOSE t \in Tasks : Holds(t, o)
  <2>1. h \in Tasks /\ Holds(h, o)
    BY <1>2, Zenon
  <2>2. lock[o] = [owner |-> h, nest |-> 1]
    BY <1>1, <2>1
  <2> QED BY <1>2, <2>2
<1>3. CASE ~\E t \in Tasks : Holds(t, o)
  BY <1>1, <1>3
<1> QED BY <1>2, <1>3

LEMMA TypesHold == QueueInv => TypeOK
  BY DEF QueueInv, Roles, Work, Ledger, Tracked, Lists, Locks, TypeOK,
         ClientSteps, UnitSteps, CommandSteps, EmptyHanded

(* The types, and with them what each task can have in hand at each step. *)
THEOREM QueueTypeCorrect == Spec => []TypeOK
  BY QueueInvariant, TypesHold, PTL

(* From BeginIO to its completion a request is on the port, on one queue of its
   opener or in the hands of one task, and when it is complete it is nowhere,
   whatever the order of frames, events, flushes, S2_OFFLINE and AbortIO.  A request
   that the packet filter refuses, or that a late AbortIO of another one cuts off the
   list it was on, is nowhere and never answered.  Nothing is said of a request that
   AbortIO replied in the unit task's hand. *)
THEOREM RequestsInOnePlace == Spec => []OnePlace
  BY QueueInvariant, OnePlaceHolds, PTL

(* An opener's semaphore is taken once, by the task that is in BeginIO for it or by
   the unit task while it copies a packet for it, and is free otherwise: the calls
   to ObtainSemaphore, AttemptSemaphore and ReleaseSemaphore pair up on every path. *)
THEOREM SemaphoresPaired == Spec => []LockDiscipline
  BY QueueInvariant, LocksHold, PTL

(***************************************************************************)
(* The frames and the listeners, beside the invariant of the queues.       *)
(***************************************************************************)
ReaderInv == Sorted /\ Passing
ListenerInv == Listening /\ Hearing

LEMMA InitWaiting == Init => ReaderInv /\ ListenerInv
<1> SUFFICES ASSUME Init PROVE ReaderInv /\ ListenerInv
  OBVIOUS
<1>1. \A r \in Reqs, n \in QueueNames : ~OnQueue(r, n)
  BY Constants DEF Init, OnQueue, Queues, Has
<1>2. pc[Unit] = "wait" /\ orphan = FALSE /\ "eventQueue" \in QueueNames
  BY Constants DEF Init, Home, QueueNames
<1>3. ReaderInv
  BY <1>1, <1>2 DEF ReaderInv, Sorted, Passing, ReadQueues
<1>4. ListenerInv
  BY <1>1, <1>2 DEF ListenerInv, Listening, Hearing, Deaf
<1> QED BY <1>3, <1>4

LEMMA NextReaders == QueueInv /\ ReaderInv /\ [Next]_vars => ReaderInv'
<1>1. QueueInv /\ ReaderInv /\ Step => ReaderInv'
  BY SortedKept, PassingKept DEF QueueInv, ReaderInv
<1>2. ReaderInv /\ UNCHANGED vars => ReaderInv'
  BY DEF ReaderInv, Sorted, Passing, Clear, Wants, OnQueue, Queues, Has, OpenerOf, ReadQueues, QueueNames,
         GetPacketTypeQueue, vars, frameVars, reqVars
<1> QED BY <1>1, <1>2, Steps

LEMMA NextListeners == OneListener /\ QueueInv /\ ListenerInv /\ [Next]_vars => ListenerInv'
<1>1. OneListener /\ QueueInv /\ ListenerInv /\ Step => ListenerInv'
  BY ListeningKept, HearingKept DEF QueueInv, ListenerInv
<1>2. ListenerInv /\ UNCHANGED vars => ListenerInv'
  BY DEF ListenerInv, Listening, Hearing, Deaf, OnQueue, Queues, Has, OpenerOf, vars, walkVars, reqVars
<1> QED BY <1>1, <1>2, Steps

LEMMA ReadersHold == QueueInv /\ ReaderInv => NoReaderPassedOver
<1> SUFFICES ASSUME QueueInv, ReaderInv, pc[Unit] = "offer", NEW o \in Openers,
                    NEW name \in QueueNames \ {"orphanQueue", "eventQueue"},
                    NEW i \in DOMAIN queue[o][name], queue[o][name][i] \notin late
             PROVE  ~Wants(queue[o][name][i], frame)
  BY DEF NoReaderPassedOver
<1>1. Clear(o)
  BY DEF QueueInv, Offering, ReaderInv, Passing
<1>2. PICK r \in Reqs : r = queue[o][name][i] /\ OpenerOf(r) = o /\ OnQueue(r, name)
  BY InList DEF QueueInv, OnQueue, Queues, Has
<1> QED BY <1>1, <1>2 DEF Clear, ReadQueues

LEMMA ListenersHold == QueueInv /\ ListenerInv => EventsReported
<1> SUFFICES ASSUME QueueInv, ListenerInv, pc[Unit] = "wait", NEW o \in Openers,
                    NEW i \in DOMAIN queue[o]["eventQueue"]
             PROVE  unitState \notin Request[queue[o]["eventQueue"][i]].mask
  BY DEF EventsReported
<1>1. Deaf(o)
  BY DEF ListenerInv, Hearing
<1>2. PICK r \in Reqs : r = queue[o]["eventQueue"][i] /\ OpenerOf(r) = o /\ OnQueue(r, "eventQueue")
  BY InList DEF QueueInv, OnQueue, Queues, Has, QueueNames
<1> QED BY <1>1, <1>2 DEF Deaf

(* No read that waits when a frame arrives is passed over: the frame is offered to
   the orphan readers only after every opener's queue for its type was searched and
   held no read for it, although clients queue reads and AbortIO takes requests
   away, or cuts them off, between one opener and the next. *)
THEOREM ReadersServed == Spec => []NoReaderPassedOver
<1>1. Init => ReaderInv
  BY InitWaiting
<1> QED BY <1>1, QueueInvariant, NextReaders, ReadersHold, PTL DEF Spec

(* No change of state is missed: when the unit task is back at its port nobody still
   waits for the state the unit is in, although the report visits one opener after
   the other and S2_OFFLINE changes the state before it stops the MAC and reports.
   For openers that do not listen twice for one event: ReportEvents answers the first
   listener of a queue only. *)
THEOREM ListenersServed == OneListener => (Spec => []EventsReported)
<1>1. SUFFICES ASSUME OneListener PROVE Spec => []EventsReported
  OBVIOUS
<1>2. Init => ListenerInv
  BY InitWaiting
<1>3. QueueInv /\ ListenerInv /\ [Next]_vars => ListenerInv'
  BY <1>1, NextListeners
<1> QED BY <1>2, <1>3, QueueInvariant, ListenersHold, PTL DEF Spec
=============================================================================
