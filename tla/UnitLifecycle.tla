---------------------------- MODULE UnitLifecycle ----------------------------
(***************************************************************************)
(* Opening, closing and expunging the device: device.c, UnitOpen and       *)
(* UnitClose of unit.c, and the start, the loop and the end of the unit    *)
(* task in unit_task.c.                                                    *)
(*                                                                         *)
(* OpenDevice and CloseDevice run in the caller's task under Forbid, up to *)
(* the first Wait: for CTRL_F from a starting unit task, for the reply to  *)
(* an opener message, for unit->task to become NULL.  The unit task        *)
(* alone changes and walks unit->openers.                                  *)
(***************************************************************************)
EXTENDS Integers, Sequences, SequencesExt, FiniteSets

CONSTANTS
    Programs,           \* tasks that open and close the device
    Queries,            \* those whose request is shorter than IOSana2Req: no opener
    Failures,           \* which steps of an open may fail
    Overlap             \* the last close may come while another close waits

ASSUME ProgramAssumption == IsFiniteSet(Programs) /\ Queries \subseteq Programs
ASSUME FailureAssumption == 
    Failures \subseteq {"utility", "unit", "opener", "pool", "devtree", "task", "setup", "timer",
                        "replyPort"}
ASSUME OverlapAssumption == Overlap \in BOOLEAN

VARIABLES
    base,               \* struct GenetDevice exists
    lib_OpenCnt,        \* of base
    delexp,             \* LIBF_DELEXP: an expunge is put off
    unit,               \* base->unit is allocated
    unit_OpenCnt, state, memoryPool,
    bufLive,            \* the packet buffers are allocated
    openers,            \* unit->openers
    openerPort,         \* unit->openerPort exists
    openerMsgs,         \* the messages on it
    opener,             \* per program: its struct Opener is allocated
    pc,                 \* per program
    ut,                 \* where the unit task is
    task,               \* unit->task # NULL
    signals, sigset,    \* the unit task's pending signals, and those Wait returned
    started,            \* CTRL_F was sent to the opening task
    failed,             \* history: what has failed
    lost                \* memory was used that is not there; undefined from then on

libVars == <<base, lib_OpenCnt, delexp>>
unitVars == <<unit, unit_OpenCnt, state, memoryPool, bufLive>>
taskVars == <<ut, task, signals, sigset, started>>
listVars == <<openers, openerPort, openerMsgs, opener>>
vars == <<libVars, unitVars, taskVars, listVars, pc, failed, lost>>

Goto(p, step) == pc' = [pc EXCEPT ![p] = step]
HasOpener(p) == p \notin Queries

Init ==
    /\ base = FALSE /\ lib_OpenCnt = 0 /\ delexp = FALSE
    /\ unit = FALSE /\ unit_OpenCnt = 0 /\ state = "UNCONFIGURED"
    /\ memoryPool = FALSE /\ bufLive = FALSE
    /\ openers = <<>> /\ openerPort = FALSE /\ openerMsgs = <<>>
    /\ opener = [p \in Programs |-> FALSE] /\ pc = [p \in Programs |-> "closed"]
    /\ ut = "none" /\ task = FALSE /\ signals = {} /\ sigset = {} /\ started = FALSE
    /\ failed = {} /\ lost = FALSE

(***************************************************************************)
(* The device structure.  exec (external) loads the device for an open,    *)
(* and calls expungeLib when it runs out of memory.                        *)
(***************************************************************************)
Fails(what) == what \in Failures /\ failed' = failed \cup {what}

(* initFunction.  Without utility.library it calls expungeLib, which takes base off
   the list of devices before exec has put it there. *)
Load ==
    /\ ~lost /\ ~base /\ (\A p \in Programs : pc[p] = "closed")
    /\ base' = TRUE /\ lib_OpenCnt' = 0 /\ delexp' = FALSE
    /\ unit' = FALSE /\ unit_OpenCnt' = 0
    /\ \/ UNCHANGED <<failed, lost>>
       \/ Fails("utility") /\ lost' = TRUE
    /\ UNCHANGED <<state, memoryPool, bufLive, taskVars, listVars, pc>>

(* An open is counted when its UnitOpen has returned, so that an expunge may free
   the device under one that waits there. *)
CountedOpen ==
    /\ lib_OpenCnt' = lib_OpenCnt + 1 /\ delexp' = FALSE
    /\ lost' = ~base
    /\ UNCHANGED base

FreeBase(closing) ==
    /\ base' = FALSE
    /\ failed' = IF \A p \in Programs \ closing : pc[p] = "closed"
                 THEN failed ELSE failed \cup {"expunge"}

(* The end of closeLib, with the expunge that was put off. *)
CountedClose(p) ==
    /\ lib_OpenCnt' = lib_OpenCnt - 1
    /\ IF lib_OpenCnt = 1 /\ delexp THEN FreeBase({p}) ELSE UNCHANGED <<base, failed>>
    /\ UNCHANGED delexp

Expunge ==
    /\ ~lost /\ base
    /\ \/ lib_OpenCnt > 0 /\ delexp' = TRUE /\ UNCHANGED <<base, failed>>
       \/ lib_OpenCnt = 0 /\ FreeBase({}) /\ UNCHANGED delexp
    /\ UNCHANGED <<lib_OpenCnt, unitVars, taskVars, listVars, pc, lost>>

(***************************************************************************)
(* OpenDevice.  Nobody calls in while the first open or the last close is  *)
(* waiting (an assumption on the programs: see the README).                *)
(***************************************************************************)
Calm == ~lost /\ base /\ \A p \in Programs : pc[p] \notin {"starting", "stopping"}

NoUnit(p) ==
    /\ Calm /\ pc[p] = "closed" /\ ~unit
    /\ Fails("unit")
    /\ UNCHANGED <<libVars, unitVars, taskVars, listVars, pc, lost>>

(* createOpener fails: the unit structure is freed, whoever else uses it.  The
   next open starts from a cleared one. *)
NoOpener(p) ==
    /\ Calm /\ pc[p] = "closed" /\ HasOpener(p)
    /\ Fails("opener")
    /\ unit' = FALSE /\ unit_OpenCnt' = 0
    /\ lost' = \E q \in Programs : pc[q] # "closed"
    /\ UNCHANGED <<libVars, state, memoryPool, bufLive, taskVars, listVars, pc>>

CreateOpener(p) == opener' = [opener EXCEPT ![p] = HasOpener(p)]

(* UnitOpen of a unit that counts as open: tell the unit task. *)
PutMsg(command, p) ==
    /\ openerMsgs' = Append(openerMsgs, [command |-> command, opener |-> p])
    /\ signals' = signals \cup {"openerPort"}
    /\ UNCHANGED <<openers, openerPort, ut, task, sigset, started>>

(* The caller waits at a port of its own for the reply, and looks at it even if
   there is none. *)
ReplyPort == \/ UNCHANGED <<failed, lost>>
             \/ Fails("replyPort") /\ lost' = TRUE

OpenAgain(p) ==
    /\ Calm /\ pc[p] = "closed" /\ unit /\ unit_OpenCnt > 0
    /\ unit_OpenCnt' = unit_OpenCnt + 1
    /\ CreateOpener(p)
    /\ \/ HasOpener(p) /\ openerPort /\ PutMsg("add", p) /\ Goto(p, "waiting")
          /\ ReplyPort /\ UNCHANGED libVars
       \/ HasOpener(p) /\ ~openerPort /\ lost' = TRUE
          /\ UNCHANGED <<libVars, pc, taskVars, openers, openerPort, openerMsgs, failed>>
       \/ ~HasOpener(p) /\ Goto(p, "open") /\ CountedOpen
          /\ UNCHANGED <<taskVars, openers, openerPort, openerMsgs, failed>>
    /\ UNCHANGED <<unit, state, memoryPool, bufLive>>

(* The first UnitOpen. *)
FirstOpen(p) ==
    /\ Calm /\ pc[p] = "closed" /\ unit_OpenCnt = 0
    /\ unit' = TRUE /\ CreateOpener(p)
    /\ state' = "UNCONFIGURED" /\ unit_OpenCnt' = 1
    /\ \/ Fails("pool") /\ memoryPool' = FALSE /\ openers' = <<>> /\ UNCHANGED <<pc, ut>>
       \/ /\ openers' = IF HasOpener(p) THEN <<p>> ELSE <<>>
          /\ \/ Fails("devtree") /\ memoryPool' = TRUE /\ UNCHANGED <<pc, ut>>
             \/ Fails("task") /\ memoryPool' = FALSE /\ UNCHANGED <<pc, ut>>
             \/ /\ memoryPool' = TRUE
                /\ ut' = "setup" /\ Goto(p, "starting")
                /\ UNCHANGED failed
    /\ openerPort' = FALSE /\ openerMsgs' = <<>>
    /\ UNCHANGED <<libVars, bufLive, task, signals, sigset, started, lost>>

(* Wait(SIGBREAKF_CTRL_F) of UnitTaskStart returns. *)
Started(p) ==
    /\ ~lost /\ pc[p] = "starting" /\ started
    /\ started' = FALSE
    /\ Goto(p, "open")
    /\ CountedOpen
    /\ UNCHANGED <<unitVars, ut, task, signals, sigset, listVars, failed>>

(* The reply to OPENER_CMD_ADD. *)
Joined(p) ==
    /\ ~lost /\ pc[p] = "added"
    /\ Goto(p, "open") /\ CountedOpen
    /\ UNCHANGED <<unitVars, taskVars, listVars, failed>>

(***************************************************************************)
(* CloseDevice.                                                            *)
(***************************************************************************)
FreeOpener(p) == opener' = [opener EXCEPT ![p] = FALSE]
Leaving == {p \in Programs : pc[p] \in {"leaving", "removed"}}

LeaveOthers(p) ==
    /\ unit_OpenCnt > 1 /\ HasOpener(p)
    /\ PutMsg("remove", p) /\ UNCHANGED opener
    /\ Goto(p, "leaving")
    /\ ReplyPort
    /\ UNCHANGED <<libVars, unit, state, memoryPool, bufLive>>

LeaveQuietly(p) ==
    /\ unit_OpenCnt > 1 /\ ~HasOpener(p)
    /\ Goto(p, "closed") /\ CountedClose(p)
    /\ UNCHANGED <<lost, unit, state, memoryPool, bufLive, taskVars, listVars>>

(* The last one stops the MAC from its own task, and then the unit task, with a
   timer request it uses even if there is none. *)
MacKept == UNCHANGED <<state, bufLive>>                           \* mutant
StopMac ==
    \/ state = "ONLINE" /\ state' = "OFFLINE" /\ bufLive' = FALSE
    \/ state # "ONLINE" /\ UNCHANGED <<state, bufLive>>

NoSignal == UNCHANGED signals                                     \* mutant
SignalTask == signals' = signals \cup {"CTRL_C"}

StopUnit(p) ==
    /\ unit_OpenCnt = 1 /\ (Overlap \/ Leaving = {})
    /\ StopMac
    /\ SignalTask
    /\ Goto(p, "stopping")
    /\ \/ UNCHANGED <<failed, lost>>
       \/ Fails("timer") /\ lost' = TRUE
    /\ UNCHANGED <<libVars, unit, memoryPool, ut, task, sigset, started, listVars>>

CountOpeners(p) == unit_OpenCnt' = unit_OpenCnt - (IF HasOpener(p) THEN 1 ELSE 0)  \* mutant
Uncount(p) == unit_OpenCnt' = unit_OpenCnt - 1

Close(p) ==
    /\ ~lost /\ pc[p] = "open"
    /\ Uncount(p)
    /\ LeaveOthers(p) \/ LeaveQuietly(p) \/ StopUnit(p)

(* The reply to OPENER_CMD_REM.  UnitClose returns the count as it is now, and
   closeLib frees the unit if that is zero, though another closes it as the last. *)
Left(p) ==
    /\ ~lost /\ pc[p] = "removed"
    /\ unit' = (unit_OpenCnt > 0) /\ lost' = (unit_OpenCnt = 0)
    /\ FreeOpener(p)
    /\ Goto(p, "closed") /\ CountedClose(p)
    /\ UNCHANGED <<unit_OpenCnt, state, memoryPool, bufLive, taskVars,
                   openers, openerPort, openerMsgs>>

(* The unit task is gone: the pool, the unit and the opener are freed, and
   whoever still has to read the count reads it from freed memory. *)
StoppedEarly(p) == pc[p] = "stopping"                             \* mutant
TaskStopped(p) == pc[p] = "stopping" /\ ~task

Stopped(p) ==
    /\ ~lost /\ TaskStopped(p)
    /\ unit' = FALSE /\ memoryPool' = FALSE /\ state' = "UNCONFIGURED"
    /\ lost' = (Leaving # {})
    /\ FreeOpener(p)
    /\ Goto(p, "closed") /\ CountedClose(p)
    /\ UNCHANGED <<unit_OpenCnt, bufLive, taskVars, openers, openerPort, openerMsgs>>

(***************************************************************************)
(* The unit task: set-up, one pass of its loop, its end.                   *)
(***************************************************************************)
(* Message ports, timer requests and timer.device; a failure is reported with
   CTRL_C, which nobody waits for. *)
SetupFails ==
    /\ ut = "setup"
    /\ Fails("setup")
    /\ ut' = "none"
    /\ UNCHANGED <<libVars, unitVars, task, signals, sigset, started, listVars, pc, lost>>

CreatesLater == UNCHANGED openerPort                              \* mutant
CreatePort == openerPort' = TRUE

Setup ==
    /\ ut = "setup" /\ ut' = "wait"
    /\ CreatePort
    /\ task' = TRUE /\ started' = TRUE
    /\ UNCHANGED <<libVars, unitVars, signals, sigset, openers, openerMsgs, opener, pc,
                   failed, lost>>

(* Wait returns for its signals or, if there are none, for a timer. *)
WakeUp ==
    /\ ut = "wait" /\ ut' = "commands"
    /\ sigset' = signals /\ signals' = {}
    /\ UNCHANGED <<libVars, unitVars, task, started, listVars, pc, failed, lost>>

(* The commands on the message port, with what they leave the unit in. *)
Commands ==
    /\ ut = "commands" /\ ut' = "openers"
    /\ \/ UNCHANGED <<state, bufLive>>
       \/ /\ \E p \in Programs : pc[p] = "open"
          /\ \/ state' = "ONLINE" /\ bufLive' = TRUE
             \/ state = "ONLINE" /\ state' = "OFFLINE" /\ bufLive' = FALSE
    /\ UNCHANGED <<libVars, unit, unit_OpenCnt, memoryPool, task, signals, sigset, started,
                   listVars, pc, failed, lost>>

AddOnly(msg) == IF msg.command = "add" THEN Append(openers, msg.opener) ELSE openers  \* mutant
Handle(msg) == IF msg.command = "add" THEN Append(openers, msg.opener)
               ELSE RemoveAt(openers, CHOOSE i \in DOMAIN openers : openers[i] = msg.opener)

(* A message is handled and replied. *)
OpenerMsg ==
    /\ ut = "openers" /\ "openerPort" \in sigset /\ openerMsgs # <<>>
    /\ LET msg == Head(openerMsgs)
       IN  /\ openers' = Handle(msg)
           /\ Goto(msg.opener, IF msg.command = "add" THEN "added" ELSE "removed")
    /\ openerMsgs' = Tail(openerMsgs)
    /\ UNCHANGED <<libVars, unitVars, taskVars, openerPort, opener, failed, lost>>

OpenersDone ==
    /\ ut = "openers" /\ ("openerPort" \notin sigset \/ openerMsgs = <<>>)
    /\ ut' = IF state = "ONLINE" THEN "receive" ELSE "timers"
    /\ UNCHANGED <<libVars, unitVars, task, signals, sigset, started, listVars, pc, failed, lost>>

Received ==
    /\ ut = "receive" /\ ut' = "timers"
    /\ UNCHANGED <<libVars, unitVars, task, signals, sigset, started, listVars, pc, failed, lost>>

Again ==
    /\ ut = "timers" /\ "CTRL_C" \notin sigset
    /\ ut' = "wait" /\ sigset' = {}
    /\ UNCHANGED <<libVars, unitVars, task, signals, started, listVars, pc, failed, lost>>

(* unit->task = NULL is the last thing the unit task does to the unit. *)
Exit ==
    /\ ut = "timers" /\ "CTRL_C" \in sigset
    /\ ut' = "exit" /\ openerPort' = FALSE
    /\ UNCHANGED <<libVars, unitVars, task, signals, sigset, started, openers, openerMsgs, opener,
                   pc, failed, lost>>

Gone ==
    /\ ut = "exit" /\ ut' = "none"
    /\ task' = FALSE /\ signals' = {} /\ sigset' = {}
    /\ UNCHANGED <<libVars, unitVars, started, listVars, pc, failed, lost>>

UnitStep == \/ SetupFails \/ Setup \/ WakeUp \/ Commands \/ OpenerMsg
            \/ OpenersDone \/ Received \/ Again \/ Exit \/ Gone

Next ==
    \/ \E p \in Programs : \/ NoUnit(p) \/ NoOpener(p) \/ OpenAgain(p) \/ FirstOpen(p)
                           \/ Started(p) \/ Joined(p)
                           \/ Close(p) \/ Left(p) \/ Stopped(p)
    \/ Load \/ Expunge
    \/ ~lost /\ UnitStep

(* Tasks that can run do. *)
Fairness == /\ WF_vars(~lost /\ UnitStep)
            /\ \A p \in Programs : WF_vars(Started(p) \/ Joined(p) \/ Left(p) \/ Stopped(p))

Spec == Init /\ [][Next]_vars
FairSpec == Spec /\ Fairness

(***************************************************************************)
(* Properties.                                                             *)
(***************************************************************************)
(* Type invariant. *)
TypeOK ==
    /\ {base, delexp, unit, memoryPool, bufLive, openerPort, task, started, lost} \subseteq BOOLEAN
    /\ unit_OpenCnt \in 0 .. Cardinality(Programs) + 1 /\ lib_OpenCnt \in 0 .. Cardinality(Programs)
    /\ state \in {"UNCONFIGURED", "ONLINE", "OFFLINE"}
    /\ openers \in Seq(Programs)
    /\ openerMsgs \in Seq([command : {"add", "remove"}, opener : Programs])
    /\ opener \in [Programs -> BOOLEAN]
    /\ pc \in [Programs -> {"closed", "starting", "waiting", "added", "open",
                         "leaving", "removed", "stopping"}]
    /\ ut \in {"none", "setup", "wait", "commands", "openers", "receive", "timers", "exit"}
    /\ signals \subseteq {"openerPort", "CTRL_C"} /\ sigset \subseteq {"openerPort", "CTRL_C"}
    /\ failed \subseteq Failures \cup {"expunge"}

(* The device, the unit, its pool and every opener on its list are there as long
   as the unit task is, whoever closes in whatever order and whenever exec asks for
   an expunge, and also after an open has failed in a way the code can survive.
   Only an expunge that meets a waiting open takes the device away too early. *)
NothingFreedInUse ==
    ut # "none" /\ ~lost => /\ base \/ "expunge" \in failed
                            /\ unit /\ memoryPool
                            /\ \A p \in Range(openers) : opener[p]

(* Every program that has the device open is on the list once, so it gets frames
   and events, and nobody is who has closed it or is not yet announced. *)
OpenersListed ==
    ~lost =>
        /\ \A p \in Programs : pc[p] = "open" /\ HasOpener(p) =>
               Cardinality({i \in DOMAIN openers : openers[i] = p}) = 1
        /\ ut # "none" => \A p \in Range(openers) : pc[p] \notin {"closed", "waiting", "removed"}

(* When nobody has the device open and nothing has failed, nothing is left: no
   unit, pool, task, buffer or opener, and no device whose expunge was put off: that
   one went with the last close. *)
NothingLeft ==
    failed = {} /\ (\A p \in Programs : pc[p] = "closed") =>
        ~unit /\ ~memoryPool /\ ~bufLive /\ ut = "none" /\ ~task
        /\ (base => lib_OpenCnt = 0 /\ ~delexp)
        /\ \A p \in Programs : ~opener[p]

(* As long as closes do not overlap, only a failed load, open, close or stop or an
   expunge that meets a waiting open makes the driver use memory that is not there,
   and never a unit or a set-up of the task that failed. *)
WildOnlyAfterFailure == lost => failed \ {"unit", "setup"} # {}

(* OpenDevice returns, unless the set-up of the unit task has failed: the hand-shake
   with a starting task and the opener message both come through.  CloseDevice
   returns, the last one after the unit task has gone. *)
OpenReturns(p) ==
    pc[p] \in {"starting", "waiting", "added"} ~> pc[p] = "open" \/ "setup" \in failed \/ lost
CloseReturns(p) == pc[p] \in {"leaving", "removed", "stopping"} ~> pc[p] = "closed" \/ lost
CallsReturn == \A p \in Programs : OpenReturns(p) /\ CloseReturns(p)

(* closeLib frees the unit when its "last user disappeared" (device.c:266): then
   no call on the unit is under way any more and its task has ended.  The code does
   not keep this when closes overlap: see the README. *)
LastUserDisappeared == ~unit => ut = "none" /\ \A p \in Programs : pc[p] = "closed"
=============================================================================
