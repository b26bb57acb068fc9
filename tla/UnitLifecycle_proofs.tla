------------------------ MODULE UnitLifecycle_proofs ------------------------
(***************************************************************************)
(* Opening and closing are sound for any number of programs, as long as    *)
(* the last close does not come while another close waits.                 *)
(***************************************************************************)
EXTENDS UnitLifecycle, SharedTheorems, FiniteSetTheorems, SequenceTheorems, TLAPS

(***************************************************************************)
(* How many programs are at some of their steps.  unit_OpenCnt counts      *)
(* UserSteps, lib_OpenCnt counts CountedSteps.                             *)
(***************************************************************************)
Steps == {"closed", "starting", "waiting", "added", "open", "leaving", "removed", "stopping"}
UserSteps == {"starting", "waiting", "added", "open"}
CountedSteps == {"open", "leaving", "removed", "stopping"}
At(f, S) == {p \in Programs : f[p] \in S}
Count(f, S) == Cardinality(At(f, S))
Users == Count(pc, UserSteps)
Counted == Count(pc, CountedSteps)
One(step, S) == IF step \in S THEN 1 ELSE 0

LEMMA CountType ==
  ASSUME NEW f, NEW S
  PROVE  /\ IsFiniteSet(At(f, S)) /\ Count(f, S) \in Nat /\ Count(f, S) <= Cardinality(Programs)
         /\ Cardinality(Programs) \in Nat
         /\ Count(f, S) = 0 <=> \A p \in Programs : f[p] \notin S
         /\ Count(f, S) = Cardinality(Programs) => \A p \in Programs : f[p] \in S
<1>1. At(f, S) \in SUBSET Programs /\ IsFiniteSet(Programs)
  BY ProgramAssumption DEF At
<1>2. IsFiniteSet(At(f, S)) /\ Count(f, S) <= Cardinality(Programs)
      /\ (Count(f, S) = Cardinality(Programs) => At(f, S) = Programs)
  BY <1>1, FS_Subset DEF Count
<1>3. Count(f, S) \in Nat /\ Cardinality(Programs) \in Nat
  BY <1>1, <1>2, FS_CardinalityType DEF Count
<1>4. Count(f, S) = 0 <=> At(f, S) = {}
  BY <1>2, FS_EmptySet DEF Count
<1> QED BY <1>2, <1>3, <1>4 DEF At

(* One program's step moves the count by what that step is and was. *)
LEMMA CountMove ==
  ASSUME NEW f, NEW g, NEW S, NEW p \in Programs, \A q \in Programs : q # p => g[q] = f[q]
  PROVE  Count(g, S) = Count(f, S) + One(g[p], S) - One(f[p], S)
<1>1. IsFiniteSet(At(f, S)) /\ IsFiniteSet(At(g, S)) /\ Count(f, S) \in Nat /\ Count(g, S) \in Nat
  BY CountType
<1>2. CASE f[p] \in S /\ g[p] \in S
  <2>1. At(g, S) = At(f, S)
    BY <1>2 DEF At
  <2> QED BY <1>1, <1>2, <2>1 DEF Count, One
<1>3. CASE f[p] \notin S /\ g[p] \notin S
  <2>1. At(g, S) = At(f, S)
    BY <1>3 DEF At
  <2> QED BY <1>1, <1>3, <2>1 DEF Count, One
<1>4. CASE f[p] \notin S /\ g[p] \in S
  <2>1. At(g, S) = At(f, S) \cup {p} /\ p \notin At(f, S)
    BY <1>4 DEF At
  <2>2. Count(g, S) = Count(f, S) + 1
    BY <1>1, <2>1, FS_AddElement DEF Count
  <2> QED BY <1>1, <1>4, <2>2 DEF One
<1>5. CASE f[p] \in S /\ g[p] \notin S
  <2>1. At(g, S) = At(f, S) \ {p} /\ p \in At(f, S)
    BY <1>5 DEF At
  <2>2. Count(g, S) = Count(f, S) - 1
    BY <1>1, <2>1, FS_RemoveElement DEF Count
  <2> QED BY <1>1, <1>5, <2>2 DEF One
<1> QED BY <1>2, <1>3, <1>4, <1>5

LEMMA GotoMoves ==
  ASSUME NEW p \in Programs, NEW s \in Steps, pc \in [Programs -> Steps], Goto(p, s)
  PROVE  /\ pc' \in [Programs -> Steps] /\ pc'[p] = s
         /\ \A q \in Programs : q # p => pc'[q] = pc[q]
         /\ Users' = Users + One(s, UserSteps) - One(pc[p], UserSteps)
         /\ Counted' = Counted + One(s, CountedSteps) - One(pc[p], CountedSteps)
<1>1. pc' \in [Programs -> Steps] /\ pc'[p] = s /\ \A q \in Programs : q # p => pc'[q] = pc[q]
  BY DEF Goto
<1>2. Users' = Count(pc', UserSteps) /\ Counted' = Count(pc', CountedSteps)
  BY DEF Users, Counted
<1>3. Count(pc', UserSteps) = Count(pc, UserSteps) + One(pc'[p], UserSteps) - One(pc[p], UserSteps)
  BY <1>1, CountMove
<1>4. Count(pc', CountedSteps)
        = Count(pc, CountedSteps) + One(pc'[p], CountedSteps) - One(pc[p], CountedSteps)
  BY <1>1, CountMove
<1> QED BY <1>1, <1>2, <1>3, <1>4 DEF Users, Counted

(***************************************************************************)
(* The invariant.  While no memory was misused the driver is in one of     *)
(* five modes: quiet, opening for the first program, busy, closing for the *)
(* last one, or stray, which is what a failed first open leaves: a unit    *)
(* that counts one user too many and has no task.  Only the programs       *)
(* without an opener get through to a stray unit.                          *)
(***************************************************************************)
Flags ==
    /\ base \in BOOLEAN /\ delexp \in BOOLEAN /\ unit \in BOOLEAN /\ memoryPool \in BOOLEAN
    /\ bufLive \in BOOLEAN /\ openerPort \in BOOLEAN /\ task \in BOOLEAN
    /\ started \in BOOLEAN /\ lost \in BOOLEAN
Counters ==
    /\ unit_OpenCnt \in 0 .. Cardinality(Programs) + 1
    /\ lib_OpenCnt \in 0 .. Cardinality(Programs)
Msgs == [command : {"add", "remove"}, opener : Programs]
Lists ==
    /\ openers \in Seq(Programs)
    /\ openerMsgs \in Seq(Msgs)
Places ==
    /\ state \in {"UNCONFIGURED", "ONLINE", "OFFLINE"}
    /\ pc \in [Programs -> Steps] /\ opener \in [Programs -> BOOLEAN]
    /\ ut \in {"none", "setup", "wait", "commands", "openers", "receive", "timers", "exit"}
    /\ signals \subseteq {"openerPort", "CTRL_C"} /\ sigset \subseteq {"openerPort", "CTRL_C"}
    /\ failed \subseteq Failures \cup {"expunge"}
Types == Flags /\ Counters /\ Lists /\ Places

Running == {"wait", "commands", "openers", "receive", "timers"}
NoTask == ut = "none" /\ ~task /\ ~started /\ signals = {} /\ sigset = {}
Alone(p) == \A q \in Programs : q # p => pc[q] = "closed"

(* unit->openers holds each program that is announced and not yet withdrawn, once. *)
Linked == {"starting", "added", "open", "leaving", "stopping"}
Once == \A i, j \in DOMAIN openers : openers[i] = openers[j] => i = j
OnList == \A p \in Programs : (\E i \in DOMAIN openers : openers[i] = p)
                              <=> HasOpener(p) /\ pc[p] \in Linked
Present == unit /\ memoryPool /\ Once /\ OnList

Quiet ==
    /\ \A p \in Programs : pc[p] = "closed"
    /\ NoTask /\ ~unit /\ ~bufLive /\ unit_OpenCnt = 0
    /\ failed = {} => ~memoryPool
Stray ==
    /\ \A p \in Programs : pc[p] = "closed" \/ (pc[p] = "open" /\ ~HasOpener(p))
    /\ NoTask /\ unit /\ ~bufLive /\ state = "UNCONFIGURED" /\ ~openerPort
    /\ failed \cap {"pool", "devtree", "task"} # {}
    /\ unit_OpenCnt = Users + 1
Opening(p) ==
    /\ pc[p] = "starting" /\ Alone(p)
    /\ Present /\ ~bufLive /\ state = "UNCONFIGURED"
    /\ unit_OpenCnt = Users /\ unit_OpenCnt > 0
    /\ signals = {} /\ sigset = {}
    /\ \/ ut \in Running /\ openerPort /\ task /\ started
       \/ ut \in {"setup", "none"} /\ ~openerPort /\ ~task /\ ~started
Busy ==
    /\ \A p \in Programs : pc[p] \notin {"starting", "stopping"}
    /\ Present /\ bufLive = (state = "ONLINE")
    /\ ut \in Running /\ openerPort /\ task /\ ~started
    /\ "CTRL_C" \notin signals /\ "CTRL_C" \notin sigset
    /\ unit_OpenCnt = Users /\ unit_OpenCnt > 0
Closing(p) ==
    /\ pc[p] = "stopping" /\ Alone(p)
    /\ Present /\ ~bufLive /\ state # "ONLINE" /\ unit_OpenCnt = 0 /\ ~started
    /\ (ut \in Running \cup {"exit"} /\ task) \/ NoTask
Mode == \/ Quiet \/ Stray \/ Busy
        \/ \E p \in Programs : Opening(p) \/ Closing(p)

(* Each message on the opener port is from the program that waits for its reply. *)
Messages ==
    /\ \A i, j \in DOMAIN openerMsgs : openerMsgs[i].opener = openerMsgs[j].opener => i = j
    /\ \A i \in DOMAIN openerMsgs :
           /\ HasOpener(openerMsgs[i].opener)
           /\ openerMsgs[i].command = "add" => pc[openerMsgs[i].opener] = "waiting"
           /\ openerMsgs[i].command = "remove" => pc[openerMsgs[i].opener] = "leaving"

(* A program has its opener from the start of its open to the end of its close. *)
Allocated ==
    \A p \in Programs : /\ opener[p] => HasOpener(p)
                        /\ HasOpener(p) /\ pc[p] # "closed" => opener[p]
                        /\ failed = {} /\ opener[p] => pc[p] # "closed"

(* The device is there as long as anybody uses it, but for an expunge that met a
   waiting open, and an expunge is put off only as long as there are opens. *)
Device ==
    /\ lib_OpenCnt = Counted
    /\ base /\ delexp => lib_OpenCnt > 0
    /\ base \/ "expunge" \in failed \/ \A p \in Programs : pc[p] = "closed"

Alive == Messages /\ Allocated /\ Device /\ Mode
LifeInv == Types /\ (~lost => Alive) /\ WildOnlyAfterFailure

LEMMA InitLife == Init => LifeInv
<1> SUFFICES ASSUME Init PROVE LifeInv
  OBVIOUS
<1>1. \A p \in Programs : pc[p] = "closed"
  BY DEF Init
<1>2. Counted = 0 /\ Cardinality(Programs) \in Nat
  BY <1>1, CountType DEF Counted, CountedSteps
<1>3. Types
  <2>1. Flags
    BY DEF Init, Flags
  <2>2. Counters
    BY <1>2 DEF Init, Counters
  <2>3. Lists
    BY DEF Init, Lists
  <2>4. Places
    BY DEF Init, Places, Steps
  <2> QED BY <2>1, <2>2, <2>3, <2>4 DEF Types
<1>4. Messages /\ Allocated
  BY DEF Init, Messages, Allocated
<1>5. Device
  BY <1>1, <1>2 DEF Init, Device
<1>6. Quiet
  BY <1>1 DEF Init, Quiet, NoTask
<1> QED BY <1>3, <1>4, <1>5, <1>6 DEF LifeInv, Alive, Mode, WildOnlyAfterFailure, Init

(* Who is here tells the mode. *)
LEMMA WhichMode ==
  ASSUME Mode
  PROVE  /\ \A p \in Programs : pc[p] = "starting" => Opening(p)
         /\ \A p \in Programs : pc[p] = "stopping" => Closing(p)
         /\ \A p \in Programs : pc[p] \in {"waiting", "added", "leaving", "removed"} => Busy
         /\ \A p \in Programs : pc[p] = "open" => Busy \/ (Stray /\ ~HasOpener(p))
         /\ ut = "setup" => \E p \in Programs : Opening(p)
         /\ ut = "exit" => \E p \in Programs : Closing(p)
         /\ ut \in Running => Busy \/ \E p \in Programs : Opening(p) \/ Closing(p)
         /\ (\A p \in Programs : pc[p] = "closed") => Quiet \/ Stray
<1> USE DEF Mode
<1>1. ASSUME NEW p \in Programs, pc[p] = "starting" PROVE Opening(p)
  BY <1>1 DEF Quiet, Stray, Opening, Busy, Closing, Alone
<1>2. ASSUME NEW p \in Programs, pc[p] = "stopping" PROVE Closing(p)
  BY <1>2 DEF Quiet, Stray, Opening, Busy, Closing, Alone
<1>3. ASSUME NEW p \in Programs, pc[p] \in {"waiting", "added", "leaving", "removed"} PROVE Busy
  BY <1>3 DEF Quiet, Stray, Opening, Closing, Alone
<1>4. ASSUME NEW p \in Programs, pc[p] = "open" PROVE Busy \/ (Stray /\ ~HasOpener(p))
  BY <1>4 DEF Quiet, Stray, Opening, Closing, Alone
<1>5. /\ ut = "setup" => \E p \in Programs : Opening(p)
      /\ ut = "exit" => \E p \in Programs : Closing(p)
      /\ ut \in Running => Busy \/ \E p \in Programs : Opening(p) \/ Closing(p)
  BY DEF Quiet, Stray, Opening, Busy, Closing, NoTask, Running
<1>6. ASSUME \A p \in Programs : pc[p] = "closed" PROVE Quiet \/ Stray
  <2>1. ~Busy
    <3>1. Users = 0
      BY <1>6, CountType DEF Users, UserSteps
    <3> QED BY <3>1 DEF Busy
  <2> QED BY <1>6, <2>1 DEF Opening, Closing
<1> QED BY <1>1, <1>2, <1>3, <1>4, <1>5, <1>6

LEMMA SamePlaces == UNCHANGED pc => Users' = Users /\ Counted' = Counted
  BY DEF Users, Counted

(* What does not move a program or touch the messages, the openers or the device. *)
LEMMA StayAside ==
  ASSUME Messages, Allocated, Device, UNCHANGED <<libVars, openerMsgs, opener, pc>>,
         failed \subseteq failed'
  PROVE  Messages' /\ Allocated' /\ Device'
<1>1. Messages'
  BY DEF Messages
<1>2. Allocated'
  BY DEF Allocated
<1>3. Device'
  BY SamePlaces DEF Device, libVars
<1> QED BY <1>1, <1>2, <1>3

LEMMA SamePresent == Present /\ UNCHANGED <<unit, memoryPool, openers, pc>> => Present'
  BY DEF Present, Once, OnList

(***************************************************************************)
(* The unit task.                                                          *)
(***************************************************************************)
TaskOnly == UNCHANGED <<libVars, unit, unit_OpenCnt, memoryPool, openers, openerMsgs, opener, pc, lost>>

LEMMA SetupLife ==
  ASSUME Types, Alive, ~lost, SetupFails \/ Setup PROVE LifeInv'
<1> USE DEF Types, Alive
<1>1. PICK p \in Programs : Opening(p)
  BY WhichMode DEF SetupFails, Setup
<1>2. TaskOnly /\ failed \subseteq failed' /\ UNCHANGED <<state, bufLive, signals, sigset>>
  BY DEF SetupFails, Setup, TaskOnly, unitVars, listVars, taskVars, Fails
<1>3. Messages' /\ Allocated' /\ Device'
  BY <1>2, StayAside DEF TaskOnly
<1>4. Present'
  BY <1>1, <1>2, SamePresent DEF Opening, TaskOnly
<1>5. Opening(p)'
  <2>1. ut' \in {"none", "wait"} /\ (ut' = "wait" => openerPort' /\ task' /\ started')
        /\ (ut' = "none" => UNCHANGED <<openerPort, task, started>>) /\ ut = "setup"
    BY DEF SetupFails, Setup, CreatePort, listVars
  <2>2. ~bufLive' /\ state' = "UNCONFIGURED" /\ signals' = {} /\ sigset' = {}
        /\ pc'[p] = "starting" /\ Alone(p)' /\ unit_OpenCnt' = Users' /\ unit_OpenCnt' > 0
    BY <1>1, <1>2, SamePlaces DEF Opening, TaskOnly, Alone
  <2>3. ~openerPort /\ ~task /\ ~started
    BY <1>1, <2>1 DEF Opening, Running
  <2> QED BY <1>4, <2>1, <2>2, <2>3 DEF Opening, Running
<1>6. Flags'
  BY <1>2 DEF TaskOnly, Flags, libVars, SetupFails, Setup, CreatePort, listVars
<1>7. Counters' /\ Lists'
  BY <1>2 DEF TaskOnly, Counters, Lists, libVars
<1>8. Places'
  BY <1>2 DEF TaskOnly, Places, SetupFails, Setup, Fails
<1> QED
  BY <1>2, <1>3, <1>5, <1>6, <1>7, <1>8 DEF LifeInv, Mode, TaskOnly, WildOnlyAfterFailure

LEMMA LoopLife ==
  ASSUME Types, Alive, ~lost,
         WakeUp \/ Commands \/ OpenersDone \/ Received \/ Again \/ Exit \/ Gone
  PROVE  LifeInv'
<1> USE DEF Types, Alive
<1>1. TaskOnly /\ UNCHANGED failed
  BY DEF WakeUp, Commands, OpenersDone, Received, Again, Exit, Gone, TaskOnly, unitVars, listVars,
         taskVars
<1>2. signals' \subseteq signals /\ sigset' \subseteq signals \cup sigset
  BY DEF WakeUp, Commands, OpenersDone, Received, Again, Exit, Gone
<1>3. \/ ut \in Running /\ ut' \in Running /\ UNCHANGED <<openerPort, task, started>>
      \/ /\ ut \in Running /\ "CTRL_C" \in sigset /\ ut' = "exit" /\ openerPort' = FALSE
         /\ UNCHANGED <<task, started>>
      \/ /\ ut = "exit" /\ ut' = "none" /\ task' = FALSE /\ signals' = {} /\ sigset' = {}
         /\ UNCHANGED <<openerPort, started>>
  BY DEF WakeUp, Commands, OpenersDone, Received, Again, Exit, Gone, listVars, Running
<1>4. \/ UNCHANGED <<state, bufLive>>
      \/ /\ \E p \in Programs : pc[p] = "open"
         /\ state' \in {"ONLINE", "OFFLINE"} /\ bufLive' = (state' = "ONLINE")
  BY DEF WakeUp, Commands, OpenersDone, Received, Again, Exit, Gone, unitVars
<1>5. Messages' /\ Allocated' /\ Device'
  BY <1>1, StayAside DEF TaskOnly
<1>6. Mode'
  <2>1. CASE Busy
    <3>1. Present'
      BY <1>1, <2>1, SamePresent DEF Busy, TaskOnly
    <3>2. ut' \in Running /\ openerPort' /\ task' /\ ~started'
      <4>1. "CTRL_C" \notin sigset /\ ut # "exit" /\ openerPort /\ task /\ ~started
        BY <2>1 DEF Busy, Running
      <4>2. ut' \in Running /\ UNCHANGED <<openerPort, task, started>>
        BY <1>3, <4>1
      <4> QED BY <4>1, <4>2
    <3>3. bufLive' = (state' = "ONLINE")
      BY <1>4, <2>1 DEF Busy
    <3>4. unit_OpenCnt' = Users' /\ unit_OpenCnt' > 0
      BY <1>1, <2>1, SamePlaces DEF Busy, TaskOnly
    <3>5. "CTRL_C" \notin signals' /\ "CTRL_C" \notin sigset'
          /\ \A p \in Programs : pc'[p] \notin {"starting", "stopping"}
      BY <1>1, <1>2, <2>1 DEF Busy, TaskOnly
    <3> QED BY <3>1, <3>2, <3>3, <3>4, <3>5 DEF Mode, Busy
  <2>2. ASSUME NEW p \in Programs, Opening(p) PROVE Mode'
    <3>1. Present'
      BY <1>1, <2>2, SamePresent DEF Opening, TaskOnly
    <3>2. UNCHANGED <<state, bufLive>>
      BY <1>4, <2>2 DEF Opening, Alone
    <3>3. signals' = {} /\ sigset' = {}
      BY <1>2, <2>2 DEF Opening
    <3>4. ut' \in Running /\ openerPort' /\ task' /\ started'
      BY <1>3, <2>2 DEF Opening, Running
    <3>5. pc'[p] = "starting" /\ Alone(p)' /\ unit_OpenCnt' = Users' /\ unit_OpenCnt' > 0
      BY <1>1, <2>2, SamePlaces DEF Opening, Alone, TaskOnly
    <3> QED BY <2>2, <3>1, <3>2, <3>3, <3>4, <3>5 DEF Mode, Opening
  <2>3. ASSUME NEW p \in Programs, Closing(p) PROVE Mode'
    <3>1. Present'
      BY <1>1, <2>3, SamePresent DEF Closing, TaskOnly
    <3>2. UNCHANGED <<state, bufLive>>
      BY <1>4, <2>3 DEF Closing, Alone
    <3>3. (ut' \in Running \cup {"exit"} /\ task') \/ NoTask'
      BY <1>3, <2>3 DEF Closing, NoTask, Running
    <3>4. pc'[p] = "stopping" /\ Alone(p)' /\ unit_OpenCnt' = 0 /\ ~started'
      BY <1>1, <1>3, <2>3 DEF Closing, Alone, TaskOnly
    <3> QED BY <2>3, <3>1, <3>2, <3>3, <3>4 DEF Mode, Closing
  <2> QED BY <1>3, <2>1, <2>2, <2>3, WhichMode
<1>7. Flags'
  <2>1. openerPort' \in BOOLEAN /\ task' \in BOOLEAN /\ started' \in BOOLEAN
    BY <1>3 DEF Flags
  <2>2. bufLive' \in BOOLEAN
    BY <1>4 DEF Flags
  <2> QED BY <1>1, <2>1, <2>2 DEF TaskOnly, Flags, libVars
<1>8. Counters' /\ Lists'
  BY <1>1 DEF TaskOnly, Counters, Lists, libVars
<1>9. Places'
  BY <1>1, <1>2, <1>3, <1>4 DEF TaskOnly, Places, Running
<1> QED
  BY <1>1, <1>5, <1>6, <1>7, <1>8, <1>9 DEF LifeInv, TaskOnly, WildOnlyAfterFailure

LEMMA MessageLife ==
  ASSUME Types, Alive, ~lost, OpenerMsg PROVE LifeInv'
<1> DEFINE p == openerMsgs[1].opener
<1> USE DEF Types, Alive
<1>1. /\ openerMsgs[1] \in Msgs /\ p \in Programs
      /\ 1 \in DOMAIN openerMsgs /\ Head(openerMsgs) = openerMsgs[1]
      /\ openerMsgs' \in Seq(Msgs)
      /\ DOMAIN openerMsgs' = 1 .. Len(openerMsgs) - 1
      /\ \A i \in DOMAIN openerMsgs' : i + 1 \in DOMAIN openerMsgs /\ openerMsgs'[i] = openerMsgs[i + 1]
  <2>1. openerMsgs \in Seq(Msgs) /\ openerMsgs # <<>>
        /\ openerMsgs' = Tail(openerMsgs)
    BY DEF OpenerMsg, Lists
  <2>2. /\ openerMsgs' \in Seq(Msgs)
        /\ Len(openerMsgs') = Len(openerMsgs) - 1
        /\ \A i \in 1 .. Len(openerMsgs') : openerMsgs'[i] = openerMsgs[i + 1]
    BY <2>1, HeadTailProperties
  <2>3. 1 \in DOMAIN openerMsgs /\ Len(openerMsgs) \in Nat
        /\ DOMAIN openerMsgs = 1 .. Len(openerMsgs) /\ Head(openerMsgs) = openerMsgs[1]
    BY <2>1
  <2>4. openerMsgs[1] \in Msgs
    BY <2>1, <2>3, ElementOfSeq
  <2>5. p \in Programs
    BY <2>4 DEF Msgs
  <2>6. DOMAIN openerMsgs' = 1 .. Len(openerMsgs')
    BY <2>2
  <2> HIDE DEF p
  <2> QED BY <2>2, <2>3, <2>4, <2>5, <2>6
<1>2. UNCHANGED <<libVars, unitVars, taskVars, openerPort, opener, failed, lost>>
  BY DEF OpenerMsg
<1>3. /\ HasOpener(p) /\ pc[p] \in {"waiting", "leaving"}
      /\ \/ openerMsgs[1].command = "add" /\ pc[p] = "waiting"
         \/ openerMsgs[1].command = "remove" /\ pc[p] = "leaving"
  BY <1>1 DEF Messages, Msgs
<1>4. Busy
  BY <1>1, <1>3, WhichMode
<1>5. PICK new \in {"added", "removed"} :
         /\ Goto(p, new)
         /\ \/ /\ openerMsgs[1].command = "add" /\ new = "added" /\ pc[p] = "waiting"
               /\ openers' = Append(openers, p)
            \/ /\ openerMsgs[1].command = "remove" /\ new = "removed" /\ pc[p] = "leaving"
               /\ openers' = RemoveAt(openers, CHOOSE i \in DOMAIN openers : openers[i] = p)
  <2>1. /\ openers' = Handle(openerMsgs[1])
        /\ Goto(p, IF openerMsgs[1].command = "add" THEN "added" ELSE "removed")
    BY <1>1 DEF OpenerMsg
  <2>2. CASE openerMsgs[1].command = "add"
    BY <1>3, <2>1, <2>2 DEF Handle
  <2>3. CASE openerMsgs[1].command = "remove"
    <3>1. openers' = RemoveAt(openers, CHOOSE i \in DOMAIN openers : openers[i] = p)
          /\ Goto(p, "removed") /\ pc[p] = "leaving"
      BY <1>3, <2>1, <2>3 DEF Handle
    <3> QED BY <2>3, <3>1
  <2> QED BY <1>3, <2>2, <2>3
<1>6. /\ pc' \in [Programs -> Steps] /\ pc'[p] = new
      /\ \A q \in Programs : q # p => pc'[q] = pc[q]
      /\ Users' = Users /\ Counted' = Counted
  <2>1. /\ pc' \in [Programs -> Steps] /\ pc'[p] = new
        /\ \A q \in Programs : q # p => pc'[q] = pc[q]
        /\ Users' = Users + One(new, UserSteps) - One(pc[p], UserSteps)
        /\ Counted' = Counted + One(new, CountedSteps) - One(pc[p], CountedSteps)
    BY <1>1, <1>5, GotoMoves DEF Places, Steps
  <2>2. Users \in Nat /\ Counted \in Nat
    BY CountType DEF Users, Counted
  <2> QED BY <1>5, <2>1, <2>2 DEF One, UserSteps, CountedSteps
<1> HIDE DEF p
<1>7. Messages'
  <2>1. ASSUME NEW i \in DOMAIN openerMsgs' PROVE openerMsgs'[i].opener \in Programs \ {p}
    <3>1. i + 1 \in DOMAIN openerMsgs /\ i + 1 # 1 /\ openerMsgs'[i] = openerMsgs[i + 1]
      BY <1>1, <2>1
    <3>2. openerMsgs[i + 1].opener # openerMsgs[1].opener
      BY <1>1, <3>1 DEF Messages
    <3>3. openerMsgs[i + 1] \in Msgs
      BY <3>1, ElementOfSeq DEF Lists
    <3> QED BY <3>1, <3>2, <3>3 DEF p, Msgs
  <2> QED BY <1>1, <1>6, <2>1 DEF Messages
<1>8. openers' \in Seq(Programs) /\ Once' /\ OnList'
  <2>1. openers \in Seq(Programs) /\ Once /\ OnList
    BY <1>4 DEF Busy, Present, Lists
  <2>2. CASE new = "added"
    <3>1. openers' = Append(openers, p) /\ pc[p] = "waiting"
      BY <1>5, <2>2
    <3>2. \A i \in DOMAIN openers : openers[i] # p
      BY <1>1, <2>1, <3>1 DEF OnList, Linked
    <3>3. openers' \in Seq(Programs) /\ Once'
      BY <1>1, <2>1, <3>1, <3>2 DEF Once
    <3>4. \A x : (\E i \in DOMAIN openers' : openers'[i] = x) <=> (\E i \in DOMAIN openers : openers[i] = x) \/ x = p
      <4>1. /\ Len(openers') = Len(openers) + 1 /\ openers'[Len(openers) + 1] = p
            /\ \A i \in DOMAIN openers : openers'[i] = openers[i]
            /\ DOMAIN openers = 1 .. Len(openers) /\ DOMAIN openers' = 1 .. Len(openers) + 1
            /\ Len(openers) \in Nat
        BY <1>1, <2>1, <3>1
      <4> QED BY <4>1
    <3> QED BY <1>1, <1>3, <1>6, <2>1, <2>2, <3>3, <3>4 DEF OnList, Linked
  <2>3. CASE new = "removed"
    <3>1. openers' = RemoveAt(openers, CHOOSE i \in DOMAIN openers : openers[i] = p)
          /\ pc[p] = "leaving"
      BY <1>5, <2>3
    <3>2. PICK n \in DOMAIN openers : openers[n] = p /\ openers' = RemoveAt(openers, n)
      <4>1. \E i \in DOMAIN openers : openers[i] = p
        BY <1>1, <1>3, <2>1, <3>1 DEF OnList, Linked
      <4> QED BY <3>1, <4>1
    <3>3. openers' \in Seq(Programs) /\ Once'
      BY <2>1, <3>2, RemoveNode DEF Once
    <3>4. \A x : (\E i \in DOMAIN openers' : openers'[i] = x)
                 <=> (\E i \in DOMAIN openers : openers[i] = x) /\ x # p
      <4>1. \A x : (\E i \in DOMAIN RemoveAt(openers, n) : RemoveAt(openers, n)[i] = x)
                   <=> (\E i \in DOMAIN openers : openers[i] = x) /\ x # openers[n]
        BY <2>1, <3>2, RemoveNode DEF Once
      <4> QED BY <3>2, <4>1, Zenon
    <3> QED BY <1>1, <1>3, <1>6, <2>1, <2>3, <3>3, <3>4 DEF OnList, Linked
  <2> QED BY <2>2, <2>3
<1>9. Allocated'
  BY <1>1, <1>2, <1>3, <1>5, <1>6 DEF Allocated
<1>10. Device'
  <2>1. (\A q \in Programs : pc[q] = "closed") = FALSE
    BY <1>1, <1>3
  <2> QED BY <1>2, <1>6, <2>1 DEF Device, libVars
<1>11. Busy'
  <2>1. \A q \in Programs : pc'[q] \notin {"starting", "stopping"}
    BY <1>4, <1>5, <1>6 DEF Busy
  <2> QED BY <1>2, <1>4, <1>6, <1>8, <2>1 DEF Busy, Present, unitVars, taskVars
<1>12. Flags' /\ Counters' /\ Places'
  BY <1>2, <1>6 DEF Flags, Counters, Places, libVars, unitVars, taskVars
<1> QED
  BY <1>1, <1>2, <1>7, <1>8, <1>9, <1>10, <1>11, <1>12
  DEF LifeInv, Mode, Lists, WildOnlyAfterFailure

(***************************************************************************)
(* Loading and expunging, and what an open and a close do to the device.   *)
(***************************************************************************)
LEMMA LoadLife == ASSUME Types, Alive, ~lost, Load PROVE LifeInv'
<1> USE DEF Types, Alive
<1>1. UNCHANGED <<state, memoryPool, bufLive, taskVars, listVars, pc>>
      /\ base' = TRUE /\ lib_OpenCnt' = 0 /\ delexp' = FALSE /\ unit' = FALSE /\ unit_OpenCnt' = 0
      /\ \A p \in Programs : pc[p] = "closed"
  BY DEF Load
<1>2. failed \subseteq failed' /\ failed' \subseteq Failures \cup {"expunge"}
      /\ lost' \in BOOLEAN /\ (lost' => "utility" \in failed')
  <2>1. failed' = failed \/ (failed' = failed \cup {"utility"} /\ "utility" \in Failures)
    BY DEF Load, Fails
  <2>2. lost = FALSE
    BY DEF Flags
  <2>3. lost' = FALSE \/ (lost' = TRUE /\ "utility" \in failed')
    BY <2>2 DEF Load, Fails
  <2>4. failed \subseteq failed' /\ failed' \subseteq Failures \cup {"expunge"}
    BY <2>1 DEF Places
  <2> QED BY <2>3, <2>4
<1>3. Counted' = 0 /\ Cardinality(Programs) \in Nat
  BY <1>1, SamePlaces, CountType DEF Counted, CountedSteps
<1>4. Messages' /\ Allocated'
  BY <1>1, <1>2 DEF Messages, Allocated, listVars
<1>5. Device'
  BY <1>1, <1>3 DEF Device
<1>6. Quiet'
  <2>1. Quiet \/ Stray
    BY <1>1, WhichMode
  <2>2. NoTask /\ ~bufLive /\ (failed = {} => ~memoryPool)
    BY <2>1 DEF Quiet, Stray
  <2> QED BY <1>1, <1>2, <2>2 DEF Quiet, NoTask, taskVars
<1>7. Flags' /\ Counters' /\ Lists' /\ Places'
  <2>1. Flags'
    BY <1>1, <1>2 DEF Flags, taskVars, listVars
  <2>2. Counters'
    BY <1>1, <1>3 DEF Counters
  <2>3. Lists' /\ Places'
    BY <1>1, <1>2 DEF Lists, Places, taskVars, listVars
  <2> QED BY <2>1, <2>2, <2>3
<1>8. WildOnlyAfterFailure'
  BY <1>2 DEF WildOnlyAfterFailure
<1> QED BY <1>4, <1>5, <1>6, <1>7, <1>8 DEF LifeInv, Mode

(* More failures do not change the mode. *)
LEMMA FailureKeepsMode ==
  ASSUME Mode, UNCHANGED <<unitVars, taskVars, openers, openerPort, pc>>, failed \subseteq failed'
  PROVE  Mode'
<1>1. Users' = Users /\ (Present => Present')
  BY SamePlaces, SamePresent DEF unitVars
<1>2. Quiet => Quiet'
  BY DEF Quiet, NoTask, unitVars, taskVars
<1>3. Stray => Stray'
  BY <1>1 DEF Stray, NoTask, unitVars, taskVars
<1>4. Busy => Busy'
  BY <1>1 DEF Busy, unitVars, taskVars
<1>5. ASSUME NEW p \in Programs PROVE (Opening(p) => Opening(p)') /\ (Closing(p) => Closing(p)')
  BY <1>1 DEF Opening, Closing, Alone, NoTask, unitVars, taskVars
<1> QED BY <1>2, <1>3, <1>4, <1>5 DEF Mode

LEMMA ExpungeLife == ASSUME Types, Alive, ~lost, Expunge PROVE LifeInv'
<1> USE DEF Types, Alive
<1>1. UNCHANGED <<lib_OpenCnt, unitVars, taskVars, listVars, pc, lost>>
  BY DEF Expunge
<1>2. /\ failed \subseteq failed' /\ failed' \subseteq failed \cup {"expunge"}
      /\ base' \in BOOLEAN /\ delexp' \in BOOLEAN
      /\ base' /\ delexp' => lib_OpenCnt > 0
      /\ base' \/ "expunge" \in failed' \/ \A p \in Programs : pc[p] = "closed"
  BY DEF Expunge, FreeBase, Flags, Device, Counters
<1>3. Messages' /\ Allocated'
  BY <1>1, <1>2 DEF Messages, Allocated, listVars
<1>4. Device'
  BY <1>1, <1>2, SamePlaces DEF Device
<1>5. Mode'
  BY <1>1, <1>2, FailureKeepsMode DEF listVars
<1>6. Flags' /\ Counters' /\ Lists' /\ Places'
  BY <1>1, <1>2 DEF Flags, Counters, Lists, Places, unitVars, taskVars, listVars
<1> QED BY <1>1, <1>3, <1>4, <1>5, <1>6 DEF LifeInv, WildOnlyAfterFailure

LEMMA NoUnitLife ==
  ASSUME Types, Alive, ~lost, NEW p \in Programs, NoUnit(p) PROVE LifeInv'
<1> USE DEF Types, Alive
<1>1. UNCHANGED <<libVars, unitVars, taskVars, listVars, pc, lost>>
      /\ failed \subseteq failed' /\ failed' \subseteq Failures \cup {"expunge"}
  BY DEF NoUnit, Fails, Places
<1>2. Messages' /\ Allocated' /\ Device'
  BY <1>1, StayAside DEF listVars
<1>3. Mode'
  BY <1>1, FailureKeepsMode DEF listVars
<1>4. Flags' /\ Counters' /\ Lists' /\ Places'
  BY <1>1 DEF Flags, Counters, Lists, Places, libVars, unitVars, taskVars, listVars
<1> QED BY <1>1, <1>2, <1>3, <1>4 DEF LifeInv, WildOnlyAfterFailure

LEMMA NoOpenerLife ==
  ASSUME Types, Alive, ~lost, NEW p \in Programs, NoOpener(p) PROVE LifeInv'
<1> USE DEF Types, Alive
<1>1. UNCHANGED <<libVars, state, memoryPool, bufLive, taskVars, listVars, pc>>
      /\ "opener" \in failed' /\ failed \subseteq failed' /\ failed' \subseteq Failures \cup {"expunge"}
      /\ unit' = FALSE /\ unit_OpenCnt' = 0
      /\ lost' = \E q \in Programs : pc[q] # "closed"
  BY DEF NoOpener, Fails, Places
<1>2. Messages' /\ Allocated' /\ Device'
  BY <1>1, StayAside DEF listVars
<1>3. ASSUME ~lost' PROVE Mode'
  <2>1. Quiet \/ Stray
    BY <1>1, <1>3, WhichMode
  <2>2. NoTask /\ ~bufLive /\ \A q \in Programs : pc[q] = "closed"
    BY <1>1, <1>3, <2>1 DEF Quiet, Stray
  <2>3. failed' # {}
    BY <1>1
  <2>4. Quiet'
    BY <1>1, <2>2, <2>3 DEF Quiet, NoTask, taskVars
  <2> QED BY <2>4 DEF Mode
<1>4. Flags' /\ Counters' /\ Lists' /\ Places'
  <2>1. lost' \in BOOLEAN /\ Cardinality(Programs) \in Nat
    BY <1>1, CountType
  <2>2. Flags'
    BY <1>1, <2>1 DEF Flags, libVars, taskVars, listVars
  <2>3. Counters'
    BY <1>1, <2>1 DEF Counters, libVars
  <2>4. Lists' /\ Places'
    BY <1>1 DEF Lists, Places, taskVars, listVars
  <2> QED BY <2>2, <2>3, <2>4
<1>5. WildOnlyAfterFailure'
  BY <1>1 DEF WildOnlyAfterFailure
<1> QED BY <1>2, <1>3, <1>4, <1>5 DEF LifeInv

(***************************************************************************)
(* Opening.                                                                *)
(***************************************************************************)
LEMMA Sizes ==
  /\ Users \in Nat /\ Counted \in Nat /\ Cardinality(Programs) \in Nat
  /\ Users <= Cardinality(Programs) /\ Counted <= Cardinality(Programs)
  /\ Users' \in Nat /\ Users' <= Cardinality(Programs)
  /\ Counted' \in Nat /\ Counted' <= Cardinality(Programs)
<1>1. Users' = Count(pc', UserSteps) /\ Counted' = Count(pc', CountedSteps)
  BY DEF Users, Counted
<1> QED BY <1>1, CountType DEF Users, Counted

LEMMA NobodyCounts == (\A p \in Programs : pc[p] = "closed") => Users = 0 /\ Counted = 0
  BY CountType DEF Users, Counted, UserSteps, CountedSteps

LEMMA OpenerType ==
  ASSUME Places, NEW p \in Programs, CreateOpener(p)
  PROVE  /\ opener' \in [Programs -> BOOLEAN] /\ (opener'[p] <=> HasOpener(p))
         /\ \A q \in Programs : q # p => opener'[q] = opener[q]
<1>1. HasOpener(p) \in BOOLEAN
  BY DEF HasOpener
<1> QED BY <1>1 DEF Places, CreateOpener

LEMMA FirstOpenLife ==
  ASSUME Types, Alive, ~lost, NEW p \in Programs, FirstOpen(p) PROVE LifeInv'
<1> USE DEF Types, Alive
<1>1. Quiet
  BY Sizes DEF FirstOpen, Calm, Mode, Stray, Busy, Opening, Closing
<1>2. /\ \A q \in Programs : pc[q] = "closed"
      /\ Users = 0 /\ Counted = 0
  BY <1>1, NobodyCounts DEF Quiet
<1>3. /\ UNCHANGED <<libVars, bufLive, task, signals, sigset, started, lost>>
      /\ base /\ unit' = TRUE /\ state' = "UNCONFIGURED" /\ unit_OpenCnt' = 1
      /\ openerPort' = FALSE /\ openerMsgs' = <<>> /\ CreateOpener(p)
  BY DEF FirstOpen, Calm
<1>4. \/ /\ UNCHANGED <<pc, ut>> /\ memoryPool' \in BOOLEAN
         /\ failed' = failed \cup {"pool"} \/ failed' = failed \cup {"devtree"}
            \/ failed' = failed \cup {"task"}
         /\ failed' \subseteq Failures \cup {"expunge"}
      \/ /\ UNCHANGED failed /\ memoryPool' = TRUE /\ ut' = "setup" /\ Goto(p, "starting")
         /\ openers' = IF HasOpener(p) THEN <<p>> ELSE <<>>
  BY DEF FirstOpen, Fails, Places
<1>5. openers' \in Seq(Programs)
  <2>1. openers' = <<p>> \/ openers' = <<>>
    BY DEF FirstOpen
  <2>2. <<p>> \in Seq(Programs) /\ <<>> \in Seq(Programs)
    OBVIOUS
  <2> QED BY <2>1, <2>2
<1>6. /\ opener' \in [Programs -> BOOLEAN] /\ (opener'[p] <=> HasOpener(p))
      /\ \A q \in Programs : q # p => opener'[q] = opener[q]
  BY <1>3, OpenerType
<1>7. Messages'
  BY <1>3 DEF Messages
<1>8. CASE UNCHANGED <<pc, ut>> /\ failed' \cap {"pool", "devtree", "task"} # {}
           /\ memoryPool' \in BOOLEAN /\ failed' \subseteq Failures \cup {"expunge"}
  <2>1. Allocated'
    BY <1>2, <1>6, <1>8 DEF Allocated
  <2>2. Device'
    BY <1>2, <1>3, <1>8, SamePlaces DEF Device, libVars
  <2>3. Users' = 0
    BY <1>2, <1>8, SamePlaces
  <2>4. NoTask'
    BY <1>1, <1>3, <1>8 DEF Quiet, NoTask
  <2>5. Stray'
    BY <1>1, <1>2, <1>3, <1>8, <2>3, <2>4 DEF Quiet, Stray
  <2>6. Flags'
    BY <1>3, <1>8 DEF Flags, libVars
  <2>7. Counters'
    BY <1>3, Sizes DEF Counters, libVars
  <2>8. Lists'
    BY <1>3, <1>5 DEF Lists
  <2>9. Places'
    BY <1>3, <1>6, <1>8 DEF Places
  <2> QED
    BY <1>3, <1>7, <2>1, <2>2, <2>5, <2>6, <2>7, <2>8, <2>9 DEF LifeInv, Mode, WildOnlyAfterFailure
<1>9. CASE /\ UNCHANGED failed /\ memoryPool' = TRUE /\ ut' = "setup" /\ Goto(p, "starting")
           /\ openers' = IF HasOpener(p) THEN <<p>> ELSE <<>>
  <2>1. /\ pc' \in [Programs -> Steps] /\ pc'[p] = "starting"
        /\ \A q \in Programs : q # p => pc'[q] = "closed"
        /\ Users' = 1 /\ Counted' = 0
    <3>1. /\ pc' \in [Programs -> Steps] /\ pc'[p] = "starting"
          /\ \A q \in Programs : q # p => pc'[q] = pc[q]
          /\ Users' = Users + One("starting", UserSteps) - One(pc[p], UserSteps)
          /\ Counted' = Counted + One("starting", CountedSteps) - One(pc[p], CountedSteps)
      BY <1>9, GotoMoves DEF Places, Steps
    <3> QED BY <1>2, <3>1 DEF One, UserSteps, CountedSteps
  <2>2. Allocated'
    BY <1>2, <1>6, <1>9, <2>1 DEF Allocated
  <2>3. Device'
    BY <1>2, <1>3, <2>1 DEF Device, libVars
  <2>4. Once'
    BY <1>9 DEF Once
  <2>5. OnList'
    <3>1. CASE HasOpener(p)
      <4>1. openers' = <<p>>
        BY <1>9, <3>1
      <4>2. DOMAIN openers' = {1} /\ openers'[1] = p
        BY <4>1
      <4> QED BY <2>1, <3>1, <4>2 DEF OnList, Linked
    <3>2. CASE ~HasOpener(p)
      BY <1>9, <2>1, <3>2 DEF OnList, Linked
    <3> QED BY <3>1, <3>2
  <2>6. Opening(p)'
    BY <1>1, <1>3, <1>9, <2>1, <2>4, <2>5 DEF Opening, Present, Quiet, NoTask, Alone
  <2>7. Flags'
    BY <1>3, <1>9 DEF Flags, libVars
  <2>8. Counters'
    BY <1>3, Sizes DEF Counters, libVars
  <2>9. Lists'
    BY <1>3, <1>5 DEF Lists
  <2>10. Places'
    BY <1>3, <1>6, <1>9, <2>1 DEF Places
  <2> QED
    BY <1>3, <1>7, <2>2, <2>3, <2>6, <2>7, <2>8, <2>9, <2>10 DEF LifeInv, Mode, WildOnlyAfterFailure
<1> QED BY <1>4, <1>8, <1>9

(* A program that puts its message had none on the port. *)
LEMMA PutMessage ==
  ASSUME Lists, Messages, NEW p \in Programs, HasOpener(p),
         NEW command \in {"add", "remove"}, PutMsg(command, p),
         pc[p] \in {"closed", "open"},
         pc'[p] = IF command = "add" THEN "waiting" ELSE "leaving",
         \A q \in Programs : q # p => pc'[q] = pc[q]
  PROVE  Messages' /\ openerMsgs' \in Seq(Msgs)
<1> DEFINE msg == [command |-> command, opener |-> p]
<1>1. openerMsgs' = Append(openerMsgs, msg) /\ openerMsgs \in Seq(Msgs) /\ msg \in Msgs
  BY DEF PutMsg, Lists, Msgs
<1>2. msg.opener = p /\ msg.command = command
  OBVIOUS
<1> HIDE DEF msg
<1>3. /\ openerMsgs' \in Seq(Msgs) /\ Len(openerMsgs') = Len(openerMsgs) + 1
      /\ \A i \in 1 .. Len(openerMsgs) : openerMsgs'[i] = openerMsgs[i]
      /\ openerMsgs'[Len(openerMsgs) + 1] = msg
  BY <1>1, AppendProperties
<1>4. DOMAIN openerMsgs = 1 .. Len(openerMsgs) /\ Len(openerMsgs) \in Nat
      /\ DOMAIN openerMsgs' = 1 .. Len(openerMsgs) + 1
  BY <1>1, <1>3
<1>5. ASSUME NEW i \in DOMAIN openerMsgs
      PROVE  openerMsgs[i].opener \in Programs \ {p} /\ openerMsgs[i].command \in {"add", "remove"}
  <2>1. openerMsgs[i] \in Msgs
    BY <1>1, <1>4, ElementOfSeq
  <2> QED BY <2>1 DEF Messages, Msgs
<1>6. ASSUME NEW i \in DOMAIN openerMsgs', NEW j \in DOMAIN openerMsgs',
             openerMsgs'[i].opener = openerMsgs'[j].opener
      PROVE  i = j
  <2>1. CASE i \in DOMAIN openerMsgs /\ j \in DOMAIN openerMsgs
    BY <1>3, <1>4, <1>6, <2>1 DEF Messages
  <2>2. CASE i \notin DOMAIN openerMsgs /\ j \notin DOMAIN openerMsgs
    BY <1>4, <2>2
  <2>3. CASE i \in DOMAIN openerMsgs /\ j \notin DOMAIN openerMsgs
    BY <1>2, <1>3, <1>4, <1>5, <1>6, <2>3
  <2>4. CASE i \notin DOMAIN openerMsgs /\ j \in DOMAIN openerMsgs
    BY <1>2, <1>3, <1>4, <1>5, <1>6, <2>4
  <2> QED BY <2>1, <2>2, <2>3, <2>4
<1>7. ASSUME NEW i \in DOMAIN openerMsgs'
      PROVE  /\ HasOpener(openerMsgs'[i].opener)
             /\ openerMsgs'[i].command = "add" => pc'[openerMsgs'[i].opener] = "waiting"
             /\ openerMsgs'[i].command = "remove" => pc'[openerMsgs'[i].opener] = "leaving"
  <2>1. CASE i \in DOMAIN openerMsgs
    BY <1>3, <1>4, <1>5, <2>1 DEF Messages
  <2>2. CASE i = Len(openerMsgs) + 1
    BY <1>2, <1>3, <2>2
  <2> QED BY <1>4, <2>1, <2>2
<1> QED BY <1>3, <1>6, <1>7 DEF Messages

(* The end of an open. *)
LEMMA OpenCounted ==
  ASSUME Types, Device, CountedOpen, UNCHANGED failed, Counted' = Counted + 1
  PROVE  /\ base' \in BOOLEAN /\ delexp' \in BOOLEAN /\ lost' \in BOOLEAN
         /\ lib_OpenCnt' \in 0 .. Cardinality(Programs)
         /\ ~lost' => Device'
         /\ lost' => ~base
<1>1. lost' = ~base /\ base' = base /\ delexp' = FALSE /\ lib_OpenCnt' = Counted'
  BY DEF CountedOpen, Device
<1>2. base' \in BOOLEAN /\ lost' \in BOOLEAN /\ (lost' => ~base) /\ (~lost' => base')
  BY <1>1 DEF Types, Flags
<1>3. lib_OpenCnt' \in 0 .. Cardinality(Programs)
  BY <1>1, Sizes
<1> QED BY <1>1, <1>2, <1>3 DEF Device

LEMMA StartedLife ==
  ASSUME Types, Alive, ~lost, NEW p \in Programs, Started(p) \/ Joined(p) PROVE LifeInv'
<1> USE DEF Types, Alive
<1>1. /\ Goto(p, "open") /\ CountedOpen /\ started' \in {FALSE, started}
      /\ UNCHANGED <<unitVars, ut, task, signals, sigset, listVars, failed>>
      /\ \/ pc[p] = "starting" /\ started /\ started' = FALSE
         \/ pc[p] = "added" /\ started' = started
  <2>1. CASE Started(p)
    BY <2>1 DEF Started
  <2>2. CASE Joined(p)
    <3>1. started' = started
      BY <2>2 DEF Joined, taskVars
    <3> QED BY <2>2, <3>1 DEF Joined, taskVars
  <2> QED BY <2>1, <2>2
<1>2. /\ pc' \in [Programs -> Steps] /\ pc'[p] = "open"
      /\ \A q \in Programs : q # p => pc'[q] = pc[q]
      /\ Users' = Users /\ Counted' = Counted + 1
  <2>1. /\ pc' \in [Programs -> Steps] /\ pc'[p] = "open"
        /\ \A q \in Programs : q # p => pc'[q] = pc[q]
        /\ Users' = Users + One("open", UserSteps) - One(pc[p], UserSteps)
        /\ Counted' = Counted + One("open", CountedSteps) - One(pc[p], CountedSteps)
    BY <1>1, GotoMoves DEF Places, Steps
  <2> QED BY <1>1, <2>1, Sizes DEF One, UserSteps, CountedSteps
<1>3. Busy'
  <2>1. CASE pc[p] = "starting" /\ started
    <3>1. Opening(p)
      BY <2>1, WhichMode
    <3>2. Present'
      BY <1>1, <1>2, <2>1, <3>1 DEF Opening, Present, Once, OnList, Linked, unitVars, listVars
    <3>3. \A q \in Programs : pc'[q] \notin {"starting", "stopping"}
      BY <1>2, <3>1 DEF Opening, Alone
    <3>4. started' = FALSE /\ ut' \in Running /\ openerPort' /\ task'
      BY <1>1, <2>1, <3>1 DEF Opening, listVars
    <3>5. bufLive' = (state' = "ONLINE")
      <4>1. bufLive = FALSE
        BY <3>1 DEF Opening, Flags
      <4> QED BY <1>1, <3>1, <4>1 DEF Opening, unitVars
    <3> QED BY <1>1, <1>2, <3>1, <3>2, <3>3, <3>4, <3>5 DEF Opening, Busy, unitVars
  <2>2. CASE pc[p] = "added"
    <3>1. Busy
      BY <2>2, WhichMode
    <3>2. Present'
      BY <1>1, <1>2, <2>2, <3>1 DEF Busy, Present, Once, OnList, Linked, unitVars, listVars
    <3>3. \A q \in Programs : pc'[q] \notin {"starting", "stopping"}
      BY <1>2, <3>1 DEF Busy
    <3>4. started' = FALSE \/ started' = started
      BY <1>1
    <3> QED BY <1>1, <1>2, <3>1, <3>2, <3>3, <3>4 DEF Busy, unitVars, listVars
  <2> QED BY <1>1, <2>1, <2>2
<1>4. Messages'
  <2>1. ASSUME NEW i \in DOMAIN openerMsgs PROVE openerMsgs[i].opener \in Programs \ {p}
    <3>1. openerMsgs[i] \in Msgs
      BY ElementOfSeq DEF Lists
    <3> QED BY <1>1, <3>1 DEF Messages, Msgs
  <2> QED BY <1>1, <1>2, <2>1 DEF Messages, listVars
<1>5. Allocated'
  BY <1>1, <1>2 DEF Allocated, listVars
<1>6. /\ base' \in BOOLEAN /\ delexp' \in BOOLEAN /\ lost' \in BOOLEAN
      /\ lib_OpenCnt' \in 0 .. Cardinality(Programs)
      /\ ~lost' => Device'
      /\ lost' => ~base
  BY <1>1, <1>2, OpenCounted
<1>7. WildOnlyAfterFailure'
  <2>1. ~base => "expunge" \in failed
    BY <1>1 DEF Device
  <2> QED BY <1>1, <1>6, <2>1 DEF WildOnlyAfterFailure
<1>8. Flags'
  <2>1. started' \in BOOLEAN
    BY <1>1 DEF Flags
  <2> QED BY <1>1, <1>6, <2>1 DEF Flags, unitVars, listVars
<1>9. Counters' /\ Lists' /\ Places'
  BY <1>1, <1>2, <1>6 DEF Counters, Lists, Places, unitVars, listVars
<1> QED BY <1>3, <1>4, <1>5, <1>6, <1>7, <1>8, <1>9 DEF LifeInv, Mode

(* The caller's reply port: only memory for it may be missing. *)
LEMMA ReplyPortKeeps ==
  ASSUME Flags, Places, ~lost, ReplyPort
  PROVE  /\ failed \subseteq failed' /\ failed' \subseteq Failures \cup {"expunge"}
         /\ lost' \in BOOLEAN /\ WildOnlyAfterFailure'
<1>1. CASE UNCHANGED <<failed, lost>>
  BY <1>1 DEF Flags, Places, WildOnlyAfterFailure
<1>2. CASE Fails("replyPort") /\ lost' = TRUE
  <2>1. failed' = failed \cup {"replyPort"} /\ "replyPort" \in Failures
    BY <1>2 DEF Fails
  <2> QED BY <1>2, <2>1 DEF Places, WildOnlyAfterFailure
<1> QED BY <1>1, <1>2 DEF ReplyPort

LEMMA OpenAgainLife ==
  ASSUME Types, Alive, ~lost, NEW p \in Programs, OpenAgain(p) PROVE LifeInv'
<1> USE DEF Types, Alive
<1>1. /\ UNCHANGED <<unit, state, memoryPool, bufLive>> /\ CreateOpener(p)
      /\ unit_OpenCnt' = unit_OpenCnt + 1 /\ unit_OpenCnt > 0 /\ pc[p] = "closed" /\ base
      /\ \A q \in Programs : pc[q] \notin {"starting", "stopping"}
  BY DEF OpenAgain, Calm
<1>2. Busy \/ Stray
  BY <1>1 DEF Mode, Quiet, Opening, Closing
<1>3. /\ opener' \in [Programs -> BOOLEAN] /\ (opener'[p] <=> HasOpener(p))
      /\ \A q \in Programs : q # p => opener'[q] = opener[q]
  BY <1>1, OpenerType
<1>4. CASE HasOpener(p) /\ openerPort /\ PutMsg("add", p) /\ Goto(p, "waiting")
           /\ ReplyPort /\ UNCHANGED libVars
  <2>0. /\ failed \subseteq failed' /\ failed' \subseteq Failures \cup {"expunge"}
        /\ lost' \in BOOLEAN /\ WildOnlyAfterFailure'
    BY <1>4, ReplyPortKeeps
  <2>1. /\ pc' \in [Programs -> Steps] /\ pc'[p] = "waiting"
        /\ \A q \in Programs : q # p => pc'[q] = pc[q]
        /\ Users' = Users + 1 /\ Counted' = Counted
    <3>1. /\ pc' \in [Programs -> Steps] /\ pc'[p] = "waiting"
          /\ \A q \in Programs : q # p => pc'[q] = pc[q]
          /\ Users' = Users + One("waiting", UserSteps) - One(pc[p], UserSteps)
          /\ Counted' = Counted + One("waiting", CountedSteps) - One(pc[p], CountedSteps)
      BY <1>4, GotoMoves DEF Places, Steps
    <3> QED BY <1>1, <3>1, Sizes DEF One, UserSteps, CountedSteps
  <2>2. Busy
    BY <1>2, <1>4 DEF Stray
  <2>3. Messages' /\ openerMsgs' \in Seq(Msgs)
    BY <1>1, <1>4, <2>1, PutMessage
  <2>4. UNCHANGED <<openers, openerPort, ut, task, sigset, started>>
        /\ signals' = signals \cup {"openerPort"}
    BY <1>4 DEF PutMsg
  <2>5. Allocated'
    BY <1>1, <1>3, <2>0, <2>1 DEF Allocated
  <2>6. Device'
    BY <1>1, <1>4, <2>0, <2>1 DEF Device, libVars
  <2>7. Once' /\ OnList'
    BY <1>1, <2>1, <2>2, <2>4 DEF Busy, Present, Once, OnList, Linked
  <2>8. Busy'
    <3>1. unit_OpenCnt' = Users' /\ unit_OpenCnt' > 0
      BY <1>1, <2>1, <2>2, Sizes DEF Busy
    <3>2. \A q \in Programs : pc'[q] \notin {"starting", "stopping"}
      BY <1>1, <2>1
    <3>3. "CTRL_C" \notin signals'
      BY <2>2, <2>4 DEF Busy
    <3> QED BY <1>1, <2>2, <2>4, <2>7, <3>1, <3>2, <3>3 DEF Busy, Present
  <2>9. Flags'
    BY <1>1, <1>4, <2>0, <2>4 DEF Flags, libVars
  <2>10. Counters'
    <3>1. unit_OpenCnt' = Users' /\ Users' \in Nat /\ Users' <= Cardinality(Programs)
          /\ Cardinality(Programs) \in Nat
      BY <2>8, Sizes DEF Busy
    <3> QED BY <1>4, <3>1 DEF Counters, libVars
  <2>11. Lists'
    BY <2>3, <2>4 DEF Lists
  <2>12. Places'
    BY <1>1, <1>3, <2>0, <2>1, <2>4 DEF Places
  <2> QED
    BY <1>1, <1>4, <2>0, <2>3, <2>5, <2>6, <2>8, <2>9, <2>10, <2>11, <2>12
    DEF LifeInv, Mode
<1>5. CASE HasOpener(p) /\ ~openerPort /\ lost' = TRUE
           /\ UNCHANGED <<libVars, pc, taskVars, openers, openerPort, openerMsgs, failed>>
  <2>1. Stray
    BY <1>2, <1>5 DEF Busy
  <2>2. WildOnlyAfterFailure'
    BY <1>5, <2>1 DEF Stray, WildOnlyAfterFailure
  <2>3. Flags'
    BY <1>1, <1>5 DEF Flags, libVars, taskVars
  <2>4. Counters'
    <3>1. Users < Cardinality(Programs)
      <4>1. pc[p] \notin UserSteps
        BY <1>1 DEF UserSteps
      <4>2. Users # Cardinality(Programs)
        BY <4>1, CountType DEF Users
      <4> QED BY <4>2, Sizes
    <3> QED BY <1>1, <1>5, <2>1, <3>1, Sizes DEF Stray, Counters, libVars
  <2>5. Lists' /\ Places'
    BY <1>1, <1>3, <1>5 DEF Lists, Places, taskVars
  <2> QED BY <1>5, <2>2, <2>3, <2>4, <2>5 DEF LifeInv
<1>6. CASE ~HasOpener(p) /\ Goto(p, "open") /\ CountedOpen
           /\ UNCHANGED <<taskVars, openers, openerPort, openerMsgs, failed>>
  <2>1. /\ pc' \in [Programs -> Steps] /\ pc'[p] = "open"
        /\ \A q \in Programs : q # p => pc'[q] = pc[q]
        /\ Users' = Users + 1 /\ Counted' = Counted + 1
    <3>1. /\ pc' \in [Programs -> Steps] /\ pc'[p] = "open"
          /\ \A q \in Programs : q # p => pc'[q] = pc[q]
          /\ Users' = Users + One("open", UserSteps) - One(pc[p], UserSteps)
          /\ Counted' = Counted + One("open", CountedSteps) - One(pc[p], CountedSteps)
      BY <1>6, GotoMoves DEF Places, Steps
    <3> QED BY <1>1, <3>1, Sizes DEF One, UserSteps, CountedSteps
  <2>2. /\ base' \in BOOLEAN /\ delexp' \in BOOLEAN /\ lost' \in BOOLEAN /\ ~lost'
        /\ lib_OpenCnt' \in 0 .. Cardinality(Programs)
        /\ Device'
    BY <1>1, <1>6, <2>1, OpenCounted
  <2>3. Messages'
    <3>1. ASSUME NEW i \in DOMAIN openerMsgs PROVE openerMsgs[i].opener \in Programs \ {p}
      <4>1. openerMsgs[i] \in Msgs
        BY ElementOfSeq DEF Lists
      <4> QED BY <1>1, <4>1 DEF Messages, Msgs
    <3> QED BY <1>6, <2>1, <3>1 DEF Messages
  <2>4. Allocated'
    BY <1>1, <1>3, <1>6, <2>1 DEF Allocated
  <2>5. Mode'
    <3>1. CASE Busy
      <4>1. Once' /\ OnList'
        BY <1>6, <2>1, <3>1 DEF Busy, Present, Once, OnList
      <4>2. unit_OpenCnt' = Users' /\ unit_OpenCnt' > 0
        BY <1>1, <2>1, <3>1, Sizes DEF Busy
      <4>3. \A q \in Programs : pc'[q] \notin {"starting", "stopping"}
        BY <1>1, <2>1
      <4>4. Busy'
        BY <1>1, <1>6, <3>1, <4>1, <4>2, <4>3 DEF Busy, Present, taskVars
      <4> QED BY <4>4 DEF Mode
    <3>2. CASE Stray
      <4>1. unit_OpenCnt' = Users' + 1
        BY <1>1, <2>1, <3>2, Sizes DEF Stray
      <4>2. \A q \in Programs : pc'[q] = "closed" \/ (pc'[q] = "open" /\ ~HasOpener(q))
        BY <1>6, <2>1, <3>2 DEF Stray
      <4>3. Stray'
        BY <1>1, <1>6, <3>2, <4>1, <4>2 DEF Stray, NoTask, taskVars
      <4> QED BY <4>3 DEF Mode
    <3> QED BY <1>2, <3>1, <3>2
  <2>6. Flags'
    BY <1>1, <1>6, <2>2 DEF Flags, taskVars
  <2>7. Counters'
    <3>1. unit_OpenCnt' = Users' \/ unit_OpenCnt' = Users' + 1
      BY <1>1, <1>2, <2>1, Sizes DEF Busy, Stray
    <3> QED BY <2>2, <3>1, Sizes DEF Counters
  <2>8. Lists' /\ Places'
    BY <1>1, <1>3, <1>6, <2>1 DEF Lists, Places, taskVars
  <2> QED
    BY <1>1, <2>2, <2>3, <2>4, <2>5, <2>6, <2>7, <2>8 DEF LifeInv, WildOnlyAfterFailure
<1> QED BY <1>4, <1>5, <1>6 DEF OpenAgain

(***************************************************************************)
(* Closing.                                                                *)
(***************************************************************************)
(* The end of a close. *)
LEMMA CloseCounted ==
  ASSUME Types, Device, NEW p \in Programs, CountedClose(p), pc'[p] = "closed",
         \A q \in Programs : q # p => pc'[q] = pc[q], Counted' = Counted - 1
  PROVE  /\ base' \in BOOLEAN /\ delexp' \in BOOLEAN
         /\ lib_OpenCnt' \in 0 .. Cardinality(Programs)
         /\ failed \subseteq failed' /\ failed' \subseteq Failures \cup {"expunge"}
         /\ Device'
<1>1. lib_OpenCnt' = Counted' /\ delexp' = delexp /\ lib_OpenCnt = lib_OpenCnt' + 1
  BY Sizes DEF CountedClose, Device
<1>2. lib_OpenCnt' \in 0 .. Cardinality(Programs)
  BY <1>1, Sizes
<1>3. CASE lib_OpenCnt = 1 /\ delexp
  <2>1. FreeBase({p})
    BY <1>3 DEF CountedClose
  <2>2. base' = FALSE
    BY <2>1 DEF FreeBase
  <2>3. \/ failed' = failed /\ \A q \in Programs : pc'[q] = "closed"
        \/ failed' = failed \cup {"expunge"}
    BY <2>1 DEF FreeBase
  <2>4. Device'
    BY <1>1, <2>2, <2>3 DEF Device
  <2> QED BY <1>1, <1>2, <2>2, <2>3, <2>4 DEF Types, Flags, Places
<1>4. CASE ~(lib_OpenCnt = 1 /\ delexp)
  <2>1. UNCHANGED <<base, failed>>
    BY <1>4 DEF CountedClose
  <2>2. base' /\ delexp' => lib_OpenCnt' > 0
    BY <1>1, <1>2, <1>4, <2>1, Sizes DEF Device
  <2>3. Device'
    BY <1>1, <2>1, <2>2 DEF Device
  <2> QED BY <1>1, <1>2, <2>1, <2>3 DEF Types, Flags, Places
<1> QED BY <1>3, <1>4

(* Nobody else's message is touched by a program that has none on the port. *)
LEMMA KeepMessages ==
  ASSUME Lists, Messages, NEW p \in Programs, pc[p] \notin {"waiting", "leaving"},
         UNCHANGED openerMsgs, \A q \in Programs : q # p => pc'[q] = pc[q]
  PROVE  Messages'
<1>1. ASSUME NEW i \in DOMAIN openerMsgs PROVE openerMsgs[i].opener \in Programs \ {p}
  <2>1. openerMsgs[i] \in Msgs
    BY ElementOfSeq DEF Lists
  <2> QED BY <2>1 DEF Messages, Msgs
<1> QED BY <1>1 DEF Messages

LEMMA LeaveOthersLife ==
  ASSUME Types, Alive, ~lost, NEW p \in Programs, pc[p] = "open", Uncount(p), LeaveOthers(p)
  PROVE  LifeInv'
<1> USE DEF Types, Alive
<1>1. /\ UNCHANGED <<libVars, unit, state, memoryPool, bufLive, opener>> /\ ReplyPort
      /\ unit_OpenCnt' = unit_OpenCnt - 1 /\ unit_OpenCnt > 1 /\ HasOpener(p)
      /\ PutMsg("remove", p) /\ Goto(p, "leaving")
  BY DEF LeaveOthers, Uncount
<1>0. /\ failed \subseteq failed' /\ failed' \subseteq Failures \cup {"expunge"}
      /\ lost' \in BOOLEAN /\ WildOnlyAfterFailure'
  BY <1>1, ReplyPortKeeps
<1>2. Busy
  BY <1>1, WhichMode
<1>3. /\ pc' \in [Programs -> Steps] /\ pc'[p] = "leaving"
      /\ \A q \in Programs : q # p => pc'[q] = pc[q]
      /\ Users' = Users - 1 /\ Counted' = Counted
  <2>1. /\ pc' \in [Programs -> Steps] /\ pc'[p] = "leaving"
        /\ \A q \in Programs : q # p => pc'[q] = pc[q]
        /\ Users' = Users + One("leaving", UserSteps) - One(pc[p], UserSteps)
        /\ Counted' = Counted + One("leaving", CountedSteps) - One(pc[p], CountedSteps)
    BY <1>1, GotoMoves DEF Places, Steps
  <2> QED BY <2>1, Sizes DEF One, UserSteps, CountedSteps
<1>4. Messages' /\ openerMsgs' \in Seq(Msgs)
  BY <1>1, <1>3, PutMessage
<1>5. UNCHANGED <<openers, openerPort, ut, task, sigset, started>>
      /\ signals' = signals \cup {"openerPort"}
  BY <1>1 DEF PutMsg
<1>6. Allocated'
  BY <1>0, <1>1, <1>3 DEF Allocated
<1>7. Device'
  BY <1>0, <1>1, <1>3 DEF Device, libVars
<1>8. Once' /\ OnList'
  BY <1>2, <1>3, <1>5 DEF Busy, Present, Once, OnList, Linked
<1>9. unit_OpenCnt' = Users' /\ unit_OpenCnt' > 0
  BY <1>1, <1>2, <1>3, Sizes DEF Busy
<1>10. Busy'
  <2>1. \A q \in Programs : pc'[q] \notin {"starting", "stopping"}
    BY <1>2, <1>3 DEF Busy
  <2>2. "CTRL_C" \notin signals'
    BY <1>2, <1>5 DEF Busy
  <2> QED BY <1>1, <1>2, <1>5, <1>8, <1>9, <2>1, <2>2 DEF Busy, Present
<1>11. Flags'
  BY <1>0, <1>1, <1>5 DEF Flags, libVars
<1>12. Counters'
  BY <1>1, <1>9, Sizes DEF Counters, libVars
<1>13. Lists'
  BY <1>4, <1>5 DEF Lists
<1>14. Places'
  BY <1>0, <1>1, <1>3, <1>5 DEF Places
<1> QED
  BY <1>0, <1>1, <1>4, <1>6, <1>7, <1>10, <1>11, <1>12, <1>13, <1>14
  DEF LifeInv, Mode

LEMMA LeaveQuietlyLife ==
  ASSUME Types, Alive, ~lost, NEW p \in Programs, pc[p] = "open", Uncount(p), LeaveQuietly(p)
  PROVE  LifeInv'
<1> USE DEF Types, Alive
<1>1. /\ UNCHANGED <<lost, unit, state, memoryPool, bufLive, taskVars, listVars>>
      /\ unit_OpenCnt' = unit_OpenCnt - 1 /\ unit_OpenCnt > 1 /\ ~HasOpener(p)
      /\ Goto(p, "closed") /\ CountedClose(p)
  BY DEF LeaveQuietly, Uncount
<1>2. Busy \/ Stray
  BY WhichMode
<1>3. /\ pc' \in [Programs -> Steps] /\ pc'[p] = "closed"
      /\ \A q \in Programs : q # p => pc'[q] = pc[q]
      /\ Users' = Users - 1 /\ Counted' = Counted - 1
  <2>1. /\ pc' \in [Programs -> Steps] /\ pc'[p] = "closed"
        /\ \A q \in Programs : q # p => pc'[q] = pc[q]
        /\ Users' = Users + One("closed", UserSteps) - One(pc[p], UserSteps)
        /\ Counted' = Counted + One("closed", CountedSteps) - One(pc[p], CountedSteps)
    BY <1>1, GotoMoves DEF Places, Steps
  <2> QED BY <2>1, Sizes DEF One, UserSteps, CountedSteps
<1>4. /\ base' \in BOOLEAN /\ delexp' \in BOOLEAN
      /\ lib_OpenCnt' \in 0 .. Cardinality(Programs)
      /\ failed \subseteq failed' /\ failed' \subseteq Failures \cup {"expunge"}
      /\ Device'
  BY <1>1, <1>3, CloseCounted
<1>5. Messages'
  BY <1>1, <1>3, KeepMessages DEF listVars
<1>6. Allocated'
  BY <1>1, <1>3, <1>4 DEF Allocated, listVars
<1>7. ASSUME Busy PROVE Mode'
  <2>1. Once' /\ OnList'
    BY <1>1, <1>3, <1>7 DEF Busy, Present, Once, OnList, listVars
  <2>2. unit_OpenCnt' = Users' /\ unit_OpenCnt' > 0
    BY <1>1, <1>3, <1>7, Sizes DEF Busy
  <2>3. \A q \in Programs : pc'[q] \notin {"starting", "stopping"}
    BY <1>3, <1>7 DEF Busy
  <2> QED BY <1>1, <1>7, <2>1, <2>2, <2>3 DEF Mode, Busy, Present, taskVars, listVars
<1>8. ASSUME Stray PROVE Mode'
  <2>1. unit_OpenCnt' = Users' + 1
    BY <1>1, <1>3, <1>8, Sizes DEF Stray
  <2>2. \A q \in Programs : pc'[q] = "closed" \/ (pc'[q] = "open" /\ ~HasOpener(q))
    BY <1>3, <1>8 DEF Stray
  <2>3. failed' \cap {"pool", "devtree", "task"} # {}
    BY <1>4, <1>8 DEF Stray
  <2> QED BY <1>1, <1>8, <2>1, <2>2, <2>3 DEF Mode, Stray, NoTask, taskVars, listVars
<1>9. Mode'
  BY <1>2, <1>7, <1>8
<1>10. Flags'
  BY <1>1, <1>4 DEF Flags, taskVars, listVars
<1>11. Counters'
  <2>1. unit_OpenCnt' = Users' \/ unit_OpenCnt' = Users' + 1
    BY <1>1, <1>2, <1>3, Sizes DEF Busy, Stray
  <2> QED BY <1>4, <2>1, Sizes DEF Counters
<1>12. Lists' /\ Places'
  BY <1>1, <1>3, <1>4 DEF Lists, Places, taskVars, listVars
<1> QED BY <1>1, <1>4, <1>5, <1>6, <1>9, <1>10, <1>11, <1>12 DEF LifeInv, WildOnlyAfterFailure

(* The last close comes when nobody else is there: the count leaves out those that
   wait for the reply to their close, so this takes that closes do not overlap. *)
LEMMA StopUnitLife ==
  ASSUME Overlap = FALSE, Types, Alive, ~lost, NEW p \in Programs, pc[p] = "open", Uncount(p),
         StopUnit(p)
  PROVE  LifeInv'
<1> USE DEF Types, Alive
<1>1. /\ UNCHANGED <<libVars, unit, memoryPool, ut, task, sigset, started, listVars>>
      /\ unit_OpenCnt' = unit_OpenCnt - 1 /\ unit_OpenCnt = 1 /\ Leaving = {}
      /\ signals' = signals \cup {"CTRL_C"} /\ Goto(p, "stopping") /\ StopMac
  BY DEF StopUnit, Uncount, SignalTask
<1>2. Busy
  <2>1. Users # 0
    BY CountType DEF Users, UserSteps
  <2>2. ~Stray
    BY <1>1, <2>1, Sizes DEF Stray
  <2> QED BY <2>2, WhichMode
<1>3. /\ pc' \in [Programs -> Steps] /\ pc'[p] = "stopping"
      /\ \A q \in Programs : q # p => pc'[q] = pc[q]
      /\ Users' = 0 /\ Counted' = Counted
  <2>1. /\ pc' \in [Programs -> Steps] /\ pc'[p] = "stopping"
        /\ \A q \in Programs : q # p => pc'[q] = pc[q]
        /\ Users' = Users + One("stopping", UserSteps) - One(pc[p], UserSteps)
        /\ Counted' = Counted + One("stopping", CountedSteps) - One(pc[p], CountedSteps)
    BY <1>1, GotoMoves DEF Places, Steps
  <2>2. Users = 1
    BY <1>1, <1>2 DEF Busy
  <2> QED BY <2>1, <2>2, Sizes DEF One, UserSteps, CountedSteps
<1>4. Alone(p)'
  <2>1. \A q \in Programs : pc'[q] \notin UserSteps
    <3>1. Count(pc', UserSteps) = 0
      BY <1>3 DEF Users
    <3> QED BY <3>1, CountType
  <2>2. \A q \in Programs : q # p => pc[q] \notin {"leaving", "removed", "stopping"}
    BY <1>1, <1>2 DEF Leaving, Busy
  <2>3. \A q \in Programs : pc'[q] \in Steps
    BY <1>3
  <2> QED BY <1>3, <2>1, <2>2, <2>3 DEF Alone, Steps, UserSteps
<1>5. /\ bufLive' = FALSE /\ state' # "ONLINE"
      /\ state' \in {"UNCONFIGURED", "ONLINE", "OFFLINE"}
  <2>1. CASE state = "ONLINE"
    BY <1>1, <2>1 DEF StopMac
  <2>2. CASE state # "ONLINE"
    <3>1. bufLive = FALSE
      BY <1>2, <2>2 DEF Busy, Flags
    <3> QED BY <1>1, <2>2, <3>1 DEF StopMac, Places
  <2> QED BY <2>1, <2>2
<1>6. /\ failed \subseteq failed' /\ failed' \subseteq Failures \cup {"expunge"}
      /\ lost' = FALSE \/ (lost' = TRUE /\ "timer" \in failed')
  <2>1. lost = FALSE
    BY DEF Flags
  <2>2. UNCHANGED <<failed, lost>> \/ (Fails("timer") /\ lost' = TRUE)
    BY DEF StopUnit
  <2> QED BY <2>1, <2>2 DEF Fails, Places
<1>7. Messages'
  BY <1>1, <1>3, KeepMessages DEF listVars
<1>8. Allocated'
  BY <1>1, <1>3, <1>6 DEF Allocated, listVars
<1>9. Device'
  BY <1>1, <1>3, <1>6 DEF Device, libVars
<1>10. Closing(p)'
  <2>1. Present'
    BY <1>1, <1>2, <1>3 DEF Busy, Present, Once, OnList, Linked, listVars
  <2> QED BY <1>1, <1>2, <1>3, <1>4, <1>5, <2>1 DEF Closing, Busy
<1>11. Flags'
  BY <1>1, <1>5, <1>6 DEF Flags, libVars, listVars
<1>12. Counters'
  BY <1>1, Sizes DEF Counters, libVars
<1>13. Lists'
  BY <1>1 DEF Lists, listVars
<1>14. Places'
  BY <1>1, <1>3, <1>5, <1>6 DEF Places, listVars
<1>15. WildOnlyAfterFailure'
  BY <1>6 DEF WildOnlyAfterFailure
<1> QED
  BY <1>7, <1>8, <1>9, <1>10, <1>11, <1>12, <1>13, <1>14, <1>15 DEF LifeInv, Mode

LEMMA LeftLife ==
  ASSUME Types, Alive, ~lost, NEW p \in Programs, Left(p) PROVE LifeInv'
<1> USE DEF Types, Alive
<1>1. /\ UNCHANGED <<unit_OpenCnt, state, memoryPool, bufLive, taskVars, openers, openerPort,
                     openerMsgs>>
      /\ pc[p] = "removed" /\ Goto(p, "closed") /\ CountedClose(p) /\ FreeOpener(p)
      /\ unit' = (unit_OpenCnt > 0) /\ lost' = (unit_OpenCnt = 0)
  BY DEF Left
<1>2. Busy
  BY <1>1, WhichMode
<1>3. unit' = TRUE /\ lost' = FALSE
  <2>1. (unit_OpenCnt > 0) = TRUE /\ (unit_OpenCnt = 0) = FALSE
    BY <1>2, Sizes DEF Busy
  <2> QED BY <1>1, <2>1
<1>4. /\ pc' \in [Programs -> Steps] /\ pc'[p] = "closed"
      /\ \A q \in Programs : q # p => pc'[q] = pc[q]
      /\ Users' = Users /\ Counted' = Counted - 1
  <2>1. /\ pc' \in [Programs -> Steps] /\ pc'[p] = "closed"
        /\ \A q \in Programs : q # p => pc'[q] = pc[q]
        /\ Users' = Users + One("closed", UserSteps) - One(pc[p], UserSteps)
        /\ Counted' = Counted + One("closed", CountedSteps) - One(pc[p], CountedSteps)
    BY <1>1, GotoMoves DEF Places, Steps
  <2> QED BY <1>1, <2>1, Sizes DEF One, UserSteps, CountedSteps
<1>5. /\ base' \in BOOLEAN /\ delexp' \in BOOLEAN
      /\ lib_OpenCnt' \in 0 .. Cardinality(Programs)
      /\ failed \subseteq failed' /\ failed' \subseteq Failures \cup {"expunge"}
      /\ Device'
  BY <1>1, <1>4, CloseCounted
<1>6. /\ opener' \in [Programs -> BOOLEAN] /\ opener'[p] = FALSE
      /\ \A q \in Programs : q # p => opener'[q] = opener[q]
  BY <1>1 DEF FreeOpener, Places
<1>7. Messages'
  BY <1>1, <1>4, KeepMessages
<1>8. Allocated'
  BY <1>4, <1>5, <1>6 DEF Allocated
<1>9. Busy'
  <2>1. Once' /\ OnList'
    BY <1>1, <1>2, <1>4 DEF Busy, Present, Once, OnList, Linked
  <2>2. \A q \in Programs : pc'[q] \notin {"starting", "stopping"}
    BY <1>2, <1>4 DEF Busy
  <2> QED BY <1>1, <1>2, <1>3, <1>4, <2>1, <2>2 DEF Busy, Present, taskVars
<1>10. Flags'
  BY <1>1, <1>3, <1>5 DEF Flags, taskVars
<1>11. Counters'
  BY <1>1, <1>5 DEF Counters
<1>12. Lists' /\ Places'
  BY <1>1, <1>4, <1>5, <1>6 DEF Lists, Places, taskVars
<1> QED
  BY <1>3, <1>5, <1>7, <1>8, <1>9, <1>10, <1>11, <1>12 DEF LifeInv, Mode, WildOnlyAfterFailure

LEMMA StoppedLife ==
  ASSUME Types, Alive, ~lost, NEW p \in Programs, Stopped(p) PROVE LifeInv'
<1> USE DEF Types, Alive
<1>1. /\ UNCHANGED <<unit_OpenCnt, bufLive, taskVars, openers, openerPort, openerMsgs>>
      /\ pc[p] = "stopping" /\ ~task /\ Goto(p, "closed") /\ CountedClose(p) /\ FreeOpener(p)
      /\ unit' = FALSE /\ memoryPool' = FALSE /\ state' = "UNCONFIGURED"
      /\ lost' = (Leaving # {})
  BY DEF Stopped, TaskStopped
<1>2. Closing(p)
  BY <1>1, WhichMode
<1>3. lost' = FALSE
  <2>1. Leaving = {}
    BY <1>1, <1>2 DEF Leaving, Closing, Alone
  <2> QED BY <1>1, <2>1
<1>4. /\ pc' \in [Programs -> Steps] /\ pc'[p] = "closed"
      /\ \A q \in Programs : q # p => pc'[q] = pc[q]
      /\ Users' = Users /\ Counted' = Counted - 1
  <2>1. /\ pc' \in [Programs -> Steps] /\ pc'[p] = "closed"
        /\ \A q \in Programs : q # p => pc'[q] = pc[q]
        /\ Users' = Users + One("closed", UserSteps) - One(pc[p], UserSteps)
        /\ Counted' = Counted + One("closed", CountedSteps) - One(pc[p], CountedSteps)
    BY <1>1, GotoMoves DEF Places, Steps
  <2> QED BY <1>1, <2>1, Sizes DEF One, UserSteps, CountedSteps
<1>5. /\ base' \in BOOLEAN /\ delexp' \in BOOLEAN
      /\ lib_OpenCnt' \in 0 .. Cardinality(Programs)
      /\ failed \subseteq failed' /\ failed' \subseteq Failures \cup {"expunge"}
      /\ Device'
  BY <1>1, <1>4, CloseCounted
<1>6. /\ opener' \in [Programs -> BOOLEAN] /\ opener'[p] = FALSE
      /\ \A q \in Programs : q # p => opener'[q] = opener[q]
  BY <1>1 DEF FreeOpener, Places
<1>7. Messages'
  BY <1>1, <1>4, KeepMessages
<1>8. Allocated'
  BY <1>4, <1>5, <1>6 DEF Allocated
<1>9. Quiet'
  <2>1. \A q \in Programs : pc'[q] = "closed"
    BY <1>2, <1>4 DEF Closing, Alone
  <2>2. NoTask /\ ~bufLive /\ unit_OpenCnt = 0
    BY <1>1, <1>2 DEF Closing
  <2> QED BY <1>1, <2>1, <2>2 DEF Quiet, NoTask, taskVars
<1>10. Flags'
  BY <1>1, <1>3, <1>5 DEF Flags, taskVars
<1>11. Counters'
  BY <1>1, <1>5 DEF Counters
<1>12. Lists' /\ Places'
  BY <1>1, <1>4, <1>5, <1>6 DEF Lists, Places, taskVars
<1> QED
  BY <1>3, <1>5, <1>7, <1>8, <1>9, <1>10, <1>11, <1>12 DEF LifeInv, Mode, WildOnlyAfterFailure

(***************************************************************************)
(* Every step keeps the invariant.                                         *)
(***************************************************************************)
LEMMA UnitStepLife == ASSUME Types, Alive, ~lost, UnitStep PROVE LifeInv'
<1>1. SetupFails \/ Setup => LifeInv'
  BY SetupLife
<1>2. WakeUp \/ Commands \/ OpenersDone \/ Received \/ Again \/ Exit \/ Gone => LifeInv'
  BY LoopLife
<1>3. OpenerMsg => LifeInv'
  BY MessageLife
<1> QED BY <1>1, <1>2, <1>3 DEF UnitStep

LEMMA ProgramLife ==
  ASSUME Overlap = FALSE, Types, Alive, ~lost, NEW p \in Programs,
         \/ NoUnit(p) \/ NoOpener(p) \/ OpenAgain(p) \/ FirstOpen(p)
         \/ Started(p) \/ Joined(p) \/ Close(p) \/ Left(p) \/ Stopped(p)
  PROVE  LifeInv'
<1>1. CASE NoUnit(p)
  BY <1>1, NoUnitLife
<1>2. CASE NoOpener(p)
  BY <1>2, NoOpenerLife
<1>3. CASE OpenAgain(p)
  BY <1>3, OpenAgainLife
<1>4. CASE FirstOpen(p)
  BY <1>4, FirstOpenLife
<1>5. CASE Started(p) \/ Joined(p)
  BY <1>5, StartedLife
<1>6. CASE Close(p)
  <2>1. pc[p] = "open" /\ Uncount(p)
    BY <1>6 DEF Close
  <2>2. CASE LeaveOthers(p)
    BY <2>1, <2>2, LeaveOthersLife
  <2>3. CASE LeaveQuietly(p)
    BY <2>1, <2>3, LeaveQuietlyLife
  <2>4. CASE StopUnit(p)
    BY <2>1, <2>4, StopUnitLife
  <2> QED BY <1>6, <2>2, <2>3, <2>4 DEF Close
<1>7. CASE Left(p)
  BY <1>7, LeftLife
<1>8. CASE Stopped(p)
  BY <1>8, StoppedLife
<1> QED BY <1>1, <1>2, <1>3, <1>4, <1>5, <1>6, <1>7, <1>8

(* Nothing is said of what follows a misuse of memory: no step does. *)
LEMMA NobodyMovesAfterwards ==
  ASSUME Next PROVE ~lost
<1>1. ASSUME NEW p \in Programs,
             \/ NoUnit(p) \/ NoOpener(p) \/ OpenAgain(p) \/ FirstOpen(p)
             \/ Started(p) \/ Joined(p) \/ Close(p) \/ Left(p) \/ Stopped(p)
      PROVE  ~lost
  BY <1>1 DEF NoUnit, NoOpener, OpenAgain, FirstOpen, Calm, Started, Joined, Close, Left, Stopped
<1> QED BY <1>1 DEF Next, Load, Expunge

LEMMA NextLife == ASSUME Overlap = FALSE, LifeInv, [Next]_vars PROVE LifeInv'
<1>1. CASE Next
  <2>1. ~lost /\ Types /\ Alive
    BY <1>1, NobodyMovesAfterwards DEF LifeInv
  <2>2. ASSUME NEW p \in Programs,
               \/ NoUnit(p) \/ NoOpener(p) \/ OpenAgain(p) \/ FirstOpen(p)
               \/ Started(p) \/ Joined(p) \/ Close(p) \/ Left(p) \/ Stopped(p)
        PROVE  LifeInv'
    BY <2>1, <2>2, ProgramLife
  <2>3. Load \/ Expunge => LifeInv'
    BY <2>1, LoadLife, ExpungeLife
  <2>4. UnitStep => LifeInv'
    BY <2>1, UnitStepLife
  <2> QED BY <1>1, <2>2, <2>3, <2>4 DEF Next
<1>2. CASE UNCHANGED vars
  <2>1. UNCHANGED <<libVars, unitVars, taskVars, openers, openerPort, openerMsgs, opener, pc,
                    failed, lost>>
    BY <1>2 DEF vars, listVars
  <2>2. Types'
    <3>1. Flags' /\ Counters' /\ Lists' /\ Places'
      BY <2>1 DEF LifeInv, Types, Flags, Counters, Lists, Places, libVars, unitVars, taskVars
    <3> QED BY <3>1 DEF Types
  <2>3. ~lost' => Alive'
    <3>1. SUFFICES ASSUME Alive PROVE Alive'
      BY <2>1 DEF LifeInv
    <3>2. Mode'
      BY <2>1, <3>1, FailureKeepsMode DEF Alive
    <3>3. Messages' /\ Allocated' /\ Device'
      BY <2>1, <3>1, StayAside DEF Alive
    <3> QED BY <3>2, <3>3 DEF Alive
  <2>4. WildOnlyAfterFailure'
    BY <2>1 DEF LifeInv, WildOnlyAfterFailure
  <2> QED BY <2>2, <2>3, <2>4 DEF LifeInv
<1> QED BY <1>1, <1>2

(***************************************************************************)
(* What follows from it.                                                   *)
(***************************************************************************)
LEMMA TypesSuffice == LifeInv => TypeOK
<1> SUFFICES ASSUME Flags, Counters, Lists, Places PROVE TypeOK
  BY DEF LifeInv, Types
<1>1. {base, delexp, unit, memoryPool, bufLive, openerPort, task, started, lost} \subseteq BOOLEAN
  BY DEF Flags
<1>2. unit_OpenCnt \in 0 .. Cardinality(Programs) + 1 /\ lib_OpenCnt \in 0 .. Cardinality(Programs)
  BY DEF Counters
<1>3. openers \in Seq(Programs)
      /\ openerMsgs \in Seq([command : {"add", "remove"}, opener : Programs])
  BY DEF Lists, Msgs
<1> QED BY <1>1, <1>2, <1>3 DEF Places, Steps, TypeOK

(* The unit task runs only with a unit, its pool and its openers. *)
LEMMA TaskHasUnit ==
  ASSUME LifeInv, ~lost, ut # "none" PROVE Present /\ ~(\A p \in Programs : pc[p] = "closed")
<1>1. Mode
  BY DEF LifeInv, Alive
<1>2. ~Quiet /\ ~Stray
  BY DEF Quiet, Stray, NoTask
<1>3. ASSUME NEW p \in Programs, Opening(p) \/ Closing(p)
      PROVE  Present /\ ~(\A q \in Programs : pc[q] = "closed")
  BY <1>3 DEF Opening, Closing
<1>4. ASSUME Busy PROVE Present /\ ~(\A q \in Programs : pc[q] = "closed")
  <2>1. Users # 0
    BY <1>4 DEF Busy
  <2> QED BY <1>4, <2>1, NobodyCounts DEF Busy
<1> QED BY <1>1, <1>2, <1>3, <1>4 DEF Mode

LEMMA NothingFreed == LifeInv => NothingFreedInUse
<1> SUFFICES ASSUME LifeInv, ut # "none", ~lost
             PROVE  /\ base \/ "expunge" \in failed
                    /\ unit /\ memoryPool
                    /\ \A p \in Range(openers) : opener[p]
  BY DEF NothingFreedInUse
<1>1. Present /\ ~(\A p \in Programs : pc[p] = "closed")
  BY TaskHasUnit
<1>2. base \/ "expunge" \in failed
  BY <1>1 DEF LifeInv, Alive, Device
<1>3. ASSUME NEW p \in Range(openers) PROVE opener[p]
  <2>1. p \in Programs /\ \E i \in DOMAIN openers : openers[i] = p
    <3>1. PICK i \in DOMAIN openers : openers[i] = p
      BY DEF Range
    <3>2. openers[i] \in Programs
      BY <3>1, ElementOfSeq DEF LifeInv, Types, Lists
    <3> QED BY <3>1, <3>2
  <2>2. HasOpener(p) /\ pc[p] # "closed"
    BY <1>1, <2>1 DEF Present, OnList, Linked
  <2> QED BY <2>1, <2>2 DEF LifeInv, Alive, Allocated
<1> QED BY <1>1, <1>2, <1>3 DEF Present

LEMMA AllListed == LifeInv => OpenersListed
<1> SUFFICES ASSUME LifeInv, ~lost PROVE OpenersListed
  BY DEF OpenersListed
<1>1. ASSUME NEW p \in Programs, pc[p] = "open", HasOpener(p)
      PROVE  Cardinality({i \in DOMAIN openers : openers[i] = p}) = 1
  <2>1. Busy
    BY <1>1, WhichMode DEF LifeInv, Alive
  <2>2. PICK i \in DOMAIN openers : openers[i] = p
    BY <1>1, <2>1 DEF Busy, Present, OnList, Linked
  <2>3. {j \in DOMAIN openers : openers[j] = p} = {i}
    BY <2>1, <2>2 DEF Busy, Present, Once
  <2> QED BY <2>3, FS_Singleton
<1>2. ASSUME ut # "none", NEW p \in Range(openers)
      PROVE  pc[p] \notin {"closed", "waiting", "removed"}
  <2>1. Present
    BY <1>2, TaskHasUnit
  <2>2. PICK i \in DOMAIN openers : openers[i] = p
    BY DEF Range
  <2>3. p \in Programs
    BY <2>2, ElementOfSeq DEF LifeInv, Types, Lists
  <2> QED BY <2>1, <2>2, <2>3 DEF Present, OnList, Linked
<1> QED BY <1>1, <1>2 DEF OpenersListed

LEMMA AllGone == LifeInv => NothingLeft
<1> SUFFICES ASSUME LifeInv, failed = {}, \A p \in Programs : pc[p] = "closed" PROVE NothingLeft
  BY DEF NothingLeft
<1>1. ~lost
  BY DEF LifeInv, WildOnlyAfterFailure
<1>2. Quiet
  <2>1. Quiet \/ Stray
    BY <1>1, WhichMode DEF LifeInv, Alive
  <2> QED BY <2>1 DEF Stray
<1>3. lib_OpenCnt = 0 /\ (base => ~delexp)
  BY <1>1, NobodyCounts DEF LifeInv, Alive, Device
<1>4. \A p \in Programs : ~opener[p]
  BY <1>1 DEF LifeInv, Alive, Allocated
<1> QED BY <1>2, <1>3, <1>4 DEF NothingLeft, Quiet, NoTask

(* Every variable keeps its type, the open counts their range and the opener lists
   theirs, for any number of programs with or without openers and whichever steps
   of an open fail, as long as the last close does not come while another waits. *)
THEOREM LifeTypeCorrect == Overlap = FALSE => (Spec => []TypeOK)
<1> SUFFICES ASSUME Overlap = FALSE PROVE Spec => []TypeOK
  OBVIOUS
<1> QED BY InitLife, NextLife, TypesSuffice, PTL DEF Spec

(* While the unit task runs, the device, the unit, its pool and every opener on its
   list are there, but for an expunge that met a waiting open. *)
THEOREM LifeNothingFreed == Overlap = FALSE => (Spec => []NothingFreedInUse)
<1> SUFFICES ASSUME Overlap = FALSE PROVE Spec => []NothingFreedInUse
  OBVIOUS
<1> QED BY InitLife, NextLife, NothingFreed, PTL DEF Spec

(* Whoever has the device open is on the unit's list exactly once, and nobody else
   is who has closed it or is not yet announced. *)
THEOREM LifeOpenersListed == Overlap = FALSE => (Spec => []OpenersListed)
<1> SUFFICES ASSUME Overlap = FALSE PROVE Spec => []OpenersListed
  OBVIOUS
<1> QED BY InitLife, NextLife, AllListed, PTL DEF Spec

(* After the last close of a run without failures nothing is left of the unit, and
   a device whose expunge was put off is gone too. *)
THEOREM LifeNothingLeft == Overlap = FALSE => (Spec => []NothingLeft)
<1> SUFFICES ASSUME Overlap = FALSE PROVE Spec => []NothingLeft
  OBVIOUS
<1> QED BY InitLife, NextLife, AllGone, PTL DEF Spec

(* Memory is misused only after a step has failed that the code does not survive,
   or after an expunge that met a waiting open: a unit that cannot be allocated and
   a set-up that fails are survived. *)
THEOREM LifeWildOnlyAfterFailure == Overlap = FALSE => (Spec => []WildOnlyAfterFailure)
<1>1. LifeInv => WildOnlyAfterFailure
  BY DEF LifeInv
<1> SUFFICES ASSUME Overlap = FALSE PROVE Spec => []WildOnlyAfterFailure
  OBVIOUS
<1> QED BY <1>1, InitLife, NextLife, PTL DEF Spec
=============================================================================
