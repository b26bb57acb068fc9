------------------------------ MODULE UnitLoop ------------------------------
(***************************************************************************)
(* The unit task's loop of unit_task.c: the signals it waits for, the      *)
(* packet timer with its back-off ladder and soft cap, the statistics      *)
(* timer, the poll of both rings, and the exit on SIGBREAKF_CTRL_C.        *)
(* Clients queue commands and send quick writes at any moment.             *)
(*                                                                         *)
(* Time passes in ticks, and only while the task waits: a step of the task *)
(* takes none.  The receive ring is reduced to whether a frame waits in    *)
(* it, the transmit ring to how many descriptors are in use and how many   *)
(* the DMA engine has consumed; RxRing and TxRing have them in full.       *)
(* Opener messages change nothing here; OpenerQueues has them.             *)
(***************************************************************************)
EXTENDS RuntimeConfig

CONSTANTS
    TX_DESCS,       \* descriptors of the transmit ring; a frame takes one here
    MaxCommands, MaxWrites      \* bounds on what clients send

ASSUME LoopAssumption ==
    /\ TX_DESCS \in Nat \ {0}
    /\ MaxCommands \in Nat /\ MaxWrites \in Nat

VARIABLES
    config,                     \* genetConfig, loaded before the unit exists
    pc, sig, sigset,            \* the task: step, signals set, signals taken
    port, unitState,            \* unit_MsgPort, unit->state
    packetTimer, left,          \* packetTimerReq and the ticks it has to go
    statsTimer,                 \* statsTimerReq
    backoff_idx, activity,      \* locals of UnitTask
    frameWaits,                 \* the receive ring is not empty
    ringReady,                  \* tx_ring_sem has been initialised
    fast_ticks,                 \* unit->tx_watchdog_fast_ticks
    used, consumed,             \* transmit descriptors: TX_DESCS - free_bds, and
                                \* those the hardware is done with
    commands, writes,           \* how much of the bounds is used up
    age,                        \* ticks the oldest consumed descriptor has waited
    usedAtArm                   \* descriptors were in use when the timer was set

timerVars == <<packetTimer, left, statsTimer, usedAtArm>>
pollVars  == <<backoff_idx, activity>>
txVars    == <<fast_ticks, used, consumed, age>>
sentVars  == <<commands, writes>>
baseVars == <<config, frameWaits, ringReady>>
vars      == <<baseVars, pc, sig, sigset, port, unitState, timerVars, pollVars, txVars,
               sentVars>>

(* Every other command leaves the loop's state alone, as an S2_ONLINE of a unit
   that is online does. *)
Commands == {"write", "online", "offline"}
Signals == {"message", "packet", "stats", "ctrlC"}
TimerStates == {"owned", "sent", "replied"}
Ladder(i) == config.poll_delay_us[i + 1]        \* the code counts from 0
Smaller(a, b) == IF a < b THEN a ELSE b

(* timer.device (external) never answers within the tick it was asked in. *)
Ticks(delay) == IF delay = 0 THEN 1 ELSE delay

(* The unit was just started, with the S2_CONFIGINTERFACE that brings it online
   for the first time in its port; CONFIGURED stands for UNCONFIGURED too. *)
Init ==
    /\ config \in Configs /\ frameWaits = FALSE /\ ringReady = FALSE
    /\ pc = "wait" /\ sig = {"message"} /\ sigset = {}
    /\ port = <<"online">> /\ unitState = "CONFIGURED"
    /\ backoff_idx = config.poll_delay_len - 1 /\ activity = FALSE
    /\ packetTimer = "sent" /\ left = Ticks(Ladder(backoff_idx))
    /\ statsTimer = "sent"
    /\ fast_ticks = 0 /\ used = 0 /\ consumed = 0
    /\ commands = 0 /\ writes = 0
    /\ age = 0 /\ usedAtArm = FALSE

(***************************************************************************)
(* What happens around the task.                                           *)
(***************************************************************************)
FrameArrives ==
    /\ unitState = "ONLINE" /\ ~frameWaits
    /\ frameWaits' = TRUE
    /\ UNCHANGED <<config, ringReady, pc, sig, sigset, port, unitState, timerVars, pollVars, txVars,
                   sentVars>>

HwTransmits ==
    /\ unitState = "ONLINE" /\ consumed < used
    /\ consumed' = consumed + 1
    /\ UNCHANGED <<baseVars, pc, sig, sigset, port, unitState, timerVars, pollVars,
                   fast_ticks, used, age, sentVars>>

(* bcmgenet_tx_reclaim, in whichever task; bcmgenet_xmit after it. *)
FastTicks(inUse) == IF inUse > 0 THEN config.tx_pending_fast_ticks ELSE 0

Reclaim ==
    /\ used' = used - consumed
    /\ consumed' = 0 /\ age' = 0
    /\ fast_ticks' = FastTicks(used')

Xmit ==
    /\ used < TX_DESCS
    /\ used' = used + 1
    /\ fast_ticks' = config.tx_pending_fast_ticks
    /\ UNCHANGED <<consumed, age>>

(* A quick write in a client's task; it reclaims first when the ring is nearly
   full, and is then refused when the unit is not online or the copy fails. *)
ClientXmit ==
    /\ unitState = "ONLINE" /\ writes < MaxWrites
    /\ Xmit
    /\ writes' = writes + 1
    /\ UNCHANGED <<baseVars, pc, sig, sigset, port, unitState, timerVars, pollVars,
                   commands>>

ClientReclaim ==
    /\ ringReady /\ writes < MaxWrites
    /\ Reclaim
    /\ writes' = writes + 1
    /\ UNCHANGED <<baseVars, pc, sig, sigset, port, unitState, timerVars, pollVars,
                   commands>>

(* PutMsg of a queued command. *)
ClientQueues(command) ==
    /\ commands < MaxCommands /\ pc # "ended"
    /\ port' = Append(port, command)
    /\ sig' = sig \cup {"message"}
    /\ commands' = commands + 1
    /\ UNCHANGED <<baseVars, pc, sigset, unitState, timerVars, pollVars, txVars,
                   writes>>

(* The signals below are read by Wait only, so it is enough that they may come
   while the task is there.  First UnitTaskStop. *)
AskExit ==
    /\ pc = "wait" /\ "ctrlC" \notin sig
    /\ sig' = sig \cup {"ctrlC"}
    /\ UNCHANGED <<baseVars, pc, sigset, port, unitState, timerVars, pollVars, txVars, sentVars>>

Tick ==
    /\ pc = "wait" /\ sig = {} /\ packetTimer = "sent" /\ left > 0
    /\ left' = left - 1
    /\ age' = IF consumed > 0 /\ unitState = "ONLINE" THEN age + 1 ELSE 0
    /\ UNCHANGED <<baseVars, pc, sig, sigset, port, unitState, packetTimer, statsTimer,
                   usedAtArm, pollVars, fast_ticks, used, consumed, sentVars>>

PacketExpires ==
    /\ pc = "wait" /\ packetTimer = "sent" /\ left = 0
    /\ packetTimer' = "replied" /\ sig' = sig \cup {"packet"}
    /\ UNCHANGED <<baseVars, pc, sigset, port, unitState, left, statsTimer, usedAtArm,
                   pollVars, txVars, sentVars>>

StatsExpires ==
    /\ pc = "wait" /\ statsTimer = "sent"
    /\ statsTimer' = "replied" /\ sig' = sig \cup {"stats"}
    /\ UNCHANGED <<baseVars, pc, sigset, port, unitState, packetTimer, left, usedAtArm,
                   pollVars, txVars, sentVars>>

(***************************************************************************)
(* One iteration of the loop.                                              *)
(***************************************************************************)
AfterMessages == IF unitState = "ONLINE" THEN "receive" ELSE "poll"

WaitSignals ==
    /\ pc = "wait" /\ sig # {}
    /\ sigset' = sig /\ sig' = {}
    /\ activity' = (activity \/ "message" \in sig)
    /\ pc' = IF "message" \in sig THEN "messages" ELSE AfterMessages
    /\ UNCHANGED <<baseVars, port, unitState, timerVars, backoff_idx, txVars, sentVars>>

TakeMsg ==
    /\ pc = "messages" /\ port # <<>>
    /\ port' = Tail(port)
    /\ UNCHANGED <<sig, sigset, timerVars, pollVars, sentVars>>
Serve == TakeMsg /\ UNCHANGED pc

(* Do_CMD_WRITE; with no room, or offline, it is refused. *)
ServeWrite ==
    /\ Serve /\ Head(port) = "write"
    /\ \/ unitState = "ONLINE" /\ Xmit
       \/ UNCHANGED txVars
    /\ UNCHANGED <<baseVars, unitState>>

(* bcmgenet_init_dma clears both rings. *)
ClearRing == used' = 0 /\ consumed' = 0 /\ age' = 0 /\ ringReady' = TRUE

Started ==
    /\ unitState' = "ONLINE" /\ frameWaits' = FALSE
    /\ ClearRing /\ UNCHANGED <<pc, fast_ticks>>

(* Every failure ends in bcmgenet_gmac_eth_stop, which reclaims the transmit ring as
   it was, or empty; when none was ever set up its semaphore is not initialised, and
   the task waits for it for ever.  (Control blocks that cannot be allocated are left
   out.) *)
StartFails ==
    /\ UNCHANGED unitState /\ frameWaits' \in {frameWaits, FALSE}
    /\ \/ ~ringReady /\ pc' = "hung" /\ UNCHANGED <<ringReady, txVars>>
       \/ ringReady /\ Reclaim /\ UNCHANGED <<ringReady, pc>>
       \/ ClearRing /\ fast_ticks' = FastTicks(0) /\ UNCHANGED pc

(* Do_S2_ONLINE. *)
ServeOnline ==
    /\ TakeMsg /\ Head(port) = "online"
    /\ unitState # "ONLINE"
    /\ Started \/ StartFails
    /\ UNCHANGED config

(* Do_S2_OFFLINE: bcmgenet_gmac_eth_stop reclaims once more. *)
ServeOffline ==
    /\ Serve /\ Head(port) = "offline"
    /\ unitState = "ONLINE"
    /\ unitState' = "OFFLINE"
    /\ Reclaim
    /\ UNCHANGED baseVars

ServeNothing ==
    /\ Serve
    /\ \/ Head(port) = "online" /\ unitState = "ONLINE"
       \/ Head(port) = "offline" /\ unitState # "ONLINE"
    /\ UNCHANGED <<baseVars, unitState, txVars>>

MessagesServedOne ==                                              \* mutant
    /\ pc = "messages"
    /\ pc' = AfterMessages
    /\ UNCHANGED <<baseVars, sig, sigset, port, unitState, timerVars, pollVars, txVars, sentVars>>

MessagesServed ==
    /\ pc = "messages" /\ port = <<>>
    /\ pc' = AfterMessages
    /\ UNCHANGED <<baseVars, sig, sigset, port, unitState, timerVars, pollVars, txVars, sentVars>>

(* ProcessReceive, which RxRing has step by step: it stops at an empty ring or
   at a descriptor without a frame, and reports whether anybody took a frame. *)
Receive ==
    /\ pc = "receive"
    /\ pc' = "poll"
    /\ \/ UNCHANGED <<frameWaits, activity>>
       \/ frameWaits /\ frameWaits' \in BOOLEAN /\ activity' \in {activity, TRUE}
    /\ UNCHANGED <<config, ringReady, sig, sigset, port, unitState, timerVars, backoff_idx,
                   txVars, sentVars>>

(* The packet timer's answer: CheckIO, WaitIO and the periodic reclaim. *)
AfterPoll == IF "packet" \in sigset THEN "backoff" ELSE "stats"

Poll ==
    /\ pc = "poll"
    /\ pc' = AfterPoll
    /\ packetTimer' = IF "packet" \in sigset /\ packetTimer = "replied"
                      THEN "owned" ELSE packetTimer
    /\ IF "packet" \in sigset /\ unitState = "ONLINE" THEN Reclaim ELSE UNCHANGED txVars
    /\ UNCHANGED <<baseVars, sig, sigset, port, unitState, left, statsTimer, usedAtArm,
                   pollVars, sentVars>>

SlowerPastEnd(idx) == IF idx < config.poll_delay_len THEN idx + 1 ELSE idx   \* mutant
Slower(idx) == IF idx + 1 < config.poll_delay_len THEN idx + 1 ELSE idx

Backoff ==
    /\ pc = "backoff"
    /\ \/ /\ activity \/ fast_ticks > 0
          /\ backoff_idx' = 0
          /\ pc' = "fast"
       \/ /\ ~(activity \/ fast_ticks > 0)
          /\ backoff_idx' = Slower(backoff_idx)
          /\ pc' = "rearm"
    /\ activity' = FALSE
    /\ UNCHANGED <<baseVars, sig, sigset, port, unitState, timerVars, txVars, sentVars>>

(* The test of fast_ticks and its decrement hold no lock: a client's reclaim may
   clear it in between, and the UWORD wraps. *)
TestFast ==
    /\ pc = "fast"
    /\ pc' = IF fast_ticks > 0 THEN "decrement" ELSE "rearm"
    /\ UNCHANGED <<baseVars, sig, sigset, port, unitState, timerVars, pollVars, txVars, sentVars>>

NoDecrement(ticks) == ticks                                       \* mutant
Decremented(ticks) == (ticks + WORD_SPAN - 1) % WORD_SPAN

DecrementFast ==
    /\ pc = "decrement"
    /\ fast_ticks' = Decremented(fast_ticks)
    /\ pc' = "rearm"
    /\ UNCHANGED <<baseVars, sig, sigset, port, unitState, timerVars, pollVars, used,
                   consumed, age, sentVars>>

(* free_bds is read without the ring semaphore. *)
DelayUncapped == Ladder(backoff_idx)                              \* mutant
Delay == IF used > 0 THEN Smaller(Ladder(backoff_idx), config.tx_reclaim_soft_us)
                     ELSE Ladder(backoff_idx)

RearmOnline ==                                                    \* mutant
    /\ pc = "rearm"
    /\ packetTimer' = IF unitState = "ONLINE" THEN "sent" ELSE packetTimer
    /\ left' = Ticks(Delay) /\ usedAtArm' = (used > 0)
    /\ pc' = "stats"
    /\ UNCHANGED <<baseVars, sig, sigset, port, unitState, statsTimer, pollVars, txVars, sentVars>>

Rearm ==
    /\ pc = "rearm"
    /\ packetTimer' = "sent"
    /\ left' = Ticks(Delay) /\ usedAtArm' = (used > 0)
    /\ pc' = "stats"
    /\ UNCHANGED <<baseVars, sig, sigset, port, unitState, statsTimer, pollVars, txVars, sentVars>>

Stats ==
    /\ pc = "stats"
    /\ statsTimer' = IF "stats" \in sigset THEN "sent" ELSE statsTimer
    /\ pc' = IF "ctrlC" \in sigset THEN "exit" ELSE "wait"
    /\ sigset' = IF "ctrlC" \in sigset THEN sigset ELSE {}
    /\ UNCHANGED <<baseVars, sig, port, unitState, packetTimer, left, usedAtArm, pollVars,
                   txVars, sentVars>>

(* AbortIO and WaitIO of both requests. *)
ExitPending ==                                                    \* mutant
    /\ pc = "exit"
    /\ packetTimer' = "owned" /\ left' = 0
    /\ pc' = "ended"
    /\ UNCHANGED <<baseVars, sig, sigset, port, unitState, statsTimer, usedAtArm, pollVars,
                   txVars, sentVars>>

Exit ==
    /\ pc = "exit"
    /\ packetTimer' = "owned" /\ statsTimer' = "owned" /\ left' = 0
    /\ pc' = "ended"
    /\ UNCHANGED <<baseVars, sig, sigset, port, unitState, usedAtArm, pollVars, txVars, sentVars>>

TaskStep ==
    \/ WaitSignals \/ ServeWrite \/ ServeOnline \/ ServeOffline \/ ServeNothing
    \/ MessagesServed \/ Receive \/ Poll \/ Backoff \/ TestFast
    \/ DecrementFast \/ Rearm \/ Stats \/ Exit

Next ==
    \/ TaskStep
    \/ Tick \/ PacketExpires \/ StatsExpires
    \/ FrameArrives \/ HwTransmits
    \/ ClientXmit \/ ClientReclaim \/ (\E command \in Commands : ClientQueues(command))
    \/ AskExit

Spec == Init /\ [][Next]_vars

(***************************************************************************)
(* Fairness.  The task runs and the DMA engine makes progress.  Time       *)
(* passes and the packet timer answers in the end, however often the       *)
(* statistics timer (15 s in the code) and the clients wake the task       *)
(* before.  Nothing makes a client act or a frame arrive.                  *)
(***************************************************************************)
Fairness == /\ WF_vars(TaskStep) /\ WF_vars(HwTransmits)
            /\ SF_vars(Tick) /\ SF_vars(PacketExpires)

FairSpec == Spec /\ Fairness

(***************************************************************************)
(* Properties.                                                             *)
(***************************************************************************)
Steps == {"wait", "messages", "receive", "poll", "backoff", "fast",
          "decrement", "rearm", "stats", "exit", "ended", "hung"}

(* Every variable has its type, whatever genet.prefs says: the ladder is never
   empty, the back-off index stays inside it, the stack has its least size, and no
   more descriptors are consumed than are in use. *)
TypeOK ==
    /\ frameWaits \in BOOLEAN /\ ringReady \in BOOLEAN
    /\ pc \in Steps /\ sig \subseteq Signals /\ sigset \subseteq Signals
    /\ port \in Seq(Commands) /\ unitState \in {"CONFIGURED", "ONLINE", "OFFLINE"}
    /\ packetTimer \in TimerStates /\ statsTimer \in TimerStates /\ left \in Nat
    /\ config.poll_delay_len \in 1 .. DEFAULT_POLL_LADDER_MAX
    /\ config.unit_stack_bytes >= 4096 /\ config.unit_stack_bytes % 4 = 0
    /\ backoff_idx \in 0 .. config.poll_delay_len - 1
    /\ activity \in BOOLEAN /\ usedAtArm \in BOOLEAN
    /\ fast_ticks \in 0 .. WORD_SPAN - 1
    /\ used \in 0 .. TX_DESCS /\ consumed \in 0 .. used /\ age \in Nat

(* Each timer request is with timer.device or has been answered, and an answer
   has its signal pending or taken, from the start of the task to its end: it is
   never sent while in flight, no wake-up is lost, and nothing is in flight when
   the task has freed the ports. *)
Rearming == {"backoff", "fast", "decrement", "rearm"}
TimersSound ==
    /\ pc = "ended" <=> statsTimer = "owned"
    /\ pc \in Rearming \cup {"ended"} <=> packetTimer = "owned"
    /\ packetTimer = "replied" => "packet" \in sig \cup sigset
    /\ statsTimer = "replied" => "stats" \in sig \cup sigset
    /\ pc \in Rearming => "packet" \in sigset
    /\ pc # "exit" /\ pc # "ended" /\ "stats" \in sigset => statsTimer = "replied"

(* A descriptor the DMA engine is done with is reclaimed within the longest
   delay of the ladder, and within TX_RECLAIM_SOFT_US when descriptors were
   already in use as the timer was set (a quick write after that waits for the
   timer that is running). *)
LongestDelay == CHOOSE d \in {Ticks(Ladder(i)) : i \in 0 .. config.poll_delay_len - 1} :
                    \A i \in 0 .. config.poll_delay_len - 1 : Ticks(Ladder(i)) <= d
ReclaimedInTime ==
    pc # "ended" =>
        age <= IF usedAtArm THEN Smaller(LongestDelay, Ticks(config.tx_reclaim_soft_us))
                            ELSE LongestDelay

(* Queued commands are served, and the task goes on with its loop, however they race
   the drain of the port and the waking of the task, and whether starts fail or not.
   Only a start that fails before the transmit semaphore was ever initialised ends
   this: the task hangs in the clean-up, and nobody drains the port again. *)
Hung == pc = "hung" /\ ~ringReady
CommandsServed ==
    port # <<>> ~> (port = <<>> /\ pc # "messages") \/ pc = "ended" \/ Hung

(* While the unit is online both rings are looked at again and again, whatever
   the clients, the statistics timer and the back-off do: RxRing and TxRing take
   this for granted. *)
PollsForever == <>[](unitState = "ONLINE" /\ pc # "ended") =>
                    []<>(pc = "receive") /\ []<>(pc = "rearm")

(* When no frame comes any more (and the clients are done) a task that has not hung
   polls at the slowest step of its ladder again, even if fast_ticks has wrapped or
   was left set by going offline. *)
BackoffSettles ==
    <>[]~frameWaits =>
        <>[](pc # "ended" /\ ~Hung => backoff_idx = config.poll_delay_len - 1)
=============================================================================
