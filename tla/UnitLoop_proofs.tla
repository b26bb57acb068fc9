-------------------------- MODULE UnitLoop_proofs --------------------------
(***************************************************************************)
(* The handling of the two timer requests in the unit task's loop is sound *)
(* for every configuration, ring size and bound on the clients.            *)
(***************************************************************************)
EXTENDS UnitLoop, SharedTheorems, TLAPS

(***************************************************************************)
(* TimersSound needs to know where an answer is noticed: a signal of a     *)
(* timer is only set while the task waits, is taken at once, and from then *)
(* to the place that serves it the request stays answered.                 *)
(***************************************************************************)
Unserved == {"messages", "receive", "poll"}
TimersInv ==
    /\ TimersSound
    /\ pc = "wait" => sigset = {}
    /\ pc # "wait" => "packet" \notin sig /\ "stats" \notin sig
    /\ "packet" \in sig => packetTimer = "replied"
    /\ "stats" \in sig => statsTimer = "replied"
    /\ pc \in Unserved /\ "packet" \in sigset => packetTimer = "replied"
    /\ pc \in {"stats", "exit"} => packetTimer # "replied"

LEMMA InitTimers == Init => TimersInv
  BY DEF Init, TimersInv, TimersSound, Rearming, Unserved

(* What a step does that leaves the task where it is and the timers alone: it
   may set the signal of the message port, or the exit signal. *)
Aside == /\ UNCHANGED <<pc, sigset, packetTimer, statsTimer>>
         /\ \E s \in {"message", "ctrlC"} : sig' \in {sig, sig \cup {s}}

(* A start that fails before anything was ever set up leaves the task waiting for
   the ring semaphore. *)
Hangs == /\ pc = "messages" /\ pc' = "hung"
         /\ UNCHANGED <<sig, sigset, packetTimer, statsTimer>>

LEMMA HangTimers == TimersInv /\ Hangs => TimersInv'
  BY DEF TimersInv, TimersSound, Hangs, Rearming, Unserved

LEMMA AsideTimers == TimersInv /\ Aside => TimersInv'
  BY DEF TimersInv, TimersSound, Aside, Rearming, Unserved

LEMMA TaskTimers == ASSUME TimersInv, TaskStep PROVE TimersInv'
<1> USE DEF TimersInv, TimersSound, Rearming, Unserved
<1>1. CASE WaitSignals
  BY <1>1 DEF WaitSignals, AfterMessages, timerVars
<1>2. CASE ServeWrite \/ ServeOffline \/ ServeNothing
  <2>1. Aside
    BY <1>2 DEF ServeWrite, ServeOffline, ServeNothing, Serve, TakeMsg, timerVars, Aside
  <2> QED BY <2>1, AsideTimers
<1>10. CASE ServeOnline
  <2>1. Aside \/ Hangs
    BY <1>10 DEF ServeOnline, Started, StartFails, TakeMsg, timerVars, Aside, Hangs
  <2> QED BY <2>1, AsideTimers, HangTimers
<1>3. CASE MessagesServed
  BY <1>3 DEF MessagesServed, AfterMessages, timerVars
<1>4. CASE Receive
  BY <1>4 DEF Receive, timerVars
<1>5. CASE Poll
  BY <1>5 DEF Poll, AfterPoll
<1>6. CASE Backoff \/ TestFast \/ DecrementFast
  BY <1>6 DEF Backoff, TestFast, DecrementFast, timerVars
<1>7. CASE Rearm
  BY <1>7 DEF Rearm
<1>8. CASE Stats
  BY <1>8 DEF Stats
<1>9. CASE Exit
  BY <1>9 DEF Exit
<1> QED
  BY <1>1, <1>2, <1>3, <1>4, <1>5, <1>6, <1>7, <1>8, <1>9, <1>10 DEF TaskStep

(* Time, the hardware and the clients. *)
LEMMA AroundTimers == ASSUME TimersInv, Next, ~TaskStep PROVE TimersInv'
<1>1. CASE PacketExpires
  BY <1>1 DEF PacketExpires, TimersInv, TimersSound, Rearming, Unserved
<1>2. CASE StatsExpires
  BY <1>2 DEF StatsExpires, TimersInv, TimersSound, Rearming, Unserved
<1>3. CASE Tick \/ FrameArrives \/ HwTransmits \/ ClientXmit \/ ClientReclaim \/ AskExit
  <2>1. Aside
    BY <1>3 DEF Tick, FrameArrives, HwTransmits, ClientXmit, ClientReclaim, AskExit, timerVars,
       Aside
  <2> QED BY <2>1, AsideTimers
<1>4. ASSUME NEW command \in Commands, ClientQueues(command) PROVE TimersInv'
  <2>1. Aside
    BY <1>4 DEF ClientQueues, timerVars, Aside
  <2> QED BY <2>1, AsideTimers
<1> QED BY <1>1, <1>2, <1>3, <1>4 DEF Next

(* Each timer request is sent once at a time and answered, no wake-up is lost
   and none is in flight when the task has ended, whatever genet.prefs says and
   whatever commands, frames, quick writes and signals come in between. *)
THEOREM TimersCorrect == Spec => []TimersSound
<1>1. TimersInv /\ [Next]_vars => TimersInv'
  <2>1. TimersInv /\ UNCHANGED vars => TimersInv'
    BY AsideTimers DEF Aside, vars, timerVars
  <2> QED BY <2>1, TaskTimers, AroundTimers
<1>2. TimersInv => TimersSound
  BY DEF TimersInv
<1> QED BY <1>1, <1>2, InitTimers, PTL DEF Spec

(***************************************************************************)
(* The configuration: whatever genet.prefs says, what LoadGenetRuntimeConfig *)
(* leaves in genetConfig can be used as it is.                             *)
(***************************************************************************)
Delays == [1 .. DEFAULT_POLL_LADDER_MAX -> Nat]
StackSizes == {n \in Nat : n >= 4096 /\ n % 4 = 0}
Sound == [unit_task_priority : Int, unit_stack_bytes : StackSizes,
          use_dma : Nat, use_miami_workaround : Nat,
          tx_pending_fast_ticks : 0 .. WORD_SPAN - 1, tx_reclaim_soft_us : Nat,
          rx_poll_burst : 0 .. WORD_SPAN - 1, rx_poll_burst_idle_break : 0 .. WORD_SPAN - 1,
          poll_delay_us : Delays, poll_delay_len : 1 .. DEFAULT_POLL_LADDER_MAX]
Words == Seq(Int \cup {Garbage})

LEMMA DefaultsSound == Defaults \in Sound
<1> DEFINE zeros == [i \in 1 .. DEFAULT_POLL_LADDER_MAX - Len(DefaultLadder) |-> 0]
<1>1. Len(DefaultLadder) \in Nat /\ DEFAULT_POLL_LADDER_MAX - Len(DefaultLadder) \in Nat
  BY DefaultsAssumption
<1>2. zeros \in Seq(Nat) /\ Len(zeros) = DEFAULT_POLL_LADDER_MAX - Len(DefaultLadder)
  BY <1>1
<1> HIDE DEF zeros
<1>3. /\ DefaultLadder \o zeros \in Seq(Nat)
      /\ Len(DefaultLadder \o zeros) = Len(DefaultLadder) + Len(zeros)
  BY <1>2, ConcatProperties, DefaultsAssumption
<1>4. DefaultLadder \o zeros \in Delays
  <2>1. Len(DefaultLadder \o zeros) = DEFAULT_POLL_LADDER_MAX
    BY <1>1, <1>2, <1>3, DefaultsAssumption
  <2> QED BY <1>3, <2>1, LenProperties, ElementOfSeq DEF Delays
<1>5. 65536 \in StackSizes
  BY DEF StackSizes
<1>6. 0 \in 0 .. WORD_SPAN - 1
  BY DefaultsAssumption
<1> QED BY <1>4, <1>5, <1>6, DefaultsAssumption DEF Sound, Defaults, zeros

LEMMA Conversions ==
  ASSUME NEW v \in Int
  PROVE  /\ \A old \in StackSizes : StackBytes(old, v) \in StackSizes
         /\ \A old \in Nat : Byte(old, v) \in Nat /\ Long(old, v) \in Nat
         /\ \A old \in 0 .. WORD_SPAN - 1 : Word(old, v) \in 0 .. WORD_SPAN - 1
<1>1. \A n \in Nat : n >= 4096 => n - (n % 4) \in StackSizes
  BY DEF StackSizes
<1>2. ASSUME NEW old \in StackSizes PROVE StackBytes(old, v) \in StackSizes
  <2> DEFINE bytes == IF v > 0 THEN v ELSE old
             atLeast == IF bytes < 4096 THEN 4096 ELSE bytes
  <2>1. atLeast \in Nat /\ atLeast >= 4096
    BY DEF StackSizes
  <2>2. StackBytes(old, v) = atLeast - (atLeast % 4)
    BY DEF StackBytes
  <2> HIDE DEF atLeast
  <2> QED BY <1>1, <2>1, <2>2
<1>3. \A old \in Nat : Byte(old, v) \in Nat /\ Long(old, v) \in Nat
  BY DEF Byte, Long
<1>4. \A old \in 0 .. WORD_SPAN - 1 : Word(old, v) \in 0 .. WORD_SPAN - 1
  BY DefaultsAssumption DEF Word
<1> QED BY <1>2, <1>3, <1>4

(* ParsePollDelayList writes inside poll_delay_us, and counts what it writes. *)
LEMMA DelaysStored ==
  ASSUME NEW delays \in Delays, NEW words \in Words
  PROVE  /\ StoredDelays(delays, words).delays \in Delays
         /\ StoredDelays(delays, words).count \in 0 .. DEFAULT_POLL_LADDER_MAX
<1> DEFINE States == [delays : Delays, count : 0 .. DEFAULT_POLL_LADDER_MAX]
           N == Len(words)
           start == [delays |-> delays, count |-> 0]
           step == [x \in States \X (1 .. N) |-> StoreDelay(x[1], StrToLong(words[x[2]]))]
           after[n \in 0 .. Len(words)] ==
               IF n = 0 THEN [delays |-> delays, count |-> 0]
                        ELSE StoreDelay(after[n - 1], StrToLong(words[n]))
<1>1. N \in Nat /\ start \in States
  BY DefaultsAssumption DEF Words
<1>2. \A n \in 1 .. N : StrToLong(words[n]) \in Int
  BY ElementOfSeq DEF StrToLong, Words
<1>3. ASSUME NEW list \in States, NEW v \in Int PROVE StoreDelay(list, v) \in States
  <2>1. CASE v >= 0 /\ list.count < DEFAULT_POLL_LADDER_MAX
    <3>1. list.count + 1 \in 1 .. DEFAULT_POLL_LADDER_MAX /\ v \in Nat
      BY <2>1, DefaultsAssumption
    <3>2. [list.delays EXCEPT ![list.count + 1] = v] \in Delays
      BY <3>1 DEF Delays
    <3>3. StoreDelay(list, v) = [delays |-> [list.delays EXCEPT ![list.count + 1] = v],
                                 count |-> list.count + 1]
      BY <2>1 DEF StoreDelay
    <3> QED BY <3>1, <3>2, <3>3
  <2>2. CASE ~(v >= 0 /\ list.count < DEFAULT_POLL_LADDER_MAX)
    BY <2>2 DEF StoreDelay
  <2> QED BY <2>1, <2>2
<1>4. RoundOf(step, States, N)
  BY <1>2, <1>3 DEF RoundOf
<1>5. PICK f : Rounds(f, N, States, start, step)
  <2> HIDE DEF States, step, start, N
  <2> QED BY <1>1, <1>4, LoopExists
<1>6. ASSUME NEW n \in 1 .. N PROVE f[n] = StoreDelay(f[n - 1], StrToLong(words[n]))
  <2>1. n - 1 \in 0 .. N
    BY <1>1
  <2>2. <<f[n - 1], n>> \in States \X (1 .. N)
    BY <1>5, <2>1 DEF Rounds
  <2>3. f[n] = step[<<f[n - 1], n>>]
    BY <1>5 DEF Rounds
  <2> QED BY <2>2, <2>3
<1>7. f = [n \in 0 .. Len(words) |-> IF n = 0 THEN [delays |-> delays, count |-> 0]
                                  ELSE StoreDelay(f[n - 1], StrToLong(words[n]))]
  <2>1. \A n \in 0 .. N : f[n] = IF n = 0 THEN [delays |-> delays, count |-> 0]
                                ELSE StoreDelay(f[n - 1], StrToLong(words[n]))
    BY <1>1, <1>5, <1>6 DEF Rounds
  <2> QED BY <1>5, <2>1 DEF Rounds
<1>8. after = [n \in 0 .. Len(words) |-> IF n = 0 THEN [delays |-> delays, count |-> 0]
                                      ELSE StoreDelay(after[n - 1], StrToLong(words[n]))]
  BY <1>7, Zenon
<1>9. StoredDelays(delays, words) = after[Len(words)]
  BY Zenon DEF StoredDelays
<1> HIDE DEF after
<1>10. \A n \in 0 .. N : after[n] \in States
  <2>1. after[0] \in States
    BY <1>1, <1>8
  <2>2. ASSUME NEW n \in 1 .. N, after[n - 1] \in States PROVE after[n] \in States
    <3>1. after[n] = StoreDelay(after[n - 1], StrToLong(words[n]))
      BY <1>1, <1>8
    <3> QED BY <1>2, <1>3, <2>2, <3>1
  <2>3. N \in Nat
    BY <1>1
  <2> HIDE DEF N, States
  <2> QED BY <2>1, <2>2, <2>3, LoopInvariant
<1> QED BY <1>1, <1>9, <1>10

(* Every line keeps what is in genetConfig usable. *)
LEMMA LineApplied ==
  ASSUME NEW c \in Sound, NEW line, line.words \in Words \ {<<>>}
  PROVE  ApplyLine(c, line) \in Sound
<1> DEFINE v == StrToLong(line.words[1])
<1>1. v \in Int
  <2>1. line.words[1] \in Int \cup {Garbage}
    BY DEF Words
  <2> QED BY <2>1 DEF StrToLong
<1> HIDE DEF v
<1>2. ParsePollDelayList(c, line.words) \in Sound
  <2>1. PICK list : list = StoredDelays(c.poll_delay_us, line.words)
    OBVIOUS
  <2>2. list.delays \in Delays /\ list.count \in 0 .. DEFAULT_POLL_LADDER_MAX
    <3>1. c.poll_delay_us \in Delays /\ line.words \in Words
      BY DEF Sound
    <3> QED BY <2>1, <3>1, DelaysStored
  <2>3. PICK len \in 1 .. DEFAULT_POLL_LADDER_MAX :
            len = IF list.count > 0 THEN list.count ELSE c.poll_delay_len
    BY <2>2, DefaultsAssumption DEF Sound
  <2>4. ParsePollDelayList(c, line.words) =
            [c EXCEPT !.poll_delay_us = list.delays, !.poll_delay_len = len]
    BY <2>1, <2>3 DEF ParsePollDelayList
  <2> QED BY <2>2, <2>3, <2>4 DEF Sound
<1>3. /\ StackBytes(c.unit_stack_bytes, v) \in StackSizes
      /\ Byte(c.use_dma, v) \in Nat /\ Byte(c.use_miami_workaround, v) \in Nat
      /\ Long(c.tx_reclaim_soft_us, v) \in Nat
      /\ Word(c.tx_pending_fast_ticks, v) \in 0 .. WORD_SPAN - 1
      /\ Word(c.rx_poll_burst, v) \in 0 .. WORD_SPAN - 1
      /\ Word(c.rx_poll_burst_idle_break, v) \in 0 .. WORD_SPAN - 1
  BY <1>1, Conversions DEF Sound
<1>4. \/ ApplyLine(c, line) = [c EXCEPT !.unit_task_priority = v]
      \/ ApplyLine(c, line) = [c EXCEPT !.unit_stack_bytes = StackBytes(@, v)]
      \/ ApplyLine(c, line) = [c EXCEPT !.use_dma = Byte(@, v)]
      \/ ApplyLine(c, line) = [c EXCEPT !.use_miami_workaround = Byte(@, v)]
      \/ ApplyLine(c, line) = [c EXCEPT !.tx_pending_fast_ticks = Word(@, v)]
      \/ ApplyLine(c, line) = [c EXCEPT !.tx_reclaim_soft_us = Long(@, v)]
      \/ ApplyLine(c, line) = [c EXCEPT !.rx_poll_burst = Word(@, v)]
      \/ ApplyLine(c, line) = [c EXCEPT !.rx_poll_burst_idle_break = Word(@, v)]
      \/ ApplyLine(c, line) = ParsePollDelayList(c, line.words)
      \/ ApplyLine(c, line) = c
  BY DEF ApplyLine, v
<1> QED BY <1>1, <1>2, <1>3, <1>4 DEF Sound

(* LoadGenetRuntimeConfig, whatever file the user wrote. *)
LEMMA ConfigsSound == Configs \subseteq Sound
<1> SUFFICES ASSUME NEW lines \in PrefsFiles PROVE LoadGenetRuntimeConfig(lines) \in Sound
  BY DEF Configs
<1> DEFINE N == Len(lines)
           step == [x \in Sound \X (1 .. N) |-> ApplyLine(x[1], lines[x[2]])]
           after[n \in 0 .. Len(lines)] ==
               IF n = 0 THEN Defaults ELSE ApplyLine(after[n - 1], lines[n])
<1>1. N \in Nat /\ lines \in Seq(Range(lines))
  BY PrefsAssumption
<1>2. ASSUME NEW n \in 1 .. N, NEW c \in Sound PROVE ApplyLine(c, lines[n]) \in Sound
  <2>1. lines[n] \in Range(lines)
    BY <1>1, ElementOfSeq
  <2>2. lines[n].words \in Words \ {<<>>}
    BY <2>1, PrefsAssumption DEF Words
  <2> QED BY <2>2, LineApplied
<1>3. RoundOf(step, Sound, N)
  BY <1>2 DEF RoundOf
<1>4. PICK f : Rounds(f, N, Sound, Defaults, step)
  <2> HIDE DEF step, N
  <2> QED BY <1>1, <1>3, DefaultsSound, LoopExists
<1>5. ASSUME NEW n \in 1 .. N PROVE f[n] = ApplyLine(f[n - 1], lines[n])
  <2>1. n - 1 \in 0 .. N
    BY <1>1
  <2>2. <<f[n - 1], n>> \in Sound \X (1 .. N)
    BY <1>4, <2>1 DEF Rounds
  <2>3. f[n] = step[<<f[n - 1], n>>]
    BY <1>4 DEF Rounds
  <2> QED BY <2>2, <2>3
<1>6. f = [n \in 0 .. Len(lines) |-> IF n = 0 THEN Defaults ELSE ApplyLine(f[n - 1], lines[n])]
  <2>1. \A n \in 0 .. N : f[n] = IF n = 0 THEN Defaults ELSE ApplyLine(f[n - 1], lines[n])
    BY <1>1, <1>4, <1>5 DEF Rounds
  <2> QED BY <1>4, <2>1 DEF Rounds
<1>7. after = [n \in 0 .. Len(lines) |->
                   IF n = 0 THEN Defaults ELSE ApplyLine(after[n - 1], lines[n])]
  BY <1>6, Zenon
<1>8. LoadGenetRuntimeConfig(lines) = after[Len(lines)]
  BY Zenon DEF LoadGenetRuntimeConfig
<1> HIDE DEF after
<1>9. \A n \in 0 .. N : after[n] \in Sound
  <2>1. after[0] \in Sound
    BY <1>1, <1>7, DefaultsSound
  <2>2. ASSUME NEW n \in 1 .. N, after[n - 1] \in Sound PROVE after[n] \in Sound
    <3>1. after[n] = ApplyLine(after[n - 1], lines[n])
      BY <1>1, <1>7
    <3> QED BY <1>2, <2>2, <3>1
  <2>3. N \in Nat
    BY <1>1
  <2> HIDE DEF N
  <2> QED BY <2>1, <2>2, <2>3, LoopInvariant
<1> QED BY <1>1, <1>8, <1>9

(***************************************************************************)
(* The types of the loop's variables: TypeOK, with all that is known of    *)
(* the configuration.                                                      *)
(***************************************************************************)
TxTypes == /\ fast_ticks \in 0 .. WORD_SPAN - 1
           /\ used \in 0 .. TX_DESCS /\ consumed \in 0 .. used /\ age \in Nat
RestTypes == /\ frameWaits \in BOOLEAN /\ ringReady \in BOOLEAN
             /\ pc \in Steps /\ sig \subseteq Signals /\ sigset \subseteq Signals
             /\ port \in Seq(Commands) /\ unitState \in {"CONFIGURED", "ONLINE", "OFFLINE"}
             /\ packetTimer \in TimerStates /\ statsTimer \in TimerStates /\ left \in Nat
             /\ config \in Sound /\ backoff_idx \in 0 .. config.poll_delay_len - 1
             /\ activity \in BOOLEAN /\ usedAtArm \in BOOLEAN
TypeInv == TxTypes /\ RestTypes

(* A delay of the ladder is one the configuration holds. *)
LEMMA LadderDelay ==
  ASSUME config \in Sound, NEW i \in 0 .. config.poll_delay_len - 1
  PROVE  Ladder(i) \in Nat /\ Ticks(Ladder(i)) \in Nat \ {0}
<1>1. config.poll_delay_us \in Delays /\ config.poll_delay_len \in 1 .. DEFAULT_POLL_LADDER_MAX
  BY DEF Sound
<1>2. i + 1 \in 1 .. DEFAULT_POLL_LADDER_MAX
  BY <1>1, DefaultsAssumption
<1>3. Ladder(i) \in Nat
  BY <1>1, <1>2 DEF Ladder, Delays
<1> HIDE DEF Ladder
<1> QED BY <1>3 DEF Ticks

LEMMA InitType == Init => TypeInv
<1> SUFFICES ASSUME Init PROVE TypeInv
  OBVIOUS
<1>1. config \in Sound
  BY ConfigsSound DEF Init
<1>2. /\ config.poll_delay_len \in 1 .. DEFAULT_POLL_LADDER_MAX
      /\ config.unit_stack_bytes >= 4096 /\ config.unit_stack_bytes % 4 = 0
      /\ config.tx_reclaim_soft_us \in Nat
  BY <1>1 DEF Sound, StackSizes
<1>3. backoff_idx \in 0 .. config.poll_delay_len - 1
  BY <1>2, DefaultsAssumption DEF Init
<1>4. left \in Nat
  BY <1>1, <1>3, LadderDelay DEF Init
<1>5. TxTypes
  BY DefaultsAssumption, LoopAssumption DEF Init, TxTypes
<1>6. port \in Seq(Commands)
  BY DEF Init, Commands
<1>7. /\ frameWaits \in BOOLEAN /\ ringReady \in BOOLEAN /\ pc \in Steps /\ sig \subseteq Signals /\ sigset \subseteq Signals
      /\ unitState \in {"CONFIGURED", "ONLINE", "OFFLINE"}
      /\ packetTimer \in TimerStates /\ statsTimer \in TimerStates
      /\ activity \in BOOLEAN /\ usedAtArm \in BOOLEAN
  BY DEF Init, Steps, Signals, TimerStates
<1> QED BY <1>1, <1>2, <1>3, <1>4, <1>5, <1>6, <1>7 DEF TypeInv, TxTypes, RestTypes

(* Reclaiming and sending keep the counts of descriptors. *)
LEMMA RingTypes ==
  ASSUME TypeInv, Reclaim \/ Xmit \/ UNCHANGED txVars, UNCHANGED config
  PROVE  TxTypes'
<1>1. TxTypes /\ config.tx_pending_fast_ticks \in 0 .. WORD_SPAN - 1 /\ WORD_SPAN \in Nat \ {0}
  BY DefaultsAssumption DEF TypeInv, TxTypes, RestTypes, Sound
<1>2. CASE Reclaim
  BY <1>1, <1>2, LoopAssumption DEF Reclaim, FastTicks, TxTypes
<1>3. CASE Xmit
  BY <1>1, <1>3, LoopAssumption DEF Xmit, TxTypes
<1>4. CASE UNCHANGED txVars
  BY <1>1, <1>4 DEF txVars, TxTypes
<1> QED BY <1>2, <1>3, <1>4

LEMMA TypesImplied == TypeInv => TypeOK
<1>1. config \in Sound => /\ config.poll_delay_len \in 1 .. DEFAULT_POLL_LADDER_MAX
                         /\ config.unit_stack_bytes >= 4096 /\ config.unit_stack_bytes % 4 = 0
  BY DEF Sound, StackSizes
<1> QED BY <1>1 DEF TypeInv, TypeOK, TxTypes, RestTypes

LEMMA ServeType ==
  ASSUME TypeInv, ServeWrite \/ ServeOnline \/ ServeOffline \/ ServeNothing PROVE TypeInv'
<1>1. TxTypes /\ RestTypes
  BY DEF TypeInv
<1>2. /\ TakeMsg /\ UNCHANGED config /\ frameWaits' \in BOOLEAN /\ ringReady' \in BOOLEAN
      /\ unitState' \in {"CONFIGURED", "ONLINE", "OFFLINE"} /\ pc' \in {pc, "hung"}
  <2>1. CASE ServeOnline
    BY <1>1, <2>1 DEF ServeOnline, Started, StartFails, ClearRing, RestTypes
  <2>2. CASE ServeWrite \/ ServeOffline \/ ServeNothing
    BY <1>1, <2>2 DEF ServeWrite, ServeOffline, ServeNothing, Serve, baseVars, RestTypes
  <2> QED BY <2>1, <2>2
<1>3. TxTypes'
  <2>1. CASE ServeOnline /\ ClearRing
    <3>1. fast_ticks' \in {fast_ticks, FastTicks(0)} \/ Reclaim \/ UNCHANGED txVars
      BY <2>1 DEF ServeOnline, Started, StartFails
    <3>2. FastTicks(0) \in 0 .. WORD_SPAN - 1
      BY <1>1, DefaultsAssumption DEF FastTicks, RestTypes, Sound
    <3>3. CASE fast_ticks' \in {fast_ticks, FastTicks(0)}
      BY <1>1, <2>1, <3>2, <3>3, LoopAssumption DEF ClearRing, TxTypes
    <3> QED BY <1>2, <3>1, <3>3, RingTypes
  <2>2. CASE ServeWrite \/ ServeOffline \/ ServeNothing \/ (ServeOnline /\ ~ClearRing)
    <3>1. Reclaim \/ Xmit \/ UNCHANGED txVars
      BY <2>2 DEF ServeOnline, Started, StartFails, ServeWrite, ServeOffline, ServeNothing
    <3> QED BY <1>2, <3>1, RingTypes
  <2> QED BY <2>1, <2>2
<1>4. port' \in Seq(Commands)
  BY <1>1, <1>2 DEF TakeMsg, RestTypes
<1>6. pc' \in Steps
  BY <1>1, <1>2 DEF RestTypes, Steps
<1>5. RestTypes'
  BY <1>1, <1>2, <1>4, <1>6 DEF TakeMsg, RestTypes, timerVars, pollVars
<1> QED BY <1>3, <1>5 DEF TypeInv

LEMMA TaskType == ASSUME TypeInv, TaskStep PROVE TypeInv'
<1> DEFINE Goal == TypeInv'
<1> SUFFICES Goal
  OBVIOUS
<1>a. TxTypes /\ RestTypes
  BY DEF TypeInv
<1>1. CASE WaitSignals
  BY <1>a, <1>1 DEF WaitSignals, AfterMessages, TypeInv, TxTypes, RestTypes, Steps,
     baseVars, timerVars, txVars, sentVars
<1>2. CASE ServeWrite \/ ServeOnline \/ ServeOffline \/ ServeNothing
  BY <1>2, ServeType
<1>3. CASE MessagesServed \/ Receive
  BY <1>a, <1>3 DEF MessagesServed, Receive, AfterMessages, TypeInv, TxTypes, RestTypes, Steps,
     baseVars, timerVars, pollVars, txVars, sentVars
<1>4. CASE Poll
  <2>1. Reclaim \/ UNCHANGED txVars
    BY <1>4 DEF Poll
  <2>2. UNCHANGED config
    BY <1>4 DEF Poll, baseVars
  <2>3. TxTypes'
    BY <2>1, <2>2, RingTypes
  <2>4. RestTypes'
    BY <1>a, <1>4 DEF Poll, AfterPoll, RestTypes, Steps, TimerStates, baseVars, pollVars
  <2> QED BY <2>3, <2>4 DEF TypeInv
<1>5. CASE Backoff
  <2>1. backoff_idx' \in 0 .. config.poll_delay_len - 1
    <3>1. PICK n, i : n = config.poll_delay_len /\ i = backoff_idx
      OBVIOUS
    <3>2. n \in 1 .. DEFAULT_POLL_LADDER_MAX /\ i \in 0 .. n - 1 /\ DEFAULT_POLL_LADDER_MAX \in Nat
      BY <1>a, <3>1, DefaultsAssumption DEF RestTypes, Sound
    <3>3. backoff_idx' \in {0, i} \/ (i + 1 < n /\ backoff_idx' = i + 1)
      BY <1>5, <3>1, <3>2 DEF Backoff, Slower
    <3> QED BY <3>1, <3>2, <3>3
  <2> QED BY <1>a, <1>5, <2>1 DEF Backoff, TypeInv, TxTypes, RestTypes, Steps,
             baseVars, timerVars, txVars, sentVars
<1>6. CASE TestFast
  BY <1>a, <1>6 DEF TestFast, TypeInv, TxTypes, RestTypes, Steps,
     baseVars, timerVars, pollVars, txVars, sentVars
<1>7. CASE DecrementFast
  <2>1. fast_ticks' \in 0 .. WORD_SPAN - 1
    BY <1>a, <1>7, DefaultsAssumption DEF DecrementFast, Decremented, TxTypes
  <2> QED BY <1>a, <1>7, <2>1 DEF DecrementFast, TypeInv, TxTypes, RestTypes, Steps,
             baseVars, timerVars, pollVars, txVars, sentVars
<1>8. CASE Rearm
  <2>1. left' \in Nat
    <3>1. Ladder(backoff_idx) \in Nat /\ config.tx_reclaim_soft_us \in Nat
      BY <1>a, LadderDelay DEF RestTypes, Sound
    <3>2. PICK delay \in Nat : delay = Delay
      BY <3>1 DEF Delay, Smaller
    <3> QED BY <1>8, <3>2 DEF Rearm, Ticks
  <2>2. usedAtArm' \in BOOLEAN
    BY <1>8 DEF Rearm
  <2> QED BY <1>a, <1>8, <2>1, <2>2 DEF Rearm, TypeInv, TxTypes, RestTypes, Steps, TimerStates,
             baseVars, pollVars, txVars, sentVars
<1>9. CASE Stats
  BY <1>a, <1>9 DEF Stats, TypeInv, TxTypes, RestTypes, Steps, TimerStates,
     baseVars, pollVars, txVars, sentVars
<1>10. CASE Exit
  BY <1>a, <1>10 DEF Exit, TypeInv, TxTypes, RestTypes, Steps, TimerStates,
     baseVars, pollVars, txVars, sentVars
<1> QED
  BY <1>1, <1>2, <1>3, <1>4, <1>5, <1>6, <1>7, <1>8, <1>9, <1>10 DEF TaskStep

LEMMA AroundType == ASSUME TypeInv, Next, ~TaskStep PROVE TypeInv'
<1> DEFINE Goal == TypeInv'
<1> SUFFICES Goal
  OBVIOUS
<1>a. TxTypes /\ RestTypes
  BY DEF TypeInv
<1> USE DEF baseVars, timerVars, pollVars, sentVars
<1>1. CASE Tick
  BY <1>a, <1>1 DEF Tick, TypeInv, TxTypes, RestTypes
<1>2. CASE PacketExpires \/ StatsExpires
  BY <1>a, <1>2 DEF PacketExpires, StatsExpires, TypeInv, TxTypes, RestTypes, Signals, TimerStates,
     txVars
<1>3. CASE FrameArrives \/ AskExit
  BY <1>a, <1>3 DEF FrameArrives, AskExit, TypeInv, TxTypes, RestTypes, Signals, txVars
<1>4. CASE HwTransmits
  <2>1. used' = used /\ consumed' \in 0 .. used
    BY <1>a, <1>4 DEF HwTransmits, TxTypes
  <2> QED BY <1>a, <1>4, <2>1 DEF HwTransmits, TypeInv, TxTypes, RestTypes
<1>5. CASE ClientXmit \/ ClientReclaim
  <2>1. Reclaim \/ Xmit
    BY <1>5 DEF ClientXmit, ClientReclaim
  <2>2. RestTypes' /\ UNCHANGED config
    BY <1>a, <1>5 DEF ClientXmit, ClientReclaim, RestTypes
  <2> QED BY <2>1, <2>2, RingTypes DEF TypeInv
<1>6. ASSUME NEW command \in Commands, ClientQueues(command) PROVE TypeInv'
  <2>1. port' \in Seq(Commands)
    BY <1>a, <1>6 DEF ClientQueues, RestTypes
  <2>2. sig' \subseteq Signals
    BY <1>a, <1>6 DEF ClientQueues, RestTypes, Signals
  <2> QED BY <1>a, <1>6, <2>1, <2>2 DEF ClientQueues, TypeInv, TxTypes, RestTypes, txVars
<1> QED BY <1>1, <1>2, <1>3, <1>4, <1>5, <1>6 DEF Next

(* Every variable of the loop keeps its type whatever genet.prefs says: the ladder
   ParsePollDelayList leaves is never empty, the back-off index stays inside it,
   the stack has its least size, and the unlocked accesses to fast_ticks and to the
   descriptor counts never leave their ranges. *)
THEOREM TypeCorrect == Spec => []TypeOK
<1>1. TypeInv /\ [Next]_vars => TypeInv'
  <2>1. TypeInv /\ UNCHANGED vars => TypeInv'
    BY DEF TypeInv, TxTypes, RestTypes, vars, baseVars, timerVars, pollVars, txVars, sentVars
  <2> QED BY <2>1, TaskType, AroundType
<1> QED BY <1>1, TypesImplied, InitType, PTL DEF Spec

(***************************************************************************)
(* How long a consumed descriptor waits.  While the packet timer runs, the *)
(* age and what the timer has to go stay below the delay it was set to,    *)
(* and from its answer to the next setting nothing consumed is left: the   *)
(* poll has reclaimed it, or the unit is not online.                       *)
(***************************************************************************)
Bound == IF usedAtArm THEN Smaller(LongestDelay, Ticks(config.tx_reclaim_soft_us))
                      ELSE LongestDelay
AgeInv ==
    /\ unitState # "ONLINE" \/ pc \in Rearming => age = 0
    /\ packetTimer = "sent" => age + left <= Bound
    /\ packetTimer = "replied" => age <= Bound

(* The longest delay of the ladder is one of its delays, and no other is longer. *)
LEMMA Longest ==
  ASSUME config \in Sound
  PROVE  /\ LongestDelay \in Nat
         /\ \A i \in 0 .. config.poll_delay_len - 1 : Ticks(Ladder(i)) <= LongestDelay
<1> DEFINE N == config.poll_delay_len - 1
           delay == [i \in 0 .. N |-> Ticks(Ladder(i))]
<1>1. N \in Nat
  BY DefaultsAssumption DEF Sound
<1>2. \A i \in 0 .. N : Ticks(Ladder(i)) \in Nat
  BY LadderDelay
<1>3. delay \in [0 .. N -> Nat] /\ \A i \in 0 .. N : delay[i] = Ticks(Ladder(i))
  BY <1>2
<1>4. PICK j \in 0 .. N : \A i \in 0 .. N : delay[i] <= delay[j]
  <2> HIDE DEF N, delay
  <2> QED BY <1>1, <1>3, LargestExists
<1> DEFINE D == {Ticks(Ladder(i)) : i \in 0 .. config.poll_delay_len - 1}
           IsLongest(d) == \A i \in 0 .. config.poll_delay_len - 1 : Ticks(Ladder(i)) <= d
<1>5. \E d \in D : IsLongest(d)
  <2>1. Ticks(Ladder(j)) \in D /\ IsLongest(Ticks(Ladder(j)))
    BY <1>3, <1>4
  <2> QED BY <2>1
<1>6. LongestDelay = CHOOSE d \in D : IsLongest(d)
  BY DEF LongestDelay
<1>7. LongestDelay \in D /\ IsLongest(LongestDelay)
  <2> HIDE DEF D, IsLongest
  <2> QED BY <1>5, <1>6
<1> QED BY <1>2, <1>7

(* genetConfig is read before the unit exists and never again. *)
LEMMA ConfigFixed ==
  ASSUME [Next]_vars PROVE config' = config /\ LongestDelay' = LongestDelay
<1>1. config' = config
  <2> USE DEF baseVars
  <2>1. CASE TaskStep
    BY <2>1 DEF TaskStep, WaitSignals, ServeWrite, ServeOnline, ServeOffline, ServeNothing,
       MessagesServed, Receive, Poll, Backoff, TestFast, DecrementFast, Rearm, Stats, Exit
  <2>2. CASE UNCHANGED vars
    BY <2>2 DEF vars
  <2>3. CASE Next /\ ~TaskStep
    BY <2>3 DEF Next, Tick, PacketExpires, StatsExpires, FrameArrives, HwTransmits, ClientXmit,
       ClientReclaim, ClientQueues, AskExit
  <2> QED BY <2>1, <2>2, <2>3
<1>2. LongestDelay' = LongestDelay
  BY <1>1 DEF LongestDelay, Ladder
<1> QED BY <1>1, <1>2

(* The bound is a number. *)
LEMMA BoundType == TypeInv => Bound \in Nat
<1> SUFFICES ASSUME TypeInv PROVE Bound \in Nat
  OBVIOUS
<1>1. config \in Sound
  BY DEF TypeInv, RestTypes
<1>2. LongestDelay \in Nat /\ Ticks(config.tx_reclaim_soft_us) \in Nat
  BY <1>1, Longest DEF Sound, Ticks
<1> QED BY <1>2 DEF Bound, Smaller

(* Only setting the timer changes the bound. *)
LEMMA BoundFixed ==
  ASSUME TypeInv, [Next]_vars
  PROVE  Bound \in Nat /\ (usedAtArm' = usedAtArm => Bound' = Bound)
<1>1. Ticks(config.tx_reclaim_soft_us)' = Ticks(config.tx_reclaim_soft_us)
  BY ConfigFixed DEF Ticks
<1> QED BY <1>1, BoundType, ConfigFixed DEF Bound, Smaller

(* A step that leaves the timer as it is and does not let the age grow. *)
NotOlder == /\ UNCHANGED <<packetTimer, left, usedAtArm>>
            /\ age' \in {age, 0}
            /\ unitState' # "ONLINE" \/ pc' \in Rearming => age' = 0

LEMMA NotOlderKeeps ==
  ASSUME TypeInv, AgeInv, [Next]_vars, NotOlder PROVE AgeInv'
<1>1. Bound \in Nat /\ Bound' = Bound /\ age \in Nat /\ left \in Nat
  BY BoundFixed DEF NotOlder, TypeInv, TxTypes, RestTypes
<1>2. \A a \in {age, 0} : /\ packetTimer = "sent" => a + left <= Bound
                          /\ packetTimer = "replied" => a <= Bound
  BY <1>1 DEF AgeInv
<1> QED BY <1>1, <1>2 DEF AgeInv, NotOlder

(* The timer is set to a delay within the bound. *)
LEMMA RearmWithin ==
  ASSUME TypeInv, [Next]_vars, Rearm PROVE left' <= Bound'
<1>1. config \in Sound /\ backoff_idx \in 0 .. config.poll_delay_len - 1
  BY DEF TypeInv, RestTypes
<1>2. PICK d \in Nat, L \in Nat, soft \in Nat :
          d = Ladder(backoff_idx) /\ L = LongestDelay /\ soft = config.tx_reclaim_soft_us
  BY <1>1, LadderDelay, Longest DEF Sound
<1>3. Ticks(d) <= L /\ Ticks(d) \in Nat /\ Ticks(soft) \in Nat
  BY <1>1, <1>2, Longest DEF Ticks
<1>4. LongestDelay' = L /\ config' = config
  BY <1>2, ConfigFixed
<1>5. CASE used > 0
  <2>1. usedAtArm' /\ left' = Ticks(Smaller(d, soft))
    BY <1>2, <1>5 DEF Rearm, Delay
  <2>2. Bound' = Smaller(L, Ticks(soft))
    BY <1>2, <1>4, <2>1 DEF Bound, Smaller, Ticks
  <2> QED BY <1>3, <2>1, <2>2 DEF Smaller, Ticks
<1>6. CASE ~(used > 0)
  <2>1. ~usedAtArm' /\ left' = Ticks(d)
    BY <1>2, <1>6 DEF Rearm, Delay
  <2>2. Bound' = L
    BY <1>4, <2>1 DEF Bound
  <2> QED BY <1>3, <2>1, <2>2
<1> QED BY <1>5, <1>6

LEMMA InitAge == Init => AgeInv
<1> SUFFICES ASSUME Init PROVE AgeInv
  OBVIOUS
<1>1. config \in Sound /\ backoff_idx \in 0 .. config.poll_delay_len - 1 /\ left \in Nat
  BY InitType DEF TypeInv, RestTypes
<1>2. left <= LongestDelay /\ LongestDelay \in Nat /\ ~usedAtArm
  BY <1>1, Longest DEF Init
<1>3. Bound = LongestDelay
  BY <1>2 DEF Bound
<1> QED BY <1>1, <1>2, <1>3 DEF Init, AgeInv

LEMMA TaskAge ==
  ASSUME TypeInv, TimersInv, AgeInv, TaskStep PROVE AgeInv'
<1> DEFINE Goal == AgeInv'
<1> SUFFICES Goal
  OBVIOUS
<1>a. [Next]_vars
  BY DEF Next
<1>b. age \in Nat
  BY DEF TypeInv, TxTypes
<1> USE DEF Rearming, timerVars, pollVars
<1>1. CASE WaitSignals \/ MessagesServed \/ Receive \/ Stats
  <2>1. NotOlder
    BY <1>1 DEF WaitSignals, MessagesServed, Receive, Stats, AfterMessages, NotOlder, AgeInv, txVars
  <2> QED BY <1>a, <2>1, NotOlderKeeps
<1>2. CASE ServeWrite \/ ServeOnline \/ ServeOffline \/ ServeNothing
  <2>1. pc' \in {"messages", "hung"} /\ UNCHANGED <<packetTimer, left, usedAtArm>>
    <3>1. CASE ServeOnline
      BY <3>1 DEF ServeOnline, Started, StartFails, TakeMsg
    <3>2. CASE ServeWrite \/ ServeOffline \/ ServeNothing
      BY <3>2 DEF ServeWrite, ServeOffline, ServeNothing, Serve, TakeMsg
    <3> QED BY <1>2, <3>1, <3>2
  <2>2. age' \in {age, 0} /\ (unitState' # "ONLINE" => age' = 0)
    <3>1. CASE ServeOnline
      BY <3>1 DEF ServeOnline, Started, StartFails, ClearRing, Reclaim, AgeInv, txVars
    <3>2. CASE ServeWrite \/ ServeOffline \/ ServeNothing
      BY <3>2 DEF ServeWrite, ServeOffline, ServeNothing, Xmit, Reclaim, AgeInv, txVars
    <3> QED BY <1>2, <3>1, <3>2
  <2>3. NotOlder
    BY <2>1, <2>2 DEF NotOlder
  <2> QED BY <1>a, <2>3, NotOlderKeeps
<1>3. CASE Poll
  <2>1. CASE "packet" \in sigset
    <3>1. packetTimer' = "owned"
      BY <1>3, <2>1 DEF Poll, TimersInv, Unserved
    <3>2. age' = 0
      BY <1>3, <2>1 DEF Poll, AgeInv, Reclaim, txVars
    <3> QED BY <3>1, <3>2 DEF AgeInv
  <2>2. CASE "packet" \notin sigset
    <3>1. NotOlder
      BY <1>3, <2>2 DEF Poll, AfterPoll, NotOlder, AgeInv, txVars
    <3> QED BY <1>a, <3>1, NotOlderKeeps
  <2> QED BY <2>1, <2>2
<1>4. CASE Backoff \/ TestFast \/ DecrementFast
  <2>1. NotOlder
    BY <1>4 DEF Backoff, TestFast, DecrementFast, NotOlder, AgeInv, txVars
  <2> QED BY <1>a, <2>1, NotOlderKeeps
<1>5. CASE Rearm
  <2>1. age' = 0 /\ packetTimer' = "sent" /\ left' <= Bound'
    BY <1>a, <1>5, RearmWithin DEF Rearm, AgeInv, txVars
  <2>2. left' \in Nat
    BY TaskType DEF TypeInv, RestTypes
  <2>3. \A l \in Nat : 0 + l = l
    OBVIOUS
  <2> QED BY <2>1, <2>2, <2>3 DEF AgeInv
<1>6. CASE Exit
  BY <1>6 DEF Exit, AgeInv, txVars
<1> QED
  BY <1>1, <1>2, <1>3, <1>4, <1>5, <1>6 DEF TaskStep

LEMMA AroundAge ==
  ASSUME TypeInv, TimersInv, AgeInv, Next, ~TaskStep PROVE AgeInv'
<1> DEFINE Goal == AgeInv'
<1> SUFFICES Goal
  OBVIOUS
<1>a. [Next]_vars
  OBVIOUS
<1>b. age \in Nat /\ left \in Nat /\ Bound \in Nat
  BY <1>a, BoundFixed DEF TypeInv, TxTypes, RestTypes
<1> USE DEF Rearming, timerVars, pollVars
<1>1. CASE Tick
  <2>1. usedAtArm' = usedAtArm /\ packetTimer' = packetTimer /\ packetTimer = "sent"
        /\ left' = left - 1 /\ left > 0 /\ unitState' = unitState /\ pc' = "wait"
    BY <1>1 DEF Tick
  <2>2. Bound' = Bound /\ age + left <= Bound
    BY <1>a, <2>1, BoundFixed DEF AgeInv
  <2>3. age' = 0 \/ (age' = age + 1 /\ unitState = "ONLINE")
    BY <1>1 DEF Tick
  <2> QED BY <1>b, <2>1, <2>2, <2>3 DEF AgeInv
<1>2. CASE PacketExpires
  <2>1. usedAtArm' = usedAtArm /\ packetTimer' = "replied" /\ packetTimer = "sent" /\ left = 0
        /\ age' = age /\ unitState' = unitState /\ pc' = pc
    BY <1>2 DEF PacketExpires, txVars
  <2>2. Bound' = Bound /\ age + left <= Bound
    BY <1>a, <2>1, BoundFixed DEF AgeInv
  <2> QED BY <1>b, <2>1, <2>2 DEF AgeInv
<1>3. CASE StatsExpires \/ FrameArrives \/ AskExit \/ HwTransmits
  <2>1. NotOlder
    BY <1>3 DEF StatsExpires, FrameArrives, AskExit, HwTransmits, NotOlder, AgeInv, txVars
  <2> QED BY <1>a, <2>1, NotOlderKeeps
<1>4. CASE ClientXmit \/ ClientReclaim
  <2>1. NotOlder
    BY <1>4 DEF ClientXmit, ClientReclaim, Xmit, Reclaim, NotOlder, AgeInv
  <2> QED BY <1>a, <2>1, NotOlderKeeps
<1>5. ASSUME NEW command \in Commands, ClientQueues(command) PROVE AgeInv'
  <2>1. NotOlder
    BY <1>5 DEF ClientQueues, NotOlder, AgeInv, txVars
  <2> QED BY <1>a, <2>1, NotOlderKeeps
<1> QED BY <1>1, <1>2, <1>3, <1>4, <1>5 DEF Next

(* A descriptor the DMA engine is done with is reclaimed within the longest delay
   of whatever ladder the user configured, and within TX_RECLAIM_SOFT_US when
   descriptors were in use as the timer was set: clients waking the task, going
   offline and online, and the wrap of fast_ticks do not put it off. *)
THEOREM ReclaimTimely == Spec => []ReclaimedInTime
<1> DEFINE Inv == TypeInv /\ TimersInv /\ AgeInv
<1>1. Init => Inv
  BY InitType, InitTimers, InitAge
<1>2. Inv /\ [Next]_vars => Inv'
  <2> SUFFICES ASSUME Inv, [Next]_vars PROVE Inv'
    OBVIOUS
  <2>1. CASE TaskStep
    BY <2>1, TaskType, TaskTimers, TaskAge
  <2>2. CASE Next /\ ~TaskStep
    BY <2>2, AroundType, AroundTimers, AroundAge
  <2>3. CASE UNCHANGED vars
    <3>1. TypeInv' /\ TimersInv'
      BY <2>3, AsideTimers DEF TypeInv, TxTypes, RestTypes, Aside, vars, baseVars, timerVars,
         pollVars, txVars, sentVars
    <3>2. NotOlder
      BY <2>3 DEF NotOlder, AgeInv, vars, timerVars, txVars
    <3> QED BY <3>1, <3>2, NotOlderKeeps
  <2> QED BY <2>1, <2>2, <2>3
<1>3. Inv => ReclaimedInTime
  <2> SUFFICES ASSUME Inv, pc # "ended" PROVE age <= Bound
    BY DEF ReclaimedInTime, Bound
  <2>1. age \in Nat /\ left \in Nat /\ packetTimer \in TimerStates
    BY DEF TypeInv, TxTypes, RestTypes
  <2>2. Bound \in Nat
    BY BoundType
  <2>3. packetTimer = "owned" => age = 0
    BY DEF TimersInv, TimersSound, AgeInv
  <2> QED BY <2>1, <2>2, <2>3 DEF AgeInv, TimerStates
<1> QED BY <1>1, <1>2, <1>3, PTL DEF Spec
=============================================================================
