# A verification model of the GENET SANA-II driver

TLA+ models of `genet.device`, the AmigaOS SANA-II driver for the Broadcom GENET
Ethernet MAC of the Raspberry Pi 4 under Emu68. The models follow the C source
(`device*.c`, `unit*.c`, `genet/*.c`); comments in the modules name the function each
part stands for, and `PROJECT.json` maps every definition to source lines.

## 1. The system

| Part | Source | State | Operations | Runs in |
|---|---|---|---|---|
| Device | `device.c` | `base->unit`, `lib_OpenCnt`, `LIBF_DELEXP` | load, open, close, expunge, `createOpener` | opening task, exec |
| Unit life cycle | `unit.c`, `unit_task.c` | `unit->state`, open count, pool, task | `UnitOpen/Configure/Online/Offline/Close`, `UnitTaskStart/Stop` | opening task, unit task |
| Unit task loop | `unit_task.c` | timers, ladder index, fast ticks | drain port, opener messages, receive, periodic reclaim, re-arm | unit task |
| BeginIO, AbortIO | `device_beginio.c`, `device_abortio.c` | a request's list links, type and flags | quick write and read, queueing, aborting | **client tasks** |
| Transmit ring | `genet/bcmgenet-tx.c`, `genet/bcmgenet.c` | `tx_ring`, control blocks, descriptors, `tx_ring_sem` | `bcmgenet_xmit`, `bcmgenet_tx_reclaim`, `init_tx_ring`, `eth_stop` | clients, unit task, DMA engine |
| Receive ring | `genet/bcmgenet.c`, `unit_task.c` | `rx_ring` | `eth_recv`, `free_pkt`, drain and burst loops | unit task, DMA engine |
| Receive dispatch, opener queues | `unit_io.c`, `unit_commands.c` | five queues and a semaphore per opener | `ReceiveFrame`, `CopyPacket`, `CMD_READ`, `S2_READORPHAN`, `S2_ONEVENT`, `ReportEvents`, `CMD_FLUSH` | unit task, clients |
| Multicast, receive filter | `unit_commands_mcast.c`, `genet/bcmgenet.c`, `unit_io.c` | ranges with use counts, address count, `mdfEnabled`, MDF registers | add, delete, `set_rx_mode`, `MulticastFilter` | unit task |
| PHY | `genet/phy.c`, `genet/bcmgenet.c` | `phydev`, the speed in `UMAC_CMD` | reset, autonegotiation, link resolution | unit task |
| Configuration | `runtime_config.c` | `genetConfig` | `LoadGenetRuntimeConfig` | task that loads the device |
| Device tree, GPIO, statistics | `devtree.c`, `genet/bcm_gpio.c`, `unit_commands.c` | counters | read once, copied out | - |

The parts interact as follows. Clients call `BeginIO` in their own context. A `CMD_WRITE`
whose `AttemptSemaphore(tx_ring_sem)` succeeds is transmitted right there, and a
`CMD_READ` that gets its opener's semaphore is queued right there; everything else is
posted to the unit's message port. The unit task serves the port, receives, reclaims on
its timer and starts and stops the MAC, so `tx_ring_sem` and the openers' semaphores are
where the tasks meet, both recursive. A failing transmission reports events, that is,
walks all openers with `tx_ring_sem` held. `AbortIO` takes no semaphore, only `Forbid`.
The DMA engine advances its consumer index without any lock.

What is hard here: the quick paths put client tasks inside code written for the unit
task; unit state is read without a lock and acted upon later; ring and semaphores are
re-initialised by every `S2_ONLINE`; requests must be completed exactly once although a
frame, an event, a flush, going offline and `AbortIO` compete for them; several failure
paths undo less than was done. `PROJECT.json` lists each such hazard at its line.

What makes each part correct:

* transmit ring: exclusion; descriptor accounting; the hardware only ever sees whole
  frames in live buffers; each request completed once, after it was sent; progress;
* opener queues: each request in one place until completed; a waiting reader is not passed
  over; listeners hear of changes; locks balanced and deadlock-free;
* multicast: both filters let the same frames through; counts exact; one stack's leave
  does not cut off another;
* life cycle: open and close always return, failures undo what they did, no use after free;
* receive ring: every frame handed on once and in order, no buffer overwritten while it is
  read, no frame left in the ring;
* unit task loop: each timer request in flight once, consumed descriptors reclaimed in
  time, commands served, polling never stops and returns to its slow pace;
* PHY: every command returns, the MAC runs at the speed that was negotiated, one `phy_device`;
* configuration: whatever `genet.prefs` says, the ladder and the limits are usable.

## 2. Modules

| Module | Role |
|---|---|
| `TxRing` | transmit ring, `BeginIO` and `AbortIO` of writes, reclaims, start and stop, DMA engine |
| `TxQueue` | what the transmit path promises: an ordered queue; `TxRing` implements it |
| `TxRing_proofs` | theorems about `TxRing`: exclusion and buffers, then where a request is and what the engine may read |
| `RxRing` | receive ring, drain and burst loops, receiving DMA engine |
| `RxQueue` | what the receive path promises; `RxRing` implements it |
| `RxRing_proofs` | theorems about `RxRing` |
| `RuntimeConfig` | `genet.prefs` and its conversions; extended by `RxRing` and `UnitLoop` |
| `UnitLoop` | the unit task's loop: signals, both timers, ladder, fast ticks, exit |
| `UnitLoop_proofs` | theorems about `UnitLoop` and about the configuration it starts with |
| `OpenerQueues` | reads, orphan reads, events, flush, `AbortIO`, receive dispatch |
| `OpenerQueues_proofs` | theorems about `OpenerQueues` |
| `SharedTheorems` | lemmas for the proofs: exec's list operations, remainders, induction and loops, sums over finite sets |
| `UnitLifecycle` | load, open, close, expunge; start, loop and end of the unit task |
| `UnitLifecycle_proofs` | theorems about `UnitLifecycle` |
| `Multicast` | membership, `set_rx_mode`, hardware and software filter |
| `Multicast_proofs` | theorems about `Multicast` |
| `Phy` | probing, resetting, negotiating and reading the link over MDIO |
| `Phy_proofs` | theorems about `Phy` |
| `MC...` | model values and the small instance of each |

Several tasks meet in `TxRing`, `OpenerQueues` and `UnitLifecycle`; one task meets the
hardware, its clients and the clock in `RxRing`, `UnitLoop` and `Phy`. A module sees its
neighbours through what it needs of them: for `TxRing` a start succeeds or fails, which is
`Phy`'s business; `RxRing` and `TxRing` take for granted that the unit task polls for ever,
which `UnitLoop` shows (`PollsForever`); `UnitLoop` knows of the rings only whether a frame
waits and how many descriptors are consumed. Names ending in a comment `mutant` are deliberately
wrong variants that show each property can fail; no specification uses them.

### TxRing and TxQueue

State: the fields of `bcmgenet_tx_ring` under their own names, `cb` (the request of each
control block), `desc` (what each used descriptor describes), the TDMA registers,
the semaphore (`semInit`, `owner`, `nest`), `unit->state`, whether `txbuffer` is
allocated, the port, and per task a step, the request in hand and the consumer index it
has read. `due` counts `BeginIO` calls minus completions per request; `aborted` remembers
which requests `AbortIO` replied while they were on no list. `behind` is what the links of the
request in the unit task's hand still name, `lost` remembers what a second `Remove` has cut
off the port, and `wild` that one wrote through links that lead off the port.

Each action is a stretch of code with no access to shared state inside that another task
could interleave with: `BeginIOQuick`/`BeginIOQueue` (AttemptSemaphore or PutMsg),
`EnterReclaim` (semaphore and register read) and `Retire` (the loop) for
`bcmgenet_tx_reclaim`, `RejectOffline`/`AcceptWrite` for `Do_CMD_WRITE`'s look at the state,
`XmitEnter`, `XmitHeader`, `XmitBody`, `XmitPublish`, `XmitFail` for `bcmgenet_xmit`,
`CmdFlush`, `CmdOffline` and the steps of `eth_stop`, `CmdConfigure`, `CmdOnline` and
the steps of `eth_start`. `HwTransmit` is the engine.

`AbortIO` takes a request out of the port (`AbortQueued`), or replies one that the unit task has
taken but not yet put on the ring (`AbortTaken`), which still looks queued until
`bcmgenet_xmit` clears its `ln_Pred`. In that case it also calls `Remove` a second time
(`device_abortio.c:26`). exec's `GetMsg` left the node's own links as they were: one names the
port, the other the message that was second when `GetMsg` ran. The second `Remove` makes these two
neighbours, so the port afterwards begins with that message, or is empty if there was none, and
whatever else is on the port is lost (`CutPortAt`): nobody will find it, unless `AbortIO`
of it comes (`AbortLost`). When the message that was second has itself left the port, `Remove`
writes into nodes of other lists; the model then sets `wild` and stops, since what those
writes hit is not among its state.

Abstractions: contents, lengths (but for zero) and statistics are gone; a `DMACopyFromBuff`
buffer and a copied one are alike; the descriptor of a freed slot is forgotten. A request
that was replied while a control block still points at it (after a failed copy), or while the
unit task goes on with it (`aborted`), is not sent again: the second `ReplyMsg` corrupts exec's
lists, which the model does not follow; `OnePlace` and `WaysToLose` speak of all others. A
zeroed semaphore cannot be obtained by anyone: `StopReclaim` after a start that failed before
`InitRing` never happens, which is the hang of `unit.c:121` and `unit.c:136`. A failing allocation of
the control blocks (`bcmgenet.c:281`), after `InitSemaphore`, is left out.

`QuietRestart` restricts the environment: no client is inside `BeginIO` while `S2_ONLINE` is
served. It is needed because `bcmgenet_init_tx_ring` calls `InitSemaphore` each time: a client
that is inside then loses its lock, and exclusion with it. Before the first start the
semaphore does not exist and nobody can be inside, so `txring_liveness` does without it.

### RxRing and RxQueue

State: producer index and buffers as the engine sees them, the driver's `rx_cons_index`, and the
locals of `ProcessReceive` (`loop` is the drain or the burst loop, `step` the place in its
body, `iter`, `streak`, activity). `RxArrive` is the engine; `RecvFrame`, `DrainEnds`,
`BurstEmpty`, `HandOver` and `FreePkt` are the pieces of one pass; `RxRestart` takes over the
hardware's index as `init_rx_ring` does. A descriptor whose length does not exceed the buffer offset
(`ShortFrames`) makes `eth_recv` return no frame, so nobody frees it and the
ring stalls: `FramesDelivered` excuses exactly this. The `rx_overruns` statistic, the
status bits and a failing allocation of control blocks are left out.

### RuntimeConfig and UnitLoop

`RuntimeConfig` turns a file (a sequence of key and words) into the configuration: defaults,
`StrToLong`'s answer for a word without digits, the truncation to each field's width, the lower
bounds, and the list of delays, which keeps its default when no delay is usable. `DefaultsAssumption`
says what `genetconf.h`'s values have in common (a default ladder that fits and is not
empty, defaults that fit their fields), `PrefsAssumption` that a file is a finite sequence of lines,
each with a word at least; a `UWORD` has `WORD_SPAN` values.

`UnitLoop` follows `UnitTask` from `Wait` to the end of the pass: the signals, the port drained to
the end, `ProcessReceive` (one step; `RxRing` has its inside), the answer of the packet timer with
reclaim, back-off along the ladder, fast ticks, soft cap and re-arming, the statistics timer
and the exit with `AbortIO` and `WaitIO`. `ServeOnline` starts the MAC or fails: before the
semaphore is initialised or after it, and then `eth_stop` reclaims the ring as it was left
(`StartFails`). If the semaphore never was initialised (`ringReady`), the task hangs there for good
(`Hung`): no command is served, no timer answered. As in `TxRing`, a failing allocation of the control
blocks is left out. `TestFast` and `DecrementFast` are two steps, because
a client's reclaim may clear the ticks in between and the `UWORD` wraps. Clients queue
commands, write and reclaim quickly and signal the exit at any moment. Time passes in ticks
and only while the task waits; a delay takes at least one. `usedAtArm` remembers whether
descriptors were in use when the timer was set. Endless traffic could keep the drain
loop from ending; the model leaves that to the hardware's speed. Opener messages are in
`UnitLifecycle`.

### OpenerQueues

State: per opener five queues and its semaphore, the port, `tx_ring_sem`'s owner, the unit
state, per task a step, a request in hand, and the openers that `ReportEvents` or
`Do_CMD_FLUSH` still has to visit; the frame being dispatched with the openers left and the
orphan flag. Actions are the sections under one opener's semaphore. `ReadAccepted` and
`ReadAppend` split `Do_CMD_READ` between the look at the unit state and the queueing;
`CopyFails` reports events with the opener's semaphore held (fallback path) or not
(fast path, orphans), as the code does.

`late` records which reads were queued after the frame arrived. `AbortIO` tells by a request's type
and links whether it waits, and both still say so of a request that `GetMsg`, `RemHead` or
`Remove` has taken off its list. For the one in the unit task's hand (`AbortInHand`) the reply is
the first of two, so `OnePlace` speaks of it no more (`astray`); and the second `Remove` joins the two
neighbours the request once had (`near`, `Joined`). If both are still on the list, in that order, what
was queued between them since is cut off and joins `lost`, where the reads are that a packet
filter refused; those are on no list and never answered. If one of them has left the list,
`Remove` writes into other lists' nodes: `wild` is set and the model stops, as nothing in it says
what is there. The same may happen when a lost request is aborted (`AbortLost`), whose links are
not followed. A start that fails and `S2_OFFLINE` end in `EthStop`, which waits for `tx_ring_sem`, and
for ever if that was never initialised (`Hung`). Unsupported event masks, error kinds other
than one `ERROR` event, and adding and removing openers are not modelled (the list is fixed).

### Multicast

State: the range list with use counts, `multicastCount` modulo `COUNT_SPAN`, `mdfEnabled`, the
promiscuous bit, the MDF entries and how many are enabled, the station address, and
what each stack holds. `SetRxMode` is `bcmgenet_set_rx_mode` with the unsigned count stored
in a signed `int`; `EthStart` ends with the link speed written over the register that holds
`CMD_PROMISC`. `cutOff` remembers that the last start needed promiscuous mode and no range has changed since:
then the MDF is off, the bit is clear, and nothing that was asked for gets through. `ReceivedAsAsked` says
that each wanted address is received exactly when `cutOff` is false. A failed allocation changes nothing and is not an action; a failed
start may leave the MAC reset. Addresses are `0 .. 15`: unicast below `FirstGroup`, then groups,
the last one broadcast. Ranges whose lower bound exceeds the upper are
not enumerated; the theorems about counts and filters assume their absence by name (`RangesFit`).
Stacks delete only what they added; `CloseStack` leaves its ranges behind, as `closeLib` does.

### UnitLifecycle

State: what exists (the device structure, the unit, its pool, the packet buffers, each
program's opener, the opener port), `lib_OpenCnt` and `LIBF_DELEXP`, `unit_OpenCnt`, `unit->openers`, the
messages on the opener port, the unit task's step and signals, `unit->task`, and each
program's step. `OpenDevice` and `CloseDevice` run under `Forbid`, so that each is one action
up to its first `Wait` (`FirstOpen`, `OpenAgain`, `LeaveOthers`, `LeaveQuietly`, `StopUnit`) and one
after it (`Started`, `Joined`, `Left`, `Stopped`). The unit task's actions are the phases of
`UnitTask`: `Setup` or `SetupFails`, `WakeUp`, `Commands`, `OpenerMsg`, `Received`, `Again`, `Exit`,
`Gone`. `Commands` may take the unit on or off line, with the buffers; the last close
takes it off line from its own task (`StopMac`). `Load` is `initFunction`; `Expunge` frees the
device when nobody has it open and puts itself off otherwise, and the last close runs what was
put off.

Every step of a load, an open, a close and a stop may fail (`Failures`), leaving behind what the code
leaves behind: a unit that counts as open without a task or a port, an opener nobody
frees, a unit freed under its users, a NULL timer request, a message whose reply is awaited at a port that is
not there (`ReplyPort`). `lost` records that memory was used
that is not there; what happens then is undefined and the model stops. `failed` remembers what
failed, and `"expunge"` when an expunge met an open that was still waiting in `UnitOpen`.
`Queries` are programs whose request is an `IOStdReq` and that get no opener.

Assumptions on the programs: nobody opens while the first open or the last close is waiting
(`Calm`; the code protects neither), and with `Overlap = FALSE` the last close does not come
while another close waits. `SANA2OPF_MINE` is only checked against opens that exist; a
refused open changes nothing and is not an action.

### Phy

State: `unit->state`, `unit->phydev`, the `phy_device`, the speed in `UMAC_CMD`, the access the
task is at with its locals, the chip and the partner. A register is the set of its bits
that are set; a failed access reads as all ones, with the sign. One action is one MDIO
access with the code up to the next one; each may time out, a write may then have reached the
chip or not. `Negotiate`, `ResetEnds` and `Replug` are the chip and the cable. What the chip resolves to
is IEEE 802.3 annex 28B, stated independently of `genphy_parse_link`'s way to it.
A probe or a start that fails ends in `eth_stop`, which reclaims the transmit ring before it destroys the
PHY (`Reclaim`): if no start has yet reached `bcmgenet_init_tx_ring`, the task is `"hung"` there for good, with
its `phy_device` still allocated after a failed start, gone after a failed probe.
`LinkAsNegotiated` speaks of the MAC's speed and of the duplex in the `phy_device`.
`bcmgenet_adjust_link` tells the MAC the speed only and never sets `CMD_HD_EN`, so the MAC is at full
duplex even where half duplex was negotiated.
Forced mode, 1000BASE-X and the early return of `genphy_update_link` are dead code here
(`phy.c:330`). Left out: RGMII delays and the MDIO register's bit layout.

## 3. Runs

| Run | Shows | Bounds |
|---|---|---|
| `txring_safety` | `TypeOK`, `SemaphoreExclusion`, `Accounting`, `RingInStep`, `FramesWhole`, `BuffersLive`, `OnePlace`, `WaysToLose`, refinement of `TxQueue` | 2 clients, unit task; a normal, a raw and a multicast request, late abort of the normal and the multicast one; 4 slots; 2 sessions; clients symmetric |
| `txring_liveness` | `WritesComplete`, `StopReturns`, with failing copies and starts | 2 clients; a normal, a raw and an empty request; 1 session |
| `txring_offline_cancels` | **violated**: S2_OFFLINE does not cancel what is on the ring | all four kinds of request, 1 session |
| `rx_receive` | `RxTypeOK`, `WindowHolds`, refinement of `RxQueue`, `FramesDelivered` | 2 slots, indices modulo 4 from 3; 2 frames and a short one; 3 preference files |
| `unit_loop` | `TypeOK`, `TimersSound`, `ReclaimedInTime`, `CommandsServed`, `PollsForever`, `BackoffSettles` | ladder of 2, ticks modulo 3, 1 descriptor, 2 commands, 1 write; 2 preference files; starts may fail |
| `openers_races` | `TypeOK`, `OnePlace`, `NoReaderPassedOver`, `EventsReported`, `LockDiscipline`, `TasksReturn` | 2 openers, a reading and a writing client, 4 requests (fast-path and 802.3 read, orphan read, event), late abort of the fast-path read; 3 types, frames of 2 |
| `multicast_filter` | `TypeOK`, `ReceivedAsAsked`, `MembershipExact` | 2 stacks, 3 ranges, MDF of 5, count modulo 32 |
| `multicast_promiscuous` | **violated**: promiscuous mode is lost in every start | the same |
| `lifecycle_close` | `TypeOK`, `NothingFreedInUse`, `OpenersListed`, `NothingLeft`, `WildOnlyAfterFailure`, `CallsReturn` | 2 programs with an opener and 1 without; every failure, a missing reply port included; no overlapping last close |
| `lifecycle_last_user` | **violated**: overlapping closes both see a count of zero | the same, no failures, overlapping closes |
| `phy_start` | `TypeOK`, `LinkAsNegotiated`, `DeviceOwned`, `CommandReturns` | a gigabit and a 100 Mb/s chip in any state firmware may leave, 4 partners or no cable, 2 polls of autonegotiation, 1 of reset |
| `phy_device` | **violated**: `S2_ONLINE` after a failed start has no `phy_device` | the same |

Why the bounds are enough. The ring code depends on sizes only through wrap-around and
through full and empty: with 4 slots two frames of two descriptors meet the full test,
`INDEX_SPAN = 8` keeps the index range a proper multiple of the ring, and starting
at index 6 makes the index wrap after one frame and the slot offset differ from zero. The
receive ring wraps after one frame and fills up with two. The two clients of `txring_safety` differ in
nothing but their names and it checks no liveness, so that run takes them as symmetric. A threshold of 3 makes the quick path
both reclaim and skip. Two clients and the unit task are all roles twice; two sessions
show what one leaves to the next. The empty request, which `bcmgenet_xmit` refuses like a full ring,
is part of `txring_liveness`. The theorems below remove these bounds for all
safety properties and for both refinements. In `UnitLoop` one descriptor is what it takes to be in use, consumed and
reclaimed late, and three fast ticks wrap within the run; the default file has no fast
ticks, the other asks for some. In `Multicast` the three ranges overlap and share ends, fill the MDF exactly and
exceed it. In `OpenerQueues` two openers are needed for lock order and for delivery to
several, one request of each kind covers each queue, and one client can hold the ring
semaphore while the other holds an opener's. The fast-path read is the one `AbortIO` may meet in the
unit task's hand: its second `Remove` then cuts the other requests off the port. A cut on an opener's own
queue takes a third read on that opener and many times the states; there the proofs
stand alone. In `UnitLifecycle` three programs are what
it takes to have one open, one closing and one opening; the query covers the paths without
an opener. In `Phy` the gigabit chip lacks half duplex and the other 1000BASE-T; the partners
share no, one or several modes with each, and the best common mode is 1000 or 100 Mb/s full or 100 Mb/s
half duplex, so the ways through `genphy_parse_link` occur; more polls only repeat a step.

Bounds in guards: `MaxSessions`, `LateAborts`, `MaxUses`, `MaxCommands`, `MaxWrites` and the fixed sets
of requests (a request is not sent again before it is back). Three runs do not check deadlock.
`txring_liveness`: after a first start that fails the code hangs for good on a
semaphore that was never initialised (`unit.c:136`, `unit.c:121`). `lifecycle_close`: it stops after memory was
misused or the set-up of the unit task has failed, which hangs the opening task.
`unit_loop`: the task ends, or hangs in the clean-up of a start that failed too early.

Fairness. `TxRing`: weak fairness of every client's steps, of the unit task's started
work and of the DMA engine, because exec schedules every ready task and the engine is enabled;
strong fairness where a task waits for a semaphore (`XmitEnter`, `StopReclaim`,
`PeriodicReclaim`), because exec hands a released semaphore to the first waiter, and of
`GetMsg` and `PeriodicReclaim` because each pass of the loop looks at the port and the timer is
always re-armed. That is what `UnitLoop` shows, from weak fairness of the task and of the engine and
strong fairness of time and of the packet timer's answer: however often clients and the
statistics timer (15 s) wake the task, time goes on. `RxRing`: weak fairness of
starting a poll and of going on with it, for the same reason. `OpenerQueues`: strong fairness of the
unit task's work and of each client's steps; no client has to call and no frame
has to arrive. `UnitLifecycle`: weak fairness of the unit task, whose timer always wakes it,
and of each program that has been signalled or replied to; `UnitTaskStop` polls
`unit->task` on its own timer. `Phy`: weak fairness of the task alone, since each access and each
wait is bounded; nothing is assumed of chip or partner.

## 4. Theorems

The theorems hold for every value of the constants that the modules' named assumptions allow:
every set of clients, requests and frames, ring and index size, threshold,
configuration, failure switch and number of sessions. Where `AbortIO` has damaged lists
beyond what a model follows (`wild`), the model has stopped, and nothing is said of what comes after.

| Theorem | Statement | Argument |
|---|---|---|
| `TxRing_proofs!TypeCorrect` | `Spec => []TypeOK` | `TypeOK` is inductive |
| `TxRing_proofs!Exclusion` | `QuietRestart = TRUE => (Spec => []SemaphoreExclusion)` | `ExclInv` |
| `TxRing_proofs!AccountingHolds` | `QuietRestart = TRUE => (Spec => [](Accounting /\ HwWindow))` | `AccInv` |
| `TxRing_proofs!BufferLifetime` | `QuietRestart = TRUE => (Spec => []BuffersLive)` | `BufInv` |
| `TxRing_proofs!RingStaysInStep` | `Quiet => (Spec => []RingInStep)` | `RingInv` |
| `TxRing_proofs!WholeFrames` | `Quiet => (Spec => []FramesWhole)` | `FrameInv` |
| `TxRing_proofs!RequestsInOnePlace` | `Quiet => (Spec => []OnePlace)` | `PlaceInv` |
| `TxRing_proofs!RequestsLostInTwoWays` | `Quiet => (Spec => WaysToLose)` | `PlaceInv` |
| `TxRing_proofs!RingRefines` | `Quiet => (Spec => TxQ!Spec)` | step simulation under `RefineInv` |
| `RxRing_proofs!RxTypeCorrect` | `RxSpec => []RxTypeOK` | `RxTypeOK` is inductive |
| `RxRing_proofs!RxWindow` | `RxSpec => []WindowHolds` | `RxInv` |
| `RxRing_proofs!RxRefines` | `RxSpec => RxQ!Spec` | step simulation under `RxInv` |
| `UnitLoop_proofs!TypeCorrect` | `Spec => []TypeOK` | loop induction, then `TypeInv` |
| `UnitLoop_proofs!TimersCorrect` | `Spec => []TimersSound` | `TimersInv` |
| `UnitLoop_proofs!ReclaimTimely` | `Spec => []ReclaimedInTime` | `AgeInv` |
| `OpenerQueues_proofs!QueueTypeCorrect` | `Spec => []TypeOK` | `QueueInv` |
| `OpenerQueues_proofs!RequestsInOnePlace` | `Spec => []OnePlace` | `QueueInv` |
| `OpenerQueues_proofs!SemaphoresPaired` | `Spec => []LockDiscipline` | `QueueInv` |
| `OpenerQueues_proofs!ReadersServed` | `Spec => []NoReaderPassedOver` | `QueueInv`, `ReaderInv` |
| `OpenerQueues_proofs!ListenersServed` | `OneListener => (Spec => []EventsReported)` | `QueueInv`, `ListenerInv` |
| `Multicast_proofs!TypeCorrect` | `Spec => []TypeOK` | `IInv` |
| `Multicast_proofs!JoinedKept` | `Spec => []JoinedStaysListed` | `IInv` |
| `Multicast_proofs!MembershipKept` | `RangesFit => (Spec => []MembershipExact)` | `IInv`, `CountInv` |
| `Multicast_proofs!FilterCorrect` | `RangesFit => (Spec => []ReceivedAsAsked)` | `IInv`, `CountInv`, `FilterInv` |
| `UnitLifecycle_proofs!LifeTypeCorrect` | `Overlap = FALSE => (Spec => []TypeOK)` | `LifeInv` |
| `UnitLifecycle_proofs!LifeNothingFreed` | `Overlap = FALSE => (Spec => []NothingFreedInUse)` | `LifeInv` |
| `UnitLifecycle_proofs!LifeOpenersListed` | `Overlap = FALSE => (Spec => []OpenersListed)` | `LifeInv` |
| `UnitLifecycle_proofs!LifeNothingLeft` | `Overlap = FALSE => (Spec => []NothingLeft)` | `LifeInv` |
| `UnitLifecycle_proofs!LifeWildOnlyAfterFailure` | `Overlap = FALSE => (Spec => []WildOnlyAfterFailure)` | `LifeInv` |
| `Phy_proofs!PhyTypeCorrect` | `Spec => []TypeOK` | `TypeOK` with `DevInv` |
| `Phy_proofs!PhyDeviceOwned` | `Spec => []DeviceOwned` | `DevInv` |
| `Phy_proofs!LinkCorrect` | `Spec => []LinkAsNegotiated` | `DevInv`, `AbleInv`, `FreshInv`, `ReadInv` |

`Quiet` stands for `QuietRestart = TRUE /\ CopyMayFail = FALSE`. `OneListener` says that no opener
listens for one event with two requests: `ReportEvents` answers the first listener of each opener
and leaves the others waiting (`unit_commands.c:73`). `RangesFit` says that every range of groups has its
lower bound first and that all ranges together hold fewer than 2^31 - 2 addresses; the code checks neither,
and counts modulo 2^32 in a field that `set_rx_mode` reads as a signed one.

`ExclInv` adds to exclusion which steps a client or the unit task can be at (`Roles`) and that
no client is inside while the ring is re-initialised (`ClientsOut`), which is where
`QuietRestart` enters. `AccInv` adds to accounting and the hardware window what each task at a
given step has reserved: at `header` and `body` there is room for the descriptors still to
come, and a reader of the consumer index holds a value between the driver's index and
the hardware's. Exclusion makes those claims stable: a task that changes the ring
is the only one that holds any. Without them the bare statement is not inductive: a
publish from a state with one free descriptor would break it. `BufInv` says the same
about the buffers: while a task is inside `bcmgenet_xmit`, or DMA is on, the unit cannot
be past the reclaim of `eth_stop`. `AbortIO` touches nothing these invariants speak of.

`RingInv` says that both pointers follow the driver's indices, with `write_ptr` one ahead while the one
task inside is between `bcmgenet_get_txcb` and the write of the descriptor, and that only the slots
from `clean_ptr` up to `write_ptr` hold a request; so a slot that is taken is free, and one that is
reclaimed is the one the hardware consumed. A failed copy leaves `write_ptr` ahead for
good, hence `CopyMayFail = FALSE`. `PlaceInv` adds `OnePlace` itself: each step but the
re-initialisation of the ring changes what is due of a request and the number of its
places alike (`Conserved`), where removing from the port and flushing it are about counts of a
list, and the ring and the tasks' hands about sizes of finite sets (`Clients` is finite). A late `AbortIO`
leaves the end of the port and puts what was before it among the `lost`, which stay due and
have no place; on the port each request stands once, so none is both cut off and kept.
`FrameInv` describes every descriptor of the window and not only those the engine may see: a
header is followed by the body of its request, or it is the last one and a task
still owes its body, and then `hwProd` stops before it.

`RingRefines` reads the queue off the window of control blocks: `Held` keeps the requests among the
first `n` cells, and induction over `n` gives what the simulation needs (`HeldFacts`, `HeldSplit`,
`HeldAppend`). A descriptor that is written adds a cell, a header's without a request and a body's
with the one accepted; a reclaim takes cells away at the front, which completes their requests and no
other's; the engine passes one cell; a control block filled in early lies outside the window.
That a request is accepted once while it is on the ring is not in `OnePlace`, which does not speak
of the ones AbortIO took: `HeldOnce` adds that such a request is due no more and still in one place at
most, because it is not sent again.

`RxInv` adds to `WindowHolds` that every slot in the window holds a frame (`Occupied`) and how `loop` and
`step` go together. The refinement reads the queue off the window: an arrival appends
because a slot outside the window is a new one modulo the ring, `HandOver` takes the head, `FreePkt`
moves the window without changing the queue, start and stop empty it.

`TimersInv` adds to `TimersSound` where an answer is noticed: signals are only set while the task
waits and are taken at once, and an answered request stays answered until the place in
the pass that serves it. Between the answer and the re-arming the task holds the packet timer, everywhere
else it is with `timer.device` or answered, and it is not answered at the exit.

`QueueInv` replaces the counting of `OnePlace` by what is stable. `Sole` says of every request,
astray or not, that it is on at most one list, once, or in one task's hands; `Claim` that it is
somewhere exactly while it is due, unless it is lost, or astray. For the removal of a node to remove all
of a request, a list must not hold one twice and a queue only requests of its own
opener (`Lists`); for a task to let go of exactly what it took, its step must tell whether it
has a request in hand (`Roles`). Each step then moves one request, or flushes a whole list, and
leaves the others aside (`Moved`, `Flushed`). `AbortIO` removes a request from whichever list it is
on, and when it is in the unit task's hands it goes astray and what lies between its former neighbours is
lost; that the list left is still without duplicates and keeps its order comes from `Joined` being
made of two ends of the old one, which do not overlap (`Joints`). `Tracked` types the bookkeeping. `Locks` ties each semaphore to the one
task whose step holds it, in both directions; that the copy of an orphan read holds none
needs `Offering`: the unit task asks orphan readers only while the flag is set.

`ReaderInv` is about one frame's way through the openers. `Sorted`: a read waits on the queue of its own
packet type, so the search of one queue finds whatever wants the frame. `Passing`: while the frame may yet
count as an orphan, an opener either is still to be asked or is clear, that is, no read that wants
the frame waits there but those queued after it arrived (`late`). `ListenerInv` says the same of
events: of an opener with somebody still waiting for the state the unit is in, the report of that
very change is under way and has the opener ahead (`Hearing`); only listeners are on the
event queues, and the unit goes through `eth_stop` only when already off line (`Listening`).

`AgeInv` bounds, while the packet timer runs, the age of a consumed descriptor plus the time left by the
delay the timer was set to, and says that where the task re-arms nothing consumed is left. The
running delay is at most the longest of the ladder, and at most the soft cap while descriptors
were in use. That the ladder is not empty, that no step leaves it and that every
delay and limit fits its field is proved of every file: the conversions are loops over
the lines of a file and the words of a line, and `SharedTheorems` has the induction they take, from the least
iteration at which a fact fails.

`AbleInv`, `FreshInv` and `ReadInv` carry the link from the chip to the MAC. Able: once `phy_config` has
read them, the driver believes in exactly the chip's abilities, and a unit is on line only between commands.
Fresh: a completed negotiation was made with what is advertised now, except while `phy_config` is
changing it, and then it remembers to restart the negotiation. Read: the registers read so far, in the
locals of the step the task is at, all belong to the one completed negotiation, and the speed and duplex
made of them are those of the best common mode. After a failed access none of this is claimed until a
reset has ended.

`IInv` of `Multicast` says that the list holds a range once (`Distinct`) and that the uses of a range
are at least what all stacks together hold of it (`Owed`), a sum over a finite set; a stack that closes
only lowers that sum. `CountInv` says that the count is the number of addresses of the listed ranges, which
`RangesFit` keeps below the width, and `FilterInv` that a unit on line has exactly the list in the MDF,
or has the MDF off, and then is cut off exactly if the promiscuous bit is clear too. `ReceivedAsAsked` follows from both for every address.

`LifeInv` sorts the states in which no memory was misused into five modes: `Quiet`; `Opening` for the
first program; `Busy`; `Closing` for the last one; and `Stray`, what a failed first open leaves, a unit
that counts one user too many and has no task, to which only programs without an opener
get through. The open counts are counts of programs: `unit_OpenCnt` of those that are opening or
open, `lib_OpenCnt` of those whose open was counted and whose close was not. So the bare properties become
inductive: the last close finds `unit_OpenCnt = 1`, hence nobody else opening or open, and
without overlapping closes nobody waiting for a reply either; a reply to a close
finds the unit busy, hence a count above zero. `Overlap = FALSE` is used in `StopUnit` and nowhere
else, and run `lifecycle_last_user` shows that it is needed. Every message on the
opener port is from the one program that waits for its reply (`Messages`), and the list holds
every announced program once (`Once`, `OnList`).

`DevInv` says at which steps `unit->phydev` is set: not while the PHY is created, although the
structure exists; always while it is configured and the link is read; and never on an
unconfigured unit, which is why a new one cannot overwrite an old one. Types and `DevInv` are
proved together, as each failing access needs both.

Model-checked only: everything about liveness (fairness and ENABLED are outside the proof system). `RingInStep`, `FramesWhole` and `OnePlace` with failing
copies are neither proved nor true as they stand.

## 5. What the models found

With a run that shows it:

* `S2_OFFLINE` answers what is queued, but a write still on the ring is neither
  completed nor cancelled and is forgotten by the next start (`unit_commands.c:354`).
* `UnitClose` returns the open count as it is after it has waited; if another program
  closes as the last one meanwhile, both closers see zero, and the first frees the unit under
  the running unit task (`device.c:265`).
* Each start sets the receive mode and then writes the link speed over the same register, so
  `CMD_PROMISC` is cleared (`genet/bcmgenet.c:375`).
* `eth_stop` destroys the `phy_device` and only `S2_CONFIGINTERFACE` makes one: the next
  `S2_ONLINE` calls `phy_startup(NULL)` (`genet/bcmgenet.c:538`).

Met while modelling, without a run of their own; the models contain the behaviour and the
properties say how far it reaches:

* transmit: a failed `CopyFromBuff` leaves `write_ptr` ahead and a stale control block
  (`bcmgenet-tx.c:181`; the count itself stays right, as proved, and `WritesComplete` excuses it); `InitSemaphore` on a
  semaphore a client may hold (`bcmgenet.c:277`); a failed first start hangs on the
  uninitialised semaphore (`unit.c:136`, after a failed probe `unit.c:121`), and with the unit task every
  command after it: `StopReturns`, `CommandReturns`, `CommandsServed` and `TasksReturn` name this as the one
  exception;
* openers: reads refused by a packet filter are never replied (`unit_io.c:70`); late aborts complete twice
  (`device_abortio.c:24`) and remove twice, which cuts other requests off the port or an opener's queue for
  good or writes through stale links into other lists (`device_abortio.c:26`; also in `TxRing`); `ReportEvents` serves one listener per opener, its comment says every
  (`unit_commands.c:73`; `EventsReported` is checked with one listener per opener);
* life cycle: a failed first open leaves the open count at 1, so the next open writes to a missing
  port (`unit.c:73`); a failed opener allocation frees the shared unit (`device.c:226`); a failed
  set-up of the unit task hangs the open (`unit_task.c:84`); the last close frees the buffers while
  the unit task may be receiving (`unit.c:161`); the open count of the device is raised only after
  `UnitOpen` has waited, so an expunge or a last close meanwhile frees the device under it
  (`device.c:240`); `initFunction` without `utility.library` removes the device from a list it
  is not on (`device.c:113`); `UnitTaskStop` goes on with a timer request it failed to get
  (`unit_task.c:320`);
* multicast: a range of 2^32 groups counts as none (`unit_commands_mcast.c:86`);
* loop: a client's reclaim between test and decrement wraps the fast ticks (`unit_task.c:189`;
  `BackoffSettles` holds all the same); the soft cap, an upper bound in the repository's README, is applied when
  the timer is set, so a quick write after that waits for the running delay (`unit_task.c:200`); a
  short descriptor stalls the receive ring (`unit_task.c:31`);
* PHY: a failed MDIO access counts as a finished negotiation and a link (`phy.c:356`); a
  failed read of `CTRL1000` resolves to whatever the partner can do; flags of a new
  `phy_device` are read before they are written (`phy.c:552`); half duplex is never programmed into the MAC.

## 6. What is left

A composition of `OpenerQueues` and `UnitLifecycle`: a client that walks `unit->openers` to
report an error while the unit task removes the opener; opens during a first open or
a last close.

## 7. Not modelled

Device tree and GPIO: straight-line reads and writes without state, seen as opens and
probes that succeed or fail. UniMAC pause settings, receive coalescing and
buffer sizes: register writes nothing here depends on. Statistics and device
queries: copied out, nothing depends on them. Headers and stubs: no behaviour.
Of the modelled parts: a client walking `unit->openers` against an opener that leaves, and
opens that come while the first open or the last close waits (`Calm`).
