------------------------------- MODULE RxRing -------------------------------
(***************************************************************************)
(* The receive ring of the GENET driver: bcmgenet_gmac_eth_recv and        *)
(* bcmgenet_gmac_free_pkt, the ring's set-up in genet/bcmgenet.c, and the  *)
(* drain and burst loops of ProcessReceive in unit_task.c.  The DMA engine *)
(* (external) fills buffers at any moment while the unit task reads them.  *)
(***************************************************************************)
EXTENDS RuntimeConfig

CONSTANTS
    Frames,         \* frames the wire may bring
    ShortFrames,    \* those whose descriptor length does not exceed RX_BUF_OFFSET
    NoFrame,        \* an empty buffer
    RX_DESCS,       \* descriptors in the ring (256 in the code)
    INDEX_SPAN,     \* range of the 16 bit ring indices, a multiple of RX_DESCS
    RxStart         \* values RDMA_PROD_INDEX may have when the unit first starts

ASSUME RxRingAssumption ==
    /\ RX_DESCS \in Nat \ {0} /\ INDEX_SPAN \in Nat
    /\ INDEX_SPAN % RX_DESCS = 0 /\ INDEX_SPAN >= 2 * RX_DESCS
    /\ RxStart \subseteq 0 .. INDEX_SPAN - 1

ASSUME FrameAssumption == ShortFrames \subseteq Frames /\ NoFrame \notin Frames

VARIABLES
    config,         \* genetConfig, loaded before the unit exists
    rxProd,         \* RDMA_PROD_INDEX
    rx_cons_index,  \* the driver's index, always the one in RDMA_CONS_INDEX
    rxBuf,          \* the frame in a slot's buffer
    rxDma,          \* RDMA DMA_EN with the MAC's receiver on
    loop, step,     \* ProcessReceive: which loop, and where in its body
    rxActivity, iter, streak,       \* its locals
    delivered       \* the frame ReceiveFrame was given last

rxLocals == <<rxActivity, iter, streak>>
rxVars == <<config, rxProd, rx_cons_index, rxBuf, rxDma, loop, step, rxLocals, delivered>>

RxSlots == 0 .. RX_DESCS - 1
RxIndex == 0 .. INDEX_SPAN - 1
RxSlot(i) == i % RX_DESCS
RxNext1Unmasked(i) == i + 1                                       \* mutant
RxNext1(i) == IF i = INDEX_SPAN - 1 THEN 0 ELSE i + 1
Filled(from, to) == IF to >= from THEN to - from ELSE to - from + INDEX_SPAN

RxInit ==
    /\ config \in Configs
    /\ rxProd \in RxStart /\ rx_cons_index = rxProd
    /\ rxBuf = [s \in RxSlots |-> NoFrame]
    /\ rxDma = FALSE
    /\ loop = "none" /\ step = "recv"
    /\ rxActivity = FALSE /\ iter = 0 /\ streak = 0
    /\ delivered = NoFrame

(* The DMA engine (external): fills the next buffer while the window has room
   and drops the frame otherwise. *)
RxArrive(f) ==
    /\ rxDma /\ Filled(rx_cons_index, rxProd) < RX_DESCS
    /\ rxBuf' = [rxBuf EXCEPT ![RxSlot(rxProd)] = f]
    /\ rxProd' = RxNext1(rxProd)
    /\ UNCHANGED <<config, rx_cons_index, rxDma, loop, step, rxLocals, delivered>>

(* bcmgenet_init_rx_ring: the index cannot be set to 0, so the driver's follows
   the hardware's.  What arrived before is dropped. *)
RxRestart ==
    /\ loop = "none" /\ ~rxDma
    /\ rx_cons_index' = rxProd
    /\ rxDma' = TRUE
    /\ UNCHANGED <<config, rxProd, rxBuf, loop, step, rxLocals, delivered>>

(* bcmgenet_gmac_eth_stop: frames not read yet stay in the ring, unreachable. *)
RxStop ==
    /\ loop = "none" /\ rxDma
    /\ rxDma' = FALSE
    /\ UNCHANGED <<config, rxProd, rx_cons_index, rxBuf, loop, step, rxLocals, delivered>>

(***************************************************************************)
(* bcmgenet_gmac_eth_recv.  Its result is positive when a frame is         *)
(* waiting and its length exceeds the offset of the frame in the buffer.   *)
(***************************************************************************)
HeadFrame == rxBuf[RxSlot(rx_cons_index)]
RxEmpty == rxProd = rx_cons_index
GotFrameUnwrapped ==                                              \* mutant
    rxProd > rx_cons_index /\ HeadFrame \notin ShortFrames
GotFrame == ~RxEmpty /\ HeadFrame \notin ShortFrames

EnterReceive ==
    /\ loop = "none" /\ rxDma
    /\ loop' = "drain" /\ step' = "recv" /\ rxActivity' = FALSE
    /\ UNCHANGED <<config, rxProd, rx_cons_index, rxBuf, rxDma, iter, streak, delivered>>

RecvFrameFrees ==                                                 \* mutant
    /\ loop # "none" /\ step = "recv" /\ GotFrame
    /\ step' = "frame"
    /\ rx_cons_index' = RxNext1(rx_cons_index)
    /\ UNCHANGED <<config, rxProd, rxBuf, rxDma, loop, rxLocals, delivered>>

RecvFrame ==
    /\ loop # "none" /\ step = "recv" /\ GotFrame
    /\ step' = "frame"
    /\ streak' = 0
    /\ UNCHANGED <<config, rxProd, rx_cons_index, rxBuf, rxDma, loop, rxActivity, iter, delivered>>

DrainEnds ==
    /\ loop = "drain" /\ step = "recv" /\ ~GotFrame
    /\ loop' = IF rxActivity /\ config.rx_poll_burst > 0 THEN "burst" ELSE "none"
    /\ iter' = 0 /\ streak' = 0
    /\ UNCHANGED <<config, rxProd, rx_cons_index, rxBuf, rxDma, step, rxActivity, delivered>>

BurstEmpty ==
    /\ loop = "burst" /\ step = "recv" /\ ~GotFrame
    /\ LET over == \/ streak + 1 >= config.rx_poll_burst_idle_break
                   \/ iter + 1 >= config.rx_poll_burst
       IN  /\ loop' = IF over THEN "none" ELSE "burst"
           /\ iter' = IF over THEN 0 ELSE iter + 1
           /\ streak' = IF over THEN 0 ELSE streak + 1
    /\ UNCHANGED <<config, rxProd, rx_cons_index, rxBuf, rxDma, step, rxActivity, delivered>>

(* ReceiveFrame reads the buffer; whether anybody took the frame counts as
   activity in the first loop only. *)
HandOver ==
    /\ step = "frame"
    /\ delivered' = HeadFrame
    /\ \E taken \in BOOLEAN :
           rxActivity' = (rxActivity \/ (taken /\ loop = "drain"))
    /\ step' = "free"
    /\ UNCHANGED <<config, rxProd, rx_cons_index, rxBuf, rxDma, loop, iter, streak>>

FreePktIfTaken ==                                                 \* mutant
    /\ step = "free"
    /\ rx_cons_index' \in {rx_cons_index, RxNext1(rx_cons_index)}
    /\ step' = "recv"
    /\ UNCHANGED <<config, rxProd, rxBuf, rxDma, loop, rxLocals, delivered>>

(* bcmgenet_gmac_free_pkt gives the buffer back to the DMA engine. *)
FreePkt ==
    /\ step = "free"
    /\ rx_cons_index' = RxNext1(rx_cons_index)
    /\ step' = "recv"
    /\ LET over == loop = "burst" /\ iter + 1 >= config.rx_poll_burst
       IN  /\ loop' = IF over THEN "none" ELSE loop
           /\ iter' = IF loop = "burst" /\ ~over THEN iter + 1 ELSE 0
    /\ UNCHANGED <<config, rxProd, rxBuf, rxDma, rxActivity, streak, delivered>>

ReceiveStep == RecvFrame \/ DrainEnds \/ BurstEmpty \/ HandOver \/ FreePkt

RxNext == \/ \E f \in Frames : RxArrive(f)
          \/ RxRestart \/ RxStop
          \/ EnterReceive \/ ReceiveStep

RxSpec == RxInit /\ [][RxNext]_rxVars

(* The unit task polls the ring for ever while it is online (PollsForever of
   UnitLoop) and goes on with what it has begun. *)
RxFairSpec == RxSpec /\ WF_rxVars(EnterReceive) /\ WF_rxVars(ReceiveStep)

(***************************************************************************)
(* Properties.                                                             *)
(***************************************************************************)
RxTypeOK ==
    /\ rxProd \in RxIndex /\ rx_cons_index \in RxIndex
    /\ rxBuf \in [RxSlots -> Frames \cup {NoFrame}]
    /\ rxDma \in BOOLEAN
    /\ loop \in {"none", "drain", "burst"} /\ step \in {"recv", "frame", "free"}
    /\ rxActivity \in BOOLEAN
    /\ iter \in Nat /\ streak \in Nat
    /\ delivered \in Frames \cup {NoFrame}

(* The frames between the two indices, oldest first; the head is no longer
   waiting once ReceiveFrame has had it, nor is anything while the receiver is
   off, because the next start drops it. *)
Waiting ==
    LET skip == IF step = "free" THEN 1 ELSE 0
        len  == IF rxDma THEN Filled(rx_cons_index, rxProd) - skip ELSE 0
    IN  [k \in 1 .. len |-> rxBuf[RxSlot(rx_cons_index + skip + k - 1)]]

RxQ == INSTANCE RxQueue WITH fifo <- Waiting, last <- delivered

(* The window between the two indices never exceeds the ring, the slot the task
   is reading is inside it, and that slot holds the same frame until it is freed:
   the DMA engine never writes into a buffer ReceiveFrame is copying from. *)
WindowHolds ==
    /\ Filled(rx_cons_index, rxProd) <= RX_DESCS
    /\ step # "recv" => rxDma /\ ~RxEmpty /\ HeadFrame \in Frames \ ShortFrames
    /\ step = "free" => delivered = HeadFrame

(* Frames reach the readers in arrival order, each once, whatever arrives while
   ProcessReceive runs: every step is a step of RxQueue or leaves it alone. *)
ImplementsRxQueue == RxQ!Spec

(* A frame in the ring is handed over, unless the ring stalls at a descriptor
   without a frame, which ProcessReceive never frees, or the unit goes offline:
   an index that wraps, a burst and a full ring lose no frame. *)
Stalled == ~RxEmpty /\ HeadFrame \in ShortFrames
FramesDelivered ==
    \A f \in Frames : (\E k \in DOMAIN Waiting : Waiting[k] = f)
                        ~> delivered = f \/ Stalled \/ ~rxDma
=============================================================================
