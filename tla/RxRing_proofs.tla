--------------------------- MODULE RxRing_proofs ---------------------------
(***************************************************************************)
(* Proofs about RxRing for every ring size, index range, set of frames and *)
(* genet.prefs.                                                            *)
(***************************************************************************)
EXTENDS RxRing, SharedTheorems, SequenceTheorems, TLAPS

(* An index keeps its slot when it wraps: the index range is a whole number of
   rings. *)
LEMMA SlotWraps ==
  ASSUME NEW i \in Nat, i >= INDEX_SPAN
  PROVE  RxSlot(i - INDEX_SPAN) = RxSlot(i)
<1>1. PICK k \in Int : INDEX_SPAN = RX_DESCS * k
  BY RxRingAssumption, Multiple
<1>2. PICK j \in Nat : j = i - INDEX_SPAN /\ i = j + RX_DESCS * k
  BY <1>1, RxRingAssumption
<1>3. j % RX_DESCS = i % RX_DESCS
  BY <1>1, <1>2, SameRemainder, RxRingAssumption
<1> QED BY <1>2, <1>3 DEF RxSlot

(* What advancing an index by one and the distance between two indices are. *)
LEMMA NextIndex ==
  ASSUME NEW i \in RxIndex
  PROVE  RxNext1(i) \in RxIndex /\ RxNext1(i) # i /\ RxSlot(i) \in RxSlots
  BY RxRingAssumption DEF RxIndex, RxNext1, RxSlot, RxSlots

LEMMA SlotType == ASSUME NEW i \in Nat PROVE RxSlot(i) \in RxSlots
  BY RxRingAssumption DEF RxSlot, RxSlots

(* The slots after the next index are those after this one, moved by one. *)
LEMMA NextSlot ==
  ASSUME NEW i \in RxIndex, NEW k \in Nat
  PROVE  RxSlot(RxNext1(i) + k) = RxSlot(i + (k + 1))
<1>1. CASE i = INDEX_SPAN - 1
  <2> DEFINE j == i + (k + 1)
  <2>2. j \in Nat /\ j >= INDEX_SPAN /\ j - INDEX_SPAN = RxNext1(i) + k
    BY <1>1, RxRingAssumption DEF RxNext1
  <2> HIDE DEF j
  <2>3. RxSlot(j - INDEX_SPAN) = RxSlot(j)
    BY <2>2, SlotWraps
  <2>4. RxSlot(RxNext1(i) + k) = RxSlot(j)
    BY <2>2, <2>3
  <2> QED BY <2>4 DEF j
<1>2. CASE i # INDEX_SPAN - 1
  <2>1. RxNext1(i) + k = i + (k + 1)
    BY <1>2 DEF RxNext1, RxIndex
  <2> QED BY <2>1
<1> QED BY <1>1, <1>2

LEMMA FilledType ==
  ASSUME NEW x \in RxIndex, NEW y \in RxIndex
  PROVE  /\ Filled(x, y) \in 0 .. INDEX_SPAN - 1
         /\ Filled(x, y) = 0 <=> x = y
  BY RxRingAssumption DEF RxIndex, Filled

LEMMA FilledNext ==
  ASSUME NEW x \in RxIndex, NEW y \in RxIndex
  PROVE  /\ Filled(x, y) < RX_DESCS => Filled(x, RxNext1(y)) = Filled(x, y) + 1
         /\ x # y => Filled(RxNext1(x), y) = Filled(x, y) - 1
  BY RxRingAssumption DEF RxIndex, RxNext1, Filled

(* The slot the DMA engine fills next is the one Filled slots after the head. *)
LEMMA ProdSlot ==
  ASSUME NEW x \in RxIndex, NEW y \in RxIndex
  PROVE  RxSlot(y) = RxSlot(x + Filled(x, y))
<1>1. CASE y >= x
  BY <1>1, RxRingAssumption DEF RxIndex, Filled
<1>2. CASE y < x
  <2>1. x + Filled(x, y) - INDEX_SPAN = y /\ x + Filled(x, y) >= INDEX_SPAN
    BY <1>2, RxRingAssumption DEF RxIndex, Filled
  <2> QED BY <2>1, SlotWraps, FilledType, RxRingAssumption DEF RxIndex
<1> QED BY <1>1, <1>2, RxRingAssumption DEF RxIndex

(* No slot inside the window is the one the DMA engine fills next. *)
LEMMA WindowApart ==
  ASSUME NEW x \in RxIndex, NEW y \in RxIndex, Filled(x, y) < RX_DESCS,
         NEW k \in 0 .. Filled(x, y) - 1
  PROVE  RxSlot(x + k) # RxSlot(y)
<1> DEFINE d == Filled(x, y)
<1>1. RxSlot(x + k) # RxSlot(x + d)
  <2>1. d \in Nat /\ x \in Nat /\ k \in Nat /\ RX_DESCS \in Nat \ {0}
    BY FilledType, RxRingAssumption DEF RxIndex
  <2> HIDE DEF d
  <2>2. x + k < x + d /\ x + d < x + k + RX_DESCS
    BY <2>1 DEF d
  <2> DEFINE p == x + k
             q == x + d
  <2>3. p \in Nat /\ q \in Nat /\ p < q /\ q < p + RX_DESCS
    BY <2>1, <2>2
  <2> HIDE DEF p, q
  <2>4. p % RX_DESCS # q % RX_DESCS
    BY <2>1, <2>3, Apart
  <2> QED BY <2>4 DEF RxSlot, p, q
<1> QED BY <1>1, ProdSlot

(***************************************************************************)
(* Type correctness.                                                       *)
(***************************************************************************)
LEMMA InitRxType == RxInit => RxTypeOK
<1> SUFFICES ASSUME RxInit PROVE RxTypeOK
  OBVIOUS
<1>1. rxProd \in RxIndex /\ rx_cons_index \in RxIndex
  BY RxRingAssumption DEF RxInit, RxIndex
<1>2. rxBuf \in [RxSlots -> Frames \cup {NoFrame}]
  BY DEF RxInit
<1> QED BY <1>1, <1>2 DEF RxInit, RxTypeOK

LEMMA NextRxType == RxTypeOK /\ [RxNext]_rxVars => RxTypeOK'
<1> SUFFICES ASSUME RxTypeOK, [RxNext]_rxVars PROVE RxTypeOK'
  OBVIOUS
<1> USE DEF RxTypeOK
<1>1. ASSUME NEW f \in Frames, RxArrive(f) PROVE RxTypeOK'
  BY <1>1, NextIndex DEF RxArrive, rxLocals
<1>2. CASE RxRestart
  BY <1>2 DEF RxRestart, rxLocals
<1>3. CASE RxStop
  BY <1>3 DEF RxStop, rxLocals
<1>4. CASE EnterReceive
  BY <1>4 DEF EnterReceive
<1>5. CASE RecvFrame
  BY <1>5 DEF RecvFrame
<1>6. CASE DrainEnds
  BY <1>6 DEF DrainEnds
<1>7. CASE BurstEmpty
  BY <1>7 DEF BurstEmpty
<1>8. CASE HandOver
  BY <1>8, NextIndex DEF HandOver, HeadFrame
<1>9. CASE FreePkt
  BY <1>9, NextIndex DEF FreePkt
<1>10. CASE UNCHANGED rxVars
  BY <1>10 DEF rxVars, rxLocals
<1> QED
  BY <1>1, <1>2, <1>3, <1>4, <1>5, <1>6, <1>7, <1>8, <1>9, <1>10
  DEF RxNext, ReceiveStep

(* The driver's index and the hardware's stay 16 bit indices, and the loops of
   ProcessReceive stay in their steps, for every ring and every genet.prefs. *)
THEOREM RxTypeCorrect == RxSpec => []RxTypeOK
<1>1. RxTypeOK /\ [RxNext]_rxVars => RxTypeOK'
  BY NextRxType
<1> QED BY <1>1, InitRxType, PTL DEF RxSpec

(***************************************************************************)
(* The window and the frame being read.  Every slot of the window holds a  *)
(* frame, the task reads nothing outside the two loops and stops the       *)
(* receiver only there.                                                    *)
(***************************************************************************)
Occupied == \A k \in 0 .. Filled(rx_cons_index, rxProd) - 1 :
                rxBuf[RxSlot(rx_cons_index + k)] \in Frames
RxInv == WindowHolds /\ Occupied /\ (loop = "none" => step = "recv") /\ (loop # "none" => rxDma)

LEMMA InitRxInv == RxInit => RxInv
<1> SUFFICES ASSUME RxInit PROVE RxInv
  OBVIOUS
<1>1. Filled(rx_cons_index, rxProd) = 0
  BY RxRingAssumption DEF RxInit, Filled
<1> QED BY <1>1, RxRingAssumption DEF RxInit, RxInv, WindowHolds, Occupied

(* A frame that arrives goes to a slot outside the window. *)
LEMMA ArriveWindow ==
  ASSUME RxTypeOK, NEW f \in Frames, RxArrive(f)
  PROVE  /\ Filled(rx_cons_index, rxProd)' = Filled(rx_cons_index, rxProd) + 1
         /\ \A k \in 0 .. Filled(rx_cons_index, rxProd) - 1 :
                /\ rxBuf'[RxSlot(rx_cons_index + k)] = rxBuf[RxSlot(rx_cons_index + k)]
                /\ rxBuf[RxSlot(rx_cons_index + k)] \in Frames \cup {NoFrame}
         /\ rxBuf'[RxSlot(rx_cons_index + Filled(rx_cons_index, rxProd))] = f
<1> USE DEF RxTypeOK
<1>1. Filled(rx_cons_index, rxProd)' = Filled(rx_cons_index, rxProd) + 1
  BY FilledNext DEF RxArrive
<1>2. ASSUME NEW k \in 0 .. Filled(rx_cons_index, rxProd) - 1
      PROVE  /\ rxBuf'[RxSlot(rx_cons_index + k)] = rxBuf[RxSlot(rx_cons_index + k)]
             /\ rxBuf[RxSlot(rx_cons_index + k)] \in Frames \cup {NoFrame}
  <2>1. RxSlot(rx_cons_index + k) # RxSlot(rxProd)
    BY WindowApart DEF RxArrive
  <2>2. RxSlot(rx_cons_index + k) \in RxSlots
    BY FilledType, SlotType DEF RxIndex
  <2> QED BY <2>1, <2>2 DEF RxArrive
<1>3. rxBuf'[RxSlot(rxProd)] = f
  BY NextIndex DEF RxArrive
<1> QED BY <1>1, <1>2, <1>3, ProdSlot

LEMMA NextRxInv ==
  ASSUME RxTypeOK, RxInv, [RxNext]_rxVars PROVE RxInv'
<1> USE DEF RxTypeOK, RxInv, WindowHolds
<1>h. HeadFrame = rxBuf[RxSlot(rx_cons_index + 0)]
  BY DEF RxIndex, HeadFrame
<1>1. ASSUME NEW f \in Frames, RxArrive(f) PROVE RxInv'
  <2> DEFINE d == Filled(rx_cons_index, rxProd)
  <2>a. d \in 0 .. RX_DESCS - 1 /\ rx_cons_index' = rx_cons_index
    BY <1>1, FilledType, RxRingAssumption DEF RxArrive
  <2>b. Filled(rx_cons_index, rxProd)' = Filled(rx_cons_index, rxProd) + 1
    BY <1>1, ArriveWindow
  <2>1. d \in 0 .. RX_DESCS - 1 /\ d' = d + 1 /\ rx_cons_index' = rx_cons_index
    BY <2>a, <2>b
  <2>2. Occupied'
    <3> SUFFICES ASSUME NEW k \in 0 .. d
                 PROVE  rxBuf'[RxSlot(rx_cons_index + k)] \in Frames
      BY <2>1 DEF Occupied
    <3>1. CASE k = d
      BY <1>1, <3>1, ArriveWindow
    <3>2. CASE k \in 0 .. d - 1
      BY <1>1, <3>2, ArriveWindow DEF Occupied
    <3> HIDE DEF d
    <3> QED BY <2>1, <3>1, <3>2
  <2>3. ~RxEmpty => ~RxEmpty' /\ HeadFrame' = HeadFrame
    <3> SUFFICES ASSUME ~RxEmpty PROVE ~RxEmpty' /\ HeadFrame' = HeadFrame
      OBVIOUS
    <3>1. 0 \in 0 .. d - 1
      BY <2>1, FilledType DEF RxEmpty
    <3>2. rxBuf'[RxSlot(rx_cons_index + 0)] = rxBuf[RxSlot(rx_cons_index + 0)]
      BY <1>1, <3>1, ArriveWindow
    <3>3. HeadFrame' = HeadFrame
      BY <2>1, <3>2 DEF HeadFrame, RxIndex
    <3>4. rxProd' \in RxIndex
      BY <1>1, NextIndex DEF RxArrive
    <3>5. ~RxEmpty'
      BY <2>1, <3>1, <3>4, FilledType DEF RxEmpty
    <3> QED BY <3>3, <3>5
  <2> QED BY <1>1, <2>1, <2>2, <2>3, RxRingAssumption DEF RxArrive
<1>2. CASE RxRestart
  <2>1. Filled(rx_cons_index, rxProd)' = 0
    BY <1>2, RxRingAssumption DEF RxRestart, Filled, RxIndex
  <2> QED BY <1>2, <2>1, RxRingAssumption DEF RxRestart, Occupied
<1>3. CASE RxStop
  BY <1>3 DEF RxStop, Occupied
<1>4. CASE EnterReceive
  BY <1>4 DEF EnterReceive, Occupied
<1>5. CASE RecvFrame
  <2>1. HeadFrame \in Frames
    BY <1>5, <1>h, FilledType DEF RecvFrame, GotFrame, RxEmpty, Occupied
  <2>2. /\ rxProd' = rxProd /\ rx_cons_index' = rx_cons_index /\ rxBuf' = rxBuf
        /\ rxDma' = rxDma /\ loop' = loop /\ loop # "none" /\ step' = "frame"
        /\ HeadFrame \notin ShortFrames /\ ~RxEmpty
    BY <1>5 DEF RecvFrame, GotFrame
  <2>3. Occupied' /\ HeadFrame' = HeadFrame /\ RxEmpty' = RxEmpty
    BY <2>2 DEF Occupied, HeadFrame, RxEmpty
  <2>4. rxDma
    BY <2>2
  <2> QED BY <2>1, <2>2, <2>3, <2>4
<1>6. CASE DrainEnds
  BY <1>6 DEF DrainEnds, Occupied
<1>7. CASE BurstEmpty
  BY <1>7 DEF BurstEmpty, Occupied
<1>8. CASE HandOver
  BY <1>8 DEF HandOver, RxEmpty, HeadFrame, Occupied
<1>9. CASE FreePkt
  <2> DEFINE d == Filled(rx_cons_index, rxProd)
  <2>1. d' = d - 1 /\ d \in 1 .. RX_DESCS
    BY <1>9, FilledNext, FilledType, RxRingAssumption DEF FreePkt, RxEmpty
  <2>2. Occupied'
    <3> SUFFICES ASSUME NEW k \in 0 .. d - 2
                 PROVE  rxBuf[RxSlot(rx_cons_index' + k)] \in Frames
      BY <1>9, <2>1 DEF Occupied, FreePkt
    <3>1. RxSlot(rx_cons_index' + k) = RxSlot(rx_cons_index + (k + 1))
      BY <1>9, <2>1, NextSlot DEF FreePkt
    <3>2. k + 1 \in 0 .. d - 1
      BY <2>1
    <3> QED BY <3>1, <3>2 DEF Occupied
  <2> QED BY <1>9, <2>1, <2>2, RxRingAssumption DEF FreePkt
<1>10. CASE UNCHANGED rxVars
  BY <1>10 DEF rxVars, rxLocals, RxEmpty, HeadFrame, Occupied
<1> QED
  BY <1>1, <1>2, <1>3, <1>4, <1>5, <1>6, <1>7, <1>8, <1>9, <1>10
  DEF RxNext, ReceiveStep

(* The window never exceeds the ring and the DMA engine never writes into the
   buffer ReceiveFrame is reading, for every ring size, index range and start of
   the hardware's index. *)
THEOREM RxWindow == RxSpec => []WindowHolds
<1>1. RxTypeOK /\ RxInv /\ [RxNext]_rxVars => RxInv'
  BY NextRxInv
<1>2. RxInv => WindowHolds
  BY DEF RxInv
<1> QED BY <1>1, <1>2, InitRxInv, RxTypeCorrect, PTL DEF RxSpec

(***************************************************************************)
(* The ring implements RxQueue.                                            *)
(***************************************************************************)
Skip == IF step = "free" THEN 1 ELSE 0
WaitingLen == IF rxDma THEN Filled(rx_cons_index, rxProd) - Skip ELSE 0
WaitingAt(k) == rxBuf[RxSlot(rx_cons_index + Skip + k - 1)]

(* The queue read off the window is a sequence of frames. *)
WaitingFacts ==
    /\ WaitingLen \in Nat
    /\ Waiting \in Seq(Frames)
    /\ Len(Waiting) = WaitingLen
    /\ \A k \in 1 .. WaitingLen : Waiting[k] = WaitingAt(k)

LEMMA WaitingSeq == RxTypeOK /\ RxInv => WaitingFacts
<1> SUFFICES ASSUME RxTypeOK, RxInv PROVE WaitingFacts
  OBVIOUS
<1>1. WaitingLen \in Nat /\ Skip \in {0, 1}
  BY FilledType, RxRingAssumption
  DEF WaitingLen, Skip, RxTypeOK, RxInv, WindowHolds, RxEmpty
<1>2. Waiting = [k \in 1 .. WaitingLen |-> WaitingAt(k)]
  BY DEF Waiting, WaitingLen, WaitingAt, Skip
<1>3. ASSUME NEW k \in 1 .. WaitingLen PROVE WaitingAt(k) \in Frames
  <2>1. /\ Skip + k - 1 \in 0 .. Filled(rx_cons_index, rxProd) - 1
        /\ rx_cons_index + Skip + k - 1 = rx_cons_index + (Skip + k - 1)
    <3>1. rxDma
      BY <1>3 DEF WaitingLen
    <3>2. k \in 1 .. Filled(rx_cons_index, rxProd) - Skip
      BY <1>3, <3>1 DEF WaitingLen
    <3>3. rx_cons_index \in Nat /\ Filled(rx_cons_index, rxProd) \in Nat
      BY FilledType, RxRingAssumption DEF RxTypeOK, RxIndex
    <3> QED BY <1>1, <3>2, <3>3
  <2> QED BY <2>1 DEF WaitingAt, RxInv, Occupied
<1> HIDE DEF Skip, WaitingLen, WaitingAt
<1>4. Waiting \in [1 .. WaitingLen -> Frames]
  BY <1>2, <1>3
<1> QED BY <1>1, <1>2, <1>4 DEF WaitingFacts

LEMMA InitRefines == RxInit => RxQ!Init
<1> SUFFICES ASSUME RxInit PROVE RxQ!Init
  OBVIOUS
<1>1. RxTypeOK /\ RxInv /\ WaitingLen = 0
  BY InitRxType, InitRxInv DEF RxInit, WaitingLen
<1>2. Waiting = <<>>
  BY <1>1, WaitingSeq DEF WaitingFacts
<1> QED BY <1>2 DEF RxInit, RxQ!Init

(* Each step of the ring is a step of the queue or leaves it alone. *)
LEMMA NextRefines ==
  ASSUME RxTypeOK, RxInv, RxTypeOK', RxInv', [RxNext]_rxVars
  PROVE  [RxQ!Next]_(RxQ!vars)
<1>w. /\ WaitingLen \in Nat /\ Waiting \in Seq(Frames) /\ Len(Waiting) = WaitingLen
      /\ \A k \in 1 .. WaitingLen : Waiting[k] = WaitingAt(k)
  BY WaitingSeq DEF WaitingFacts
<1>f. WaitingFacts'
  BY WaitingSeq, PTL
<1>n. /\ WaitingLen' \in Nat /\ Waiting' \in Seq(Frames) /\ Len(Waiting') = WaitingLen'
      /\ \A k \in 1 .. WaitingLen' : Waiting'[k] = WaitingAt(k)'
  BY <1>f DEF WaitingFacts
<1>t. /\ rx_cons_index \in RxIndex /\ rxProd \in RxIndex
      /\ rx_cons_index' \in RxIndex /\ rxProd' \in RxIndex
  BY DEF RxTypeOK
<1>i. rx_cons_index \in Nat /\ Filled(rx_cons_index, rxProd) \in Nat /\ rxProd' \in Nat
  <2>1. Filled(rx_cons_index, rxProd) \in 0 .. INDEX_SPAN - 1
    BY <1>t, FilledType
  <2> QED BY <1>t, <2>1, RxRingAssumption DEF RxIndex
<1> USE DEF RxTypeOK
<1>1. ASSUME NEW f \in Frames, RxArrive(f) PROVE RxQ!Arrive(f)
  <2>1. /\ WaitingLen' = WaitingLen + 1
        /\ Skip' = Skip /\ Skip \in {0, 1}
        /\ rx_cons_index' = rx_cons_index
        /\ WaitingLen = Filled(rx_cons_index, rxProd) - Skip
    <3>1. /\ rxDma /\ rxDma' = rxDma /\ step' = step /\ rx_cons_index' = rx_cons_index
      BY <1>1 DEF RxArrive
    <3>2. Filled(rx_cons_index, rxProd)' = Filled(rx_cons_index, rxProd) + 1
      BY <1>1, ArriveWindow
    <3>3. Filled(rx_cons_index, rxProd) \in Nat
      BY FilledType, RxRingAssumption
    <3>4. Skip' = Skip /\ Skip \in {0, 1}
      BY <3>1 DEF Skip
    <3>5. WaitingLen = Filled(rx_cons_index, rxProd) - Skip
      BY <3>1 DEF WaitingLen
    <3>6. WaitingLen' = Filled(rx_cons_index, rxProd)' - Skip'
      BY <3>1 DEF WaitingLen
    <3> QED BY <3>1, <3>2, <3>3, <3>4, <3>5, <3>6
  <2>2. ASSUME NEW k \in 1 .. WaitingLen PROVE WaitingAt(k)' = WaitingAt(k)
    <3>1. /\ Skip + k - 1 \in 0 .. Filled(rx_cons_index, rxProd) - 1
          /\ rx_cons_index + Skip + k - 1 = rx_cons_index + (Skip + k - 1)
      BY <1>i, <2>1, <2>2
    <3>2. WaitingAt(k) = rxBuf[RxSlot(rx_cons_index + (Skip + k - 1))]
      BY <3>1 DEF WaitingAt
    <3>3. WaitingAt(k)' = rxBuf'[RxSlot(rx_cons_index + (Skip + k - 1))]
      BY <2>1, <3>1 DEF WaitingAt
    <3> HIDE DEF Skip
    <3> QED BY <1>1, <3>1, <3>2, <3>3, ArriveWindow
  <2>3. ASSUME NEW n \in Nat, n = WaitingLen + 1 PROVE WaitingAt(n)' = f
    <3>1. rx_cons_index + Skip + n - 1 = rx_cons_index + Filled(rx_cons_index, rxProd)
      BY <1>i, <2>1, <2>3
    <3>2. WaitingAt(n)' = rxBuf'[RxSlot(rx_cons_index + Skip + n - 1)]
      BY <2>1 DEF WaitingAt
    <3> QED BY <1>1, <3>1, <3>2, ArriveWindow
  <2>4. Waiting' = Append(Waiting, f)
    <3>1. /\ Append(Waiting, f) \in Seq(Frames)
          /\ Len(Append(Waiting, f)) = WaitingLen + 1
          /\ \A k \in 1 .. WaitingLen : Append(Waiting, f)[k] = Waiting[k]
          /\ Append(Waiting, f)[WaitingLen + 1] = f
      BY <1>w, AppendProperties
    <3>2. ASSUME NEW k \in 1 .. WaitingLen + 1
          PROVE  Waiting'[k] = Append(Waiting, f)[k]
      <4>1. Waiting'[k] = WaitingAt(k)'
        BY <1>n, <2>1
      <4>2. CASE k = WaitingLen + 1
        <5>1. k \in Nat /\ WaitingAt(k)' = f
          BY <1>w, <4>2, <2>3
        <5> QED BY <4>1, <4>2, <5>1, <3>1
      <4>3. CASE k \in 1 .. WaitingLen
        BY <4>1, <4>3, <1>w, <2>2, <3>1
      <4> QED BY <1>w, <4>2, <4>3
    <3> QED BY <1>n, <2>1, <3>1, <3>2, SeqEqual
  <2> QED BY <1>1, <2>4 DEF RxArrive, RxQ!Arrive
<1>2. CASE RxRestart
  <2>1. WaitingLen = 0 /\ WaitingLen' = 0
    <3>1. ~rxDma /\ rxDma' /\ rx_cons_index' = rxProd' /\ step' # "free"
      BY <1>2 DEF RxRestart, RxInv
    <3>2. Filled(rx_cons_index, rxProd)' = 0
      BY <1>t, <3>1, FilledType
    <3>3. Skip' = 0
      BY <3>1 DEF Skip
    <3> QED BY <3>1, <3>2, <3>3 DEF WaitingLen
  <2>2. Waiting' = Waiting
    BY <1>w, <1>n, <2>1
  <2> QED BY <1>2, <2>2 DEF RxRestart, RxQ!vars
<1>3. CASE RxStop
  <2>1. Waiting' = <<>>
    BY <1>3, <1>n DEF RxStop, WaitingLen
  <2> QED BY <1>3, <2>1 DEF RxStop, RxQ!Next, RxQ!Restart
<1>4. CASE EnterReceive \/ RecvFrame \/ DrainEnds \/ BurstEmpty
  <2>1. /\ rx_cons_index' = rx_cons_index /\ rxProd' = rxProd
        /\ rxBuf' = rxBuf /\ rxDma' = rxDma /\ delivered' = delivered
        /\ (step' = "free") = (step = "free")
    BY <1>4 DEF RxInv, EnterReceive, RecvFrame, DrainEnds, BurstEmpty
  <2>2. Waiting' = Waiting
    BY <2>1 DEF Waiting
  <2> QED BY <2>1, <2>2 DEF RxQ!vars
<1>5. CASE HandOver
  <2>1. /\ Skip = 0 /\ Skip' = 1 /\ WaitingLen' = WaitingLen - 1 /\ WaitingLen > 0
        /\ rx_cons_index' = rx_cons_index /\ rxBuf' = rxBuf
    BY <1>5, FilledType DEF HandOver, RxInv, WindowHolds, RxEmpty, Skip, WaitingLen
  <2>2. ASSUME NEW k \in 1 .. WaitingLen - 1 PROVE WaitingAt(k)' = WaitingAt(k + 1)
    BY <2>1, <2>2 DEF WaitingAt, RxIndex
  <2>3. delivered' = Head(Waiting)
    <3>1. WaitingAt(1) = HeadFrame
      BY <2>1 DEF WaitingAt, HeadFrame, RxIndex
    <3> QED BY <1>5, <1>w, <2>1, <3>1 DEF HandOver
  <2>4. Waiting # <<>> /\ Waiting' = Tail(Waiting)
    <3>1. /\ Waiting # <<>> /\ Tail(Waiting) \in Seq(Frames)
          /\ Len(Tail(Waiting)) = WaitingLen - 1
          /\ \A k \in 1 .. WaitingLen - 1 : Tail(Waiting)[k] = Waiting[k + 1]
      BY <1>w, <2>1, HeadTailProperties
    <3>2. \A k \in 1 .. WaitingLen - 1 : Waiting'[k] = Tail(Waiting)[k]
      BY <1>w, <1>n, <2>1, <2>2, <3>1
    <3> QED BY <1>n, <2>1, <3>1, <3>2, SeqEqual
  <2> QED BY <2>3, <2>4 DEF RxQ!Next, RxQ!HandOver
<1>6. CASE FreePkt
  <2>1. /\ Skip = 1 /\ Skip' = 0 /\ WaitingLen' = WaitingLen
        /\ rx_cons_index' = RxNext1(rx_cons_index) /\ rxBuf' = rxBuf
        /\ delivered' = delivered
    BY <1>6, FilledNext, FilledType
    DEF FreePkt, RxInv, WindowHolds, RxEmpty, Skip, WaitingLen
  <2>2. ASSUME NEW k \in 1 .. WaitingLen PROVE WaitingAt(k)' = WaitingAt(k)
    <3>1. RxSlot(RxNext1(rx_cons_index) + (k - 1)) = RxSlot(rx_cons_index + (k - 1 + 1))
      BY <2>2, NextSlot
    <3>2. /\ RxNext1(rx_cons_index) + 0 + k - 1 = RxNext1(rx_cons_index) + (k - 1)
          /\ rx_cons_index + 1 + k - 1 = rx_cons_index + (k - 1 + 1)
      BY <2>2, NextIndex DEF RxIndex
    <3> QED BY <2>1, <3>1, <3>2 DEF WaitingAt
  <2>3. Waiting' = Waiting
    BY <1>w, <1>n, <2>1, <2>2, SeqEqual
  <2> QED BY <2>1, <2>3 DEF RxQ!vars
<1>7. CASE UNCHANGED rxVars
  BY <1>7 DEF rxVars, rxLocals, Waiting, RxQ!vars
<1> QED
  BY <1>1, <1>2, <1>3, <1>4, <1>5, <1>6, <1>7 DEF RxNext, ReceiveStep, RxQ!Next

(* Frames are handed over in arrival order, each once, for every ring size, index
   range and genet.prefs. *)
THEOREM RxRefines == RxSpec => ImplementsRxQueue
<1>1. RxTypeOK /\ RxInv /\ [RxNext]_rxVars => RxInv'
  BY NextRxInv
<1>2. RxSpec => []RxInv
  BY <1>1, InitRxInv, RxTypeCorrect, PTL DEF RxSpec
<1>3. RxTypeOK /\ RxInv /\ RxTypeOK' /\ RxInv' /\ [RxNext]_rxVars
        => [RxQ!Next]_(RxQ!vars)
  BY NextRefines
<1> QED
  BY <1>2, <1>3, InitRefines, RxTypeCorrect, PTL DEF RxSpec, ImplementsRxQueue, RxQ!Spec
=============================================================================
