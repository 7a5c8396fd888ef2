------------------------------- MODULE EthRx -------------------------------
(***************************************************************************)
(* The receive path of the Ethernet driver for one Rx ring: the descriptor *)
(* ring of RTD/src/Gmac_Ip.c, Eth_Receive of RTD/src/Eth.c and the Rx      *)
(* interrupt.  Two actors share the descriptors:                           *)
(*   - the receive DMA, which fills the descriptors it owns in ring order; *)
(*   - the Rx interrupt: GMAC_RxIRQHandler -> Eth_RxIrqCallback ->         *)
(*     Eth_Receive -> Gmac_Ip_ReadFrame, EthIf_RxIndication,               *)
(*     Gmac_Ip_ProvideRxBuff, until the ring is empty.                     *)
(* The MAC time-stamps every frame (TSENALL): the DMA then uses a second   *)
(* descriptor, the context descriptor, behind the frame's own, and its     *)
(* write-back destroys Des0, the buffer address, of both.  The driver      *)
(* rebuilds Des0 from Info0.  A buffer is named by the ring slot whose     *)
(* Des0 points to it at initialisation.                                    *)
(***************************************************************************)
EXTENDS Integers, Sequences

CONSTANTS
    RingSize,  \* Gmac_Ip_RxRingConfigType.RingSize
    MaxFrames, \* bound: number of frames that arrive
    NULL,      \* NULL_PTR, and the 0 that clears Info0
    Status     \* what a write-back leaves in Des0: VLAN tags or nanoseconds

ASSUME RxRingAssumption ==
    /\ RingSize \in Nat \ {0, 1}
    /\ MaxFrames \in Nat
    /\ NULL \notin Nat
    /\ Status \notin Nat

Slots == 0 .. RingSize - 1
Buffers == Slots

VARIABLES
    own,         \* RDES3_OWN of each descriptor
    ctxt,        \* RDES3_CTXT: the DMA wrote a context descriptor here
    tsa,         \* RDES1_TSA and RDES3_LD: a context descriptor follows
    err,         \* an error bit of GMAC_RX_STAT_ERR_MASK
    consumed,    \* INFO1_CONSUMED
    des0,        \* Des0
    info0,       \* Info0: the buffer that belongs to the descriptor
    rxCurrent,   \* RxCurrentDesc, where Gmac_Ip_ReadFrame looks
    rxAlloc,     \* RxAllocDesc, where Gmac_Ip_ProvideRxBuff refills
    dma,         \* the descriptor the DMA handles next
    suspended,   \* the DMA met a descriptor it does not own and waits for a
                 \* write of DMA_RXDESC_TAIL_POINTER
    ri,          \* DMA_STATUS.RI
    pc,          \* position of the Rx interrupt, "idle" when it is not running
    frameBuffer, \* Eth_Ipw_axRxFrameBuffer.Data
    bd,          \* the local Bd of Gmac_Ip_ProvideRxBuff
    content,     \* number of the frame last written into each buffer, 0 for none
    arrived,     \* history: the frames the DMA wrote, in order; TRUE for one with an
                 \* error
    indicated    \* history: EthIf_RxIndication calls, by frame number

descriptors == <<own, ctxt, tsa, err, consumed, des0, info0>>
positions == <<rxCurrent, rxAlloc>>
hardware == <<dma, suspended, ri, content, arrived>>
handler == <<pc, frameBuffer, bd>>
vars == <<descriptors, positions, hardware, handler, indicated>>

Following(s) == (s + 1) % RingSize

inIrq == pc # "idle"

\* Gmac_Ip_InitRxBD with a configured data buffer: every descriptor is given to
\* the DMA with its own part of the buffer.
Init ==
    /\ own = [s \in Slots |-> TRUE]
    /\ ctxt = [s \in Slots |-> FALSE]
    /\ tsa = [s \in Slots |-> FALSE]
    /\ err = [s \in Slots |-> FALSE]
    /\ consumed = [s \in Slots |-> FALSE]
    /\ des0 = [s \in Slots |-> s]
    /\ info0 = [s \in Slots |-> s]
    /\ rxCurrent = 0
    /\ rxAlloc = 0
    /\ dma = 0
    /\ suspended = FALSE
    /\ ri = FALSE
    /\ pc = "idle"
    /\ frameBuffer = NULL
    /\ bd = 0
    /\ content = [b \in Buffers |-> 0]
    /\ arrived = <<>>
    /\ indicated = <<>>
-----------------------------------------------------------------------------
(***************************************************************************)
(* The DMA.  A frame, good or with an error, is written to the buffer Des0 *)
(* points to; the frame's descriptor, and the context descriptor when the  *)
(* frame is time-stamped, are handed back together, as the assertion on    *)
(* the context descriptor in Gmac_Ip_RestoreRxCtxtDescr presumes.          *)
(***************************************************************************)
Used(isStamped) == {dma} \cup (IF isStamped THEN {Following(dma)} ELSE {})

DmaReceive(isStamped, isBad) ==
    LET ctx == Following(dma)
        number == Len(arrived) + 1
    IN  /\ ~suspended
        /\ Len(arrived) < MaxFrames
        /\ \A s \in Used(isStamped) : own[s]
        /\ own' = [s \in Slots |-> own[s] /\ s \notin Used(isStamped)]
        /\ des0' = [s \in Slots |-> IF s \in Used(isStamped) THEN Status ELSE des0[s]]
        /\ ctxt' = [s \in Slots |-> IF s \in Used(isStamped) THEN s # dma ELSE ctxt[s]]
        /\ tsa' = [s \in Slots |-> IF s \in Used(isStamped) THEN s = dma /\ isStamped ELSE tsa[s]]
        /\ err' = [s \in Slots |-> IF s \in Used(isStamped) THEN s = dma /\ isBad ELSE err[s]]
        /\ content' = [content EXCEPT ![des0[dma]] = number]
        /\ arrived' = Append(arrived, isBad)
        /\ dma' = IF isStamped THEN Following(ctx) ELSE ctx
        /\ ri' = TRUE
        /\ UNCHANGED <<consumed, info0, positions, suspended, handler, indicated>>

\* The next frame needs a descriptor, or a context descriptor, that is not the
\* DMA's: it stops until the tail pointer is written.
DmaSuspend ==
    /\ ~suspended
    /\ ~own[dma] \/ ~own[Following(dma)]
    /\ suspended' = TRUE
    /\ UNCHANGED <<descriptors, positions, dma, ri, content, arrived, handler,
                   indicated>>
-----------------------------------------------------------------------------
(***************************************************************************)
(* The Rx interrupt.  RI is cleared first; then Eth_Receive is called      *)
(* until it answers ETH_NOT_RECEIVED.                                      *)
(***************************************************************************)
RxIrqEnter ==
    /\ ri
    /\ pc = "idle"
    /\ ri' = FALSE
    /\ pc' = "read"
    /\ UNCHANGED <<descriptors, positions, dma, suspended, content, arrived,
                   frameBuffer, bd, indicated>>

\* Gmac_Ip_ReadFrame answers RX_QUEUE_EMPTY.
RxQueueEmpty ==
    \/ own[rxCurrent]
    \/ consumed[rxCurrent]
    \/ info0[rxCurrent] = NULL

\* Slip: the loop goes on while nothing is received and ends at a frame.
Mut_LoopInverted ==
    /\ pc = "read"
    /\ ~RxQueueEmpty
    /\ pc' = "idle"
    /\ UNCHANGED <<descriptors, positions, hardware, frameBuffer, bd, indicated>>

RxIrqExit ==
    /\ pc = "read"
    /\ RxQueueEmpty
    /\ pc' = "idle"
    /\ UNCHANGED <<descriptors, positions, hardware, frameBuffer, bd, indicated>>

\* Slip: the read position does not skip the context descriptor.
Mut_NoContextSkip == Following(rxCurrent)

\* Where Gmac_Ip_ReadTimeStampInfo and the last statements of Gmac_Ip_ReadFrame
\* leave RxCurrentDesc.
ReadPosition ==
    IF tsa[rxCurrent] THEN Following(Following(rxCurrent)) ELSE Following(rxCurrent)

\* Gmac_Ip_ReadFrame takes the buffer out of the descriptor; a frame with an
\* error is not indicated, only released.
ReadFrame ==
    /\ pc = "read"
    /\ ~RxQueueEmpty
    /\ frameBuffer' = info0[rxCurrent]
    /\ info0' = [info0 EXCEPT ![rxCurrent] = NULL]
    /\ consumed' = [consumed EXCEPT ![rxCurrent] = TRUE]
    /\ rxCurrent' = ReadPosition
    /\ pc' = IF err[rxCurrent] THEN "release" ELSE "indicate"
    /\ UNCHANGED <<own, ctxt, tsa, err, des0, rxAlloc, hardware, bd, indicated>>

\* EthIf_RxIndication reads the frame in the buffer.
RxIndication ==
    /\ pc = "indicate"
    /\ indicated' = Append(indicated, content[frameBuffer])
    /\ pc' = "release"
    /\ UNCHANGED <<descriptors, positions, hardware, frameBuffer, bd>>

\* Des0 of a restored context descriptor.
RestoredDes0(s) == info0[s]

\* Gmac_Ip_ProvideRxBuff up to and including Gmac_Ip_RestoreRxCtxtDescr, whose
\* store of Des3 gives the context descriptor to the DMA.
RestoreRxCtxtDescr ==
    LET ctx == Following(rxAlloc)
    IN  /\ pc = "release"
        /\ bd' = rxAlloc
        /\ IF tsa[rxAlloc] /\ info0[ctx] # NULL
           THEN /\ des0' = [des0 EXCEPT ![ctx] = RestoredDes0(ctx)]
                /\ tsa' = [tsa EXCEPT ![ctx] = FALSE]
                /\ err' = [err EXCEPT ![ctx] = FALSE]
                /\ ctxt' = [ctxt EXCEPT ![ctx] = FALSE]
                /\ consumed' = [consumed EXCEPT ![ctx] = FALSE]
                /\ own' = [own EXCEPT ![ctx] = TRUE]
                /\ rxAlloc' = ctx
           ELSE UNCHANGED <<own, ctxt, tsa, err, consumed, des0, rxAlloc>>
        /\ pc' = "fill"
        /\ UNCHANGED <<info0, rxCurrent, hardware, frameBuffer, indicated>>

\* The stores before the barrier: Des0 to Des2, Info0 and Info1.
FillDescriptor ==
    /\ pc = "fill"
    /\ des0' = [des0 EXCEPT ![bd] = frameBuffer]
    /\ info0' = [info0 EXCEPT ![bd] = frameBuffer]
    /\ tsa' = [tsa EXCEPT ![bd] = FALSE]
    /\ consumed' = [consumed EXCEPT ![bd] = FALSE]
    /\ pc' = "give"
    /\ UNCHANGED <<own, ctxt, err, positions, hardware, frameBuffer, bd, indicated>>

\* Des3 gives the descriptor to the DMA, and RxAllocDesc moves on.
GiveDescriptor ==
    /\ pc = "give"
    /\ own' = [own EXCEPT ![bd] = TRUE]
    /\ ctxt' = [ctxt EXCEPT ![bd] = FALSE]
    /\ err' = [err EXCEPT ![bd] = FALSE]
    /\ rxAlloc' = Following(rxAlloc)
    /\ pc' = "tail"
    /\ UNCHANGED <<tsa, consumed, des0, info0, rxCurrent, hardware, frameBuffer,
                   bd, indicated>>

\* Slip: the tail pointer is not written again.
Mut_WriteTail ==
    /\ pc = "tail"
    /\ frameBuffer' = NULL
    /\ pc' = "read"
    /\ UNCHANGED <<descriptors, positions, hardware, bd, indicated>>

\* The write of DMA_RXDESC_TAIL_POINTER wakes the DMA; Eth_Ipw_ReleaseResources
\* then forgets the buffer.
WriteTail ==
    /\ pc = "tail"
    /\ suspended' = FALSE
    /\ frameBuffer' = NULL
    /\ pc' = "read"
    /\ UNCHANGED <<descriptors, positions, dma, ri, content, arrived, bd, indicated>>
-----------------------------------------------------------------------------
IrqStep ==
    \/ RxIrqEnter
    \/ RxIrqExit
    \/ ReadFrame
    \/ RxIndication
    \/ RestoreRxCtxtDescr
    \/ FillDescriptor
    \/ GiveDescriptor
    \/ WriteTail

DmaStep ==
    \/ \E isStamped, isBad \in BOOLEAN : DmaReceive(isStamped, isBad)
    \/ DmaSuspend

Next == IrqStep \/ DmaStep

Spec == Init /\ [][Next]_vars
-----------------------------------------------------------------------------
IrqPositions == {"idle", "read", "indicate", "release", "fill", "give", "tail"}

\* Every variable has the type its C declaration gives it.
TypeOK ==
    /\ own \in [Slots -> BOOLEAN]
    /\ ctxt \in [Slots -> BOOLEAN]
    /\ tsa \in [Slots -> BOOLEAN]
    /\ err \in [Slots -> BOOLEAN]
    /\ consumed \in [Slots -> BOOLEAN]
    /\ des0 \in [Slots -> Buffers \cup {Status}]
    /\ info0 \in [Slots -> Buffers \cup {NULL}]
    /\ rxCurrent \in Slots
    /\ rxAlloc \in Slots
    /\ dma \in Slots
    /\ suspended \in BOOLEAN
    /\ ri \in BOOLEAN
    /\ pc \in IrqPositions
    /\ frameBuffer \in Buffers \cup {NULL}
    /\ bd \in Slots
    /\ content \in [Buffers -> Nat]
    /\ arrived \in Seq(BOOLEAN)
    /\ indicated \in Seq(Nat)

IsGood(n) == n \in DOMAIN arrived /\ ~arrived[n]

IsIndicated(n) == \E i \in DOMAIN indicated : indicated[i] = n

\* EthIf_RxIndication sees the good frames in the order of arrival, none
\* repeated, overwritten or left out between two others.
IndicatedInOrder ==
    \A i \in DOMAIN indicated :
        /\ IsGood(indicated[i])
        /\ \A n \in 1 .. indicated[i] - 1 :
               IsGood(n) => \E j \in 1 .. i - 1 : indicated[j] = n
        /\ \A j \in 1 .. i - 1 : indicated[j] < indicated[i]

\* Once the interrupt is over and none is pending, every good frame has been
\* indicated, every descriptor is the DMA's again and the DMA is not waiting:
\* clearing RI before the loop loses no frame, and no wake-up is lost.
NothingLeftUnread ==
    ~inIrq /\ ~ri =>
        /\ \A n \in DOMAIN arrived : IsGood(n) => IsIndicated(n)
        /\ \A s \in Slots : own[s]
        /\ ~suspended

\* No descriptor of the DMA points to the buffer the upper layer is reading.
NoReceiveIntoReadBuffer ==
    pc = "indicate" => \A s \in Slots : own[s] => des0[s] # frameBuffer

\* A descriptor of the DMA points to its buffer, never to what a write-back
\* left there, and no buffer is lost or has two owners: each belongs to one
\* descriptor's Info0 or is the one being handled.
BuffersConserved ==
    /\ \A s \in Slots : own[s] => des0[s] \in Buffers /\ des0[s] = info0[s]
    /\ \A b \in Buffers :
          \/ \E s \in Slots : info0[s] = b /\ (\A r \in Slots \ {s} : info0[r] # b)
          \/ frameBuffer = b /\ (\A s \in Slots : info0[s] # b)

\* The GMAC_DEV_ASSERTs of Gmac_Ip_ProvideRxBuff and of
\* Gmac_Ip_RestoreRxCtxtDescr hold: the refill position is the descriptor the
\* frame was read from, and a context descriptor is behind it when TSA says so.
DevAssertsHold ==
    pc = "release" =>
        /\ ~own[rxAlloc]
        /\ tsa[rxAlloc] => ~own[Following(rxAlloc)] /\ ctxt[Following(rxAlloc)]

\* The interrupt ends once frames stop arriving.
RxIrqTerminates == inIrq ~> ~inIrq
=============================================================================
