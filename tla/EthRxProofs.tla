---------------------------- MODULE EthRxProofs ----------------------------
(***************************************************************************)
(* Proofs about the receive path: for every size of the ring and every     *)
(* number of frames, no buffer is lost, doubled or written while it is     *)
(* read, across any number of mode changes; and until the first of them    *)
(* the frames are indicated in the order of arrival, the assertions of the *)
(* driver hold, and the interrupt leaves nothing behind.                   *)
(*                                                                         *)
(* Buffers: Info0 is one-to-one, and the one descriptor without a buffer   *)
(* is the one the interrupt is about to refill.  Frames: the descriptors   *)
(* the DMA has handed back form a chain from RxCurrentDesc to the DMA's    *)
(* position, each leading to the frame that arrived next, past its context *)
(* descriptor when it has one.                                             *)
(***************************************************************************)
EXTENDS EthRxMode, TLAPS

\* The buffer of the frame at hand is out of the ring.
Busy == {"indicate", "release", "fill"}

\* The descriptor the interrupt is going to give back, from the reading of its
\* frame to the store of Des3.
Handled == IF pc \in {"fill", "give"} THEN bd ELSE rxAlloc

\* Where reading the frame of a descriptor leaves RxCurrentDesc.
After(s) == IF tsa[s] THEN Following(Following(s)) ELSE Following(s)

PosInv ==
    /\ pc \in {"idle", "read", "tail"} => rxCurrent = rxAlloc
    /\ pc \in {"indicate", "release"} => rxCurrent = After(rxAlloc)
    /\ pc \in {"fill", "give"} => rxCurrent = Following(rxAlloc)
    /\ pc \in Busy \cup {"give"} => ~own[Handled]

BufferInv ==
    /\ \A s \in Slots : own[s] => des0[s] = info0[s] /\ ~consumed[s]
    /\ \A s \in Slots : info0[s] = NULL <=> pc \in Busy /\ s = Handled
    /\ \A r, s \in Slots : info0[r] = info0[s] => r = s
    /\ pc \in Busy => frameBuffer # NULL /\ \A s \in Slots : info0[s] # frameBuffer
    /\ \A b \in Buffers : \/ \E s \in Slots : info0[s] = b
                          \/ pc \in Busy /\ frameBuffer = b
    /\ pc = "give" => des0[bd] = info0[bd] /\ ~consumed[bd]

\* The descriptors of the frame at hand that the DMA does not own yet.
Mine(s) ==
    \/ pc \in Busy \cup {"give"} /\ s = Handled
    \/ pc \in {"indicate", "release"} /\ tsa[rxAlloc] /\ s = Following(rxAlloc)

Pending(s) == ~own[s] /\ ~Mine(s)

IsHead(s) == Pending(s) /\ ~ctxt[s]

Number(s) == content[info0[s]]

\* The frames after the first h are in the ring, each descriptor leading to the
\* next, and nothing else is.
Chain(h) ==
    /\ \A s \in Slots : IsHead(s) =>
          /\ Number(s) \in h + 1 .. Len(arrived)
          /\ ~consumed[s]
          /\ err[s] = arrived[Number(s)]
          /\ tsa[s] => Pending(Following(s)) /\ ctxt[Following(s)]
          /\ Number(s) = Len(arrived) => After(s) = dma
          /\ Number(s) # Len(arrived) => /\ IsHead(After(s))
                                         /\ Number(After(s)) = Number(s) + 1
    /\ \A r, s \in Slots : IsHead(r) /\ IsHead(s) /\ Number(r) = Number(s) => r = s
    /\ \A s \in Slots : Pending(s) /\ ctxt[s] =>
          \E r \in Slots : IsHead(r) /\ tsa[r] /\ s = Following(r)

\* Gmac_Ip_ReadFrame looks at the first of them.
Front(h) ==
    /\ h = Len(arrived) => rxCurrent = dma
    /\ h # Len(arrived) => IsHead(rxCurrent) /\ Number(rxCurrent) = h + 1

\* Frame h is at hand, or was the last one that was.
AtHand(h) ==
    /\ pc = "indicate" => h # 0 /\ content[frameBuffer] = h /\ ~arrived[h]
    /\ pc \in {"indicate", "release"} /\ tsa[rxAlloc] =>
          ~own[Following(rxAlloc)] /\ ctxt[Following(rxAlloc)]

\* The good ones of the first h have been indicated, in order.
Indications(h) ==
    /\ \A i, j \in DOMAIN indicated : i < j => indicated[i] < indicated[j]
    /\ \A n \in Nat : IsIndicated(n) <=>
           IsGood(n) /\ n <= (IF pc = "indicate" THEN h - 1 ELSE h)

\* An interrupt is pending, or running, as long as there is something to do.
Wakes(h) ==
    /\ pc = "idle" /\ ~ri => h = Len(arrived)
    /\ suspended => h # Len(arrived) \/ pc \notin {"idle", "read"}

Order(h) == Chain(h) /\ Front(h) /\ AtHand(h) /\ Indications(h) /\ Wakes(h)

OrderInv ==
    downs = 0 => mpc = "up" /\ \E h \in 0 .. Len(arrived) : Order(h)

IInv ==
    /\ ModeTypeOK
    /\ PosInv
    /\ BufferInv
    /\ DownIsClean
    /\ OrderInv

-----------------------------------------------------------------------------
\* Walking round the ring.
LEMMA RingSteps ==
    /\ \A s \in Slots : Following(s) \in Slots /\ Following(s) # s
    /\ \A r, s \in Slots : Following(r) = Following(s) => r = s
    /\ \A s \in Slots : s # NULL /\ s # Status /\ s \in Nat
    /\ 0 \in Slots
  <1>0. PICK L \in Nat \ {0, 1} : L = RingSize
    BY RxRingAssumption
  <1>1. \A s \in 0..(L - 1) : (s + 1) % L = IF s + 1 < L THEN s + 1 ELSE 0
    BY SMT
  <1>2. \A s \in 0..(L - 1) : Following(s) = IF s + 1 < L THEN s + 1 ELSE 0
    BY <1>0, <1>1 DEF Following
  <1>3. /\ \A s \in 0..(L - 1) : Following(s) \in 0..(L - 1) /\ Following(s) # s
        /\ \A r, s \in 0..(L - 1) : Following(r) = Following(s) => r = s
        /\ 0 \in 0..(L - 1)
    BY <1>2
  <1> QED
    BY <1>0, <1>3, RxRingAssumption DEF Slots

\* The read position stays in the ring.
LEMMA AfterType ==
    ASSUME NEW s \in Slots
    PROVE  After(s) \in Slots
  BY RingSteps DEF After

\* A descriptor of the DMA points to its buffer.
LEMMA OwnedHaveBuffers ==
    ASSUME TypeOK, PosInv, BufferInv, NEW s \in Slots, own[s]
    PROVE  des0[s] = info0[s] /\ info0[s] \in Slots /\ info0[s] # NULL
  <1>1. info0[s] # NULL
    BY Zenon DEF PosInv, BufferInv
  <1> QED
    BY <1>1 DEF TypeOK, BufferInv, Buffers

\* A step of the Rx interrupt or of the DMA keeps the types.
LEMMA DriverTypes ==
    ASSUME ModeTypeOK, PosInv, BufferInv, IrqStep \/ DmaStep
    PROVE  TypeOK'
  <1> USE DEF TypeOK, IrqPositions, Buffers
  <1>0. TypeOK
    BY DEF ModeTypeOK
  <1>1. CASE RxIrqEnter \/ RxIrqExit
    BY <1>0, <1>1 DEF RxIrqEnter, RxIrqExit, descriptors, positions, hardware
  <1>2. CASE ReadFrame
    <2>1. rxCurrent' \in Slots /\ pc' \in {"release", "indicate"}
      BY <1>0, <1>2, AfterType DEF ReadFrame, ReadPosition, After
    <2>2. info0' \in [Slots -> Slots \cup {NULL}] /\ frameBuffer' \in Slots \cup {NULL}
      BY <1>0, <1>2 DEF ReadFrame
    <2>3. consumed' \in [Slots -> BOOLEAN]
      BY <1>0, <1>2, Zenon DEF ReadFrame
    <2> QED
      BY <1>0, <1>2, <2>1, <2>2, <2>3 DEF ReadFrame, hardware
  <1>3. CASE RxIndication
    <2>1. frameBuffer \in Slots
      BY <1>0, <1>3 DEF RxIndication, BufferInv, Busy
    <2>2. indicated' \in Seq(Nat)
      BY <1>0, <1>3, <2>1 DEF RxIndication
    <2> QED
      BY <1>0, <1>3, <2>2 DEF RxIndication, descriptors, positions, hardware
  <1>4. CASE RestoreRxCtxtDescr
    <2>1. Following(rxAlloc) \in Slots
      BY <1>0, RingSteps
    <2>2. /\ own' \in [Slots -> BOOLEAN] /\ ctxt' \in [Slots -> BOOLEAN]
          /\ tsa' \in [Slots -> BOOLEAN] /\ err' \in [Slots -> BOOLEAN]
          /\ consumed' \in [Slots -> BOOLEAN]
      BY <1>0, <1>4, <2>1, Zenon DEF RestoreRxCtxtDescr
    <2>3. des0' \in [Slots -> Slots \cup {Status}] /\ rxAlloc' \in Slots
      BY <1>0, <1>4, <2>1 DEF RestoreRxCtxtDescr, RestoredDes0
    <2> QED
      BY <1>0, <1>4, <2>2, <2>3 DEF RestoreRxCtxtDescr, hardware
  <1>5. CASE FillDescriptor
    <2>1. frameBuffer \in Slots
      BY <1>0, <1>5 DEF FillDescriptor, BufferInv, Busy
    <2>2. tsa' \in [Slots -> BOOLEAN] /\ consumed' \in [Slots -> BOOLEAN]
      BY <1>0, <1>5, Zenon DEF FillDescriptor
    <2>3. des0' \in [Slots -> Slots \cup {Status}] /\ info0' \in [Slots -> Slots \cup {NULL}]
      BY <1>0, <1>5, <2>1 DEF FillDescriptor
    <2> QED
      BY <1>0, <1>5, <2>2, <2>3 DEF FillDescriptor, positions, hardware
  <1>6. CASE GiveDescriptor
    <2>1. /\ own' \in [Slots -> BOOLEAN] /\ ctxt' \in [Slots -> BOOLEAN]
          /\ err' \in [Slots -> BOOLEAN]
      BY <1>0, <1>6, Zenon DEF GiveDescriptor
    <2>2. rxAlloc' \in Slots
      BY <1>0, <1>6, RingSteps DEF GiveDescriptor
    <2> QED
      BY <1>0, <1>6, <2>1, <2>2 DEF GiveDescriptor, hardware
  <1>7. CASE WriteTail
    BY <1>0, <1>7 DEF WriteTail, descriptors, positions
  <1>8. ASSUME NEW isStamped \in BOOLEAN, NEW isBad \in BOOLEAN, DmaReceive(isStamped, isBad)
        PROVE  TypeOK'
    <2>1. own[dma] /\ des0[dma] \in Slots
      <3>1. own[dma] /\ dma \in Slots
        BY <1>0, <1>8 DEF DmaReceive, Used
      <3> QED
        BY <1>0, <3>1, OwnedHaveBuffers
    <2>2. /\ own' \in [Slots -> BOOLEAN] /\ ctxt' \in [Slots -> BOOLEAN]
          /\ tsa' \in [Slots -> BOOLEAN] /\ err' \in [Slots -> BOOLEAN]
      BY <1>0, <1>8 DEF DmaReceive
    <2>3. des0' \in [Slots -> Slots \cup {Status}] /\ dma' \in Slots
      BY <1>0, <1>8, RingSteps DEF DmaReceive
    <2>4. content' \in [Slots -> Nat] /\ arrived' \in Seq(BOOLEAN)
      BY <1>0, <1>8, <2>1 DEF DmaReceive
    <2> QED
      BY <1>0, <1>8, <2>2, <2>3, <2>4 DEF DmaReceive, positions, handler
  <1>9. CASE DmaSuspend
    BY <1>0, <1>9 DEF DmaSuspend, descriptors, positions, handler
  <1> QED
    BY <1>1, <1>2, <1>3, <1>4, <1>5, <1>6, <1>7, <1>8, <1>9 DEF IrqStep, DmaStep

\* A step of a mode change, or an interrupt that finds the controller off.
LEMMA ModeTypes ==
    ASSUME ModeTypeOK, PosInv, BufferInv, [ModeNext]_modeVars
    PROVE  ModeTypeOK'
  <1>0. TypeOK
    BY DEF ModeTypeOK
  <1>1. CASE DisableMac
    <2>1. UNCHANGED vars /\ downs + 1 \in 0..MaxDowns
      BY <1>1, MaxDownsAssumption DEF DisableMac, ModeTypeOK
    <2>2. TypeOK'
      BY <1>0, <2>1 DEF TypeOK, vars, descriptors, positions, hardware, handler
    <2> QED
      BY <1>1, <2>1, <2>2 DEF DisableMac, ModeTypeOK
  <1>2. CASE StopRxDma \/ RxDrainTimeout
    <2>1. TypeOK'
      BY <1>0, <1>2 DEF StopRxDma, RxDrainTimeout, TypeOK, vars, descriptors, positions,
         hardware, handler
    <2> QED
      BY <1>2, <2>1 DEF StopRxDma, RxDrainTimeout, ModeTypeOK
  <1>3. CASE RestoreRxDescr
    <2>1. \A s \in Slots : info0[s] \in Slots
      BY <1>0, <1>3 DEF RestoreRxDescr, inIrq, BufferInv, Busy, TypeOK, Buffers
    <2>2. des0' \in [Slots -> Slots \cup {Status}]
      BY <1>0, <1>3, <2>1 DEF RestoreRxDescr, TypeOK
    <2>3. /\ own' \in [Slots -> BOOLEAN] /\ ctxt' \in [Slots -> BOOLEAN]
          /\ tsa' \in [Slots -> BOOLEAN] /\ err' \in [Slots -> BOOLEAN]
          /\ consumed' \in [Slots -> BOOLEAN]
      BY <1>3 DEF RestoreRxDescr
    <2>4. TypeOK'
      BY <1>0, <1>3, <2>2, <2>3 DEF RestoreRxDescr, TypeOK, Buffers, positions, hardware, handler
    <2> QED
      BY <1>3, <2>4 DEF RestoreRxDescr, ModeTypeOK
  <1>4. CASE EnableController
    <2>1. TypeOK'
      BY <1>0, <1>4 DEF EnableController, TypeOK, descriptors, positions, handler
    <2> QED
      BY <1>4, <2>1 DEF EnableController, ModeTypeOK
  <1>5. CASE (IrqStep \/ DmaStep) /\ UNCHANGED mode
    BY <1>5, DriverTypes DEF ModeTypeOK, mode
  <1>6. CASE ReceiveRefused /\ UNCHANGED mode
    <2>1. TypeOK'
      BY <1>0, <1>6 DEF ReceiveRefused, RxIrqEnter, TypeOK, IrqPositions, descriptors, positions,
         hardware
    <2> QED
      BY <1>6, <2>1 DEF ModeTypeOK, mode
  <1>7. CASE UNCHANGED modeVars
    BY <1>0, <1>7 DEF ModeTypeOK, TypeOK, modeVars, mode, vars, descriptors, positions, hardware,
       handler
  <1> QED
    BY <1>1, <1>2, <1>3, <1>4, <1>5, <1>6, <1>7 DEF ModeNext, SetControllerMode, Receives

-----------------------------------------------------------------------------
\* Steps that move no buffer: the descriptors, the positions and the buffer at
\* hand stay, and the interrupt stays where they are the same.
LEMMA NoBufferMoves ==
    ASSUME PosInv, BufferInv, UNCHANGED <<descriptors, positions, bd>>,
           \/ pc \in {"idle", "read", "tail"} /\ pc' \in {"idle", "read", "tail"}
           \/ UNCHANGED <<pc, frameBuffer>>
           \/ pc = "indicate" /\ pc' = "release" /\ UNCHANGED frameBuffer
    PROVE  PosInv' /\ BufferInv'
  <1>1. UNCHANGED <<own, tsa, consumed, des0, info0, rxCurrent, rxAlloc, bd>>
    BY Zenon DEF descriptors, positions
  <1>2. \A s : After(s)' = After(s)
    BY <1>1, Zenon DEF After, Following
  <1>3. CASE pc \in {"idle", "read", "tail"} /\ pc' \in {"idle", "read", "tail"}
    BY <1>1, <1>3 DEF PosInv, BufferInv, Busy, Handled
  <1>4. CASE UNCHANGED <<pc, frameBuffer>>
    BY <1>1, <1>2, <1>4, Zenon DEF PosInv, BufferInv, Busy, Handled, Following
  <1>5. CASE pc = "indicate" /\ pc' = "release" /\ UNCHANGED frameBuffer
    BY <1>1, <1>2, <1>5 DEF PosInv, BufferInv, Busy, Handled, Following
  <1> QED
    BY <1>3, <1>4, <1>5

\* Gmac_Ip_ReadFrame takes the buffer from the descriptor the next
\* Gmac_Ip_ProvideRxBuff will refill.
LEMMA ReadFrameBuffers ==
    ASSUME TypeOK, PosInv, BufferInv, ReadFrame
    PROVE  PosInv' /\ BufferInv'
  <1>1. /\ pc = "read" /\ ~own[rxCurrent] /\ info0[rxCurrent] # NULL /\ rxCurrent = rxAlloc
        /\ frameBuffer' = info0[rxCurrent]
        /\ info0' = [info0 EXCEPT ![rxCurrent] = NULL]
        /\ rxCurrent' = After(rxAlloc) /\ pc' \in {"release", "indicate"}
        /\ UNCHANGED <<own, tsa, des0, rxAlloc, bd>>
    BY DEF ReadFrame, RxQueueEmpty, ReadPosition, After, PosInv
  <1>2. After(rxAlloc)' = After(rxAlloc) /\ Handled' = rxAlloc
    BY <1>1 DEF After, Following, Handled
  <1>3. PosInv'
    BY <1>1, <1>2 DEF PosInv, Busy
  <1>4. \A s \in Slots : info0'[s] = IF s = rxAlloc THEN NULL ELSE info0[s]
    BY <1>1 DEF TypeOK
  <1>5. \A s \in Slots : info0[s] # NULL
    BY <1>1 DEF BufferInv, Busy
  <1>6. \A s \in Slots : own'[s] => ~consumed'[s]
    BY <1>1 DEF ReadFrame, BufferInv, TypeOK
  <1> QED
    BY <1>1, <1>2, <1>3, <1>4, <1>5, <1>6 DEF BufferInv, Busy, TypeOK

\* Gmac_Ip_RestoreRxCtxtDescr gives the context descriptor its own buffer back.
LEMMA RestoreCtxtBuffers ==
    ASSUME TypeOK, PosInv, BufferInv, RestoreRxCtxtDescr
    PROVE  PosInv' /\ BufferInv'
  <1> DEFINE ctx == Following(rxAlloc)
  <1>1. /\ pc = "release" /\ pc' = "fill" /\ bd' = rxAlloc
        /\ ~own[rxAlloc] /\ rxCurrent = After(rxAlloc)
        /\ ctx \in Slots /\ ctx # rxAlloc /\ info0[ctx] # NULL
        /\ UNCHANGED <<info0, rxCurrent, frameBuffer>>
    BY RingSteps DEF RestoreRxCtxtDescr, PosInv, BufferInv, Busy, Handled, TypeOK
  <1>2. Handled' = rxAlloc /\ Handled = rxAlloc
    BY <1>1 DEF Handled
  <1>3. CASE tsa[rxAlloc]
    <2>1. /\ own' = [own EXCEPT ![ctx] = TRUE] /\ rxAlloc' = ctx
          /\ consumed' = [consumed EXCEPT ![ctx] = FALSE]
          /\ des0' = [des0 EXCEPT ![ctx] = info0[ctx]]
      BY <1>1, <1>3 DEF RestoreRxCtxtDescr, RestoredDes0
    <2>2. rxCurrent = Following(ctx) /\ ~own'[rxAlloc]
      BY <1>1, <1>3, <2>1 DEF After, TypeOK
    <2>3. PosInv'
      BY <1>1, <1>2, <2>1, <2>2 DEF PosInv, Busy, Following
    <2>4. \A s \in Slots : own'[s] => des0'[s] = info0'[s] /\ ~consumed'[s]
      BY <1>1, <2>1 DEF BufferInv, TypeOK
    <2> QED
      BY <1>1, <1>2, <2>3, <2>4 DEF BufferInv, Busy
  <1>4. CASE ~tsa[rxAlloc]
    <2>1. UNCHANGED <<own, consumed, des0, rxAlloc>>
      BY <1>1, <1>4 DEF RestoreRxCtxtDescr
    <2>2. PosInv'
      BY <1>1, <1>2, <1>4, <2>1 DEF PosInv, Busy, Following, After
    <2> QED
      BY <1>1, <1>2, <2>1, <2>2 DEF BufferInv, Busy
  <1> QED
    BY <1>3, <1>4

\* The refill puts the buffer into the one descriptor without a buffer.
LEMMA FillBuffers ==
    ASSUME TypeOK, PosInv, BufferInv, FillDescriptor
    PROVE  PosInv' /\ BufferInv'
  <1>1. /\ pc = "fill" /\ pc' = "give" /\ ~own[bd] /\ info0[bd] = NULL
        /\ rxCurrent = Following(rxAlloc)
        /\ frameBuffer # NULL /\ \A s \in Slots : info0[s] # frameBuffer
        /\ UNCHANGED <<own, rxCurrent, rxAlloc, bd, frameBuffer>>
    BY DEF FillDescriptor, PosInv, BufferInv, Busy, Handled, TypeOK, positions
  <1>2. Handled' = bd /\ Handled = bd
    BY <1>1 DEF Handled
  <1>3. PosInv'
    BY <1>1, <1>2 DEF PosInv, Busy, Following
  <1>4. /\ \A s \in Slots : info0'[s] = IF s = bd THEN frameBuffer ELSE info0[s]
        /\ \A s \in Slots : des0'[s] = IF s = bd THEN frameBuffer ELSE des0[s]
        /\ \A s \in Slots : consumed'[s] <=> consumed[s] /\ s # bd
    BY DEF FillDescriptor, TypeOK
  <1>5. \A s \in Slots : own'[s] => des0'[s] = info0'[s] /\ ~consumed'[s]
    BY <1>1, <1>4 DEF BufferInv
  <1>6. \A s \in Slots : info0'[s] # NULL
    BY <1>1, <1>2, <1>4 DEF BufferInv
  <1>7. \A r, s \in Slots : info0'[r] = info0'[s] => r = s
    BY <1>1, <1>4 DEF BufferInv
  <1>8. \A b \in Buffers : \E s \in Slots : info0'[s] = b
    <2> SUFFICES ASSUME NEW b \in Buffers PROVE \E s \in Slots : info0'[s] = b
      OBVIOUS
    <2>1. b # NULL
      BY RingSteps DEF Buffers
    <2>2. CASE frameBuffer = b
      BY <1>4, <2>2 DEF TypeOK
    <2>3. CASE frameBuffer # b
      <3>1. PICK s \in Slots : info0[s] = b
        BY <2>3 DEF BufferInv
      <3> QED
        BY <1>1, <1>4, <2>1, <3>1
    <2> QED
      BY <2>2, <2>3
  <1>9. des0'[bd'] = info0'[bd'] /\ ~consumed'[bd']
    BY <1>1, <1>4 DEF TypeOK
  <1> QED
    BY <1>1, <1>3, <1>5, <1>6, <1>7, <1>8, <1>9 DEF BufferInv, Busy

\* The descriptor that is given back has its buffer.
LEMMA GiveBuffers ==
    ASSUME TypeOK, PosInv, BufferInv, GiveDescriptor
    PROVE  PosInv' /\ BufferInv'
  <1>1. /\ pc = "give" /\ pc' = "tail" /\ rxCurrent = Following(rxAlloc)
        /\ rxAlloc' = Following(rxAlloc) /\ des0[bd] = info0[bd] /\ ~consumed[bd]
        /\ UNCHANGED <<consumed, des0, info0, rxCurrent>>
    BY DEF GiveDescriptor, PosInv, BufferInv
  <1>2. \A s \in Slots : own'[s] = (own[s] \/ s = bd)
    BY DEF GiveDescriptor, TypeOK
  <1> QED
    BY <1>1, <1>2 DEF PosInv, BufferInv, Busy, TypeOK

\* The DMA takes descriptors it owns, and never the one being refilled.
LEMMA DmaBuffers ==
    ASSUME TypeOK, PosInv, BufferInv, NEW isStamped, NEW isBad,
           DmaReceive(isStamped, isBad)
    PROVE  PosInv' /\ BufferInv'
  <1>1. UNCHANGED <<consumed, info0, rxCurrent, rxAlloc, pc, frameBuffer, bd>>
    BY DEF DmaReceive, positions, handler
  <1>2. \A s \in Slots : /\ own'[s] = (own[s] /\ s \notin Used(isStamped))
                         /\ s \in Used(isStamped) => own[s]
                         /\ s \notin Used(isStamped) => des0'[s] = des0[s] /\ tsa'[s] = tsa[s]
    BY DEF DmaReceive
  <1>3. Handled' = Handled /\ Handled \in Slots /\ rxAlloc \in Slots
    BY <1>1 DEF Handled, TypeOK
  <1>4. pc \in {"indicate", "release"} => After(rxAlloc)' = After(rxAlloc)
    BY <1>1, <1>2, <1>3 DEF After, Following, PosInv, Busy, Handled
  <1>5. PosInv'
    BY <1>1, <1>2, <1>3, <1>4 DEF PosInv, Following, Busy
  <1>6. pc = "give" => des0'[bd] = info0[bd] /\ ~consumed[bd]
    BY <1>1, <1>2, <1>3 DEF PosInv, BufferInv, Busy, Handled
  <1> QED
    BY <1>1, <1>2, <1>3, <1>5, <1>6 DEF BufferInv

\* Every step keeps the buffers apart, and a mode change that ends with E_OK
\* leaves the ring as it was at initialisation.
LEMMA BufferStep ==
    ASSUME ModeTypeOK, PosInv, BufferInv, DownIsClean, [ModeNext]_modeVars
    PROVE  PosInv' /\ BufferInv' /\ DownIsClean'
  <1>0. TypeOK
    BY DEF ModeTypeOK
  <1>1. CASE DisableMac \/ StopRxDma \/ RxDrainTimeout
    <2>1. UNCHANGED <<descriptors, positions, bd, pc, frameBuffer>> /\ ~(mpc' = "down" /\ clean')
      BY <1>1, Zenon DEF DisableMac, StopRxDma, RxDrainTimeout, vars, handler
    <2> QED
      BY <2>1, NoBufferMoves DEF DownIsClean
  <1>2. CASE RestoreRxDescr
    <2>1. /\ pc = "idle" /\ UNCHANGED <<info0, rxCurrent, rxAlloc, pc, frameBuffer, bd>>
          /\ des0' = info0
          /\ \A s \in Slots : info0[s] # NULL
          /\ \A s \in Slots : own'[s] = (info0[s] # NULL) /\ ~consumed'[s]
      BY <1>0, <1>2 DEF RestoreRxDescr, BufferInv, Busy, inIrq, positions, handler
    <2>2. PosInv'
      BY <2>1 DEF PosInv, Busy
    <2>3. BufferInv'
      BY <2>1 DEF BufferInv, Busy
    <2> QED
      BY <2>1, <2>2, <2>3 DEF DownIsClean
  <1>3. CASE EnableController
    <2>1. UNCHANGED <<descriptors, positions, bd, pc, frameBuffer>> /\ mpc' # "down"
      BY <1>3, Zenon DEF EnableController, handler
    <2> QED
      BY <2>1, NoBufferMoves DEF DownIsClean
  <1>4. CASE Receives /\ UNCHANGED mode
    <2>1. DownIsClean'
      BY <1>4 DEF Receives, ControllerIsActive, mode, DownIsClean
    <2>2. CASE RxIrqEnter \/ RxIrqExit \/ WriteTail
      <3>1. /\ UNCHANGED <<descriptors, positions, bd>>
            /\ pc \in {"idle", "read", "tail"} /\ pc' \in {"idle", "read", "tail"}
        BY <2>2, Zenon DEF RxIrqEnter, RxIrqExit, WriteTail
      <3> QED
        BY <2>1, <3>1, NoBufferMoves
    <2>3. CASE RxIndication
      <3>1. /\ UNCHANGED <<descriptors, positions, bd, frameBuffer>>
            /\ pc = "indicate" /\ pc' = "release"
        BY <2>3, Zenon DEF RxIndication
      <3> QED
        BY <2>1, <3>1, NoBufferMoves
    <2> QED
      BY <1>0, <1>4, <2>1, <2>2, <2>3, ReadFrameBuffers, RestoreCtxtBuffers, FillBuffers,
         GiveBuffers DEF Receives, IrqStep
  <1>5. CASE ReceiveRefused /\ UNCHANGED mode
    <2>1. /\ UNCHANGED <<descriptors, positions, bd>>
          /\ pc \in {"idle", "read"} /\ pc' \in {"idle", "read"}
      BY <1>5, Zenon DEF ReceiveRefused, RxIrqEnter
    <2>2. DownIsClean'
      BY <1>5, <2>1, Zenon DEF DownIsClean, mode, descriptors
    <2> QED
      BY <2>1, <2>2, NoBufferMoves
  <1>6. CASE mpc \in {"up", "mac_off"} /\ DmaStep /\ UNCHANGED mode
    <2>1. DownIsClean'
      BY <1>6 DEF mode, DownIsClean
    <2>2. CASE DmaSuspend
      <3>1. UNCHANGED <<descriptors, positions, bd, pc, frameBuffer>>
        BY <2>2, Zenon DEF DmaSuspend, handler
      <3> QED
        BY <2>1, <3>1, NoBufferMoves
    <2> QED
      BY <1>0, <1>6, <2>1, <2>2, DmaBuffers DEF DmaStep
  <1>7. CASE UNCHANGED modeVars
    <2>1. UNCHANGED <<descriptors, positions, bd, pc, frameBuffer, mode>>
      BY <1>7, Zenon DEF modeVars, vars, handler
    <2>2. DownIsClean'
      BY <2>1, Zenon DEF DownIsClean, descriptors, mode
    <2> QED
      BY <2>1, <2>2, NoBufferMoves
  <1> QED
    BY <1>1, <1>2, <1>3, <1>4, <1>5, <1>6, <1>7 DEF ModeNext, SetControllerMode

-----------------------------------------------------------------------------
\* A step that leaves the descriptors of waiting frames alone leaves the chain.
LEMMA ChainSame ==
    ASSUME TypeOK, NEW h \in Nat, Chain(h), UNCHANGED <<arrived, dma>>,
           \A s \in Slots : Pending(s)' <=> Pending(s),
           \A s \in Slots : Pending(s) =>
               /\ (ctxt'[s] <=> ctxt[s]) /\ (tsa'[s] <=> tsa[s]) /\ err'[s] = err[s]
               /\ (consumed'[s] <=> consumed[s]) /\ Number(s)' = Number(s)
    PROVE  /\ Chain(h)'
           /\ \A s \in Slots : IsHead(s)' <=> IsHead(s)
  <1>1. \A s \in Slots : IsHead(s)' <=> IsHead(s)
    BY Zenon DEF IsHead
  <1>2. \A s \in Slots : IsHead(s) => Pending(s)
    BY DEF IsHead
  <1>3. \A s \in Slots : Pending(s) => After(s)' = After(s) /\ After(s) \in Slots
    BY AfterType DEF After, Following
  <1>4. \A s : Following(s)' = Following(s)
    BY DEF Following
  <1>5. ASSUME NEW s \in Slots, IsHead(s)'
        PROVE  /\ Number(s)' \in h + 1 .. Len(arrived')
               /\ ~consumed'[s]
               /\ err'[s] = arrived'[Number(s)']
               /\ tsa'[s] => Pending(Following(s))' /\ ctxt'[Following(s)]
               /\ Number(s)' = Len(arrived') => After(s)' = dma'
               /\ Number(s)' # Len(arrived') => /\ IsHead(After(s))'
                                                /\ Number(After(s))' = Number(s)' + 1
    <2>1. /\ IsHead(s) /\ Pending(s) /\ Number(s)' = Number(s) /\ After(s)' = After(s)
          /\ After(s) \in Slots /\ Following(s) \in Slots
          /\ (consumed'[s] <=> consumed[s]) /\ err'[s] = err[s] /\ (tsa'[s] <=> tsa[s])
      BY <1>1, <1>2, <1>3, <1>5, RingSteps, Zenon
    <2>2. /\ Number(s)' \in h + 1 .. Len(arrived') /\ ~consumed'[s]
          /\ err'[s] = arrived'[Number(s)']
          /\ Number(s)' = Len(arrived') => After(s)' = dma'
      <3>1. /\ Number(s) \in h + 1 .. Len(arrived) /\ ~consumed[s]
            /\ err[s] = arrived[Number(s)]
            /\ Number(s) = Len(arrived) => After(s) = dma
        BY <2>1, Zenon DEF Chain
      <3>2. arrived' = arrived /\ dma' = dma
        OBVIOUS
      <3> QED
        BY <2>1, <3>1, <3>2
    <2>3. tsa'[s] => Pending(Following(s))' /\ ctxt'[Following(s)]
      BY <2>1, Zenon DEF Chain
    <2>4. Number(s)' # Len(arrived') => IsHead(After(s)) /\ Number(After(s)) = Number(s) + 1
      BY <2>1, Zenon DEF Chain
    <2>5. Number(s)' # Len(arrived') => /\ IsHead(After(s))'
                                        /\ Number(After(s))' = Number(s)' + 1
      <3> SUFFICES ASSUME Number(s)' # Len(arrived')
                   PROVE  IsHead(After(s))' /\ Number(After(s))' = Number(s)' + 1
        OBVIOUS
      <3>1. PICK a \in Slots : a = After(s)
        BY <2>1
      <3>2. IsHead(a)' /\ Number(a)' = Number(a) /\ Number(a) = Number(s) + 1
        BY <1>1, <1>2, <2>4, <3>1, Zenon
      <3>3. IsHead(After(s))' <=> IsHead(a)'
        BY <2>1, <3>1, Zenon DEF IsHead, Pending, Mine
      <3>4. Number(After(s))' = Number(a)'
        BY <2>1, <3>1, Zenon DEF Number
      <3> QED
        BY <2>1, <3>2, <3>3, <3>4, Zenon
    <2> QED
      BY <2>2, <2>3, <2>5
  <1>6. \A r, s \in Slots : IsHead(r)' /\ IsHead(s)' /\ Number(r)' = Number(s)' => r = s
    BY <1>1, <1>2, Zenon DEF Chain
  <1>7. ASSUME NEW s \in Slots, Pending(s)', ctxt'[s]
        PROVE  \E r \in Slots : IsHead(r)' /\ tsa'[r] /\ s = Following(r)
    <2>1. Pending(s) /\ ctxt[s]
      BY <1>7, Zenon
    <2>2. PICK r \in Slots : IsHead(r) /\ tsa[r] /\ s = Following(r)
      BY <2>1 DEF Chain
    <2> QED
      BY <1>1, <1>2, <2>2, Zenon
  <1>8. Chain(h)'
    BY <1>5, <1>6, <1>7, Zenon DEF Chain, Following
  <1> QED
    BY <1>1, <1>8

\* When every frame has been read, every descriptor the interrupt has not at
\* hand is the DMA's.
LEMMA AllOwned ==
    ASSUME TypeOK, Chain(Len(arrived)), NEW s \in Slots
    PROVE  ~Pending(s)
  <1>1. Len(arrived) \in Nat
    BY DEF TypeOK
  <1>2. \A r \in Slots : ~IsHead(r)
    BY <1>1 DEF Chain
  <1> QED
    BY <1>2 DEF Chain, IsHead

\* The front of the chain stays with it.
LEMMA FrontSame ==
    ASSUME NEW h \in Nat, Front(h), UNCHANGED <<arrived, dma, rxCurrent>>, rxCurrent \in Slots,
           \A s \in Slots : IsHead(s)' <=> IsHead(s),
           \A s \in Slots : IsHead(s) => Number(s)' = Number(s)
    PROVE  Front(h)'
  <1>1. PICK c \in Slots : c = rxCurrent /\ c = rxCurrent'
    OBVIOUS
  <1>2. (IsHead(rxCurrent)' <=> IsHead(c)') /\ Number(rxCurrent)' = Number(c)'
    BY <1>1, Zenon DEF IsHead, Pending, Mine, Number
  <1> QED
    BY <1>1, <1>2, Zenon DEF Front

\* Nothing is indicated in this step, and no frame is passed over.
LEMMA IndicationsSame ==
    ASSUME NEW h \in Nat, Indications(h), UNCHANGED <<arrived, indicated>>,
           pc # "indicate", pc' # "indicate"
    PROVE  Indications(h)'
  BY Zenon DEF Indications, IsIndicated, IsGood

\* A step of the interrupt that neither reads nor indicates a frame.
LEMMA QuietOrder ==
    ASSUME TypeOK, NEW h \in Nat, Order(h),
           UNCHANGED <<arrived, dma, rxCurrent, indicated>>, pc # "indicate", pc' # "indicate",
           \A s \in Slots : Pending(s)' <=> Pending(s),
           \A s \in Slots : Pending(s) =>
               /\ (ctxt'[s] <=> ctxt[s]) /\ (tsa'[s] <=> tsa[s]) /\ err'[s] = err[s]
               /\ (consumed'[s] <=> consumed[s]) /\ Number(s)' = Number(s)
    PROVE  Chain(h)' /\ Front(h)' /\ Indications(h)'
  <1>1. Chain(h)' /\ \A s \in Slots : IsHead(s)' <=> IsHead(s)
    BY ChainSame DEF Order
  <1>2. \A s \in Slots : IsHead(s) => Number(s)' = Number(s)
    BY DEF IsHead
  <1>3. Front(h)'
    BY <1>1, <1>2, FrontSame DEF Order, TypeOK
  <1> QED
    BY <1>1, <1>3, IndicationsSame DEF Order

\* The beginning and the end of the interrupt, and the write of the tail
\* pointer.  The interrupt ends only when every frame has been read.
LEMMA IdleOrder ==
    ASSUME TypeOK, BufferInv, NEW h \in 0..Len(arrived), Order(h),
           RxIrqEnter \/ RxIrqExit \/ WriteTail
    PROVE  Order(h)'
  <1>0. h \in Nat
    BY DEF TypeOK
  <1>1. /\ UNCHANGED <<own, ctxt, tsa, err, consumed, info0, rxCurrent, dma, content, arrived,
                       indicated>>
        /\ pc \in {"idle", "read", "tail"} /\ pc' \in {"idle", "read"}
    BY DEF RxIrqEnter, RxIrqExit, WriteTail, descriptors, positions, hardware
  <1>2. \A s : (Pending(s)' <=> Pending(s)) /\ Number(s)' = Number(s)
    BY <1>1 DEF Pending, Mine, Busy, Number
  <1>3. Chain(h)' /\ Front(h)' /\ Indications(h)'
    BY <1>0, <1>1, <1>2, QuietOrder
  <1>4. AtHand(h)'
    BY <1>1 DEF AtHand
  <1>5. Wakes(h)'
    <2>1. CASE RxIrqEnter
      BY <1>1, <2>1 DEF RxIrqEnter, Wakes, Order
    <2>2. CASE RxIrqExit
      <3>1. h = Len(arrived)
        <4> SUFFICES ASSUME h # Len(arrived) PROVE FALSE
          OBVIOUS
        <4>1. IsHead(rxCurrent) /\ rxCurrent \in Slots
          BY DEF Order, Front, TypeOK
        <4>2. ~own[rxCurrent] /\ ~consumed[rxCurrent]
          BY <4>1 DEF Order, Chain, IsHead, Pending
        <4>3. info0[rxCurrent] # NULL
          BY <2>2, <4>1 DEF RxIrqExit, BufferInv, Busy
        <4> QED
          BY <2>2, <4>2, <4>3 DEF RxIrqExit, RxQueueEmpty
      <3> QED
        BY <1>1, <2>2, <3>1 DEF RxIrqExit, Wakes, Order, hardware
    <2>3. CASE WriteTail
      BY <2>3 DEF WriteTail, Wakes
    <2> QED
      BY <2>1, <2>2, <2>3
  <1> QED
    BY <1>3, <1>4, <1>5 DEF Order

\* Gmac_Ip_RestoreRxCtxtDescr touches the context descriptor of the frame at
\* hand and no other.
LEMMA RestoreOrder ==
    ASSUME TypeOK, PosInv, BufferInv, NEW h \in 0..Len(arrived), Order(h), RestoreRxCtxtDescr
    PROVE  Order(h)'
  <1>0. h \in Nat
    BY DEF TypeOK
  <1> DEFINE ctx == Following(rxAlloc)
  <1>1. /\ pc = "release" /\ pc' = "fill" /\ bd' = rxAlloc
        /\ ctx \in Slots /\ ctx # rxAlloc /\ info0[ctx] # NULL /\ ~own[rxAlloc]
        /\ UNCHANGED <<info0, rxCurrent, dma, suspended, ri, content, arrived, indicated>>
    BY RingSteps DEF RestoreRxCtxtDescr, PosInv, BufferInv, Busy, Handled, TypeOK, hardware
  <1>2. \A s \in Slots : /\ Mine(s) <=> s = rxAlloc \/ (tsa[rxAlloc] /\ s = ctx)
                         /\ Mine(s)' <=> s = rxAlloc
                         /\ Number(s)' = Number(s)
    BY <1>1 DEF Mine, Busy, Handled, Number
  <1>3. \A s \in Slots : ~(tsa[rxAlloc] /\ s = ctx) =>
            /\ own'[s] = own[s] /\ ctxt'[s] = ctxt[s] /\ tsa'[s] = tsa[s]
            /\ err'[s] = err[s] /\ consumed'[s] = consumed[s]
    BY <1>1 DEF RestoreRxCtxtDescr, TypeOK
  <1>4. tsa[rxAlloc] => own'[ctx]
    BY <1>1 DEF RestoreRxCtxtDescr, TypeOK
  <1>5. \A s \in Slots : Pending(s)' <=> Pending(s)
    BY <1>2, <1>3, <1>4 DEF Pending
  <1>6. \A s \in Slots : Pending(s) =>
            /\ (ctxt'[s] <=> ctxt[s]) /\ (tsa'[s] <=> tsa[s]) /\ err'[s] = err[s]
            /\ (consumed'[s] <=> consumed[s]) /\ Number(s)' = Number(s)
    BY <1>2, <1>3 DEF Pending
  <1>7. Chain(h)' /\ Front(h)' /\ Indications(h)'
    BY <1>0, <1>1, <1>5, <1>6, QuietOrder
  <1> QED
    BY <1>1, <1>7 DEF Order, AtHand, Wakes

\* The refill and the store of Des3 touch the descriptor at hand only.
LEMMA RefillOrder ==
    ASSUME TypeOK, PosInv, NEW h \in 0..Len(arrived), Order(h),
           FillDescriptor \/ GiveDescriptor
    PROVE  Order(h)'
  <1>0. h \in Nat
    BY DEF TypeOK
  <1>1. /\ pc \in {"fill", "give"} /\ pc' \in {"give", "tail"} /\ (pc' = "tail" <=> pc = "give")
        /\ UNCHANGED <<rxCurrent, dma, suspended, ri, content, arrived, indicated, bd>>
    BY DEF FillDescriptor, GiveDescriptor, hardware, positions
  <1>2. \A s \in Slots : (Mine(s) <=> s = bd) /\ (Mine(s)' <=> pc = "fill" /\ s = bd)
    BY <1>1 DEF Mine, Busy, Handled
  <1>3. \A s \in Slots : s # bd =>
            /\ own'[s] = own[s] /\ ctxt'[s] = ctxt[s] /\ tsa'[s] = tsa[s]
            /\ err'[s] = err[s] /\ consumed'[s] = consumed[s] /\ info0'[s] = info0[s]
    BY DEF FillDescriptor, GiveDescriptor, TypeOK
  <1>4. pc = "give" => own'[bd]
    BY DEF FillDescriptor, GiveDescriptor, TypeOK
  <1>5. \A s \in Slots : Pending(s)' <=> Pending(s)
    BY <1>1, <1>2, <1>3, <1>4 DEF Pending
  <1>6. \A s \in Slots : Pending(s) =>
            /\ (ctxt'[s] <=> ctxt[s]) /\ (tsa'[s] <=> tsa[s]) /\ err'[s] = err[s]
            /\ (consumed'[s] <=> consumed[s]) /\ Number(s)' = Number(s)
    BY <1>1, <1>2, <1>3 DEF Pending, Number
  <1>7. Chain(h)' /\ Front(h)' /\ Indications(h)'
    BY <1>0, <1>1, <1>5, <1>6, QuietOrder
  <1> QED
    BY <1>1, <1>7 DEF Order, AtHand, Wakes

\* EthIf_RxIndication is given frame h.
LEMMA IndicateOrder ==
    ASSUME TypeOK, NEW h \in 0..Len(arrived), Order(h), RxIndication
    PROVE  Order(h)'
  <1>0. h \in Nat /\ h # 0 /\ ~arrived[h] /\ h \in DOMAIN arrived
    BY DEF TypeOK, Order, AtHand, RxIndication
  <1>1. /\ pc = "indicate" /\ pc' = "release" /\ indicated' = Append(indicated, h)
        /\ UNCHANGED <<own, ctxt, tsa, err, consumed, info0, rxCurrent, rxAlloc, dma, suspended,
                       ri, content, arrived>>
    BY DEF RxIndication, Order, AtHand, descriptors, positions, hardware
  <1>2. \A s : (Pending(s)' <=> Pending(s)) /\ Number(s)' = Number(s)
    BY <1>1 DEF Pending, Mine, Busy, Number, Handled, Following
  <1>3. Chain(h)' /\ \A s \in Slots : IsHead(s)' <=> IsHead(s)
    BY <1>0, <1>1, <1>2, ChainSame DEF Order
  <1>4. Front(h)'
    BY <1>0, <1>1, <1>2, <1>3, FrontSame DEF Order, TypeOK
  <1>5. AtHand(h)' /\ Wakes(h)'
    BY <1>1 DEF Order, AtHand, Wakes, Following
  <1>6. Indications(h)'
    <2>1. /\ \A i, j \in DOMAIN indicated : i < j => indicated[i] < indicated[j]
          /\ \A n \in Nat : IsIndicated(n) <=> IsGood(n) /\ n <= h - 1
      BY <1>1 DEF Order, Indications
    <2>2. /\ indicated \in Seq(Nat) /\ Len(indicated) \in Nat
          /\ DOMAIN indicated = 1..Len(indicated)
          /\ DOMAIN indicated' = 1..Len(indicated) + 1
          /\ indicated'[Len(indicated) + 1] = h
          /\ \A i \in DOMAIN indicated : indicated'[i] = indicated[i] /\ indicated[i] \in Nat
      BY <1>0, <1>1 DEF TypeOK
    <2>3. \A i \in DOMAIN indicated : indicated[i] < h
      BY <1>0, <2>1, <2>2 DEF IsIndicated
    <2>4. \A i, j \in DOMAIN indicated' : i < j => indicated'[i] < indicated'[j]
      BY <2>1, <2>2, <2>3
    <2>5. \A n \in Nat : IsIndicated(n)' <=> IsIndicated(n) \/ n = h
      BY <2>2 DEF IsIndicated
    <2>6. \A n : IsGood(n)' <=> IsGood(n)
      BY <1>1 DEF IsGood
    <2>7. IsGood(h)
      BY <1>0 DEF IsGood
    <2>8. \A n \in Nat : n <= h <=> n <= h - 1 \/ n = h
      BY <1>0
    <2>9. \A n \in Nat : IsIndicated(n)' <=> IsGood(n)' /\ n <= h
      BY <2>1, <2>5, <2>6, <2>7, <2>8
    <2> QED
      BY <1>1, <2>4, <2>9 DEF Indications
  <1> QED
    BY <1>3, <1>4, <1>5, <1>6 DEF Order

\* The DMA waits only when a frame is in the ring or at hand.
LEMMA SuspendOrder ==
    ASSUME TypeOK, NEW h \in 0..Len(arrived), Order(h), DmaSuspend
    PROVE  Order(h)'
  <1>0. h \in Nat
    BY DEF TypeOK
  <1>1. UNCHANGED <<own, ctxt, tsa, err, consumed, info0, rxCurrent, rxAlloc, dma, ri, content,
                    arrived, indicated, pc, bd, frameBuffer>>
    BY DEF DmaSuspend, descriptors, positions, handler
  <1>2. \A s : (Pending(s)' <=> Pending(s)) /\ Number(s)' = Number(s)
    BY <1>1 DEF Pending, Mine, Busy, Number, Handled, Following
  <1>3. Chain(h)' /\ \A s \in Slots : IsHead(s)' <=> IsHead(s)
    BY <1>0, <1>1, <1>2, ChainSame DEF Order
  <1>4. Front(h)'
    BY <1>0, <1>1, <1>2, <1>3, FrontSame DEF Order, TypeOK
  <1>5. AtHand(h)' /\ Indications(h)'
    BY <1>1, Zenon DEF Order, AtHand, Indications, IsIndicated, IsGood, Following
  <1>6. Wakes(h)'
    <2>1. h # Len(arrived) \/ pc \notin {"idle", "read"}
      <3> SUFFICES ASSUME h = Len(arrived), pc \in {"idle", "read"} PROVE FALSE
        OBVIOUS
      <3>1. dma \in Slots /\ Following(dma) \in Slots
        BY RingSteps DEF TypeOK
      <3>2. Chain(Len(arrived))
        BY DEF Order
      <3>3. \A s \in Slots : ~Pending(s)
        BY <3>2, AllOwned
      <3>4. \A s \in Slots : own[s]
        BY <3>3 DEF Pending, Mine, Busy
      <3> QED
        BY <3>1, <3>4 DEF DmaSuspend
    <2> QED
      BY <1>1, <2>1 DEF Order, Wakes
  <1> QED
    BY <1>3, <1>4, <1>5, <1>6 DEF Order

\* Gmac_Ip_ReadFrame takes the first frame off the chain.
LEMMA ReadOrder ==
    ASSUME TypeOK, PosInv, BufferInv, NEW h \in 0..Len(arrived), Order(h), ReadFrame
    PROVE  h + 1 \in 0..Len(arrived') /\ Order(h + 1)'
  <1>0. h \in Nat /\ Len(arrived) \in Nat
    BY DEF TypeOK
  <1>1. PICK c \in Slots : c = rxCurrent /\ c = rxAlloc
    BY DEF TypeOK, PosInv, ReadFrame
  <1>2. /\ pc = "read" /\ ~own[c]
        /\ pc' = (IF err[c] THEN "release" ELSE "indicate")
        /\ rxCurrent' = After(c) /\ frameBuffer' = info0[c]
        /\ UNCHANGED <<own, ctxt, tsa, err, rxAlloc, dma, suspended, ri, content, arrived,
                       indicated>>
    BY <1>1 DEF ReadFrame, RxQueueEmpty, ReadPosition, After, hardware
  <1>3. \A s \in Slots : s # c => info0'[s] = info0[s] /\ consumed'[s] = consumed[s]
    BY <1>1 DEF ReadFrame, TypeOK
  <1>4. \A s \in Slots : /\ ~Mine(s)
                         /\ Mine(s)' <=> s = c \/ (tsa[c] /\ s = Following(c))
    BY <1>1, <1>2 DEF Mine, Busy, Handled, Following
  <1>5. h # Len(arrived)
    <2> SUFFICES ASSUME h = Len(arrived) PROVE FALSE
      OBVIOUS
    <2>1. Chain(Len(arrived)) /\ Pending(c)
      BY <1>2, <1>4 DEF Order, Pending
    <2> QED
      BY <2>1, AllOwned
  <1>6. IsHead(c) /\ Number(c) = h + 1
    BY <1>1, <1>5 DEF Order, Front
  <1>7. \A s \in Slots : IsHead(s) =>
            /\ Number(s) \in h + 1 .. Len(arrived) /\ ~consumed[s]
            /\ err[s] = arrived[Number(s)]
            /\ tsa[s] => Pending(Following(s)) /\ ctxt[Following(s)]
            /\ Number(s) = Len(arrived) => After(s) = dma
            /\ Number(s) # Len(arrived) => IsHead(After(s)) /\ Number(After(s)) = Number(s) + 1
            /\ Number(s) = h + 1 => s = c
    BY <1>6 DEF Order, Chain
  <1>8. \A s \in Slots :
            /\ Pending(s)' <=> Pending(s) /\ s # c /\ ~(tsa[c] /\ s = Following(c))
            /\ IsHead(s)' <=> IsHead(s) /\ s # c
    BY <1>2, <1>4, <1>6, <1>7 DEF Pending, IsHead
  <1>9. \A s \in Slots : s # c => Number(s)' = Number(s)
    BY <1>2, <1>3 DEF Number
  <1>10. \A s : After(s)' = After(s) /\ Following(s)' = Following(s)
    BY <1>2 DEF After, Following
  <1>11. ASSUME NEW s \in Slots, IsHead(s)'
         PROVE  /\ Number(s)' \in (h + 1) + 1 .. Len(arrived') /\ ~consumed'[s]
                /\ err'[s] = arrived'[Number(s)']
                /\ tsa'[s] => Pending(Following(s))' /\ ctxt'[Following(s)]
                /\ Number(s)' = Len(arrived') => After(s)' = dma'
                /\ Number(s)' # Len(arrived') => /\ IsHead(After(s))'
                                                 /\ Number(After(s))' = Number(s)' + 1
    <2>1. IsHead(s) /\ s # c /\ Number(s)' = Number(s) /\ Number(s) # h + 1
      BY <1>7, <1>8, <1>9, <1>11
    <2>2. Number(s) \in Nat /\ Number(s)' \in (h + 1) + 1 .. Len(arrived') /\ ~consumed'[s]
      BY <1>0, <1>2, <1>3, <1>7, <2>1
    <2>3. err'[s] = arrived'[Number(s)'] /\ (Number(s)' = Len(arrived') => After(s)' = dma')
      BY <1>2, <1>7, <1>10, <2>1
    <2>4. tsa'[s] => Pending(Following(s))' /\ ctxt'[Following(s)]
      <3> SUFFICES ASSUME tsa[s] PROVE Pending(Following(s))' /\ ctxt[Following(s)]
        BY <1>2
      <3>1. PICK f \in Slots : f = Following(s) /\ f = Following(s)'
        BY <1>10, RingSteps
      <3>2. Pending(f) /\ ctxt[f] /\ f # c
        BY <1>6, <1>7, <2>1, <3>1 DEF IsHead
      <3>3. f # Following(c)
        BY <2>1, <3>1, RingSteps
      <3>4. Pending(f)'
        BY <1>8, <3>2, <3>3
      <3>5. Pending(Following(s))' <=> Pending(f)'
        BY <3>1, Zenon DEF Pending, Mine
      <3> QED
        BY <3>1, <3>2, <3>4, <3>5
    <2>5. Number(s)' # Len(arrived') => /\ IsHead(After(s))'
                                        /\ Number(After(s))' = Number(s)' + 1
      <3> SUFFICES ASSUME Number(s) # Len(arrived)
                   PROVE  IsHead(After(s))' /\ Number(After(s))' = Number(s) + 1
        BY <1>2, <2>1
      <3>1. PICK a \in Slots : a = After(s) /\ a = After(s)'
        BY <1>10, AfterType
      <3>2. IsHead(a) /\ Number(a) = Number(s) + 1
        BY <1>7, <2>1, <3>1
      <3>3. a # c
        BY <1>0, <1>6, <2>2, <3>2, <1>7, <2>1
      <3>4. IsHead(a)' /\ Number(a)' = Number(a)
        BY <1>8, <1>9, <3>2, <3>3
      <3>5. (IsHead(After(s))' <=> IsHead(a)') /\ Number(After(s))' = Number(a)'
        BY <3>1, Zenon DEF IsHead, Pending, Mine, Number
      <3> QED
        BY <3>2, <3>4, <3>5
    <2> QED
      BY <2>2, <2>3, <2>4, <2>5
  <1>12. \A r, s \in Slots : IsHead(r)' /\ IsHead(s)' /\ Number(r)' = Number(s)' => r = s
    BY <1>8, <1>9 DEF Order, Chain
  <1>13. ASSUME NEW s \in Slots, Pending(s)', ctxt'[s]
         PROVE  \E r \in Slots : IsHead(r)' /\ tsa'[r] /\ s = Following(r)
    <2>1. Pending(s) /\ ctxt[s] /\ ~(tsa[c] /\ s = Following(c))
      BY <1>2, <1>8, <1>13
    <2>2. PICK r \in Slots : IsHead(r) /\ tsa[r] /\ s = Following(r)
      BY <2>1 DEF Order, Chain
    <2> QED
      BY <1>2, <1>8, <2>1, <2>2
  <1>14. Chain(h + 1)'
    BY <1>11, <1>12, <1>13, Zenon DEF Chain, Following
  <1>15. Front(h + 1)'
    <2>1. h + 1 = Len(arrived) => After(c) = dma
      BY <1>6, <1>7
    <2>2. h + 1 # Len(arrived) => IsHead(After(c)) /\ Number(After(c)) = (h + 1) + 1
      BY <1>6, <1>7
    <2>3. PICK a \in Slots : a = After(c) /\ a = rxCurrent'
      BY <1>2, AfterType
    <2>4. h + 1 # Len(arrived) => IsHead(a)' /\ Number(a)' = (h + 1) + 1
      <3> SUFFICES ASSUME h + 1 # Len(arrived) PROVE IsHead(a)' /\ Number(a)' = (h + 1) + 1
        OBVIOUS
      <3>1. a # c
        BY <1>0, <1>6, <2>2, <2>3
      <3> QED
        BY <1>8, <1>9, <2>2, <2>3, <3>1
    <2>5. (IsHead(rxCurrent)' <=> IsHead(a)') /\ Number(rxCurrent)' = Number(a)'
      BY <2>3, Zenon DEF IsHead, Pending, Mine, Number
    <2> QED
      BY <1>2, <2>1, <2>3, <2>4, <2>5 DEF Front
  <1>16. AtHand(h + 1)'
    <2>1. pc' = "indicate" => ~err[c]
      BY <1>2
    <2>2. content'[frameBuffer'] = h + 1 /\ err[c] = arrived[h + 1]
      BY <1>2, <1>6, <1>7 DEF Number
    <2>3. tsa[c] => ~own[Following(c)] /\ ctxt[Following(c)]
      BY <1>6, <1>7 DEF Pending
    <2> QED
      BY <1>0, <1>1, <1>2, <2>1, <2>2, <2>3 DEF AtHand, Following
  <1>17. Indications(h + 1)'
    <2>1. /\ \A i, j \in DOMAIN indicated : i < j => indicated[i] < indicated[j]
          /\ \A n \in Nat : IsIndicated(n) <=> IsGood(n) /\ n <= h
      BY <1>2 DEF Order, Indications
    <2>2. \A n : (IsIndicated(n)' <=> IsIndicated(n)) /\ (IsGood(n)' <=> IsGood(n))
      BY <1>2, Zenon DEF IsIndicated, IsGood
    <2>3. CASE err[c]
      <3>1. ~IsGood(h + 1) /\ pc' # "indicate"
        BY <1>2, <1>6, <1>7, <2>3 DEF IsGood
      <3>2. \A n \in Nat : n <= h + 1 <=> n <= h \/ n = h + 1
        BY <1>0
      <3>3. \A n \in Nat : IsIndicated(n)' <=> IsGood(n)' /\ n <= h + 1
        BY <2>1, <2>2, <3>1, <3>2
      <3> QED
        BY <1>2, <2>1, <3>1, <3>3 DEF Indications
    <2>4. CASE ~err[c]
      <3>1. pc' = "indicate" /\ (h + 1) - 1 = h
        BY <1>0, <1>2, <2>4
      <3>2. \A n \in Nat : IsIndicated(n)' <=> IsGood(n)' /\ n <= (h + 1) - 1
        BY <2>1, <2>2, <3>1
      <3> QED
        BY <1>2, <2>1, <3>1, <3>2 DEF Indications
    <2> QED
      BY <2>3, <2>4
  <1>18. Wakes(h + 1)'
    BY <1>2 DEF Wakes
  <1> QED
    BY <1>0, <1>2, <1>5, <1>14, <1>15, <1>16, <1>17, <1>18 DEF Order

\* A frame that arrives is put at the end of the chain.
LEMMA ArrivalOrder ==
    ASSUME TypeOK, PosInv, BufferInv, NEW h \in 0..Len(arrived), Order(h),
           NEW isStamped \in BOOLEAN, NEW isBad \in BOOLEAN, DmaReceive(isStamped, isBad)
    PROVE  h \in 0..Len(arrived') /\ Order(h)'
  <1>d. PICK d \in Slots : d = dma
    BY DEF TypeOK
  <1> DEFINE ctx == Following(d)
             U == Used(isStamped)
  <1>0. h \in Nat /\ Len(arrived) \in Nat /\ h <= Len(arrived)
    BY DEF TypeOK
  <1>1. /\ ctx \in Slots /\ ctx # d
        /\ \A s : s \in U <=> s = d \/ (isStamped /\ s = ctx)
        /\ \A s \in Slots : s \in U => own[s]
    BY <1>d, RingSteps DEF TypeOK, Used, DmaReceive
  <1>2. /\ dma' = IF isStamped THEN Following(ctx) ELSE ctx
        /\ ri' = TRUE /\ arrived' = Append(arrived, isBad)
        /\ UNCHANGED <<consumed, info0, rxCurrent, rxAlloc, suspended, pc, frameBuffer, bd,
                       indicated>>
    BY <1>d DEF DmaReceive, positions, handler
  <1>3. \A s \in Slots :
            /\ own'[s] <=> own[s] /\ s \notin U
            /\ s \in U => /\ ctxt'[s] <=> s # d
                          /\ tsa'[s] <=> s = d /\ isStamped
                          /\ err'[s] <=> s = d /\ isBad
            /\ s \notin U => ctxt'[s] = ctxt[s] /\ tsa'[s] = tsa[s] /\ err'[s] = err[s]
    BY <1>d DEF DmaReceive
  <1>4. /\ Len(arrived') = Len(arrived) + 1
        /\ \A n \in 1..Len(arrived) : arrived'[n] = arrived[n]
        /\ arrived'[Len(arrived) + 1] = isBad
        /\ DOMAIN arrived = 1..Len(arrived) /\ DOMAIN arrived' = 1..Len(arrived) + 1
    BY <1>0, <1>2 DEF TypeOK
  <1>5. err'[d] = isBad
    BY <1>1, <1>d DEF DmaReceive
  <1>6. /\ info0[d] \in Slots /\ des0[d] = info0[d] /\ ~consumed[d]
        /\ \A s \in Slots : info0[s] = info0[d] => s = d
        /\ \A b \in Slots : content'[b] = IF b = info0[d] THEN Len(arrived) + 1 ELSE content[b]
    <2>1. info0[d] \in Slots /\ des0[d] = info0[d] /\ ~consumed[d]
      BY <1>1, OwnedHaveBuffers DEF BufferInv
    <2>2. \A s \in Slots : info0[s] = info0[d] => s = d
      BY <1>1 DEF BufferInv
    <2>3. \A b \in Slots : content'[b] = IF b = info0[d] THEN Len(arrived) + 1 ELSE content[b]
      BY <1>d, <2>1 DEF DmaReceive, TypeOK, Buffers
    <2> QED
      BY <2>1, <2>2, <2>3
  <1>7. \A s \in Slots : Mine(s) => ~own[s]
    BY DEF Mine, PosInv, Order, AtHand, TypeOK
  <1>8. \A s \in Slots : Mine(s)' <=> Mine(s)
    <2>1. pc \in {"indicate", "release"} => tsa'[rxAlloc] = tsa[rxAlloc]
      <3> SUFFICES ASSUME pc \in {"indicate", "release"} PROVE tsa'[rxAlloc] = tsa[rxAlloc]
        OBVIOUS
      <3>1. ~own[rxAlloc] /\ rxAlloc \in Slots
        BY DEF PosInv, Busy, Handled, TypeOK
      <3> QED
        BY <1>1, <1>3, <3>1
    <2> QED
      BY <1>2, <2>1 DEF Mine, Handled, Following
  <1>9. \A s \in Slots : /\ Pending(s)' <=> Pending(s) \/ s \in U
                         /\ Pending(s) => s \notin U
    BY <1>1, <1>3, <1>7, <1>8 DEF Pending
  <1>10. \A s \in Slots : IsHead(s)' <=> IsHead(s) \/ s = d
    BY <1>1, <1>3, <1>9 DEF IsHead
  <1>11. /\ Number(d)' = Len(arrived) + 1
         /\ \A s \in Slots : Pending(s) => Number(s)' = Number(s) /\ After(s)' = After(s)
    <2>1. Number(d)' = Len(arrived) + 1
      BY <1>2, <1>6 DEF Number
    <2>2. ASSUME NEW s \in Slots, Pending(s)
          PROVE  Number(s)' = Number(s) /\ After(s)' = After(s)
      <3>1. s \notin U /\ s # d
        BY <1>1, <1>9, <2>2
      <3>2. info0[s] # NULL
        BY <2>2 DEF BufferInv, Pending, Mine
      <3>3. info0[s] \in Slots /\ info0[s] # info0[d]
        BY <1>6, <3>1, <3>2 DEF TypeOK, Buffers
      <3>4. Number(s)' = Number(s)
        BY <1>2, <1>6, <3>3 DEF Number
      <3>5. After(s)' = After(s)
        BY <1>3, <3>1 DEF After, Following
      <3> QED
        BY <3>4, <3>5
    <2> QED
      BY <2>1, <2>2
  <1>12. \A s : Following(s)' = Following(s)
    BY DEF Following
  <1>13. \A s \in Slots : IsHead(s) =>
            /\ Pending(s)
            /\ Number(s) \in h + 1 .. Len(arrived) /\ ~consumed[s]
            /\ err[s] = arrived[Number(s)]
            /\ tsa[s] => Pending(Following(s)) /\ ctxt[Following(s)]
            /\ Number(s) = Len(arrived) => After(s) = d
            /\ Number(s) # Len(arrived) => IsHead(After(s)) /\ Number(After(s)) = Number(s) + 1
    BY <1>d DEF Order, Chain, IsHead
  <1>14. After(d)' = dma'
    BY <1>1, <1>2, <1>3 DEF After, Following
  <1>15. tsa'[d] => Pending(Following(d))' /\ ctxt'[Following(d)]
    <2> SUFFICES ASSUME tsa'[d] PROVE Pending(Following(d))' /\ ctxt'[Following(d)]
      OBVIOUS
    <2>1. PICK f \in Slots : f = ctx /\ f = Following(d)'
      BY <1>1, <1>12
    <2>2. isStamped /\ f \in U /\ f # d
      BY <1>1, <1>3, <2>1
    <2>3. Pending(f)' /\ ctxt'[f]
      BY <1>3, <1>9, <2>2
    <2>4. Pending(Following(d))' <=> Pending(f)'
      BY <2>1, Zenon DEF Pending, Mine
    <2> QED
      BY <2>1, <2>3, <2>4
  <1>16. ASSUME NEW s \in Slots, IsHead(s)'
         PROVE  /\ Number(s)' \in h + 1 .. Len(arrived') /\ ~consumed'[s]
                /\ err'[s] = arrived'[Number(s)']
                /\ tsa'[s] => Pending(Following(s))' /\ ctxt'[Following(s)]
                /\ Number(s)' = Len(arrived') => After(s)' = dma'
                /\ Number(s)' # Len(arrived') => /\ IsHead(After(s))'
                                                 /\ Number(After(s))' = Number(s)' + 1
    <2>1. CASE s = d
      <3>1. Number(s)' = Len(arrived') /\ After(s)' = dma'
        BY <1>4, <1>11, <1>14, <2>1
      <3>2. Number(s)' \in h + 1 .. Len(arrived') /\ ~consumed'[s]
        BY <1>0, <1>2, <1>4, <1>6, <2>1, <3>1
      <3>3. err'[s] = arrived'[Number(s)']
        BY <1>4, <1>5, <2>1, <3>1
      <3> QED
        BY <1>15, <2>1, <3>1, <3>2, <3>3
    <2>2. CASE s # d
      <3>1. /\ IsHead(s) /\ Pending(s) /\ s \notin U
            /\ Number(s)' = Number(s) /\ After(s)' = After(s)
        BY <1>9, <1>10, <1>11, <1>13, <1>16, <2>2
      <3>2. Number(s) \in 1..Len(arrived) /\ Number(s)' \in h + 1 .. Len(arrived')
        BY <1>0, <1>4, <1>13, <3>1
      <3>3. Number(s)' # Len(arrived')
        BY <1>0, <1>4, <3>1, <3>2
      <3>4. ~consumed'[s] /\ err'[s] = arrived'[Number(s)']
        BY <1>2, <1>3, <1>4, <1>13, <3>1, <3>2
      <3>5. tsa'[s] => Pending(Following(s))' /\ ctxt'[Following(s)]
        <4> SUFFICES ASSUME tsa'[s] PROVE Pending(Following(s))' /\ ctxt'[Following(s)]
          OBVIOUS
        <4>1. PICK f \in Slots : f = Following(s) /\ f = Following(s)'
          BY <1>12, RingSteps
        <4>2. Pending(f) /\ ctxt[f] /\ f \notin U
          BY <1>3, <1>9, <1>13, <3>1, <4>1
        <4>3. Pending(f)' /\ ctxt'[f]
          BY <1>3, <1>9, <4>2
        <4>4. Pending(Following(s))' <=> Pending(f)'
          BY <4>1, Zenon DEF Pending, Mine
        <4> QED
          BY <4>1, <4>3, <4>4
      <3>6. IsHead(After(s))' /\ Number(After(s))' = Number(s)' + 1
        <4>1. PICK a \in Slots : a = After(s) /\ a = After(s)'
          BY <3>1, AfterType
        <4>2. IsHead(a)' /\ Number(a)' = Number(s) + 1
          <5>1. CASE Number(s) = Len(arrived)
            BY <1>10, <1>11, <1>13, <3>1, <4>1, <5>1
          <5>2. CASE Number(s) # Len(arrived)
            BY <1>10, <1>11, <1>13, <3>1, <4>1, <5>2
          <5> QED
            BY <5>1, <5>2
        <4>3. (IsHead(After(s))' <=> IsHead(a)') /\ Number(After(s))' = Number(a)'
          BY <4>1, Zenon DEF IsHead, Pending, Mine, Number
        <4> QED
          BY <3>1, <4>2, <4>3
      <3> QED
        BY <3>2, <3>3, <3>4, <3>5, <3>6
    <2> QED
      BY <2>1, <2>2
  <1>17. \A r, s \in Slots : IsHead(r)' /\ IsHead(s)' /\ Number(r)' = Number(s)' => r = s
    <2>1. \A s \in Slots : IsHead(s) => Number(s)' \in 1..Len(arrived) /\ Number(s)' = Number(s)
      BY <1>0, <1>11, <1>13
    <2>2. \A s \in Slots : IsHead(s) => Number(s)' # Number(d)'
      BY <1>0, <1>11, <2>1
    <2>3. \A r, s \in Slots : IsHead(r) /\ IsHead(s) /\ Number(r) = Number(s) => r = s
      BY DEF Order, Chain
    <2> QED
      BY <1>10, <2>1, <2>2, <2>3
  <1>18. ASSUME NEW s \in Slots, Pending(s)', ctxt'[s]
         PROVE  \E r \in Slots : IsHead(r)' /\ tsa'[r] /\ s = Following(r)
    <2>1. CASE s \in U
      BY <1>1, <1>3, <1>10, <1>18, <2>1
    <2>2. CASE s \notin U
      <3>1. Pending(s) /\ ctxt[s]
        BY <1>3, <1>9, <1>18, <2>2
      <3>2. PICK r \in Slots : IsHead(r) /\ tsa[r] /\ s = Following(r)
        BY <3>1 DEF Order, Chain
      <3>3. IsHead(r)' /\ tsa'[r]
        BY <1>3, <1>9, <1>10, <1>13, <3>2
      <3> QED
        BY <3>2, <3>3
    <2> QED
      BY <2>1, <2>2
  <1>19. Chain(h)'
    BY <1>16, <1>17, <1>18, Zenon DEF Chain, Following
  <1>20. Front(h)'
    <2>1. PICK c \in Slots : c = rxCurrent /\ c = rxCurrent'
      BY <1>2 DEF TypeOK
    <2>2. IsHead(c)' /\ Number(c)' = h + 1
      <3>1. CASE h = Len(arrived)
        BY <1>d, <1>10, <1>11, <2>1, <3>1 DEF Order, Front
      <3>2. CASE h # Len(arrived)
        BY <1>10, <1>11, <1>13, <2>1, <3>2 DEF Order, Front
      <3> QED
        BY <3>1, <3>2
    <2>3. (IsHead(rxCurrent)' <=> IsHead(c)') /\ Number(rxCurrent)' = Number(c)'
      BY <2>1, Zenon DEF IsHead, Pending, Mine, Number
    <2>4. h # Len(arrived')
      BY <1>0, <1>4
    <2> QED
      BY <2>2, <2>3, <2>4 DEF Front
  <1>21. AtHand(h)'
    <2>1. pc = "indicate" => content'[frameBuffer] = h /\ h # 0 /\ ~arrived'[h]
      <3> SUFFICES ASSUME pc = "indicate"
                   PROVE  content'[frameBuffer] = h /\ h # 0 /\ ~arrived'[h]
        OBVIOUS
      <3>1. h # 0 /\ content[frameBuffer] = h /\ ~arrived[h] /\ h \in 1..Len(arrived)
        BY <1>0 DEF Order, AtHand
      <3>2. frameBuffer \in Slots /\ frameBuffer # info0[d]
        BY DEF BufferInv, Busy, TypeOK, Buffers
      <3> QED
        BY <1>4, <1>6, <3>1, <3>2
    <2>2. pc \in {"indicate", "release"} /\ tsa'[rxAlloc] =>
              ~own'[Following(rxAlloc)] /\ ctxt'[Following(rxAlloc)]
      <3> SUFFICES ASSUME pc \in {"indicate", "release"}, tsa'[rxAlloc]
                   PROVE  ~own'[Following(rxAlloc)] /\ ctxt'[Following(rxAlloc)]
        OBVIOUS
      <3>1. ~own[rxAlloc] /\ rxAlloc \in Slots /\ Following(rxAlloc) \in Slots
        BY RingSteps DEF PosInv, Busy, Handled, TypeOK
      <3>2. tsa[rxAlloc]
        BY <1>1, <1>3, <3>1
      <3>3. ~own[Following(rxAlloc)] /\ ctxt[Following(rxAlloc)]
        BY <3>2 DEF Order, AtHand
      <3> QED
        BY <1>1, <1>3, <3>1, <3>3
    <2> QED
      BY <1>2, <2>1, <2>2 DEF AtHand, Following
  <1>22. Indications(h)'
    <2>1. \A n \in Nat : n <= h => (IsGood(n)' <=> IsGood(n))
      BY <1>0, <1>4 DEF IsGood
    <2>2. \A n : IsIndicated(n)' <=> IsIndicated(n)
      BY <1>2, Zenon DEF IsIndicated
    <2>3. \A n \in Nat : n <= h - 1 => n <= h
      BY <1>0
    <2> QED
      BY <1>2, <2>1, <2>2, <2>3 DEF Order, Indications
  <1>23. Wakes(h)'
    BY <1>0, <1>2, <1>4 DEF Wakes
  <1> QED
    BY <1>0, <1>4, <1>19, <1>20, <1>21, <1>22, <1>23 DEF Order

-----------------------------------------------------------------------------
\* Until the first mode change every step keeps the order.
LEMMA OrderStep ==
    ASSUME IInv, [ModeNext]_modeVars
    PROVE  OrderInv'
  <1>0. ModeTypeOK /\ TypeOK /\ PosInv /\ BufferInv /\ OrderInv
    BY DEF IInv, ModeTypeOK
  <1> SUFFICES ASSUME downs' = 0
               PROVE  mpc' = "up" /\ \E h \in 0 .. Len(arrived') : Order(h)'
    BY DEF OrderInv
  <1>1. /\ ~SetControllerMode \/ downs # 0
        /\ downs = 0 /\ mpc = "up"
    BY <1>0 DEF OrderInv, SetControllerMode, DisableMac, StopRxDma, RestoreRxDescr,
       RxDrainTimeout, EnableController, ModeNext, modeVars, mode, ModeTypeOK
  <1>2. \/ IrqStep /\ UNCHANGED mode
        \/ DmaStep /\ UNCHANGED mode
        \/ UNCHANGED modeVars
    BY <1>1 DEF ModeNext, Receives, ReceiveRefused, ControllerIsActive
  <1>3. mpc' = "up"
    BY <1>1, <1>2 DEF mode, modeVars
  <1>4. PICK h \in 0 .. Len(arrived) : Order(h)
    BY <1>0, <1>1 DEF OrderInv
  <1>5. CASE IrqStep
    <2>1. UNCHANGED arrived
      BY <1>5 DEF IrqStep, RxIrqEnter, RxIrqExit, ReadFrame, RxIndication, RestoreRxCtxtDescr,
         FillDescriptor, GiveDescriptor, WriteTail, hardware
    <2>2. CASE ReadFrame
      <3>1. h + 1 \in 0 .. Len(arrived') /\ Order(h + 1)'
        BY <1>0, <1>4, <2>2, ReadOrder
      <3> QED
        BY <1>3, <3>1
    <2>3. CASE ~ReadFrame
      <3>1. Order(h)'
        BY <1>0, <1>4, <1>5, <2>3, IdleOrder, RestoreOrder, RefillOrder, IndicateOrder DEF IrqStep
      <3> QED
        BY <1>3, <2>1, <3>1
    <2> QED
      BY <2>2, <2>3
  <1>6. CASE DmaStep
    <2>1. CASE DmaSuspend
      <3>1. Order(h)' /\ UNCHANGED arrived
        BY <1>0, <1>4, <2>1, SuspendOrder DEF DmaSuspend
      <3> QED
        BY <1>3, <3>1
    <2>2. CASE ~DmaSuspend
      <3>1. h \in 0 .. Len(arrived') /\ Order(h)'
        BY <1>0, <1>4, <1>6, <2>2, ArrivalOrder DEF DmaStep
      <3> QED
        BY <1>3, <3>1
    <2> QED
      BY <2>1, <2>2
  <1>7. CASE UNCHANGED modeVars
    <2>1. UNCHANGED <<own, ctxt, tsa, err, consumed, info0, rxCurrent, rxAlloc, dma, suspended,
                      ri, content, arrived, indicated, pc, bd, frameBuffer>>
      BY <1>7 DEF modeVars, vars, descriptors, positions, hardware, handler
    <2>2. h \in Nat
      BY <1>0 DEF TypeOK
    <2>3. \A s : (Pending(s)' <=> Pending(s)) /\ Number(s)' = Number(s)
      BY <2>1 DEF Pending, Mine, Busy, Number, Handled, Following
    <2>4. Chain(h)' /\ \A s \in Slots : IsHead(s)' <=> IsHead(s)
      BY <1>0, <1>4, <2>1, <2>2, <2>3, ChainSame DEF Order
    <2>5. Front(h)'
      BY <1>0, <1>4, <2>1, <2>2, <2>3, <2>4, FrontSame DEF Order, TypeOK
    <2>6. AtHand(h)' /\ Indications(h)' /\ Wakes(h)'
      BY <1>4, <2>1, Zenon DEF Order, AtHand, Indications, IsIndicated, IsGood, Wakes, Following
    <2> QED
      BY <1>3, <2>1, <2>4, <2>5, <2>6 DEF Order
  <1> QED
    BY <1>2, <1>5, <1>6, <1>7

\* A ring as Gmac_Ip_InitRxBD leaves it satisfies the invariant.
LEMMA InitIInv == ModeInit => IInv
  <1> SUFFICES ASSUME ModeInit PROVE IInv
    OBVIOUS
  <1>0. Init /\ mpc = "up" /\ downs = 0 /\ clean = TRUE /\ pc = "idle"
    BY DEF ModeInit, Init
  <1>1. TypeOK
    <2>1. /\ own \in [Slots -> BOOLEAN] /\ ctxt \in [Slots -> BOOLEAN] /\ tsa \in [Slots -> BOOLEAN]
          /\ err \in [Slots -> BOOLEAN] /\ consumed \in [Slots -> BOOLEAN]
      BY <1>0 DEF Init
    <2>2. des0 \in [Slots -> Slots \cup {Status}] /\ info0 \in [Slots -> Slots \cup {NULL}]
      BY <1>0 DEF Init
    <2>3. content \in [Slots -> Nat]
      BY <1>0 DEF Init, Buffers
    <2>4. arrived \in Seq(BOOLEAN) /\ indicated \in Seq(Nat)
      BY <1>0 DEF Init
    <2> QED
      BY <1>0, <2>1, <2>2, <2>3, <2>4, RingSteps DEF Init, TypeOK, IrqPositions, Buffers
  <1>2. ModeTypeOK
    BY <1>0, <1>1, MaxDownsAssumption DEF ModeTypeOK
  <1>3. PosInv /\ BufferInv
    BY <1>0, RingSteps DEF Init, PosInv, BufferInv, Busy, Buffers
  <1>4. DownIsClean
    BY <1>0 DEF DownIsClean
  <1>5. Order(0)
    <2>1. \A s \in Slots : ~Pending(s) /\ ~IsHead(s)
      BY <1>0 DEF Init, Pending, IsHead
    <2>2. Chain(0)
      BY <2>1 DEF Chain
    <2>3. Front(0) /\ AtHand(0) /\ Wakes(0)
      BY <1>0 DEF Init, Front, AtHand, Wakes
    <2>4. Indications(0)
      BY <1>0 DEF Init, Indications, IsIndicated, IsGood
    <2> QED
      BY <2>2, <2>3, <2>4 DEF Order
  <1>6. OrderInv
    <2>1. 0 \in 0 .. Len(arrived)
      BY <1>0 DEF Init
    <2> QED
      BY <1>0, <1>5, <2>1 DEF OrderInv
  <1> QED
    BY <1>2, <1>3, <1>4, <1>6 DEF IInv

\* The invariant is inductive.
LEMMA IInvStep ==
    ASSUME IInv, [ModeNext]_modeVars
    PROVE  IInv'
  BY ModeTypes, BufferStep, OrderStep DEF IInv

\* Every reachable state satisfies the invariant.
LEMMA Invariance == ModeSpec => []IInv
  BY InitIInv, IInvStep, PTL DEF ModeSpec

\* With any ring, any number of frames and any number of mode changes, with and
\* without time-outs: no buffer is lost or has two owners, and the DMA never
\* writes into the buffer EthIf_RxIndication reads.
THEOREM BuffersAreSafe == ModeSpec => []BuffersSurviveModeChange
  <1>1. IInv => BuffersSurviveModeChange
    <2> SUFFICES ASSUME IInv PROVE BuffersSurviveModeChange
      OBVIOUS
    <2>1. ModeTypeOK /\ TypeOK /\ PosInv /\ BufferInv /\ DownIsClean
      BY DEF IInv, ModeTypeOK
    <2>2. \A s \in Slots : own[s] => des0[s] \in Buffers /\ des0[s] = info0[s]
      BY <2>1, OwnedHaveBuffers DEF Buffers
    <2>3. BuffersConserved
      BY <2>1, <2>2 DEF BuffersConserved, BufferInv
    <2>4. NoReceiveIntoReadBuffer
      BY <2>1 DEF NoReceiveIntoReadBuffer, BufferInv, Busy
    <2> QED
      BY <2>1, <2>3, <2>4 DEF BuffersSurviveModeChange
  <1> QED
    BY Invariance, <1>1, PTL

\* Until the controller is first taken down the good frames are indicated in
\* the order of arrival, and the assertions of Gmac_Ip_ProvideRxBuff and
\* Gmac_Ip_RestoreRxCtxtDescr hold.
THEOREM FramesAreIndicatedInOrder == ModeSpec => []IndicatesInOrder
  <1>1. IInv => IndicatesInOrder
    <2> SUFFICES ASSUME IInv, downs = 0 PROVE IndicatedInOrder /\ DevAssertsHold
      BY DEF IndicatesInOrder
    <2>1. TypeOK /\ PosInv
      BY DEF IInv, ModeTypeOK
    <2>2. PICK h \in 0 .. Len(arrived) : Order(h)
      BY DEF IInv, OrderInv
    <2>3. DevAssertsHold
      BY <2>1, <2>2 DEF DevAssertsHold, PosInv, Busy, Handled, Order, AtHand
    <2>4. IndicatedInOrder
      <3> SUFFICES ASSUME NEW i \in DOMAIN indicated
                   PROVE  /\ IsGood(indicated[i])
                          /\ \A n \in 1 .. indicated[i] - 1 :
                                 IsGood(n) => \E j \in 1 .. i - 1 : indicated[j] = n
                          /\ \A j \in 1 .. i - 1 : indicated[j] < indicated[i]
        BY DEF IndicatedInOrder
      <3>1. PICK m \in Nat : /\ m = IF pc = "indicate" THEN h - 1 ELSE h
                             /\ \A n \in Nat : IsIndicated(n) <=> IsGood(n) /\ n <= m
        <4>1. (IF pc = "indicate" THEN h - 1 ELSE h) \in Nat
          BY <2>1, <2>2 DEF TypeOK, Order, AtHand
        <4> QED
          BY <2>2, <4>1 DEF Order, Indications
      <3>2. /\ DOMAIN indicated = 1..Len(indicated) /\ Len(indicated) \in Nat
            /\ \A j \in DOMAIN indicated : indicated[j] \in Nat
        BY <2>1 DEF TypeOK
      <3>3. IsGood(indicated[i]) /\ indicated[i] <= m
        BY <3>1, <3>2 DEF IsIndicated
      <3>4. \A j, l \in DOMAIN indicated : j < l => indicated[j] < indicated[l]
        BY <2>2 DEF Order, Indications
      <3>5. \A j \in 1 .. i - 1 : indicated[j] < indicated[i]
        BY <3>2, <3>4
      <3>6. ASSUME NEW n \in 1 .. indicated[i] - 1, IsGood(n)
            PROVE  \E j \in 1 .. i - 1 : indicated[j] = n
        <4>1. n \in Nat /\ n <= m /\ n < indicated[i]
          BY <3>1, <3>2, <3>3
        <4>2. PICK j \in DOMAIN indicated : indicated[j] = n
          BY <3>1, <3>6, <4>1 DEF IsIndicated
        <4>3. ~(i < j) /\ i # j
          BY <3>2, <3>4, <4>1, <4>2
        <4> QED
          BY <3>2, <4>2, <4>3
      <3> QED
        BY <3>3, <3>5, <3>6
    <2> QED
      BY <2>3, <2>4
  <1> QED
    BY Invariance, <1>1, PTL

\* Until then, when the interrupt is over and none is pending, every good frame
\* has been indicated, the ring is the DMA's, and the DMA is not waiting: RI is
\* cleared early enough, and the tail pointer is written often enough.
THEOREM InterruptLeavesNothing == ModeSpec => []NothingLeftBehind
  <1>1. IInv => NothingLeftBehind
    <2> SUFFICES ASSUME IInv, downs = 0, pc = "idle", ~ri
                 PROVE  /\ \A n \in DOMAIN arrived : IsGood(n) => IsIndicated(n)
                        /\ \A s \in Slots : own[s]
                        /\ ~suspended
      BY DEF NothingLeftBehind, NothingLeftUnread, inIrq
    <2>1. TypeOK
      BY DEF IInv, ModeTypeOK
    <2>2. PICK h \in 0 .. Len(arrived) : Order(h)
      BY DEF IInv, OrderInv
    <2>3. h = Len(arrived) /\ ~suspended
      BY <2>2 DEF Order, Wakes
    <2>4. \A s \in Slots : own[s]
      <3>1. Chain(Len(arrived))
        BY <2>2, <2>3 DEF Order
      <3>2. \A s \in Slots : ~Pending(s)
        BY <2>1, <3>1, AllOwned
      <3> QED
        BY <3>2 DEF Pending, Mine, Busy
    <2>5. \A n \in DOMAIN arrived : n \in Nat /\ n <= h
      BY <2>1, <2>3 DEF TypeOK
    <2> QED
      BY <2>2, <2>3, <2>4, <2>5 DEF Order, Indications
  <1> QED
    BY Invariance, <1>1, PTL
=============================================================================
