------------------------------- MODULE EthTx -------------------------------
(***************************************************************************)
(* The transmit path of the Ethernet driver for one Tx FIFO: the           *)
(* descriptor ring of RTD/src/Gmac_Ip.c, the request list of RTD/src/Eth.c *)
(* and the Tx interrupt, shared by three actors:                           *)
(*   - the task: Eth_ProvideTxBuffer, memcpy of the payload, Eth_Transmit; *)
(*   - the Tx interrupt: GMAC_TxIRQHandler -> Eth_TxIrqCallback ->         *)
(*     Eth_ReportTransmission -> Gmac_Ip_GetTransmitStatus;                *)
(*   - the DMA, which sends the descriptors it owns in ring order.         *)
(* Nothing in the driver masks the interrupt, so it may preempt the task   *)
(* between any two stores to shared memory; the task never runs inside the *)
(* interrupt.  A buffer is named by the ring slot whose Des0 points to it  *)
(* at initialisation, an entry of Eth_axTxBufferIdxMap by its index.       *)
(* The DMA's write-back puts a time stamp where that pointer was.          *)
(***************************************************************************)
EXTENDS Integers, Sequences

CONSTANTS
    RingSize,   \* Gmac_Ip_TxRingConfigType.RingSize
    MaxFrames,  \* bound: number of frames the task tries to send
    FrameLens,  \* lengths of the frames, Ethernet header included
    BufferBase, \* address of the ring's data buffers
    Stamp,      \* a time stamp in Des0, which is no buffer's address
    NULL        \* NULL_PTR, and the 0 that clears Info0

ASSUME RingAssumption ==
    /\ RingSize \in Nat \ {0}
    /\ MaxFrames \in Nat
    /\ FrameLens \subseteq Nat
    /\ BufferBase \in Nat
    /\ NULL \notin Nat
    /\ Stamp \notin Nat \cup {NULL}

BufferLen == 1536
Slots == 0 .. RingSize - 1

VARIABLES
    own,       \* TDES3_OWN of each descriptor
    locked,    \* INFO1_LOCKED of each descriptor
    des0,      \* Des0: the buffer the descriptor points to, or a time stamp
    info0,     \* Info0: the buffer whose frame the descriptor carries
    txCurrent, \* TxCurrentDesc, where Gmac_Ip_GetTxBuff looks
    tail,      \* DMA_TXDESC_TAIL_POINTER, where Gmac_Ip_SendFrame writes
    dma,       \* the descriptor the DMA handles next
    ti,        \* DMA_STATUS.TI
    bufData,   \* Eth_axTxBufferIdxMap[i].pu8BufferData
    next,      \* Eth_axTxBufferIdxMap[i].pNextBuffer
    qHead,     \* Eth_axTransmissionRequests.pQueueHead
    qTail,     \* Eth_axTransmissionRequests.pQueueTail
    pc,        \* position of the task in the transmit call sequence
    bufIdx,    \* the task's buffer index
    frameBuf,  \* the task's local FrameBuffer / ethPayload pointer
    inIrq,     \* the Tx interrupt handler is running
    iter,      \* its list iterator
    content,   \* frame number last copied into each buffer, 0 for none
    length,    \* length of that frame
    attempts,  \* number of frames the task has tried to send
    accepted,  \* history: frames handed to the DMA, in order
    wire,      \* history: frames the DMA sent, in order
    confirmed, \* history: EthIf_TxConfirmation calls, by frame
    early      \* history: descriptors reported before the DMA had them

descriptors == <<own, locked, des0, info0>>
requests == <<bufData, next, qHead, qTail>>
task == <<pc, bufIdx, frameBuf, attempts>>
memory == <<content, length>>
vars == <<descriptors, txCurrent, tail, dma, ti, requests, task, inIrq, iter,
          memory, accepted, wire, confirmed, early>>

\* Slip: the last descriptor is not wrapped to the first.
Mut_Successor(s) == s + 1

Successor(s) == (s + 1) % RingSize

PAGE_SIZE_4KB == 4096

\* Check_4KB_Boundary_Cross of FlexCAN_SKKU.c, which nothing calls.
Check_4KB_Boundary_Cross(bufAddr, txLen) ==
    LET pageEnd == (bufAddr - (bufAddr % PAGE_SIZE_4KB)) + PAGE_SIZE_4KB - 1
        bufEnd == bufAddr + txLen - 1
    IN  txLen # 0 /\ bufEnd > pageEnd

BufferAddress(b) == BufferBase + BufferLen * b

\* Gmac_Ip_InitTxBD and the zero-initialised request list.
Init ==
    /\ own = [s \in Slots |-> FALSE]
    /\ locked = [s \in Slots |-> FALSE]
    /\ des0 = [s \in Slots |-> s]
    /\ info0 = [s \in Slots |-> NULL]
    /\ txCurrent = 0
    /\ tail = 0
    /\ dma = 0
    /\ ti = FALSE
    /\ bufData = [s \in Slots |-> NULL]
    /\ next = [s \in Slots |-> NULL]
    /\ qHead = NULL
    /\ qTail = NULL
    /\ pc = "idle"
    /\ bufIdx = 0
    /\ frameBuf = NULL
    /\ inIrq = FALSE
    /\ iter = NULL
    /\ content = [s \in Slots |-> 0]
    /\ length = [s \in Slots |-> 0]
    /\ attempts = 0
    /\ accepted = <<>>
    /\ wire = <<>>
    /\ confirmed = <<>>
    /\ early = {}
-----------------------------------------------------------------------------
(***************************************************************************)
(* The task.  Eth_ProvideTxBuffer is one step (only its last store, the    *)
(* LOCKED bit, is of interest to the others); Eth_Transmit is cut at every *)
(* store to the request list and at the two points of Gmac_Ip_SendFrame    *)
(* where the descriptor becomes visible: Info0, then OWN.                  *)
(***************************************************************************)
TaskRuns(at) == ~inIrq /\ pc = at

\* Slip: only one of the two reasons to refuse the descriptor is tested.
Mut_LockedOnly == locked[txCurrent]

\* The task asks for 1532 bytes of a 1536-byte buffer, so Gmac_Ip_GetTxBuff never
\* answers TX_BUFF_OVERFLOW; it refuses a descriptor in use.
TxBufferBusy == own[txCurrent] \/ locked[txCurrent]

\* Slip: the ring pointer moves on although the descriptor was busy.
Mut_ProvideBusy ==
    /\ TaskRuns("idle")
    /\ attempts < MaxFrames
    /\ TxBufferBusy
    /\ attempts' = attempts + 1
    /\ txCurrent' = Successor(txCurrent)
    /\ UNCHANGED <<descriptors, tail, dma, ti, requests, pc, bufIdx, frameBuf,
                   inIrq, iter, memory, accepted, wire, confirmed, early>>

ProvideBusy ==
    /\ TaskRuns("idle")
    /\ attempts < MaxFrames
    /\ TxBufferBusy
    /\ attempts' = attempts + 1
    /\ UNCHANGED <<descriptors, txCurrent, tail, dma, ti, requests, pc, bufIdx,
                   frameBuf, inIrq, iter, memory, accepted, wire, confirmed, early>>

ProvideTxBuffer ==
    /\ TaskRuns("idle")
    /\ attempts < MaxFrames
    /\ ~TxBufferBusy
    /\ attempts' = attempts + 1
    /\ locked' = [locked EXCEPT ![txCurrent] = TRUE]
    /\ bufIdx' = txCurrent
    /\ frameBuf' = des0[txCurrent]
    /\ bufData' = [bufData EXCEPT ![txCurrent] = des0[txCurrent]]
    /\ txCurrent' = Successor(txCurrent)
    /\ pc' = "copy"
    /\ UNCHANGED <<own, des0, info0, tail, dma, ti, next, qHead, qTail, inIrq,
                   iter, memory, accepted, wire, confirmed, early>>

\* The memcpy of the container and of the Ethernet header into the buffer.
CopyFrame(len) ==
    /\ TaskRuns("copy")
    /\ frameBuf \in Slots
    /\ content' = [content EXCEPT ![frameBuf] = attempts]
    /\ length' = [length EXCEPT ![frameBuf] = len]
    /\ pc' = "test_head"
    /\ UNCHANGED <<descriptors, txCurrent, tail, dma, ti, requests, bufIdx,
                   frameBuf, attempts, inIrq, iter, accepted, wire, confirmed,
                   early>>

\* The same memcpy to an address that is none of the ring's buffers.  It faults
\* or destroys whatever lies there: the program is followed no further.
CopyOutsideRing ==
    /\ TaskRuns("copy")
    /\ frameBuf \notin Slots
    /\ pc' = "wild"
    /\ UNCHANGED <<descriptors, txCurrent, tail, dma, ti, requests, bufIdx,
                   frameBuf, attempts, inIrq, iter, memory, accepted, wire,
                   confirmed, early>>

\* Eth_Transmit: refuse a buffer that is not allocated, read its pointer, then
\* if (NULL_PTR == pQueueHead).
TestHead ==
    /\ TaskRuns("test_head")
    /\ pc' = IF bufData[bufIdx] = NULL THEN "idle"
             ELSE IF qHead = NULL THEN "set_head" ELSE "link_tail"
    /\ frameBuf' = bufData[bufIdx]
    /\ UNCHANGED <<descriptors, txCurrent, tail, dma, ti, requests, bufIdx,
                   attempts, inIrq, iter, memory, accepted, wire, confirmed, early>>

\* pQueueHead = &Eth_axTxBufferIdxMap[BufIdx]
SetHead ==
    /\ TaskRuns("set_head")
    /\ qHead' = bufIdx
    /\ pc' = "set_tail"
    /\ UNCHANGED <<descriptors, txCurrent, tail, dma, ti, bufData, next, qTail,
                   bufIdx, frameBuf, attempts, inIrq, iter, memory, accepted,
                   wire, confirmed, early>>

\* pQueueTail->pNextBuffer = &Eth_axTxBufferIdxMap[BufIdx]
LinkTail ==
    /\ TaskRuns("link_tail")
    /\ next' = [next EXCEPT ![qTail] = bufIdx]
    /\ pc' = "set_tail"
    /\ UNCHANGED <<descriptors, txCurrent, tail, dma, ti, bufData, qHead, qTail,
                   bufIdx, frameBuf, attempts, inIrq, iter, memory, accepted,
                   wire, confirmed, early>>

\* pQueueTail = &Eth_axTxBufferIdxMap[BufIdx]
SetTail ==
    /\ TaskRuns("set_tail")
    /\ qTail' = bufIdx
    /\ pc' = "end_list"
    /\ UNCHANGED <<descriptors, txCurrent, tail, dma, ti, bufData, next, qHead,
                   bufIdx, frameBuf, attempts, inIrq, iter, memory, accepted,
                   wire, confirmed, early>>

\* Slip: the pointer of the entry's previous use is left in place.
Mut_EndList ==
    /\ TaskRuns("end_list")
    /\ pc' = "send"
    /\ UNCHANGED <<descriptors, txCurrent, tail, dma, ti, requests, bufIdx,
                   frameBuf, attempts, inIrq, iter, memory, accepted, wire,
                   confirmed, early>>

\* pQueueTail->pNextBuffer = NULL_PTR
EndList ==
    /\ TaskRuns("end_list")
    /\ next' = [next EXCEPT ![qTail] = NULL]
    /\ pc' = "send"
    /\ UNCHANGED <<descriptors, txCurrent, tail, dma, ti, bufData, qHead, qTail,
                   bufIdx, frameBuf, attempts, inIrq, iter, memory, accepted,
                   wire, confirmed, early>>

\* Gmac_Ip_SendFrame up to the barrier: TX_QUEUE_FULL if the DMA still owns
\* the tail descriptor (the request stays listed), else its Des0 and Info0.
SendFrame ==
    /\ TaskRuns("send")
    /\ IF own[tail]
       THEN pc' = "idle" /\ UNCHANGED <<des0, info0>>
       ELSE /\ des0' = [des0 EXCEPT ![tail] = frameBuf]
            /\ info0' = [info0 EXCEPT ![tail] = frameBuf]
            /\ pc' = "give"
    /\ UNCHANGED <<own, locked, txCurrent, tail, dma, ti, requests, bufIdx,
                   frameBuf, attempts, inIrq, iter, memory, accepted, wire,
                   confirmed, early>>

\* "OWN should be written at the last step", then the tail pointer moves on.
GiveToDma ==
    /\ TaskRuns("give")
    /\ own' = [own EXCEPT ![tail] = TRUE]
    /\ accepted' = Append(accepted, content[des0[tail]])
    /\ pc' = "advance"
    /\ UNCHANGED <<locked, des0, info0, txCurrent, tail, dma, ti, requests,
                   bufIdx, frameBuf, attempts, inIrq, iter, memory, wire,
                   confirmed, early>>

\* Slip: the tail pointer is not moved.
Mut_AdvanceTail ==
    /\ TaskRuns("advance")
    /\ pc' = "idle"
    /\ UNCHANGED <<descriptors, txCurrent, tail, dma, ti, requests, bufIdx,
                   frameBuf, attempts, inIrq, iter, memory, accepted, wire,
                   confirmed, early>>

AdvanceTail ==
    /\ TaskRuns("advance")
    /\ tail' = Successor(tail)
    /\ pc' = "idle"
    /\ UNCHANGED <<descriptors, txCurrent, dma, ti, requests, bufIdx, frameBuf,
                   attempts, inIrq, iter, memory, accepted, wire, confirmed, early>>
-----------------------------------------------------------------------------
(***************************************************************************)
(* The DMA: sends the frame of the next descriptor it owns, hands the      *)
(* descriptor back and raises TI (every descriptor asks for it with IOC).  *)
(* Every descriptor also asks for the time stamp with TTSE, and the clock  *)
(* runs (Gmac_Ip_InitSysTime): the write-back stores it over Des0.         *)
(***************************************************************************)
DmaSend ==
    /\ own[dma]
    /\ own' = [own EXCEPT ![dma] = FALSE]
    /\ des0' = [des0 EXCEPT ![dma] = Stamp]
    /\ wire' = Append(wire, content[des0[dma]])
    /\ dma' = Successor(dma)
    /\ ti' = TRUE
    /\ UNCHANGED <<locked, info0, txCurrent, tail, requests, task, inIrq, iter,
                   memory, accepted, confirmed, early>>
-----------------------------------------------------------------------------
(***************************************************************************)
(* The Tx interrupt: TI is cleared first, then the list is walked from its *)
(* head until an entry's frame is not done.                                *)
(***************************************************************************)
TxIrqEnter ==
    /\ ti
    /\ ~inIrq
    /\ ti' = FALSE
    /\ inIrq' = TRUE
    /\ iter' = qHead
    /\ UNCHANGED <<descriptors, txCurrent, tail, dma, requests, task, memory,
                   accepted, wire, confirmed, early>>

\* The search of Gmac_Ip_GetTransmitStatus: the first descriptor whose Info0
\* equals the entry's buffer pointer.
Carries(s, i) ==
    /\ info0[s] = bufData[i]
    /\ \A r \in Slots : r < s => info0[r] # bufData[i]

TransmissionDone(i) == i # NULL /\ \E s \in Slots : Carries(s, i) /\ ~own[s]

\* Slip: the time stamp is left in Des0.
Mut_ReportEntry(s) ==
    /\ inIrq
    /\ iter # NULL
    /\ Carries(s, iter)
    /\ ~own[s]
    /\ confirmed' = Append(confirmed, content[iter])
    /\ early' = IF pc = "give" /\ s = tail THEN early \cup {s} ELSE early
    /\ info0' = [info0 EXCEPT ![s] = NULL]
    /\ locked' = [locked EXCEPT ![s] = FALSE]
    /\ bufData' = [bufData EXCEPT ![iter] = NULL]
    /\ qHead' = next[iter]
    /\ iter' = next[iter]
    /\ UNCHANGED <<own, des0, txCurrent, tail, dma, ti, next, qTail, task, inIrq,
                   memory, accepted, wire>>

\* One entry reported: its descriptor gets its buffer back and is unlocked, and
\* the entry is dequeued.  Between Info0 and OWN that comes too early.
ReportEntry(s) ==
    /\ inIrq
    /\ iter # NULL
    /\ Carries(s, iter)
    /\ ~own[s]
    /\ confirmed' = Append(confirmed, content[iter])
    /\ early' = IF pc = "give" /\ s = tail THEN early \cup {s} ELSE early
    /\ des0' = [des0 EXCEPT ![s] = info0[s]]
    /\ info0' = [info0 EXCEPT ![s] = NULL]
    /\ locked' = [locked EXCEPT ![s] = FALSE]
    /\ bufData' = [bufData EXCEPT ![iter] = NULL]
    /\ qHead' = next[iter]
    /\ iter' = next[iter]
    /\ UNCHANGED <<own, txCurrent, tail, dma, ti, next, qTail, task, inIrq,
                   memory, accepted, wire>>

\* Slip: the handler waits for an unfinished frame instead of giving up.
Mut_TxIrqExit ==
    /\ inIrq
    /\ iter = NULL
    /\ inIrq' = FALSE
    /\ UNCHANGED <<descriptors, txCurrent, tail, dma, ti, requests, task, iter,
                   memory, accepted, wire, confirmed, early>>

\* Slip: one entry for one interrupt, whatever else is done.
Mut_OneEntry ==
    /\ inIrq
    /\ inIrq' = FALSE
    /\ iter' = NULL
    /\ UNCHANGED <<descriptors, txCurrent, tail, dma, ti, requests, task, memory,
                   accepted, wire, confirmed, early>>

TxIrqExit ==
    /\ inIrq
    /\ ~TransmissionDone(iter)
    /\ inIrq' = FALSE
    /\ iter' = NULL
    /\ UNCHANGED <<descriptors, txCurrent, tail, dma, ti, requests, task, memory,
                   accepted, wire, confirmed, early>>
-----------------------------------------------------------------------------
TaskStep ==
    \/ ProvideBusy
    \/ ProvideTxBuffer
    \/ \E len \in FrameLens : CopyFrame(len)
    \/ CopyOutsideRing
    \/ TestHead
    \/ SetHead
    \/ LinkTail
    \/ SetTail
    \/ EndList
    \/ SendFrame
    \/ GiveToDma
    \/ AdvanceTail

IrqStep ==
    \/ TxIrqEnter
    \/ \E s \in Slots : ReportEntry(s)
    \/ TxIrqExit

Next == TaskStep \/ IrqStep \/ DmaSend

Spec == Init /\ [][Next]_vars

(***************************************************************************)
(* The DMA keeps sending what it owns (the gate of every FIFO opens once   *)
(* per cycle), a raised interrupt is taken and runs to its end, and a call *)
(* the task has begun is continued; the task need not start a new one.     *)
(***************************************************************************)
Fairness ==
    /\ WF_vars(DmaSend)
    /\ WF_vars(IrqStep)
    /\ WF_vars(pc # "idle" /\ TaskStep)

FairSpec == Spec /\ Fairness
-----------------------------------------------------------------------------
TaskPositions == {"idle", "copy", "wild", "test_head", "set_head", "link_tail",
                  "set_tail", "end_list", "send", "give", "advance"}

Nullable == Slots \cup {NULL}

\* Ring positions and list entries stay inside the ring; a buffer pointer is a
\* buffer of the ring, NULL_PTR or a time stamp read back from Des0, and Info0
\* is never a time stamp.
TypeOK ==
    /\ own \in [Slots -> BOOLEAN]
    /\ locked \in [Slots -> BOOLEAN]
    /\ des0 \in [Slots -> Slots \cup {Stamp}]
    /\ info0 \in [Slots -> Nullable]
    /\ txCurrent \in Slots
    /\ tail \in Slots
    /\ dma \in Slots
    /\ ti \in BOOLEAN
    /\ bufData \in [Slots -> Nullable \cup {Stamp}]
    /\ next \in [Slots -> Nullable]
    /\ qHead \in Nullable
    /\ qTail \in Nullable
    /\ pc \in TaskPositions
    /\ bufIdx \in Slots
    /\ frameBuf \in Nullable \cup {Stamp}
    /\ inIrq \in BOOLEAN
    /\ iter \in Nullable
    /\ content \in [Slots -> Nat]
    /\ length \in [Slots -> Nat]
    /\ attempts \in Nat
    /\ accepted \in Seq(Nat)
    /\ wire \in Seq(Nat)
    /\ confirmed \in Seq(Nat)
    /\ early \subseteq Slots

\* What the task is granted is the descriptor's own buffer, and no descriptor
\* the DMA owns points to it, so a frame on the wire is never a mixture; unless
\* the descriptor's last frame was reported too early, which is the only way a
\* time stamp is taken for a buffer.
NoWriteUnderDma ==
    pc = "copy" =>
        \/ frameBuf = bufIdx /\ \A s \in Slots : own[s] => des0[s] # frameBuf
        \/ frameBuf = Stamp /\ bufIdx \in early

\* Gmac_Ip_GetTxBuff and Gmac_Ip_SendFrame walk the ring with two separate
\* pointers; a buffer granted through the first is always accepted at the
\* second, so Eth_Transmit never fails with TX_QUEUE_FULL (which would leave
\* the request listed and the descriptor locked).
GrantedBufferIsSendable == pc = "send" => tail = bufIdx /\ ~own[tail]

\* The interrupt never looks up an entry whose buffer pointer was cleared: a 0
\* there would match the Info0 of an unused descriptor and unlock it.
NoNullLookup == inIrq /\ iter # NULL => bufData[iter] # NULL

\* The frames on the wire are the frames Eth_Transmit accepted, in that order,
\* none lost, repeated or overwritten, as long as the task writes no frame
\* outside the ring; the rest are in the descriptors the DMA owns, starting at
\* the one it handles next, each of which points to the buffer of its frame.
InFlight == Len(accepted) - Len(wire)

WireOrder ==
    /\ InFlight \in 0..RingSize
    /\ wire = SubSeq(accepted, 1, Len(wire))
    /\ \A k \in 0 .. RingSize - 1 :
          LET s == (dma + k) % RingSize
          IN  /\ own[s] <=> k < InFlight
              /\ own[s] => /\ des0[s] \in Slots
                           /\ content[des0[s]] = accepted[Len(wire) + k + 1]

\* A frame is confirmed at most once and confirmations follow the order of
\* transmission, whatever the interrupt preempts.
ConfirmOnceInOrder ==
    \A i, j \in DOMAIN confirmed : i < j => confirmed[i] < confirmed[j]

\* No completion is forgotten, although TI is cleared before the list is walked
\* and one TI may stand for several frames: when no interrupt is pending or
\* running, the request at the head of the list is not finished.  (It only looks
\* finished between the stores of Info0 and OWN.)
CompletionsAreSeen ==
    ~inIrq /\ ~ti /\ TransmissionDone(qHead) => pc = "give" /\ qHead = bufIdx

\* Every frame Eth_Transmit accepted reaches the wire.
AcceptedReachesWire ==
    \A n \in 1..MaxFrames :
        (Len(accepted) >= n) ~> (Len(wire) >= n)

\* The walk over the request list ends: the interrupt neither runs around a
\* cycle of stale pNextBuffer pointers nor waits for a frame that the task it
\* preempted has listed but not yet handed to the DMA.
IrqTerminates == inIrq ~> ~inIrq

\* "Check all buffers previously queued for transmission" (Eth.c:1575): once
\* the task, the DMA and the interrupt are at rest, every accepted frame has
\* been checked and confirmed.
AllQueuedAreChecked ==
    (pc = "idle" /\ ~inIrq /\ ~ti /\ \A s \in Slots : ~own[s]) =>
        \A i \in DOMAIN accepted : \E j \in DOMAIN confirmed :
            confirmed[j] = accepted[i]

\* "Relies on function "Gmac_Ip_GetTransmitStatus" to restore the Buffer address
\* pointer" (Gmac_Ip.c:1385): what Gmac_Ip_GetTxBuff grants is a buffer.
GrantedBufferIsRestored == pc = "copy" => frameBuf \in Slots

\* "4KB Boundary Crossing Fix" (FlexCAN_SKKU.c:3): no frame handed to the DMA
\* lies across a 4 KB boundary.
NoBoundaryCrossing ==
    \A s \in Slots :
        own[s] => ~Check_4KB_Boundary_Cross(BufferAddress(des0[s]), length[des0[s]])
=============================================================================
