----------------------------- MODULE Aggregator -----------------------------
(***************************************************************************)
(* The aggregation task ETH_PDU_Send_TAS of src/src/FlexCAN_SKKU.c: it     *)
(* takes CAN-FD frames from xQueue_CAN, packs them as I-PDUs into one      *)
(* container and flushes the container through Eth_ProvideTxBuffer and     *)
(* Eth_Transmit when a PDU did not fit, when the container is full or when *)
(* the time-aware gate of FIFO 0 is open.                                  *)
(*                                                                         *)
(* One loop iteration is cut where the task touches something shared: the  *)
(* queue ("source"), the gate clock ("decide"), the Tx ring ("provide",    *)
(* "transmit").  The queue's producer, the gate and the outcome of the two *)
(* driver calls are the environment.                                       *)
(***************************************************************************)
EXTENDS Integers, Sequences

CONSTANTS
    CanIds,      \* CAN identifiers that may be queued, mapped or not
    Payloads,    \* payload contents, told apart but not interpreted
    PduLens,     \* values of Flexcan_Ip_MsgBuffType.dataLen
    CanPduMap,   \* the routing table: CAN id -> [pduId, trafficClass]
    MaxSend,     \* CONTAINER_MAX_SIZE - 18
    QueueLength, \* capacity of xQueue_CAN
    MaxOffered   \* bound: number of frames the CAN side offers

GW_CONTAINER_HDR_SIZE == 2
GW_IPDU_HDR_SIZE == 3
TC_BEST_EFFORT == 7

ASSUME SizesAssumption ==
    /\ PduLens \subseteq Nat
    /\ MaxSend \in Nat
    /\ \A l \in PduLens : GW_CONTAINER_HDR_SIZE + GW_IPDU_HDR_SIZE + l <= MaxSend
    /\ QueueLength \in Nat
    /\ MaxOffered \in Nat

ASSUME MapAssumption ==
    CanPduMap \in [DOMAIN CanPduMap -> [pduId : Nat, tc : 0..TC_BEST_EFFORT]]

\* No two entries of the table have the same PDU id.
ASSUME TableAssumption ==
    \A a, b \in DOMAIN CanPduMap : CanPduMap[a].pduId = CanPduMap[b].pduId => a = b

Frames == [msgId : CanIds, dataLen : PduLens, data : Payloads]

\* An I-PDU as it stands in the container: the mapped id replaces the CAN id.
PduIds == {CanPduMap[id].pduId : id \in DOMAIN CanPduMap}

Pdus == [pduId : PduIds, len : PduLens, data : Payloads]

VARIABLES
    queue,            \* xQueue_CAN
    overflowPdu,      \* hasOverflowPdu / overflowPdu: <<>> or <<frame>>
    containerPending,
    pdus,             \* the I-PDUs written into currentContainer
    containerLen,
    iPduCount,        \* a uint8
    currentTC,
    pc,               \* the task's position in the loop
    gateOpen,         \* what TAS_IsGateOpen_FIFOx(0) answers now
    canStats,         \* the counters of CANStatistics_t this task and the CAN side use
    sent,             \* containers Eth_Transmit accepted, in order
    taken,            \* history: I-PDUs taken from the queue, in order
    flushed,          \* history: I-PDUs of all containers reset so far, in order
    offered,          \* number of frames the CAN side offered
    late              \* history: containers with room left that the driver got
                      \* since the gate last closed

container == <<containerPending, pdus, containerLen, iPduCount, currentTC>>
vars == <<queue, overflowPdu, container, pc, gateOpen, canStats, sent, taken,
          flushed, offered, late>>

ToPdu(f) ==
    [pduId |-> CanPduMap[f.msgId].pduId, len |-> f.dataLen, data |-> f.data]

GW_Mapped(f) == f.msgId \in DOMAIN CanPduMap

\* Slip: the traffic class itself used as FIFO number.
Mut_TC_to_FIFO(tc) == tc

TC_to_FIFO(tc) == IF tc <= 2 THEN 0 ELSE IF tc <= 5 THEN 1 ELSE 2

Smaller(a, b) == IF a < b THEN a ELSE b

Init ==
    /\ queue = <<>>
    /\ overflowPdu = <<>>
    /\ containerPending = FALSE
    /\ pdus = <<>>
    /\ containerLen = 0
    /\ iPduCount = 0
    /\ currentTC = TC_BEST_EFFORT
    /\ pc = "source"
    /\ gateOpen \in BOOLEAN
    /\ canStats = [rxCount |-> 0, queueFullErrors |-> 0, containersSent |-> 0,
                   ethTxErrors |-> 0, ethBufferErrors |-> 0]
    /\ sent = <<>>
    /\ taken = <<>>
    /\ flushed = <<>>
    /\ offered = 0
    /\ late = 0
-----------------------------------------------------------------------------
(***************************************************************************)
(* The environment: the receive callback queues frames (and counts the     *)
(* ones a full queue refuses), and the gate of FIFO 0 opens and closes.    *)
(***************************************************************************)
CAN0_Callback(f) ==
    /\ offered < MaxOffered
    /\ offered' = offered + 1
    /\ \/ /\ Len(queue) < QueueLength
          /\ queue' = Append(queue, f)
          /\ canStats' = [canStats EXCEPT !.rxCount = @ + 1]
       \/ /\ Len(queue) >= QueueLength
          /\ canStats' = [canStats EXCEPT !.rxCount = @ + 1,
                                          !.queueFullErrors = @ + 1]
          /\ UNCHANGED queue
    /\ UNCHANGED <<overflowPdu, container, pc, gateOpen, sent, taken, flushed,
                   late>>

GateChange ==
    /\ gateOpen' = ~gateOpen
    /\ late' = 0
    /\ UNCHANGED <<queue, overflowPdu, container, pc, canStats, sent, taken,
                   flushed, offered>>
-----------------------------------------------------------------------------
(***************************************************************************)
(* Steps 1 and 2 of the loop: choose the PDU source, map the PDU, start a  *)
(* container if none is pending, append the PDU or set it aside.           *)
(***************************************************************************)
\* Slip: only the Ethernet header reserved, not the 4 bytes after the payload.
Mut_FitsWithin(len, required) == len + required <= MaxSend + 4

FitsWithin(len, required) == len + required <= MaxSend

\* The container the PDU meets: the pending one or a fresh one.
StartedLen == IF containerPending THEN containerLen ELSE GW_CONTAINER_HDR_SIZE
StartedPdus == IF containerPending THEN pdus ELSE <<>>
StartedCount == IF containerPending THEN iPduCount ELSE 0
\* Slip: a fresh container keeps the class of the one before.
Mut_StartedTC(tc) == currentTC

StartedTC(tc) == IF containerPending THEN currentTC ELSE tc

AddPdu(f) ==
    /\ GW_Mapped(f)
    /\ FitsWithin(StartedLen, GW_IPDU_HDR_SIZE + f.dataLen)
    /\ containerPending' = TRUE
    /\ pdus' = Append(StartedPdus, ToPdu(f))
    /\ containerLen' = StartedLen + GW_IPDU_HDR_SIZE + f.dataLen
    /\ iPduCount' = (StartedCount + 1) % 256
    /\ currentTC' = Smaller(CanPduMap[f.msgId].tc, StartedTC(CanPduMap[f.msgId].tc))
    /\ overflowPdu' = <<>>
    /\ pc' = "decide"

\* Slip: the PDU that does not fit is not set aside.
Mut_CarryOver(f) ==
    /\ GW_Mapped(f)
    /\ ~FitsWithin(StartedLen, GW_IPDU_HDR_SIZE + f.dataLen)
    /\ overflowPdu' = <<>>
    /\ pc' = "decide"
    /\ UNCHANGED container

CarryOver(f) ==
    /\ GW_Mapped(f)
    /\ ~FitsWithin(StartedLen, GW_IPDU_HDR_SIZE + f.dataLen)
    /\ containerPending' = TRUE
    /\ pdus' = StartedPdus
    /\ containerLen' = StartedLen
    /\ iPduCount' = StartedCount
    /\ currentTC' = StartedTC(CanPduMap[f.msgId].tc)
    /\ overflowPdu' = <<f>>
    /\ pc' = "decide"

\* A CAN id without a mapping: "continue", back to the top of the loop.
IgnorePdu(f) ==
    /\ ~GW_Mapped(f)
    /\ overflowPdu' = <<>>
    /\ pc' = "source"
    /\ UNCHANGED container

ProcessPdu(f) == AddPdu(f) \/ CarryOver(f) \/ IgnorePdu(f)

ProcessOverflow ==
    /\ pc = "source"
    /\ overflowPdu # <<>>
    /\ ProcessPdu(overflowPdu[1])
    /\ UNCHANGED <<queue, gateOpen, canStats, sent, taken, flushed, offered, late>>

\* Slip: a PDU that is set aside also goes back to the queue.
Mut_ReceiveFromQueue ==
    /\ pc = "source"
    /\ overflowPdu = <<>>
    /\ queue # <<>>
    /\ ProcessPdu(Head(queue))
    /\ queue' = Tail(queue) \o overflowPdu'
    /\ UNCHANGED <<gateOpen, canStats, sent, taken, flushed, offered, late>>

ReceiveFromQueue ==
    /\ pc = "source"
    /\ overflowPdu = <<>>
    /\ queue # <<>>
    /\ ProcessPdu(Head(queue))
    /\ queue' = Tail(queue)
    /\ taken' = IF GW_Mapped(Head(queue)) THEN Append(taken, ToPdu(Head(queue)))
                                          ELSE taken
    /\ UNCHANGED <<gateOpen, canStats, sent, flushed, offered, late>>

QueueEmpty ==
    /\ pc = "source"
    /\ overflowPdu = <<>>
    /\ queue = <<>>
    /\ pc' = "decide"
    /\ UNCHANGED <<queue, overflowPdu, container, gateOpen, canStats, sent,
                   taken, flushed, offered, late>>
-----------------------------------------------------------------------------
(***************************************************************************)
(* Step 3: the transmission condition, evaluated once per iteration.       *)
(***************************************************************************)
\* Slips: an overflow does not force the flush; the gate does not release a
\* container; any non-empty container goes out at once (the #if 0 variant).
Mut_NoOverflowFlush ==
    containerPending /\ containerLen > GW_CONTAINER_HDR_SIZE
        /\ (containerLen >= MaxSend \/ gateOpen)

Mut_OnlyFullFlush == containerPending /\ containerLen >= MaxSend

Mut_AnyLengthFlush == containerLen >= 2

ShouldTransmit ==
    /\ containerPending
    /\ containerLen > GW_CONTAINER_HDR_SIZE
    /\ \/ overflowPdu # <<>>
       \/ containerLen >= MaxSend
       \/ gateOpen /\ containerLen >= 2

Decide ==
    /\ pc = "decide"
    /\ pc' = IF ShouldTransmit THEN "provide" ELSE "source"
    /\ UNCHANGED <<queue, overflowPdu, container, gateOpen, canStats, sent,
                   taken, flushed, offered, late>>
-----------------------------------------------------------------------------
(***************************************************************************)
(* Step 4: acquire a Tx buffer, copy and transmit; the container is reset  *)
(* whether that succeeded or not.                                          *)
(***************************************************************************)
ResetContainer ==
    /\ containerPending' = FALSE
    /\ containerLen' = 0
    /\ iPduCount' = 0
    /\ pdus' = <<>>
    /\ flushed' = flushed \o pdus
    /\ pc' = "source"
    /\ UNCHANGED currentTC

ProvideOk ==
    /\ pc = "provide"
    /\ pc' = "transmit"
    /\ UNCHANGED <<queue, overflowPdu, container, gateOpen, canStats, sent,
                   taken, flushed, offered, late>>

ProvideFails ==
    /\ pc = "provide"
    /\ canStats' = [canStats EXCEPT !.ethBufferErrors = @ + 1]
    /\ ResetContainer
    /\ UNCHANGED <<queue, overflowPdu, gateOpen, sent, taken, offered, late>>

\* What the Ethernet payload holds after the memcpy of currentContainer.
Container == [fifo |-> TC_to_FIFO(currentTC), count |-> iPduCount,
              len |-> containerLen, pdus |-> pdus]

\* Some PDU of the bus would not fit any more.
HasNoRoom == \E l \in PduLens : ~FitsWithin(containerLen, GW_IPDU_HDR_SIZE + l)

\* Slip: the container is not reset after a successful transmission.
Mut_TransmitOk ==
    /\ pc = "transmit"
    /\ sent' = Append(sent, Container)
    /\ pc' = "source"
    /\ UNCHANGED <<queue, overflowPdu, container, gateOpen, canStats, taken,
                   flushed, offered, late>>

TransmitOk ==
    /\ pc = "transmit"
    /\ sent' = Append(sent, Container)
    /\ canStats' = [canStats EXCEPT !.containersSent = @ + 1]
    /\ late' = IF gateOpen \/ HasNoRoom THEN late ELSE late + 1
    /\ ResetContainer
    /\ UNCHANGED <<queue, overflowPdu, gateOpen, taken, offered>>

TransmitFails ==
    /\ pc = "transmit"
    /\ canStats' = [canStats EXCEPT !.ethTxErrors = @ + 1]
    /\ ResetContainer
    /\ UNCHANGED <<queue, overflowPdu, gateOpen, sent, taken, offered, late>>
-----------------------------------------------------------------------------
TaskStep ==
    \/ ProcessOverflow
    \/ ReceiveFromQueue
    \/ QueueEmpty
    \/ Decide
    \/ ProvideOk
    \/ ProvideFails
    \/ TransmitOk
    \/ TransmitFails

Next ==
    \/ TaskStep
    \/ GateChange
    \/ \E f \in Frames : CAN0_Callback(f)

Spec == Init /\ [][Next]_vars

(***************************************************************************)
(* The task is always ready and shares its priority with the CAN polling   *)
(* task under time slicing, so it keeps taking steps, and when it keeps    *)
(* evaluating its condition it does not do so only outside the window.     *)
(* The gate follows a cyclic list, so it keeps changing.                   *)
(***************************************************************************)
Fairness ==
    /\ WF_vars(TaskStep)
    /\ WF_vars(GateChange)
    /\ SF_vars(gateOpen /\ Decide)

\* Real-time assumption: TAS_IsGateOpen_FIFOx(0) answers true for 0.9 ms of
\* every 10 ms, far longer than one iteration of the loop, so the task stands
\* before its condition in an open window again and again.
GateSampled == []<>(gateOpen /\ pc = "decide")

FairSpec == Spec /\ Fairness
-----------------------------------------------------------------------------
Positions == {"source", "decide", "provide", "transmit"}

Containers == [fifo : 0..2, count : 0..255, len : Nat, pdus : Seq(Pdus)]

\* Every variable has the type its C declaration gives it.
TypeOK ==
    /\ queue \in Seq(Frames)
    /\ overflowPdu \in {<<>>} \cup {<<f>> : f \in Frames}
    /\ containerPending \in BOOLEAN
    /\ pdus \in Seq(Pdus)
    /\ containerLen \in Nat
    /\ iPduCount \in 0..255
    /\ currentTC \in 0..TC_BEST_EFFORT
    /\ pc \in Positions
    /\ gateOpen \in BOOLEAN
    /\ canStats \in [rxCount : Nat, queueFullErrors : Nat, containersSent : Nat,
                     ethTxErrors : Nat, ethBufferErrors : Nat]
    /\ sent \in Seq(Containers)
    /\ taken \in Seq(Pdus)
    /\ flushed \in Seq(Pdus)
    /\ offered \in Nat
    /\ late \in Nat

\* The PDU that waits in overflowPdu, as it will stand in its container.
SetAside == IF overflowPdu = <<>> THEN <<>> ELSE <<ToPdu(overflowPdu[1])>>

\* Every mapped PDU taken from xQueue_CAN is, exactly once and in arrival
\* order, in a container that was flushed, in the open container or in
\* overflowPdu: carrying a PDU over to the next container neither loses,
\* repeats nor reorders it.
PduConservation == taken = flushed \o pdus \o SetAside

\* overflowPdu holds a mapped PDU, and when the loop comes back to its top
\* with one, the container it did not fit into has been flushed: the carried
\* PDU opens the next container and is never overwritten by a second one.
CarryOverSafe ==
    overflowPdu # <<>> =>
        /\ GW_Mapped(overflowPdu[1])
        /\ containerPending <=> pc # "source"

\* The open container always holds a PDU and fits the Tx buffer the task asks
\* for, so the memcpy into the Ethernet payload stays inside the granted
\* buffer and no empty container is sent.
ContainerFits ==
    /\ containerPending => /\ pdus # <<>>
                           /\ GW_CONTAINER_HDR_SIZE < containerLen
                           /\ containerLen <= MaxSend
    /\ ~containerPending => pdus = <<>> /\ containerLen = 0
    /\ pc \in {"provide", "transmit"} => containerPending

\* The length of a container with these I-PDUs: its header, then the header and the
\* data of each.
WireSize(seq) ==
    LET upTo[n \in 0..Len(seq)] ==
            IF n = 0 THEN GW_CONTAINER_HDR_SIZE
                     ELSE upTo[n - 1] + GW_IPDU_HDR_SIZE + seq[n].len
    IN  upTo[Len(seq)]

ClassOf(p) ==
    CanPduMap[CHOOSE id \in DOMAIN CanPduMap : CanPduMap[id].pduId = p.pduId].tc

\* It travels in the FIFO of the most urgent class in it.
InUrgentFifo(c) ==
    \E j \in DOMAIN c.pdus :
        /\ \A k \in DOMAIN c.pdus : ClassOf(c.pdus[j]) <= ClassOf(c.pdus[k])
        /\ c.fifo = TC_to_FIFO(ClassOf(c.pdus[j]))

\* A receiver can parse every container the driver accepted: its length is the
\* header plus the headers and data of exactly its PDUs, its count byte is
\* their number, and it travels in the FIFO of the most urgent class in it.
SentContainersWellFormed ==
    \A i \in DOMAIN sent :
        /\ sent[i].len = WireSize(sent[i].pdus)
        /\ sent[i].count = Len(sent[i].pdus)
        /\ InUrgentFifo(sent[i])

\* The task asks for the gate once per iteration and hands the container over later
\* (FlexCAN_SKKU.c:579, 598-611), so the gate may close in between; this cuts short
\* at most one container per closing.  Every other container that leaves while the
\* gate is closed is so full that some PDU would not fit any more.
AtMostOneLateContainer == late <= 1

\* Every PDU the task takes is eventually flushed, even when the CAN side goes
\* silent and nothing pushes it out but the gate (given GateSampled).
TakenPdusLeave ==
    GateSampled => \A n \in 1..MaxOffered : Len(taken) >= n ~> Len(flushed) >= n

\* The task implements the abstract batch forwarder.
Forwarder == INSTANCE BatchForwarder WITH
    Items     <- Pdus,
    pending   <- pdus \o SetAside,
    delivered <- [i \in DOMAIN sent |-> sent[i].pdus]

\* Refinement: each PDU the task takes joins the end of a line from whose front
\* whole batches leave, delivered or dropped; no batch is ever reordered, cut
\* or mixed.
ForwardsInBatches == Forwarder!Spec
=============================================================================
